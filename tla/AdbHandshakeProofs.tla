------------------------- MODULE AdbHandshakeProofs -------------------------
(***************************************************************************)
(* What holds of adb_connect and of the readers after it for any number of *)
(* turns, messages and records without data: nothing adb_connect allocates *)
(* outlives a failure, and every message is acted on whole, once and in    *)
(* order until the program loses track of the stream.  The second rests on *)
(* how the pieces follow each other on the wire, records without data left *)
(* aside, and on the place in that line where the reader stands.           *)
(***************************************************************************)
EXTENDS AdbHandshake, SequenceTheorems, TLAPS

Command == {"AUTH", "CNXN", "STLS", "MSG"}
Message == [cmd : Command, n : Nat, size : 0 .. 3]
Piece   == [m : Message, u : 1 .. 4]
Wire    == Piece \cup {Ticket}

Shape ==
    /\ dev \in {"wait", "auth", "tls", "again", "online", "stls", "hello", "closed"}
    /\ sent \in Nat /\ down \in Seq(Wire) /\ got \in Seq(Piece)
    /\ pc \in {"connect", "select", "tls", "read", "idle", "done"}
    /\ mode \in {"plain", "tls", "poll", "drain"}
    /\ handled \in Seq([m : Message, whole : BOOLEAN])

(* Whether adb_connect runs, has handed its connection out or has failed,  *)
(* it holds just what it must then hold.                                   *)
Setting == pc \in {"select", "tls"} \/ (pc = "read" /\ mode \in {"plain", "tls"})
Online  == pc = "idle" \/ (pc = "read" /\ mode \in {"poll", "drain"})
Holdings ==
    /\ pc = "connect" => held = {} /\ ret = "none"
    /\ pc = "done" => held = {} /\ ret \in {"failed", "closed"}
    /\ Setting => held \ {"tls"} = {"conn", "fd", "payload"} /\ ret = "none"
    /\ Online => held \ {"tls"} = {"conn", "fd"} /\ ret = "connected"
    /\ pc \in {"connect", "select", "tls"} => mode = "plain"

(* The pieces follow each other: those of a message in their order, then   *)
(* the first of the next message.                                          *)
Size(m) == IF m.size = 0 THEN 2 ELSE 4
FollowedBy(x, y) ==
    IF x.u = Size(x.m) THEN y.m.n = x.m.n + 1 /\ y.u = 1
    ELSE y.m = x.m /\ y.u = x.u + 1
Blank(q, i, j) == \A l \in DOMAIN q : (i < l /\ l < j) => q[l] = Ticket
Consecutive(q) ==
    \A i, j \in DOMAIN q :
        (i < j /\ q[i] # Ticket /\ q[j] # Ticket /\ Blank(q, i, j)) => FollowedBy(q[i], q[j])

(* The reader holds the first pieces of the message that is due.           *)
Begun ==
    /\ pc # "read" => got = << >>
    /\ \A i \in DOMAIN got :
          got[i].m = got[1].m /\ got[i].u = i /\ got[i].m.n = Len(handled) + 1
    /\ got # << >> => Len(got) <= Size(got[1].m)

(* What is due after what was read, and that the wire ends where the       *)
(* device stopped sending, as long as the connection stands.               *)
Due(x) ==
    IF got = << >> THEN x.m.n = Len(handled) + 1 /\ x.u = 1
    ELSE FollowedBy(got[Len(got)], x)
Resumes == \A j \in DOMAIN down : (down[j] # Ticket /\ Blank(down, 0, j)) => Due(down[j])
IsLast(x) == x.m.n = sent /\ x.u = Size(x.m)
AllSent ==
    dev # "closed" =>
        /\ \A i \in DOMAIN down :
              (down[i] # Ticket /\ Blank(down, i, Len(down) + 1)) => IsLast(down[i])
        /\ Blank(down, 0, Len(down) + 1) =>
              IF got = << >> THEN Len(handled) = sent ELSE IsLast(got[Len(got)])

(* As long as the program keeps track of the stream.                       *)
InStep ==
    /\ Begun /\ Consecutive(down) /\ Resumes /\ AllSent
    /\ \A i \in DOMAIN handled : handled[i].whole /\ handled[i].m.n = i
    /\ state = "connected" => \E i \in DOMAIN handled : handled[i].m.cmd = "CNXN"

Inv == Shape /\ Holdings
Tracked == lost = {} => InStep

----------------------------------------------------------------------------
(* Pieces *)

LEMMA TicketIsNoPiece ==
    /\ Ticket \notin Piece /\ Nothing.cmd = "TICKET" /\ Nothing \notin Message
    /\ \A m \in Message : m.cmd # "TICKET"
  BY DEF Ticket, Nothing, Piece, Message, Command

(* A message's pieces, with at most one record without data among them:    *)
(* they follow each other from its first to its last.                      *)
Spelled(q, m) ==
    /\ q \in Seq(Wire) /\ Consecutive(q) /\ ~Blank(q, 0, Len(q) + 1)
    /\ \A i \in DOMAIN q : (q[i] # Ticket /\ Blank(q, 0, i)) => q[i].m = m /\ q[i].u = 1
    /\ \A i \in DOMAIN q : (q[i] # Ticket /\ Blank(q, i, Len(q) + 1)) => q[i].m = m /\ q[i].u = Size(m)

LEMMA SequenceOf ==
    ASSUME NEW S, NEW n \in Nat, NEW t \in [1 .. n -> S]
    PROVE  t \in Seq(S) /\ Len(t) = n
<1>1. t \in Seq(S)
  BY SeqDef
<1> QED
  BY <1>1, LenProperties

(* The pieces of a message, one by one. *)
LEMMA PiecesProperties ==
    ASSUME NEW m \in Message
    PROVE  /\ Pieces(m) \in Seq(Piece) /\ Len(Pieces(m)) = Size(m) /\ Size(m) \in {2, 4}
           /\ \A i \in 1 .. Size(m) : Pieces(m)[i] = [m |-> m, u |-> i] /\ Pieces(m)[i] \in Piece
<1>1. Size(m) \in {2, 4} /\ Size(m) \in Nat
  BY DEF Size
<1>2. Pieces(m) = [i \in 1 .. Size(m) |-> [m |-> m, u |-> i]]
  BY DEF Pieces, Size
<1>3. \A i \in 1 .. Size(m) : [m |-> m, u |-> i] \in Piece
  <2> SUFFICES ASSUME NEW i \in 1 .. Size(m) PROVE [m |-> m, u |-> i] \in Piece
    OBVIOUS
  <2>1. i \in 1 .. 4
    BY <1>1
  <2> QED
    BY <2>1 DEF Piece
<1>4. Pieces(m) \in [1 .. Size(m) -> Piece]
  BY <1>2, <1>3
<1>5. Pieces(m) \in Seq(Piece) /\ Len(Pieces(m)) = Size(m)
  BY <1>1, <1>4, SequenceOf
<1> QED
  BY <1>1, <1>2, <1>3, <1>5

LEMMA PiecesSpelled ==
    ASSUME NEW m \in Message
    PROVE  Spelled(Pieces(m), m)
<1> DEFINE q == Pieces(m)
<1>1. /\ q \in Seq(Piece) /\ Len(q) = Size(m) /\ Size(m) \in {2, 4} /\ DOMAIN q = 1 .. Size(m)
      /\ \A i \in DOMAIN q : q[i].m = m /\ q[i].u = i /\ q[i] # Ticket
  <2>1. /\ q \in Seq(Piece) /\ Len(q) = Size(m) /\ Size(m) \in {2, 4}
        /\ \A i \in 1 .. Size(m) : q[i] = [m |-> m, u |-> i] /\ q[i] \in Piece
    BY PiecesProperties
  <2>2. DOMAIN q = 1 .. Size(m)
    BY <2>1, LenProperties
  <2> QED
    BY <2>1, <2>2, TicketIsNoPiece
<1>2. q \in Seq(Wire)
  BY <1>1 DEF Wire
<1> HIDE DEF q
<1>3. ASSUME NEW i \in DOMAIN q, NEW j \in DOMAIN q, i < j, Blank(q, i, j)
      PROVE  j = i + 1
  <2>1. SUFFICES ASSUME i + 1 < j PROVE FALSE
    BY <1>1, <1>3
  <2>2. i + 1 \in DOMAIN q /\ i < i + 1
    BY <1>1, <1>3, <2>1
  <2> QED
    BY <1>1, <1>3, <2>1, <2>2 DEF Blank
<1>4. Consecutive(q)
  <2> SUFFICES ASSUME NEW i \in DOMAIN q, NEW j \in DOMAIN q, i < j, Blank(q, i, j)
               PROVE  FollowedBy(q[i], q[j])
    BY DEF Consecutive
  <2>1. j = i + 1
    BY <1>3
  <2>2. q[i].m = m /\ q[j].m = m /\ q[i].u = i /\ q[j].u = i + 1 /\ i # Size(m)
    BY <1>1, <2>1
  <2> QED
    BY <2>2 DEF FollowedBy
<1>5. ~Blank(q, 0, Len(q) + 1)
  <2>1. 1 \in DOMAIN q /\ 0 < 1 /\ 1 < Len(q) + 1 /\ q[1] # Ticket
    BY <1>1
  <2> QED
    BY <2>1 DEF Blank
<1>6. ASSUME NEW i \in DOMAIN q, Blank(q, 0, i)
      PROVE  i = 1
  <2>1. SUFFICES ASSUME 1 < i PROVE FALSE
    BY <1>1, <1>6
  <2>2. 1 \in DOMAIN q /\ 0 < 1 /\ q[1] # Ticket
    BY <1>1
  <2> QED
    BY <1>6, <2>1, <2>2 DEF Blank
<1>7. ASSUME NEW i \in DOMAIN q, Blank(q, i, Len(q) + 1)
      PROVE  i = Size(m)
  <2>1. SUFFICES ASSUME i < Size(m) PROVE FALSE
    BY <1>1, <1>7
  <2>2. Size(m) \in DOMAIN q /\ Size(m) < Len(q) + 1 /\ q[Size(m)] # Ticket
    BY <1>1
  <2> QED
    BY <1>7, <2>1, <2>2 DEF Blank
<1>8. \A i \in DOMAIN q : (q[i] # Ticket /\ Blank(q, 0, i)) => q[i].m = m /\ q[i].u = 1
  BY <1>1, <1>6
<1>9. \A i \in DOMAIN q : (q[i] # Ticket /\ Blank(q, i, Len(q) + 1)) => q[i].m = m /\ q[i].u = Size(m)
  BY <1>1, <1>7
<1> QED
  BY <1>2, <1>4, <1>5, <1>8, <1>9 DEF q, Spelled

(* The pieces of a message with a record without data put in before the    *)
(* k-th, or after the last.                                                *)
LEMMA InsertedProperties ==
    ASSUME NEW p \in Seq(Wire), NEW k \in 1 .. Len(p) + 1
    PROVE  LET q == InsertAt(p, k, Ticket)
           IN  /\ q \in Seq(Wire) /\ Len(q) = Len(p) + 1 /\ q[k] = Ticket
               /\ \A i \in 1 .. k - 1 : q[i] = p[i]
               /\ \A i \in k + 1 .. Len(p) + 1 : q[i] = p[i - 1]
<1> DEFINE a == SubSeq(p, 1, k - 1)
           b == SubSeq(p, k, Len(p))
           q == InsertAt(p, k, Ticket)
<1>1. Len(p) \in Nat /\ k \in Nat /\ k >= 1 /\ k <= Len(p) + 1 /\ \A i \in 1 .. Len(p) : p[i] \in Wire
  BY LenProperties, ElementOfSeq
<1>2. a \in Seq(Wire) /\ Len(a) = k - 1 /\ \A i \in 1 .. k - 1 : a[i] = p[i]
  <2>1. \A i \in 1 .. k - 1 : p[i] \in Wire
    BY <1>1
  <2>2. /\ a \in Seq(Wire) /\ Len(a) = IF 1 <= k - 1 THEN (k - 1) - 1 + 1 ELSE 0
        /\ \A i \in 1 .. (k - 1) - 1 + 1 : a[i] = p[1 + i - 1]
    BY <1>1, <2>1, SubSeqProperties
  <2> QED
    BY <1>1, <2>2
<1>3. b \in Seq(Wire) /\ Len(b) = Len(p) - k + 1 /\ \A i \in 1 .. Len(p) - k + 1 : b[i] = p[k + i - 1]
  <2>1. \A i \in k .. Len(p) : p[i] \in Wire
    BY <1>1
  <2>2. /\ b \in Seq(Wire) /\ Len(b) = IF k <= Len(p) THEN Len(p) - k + 1 ELSE 0
        /\ \A i \in 1 .. Len(p) - k + 1 : b[i] = p[k + i - 1]
    BY <1>1, <2>1, SubSeqProperties
  <2> QED
    BY <1>1, <2>2
<1> HIDE DEF a, b
<1>4. Ticket \in Wire /\ << Ticket >> \in Seq(Wire) /\ Len(<< Ticket >>) = 1
  BY DEF Wire
<1> DEFINE c == a \o << Ticket >>
<1>5. c = Append(a, Ticket)
  BY <1>2, <1>4, AppendIsConcat
<1>6. q = c \o b
  BY DEF InsertAt, a, b
<1> HIDE DEF c, q
<1>7. c \in Seq(Wire) /\ Len(c) = k /\ c[k] = Ticket /\ \A i \in 1 .. k - 1 : c[i] = p[i]
  <2>1. /\ c \in Seq(Wire) /\ Len(c) = Len(a) + 1 /\ c[Len(a) + 1] = Ticket
        /\ \A i \in 1 .. Len(a) : c[i] = a[i]
    BY <1>2, <1>4, <1>5, AppendProperties
  <2>2. Len(a) + 1 = k /\ Len(a) = k - 1
    BY <1>1, <1>2
  <2>3. \A i \in 1 .. k - 1 : c[i] = p[i]
    BY <1>2, <2>1, <2>2
  <2> QED
    BY <2>1, <2>2, <2>3
<1>8. /\ q \in Seq(Wire) /\ Len(q) = Len(p) + 1
      /\ \A i \in 1 .. Len(p) + 1 : q[i] = IF i <= k THEN c[i] ELSE b[i - k]
  <2>1. /\ c \o b \in Seq(Wire) /\ Len(c \o b) = Len(c) + Len(b)
        /\ \A i \in 1 .. Len(c) + Len(b) : (c \o b)[i] = IF i <= Len(c) THEN c[i] ELSE b[i - Len(c)]
    BY <1>3, <1>7, ConcatProperties
  <2>2. Len(c) + Len(b) = Len(p) + 1
    BY <1>1, <1>3, <1>7
  <2>3. q \in Seq(Wire) /\ Len(q) = Len(p) + 1
    BY <1>6, <2>1, <2>2
  <2>4. ASSUME NEW i \in 1 .. Len(p) + 1 PROVE q[i] = IF i <= k THEN c[i] ELSE b[i - k]
    <3>1. q[i] = (c \o b)[i] /\ i \in 1 .. Len(c) + Len(b)
      BY <1>6, <2>2
    <3> QED
      BY <1>7, <2>1, <3>1
  <2> QED
    BY <2>3, <2>4
<1>9. \A i \in 1 .. k - 1 : q[i] = p[i]
  BY <1>1, <1>7, <1>8
<1>10. q[k] = Ticket
  BY <1>1, <1>7, <1>8
<1>11. ASSUME NEW i \in k + 1 .. Len(p) + 1 PROVE q[i] = p[i - 1]
  <2>1. i \in 1 .. Len(p) + 1 /\ ~(i <= k) /\ i - k \in 1 .. Len(p) - k + 1
    BY <1>1
  <2>2. q[i] = b[i - k]
    BY <1>8, <2>1
  <2>3. b[i - k] = p[k + (i - k) - 1] /\ k + (i - k) - 1 = i - 1
    BY <1>1, <1>3, <2>1
  <2> QED
    BY <2>2, <2>3
<1> QED
  BY <1>8, <1>9, <1>10, <1>11 DEF q

(* Where the i-th of the longer sequence stood before. *)
Origin(k, i) == IF i < k THEN i ELSE i - 1

LEMMA InsertedBlank ==
    ASSUME NEW p \in Seq(Wire), NEW k \in 1 .. Len(p) + 1,
           NEW i \in 0 .. Len(p) + 2, NEW j \in 0 .. Len(p) + 2, i # k, j # k,
           Blank(InsertAt(p, k, Ticket), i, j)
    PROVE  Blank(p, Origin(k, i), Origin(k, j))
<1> DEFINE q == InsertAt(p, k, Ticket)
<1>1. /\ q \in Seq(Wire) /\ Len(q) = Len(p) + 1
      /\ \A l \in 1 .. k - 1 : q[l] = p[l]
      /\ \A l \in k + 1 .. Len(p) + 1 : q[l] = p[l - 1]
  BY InsertedProperties
<1>2. DOMAIN q = 1 .. Len(p) + 1 /\ DOMAIN p = 1 .. Len(p) /\ Len(p) \in Nat
  BY <1>1, LenProperties
<1>3. Blank(q, i, j)
  OBVIOUS
<1> HIDE DEF q
<1> SUFFICES ASSUME NEW l \in DOMAIN p, Origin(k, i) < l, l < Origin(k, j)
             PROVE  p[l] = Ticket
  BY DEF Blank
<1>4. CASE l < k
  <2>1. l \in DOMAIN q /\ l \in 1 .. k - 1
    BY <1>2, <1>4
  <2>2. i < l /\ l < j
    BY <1>2, <1>4 DEF Origin
  <2> QED
    BY <1>1, <1>3, <2>1, <2>2 DEF Blank
<1>5. CASE l >= k
  <2>1. l + 1 \in DOMAIN q /\ l + 1 \in k + 1 .. Len(p) + 1 /\ (l + 1) - 1 = l
    BY <1>2, <1>5
  <2>2. i < l + 1 /\ l + 1 < j
    BY <1>2, <1>5 DEF Origin
  <2>3. q[l + 1] = p[(l + 1) - 1]
    BY <1>1, <2>1
  <2>4. q[l + 1] = Ticket
    BY <1>3, <2>1, <2>2 DEF Blank
  <2> QED
    BY <2>1, <2>3, <2>4
<1> QED
  BY <1>2, <1>4, <1>5

LEMMA InsertedSpelled ==
    ASSUME NEW m \in Message, NEW p, Spelled(p, m), NEW k \in 1 .. Len(p) + 1
    PROVE  Spelled(InsertAt(p, k, Ticket), m)
<1> DEFINE q == InsertAt(p, k, Ticket)
<1>0. p \in Seq(Wire)
  BY DEF Spelled
<1>1. /\ q \in Seq(Wire) /\ Len(q) = Len(p) + 1 /\ q[k] = Ticket
      /\ \A l \in 1 .. k - 1 : q[l] = p[l]
      /\ \A l \in k + 1 .. Len(p) + 1 : q[l] = p[l - 1]
  BY <1>0, InsertedProperties
<1>2. DOMAIN q = 1 .. Len(p) + 1 /\ DOMAIN p = 1 .. Len(p) /\ Len(p) \in Nat
  BY <1>0, <1>1, LenProperties
<1>3. \A i, j \in 0 .. Len(p) + 2 : (i # k /\ j # k /\ Blank(q, i, j)) => Blank(p, Origin(k, i), Origin(k, j))
  BY <1>0, InsertedBlank
<1> HIDE DEF q
<1>4. \A i \in DOMAIN q : q[i] # Ticket => /\ i # k /\ Origin(k, i) \in DOMAIN p /\ q[i] = p[Origin(k, i)]
                                          /\ i \in 0 .. Len(p) + 2
  <2> SUFFICES ASSUME NEW i \in DOMAIN q, q[i] # Ticket
               PROVE  /\ i # k /\ Origin(k, i) \in DOMAIN p /\ q[i] = p[Origin(k, i)]
                      /\ i \in 0 .. Len(p) + 2
    OBVIOUS
  <2>1. i # k /\ i \in 0 .. Len(p) + 2 /\ i \in Nat /\ k \in Nat
    BY <1>1, <1>2
  <2>2. CASE i < k
    <3>1. Origin(k, i) = i /\ i \in 1 .. k - 1 /\ i \in 1 .. Len(p)
      BY <1>2, <2>2 DEF Origin
    <3> QED
      BY <1>1, <1>2, <2>1, <3>1
  <2>3. CASE i > k
    <3>1. Origin(k, i) = i - 1 /\ i \in k + 1 .. Len(p) + 1 /\ i - 1 \in 1 .. Len(p)
      BY <1>2, <2>1, <2>3 DEF Origin
    <3> QED
      BY <1>1, <1>2, <2>1, <3>1
  <2> QED
    BY <2>1, <2>2, <2>3
<1>5. /\ 0 \in 0 .. Len(p) + 2 /\ 0 # k /\ Origin(k, 0) = 0
      /\ Len(q) + 1 \in 0 .. Len(p) + 2 /\ Len(q) + 1 # k /\ Origin(k, Len(q) + 1) = Len(p) + 1
  BY <1>1, <1>2 DEF Origin
<1>6. Consecutive(q)
  <2> SUFFICES ASSUME NEW i \in DOMAIN q, NEW j \in DOMAIN q,
                      i < j, q[i] # Ticket, q[j] # Ticket, Blank(q, i, j)
               PROVE  FollowedBy(q[i], q[j])
    BY DEF Consecutive
  <2>1. /\ Origin(k, i) \in DOMAIN p /\ q[i] = p[Origin(k, i)] /\ i # k
        /\ Origin(k, j) \in DOMAIN p /\ q[j] = p[Origin(k, j)] /\ j # k
        /\ Blank(p, Origin(k, i), Origin(k, j))
    BY <1>3, <1>4
  <2>2. Origin(k, i) < Origin(k, j)
    BY <1>2, <2>1 DEF Origin
  <2> QED
    BY <2>1, <2>2 DEF Spelled, Consecutive
<1>7. ~Blank(q, 0, Len(q) + 1)
  BY <1>3, <1>5 DEF Spelled
<1>8. \A i \in DOMAIN q : (q[i] # Ticket /\ Blank(q, 0, i)) => q[i].m = m /\ q[i].u = 1
  <2> SUFFICES ASSUME NEW i \in DOMAIN q, q[i] # Ticket, Blank(q, 0, i)
               PROVE  q[i].m = m /\ q[i].u = 1
    OBVIOUS
  <2>1. Origin(k, i) \in DOMAIN p /\ q[i] = p[Origin(k, i)] /\ Blank(p, 0, Origin(k, i))
    BY <1>3, <1>4, <1>5
  <2> QED
    BY <2>1 DEF Spelled
<1>9. \A i \in DOMAIN q : (q[i] # Ticket /\ Blank(q, i, Len(q) + 1)) => q[i].m = m /\ q[i].u = Size(m)
  <2> SUFFICES ASSUME NEW i \in DOMAIN q, q[i] # Ticket, Blank(q, i, Len(q) + 1)
               PROVE  q[i].m = m /\ q[i].u = Size(m)
    OBVIOUS
  <2>1. Origin(k, i) \in DOMAIN p /\ q[i] = p[Origin(k, i)] /\ Blank(p, Origin(k, i), Len(p) + 1)
    BY <1>3, <1>4, <1>5
  <2> QED
    BY <2>1 DEF Spelled
<1> QED
  BY <1>1, <1>6, <1>7, <1>8, <1>9 DEF q, Spelled

----------------------------------------------------------------------------
(* What the device does to the connection: it sends a message, or only     *)
(* listens, or closes, and once closed it stays so.                        *)
Sends ==
    \E m \in Message, q \in Seq(Wire) :
        /\ Spelled(q, m) /\ m.n = sent + 1 /\ down' = down \o q /\ sent' = sent + 1
        /\ dev # "closed"
Listens == UNCHANGED <<down, sent>> /\ dev # "closed"
Closes  ==
    /\ dev' = "closed" /\ UNCHANGED sent
    /\ \E k \in 0 .. Len(down) : down' = SubSeq(down, 1, k)
States == {"wait", "auth", "tls", "again", "online", "stls", "hello"}

LEMMA SendStep ==
    ASSUME Inv, NEW cmd \in Command, NEW size \in 0 .. 3, NEW next, Send(cmd, size, next), dev # "closed"
    PROVE  Sends /\ dev' = next
<1> DEFINE m == [cmd |-> cmd, n |-> sent + 1, size |-> size]
           p == Pieces(m)
<1>1. m \in Message /\ m.n = sent + 1
  BY DEF Message, Inv, Shape
<1>2. sent' = sent + 1 /\ dev' = next
  BY DEF Send
<1>3. \/ down' = down \o p
      \/ \E k \in 1 .. Len(p) + 1 : down' = down \o InsertAt(p, k, Ticket)
  BY DEF Send
<1>4. Spelled(p, m)
  BY <1>1, PiecesSpelled
<1> HIDE DEF m, p
<1>5. CASE down' = down \o p
  <2>1. p \in Seq(Wire)
    BY <1>4 DEF Spelled
  <2> QED
    BY <1>1, <1>2, <1>4, <1>5, <2>1 DEF Sends
<1>6. ASSUME NEW k \in 1 .. Len(p) + 1, down' = down \o InsertAt(p, k, Ticket) PROVE Sends
  <2>1. Spelled(InsertAt(p, k, Ticket), m)
    BY <1>1, <1>4, InsertedSpelled
  <2>2. InsertAt(p, k, Ticket) \in Seq(Wire)
    BY <2>1 DEF Spelled
  <2> QED
    BY <1>1, <1>2, <1>6, <2>1, <2>2 DEF Sends
<1> QED
  BY <1>2, <1>3, <1>5, <1>6

LEMMA AnswerStep ==
    ASSUME Inv, Answer, dev # "closed"
    PROVE  Sends /\ dev' \in States
<1>1. CASE Send("AUTH", 1, "auth")
  <2>1. "AUTH" \in Command /\ 1 \in 0 .. 3
    BY DEF Command
  <2> QED
    BY <1>1, <2>1, SendStep DEF States
<1>2. ASSUME NEW s \in Sizes, Send("CNXN", s, "online") PROVE Sends /\ dev' \in States
  <2>1. "CNXN" \in Command /\ s \in 0 .. 3
    BY HandshakeAssumption DEF Command
  <2> QED
    BY <1>2, <2>1, SendStep DEF States
<1> QED
  BY <1>1, <1>2 DEF Answer

LEMMA DeviceStep ==
    ASSUME Inv, Device
    PROVE  /\ \/ Sends /\ dev' \in States
              \/ Listens /\ dev' \in States
              \/ Closes
           /\ UNCHANGED <<pc, mode, tries, got, result, handled, lost>>
<1>0. UNCHANGED <<pc, mode, tries, got, result, handled, lost>>
  BY DEF Device
<1>1. CASE dev = "wait" /\ Heard("CNXN") /\ (Answer \/ Send("STLS", 0, "stls"))
  <2>1. "STLS" \in Command /\ 0 \in 0 .. 3 /\ "stls" \in States
    BY DEF Command, States
  <2> QED
    BY <1>0, <1>1, <2>1, AnswerStep, SendStep
<1>2. CASE dev \in {"auth", "again"} /\ Answer
  BY <1>0, <1>2, AnswerStep
<1>3. CASE dev = "tls" /\ UNCHANGED up /\ (Answer \/ Send("STLS", 0, "again"))
  <2>1. "STLS" \in Command /\ 0 \in 0 .. 3 /\ "again" \in States
    BY DEF Command, States
  <2> QED
    BY <1>0, <1>3, <2>1, AnswerStep, SendStep
<1>4. ASSUME NEW s \in Sizes, dev = "online", Send("MSG", s, dev) PROVE Sends /\ dev' \in States
  <2>1. "MSG" \in Command /\ s \in 0 .. 3 /\ "online" \in States
    BY HandshakeAssumption DEF Command, States
  <2> QED
    BY <1>4, <2>1, SendStep
<1>5. CASE dev = "stls" /\ dev' = "hello" /\ UNCHANGED <<sent, tickets, down>>
  BY <1>0, <1>5 DEF Listens, States
<1>6. CASE /\ dev # "closed" /\ dev' = "closed" /\ UNCHANGED <<sent, tickets, up>>
           /\ \E k \in 0 .. Len(down) : down' = SubSeq(down, 1, k)
  BY <1>0, <1>6 DEF Closes
<1> QED
  BY <1>0, <1>1, <1>2, <1>3, <1>4, <1>5, <1>6 DEF Device

----------------------------------------------------------------------------
(* The wire grows at its end, is cut off, or loses its first piece.        *)

LEMMA JoinedProperties ==
    ASSUME NEW d \in Seq(Wire), NEW q \in Seq(Wire)
    PROVE  /\ d \o q \in Seq(Wire) /\ Len(d \o q) = Len(d) + Len(q)
           /\ Len(d) \in Nat /\ Len(q) \in Nat
           /\ DOMAIN d = 1 .. Len(d) /\ DOMAIN q = 1 .. Len(q)
           /\ DOMAIN (d \o q) = 1 .. Len(d) + Len(q)
           /\ \A i \in DOMAIN d : i \in DOMAIN (d \o q) /\ (d \o q)[i] = d[i]
           /\ \A i \in DOMAIN q : Len(d) + i \in DOMAIN (d \o q) /\ (d \o q)[Len(d) + i] = q[i]
<1> DEFINE r == d \o q
<1>1. /\ r \in Seq(Wire) /\ Len(r) = Len(d) + Len(q)
      /\ \A i \in 1 .. Len(d) + Len(q) : r[i] = IF i <= Len(d) THEN d[i] ELSE q[i - Len(d)]
  BY ConcatProperties
<1>2. /\ Len(d) \in Nat /\ Len(q) \in Nat /\ DOMAIN d = 1 .. Len(d) /\ DOMAIN q = 1 .. Len(q)
      /\ DOMAIN r = 1 .. Len(d) + Len(q)
  BY <1>1, LenProperties
<1> HIDE DEF r
<1>3. ASSUME NEW i \in DOMAIN d PROVE i \in DOMAIN r /\ r[i] = d[i]
  BY <1>1, <1>2
<1>4. ASSUME NEW i \in DOMAIN q PROVE Len(d) + i \in DOMAIN r /\ r[Len(d) + i] = q[i]
  <2>1. Len(d) + i \in 1 .. Len(d) + Len(q) /\ ~(Len(d) + i <= Len(d)) /\ (Len(d) + i) - Len(d) = i
    BY <1>2
  <2> QED
    BY <1>1, <1>2, <2>1
<1> QED
  BY <1>1, <1>2, <1>3, <1>4 DEF r

LEMMA CutProperties ==
    ASSUME NEW d \in Seq(Wire), NEW k \in 0 .. Len(d)
    PROVE  /\ SubSeq(d, 1, k) \in Seq(Wire) /\ Len(SubSeq(d, 1, k)) = k /\ Len(d) \in Nat
           /\ DOMAIN SubSeq(d, 1, k) = 1 .. k /\ DOMAIN d = 1 .. Len(d)
           /\ \A i \in 1 .. k : SubSeq(d, 1, k)[i] = d[i]
<1> DEFINE r == SubSeq(d, 1, k)
<1>1. Len(d) \in Nat /\ DOMAIN d = 1 .. Len(d) /\ \A i \in 1 .. Len(d) : d[i] \in Wire
  BY LenProperties, ElementOfSeq
<1>2. \A i \in 1 .. k : d[i] \in Wire
  BY <1>1
<1>3. /\ r \in Seq(Wire) /\ Len(r) = IF 1 <= k THEN k - 1 + 1 ELSE 0
      /\ \A i \in 1 .. k - 1 + 1 : r[i] = d[1 + i - 1]
  BY <1>1, <1>2, SubSeqProperties
<1> HIDE DEF r
<1>4. Len(r) = k /\ DOMAIN r = 1 .. k
  BY <1>1, <1>3, LenProperties
<1>5. \A i \in 1 .. k : r[i] = d[i]
  BY <1>1, <1>3
<1> QED
  BY <1>1, <1>3, <1>4, <1>5 DEF r

LEMMA TakeProperties ==
    ASSUME NEW q \in Seq(Wire), q # << >>
    PROVE  /\ Len(q) \in Nat \ {0} /\ Head(q) = q[1] /\ Head(q) \in Wire
           /\ Tail(q) \in Seq(Wire) /\ Len(Tail(q)) = Len(q) - 1
           /\ DOMAIN q = 1 .. Len(q) /\ DOMAIN Tail(q) = 1 .. Len(q) - 1
           /\ \A i \in 1 .. Len(q) - 1 : Tail(q)[i] = q[i + 1]
<1>1. Len(q) \in Nat \ {0} /\ Head(q) = q[1]
  BY EmptySeq
<1>2. /\ Head(q) \in Wire /\ Tail(q) \in Seq(Wire) /\ Len(Tail(q)) = Len(q) - 1
      /\ \A i \in 1 .. Len(Tail(q)) : Tail(q)[i] = q[i + 1]
  BY HeadTailProperties
<1>3. DOMAIN q = 1 .. Len(q) /\ DOMAIN Tail(q) = 1 .. Len(Tail(q))
  BY <1>2, LenProperties
<1> QED
  BY <1>1, <1>2, <1>3

LEMMA PutProperties ==
    ASSUME NEW S, NEW q \in Seq(S), NEW m \in S
    PROVE  /\ Append(q, m) \in Seq(S) /\ Append(q, m) # << >>
           /\ Len(q) \in Nat /\ Len(Append(q, m)) = Len(q) + 1
           /\ DOMAIN Append(q, m) = 1 .. Len(q) + 1 /\ DOMAIN q = 1 .. Len(q)
           /\ Append(q, m)[Len(q) + 1] = m
           /\ \A i \in 1 .. Len(q) : Append(q, m)[i] = q[i]
  BY AppendProperties, LenProperties

----------------------------------------------------------------------------
(* What is held, and the shape of the variables *)

(* A reader takes its message from the pieces it got. *)
LEMMA GotMessage ==
    ASSUME Inv, got # << >>
    PROVE  got[1].m \in Message /\ Len(got) \in Nat \ {0}
<1>1. Len(got) \in Nat \ {0} /\ 1 \in 1 .. Len(got)
  BY EmptySeq, LenProperties DEF Inv, Shape
<1>2. got[1] \in Piece
  BY <1>1, ElementOfSeq DEF Inv, Shape
<1> QED
  BY <1>1, <1>2 DEF Piece

LEMMA WholeIsGot ==
    ASSUME Inv, Whole \/ TooLarge
    PROVE  got # << >>
<1>1. Len(got) >= 2
  BY DEF Whole, TooLarge, IsHeader
<1> QED
  BY <1>1, EmptySeq

(* What a turn, a failure and a success leave. *)
LEMMA FailStep ==
    ASSUME Inv, Fail, pc # "done"
    PROVE  held' = {} /\ ret' = "failed" /\ pc' = "done" /\ state' = "disconnected"
<1>1. held \subseteq {"conn", "fd", "payload", "tls"}
  BY DEF Inv, Holdings, Setting, Online, Shape
<1> QED
  BY <1>1 DEF Fail, Released

LEMMA TurnStep ==
    ASSUME Inv, Turn, Setting, mode' = mode, pc \in {"select", "read"}
    PROVE  Holdings' /\ pc' \in {"done", "select", "read"} /\ state' \in {state, "disconnected"}
<1>1. CASE tries + 1 = MaxTries
  <2>1. Fail
    BY <1>1 DEF Turn
  <2>2. held' = {} /\ ret' = "failed" /\ pc' = "done" /\ state' = "disconnected"
    BY <2>1, FailStep
  <2> QED
    BY <2>2 DEF Holdings, Setting, Online
<1>2. CASE tries + 1 # MaxTries
  <2>1. /\ pc' = (IF mode = "plain" THEN "select" ELSE "read")
        /\ held' = held /\ ret' = ret /\ state' = state
    BY <1>2 DEF Turn, result
  <2>2. mode \in {"plain", "tls"} /\ (mode = "tls" => pc = "read")
    BY DEF Inv, Holdings, Shape, Setting
  <2>3. held \ {"tls"} = {"conn", "fd", "payload"} /\ ret = "none"
    BY DEF Inv, Holdings
  <2> QED
    BY <2>1, <2>2, <2>3 DEF Holdings, Setting, Online
<1> QED
  BY <1>1, <1>2

(* What is left of a message acted on. *)
Handling(m) ==
    /\ Holdings' /\ pc' \in {"select", "tls", "read", "idle", "done"}
    /\ mode' \in {"plain", "tls", "poll", "drain"}
    /\ handled' = (IF m.cmd = "TICKET" THEN handled ELSE Append(handled, [m |-> m, whole |-> Whole]))
    /\ handled' \in Seq([m : Message, whole : BOOLEAN]) /\ got' = << >>
    /\ state' = "connected" => (state = "connected" \/ m.cmd = "CNXN")

LEMMA HandleStep ==
    ASSUME Inv, pc = "read", NEW m \in Message \cup {Nothing}, Handle(m)
    PROVE  Handling(m)
<1>1. /\ handled' = (IF m.cmd = "TICKET" THEN handled ELSE Append(handled, [m |-> m, whole |-> Whole]))
      /\ got' = << >>
  BY DEF Handle
<1>2. handled' \in Seq([m : Message, whole : BOOLEAN])
  <2>1. handled \in Seq([m : Message, whole : BOOLEAN])
    BY DEF Inv, Shape
  <2>2. CASE m.cmd = "TICKET"
    BY <1>1, <2>1, <2>2
  <2>3. CASE m.cmd # "TICKET"
    <3>1. m \in Message /\ Whole \in BOOLEAN
      BY <2>3, TicketIsNoPiece DEF Whole, IsHeader
    <3>2. [m |-> m, whole |-> Whole] \in [m : Message, whole : BOOLEAN]
      BY <3>1
    <3> QED
      BY <1>1, <2>1, <2>3, <3>2, PutProperties
  <2> QED
    BY <2>2, <2>3
<1>3. mode \in {"plain", "tls", "poll", "drain"}
  BY DEF Inv, Shape
<1>4. CASE /\ mode \in {"poll", "drain"} /\ pc' = "idle"
           /\ UNCHANGED <<up, mode, tries, result>>
  <2>1. held \ {"tls"} = {"conn", "fd"} /\ ret = "connected"
    BY <1>4 DEF Inv, Holdings, Online
  <2>2. Holdings'
    BY <1>4, <2>1 DEF Holdings, Setting, Online, result
  <2> QED
    BY <1>1, <1>2, <1>3, <1>4, <2>2 DEF Handling, result
<1>5. CASE /\ mode \in {"plain", "tls"} /\ m.cmd = "CNXN"
           /\ state' = "connected" /\ ret' = "connected" /\ pc' = "idle"
           /\ held' = held \ {"payload"} /\ UNCHANGED <<up, mode, tries>>
  <2>1. held \ {"tls"} = {"conn", "fd", "payload"}
    BY <1>5 DEF Inv, Holdings, Setting
  <2>2. Holdings'
    BY <1>5, <2>1 DEF Holdings, Setting, Online
  <2> QED
    BY <1>1, <1>2, <1>3, <1>5, <2>2 DEF Handling
<1>6. CASE /\ mode = "plain" /\ m.cmd = "STLS"
           /\ Reply("STLS") /\ pc' = "tls" /\ UNCHANGED <<mode, tries, result>>
  <2>1. held \ {"tls"} = {"conn", "fd", "payload"} /\ ret = "none"
    BY <1>6 DEF Inv, Holdings, Setting
  <2>2. Holdings'
    BY <1>6, <2>1 DEF Holdings, Setting, Online, result
  <2> QED
    BY <1>1, <1>2, <1>3, <1>6, <2>2 DEF Handling, result
<1>7. CASE mode \in {"plain", "tls"} /\ Turn /\ UNCHANGED mode
  <2>1. Setting
    BY <1>7 DEF Setting
  <2>2. Holdings' /\ pc' \in {"done", "select", "read"} /\ state' \in {state, "disconnected"}
    BY <1>7, <2>1, TurnStep
  <2> QED
    BY <1>1, <1>2, <1>3, <1>7, <2>2 DEF Handling
<1> QED
  BY <1>4, <1>5, <1>6, <1>7 DEF Handle

(* The shape of what a reader leaves on the wire. *)
LEMMA TailShape ==
    ASSUME Inv, down # << >>
    PROVE  Tail(down) \in Seq(Wire) /\ Head(down) \in Wire /\ Head(down) = down[1]
  BY TakeProperties DEF Inv, Shape

LEMMA InvDevice ==
    ASSUME Inv, Device
    PROVE  Inv'
<1>1. UNCHANGED <<pc, mode, tries, got, result, handled, lost>>
  BY DeviceStep
<1>2. Holdings'
  BY <1>1 DEF Inv, Holdings, Setting, Online, result
<1>3. dev' \in States \cup {"closed"} /\ sent' \in Nat /\ down' \in Seq(Wire)
  <2>1. sent \in Nat /\ down \in Seq(Wire)
    BY DEF Inv, Shape
  <2>2. CASE Sends /\ dev' \in States
    <3>1. PICK q \in Seq(Wire) : down' = down \o q /\ sent' = sent + 1
      BY <2>2 DEF Sends
    <3>2. down' \in Seq(Wire)
      BY <2>1, <3>1, JoinedProperties
    <3> QED
      BY <2>1, <2>2, <3>1, <3>2
  <2>3. CASE Listens /\ dev' \in States
    BY <2>1, <2>3 DEF Listens
  <2>4. CASE Closes
    <3>1. PICK k \in 0 .. Len(down) : down' = SubSeq(down, 1, k)
      BY <2>4 DEF Closes
    <3>2. down' \in Seq(Wire)
      BY <2>1, <3>1, CutProperties
    <3> QED
      BY <2>1, <2>4, <3>2 DEF Closes
  <2> QED
    BY <2>2, <2>3, <2>4, DeviceStep
<1> QED
  BY <1>1, <1>2, <1>3 DEF Inv, Shape, States

LEMMA InvReceived ==
    ASSUME Inv, Received
    PROVE  Inv' /\ Handling(got[1].m)
<1>1. pc = "read" /\ (Whole \/ TooLarge) /\ Handle(got[1].m) /\ UNCHANGED <<device, down>>
  BY DEF Received
<1>2. got[1].m \in Message
  BY <1>1, WholeIsGot, GotMessage
<1>3. Handling(got[1].m)
  BY <1>1, <1>2, HandleStep
<1>4. got' \in Seq(Piece)
  BY <1>3 DEF Handling
<1> QED
  BY <1>1, <1>3, <1>4 DEF Handling, Inv, Shape, device

LEMMA InvWantRead ==
    ASSUME Inv, WantRead
    PROVE  Inv' /\ \E m \in Message \cup {Nothing} : Handling(m) /\ (got = << >> /\ mode # "poll" => m = Nothing)
<1>1. PICK m \in (IF mode = "drain" THEN {Nothing} ELSE Seen) : Handle(m)
  BY DEF WantRead
<1>2. m \in Message \cup {Nothing}
  <2>1. CASE got # << >>
    BY <2>1, GotMessage DEF Seen
  <2>2. CASE got = << >> /\ handled # << >>
    <3>1. Len(handled) \in 1 .. Len(handled)
      BY <2>2, EmptySeq DEF Inv, Shape
    <3>2. handled[Len(handled)] \in [m : Message, whole : BOOLEAN]
      BY <3>1, ElementOfSeq DEF Inv, Shape
    <3> QED
      BY <2>2, <3>2 DEF Seen, Last
  <2> QED
    BY <2>1, <2>2 DEF Seen
<1>3. got = << >> /\ mode # "poll" => m = Nothing
  BY DEF Seen
<1>4. Handling(m)
  BY <1>1, <1>2, HandleStep DEF WantRead, Reading
<1>5. down' \in Seq(Wire) /\ UNCHANGED device
  BY TailShape DEF WantRead, Inv, Shape
<1>6. got' \in Seq(Piece)
  BY <1>4 DEF Handling
<1> QED
  BY <1>2, <1>3, <1>4, <1>5, <1>6 DEF Handling, Inv, Shape, device

LEMMA InvTake ==
    ASSUME Inv, Take
    PROVE  Inv'
<1>1. /\ pc = "read" /\ down # << >> /\ down' = Tail(down)
      /\ got' = (IF Head(down) = Ticket THEN got ELSE Append(got, Head(down)))
      /\ UNCHANGED <<device, up, pc, mode, tries, result, handled, lost>>
  BY DEF Take, Reading
<1>2. down' \in Seq(Wire) /\ Head(down) \in Wire
  BY <1>1, TailShape
<1>3. got' \in Seq(Piece)
  <2>1. CASE Head(down) = Ticket
    BY <1>1, <2>1 DEF Inv, Shape
  <2>2. CASE Head(down) # Ticket
    <3>1. Head(down) \in Piece /\ got \in Seq(Piece)
      BY <1>2, <2>2 DEF Wire, Inv, Shape
    <3> QED
      BY <1>1, <2>2, <3>1, PutProperties
  <2> QED
    BY <2>1, <2>2
<1> QED
  BY <1>1, <1>2, <1>3 DEF Inv, Shape, Holdings, Setting, Online, device, result

LEMMA InvReceiveFails ==
    ASSUME Inv, ReceiveFails
    PROVE  Inv' /\ state' \in {state, "disconnected"}
<1>1. /\ pc = "read" /\ got' = << >> /\ UNCHANGED <<device, down, up, mode, handled>>
      /\ CASE mode = "plain" -> Fail /\ UNCHANGED tries
           [] mode = "tls"   -> Turn
           [] OTHER          -> pc' = "idle" /\ UNCHANGED <<tries, result>>
  BY DEF ReceiveFails
<1>2. mode \in {"plain", "tls", "poll", "drain"}
  BY DEF Inv, Shape
<1>3. Holdings' /\ pc' \in {"done", "select", "read", "idle"} /\ state' \in {state, "disconnected"}
  <2>1. CASE mode = "plain"
    <3>1. held' = {} /\ ret' = "failed" /\ pc' = "done" /\ state' = "disconnected"
      BY <1>1, <2>1, FailStep
    <3> QED
      BY <3>1 DEF Holdings, Setting, Online
  <2>2. CASE mode = "tls"
    <3>1. Turn /\ Setting /\ mode' = mode /\ pc \in {"select", "read"}
      BY <1>1, <2>2 DEF Setting
    <3> QED
      BY <3>1, TurnStep
  <2>3. CASE mode \in {"poll", "drain"}
    <3>1. pc' = "idle" /\ UNCHANGED result /\ mode' = mode
      BY <1>1, <2>3
    <3>2. held \ {"tls"} = {"conn", "fd"} /\ ret = "connected"
      BY <1>1, <2>3 DEF Inv, Holdings, Online
    <3> QED
      BY <3>1, <3>2 DEF Holdings, Setting, Online, result
  <2> QED
    BY <1>2, <2>1, <2>2, <2>3
<1>4. got' \in Seq(Piece)
  BY <1>1
<1> QED
  BY <1>1, <1>3, <1>4 DEF Inv, Shape, device

LEMMA InvConnect ==
    ASSUME Inv, Connect
    PROVE  Inv' /\ state' \in {state, "auth_sent", "disconnected"}
<1>1. pc = "connect" /\ UNCHANGED <<device, down, mode, tries, got, handled, lost>>
  BY DEF Connect
<1>2. mode = "plain" /\ held = {}
  BY <1>1 DEF Inv, Holdings
<1>3. CASE ret' = "failed" /\ pc' = "done" /\ UNCHANGED <<up, state, held>>
  BY <1>1, <1>2, <1>3 DEF Inv, Shape, Holdings, Setting, Online, device
<1>4. CASE /\ held' = {"conn", "fd", "payload"} /\ SendCnxn
           /\ state' = "auth_sent" /\ pc' = "select" /\ UNCHANGED ret
  <2>1. ret' = "none" /\ held' \ {"tls"} = {"conn", "fd", "payload"}
    BY <1>1, <1>4 DEF Inv, Holdings
  <2> QED
    BY <1>1, <1>2, <1>4, <2>1 DEF Inv, Shape, Holdings, Setting, Online, device
<1>5. CASE Fail
  <2>1. held' = {} /\ ret' = "failed" /\ pc' = "done" /\ state' = "disconnected"
    BY <1>1, <1>5, FailStep
  <2> QED
    BY <1>1, <1>2, <2>1 DEF Inv, Shape, Holdings, Setting, Online, device
<1> QED
  BY <1>3, <1>4, <1>5 DEF Connect

LEMMA InvSelect ==
    ASSUME Inv, Select
    PROVE  Inv' /\ state' \in {state, "disconnected"}
<1>1. pc = "select" /\ got' = << >> /\ UNCHANGED <<device, down, up, mode, handled, lost>>
  BY DEF Select
<1>2. mode = "plain" /\ Setting /\ held \ {"tls"} = {"conn", "fd", "payload"} /\ ret = "none"
  BY <1>1 DEF Inv, Holdings, Setting
<1>3. got' \in Seq(Piece)
  BY <1>1
<1>4. CASE pc' = "read" /\ UNCHANGED <<tries, result>>
  BY <1>1, <1>2, <1>3, <1>4 DEF Inv, Shape, Holdings, Setting, Online, device, result
<1>5. CASE Turn
  <2>1. Holdings' /\ pc' \in {"done", "select", "read"} /\ state' \in {state, "disconnected"}
    BY <1>1, <1>2, <1>5, TurnStep
  <2> QED
    BY <1>1, <1>3, <2>1 DEF Inv, Shape, device
<1> QED
  BY <1>4, <1>5 DEF Select

LEMMA InvTlsHandshake ==
    ASSUME Inv, TlsHandshake
    PROVE  Inv' /\ state' \in {state, "disconnected"}
<1>1. pc = "tls" /\ got' = << >> /\ UNCHANGED <<down, up, handled, lost>>
  BY DEF TlsHandshake
<1>2. mode = "plain" /\ held \ {"tls"} = {"conn", "fd", "payload"} /\ ret = "none"
  BY <1>1 DEF Inv, Holdings, Setting
<1>3. got' \in Seq(Piece)
  BY <1>1
<1>4. CASE /\ dev = "hello" /\ dev' = "tls" /\ mode' = "tls" /\ pc' = "read"
           /\ held' = held \cup {"tls"} /\ UNCHANGED <<ret, state, sent, tickets>>
  <2>1. held' \ {"tls"} = {"conn", "fd", "payload"}
    BY <1>2, <1>4
  <2> QED
    BY <1>1, <1>2, <1>3, <1>4, <2>1 DEF Inv, Shape, Holdings, Setting, Online
<1>5. CASE dev \in {"hello", "closed"} /\ Fail /\ UNCHANGED <<mode, device>>
  <2>1. held' = {} /\ ret' = "failed" /\ pc' = "done" /\ state' = "disconnected"
    BY <1>1, <1>5, FailStep
  <2> QED
    BY <1>1, <1>3, <1>5, <2>1 DEF Inv, Shape, Holdings, Setting, Online, device
<1> QED
  BY <1>4, <1>5 DEF TlsHandshake

LEMMA InvReadAs ==
    ASSUME Inv, NEW r \in {"poll", "drain"}, ReadAs(r)
    PROVE  Inv' /\ state' = state
<1>1. /\ pc = "idle" /\ pc' = "read" /\ mode' = r /\ got' = << >>
      /\ UNCHANGED <<device, down, up, tries, result, handled, lost>>
  BY DEF ReadAs
<1>2. held \ {"tls"} = {"conn", "fd"} /\ ret = "connected"
  BY <1>1 DEF Inv, Holdings, Online
<1>3. got' \in Seq(Piece)
  BY <1>1
<1> QED
  BY <1>1, <1>2, <1>3 DEF Inv, Shape, Holdings, Setting, Online, device, result

LEMMA InvDisconnect ==
    ASSUME Inv, adb_disconnect
    PROVE  Inv' /\ state' = "disconnected"
<1>1. /\ pc = "idle" /\ pc' = "done" /\ held' = Released(held) /\ state' = "disconnected"
      /\ ret' = "closed" /\ UNCHANGED <<device, down, up, mode, tries, got, handled, lost>>
  BY DEF adb_disconnect
<1>2. held \ {"tls"} = {"conn", "fd"}
  BY <1>1 DEF Inv, Holdings, Online
<1>3. held' = {}
  BY <1>1, <1>2 DEF Released
<1> QED
  BY <1>1, <1>3 DEF Inv, Shape, Holdings, Setting, Online, device

LEMMA InvStutter ==
    ASSUME Inv, UNCHANGED vars
    PROVE  Inv'
  BY DEF vars, device, result, Inv, Shape, Holdings, Setting, Online

LEMMA InvStep ==
    ASSUME Inv, [Next]_vars
    PROVE  Inv'
<1>1. CASE Connect
  BY <1>1, InvConnect
<1>2. CASE Select
  BY <1>2, InvSelect
<1>3. CASE TlsHandshake
  BY <1>3, InvTlsHandshake
<1>4. CASE Take
  BY <1>4, InvTake
<1>5. CASE Received
  BY <1>5, InvReceived
<1>6. CASE ReceiveFails
  BY <1>6, InvReceiveFails
<1>7. CASE WantRead
  BY <1>7, InvWantRead
<1>8. CASE Poll \/ Drain
  BY <1>8, InvReadAs DEF Poll, Drain
<1>9. CASE adb_disconnect
  BY <1>9, InvDisconnect
<1>10. CASE Device
  BY <1>10, InvDevice
<1>11. CASE UNCHANGED vars
  BY <1>11, InvStutter
<1> QED
  BY <1>1, <1>2, <1>3, <1>4, <1>5, <1>6, <1>7, <1>8, <1>9, <1>10, <1>11 DEF Next, Host, Done

LEMMA InitInv == Init => Inv
<1> SUFFICES ASSUME Init PROVE Inv
  OBVIOUS
<1>1. down \in Seq(Wire) /\ got \in Seq(Piece) /\ handled \in Seq([m : Message, whole : BOOLEAN])
  BY DEF Init
<1> QED
  BY <1>1 DEF Init, Inv, Shape, Holdings, Setting, Online

LEMMA Invariance == Spec => []Inv
<1>1. Inv /\ [Next]_vars => Inv'
  BY InvStep
<1> QED
  BY InitInv, <1>1, PTL DEF Spec

(* Whichever way adb_connect returns, after any number of turns in the     *)
(* clear and behind TLS, the payload buffer is freed; nothing is left      *)
(* after a failure or adb_disconnect, and a connection handed out has its  *)
(* socket (adb_connect, adb_disconnect, session_connect).                  *)
THEOREM NothingLeft == Spec => []HeldAtReturn
<1>1. Inv => HeldAtReturn
  BY DEF Inv, Shape, Holdings, HeldAtReturn, Setting, Online
<1> QED
  BY <1>1, Invariance, PTL

----------------------------------------------------------------------------
(* The pieces stay in line when the wire changes *)

LEMMA JoinedBlank ==
    ASSUME NEW d \in Seq(Wire), NEW q \in Seq(Wire), NEW i \in Nat, NEW j \in Nat
    PROVE  /\ (i <= Len(d) /\ j <= Len(d) + 1 /\ Blank(d \o q, i, j)) => Blank(d, i, j)
           /\ (i <= Len(d) /\ j >= 1 /\ Blank(d \o q, i, Len(d) + j))
                 => Blank(d, i, Len(d) + 1) /\ Blank(q, 0, j)
           /\ Blank(d \o q, Len(d) + i, Len(d) + j) => Blank(q, i, j)
<1> DEFINE r == d \o q
<1>1. /\ Len(d) \in Nat /\ Len(q) \in Nat /\ DOMAIN d = 1 .. Len(d) /\ DOMAIN q = 1 .. Len(q)
      /\ \A l \in DOMAIN d : l \in DOMAIN r /\ r[l] = d[l]
      /\ \A l \in DOMAIN q : Len(d) + l \in DOMAIN r /\ r[Len(d) + l] = q[l]
  BY JoinedProperties
<1> HIDE DEF r
<1>2. ASSUME i <= Len(d), j <= Len(d) + 1, Blank(r, i, j) PROVE Blank(d, i, j)
  BY <1>1, <1>2 DEF Blank
<1>3. ASSUME i <= Len(d), j >= 1, Blank(r, i, Len(d) + j) PROVE Blank(d, i, Len(d) + 1)
  <2> SUFFICES ASSUME NEW l \in DOMAIN d, i < l, l < Len(d) + 1 PROVE d[l] = Ticket
    BY DEF Blank
  <2>1. l < Len(d) + j /\ l \in DOMAIN r /\ r[l] = d[l]
    BY <1>1, <1>3
  <2> QED
    BY <1>3, <2>1 DEF Blank
<1>4. ASSUME i <= Len(d), j >= 1, Blank(r, i, Len(d) + j) PROVE Blank(q, 0, j)
  <2> SUFFICES ASSUME NEW l \in DOMAIN q, 0 < l, l < j PROVE q[l] = Ticket
    BY DEF Blank
  <2>1. i < Len(d) + l /\ Len(d) + l < Len(d) + j /\ Len(d) + l \in DOMAIN r /\ r[Len(d) + l] = q[l]
    BY <1>1, <1>4
  <2> QED
    BY <1>4, <2>1 DEF Blank
<1>5. ASSUME Blank(r, Len(d) + i, Len(d) + j) PROVE Blank(q, i, j)
  <2> SUFFICES ASSUME NEW l \in DOMAIN q, i < l, l < j PROVE q[l] = Ticket
    BY DEF Blank
  <2>1. Len(d) + i < Len(d) + l /\ Len(d) + l < Len(d) + j /\ Len(d) + l \in DOMAIN r /\ r[Len(d) + l] = q[l]
    BY <1>1
  <2> QED
    BY <1>5, <2>1 DEF Blank
<1> QED
  BY <1>2, <1>3, <1>4, <1>5 DEF r

(* A place in the longer wire is one in the first part or in the second.   *)
LEMMA JoinedPlace ==
    ASSUME NEW d \in Seq(Wire), NEW q \in Seq(Wire), NEW i \in DOMAIN (d \o q)
    PROVE  \/ i \in DOMAIN d /\ (d \o q)[i] = d[i] /\ i \in 1 .. Len(d)
           \/ \E k \in DOMAIN q : i = Len(d) + k /\ (d \o q)[i] = q[k] /\ k \in 1 .. Len(q)
<1>1. /\ Len(d) \in Nat /\ Len(q) \in Nat /\ DOMAIN d = 1 .. Len(d) /\ DOMAIN q = 1 .. Len(q)
      /\ DOMAIN (d \o q) = 1 .. Len(d) + Len(q)
      /\ \A l \in DOMAIN d : l \in DOMAIN (d \o q) /\ (d \o q)[l] = d[l]
      /\ \A l \in DOMAIN q : Len(d) + l \in DOMAIN (d \o q) /\ (d \o q)[Len(d) + l] = q[l]
  BY JoinedProperties
<1> DEFINE r == d \o q
<1> HIDE DEF r
<1>2. CASE i <= Len(d)
  BY <1>1, <1>2 DEF r
<1>3. CASE i > Len(d)
  <2>1. i - Len(d) \in DOMAIN q /\ i = Len(d) + (i - Len(d))
    BY <1>1, <1>3
  <2> QED
    BY <1>1, <2>1
<1> QED
  BY <1>1, <1>2, <1>3

LEMMA JoinedConsecutive ==
    ASSUME NEW d \in Seq(Wire), NEW q, NEW m \in Message, Consecutive(d), Spelled(q, m),
           \A i \in DOMAIN d : (d[i] # Ticket /\ Blank(d, i, Len(d) + 1))
                                  => d[i].m.n + 1 = m.n /\ d[i].u = Size(d[i].m)
    PROVE  Consecutive(d \o q)
<1> DEFINE r == d \o q
<1>1. q \in Seq(Wire) /\ Len(d) \in Nat /\ Len(q) \in Nat
  BY LenProperties DEF Spelled
<1>2. \A i \in DOMAIN r : \/ i \in DOMAIN d /\ r[i] = d[i] /\ i \in 1 .. Len(d)
                          \/ \E k \in DOMAIN q : i = Len(d) + k /\ r[i] = q[k] /\ k \in 1 .. Len(q)
  BY <1>1, JoinedPlace
<1>3. \A i, j \in Nat :
         /\ (i <= Len(d) /\ j <= Len(d) + 1 /\ Blank(r, i, j)) => Blank(d, i, j)
         /\ (i <= Len(d) /\ j >= 1 /\ Blank(r, i, Len(d) + j))
               => Blank(d, i, Len(d) + 1) /\ Blank(q, 0, j)
         /\ Blank(r, Len(d) + i, Len(d) + j) => Blank(q, i, j)
  BY <1>1, JoinedBlank
<1> HIDE DEF r
<1> SUFFICES ASSUME NEW i \in DOMAIN r, NEW j \in DOMAIN r,
                    i < j, r[i] # Ticket, r[j] # Ticket, Blank(r, i, j)
             PROVE  FollowedBy(r[i], r[j])
  BY DEF Consecutive, r
<1>4. CASE i \in DOMAIN d /\ r[i] = d[i] /\ i \in 1 .. Len(d) /\ j \in DOMAIN d /\ r[j] = d[j] /\ j \in 1 .. Len(d)
  <2>1. Blank(d, i, j)
    BY <1>1, <1>3, <1>4
  <2> QED
    BY <1>4, <2>1 DEF Consecutive
<1>5. ASSUME i \in DOMAIN d, r[i] = d[i], i \in 1 .. Len(d),
             NEW k \in DOMAIN q, j = Len(d) + k, r[j] = q[k], k \in 1 .. Len(q)
      PROVE  FollowedBy(r[i], r[j])
  <2>1. Blank(d, i, Len(d) + 1) /\ Blank(q, 0, k)
    BY <1>1, <1>3, <1>5
  <2>2. d[i].m.n + 1 = m.n /\ d[i].u = Size(d[i].m) /\ q[k].m = m /\ q[k].u = 1
    BY <1>5, <2>1 DEF Spelled
  <2> QED
    BY <1>5, <2>2 DEF FollowedBy
<1>6. ASSUME NEW h \in DOMAIN q, i = Len(d) + h, r[i] = q[h], h \in 1 .. Len(q),
             NEW k \in DOMAIN q, j = Len(d) + k, r[j] = q[k], k \in 1 .. Len(q)
      PROVE  FollowedBy(r[i], r[j])
  <2>1. Blank(q, h, k) /\ h < k
    BY <1>1, <1>3, <1>6
  <2> QED
    BY <1>6, <2>1 DEF Spelled, Consecutive
<1>7. ASSUME NEW h \in DOMAIN q, i = Len(d) + h, h \in 1 .. Len(q), j \in 1 .. Len(d)
      PROVE  FALSE
  BY <1>1, <1>7
<1> QED
  BY <1>2, <1>4, <1>5, <1>6, <1>7

----------------------------------------------------------------------------
(* The line is kept by every step that does not lose track of it           *)

LEMMA PieceType ==
    ASSUME NEW x \in Piece
    PROVE  /\ x.m \in Message /\ x.m.n \in Nat /\ x.u \in Nat /\ Size(x.m) \in {2, 4}
           /\ x.m.cmd # "TICKET"
  BY DEF Piece, Message, Size, Command

LEMMA DownType ==
    ASSUME Inv, NEW i \in DOMAIN down, down[i] # Ticket
    PROVE  down[i] \in Piece
<1>1. down[i] \in Wire
  BY LenProperties, ElementOfSeq DEF Inv, Shape
<1> QED
  BY <1>1 DEF Wire

(* A message sent comes after what is on the wire, or after what was read  *)
(* when the wire is empty.                                                 *)
LEMMA SentInStep ==
    ASSUME Inv, InStep, Sends, UNCHANGED <<pc, got, state, handled>>
    PROVE  InStep'
<1>1. PICK m \in Message, q \in Seq(Wire) :
        /\ Spelled(q, m) /\ m.n = sent + 1 /\ down' = down \o q /\ sent' = sent + 1
        /\ dev # "closed"
  BY DEF Sends
<1> DEFINE n == Len(down)
<1>2. down \in Seq(Wire) /\ n \in Nat /\ Len(q) \in Nat /\ sent \in Nat /\ down' = down \o q /\ Len(down') = n + Len(q)
  BY <1>1, JoinedProperties DEF Inv, Shape
<1>3. \A i \in DOMAIN down : (down[i] # Ticket /\ Blank(down, i, n + 1))
                                => down[i].m.n + 1 = m.n /\ down[i].u = Size(down[i].m)
  BY <1>1, <1>2 DEF InStep, AllSent, IsLast
<1>4. Blank(down, 0, n + 1) => IF got = << >> THEN Len(handled) = sent ELSE IsLast(got[Len(got)])
  BY <1>1 DEF InStep, AllSent
<1>5. Consecutive(down')
  <2>1. Consecutive(down)
    BY DEF InStep
  <2> QED
    BY <1>1, <1>2, <1>3, <2>1, JoinedConsecutive
<1>6. \A i \in DOMAIN down' : \/ i \in DOMAIN down /\ down'[i] = down[i] /\ i \in 1 .. n
                              \/ \E k \in DOMAIN q : i = n + k /\ down'[i] = q[k] /\ k \in 1 .. Len(q)
  BY <1>1, <1>2, JoinedPlace
<1>7. \A i, j \in Nat :
         /\ (i <= n /\ j <= n + 1 /\ Blank(down', i, j)) => Blank(down, i, j)
         /\ (i <= n /\ j >= 1 /\ Blank(down', i, n + j)) => Blank(down, i, n + 1) /\ Blank(q, 0, j)
         /\ Blank(down', n + i, n + j) => Blank(q, i, j)
  BY <1>1, <1>2, JoinedBlank
<1> HIDE DEF n
<1>8. Resumes'
  <2> SUFFICES ASSUME NEW j \in DOMAIN down', down'[j] # Ticket, Blank(down', 0, j)
               PROVE  Due(down'[j])
    BY DEF Resumes, Due
  <2>1. CASE j \in DOMAIN down /\ down'[j] = down[j] /\ j \in 1 .. n
    <3>1. Blank(down, 0, j)
      BY <1>2, <1>7, <2>1
    <3> QED
      BY <2>1, <3>1 DEF InStep, Resumes
  <2>2. ASSUME NEW k \in DOMAIN q, j = n + k, down'[j] = q[k], k \in 1 .. Len(q)
        PROVE  Due(down'[j])
    <3>1. Blank(down, 0, n + 1) /\ Blank(q, 0, k)
      BY <1>2, <1>7, <2>2
    <3>2. q[k].m = m /\ q[k].u = 1 /\ m.n = sent + 1
      BY <1>1, <2>2, <3>1 DEF Spelled
    <3> QED
      BY <1>4, <2>2, <3>1, <3>2 DEF Due, FollowedBy, IsLast
  <2> QED
    BY <1>6, <2>1, <2>2
<1>9. AllSent'
  <2>1. ASSUME NEW i \in 0 .. n, Blank(down', i, n + Len(q) + 1) PROVE FALSE
    <3>1. i \in Nat /\ i <= n /\ Len(q) + 1 \in Nat /\ Len(q) + 1 >= 1 /\ n + Len(q) + 1 = n + (Len(q) + 1)
      BY <1>2, <2>1
    <3>2. Blank(q, 0, Len(q) + 1)
      BY <1>7, <2>1, <3>1
    <3> QED
      BY <1>1, <3>2 DEF Spelled
  <2>2. ASSUME NEW i \in DOMAIN down', down'[i] # Ticket, Blank(down', i, n + Len(q) + 1)
        PROVE  down'[i].m.n = sent' /\ down'[i].u = Size(down'[i].m)
    <3>1. PICK k \in DOMAIN q : i = n + k /\ down'[i] = q[k] /\ k \in 1 .. Len(q)
      <4>1. ~(i \in 1 .. n)
        BY <1>2, <2>1, <2>2
      <4> QED
        BY <1>6, <2>2, <4>1
    <3>2. k \in Nat /\ Len(q) + 1 \in Nat /\ n + Len(q) + 1 = n + (Len(q) + 1)
      BY <1>2
    <3>3. Blank(q, k, Len(q) + 1)
      BY <1>7, <2>2, <3>1, <3>2
    <3> QED
      BY <1>1, <2>2, <3>1, <3>3 DEF Spelled
  <2>3. Len(down') + 1 = n + Len(q) + 1 /\ 0 \in 0 .. n
    BY <1>2
  <2> QED
    BY <2>1, <2>2, <2>3 DEF AllSent, IsLast
<1>10. Begun'
  BY DEF InStep, Begun
<1> QED
  BY <1>5, <1>8, <1>9, <1>10 DEF InStep

(* What is cut off is the end of the line. *)
LEMMA ClosedInStep ==
    ASSUME Inv, InStep, Closes, UNCHANGED <<pc, got, state, handled>>
    PROVE  InStep'
<1>1. PICK k \in 0 .. Len(down) : down' = SubSeq(down, 1, k) /\ dev' = "closed"
  BY DEF Closes
<1>2. /\ Len(down) \in Nat /\ DOMAIN down' = 1 .. k /\ DOMAIN down = 1 .. Len(down)
      /\ \A i \in 1 .. k : down'[i] = down[i]
  BY <1>1, CutProperties DEF Inv, Shape
<1>3. \A i \in 0 .. k, j \in 1 .. k : Blank(down', i, j) => Blank(down, i, j)
  <2> SUFFICES ASSUME NEW i \in 0 .. k, NEW j \in 1 .. k, Blank(down', i, j),
                      NEW l \in DOMAIN down, i < l, l < j
               PROVE  down[l] = Ticket
    BY DEF Blank
  <2>1. l \in DOMAIN down' /\ down'[l] = down[l]
    BY <1>2
  <2> QED
    BY <2>1 DEF Blank
<1>4. \A i \in DOMAIN down' : i \in DOMAIN down /\ down'[i] = down[i] /\ i \in 0 .. k /\ i \in 1 .. k
  BY <1>2
<1>5. Consecutive(down')
  <2>1. Consecutive(down)
    BY DEF InStep
  <2> QED
    BY <1>3, <1>4, <2>1 DEF Consecutive
<1>6. Resumes'
  <2> SUFFICES ASSUME NEW j \in DOMAIN down', down'[j] # Ticket, Blank(down', 0, j)
               PROVE  Due(down'[j])
    BY DEF Resumes, Due
  <2>1. Blank(down, 0, j)
    BY <1>1, <1>3, <1>4
  <2> QED
    BY <1>4, <2>1 DEF InStep, Resumes
<1>7. Begun' /\ AllSent'
  BY <1>1 DEF InStep, Begun, AllSent
<1> QED
  BY <1>5, <1>6, <1>7 DEF InStep

(* A piece taken off the wire. *)
LEMMA TailBlank ==
    ASSUME NEW q \in Seq(Wire), q # << >>, NEW i \in Nat, NEW j \in Nat, Blank(Tail(q), i, j)
    PROVE  Blank(q, i + 1, j + 1) /\ (i = 0 /\ q[1] = Ticket => Blank(q, 0, j + 1))
<1>1. /\ Len(q) \in Nat \ {0} /\ DOMAIN q = 1 .. Len(q) /\ DOMAIN Tail(q) = 1 .. Len(q) - 1
      /\ \A l \in 1 .. Len(q) - 1 : Tail(q)[l] = q[l + 1]
  BY TakeProperties
<1> DEFINE r == Tail(q)
<1>2. ASSUME NEW l \in DOMAIN q, i + 1 < l, l < j + 1 PROVE q[l] = Ticket
  <2>1. l - 1 \in DOMAIN r /\ i < l - 1 /\ l - 1 < j /\ (l - 1) + 1 = l
    BY <1>1, <1>2
  <2>2. r[l - 1] = q[(l - 1) + 1]
    BY <1>1, <2>1
  <2> QED
    BY <2>1, <2>2 DEF Blank
<1>3. Blank(q, i + 1, j + 1)
  BY <1>2 DEF Blank
<1>4. ASSUME i = 0, q[1] = Ticket PROVE Blank(q, 0, j + 1)
  BY <1>1, <1>3, <1>4 DEF Blank
<1> QED
  BY <1>3, <1>4

LEMMA TakenInLine ==
    ASSUME Inv, InStep, down # << >>, down' = Tail(down)
    PROVE  /\ Consecutive(down')
           /\ \A j \in DOMAIN down' : (down'[j] # Ticket /\ Blank(down', 0, j)) =>
                 IF down[1] = Ticket THEN Due(down'[j]) ELSE FollowedBy(down[1], down'[j])
           /\ dev # "closed" =>
                 /\ \A i \in DOMAIN down' :
                       (down'[i] # Ticket /\ Blank(down', i, Len(down') + 1)) => IsLast(down'[i])
                 /\ (Blank(down', 0, Len(down') + 1) /\ down[1] # Ticket) => IsLast(down[1])
                 /\ (Blank(down', 0, Len(down') + 1) /\ down[1] = Ticket) =>
                       IF got = << >> THEN Len(handled) = sent ELSE IsLast(got[Len(got)])
<1>1. /\ Len(down) \in Nat \ {0} /\ DOMAIN down = 1 .. Len(down) /\ DOMAIN down' = 1 .. Len(down) - 1
      /\ Len(down') = Len(down) - 1
      /\ \A i \in 1 .. Len(down) - 1 : down'[i] = down[i + 1]
  BY TakeProperties DEF Inv, Shape
<1>2. \A i, j \in Nat : Blank(down', i, j) =>
          Blank(down, i + 1, j + 1) /\ (i = 0 /\ down[1] = Ticket => Blank(down, 0, j + 1))
  BY TailBlank DEF Inv, Shape
<1>3. \A i \in DOMAIN down' : i \in Nat /\ i > 0 /\ i + 1 \in DOMAIN down /\ down'[i] = down[i + 1]
  BY <1>1
<1>4. Consecutive(down')
  <2> SUFFICES ASSUME NEW i \in DOMAIN down', NEW j \in DOMAIN down', i < j,
                      down'[i] # Ticket, down'[j] # Ticket, Blank(down', i, j)
               PROVE  FollowedBy(down'[i], down'[j])
    BY DEF Consecutive
  <2>1. /\ i + 1 \in DOMAIN down /\ j + 1 \in DOMAIN down /\ i + 1 < j + 1
        /\ down'[i] = down[i + 1] /\ down'[j] = down[j + 1] /\ Blank(down, i + 1, j + 1)
    BY <1>2, <1>3
  <2> QED
    BY <2>1 DEF InStep, Consecutive
<1>5. ASSUME NEW j \in DOMAIN down', down'[j] # Ticket, Blank(down', 0, j)
      PROVE  IF down[1] = Ticket THEN Due(down'[j]) ELSE FollowedBy(down[1], down'[j])
  <2>1. j + 1 \in DOMAIN down /\ 1 < j + 1 /\ 1 \in DOMAIN down /\ down'[j] = down[j + 1]
    BY <1>1, <1>3
  <2>2. Blank(down, 0 + 1, j + 1) /\ (down[1] = Ticket => Blank(down, 0, j + 1))
    BY <1>2, <1>3, <1>5
  <2>3. CASE down[1] = Ticket
    BY <1>5, <2>1, <2>2, <2>3 DEF InStep, Resumes
  <2>4. CASE down[1] # Ticket
    BY <1>5, <2>1, <2>2, <2>4 DEF InStep, Consecutive
  <2> QED
    BY <2>3, <2>4
<1>6. Len(down') + 1 = Len(down) /\ Len(down') + 1 \in Nat /\ 1 \in DOMAIN down /\ 0 \in Nat
  BY <1>1
<1>7. ASSUME dev # "closed", NEW i \in DOMAIN down', down'[i] # Ticket, Blank(down', i, Len(down') + 1)
      PROVE  IsLast(down'[i])
  <2>1. i + 1 \in DOMAIN down /\ down'[i] = down[i + 1] /\ Blank(down, i + 1, Len(down) + 1)
    BY <1>2, <1>3, <1>6, <1>7
  <2> QED
    BY <1>7, <2>1 DEF InStep, AllSent
<1>8. Blank(down', 0, Len(down') + 1) =>
          Blank(down, 1, Len(down) + 1) /\ (down[1] = Ticket => Blank(down, 0, Len(down) + 1))
  BY <1>2, <1>6
<1>9. ASSUME dev # "closed", Blank(down', 0, Len(down') + 1), down[1] # Ticket PROVE IsLast(down[1])
  BY <1>6, <1>8, <1>9 DEF InStep, AllSent
<1>10. ASSUME dev # "closed", Blank(down', 0, Len(down') + 1), down[1] = Ticket
       PROVE  IF got = << >> THEN Len(handled) = sent ELSE IsLast(got[Len(got)])
  BY <1>8, <1>10 DEF InStep, AllSent
<1> QED
  BY <1>4, <1>5, <1>7, <1>9, <1>10

(* A message begun and in step: the reader knows when it has all of it.    *)
LEMMA BegunProperties ==
    ASSUME Inv, InStep
    PROVE  /\ ~Misread
           /\ got # << >> => /\ Len(got) \in Nat \ {0} /\ DOMAIN got = 1 .. Len(got)
                             /\ got[Len(got)] \in Piece /\ got[1].m \in Message
                             /\ got[Len(got)].m = got[1].m /\ got[Len(got)].u = Len(got)
                             /\ got[1].m.n = Len(handled) + 1
           /\ (got # << >> /\ Len(got) = Size(got[1].m)) => Whole
           /\ Whole => Len(got) = Size(got[1].m)
<1>1. DOMAIN got = 1 .. Len(got) /\ Len(got) \in Nat /\ \A i \in 1 .. Len(got) : got[i] \in Piece
  BY LenProperties, ElementOfSeq DEF Inv, Shape
<1>2. \A i \in 1 .. Len(got) : got[i].m = got[1].m /\ got[i].u = i /\ got[i].m.n = Len(handled) + 1
  BY <1>1 DEF InStep, Begun
<1>3. ASSUME got # << >>
      PROVE  /\ Len(got) \in Nat \ {0} /\ got[Len(got)] \in Piece /\ got[1].m \in Message
             /\ got[Len(got)].m = got[1].m /\ got[Len(got)].u = Len(got)
             /\ got[1].m.n = Len(handled) + 1
  <2>1. Len(got) \in Nat \ {0}
    BY <1>3, EmptySeq DEF Inv, Shape
  <2>2. 1 \in 1 .. Len(got) /\ Len(got) \in 1 .. Len(got)
    BY <2>1
  <2> QED
    BY <1>1, <1>2, <2>1, <2>2, PieceType
<1>4. Len(got) >= 2 => IsHeader /\ got[2].u = 2
  <2>1. Len(got) >= 2 => 1 \in 1 .. Len(got) /\ 2 \in 1 .. Len(got)
    BY <1>1
  <2> QED
    BY <1>2, <2>1 DEF IsHeader
<1>5. ~Misread
  BY <1>4 DEF Misread
<1>6. ASSUME got # << >>, Len(got) = Size(got[1].m) PROVE Whole
  <2> DEFINE m == got[1].m
             q == Pieces(m)
  <2>1. m \in Message
    BY <1>3, <1>6
  <2>2. /\ q \in Seq(Piece) /\ Len(q) = Size(m) /\ Size(m) \in {2, 4}
        /\ \A i \in 1 .. Size(m) : q[i] = [m |-> m, u |-> i]
    BY <2>1, PiecesProperties
  <2>3. \A i \in 1 .. Len(got) : got[i].m = m /\ got[i].u = i /\ got[i] \in Piece
    BY <1>1, <1>2
  <2>4. IsHeader
    BY <1>4, <1>6, <2>2
  <2>5. Len(got) = Len(q) /\ got \in Seq(Piece)
    BY <1>6, <2>2 DEF Inv, Shape
  <2> HIDE DEF q, m
  <2>6. \A i \in 1 .. Len(got) : got[i] = q[i]
    <3> SUFFICES ASSUME NEW i \in 1 .. Len(got) PROVE got[i] = q[i]
      OBVIOUS
    <3>1. got[i] \in Piece /\ got[i].m = m /\ got[i].u = i
      BY <2>3
    <3>2. got[i] = [m |-> m, u |-> i]
      BY <3>1 DEF Piece
    <3>3. q[i] = [m |-> m, u |-> i]
      BY <2>2, <2>5
    <3> QED
      BY <3>2, <3>3
  <2>7. got = q
    BY <2>2, <2>5, <2>6, SeqEqual
  <2> QED
    BY <2>4, <2>7 DEF q, m, Whole
<1>7. ASSUME Whole PROVE Len(got) = Size(got[1].m)
  <2>1. got # << >> /\ got = Pieces(got[1].m)
    BY <1>7, WholeIsGot DEF Whole
  <2>2. got[1].m \in Message
    BY <1>3, <2>1
  <2>3. Len(Pieces(got[1].m)) = Size(got[1].m)
    BY <2>2, PiecesProperties
  <2> QED
    BY <2>1, <2>3
<1> QED
  BY <1>1, <1>3, <1>5, <1>6, <1>7

LEMMA TakeInStep ==
    ASSUME Inv, InStep, Take
    PROVE  InStep'
<1>1. /\ pc = "read" /\ down # << >> /\ down' = Tail(down) /\ ~Whole
      /\ got' = (IF Head(down) = Ticket THEN got ELSE Append(got, Head(down)))
      /\ UNCHANGED <<device, up, pc, mode, tries, result, handled, lost>>
  BY DEF Take, Reading
<1>2. UNCHANGED <<dev, sent, pc, state, handled>>
  BY <1>1 DEF device, result
<1>3. Head(down) = down[1] /\ 1 \in DOMAIN down
  BY <1>1, TakeProperties DEF Inv, Shape
<1>4. /\ Consecutive(down')
      /\ \A j \in DOMAIN down' : (down'[j] # Ticket /\ Blank(down', 0, j)) =>
            IF down[1] = Ticket THEN Due(down'[j]) ELSE FollowedBy(down[1], down'[j])
      /\ dev # "closed" =>
            /\ \A i \in DOMAIN down' :
                  (down'[i] # Ticket /\ Blank(down', i, Len(down') + 1)) => IsLast(down'[i])
            /\ (Blank(down', 0, Len(down') + 1) /\ down[1] # Ticket) => IsLast(down[1])
            /\ (Blank(down', 0, Len(down') + 1) /\ down[1] = Ticket) =>
                  IF got = << >> THEN Len(handled) = sent ELSE IsLast(got[Len(got)])
  BY <1>1, TakenInLine
<1>5. /\ \A i \in DOMAIN handled' : handled'[i].whole /\ handled'[i].m.n = i
      /\ state' = "connected" => \E i \in DOMAIN handled' : handled'[i].m.cmd = "CNXN"
  BY <1>2 DEF InStep
<1>6. CASE down[1] = Ticket
  <2>1. got' = got
    BY <1>1, <1>3, <1>6
  <2>2. Begun'
    BY <1>2, <2>1 DEF InStep, Begun
  <2>3. Resumes'
    BY <1>2, <1>4, <1>6, <2>1 DEF Resumes, Due
  <2>4. AllSent'
    BY <1>2, <1>4, <1>6, <2>1 DEF AllSent, IsLast
  <2> QED
    BY <1>4, <1>5, <2>2, <2>3, <2>4 DEF InStep
<1>7. CASE down[1] # Ticket
  <2> DEFINE x == down[1]
  <2>1. x \in Piece /\ got \in Seq(Piece) /\ got' = Append(got, x)
    BY <1>1, <1>3, <1>7, DownType DEF Inv, Shape
  <2>2. Due(x)
    <3>1. Blank(down, 0, 1)
      BY LenProperties DEF Blank, Inv, Shape
    <3> QED
      BY <1>3, <1>7, <3>1 DEF InStep, Resumes
  <2>3. x.m \in Message /\ x.u \in Nat /\ Size(x.m) \in {2, 4}
    BY <2>1, PieceType
  <2> HIDE DEF x
  <2>4. /\ got' # << >> /\ Len(got) \in Nat /\ Len(got') = Len(got) + 1 /\ DOMAIN got' = 1 .. Len(got) + 1
        /\ DOMAIN got = 1 .. Len(got)
        /\ got'[Len(got) + 1] = x /\ \A i \in 1 .. Len(got) : got'[i] = got[i]
    BY <2>1, PutProperties
  <2>5. got = << >> => Len(got) = 0
    BY <2>1
  <2>6. x.u = Len(got) + 1 /\ x.m.n = Len(handled) + 1 /\ (got # << >> => x.m = got[1].m)
        /\ Len(got) + 1 <= Size(x.m)
    <3>1. CASE got = << >>
      BY <2>2, <2>3, <2>5, <3>1 DEF Due
    <3>2. CASE got # << >>
      <4>1. /\ got[Len(got)].m = got[1].m /\ got[Len(got)].u = Len(got) /\ got[1].m.n = Len(handled) + 1
            /\ Len(got) # Size(got[1].m)
        BY <1>1, <3>2, BegunProperties
      <4>2. Len(got) <= Size(got[1].m)
        BY <3>2 DEF InStep, Begun
      <4>3. x.m = got[1].m /\ x.u = Len(got) + 1
        BY <2>2, <3>2, <4>1 DEF Due, FollowedBy
      <4> QED
        BY <2>3, <2>4, <4>1, <4>2, <4>3
    <3> QED
      BY <3>1, <3>2
  <2>7. got'[1].m = x.m
    <3>1. CASE got = << >>
      BY <2>4, <2>5, <3>1
    <3>2. CASE got # << >>
      <4>1. 1 \in 1 .. Len(got)
        BY <2>1, <2>4, <3>2, EmptySeq
      <4> QED
        BY <2>4, <2>6, <3>2, <4>1
    <3> QED
      BY <3>1, <3>2
  <2>8. Begun'
    <3>1. ASSUME NEW i \in DOMAIN got'
          PROVE  got'[i].m = got'[1].m /\ got'[i].u = i /\ got'[i].m.n = Len(handled') + 1
      <4>1. CASE i = Len(got) + 1
        BY <1>2, <2>4, <2>6, <2>7, <4>1
      <4>2. CASE i # Len(got) + 1
        <5>1. i \in 1 .. Len(got) /\ got # << >>
          BY <2>4, <2>5, <3>1, <4>2
        <5>2. got[i].m = got[1].m /\ got[i].u = i /\ got[i].m.n = Len(handled) + 1
          BY <2>4, <5>1 DEF InStep, Begun
        <5> QED
          BY <1>2, <2>4, <2>6, <2>7, <5>1, <5>2
      <4> QED
        BY <4>1, <4>2
    <3>2. Len(got') <= Size(got'[1].m)
      BY <2>4, <2>6, <2>7
    <3> QED
      BY <1>1, <1>2, <3>1, <3>2 DEF Begun
  <2>9. got'[Len(got')] = x
    BY <2>4
  <2>10. Resumes'
    BY <1>4, <1>7, <2>4, <2>9 DEF Resumes, Due, x
  <2>11. AllSent'
    BY <1>2, <1>4, <1>7, <2>4, <2>9 DEF AllSent, IsLast, x
  <2> QED
    BY <1>4, <1>5, <2>8, <2>10, <2>11 DEF InStep
<1> QED
  BY <1>6, <1>7

LEMMA ReceivedInStep ==
    ASSUME Inv, InStep, Received, lost' = {}
    PROVE  InStep'
<1>1. pc = "read" /\ Whole /\ UNCHANGED <<dev, sent, down>>
  BY DEF Received, device
<1> DEFINE m == got[1].m
           e == [m |-> m, whole |-> Whole]
<1>2. got # << >> /\ Handling(m)
  BY <1>1, WholeIsGot, InvReceived
<1>3. /\ Len(got) \in Nat \ {0} /\ m \in Message /\ m.n = Len(handled) + 1
      /\ got[Len(got)].m = m /\ got[Len(got)].u = Size(m)
  BY <1>1, <1>2, BegunProperties
<1>4. handled' = Append(handled, e) /\ got' = << >>
  BY <1>2, <1>3, TicketIsNoPiece DEF Handling
<1>5. handled \in Seq([m : Message, whole : BOOLEAN]) /\ e \in [m : Message, whole : BOOLEAN]
  BY <1>1, <1>3 DEF Inv, Shape
<1>6. e.m = m /\ e.whole = Whole
  OBVIOUS
<1>7. state' = "connected" => (state = "connected" \/ m.cmd = "CNXN")
  BY <1>2 DEF Handling
<1> HIDE DEF m, e
<1>8. /\ Len(handled) \in Nat /\ Len(handled') = Len(handled) + 1 /\ DOMAIN handled' = 1 .. Len(handled) + 1
      /\ DOMAIN handled = 1 .. Len(handled)
      /\ handled'[Len(handled) + 1] = e /\ \A i \in 1 .. Len(handled) : handled'[i] = handled[i]
  BY <1>4, <1>5, PutProperties
<1>9. Begun'
  BY <1>4 DEF Begun
<1>10. Consecutive(down')
  BY <1>1 DEF InStep
<1>11. Resumes'
  <2> SUFFICES ASSUME NEW j \in DOMAIN down, down[j] # Ticket, Blank(down, 0, j)
               PROVE  down[j].m.n = Len(handled') + 1 /\ down[j].u = 1
    BY <1>1, <1>4 DEF Resumes, Due
  <2>1. Due(down[j])
    BY DEF InStep, Resumes
  <2>2. down[j].m.n = m.n + 1 /\ down[j].u = 1
    BY <1>2, <1>3, <2>1 DEF Due, FollowedBy
  <2> QED
    BY <1>3, <1>8, <2>2
<1>12. AllSent'
  <2>1. /\ dev' = dev /\ sent' = sent /\ down' = down /\ got' = << >>
    BY <1>1, <1>4
  <2>2. ASSUME dev # "closed", Blank(down, 0, Len(down) + 1) PROVE Len(handled') = sent
    BY <1>2, <1>3, <1>8, <2>2 DEF InStep, AllSent, IsLast
  <2> QED
    BY <2>1, <2>2 DEF InStep, AllSent, IsLast
<1>13. ASSUME NEW i \in DOMAIN handled' PROVE handled'[i].whole /\ handled'[i].m.n = i
  <2>1. CASE i = Len(handled) + 1
    BY <1>1, <1>3, <1>6, <1>8, <2>1
  <2>2. CASE i # Len(handled) + 1
    BY <1>8, <2>2 DEF InStep
  <2> QED
    BY <2>1, <2>2
<1>14. ASSUME state' = "connected" PROVE \E i \in DOMAIN handled' : handled'[i].m.cmd = "CNXN"
  <2>1. CASE m.cmd = "CNXN"
    <3>1. Len(handled) + 1 \in DOMAIN handled'
      BY <1>8
    <3> QED
      BY <1>6, <1>8, <2>1, <3>1
  <2>2. CASE state = "connected"
    <3>1. PICK i \in DOMAIN handled : handled[i].m.cmd = "CNXN"
      BY <2>2 DEF InStep
    <3>2. i \in DOMAIN handled' /\ handled'[i] = handled[i]
      BY <1>8
    <3> QED
      BY <3>1, <3>2
  <2> QED
    BY <1>7, <1>14, <2>1, <2>2
<1> QED
  BY <1>9, <1>10, <1>11, <1>12, <1>13, <1>14 DEF InStep

(* A receive fails, in step, only at the end of the connection. *)
LEMMA FailsInStep ==
    ASSUME Inv, InStep, ReceiveFails, lost' = {}
    PROVE  InStep'
<1>1. Eof /\ got' = << >> /\ UNCHANGED <<dev, sent, down, handled>>
  BY BegunProperties DEF ReceiveFails, device
<1>2. state' \in {state, "disconnected"}
  BY InvReceiveFails
<1>3. down' = << >> /\ dev' = "closed"
  BY <1>1 DEF Eof
<1>4. Begun' /\ Consecutive(down') /\ Resumes' /\ AllSent'
  BY <1>1, <1>3 DEF Begun, Consecutive, Resumes, AllSent
<1> QED
  BY <1>1, <1>2, <1>4 DEF InStep

(* A step that touches neither the wire nor what was read. *)
LEMMA QuietInStep ==
    ASSUME Inv, InStep, UNCHANGED <<sent, down, got, handled>>, dev # "closed" \/ dev' = "closed",
           state' = "connected" => state = "connected", pc' = "read" \/ got = << >>
    PROVE  InStep'
<1>1. Begun'
  BY DEF InStep, Begun
<1>2. Resumes'
  BY DEF InStep, Resumes, Due
<1>3. AllSent'
  BY DEF InStep, AllSent, IsLast
<1> QED
  BY <1>1, <1>2, <1>3 DEF InStep

(* A record without data, or the end of the connection, between two        *)
(* messages.                                                               *)
LEMMA WantReadInStep ==
    ASSUME Inv, InStep, WantRead, lost' = {}
    PROVE  InStep'
<1>1. got = << >> /\ mode # "poll" /\ UNCHANGED <<dev, sent>>
  BY DEF WantRead, device
<1>2. Handling(Nothing)
  BY <1>1, InvWantRead
<1>3. handled' = handled /\ got' = << >> /\ (state' = "connected" => state = "connected")
  BY <1>2, TicketIsNoPiece DEF Handling, Nothing, Ticket
<1>4. CASE Eof /\ UNCHANGED down
  BY <1>1, <1>3, <1>4, QuietInStep
<1>5. CASE down # << >> /\ Head(down) = Ticket /\ down' = Tail(down)
  <2>1. down[1] = Ticket
    BY <1>5, TakeProperties DEF Inv, Shape
  <2>2. /\ Consecutive(down')
        /\ \A j \in DOMAIN down' : (down'[j] # Ticket /\ Blank(down', 0, j)) => Due(down'[j])
        /\ dev # "closed" =>
              /\ \A i \in DOMAIN down' :
                    (down'[i] # Ticket /\ Blank(down', i, Len(down') + 1)) => IsLast(down'[i])
              /\ Blank(down', 0, Len(down') + 1) => Len(handled) = sent
    BY <1>1, <1>5, <2>1, TakenInLine
  <2>3. Begun'
    BY <1>3 DEF Begun
  <2>4. Resumes'
    BY <1>1, <1>3, <2>2 DEF Resumes, Due
  <2>5. AllSent'
    BY <1>1, <1>3, <2>2 DEF AllSent, IsLast
  <2> QED
    BY <1>3, <2>2, <2>3, <2>4, <2>5 DEF InStep
<1> QED
  BY <1>4, <1>5 DEF WantRead

LEMMA TrackedStep ==
    ASSUME Inv, Tracked, [Next]_vars
    PROVE  Tracked'
<1> SUFFICES ASSUME lost' = {} PROVE InStep'
  BY DEF Tracked
<1>1. lost = {}
  BY DEF Next, Host, Done, Poll, Drain, vars, device, result, Connect, Select, TlsHandshake, Take,
         Received, ReceiveFails, WantRead, ReadAs, adb_disconnect, Device
<1>2. InStep
  BY <1>1 DEF Tracked
<1>3. pc # "read" => got = << >>
  BY <1>2 DEF InStep, Begun
<1>4. CASE Connect
  <2>1. /\ pc = "connect" /\ UNCHANGED <<dev, sent, down, got, handled>>
        /\ state' \in {state, "auth_sent", "disconnected"}
    BY <1>4, InvConnect DEF Connect, device
  <2> QED
    BY <1>2, <1>3, <2>1, QuietInStep
<1>5. CASE Select
  <2>1. pc = "select" /\ got' = << >> /\ UNCHANGED <<dev, sent, down, handled>> /\ state' \in {state, "disconnected"}
    BY <1>5, InvSelect DEF Select, device
  <2> QED
    BY <1>2, <1>3, <2>1, QuietInStep
<1>6. CASE TlsHandshake
  <2>1. /\ pc = "tls" /\ got' = << >> /\ UNCHANGED <<sent, down, handled>>
        /\ state' \in {state, "disconnected"} /\ (dev # "closed" \/ dev' = "closed")
    BY <1>6, InvTlsHandshake DEF TlsHandshake, device
  <2> QED
    BY <1>2, <1>3, <2>1, QuietInStep
<1>7. CASE Poll \/ Drain
  <2>1. PICK r \in {"poll", "drain"} : ReadAs(r)
    BY <1>7 DEF Poll, Drain
  <2>2. pc = "idle" /\ got' = << >> /\ UNCHANGED <<dev, sent, down, handled, state>>
    BY <2>1 DEF ReadAs, device, result
  <2> QED
    BY <1>2, <1>3, <2>2, QuietInStep
<1>8. CASE adb_disconnect
  <2>1. pc = "idle" /\ UNCHANGED <<dev, sent, down, got, handled>> /\ state' = "disconnected"
    BY <1>8, InvDisconnect DEF adb_disconnect, device
  <2> QED
    BY <1>2, <1>3, <2>1, QuietInStep
<1>9. CASE Device
  <2>1. UNCHANGED <<pc, got, state, handled>>
    BY <1>9, DeviceStep DEF result
  <2>2. CASE Listens
    BY <1>2, <1>3, <2>1, <2>2, QuietInStep DEF Listens
  <2> QED
    BY <1>2, <1>9, <2>1, <2>2, DeviceStep, SentInStep, ClosedInStep
<1>10. CASE UNCHANGED vars
  BY <1>2, <1>3, <1>10, QuietInStep DEF vars, device, result
<1>11. CASE Take
  BY <1>2, <1>11, TakeInStep
<1>12. CASE Received
  BY <1>2, <1>12, ReceivedInStep
<1>13. CASE ReceiveFails
  BY <1>2, <1>13, FailsInStep
<1>14. CASE WantRead
  BY <1>2, <1>14, WantReadInStep
<1> QED
  BY <1>4, <1>5, <1>6, <1>7, <1>8, <1>9, <1>10, <1>11, <1>12, <1>13, <1>14 DEF Next, Host, Done

LEMMA InitTracked == Init => Tracked
<1> SUFFICES ASSUME Init PROVE InStep
  BY DEF Tracked
<1>1. Len(down) = 0 /\ Len(handled) = 0
  BY DEF Init
<1>2. Begun /\ Consecutive(down) /\ Resumes /\ AllSent
  BY <1>1 DEF Init, Begun, Consecutive, Resumes, AllSent, Blank
<1> QED
  BY <1>2 DEF Init, InStep

(* Every message is acted on whole, once and in the order the device sent  *)
(* them, and the connection counts as set up only after a CNXN, as long as *)
(* no receive ended inside a message, no payload was without room and      *)
(* session_poll found a message where it looked (adb_recv_msg,             *)
(* adb_recv_msg_tls, session_poll, the drain loops of server.c).           *)
THEOREM Messages == Spec => []HandledInOrder
<1>1. Inv /\ Tracked /\ [Next]_vars => Tracked'
  BY TrackedStep
<1>2. Tracked => HandledInOrder
  BY DEF Tracked, InStep, HandledInOrder
<1> QED
  BY InitTracked, Invariance, <1>1, <1>2, PTL DEF Spec
=============================================================================
