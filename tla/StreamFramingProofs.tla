------------------------- MODULE StreamFramingProofs -------------------------
(***************************************************************************)
(* What holds of the framing for any number of packets of any size and any *)
(* splitting of the stream: the packets handed to the caller are those the *)
(* server sent.  The argument is where two pieces stand on the wire: how   *)
(* far apart they are tells how their places in their packets differ, for  *)
(* any two of them and not only for neighbours, so that one recv may take  *)
(* any number of them.                                                     *)
(***************************************************************************)
EXTENDS StreamFraming, SequenceTheorems, TLAPS

Packets == [n : Nat, kind : {"session", "media"}, len : Nat]
Piece   == [p : Packets, i : Nat \ {0}]
Length(p) == IF p.kind = "media" THEN 2 + p.len ELSE 2

(* y comes d pieces after x: in the same packet, or as the first piece of  *)
(* the next one.                                                           *)
Apart(x, y, d) ==
    IF x.i + d <= Length(x.p) THEN y.p = x.p /\ y.i = x.i + d
    ELSE x.i + d = Length(x.p) + 1 => y.p.n = x.p.n + 1 /\ y.i = 1
Spaced(q) == \A a, b \in DOMAIN q : a < b => Apart(q[a], q[b], b - a)

(* Only the video stream has session packets.                              *)
Allowed(q) == \A a \in DOMAIN q : q[a].p.kind = "session" => reader = "video"

(* What was read of the header or the payload due; the last piece read of  *)
(* the packet due, if any was.                                             *)
InHand == IF pending # << >> THEN pending ELSE buf
Begun  == InHand # << >> \/ pc = "payload"
Latest == IF InHand # << >> THEN InHand[Len(InHand)] ELSE [p |-> header, i |-> 2]

Shape ==
    /\ reader \in {"video", "audio", "demuxer"} /\ closed \in BOOLEAN /\ sent \in Nat
    /\ pc \in {"meta", "header", "payload", "failed"}
    /\ stream \in Seq(Piece) /\ pending \in Seq(Piece) /\ buf \in Seq(Piece)
    /\ out \in Seq([p : Packets, data : Seq(Piece)])

(* The bytes kept by server_start are a header, read before anything else. *)
Kept ==
    /\ pending # << >> => pc = "header" /\ buf = << >> /\ Len(pending) = 2
    /\ pc = "meta" => out = << >>

(* What is in hand belongs to the packet due and starts where it should.   *)
Due(p) == p.n = Len(out) + 1
Reading ==
    /\ pc \in {"meta", "header"} =>
          /\ Len(InHand) <= 2
          /\ \A a \in DOMAIN InHand : InHand[a].p = InHand[1].p /\ InHand[a].i = a /\ Due(InHand[a].p)
    /\ pc = "payload" =>
          /\ header \in Packets /\ header.kind = "media" /\ header.len > 0 /\ Due(header)
          /\ Len(buf) <= header.len
          /\ \A a \in DOMAIN buf : buf[a].p = header /\ buf[a].i = a + 2

(* The stream goes on where the reader stands, and ends where the server   *)
(* stopped sending as long as it is not closed.                            *)
GoesOn ==
    /\ Begun => \A b \in DOMAIN stream : Apart(Latest, stream[b], b)
    /\ ~Begun /\ stream # << >> => Due(stream[1].p) /\ stream[1].i = 1
Final(x) == x.p.n = sent /\ x.i = Length(x.p)
AllSent ==
    ~closed => IF stream # << >> THEN Final(stream[Len(stream)])
               ELSE IF Begun THEN Final(Latest) ELSE Len(out) = sent

InLine == Kept /\ Reading /\ Spaced(stream) /\ GoesOn /\ AllSent

OutRight ==
    \A i \in DOMAIN out :
        /\ out[i].p.n = i
        /\ out[i].data = IF out[i].p.kind = "media" THEN Payload(out[i].p) ELSE << >>

InStep ==
    /\ Shape /\ OutRight
    /\ Allowed(stream) /\ Allowed(pending) /\ Allowed(buf)
    /\ pc # "failed" => InLine

Inv == ~dropped => InStep

----------------------------------------------------------------------------
(* Sequences *)

LEMMA SequenceOf ==
    ASSUME NEW S, NEW n \in Nat, NEW t \in [1 .. n -> S]
    PROVE  t \in Seq(S) /\ Len(t) = n
<1>1. t \in Seq(S)
  BY SeqDef
<1> QED
  BY <1>1, LenProperties

LEMMA JoinedProperties ==
    ASSUME NEW d \in Seq(Piece), NEW q \in Seq(Piece)
    PROVE  /\ d \o q \in Seq(Piece) /\ Len(d \o q) = Len(d) + Len(q)
           /\ Len(d) \in Nat /\ Len(q) \in Nat
           /\ DOMAIN d = 1 .. Len(d) /\ DOMAIN q = 1 .. Len(q)
           /\ DOMAIN (d \o q) = 1 .. Len(d) + Len(q)
           /\ \A i \in 1 .. Len(d) : (d \o q)[i] = d[i]
           /\ \A i \in 1 .. Len(q) : (d \o q)[Len(d) + i] = q[i]
<1> DEFINE r == d \o q
<1>1. /\ r \in Seq(Piece) /\ Len(r) = Len(d) + Len(q)
      /\ \A i \in 1 .. Len(d) + Len(q) : r[i] = IF i <= Len(d) THEN d[i] ELSE q[i - Len(d)]
  BY ConcatProperties
<1>2. /\ Len(d) \in Nat /\ Len(q) \in Nat /\ DOMAIN d = 1 .. Len(d) /\ DOMAIN q = 1 .. Len(q)
      /\ DOMAIN r = 1 .. Len(d) + Len(q)
  BY <1>1, LenProperties
<1> HIDE DEF r
<1>3. \A i \in 1 .. Len(d) : r[i] = d[i]
  BY <1>1, <1>2
<1>4. ASSUME NEW i \in 1 .. Len(q) PROVE r[Len(d) + i] = q[i]
  <2>1. Len(d) + i \in 1 .. Len(d) + Len(q) /\ ~(Len(d) + i <= Len(d)) /\ (Len(d) + i) - Len(d) = i
    BY <1>2
  <2> QED
    BY <1>1, <2>1
<1> QED
  BY <1>1, <1>2, <1>3, <1>4 DEF r

(* The first k of a sequence, and the rest. *)
LEMMA SplitProperties ==
    ASSUME NEW q \in Seq(Piece), NEW k \in 0 .. Len(q)
    PROVE  /\ Len(q) \in Nat /\ DOMAIN q = 1 .. Len(q)
           /\ SubSeq(q, 1, k) \in Seq(Piece) /\ Len(SubSeq(q, 1, k)) = k /\ DOMAIN SubSeq(q, 1, k) = 1 .. k
           /\ \A i \in 1 .. k : SubSeq(q, 1, k)[i] = q[i]
           /\ SubSeq(q, k + 1, Len(q)) \in Seq(Piece) /\ Len(SubSeq(q, k + 1, Len(q))) = Len(q) - k
           /\ DOMAIN SubSeq(q, k + 1, Len(q)) = 1 .. Len(q) - k
           /\ \A i \in 1 .. Len(q) - k : SubSeq(q, k + 1, Len(q))[i] = q[k + i]
<1> DEFINE r == SubSeq(q, 1, k)
           t == SubSeq(q, k + 1, Len(q))
<1>1. Len(q) \in Nat /\ DOMAIN q = 1 .. Len(q) /\ \A i \in 1 .. Len(q) : q[i] \in Piece
  BY LenProperties, ElementOfSeq
<1>2. \A i \in 1 .. k : q[i] \in Piece
  BY <1>1
<1>3. /\ r \in Seq(Piece) /\ Len(r) = IF 1 <= k THEN k - 1 + 1 ELSE 0
      /\ \A i \in 1 .. k - 1 + 1 : r[i] = q[1 + i - 1]
  BY <1>1, <1>2, SubSeqProperties
<1>4. \A i \in k + 1 .. Len(q) : q[i] \in Piece
  BY <1>1
<1>5. /\ t \in Seq(Piece) /\ Len(t) = IF k + 1 <= Len(q) THEN Len(q) - (k + 1) + 1 ELSE 0
      /\ \A i \in 1 .. Len(q) - (k + 1) + 1 : t[i] = q[(k + 1) + i - 1]
  BY <1>1, <1>4, SubSeqProperties
<1> HIDE DEF r, t
<1>6. Len(r) = k /\ DOMAIN r = 1 .. k
  BY <1>1, <1>3, LenProperties
<1>7. Len(t) = Len(q) - k /\ DOMAIN t = 1 .. Len(q) - k
  <2>1. Len(t) = Len(q) - k
    <3>1. k \in Nat /\ k <= Len(q) /\ Len(q) \in Nat
      BY <1>1
    <3>2. Len(q) - (k + 1) + 1 = Len(q) - k /\ (~(k + 1 <= Len(q)) => Len(q) - k = 0)
      BY <3>1
    <3> QED
      BY <1>5, <3>2
  <2>2. DOMAIN t = 1 .. Len(t)
    BY <1>5, LenProperties
  <2> QED
    BY <2>1, <2>2
<1>8. \A i \in 1 .. k : r[i] = q[i]
  BY <1>1, <1>3
<1>9. ASSUME NEW i \in 1 .. Len(q) - k PROVE t[i] = q[k + i]
  <2>1. i \in 1 .. Len(q) - (k + 1) + 1 /\ (k + 1) + i - 1 = k + i
    BY <1>1
  <2> QED
    BY <1>5, <2>1
<1> QED
  BY <1>1, <1>3, <1>5, <1>6, <1>7, <1>8, <1>9 DEF r, t

LEMMA PutProperties ==
    ASSUME NEW S, NEW q \in Seq(S), NEW m \in S
    PROVE  /\ Append(q, m) \in Seq(S)
           /\ Len(q) \in Nat /\ Len(Append(q, m)) = Len(q) + 1
           /\ DOMAIN Append(q, m) = 1 .. Len(q) + 1 /\ DOMAIN q = 1 .. Len(q)
           /\ Append(q, m)[Len(q) + 1] = m
           /\ \A i \in 1 .. Len(q) : Append(q, m)[i] = q[i]
  BY AppendProperties, LenProperties

----------------------------------------------------------------------------
(* Packets and their pieces *)

LEMMA PacketType ==
    ASSUME NEW p \in Packets
    PROVE  Length(p) \in Nat /\ Length(p) >= 2 /\ p.n \in Nat /\ p.len \in Nat /\ p.kind \in {"session", "media"}
  BY DEF Packets, Length

LEMMA PieceType ==
    ASSUME NEW x \in Piece
    PROVE  x.p \in Packets /\ x.i \in Nat /\ x.i > 0
  BY DEF Piece

LEMMA PayloadProperties ==
    ASSUME NEW p \in Packets
    PROVE  /\ Payload(p) \in Seq(Piece) /\ Len(Payload(p)) = p.len /\ p.len \in Nat
           /\ \A i \in 1 .. p.len : Payload(p)[i] = [p |-> p, i |-> i + 2]
<1>1. p.len \in Nat
  BY PacketType
<1>2. \A i \in 1 .. p.len : [p |-> p, i |-> i + 2] \in Piece
  BY <1>1 DEF Piece
<1>3. Payload(p) = [i \in 1 .. p.len |-> [p |-> p, i |-> i + 2]]
  BY DEF Payload
<1>4. Payload(p) \in [1 .. p.len -> Piece]
  BY <1>2, <1>3
<1> QED
  BY <1>1, <1>3, <1>4, SequenceOf

LEMMA HeaderProperties ==
    ASSUME NEW p \in Packets
    PROVE  /\ Header(p) \in Seq(Piece) /\ Len(Header(p)) = 2
           /\ \A i \in 1 .. 2 : Header(p)[i] = [p |-> p, i |-> i]
<1>1. \A i \in 1 .. 2 : [p |-> p, i |-> i] \in Piece
  BY DEF Piece
<1>2. Header(p) = [i \in 1 .. 2 |-> [p |-> p, i |-> i]]
  BY DEF Header
<1>3. Header(p) \in [1 .. 2 -> Piece]
  BY <1>1, <1>2
<1>4. 2 \in Nat
  OBVIOUS
<1> QED
  BY <1>2, <1>3, <1>4, SequenceOf

LEMMA OnWireProperties ==
    ASSUME NEW p \in Packets
    PROVE  /\ OnWire(p) \in Seq(Piece) /\ Len(OnWire(p)) = Length(p)
           /\ \A i \in 1 .. Length(p) : OnWire(p)[i] = [p |-> p, i |-> i]
<1> DEFINE h == Header(p)
           b == IF p.kind = "media" THEN Payload(p) ELSE << >>
           n == IF p.kind = "media" THEN p.len ELSE 0
<1>1. h \in Seq(Piece) /\ Len(h) = 2 /\ \A i \in 1 .. 2 : h[i] = [p |-> p, i |-> i]
  BY HeaderProperties
<1>2. b \in Seq(Piece) /\ Len(b) = n /\ n \in Nat /\ \A i \in 1 .. n : b[i] = [p |-> p, i |-> i + 2]
  <2>1. CASE p.kind = "media"
    BY <2>1, PayloadProperties
  <2>2. CASE p.kind # "media"
    BY <2>2
  <2> QED
    BY <2>1, <2>2
<1>3. Length(p) = 2 + n /\ OnWire(p) = h \o b
  BY <1>2 DEF Length, OnWire
<1> HIDE DEF h, b, n
<1> DEFINE q == h \o b
<1>4. /\ q \in Seq(Piece) /\ Len(q) = 2 + n
      /\ \A i \in 1 .. 2 : q[i] = h[i]
      /\ \A i \in 1 .. n : q[2 + i] = b[i]
  <2>1. /\ q \in Seq(Piece) /\ Len(q) = Len(h) + Len(b)
        /\ \A i \in 1 .. Len(h) : q[i] = h[i]
        /\ \A i \in 1 .. Len(b) : q[Len(h) + i] = b[i]
    BY <1>1, <1>2, JoinedProperties
  <2> HIDE DEF q
  <2> QED
    BY <1>1, <1>2, <2>1
<1> HIDE DEF q
<1>5. ASSUME NEW i \in 1 .. 2 + n PROVE q[i] = [p |-> p, i |-> i]
  <2>1. CASE i <= 2
    <3>1. i \in 1 .. 2
      BY <1>2, <2>1
    <3> QED
      BY <1>1, <1>4, <3>1
  <2>2. CASE i > 2
    <3>1. i - 2 \in 1 .. n /\ 2 + (i - 2) = i /\ (i - 2) + 2 = i
      BY <1>2, <2>2
    <3>2. q[2 + (i - 2)] = b[i - 2] /\ b[i - 2] = [p |-> p, i |-> (i - 2) + 2]
      BY <1>2, <1>4, <3>1
    <3> QED
      BY <3>1, <3>2
  <2> QED
    BY <1>2, <2>1, <2>2
<1> QED
  BY <1>3, <1>4, <1>5 DEF q

----------------------------------------------------------------------------
(* Two pieces further apart *)

(* What comes j pieces after the final piece l of a packet comes so after  *)
(* any piece before l.                                                     *)
LEMMA ApartBeyond ==
    ASSUME NEW x \in Piece, NEW l \in Piece, NEW y \in Piece, NEW d \in Nat, NEW j \in Nat \ {0},
           Apart(x, l, d) \/ (d = 0 /\ l = x), l.i = Length(l.p),
           y.p.n = l.p.n + 1, y.i = j
    PROVE  Apart(x, y, d + j)
<1>1. x.i \in Nat /\ Length(x.p) \in Nat /\ x.i > 0
  BY PieceType, PacketType
<1>2. CASE x.i + d <= Length(x.p)
  <2>1. l.p = x.p /\ l.i = x.i + d
    BY <1>1, <1>2 DEF Apart
  <2>2. x.i + d = Length(x.p)
    BY <2>1
  <2>3. ~(x.i + (d + j) <= Length(x.p)) /\ (x.i + (d + j) = Length(x.p) + 1 => j = 1)
    BY <1>1, <2>2
  <2> QED
    BY <2>1, <2>3 DEF Apart
<1>3. CASE x.i + d > Length(x.p)
  <2>1. x.i + (d + j) > Length(x.p) + 1 /\ ~(x.i + (d + j) <= Length(x.p))
    BY <1>1, <1>3
  <2> QED
    BY <1>1, <2>1 DEF Apart
<1> QED
  BY <1>1, <1>2, <1>3

LEMMA WireSpaced ==
    ASSUME NEW p \in Packets
    PROVE  Spaced(OnWire(p))
<1> DEFINE q == OnWire(p)
<1>1. /\ q \in Seq(Piece) /\ Len(q) = Length(p) /\ Length(p) \in Nat
      /\ \A i \in 1 .. Length(p) : q[i] = [p |-> p, i |-> i]
  BY OnWireProperties, PacketType
<1>2. DOMAIN q = 1 .. Length(p)
  BY <1>1, LenProperties
<1> HIDE DEF q
<1> SUFFICES ASSUME NEW a \in DOMAIN q, NEW b \in DOMAIN q, a < b PROVE Apart(q[a], q[b], b - a)
  BY DEF Spaced, q
<1>3. q[a].p = p /\ q[a].i = a /\ q[b].p = p /\ q[b].i = b
  BY <1>1, <1>2
<1>4. a + (b - a) = b /\ b <= Length(p)
  BY <1>1, <1>2
<1> QED
  BY <1>3, <1>4 DEF Apart

(* A packet put at the end of a stream that ends with a whole packet. *)
LEMMA JoinedSpaced ==
    ASSUME NEW s \in Seq(Piece), NEW p \in Packets, Spaced(s), s # << >>,
           s[Len(s)].i = Length(s[Len(s)].p), p.n = s[Len(s)].p.n + 1
    PROVE  Spaced(s \o OnWire(p))
<1> DEFINE q == OnWire(p)
           r == s \o OnWire(p)
           n == Len(s)
<1>1. /\ q \in Seq(Piece) /\ Len(q) = Length(p) /\ Length(p) \in Nat
      /\ \A i \in 1 .. Length(p) : q[i] = [p |-> p, i |-> i]
  BY OnWireProperties, PacketType
<1>2. /\ r \in Seq(Piece) /\ n \in Nat /\ DOMAIN s = 1 .. n /\ DOMAIN r = 1 .. n + Length(p)
      /\ DOMAIN q = 1 .. Length(p)
      /\ \A i \in 1 .. n : r[i] = s[i]
      /\ \A i \in 1 .. Length(p) : r[n + i] = q[i]
  <2>1. /\ r \in Seq(Piece) /\ Len(s) \in Nat /\ DOMAIN s = 1 .. Len(s)
        /\ DOMAIN r = 1 .. Len(s) + Len(q) /\ DOMAIN q = 1 .. Len(q)
        /\ \A i \in 1 .. Len(s) : r[i] = s[i]
        /\ \A i \in 1 .. Len(q) : r[Len(s) + i] = q[i]
    BY <1>1, JoinedProperties
  <2> QED
    BY <1>1, <2>1
<1>3. n > 0 /\ n \in 1 .. n /\ Length(p) \in Nat /\ \A i \in 1 .. n : s[i] \in Piece
  BY <1>1, <1>2, EmptySeq, ElementOfSeq
<1>4. Spaced(q)
  BY WireSpaced
<1> DEFINE l == s[n]
<1>5. l \in Piece /\ l.i = Length(l.p) /\ p.n = l.p.n + 1
  BY <1>3
<1> HIDE DEF q, r, n, l
<1> SUFFICES ASSUME NEW a \in DOMAIN r, NEW b \in DOMAIN r, a < b PROVE Apart(r[a], r[b], b - a)
  BY DEF Spaced, r
<1>6. CASE b <= n
  <2>1. a \in DOMAIN s /\ b \in DOMAIN s /\ r[a] = s[a] /\ r[b] = s[b]
    BY <1>2, <1>6
  <2> QED
    BY <2>1 DEF Spaced
<1>7. CASE a > n
  <2>1. /\ a - n \in DOMAIN q /\ b - n \in DOMAIN q /\ a - n < b - n
        /\ n + (a - n) = a /\ n + (b - n) = b /\ (b - n) - (a - n) = b - a
    <3>1. a \in Nat /\ b \in Nat /\ n \in Nat /\ Length(p) \in Nat /\ b <= n + Length(p)
      BY <1>2, <1>3
    <3>2. a - n \in 1 .. Length(p) /\ b - n \in 1 .. Length(p) /\ a - n < b - n
      BY <1>7, <3>1
    <3>3. n + (a - n) = a /\ n + (b - n) = b /\ (b - n) - (a - n) = b - a
      BY <3>1
    <3> QED
      BY <1>2, <3>2, <3>3
  <2>2. r[a] = q[a - n] /\ r[b] = q[b - n]
    BY <1>2, <2>1
  <2>3. Apart(q[a - n], q[b - n], (b - n) - (a - n))
    BY <1>4, <2>1 DEF Spaced
  <2> QED
    BY <2>1, <2>2, <2>3
<1>8. CASE a <= n /\ b > n
  <2>1. /\ a \in 1 .. n /\ a \in DOMAIN s /\ n - a \in Nat /\ b - n \in Nat \ {0} /\ b - n \in 1 .. Length(p)
        /\ n + (b - n) = b /\ (n - a) + (b - n) = b - a /\ n \in DOMAIN s
    <3>1. a \in Nat \ {0} /\ b \in Nat /\ n \in Nat /\ Length(p) \in Nat /\ b <= n + Length(p)
      BY <1>2, <1>3
    <3>2. a \in 1 .. n /\ n - a \in Nat /\ b - n \in Nat \ {0} /\ b - n \in 1 .. Length(p)
      BY <1>8, <3>1
    <3> QED
      BY <1>2, <1>3, <3>1, <3>2
  <2>2. r[a] = s[a] /\ s[a] \in Piece /\ r[b] = [p |-> p, i |-> b - n]
    BY <1>1, <1>2, <1>3, <2>1
  <2>3. r[b] \in Piece /\ r[b].p.n = l.p.n + 1 /\ r[b].i = b - n
    BY <1>5, <2>1, <2>2 DEF Piece
  <2>4. Apart(s[a], l, n - a) \/ (n - a = 0 /\ l = s[a])
    <3>1. CASE a < n
      BY <2>1, <3>1 DEF Spaced, l
    <3>2. CASE a = n
      BY <1>2, <3>2 DEF l
    <3> QED
      BY <1>2, <1>8, <2>1, <3>1, <3>2
  <2>5. Apart(s[a], r[b], (n - a) + (b - n))
    BY <1>5, <2>1, <2>2, <2>3, <2>4, ApartBeyond
  <2> QED
    BY <2>1, <2>2, <2>5
<1> QED
  BY <1>2, <1>6, <1>7, <1>8

----------------------------------------------------------------------------
(* The steps of the other end *)

LEMMA HandType ==
    ASSUME InStep
    PROVE  /\ InHand \in Seq(Piece) /\ Len(InHand) \in Nat /\ DOMAIN InHand = 1 .. Len(InHand)
           /\ InHand # << >> => Len(InHand) > 0 /\ InHand[Len(InHand)] \in Piece /\ InHand[1] \in Piece
           /\ (pc # "failed" /\ Begun) => Latest \in Piece
<1>1. InHand \in Seq(Piece)
  BY DEF InStep, Shape, InHand
<1>2. Len(InHand) \in Nat /\ DOMAIN InHand = 1 .. Len(InHand)
  BY <1>1, LenProperties
<1>3. ASSUME InHand # << >>
      PROVE  Len(InHand) > 0 /\ InHand[Len(InHand)] \in Piece /\ InHand[1] \in Piece
  <2>1. Len(InHand) \in 1 .. Len(InHand) /\ 1 \in 1 .. Len(InHand)
    BY <1>1, <1>2, <1>3, EmptySeq
  <2> QED
    BY <1>1, <2>1, ElementOfSeq
<1>4. ASSUME pc # "failed", Begun PROVE Latest \in Piece
  <2>1. CASE InHand # << >>
    BY <1>3, <2>1 DEF Latest
  <2>2. CASE InHand = << >>
    <3>1. header \in Packets
      BY <1>4, <2>2 DEF Begun, InStep, InLine, Reading
    <3>2. [p |-> header, i |-> 2] \in Piece
      BY <3>1 DEF Piece
    <3> QED
      BY <2>2, <3>2 DEF Latest
  <2> QED
    BY <2>1, <2>2
<1> QED
  BY <1>1, <1>2, <1>3, <1>4

LEMMA SentInStep ==
    ASSUME InStep, SendPacket
    PROVE  InStep'
<1>1. PICK kind \in (IF reader = "video" THEN {"session", "media"} ELSE {"media"}),
           len \in 0 .. (IF reader = "demuxer" THEN MaxSize ELSE TooLarge) :
             stream' = stream \o OnWire(Packet(sent + 1, kind, len))
  BY DEF SendPacket
<1> DEFINE p == Packet(sent + 1, kind, len)
           n == Len(stream)
<1>2. /\ ~closed /\ sent' = sent + 1
      /\ UNCHANGED <<reader, closed, pending, pc, buf, header, out, size, dropped>>
  BY DEF SendPacket
<1>3. /\ p \in Packets /\ p.n = sent + 1 /\ p.kind = kind /\ sent \in Nat /\ sent' \in Nat
      /\ p.kind = "session" => reader = "video"
  <2>1. len \in Nat /\ kind \in {"session", "media"} /\ sent \in Nat
    BY FramingAssumption DEF InStep, Shape, TooLarge
  <2> QED
    BY <1>2, <2>1 DEF Packet, Packets
<1>4. stream' = stream \o OnWire(p)
  BY <1>1
<1> HIDE DEF p
<1>5. /\ OnWire(p) \in Seq(Piece) /\ Len(OnWire(p)) = Length(p)
      /\ Length(p) \in Nat /\ Length(p) >= 2
      /\ \A i \in 1 .. Length(p) : OnWire(p)[i] = [p |-> p, i |-> i]
  BY <1>3, OnWireProperties, PacketType
<1>6. /\ stream' \in Seq(Piece) /\ n \in Nat /\ DOMAIN stream = 1 .. n
      /\ DOMAIN stream' = 1 .. n + Length(p) /\ Len(stream') = n + Length(p)
      /\ \A i \in 1 .. n : stream'[i] = stream[i]
      /\ \A i \in 1 .. Length(p) : stream'[n + i] = [p |-> p, i |-> i]
  <2>1. stream \in Seq(Piece)
    BY DEF InStep, Shape
  <2>2. /\ stream' \in Seq(Piece) /\ n \in Nat /\ DOMAIN stream = 1 .. n
        /\ DOMAIN stream' = 1 .. n + Len(OnWire(p)) /\ Len(stream') = n + Len(OnWire(p))
        /\ \A i \in 1 .. n : stream'[i] = stream[i]
        /\ \A i \in 1 .. Len(OnWire(p)) : stream'[n + i] = OnWire(p)[i]
    BY <1>4, <1>5, <2>1, JoinedProperties
  <2> QED
    BY <1>5, <2>2
<1>7. \A b \in DOMAIN stream' : b \in 1 .. n \/ \E j \in 1 .. Length(p) : b = n + j
  <2> SUFFICES ASSUME NEW b \in 1 .. n + Length(p), ~(b \in 1 .. n) PROVE b - n \in 1 .. Length(p) /\ b = n + (b - n)
    BY <1>6
  <2> QED
    BY <1>5, <1>6
<1>8. (n = 0) <=> (stream = << >>)
  BY EmptySeq DEF InStep, Shape
<1> HIDE DEF n
<1>9. Allowed(stream') /\ Allowed(pending') /\ Allowed(buf')
  <2>1. ASSUME NEW b \in DOMAIN stream', stream'[b].p.kind = "session" PROVE reader = "video"
    <3>1. CASE b \in 1 .. n
      BY <1>6, <2>1, <3>1 DEF InStep, Allowed
    <3>2. CASE \E j \in 1 .. Length(p) : b = n + j
      <4>1. PICK j \in 1 .. Length(p) : b = n + j
        BY <3>2
      <4>2. stream'[b] = [p |-> p, i |-> j]
        BY <1>6, <4>1
      <4>3. stream'[b].p = p
        BY <4>2
      <4> QED
        BY <1>3, <2>1, <4>3
    <3> QED
      BY <1>7, <3>1, <3>2
  <2> QED
    BY <1>2, <2>1 DEF InStep, Allowed
<1>10. Allowed(stream)' /\ Allowed(pending)' /\ Allowed(buf)'
  BY <1>2, <1>9 DEF Allowed
<1>11. Shape' /\ OutRight'
  BY <1>2, <1>3, <1>6 DEF InStep, Shape, OutRight
<1>12. ASSUME pc # "failed" PROVE InLine'
  <2>1. InLine
    BY <1>12 DEF InStep
  <2>2. IF stream # << >> THEN Final(stream[n]) ELSE IF Begun THEN Final(Latest) ELSE Len(out) = sent
    BY <1>2, <2>1 DEF InLine, AllSent, n
  <2>3. Kept' /\ Reading'
    BY <1>2, <2>1 DEF InLine, Kept, Reading, InHand, Due
  <2>4. Spaced(stream')
    <3>1. CASE stream = << >>
      <4>1. stream' = OnWire(p)
        BY <1>4, <1>5, <3>1, ConcatEmptySeq
      <4> QED
        BY <1>3, <4>1, WireSpaced
    <3>2. CASE stream # << >>
      <4>1. stream \in Seq(Piece) /\ Spaced(stream)
        BY <2>1 DEF InStep, Shape, InLine
      <4>2. stream[Len(stream)].i = Length(stream[Len(stream)].p) /\ p.n = stream[Len(stream)].p.n + 1
        BY <1>3, <2>2, <3>2 DEF Final, n
      <4> QED
        BY <1>3, <1>4, <3>2, <4>1, <4>2, JoinedSpaced
    <3> QED
      BY <3>1, <3>2
  <2>5. Begun' = Begun /\ Latest' = Latest
    BY <1>2 DEF Begun, Latest, InHand
  <2>6. ASSUME Begun, NEW b \in DOMAIN stream' PROVE Apart(Latest, stream'[b], b)
    <3>1. CASE b \in 1 .. n
      BY <1>6, <2>1, <2>6, <3>1 DEF InLine, GoesOn
    <3>2. ASSUME NEW j \in 1 .. Length(p), b = n + j PROVE Apart(Latest, stream'[b], b)
      <4>1. stream'[b] = [p |-> p, i |-> j] /\ j \in Nat \ {0}
        BY <1>5, <1>6, <3>2
      <4>2. stream'[b] \in Piece /\ stream'[b].p.n = sent + 1 /\ stream'[b].i = j
        BY <1>3, <4>1 DEF Piece
      <4>3. Latest \in Piece
        BY <1>12, <2>6, HandType
      <4>4. CASE stream = << >>
        <5>1. Final(Latest) /\ n = 0
          BY <1>8, <2>2, <2>6, <4>4
        <5>2. Apart(Latest, stream'[b], 0 + j)
          BY <4>1, <4>2, <4>3, <5>1, ApartBeyond DEF Final
        <5>3. 0 + j = b
          BY <3>2, <4>1, <5>1
        <5> QED
          BY <5>2, <5>3
      <4>5. CASE stream # << >>
        <5>1. n \in 1 .. n /\ n \in DOMAIN stream
          BY <1>6, <1>8, <4>5
        <5>2. Final(stream[n]) /\ stream[n] \in Piece /\ Apart(Latest, stream[n], n)
          <6>1. stream[n] \in Piece
            BY <1>6, <5>1, ElementOfSeq DEF InStep, Shape, n
          <6> QED
            BY <2>1, <2>2, <2>6, <4>5, <5>1, <6>1 DEF InLine, GoesOn
        <5>3. Apart(Latest, stream'[b], n + j)
          BY <1>6, <4>1, <4>2, <4>3, <5>2, ApartBeyond DEF Final
        <5> QED
          BY <3>2, <5>3
      <4> QED
        BY <4>4, <4>5
    <3> QED
      BY <1>7, <3>1, <3>2
  <2>7. ASSUME ~Begun PROVE Due(stream'[1].p) /\ stream'[1].i = 1
    <3>1. CASE stream = << >>
      <4>1. n = 0 /\ 1 \in 1 .. Length(p) /\ n + 1 = 1
        BY <1>5, <1>8, <3>1
      <4>2. stream'[1] = [p |-> p, i |-> 1]
        BY <1>6, <4>1
      <4> QED
        BY <1>3, <2>2, <2>7, <3>1, <4>2 DEF Due
    <3>2. CASE stream # << >>
      <4>1. 1 \in 1 .. n
        BY <1>6, <1>8, <3>2
      <4> QED
        BY <1>6, <2>1, <2>7, <3>2, <4>1 DEF InLine, GoesOn
    <3> QED
      BY <3>1, <3>2
  <2>8. GoesOn'
    BY <1>2, <2>5, <2>6, <2>7 DEF GoesOn, Due
  <2>9. AllSent'
    <3>1. Length(p) \in 1 .. Length(p) /\ n + Length(p) > 0 /\ n + Length(p) \in Nat
      BY <1>5, <1>6
    <3>2. stream'[n + Length(p)] = [p |-> p, i |-> Length(p)]
      BY <1>6, <3>1
    <3>3. stream' # << >>
      BY <1>6, <3>1, EmptySeq
    <3> QED
      BY <1>2, <1>3, <1>6, <3>2, <3>3 DEF AllSent, Final
  <2> QED
    BY <2>3, <2>4, <2>8, <2>9 DEF InLine, Spaced
<1> QED
  BY <1>2, <1>10, <1>11, <1>12 DEF InStep

LEMMA ClosedInStep ==
    ASSUME InStep, Close
    PROVE  InStep'
<1>1. PICK k \in 0 .. Len(stream) : stream' = SubSeq(stream, 1, k)
  BY DEF Close
<1>2. closed' = TRUE /\ UNCHANGED <<reader, sent, pending, pc, buf, header, out, size, dropped>>
  BY DEF Close
<1>3. /\ stream' \in Seq(Piece) /\ DOMAIN stream = 1 .. Len(stream) /\ Len(stream) \in Nat
      /\ DOMAIN stream' = 1 .. k /\ \A i \in 1 .. k : stream'[i] = stream[i]
  BY <1>1, SplitProperties DEF InStep, Shape
<1>4. \A i \in DOMAIN stream' : i \in DOMAIN stream /\ stream'[i] = stream[i]
  BY <1>3
<1>5. Shape' /\ OutRight'
  BY <1>2, <1>3 DEF InStep, Shape, OutRight
<1>6. Allowed(stream)' /\ Allowed(pending)' /\ Allowed(buf)'
  BY <1>2, <1>4 DEF InStep, Allowed
<1>7. ASSUME pc # "failed" PROVE InLine'
  <2>1. InLine
    BY <1>7 DEF InStep
  <2>2. Kept' /\ Reading'
    BY <1>2, <2>1 DEF InLine, Kept, Reading, InHand, Due
  <2>3. Spaced(stream')
    BY <1>4, <2>1 DEF InLine, Spaced
  <2>4. Begun' = Begun /\ Latest' = Latest
    BY <1>2 DEF Begun, Latest, InHand
  <2>5. stream' # << >> => 1 \in DOMAIN stream' /\ stream # << >>
    <3>1. stream' # << >> => Len(stream') \in Nat \ {0}
      BY <1>3, EmptySeq
    <3>2. DOMAIN stream' = 1 .. Len(stream')
      BY <1>3, LenProperties
    <3>3. stream' # << >> => 1 \in DOMAIN stream'
      BY <3>1, <3>2
    <3>4. 1 \in DOMAIN stream => stream # << >>
      BY <1>3
    <3> QED
      BY <1>4, <3>3, <3>4
  <2>6. GoesOn'
    BY <1>2, <1>4, <2>1, <2>4, <2>5 DEF InLine, GoesOn, Due
  <2>7. AllSent'
    BY <1>2 DEF AllSent
  <2> QED
    BY <2>2, <2>3, <2>6, <2>7 DEF InLine, Spaced
<1> QED
  BY <1>2, <1>5, <1>6, <1>7 DEF InStep

----------------------------------------------------------------------------
(* The steps of the reader *)

(* The pending bytes are those in hand: the reader goes on with them.      *)
LEMMA PendingInStep ==
    ASSUME InStep, TakePending
    PROVE  InStep'
<1>1. pc # "failed" /\ pending # << >> /\ UNCHANGED <<reader, wire, pc, header, out, size, dropped>>
  BY DEF TakePending, Receiving
<1>2. InLine /\ pc = "header" /\ buf = << >> /\ Len(pending) = 2 /\ pending \in Seq(Piece)
  BY <1>1 DEF InStep, InLine, Kept, Shape
<1>3. Want = 2
  BY <1>2 DEF Want
<1>4. buf' = SubSeq(pending, 1, 2) /\ pending' = SubSeq(pending, 2 + 1, Len(pending))
  BY <1>2, <1>3 DEF TakePending
<1>5. buf' = pending
  BY <1>2, <1>4, SubSeqFull
<1>6. pending' = << >>
  BY <1>2, <1>4, SubSeqEmpty
<1>7. InHand' = InHand /\ Begun' = Begun /\ Latest' = Latest
  <2>1. InHand = pending /\ InHand' = buf'
    BY <1>1, <1>6 DEF InHand
  <2> QED
    BY <1>1, <1>5, <2>1 DEF Begun, Latest
<1>8. Shape' /\ OutRight'
  BY <1>1, <1>2, <1>5, <1>6 DEF InStep, Shape, OutRight, wire
<1>9. Allowed(stream)' /\ Allowed(pending)' /\ Allowed(buf)'
  BY <1>1, <1>5, <1>6 DEF InStep, Allowed, wire
<1>10. Kept' /\ Reading'
  BY <1>1, <1>2, <1>6, <1>7 DEF InLine, Kept, Reading, Due
<1>11. GoesOn' /\ AllSent' /\ Spaced(stream)'
  BY <1>1, <1>2, <1>7 DEF InLine, GoesOn, AllSent, Spaced, Due, Final, wire
<1> QED
  BY <1>8, <1>9, <1>10, <1>11 DEF InStep, InLine

(* What a recv finds next belongs to the header or payload being read.     *)
LEMMA NextPieces ==
    ASSUME InStep, pc # "failed", pending = << >>,
           NEW k \in 1 .. Len(stream), Len(buf) + k <= Want, NEW j \in 1 .. k
    PROVE  /\ pc \in {"meta", "header"} =>
                /\ stream[j].i = Len(buf) + j /\ Due(stream[j].p)
                /\ stream[j].p = IF buf = << >> THEN stream[1].p ELSE buf[1].p
           /\ pc = "payload" => stream[j].i = Len(buf) + j + 2 /\ stream[j].p = header
<1>1. InLine /\ InHand = buf
  BY DEF InStep, InHand
<1>2. /\ stream \in Seq(Piece) /\ DOMAIN stream = 1 .. Len(stream) /\ Len(stream) \in Nat
      /\ buf \in Seq(Piece) /\ Len(buf) \in Nat /\ DOMAIN buf = 1 .. Len(buf)
  BY LenProperties DEF InStep, Shape
<1>3. /\ j \in DOMAIN stream /\ 1 \in DOMAIN stream /\ stream # << >> /\ j \in Nat /\ j >= 1
      /\ stream[j] \in Piece /\ stream[1] \in Piece /\ Len(buf) + j <= Want
  <2>1. j \in 1 .. Len(stream) /\ 1 \in 1 .. Len(stream)
    BY <1>2
  <2>2. Want \in Nat
    BY <1>1, PacketType DEF Want, InLine, Reading
  <2> QED
    BY <1>2, <2>1, <2>2, ElementOfSeq
<1>4. buf # << >> => Len(buf) \in 1 .. Len(buf) /\ Len(buf) >= 1 /\ 1 \in 1 .. Len(buf)
  BY <1>2, EmptySeq
<1>5. CASE pc = "payload"
  <2>1. /\ header \in Packets /\ header.kind = "media"
        /\ \A a \in DOMAIN buf : buf[a].p = header /\ buf[a].i = a + 2
    BY <1>1, <1>5 DEF InLine, Reading
  <2>2. Latest.p = header /\ Latest.i = Len(buf) + 2
    <3>1. CASE buf = << >>
      BY <1>1, <1>2, <3>1 DEF Latest
    <3>2. CASE buf # << >>
      BY <1>1, <1>2, <1>4, <2>1, <3>2 DEF Latest
    <3> QED
      BY <3>1, <3>2
  <2>3. Apart(Latest, stream[j], j)
    BY <1>1, <1>3, <1>5 DEF InLine, GoesOn, Begun
  <2>4. Length(header) = 2 + header.len /\ header.len \in Nat /\ Want = header.len
    BY <1>5, <2>1, PacketType DEF Length, Want
  <2>5. (Len(buf) + 2) + j <= 2 + header.len /\ (Len(buf) + 2) + j = Len(buf) + j + 2
    BY <1>2, <1>3, <2>4
  <2> QED
    BY <1>5, <2>2, <2>3, <2>4, <2>5 DEF Apart
<1>6. CASE pc \in {"meta", "header"} /\ buf # << >>
  <2>1. Len(buf) = 1 /\ j = 1
    BY <1>2, <1>3, <1>4, <1>6 DEF Want
  <2>2. buf[1].i = 1 /\ Due(buf[1].p) /\ buf[1] \in Piece
    BY <1>1, <1>2, <1>4, <1>6, ElementOfSeq DEF InLine, Reading
  <2>3. Apart(buf[1], stream[1], 1)
    BY <1>1, <1>3, <1>6, <2>1 DEF InLine, GoesOn, Begun, Latest
  <2>4. Length(buf[1].p) >= 1 + 1 /\ Length(buf[1].p) \in Nat
    BY <2>2, PieceType, PacketType
  <2>5. stream[1].p = buf[1].p /\ stream[1].i = 1 + 1
    BY <2>2, <2>3, <2>4 DEF Apart
  <2> QED
    BY <1>6, <2>1, <2>2, <2>5
<1>7. CASE pc \in {"meta", "header"} /\ buf = << >>
  <2>1. Len(buf) = 0 /\ j <= 2
    BY <1>2, <1>3, <1>7 DEF Want
  <2>2. stream[1].i = 1 /\ Due(stream[1].p)
    BY <1>1, <1>3, <1>7 DEF InLine, GoesOn, Begun
  <2>3. CASE j = 1
    BY <1>7, <2>1, <2>2, <2>3
  <2>4. CASE j = 2
    <3>1. Apart(stream[1], stream[2], 2 - 1)
      BY <1>1, <1>3, <2>4 DEF InLine, Spaced
    <3>2. Length(stream[1].p) >= 1 + 1 /\ Length(stream[1].p) \in Nat /\ 2 - 1 = 1
      BY <1>3, PieceType, PacketType
    <3>3. stream[2].p = stream[1].p /\ stream[2].i = 1 + 1
      BY <2>2, <3>1, <3>2 DEF Apart
    <3> QED
      BY <1>7, <2>1, <2>2, <2>4, <3>3
  <2> QED
    BY <1>3, <2>1, <2>3, <2>4
<1> QED
  BY <1>5, <1>6, <1>7 DEF InStep, Shape

LEMMA RecvInStep ==
    ASSUME InStep, Recv
    PROVE  InStep'
<1> DEFINE n == Len(stream)
           m == Len(buf)
<1>1. PICK k \in 1 .. n :
        /\ m + k <= Want
        /\ buf' = buf \o SubSeq(stream, 1, k) /\ stream' = SubSeq(stream, k + 1, n)
  BY DEF Recv
<1>2. /\ pc # "failed" /\ pending = << >>
      /\ UNCHANGED <<reader, closed, sent, pending, pc, header, out, size, dropped>>
  BY DEF Recv, Receiving
<1>3. InLine /\ InHand = buf /\ pc \in {"meta", "header", "payload"}
  BY <1>2 DEF InStep, Shape, InHand
<1>4. /\ n \in Nat /\ k \in Nat /\ k >= 1 /\ k <= n /\ DOMAIN stream = 1 .. n
      /\ stream' \in Seq(Piece) /\ DOMAIN stream' = 1 .. n - k /\ Len(stream') = n - k
      /\ \A b \in 1 .. n - k : stream'[b] = stream[k + b]
      /\ SubSeq(stream, 1, k) \in Seq(Piece) /\ Len(SubSeq(stream, 1, k)) = k
      /\ \A j \in 1 .. k : SubSeq(stream, 1, k)[j] = stream[j]
  <2>1. stream \in Seq(Piece) /\ n \in Nat
    BY LenProperties DEF InStep, Shape
  <2>2. k \in 0 .. n /\ k \in Nat /\ k >= 1 /\ k <= n
    BY <2>1
  <2> HIDE DEF n
  <2> QED
    BY <1>1, <2>1, <2>2, SplitProperties DEF n
<1>5. /\ m \in Nat /\ DOMAIN buf = 1 .. m
      /\ buf' \in Seq(Piece) /\ DOMAIN buf' = 1 .. m + k /\ Len(buf') = m + k
      /\ \A a \in 1 .. m : buf'[a] = buf[a]
      /\ \A j \in 1 .. k : buf'[m + j] = stream[j]
  <2> DEFINE t == SubSeq(stream, 1, k)
  <2>1. buf \in Seq(Piece) /\ t \in Seq(Piece) /\ Len(t) = k /\ \A j \in 1 .. k : t[j] = stream[j]
    BY <1>4 DEF InStep, Shape
  <2>2. buf' = buf \o t
    BY <1>1
  <2> HIDE DEF t
  <2>3. /\ m \in Nat /\ DOMAIN buf = 1 .. m
        /\ buf' \in Seq(Piece) /\ DOMAIN buf' = 1 .. m + Len(t) /\ Len(buf') = m + Len(t)
        /\ \A a \in 1 .. m : buf'[a] = buf[a]
        /\ \A j \in 1 .. Len(t) : buf'[m + j] = t[j]
    BY <2>1, <2>2, JoinedProperties
  <2> QED
    BY <2>1, <2>3
<1>6. \A j \in 1 .. k :
        /\ pc \in {"meta", "header"} =>
             /\ stream[j].i = m + j /\ Due(stream[j].p)
             /\ stream[j].p = IF buf = << >> THEN stream[1].p ELSE buf[1].p
        /\ pc = "payload" => stream[j].i = m + j + 2 /\ stream[j].p = header
  BY <1>1, <1>2, NextPieces
<1>7. (m = 0) <=> (buf = << >>)
  BY EmptySeq DEF InStep, Shape
<1>8. m + k <= Want /\ 1 \in 1 .. k /\ k \in 1 .. k
  <2>1. k \in Nat /\ k >= 1
    BY <1>4
  <2>2. 1 \in 1 .. k /\ k \in 1 .. k
    BY <2>1
  <2> QED
    BY <1>1, <2>2
<1> HIDE DEF n, m
<1>9. \A a \in 1 .. m + k : a \in 1 .. m \/ \E j \in 1 .. k : a = m + j
  <2> SUFFICES ASSUME NEW a \in 1 .. m + k, ~(a \in 1 .. m) PROVE a - m \in 1 .. k /\ a = m + (a - m)
    OBVIOUS
  <2> QED
    BY <1>4, <1>5
<1>10. buf' # << >> /\ InHand' = buf' /\ Begun' /\ Latest' = stream[k]
  <2>1. m + k > 0 /\ m + k = Len(buf')
    BY <1>4, <1>5
  <2>2. buf' # << >>
    BY <2>1, EmptySeq
  <2>3. InHand' = buf'
    BY <1>2 DEF InHand
  <2>4. buf'[m + k] = stream[k]
    BY <1>5, <1>8
  <2> QED
    BY <2>1, <2>2, <2>3, <2>4 DEF Begun, Latest
<1>11. Shape' /\ OutRight'
  BY <1>2, <1>4, <1>5 DEF InStep, Shape, OutRight
<1>12. \A b \in 1 .. n - k : k + b \in DOMAIN stream /\ stream'[b] = stream[k + b]
  BY <1>4
<1>13. Allowed(stream)' /\ Allowed(pending)' /\ Allowed(buf)'
  <2>1. Allowed(stream)'
    BY <1>2, <1>4, <1>12 DEF InStep, Allowed
  <2>2. ASSUME NEW a \in 1 .. m + k, buf'[a].p.kind = "session" PROVE reader = "video"
    <3>1. CASE a \in 1 .. m
      BY <1>5, <2>2, <3>1 DEF InStep, Allowed
    <3>2. ASSUME NEW j \in 1 .. k, a = m + j PROVE reader = "video"
      <4>1. j \in DOMAIN stream /\ buf'[a] = stream[j]
        BY <1>4, <1>5, <3>2
      <4> QED
        BY <2>2, <4>1 DEF InStep, Allowed
    <3> QED
      BY <1>9, <3>1, <3>2
  <2> QED
    BY <1>2, <1>5, <2>1, <2>2 DEF InStep, Allowed
<1>14. Kept'
  BY <1>2, <1>3 DEF InLine, Kept
<1>15. Reading'
  <2>1. ASSUME pc \in {"meta", "header"}
        PROVE  /\ Len(buf') <= 2
               /\ \A a \in DOMAIN buf' : buf'[a].p = buf'[1].p /\ buf'[a].i = a /\ Due(buf'[a].p)
    <3>1. Len(buf') <= 2
      BY <1>5, <1>8, <2>1 DEF Want
    <3>2. buf'[1].p = IF buf = << >> THEN stream[1].p ELSE buf[1].p
      <4>1. CASE buf = << >>
        <5>1. buf'[m + 1] = stream[1] /\ m = 0 /\ m + 1 = 1
          BY <1>5, <1>7, <1>8, <4>1
        <5> QED
          BY <4>1, <5>1
      <4>2. CASE buf # << >>
        <5>1. 1 \in 1 .. m
          BY <1>5, <1>7, <4>2
        <5> QED
          BY <1>5, <4>2, <5>1
      <4> QED
        BY <4>1, <4>2
    <3>3. ASSUME NEW a \in 1 .. m
          PROVE  buf'[a].p = buf'[1].p /\ buf'[a].i = a /\ Due(buf'[a].p)
      <4>1. buf # << >>
        BY <1>5, <1>7
      <4>2. buf[a].p = buf[1].p /\ buf[a].i = a /\ Due(buf[a].p)
        BY <1>3, <1>5, <2>1 DEF InLine, Reading
      <4> QED
        BY <1>5, <3>2, <4>1, <4>2
    <3>4. ASSUME NEW j \in 1 .. k
          PROVE  buf'[m + j].p = buf'[1].p /\ buf'[m + j].i = m + j /\ Due(buf'[m + j].p)
      BY <1>5, <1>6, <2>1, <3>2
    <3> QED
      BY <1>5, <1>9, <3>1, <3>3, <3>4
  <2>2. ASSUME pc = "payload"
        PROVE  /\ Len(buf') <= header.len
               /\ \A a \in DOMAIN buf' : buf'[a].p = header /\ buf'[a].i = a + 2
    <3>1. Len(buf') <= header.len
      BY <1>5, <1>8, <2>2 DEF Want
    <3>2. ASSUME NEW a \in 1 .. m PROVE buf'[a].p = header /\ buf'[a].i = a + 2
      BY <1>3, <1>5, <2>2 DEF InLine, Reading
    <3>3. ASSUME NEW j \in 1 .. k PROVE buf'[m + j].p = header /\ buf'[m + j].i = m + j + 2
      BY <1>5, <1>6, <2>2
    <3>4. ASSUME NEW a \in 1 .. m + k PROVE buf'[a].p = header /\ buf'[a].i = a + 2
      <4>1. CASE a \in 1 .. m
        BY <3>2, <4>1
      <4>2. CASE \E j \in 1 .. k : a = m + j
        BY <3>3, <4>2
      <4> QED
        BY <1>9, <4>1, <4>2
    <3> QED
      BY <1>5, <3>1, <3>4
  <2> QED
    BY <1>2, <1>3, <1>10, <2>1, <2>2 DEF InLine, Reading, Due
<1>16. Spaced(stream)'
  <2> SUFFICES ASSUME NEW a \in 1 .. n - k, NEW b \in 1 .. n - k, a < b
               PROVE  Apart(stream'[a], stream'[b], b - a)
    BY <1>4 DEF Spaced
  <2>1. k + a < k + b /\ (k + b) - (k + a) = b - a
    BY <1>4
  <2>2. Apart(stream[k + a], stream[k + b], (k + b) - (k + a))
    BY <1>3, <1>12, <2>1 DEF InLine, Spaced
  <2> QED
    BY <1>12, <2>1, <2>2
<1>17. GoesOn'
  <2>1. ASSUME NEW b \in 1 .. n - k PROVE Apart(stream[k], stream'[b], b)
    <3>1. k < k + b /\ (k + b) - k = b /\ k \in DOMAIN stream
      BY <1>4
    <3>2. Apart(stream[k], stream[k + b], (k + b) - k)
      BY <1>3, <1>12, <3>1 DEF InLine, Spaced
    <3> QED
      BY <1>12, <3>1, <3>2
  <2> QED
    BY <1>4, <1>10, <2>1 DEF GoesOn
<1>18. AllSent'
  <2>1. ~closed => Final(stream[n])
    <3>1. stream # << >>
      BY <1>4, EmptySeq DEF n
    <3> QED
      BY <1>3, <3>1 DEF InLine, AllSent, n
  <2>2. stream' # << >> => stream'[Len(stream')] = stream[n]
    <3>1. stream' # << >> => n - k \in 1 .. n - k
      BY <1>4, EmptySeq
    <3>2. n - k \in 1 .. n - k => stream'[n - k] = stream[k + (n - k)] /\ k + (n - k) = n
      BY <1>4
    <3> QED
      BY <1>4, <3>1, <3>2
  <2>3. stream' = << >> => k = n
    <3>1. stream' = << >> => Len(stream') = 0
      BY EmptySeq
    <3> QED
      BY <1>4, <3>1
  <2>4. Final(stream[n]) => stream[n].p.n = sent' /\ stream[n].i = Length(stream[n].p)
    BY <1>2 DEF Final
  <2> QED
    BY <1>2, <1>10, <2>1, <2>2, <2>3, <2>4 DEF AllSent, Final
<1> QED
  BY <1>2, <1>11, <1>13, <1>14, <1>15, <1>16, <1>17, <1>18 DEF InStep, InLine

(* Twelve bytes read are the header of the packet due.                     *)
LEMMA HeaderInHand ==
    ASSUME InStep, pc \in {"meta", "header"}, Len(buf) = 2
    PROVE  /\ pending = << >> /\ InHand = buf /\ Begun /\ Latest = buf[2]
           /\ buf[1] \in Piece /\ buf[1].p \in Packets /\ Due(buf[1].p) /\ buf = Header(buf[1].p)
           /\ buf[2].p = buf[1].p /\ buf[2].i = 2
           /\ buf[1].p.kind = "session" => reader = "video"
<1>1. InLine /\ buf \in Seq(Piece)
  BY DEF InStep, Shape
<1>2. DOMAIN buf = 1 .. 2 /\ buf # << >>
  BY <1>1, LenProperties, EmptySeq
<1>3. pending = << >> /\ InHand = buf /\ Begun /\ Latest = buf[2]
  BY <1>1, <1>2 DEF InLine, Kept, InHand, Begun, Latest
<1>4. \A a \in 1 .. 2 : buf[a].p = buf[1].p /\ buf[a].i = a /\ Due(buf[a].p) /\ buf[a] \in Piece
  BY <1>1, <1>2, <1>3, ElementOfSeq DEF InLine, Reading
<1>5. 1 \in 1 .. 2 /\ 2 \in 1 .. 2
  OBVIOUS
<1>6. buf[1].p \in Packets
  BY <1>4, <1>5, PieceType
<1>7. buf = Header(buf[1].p)
  <2> DEFINE p == buf[1].p
             h == Header(p)
  <2>1. h \in Seq(Piece) /\ Len(h) = 2 /\ \A i \in 1 .. 2 : h[i] = [p |-> p, i |-> i]
    BY <1>6, HeaderProperties
  <2>2. \A a \in 1 .. 2 : buf[a] \in Piece /\ buf[a].p = p /\ buf[a].i = a
    BY <1>4
  <2> HIDE DEF p, h
  <2>3. \A a \in 1 .. 2 : buf[a] = h[a]
    <3> SUFFICES ASSUME NEW a \in 1 .. 2 PROVE buf[a] = h[a]
      OBVIOUS
    <3>1. buf[a] = [p |-> p, i |-> a]
      BY <2>2 DEF Piece
    <3> QED
      BY <2>1, <3>1
  <2>4. buf = h
    BY <1>1, <2>1, <2>3, SeqEqual
  <2> QED
    BY <2>4 DEF h, p
<1>8. buf[1].p.kind = "session" => reader = "video"
  BY <1>2, <1>5 DEF InStep, Allowed
<1> QED
  BY <1>3, <1>4, <1>5, <1>6, <1>7, <1>8

(* After the last piece x of the packet due comes the first of the next.   *)
LEMMA PacketDone ==
    ASSUME InStep, pc # "failed", Begun, Latest.i = Length(Latest.p), Due(Latest.p)
    PROVE  /\ stream # << >> => stream[1].p.n = Len(out) + 2 /\ stream[1].i = 1
           /\ (~closed /\ stream = << >>) => Len(out) + 1 = sent
<1>1. InLine /\ Latest \in Piece /\ Len(out) \in Nat
  BY HandType, LenProperties DEF InStep, Shape
<1>2. ASSUME stream # << >> PROVE stream[1].p.n = Len(out) + 2 /\ stream[1].i = 1
  <2>1. 1 \in DOMAIN stream
    BY <1>2, EmptySeq, LenProperties DEF InStep, Shape
  <2>2. Apart(Latest, stream[1], 1)
    BY <1>1, <2>1 DEF InLine, GoesOn
  <2>3. Latest.i \in Nat /\ ~(Latest.i + 1 <= Length(Latest.p)) /\ Latest.i + 1 = Length(Latest.p) + 1
    BY <1>1, PieceType
  <2>4. stream[1].p.n = Latest.p.n + 1 /\ stream[1].i = 1
    BY <2>2, <2>3 DEF Apart
  <2> QED
    BY <1>1, <2>4 DEF Due
<1>3. (~closed /\ stream = << >>) => Len(out) + 1 = sent
  BY <1>1 DEF InLine, AllSent, Final, Due
<1> QED
  BY <1>2, <1>3

(* The packet due handed over, whether by its header alone or whole.       *)
LEMMA DeliveredInStep ==
    ASSUME InStep, pc # "failed", Begun, Latest.i = Length(Latest.p), Due(Latest.p), Latest.p \in Packets,
           pending = << >>, NEW data \in Seq(Piece),
           data = (IF Latest.p.kind = "media" THEN Payload(Latest.p) ELSE << >>),
           out' = Append(out, [p |-> Latest.p, data |-> data]), pc' = "header", buf' = << >>,
           UNCHANGED <<reader, wire, pending, dropped>>
    PROVE  InStep'
<1> DEFINE e == [p |-> Latest.p, data |-> data]
<1>1. e \in [p : Packets, data : Seq(Piece)] /\ e.p = Latest.p /\ e.data = data
  OBVIOUS
<1>2. e.p.n = Len(out) + 1 /\ e.data = (IF e.p.kind = "media" THEN Payload(e.p) ELSE << >>)
  BY <1>1 DEF Due
<1> HIDE DEF e
<1>3. /\ out' \in Seq([p : Packets, data : Seq(Piece)]) /\ Len(out) \in Nat /\ Len(out') = Len(out) + 1
      /\ DOMAIN out = 1 .. Len(out) /\ DOMAIN out' = 1 .. Len(out) + 1
      /\ out'[Len(out) + 1] = e /\ \A i \in 1 .. Len(out) : out'[i] = out[i]
  <2>1. out \in Seq([p : Packets, data : Seq(Piece)]) /\ out' = Append(out, e)
    BY DEF InStep, Shape, e
  <2> QED
    BY <1>1, <2>1, PutProperties
<1>4. OutRight'
  <2> SUFFICES ASSUME NEW i \in DOMAIN out'
               PROVE  /\ out'[i].p.n = i
                      /\ out'[i].data = IF out'[i].p.kind = "media" THEN Payload(out'[i].p) ELSE << >>
    BY DEF OutRight
  <2>1. CASE i = Len(out) + 1
    BY <1>2, <1>3, <2>1
  <2>2. CASE i # Len(out) + 1
    <3>1. i \in DOMAIN out /\ out'[i] = out[i]
      BY <1>3, <2>2
    <3> QED
      BY <3>1 DEF InStep, OutRight
  <2> QED
    BY <2>1, <2>2
<1>5. buf' \in Seq(Piece) /\ Len(buf') = 0
  OBVIOUS
<1>6. Shape'
  BY <1>3, <1>5 DEF InStep, Shape, wire
<1>7. Allowed(stream)' /\ Allowed(pending)' /\ Allowed(buf)'
  BY DEF InStep, Allowed, wire
<1>8. InHand' = << >> /\ ~Begun'
  BY DEF InHand, Begun
<1>9. Kept' /\ Reading'
  BY <1>5, <1>8 DEF Kept, Reading
<1>10. /\ stream # << >> => stream[1].p.n = Len(out) + 2 /\ stream[1].i = 1
       /\ (~closed /\ stream = << >>) => Len(out) + 1 = sent
  BY PacketDone
<1>11. stream # << >> => stream[1].p.n = Len(out') + 1
  BY <1>3, <1>10
<1>12. GoesOn'
  BY <1>8, <1>10, <1>11 DEF GoesOn, Due, wire
<1>13. AllSent'
  <2>1. ~closed /\ stream # << >> => Final(stream[Len(stream)])
    BY DEF InStep, InLine, AllSent
  <2> QED
    BY <1>3, <1>8, <1>10, <2>1 DEF AllSent, Final, wire
<1>14. Spaced(stream)'
  BY DEF InStep, InLine, Spaced, wire
<1> QED
  BY <1>4, <1>6, <1>7, <1>9, <1>12, <1>13, <1>14 DEF InStep, InLine

(* A reader that fails hands nothing more over. *)
LEMMA FailedInStep ==
    ASSUME InStep, Fail, UNCHANGED <<reader, wire, pending, dropped>>
    PROVE  InStep'
<1>1. pc' = "failed" /\ buf' = << >> /\ UNCHANGED <<header, out, size>>
  BY DEF Fail
<1>2. buf' \in Seq(Piece)
  BY <1>1
<1> QED
  BY <1>1, <1>2 DEF InStep, Shape, OutRight, Allowed, wire

LEMMA HeaderReadInStep ==
    ASSUME InStep, HeaderRead
    PROVE  InStep'
<1>1. pc = "header" /\ Len(buf) = 2 /\ UNCHANGED <<reader, wire, pending, dropped>>
  BY DEF HeaderRead
<1> DEFINE p == buf[1].p
<1>2. /\ pending = << >> /\ InHand = buf /\ Begun /\ Latest = buf[2]
      /\ p \in Packets /\ Due(p) /\ buf = Header(p)
      /\ buf[2].p = p /\ buf[2].i = 2
      /\ p.kind = "session" => reader = "video"
  BY <1>1, HeaderInHand
<1>3. Told = {p}
  BY <1>2 DEF Told
<1>4. \/ NoPayload(p) /\ Deliver(p, << >>)
      \/ ~NoPayload(p) /\ pc' = "payload" /\ buf' = << >> /\ header' = p /\ UNCHANGED <<out, size>>
      \/ Fail
  BY <1>3 DEF HeaderRead
<1> HIDE DEF p
<1>5. p.len \in Nat /\ p.kind \in {"session", "media"}
  BY <1>2, PacketType
<1>6. CASE NoPayload(p) /\ Deliver(p, << >>)
  <2>1. Length(p) = 2
    BY <1>5, <1>6 DEF NoPayload, Length
  <2>2. << >> = (IF p.kind = "media" THEN Payload(p) ELSE << >>)
    <3>1. CASE p.kind = "media"
      <4>1. p.len = 0
        BY <1>6, <3>1 DEF NoPayload
      <4>2. Payload(p) \in Seq(Piece) /\ Len(Payload(p)) = 0
        BY <1>2, <4>1, PayloadProperties
      <4>3. Payload(p) = << >>
        BY <4>2, EmptySeq
      <4> QED
        BY <4>3
    <3>2. CASE p.kind # "media"
      BY <3>2
    <3> QED
      BY <3>1, <3>2
  <2>3. Latest.p = p /\ Latest.i = Length(Latest.p)
    BY <1>2, <2>1
  <2>4. /\ out' = Append(out, [p |-> Latest.p, data |-> << >>]) /\ pc' = "header" /\ buf' = << >>
    BY <1>6, <2>3 DEF Deliver
  <2>5. << >> \in Seq(Piece) /\ pc # "failed" /\ Due(Latest.p) /\ Latest.p \in Packets
    BY <1>1, <1>2, <2>3
  <2>6. << >> = (IF Latest.p.kind = "media" THEN Payload(Latest.p) ELSE << >>)
    BY <2>2, <2>3
  <2> QED
    BY <1>1, <1>2, <2>3, <2>4, <2>5, <2>6, DeliveredInStep
<1>7. CASE ~NoPayload(p) /\ pc' = "payload" /\ buf' = << >> /\ header' = p /\ UNCHANGED <<out, size>>
  <2>1. p.kind = "media" /\ p.len > 0
    BY <1>2, <1>5, <1>7 DEF NoPayload
  <2>2. InLine
    BY <1>1 DEF InStep
  <2>3. buf' \in Seq(Piece) /\ Len(buf') = 0
    BY <1>7
  <2>4. Shape' /\ OutRight'
    BY <1>1, <1>7, <2>3 DEF InStep, Shape, OutRight, wire
  <2>5. Allowed(stream)' /\ Allowed(pending)' /\ Allowed(buf)'
    BY <1>1, <1>7 DEF InStep, Allowed, wire
  <2>6. InHand' = << >> /\ Begun' /\ Latest' = [p |-> p, i |-> 2]
    BY <1>1, <1>2, <1>7 DEF InHand, Begun, Latest
  <2>7. Kept' /\ Reading'
    BY <1>1, <1>2, <1>5, <1>7, <2>1, <2>3 DEF Kept, Reading, Due
  <2>8. Latest'.p = Latest.p /\ Latest'.i = Latest.i
    BY <1>2, <2>6
  <2>9. GoesOn'
    <3>1. \A b \in DOMAIN stream : Apart(Latest, stream[b], b)
      BY <1>2, <2>2 DEF InLine, GoesOn
    <3> QED
      BY <1>1, <2>6, <2>8, <3>1 DEF GoesOn, Apart, wire
  <2>10. AllSent'
    BY <1>1, <1>2, <2>2, <2>6, <2>8 DEF InLine, AllSent, Final, wire
  <2>11. Spaced(stream)'
    BY <1>1, <2>2 DEF InLine, Spaced, wire
  <2> QED
    BY <1>7, <2>4, <2>5, <2>7, <2>9, <2>10, <2>11 DEF InStep, InLine
<1>8. CASE Fail
  BY <1>1, <1>8, FailedInStep
<1> QED
  BY <1>4, <1>6, <1>7, <1>8

LEMMA PayloadReadInStep ==
    ASSUME InStep, PayloadRead
    PROVE  InStep'
<1>1. /\ pc = "payload" /\ Len(buf) = header.len /\ UNCHANGED <<reader, wire, pending, dropped>>
      /\ out' = Append(out, [p |-> header, data |-> buf]) /\ pc' = "header" /\ buf' = << >>
  BY DEF PayloadRead, Deliver, Want
<1>2. InLine /\ buf \in Seq(Piece)
  BY <1>1 DEF InStep, Shape
<1>3. /\ header \in Packets /\ header.kind = "media" /\ header.len > 0 /\ Due(header) /\ header.len \in Nat
      /\ \A a \in DOMAIN buf : buf[a].p = header /\ buf[a].i = a + 2
  BY <1>1, <1>2, PacketType DEF InLine, Reading
<1>4. DOMAIN buf = 1 .. header.len /\ header.len \in 1 .. header.len /\ buf # << >>
  BY <1>1, <1>2, <1>3, LenProperties
<1>5. pending = << >> /\ InHand = buf /\ Begun /\ Latest = buf[header.len]
  BY <1>1, <1>2, <1>4 DEF InLine, Kept, InHand, Begun, Latest
<1>6. Latest.p = header /\ Latest.i = Length(Latest.p)
  BY <1>3, <1>4, <1>5 DEF Length
<1>7. buf = Payload(header)
  <2> DEFINE t == Payload(header)
  <2>1. t \in Seq(Piece) /\ Len(t) = header.len /\ \A i \in 1 .. header.len : t[i] = [p |-> header, i |-> i + 2]
    BY <1>3, PayloadProperties
  <2> HIDE DEF t
  <2>2. \A a \in 1 .. Len(buf) : buf[a] = t[a]
    <3> SUFFICES ASSUME NEW a \in 1 .. header.len PROVE buf[a] = t[a]
      BY <1>1
    <3>1. buf[a] \in Piece /\ buf[a].p = header /\ buf[a].i = a + 2
      BY <1>1, <1>2, <1>3, <1>4, ElementOfSeq
    <3>2. buf[a] = [p |-> header, i |-> a + 2]
      BY <3>1 DEF Piece
    <3> QED
      BY <2>1, <3>2
  <2>3. buf = t
    BY <1>1, <1>2, <2>1, <2>2, SeqEqual
  <2> QED
    BY <2>3 DEF t
<1>8. /\ buf = (IF Latest.p.kind = "media" THEN Payload(Latest.p) ELSE << >>)
      /\ out' = Append(out, [p |-> Latest.p, data |-> buf]) /\ Due(Latest.p) /\ Latest.p \in Packets
      /\ pc # "failed"
  BY <1>1, <1>3, <1>6, <1>7
<1> QED
  BY <1>1, <1>2, <1>5, <1>6, <1>8, DeliveredInStep

(* server_start hands a session header over, in the sense that the video   *)
(* reader will not meet it again, or keeps what it read.                   *)
LEMMA MetadataInStep ==
    ASSUME InStep, Metadata, ~dropped'
    PROVE  InStep'
<1>1. pc = "meta" /\ Len(buf) = 2 /\ pc' = "header" /\ buf' = << >> /\ UNCHANGED <<reader, wire, header, size>>
  BY DEF Metadata
<1> DEFINE p == buf[1].p
<1>2. /\ pending = << >> /\ InHand = buf /\ Begun /\ Latest = buf[2]
      /\ p \in Packets /\ Due(p) /\ buf[2].p = p /\ buf[2].i = 2
      /\ p.kind = "session" => reader = "video"
  BY <1>1, HeaderInHand
<1>3. InLine /\ out = << >> /\ buf \in Seq(Piece)
  BY <1>1 DEF InStep, InLine, Kept, Shape
<1>4. \/ p.kind = "session" /\ out' = << [p |-> p, data |-> << >>] >> /\ UNCHANGED <<pending, dropped>>
      \/ pending' = buf /\ UNCHANGED <<out, dropped>>
  BY DEF Metadata
<1> HIDE DEF p
<1>5. CASE p.kind = "session" /\ out' = << [p |-> p, data |-> << >>] >> /\ UNCHANGED <<pending, dropped>>
  <2>1. Latest.p = p /\ Latest.i = Length(Latest.p) /\ Latest.p \in Packets /\ Due(Latest.p)
    BY <1>2, <1>5 DEF Length
  <2>2. << >> \in Seq(Piece) /\ << >> = (IF Latest.p.kind = "media" THEN Payload(Latest.p) ELSE << >>)
    BY <1>5, <2>1
  <2>3. out' = Append(out, [p |-> Latest.p, data |-> << >>])
    BY <1>3, <1>5, <2>1
  <2>4. pc # "failed"
    BY <1>1
  <2> QED
    BY <1>1, <1>2, <1>5, <2>1, <2>2, <2>3, <2>4, DeliveredInStep
<1>6. CASE pending' = buf /\ UNCHANGED <<out, dropped>>
  <2>1. buf # << >>
    <3>1. DOMAIN buf = 1 .. 2
      BY <1>1, <1>3, LenProperties
    <3>2. 1 \in DOMAIN buf
      BY <3>1
    <3> QED
      BY <3>2
  <2>2. InHand' = InHand /\ Begun' /\ Latest' = Latest
    BY <1>2, <1>6, <2>1 DEF InHand, Begun, Latest
  <2>3. buf' \in Seq(Piece)
    BY <1>1
  <2>4. Shape' /\ OutRight'
    BY <1>1, <1>3, <1>6, <2>3 DEF InStep, Shape, OutRight, wire
  <2>5. Allowed(stream)' /\ Allowed(pending)' /\ Allowed(buf)'
    BY <1>1, <1>6 DEF InStep, Allowed, wire
  <2>6. Kept' /\ Reading'
    BY <1>1, <1>3, <1>6, <2>2 DEF InLine, Kept, Reading, Due
  <2>7. GoesOn' /\ AllSent' /\ Spaced(stream)'
    BY <1>1, <1>2, <1>3, <1>6, <2>2 DEF InLine, GoesOn, AllSent, Spaced, Final, wire
  <2> QED
    BY <2>4, <2>5, <2>6, <2>7 DEF InStep, InLine
<1> QED
  BY <1>4, <1>5, <1>6

LEMMA StutterInStep ==
    ASSUME InStep, UNCHANGED vars
    PROVE  InStep'
<1>1. InHand' = InHand /\ Begun' = Begun /\ Latest' = Latest
  BY DEF InHand, Begun, Latest, vars, wire
<1>2. Shape' /\ OutRight' /\ Allowed(stream)' /\ Allowed(pending)' /\ Allowed(buf)'
  BY DEF InStep, Shape, OutRight, Allowed, vars, wire
<1>3. ASSUME InLine PROVE InLine'
  BY <1>1, <1>3 DEF InLine, Kept, Reading, Spaced, GoesOn, AllSent, Final, Due, vars, wire
<1>4. pc' = pc
  BY DEF vars
<1> QED
  BY <1>2, <1>3, <1>4 DEF InStep

LEMMA InvStep ==
    ASSUME Inv, [Next]_vars
    PROVE  Inv'
<1> SUFFICES ASSUME ~dropped' PROVE InStep'
  BY DEF Inv
<1>1. ~dropped
  BY DEF Next, Reader, SendPacket, Close, TakePending, Recv, RecvFails, Metadata, HeaderRead, PayloadRead, vars
<1>2. InStep
  BY <1>1 DEF Inv
<1>3. CASE SendPacket
  BY <1>2, <1>3, SentInStep
<1>4. CASE Close
  BY <1>2, <1>4, ClosedInStep
<1>5. CASE TakePending
  BY <1>2, <1>5, PendingInStep
<1>6. CASE Recv
  BY <1>2, <1>6, RecvInStep
<1>7. CASE RecvFails
  <2>1. Fail /\ UNCHANGED <<reader, wire, pending, dropped>>
    BY <1>7 DEF RecvFails
  <2> QED
    BY <1>2, <2>1, FailedInStep
<1>8. CASE Metadata
  BY <1>2, <1>8, MetadataInStep
<1>9. CASE HeaderRead
  BY <1>2, <1>9, HeaderReadInStep
<1>10. CASE PayloadRead
  BY <1>2, <1>10, PayloadReadInStep
<1>11. CASE UNCHANGED vars
  BY <1>2, <1>11, StutterInStep
<1> QED
  BY <1>3, <1>4, <1>5, <1>6, <1>7, <1>8, <1>9, <1>10, <1>11 DEF Next, Reader

LEMMA InitInv == Init => Inv
<1> SUFFICES ASSUME Init PROVE InStep
  BY DEF Inv
<1>1. /\ stream = << >> /\ pending = << >> /\ buf = << >> /\ out = << >> /\ sent = 0
      /\ pc \in {"meta", "header"} /\ reader \in {"video", "audio", "demuxer"} /\ closed = FALSE
  BY DEF Init
<1>2. Shape
  <2>1. << >> \in Seq(Piece) /\ << >> \in Seq([p : Packets, data : Seq(Piece)])
    OBVIOUS
  <2> QED
    BY <1>1, <2>1 DEF Shape
<1>3. InHand = << >> /\ ~Begun /\ Len(out) = 0 /\ Len(buf) = 0
  BY <1>1 DEF InHand, Begun
<1>4. InLine
  BY <1>1, <1>3 DEF InLine, Kept, Reading, Spaced, GoesOn, AllSent
<1> QED
  BY <1>1, <1>2, <1>4 DEF InStep, OutRight, Allowed

(* However the network splits the stream and wherever it ends, for any     *)
(* number of packets and payloads of any size, the packets handed to the   *)
(* caller are the first ones the server sent, in order, each with its own  *)
(* payload and nothing else, unless server_start had no memory to keep the *)
(* header it had read (video_socket_read_packet, audio_socket_read_packet, *)
(* demuxer_recv_packet).                                                   *)
THEOREM Packetized == Spec => []PacketsAsSent
<1>1. Inv /\ [Next]_vars => Inv'
  BY InvStep
<1>2. Inv => PacketsAsSent
  BY DEF Inv, InStep, OutRight, PacketsAsSent
<1> QED
  BY InitInv, <1>1, <1>2, PTL DEF Spec
=============================================================================
