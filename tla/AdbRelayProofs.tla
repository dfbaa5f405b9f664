--------------------------- MODULE AdbRelayProofs ---------------------------
(***************************************************************************)
(* What holds of the threads of an ADB connection for any load, number of  *)
(* other streams and size of the socketpairs: every message names a stream *)
(* by both its identifiers, a WRTE is acknowledged once, header and        *)
(* payload stay together until something is sent without send_lock, the    *)
(* roles scrcpy-server gives are the client's own, and what the streams    *)
(* and the control socket carry arrives in order.  The last two rest on    *)
(* the order in which the OPENs are accepted or refused, and on what       *)
(* Running tells of it.                                                    *)
(***************************************************************************)
EXTENDS AdbRelay, SequenceTheorems, FiniteSetTheorems, TLAPS

Message  == [cmd : {"NONE", "OPEN", "OKAY", "WRTE", "CLSE", "AUTH", "STLS", "CNXN"},
             arg0 : Nat, arg1 : Nat]
FrameSet == [msg : Message, data : Nat]
Bodied   == {"OPEN", "WRTE", "AUTH"}
Piece    == [part : {"header", "payload"}, frame : FrameSet]
Channel  == [local : Nat, remote : Nat, state : {"OPENING", "OPEN", "CLOSED"}]
DevRoles == Roles \cup {"other", "kill"}
DevStream == [peer : Nat, role : DevRoles, sent : Nat, alive : BOOLEAN, unacked : BOOLEAN]
Handling == {"ack", "relay", "okay", "remote", "state"}
Answering == {"reply", "replyBody", "tls"}
Places   == {"recv", "done"} \cup Handling \cup Answering

(* What TypeOK leaves to the shape of the variables. *)
Shape ==
    /\ channels \in Seq(Channel) /\ Len(channels) >= 4
    /\ reader \in [pc : Places, frame : FrameSet]
    /\ sender \in [pc : {"recv", "send", "payload"}, frame : FrameSet]
    /\ pairs \in [Kinds -> Seq(Nat \X Nat)] /\ taken \in [Kinds -> Seq(Nat \X Nat)]
    /\ ctlPair \in Seq(Nat) /\ written \in Nat
    /\ wire \in Seq(Piece) /\ (link = "broken" => wire = << >>)
    /\ down \in Seq(FrameSet) /\ streams \in Seq(DevStream)
    /\ obeyed \in Seq(DevRoles \X Nat)
    /\ left \in [Roles \cup {"written", "faults"} -> Nat]

(* Does m name a stream by the identifiers it has, the device's in first   *)
(* place or in second?                                                     *)
FromStream(m) == m.arg0 \in DOMAIN streams /\ streams[m.arg0].peer = m.arg1
ToStream(m)   == m.arg1 \in DOMAIN streams /\ streams[m.arg1].peer = m.arg0

Named   == {"OKAY", "WRTE", "OPEN"}
Unnamed == {"OPEN", "AUTH", "STLS"}

(* What the reader answers to session_handle_message's own messages: an    *)
(* OKAY for a stream of adbd's, without a local id, or no stream's.        *)
ReplyRight(m) == \/ m.cmd \in {"AUTH", "STLS"}
                 \/ m.cmd = "OKAY" /\ m.arg0 = 0 /\ ToStream(m)

(* What comes from the device, and what the reader has in hand. *)
NamedRight ==
    /\ \A i \in DOMAIN down :
          /\ down[i].msg.cmd \in Named => FromStream(down[i].msg)
          /\ down[i].msg.cmd = "OPEN" => down[i].msg.arg1 = 0
    /\ reader.pc \in Handling => FromStream(reader.frame.msg)
    /\ reader.pc \in {"reply", "replyBody"} => ReplyRight(reader.frame.msg)
    /\ reader.pc = "replyBody" => reader.frame.msg.cmd = "AUTH"

(* Only the channels of video and audio may have a guessed remote id.      *)
ChannelsRight ==
    \A l \in DOMAIN channels :
        /\ (l \notin {2, 3} /\ channels[l].remote # 0) =>
               streams[channels[l].remote].peer = l
        /\ channels[l].state = "OPEN" => \E d \in DOMAIN streams : streams[d].peer = l

(* The control sender has a stream to write to, and goes on with the       *)
(* message whose header it has sent.                                       *)
SenderRight ==
    /\ sender.pc = "send" => channels[4].remote # 0
    /\ sender.pc = "payload" =>
          sender.frame.msg.cmd = "WRTE" /\ ToStream(sender.frame.msg)

(* The streams adbd numbered for others belong to no channel, and only     *)
(* those of a channel live.                                                *)
OthersRight ==
    /\ \A d \in 1 .. OtherStreams : d \in DOMAIN streams /\ streams[d].peer = 0
    /\ \A d \in DOMAIN streams : streams[d].alive => streams[d].peer # 0

(* The payload of a message is sent without send_lock after its header.    *)
HeaderUnlocked == (main = "killing" \/ reader.pc = "replyBody") => unlocked

Inv == /\ Shape /\ TypeOK /\ NamedRight /\ ChannelsRight /\ SenderRight
       /\ AddressedRight /\ OthersRight /\ HeaderUnlocked

----------------------------------------------------------------------------
(* Queues *)

(* A message sent last is in the queue, after those that were there. *)
LEMMA PutProperties ==
    ASSUME NEW S, NEW q \in Seq(S), NEW m \in S
    PROVE  /\ q \o << m >> = Append(q, m) /\ q \o << >> = q
           /\ Append(q, m) \in Seq(S) /\ Append(q, m) # << >>
           /\ Len(q) \in Nat /\ Len(Append(q, m)) = Len(q) + 1
           /\ DOMAIN Append(q, m) = 1 .. Len(q) + 1 /\ DOMAIN q = 1 .. Len(q)
           /\ Append(q, m)[Len(q) + 1] = m
           /\ \A i \in 1 .. Len(q) : Append(q, m)[i] = q[i]
<1>1. /\ Append(q, m) \in Seq(S) /\ Len(Append(q, m)) = Len(q) + 1
      /\ Append(q, m)[Len(q) + 1] = m
      /\ \A i \in 1 .. Len(q) : Append(q, m)[i] = q[i]
  BY AppendProperties
<1>2. q \o << m >> = Append(q, m)
  BY AppendIsConcat
<1>3. q \o << >> = q
  BY ConcatEmptySeq
<1>4. DOMAIN Append(q, m) = 1 .. Len(q) + 1 /\ DOMAIN q = 1 .. Len(q) /\ Len(q) \in Nat
  BY <1>1, LenProperties
<1>5. Append(q, m) # << >>
  BY <1>1, <1>4, EmptySeq
<1> QED
  BY <1>1, <1>2, <1>3, <1>4, <1>5

(* The first message taken out, the others are those of before. *)
LEMMA TakeProperties ==
    ASSUME NEW S, NEW q \in Seq(S), q # << >>
    PROVE  /\ Len(q) \in Nat \ {0} /\ Head(q) = q[1] /\ Head(q) \in S
           /\ Tail(q) \in Seq(S) /\ Len(Tail(q)) = Len(q) - 1
           /\ DOMAIN q = 1 .. Len(q) /\ DOMAIN Tail(q) = 1 .. Len(q) - 1
           /\ \A i \in 1 .. Len(q) - 1 : Tail(q)[i] = q[i + 1]
<1>1. Len(q) \in Nat \ {0} /\ Head(q) = q[1]
  BY EmptySeq
<1>2. /\ Head(q) \in S /\ Tail(q) \in Seq(S) /\ Len(Tail(q)) = Len(q) - 1
      /\ \A i \in 1 .. Len(Tail(q)) : Tail(q)[i] = q[i + 1]
  BY HeadTailProperties
<1>3. DOMAIN q = 1 .. Len(q) /\ DOMAIN Tail(q) = 1 .. Len(Tail(q))
  BY <1>2, LenProperties
<1> QED
  BY <1>1, <1>2, <1>3

LEMMA SequenceOf ==
    ASSUME NEW S, NEW n \in Nat, NEW t \in [1 .. n -> S]
    PROVE  t \in Seq(S) /\ Len(t) = n
<1>1. t \in Seq(S)
  BY SeqDef
<1> QED
  BY <1>1, LenProperties

----------------------------------------------------------------------------
(* The wire *)

LEMMA PieceProperties ==
    ASSUME NEW f \in FrameSet
    PROVE  /\ Head1(f) \in Piece /\ Head1(f).part = "header" /\ Head1(f).frame = f
           /\ Body1(f) \in Piece /\ Body1(f).part = "payload" /\ Body1(f).frame = f
  BY DEF Head1, Body1, Piece

(* What adbd takes off the wire is a header and, if it has one, its        *)
(* payload.                                                                *)
LEMMA ReceivedProperties ==
    ASSUME wire \in Seq(Piece), NEW m, Receive(m)
    PROVE  /\ wire # << >> /\ 1 \in DOMAIN wire
           /\ Head(wire) = wire[1] /\ wire[1] \in Piece
           /\ wire[1] = Head1(wire[1].frame)
           /\ wire[1].frame \in FrameSet /\ m \in Message
           /\ m = wire[1].frame.msg
           /\ m.cmd \in Bodied =>
                 /\ Tail(wire) # << >> /\ Tail(wire)[1] = Body1(wire[1].frame)
                 /\ 2 \in DOMAIN wire /\ wire[2] = Body1(wire[1].frame)
                 /\ wire' = Tail(Tail(wire))
           /\ m.cmd \notin Bodied => wire' = Tail(wire)
<1> DEFINE f == Head(wire).frame
<1>1. /\ wire # << >> /\ IsPrefix(Pieces(f), wire) /\ f.msg = m
      /\ wire' = SubSeq(wire, Len(Pieces(f)) + 1, Len(wire))
  BY DEF Receive, Whole
<1>2. /\ Len(wire) \in Nat \ {0} /\ Head(wire) = wire[1] /\ wire[1] \in Piece
      /\ Tail(wire) \in Seq(Piece) /\ Len(Tail(wire)) = Len(wire) - 1
      /\ DOMAIN wire = 1 .. Len(wire)
      /\ \A i \in 1 .. Len(wire) - 1 : Tail(wire)[i] = wire[i + 1]
  BY <1>1, TakeProperties
<1>3. f \in FrameSet /\ f = wire[1].frame
  BY <1>2 DEF Piece
<1>4. m \in Message
  BY <1>1, <1>3 DEF FrameSet
<1> HIDE DEF f
<1>5. CASE m.cmd \in Bodied
  <2>1. Pieces(f) = << Head1(f), Body1(f) >>
    BY <1>1, <1>5 DEF Pieces, HasBody, Bodied
  <2>2. Len(wire) >= 2
    BY <1>1, <2>1 DEF IsPrefix
  <2>3. << Head1(f), Body1(f) >> = SubSeq(wire, 1, 2)
    BY <1>1, <2>1 DEF IsPrefix
  <2>4. SubSeq(wire, 1, 2)[1] = wire[1] /\ SubSeq(wire, 1, 2)[2] = wire[2]
    BY <1>2, <2>2
  <2>5. wire[1] = Head1(f) /\ wire[2] = Body1(f)
    BY <2>3, <2>4
  <2>6. wire' = SubSeq(wire, 3, Len(wire))
    BY <1>1, <2>1
  <2>7. SubSeq(wire, 3, Len(wire)) = Tail(Tail(wire))
    BY <1>2, <2>2
  <2>8. Tail(wire) # << >> /\ Tail(wire)[1] = wire[2]
    BY <1>2, <2>2
  <2>9. 1 \in DOMAIN wire /\ 2 \in DOMAIN wire
    BY <1>2, <2>2
  <2> QED
    BY <1>1, <1>2, <1>3, <1>4, <1>5, <2>5, <2>6, <2>7, <2>8, <2>9
<1>6. CASE m.cmd \notin Bodied
  <2>1. Pieces(f) = << Head1(f) >>
    BY <1>1, <1>6 DEF Pieces, HasBody, Bodied
  <2>2. << Head1(f) >> = SubSeq(wire, 1, 1)
    BY <1>1, <2>1 DEF IsPrefix
  <2>3. SubSeq(wire, 1, 1)[1] = wire[1]
    BY <1>2
  <2>4. wire[1] = Head1(f)
    BY <2>2, <2>3
  <2>5. wire' = SubSeq(wire, 2, Len(wire))
    BY <1>1, <2>1
  <2>6. SubSeq(wire, 2, Len(wire)) = Tail(wire)
    BY <1>2
  <2> QED
    BY <1>1, <1>2, <1>3, <1>4, <1>6, <2>4, <2>5, <2>6
<1> QED
  BY <1>5, <1>6

----------------------------------------------------------------------------
(* The steps, one variable at a time *)

(* The next message from the device. *)
LEMMA HeadOfDown ==
    ASSUME Inv, down # << >>
    PROVE  /\ Head(down) \in FrameSet /\ Head(down).msg \in Message
           /\ Head(down).data \in Nat
           /\ Head(down).msg.cmd \in Named => FromStream(Head(down).msg)
           /\ Head(down).msg.cmd = "OPEN" => Head(down).msg.arg1 = 0
<1>1. /\ Len(down) \in Nat \ {0} /\ Head(down) = down[1] /\ Head(down) \in FrameSet
      /\ DOMAIN down = 1 .. Len(down)
  BY TakeProperties DEF Inv, Shape
<1>2. Head(down).msg \in Message /\ Head(down).data \in Nat
  BY <1>1 DEF FrameSet
<1> QED
  BY <1>1, <1>2 DEF Inv, NamedRight

(* A stream keeps its channel and its role; streams only come to the       *)
(* device's list.                                                          *)
LEMMA RoleOfType == ASSUME NEW l PROVE RoleOf(l) \in DevRoles
  BY DEF RoleOf, DevRoles, Roles

LEMMA StreamType ==
    ASSUME NEW l \in Nat, NEW r \in DevRoles
    PROVE  /\ Stream(l, r) \in DevStream /\ Stream(l, r).peer = l
           /\ Stream(l, r).role = r /\ Stream(l, r).unacked = FALSE
           /\ Stream(l, r).alive = TRUE /\ Stream(l, r).sent = 0
  BY DEF Stream, Other, DevStream

LEMMA AcceptedStep ==
    ASSUME Inv, DeviceAccepts
    PROVE  \E l \in DOMAIN channels :
              /\ l \in Nat /\ Receive(OpenMsg(l))
              /\ streams' = Append(streams, Stream(l, RoleOf(l)))
              /\ Stream(l, RoleOf(l)) \in DevStream
              /\ down' = Append(down, Frame(Msg("OKAY", Len(streams) + 1, l), 0))
<1>1. PICK l \in DOMAIN channels :
              /\ Receive(OpenMsg(l))
              /\ streams' = Append(streams, Stream(l, RoleOf(l)))
              /\ Answer(<< Frame(Msg("OKAY", Len(streams) + 1, l), 0) >>)
  BY DEF DeviceAccepts
<1>2. l \in Nat /\ Len(streams) \in Nat
  BY LenProperties DEF Inv, Shape
<1>3. Stream(l, RoleOf(l)) \in DevStream
  BY <1>2, RoleOfType, StreamType
<1>4. Frame(Msg("OKAY", Len(streams) + 1, l), 0) \in FrameSet
  BY <1>2 DEF Frame, Msg, FrameSet, Message
<1>5. down' = Append(down, Frame(Msg("OKAY", Len(streams) + 1, l), 0))
  BY <1>1, <1>4, PutProperties DEF Answer, Inv, Shape
<1> QED
  BY <1>1, <1>2, <1>3, <1>5

LEMMA StreamsStep ==
    ASSUME Inv, [Next]_vars
    PROVE  /\ streams' \in Seq(DevStream) /\ DOMAIN streams \subseteq DOMAIN streams'
           /\ Len(streams) \in Nat /\ Len(streams') \in Nat
           /\ Len(streams) <= Len(streams')
           /\ DOMAIN streams = 1 .. Len(streams)
           /\ DOMAIN streams' = 1 .. Len(streams')
           /\ \A d \in DOMAIN streams : /\ streams'[d].peer = streams[d].peer
                                        /\ streams'[d].role = streams[d].role
<1>1. CASE DeviceAccepts
  <2>1. PICK l \in DOMAIN channels :
           /\ streams' = Append(streams, Stream(l, RoleOf(l)))
           /\ Stream(l, RoleOf(l)) \in DevStream
    BY <1>1, AcceptedStep
  <2> QED
    BY <2>1, PutProperties, LenProperties DEF Inv, Shape
<1>2. ASSUME NEW d \in DOMAIN streams, NEW s \in DevStream,
             streams' = [streams EXCEPT ![d] = s],
             s.peer = streams[d].peer, s.role = streams[d].role
      PROVE  /\ streams' \in Seq(DevStream) /\ DOMAIN streams' = DOMAIN streams
             /\ Len(streams') = Len(streams)
             /\ \A e \in DOMAIN streams : /\ streams'[e].peer = streams[e].peer
                                          /\ streams'[e].role = streams[e].role
  BY <1>2 DEF Inv, Shape
<1>3. CASE DeviceReceives
  <2>1. CASE UNCHANGED streams
    BY <2>1, LenProperties DEF Inv, Shape
  <2>2. CASE \E m : /\ m.arg1 \in DOMAIN streams
                    /\ streams' = [streams EXCEPT ![m.arg1].unacked = FALSE]
    <3>1. PICK d \in DOMAIN streams : streams' = [streams EXCEPT ![d].unacked = FALSE]
      BY <2>2
    <3> DEFINE s == [streams[d] EXCEPT !.unacked = FALSE]
    <3>2. streams[d] \in DevStream
      BY DEF Inv, Shape
    <3>3. s \in DevStream /\ s.peer = streams[d].peer /\ s.role = streams[d].role
      BY <3>2 DEF DevStream
    <3>4. streams' = [streams EXCEPT ![d] = s]
      BY <3>1
    <3> HIDE DEF s
    <3> QED
      BY <1>2, <3>3, <3>4, LenProperties DEF Inv, Shape
  <2> QED
    BY <1>3, <2>1, <2>2 DEF DeviceReceives, Known, device
<1>4. CASE \E d \in DOMAIN streams : DeviceWrites(d)
  <2>1. PICK d \in DOMAIN streams :
           streams' = [streams EXCEPT ![d].sent = @ + 1, ![d].unacked = TRUE]
    BY <1>4 DEF DeviceWrites
  <2> DEFINE n == streams[d].sent + 1
             s == [streams[d] EXCEPT !.sent = n, !.unacked = TRUE]
  <2>2. streams[d] \in DevStream
    BY DEF Inv, Shape
  <2>3. n \in Nat
    BY <2>2 DEF DevStream
  <2>4. streams' = [streams EXCEPT ![d] = s]
    BY <2>1
  <2> HIDE DEF n
  <2>5. s \in DevStream /\ s.peer = streams[d].peer /\ s.role = streams[d].role
    BY <2>2, <2>3 DEF DevStream
  <2> HIDE DEF s
  <2> QED
    BY <1>2, <2>4, <2>5, LenProperties DEF Inv, Shape
<1>5. CASE \E d \in DOMAIN streams : DeviceCloses(d)
  <2>1. PICK d \in DOMAIN streams : streams' = [streams EXCEPT ![d].alive = FALSE]
    BY <1>5 DEF DeviceCloses
  <2> DEFINE s == [streams[d] EXCEPT !.alive = FALSE]
  <2>2. streams[d] \in DevStream
    BY DEF Inv, Shape
  <2>3. s \in DevStream /\ s.peer = streams[d].peer /\ s.role = streams[d].role
    BY <2>2 DEF DevStream
  <2>4. streams' = [streams EXCEPT ![d] = s]
    BY <2>1
  <2> HIDE DEF s
  <2> QED
    BY <1>2, <2>3, <2>4, LenProperties DEF Inv, Shape
<1>6. CASE UNCHANGED streams
  BY <1>6, LenProperties DEF Inv, Shape
<1>7. \/ DeviceAccepts \/ DeviceReceives
      \/ \E d \in DOMAIN streams : DeviceWrites(d) \/ DeviceCloses(d)
      \/ UNCHANGED streams
  BY DEF Next, Reader, ReaderReplies, ReaderReceives, ReaderOkay, ReaderAcks,
         ReaderRelays, ReaderStops, Sender, SenderTakes, SenderSendsHeader,
         SenderSendsPayload, Main, MainReadsAudioMetadata, MainWaits,
         MainReadsMetadata, ControlWritten, MainKills, ConsumerReads, ConsumerEnds,
         Break, Device, DeviceAsks, DeviceConfused, DeviceRefuses, vars, device
<1> QED
  BY <1>1, <1>3, <1>4, <1>5, <1>6, <1>7

(* So a message that was named right stays so. *)
LEMMA NamesKept ==
    ASSUME Inv, [Next]_vars, NEW m
    PROVE  /\ FromStream(m) => /\ m.arg0 \in DOMAIN streams'
                               /\ streams'[m.arg0].peer = m.arg1
           /\ ToStream(m) => /\ m.arg1 \in DOMAIN streams'
                             /\ streams'[m.arg1].peer = m.arg0
  BY StreamsStep DEF FromStream, ToStream

LEMMA PeersKept ==
    ASSUME Inv, [Next]_vars, NEW l, \E d \in DOMAIN streams : streams[d].peer = l
    PROVE  \E d \in DOMAIN streams' : streams'[d].peer = l
  BY StreamsStep

(* What may become of the entry c of the channel l: only a channel of      *)
(* video or audio gets another identifier than that of its own stream.     *)
Follows(c, d) ==
    /\ d \in Channel /\ d.local = c.local
    /\ \/ d.remote = c.remote
       \/ /\ d.remote \in DOMAIN streams
          /\ c.local \in {2, 3} \/ streams[d.remote].peer = c.local
    /\ \/ d.state \in {c.state, "CLOSED"}
       \/ d.state = "OPEN" /\ \E e \in DOMAIN streams : streams[e].peer = c.local

Kept(t) ==
    /\ t \in Seq(Channel) /\ DOMAIN t = DOMAIN channels /\ Len(t) = Len(channels)
    /\ \A i \in DOMAIN channels : Follows(channels[i], t[i])

LEMMA EntryProperties ==
    ASSUME Inv, NEW i \in DOMAIN channels
    PROVE  /\ channels[i] \in Channel /\ channels[i].local = i
           /\ Follows(channels[i], channels[i])
<1>1. channels[i] \in Channel
  BY DEF Inv, Shape
<1> QED
  BY <1>1 DEF Follows, Inv, TypeOK

LEMMA KeptAll ==
    ASSUME Inv, NEW t, t = [i \in DOMAIN channels |-> t[i]],
           \A i \in DOMAIN channels : Follows(channels[i], t[i])
    PROVE  Kept(t)
<1>1. DOMAIN channels = 1 .. Len(channels) /\ Len(channels) \in Nat
  BY LenProperties DEF Inv, Shape
<1>2. t \in [1 .. Len(channels) -> Channel]
  BY <1>1 DEF Follows
<1> QED
  BY <1>1, <1>2, SequenceOf DEF Kept

LEMMA GuessedKept ==
    ASSUME Inv, NEW m \in Message, FromStream(m)
    PROVE  Kept(Guessed(channels, m))
<1>1. Guessed(channels, m)
        = [i \in DOMAIN channels |->
             IF channels[i].local \in {2, 3} /\ channels[i].remote = 0
               THEN [channels[i] EXCEPT !.remote = m.arg0] ELSE channels[i]]
  BY DEF Guessed, Update, Local
<1>2. ASSUME NEW i \in DOMAIN channels
      PROVE  Follows(channels[i], Guessed(channels, m)[i])
  <2>1. CASE channels[i].local \in {2, 3} /\ channels[i].remote = 0
    <3> DEFINE c == channels[i]
               d == [c EXCEPT !.remote = m.arg0]
    <3>1. c \in Channel /\ m.arg0 \in Nat /\ Guessed(channels, m)[i] = d
      BY <1>1, <2>1, EntryProperties DEF Message
    <3>2. d \in Channel /\ d.local = c.local /\ d.remote = m.arg0 /\ d.state = c.state
      BY <3>1 DEF Channel
    <3> HIDE DEF c, d
    <3>3. c.local \in {2, 3}
      BY <2>1 DEF c
    <3>4. Follows(c, d)
      BY <3>2, <3>3 DEF Follows, FromStream
    <3> QED
      BY <3>1, <3>4 DEF c
  <2>2. CASE ~(channels[i].local \in {2, 3} /\ channels[i].remote = 0)
    BY <1>1, <2>2, EntryProperties
  <2> QED
    BY <2>1, <2>2
<1> QED
  BY <1>1, <1>2, KeptAll

LEMMA AssignedKept ==
    ASSUME Inv, NEW m \in Message, FromStream(m), NEW field \in {"remote", "state"}
    PROVE  Kept(Assigned(channels, m, field))
<1>1. Assigned(channels, m, field)
        = [i \in DOMAIN channels |->
             IF channels[i].local = m.arg1
               THEN IF field = "remote" THEN [channels[i] EXCEPT !.remote = m.arg0]
                                        ELSE [channels[i] EXCEPT !.state = "OPEN"]
               ELSE channels[i]]
  BY DEF Assigned, Update
<1>2. ASSUME NEW i \in DOMAIN channels
      PROVE  Follows(channels[i], Assigned(channels, m, field)[i])
  <2>1. CASE channels[i].local = m.arg1
    <3> DEFINE c == channels[i]
               a == [c EXCEPT !.remote = m.arg0]
               b == [c EXCEPT !.state = "OPEN"]
    <3>1. /\ c \in Channel /\ m.arg0 \in Nat
          /\ Assigned(channels, m, field)[i] = IF field = "remote" THEN a ELSE b
      BY <1>1, <2>1, EntryProperties DEF Message
    <3>2. /\ a \in Channel /\ a.local = c.local /\ a.remote = m.arg0 /\ a.state = c.state
          /\ b \in Channel /\ b.local = c.local /\ b.remote = c.remote /\ b.state = "OPEN"
      BY <3>1 DEF Channel
    <3> HIDE DEF c, a, b
    <3>3. m.arg0 \in DOMAIN streams /\ streams[m.arg0].peer = c.local
      BY <2>1 DEF FromStream, c
    <3>4. Follows(c, a) /\ Follows(c, b)
      BY <3>2, <3>3 DEF Follows
    <3> QED
      BY <3>1, <3>4 DEF c
  <2>2. CASE channels[i].local # m.arg1
    BY <1>1, <2>2, EntryProperties
  <2> QED
    BY <2>1, <2>2
<1> QED
  BY <1>1, <1>2, KeptAll

LEMMA OnClseKept ==
    ASSUME Inv, NEW m
    PROVE  Kept(OnClse(channels, m))
<1>1. OnClse(channels, m)
        = [i \in DOMAIN channels |-> IF channels[i].local = m.arg0
                                       THEN Closed(channels[i]) ELSE channels[i]]
  BY DEF OnClse, Update
<1>2. ASSUME NEW i \in DOMAIN channels
      PROVE  Follows(channels[i], OnClse(channels, m)[i])
  <2> DEFINE c == channels[i]
             d == Closed(c)
  <2>1. c \in Channel /\ OnClse(channels, m)[i] \in {c, d} /\ Follows(c, c)
    BY <1>1, EntryProperties
  <2>2. d \in Channel /\ d.local = c.local /\ d.remote = c.remote /\ d.state = "CLOSED"
    BY <2>1 DEF Channel, Closed
  <2> HIDE DEF c, d
  <2>3. Follows(c, d)
    BY <2>2 DEF Follows
  <2> QED
    BY <2>1, <2>3 DEF c
<1> QED
  BY <1>1, <1>2, KeptAll

LEMMA TableStep ==
    ASSUME Inv, [Next]_vars
    PROVE  \/ Kept(channels')
           \/ channels' = Append(channels, Opening(Len(channels) + 1))
<1>1. CASE ReaderReceives
  <2>1. /\ Head(down).msg \in Message
        /\ Head(down).msg.cmd \in Named => FromStream(Head(down).msg)
    BY <1>1, HeadOfDown DEF ReaderReceives
  <2>a. "WRTE" \in Named
    BY DEF Named
  <2>2. \/ /\ Head(down).msg.cmd = "WRTE"
           /\ channels' = Guessed(channels, Head(down).msg)
        \/ channels' = channels
        \/ channels' = OnClse(channels, Head(down).msg)
    BY <1>1 DEF ReaderReceives
  <2>3. CASE channels' = channels
    BY <2>3, EntryProperties DEF Kept, Inv, Shape
  <2> QED
    BY <2>a, <2>1, <2>2, <2>3, GuessedKept, OnClseKept
<1>2. CASE ReaderOkay
  <2>1. PICK field \in {"remote", "state"} :
           /\ channels' = Assigned(channels, reader.frame.msg, field)
           /\ reader.pc \in {"okay", "remote", "state"}
    BY <1>2 DEF ReaderOkay
  <2>2. FromStream(reader.frame.msg)
    BY <2>1 DEF Inv, NamedRight, Handling
  <2>3. reader.frame.msg \in Message
    BY DEF Inv, Shape, FrameSet
  <2> QED
    BY <2>1, <2>2, <2>3, AssignedKept
<1>3. CASE MainKills
  <2>1. \/ channels' = Append(channels, Opening(Len(channels) + 1))
        \/ channels' = channels
    BY <1>3 DEF MainKills
  <2>2. CASE channels' = channels
    BY <2>2, EntryProperties DEF Kept, Inv, Shape
  <2> QED
    BY <2>1, <2>2
<1>4. CASE UNCHANGED channels
  BY <1>4, EntryProperties DEF Kept, Inv, Shape
<1>5. ReaderReceives \/ ReaderOkay \/ MainKills \/ UNCHANGED channels
  BY DEF Next, Reader, ReaderReplies, ReaderAcks, ReaderRelays, ReaderStops,
         Sender, SenderTakes, SenderSendsHeader, SenderSendsPayload, Main,
         MainReadsAudioMetadata, MainWaits, MainReadsMetadata, ControlWritten,
         ConsumerReads, ConsumerEnds, Break, Device, DeviceAsks, DeviceConfused,
         DeviceAccepts, DeviceRefuses, DeviceReceives, DeviceWrites, DeviceCloses,
         vars, host
<1> QED
  BY <1>1, <1>2, <1>3, <1>4, <1>5

(* What the reader has in hand, it has from a stream. *)
LEMMA ReplyType ==
    ASSUME Inv, NEW m \in Message, FromStream(m) \/ m.cmd # "OPEN",
           m.cmd = "OPEN" => m.arg1 = 0, m.cmd \in Unnamed
    PROVE  /\ Reply(m) \in FrameSet /\ ReplyRight(Reply(m).msg)
           /\ Reply(m).msg.cmd = "AUTH" <=> m.cmd = "AUTH"
<1>0. m.arg0 \in Nat /\ m.arg1 \in Nat
  BY DEF Message
<1>1. CASE m.cmd = "OPEN"
  <2>1. Reply(m) = Frame(Msg("OKAY", m.arg1, m.arg0), 0)
    BY <1>1 DEF Reply
  <2>2. /\ Reply(m) \in FrameSet /\ Reply(m).msg.cmd = "OKAY"
        /\ Reply(m).msg.arg0 = m.arg1 /\ Reply(m).msg.arg1 = m.arg0
    BY <1>0, <2>1 DEF Frame, Msg, FrameSet, Message
  <2> QED
    BY <1>1, <2>2 DEF ReplyRight, ToStream, FromStream
<1>2. CASE m.cmd \in {"AUTH", "STLS"}
  <2>1. Reply(m) = Frame(Msg(m.cmd, 0, 0), 1)
    BY <1>2 DEF Reply
  <2>2. Reply(m) \in FrameSet /\ Reply(m).msg.cmd = m.cmd
    BY <1>2, <2>1 DEF Frame, Msg, FrameSet, Message
  <2> QED
    BY <1>2, <2>2 DEF ReplyRight
<1> QED
  BY <1>1, <1>2 DEF Unnamed

(* What the reader has in hand, it has from a stream, or it answers what   *)
(* the device asked.                                                       *)
LEMMA ReaderStep ==
    ASSUME Inv, [Next]_vars
    PROVE  /\ reader' \in [pc : Places, frame : FrameSet]
           /\ reader'.pc \in Handling => FromStream(reader'.frame.msg)
           /\ reader'.pc \in {"reply", "replyBody"} => ReplyRight(reader'.frame.msg)
           /\ reader'.pc = "replyBody" => /\ reader'.frame.msg.cmd = "AUTH"
                                          /\ reader' = reader \/ ReaderReplies
<1>1. /\ reader \in [pc : Places, frame : FrameSet]
      /\ reader.pc \in Handling => FromStream(reader.frame.msg)
      /\ reader.pc \in {"reply", "replyBody"} => ReplyRight(reader.frame.msg)
      /\ reader.pc = "replyBody" => reader.frame.msg.cmd = "AUTH"
  BY DEF Inv, Shape, NamedRight
<1>2. Nothing \in FrameSet
  BY DEF Nothing, Frame, Msg, FrameSet, Message
<1>3. CASE ReaderReceives
  <2> DEFINE f == Head(down)
  <2>1. /\ f \in FrameSet /\ (f.msg.cmd \in Named => FromStream(f.msg))
        /\ f.msg.cmd = "OPEN" => f.msg.arg1 = 0
        /\ f.msg \in Message
    BY <1>3, HeadOfDown DEF ReaderReceives
  <2>2. \/ f.msg.cmd = "WRTE" /\ reader' = [pc |-> "ack", frame |-> f]
        \/ f.msg.cmd = "OKAY" /\ reader' = [pc |-> "okay", frame |-> f]
        \/ /\ f.msg.cmd \in {"OPEN", "AUTH", "STLS"}
           /\ reader' = [pc |-> "reply", frame |-> Reply(f.msg)]
        \/ reader' = reader
    BY <1>3 DEF ReaderReceives
  <2> HIDE DEF f
  <2>3. CASE f.msg.cmd = "WRTE" /\ reader' = [pc |-> "ack", frame |-> f]
    BY <2>1, <2>3 DEF Handling, Places, Named
  <2>4. CASE f.msg.cmd = "OKAY" /\ reader' = [pc |-> "okay", frame |-> f]
    BY <2>1, <2>4 DEF Handling, Places, Named
  <2>5. CASE /\ f.msg.cmd \in {"OPEN", "AUTH", "STLS"}
             /\ reader' = [pc |-> "reply", frame |-> Reply(f.msg)]
    <3>1. Reply(f.msg) \in FrameSet /\ ReplyRight(Reply(f.msg).msg)
      BY <2>1, <2>5, ReplyType DEF Named, Unnamed
    <3>2. reader'.pc = "reply" /\ reader'.frame = Reply(f.msg)
      BY <2>5
    <3>3. "reply" \in Places /\ "reply" \notin Handling
      BY DEF Places, Handling, Answering
    <3> QED
      BY <2>5, <3>1, <3>2, <3>3
  <2> QED
    BY <1>1, <2>2, <2>3, <2>4, <2>5
<1>4. CASE reader' = [pc |-> "recv", frame |-> Nothing]
  BY <1>2, <1>4 DEF Handling, Places
<1>5. CASE \E pc \in {"remote", "state", "relay", "done"} :
              /\ reader' = [reader EXCEPT !.pc = pc]
              /\ pc # "done" => reader.pc \in Handling
  BY <1>1, <1>5 DEF Handling, Places
<1>6. CASE reader' = reader
  BY <1>1, <1>6
<1>8. CASE ReaderReplies
  <2>1. \/ reader' = [pc |-> "recv", frame |-> Nothing]
        \/ /\ reader.pc = "reply" /\ reader.frame.msg.cmd = "AUTH"
           /\ reader' = [reader EXCEPT !.pc = "replyBody"]
        \/ reader' = [reader EXCEPT !.pc = "tls"]
    BY <1>8 DEF ReaderReplies
  <2>2. CASE /\ reader.pc = "reply" /\ reader.frame.msg.cmd = "AUTH"
             /\ reader' = [reader EXCEPT !.pc = "replyBody"]
    BY <1>1, <1>8, <2>2 DEF Handling, Places, Answering
  <2>3. CASE reader' = [reader EXCEPT !.pc = "tls"]
    BY <1>1, <2>3 DEF Handling, Places, Answering
  <2> QED
    BY <1>4, <2>1, <2>2, <2>3
<1>7. \/ ReaderReceives \/ ReaderReplies
      \/ reader' = [pc |-> "recv", frame |-> Nothing]
      \/ \E pc \in {"remote", "state", "relay", "done"} :
              /\ reader' = [reader EXCEPT !.pc = pc]
              /\ pc # "done" => reader.pc \in Handling
      \/ reader' = reader
  <2>1. ReaderOkay => \/ reader' = [pc |-> "recv", frame |-> Nothing]
                      \/ \E pc \in {"remote", "state", "relay", "done"} :
                            /\ reader' = [reader EXCEPT !.pc = pc]
                            /\ pc # "done" => reader.pc \in Handling
    BY DEF ReaderOkay, Handling
  <2>2. ReaderAcks => \E pc \in {"remote", "state", "relay", "done"} :
                            /\ reader' = [reader EXCEPT !.pc = pc]
                            /\ pc # "done" => reader.pc \in Handling
    BY DEF ReaderAcks, Handling
  <2>3. ReaderStops => \E pc \in {"remote", "state", "relay", "done"} :
                            /\ reader' = [reader EXCEPT !.pc = pc]
                            /\ pc # "done" => reader.pc \in Handling
    BY DEF ReaderStops, Handling
  <2>4. ReaderRelays => reader' = [pc |-> "recv", frame |-> Nothing]
    BY DEF ReaderRelays
  <2>5. \/ ReaderReceives \/ ReaderReplies \/ ReaderOkay \/ ReaderAcks \/ ReaderRelays
        \/ ReaderStops \/ reader' = reader
    BY DEF Next, Reader, Sender, SenderTakes,
         SenderSendsHeader, SenderSendsPayload, Main, MainReadsAudioMetadata, MainWaits,
         MainReadsMetadata, ControlWritten, MainKills, ConsumerReads, ConsumerEnds,
         Break, Device, DeviceAsks, DeviceConfused,
         DeviceAccepts, DeviceRefuses, DeviceReceives, DeviceWrites, DeviceCloses,
         vars, host
  <2> QED
    BY <2>1, <2>2, <2>3, <2>4, <2>5
<1> QED
  BY <1>3, <1>4, <1>5, <1>6, <1>7, <1>8

(* The control channel is the fourth, and what is known of its stream.     *)
LEMMA ControlChannel ==
    ASSUME Inv
    PROVE  /\ 4 \in DOMAIN channels /\ Chan("control") = channels[4]
           /\ channels[4] \in Channel /\ channels[4].local = 4
           /\ channels[4].remote # 0 =>
                 /\ channels[4].remote \in DOMAIN streams
                 /\ streams[channels[4].remote].peer = 4
<1>1. /\ 4 \in DOMAIN channels
  BY LenProperties DEF Inv, Shape
<1>2. Chan("control") = channels[4]
  BY DEF Chan, Local
<1>3. channels[4] \in Channel /\ channels[4].local = 4
  BY <1>1, EntryProperties
<1>4. ASSUME channels[4].remote # 0
      PROVE  /\ channels[4].remote \in DOMAIN streams
             /\ streams[channels[4].remote].peer = 4
  <2>1. channels[4].remote \in 0 .. Len(streams) /\ Len(streams) \in Nat
        /\ DOMAIN streams = 1 .. Len(streams)
    BY <1>1, LenProperties DEF Inv, TypeOK, Shape
  <2> QED
    BY <1>1, <1>4, <2>1 DEF Inv, ChannelsRight
<1> QED
  BY <1>1, <1>2, <1>3, <1>4

LEMMA HeaderSent ==
    ASSUME Inv, SenderSendsHeader
    PROVE  \E f \in FrameSet :
              /\ f = Frame(Msg("WRTE", channels[4].local, channels[4].remote),
                           sender.frame.data)
              /\ f.msg \in Message /\ f.msg.cmd = "WRTE" /\ ToStream(f.msg)
              /\ f.msg.arg1 = channels[4].remote /\ f.data = sender.frame.data
              /\ wire' = Sent(<< Head1(f) >>)
              /\ sender' = [pc |-> "payload", frame |-> f]
<1> DEFINE m == Msg("WRTE", channels[4].local, channels[4].remote)
           f == Frame(m, sender.frame.data)
<1>1. channels[4].remote # 0
  BY DEF SenderSendsHeader, Inv, SenderRight
<1>2. channels[4] \in Channel /\ channels[4].local = 4
      /\ channels[4].remote \in DOMAIN streams
      /\ streams[channels[4].remote].peer = 4
  BY <1>1, ControlChannel
<1>3. m \in Message /\ m.cmd = "WRTE" /\ m.arg0 = 4 /\ m.arg1 = channels[4].remote
  BY <1>2 DEF Msg, Message, Channel
<1>4. wire' = Sent(<< Head1(f) >>) /\ sender' = [pc |-> "payload", frame |-> f]
  BY ControlChannel DEF SenderSendsHeader
<1>5. sender.frame.data \in Nat
  BY DEF Inv, Shape, FrameSet
<1> HIDE DEF m
<1>6. ToStream(m)
  BY <1>2, <1>3 DEF ToStream
<1>7. f \in FrameSet /\ f.msg = m /\ f.data = sender.frame.data
  BY <1>3, <1>5 DEF Frame, FrameSet
<1>8. f = Frame(Msg("WRTE", channels[4].local, channels[4].remote), sender.frame.data)
  BY DEF m
<1> HIDE DEF f
<1> QED
  BY <1>3, <1>4, <1>6, <1>7, <1>8

LEMMA SenderStep ==
    ASSUME Inv, [Next]_vars
    PROVE  /\ sender' \in [pc : {"recv", "send", "payload"}, frame : FrameSet]
           /\ \/ sender' = sender
              \/ /\ SenderTakes /\ sender'.pc = "send"
                 /\ Chan("control").remote # 0
              \/ SenderSendsHeader
              \/ SenderSendsPayload /\ sender'.pc = "recv"
<1>1. sender \in [pc : {"recv", "send", "payload"}, frame : FrameSet]
  BY DEF Inv, Shape
<1>2. Nothing \in FrameSet /\ Nothing.msg \in Message
  BY DEF Nothing, Frame, Msg, FrameSet, Message
<1>3. CASE SenderTakes
  <2>1. Head(ctlPair) \in Nat
    BY <1>3, TakeProperties DEF SenderTakes, Inv, Shape
  <2>2. Frame(Nothing.msg, Head(ctlPair)) \in FrameSet
    BY <1>2, <2>1 DEF Frame, FrameSet
  <2> QED
    BY <1>1, <1>3, <2>2 DEF SenderTakes
<1>4. CASE SenderSendsHeader
  <2>1. PICK f \in FrameSet : sender' = [pc |-> "payload", frame |-> f]
    BY <1>4, HeaderSent
  <2> QED
    BY <1>4, <2>1
<1>5. CASE SenderSendsPayload
  BY <1>2, <1>5 DEF SenderSendsPayload
<1>6. CASE sender' = sender
  BY <1>1, <1>6
<1>7. SenderTakes \/ SenderSendsHeader \/ SenderSendsPayload \/ sender' = sender
  BY DEF Next, Reader, ReaderReplies, ReaderReceives, ReaderOkay, ReaderAcks,
         ReaderRelays, ReaderStops, Sender, Main, MainReadsAudioMetadata,
         MainWaits, MainReadsMetadata, ControlWritten, MainKills, ConsumerReads,
         ConsumerEnds, Break, Device, DeviceAsks, DeviceConfused, DeviceAccepts,
         DeviceRefuses, DeviceReceives, DeviceWrites, DeviceCloses, vars, host
<1> QED
  BY <1>3, <1>4, <1>5, <1>6, <1>7

LEMMA SentOne ==
    ASSUME Inv, NEW p \in Piece, wire' = Sent(<< p >>)
    PROVE  \/ link # "up" /\ wire' = wire
           \/ link = "up" /\ wire' = Append(wire, p)
<1>1. wire \o << p >> = Append(wire, p)
  BY PutProperties DEF Inv, Shape
<1> QED
  BY <1>1 DEF Sent

LEMMA AckSent ==
    ASSUME Inv, ReaderAcks
    PROVE  \E f \in FrameSet :
              /\ f.msg = Msg("OKAY", reader.frame.msg.arg1, reader.frame.msg.arg0)
              /\ f.msg.cmd = "OKAY" /\ ToStream(f.msg) /\ FromStream(reader.frame.msg)
              /\ f.msg.arg0 = reader.frame.msg.arg1 /\ f.msg.arg1 = reader.frame.msg.arg0
              /\ wire' = Sent(<< Head1(f) >>)
<1> DEFINE r == reader.frame.msg
           m == Msg("OKAY", r.arg1, r.arg0)
           f == Frame(m, 0)
<1>1. FromStream(r)
  BY DEF ReaderAcks, Handling, Inv, NamedRight
<1>2. r \in Message
  BY DEF Inv, Shape, FrameSet
<1>3. m \in Message /\ m.cmd = "OKAY" /\ m.arg0 = r.arg1 /\ m.arg1 = r.arg0
  BY <1>2 DEF Msg, Message
<1>4. wire' = Sent(Pieces(f))
  BY DEF ReaderAcks
<1> HIDE DEF r
<1>5. ToStream(m)
  BY <1>1, <1>3 DEF ToStream, FromStream
<1>6. m = Msg("OKAY", r.arg1, r.arg0)
  OBVIOUS
<1> HIDE DEF m
<1>7. f \in FrameSet /\ f.msg = m
  BY <1>3 DEF Frame, FrameSet
<1>8. Pieces(f) = << Head1(f) >>
  BY <1>3, <1>7 DEF Pieces, HasBody, Bodied
<1> HIDE DEF f
<1> QED
  BY <1>1, <1>3, <1>4, <1>5, <1>6, <1>7, <1>8 DEF r

LEMMA OpenFrameType ==
    ASSUME NEW l \in Nat
    PROVE  /\ OpenFrame(l) \in FrameSet /\ OpenFrame(l).msg = OpenMsg(l)
           /\ OpenFrame(l).data = l
           /\ OpenMsg(l) \in Message /\ OpenMsg(l).cmd = "OPEN"
           /\ OpenMsg(l).arg0 = l /\ OpenMsg(l).arg1 = 0
           /\ Pieces(OpenFrame(l)) = << Head1(OpenFrame(l)), Body1(OpenFrame(l)) >>
  BY DEF OpenFrame, Frame, OpenMsg, Msg, FrameSet, Message, Pieces, HasBody

(* The two steps of server_kill, when the connection's state lets it send. *)
LEMMA KillSends ==
    ASSUME Inv, MainKills
    PROVE  \/ \E p \in Piece :
                 /\ wire' = Sent(<< p >>) /\ p.frame.msg.cmd = "OPEN" /\ unlocked'
                 /\ \/ /\ p = Head1(OpenFrame(Len(channels) + 1)) /\ p.part = "header"
                       /\ main = "running" /\ main' = "killing"
                       /\ channels' = Append(channels, Opening(Len(channels) + 1))
                    \/ /\ p = Body1(OpenFrame(Len(channels))) /\ p.part = "payload"
                       /\ main = "killing" /\ main' = "killed" /\ channels' = channels
           \/ UNCHANGED <<channels, reader, sender, relay, control, session, net, device>>
<1>1. Len(channels) \in Nat
  BY LenProperties DEF Inv, Shape
<1>2. CASE main = "running" /\ state = "connected"
  <2> DEFINE p == Head1(OpenFrame(Len(channels) + 1))
  <2>1. p \in Piece /\ p.frame.msg.cmd = "OPEN" /\ p.part = "header"
    BY <1>1, OpenFrameType, PieceProperties
  <2>2. /\ wire' = Sent(<< p >>) /\ main' = "killing" /\ unlocked'
        /\ channels' = Append(channels, Opening(Len(channels) + 1))
    BY <1>2 DEF MainKills
  <2> QED
    BY <1>2, <2>1, <2>2
<1>3. CASE main = "killing"
  <2> DEFINE p == Body1(OpenFrame(Len(channels)))
  <2>1. p \in Piece /\ p.frame.msg.cmd = "OPEN" /\ p.part = "payload"
    BY <1>1, OpenFrameType, PieceProperties
  <2>2. /\ wire' = Sent(<< p >>) /\ main' = "killed" /\ channels' = channels
        /\ unlocked' = unlocked
    BY <1>3 DEF MainKills, session
  <2>3. unlocked
    BY <1>3 DEF Inv, HeaderUnlocked
  <2> QED
    BY <1>3, <2>1, <2>2, <2>3
<1>4. CASE main = "running" /\ state # "connected"
  BY <1>4 DEF MainKills
<1> QED
  BY <1>2, <1>3, <1>4 DEF MainKills

(* What the reader answers without send_lock. *)
LEMMA ReplySends ==
    ASSUME Inv, ReaderReplies
    PROVE  /\ unlocked'
           /\ \E p \in Piece :
                 /\ wire' = Sent(<< p >>) /\ ReplyRight(p.frame.msg)
                 /\ p.part = "payload" \/ p.frame.msg.cmd \in {"AUTH", "STLS", "OKAY"}
<1>1. reader.frame \in FrameSet /\ reader.pc \in {"reply", "replyBody"}
  BY DEF ReaderReplies, Inv, Shape
<1>2. ReplyRight(reader.frame.msg)
  BY <1>1 DEF Inv, NamedRight
<1>3. CASE reader.pc = "reply"
  <2>1. wire' = Sent(<< Head1(reader.frame) >>) /\ unlocked'
    BY <1>3 DEF ReaderReplies
  <2> QED
    BY <1>1, <1>2, <2>1, PieceProperties DEF ReplyRight
<1>4. CASE reader.pc = "replyBody"
  <2>1. wire' = Sent(<< Body1(reader.frame) >>) /\ unlocked' = unlocked
    BY <1>4 DEF ReaderReplies
  <2>2. unlocked
    BY <1>4 DEF Inv, HeaderUnlocked
  <2> QED
    BY <1>1, <1>2, <2>1, <2>2, PieceProperties
<1> QED
  BY <1>1, <1>3, <1>4

(* Everything sent names a stream or opens one. *)
LEMMA WireStep ==
    ASSUME Inv, [Next]_vars
    PROVE  \/ wire' = wire
           \/ wire' = << >>
           \/ \E m \in Message : Receive(m)
           \/ /\ link = "up"
              /\ \E p \in Piece : /\ wire' = Append(wire, p)
                                  /\ p.frame.msg.cmd \in Unnamed \/ ToStream(p.frame.msg)
<1>1. CASE ReaderAcks
  <2>1. PICK f \in FrameSet : ToStream(f.msg) /\ wire' = Sent(<< Head1(f) >>)
    BY <1>1, AckSent
  <2> QED
    BY <2>1, PieceProperties, SentOne
<1>2. CASE SenderSendsHeader
  <2>1. PICK f \in FrameSet : ToStream(f.msg) /\ wire' = Sent(<< Head1(f) >>)
    BY <1>2, HeaderSent
  <2> QED
    BY <2>1, PieceProperties, SentOne
<1>3. CASE SenderSendsPayload
  <2>1. sender.frame \in FrameSet /\ ToStream(sender.frame.msg)
        /\ wire' = Sent(<< Body1(sender.frame) >>)
    BY <1>3 DEF SenderSendsPayload, Inv, SenderRight, Shape
  <2> QED
    BY <2>1, PieceProperties, SentOne
<1>4. CASE MainKills
  <2>1. CASE \E p \in Piece : wire' = Sent(<< p >>) /\ p.frame.msg.cmd = "OPEN"
    BY <2>1, SentOne DEF Unnamed
  <2> QED
    BY <1>4, <2>1, KillSends DEF net
<1>7. CASE ReaderReplies
  <2>1. PICK p \in Piece : wire' = Sent(<< p >>) /\ ReplyRight(p.frame.msg)
    BY <1>7, ReplySends
  <2>2. p.frame.msg.cmd \in Unnamed \/ ToStream(p.frame.msg)
    BY <2>1 DEF ReplyRight, Unnamed
  <2> QED
    BY <2>1, <2>2, SentOne
<1>5. CASE \E m : Receive(m)
  BY <1>5, ReceivedProperties DEF Inv, Shape
<1>6. \/ ReaderAcks \/ ReaderReplies \/ SenderSendsHeader \/ SenderSendsPayload \/ MainKills
      \/ (\E m : Receive(m)) \/ wire' = wire \/ wire' = << >>
  BY DEF Next, Reader, ReaderReceives, ReaderOkay, ReaderRelays, ReaderStops,
         Sender, SenderTakes, Main, MainReadsAudioMetadata, MainWaits,
         MainReadsMetadata, ControlWritten, ConsumerReads, ConsumerEnds, Break,
         Device, DeviceAsks, DeviceConfused, DeviceAccepts, DeviceRefuses,
         DeviceReceives, DeviceWrites, DeviceCloses, vars, net
<1> QED
  BY <1>1, <1>2, <1>3, <1>4, <1>5, <1>6, <1>7

LEMMA WireRight ==
    ASSUME Inv, [Next]_vars
    PROVE  /\ wire' \in Seq(Piece)
           /\ \A i \in DOMAIN wire' : \/ wire'[i].frame.msg.cmd \in Unnamed
                                      \/ ToStream(wire'[i].frame.msg)
<1>1. /\ wire \in Seq(Piece)
      /\ \A i \in DOMAIN wire : \/ wire[i].frame.msg.cmd \in Unnamed
                                \/ ToStream(wire[i].frame.msg)
  BY DEF Inv, Shape, AddressedRight, ToStream, Unnamed
<1>2. CASE wire' = << >>
  BY <1>2
<1>3. CASE \E p \in Piece : /\ wire' = Append(wire, p)
                            /\ p.frame.msg.cmd \in Unnamed \/ ToStream(p.frame.msg)
  <2>1. PICK p \in Piece : /\ wire' = Append(wire, p)
                           /\ p.frame.msg.cmd \in Unnamed \/ ToStream(p.frame.msg)
    BY <1>3
  <2> QED
    BY <1>1, <2>1, PutProperties
<1>4. CASE \E m \in Message : Receive(m)
  <2>1. /\ wire # << >>
        /\ \/ wire' = Tail(wire)
           \/ Tail(wire) # << >> /\ wire' = Tail(Tail(wire))
    BY <1>1, <1>4, ReceivedProperties
  <2>2. ASSUME NEW q \in Seq(Piece), q # << >>,
               \A i \in DOMAIN q : \/ q[i].frame.msg.cmd \in Unnamed
                                   \/ ToStream(q[i].frame.msg)
        PROVE  /\ Tail(q) \in Seq(Piece)
               /\ \A i \in DOMAIN Tail(q) : \/ Tail(q)[i].frame.msg.cmd \in Unnamed
                                            \/ ToStream(Tail(q)[i].frame.msg)
    <3>1. /\ Len(q) \in Nat \ {0} /\ Tail(q) \in Seq(Piece)
          /\ DOMAIN q = 1 .. Len(q) /\ DOMAIN Tail(q) = 1 .. Len(q) - 1
          /\ \A i \in 1 .. Len(q) - 1 : Tail(q)[i] = q[i + 1]
      BY <2>2, TakeProperties
    <3> QED
      BY <2>2, <3>1
  <2>3. /\ Tail(wire) \in Seq(Piece)
        /\ \A i \in DOMAIN Tail(wire) : \/ Tail(wire)[i].frame.msg.cmd \in Unnamed
                                        \/ ToStream(Tail(wire)[i].frame.msg)
    BY <1>1, <2>1, <2>2
  <2>4. CASE wire' = Tail(wire)
    BY <2>3, <2>4
  <2>5. CASE Tail(wire) # << >> /\ wire' = Tail(Tail(wire))
    BY <2>2, <2>3, <2>5
  <2> QED
    BY <2>1, <2>4, <2>5
<1>5. CASE wire' = wire
  BY <1>1, <1>5
<1> QED
  BY <1>2, <1>3, <1>4, <1>5, WireStep

LEMMA AnswerOne ==
    ASSUME Inv, NEW f \in FrameSet, Answer(<< f >>)
    PROVE  down' = Append(down, f)
  BY PutProperties DEF Answer, Inv, Shape

LEMMA StreamEntry ==
    ASSUME Inv, NEW d \in DOMAIN streams
    PROVE  /\ streams[d] \in DevStream /\ d \in Nat \ {0}
           /\ streams[d].peer \in Nat /\ streams[d].sent \in Nat
           /\ streams[d].alive \in BOOLEAN /\ streams[d].unacked \in BOOLEAN
           /\ streams[d].role \in DevRoles
<1>1. streams[d] \in DevStream /\ d \in Nat \ {0}
  BY LenProperties DEF Inv, Shape
<1> QED
  BY <1>1 DEF DevStream

(* A message on the wire, not an OPEN, is for the stream it names. *)
LEMMA ReceivedRight ==
    ASSUME Inv, NEW m, Receive(m)
    PROVE  /\ m \in Message /\ m.arg0 \in Nat /\ m.arg1 \in Nat
           /\ m.cmd \notin Unnamed => ToStream(m)
<1>1. /\ 1 \in DOMAIN wire /\ m \in Message /\ m = wire[1].frame.msg
  BY ReceivedProperties DEF Inv, Shape
<1>2. m.cmd \notin Unnamed => ToStream(m)
  BY <1>1 DEF Inv, AddressedRight, ToStream, Unnamed
<1> QED
  BY <1>1, <1>2 DEF Message

LEMMA DownStep ==
    ASSUME Inv, [Next]_vars
    PROVE  \/ down' = down
           \/ ReaderReceives /\ down # << >> /\ down' = Tail(down)
           \/ \E f \in FrameSet :
                 /\ down' = Append(down, f)
                 /\ f.msg.cmd = "WRTE" => \E d \in DOMAIN streams :
                        /\ DeviceWrites(d) /\ f.msg.arg0 = d
                        /\ f.msg.arg1 = streams[d].peer /\ f.data = streams[d].sent + 1
                 /\ f.msg.cmd \in Named =>
                       /\ f.msg.arg0 \in DOMAIN streams'
                       /\ streams'[f.msg.arg0].peer = f.msg.arg1
                 /\ f.msg.cmd = "OPEN" => f.msg.arg1 = 0
<1>1. CASE DeviceAccepts
  <2>1. PICK l \in DOMAIN channels :
           /\ l \in Nat /\ streams' = Append(streams, Stream(l, RoleOf(l)))
           /\ Stream(l, RoleOf(l)) \in DevStream
           /\ down' = Append(down, Frame(Msg("OKAY", Len(streams) + 1, l), 0))
    BY <1>1, AcceptedStep
  <2> DEFINE f == Frame(Msg("OKAY", Len(streams) + 1, l), 0)
  <2>2. Len(streams) \in Nat
    BY LenProperties DEF Inv, Shape
  <2>3. f \in FrameSet /\ f.msg.cmd = "OKAY" /\ f.msg.arg0 = Len(streams) + 1
        /\ f.msg.arg1 = l
    BY <2>1, <2>2 DEF Frame, Msg, FrameSet, Message, Named
  <2>4. Stream(l, RoleOf(l)).peer = l
    BY <2>1, RoleOfType, StreamType
  <2>5. /\ Len(streams) + 1 \in DOMAIN streams'
        /\ streams'[Len(streams) + 1] = Stream(l, RoleOf(l))
    BY <2>1, <2>2, PutProperties DEF Inv, Shape
  <2> HIDE DEF f
  <2> QED
    BY <2>1, <2>3, <2>4, <2>5 DEF f
<1>2. CASE DeviceRefuses
  <2>1. PICK k \in Kinds : Answer(<< Frame(Msg("CLSE", 0, Local[k]), 0) >>)
    BY <1>2 DEF DeviceRefuses
  <2> DEFINE f == Frame(Msg("CLSE", 0, Local[k]), 0)
  <2>2. Local[k] \in Nat
    BY DEF Kinds, Roles, Local
  <2>3. f \in FrameSet /\ f.msg.cmd = "CLSE" /\ f.msg.cmd \notin Named
    BY <2>2 DEF Frame, Msg, FrameSet, Message, Named
  <2> HIDE DEF f
  <2>4. down' = Append(down, f)
    BY <2>1, <2>3, AnswerOne DEF f
  <2> QED
    BY <2>3, <2>4
<1>3. CASE DeviceReceives
  <2>1. PICK m : /\ Receive(m)
                 /\ \/ /\ Known(m.arg1, m)
                       /\ Answer(<< Frame(Msg("OKAY", m.arg1, m.arg0), 0) >>)
                    \/ down' = down
    BY <1>3 DEF DeviceReceives
  <2>2. m.arg0 \in Nat /\ m.arg1 \in Nat
    BY <2>1, ReceivedRight
  <2>3. CASE /\ Known(m.arg1, m)
             /\ Answer(<< Frame(Msg("OKAY", m.arg1, m.arg0), 0) >>)
    <3> DEFINE f == Frame(Msg("OKAY", m.arg1, m.arg0), 0)
    <3>1. f \in FrameSet /\ f.msg.cmd = "OKAY" /\ f.msg.arg0 = m.arg1
          /\ f.msg.arg1 = m.arg0
      BY <2>2 DEF Frame, Msg, FrameSet, Message, Named
    <3>2. /\ m.arg1 \in DOMAIN streams' /\ streams'[m.arg1].peer = m.arg0
      BY <2>3, StreamsStep DEF Known
    <3> HIDE DEF f
    <3>3. down' = Append(down, f)
      BY <2>3, <3>1, AnswerOne DEF f
    <3> QED
      BY <3>1, <3>2, <3>3
  <2> QED
    BY <2>1, <2>3
<1>4. CASE \E d \in DOMAIN streams : DeviceWrites(d)
  <2>1. PICK d \in DOMAIN streams :
           /\ DeviceWrites(d)
           /\ Answer(<< Frame(Msg("WRTE", d, streams[d].peer), streams[d].sent + 1) >>)
    BY <1>4 DEF DeviceWrites
  <2> DEFINE f == Frame(Msg("WRTE", d, streams[d].peer), streams[d].sent + 1)
  <2>2. /\ f \in FrameSet /\ f.msg.cmd = "WRTE" /\ f.msg.arg0 = d
        /\ f.msg.arg1 = streams[d].peer /\ f.data = streams[d].sent + 1
    <3>1. d \in Nat /\ streams[d].peer \in Nat /\ streams[d].sent + 1 \in Nat
      BY StreamEntry
    <3> QED
      BY <3>1 DEF Frame, Msg, FrameSet, Message, Named
  <2>3. d \in DOMAIN streams' /\ streams'[d].peer = streams[d].peer
    BY StreamsStep
  <2> HIDE DEF f
  <2>4. down' = Append(down, f)
    BY <2>1, <2>2, AnswerOne DEF f
  <2> QED
    BY <2>1, <2>2, <2>3, <2>4
<1>5. CASE \E d \in DOMAIN streams : DeviceCloses(d)
  <2>1. PICK d \in DOMAIN streams :
           Answer(<< Frame(Msg("CLSE", d, streams[d].peer), 0) >>)
    BY <1>5 DEF DeviceCloses
  <2> DEFINE f == Frame(Msg("CLSE", d, streams[d].peer), 0)
  <2>2. streams[d].peer \in Nat /\ d \in Nat
    BY StreamEntry
  <2>3. f \in FrameSet /\ f.msg.cmd = "CLSE" /\ f.msg.cmd \notin Named
    BY <2>2 DEF Frame, Msg, FrameSet, Message, Named
  <2> HIDE DEF f
  <2>4. down' = Append(down, f)
    BY <2>1, <2>3, AnswerOne DEF f
  <2> QED
    BY <2>3, <2>4
<1>8. CASE DeviceAsks
  <2>1. PICK m \in Asked : Answer(<< Frame(m, 0) >>)
    BY <1>8 DEF DeviceAsks
  <2> DEFINE f == Frame(m, 0)
  <2>2. CASE \E e \in 1 .. OtherStreams : m = Msg("OPEN", e, 0)
    <3>1. PICK e \in 1 .. OtherStreams : m = Msg("OPEN", e, 0)
      BY <2>2
    <3>2. f \in FrameSet /\ f.msg.cmd = "OPEN" /\ f.msg.arg0 = e /\ f.msg.arg1 = 0
      BY <3>1 DEF Frame, Msg, FrameSet, Message
    <3>3. e \in DOMAIN streams' /\ streams'[e].peer = 0
      BY StreamsStep DEF Inv, OthersRight
    <3> HIDE DEF f
    <3>4. down' = Append(down, f)
      BY <2>1, <3>2, AnswerOne DEF f
    <3> QED
      BY <3>2, <3>3, <3>4
  <2>3. CASE \E c \in {"AUTH", "STLS", "CNXN"} : m = Msg(c, 0, 0)
    <3>1. f \in FrameSet /\ f.msg.cmd \in {"AUTH", "STLS", "CNXN"}
      BY <2>3 DEF Frame, Msg, FrameSet, Message
    <3> HIDE DEF f
    <3>2. down' = Append(down, f)
      BY <2>1, <3>1, AnswerOne DEF f
    <3> QED
      BY <3>1, <3>2 DEF Named
  <2> QED
    BY <2>2, <2>3 DEF Asked
<1>6. CASE ReaderReceives
  BY <1>6 DEF ReaderReceives
<1>7. \/ DeviceAccepts \/ DeviceRefuses \/ DeviceReceives
      \/ \E d \in DOMAIN streams : DeviceWrites(d) \/ DeviceCloses(d)
      \/ ReaderReceives \/ DeviceAsks \/ down' = down
  BY DEF Next, Reader, ReaderReplies, ReaderOkay, ReaderAcks, ReaderRelays,
         ReaderStops, Sender, SenderTakes, SenderSendsHeader, SenderSendsPayload,
         Main, MainReadsAudioMetadata, MainWaits, MainReadsMetadata,
         ControlWritten, MainKills, ConsumerReads, ConsumerEnds, Break, Device,
         DeviceConfused, vars, net
<1> QED
  BY <1>1, <1>2, <1>3, <1>4, <1>5, <1>6, <1>7, <1>8

LEMMA DownRight ==
    ASSUME Inv, [Next]_vars
    PROVE  /\ down' \in Seq(FrameSet)
           /\ \A i \in DOMAIN down' :
                 /\ down'[i].msg.cmd \in Named =>
                       /\ down'[i].msg.arg0 \in DOMAIN streams'
                       /\ streams'[down'[i].msg.arg0].peer = down'[i].msg.arg1
                 /\ down'[i].msg.cmd = "OPEN" => down'[i].msg.arg1 = 0
<1>1. /\ down \in Seq(FrameSet)
      /\ \A i \in DOMAIN down :
            /\ down[i].msg.cmd \in Named =>
                  /\ down[i].msg.arg0 \in DOMAIN streams'
                  /\ streams'[down[i].msg.arg0].peer = down[i].msg.arg1
            /\ down[i].msg.cmd = "OPEN" => down[i].msg.arg1 = 0
  BY NamesKept DEF Inv, Shape, NamedRight
<1>2. CASE down # << >> /\ down' = Tail(down)
  <2>1. /\ Len(down) \in Nat \ {0} /\ down' \in Seq(FrameSet)
        /\ DOMAIN down = 1 .. Len(down) /\ DOMAIN down' = 1 .. Len(down) - 1
        /\ \A i \in 1 .. Len(down) - 1 : down'[i] = down[i + 1]
    BY <1>1, <1>2, TakeProperties
  <2>2. \A i \in DOMAIN down' : i + 1 \in DOMAIN down /\ down'[i] = down[i + 1]
    BY <2>1
  <2> QED
    BY <1>1, <2>1, <2>2
<1>3. CASE \E f \in FrameSet :
                 /\ down' = Append(down, f)
                 /\ f.msg.cmd \in Named =>
                       /\ f.msg.arg0 \in DOMAIN streams'
                       /\ streams'[f.msg.arg0].peer = f.msg.arg1
                 /\ f.msg.cmd = "OPEN" => f.msg.arg1 = 0
  <2>1. PICK f \in FrameSet :
                 /\ down' = Append(down, f)
                 /\ f.msg.cmd \in Named =>
                       /\ f.msg.arg0 \in DOMAIN streams'
                       /\ streams'[f.msg.arg0].peer = f.msg.arg1
                 /\ f.msg.cmd = "OPEN" => f.msg.arg1 = 0
    BY <1>3
  <2> QED
    BY <1>1, <2>1, PutProperties
<1>4. CASE down' = down
  BY <1>1, <1>4
<1> QED
  BY <1>2, <1>3, <1>4, DownStep

(* The socketpairs, what was read from them, and the control messages.     *)
LEMMA PayloadType ==
    ASSUME Inv
    PROVE  /\ Payload(reader.frame) \in Nat \X Nat
           /\ Destination(reader.frame.msg) \in Kinds \cup {"nowhere"}
<1>1. reader.frame.msg \in Message /\ reader.frame.data \in Nat
  BY DEF Inv, Shape, FrameSet
<1>2. reader.frame.msg.arg0 \in Nat
  BY <1>1 DEF Message
<1>3. Destination(reader.frame.msg) \in Kinds \cup {"nowhere"}
  BY DEF Destination, Kinds, Roles
<1> QED
  BY <1>1, <1>2, <1>3 DEF Payload

LEMMA PairsStep ==
    ASSUME Inv, [Next]_vars
    PROVE  /\ pairs' \in [Kinds -> Seq(Nat \X Nat)] /\ taken' \in [Kinds -> Seq(Nat \X Nat)]
           /\ \A k \in Kinds : Len(pairs'[k]) <= PairCapacity
<1>1. /\ pairs \in [Kinds -> Seq(Nat \X Nat)] /\ taken \in [Kinds -> Seq(Nat \X Nat)]
      /\ \A k \in Kinds : Len(pairs[k]) <= PairCapacity /\ Len(pairs[k]) \in Nat
      /\ PairCapacity \in Nat
  BY BoundsAssumption, LenProperties DEF Inv, Shape, TypeOK, BoundsAssumption
<1>2. CASE ReaderRelays
  <2>1. CASE pairs' = pairs
    BY <1>1, <1>2, <2>1 DEF ReaderRelays
  <2>2. CASE \E k \in Kinds : /\ Len(pairs[k]) < PairCapacity
                  /\ pairs' = [pairs EXCEPT ![k] = Append(@, Payload(reader.frame))]
    <3>1. PICK k \in Kinds : /\ Len(pairs[k]) < PairCapacity
                  /\ pairs' = [pairs EXCEPT ![k] = Append(@, Payload(reader.frame))]
      BY <2>2
    <3> DEFINE q == Append(pairs[k], Payload(reader.frame))
    <3>2. q \in Seq(Nat \X Nat) /\ Len(q) = Len(pairs[k]) + 1
      BY <1>1, PayloadType, PutProperties
    <3>3. pairs' = [pairs EXCEPT ![k] = q]
      BY <3>1
    <3> HIDE DEF q
    <3>4. Len(q) <= PairCapacity
      BY <1>1, <3>1, <3>2
    <3>5. taken' = taken
      BY <1>2 DEF ReaderRelays
    <3> QED
      BY <1>1, <3>2, <3>3, <3>4, <3>5
  <2> QED
    BY <1>2, <2>1, <2>2, PayloadType DEF ReaderRelays
<1>3. CASE \E k \in Kinds : Take(k)
  <2>1. PICK k \in Kinds : Take(k)
    BY <1>3
  <2> DEFINE q == Tail(pairs[k])
             r == Append(taken[k], Head(pairs[k]))
  <2>2. /\ pairs[k] # << >>
        /\ taken' = [taken EXCEPT ![k] = r] /\ pairs' = [pairs EXCEPT ![k] = q]
    BY <2>1 DEF Take
  <2>3. q \in Seq(Nat \X Nat) /\ Head(pairs[k]) \in Nat \X Nat
        /\ Len(q) = Len(pairs[k]) - 1
    BY <1>1, <2>2, TakeProperties
  <2>4. r \in Seq(Nat \X Nat)
    BY <1>1, <2>3, PutProperties
  <2> HIDE DEF q, r
  <2>5. Len(q) <= PairCapacity
    BY <1>1, <2>3
  <2> QED
    BY <1>1, <2>2, <2>3, <2>4, <2>5
<1>4. CASE UNCHANGED <<pairs, taken>>
  BY <1>1, <1>4
<1>5. ReaderRelays \/ (\E k \in Kinds : Take(k)) \/ UNCHANGED <<pairs, taken>>
  <2>1. "video" \in Kinds /\ "audio" \in Kinds
    BY DEF Kinds, Roles
  <2> QED
    BY <2>1 DEF Next, Reader, ReaderReplies, ReaderReceives, ReaderOkay,
           ReaderAcks, ReaderStops, Sender, SenderTakes, SenderSendsHeader,
           SenderSendsPayload, Main, MainReadsAudioMetadata, MainWaits,
           MainReadsMetadata, ControlWritten, MainKills, ConsumerReads,
           ConsumerEnds, Break, Device, DeviceAsks, DeviceConfused, DeviceAccepts,
           DeviceRefuses, DeviceReceives, DeviceWrites, DeviceCloses, vars, host,
           relay
<1> QED
  BY <1>2, <1>3, <1>4, <1>5

LEMMA ControlStep ==
    ASSUME Inv, [Next]_vars
    PROVE  /\ ctlPair' \in Seq(Nat) /\ written' \in 0 .. left'.written /\ written' \in Nat
           /\ left' \in [Roles \cup {"written", "faults"} -> Nat]
           /\ left'.faults \in Nat
           /\ main' \in {"video", "audio", "control", "metadata", "audio metadata",
                         "running", "killing", "killed", "failed"}
<1>1. /\ ctlPair \in Seq(Nat) /\ written \in 0 .. left.written /\ written \in Nat
      /\ left \in [Roles \cup {"written", "faults"} -> Nat]
      /\ left.faults \in Nat /\ left.written \in Nat
  BY DEF Inv, Shape, TypeOK
<1>0. main \in {"video", "audio", "control", "metadata", "audio metadata",
                "running", "killing", "killed", "failed"}
  BY DEF Inv, TypeOK
<1>2. /\ left' \in [Roles \cup {"written", "faults"} -> Nat]
      /\ left'.faults \in Nat /\ left'.written = left.written
  <2>1. CASE left' = left
    BY <1>1, <2>1
  <2>2. CASE Fault
    <3>1. left.faults \in Nat /\ left.faults > 0 /\ left.faults - 1 \in Nat
      BY <1>1, <2>2 DEF Fault
    <3>2. left' = [left EXCEPT !.faults = left.faults - 1]
      BY <2>2 DEF Fault
    <3> QED
      BY <1>1, <3>1, <3>2
  <2>3. left' = left \/ Fault
    BY DEF Next, Reader, ReaderReplies, ReaderReceives, ReaderOkay, ReaderAcks,
           ReaderRelays, ReaderStops, Sender, SenderTakes, SenderSendsHeader,
           SenderSendsPayload, Main, MainReadsAudioMetadata, MainWaits,
           MainReadsMetadata, ControlWritten, MainKills, ConsumerReads,
           ConsumerEnds, Break, Device, DeviceAsks, DeviceConfused, DeviceAccepts,
           DeviceRefuses, DeviceReceives, DeviceWrites, DeviceCloses, vars, net
  <2> QED
    BY <2>1, <2>2, <2>3
<1>3. ctlPair' \in Seq(Nat) /\ written' \in 0 .. left.written /\ written' \in Nat
  <2>1. CASE SenderTakes
    BY <1>1, <2>1, TakeProperties DEF SenderTakes
  <2>2. CASE ControlWritten
    <3>1. written < left.written /\ written' = written + 1
          /\ ctlPair' = Append(ctlPair, written + 1) /\ left.written \in Nat
      BY <1>1, <2>2 DEF ControlWritten
    <3>2. written + 1 \in 0 .. left.written /\ written + 1 \in Nat
      BY <1>1, <3>1
    <3> QED
      BY <1>1, <3>1, <3>2, PutProperties
  <2>3. CASE UNCHANGED control
    BY <1>1, <2>3 DEF control
  <2>4. SenderTakes \/ ControlWritten \/ UNCHANGED control
    BY DEF Next, Reader, ReaderReplies, ReaderReceives, ReaderOkay, ReaderAcks,
           ReaderRelays, ReaderStops, Sender, SenderSendsHeader,
           SenderSendsPayload, Main, MainReadsAudioMetadata, MainWaits,
           MainReadsMetadata, MainKills, ConsumerReads, ConsumerEnds, Break,
           Device, DeviceAsks, DeviceConfused, DeviceAccepts, DeviceRefuses,
           DeviceReceives, DeviceWrites, DeviceCloses, vars, host
  <2> QED
    BY <2>1, <2>2, <2>3, <2>4
<1>4. main' \in {"video", "audio", "control", "metadata", "audio metadata",
                 "running", "killing", "killed", "failed"}
  <2>1. ASSUME NEW k \in Kinds, MainWaits(k)
        PROVE  main' \in {"audio", "control", "metadata", "failed"}
    <3>1. NextWait[k] \in {"audio", "control", "metadata"}
      BY DEF NextWait, Kinds, Roles
    <3> QED
      BY <2>1, <3>1 DEF MainWaits
  <2>2. CASE MainReadsMetadata \/ MainReadsAudioMetadata \/ MainKills
    BY <2>2 DEF MainReadsMetadata, MainReadsAudioMetadata, MainKills
  <2>3. CASE main' = main
    BY <1>0, <2>3
  <2>4. \/ (\E k \in Kinds : MainWaits(k)) \/ MainReadsMetadata
        \/ MainReadsAudioMetadata \/ MainKills \/ main' = main
    BY DEF Next, Reader, ReaderReplies, ReaderReceives, ReaderOkay, ReaderAcks,
           ReaderRelays, ReaderStops, Sender, SenderTakes, SenderSendsHeader,
           SenderSendsPayload, Main, ControlWritten, ConsumerReads, ConsumerEnds,
           Break, Device, DeviceAsks, DeviceConfused, DeviceAccepts, DeviceRefuses,
           DeviceReceives, DeviceWrites, DeviceCloses, vars, host
  <2> QED
    BY <2>1, <2>2, <2>3, <2>4
<1> QED
  BY <1>2, <1>3, <1>4

(* The connection's state, what was sent without send_lock, and the        *)
(* threads that are over.                                                  *)
LEMMA SessionStep ==
    ASSUME Inv, [Next]_vars
    PROVE  /\ state' \in {"connected", "auth sent", "negotiating"}
           /\ unlocked' \in BOOLEAN /\ (unlocked => unlocked')
           /\ ended' \subseteq {"video", "audio"}
           /\ (main' = "killing" \/ reader'.pc = "replyBody") => unlocked'
<1>1. /\ state \in {"connected", "auth sent", "negotiating"}
      /\ unlocked \in BOOLEAN /\ ended \subseteq {"video", "audio"}
      /\ (main = "killing" \/ reader.pc = "replyBody") => unlocked
  BY DEF Inv, TypeOK, HeaderUnlocked
<1>2. state' \in {"connected", "auth sent", "negotiating"}
  <2>1. CASE ReaderReceives
    BY <1>1, <2>1 DEF ReaderReceives, StateAfter
  <2>2. CASE ReaderReplies
    BY <1>1, <2>2 DEF ReaderReplies
  <2>3. ReaderReceives \/ ReaderReplies \/ state' = state
    BY DEF Next, Reader, ReaderOkay, ReaderAcks, ReaderRelays, ReaderStops, Sender,
         SenderTakes, SenderSendsHeader, SenderSendsPayload, Main, MainWaits,
         MainReadsMetadata, MainReadsAudioMetadata, ControlWritten, MainKills,
         ConsumerReads, ConsumerEnds, Break, Device, DeviceAsks, DeviceConfused,
         DeviceAccepts, DeviceRefuses, DeviceReceives, DeviceWrites, DeviceCloses,
         vars, host, session
  <2> QED
    BY <1>1, <2>1, <2>2, <2>3
<1>3. ended' \subseteq {"video", "audio"}
  <2>1. CASE \E k \in Kinds : ConsumerEnds(k)
    BY <1>1, <2>1 DEF ConsumerEnds
  <2>2. (\E k \in Kinds : ConsumerEnds(k)) \/ ended' = ended
    BY DEF Next, Reader, ReaderReceives, ReaderReplies, ReaderOkay, ReaderAcks,
         ReaderRelays, ReaderStops, Sender,
         SenderTakes, SenderSendsHeader, SenderSendsPayload, Main, MainWaits,
         MainReadsMetadata, MainReadsAudioMetadata, ControlWritten, MainKills,
         ConsumerReads, Break, Device, DeviceAsks, DeviceConfused,
         DeviceAccepts, DeviceRefuses, DeviceReceives, DeviceWrites, DeviceCloses,
         vars, host, relay
  <2> QED
    BY <1>1, <2>1, <2>2
<1>4. unlocked' \in BOOLEAN /\ (unlocked => unlocked')
      /\ ((ReaderReplies \/ (MainKills /\ main' = "killing")) => unlocked')
  <2>4. ReaderReplies => unlocked'
    <3>1. ASSUME ReaderReplies PROVE unlocked'
      BY <3>1, ReplySends
    <3> QED
      BY <3>1
  <2>1. CASE ReaderReplies
    BY <1>1, <2>1 DEF ReaderReplies
  <2>2. CASE MainKills
    <3>1. (main = "running" /\ main' = "killing" /\ unlocked' = TRUE)
          \/ (main' = "killed" /\ unlocked' = unlocked)
      BY <2>2 DEF MainKills, session
    <3>2. unlocked' \in BOOLEAN /\ (unlocked => unlocked')
      BY <1>1, <3>1
    <3>3. main' = "killing" => unlocked'
      BY <3>1
    <3> QED
      BY <2>4, <3>2, <3>3
  <2>3. ReaderReplies \/ MainKills \/ unlocked' = unlocked
    BY DEF Next, Reader, ReaderReceives, ReaderOkay, ReaderAcks, ReaderRelays,
         ReaderStops, Sender, SenderTakes, SenderSendsHeader, SenderSendsPayload,
         Main, MainWaits, MainReadsMetadata, MainReadsAudioMetadata, ControlWritten,
         ConsumerReads, ConsumerEnds, Break, Device, DeviceAsks, DeviceConfused,
         DeviceAccepts, DeviceRefuses, DeviceReceives, DeviceWrites, DeviceCloses,
         vars, host, session
  <2>5. (MainKills /\ main' = "killing") => unlocked'
    BY DEF MainKills
  <2> QED
    BY <1>1, <2>1, <2>2, <2>3, <2>4, <2>5
<1>5. main' = "killing" => main = "killing" \/ (MainKills /\ main' = "killing")
  <2>1. CASE \E k \in Kinds : MainWaits(k)
    BY <2>1 DEF MainWaits, NextWait, Kinds, Roles
  <2>2. CASE MainReadsMetadata \/ MainReadsAudioMetadata
    BY <2>2 DEF MainReadsMetadata, MainReadsAudioMetadata
  <2>3. (\E k \in Kinds : MainWaits(k)) \/ MainReadsMetadata \/ MainReadsAudioMetadata
        \/ MainKills \/ main' = main
    BY DEF Next, Reader, ReaderReceives, ReaderReplies, ReaderOkay, ReaderAcks,
         ReaderRelays, ReaderStops, Sender,
         SenderTakes, SenderSendsHeader, SenderSendsPayload, Main, ControlWritten,
         ConsumerReads, ConsumerEnds, Break, Device, DeviceAsks, DeviceConfused,
         DeviceAccepts, DeviceRefuses, DeviceReceives, DeviceWrites, DeviceCloses,
         vars, host
  <2> QED
    BY <2>1, <2>2, <2>3
<1>6. reader'.pc = "replyBody" => reader.pc = "replyBody" \/ ReaderReplies
  BY ReaderStep
<1> QED
  BY <1>1, <1>2, <1>3, <1>4, <1>5, <1>6

(* A stream that is alive was so before, and only its own WRTE and the     *)
(* OKAY it waits for change what it waits for.                             *)
LEMMA UnackedKept ==
    ASSUME Inv, [Next]_vars, NEW d \in DOMAIN streams, streams'[d].alive
    PROVE  /\ streams[d].alive
           /\ (~DeviceWrites(d) /\ ~(\E m : DeviceReceives /\ Receive(m) /\ m.cmd = "OKAY"
                                              /\ m.arg1 = d /\ Known(d, m)))
                 => streams'[d].unacked = streams[d].unacked
<1>1. streams[d] \in DevStream /\ streams \in Seq(DevStream)
  BY DEF Inv, Shape
<1>2. CASE DeviceAccepts
  <2>1. PICK s \in DevStream : streams' = Append(streams, s)
    BY <1>2, AcceptedStep
  <2>2. streams'[d] = streams[d]
    BY <1>1, <2>1, PutProperties
  <2> QED
    BY <2>2
<1>3. CASE DeviceReceives
  <2>1. \/ streams' = streams
        \/ \E m : /\ m.cmd = "OKAY" /\ Receive(m) /\ Known(m.arg1, m)
                  /\ streams' = [streams EXCEPT ![m.arg1].unacked = FALSE]
    BY <1>3 DEF DeviceReceives, device
  <2>2. ASSUME NEW m, m.cmd = "OKAY", Receive(m), Known(m.arg1, m),
               streams' = [streams EXCEPT ![m.arg1].unacked = FALSE]
        PROVE  /\ streams[d].alive
               /\ m.arg1 # d => streams'[d].unacked = streams[d].unacked
    <3>1. m.arg1 \in DOMAIN streams
      BY <2>2 DEF Known
    <3>2. CASE m.arg1 = d
      <4>1. streams[d].alive
        BY <2>2, <3>2 DEF Known
      <4> QED
        BY <3>2, <4>1
    <3>3. CASE m.arg1 # d
      <4>1. streams'[d] = streams[d]
        BY <2>2, <3>1, <3>3
      <4> QED
        BY <4>1
    <3> QED
      BY <3>2, <3>3
  <2>3. CASE \E m : /\ m.cmd = "OKAY" /\ Receive(m) /\ Known(m.arg1, m)
                    /\ streams' = [streams EXCEPT ![m.arg1].unacked = FALSE]
    <3>1. PICK m : /\ m.cmd = "OKAY" /\ Receive(m) /\ Known(m.arg1, m)
                   /\ streams' = [streams EXCEPT ![m.arg1].unacked = FALSE]
      BY <2>3
    <3>2. /\ streams[d].alive
          /\ m.arg1 # d => streams'[d].unacked = streams[d].unacked
      BY <2>2, <3>1
    <3> QED
      BY <1>3, <3>1, <3>2
  <2> QED
    BY <2>1, <2>3
<1>4. CASE \E e \in DOMAIN streams : DeviceWrites(e)
  <2>1. PICK e \in DOMAIN streams : DeviceWrites(e)
    BY <1>4
  <2>2. CASE e = d
    BY <2>1, <2>2 DEF DeviceWrites
  <2>3. CASE e # d
    <3>1. streams' = [streams EXCEPT ![e].sent = @ + 1, ![e].unacked = TRUE]
      BY <2>1 DEF DeviceWrites
    <3>2. streams'[d] = streams[d]
      BY <2>3, <3>1
    <3> QED
      BY <3>2
  <2> QED
    BY <2>2, <2>3
<1>5. CASE \E e \in DOMAIN streams : DeviceCloses(e)
  <2>1. PICK e \in DOMAIN streams : streams' = [streams EXCEPT ![e].alive = FALSE]
    BY <1>5 DEF DeviceCloses
  <2>2. e # d
    BY <1>1, <2>1 DEF DevStream
  <2>3. streams'[d] = streams[d]
    BY <2>1, <2>2
  <2> QED
    BY <2>3
<1>6. CASE UNCHANGED streams
  BY <1>6
<1>7. \/ DeviceAccepts \/ DeviceReceives
      \/ \E e \in DOMAIN streams : DeviceWrites(e) \/ DeviceCloses(e)
      \/ UNCHANGED streams
  BY DEF Next, Reader, ReaderReplies, ReaderReceives, ReaderOkay, ReaderAcks,
         ReaderRelays, ReaderStops, Sender, SenderTakes, SenderSendsHeader,
         SenderSendsPayload, Main, MainReadsAudioMetadata, MainWaits,
         MainReadsMetadata, ControlWritten, MainKills, ConsumerReads, ConsumerEnds,
         Break, Device, DeviceAsks, DeviceConfused, DeviceRefuses, vars, device
<1> QED
  BY <1>2, <1>3, <1>4, <1>5, <1>6, <1>7

(* The streams of others stay, and a stream comes alive with its channel.  *)
LEMMA OthersStep == ASSUME Inv, [Next]_vars PROVE OthersRight'
<1>1. \A d \in 1 .. OtherStreams : d \in DOMAIN streams' /\ streams'[d].peer = 0
  BY StreamsStep DEF Inv, OthersRight
<1>2. ASSUME NEW d \in DOMAIN streams', streams'[d].alive
      PROVE  streams'[d].peer # 0
  <2>1. CASE d \in DOMAIN streams
    BY <1>2, <2>1, UnackedKept, StreamsStep DEF Inv, OthersRight
  <2>2. CASE d \notin DOMAIN streams
    <3>1. CASE DeviceAccepts
      <4>1. PICK l \in DOMAIN channels :
               /\ l \in Nat /\ streams' = Append(streams, Stream(l, RoleOf(l)))
               /\ Stream(l, RoleOf(l)) \in DevStream
        BY <3>1, AcceptedStep
      <4>2. l # 0 /\ RoleOf(l) \in DevRoles
        BY RoleOfType, LenProperties DEF Inv, Shape
      <4>3. streams'[d] = Stream(l, RoleOf(l))
        BY <2>2, <4>1, PutProperties, LenProperties DEF Inv, Shape
      <4>4. Stream(l, RoleOf(l)).peer = l
        BY <4>1, <4>2, StreamType
      <4> QED
        BY <4>2, <4>3, <4>4
    <3>2. DeviceAccepts \/ UNCHANGED DOMAIN streams
      BY DEF Next, Reader, ReaderReceives, ReaderReplies, ReaderOkay, ReaderAcks,
         ReaderRelays, ReaderStops, Sender, SenderTakes, SenderSendsHeader,
         SenderSendsPayload, Main, MainWaits, MainReadsMetadata,
         MainReadsAudioMetadata, ControlWritten, MainKills, ConsumerReads,
         ConsumerEnds, Break, Device, DeviceAsks, DeviceConfused, DeviceRefuses,
         DeviceReceives, DeviceWrites, DeviceCloses, vars, device
    <3> QED
      BY <1>2, <2>2, <3>1, <3>2
  <2> QED
    BY <2>1, <2>2
<1> QED
  BY <1>1, <1>2 DEF OthersRight

(* A connection that broke stays broken, and nothing is on its wire. *)
LEMMA LinkStep ==
    ASSUME Inv, [Next]_vars
    PROVE  /\ link' = link \/ (link = "up" /\ link' = "broken" /\ wire' = << >>)
           /\ link' \in {"up", "broken"}
           /\ link' = "broken" => wire' = << >>
<1>1. link \in {"up", "broken"} /\ (link = "broken" => wire = << >>)
  BY DEF Inv, Shape, TypeOK
<1>2. CASE Break \/ DeviceConfused
  <2>1. link' = "broken" /\ wire' = << >>
    BY <1>2 DEF Break, DeviceConfused
  <2> QED
    BY <1>1, <2>1
<1>3. CASE link' = link
  <2>1. ASSUME link = "broken" PROVE wire' = << >>
    <3>1. wire = << >>
      BY <1>1, <2>1
    <3>2. ~(\E m \in Message : Receive(m))
      BY <3>1 DEF Receive, Whole
    <3> QED
      BY <2>1, <3>1, <3>2, WireStep
  <2>2. CASE link = "broken"
    BY <1>3, <2>1, <2>2
  <2>3. CASE link = "up"
    <3>1. link' = "up" /\ link' # "broken"
      BY <1>3, <2>3
    <3> QED
      BY <1>3, <3>1
  <2> QED
    BY <1>1, <2>2, <2>3
<1>4. Break \/ DeviceConfused \/ link' = link
  BY DEF Next, Reader, ReaderReplies, ReaderReceives, ReaderOkay, ReaderAcks,
         ReaderRelays, ReaderStops, Sender, SenderTakes, SenderSendsHeader,
         SenderSendsPayload, Main, MainReadsAudioMetadata, MainWaits,
         MainReadsMetadata, ControlWritten, MainKills, ConsumerReads, ConsumerEnds,
         Device, DeviceAsks, DeviceAccepts, DeviceRefuses, DeviceReceives,
         DeviceWrites, DeviceCloses, vars, net
<1> QED
  BY <1>2, <1>3, <1>4

(* What scrcpy-server has read, it has read from one of its streams. *)
LEMMA ObeyedStep ==
    ASSUME Inv, [Next]_vars
    PROVE  \/ obeyed' = obeyed
           \/ \E m : /\ Receive(m) /\ m.cmd = "WRTE" /\ m.arg1 \in DOMAIN streams
                     /\ <<streams[m.arg1].role, wire[1].frame.data>> \in DevRoles \X Nat
                     /\ obeyed' = Append(obeyed, <<streams[m.arg1].role, wire[1].frame.data>>)
<1>1. CASE DeviceReceives
  <2>1. PICK m : /\ Receive(m)
                 /\ \/ obeyed' = obeyed
                    \/ /\ m.cmd = "WRTE" /\ m.arg1 \in DOMAIN streams
                       /\ obeyed' = Append(obeyed, <<streams[m.arg1].role, Head(wire).frame.data>>)
    BY <1>1 DEF DeviceReceives, Known, device
  <2>2. wire[1] = Head(wire) /\ wire[1].frame \in FrameSet
    BY <2>1, ReceivedProperties DEF Inv, Shape
  <2>3. wire[1].frame.data \in Nat
    BY <2>2 DEF FrameSet
  <2> QED
    BY <2>1, <2>2, <2>3, StreamEntry
<1>2. DeviceReceives \/ obeyed' = obeyed
  BY DEF Next, Reader, ReaderReplies, ReaderReceives, ReaderOkay, ReaderAcks,
         ReaderRelays, ReaderStops, Sender, SenderTakes, SenderSendsHeader,
         SenderSendsPayload, Main, MainReadsAudioMetadata, MainWaits,
         MainReadsMetadata, ControlWritten, MainKills, ConsumerReads, ConsumerEnds,
         Break, Device, DeviceAsks, DeviceConfused, DeviceAccepts, DeviceRefuses,
         DeviceWrites, DeviceCloses, vars, device
<1> QED
  BY <1>1, <1>2

----------------------------------------------------------------------------
(* Every reachable state *)

(* A run of OPENs, whole and in order: those of the channels lo .. hi. *)
OpensOnly(q, lo, hi) ==
    /\ q \in Seq(Piece) /\ q # << >>
    /\ \A i \in DOMAIN q : \E l \in lo .. hi :
          q[i] = Head1(OpenFrame(l)) \/ q[i] = Body1(OpenFrame(l))
    /\ \A i \in DOMAIN q : q[i].part = "header" =>
          i < Len(q) /\ q[i + 1] = Body1(q[i].frame)
    /\ \A i \in DOMAIN q : q[i].part = "payload" =>
          i > 1 /\ q[i - 1] = Head1(q[i].frame)
    /\ \A i, j \in DOMAIN q : (i < j /\ q[i].part = "header" /\ q[j].part = "header") =>
          q[i].frame.msg.arg0 < q[j].frame.msg.arg0
    /\ \A l \in lo .. hi : \E i \in DOMAIN q : q[i] = Head1(OpenFrame(l))

LEMMA OneOpen ==
    ASSUME NEW l \in Nat
    PROVE  OpensOnly(Pieces(OpenFrame(l)), l, l)
<1> DEFINE a == Head1(OpenFrame(l))
           b == Body1(OpenFrame(l))
           q == << a, b >>
<1>1. Pieces(OpenFrame(l)) = q
  BY OpenFrameType
<1>2. /\ a \in Piece /\ a.part = "header" /\ a.frame = OpenFrame(l)
      /\ b \in Piece /\ b.part = "payload" /\ b.frame = OpenFrame(l)
  BY OpenFrameType, PieceProperties
<1>3. a = Head1(b.frame) /\ b = Body1(a.frame)
  BY <1>2
<1>4. a = Head1(OpenFrame(l)) /\ b = Body1(OpenFrame(l)) /\ l \in l .. l
      /\ \A x \in l .. l : x = l
  OBVIOUS
<1> HIDE DEF a, b
<1>5. q \in Seq(Piece) /\ Len(q) = 2 /\ DOMAIN q = {1, 2} /\ q[1] = a /\ q[2] = b
      /\ q # << >>
  BY <1>2
<1> HIDE DEF q
<1> QED
  BY <1>1, <1>2, <1>3, <1>4, <1>5 DEF OpensOnly

LEMMA OpensJoined ==
    ASSUME NEW lo \in Nat, NEW mid \in Nat, NEW up \in Nat, NEW hi \in Nat,
           lo <= mid, up = mid + 1, up <= hi,
           NEW q, NEW r, OpensOnly(q, lo, mid), OpensOnly(r, up, hi)
    PROVE  OpensOnly(q \o r, lo, hi)
<1> DEFINE s == q \o r
<1>1. /\ q \in Seq(Piece) /\ r \in Seq(Piece) /\ q # << >>
  BY DEF OpensOnly
<1>2. /\ s \in Seq(Piece) /\ Len(s) = Len(q) + Len(r)
      /\ \A i \in 1 .. Len(q) + Len(r) :
            s[i] = IF i <= Len(q) THEN q[i] ELSE r[i - Len(q)]
  BY <1>1, ConcatProperties
<1>3. /\ Len(q) \in Nat \ {0} /\ Len(r) \in Nat /\ DOMAIN q = 1 .. Len(q)
      /\ DOMAIN r = 1 .. Len(r) /\ DOMAIN s = 1 .. Len(q) + Len(r)
  BY <1>1, <1>2, LenProperties, EmptySeq
<1> HIDE DEF s
<1>4. \A i \in DOMAIN s : \/ i \in DOMAIN q /\ s[i] = q[i]
                          \/ i - Len(q) \in DOMAIN r /\ s[i] = r[i - Len(q)] /\ i > Len(q)
  BY <1>2, <1>3
<1>5. /\ \A i \in DOMAIN q : i \in DOMAIN s /\ s[i] = q[i]
      /\ \A i \in DOMAIN r : i + Len(q) \in DOMAIN s /\ s[i + Len(q)] = r[i]
  BY <1>2, <1>3
<1>6. s # << >>
  BY <1>3, EmptySeq
<1>7. ASSUME NEW i \in DOMAIN s
      PROVE  \E l \in lo .. hi : s[i] = Head1(OpenFrame(l)) \/ s[i] = Body1(OpenFrame(l))
  <2>1. lo .. mid \subseteq lo .. hi /\ up .. hi \subseteq lo .. hi
    OBVIOUS
  <2>2. CASE i \in DOMAIN q /\ s[i] = q[i]
    <3>1. \E l \in lo .. mid : q[i] = Head1(OpenFrame(l)) \/ q[i] = Body1(OpenFrame(l))
      BY <2>2 DEF OpensOnly
    <3> QED
      BY <2>1, <2>2, <3>1
  <2>3. CASE i - Len(q) \in DOMAIN r /\ s[i] = r[i - Len(q)]
    <3> DEFINE k == i - Len(q)
    <3>1. k \in DOMAIN r /\ s[i] = r[k]
      BY <2>3
    <3> HIDE DEF k
    <3>2. \E l \in up .. hi : r[k] = Head1(OpenFrame(l)) \/ r[k] = Body1(OpenFrame(l))
      BY <3>1 DEF OpensOnly
    <3> QED
      BY <2>1, <3>1, <3>2
  <2> QED
    BY <1>4, <2>2, <2>3
<1>8. ASSUME NEW i \in DOMAIN s, s[i].part = "header"
      PROVE  i < Len(s) /\ s[i + 1] = Body1(s[i].frame)
  <2>1. CASE i \in DOMAIN q /\ s[i] = q[i]
    <3>1. i < Len(q) /\ q[i + 1] = Body1(q[i].frame)
      BY <1>8, <2>1 DEF OpensOnly
    <3>2. i + 1 \in DOMAIN q
      BY <1>3, <2>1, <3>1
    <3> QED
      BY <1>2, <1>3, <1>5, <2>1, <3>1, <3>2
  <2>2. CASE i - Len(q) \in DOMAIN r /\ s[i] = r[i - Len(q)]
    <3> DEFINE k == i - Len(q)
    <3>1. k < Len(r) /\ r[k + 1] = Body1(r[k].frame)
      BY <1>8, <2>2 DEF OpensOnly
    <3>4. k \in DOMAIN r /\ i = k + Len(q)
      BY <1>3, <2>2
    <3> HIDE DEF k
    <3>2. k + 1 \in DOMAIN r /\ (k + 1) + Len(q) = i + 1
      BY <1>3, <3>1, <3>4
    <3>3. s[i + 1] = r[k + 1]
      BY <1>5, <3>2
    <3>5. s[i] = r[k]
      BY <2>2 DEF k
    <3> QED
      BY <1>2, <1>3, <3>1, <3>3, <3>4, <3>5
  <2> QED
    BY <1>4, <2>1, <2>2
<1>9. ASSUME NEW i \in DOMAIN s, s[i].part = "payload"
      PROVE  i > 1 /\ s[i - 1] = Head1(s[i].frame)
  <2>1. CASE i \in DOMAIN q /\ s[i] = q[i]
    <3>1. i > 1 /\ q[i - 1] = Head1(q[i].frame)
      BY <1>9, <2>1 DEF OpensOnly
    <3>2. i - 1 \in DOMAIN q
      BY <1>3, <2>1, <3>1
    <3> QED
      BY <1>5, <2>1, <3>1, <3>2
  <2>2. CASE i - Len(q) \in DOMAIN r /\ s[i] = r[i - Len(q)]
    <3> DEFINE k == i - Len(q)
    <3>1. k > 1 /\ r[k - 1] = Head1(r[k].frame)
      BY <1>9, <2>2 DEF OpensOnly
    <3>4. k \in DOMAIN r /\ i = k + Len(q)
      BY <1>3, <2>2
    <3>5. s[i] = r[k]
      BY <2>2
    <3> HIDE DEF k
    <3>6. k \in Nat /\ k <= Len(r) /\ k > 1 /\ Len(q) \in Nat /\ Len(r) \in Nat
      BY <1>3, <3>1, <3>4
    <3>7. k - 1 \in 1 .. Len(r) /\ (k - 1) + Len(q) = (k + Len(q)) - 1 /\ k + Len(q) > 1
      BY <3>6
    <3>2. k - 1 \in DOMAIN r /\ (k - 1) + Len(q) = i - 1 /\ i > 1
      BY <1>3, <3>4, <3>7
    <3>3. s[i - 1] = r[k - 1]
      BY <1>5, <3>2
    <3> QED
      BY <3>1, <3>2, <3>3, <3>5
  <2> QED
    BY <1>4, <2>1, <2>2
<1>10. /\ \A i \in DOMAIN q : q[i].frame.msg.arg0 \in lo .. mid
       /\ \A i \in DOMAIN r : r[i].frame.msg.arg0 \in up .. hi
  <2>1. \A l \in Nat : /\ Head1(OpenFrame(l)).frame.msg.arg0 = l
                       /\ Body1(OpenFrame(l)).frame.msg.arg0 = l
    BY OpenFrameType, PieceProperties
  <2>3. lo .. mid \subseteq Nat /\ up .. hi \subseteq Nat
    OBVIOUS
  <2>4. ASSUME NEW i \in DOMAIN q PROVE q[i].frame.msg.arg0 \in lo .. mid
    <3>1. \E l \in lo .. mid : q[i] = Head1(OpenFrame(l)) \/ q[i] = Body1(OpenFrame(l))
      BY DEF OpensOnly
    <3> QED
      BY <2>1, <2>3, <3>1
  <2>5. ASSUME NEW i \in DOMAIN r PROVE r[i].frame.msg.arg0 \in up .. hi
    <3>1. \E l \in up .. hi : r[i] = Head1(OpenFrame(l)) \/ r[i] = Body1(OpenFrame(l))
      BY DEF OpensOnly
    <3> QED
      BY <2>1, <2>3, <3>1
  <2> QED
    BY <2>4, <2>5
<1>11. ASSUME NEW i \in DOMAIN s, NEW j \in DOMAIN s, i < j,
              s[i].part = "header", s[j].part = "header"
       PROVE  s[i].frame.msg.arg0 < s[j].frame.msg.arg0
  <2>1. CASE i \in DOMAIN q /\ s[i] = q[i] /\ j \in DOMAIN q /\ s[j] = q[j]
    BY <1>11, <2>1 DEF OpensOnly
  <2>2. CASE /\ i - Len(q) \in DOMAIN r /\ s[i] = r[i - Len(q)]
             /\ j - Len(q) \in DOMAIN r /\ s[j] = r[j - Len(q)]
    <3>1. i - Len(q) < j - Len(q)
      BY <1>3, <1>11
    <3> QED
      BY <1>11, <2>2, <3>1 DEF OpensOnly
  <2>3. CASE i \in DOMAIN q /\ s[i] = q[i] /\ j - Len(q) \in DOMAIN r /\ s[j] = r[j - Len(q)]
    <3>1. s[i].frame.msg.arg0 \in lo .. mid /\ s[j].frame.msg.arg0 \in up .. hi
      BY <1>10, <2>3
    <3> QED
      BY <3>1
  <2>4. CASE /\ i - Len(q) \in DOMAIN r /\ i > Len(q) /\ j \in DOMAIN q
    BY <1>3, <1>11, <2>4
  <2> QED
    BY <1>4, <2>1, <2>2, <2>3, <2>4
<1>12. ASSUME NEW l \in lo .. hi
       PROVE  \E i \in DOMAIN s : s[i] = Head1(OpenFrame(l))
  <2>1. l \in lo .. mid \/ l \in up .. hi
    OBVIOUS
  <2>2. CASE l \in lo .. mid
    <3>1. PICK i \in DOMAIN q : q[i] = Head1(OpenFrame(l))
      BY <2>2 DEF OpensOnly
    <3> QED
      BY <1>5, <3>1
  <2>3. CASE l \in up .. hi
    <3>1. PICK i \in DOMAIN r : r[i] = Head1(OpenFrame(l))
      BY <2>3 DEF OpensOnly
    <3> QED
      BY <1>5, <3>1
  <2> QED
    BY <2>1, <2>2, <2>3
<1>13. OpensOnly(s, lo, hi)
  BY <1>2, <1>6, <1>7, <1>8, <1>9, <1>11, <1>12 DEF OpensOnly
<1> QED
  BY <1>13 DEF s

(* The two states the threads may start in: the OPEN of the shell is not   *)
(* answered yet, or it is.                                                 *)
LEMMA InitCases ==
    ASSUME Init
    PROVE  /\ streams \in Seq(DevStream) /\ channels \in Seq(Channel) /\ Len(channels) = 4
           /\ DOMAIN channels = 1 .. 4 /\ DOMAIN streams = 1 .. Len(streams)
           /\ \A l \in 2 .. 4 : channels[l] = Opening(l)
           /\ \/ /\ OpensOnly(wire, 1, 4) /\ channels[1] = Opening(1)
                 /\ Len(streams) = OtherStreams
                 /\ \A d \in DOMAIN streams : streams[d] = Other
              \/ /\ OpensOnly(wire, 2, 4) /\ Len(streams) = OtherStreams + 1
                 /\ channels[1] = Opened(Opening(1), OtherStreams + 1)
                 /\ streams[OtherStreams + 1] = Stream(1, "shell")
                 /\ \A d \in 1 .. OtherStreams : streams[d] = Other
<1> DEFINE others == [d \in 1 .. OtherStreams |-> Other]
           opens == Pieces(OpenFrame(2)) \o Pieces(OpenFrame(3)) \o Pieces(OpenFrame(4))
<1>1. OtherStreams \in Nat
  BY BoundsAssumption DEF BoundsAssumption
<1>2. /\ others \in Seq(DevStream) /\ Len(others) = OtherStreams
      /\ DOMAIN others = 1 .. OtherStreams
      /\ \A d \in 1 .. OtherStreams : others[d] = Other
  <2>1. Other \in DevStream
    BY DEF Other, DevStream, DevRoles
  <2> QED
    BY <1>1, <2>1, SequenceOf
<1>3. OpensOnly(opens, 2, 4)
  <2>1. OpensOnly(Pieces(OpenFrame(2)) \o Pieces(OpenFrame(3)), 2, 3)
    BY OneOpen, OpensJoined
  <2> QED
    BY <2>1, OneOpen, OpensJoined
<1>4. OpensOnly(Pieces(OpenFrame(1)) \o opens, 1, 4)
  <2> HIDE DEF opens
  <2> QED
    BY <1>3, OneOpen, OpensJoined
<1>5. /\ Local["shell"] = 1 /\ Local["video"] = 2 /\ Local["audio"] = 3
      /\ Local["control"] = 4
  BY DEF Local
<1>6. \A l \in 1 .. 4 : /\ Opening(l) \in Channel
                        /\ Opened(Opening(l), OtherStreams + 1) \in Channel
  <2> SUFFICES ASSUME NEW l \in 1 .. 4, NEW n, n = OtherStreams + 1
               PROVE  Opening(l) \in Channel /\ Opened(Opening(l), n) \in Channel
    OBVIOUS
  <2>1. n \in Nat /\ l \in Nat
    BY <1>1
  <2>2. Opening(l) \in Channel
    BY <2>1 DEF Opening, Channel
  <2> QED
    BY <2>1, <2>2 DEF Opened, Channel
<1>7. \/ /\ channels = [l \in 1 .. 4 |-> Opening(l)] /\ streams = others
         /\ wire = Pieces(OpenFrame(1)) \o opens
      \/ /\ channels = [l \in 1 .. 4 |-> IF l = 1 THEN Opened(Opening(l), OtherStreams + 1)
                                                  ELSE Opening(l)]
         /\ streams = Append(others, Stream(1, "shell")) /\ wire = opens
  BY <1>5 DEF Init
<1> HIDE DEF others, opens
<1>8. CASE /\ channels = [l \in 1 .. 4 |-> Opening(l)] /\ streams = others
           /\ wire = Pieces(OpenFrame(1)) \o opens
  <2>1. channels \in [1 .. 4 -> Channel]
    BY <1>6, <1>8
  <2>2. channels \in Seq(Channel) /\ Len(channels) = 4
    BY <2>1, SequenceOf
  <2> QED
    BY <1>2, <1>4, <1>8, <2>2
<1>9. CASE /\ channels = [l \in 1 .. 4 |-> IF l = 1 THEN Opened(Opening(l), OtherStreams + 1)
                                                    ELSE Opening(l)]
           /\ streams = Append(others, Stream(1, "shell")) /\ wire = opens
  <2>1. channels \in [1 .. 4 -> Channel]
    BY <1>6, <1>9
  <2>2. channels \in Seq(Channel) /\ Len(channels) = 4
    BY <2>1, SequenceOf
  <2>3. Stream(1, "shell") \in DevStream
    BY StreamType DEF DevRoles, Roles
  <2>4. /\ streams \in Seq(DevStream) /\ Len(streams) = OtherStreams + 1
        /\ DOMAIN streams = 1 .. Len(streams)
        /\ streams[OtherStreams + 1] = Stream(1, "shell")
        /\ \A d \in 1 .. OtherStreams : streams[d] = Other
    BY <1>2, <1>9, <2>3, PutProperties
  <2>5. /\ channels[1] = Opened(Opening(1), OtherStreams + 1)
        /\ \A l \in 2 .. 4 : channels[l] = Opening(l)
    BY <1>9
  <2>6. DOMAIN channels = 1 .. 4
    BY <1>9
  <2> QED
    BY <1>3, <1>9, <2>2, <2>4, <2>5, <2>6
<1> QED
  BY <1>7, <1>8, <1>9

LEMMA InitOther ==
    ASSUME Init, NEW d \in DOMAIN streams
    PROVE  streams[d] = Other \/ streams[d] = Stream(1, "shell")
<1>1. OtherStreams \in Nat
  BY BoundsAssumption DEF BoundsAssumption
<1>2. \/ \A e \in DOMAIN streams : streams[e] = Other
      \/ /\ DOMAIN streams = 1 .. OtherStreams + 1
         /\ streams[OtherStreams + 1] = Stream(1, "shell")
         /\ \A e \in 1 .. OtherStreams : streams[e] = Other
  BY InitCases
<1>3. CASE /\ DOMAIN streams = 1 .. OtherStreams + 1
           /\ streams[OtherStreams + 1] = Stream(1, "shell")
           /\ \A e \in 1 .. OtherStreams : streams[e] = Other
  <2>1. d \in 1 .. OtherStreams \/ d = OtherStreams + 1
    BY <1>1, <1>3
  <2> QED
    BY <1>3, <2>1
<1> QED
  BY <1>2, <1>3

LEMMA OpensAreOpens ==
    ASSUME NEW q, NEW lo \in Nat, NEW hi \in Nat, OpensOnly(q, lo, hi),
           NEW i \in DOMAIN q
    PROVE  /\ q[i].frame.msg.cmd = "OPEN" /\ q[i].frame.msg.arg0 \in lo .. hi
           /\ q[i].frame = OpenFrame(q[i].frame.msg.arg0)
           /\ q[i].frame.msg.arg1 = 0
<1>1. PICK l \in lo .. hi : q[i] = Head1(OpenFrame(l)) \/ q[i] = Body1(OpenFrame(l))
  BY DEF OpensOnly
<1>2. l \in Nat
  OBVIOUS
<1> QED
  BY <1>1, <1>2, OpenFrameType, PieceProperties

LEMMA InitInv == Init => Inv
<1> SUFFICES ASSUME Init PROVE Inv
  OBVIOUS
<1>1. Nothing \in FrameSet
  BY DEF Nothing, Frame, Msg, FrameSet, Message
<1>2. left \in [Roles \cup {"written", "faults"} -> Nat]
  BY BoundsAssumption DEF Init, BoundsAssumption
<1>3. wire \in Seq(Piece) /\ \A i \in DOMAIN wire : wire[i].frame.msg.cmd = "OPEN"
  <2>1. PICK lo \in {1, 2} : OpensOnly(wire, lo, 4)
    BY InitCases
  <2>2. wire \in Seq(Piece)
    BY <2>1 DEF OpensOnly
  <2>3. lo \in Nat /\ 4 \in Nat
    BY <2>1
  <2> QED
    BY <2>1, <2>2, <2>3, OpensAreOpens
<1>4. Shape
  <2>1. channels \in Seq(Channel) /\ Len(channels) >= 4 /\ streams \in Seq(DevStream)
    <3>1. channels \in Seq(Channel) /\ streams \in Seq(DevStream)
      BY InitCases
    <3>2. Len(channels) = 4
      BY InitCases
    <3> QED
      BY <3>1, <3>2
  <2>2. /\ reader \in [pc : Places, frame : FrameSet]
        /\ sender \in [pc : {"recv", "send", "payload"}, frame : FrameSet]
    BY <1>1 DEF Init, Places
  <2>3. /\ pairs \in [Kinds -> Seq(Nat \X Nat)] /\ taken \in [Kinds -> Seq(Nat \X Nat)]
        /\ ctlPair \in Seq(Nat) /\ written \in Nat /\ link # "broken"
        /\ down \in Seq(FrameSet) /\ obeyed \in Seq(DevRoles \X Nat)
    BY EmptySeq DEF Init
  <2> QED
    BY <1>2, <1>3, <2>1, <2>2, <2>3 DEF Shape
<1>5. OtherStreams \in Nat /\ PairCapacity \in Nat
  BY BoundsAssumption DEF BoundsAssumption
<1>6. ASSUME NEW l \in DOMAIN channels
      PROVE  /\ channels[l].local = l /\ channels[l].remote \in 0 .. Len(streams)
             /\ channels[l].state \in {"OPENING", "OPEN", "CLOSED"}
             /\ l # 1 => channels[l].remote = 0 /\ channels[l].state = "OPENING"
             /\ channels[l].remote # 0 \/ channels[l].state = "OPEN" =>
                   channels[l].remote \in DOMAIN streams
                   /\ streams[channels[l].remote].peer = l
  <2>1. Len(streams) \in Nat /\ Len(streams) >= 0 /\ l \in 1 .. 4
    BY InitCases, LenProperties
  <2>2. CASE channels[l] = Opening(l)
    BY <2>1, <2>2 DEF Opening
  <2>3. CASE /\ l = 1 /\ Len(streams) = OtherStreams + 1
             /\ channels[1] = Opened(Opening(1), OtherStreams + 1)
             /\ streams[OtherStreams + 1] = Stream(1, "shell")
    <3>1. /\ channels[l].local = l /\ channels[l].remote = OtherStreams + 1
          /\ channels[l].state = "OPEN"
      BY <2>3 DEF Opened, Opening
    <3>2. OtherStreams + 1 \in DOMAIN streams /\ streams[OtherStreams + 1].peer = 1
      BY <1>5, <2>3, InitCases DEF Stream, Other
    <3> QED
      BY <1>5, <2>1, <2>3, <3>1, <3>2
  <2> QED
    BY <2>1, <2>2, <2>3, InitCases
<1>7. TypeOK
  <2>1. \A k \in Kinds : Len(pairs[k]) = 0
    BY EmptySeq DEF Init
  <2>2. left.written \in Nat /\ left.faults \in Nat
    BY <1>2
  <2>3. /\ reader.pc = "recv" /\ sender.pc = "recv" /\ main = "video"
        /\ state = "connected" /\ unlocked = FALSE /\ ended = {}
        /\ link = "up" /\ written = 0
    BY DEF Init
  <2>4. written \in 0 .. left.written
    BY <2>2, <2>3
  <2>5. \A k \in Kinds : Len(pairs[k]) <= PairCapacity
    BY <1>5, <2>1
  <2>6. \A l \in DOMAIN channels :
          /\ channels[l].local = l
          /\ channels[l].remote \in 0 .. Len(streams)
          /\ channels[l].state \in {"OPENING", "OPEN", "CLOSED"}
    BY <1>6
  <2> QED
    BY <2>2, <2>3, <2>4, <2>5, <2>6 DEF TypeOK
<1>8. NamedRight
  BY DEF Init, NamedRight, Handling
<1>9. ChannelsRight
  BY <1>6 DEF ChannelsRight
<1>10. SenderRight
  BY DEF Init, SenderRight
<1>11. AddressedRight
  BY <1>3 DEF AddressedRight
<1>12. OthersRight
  <2>1. ASSUME NEW d \in 1 .. OtherStreams
        PROVE  d \in DOMAIN streams /\ streams[d].peer = 0
    <3>1. DOMAIN streams = 1 .. Len(streams)
          /\ (Len(streams) = OtherStreams \/ Len(streams) = OtherStreams + 1)
      BY InitCases
    <3>2. d \in DOMAIN streams
      <4>1. ASSUME NEW n, n = OtherStreams \/ n = OtherStreams + 1 PROVE d \in 1 .. n
        BY <1>5, <4>1
      <4> QED
        BY <3>1, <4>1
    <3>3. streams[d] = Other
      BY <3>2, InitCases
    <3> QED
      BY <3>2, <3>3 DEF Other
  <2>2. ASSUME NEW d \in DOMAIN streams, streams[d].alive PROVE streams[d].peer # 0
    <3>1. streams[d] = Other \/ streams[d] = Stream(1, "shell")
      BY InitOther
    <3>2. Other.alive = FALSE
      BY DEF Other
    <3>3. Stream(1, "shell").peer = 1
      BY DEF Stream, Other
    <3> QED
      BY <2>2, <3>1, <3>2, <3>3
  <2> QED
    BY <2>1, <2>2 DEF OthersRight
<1>13. HeaderUnlocked
  BY DEF Init, HeaderUnlocked
<1> QED
  BY <1>4, <1>7, <1>8, <1>9, <1>10, <1>11, <1>12, <1>13 DEF Inv

LEMMA NextInv == Inv /\ [Next]_vars => Inv'
<1> SUFFICES ASSUME Inv, [Next]_vars PROVE Inv'
  OBVIOUS
<1>1. /\ channels' \in Seq(Channel) /\ Len(channels') >= 4
      /\ \A l \in DOMAIN channels' :
            /\ channels'[l].local = l /\ channels'[l].remote \in 0 .. Len(streams')
            /\ channels'[l].state \in {"OPENING", "OPEN", "CLOSED"}
            /\ (l \notin {2, 3} /\ channels'[l].remote # 0) =>
                   streams'[channels'[l].remote].peer = l
            /\ channels'[l].state = "OPEN" =>
                   \E d \in DOMAIN streams' : streams'[d].peer = l
      /\ channels[4].remote # 0 => channels'[4].remote # 0
  <2>0. /\ channels \in Seq(Channel) /\ Len(channels) \in Nat /\ Len(channels) >= 4
        /\ DOMAIN channels = 1 .. Len(channels)
    BY LenProperties DEF Inv, Shape
  <2>1. ASSUME Kept(channels'), NEW l \in DOMAIN channels
        PROVE  /\ channels'[l].local = l /\ channels'[l].remote \in 0 .. Len(streams')
               /\ channels'[l].state \in {"OPENING", "OPEN", "CLOSED"}
               /\ (l \notin {2, 3} /\ channels'[l].remote # 0) =>
                      streams'[channels'[l].remote].peer = l
               /\ channels'[l].state = "OPEN" =>
                      \E d \in DOMAIN streams' : streams'[d].peer = l
               /\ channels[l].remote # 0 => channels'[l].remote # 0
    <3> DEFINE c == channels[l]
               d == channels'[l]
    <3>1. c \in Channel /\ c.local = l /\ d \in Channel /\ Follows(c, d)
      BY <2>1, EntryProperties DEF Kept, Follows
    <3>2. /\ c.remote \in 0 .. Len(streams)
          /\ (l \notin {2, 3} /\ c.remote # 0) => streams[c.remote].peer = l
          /\ c.state = "OPEN" => \E e \in DOMAIN streams : streams[e].peer = l
      BY DEF Inv, TypeOK, ChannelsRight
    <3>3. d.state \in {"OPENING", "OPEN", "CLOSED"}
      BY <3>1 DEF Channel
    <3> HIDE DEF c, d
    <3>4. /\ d.remote \in 0 .. Len(streams) /\ d.local = l
          /\ c.remote # 0 => d.remote # 0
      BY <3>1, <3>2, StreamsStep DEF Follows
    <3>5. (l \notin {2, 3} /\ d.remote # 0) =>
              d.remote \in DOMAIN streams /\ streams[d.remote].peer = l
      BY <3>1, <3>2, <3>4, StreamsStep DEF Follows
    <3>6. d.state = "OPEN" => \E e \in DOMAIN streams : streams[e].peer = l
      BY <3>1, <3>2 DEF Follows
    <3>7. d.remote \in 0 .. Len(streams')
      BY <3>4, StreamsStep
    <3>8. (l \notin {2, 3} /\ d.remote # 0) => streams'[d.remote].peer = l
      BY <3>5, StreamsStep
    <3>9. d.state = "OPEN" => \E e \in DOMAIN streams' : streams'[e].peer = l
      BY <3>6, PeersKept
    <3> QED
      BY <3>3, <3>4, <3>7, <3>8, <3>9 DEF c, d
  <2>2. CASE Kept(channels')
    BY <2>0, <2>1, <2>2 DEF Kept
  <2>3. CASE channels' = Append(channels, Opening(Len(channels) + 1))
    <3> DEFINE n == Len(channels) + 1
    <3>1. /\ Opening(n) \in Channel /\ Opening(n).local = n
          /\ Opening(n).remote = 0 /\ Opening(n).state = "OPENING"
      BY <2>0 DEF Opening, Channel
    <3>2. /\ channels' \in Seq(Channel) /\ Len(channels') = n
          /\ DOMAIN channels' = 1 .. n /\ channels'[n] = Opening(n)
          /\ \A i \in 1 .. Len(channels) : channels'[i] = channels[i]
      BY <2>0, <2>3, <3>1, PutProperties
    <3>3. \A i \in 1 .. n : i \in DOMAIN channels \/ i = n
      BY <2>0
    <3>4. n >= 4 /\ 4 \in DOMAIN channels
      BY <2>0
    <3> HIDE DEF n
    <3>5. ASSUME NEW l \in DOMAIN channels
          PROVE  /\ channels[l].local = l /\ channels[l].remote \in 0 .. Len(streams')
                 /\ channels[l].state \in {"OPENING", "OPEN", "CLOSED"}
                 /\ (l \notin {2, 3} /\ channels[l].remote # 0) =>
                        streams'[channels[l].remote].peer = l
                 /\ channels[l].state = "OPEN" =>
                        \E d \in DOMAIN streams' : streams'[d].peer = l
      <4> DEFINE c == channels[l]
      <4>1. /\ c.local = l /\ c.remote \in 0 .. Len(streams)
            /\ c.state \in {"OPENING", "OPEN", "CLOSED"}
            /\ (l \notin {2, 3} /\ c.remote # 0) => streams[c.remote].peer = l
            /\ c.state = "OPEN" => \E e \in DOMAIN streams : streams[e].peer = l
        BY DEF Inv, TypeOK, ChannelsRight
      <4> HIDE DEF c
      <4>2. c.remote \in 0 .. Len(streams') /\ (c.remote # 0 => c.remote \in DOMAIN streams)
        BY <4>1, StreamsStep
      <4>3. (l \notin {2, 3} /\ c.remote # 0) => streams'[c.remote].peer = l
        BY <4>1, <4>2, StreamsStep
      <4>4. c.state = "OPEN" => \E e \in DOMAIN streams' : streams'[e].peer = l
        BY <4>1, PeersKept
      <4> QED
        BY <4>1, <4>2, <4>3, <4>4 DEF c
    <3> QED
      BY <2>0, <3>1, <3>2, <3>3, <3>4, <3>5, StreamsStep
  <2> QED
    BY <2>2, <2>3, TableStep
<1>2. obeyed' \in Seq(DevRoles \X Nat)
  <2>1. obeyed \in Seq(DevRoles \X Nat)
    BY DEF Inv, Shape
  <2>2. obeyed' = obeyed \/ \E x \in DevRoles \X Nat : obeyed' = Append(obeyed, x)
    BY ObeyedStep
  <2>3. CASE \E x \in DevRoles \X Nat : obeyed' = Append(obeyed, x)
    <3>1. PICK x \in DevRoles \X Nat : obeyed' = Append(obeyed, x)
      BY <2>3
    <3> QED
      BY <2>1, <3>1, AppendProperties
  <2> QED
    BY <2>1, <2>2, <2>3
<1>3. Shape'
  BY <1>1, <1>2, ReaderStep, SenderStep, PairsStep, ControlStep, WireRight, LinkStep,
     DownRight, StreamsStep DEF Shape
<1>4. TypeOK'
  <2>1. reader'.pc \in Places /\ sender'.pc \in {"recv", "send", "payload"}
    BY <1>3 DEF Shape
  <2> QED
    BY <1>1, <2>1, PairsStep, ControlStep, LinkStep, SessionStep
    DEF TypeOK, Handling, Places, Answering
<1>5. NamedRight'
  <2>1. \A m : ReplyRight(m) => ReplyRight(m)'
    BY NamesKept DEF ReplyRight, ToStream
  <2>2. reader'.pc \in {"reply", "replyBody"} => ReplyRight(reader.frame.msg)'
    BY <2>1, ReaderStep
  <2> QED
    BY <2>2, DownRight, ReaderStep, NamesKept DEF NamedRight, FromStream
<1>6. ChannelsRight'
  BY <1>1 DEF ChannelsRight
<1>7. SenderRight'
  <2>1. CASE sender' = sender
    BY <1>1, <2>1, NamesKept DEF SenderRight, Inv, ToStream
  <2>2. CASE SenderTakes /\ sender'.pc = "send" /\ Chan("control").remote # 0
    BY <1>1, <2>2, ControlChannel DEF SenderRight
  <2>3. CASE SenderSendsHeader
    <3>1. PICK f \in FrameSet : /\ f.msg.cmd = "WRTE" /\ ToStream(f.msg)
                                /\ sender' = [pc |-> "payload", frame |-> f]
      BY <2>3, HeaderSent
    <3> QED
      BY <3>1, NamesKept DEF SenderRight, ToStream
  <2>4. CASE SenderSendsPayload /\ sender'.pc = "recv"
    BY <2>4 DEF SenderRight
  <2> QED
    BY <2>1, <2>2, <2>3, <2>4, SenderStep
<1>8. AddressedRight'
  BY WireRight, NamesKept DEF AddressedRight, ToStream, Unnamed
<1>9. OthersRight'
  BY OthersStep
<1>10. HeaderUnlocked'
  BY SessionStep DEF HeaderUnlocked
<1> QED
  BY <1>3, <1>4, <1>5, <1>6, <1>7, <1>8, <1>9, <1>10 DEF Inv

LEMMA Invariance == Spec => []Inv
  BY InitInv, NextInv, PTL DEF Spec

(* The channel table, the socketpairs and the places of the threads are in *)
(* range in every reachable state: no channel has a remote id adbd has not *)
(* given, and no socketpair holds more than it can.                        *)
THEOREM TypeCorrectness == Spec => []TypeOK
<1>1. Inv => TypeOK
  BY DEF Inv
<1> QED
  BY <1>1, Invariance, PTL

(* No control message and no acknowledgement names another stream than the *)
(* channel's, for any load, although the reader guesses identifiers and    *)
(* assigns them while the sender reads them.                               *)
THEOREM Addressing == Spec => []AddressedRight
<1>1. Inv => AddressedRight
  BY DEF Inv
<1> QED
  BY <1>1, Invariance, PTL

----------------------------------------------------------------------------
(* A WRTE is acknowledged once *)

(* How many things in the queue q are in P. *)
Hits(q, P)  == {i \in DOMAIN q : q[i] \in P}
Number(q, P) == Cardinality(Hits(q, P))

LEMMA NumberType ==
    ASSUME NEW S, NEW q \in Seq(S), NEW P
    PROVE  /\ IsFiniteSet(Hits(q, P)) /\ Number(q, P) \in Nat
           /\ Number(q, P) = 0 <=> \A i \in DOMAIN q : q[i] \notin P
<1>1. Hits(q, P) \subseteq 1 .. Len(q) /\ Len(q) \in Nat
  BY LenProperties DEF Hits
<1>2. IsFiniteSet(1 .. Len(q))
  BY <1>1, FS_Interval
<1>3. IsFiniteSet(Hits(q, P))
  BY <1>1, <1>2, FS_Subset
<1>4. Number(q, P) = 0 <=> Hits(q, P) = {}
  BY <1>3, FS_EmptySet DEF Number
<1> QED
  BY <1>3, <1>4, FS_CardinalityType DEF Number, Hits

LEMMA NumberAppend ==
    ASSUME NEW S, NEW q \in Seq(S), NEW x \in S, NEW P
    PROVE  Number(Append(q, x), P) = Number(q, P) + (IF x \in P THEN 1 ELSE 0)
<1>1. /\ DOMAIN Append(q, x) = 1 .. Len(q) + 1 /\ DOMAIN q = 1 .. Len(q)
      /\ Append(q, x)[Len(q) + 1] = x /\ Append(q, x) \in Seq(S)
      /\ \A i \in 1 .. Len(q) : Append(q, x)[i] = q[i]
      /\ Len(q) \in Nat
  BY PutProperties
<1>2. Hits(Append(q, x), P)
        = IF x \in P THEN Hits(q, P) \cup {Len(q) + 1} ELSE Hits(q, P)
  BY <1>1 DEF Hits
<1>3. Len(q) + 1 \notin Hits(q, P)
  BY <1>1 DEF Hits
<1>4. IsFiniteSet(Hits(q, P)) /\ Number(q, P) \in Nat
  BY NumberType
<1>5. Cardinality(Hits(q, P) \cup {Len(q) + 1}) = Cardinality(Hits(q, P)) + 1
  BY <1>3, <1>4, FS_AddElement
<1> QED
  BY <1>2, <1>4, <1>5 DEF Number

LEMMA NumberTail ==
    ASSUME NEW S, NEW q \in Seq(S), q # << >>, NEW P
    PROVE  Number(q, P) = Number(Tail(q), P) + (IF Head(q) \in P THEN 1 ELSE 0)
<1>1. /\ DOMAIN q = 1 .. Len(q) /\ DOMAIN Tail(q) = 1 .. Len(q) - 1
      /\ Head(q) = q[1] /\ Len(q) \in Nat \ {0} /\ Tail(q) \in Seq(S)
      /\ \A i \in 1 .. Len(q) - 1 : Tail(q)[i] = q[i + 1]
  BY TakeProperties
<1> DEFINE later == Hits(q, P) \ {1}
           f == [i \in Hits(Tail(q), P) |-> i + 1]
<1>2. f \in [Hits(Tail(q), P) -> later]
  BY <1>1 DEF Hits
<1>3. \A a, b \in Hits(Tail(q), P) : f[a] = f[b] => a = b
  BY <1>1 DEF Hits
<1>4. \A t \in later : \E i \in Hits(Tail(q), P) : f[i] = t
  <2> SUFFICES ASSUME NEW t \in later PROVE \E i \in Hits(Tail(q), P) : f[i] = t
    OBVIOUS
  <2>1. t \in 2 .. Len(q) /\ q[t] \in P
    BY <1>1 DEF Hits
  <2>2. t - 1 \in 1 .. Len(q) - 1 /\ Tail(q)[t - 1] = q[(t - 1) + 1] /\ (t - 1) + 1 = t
    BY <1>1, <2>1
  <2>3. t - 1 \in Hits(Tail(q), P)
    BY <1>1, <2>1, <2>2 DEF Hits
  <2> QED
    BY <2>2, <2>3
<1>5. f \in Bijection(Hits(Tail(q), P), later)
  BY <1>2, <1>3, <1>4 DEF Bijection, Injection, IsInjective, Surjection
<1>6. ExistsBijection(Hits(Tail(q), P), later)
  BY <1>5 DEF ExistsBijection
<1>7. /\ IsFiniteSet(Hits(Tail(q), P)) /\ IsFiniteSet(Hits(q, P))
      /\ Number(q, P) \in Nat /\ Number(Tail(q), P) \in Nat
  BY <1>1, NumberType
<1> HIDE DEF f, later
<1>8. Cardinality(later) = Cardinality(Hits(Tail(q), P))
  BY <1>6, <1>7, FS_Bijection
<1>9. Cardinality(later)
        = IF 1 \in Hits(q, P) THEN Cardinality(Hits(q, P)) - 1 ELSE Cardinality(Hits(q, P))
  BY <1>7, FS_RemoveElement DEF later
<1>10. 1 \in Hits(q, P) <=> Head(q) \in P
  BY <1>1 DEF Hits
<1> QED
  BY <1>7, <1>8, <1>9, <1>10 DEF Number

(* The messages AckedOnce counts of the stream d. *)
Wrtes(d)    == {f \in FrameSet : f.msg.cmd = "WRTE" /\ f.msg.arg0 = d}
Okays(p, d) == {x \in Piece : x.frame.msg = Msg("OKAY", p, d)}
InAck(d)    == IF reader.pc = "ack" /\ reader.frame.msg.arg0 = d THEN 1 ELSE 0

LEMMA NumberAs ==
    ASSUME NEW q \in Seq(FrameSet), NEW w \in Seq(Piece), NEW d, NEW p
    PROVE  /\ Number(q, Wrtes(d))
                = Cardinality({i \in DOMAIN q : q[i].msg.cmd = "WRTE" /\ q[i].msg.arg0 = d})
           /\ Number(w, Okays(p, d))
                = Cardinality({i \in DOMAIN w : w[i].frame.msg = Msg("OKAY", p, d)})
<1>1. Hits(q, Wrtes(d)) = {i \in DOMAIN q : q[i].msg.cmd = "WRTE" /\ q[i].msg.arg0 = d}
  BY DEF Hits, Wrtes
<1>2. Hits(w, Okays(p, d)) = {i \in DOMAIN w : w[i].frame.msg = Msg("OKAY", p, d)}
  BY DEF Hits, Okays
<1> QED
  BY <1>1, <1>2 DEF Number

(* What is added to the wire or taken off it is no OKAY for d, so their    *)
(* number is as before.                                                    *)
LEMMA OkaysKept ==
    ASSUME Inv, [Next]_vars, link' = "up", NEW d, NEW p, p # 0, ~ReaderAcks,
           DeviceReceives => Head(wire).frame.msg # Msg("OKAY", p, d)
    PROVE  Number(wire', Okays(p, d)) = Number(wire, Okays(p, d))
<1> DEFINE P == Okays(p, d)
<1> SUFFICES Number(wire', P) = Number(wire, P)
  OBVIOUS
<1>1. wire \in Seq(Piece) /\ Number(wire, P) \in Nat /\ link = "up" /\ wire' \in Seq(Piece)
      /\ Number(wire', P) \in Nat
  BY NumberType, WireRight, LinkStep DEF Inv, Shape
<1>2. ASSUME NEW x, x.frame.msg.cmd # "OKAY" \/ x.frame.msg.arg0 # p PROVE x \notin P
  BY <1>2 DEF Okays, Msg
<1> HIDE DEF P
<1>3. ASSUME NEW x \in Piece, wire' = Sent(<< x >>),
             x.frame.msg.cmd # "OKAY" \/ x.frame.msg.arg0 # p
      PROVE  Number(wire', P) = Number(wire, P)
  <2>1. wire' = Append(wire, x) /\ x \notin P
    BY <1>1, <1>2, <1>3, SentOne
  <2>2. Number(Append(wire, x), P) = Number(wire, P) + 0
    BY <1>1, <2>1, NumberAppend
  <2> QED
    BY <1>1, <2>1, <2>2
<1>8. CASE wire' = wire
  BY <1>8
<1>4. CASE SenderSendsHeader
  <2>1. PICK f \in FrameSet : f.msg.cmd = "WRTE" /\ wire' = Sent(<< Head1(f) >>)
    BY <1>4, HeaderSent
  <2>2. Head1(f) \in Piece /\ Head1(f).frame.msg.cmd # "OKAY"
    BY <2>1, PieceProperties
  <2> QED
    BY <1>3, <2>1, <2>2
<1>5. CASE SenderSendsPayload
  <2>1. sender.frame \in FrameSet /\ sender.frame.msg.cmd = "WRTE"
        /\ wire' = Sent(<< Body1(sender.frame) >>)
    BY <1>5 DEF SenderSendsPayload, Inv, SenderRight, Shape
  <2>2. Body1(sender.frame) \in Piece /\ Body1(sender.frame).frame.msg.cmd # "OKAY"
    BY <2>1, PieceProperties
  <2> QED
    BY <1>3, <2>1, <2>2
<1>6. CASE MainKills
  <2>1. CASE \E x \in Piece : wire' = Sent(<< x >>) /\ x.frame.msg.cmd = "OPEN"
    BY <1>3, <2>1
  <2> QED
    BY <1>6, <1>8, <2>1, KillSends DEF net
<1>12. CASE ReaderReplies
  <2>1. PICK x \in Piece : wire' = Sent(<< x >>) /\ ReplyRight(x.frame.msg)
    BY <1>12, ReplySends
  <2>2. x.frame.msg.cmd # "OKAY" \/ x.frame.msg.arg0 # p
    BY <2>1 DEF ReplyRight
  <2> QED
    BY <1>3, <2>1, <2>2
<1>7. ASSUME NEW m, Receive(m), m # Msg("OKAY", p, d)
      PROVE  Number(wire', P) = Number(wire, P)
  <2>2. /\ wire # << >> /\ Head(wire) = wire[1] /\ wire[1] \in Piece
        /\ m = wire[1].frame.msg /\ wire[1].frame \in FrameSet
        /\ m.cmd \in Bodied =>
              /\ Tail(wire) # << >> /\ Tail(wire)[1] = Body1(wire[1].frame)
              /\ wire' = Tail(Tail(wire))
        /\ m.cmd \notin Bodied => wire' = Tail(wire)
    BY <1>1, <1>7, ReceivedProperties
  <2>3. Head(wire) \notin P
    BY <1>7, <2>2 DEF P, Okays
  <2>4. Tail(wire) \in Seq(Piece) /\ Number(Tail(wire), P) \in Nat
    BY <1>1, <2>2, TakeProperties, NumberType
  <2>5. Number(wire, P) = Number(Tail(wire), P)
    <3>1. Number(wire, P) = Number(Tail(wire), P) + 0
      BY <1>1, <2>2, <2>3, NumberTail
    <3> QED
      BY <2>4, <3>1
  <2>6. CASE m.cmd \in Bodied
    <3>1. Head(Tail(wire)) = Tail(wire)[1]
      BY <2>2, <2>4, <2>6, TakeProperties
    <3>2. Body1(wire[1].frame).frame.msg.cmd # "OKAY"
      BY <2>2, <2>6, PieceProperties DEF Bodied
    <3>3. Head(Tail(wire)) \notin P
      BY <1>2, <2>2, <2>6, <3>1, <3>2
    <3>4. Number(Tail(wire), P) = Number(Tail(Tail(wire)), P) + 0
      BY <2>2, <2>4, <2>6, <3>3, NumberTail
    <3>5. wire' = Tail(Tail(wire))
      BY <2>2, <2>6
    <3> QED
      BY <1>1, <2>4, <2>5, <3>4, <3>5
  <2>7. CASE m.cmd \notin Bodied
    BY <2>2, <2>5, <2>7
  <2> QED
    BY <2>6, <2>7
<1>10. CASE DeviceAccepts \/ DeviceRefuses
  <2>1. PICK l : Receive(OpenMsg(l))
    BY <1>10 DEF DeviceAccepts, DeviceRefuses
  <2>2. OpenMsg(l) # Msg("OKAY", p, d)
    BY DEF OpenMsg, Msg
  <2> QED
    BY <1>7, <2>1, <2>2
<1>11. CASE DeviceReceives
  <2>1. PICK m : Receive(m)
    BY <1>11 DEF DeviceReceives
  <2>2. m # Msg("OKAY", p, d)
    BY <1>11, <2>1 DEF Receive
  <2> QED
    BY <1>7, <2>1, <2>2
<1>9. \/ SenderSendsHeader \/ SenderSendsPayload \/ MainKills \/ ReaderReplies \/ DeviceAccepts
      \/ DeviceRefuses \/ DeviceReceives \/ wire' = wire
  <2>1. ~Break /\ ~DeviceConfused
    BY DEF Break, DeviceConfused
  <2> QED
    BY <2>1 DEF Next, Reader, ReaderReceives, ReaderOkay, ReaderRelays,
           ReaderStops, Sender, SenderTakes, Main, MainReadsAudioMetadata,
           MainWaits, MainReadsMetadata, ControlWritten, ConsumerReads,
           ConsumerEnds, Device, DeviceAsks, DeviceWrites, DeviceCloses, vars, net
<1> QED
  BY <1>4, <1>5, <1>6, <1>8, <1>9, <1>10, <1>11, <1>12

LEMMA WrtesKept ==
    ASSUME Inv, [Next]_vars, NEW d, ~ReaderReceives,
           ~(d \in DOMAIN streams /\ DeviceWrites(d))
    PROVE  Number(down', Wrtes(d)) = Number(down, Wrtes(d))
<1>1. down \in Seq(FrameSet) /\ Number(down, Wrtes(d)) \in Nat
  BY NumberType DEF Inv, Shape
<1>2. CASE \E f \in FrameSet :
              /\ down' = Append(down, f)
              /\ f.msg.cmd = "WRTE" => \E e \in DOMAIN streams :
                    DeviceWrites(e) /\ f.msg.arg0 = e
  <2>1. PICK f \in FrameSet :
              /\ down' = Append(down, f)
              /\ f.msg.cmd = "WRTE" => \E e \in DOMAIN streams :
                    DeviceWrites(e) /\ f.msg.arg0 = e
    BY <1>2
  <2>2. ~(f.msg.cmd = "WRTE" /\ f.msg.arg0 = d)
    BY <2>1
  <2>3. f \notin Wrtes(d)
    BY <2>2 DEF Wrtes
  <2>4. Number(Append(down, f), Wrtes(d)) = Number(down, Wrtes(d)) + 0
    BY <1>1, <2>3, NumberAppend
  <2> QED
    BY <1>1, <2>1, <2>4
<1>3. \/ down' = down
      \/ \E f \in FrameSet :
              /\ down' = Append(down, f)
              /\ f.msg.cmd = "WRTE" => \E e \in DOMAIN streams :
                    DeviceWrites(e) /\ f.msg.arg0 = e
  BY DownStep
<1> QED
  BY <1>2, <1>3

LEMMA InAckKept ==
    ASSUME Inv, [Next]_vars, NEW d, ~ReaderReceives, ~ReaderAcks
    PROVE  InAck(d)' = InAck(d)
<1>1. reader \in [pc : Places, frame : FrameSet]
  BY DEF Inv, Shape
<1>2. ASSUME reader.pc # "ack", reader'.pc # "ack" PROVE InAck(d)' = InAck(d)
  BY <1>2 DEF InAck
<1>3. CASE ReaderOkay
  <2>1. reader.pc # "ack"
    BY <1>3 DEF ReaderOkay
  <2>2. \/ reader' = [pc |-> "recv", frame |-> Nothing]
        \/ \E pc \in {"remote", "state"} : reader' = [reader EXCEPT !.pc = pc]
    BY <1>3 DEF ReaderOkay
  <2>3. reader'.pc # "ack"
    BY <1>1, <2>2
  <2> QED
    BY <1>2, <2>1, <2>3
<1>8. CASE ReaderReplies
  <2>1. reader.pc # "ack"
    BY <1>8 DEF ReaderReplies
  <2>2. \/ reader' = [pc |-> "recv", frame |-> Nothing]
        \/ \E pc \in {"replyBody", "tls"} : reader' = [reader EXCEPT !.pc = pc]
    BY <1>8 DEF ReaderReplies
  <2>3. reader'.pc # "ack"
    BY <1>1, <2>2
  <2> QED
    BY <1>2, <2>1, <2>3
<1>4. CASE ReaderRelays
  BY <1>2, <1>4 DEF ReaderRelays
<1>5. CASE ReaderStops
  <2>1. reader.pc # "ack" /\ reader' = [reader EXCEPT !.pc = "done"]
    BY <1>5 DEF ReaderStops
  <2>2. reader'.pc # "ack"
    BY <1>1, <2>1
  <2> QED
    BY <1>2, <2>1, <2>2
<1>6. CASE reader' = reader
  BY <1>6 DEF InAck
<1>7. ReaderOkay \/ ReaderReplies \/ ReaderRelays \/ ReaderStops \/ reader' = reader
  BY DEF Next, Reader, Sender, SenderTakes, SenderSendsHeader, SenderSendsPayload,
         Main, MainReadsAudioMetadata, MainWaits, MainReadsMetadata,
         ControlWritten, MainKills, ConsumerReads, ConsumerEnds, Break, Device,
         DeviceAsks, DeviceConfused, DeviceAccepts, DeviceRefuses, DeviceReceives,
         DeviceWrites, DeviceCloses, vars, host
<1> QED
  BY <1>3, <1>4, <1>5, <1>6, <1>7, <1>8

(* What AckedOnce says of the stream d. *)
Acked(d) ==
    Number(down, Wrtes(d)) + Number(wire, Okays(streams[d].peer, d)) + InAck(d)
        = IF streams[d].unacked THEN 1 ELSE 0

LEMMA AckedAs ==
    ASSUME Inv
    PROVE  AckedOnce <=> (link = "up" =>
                            \A d \in DOMAIN streams : streams[d].alive => Acked(d))
<1>1. down \in Seq(FrameSet) /\ wire \in Seq(Piece)
  BY DEF Inv, Shape
<1>2. ASSUME NEW d \in DOMAIN streams
      PROVE  Acked(d) <=>
               Cardinality({i \in DOMAIN down : down[i].msg.cmd = "WRTE"
                                                  /\ down[i].msg.arg0 = d})
                 + Cardinality({i \in DOMAIN wire : wire[i].frame.msg
                                  = Msg("OKAY", streams[d].peer, d)})
                 + (IF reader.pc = "ack" /\ reader.frame.msg.arg0 = d THEN 1 ELSE 0)
               = IF streams[d].unacked THEN 1 ELSE 0
  BY <1>1, NumberAs DEF Acked, InAck
<1> QED
  BY <1>2 DEF AckedOnce

LEMMA AckedStep ==
    ASSUME Inv, [Next]_vars, link' = "up", NEW d \in DOMAIN streams',
           streams'[d].alive,
           \A e \in DOMAIN streams : streams[e].alive => Acked(e)
    PROVE  Acked(d)'
<1> DEFINE p == streams'[d].peer
<1>0. /\ down \in Seq(FrameSet) /\ down' \in Seq(FrameSet)
      /\ wire \in Seq(Piece) /\ wire' \in Seq(Piece) /\ link = "up"
  BY DownRight, WireRight, LinkStep DEF Inv, Shape
<1>1. /\ Number(down, Wrtes(d)) \in Nat /\ Number(down', Wrtes(d)) \in Nat
      /\ Number(wire, Okays(p, d)) \in Nat /\ Number(wire', Okays(p, d)) \in Nat
  BY <1>0, NumberType
<1>5. p # 0
  BY OthersStep DEF OthersRight
<1>2. SUFFICES Number(down', Wrtes(d)) + Number(wire', Okays(p, d)) + InAck(d)'
                 = IF streams'[d].unacked THEN 1 ELSE 0
  BY DEF Acked
<1>3. CASE d \notin DOMAIN streams
  <2>1. DeviceAccepts
    <3>1. CASE UNCHANGED DOMAIN streams
      BY <1>3, <3>1
    <3>2. DeviceAccepts \/ UNCHANGED DOMAIN streams
      BY DEF Next, Reader, ReaderReplies, ReaderReceives, ReaderOkay, ReaderAcks,
             ReaderRelays, ReaderStops, Sender, SenderTakes, SenderSendsHeader,
             SenderSendsPayload, Main, MainReadsAudioMetadata, MainWaits,
             MainReadsMetadata, ControlWritten, MainKills, ConsumerReads,
             ConsumerEnds, Break, Device, DeviceAsks, DeviceConfused,
             DeviceRefuses, DeviceReceives, DeviceWrites, DeviceCloses, vars,
             device
    <3> QED
      BY <3>1, <3>2
  <2>2. PICK l \in DOMAIN channels :
           /\ l \in Nat /\ Receive(OpenMsg(l))
           /\ streams' = Append(streams, Stream(l, RoleOf(l)))
           /\ Stream(l, RoleOf(l)) \in DevStream
    BY <2>1, AcceptedStep
  <2>3. d = Len(streams) + 1 /\ streams'[d] = Stream(l, RoleOf(l))
    <3>1. /\ streams \in Seq(DevStream) /\ Len(streams) \in Nat
          /\ DOMAIN streams = 1 .. Len(streams)
      BY LenProperties DEF Inv, Shape
    <3>2. /\ DOMAIN streams' = 1 .. Len(streams) + 1
          /\ streams'[Len(streams) + 1] = Stream(l, RoleOf(l))
      BY <2>2, <3>1, PutProperties
    <3> QED
      BY <1>3, <3>1, <3>2
  <2>4. streams'[d].unacked = FALSE
    <3>1. RoleOf(l) \in DevRoles
      BY RoleOfType
    <3>2. Stream(l, RoleOf(l)).unacked = FALSE
      BY <2>2, <3>1, StreamType
    <3> QED
      BY <2>3, <3>2
  <2>5. /\ reader' = reader /\ ~ReaderReceives /\ ~ReaderAcks
    <3>1. reader' = reader /\ streams' # streams
      BY <1>3, <2>1 DEF DeviceAccepts, host
    <3> QED
      BY <3>1 DEF ReaderReceives, ReaderAcks, device
  <2>6. Number(down', Wrtes(d)) = Number(down, Wrtes(d))
    BY <1>3, <2>5, WrtesKept
  <2>7. Number(down, Wrtes(d)) = 0
    <3>1. \A i \in DOMAIN down : down[i] \notin Wrtes(d)
      BY <1>3 DEF Wrtes, Inv, NamedRight, FromStream, Named
    <3> QED
      BY <1>0, <3>1, NumberType
  <2>8. Number(wire', Okays(p, d)) = Number(wire, Okays(p, d))
    <3>1. Head(wire).frame.msg = OpenMsg(l)
      BY <2>2 DEF Receive
    <3>2. Head(wire).frame.msg # Msg("OKAY", p, d)
      BY <3>1 DEF OpenMsg, Msg
    <3> QED
      BY <1>5, <2>5, <3>2, OkaysKept
  <2>9. Number(wire, Okays(p, d)) = 0
    <3>1. ASSUME NEW i \in DOMAIN wire PROVE wire[i] \notin Okays(p, d)
      <4>1. \/ wire[i].frame.msg.cmd \in {"OPEN", "AUTH", "STLS"}
            \/ wire[i].frame.msg.arg1 \in DOMAIN streams
        BY DEF Inv, AddressedRight
      <4>2. Msg("OKAY", p, d).cmd = "OKAY" /\ Msg("OKAY", p, d).arg1 = d
        BY DEF Msg
      <4> QED
        BY <1>3, <4>1, <4>2 DEF Okays
    <3> QED
      BY <1>0, <3>1, NumberType
  <2>10. InAck(d)' = 0
    <3>1. ~(reader.pc = "ack" /\ reader.frame.msg.arg0 = d)
      BY <1>3 DEF Inv, NamedRight, Handling, FromStream
    <3> QED
      BY <2>5, <3>1 DEF InAck
  <2> QED
    BY <2>4, <2>6, <2>7, <2>8, <2>9, <2>10
<1>4. CASE d \in DOMAIN streams
  <2>1. /\ streams[d].peer = p /\ streams[d].alive
        /\ InAck(d) \in {0, 1} /\ InAck(d)' \in {0, 1}
        /\ Number(down, Wrtes(d)) + Number(wire, Okays(p, d)) + InAck(d)
             = IF streams[d].unacked THEN 1 ELSE 0
    <3>1. streams[d].peer = p /\ streams[d].alive
      BY <1>4, StreamsStep, UnackedKept
    <3>2. Acked(d)
      BY <1>4, <3>1
    <3> QED
      BY <3>1, <3>2 DEF Acked, InAck
  <2>2. \A m : (DeviceReceives /\ Receive(m) /\ m.cmd = "OKAY" /\ m.arg1 = d /\ Known(d, m))
                 => Head(wire).frame.msg = Msg("OKAY", p, d)
    <3> SUFFICES ASSUME NEW m, Receive(m), m.cmd = "OKAY", m.arg1 = d, Known(d, m)
                 PROVE  Head(wire).frame.msg = Msg("OKAY", p, d)
      OBVIOUS
    <3>1. m \in Message /\ m = Head(wire).frame.msg /\ m.arg0 = p
      BY <2>1, ReceivedRight DEF Receive, Known
    <3>2. m = Msg("OKAY", p, d)
      BY <3>1 DEF Message, Msg
    <3> QED
      BY <3>1, <3>2
  <2> HIDE DEF p
  <2>3. CASE ReaderReceives
    <3> DEFINE h == Head(down)
    <3>1. /\ reader.pc = "recv" /\ down # << >> /\ down' = Tail(down)
          /\ wire' = wire /\ streams' = streams
          /\ \/ h.msg.cmd = "WRTE" /\ reader' = [pc |-> "ack", frame |-> h]
             \/ h.msg.cmd = "OKAY" /\ reader' = [pc |-> "okay", frame |-> h]
             \/ h.msg.cmd # "WRTE" /\ reader' = reader
             \/ h.msg.cmd # "WRTE" /\ reader' = [pc |-> "reply", frame |-> Reply(h.msg)]
      BY <2>3 DEF ReaderReceives, device
    <3>2. h \in FrameSet
      BY <3>1, HeadOfDown
    <3> HIDE DEF h
    <3>3. Number(down, Wrtes(d)) = Number(down', Wrtes(d)) + (IF h \in Wrtes(d) THEN 1 ELSE 0)
      BY <1>0, <3>1, NumberTail DEF h
    <3>4. InAck(d) = 0 /\ InAck(d)' = IF h \in Wrtes(d) THEN 1 ELSE 0
      BY <3>1, <3>2 DEF InAck, Wrtes
    <3> QED
      BY <1>1, <2>1, <3>1, <3>3, <3>4
  <2>4. CASE ReaderAcks
    <3>1. PICK f \in FrameSet :
              /\ f.msg = Msg("OKAY", reader.frame.msg.arg1, reader.frame.msg.arg0)
              /\ FromStream(reader.frame.msg) /\ wire' = Sent(<< Head1(f) >>)
      BY <2>4, AckSent
    <3>2. /\ reader.pc = "ack" /\ reader' = [reader EXCEPT !.pc = "relay"]
          /\ down' = down /\ streams' = streams
      BY <2>4 DEF ReaderAcks, device
    <3>3. Head1(f) \in Piece /\ Head1(f).frame = f
      BY PieceProperties
    <3>4. wire' = Append(wire, Head1(f))
      BY <1>0, <3>1, <3>3, SentOne
    <3>5. Head1(f) \in Okays(p, d) <=> reader.frame.msg.arg0 = d
      <4>1. Head1(f) \in Okays(p, d) <=>
               Msg("OKAY", reader.frame.msg.arg1, reader.frame.msg.arg0) = Msg("OKAY", p, d)
        BY <3>1, <3>3 DEF Okays
      <4>2. reader.frame.msg.arg0 = d => reader.frame.msg.arg1 = p
        BY <2>1, <3>1 DEF FromStream
      <4> QED
        BY <4>1, <4>2 DEF Msg
    <3>6. Number(wire', Okays(p, d))
            = Number(wire, Okays(p, d)) + (IF reader.frame.msg.arg0 = d THEN 1 ELSE 0)
      BY <1>0, <3>3, <3>4, <3>5, NumberAppend
    <3>7. reader'.pc = "relay"
      BY <3>2 DEF Inv, Shape
    <3>8. InAck(d) = (IF reader.frame.msg.arg0 = d THEN 1 ELSE 0) /\ InAck(d)' = 0
      BY <3>2, <3>7 DEF InAck
    <3> QED
      BY <1>1, <2>1, <3>2, <3>6, <3>8
  <2>5. CASE DeviceWrites(d)
    <3>1. /\ ~streams[d].unacked /\ streams' = [streams EXCEPT ![d].sent = @ + 1,
                                                              ![d].unacked = TRUE]
          /\ wire' = wire /\ reader' = reader
          /\ Answer(<< Frame(Msg("WRTE", d, streams[d].peer), streams[d].sent + 1) >>)
      BY <2>5 DEF DeviceWrites, host
    <3> DEFINE f == Frame(Msg("WRTE", d, streams[d].peer), streams[d].sent + 1)
    <3>2. f \in FrameSet /\ f.msg.cmd = "WRTE" /\ f.msg.arg0 = d
      <4>1. d \in Nat /\ streams[d].peer \in Nat /\ streams[d].sent + 1 \in Nat
        BY <1>4, StreamEntry
      <4> QED
        BY <4>1 DEF Frame, Msg, FrameSet, Message
    <3> HIDE DEF f
    <3>3. down' = Append(down, f) /\ f \in Wrtes(d)
      BY <3>1, <3>2, AnswerOne DEF f, Wrtes
    <3>4. Number(down', Wrtes(d)) = Number(down, Wrtes(d)) + 1
      BY <1>0, <3>2, <3>3, NumberAppend
    <3>5. streams'[d].unacked = TRUE
      <4>1. streams[d] \in DevStream
        BY <1>4, StreamEntry
      <4>2. streams'[d] = [streams[d] EXCEPT !.sent = @ + 1, !.unacked = TRUE]
        BY <1>4, <3>1
      <4> QED
        BY <4>1, <4>2 DEF DevStream
    <3>6. InAck(d)' = InAck(d)
      BY <3>1 DEF InAck
    <3> QED
      BY <1>1, <2>1, <3>1, <3>4, <3>5, <3>6
  <2>6. ASSUME ~ReaderReceives, ~ReaderAcks, ~DeviceWrites(d)
        PROVE  /\ Number(down', Wrtes(d)) = Number(down, Wrtes(d))
               /\ InAck(d)' = InAck(d)
    BY <2>6, WrtesKept, InAckKept
  <2>7. CASE /\ ~ReaderReceives /\ ~ReaderAcks /\ ~DeviceWrites(d)
             /\ ~(DeviceReceives /\ Head(wire).frame.msg = Msg("OKAY", p, d))
    <3>1. Number(wire', Okays(p, d)) = Number(wire, Okays(p, d))
      BY <1>5, <2>7, OkaysKept
    <3>2. streams'[d].unacked = streams[d].unacked
      BY <1>4, <2>2, <2>7, UnackedKept
    <3> QED
      BY <2>1, <2>6, <2>7, <3>1, <3>2
  <2>8. CASE DeviceReceives /\ Head(wire).frame.msg = Msg("OKAY", p, d)
    <3>1. PICK m : /\ Receive(m)
                   /\ \/ /\ m.cmd = "OKAY" /\ Known(m.arg1, m)
                         /\ streams' = [streams EXCEPT ![m.arg1].unacked = FALSE]
                      \/ m.cmd = "WRTE"
                      \/ ~Known(m.arg1, m)
                   /\ reader' = reader
      BY <2>8 DEF DeviceReceives, host
    <3>2. m = Head(wire).frame.msg /\ m = Msg("OKAY", p, d)
      BY <2>8, <3>1 DEF Receive
    <3>3. m.cmd = "OKAY" /\ m.arg0 = p /\ m.arg1 = d
      BY <3>2 DEF Msg
    <3>4. Known(m.arg1, m)
      BY <1>4, <2>1, <3>3 DEF Known
    <3>5. streams' = [streams EXCEPT ![d].unacked = FALSE]
      BY <3>1, <3>3, <3>4
    <3>6. streams'[d].unacked = FALSE
      <4>1. streams[d] \in DevStream
        BY <1>4, StreamEntry
      <4>2. streams'[d] = [streams[d] EXCEPT !.unacked = FALSE]
        BY <1>4, <3>5
      <4> QED
        BY <4>1, <4>2 DEF DevStream
    <3>7. ~ReaderReceives /\ ~ReaderAcks /\ ~DeviceWrites(d)
      <4>1. wire # << >> /\ wire' = Tail(wire)
        BY <1>0, <3>1, <3>3, ReceivedProperties DEF Bodied
      <4>2. wire' # wire
        BY <1>0, <4>1, TakeProperties
      <4>3. reader' = reader
        BY <3>1
      <4>4. ~ReaderAcks
        BY <4>3 DEF ReaderAcks, Inv, Shape
      <4> QED
        BY <4>2, <4>4 DEF ReaderReceives, DeviceWrites
    <3>8. /\ wire # << >> /\ wire' = Tail(wire) /\ Head(wire) \in Okays(p, d)
      BY <1>0, <3>1, <3>2, <3>3, ReceivedProperties DEF Okays, Bodied
    <3>9. Number(wire, Okays(p, d)) = Number(wire', Okays(p, d)) + 1
      BY <1>0, <3>8, NumberTail
    <3> QED
      BY <1>1, <2>1, <2>6, <3>6, <3>7, <3>9
  <2> QED
    BY <2>3, <2>4, <2>5, <2>7, <2>8
<1> QED
  BY <1>3, <1>4

(* While the connection stands, every WRTE of a live stream is on its way, *)
(* in the hands of the reader, or acknowledged exactly once, for any load. *)
THEOREM Acknowledgement == Spec => []AckedOnce
<1>1. Init => AckedOnce
  <2> SUFFICES ASSUME Init PROVE AckedOnce
    OBVIOUS
  <2>1. Inv
    BY InitInv
  <2>2. ASSUME NEW d \in DOMAIN streams PROVE Acked(d)
    <3>1. \A i \in DOMAIN wire : wire[i].frame.msg.cmd = "OPEN"
      <4>1. PICK lo \in {1, 2} : OpensOnly(wire, lo, 4)
        BY InitCases
      <4>2. lo \in Nat /\ 4 \in Nat
        BY <4>1
      <4> QED
        BY <4>1, <4>2, OpensAreOpens
    <3>2. \A i \in DOMAIN wire : wire[i] \notin Okays(streams[d].peer, d)
      BY <3>1 DEF Okays, Msg
    <3>3. /\ Number(down, Wrtes(d)) = 0 /\ Number(wire, Okays(streams[d].peer, d)) = 0
      <4>1. down \in Seq(FrameSet) /\ wire \in Seq(Piece) /\ DOMAIN down = {}
        BY <2>1 DEF Inv, Shape, Init
      <4> QED
        BY <3>2, <4>1, NumberType
    <3>4. InAck(d) = 0
      BY DEF Init, InAck
    <3>5. streams[d].unacked = FALSE
      <4>1. streams[d] = Other \/ streams[d] = Stream(1, "shell")
        BY InitOther
      <4>2. Other.unacked = FALSE
        BY DEF Other
      <4>3. Stream(1, "shell").unacked = FALSE
        BY DEF Stream, Other
      <4> QED
        BY <4>1, <4>2, <4>3
    <3> QED
      BY <3>3, <3>4, <3>5 DEF Acked
  <2> QED
    BY <2>1, <2>2, AckedAs
<1>2. Inv /\ AckedOnce /\ [Next]_vars => AckedOnce'
  <2> SUFFICES ASSUME Inv, AckedOnce, [Next]_vars PROVE AckedOnce'
    OBVIOUS
  <2>1. Inv'
    BY NextInv
  <2>2. (link' = "up" => \A d \in DOMAIN streams' : streams'[d].alive => Acked(d)')
           => AckedOnce'
    <3>1. down' \in Seq(FrameSet) /\ wire' \in Seq(Piece)
      BY <2>1 DEF Inv, Shape
    <3> QED
      BY <3>1, NumberAs DEF AckedOnce, Acked, InAck
  <2>3. ASSUME link' = "up", NEW d \in DOMAIN streams', streams'[d].alive
        PROVE  Acked(d)'
    <3>1. link = "up"
      BY <2>3, LinkStep
    <3> QED
      BY <2>3, <3>1, AckedAs, AckedStep
  <2> QED
    BY <2>2, <2>3
<1> QED
  BY <1>1, <1>2, Invariance, PTL DEF Spec

----------------------------------------------------------------------------
(* Header and payload *)

(* Of the pieces in q, every payload comes after its header and every      *)
(* header before its payload, only that of the last may be missing.        *)
Paired(q) ==
    \A i \in DOMAIN q :
        /\ (q[i].part = "header" /\ HasBody(q[i].frame) /\ i < Len(q)) =>
              q[i + 1] = Body1(q[i].frame)
        /\ q[i].part = "payload" =>
              i > 1 /\ q[i - 1] = Head1(q[i].frame) /\ HasBody(q[i].frame)

Unended(q) == q # << >> /\ q[Len(q)].part = "header" /\ HasBody(q[Len(q)].frame)

(* The only header on the wire without its payload is the one the sender,  *)
(* which holds send_lock, has just sent.                                   *)
Mended ==
    ~unlocked =>
        /\ Paired(wire)
        /\ sender.pc # "payload" => ~Unended(wire)
        /\ (sender.pc = "payload" /\ link = "up") =>
              wire # << >> /\ wire[Len(wire)] = Head1(sender.frame)

LEMMA HeaderPaired ==
    ASSUME NEW q \in Seq(Piece), NEW f \in FrameSet, Paired(q), ~Unended(q)
    PROVE  /\ Paired(Append(q, Head1(f))) /\ Append(q, Head1(f)) # << >>
           /\ Append(q, Head1(f))[Len(Append(q, Head1(f)))] = Head1(f)
           /\ ~HasBody(f) => ~Unended(Append(q, Head1(f)))
<1> DEFINE x == Head1(f)
           r == Append(q, x)
<1>1. x \in Piece /\ x.part = "header" /\ x.frame = f
  BY PieceProperties
<1>2. /\ r # << >> /\ Len(q) \in Nat /\ Len(r) = Len(q) + 1 /\ r[Len(q) + 1] = x
      /\ DOMAIN r = 1 .. Len(q) + 1 /\ DOMAIN q = 1 .. Len(q)
      /\ \A i \in 1 .. Len(q) : r[i] = q[i]
  BY <1>1, PutProperties
<1> HIDE DEF x, r
<1>3. ASSUME NEW i \in DOMAIN r
      PROVE  /\ (r[i].part = "header" /\ HasBody(r[i].frame) /\ i < Len(r)) =>
                    r[i + 1] = Body1(r[i].frame)
             /\ r[i].part = "payload" =>
                    i > 1 /\ r[i - 1] = Head1(r[i].frame) /\ HasBody(r[i].frame)
  <2>1. CASE i = Len(q) + 1
    BY <1>1, <1>2, <2>1
  <2>2. CASE i \in 1 .. Len(q)
    <3>1. /\ (q[i].part = "header" /\ HasBody(q[i].frame) /\ i < Len(q)) =>
                q[i + 1] = Body1(q[i].frame)
          /\ q[i].part = "payload" =>
                i > 1 /\ q[i - 1] = Head1(q[i].frame) /\ HasBody(q[i].frame)
      BY <1>2, <2>2 DEF Paired
    <3>2. i = Len(q) => ~(q[i].part = "header" /\ HasBody(q[i].frame))
      <4>1. i = Len(q) => q # << >>
        BY <1>2, <2>2
      <4> QED
        BY <4>1 DEF Unended
    <3>3. r[i] = q[i] /\ (i < Len(q) => r[i + 1] = q[i + 1]) /\ (i > 1 => r[i - 1] = q[i - 1])
      BY <1>2, <2>2
    <3>4. i < Len(r) => i < Len(q) \/ i = Len(q)
      BY <1>2, <2>2
    <3> QED
      BY <3>1, <3>2, <3>3, <3>4
  <2> QED
    BY <1>2, <2>1, <2>2
<1>4. Paired(r)
  BY <1>3 DEF Paired
<1>5. ~HasBody(f) => ~Unended(r)
  BY <1>1, <1>2 DEF Unended
<1> QED
  BY <1>2, <1>4, <1>5 DEF r, x

LEMMA PayloadPaired ==
    ASSUME NEW q \in Seq(Piece), NEW f \in FrameSet, Paired(q), HasBody(f),
           q # << >>, q[Len(q)] = Head1(f)
    PROVE  Paired(Append(q, Body1(f))) /\ ~Unended(Append(q, Body1(f)))
<1> DEFINE x == Body1(f)
           r == Append(q, x)
<1>1. x \in Piece /\ x.part = "payload" /\ x.frame = f
      /\ Head1(f).part = "header" /\ Head1(f).frame = f
  BY PieceProperties
<1>2. /\ Len(r) = Len(q) + 1 /\ r[Len(q) + 1] = x
      /\ DOMAIN r = 1 .. Len(q) + 1 /\ DOMAIN q = 1 .. Len(q)
      /\ \A i \in 1 .. Len(q) : r[i] = q[i]
  BY <1>1, PutProperties
<1>3. Len(q) \in Nat \ {0} /\ x = Body1(q[Len(q)].frame)
  BY <1>1, EmptySeq
<1> HIDE DEF x, r
<1>4. ASSUME NEW i \in DOMAIN r
      PROVE  /\ (r[i].part = "header" /\ HasBody(r[i].frame) /\ i < Len(r)) =>
                    r[i + 1] = Body1(r[i].frame)
             /\ r[i].part = "payload" =>
                    i > 1 /\ r[i - 1] = Head1(r[i].frame) /\ HasBody(r[i].frame)
  <2>1. CASE i = Len(q) + 1
    <3>1. i > 1 /\ i - 1 = Len(q) /\ Len(q) \in 1 .. Len(q)
      BY <1>3, <2>1
    <3>2. r[i - 1] = Head1(f)
      BY <1>2, <3>1
    <3> QED
      BY <1>1, <1>2, <2>1, <3>1, <3>2
  <2>2. CASE i \in 1 .. Len(q)
    <3>1. /\ (q[i].part = "header" /\ HasBody(q[i].frame) /\ i < Len(q)) =>
                q[i + 1] = Body1(q[i].frame)
          /\ q[i].part = "payload" =>
                i > 1 /\ q[i - 1] = Head1(q[i].frame) /\ HasBody(q[i].frame)
      BY <1>2, <2>2 DEF Paired
    <3>2. i = Len(q) => r[i + 1] = Body1(q[i].frame)
      BY <1>2, <1>3
    <3>3. r[i] = q[i] /\ (i < Len(q) => r[i + 1] = q[i + 1]) /\ (i > 1 => r[i - 1] = q[i - 1])
      BY <1>2, <1>3, <2>2
    <3>4. i < Len(r) => i < Len(q) \/ i = Len(q)
      BY <1>2, <1>3, <2>2
    <3> QED
      BY <3>1, <3>2, <3>3, <3>4
  <2> QED
    BY <1>2, <1>3, <2>1, <2>2
<1>5. Paired(r)
  BY <1>4 DEF Paired
<1>6. ~Unended(r)
  BY <1>1, <1>2 DEF Unended
<1> QED
  BY <1>5, <1>6 DEF r, x

(* The first n pieces are taken off; the last of them is no header that    *)
(* waits for its payload.                                                  *)
LEMMA DropPaired ==
    ASSUME NEW q \in Seq(Piece), NEW r \in Seq(Piece), NEW n \in {1, 2},
           Len(q) >= n, Len(r) = Len(q) - n,
           \A i \in 1 .. Len(r) : r[i] = q[i + n],
           ~(q[n].part = "header" /\ HasBody(q[n].frame)), Paired(q)
    PROVE  /\ Paired(r) /\ (Unended(r) => Unended(q))
           /\ (q[Len(q)].part = "header" /\ HasBody(q[Len(q)].frame)) =>
                 r # << >> /\ r[Len(r)] = q[Len(q)]
<1>1. /\ DOMAIN q = 1 .. Len(q) /\ DOMAIN r = 1 .. Len(r) /\ Len(q) \in Nat
      /\ Len(r) \in Nat
  BY LenProperties
<1>2. ASSUME NEW i \in DOMAIN r
      PROVE  /\ (r[i].part = "header" /\ HasBody(r[i].frame) /\ i < Len(r)) =>
                    r[i + 1] = Body1(r[i].frame)
             /\ r[i].part = "payload" =>
                    i > 1 /\ r[i - 1] = Head1(r[i].frame) /\ HasBody(r[i].frame)
  <2> DEFINE j == i + n
  <2>0. i \in 1 .. Len(r) /\ i \in Nat
    BY <1>1
  <2>a. j \in DOMAIN q /\ r[i] = q[j] /\ (i < Len(r) => j < Len(q)) /\ (i = 1 => j - 1 = n)
    BY <1>1, <2>0
  <2>b. i < Len(r) => r[i + 1] = q[j + 1]
    <3> SUFFICES ASSUME i < Len(r) PROVE r[i + 1] = q[j + 1]
      OBVIOUS
    <3>1. i + 1 \in 1 .. Len(r) /\ (i + 1) + n = j + 1
      BY <1>1, <2>0
    <3>2. r[i + 1] = q[(i + 1) + n]
      BY <3>1
    <3> QED
      BY <3>1, <3>2
  <2>c. i > 1 => r[i - 1] = q[j - 1]
    <3>1. i > 1 => i - 1 \in 1 .. Len(r) /\ (i - 1) + n = j - 1
      BY <1>1, <2>0
    <3> QED
      BY <3>1
  <2>1. j \in DOMAIN q /\ r[i] = q[j] /\ (i < Len(r) => j < Len(q) /\ r[i + 1] = q[j + 1])
        /\ (i > 1 => r[i - 1] = q[j - 1]) /\ (i = 1 => j - 1 = n)
    BY <2>a, <2>b, <2>c
  <2> HIDE DEF j
  <2>2. /\ (q[j].part = "header" /\ HasBody(q[j].frame) /\ j < Len(q)) =>
              q[j + 1] = Body1(q[j].frame)
        /\ q[j].part = "payload" => q[j - 1] = Head1(q[j].frame) /\ HasBody(q[j].frame)
    BY <2>1 DEF Paired
  <2>3. ASSUME q[j].part = "payload" PROVE i > 1
    <3>1. CASE i = 1
      <4>1. q[n] = Head1(q[j].frame) /\ HasBody(q[j].frame)
        BY <2>1, <2>2, <2>3, <3>1
      <4>2. Head1(q[j].frame).part = "header" /\ Head1(q[j].frame).frame = q[j].frame
        BY DEF Head1
      <4> QED
        BY <4>1, <4>2
    <3> QED
      BY <1>1, <3>1
  <2> QED
    BY <2>1, <2>2, <2>3
<1>3. Paired(r)
  BY <1>2 DEF Paired
<1>4. r # << >> => r[Len(r)] = q[Len(q)] /\ q # << >>
  <2> SUFFICES ASSUME r # << >> PROVE r[Len(r)] = q[Len(q)] /\ q # << >>
    OBVIOUS
  <2>1. Len(r) \in Nat \ {0}
    BY EmptySeq
  <2>2. Len(r) \in 1 .. Len(r) /\ Len(r) + n = Len(q)
    BY <1>1, <2>1
  <2> QED
    BY <1>1, <2>1, <2>2, EmptySeq
<1>5. ASSUME r = << >> PROVE Len(q) = n
  BY <1>1, <1>5, EmptySeq
<1> QED
  BY <1>3, <1>4, <1>5 DEF Unended

LEMMA NonePaired == Paired(<< >>) /\ ~Unended(<< >>)
  BY DEF Paired, Unended

(* A message is taken off the wire with its payload, if it has one. *)
LEMMA ReceivedRest ==
    ASSUME Inv, NEW m, Receive(m)
    PROVE  \E n \in {1, 2} :
              /\ Len(wire) \in Nat /\ Len(wire) >= n /\ wire' \in Seq(Piece)
              /\ Len(wire') = Len(wire) - n
              /\ DOMAIN wire = 1 .. Len(wire) /\ DOMAIN wire' = 1 .. Len(wire')
              /\ \A i \in 1 .. Len(wire') : wire'[i] = wire[i + n]
              /\ wire[1] = Head1(wire[1].frame) /\ wire[1].frame.msg = m /\ wire[1].frame \in FrameSet
              /\ IF HasBody(wire[1].frame) THEN n = 2 /\ wire[2] = Body1(wire[1].frame) ELSE n = 1
<1> DEFINE f == wire[1].frame
<1>1. wire \in Seq(Piece) /\ wire # << >> /\ f \in FrameSet /\ f.msg = m /\ wire[1] = Head1(f)
  BY ReceivedProperties DEF Inv, Shape
<1>2. /\ Len(wire) \in Nat \ {0} /\ Tail(wire) \in Seq(Piece)
      /\ Len(Tail(wire)) = Len(wire) - 1 /\ DOMAIN wire = 1 .. Len(wire)
      /\ \A i \in 1 .. Len(wire) - 1 : Tail(wire)[i] = wire[i + 1]
  BY <1>1, TakeProperties
<1>3. CASE m.cmd \in Bodied
  <2>1. /\ Tail(wire) # << >> /\ 2 \in DOMAIN wire
        /\ wire[2] = Body1(f) /\ wire' = Tail(Tail(wire))
    BY <1>1, <1>3, ReceivedProperties DEF Inv, Shape
  <2>2. HasBody(f)
    BY <1>1, <1>3 DEF HasBody, Bodied
  <2>3. /\ Tail(Tail(wire)) \in Seq(Piece)
        /\ Len(Tail(Tail(wire))) = Len(Tail(wire)) - 1
        /\ \A i \in 1 .. Len(Tail(wire)) - 1 : Tail(Tail(wire))[i] = Tail(wire)[i + 1]
    BY <1>2, <2>1, TakeProperties
  <2>4. Len(Tail(wire)) - 1 = Len(wire) - 2 /\ Len(wire) >= 2
    BY <1>2, <2>1
  <2>5. ASSUME NEW i \in 1 .. Len(wire) - 2
        PROVE  Tail(Tail(wire))[i] = wire[i + 2]
    <3>1. i + 1 \in 1 .. Len(wire) - 1 /\ (i + 1) + 1 = i + 2
      BY <1>2, <2>5
    <3>2. Tail(wire)[i + 1] = wire[(i + 1) + 1]
      BY <1>2, <3>1
    <3> QED
      BY <2>3, <2>4, <3>1, <3>2
  <2> DEFINE r == Tail(Tail(wire))
  <2>6. /\ r \in Seq(Piece) /\ Len(r) = Len(wire) - 2 /\ wire' = r
        /\ \A i \in 1 .. Len(r) : r[i] = wire[i + 2]
    BY <2>1, <2>3, <2>4, <2>5
  <2> HIDE DEF r
  <2>7. DOMAIN wire' = 1 .. Len(wire')
    BY <2>6, LenProperties
  <2> QED
    BY <1>1, <1>2, <2>1, <2>2, <2>4, <2>6, <2>7
<1>4. CASE m.cmd \notin Bodied
  <2>1. wire' = Tail(wire)
    BY <1>1, <1>4, ReceivedProperties
  <2>2. ~HasBody(f)
    BY <1>1, <1>4 DEF HasBody, Bodied
  <2> DEFINE r == Tail(wire)
  <2>3. /\ r \in Seq(Piece) /\ Len(r) = Len(wire) - 1 /\ wire' = r
        /\ \A i \in 1 .. Len(r) : r[i] = wire[i + 1]
        /\ Len(wire) >= 1
    BY <1>2, <2>1
  <2> HIDE DEF r
  <2>4. DOMAIN wire' = 1 .. Len(wire')
    BY <2>3, LenProperties
  <2> QED
    BY <1>1, <1>2, <2>2, <2>3, <2>4
<1> QED
  BY <1>3, <1>4

(* The device takes whole messages, so none is left without its header. *)
LEMMA ReceivedPaired ==
    ASSUME Inv, NEW m, Receive(m), Paired(wire)
    PROVE  /\ Paired(wire') /\ (Unended(wire') => Unended(wire))
           /\ Unended(wire) => wire' # << >> /\ wire'[Len(wire')] = wire[Len(wire)]
<1>1. PICK n \in {1, 2} :
        /\ Len(wire) \in Nat /\ Len(wire) >= n /\ wire' \in Seq(Piece)
        /\ Len(wire') = Len(wire) - n
        /\ \A i \in 1 .. Len(wire') : wire'[i] = wire[i + n]
        /\ wire[1] = Head1(wire[1].frame)
        /\ IF HasBody(wire[1].frame) THEN n = 2 /\ wire[2] = Body1(wire[1].frame) ELSE n = 1
  BY ReceivedRest
<1>2. ~(wire[n].part = "header" /\ HasBody(wire[n].frame))
  BY <1>1 DEF Body1
<1>3. wire \in Seq(Piece) /\ wire # << >>
  BY ReceivedProperties DEF Inv, Shape
<1> DEFINE r == wire'
<1>4. /\ r \in Seq(Piece) /\ Len(r) = Len(wire) - n
      /\ \A i \in 1 .. Len(r) : r[i] = wire[i + n]
  BY <1>1
<1> HIDE DEF r
<1>5. /\ Paired(r) /\ (Unended(r) => Unended(wire))
      /\ (wire[Len(wire)].part = "header" /\ HasBody(wire[Len(wire)].frame)) =>
            r # << >> /\ r[Len(r)] = wire[Len(wire)]
  BY <1>1, <1>2, <1>3, <1>4, DropPaired
<1> QED
  BY <1>5 DEF Unended, r

LEMMA InitMended == Init => Mended
<1> SUFFICES ASSUME Init PROVE Mended
  OBVIOUS
<1>1. PICK lo \in {1, 2} : OpensOnly(wire, lo, 4)
  BY InitCases
<1>2. lo \in Nat /\ 4 \in Nat
  BY <1>1
<1>3. ASSUME NEW i \in DOMAIN wire PROVE HasBody(wire[i].frame)
  BY <1>1, <1>2, OpensAreOpens DEF HasBody
<1>4. Paired(wire)
  BY <1>1, <1>3 DEF OpensOnly, Paired
<1>5. ~Unended(wire)
  <2>1. wire # << >> => Len(wire) \in DOMAIN wire /\ ~(Len(wire) < Len(wire))
    BY <1>1, EmptySeq, LenProperties DEF OpensOnly
  <2> QED
    BY <1>1, <2>1 DEF OpensOnly, Unended
<1>6. sender.pc = "recv"
  BY DEF Init
<1> QED
  BY <1>4, <1>5, <1>6 DEF Mended

(* What is put on the wire, taken off it, or lost, one step at a time. *)
LEMMA PieceMoves ==
    ASSUME Inv, [Next]_vars
    PROVE  \/ ReaderAcks \/ ReaderReplies \/ SenderSendsHeader \/ SenderSendsPayload
           \/ MainKills
           \/ (\E m : Receive(m)) /\ sender' = sender /\ link' = link
           \/ link' = "broken" /\ wire' = << >> /\ sender' = sender
           \/ wire' = wire /\ link' = link /\ (sender' = sender \/ SenderTakes)
<1>1. CASE ReaderReceives \/ ReaderOkay \/ ReaderRelays \/ ReaderStops
  BY <1>1 DEF ReaderReceives, ReaderOkay, ReaderRelays, ReaderStops, net
<1>2. CASE SenderTakes
  BY <1>2 DEF SenderTakes, net
<1>3. CASE \/ (\E k \in Kinds : MainWaits(k) \/ ConsumerReads(k))
           \/ MainReadsMetadata \/ MainReadsAudioMetadata \/ ControlWritten
  BY <1>3 DEF MainWaits, MainReadsMetadata, MainReadsAudioMetadata, ControlWritten,
              ConsumerReads, net
<1>4. CASE Break \/ DeviceConfused
  BY <1>4 DEF Break, DeviceConfused, host
<1>5. CASE DeviceAccepts \/ DeviceRefuses
  BY <1>5 DEF DeviceAccepts, DeviceRefuses, host
<1>6. CASE DeviceReceives
  BY <1>6 DEF DeviceReceives, host
<1>7. CASE \E d \in DOMAIN streams : DeviceWrites(d) \/ DeviceCloses(d)
  BY <1>7 DEF DeviceWrites, DeviceCloses, host
<1>8. CASE UNCHANGED vars
  BY <1>8 DEF vars, host, net
<1>9. CASE DeviceAsks \/ \E k \in Kinds : ConsumerEnds(k)
  BY <1>9 DEF DeviceAsks, ConsumerEnds, host
<1> QED
  BY <1>1, <1>2, <1>3, <1>4, <1>5, <1>6, <1>7, <1>8, <1>9
  DEF Next, Reader, Sender, Main, Device

LEMMA MendedStep == Inv /\ Mended /\ [Next]_vars => Mended'
<1> SUFFICES ASSUME Inv, Mended, [Next]_vars, ~unlocked'
             PROVE  /\ Paired(wire')
                    /\ sender'.pc # "payload" => ~Unended(wire')
                    /\ (sender'.pc = "payload" /\ link' = "up") =>
                          wire' # << >> /\ wire'[Len(wire')] = Head1(sender'.frame)
  BY DEF Mended, Paired, Unended
<1>1. ~unlocked
  BY SessionStep
<1>2. /\ Paired(wire) /\ wire \in Seq(Piece) /\ sender.frame \in FrameSet
      /\ sender.pc # "payload" => ~Unended(wire)
      /\ (sender.pc = "payload" /\ link = "up") =>
            wire # << >> /\ wire[Len(wire)] = Head1(sender.frame)
      /\ sender \in [pc : {"recv", "send", "payload"}, frame : FrameSet]
      /\ link \in {"up", "broken"} /\ (link = "broken" => wire = << >>)
  BY <1>1 DEF Mended, Inv, Shape, TypeOK
<1>3. link # "up" => wire = << >> /\ ~Unended(wire) /\ link # "up"
  BY <1>2, NonePaired
<1>4. CASE ReaderAcks
  <2>1. PICK f \in FrameSet : f.msg.cmd = "OKAY" /\ wire' = Sent(<< Head1(f) >>)
    BY <1>4, AckSent
  <2>2. sender' = sender /\ sender.pc # "payload" /\ link' = link
    BY <1>4 DEF ReaderAcks, LockFree
  <2>3. ~HasBody(f)
    BY <2>1 DEF HasBody
  <2>4. \/ link # "up" /\ wire' = wire
        \/ link = "up" /\ wire' = Append(wire, Head1(f))
    BY <2>1, PieceProperties, SentOne
  <2>5. Paired(Append(wire, Head1(f))) /\ ~Unended(Append(wire, Head1(f)))
    BY <1>2, <2>2, <2>3, HeaderPaired
  <2> QED
    BY <1>2, <2>2, <2>4, <2>5
<1>5. CASE SenderSendsHeader
  <2>1. PICK f \in FrameSet : /\ wire' = Sent(<< Head1(f) >>)
                              /\ sender' = [pc |-> "payload", frame |-> f]
    BY <1>5, HeaderSent
  <2>2. sender.pc = "send" /\ link' = link
    BY <1>5 DEF SenderSendsHeader
  <2>3. \/ link # "up" /\ wire' = wire
        \/ link = "up" /\ wire' = Append(wire, Head1(f))
    BY <2>1, PieceProperties, SentOne
  <2>4. /\ Paired(Append(wire, Head1(f))) /\ Append(wire, Head1(f)) # << >>
        /\ Append(wire, Head1(f))[Len(Append(wire, Head1(f)))] = Head1(f)
    BY <1>2, <2>2, HeaderPaired
  <2>5. sender'.pc = "payload" /\ sender'.frame = f
    BY <2>1
  <2> QED
    BY <1>2, <2>2, <2>3, <2>4, <2>5
<1>6. CASE SenderSendsPayload
  <2>1. /\ sender.pc = "payload" /\ wire' = Sent(<< Body1(sender.frame) >>)
        /\ sender'.pc = "recv" /\ link' = link
    BY <1>6 DEF SenderSendsPayload
  <2>2. HasBody(sender.frame)
    BY <2>1 DEF Inv, SenderRight, HasBody
  <2>3. \/ link # "up" /\ wire' = wire
        \/ link = "up" /\ wire' = Append(wire, Body1(sender.frame))
    BY <1>2, <2>1, PieceProperties, SentOne
  <2>4. CASE link = "up"
    <3>1. wire # << >> /\ wire[Len(wire)] = Head1(sender.frame)
      BY <1>2, <2>1, <2>4
    <3>2. Paired(Append(wire, Body1(sender.frame)))
          /\ ~Unended(Append(wire, Body1(sender.frame)))
      BY <1>2, <2>2, <3>1, PayloadPaired
    <3> QED
      BY <2>1, <2>3, <2>4, <3>2
  <2>5. CASE link # "up"
    BY <1>2, <1>3, <2>1, <2>3, <2>5
  <2> QED
    BY <2>4, <2>5
<1>7. CASE (\E m : Receive(m)) /\ sender' = sender /\ link' = link
  <2>1. PICK m : Receive(m)
    BY <1>7
  <2>2. /\ Paired(wire') /\ (Unended(wire') => Unended(wire))
        /\ Unended(wire) => wire' # << >> /\ wire'[Len(wire')] = wire[Len(wire)]
    BY <1>2, <2>1, ReceivedPaired
  <2>3. (sender.pc = "payload" /\ link = "up") => Unended(wire)
    <3>1. sender.pc = "payload" => HasBody(sender.frame)
      BY DEF Inv, SenderRight, HasBody
    <3>2. Head1(sender.frame).part = "header" /\ Head1(sender.frame).frame = sender.frame
      BY DEF Head1
    <3> QED
      BY <1>2, <3>1, <3>2 DEF Unended
  <2> QED
    BY <1>2, <1>7, <2>2, <2>3
<1>8. CASE link' = "broken" /\ wire' = << >> /\ sender' = sender
  BY <1>8, NonePaired
<1>9. CASE wire' = wire /\ link' = link /\ (sender' = sender \/ SenderTakes)
  <2>1. CASE sender' = sender
    BY <1>2, <1>9, <2>1
  <2>2. CASE SenderTakes
    <3>1. sender.pc = "recv" /\ sender'.pc # "payload"
      BY <2>2 DEF SenderTakes
    <3> QED
      BY <1>2, <1>9, <3>1
  <2> QED
    BY <1>9, <2>1, <2>2
<1>10. ~ReaderReplies
  BY ReplySends
<1>11. CASE MainKills
  BY <1>9, <1>11, KillSends DEF net
<1> QED
  BY <1>1, <1>4, <1>5, <1>6, <1>7, <1>8, <1>9, <1>10, <1>11, PieceMoves

(* Until something is sent without send_lock, by server_kill or by         *)
(* session_handle_message, a message is on the wire as a whole, whatever   *)
(* is acknowledged and written: nothing comes between a header and its     *)
(* payload, and a header that waits for its payload is the last and the    *)
(* sender's.                                                               *)
THEOREM Wholeness == Spec => []WholeIfLocked
<1>1. Init => Mended
  BY InitMended
<1>2. Mended /\ Inv => WholeIfLocked
  <2> SUFFICES ASSUME Mended, Inv, ~unlocked
               PROVE  MessagesWhole
    BY DEF WholeIfLocked
  <2>1. Paired(wire) /\ (sender.pc # "payload" => ~Unended(wire)) /\ wire \in Seq(Piece)
    BY DEF Mended, Inv, Shape
  <2>2. ASSUME NEW i \in DOMAIN wire, wire[i].part = "header", HasBody(wire[i].frame),
               ~(i < Len(wire))
        PROVE  sender.pc = "payload"
    <3>1. i = Len(wire) /\ wire # << >>
      BY <2>1, <2>2, LenProperties, EmptySeq
    <3> QED
      BY <2>1, <2>2, <3>1 DEF Unended
  <2> QED
    BY <2>1, <2>2 DEF MessagesWhole, Paired
<1> QED
  BY <1>1, <1>2, MendedStep, Invariance, PTL DEF Spec

----------------------------------------------------------------------------
(* The channels the three connections belong to *)

OpenOnWire(l) == \E i \in DOMAIN wire : wire[i] = Head1(OpenFrame(l))
PeerOf(l)     == \E d \in DOMAIN streams : streams[d].peer = l
IsOpen(p)     == p.part = "header" /\ p.frame.msg.cmd = "OPEN"
IsWrite(p)    == p.part = "header" /\ p.frame.msg.cmd = "WRTE"

(* The OPENs are accepted, refused or lost in the order they were sent.    *)
OpensInOrder ==
    /\ \A d \in DOMAIN streams : streams[d].peer \in 0 .. Len(channels)
    /\ \A i \in DOMAIN wire : IsOpen(wire[i]) =>
          /\ wire[i].frame.msg.arg0 \in 1 .. Len(channels)
          /\ wire[i].frame = OpenFrame(wire[i].frame.msg.arg0)
          /\ \A d \in DOMAIN streams : streams[d].peer < wire[i].frame.msg.arg0
    /\ \A i, j \in DOMAIN wire : (i < j /\ IsOpen(wire[i]) /\ IsOpen(wire[j])) =>
          wire[i].frame.msg.arg0 < wire[j].frame.msg.arg0

(* The role of a stream tells its channel, and it is the channel's own     *)
(* from the moment the video channel was accepted.                         *)
RoleRight(d) ==
    LET l == streams[d].peer
    IN  /\ streams[d].role = "other" <=> l = 0
        /\ streams[d].role = "shell" <=> l = 1
        /\ streams[d].role = "kill" <=> l > 4
        /\ PeerOf(2) => \A k \in Kinds : l = Local[k] => streams[d].role = k

RolesRight == \A d \in DOMAIN streams : RoleRight(d)

(* The audio channel is not skipped: once video is accepted nothing is     *)
(* refused any more.                                                       *)
NoneSkipped ==
    ((PeerOf(2) \/ OpenOnWire(2)) /\ OpenOnWire(4)) => (PeerOf(3) \/ OpenOnWire(3))

(* The start goes on from its first wait only with an open video channel.  *)
VideoOpen == main \notin {"video", "failed"} => PeerOf(2)

Roled == OpensInOrder /\ RolesRight /\ NoneSkipped /\ VideoOpen

(* What is sent now; the only new OPEN is that of server_kill. *)
SentNow(p) ==
    /\ IsOpen(p) => /\ MainKills /\ p.frame = OpenFrame(Len(channels) + 1)
                    /\ channels' = Append(channels, Opening(Len(channels) + 1))
    /\ IsWrite(p) => /\ SenderSendsHeader /\ p.frame.data = sender.frame.data
                     /\ p.frame.msg.arg1 = channels[4].remote
                     /\ p.frame.msg.cmd = "WRTE" /\ ToStream(p.frame.msg)

(* The first n pieces are taken off the wire, all are lost, or one is put  *)
(* on it.                                                                  *)
MovedBy(n) ==
    /\ \A m : Receive(m) =>
          /\ n \in {1, 2} /\ 1 \in DOMAIN wire /\ wire[1].frame.msg = m
          /\ wire[1] = Head1(wire[1].frame)
          /\ n = 2 => wire[2].part = "payload"
    /\ n > 0 => \E m : Receive(m)
    /\ \A i \in DOMAIN wire :
          i \in 1 .. n \/ (i - n \in DOMAIN wire' /\ wire'[i - n] = wire[i])
          \/ wire' = << >>
    /\ \A i \in DOMAIN wire' :
          \/ i + n \in DOMAIN wire /\ wire'[i] = wire[i + n]
          \/ n = 0 /\ i = Len(wire') /\ i = Len(wire) + 1 /\ SentNow(wire'[i])

LEMMA WireFrom == ASSUME Inv, [Next]_vars PROVE \E n \in {0, 1, 2} : MovedBy(n)
<1> DEFINE Goal == \E n \in {0, 1, 2} : MovedBy(n)
<1> SUFFICES Goal
  OBVIOUS
<1>1. wire \in Seq(Piece) /\ DOMAIN wire = 1 .. Len(wire) /\ Len(wire) \in Nat
  BY LenProperties DEF Inv, Shape
<1>2. ASSUME wire' = wire, ~\E m : Receive(m) PROVE Goal
  <2>1. \A i \in DOMAIN wire : i + 0 = i /\ i - 0 = i
    BY <1>1
  <2> QED
    BY <1>2, <2>1 DEF MovedBy
<1>3. ASSUME wire' = << >>, ~\E m : Receive(m) PROVE Goal
  BY <1>3, EmptySeq DEF MovedBy
<1>4. ASSUME NEW p \in Piece, wire' = Sent(<< p >>), SentNow(p), ~\E m : Receive(m) PROVE Goal
  <2>1. CASE wire' = wire
    BY <1>2, <1>4, <2>1
  <2>2. CASE wire' = Append(wire, p)
    <3>1. /\ DOMAIN Append(wire, p) = 1 .. Len(wire) + 1
          /\ Len(Append(wire, p)) = Len(wire) + 1
          /\ Append(wire, p)[Len(wire) + 1] = p
          /\ \A i \in 1 .. Len(wire) : Append(wire, p)[i] = wire[i]
      BY <1>1, PutProperties
    <3>2. /\ DOMAIN wire' = 1 .. Len(wire) + 1 /\ Len(wire') = Len(wire) + 1
          /\ wire'[Len(wire) + 1] = p /\ \A i \in 1 .. Len(wire) : wire'[i] = wire[i]
      BY <2>2, <3>1
    <3>3. \A i \in DOMAIN wire : i - 0 = i /\ i - 0 \in DOMAIN wire' /\ wire'[i - 0] = wire[i]
      BY <1>1, <3>2
    <3>4. ASSUME NEW i \in DOMAIN wire'
          PROVE  \/ i + 0 \in DOMAIN wire /\ wire'[i] = wire[i + 0]
                 \/ i = Len(wire') /\ i = Len(wire) + 1 /\ SentNow(wire'[i])
      <4>1. i + 0 = i /\ (i \in 1 .. Len(wire) \/ i = Len(wire) + 1)
        BY <1>1, <3>2, <3>4
      <4> QED
        BY <1>1, <1>4, <3>2, <4>1
    <3> QED
      BY <1>4, <3>3, <3>4 DEF MovedBy
  <2> QED
    BY <1>4, <2>1, <2>2, SentOne
<1>5. ASSUME NEW m, Receive(m) PROVE Goal
  <2>1. PICK n \in {1, 2} :
          /\ Len(wire) >= n /\ Len(wire') = Len(wire) - n
          /\ DOMAIN wire' = 1 .. Len(wire')
          /\ \A i \in 1 .. Len(wire') : wire'[i] = wire[i + n]
          /\ wire[1] = Head1(wire[1].frame) /\ wire[1].frame.msg = m
          /\ IF HasBody(wire[1].frame) THEN n = 2 /\ wire[2] = Body1(wire[1].frame) ELSE n = 1
    BY <1>5, ReceivedRest
  <2>2. \A x : Receive(x) => x = m
    BY <1>5 DEF Receive
  <2>3. 1 \in DOMAIN wire /\ n > 0
    BY <1>1, <2>1
  <2>4. n = 2 => wire[2].part = "payload"
    BY <2>1 DEF Body1
  <2>5. ASSUME NEW i \in DOMAIN wire, i \notin 1 .. n
        PROVE  i - n \in DOMAIN wire' /\ wire'[i - n] = wire[i]
    <3>1. i - n \in 1 .. Len(wire') /\ (i - n) + n = i
      BY <1>1, <2>1, <2>5
    <3>2. wire'[i - n] = wire[(i - n) + n]
      BY <2>1, <3>1
    <3> QED
      BY <2>1, <3>1, <3>2
  <2>6. ASSUME NEW i \in DOMAIN wire'
        PROVE  i + n \in DOMAIN wire /\ wire'[i] = wire[i + n]
    BY <1>1, <2>1, <2>6
  <2> QED
    BY <1>5, <2>1, <2>2, <2>3, <2>4, <2>5, <2>6 DEF MovedBy
<1>6. (\E m : Receive(m)) => Goal
  BY <1>5
<1> HIDE DEF Goal
<1>7. CASE ReaderAcks
  <2>1. PICK f \in FrameSet : f.msg.cmd = "OKAY" /\ wire' = Sent(<< Head1(f) >>)
    BY <1>7, AckSent
  <2>2. Head1(f) \in Piece /\ SentNow(Head1(f))
    BY <2>1, PieceProperties DEF SentNow, IsOpen, IsWrite
  <2> QED
    BY <1>4, <1>6, <2>1, <2>2
<1>8. CASE SenderSendsHeader
  <2>1. PICK f \in FrameSet :
          /\ f.msg.cmd = "WRTE" /\ ToStream(f.msg) /\ wire' = Sent(<< Head1(f) >>)
          /\ f.msg.arg1 = channels[4].remote /\ f.data = sender.frame.data
    BY <1>8, HeaderSent
  <2>2. Head1(f) \in Piece /\ SentNow(Head1(f))
    BY <1>8, <2>1, PieceProperties DEF SentNow, IsOpen, IsWrite
  <2> QED
    BY <1>4, <1>6, <2>1, <2>2
<1>9. CASE SenderSendsPayload
  <2>1. wire' = Sent(<< Body1(sender.frame) >>) /\ sender.frame \in FrameSet
    BY <1>9 DEF SenderSendsPayload, Inv, Shape
  <2>2. Body1(sender.frame) \in Piece /\ SentNow(Body1(sender.frame))
    BY <2>1, PieceProperties DEF SentNow, IsOpen, IsWrite
  <2> QED
    BY <1>4, <1>6, <2>1, <2>2
<1>10. CASE MainKills
  <2>1. CASE wire' = wire
    BY <1>2, <1>6, <2>1
  <2>2. ASSUME NEW p \in Piece, wire' = Sent(<< p >>), p.frame.msg.cmd = "OPEN",
               \/ /\ p = Head1(OpenFrame(Len(channels) + 1)) /\ p.part = "header"
                  /\ channels' = Append(channels, Opening(Len(channels) + 1))
               \/ p.part = "payload"
        PROVE  Goal
    <3>1. SentNow(p)
      BY <1>10, <2>2 DEF SentNow, IsOpen, IsWrite, Head1
    <3> QED
      BY <1>4, <1>6, <2>2, <3>1
  <2> QED
    BY <1>10, <2>1, <2>2, KillSends DEF net
<1>11. CASE ReaderReplies
  <2>1. PICK p \in Piece : wire' = Sent(<< p >>) /\ ReplyRight(p.frame.msg)
    BY <1>11, ReplySends
  <2>2. SentNow(p)
    BY <2>1 DEF SentNow, IsOpen, IsWrite, ReplyRight
  <2> QED
    BY <1>4, <1>6, <2>1, <2>2
<1> QED
  BY <1>2, <1>3, <1>6, <1>7, <1>8, <1>9, <1>10, <1>11, PieceMoves

LEMMA TableGrows ==
    ASSUME Inv, [Next]_vars
    PROVE  /\ Len(channels) \in Nat /\ Len(channels) >= 4 /\ Len(channels') \in Nat
           /\ Len(channels) <= Len(channels')
           /\ DOMAIN channels = 1 .. Len(channels)
<1>1. channels \in Seq(Channel) /\ Len(channels) \in Nat /\ Len(channels) >= 4
      /\ DOMAIN channels = 1 .. Len(channels)
  BY LenProperties DEF Inv, Shape
<1>2. CASE Kept(channels')
  BY <1>1, <1>2 DEF Kept
<1>3. CASE channels' = Append(channels, Opening(Len(channels) + 1))
  <2>1. Opening(Len(channels) + 1) \in Channel
    BY <1>1 DEF Opening, Channel
  <2> QED
    BY <1>1, <1>3, <2>1, PutProperties
<1> QED
  BY <1>1, <1>2, <1>3, TableStep

(* Only accepting adds a stream. *)
LEMMA DomainGrows ==
    ASSUME Inv, [Next]_vars
    PROVE  DeviceAccepts \/ DOMAIN streams' = DOMAIN streams
<1>1. CASE DeviceReceives
  BY <1>1 DEF DeviceReceives, device
<1>2. CASE \E e \in DOMAIN streams : DeviceWrites(e) \/ DeviceCloses(e)
  BY <1>2 DEF DeviceWrites, DeviceCloses
<1>3. CASE streams' = streams
  BY <1>3
<1>4. \/ DeviceAccepts \/ DeviceReceives \/ streams' = streams
      \/ \E e \in DOMAIN streams : DeviceWrites(e) \/ DeviceCloses(e)
  BY DEF Next, Reader, ReaderReplies, ReaderReceives, ReaderOkay, ReaderAcks,
         ReaderRelays, ReaderStops, Sender, SenderTakes, SenderSendsHeader,
         SenderSendsPayload, Main, MainReadsAudioMetadata, MainWaits,
         MainReadsMetadata, ControlWritten, MainKills, ConsumerReads, ConsumerEnds,
         Break, Device, DeviceAsks, DeviceConfused, DeviceRefuses, vars, device
<1> QED
  BY <1>1, <1>2, <1>3, <1>4

(* A new stream is the one adbd makes for the OPEN it takes. *)
LEMMA StreamFrom ==
    ASSUME Inv, [Next]_vars, NEW d \in DOMAIN streams', d \notin DOMAIN streams
    PROVE  \E l \in DOMAIN channels :
              /\ l \in Nat /\ Receive(OpenMsg(l))
              /\ streams'[d].peer = l /\ streams'[d].role = RoleOf(l)
<1>1. CASE DeviceAccepts
  <2>1. PICK l \in DOMAIN channels :
           /\ l \in Nat /\ Receive(OpenMsg(l))
           /\ streams' = Append(streams, Stream(l, RoleOf(l)))
           /\ Stream(l, RoleOf(l)) \in DevStream
    BY <1>1, AcceptedStep
  <2>2. /\ DOMAIN streams' = 1 .. Len(streams) + 1 /\ DOMAIN streams = 1 .. Len(streams)
        /\ Len(streams) \in Nat /\ streams'[Len(streams) + 1] = Stream(l, RoleOf(l))
    BY <2>1, PutProperties DEF Inv, Shape
  <2>3. streams'[d] = Stream(l, RoleOf(l))
    BY <2>2
  <2>4. l \in Nat /\ RoleOf(l) \in DevRoles
    BY <2>1, RoleOfType
  <2>5. Stream(l, RoleOf(l)).peer = l /\ Stream(l, RoleOf(l)).role = RoleOf(l)
    BY <2>4, StreamType
  <2> QED
    BY <2>1, <2>3, <2>5
<1>2. CASE DOMAIN streams' = DOMAIN streams
  BY <1>2
<1> QED
  BY <1>1, <1>2, DomainGrows

(* The OPEN taken is the first: of the channels, those before it were      *)
(* taken, those after it are still on the wire.                            *)
LEMMA OpenTaken ==
    ASSUME Inv, OpensInOrder, NEW l \in Nat, Receive(OpenMsg(l))
    PROVE  /\ 1 \in DOMAIN wire /\ wire[1] = Head1(OpenFrame(l)) /\ l \in 1 .. Len(channels)
           /\ \A d \in DOMAIN streams : streams[d].peer < l
           /\ \A i \in DOMAIN wire : IsOpen(wire[i]) =>
                 i = 1 \/ wire[i].frame.msg.arg0 > l
<1>1. /\ 1 \in DOMAIN wire /\ wire[1] = Head1(wire[1].frame)
      /\ wire[1].frame.msg = OpenMsg(l) /\ DOMAIN wire = 1 .. Len(wire)
  BY ReceivedProperties, LenProperties DEF Inv, Shape
<1>2. IsOpen(wire[1]) /\ wire[1].frame.msg.arg0 = l
  BY <1>1, OpenFrameType DEF IsOpen, Head1
<1>3. /\ l \in 1 .. Len(channels) /\ wire[1].frame = OpenFrame(l)
      /\ \A d \in DOMAIN streams : streams[d].peer < l
  BY <1>1, <1>2 DEF OpensInOrder
<1>4. ASSUME NEW i \in DOMAIN wire, IsOpen(wire[i]), i # 1
      PROVE  wire[i].frame.msg.arg0 > l
  <2>1. 1 < i
    BY <1>1, <1>4
  <2>2. wire[i].frame.msg.arg0 \in 1 .. Len(channels)
    BY <1>4 DEF OpensInOrder
  <2> QED
    BY <1>1, <1>2, <1>4, <2>1, <2>2 DEF OpensInOrder
<1> QED
  BY <1>1, <1>3, <1>4

LEMMA OpensInOrderStep ==
    ASSUME Inv, OpensInOrder, [Next]_vars
    PROVE  OpensInOrder'
<1>1. PICK n \in {0, 1, 2} : MovedBy(n)
  BY WireFrom
<1>2. /\ DOMAIN wire = 1 .. Len(wire) /\ Len(wire) \in Nat
      /\ DOMAIN wire' = 1 .. Len(wire') /\ Len(wire') \in Nat
  BY WireRight, LenProperties DEF Inv, Shape
<1>3. ASSUME NEW d \in DOMAIN streams'
      PROVE  /\ streams'[d].peer \in 0 .. Len(channels')
             /\ streams'[d].peer \in 0 .. Len(channels)
             /\ \/ d \in DOMAIN streams /\ streams'[d].peer = streams[d].peer
                \/ n > 0 /\ wire[1].frame.msg = OpenMsg(streams'[d].peer)
                   /\ Receive(OpenMsg(streams'[d].peer)) /\ streams'[d].peer \in Nat
  <2>1. CASE d \in DOMAIN streams
    <3>1. streams'[d].peer = streams[d].peer /\ streams[d].peer \in 0 .. Len(channels)
      BY <2>1, StreamsStep DEF OpensInOrder
    <3> QED
      BY <2>1, <3>1, TableGrows
  <2>2. CASE d \notin DOMAIN streams
    <3>1. PICK l \in DOMAIN channels :
            l \in Nat /\ Receive(OpenMsg(l)) /\ streams'[d].peer = l
      BY <2>2, StreamFrom
    <3>2. n > 0 /\ wire[1].frame.msg = OpenMsg(l)
      BY <1>1, <3>1 DEF MovedBy
    <3> QED
      BY <3>1, <3>2, TableGrows
  <2> QED
    BY <2>1, <2>2
<1>4. ASSUME NEW i \in DOMAIN wire', IsOpen(wire'[i])
      PROVE  \/ /\ i + n \in DOMAIN wire /\ wire'[i] = wire[i + n]
                /\ wire'[i].frame.msg.arg0 \in 1 .. Len(channels)
                /\ wire'[i].frame = OpenFrame(wire'[i].frame.msg.arg0)
             \/ /\ n = 0 /\ i = Len(wire')
                /\ wire'[i].frame.msg.arg0 = Len(channels) + 1
                /\ Len(channels') = Len(channels) + 1
                /\ wire'[i].frame = OpenFrame(wire'[i].frame.msg.arg0)
  <2>1. CASE i + n \in DOMAIN wire /\ wire'[i] = wire[i + n]
    <3>1. IsOpen(wire[i + n])
      BY <1>4, <2>1
    <3> QED
      BY <2>1, <3>1 DEF OpensInOrder
  <2>2. CASE n = 0 /\ i = Len(wire') /\ SentNow(wire'[i])
    <3>1. /\ channels' = Append(channels, Opening(Len(channels) + 1))
          /\ wire'[i].frame = OpenFrame(Len(channels) + 1)
      BY <1>4, <2>2 DEF SentNow
    <3>2. Len(channels) \in Nat /\ Opening(Len(channels) + 1) \in Channel
      BY TableGrows DEF Opening, Channel
    <3>3. Len(channels') = Len(channels) + 1
      BY <3>1, <3>2, PutProperties DEF Inv, Shape
    <3>4. wire'[i].frame.msg.arg0 = Len(channels) + 1
      BY <3>1, <3>2, OpenFrameType
    <3> QED
      BY <2>2, <3>1, <3>3, <3>4
  <2> QED
    BY <1>1, <1>4, <2>1, <2>2 DEF MovedBy
<1>5. ASSUME NEW i \in DOMAIN wire', IsOpen(wire'[i])
      PROVE  /\ wire'[i].frame.msg.arg0 \in 1 .. Len(channels')
             /\ wire'[i].frame = OpenFrame(wire'[i].frame.msg.arg0)
             /\ \A d \in DOMAIN streams' : streams'[d].peer < wire'[i].frame.msg.arg0
  <2>1. wire'[i].frame.msg.arg0 \in 1 .. Len(channels')
    BY <1>4, <1>5, TableGrows
  <2>2. wire'[i].frame = OpenFrame(wire'[i].frame.msg.arg0)
    BY <1>4, <1>5
  <2>3. ASSUME NEW d \in DOMAIN streams'
        PROVE  streams'[d].peer < wire'[i].frame.msg.arg0
    <3>1. CASE n = 0 /\ wire'[i].frame.msg.arg0 = Len(channels) + 1
      BY <1>3, <2>3, <3>1, TableGrows
    <3>2. CASE i + n \in DOMAIN wire /\ wire'[i] = wire[i + n]
      <4>1. CASE d \in DOMAIN streams /\ streams'[d].peer = streams[d].peer
        BY <1>5, <3>2, <4>1 DEF OpensInOrder
      <4>2. CASE n > 0 /\ Receive(OpenMsg(streams'[d].peer)) /\ streams'[d].peer \in Nat
        <5>1. i + n # 1
          BY <1>2, <1>5, <4>2
        <5> QED
          BY <1>5, <3>2, <4>2, <5>1, OpenTaken
      <4> QED
        BY <1>3, <4>1, <4>2
    <3> QED
      BY <1>4, <1>5, <3>1, <3>2
  <2> QED
    BY <2>1, <2>2, <2>3
<1>6. ASSUME NEW i \in DOMAIN wire', NEW j \in DOMAIN wire', i < j,
             IsOpen(wire'[i]), IsOpen(wire'[j])
      PROVE  wire'[i].frame.msg.arg0 < wire'[j].frame.msg.arg0
  <2>1. i # Len(wire')
    BY <1>2, <1>6
  <2>2. /\ i + n \in DOMAIN wire /\ wire'[i] = wire[i + n]
        /\ wire'[i].frame.msg.arg0 \in 1 .. Len(channels)
    BY <1>4, <1>6, <2>1
  <2>3. CASE j + n \in DOMAIN wire /\ wire'[j] = wire[j + n]
    <3>1. i + n < j + n
      BY <1>2, <1>6
    <3> QED
      BY <1>6, <2>2, <2>3, <3>1 DEF OpensInOrder
  <2>4. CASE wire'[j].frame.msg.arg0 = Len(channels) + 1
    BY <2>2, <2>4, TableGrows
  <2> QED
    BY <1>4, <1>6, <2>3, <2>4
<1> QED
  BY <1>3, <1>5, <1>6 DEF OpensInOrder, IsOpen

LEMMA LocalNumbers ==
    /\ Local["shell"] = 1 /\ Local["video"] = 2 /\ Local["audio"] = 3 /\ Local["control"] = 4
    /\ Kinds = {"video", "audio", "control"}
    /\ \A k \in Kinds : Local[k] \in {2, 3, 4}
  BY DEF Local, Kinds, Roles

(* The role scrcpy-server gives the channel whose OPEN is taken. *)
LEMMA RoleGiven ==
    ASSUME Inv, Roled, NEW l \in Nat, Receive(OpenMsg(l))
    PROVE  /\ l = 1 => RoleOf(l) = "shell"
           /\ l > 4 => RoleOf(l) = "kill"
           /\ l \in {2, 3, 4} => RoleOf(l) \in Kinds
           /\ l = 2 => RoleOf(l) = "video"
           /\ (l = 3 /\ PeerOf(2)) => RoleOf(l) = "audio"
           /\ (l = 4 /\ PeerOf(2)) => RoleOf(l) = "control"
<1>1. /\ 1 \in DOMAIN wire /\ l \in 1 .. Len(channels)
      /\ \A d \in DOMAIN streams : streams[d].peer < l
      /\ wire[1] = Head1(OpenFrame(l))
      /\ \A i \in DOMAIN wire : IsOpen(wire[i]) =>
            i = 1 \/ wire[i].frame.msg.arg0 > l
  BY OpenTaken DEF Roled
<1>2. l = 1 => RoleOf(l) = "shell"
  BY LocalNumbers DEF RoleOf
<1>3. l > 4 => RoleOf(l) = "kill"
  BY LocalNumbers DEF RoleOf
<1>4. l \in {2, 3, 4} => RoleOf(l) = IF "video" \notin Accepted THEN "video"
                                     ELSE IF "audio" \notin Accepted THEN "audio"
                                     ELSE "control"
  BY LocalNumbers DEF RoleOf
<1>5. ASSUME NEW d \in DOMAIN streams
      PROVE  /\ streams[d].peer \in Nat /\ streams[d].peer < l
             /\ streams[d].role \in Kinds => streams[d].peer \in {2, 3, 4}
             /\ PeerOf(2) => \A k \in Kinds : streams[d].peer = Local[k] => streams[d].role = k
  <2>1. /\ streams[d].peer \in Nat /\ RoleRight(d) /\ streams[d].role \in DevRoles
    BY StreamEntry DEF Roled, RolesRight
  <2> QED
    BY <1>1, <2>1, LocalNumbers DEF RoleRight
<1>6. \A k \in Kinds : k \in Accepted <=> \E d \in DOMAIN streams : streams[d].role = k
  BY LocalNumbers DEF Accepted
<1>7. l = 2 => "video" \notin Accepted
  <2> SUFFICES ASSUME l = 2, "video" \in Accepted PROVE FALSE
    OBVIOUS
  <2>1. PICK d \in DOMAIN streams : streams[d].role = "video"
    BY <1>6, LocalNumbers
  <2> QED
    BY <1>5, <2>1, LocalNumbers
<1>8. PeerOf(2) => "video" \in Accepted
  <2> SUFFICES ASSUME PeerOf(2) PROVE "video" \in Accepted
    OBVIOUS
  <2>1. PICK d \in DOMAIN streams : streams[d].peer = 2
    BY DEF PeerOf
  <2> QED
    BY <1>5, <1>6, <2>1, LocalNumbers
<1>9. (l = 3 /\ PeerOf(2)) => "audio" \notin Accepted
  <2> SUFFICES ASSUME l = 3, PeerOf(2), "audio" \in Accepted PROVE FALSE
    OBVIOUS
  <2>1. PICK d \in DOMAIN streams : streams[d].role = "audio"
    BY <1>6, LocalNumbers
  <2>2. streams[d].peer = 2
    BY <1>5, <2>1, LocalNumbers
  <2>3. streams[d].role = "video"
    BY <1>5, <2>2, LocalNumbers
  <2> QED
    BY <2>1, <2>3
<1>10. (l = 4 /\ PeerOf(2)) => "audio" \in Accepted
  <2> SUFFICES ASSUME l = 4, PeerOf(2) PROVE "audio" \in Accepted
    OBVIOUS
  <2>1. OpenOnWire(4)
    BY <1>1 DEF OpenOnWire
  <2>2. ~OpenOnWire(3)
    <3> SUFFICES ASSUME NEW i \in DOMAIN wire, wire[i] = Head1(OpenFrame(3)) PROVE FALSE
      BY DEF OpenOnWire
    <3>1. IsOpen(wire[i]) /\ wire[i].frame.msg.arg0 = 3
      BY OpenFrameType DEF IsOpen, Head1
    <3>2. i = 1
      BY <1>1, <3>1
    <3>3. wire[1].frame.msg.arg0 = 4
      BY <1>1, OpenFrameType DEF Head1
    <3> QED
      BY <3>1, <3>2, <3>3
  <2>3. PeerOf(3)
    BY <2>1, <2>2 DEF Roled, NoneSkipped
  <2>4. PICK d \in DOMAIN streams : streams[d].peer = 3
    BY <2>3 DEF PeerOf
  <2>5. streams[d].role = "audio"
    BY <1>5, <2>4, LocalNumbers
  <2> QED
    BY <1>6, <2>5, LocalNumbers
<1> QED
  BY <1>2, <1>3, <1>4, <1>7, <1>8, <1>9, <1>10, LocalNumbers

(* A channel is a stream's from the moment its OPEN is accepted, and its   *)
(* OPEN on the wire was there from the start.                              *)
LEMMA OpensFrom ==
    ASSUME Inv, Roled, [Next]_vars, NEW l \in {2, 3, 4}
    PROVE  /\ PeerOf(l)' => PeerOf(l) \/ Receive(OpenMsg(l))
           /\ Receive(OpenMsg(l)) => OpenOnWire(l)
           /\ PeerOf(l) => PeerOf(l)'
           /\ OpenOnWire(l)' => OpenOnWire(l)
<1>1. PeerOf(l)' => PeerOf(l) \/ Receive(OpenMsg(l))
  <2> SUFFICES ASSUME NEW d \in DOMAIN streams', streams'[d].peer = l
               PROVE  PeerOf(l) \/ Receive(OpenMsg(l))
    BY DEF PeerOf
  <2> QED
    BY StreamsStep, StreamFrom DEF PeerOf
<1>2. Receive(OpenMsg(l)) => OpenOnWire(l)
  BY OpenTaken DEF OpenOnWire, Roled
<1>3. PeerOf(l) => PeerOf(l)'
  BY PeersKept DEF PeerOf
<1>4. ASSUME NEW i \in DOMAIN wire', wire'[i] = Head1(OpenFrame(l))
      PROVE  OpenOnWire(l)
  <2>1. IsOpen(wire'[i]) /\ wire'[i].frame = OpenFrame(l)
    BY <1>4, OpenFrameType DEF IsOpen, Head1
  <2>2. PICK n \in {0, 1, 2} : MovedBy(n)
    BY WireFrom
  <2>3. OpenFrame(l) # OpenFrame(Len(channels) + 1)
    <3>1. OpenFrame(l).data = l
      BY OpenFrameType
    <3>2. OpenFrame(Len(channels) + 1).data = Len(channels) + 1 /\ l # Len(channels) + 1
      BY TableGrows, OpenFrameType
    <3> QED
      BY <3>1, <3>2
  <2>4. i + n \in DOMAIN wire /\ wire'[i] = wire[i + n]
    BY <2>1, <2>2, <2>3 DEF MovedBy, SentNow
  <2> QED
    BY <1>4, <2>4 DEF OpenOnWire
<1>5. OpenOnWire(l)' => OpenOnWire(l)
  BY <1>4 DEF OpenOnWire
<1> QED
  BY <1>1, <1>2, <1>3, <1>5

LEMMA RolesRightStep ==
    ASSUME Inv, Roled, [Next]_vars
    PROVE  RolesRight'
<1> SUFFICES ASSUME NEW d \in DOMAIN streams' PROVE RoleRight(d)'
  BY DEF RolesRight
<1>1. PeerOf(2)' => PeerOf(2) \/ Receive(OpenMsg(2))
  BY OpensFrom
<1>2. CASE d \in DOMAIN streams
  <2>1. /\ streams'[d].peer = streams[d].peer /\ streams'[d].role = streams[d].role
        /\ streams[d].peer \in Nat
    BY <1>2, StreamsStep, StreamEntry
  <2>2. RoleRight(d)
    BY <1>2 DEF Roled, RolesRight
  <2>3. CASE Receive(OpenMsg(2))
    <3>1. streams[d].peer < 2
      BY <1>2, <2>3, OpenTaken DEF Roled
    <3>2. \A k \in Kinds : streams[d].peer # Local[k]
      BY <2>1, <3>1, LocalNumbers
    <3> QED
      BY <2>1, <2>2, <3>2 DEF RoleRight
  <2>4. CASE PeerOf(2)' => PeerOf(2)
    BY <2>1, <2>2, <2>4 DEF RoleRight
  <2> QED
    BY <1>1, <2>3, <2>4
<1>3. CASE d \notin DOMAIN streams
  <2>1. PICK l \in DOMAIN channels :
          /\ l \in Nat /\ Receive(OpenMsg(l))
          /\ streams'[d].peer = l /\ streams'[d].role = RoleOf(l)
    BY <1>3, StreamFrom
  <2>2. l \in 1 .. Len(channels) /\ Len(channels) \in Nat
    BY <2>1, OpenTaken, TableGrows DEF Roled
  <2>3. /\ l = 1 => RoleOf(l) = "shell"
        /\ l > 4 => RoleOf(l) = "kill"
        /\ l \in {2, 3, 4} => RoleOf(l) \in Kinds
        /\ l = 2 => RoleOf(l) = "video"
        /\ (l = 3 /\ PeerOf(2)) => RoleOf(l) = "audio"
        /\ (l = 4 /\ PeerOf(2)) => RoleOf(l) = "control"
    BY <2>1, RoleGiven
  <2>4. l = 1 \/ l > 4 \/ l \in {2, 3, 4}
    BY <2>2
  <2>5. (PeerOf(2)' /\ l # 2) => PeerOf(2)
    <3>1. Receive(OpenMsg(2)) => l = 2
      <4>1. Receive(OpenMsg(2)) => OpenMsg(2) = OpenMsg(l)
        BY <2>1 DEF Receive
      <4>2. OpenMsg(2).arg0 = 2 /\ OpenMsg(l).arg0 = l
        BY DEF OpenMsg, Msg
      <4> QED
        BY <4>1, <4>2
    <3> QED
      BY <1>1, <3>1
  <2>6. /\ streams'[d].role = "other" <=> l = 0
        /\ streams'[d].role = "shell" <=> l = 1
        /\ streams'[d].role = "kill" <=> l > 4
    BY <2>1, <2>2, <2>3, <2>4, LocalNumbers
  <2>7. ASSUME PeerOf(2)', NEW k \in Kinds, l = Local[k]
        PROVE  streams'[d].role = k
    BY <2>1, <2>3, <2>5, <2>7, LocalNumbers
  <2> QED
    BY <2>1, <2>6, <2>7 DEF RoleRight
<1> QED
  BY <1>2, <1>3

(* Only adbd takes a message off the wire. *)
LEMMA TakenByDevice ==
    ASSUME Inv, [Next]_vars, NEW m, Receive(m), wire' # << >>
    PROVE  DeviceAccepts \/ DeviceRefuses \/ DeviceReceives
<1>1. Len(wire') < Len(wire) /\ Len(wire) \in Nat /\ Len(wire') \in Nat
  <2>1. PICK n \in {1, 2} : /\ Len(wire) \in Nat /\ Len(wire) >= n /\ wire' \in Seq(Piece)
                            /\ Len(wire') = Len(wire) - n
    BY ReceivedRest
  <2> QED
    BY <2>1
<1>2. ASSUME NEW p \in Piece, wire' = Sent(<< p >>) PROVE FALSE
  <2>1. Len(Append(wire, p)) = Len(wire) + 1
    BY PutProperties DEF Inv, Shape
  <2> QED
    BY <1>1, <1>2, <2>1, SentOne
<1>3. ~ReaderAcks
  <2> SUFFICES ASSUME ReaderAcks PROVE FALSE
    OBVIOUS
  <2>1. PICK f \in FrameSet : wire' = Sent(<< Head1(f) >>)
    BY AckSent
  <2> QED
    BY <1>2, <2>1, PieceProperties
<1>4. ~SenderSendsHeader
  <2> SUFFICES ASSUME SenderSendsHeader PROVE FALSE
    OBVIOUS
  <2>1. PICK f \in FrameSet : wire' = Sent(<< Head1(f) >>)
    BY HeaderSent
  <2> QED
    BY <1>2, <2>1, PieceProperties
<1>5. ~SenderSendsPayload
  <2> SUFFICES ASSUME SenderSendsPayload PROVE FALSE
    OBVIOUS
  <2>1. wire' = Sent(<< Body1(sender.frame) >>) /\ sender.frame \in FrameSet
    BY DEF SenderSendsPayload, Inv, Shape
  <2> QED
    BY <1>2, <2>1, PieceProperties
<1>7. wire' # wire
  BY <1>1
<1>6. ~MainKills
  <2> SUFFICES ASSUME MainKills PROVE FALSE
    OBVIOUS
  <2>1. (\E p \in Piece : wire' = Sent(<< p >>)) \/ wire' = wire
    BY KillSends DEF net
  <2> QED
    BY <1>2, <1>7, <2>1
<1>8. ~ReaderReplies
  BY <1>2, ReplySends
<1> QED
  BY <1>3, <1>4, <1>5, <1>6, <1>7, <1>8
  DEF Next, Reader, ReaderReceives, ReaderOkay, ReaderRelays, ReaderStops, Sender,
         SenderTakes, Main, MainReadsAudioMetadata, MainWaits, MainReadsMetadata,
         ControlWritten, ConsumerReads, ConsumerEnds, Break, Device, DeviceAsks,
         DeviceConfused, DeviceWrites, DeviceCloses, vars, net

LEMMA NoneSkippedStep ==
    ASSUME Inv, Roled, [Next]_vars
    PROVE  NoneSkipped'
<1> SUFFICES ASSUME PeerOf(2)' \/ OpenOnWire(2)', OpenOnWire(4)', ~PeerOf(3)'
             PROVE  OpenOnWire(3)'
  BY DEF NoneSkipped
<1>1. OpenOnWire(4) /\ (PeerOf(2) \/ OpenOnWire(2)) /\ ~PeerOf(3)
  BY OpensFrom
<1>2. PICK i \in DOMAIN wire : wire[i] = Head1(OpenFrame(3))
  <2>1. OpenOnWire(3)
    BY <1>1 DEF Roled, NoneSkipped
  <2> QED
    BY <2>1 DEF OpenOnWire
<1>3. wire' # << >>
  BY DEF OpenOnWire
<1>4. PICK n \in {0, 1, 2} : MovedBy(n)
  BY WireFrom
<1>5. CASE i - n \in DOMAIN wire' /\ wire'[i - n] = wire[i]
  BY <1>2, <1>5 DEF OpenOnWire
<1>6. CASE i \in 1 .. n
  <2>1. n > 0
    BY <1>6
  <2>2. PICK m : Receive(m)
    BY <1>4, <2>1 DEF MovedBy
  <2>3. wire[1].frame.msg = m /\ (n = 2 => wire[2].part = "payload")
    BY <1>4, <2>2 DEF MovedBy
  <2>4. wire[i].part = "header" /\ wire[i].frame = OpenFrame(3)
    BY <1>2 DEF Head1
  <2>5. i = 1
    BY <1>6, <2>3, <2>4
  <2>6. m = OpenMsg(3)
    BY <2>3, <2>4, <2>5, OpenFrameType
  <2>7. ~DeviceReceives
    <3>1. DeviceReceives => \E x : Receive(x) /\ x.cmd \in {"OKAY", "WRTE", "AUTH"}
      BY DEF DeviceReceives
    <3>2. \A x : Receive(x) => x = OpenMsg(3)
      BY <2>2, <2>6 DEF Receive
    <3>3. OpenMsg(3).cmd = "OPEN"
      BY OpenFrameType
    <3> QED
      BY <3>1, <3>2, <3>3
  <2>8. ~DeviceAccepts
    <3> SUFFICES ASSUME DeviceAccepts PROVE FALSE
      OBVIOUS
    <3>1. PICK l \in DOMAIN channels :
             /\ l \in Nat /\ Receive(OpenMsg(l))
             /\ streams' = Append(streams, Stream(l, RoleOf(l)))
             /\ Stream(l, RoleOf(l)) \in DevStream
      BY AcceptedStep
    <3>2. l = 3
      <4>1. OpenMsg(l) = OpenMsg(3)
        BY <2>2, <2>6, <3>1 DEF Receive
      <4> QED
        BY <3>1, <4>1, OpenFrameType
    <3>3. /\ DOMAIN streams' = 1 .. Len(streams) + 1 /\ Len(streams) \in Nat
          /\ streams'[Len(streams) + 1] = Stream(l, RoleOf(l))
      BY <3>1, PutProperties DEF Inv, Shape
    <3>4. l \in Nat /\ RoleOf(l) \in DevRoles
      BY <3>1, RoleOfType
    <3>5. Stream(l, RoleOf(l)).peer = l
      BY <3>4, StreamType
    <3>6. Len(streams) + 1 \in DOMAIN streams' /\ streams'[Len(streams) + 1].peer = 3
      BY <3>2, <3>3, <3>5
    <3> QED
      BY <3>6 DEF PeerOf
  <2>9. ~DeviceRefuses
    <3>1. ~OpenOnWire(2)
      <4> SUFFICES ASSUME NEW j \in DOMAIN wire, wire[j] = Head1(OpenFrame(2)) PROVE FALSE
        BY DEF OpenOnWire
      <4>1. IsOpen(wire[j]) /\ wire[j].frame.msg.arg0 = 2
        BY OpenFrameType DEF IsOpen, Head1
      <4>2. j = 1
        BY <2>2, <2>6, <4>1, OpenTaken DEF Roled
      <4>3. wire[1].frame.msg.arg0 = 3
        BY <2>4, <2>5, OpenFrameType
      <4> QED
        BY <4>1, <4>2, <4>3
    <3>2. PICK d \in DOMAIN streams : streams[d].peer = 2
      BY <1>1, <3>1 DEF PeerOf
    <3>3. streams[d].role = "video"
      <4>1. RoleRight(d) /\ PeerOf(2)
        BY <3>2 DEF Roled, RolesRight, PeerOf
      <4> QED
        BY <3>2, <4>1, LocalNumbers DEF RoleRight
    <3>4. "video" \in Accepted \cap Kinds
      BY <3>3, LocalNumbers DEF Accepted
    <3> QED
      BY <3>4 DEF DeviceRefuses
  <2> QED
    BY <1>3, <2>2, <2>7, <2>8, <2>9, TakenByDevice
<1> QED
  BY <1>3, <1>4, <1>5, <1>6 DEF MovedBy

LEMMA VideoOpenStep ==
    ASSUME Inv, Roled, [Next]_vars
    PROVE  VideoOpen'
<1> SUFFICES ASSUME main' \notin {"video", "failed"} PROVE PeerOf(2)'
  BY DEF VideoOpen
<1>1. PeerOf(2) => PeerOf(2)'
  BY OpensFrom
<1>2. CASE main \notin {"video", "failed"}
  BY <1>1, <1>2 DEF Roled, VideoOpen
<1>3. CASE main \in {"video", "failed"}
  <2>1. MainWaits("video")
    <3>1. main' # main
      BY <1>3
    <3>2. ~MainReadsMetadata /\ ~MainReadsAudioMetadata /\ ~ControlWritten /\ ~MainKills
      BY <1>3 DEF MainReadsMetadata, MainReadsAudioMetadata, ControlWritten, MainKills
    <3>3. \E k \in Kinds : MainWaits(k)
      BY <3>1, <3>2 DEF Next, Reader, ReaderReplies, ReaderReceives, ReaderOkay,
             ReaderAcks, ReaderRelays, ReaderStops, Sender, SenderTakes,
             SenderSendsHeader, SenderSendsPayload, Main, ConsumerReads,
             ConsumerEnds, Break, Device, DeviceAsks, DeviceConfused,
             DeviceAccepts, DeviceRefuses, DeviceReceives, DeviceWrites,
             DeviceCloses, vars, host
    <3>4. \A k \in Kinds : MainWaits(k) => main = k
      BY DEF MainWaits
    <3> QED
      BY <1>3, <3>3, <3>4, LocalNumbers
  <2>2. Chan("video").state = "OPEN"
    BY <2>1 DEF MainWaits
  <2>3. 2 \in DOMAIN channels /\ channels[2].state = "OPEN"
    BY <2>2, TableGrows, LocalNumbers DEF Chan
  <2>4. PeerOf(2)
    BY <2>3 DEF Inv, ChannelsRight, PeerOf
  <2> QED
    BY <1>1, <2>4
<1> QED
  BY <1>2, <1>3

LEMMA InitRoled == Init => Roled
<1> SUFFICES ASSUME Init PROVE Roled
  OBVIOUS
<1>1. PICK lo \in {1, 2} : /\ OpensOnly(wire, lo, 4)
                           /\ \A d \in DOMAIN streams : streams[d].peer < lo
                                 /\ streams[d] \in {Other, Stream(1, "shell")}
  <2>1. /\ Other.peer = 0 /\ Stream(1, "shell").peer = 1
    BY DEF Other, Stream
  <2>2. \/ /\ OpensOnly(wire, 1, 4)
           /\ \A d \in DOMAIN streams : streams[d] = Other
        \/ OpensOnly(wire, 2, 4)
    BY InitCases
  <2>3. \A d \in DOMAIN streams : streams[d] = Other \/ streams[d] = Stream(1, "shell")
    BY InitOther
  <2> QED
    BY <2>1, <2>2, <2>3
<1>2. Len(channels) = 4 /\ main = "video"
  BY InitCases DEF Init
<1>3. /\ Other.peer = 0 /\ Stream(1, "shell").peer = 1
      /\ Other.role = "other" /\ Stream(1, "shell").role = "shell"
  BY DEF Other, Stream
<1>4. lo \in Nat /\ 4 \in Nat /\ lo >= 1
  BY <1>1
<1>5. ~PeerOf(2)
  BY <1>1, <1>3 DEF PeerOf
<1>6. OpensInOrder
  <2>1. ASSUME NEW i \in DOMAIN wire
        PROVE  /\ wire[i].frame.msg.arg0 \in lo .. 4
               /\ wire[i].frame = OpenFrame(wire[i].frame.msg.arg0)
    BY <1>1, <1>4, OpensAreOpens
  <2>2. ASSUME NEW i \in DOMAIN wire, NEW j \in DOMAIN wire, i < j,
               IsOpen(wire[i]), IsOpen(wire[j])
        PROVE  wire[i].frame.msg.arg0 < wire[j].frame.msg.arg0
    BY <1>1, <2>2 DEF OpensOnly, IsOpen
  <2>3. \A d \in DOMAIN streams : streams[d].peer \in {0, 1} /\ streams[d].peer < lo
    BY <1>1, <1>3
  <2> QED
    BY <1>2, <1>4, <2>1, <2>2, <2>3 DEF OpensInOrder
<1>7. RolesRight
  <2> SUFFICES ASSUME NEW d \in DOMAIN streams PROVE RoleRight(d)
    BY DEF RolesRight
  <2>1. streams[d] = Other \/ streams[d] = Stream(1, "shell")
    BY <1>1
  <2> QED
    BY <1>3, <1>5, <2>1 DEF RoleRight
<1>8. OpenOnWire(3)
  BY <1>1 DEF OpensOnly, OpenOnWire
<1> QED
  BY <1>2, <1>6, <1>7, <1>8 DEF Roled, NoneSkipped, VideoOpen

LEMMA RoledInvariance == Spec => [](Inv /\ Roled)
<1>1. Inv /\ Roled /\ [Next]_vars => Roled'
  BY OpensInOrderStep, RolesRightStep, NoneSkippedStep, VideoOpenStep DEF Roled
<1> QED
  BY <1>1, InitRoled, Invariance, PTL DEF Spec

(* scrcpy-server gives its roles by the order of the connections, and may  *)
(* refuse the first of them: once the start has succeeded, each role is    *)
(* the one of the channel the client takes for it.                         *)
THEOREM RolesAgreement == Spec => []RolesAgree
<1>1. Inv /\ Roled => RolesAgree
  <2> SUFFICES ASSUME Inv, Roled, Running, NEW d \in DOMAIN streams, streams[d].role \in Kinds
               PROVE  streams[d].peer = Local[streams[d].role]
    BY DEF RolesAgree
  <2>1. RoleRight(d) /\ PeerOf(2) /\ streams[d].peer \in Nat
    BY StreamEntry DEF Roled, RolesRight, VideoOpen, Running, Piping
  <2>2. streams[d].peer \in {2, 3, 4}
    BY <2>1, LocalNumbers DEF RoleRight
  <2>3. PICK k \in Kinds : streams[d].peer = Local[k]
    BY <2>2, LocalNumbers
  <2>4. streams[d].role = k
    BY <2>1, <2>3 DEF RoleRight
  <2> QED
    BY <2>3, <2>4
<1> QED
  BY <1>1, RoledInvariance, PTL

----------------------------------------------------------------------------
(* Control messages *)

(* The messages in the socketpair, and the one the sender has in hand, are *)
(* in the order they were written, and exist only once the client runs.    *)
WrittenFirst == (ctlPair # << >> \/ sender.pc # "recv") => Running

PairInOrder ==
    \A i \in DOMAIN ctlPair :
        /\ ctlPair[i] <= written
        /\ \A j \in DOMAIN ctlPair : i < j => ctlPair[i] < ctlPair[j]

HandFirst ==
    sender.pc # "recv" =>
        /\ sender.frame.data <= written
        /\ \A j \in DOMAIN ctlPair : sender.frame.data < ctlPair[j]

ControlHeld == WrittenFirst /\ PairInOrder /\ HandFirst

(* Message n was written before all that have not been sent yet. *)
Ahead(n) ==
    /\ n <= written
    /\ \A j \in DOMAIN ctlPair : n < ctlPair[j]
    /\ sender.pc = "send" => n < sender.frame.data

(* The same of the state after the step. *)
AheadAfter(n) ==
    /\ n <= written'
    /\ \A j \in DOMAIN ctlPair' : n < ctlPair'[j]
    /\ sender'.pc = "send" => n < sender'.frame.data

(* The messages on the wire are for the control connection, in order; what *)
(* scrcpy-server has read was before them.                                 *)
WritesRight ==
    \A i \in DOMAIN wire : IsWrite(wire[i]) =>
        /\ wire[i].frame.msg.arg1 \in DOMAIN streams
        /\ streams[wire[i].frame.msg.arg1].role = "control"
        /\ Ahead(wire[i].frame.data)
        /\ \A j \in DOMAIN obeyed : obeyed[j][2] < wire[i].frame.data

WritesInOrder ==
    \A i, j \in DOMAIN wire : (i < j /\ IsWrite(wire[i]) /\ IsWrite(wire[j])) =>
        wire[i].frame.data < wire[j].frame.data

ObeyedAhead == \A i \in DOMAIN obeyed : Ahead(obeyed[i][2])

ControlSent == WritesRight /\ WritesInOrder /\ ObeyedAhead /\ ControlInOrder

LEMMA RunningKept == ASSUME Inv, [Next]_vars, Running PROVE Running'
<1>1. CASE main' = main
  BY <1>1 DEF Running, Piping
<1>2. CASE \E k \in Kinds : MainWaits(k)
  BY <1>2, LocalNumbers DEF MainWaits, Running, Piping
<1>3. CASE MainReadsMetadata \/ MainReadsAudioMetadata \/ ControlWritten \/ MainKills
  BY <1>3 DEF MainReadsMetadata, MainReadsAudioMetadata, ControlWritten, MainKills,
              Running, Piping
<1>4. main' = main \/ (\E k \in Kinds : MainWaits(k))
      \/ MainReadsMetadata \/ MainReadsAudioMetadata \/ ControlWritten \/ MainKills
  BY DEF Next, Reader, ReaderReplies, ReaderReceives, ReaderOkay, ReaderAcks,
         ReaderRelays, ReaderStops, Sender, SenderTakes, SenderSendsHeader,
         SenderSendsPayload, Main, ConsumerReads, ConsumerEnds, Break, Device,
         DeviceAsks, DeviceConfused, DeviceAccepts, DeviceRefuses, DeviceReceives,
         DeviceWrites, DeviceCloses, vars, host
<1> QED
  BY <1>1, <1>2, <1>3, <1>4

(* What a step does to the messages not sent yet. *)
LEMMA HeldStep ==
    ASSUME Inv, [Next]_vars
    PROVE  \/ /\ main = "running" /\ written' = written + 1 /\ sender' = sender
              /\ ctlPair' = Append(ctlPair, written + 1)
           \/ /\ ctlPair # << >> /\ ctlPair' = Tail(ctlPair) /\ written' = written
              /\ sender.pc = "recv"
              /\ \/ sender' = sender
                 \/ sender'.pc = "send" /\ sender'.frame.data = Head(ctlPair)
           \/ /\ ctlPair' = ctlPair /\ written' = written
              /\ \/ sender' = sender
                 \/ sender'.pc = "recv"
                 \/ /\ SenderSendsHeader /\ sender.pc = "send" /\ sender'.pc = "payload"
                    /\ sender'.frame.data = sender.frame.data
<1>1. CASE ControlWritten
  BY <1>1 DEF ControlWritten
<1>2. CASE SenderTakes
  <2>1. /\ sender.pc = "recv" /\ ctlPair # << >> /\ ctlPair' = Tail(ctlPair)
        /\ written' = written
        /\ \/ sender' = sender
           \/ sender' = [pc |-> "send", frame |-> Frame(Nothing.msg, Head(ctlPair))]
    BY <1>2 DEF SenderTakes
  <2>2. Frame(Nothing.msg, Head(ctlPair)).data = Head(ctlPair)
    BY DEF Frame
  <2> QED
    BY <2>1, <2>2
<1>3. CASE SenderSendsHeader
  <2>1. PICK f \in FrameSet :
          f.data = sender.frame.data /\ sender' = [pc |-> "payload", frame |-> f]
    BY <1>3, HeaderSent
  <2>2. sender.pc = "send" /\ ctlPair' = ctlPair /\ written' = written
    BY <1>3 DEF SenderSendsHeader, control
  <2> QED
    BY <1>3, <2>1, <2>2
<1>4. CASE SenderSendsPayload
  BY <1>4 DEF SenderSendsPayload, control
<1>5. CASE UNCHANGED <<ctlPair, written, sender>>
  BY <1>5
<1>6. \/ ControlWritten \/ SenderTakes \/ SenderSendsHeader \/ SenderSendsPayload
      \/ UNCHANGED <<ctlPair, written, sender>>
  BY DEF Next, Reader, ReaderReplies, ReaderReceives, ReaderOkay, ReaderAcks,
         ReaderRelays, ReaderStops, Sender, Main, MainReadsAudioMetadata,
         MainWaits, MainReadsMetadata, MainKills, ConsumerReads, ConsumerEnds,
         Break, Device, DeviceAsks, DeviceConfused, DeviceAccepts, DeviceRefuses,
         DeviceReceives, DeviceWrites, DeviceCloses, vars, host, control
<1> QED
  BY <1>1, <1>2, <1>3, <1>4, <1>5, <1>6

LEMMA HeldTypes ==
    ASSUME Inv
    PROVE  /\ ctlPair \in Seq(Nat) /\ written \in Nat /\ Len(ctlPair) \in Nat
           /\ DOMAIN ctlPair = 1 .. Len(ctlPair)
           /\ \A i \in DOMAIN ctlPair : ctlPair[i] \in Nat
           /\ sender.frame.data \in Nat
  BY LenProperties DEF Inv, Shape, FrameSet

(* The socketpair after a step: what was in it, less the first message, or *)
(* with the one written now at the end.                                    *)
LEMMA PairFrom ==
    ASSUME Inv, [Next]_vars
    PROVE  \E n \in {0, 1} :
              /\ n = 1 => ctlPair # << >> /\ ctlPair' = Tail(ctlPair) /\ written' = written
              /\ \A i \in DOMAIN ctlPair' :
                    /\ i \in Nat \ {0} /\ i <= Len(ctlPair')
                    /\ \/ i + n \in DOMAIN ctlPair /\ ctlPair'[i] = ctlPair[i + n]
                       \/ /\ i = Len(ctlPair') /\ ctlPair'[i] = written + 1
                          /\ written' = written + 1 /\ sender' = sender
<1>1. /\ ctlPair \in Seq(Nat) /\ written \in Nat /\ Len(ctlPair) \in Nat
      /\ DOMAIN ctlPair = 1 .. Len(ctlPair)
  BY HeldTypes
<1>2. CASE ctlPair' = ctlPair
  <2>1. \A i \in DOMAIN ctlPair : i + 0 = i /\ i \in Nat \ {0} /\ i <= Len(ctlPair)
    BY <1>1
  <2> QED
    BY <1>2, <2>1
<1>3. CASE ctlPair # << >> /\ ctlPair' = Tail(ctlPair) /\ written' = written
  <2> DEFINE r == Tail(ctlPair)
  <2>1. /\ DOMAIN r = 1 .. Len(ctlPair) - 1 /\ Len(r) = Len(ctlPair) - 1
        /\ \A i \in 1 .. Len(ctlPair) - 1 : r[i] = ctlPair[i + 1]
    BY <1>1, <1>3, TakeProperties
  <2> HIDE DEF r
  <2>2. ctlPair' = r
    BY <1>3 DEF r
  <2>3. \A i \in DOMAIN r : i + 1 \in DOMAIN ctlPair /\ r[i] = ctlPair[i + 1]
                               /\ i \in Nat \ {0} /\ i <= Len(r)
    BY <1>1, <2>1
  <2> QED
    BY <1>3, <2>2, <2>3
<1>4. CASE /\ written' = written + 1 /\ sender' = sender
           /\ ctlPair' = Append(ctlPair, written + 1)
  <2> DEFINE r == Append(ctlPair, written + 1)
  <2>1. /\ DOMAIN r = 1 .. Len(ctlPair) + 1 /\ Len(r) = Len(ctlPair) + 1
        /\ r[Len(ctlPair) + 1] = written + 1
        /\ \A i \in 1 .. Len(ctlPair) : r[i] = ctlPair[i]
    BY <1>1, PutProperties
  <2> HIDE DEF r
  <2>2. ctlPair' = r
    BY <1>4 DEF r
  <2>3. \A i \in DOMAIN r : /\ i \in Nat \ {0} /\ i <= Len(r)
                            /\ \/ i + 0 \in DOMAIN ctlPair /\ r[i] = ctlPair[i + 0]
                               \/ i = Len(r) /\ r[i] = written + 1
    BY <1>1, <2>1
  <2> QED
    BY <1>4, <2>2, <2>3
<1> QED
  BY <1>2, <1>3, <1>4, HeldStep

LEMMA AheadStep ==
    ASSUME Inv, [Next]_vars, NEW x \in Nat, Ahead(x)
    PROVE  AheadAfter(x)
<1>0. written \in Nat /\ written' \in Nat /\ written <= written'
  BY HeldTypes, HeldStep
<1>1. x <= written'
  BY <1>0 DEF Ahead
<1>2. PICK n \in {0, 1} :
        \A i \in DOMAIN ctlPair' :
           \/ i + n \in DOMAIN ctlPair /\ ctlPair'[i] = ctlPair[i + n]
           \/ ctlPair'[i] = written + 1
  BY PairFrom
<1>3. ASSUME NEW j \in DOMAIN ctlPair' PROVE x < ctlPair'[j]
  BY <1>0, <1>2, <1>3 DEF Ahead
<1>4. ASSUME sender'.pc = "send" PROVE x < sender'.frame.data
  <2>1. CASE sender' = sender
    BY <1>4, <2>1 DEF Ahead
  <2>2. CASE ctlPair # << >> /\ sender'.frame.data = Head(ctlPair)
    <3>1. Head(ctlPair) = ctlPair[1] /\ 1 \in DOMAIN ctlPair
      BY <2>2, HeldTypes, TakeProperties
    <3> QED
      BY <2>2, <3>1 DEF Ahead
  <2> QED
    BY <1>4, <2>1, <2>2, HeldStep
<1> QED
  BY <1>1, <1>3, <1>4 DEF AheadAfter

LEMMA ControlHeldStep ==
    ASSUME Inv, ControlHeld, [Next]_vars
    PROVE  ControlHeld'
<1>0. /\ written \in Nat /\ \A i \in DOMAIN ctlPair : ctlPair[i] \in Nat
      /\ sender.frame.data \in Nat /\ DOMAIN ctlPair = 1 .. Len(ctlPair)
      /\ ctlPair \in Seq(Nat)
  BY HeldTypes
<1>1. PICK n \in {0, 1} :
        /\ n = 1 => ctlPair # << >> /\ ctlPair' = Tail(ctlPair) /\ written' = written
        /\ \A i \in DOMAIN ctlPair' :
              /\ i \in Nat \ {0} /\ i <= Len(ctlPair')
              /\ \/ i + n \in DOMAIN ctlPair /\ ctlPair'[i] = ctlPair[i + n]
                 \/ /\ i = Len(ctlPair') /\ ctlPair'[i] = written + 1
                    /\ written' = written + 1 /\ sender' = sender
  BY PairFrom
<1>2. written' \in Nat /\ written <= written'
  BY <1>0, HeldStep
<1>3. WrittenFirst'
  <2>1. Running => Running'
    BY RunningKept
  <2>2. (ctlPair' # << >> \/ sender'.pc # "recv") => Running \/ main = "running"
    <3>1. (ctlPair # << >> \/ sender.pc # "recv") => Running
      BY DEF ControlHeld, WrittenFirst
    <3> QED
      BY <3>1, HeldStep
  <2>3. main = "running" => Running
    BY DEF Running, Piping
  <2> QED
    BY <2>1, <2>2, <2>3 DEF WrittenFirst
<1>4. PairInOrder'
  <2>1. ASSUME NEW i \in DOMAIN ctlPair' PROVE ctlPair'[i] <= written'
    BY <1>0, <1>1, <1>2, <2>1 DEF ControlHeld, PairInOrder
  <2>2. ASSUME NEW i \in DOMAIN ctlPair', NEW j \in DOMAIN ctlPair', i < j
        PROVE  ctlPair'[i] < ctlPair'[j]
    <3>1. /\ i \in Nat /\ j \in Nat /\ i <= Len(ctlPair') /\ j <= Len(ctlPair')
          /\ Len(ctlPair') \in Nat
      BY <1>1, ControlStep, LenProperties
    <3>2. i # Len(ctlPair')
      BY <2>2, <3>1
    <3>3. i + n \in DOMAIN ctlPair /\ ctlPair'[i] = ctlPair[i + n]
      BY <1>1, <3>2
    <3>4. CASE j + n \in DOMAIN ctlPair /\ ctlPair'[j] = ctlPair[j + n]
      <4>1. i + n < j + n
        BY <2>2, <3>1
      <4> QED
        BY <3>3, <3>4, <4>1 DEF ControlHeld, PairInOrder
    <3>5. CASE ctlPair'[j] = written + 1
      <4>1. ctlPair[i + n] <= written /\ ctlPair[i + n] \in Nat
        BY <1>0, <3>3 DEF ControlHeld, PairInOrder
      <4> QED
        BY <1>0, <3>3, <3>5, <4>1
    <3> QED
      BY <1>1, <3>4, <3>5
  <2> QED
    BY <2>1, <2>2 DEF PairInOrder
<1>5. HandFirst'
  <2> SUFFICES ASSUME sender'.pc # "recv"
               PROVE  /\ sender'.frame.data <= written'
                      /\ \A j \in DOMAIN ctlPair' : sender'.frame.data < ctlPair'[j]
    BY DEF HandFirst
  <2>1. CASE sender.pc # "recv" /\ sender'.frame.data = sender.frame.data
    <3>1. /\ sender.frame.data <= written
          /\ \A j \in DOMAIN ctlPair : sender.frame.data < ctlPair[j]
      BY <2>1 DEF ControlHeld, HandFirst
    <3> QED
      BY <1>0, <1>1, <1>2, <2>1, <3>1
  <2>2. CASE /\ ctlPair # << >> /\ ctlPair' = Tail(ctlPair) /\ written' = written
             /\ sender'.frame.data = Head(ctlPair)
    <3>1. /\ Head(ctlPair) = ctlPair[1] /\ 1 \in DOMAIN ctlPair
          /\ DOMAIN Tail(ctlPair) = 1 .. Len(ctlPair) - 1 /\ Len(ctlPair) \in Nat
          /\ \A i \in 1 .. Len(ctlPair) - 1 : Tail(ctlPair)[i] = ctlPair[i + 1]
      BY <1>0, <2>2, TakeProperties
    <3>2. ASSUME NEW j \in DOMAIN ctlPair' PROVE ctlPair[1] < ctlPair'[j]
      <4>1. j \in 1 .. Len(ctlPair) - 1 /\ ctlPair'[j] = ctlPair[j + 1]
        BY <2>2, <3>1
      <4>2. j + 1 \in DOMAIN ctlPair /\ 1 < j + 1
        BY <1>0, <3>1, <4>1
      <4> QED
        BY <3>1, <4>1, <4>2 DEF ControlHeld, PairInOrder
    <3>3. ctlPair[1] <= written'
      BY <2>2, <3>1 DEF ControlHeld, PairInOrder
    <3> QED
      BY <2>2, <3>1, <3>2, <3>3
  <2> QED
    BY <2>1, <2>2, HeldStep
<1> QED
  BY <1>3, <1>4, <1>5 DEF ControlHeld

(* What scrcpy-server has read: what it had read before, and the first     *)
(* message of the wire.                                                    *)
LEMMA ObeyedFrom ==
    ASSUME Inv, [Next]_vars, NEW i \in DOMAIN obeyed'
    PROVE  /\ DOMAIN obeyed = 1 .. Len(obeyed) /\ Len(obeyed) \in Nat
           /\ i \in Nat /\ i <= Len(obeyed) + 1
           /\ \/ i \in DOMAIN obeyed /\ obeyed'[i] = obeyed[i]
              \/ /\ i = Len(obeyed) + 1
                 /\ (\E m : Receive(m)) /\ 1 \in DOMAIN wire /\ IsWrite(wire[1])
                 /\ obeyed'[i][1] = streams[wire[1].frame.msg.arg1].role
                 /\ obeyed'[i][2] = wire[1].frame.data
<1>1. obeyed \in Seq(DevRoles \X Nat) /\ DOMAIN obeyed = 1 .. Len(obeyed) /\ Len(obeyed) \in Nat
  BY LenProperties DEF Inv, Shape
<1>2. CASE obeyed' = obeyed
  BY <1>1, <1>2
<1>3. CASE \E m : /\ Receive(m) /\ m.cmd = "WRTE" /\ m.arg1 \in DOMAIN streams
                  /\ <<streams[m.arg1].role, wire[1].frame.data>> \in DevRoles \X Nat
                  /\ obeyed' = Append(obeyed, <<streams[m.arg1].role, wire[1].frame.data>>)
  <2>1. PICK m : /\ Receive(m) /\ m.cmd = "WRTE"
                 /\ <<streams[m.arg1].role, wire[1].frame.data>> \in DevRoles \X Nat
                 /\ obeyed' = Append(obeyed, <<streams[m.arg1].role, wire[1].frame.data>>)
    BY <1>3
  <2>2. /\ 1 \in DOMAIN wire /\ wire[1].frame.msg = m /\ wire[1] = Head1(wire[1].frame)
    BY <2>1, ReceivedProperties DEF Inv, Shape
  <2>3. IsWrite(wire[1])
    BY <2>1, <2>2 DEF IsWrite, Head1
  <2>4. /\ DOMAIN obeyed' = 1 .. Len(obeyed) + 1
        /\ obeyed'[Len(obeyed) + 1] = <<streams[m.arg1].role, wire[1].frame.data>>
        /\ \A k \in 1 .. Len(obeyed) : obeyed'[k] = obeyed[k]
    BY <1>1, <2>1, PutProperties
  <2>5. i \in 1 .. Len(obeyed) \/ i = Len(obeyed) + 1
    BY <1>1, <2>4
  <2> QED
    BY <1>1, <2>1, <2>2, <2>3, <2>4, <2>5
<1> QED
  BY <1>2, <1>3, ObeyedStep

LEMMA PieceData ==
    ASSUME Inv, NEW i \in DOMAIN wire
    PROVE  wire[i].frame.data \in Nat /\ i \in Nat /\ i >= 1
<1>1. DOMAIN wire = 1 .. Len(wire) /\ Len(wire) \in Nat /\ wire[i] \in Piece
  BY LenProperties DEF Inv, Shape
<1>2. wire[i].frame \in FrameSet
  BY <1>1 DEF Piece
<1> QED
  BY <1>1, <1>2 DEF FrameSet

LEMMA ControlSentStep ==
    ASSUME Inv, Roled, ControlHeld, ControlSent, [Next]_vars
    PROVE  ControlSent'
<1>1. PICK n \in {0, 1, 2} : MovedBy(n)
  BY WireFrom
<1>2. /\ DOMAIN wire' = 1 .. Len(wire') /\ Len(wire') \in Nat
  BY WireRight, LenProperties
<1>3. ASSUME NEW i \in DOMAIN obeyed, NEW j \in DOMAIN wire, IsWrite(wire[j])
      PROVE  obeyed[i][2] < wire[j].frame.data
  BY <1>3 DEF ControlSent, WritesRight
<1>4. (* The message read now was on the wire, before all that are left. *)
      ASSUME NEW i \in DOMAIN obeyed', ~(i \in DOMAIN obeyed /\ obeyed'[i] = obeyed[i])
      PROVE  /\ n > 0 /\ 1 \in DOMAIN wire /\ IsWrite(wire[1]) /\ i = Len(obeyed) + 1
             /\ obeyed'[i][1] = "control" /\ obeyed'[i][2] = wire[1].frame.data
             /\ Ahead(wire[1].frame.data)
  <2>1. /\ i = Len(obeyed) + 1
        /\ (\E m : Receive(m)) /\ 1 \in DOMAIN wire /\ IsWrite(wire[1])
        /\ obeyed'[i][1] = streams[wire[1].frame.msg.arg1].role
        /\ obeyed'[i][2] = wire[1].frame.data
    BY <1>4, ObeyedFrom
  <2>2. n > 0
    BY <1>1, <2>1 DEF MovedBy
  <2>3. /\ streams[wire[1].frame.msg.arg1].role = "control"
        /\ Ahead(wire[1].frame.data)
    BY <2>1 DEF ControlSent, WritesRight
  <2> QED
    BY <2>1, <2>2, <2>3
<1>5. ASSUME NEW i \in DOMAIN wire', IsWrite(wire'[i])
      PROVE  \/ /\ i + n \in DOMAIN wire /\ wire'[i] = wire[i + n] /\ IsWrite(wire[i + n])
                /\ i \in Nat
             \/ /\ n = 0 /\ i = Len(wire') /\ SenderSendsHeader
                /\ wire'[i].frame.data = sender.frame.data
                /\ wire'[i].frame.msg.arg1 = channels[4].remote
  <2>1. i \in Nat
    BY <1>2
  <2>2. CASE i + n \in DOMAIN wire /\ wire'[i] = wire[i + n]
    BY <1>5, <2>1, <2>2
  <2>3. CASE n = 0 /\ i = Len(wire') /\ SentNow(wire'[i])
    BY <1>5, <2>3 DEF SentNow
  <2> QED
    BY <1>1, <2>2, <2>3 DEF MovedBy
<1>6. ASSUME SenderSendsHeader
      PROVE  /\ sender.pc = "send" /\ obeyed' = obeyed
             /\ ctlPair' = ctlPair /\ written' = written /\ sender'.pc = "payload"
             /\ sender.frame.data \in Nat
             /\ channels[4].remote \in DOMAIN streams
             /\ streams[channels[4].remote].role = "control"
  <2>1. /\ sender.pc = "send" /\ obeyed' = obeyed
        /\ ctlPair' = ctlPair /\ written' = written
    BY <1>6 DEF SenderSendsHeader, device, control
  <2>2. sender'.pc = "payload" /\ sender.frame.data \in Nat
    BY <1>6, HeldTypes DEF SenderSendsHeader
  <2>3. channels[4].remote \in DOMAIN streams /\ streams[channels[4].remote].peer = 4
    BY <2>1, ControlChannel DEF Inv, SenderRight
  <2>4. Running
    BY <2>1 DEF ControlHeld, WrittenFirst
  <2>5. PeerOf(2) /\ RoleRight(channels[4].remote)
    BY <2>3, <2>4 DEF Roled, VideoOpen, RolesRight, Running, Piping
  <2>6. streams[channels[4].remote].role = "control"
    BY <2>3, <2>5, LocalNumbers DEF RoleRight
  <2> QED
    BY <2>1, <2>2, <2>3, <2>6
<1>7. WritesRight'
  <2>1. ASSUME NEW i \in DOMAIN wire', IsWrite(wire'[i])
        PROVE  /\ wire'[i].frame.msg.arg1 \in DOMAIN streams'
               /\ streams'[wire'[i].frame.msg.arg1].role = "control"
               /\ AheadAfter(wire'[i].frame.data)
               /\ \A j \in DOMAIN obeyed' : obeyed'[j][2] < wire'[i].frame.data
    <3>1. CASE i + n \in DOMAIN wire /\ wire'[i] = wire[i + n] /\ IsWrite(wire[i + n])
                 /\ i \in Nat
      <4> DEFINE w == wire[i + n]
      <4>1. /\ w.frame.msg.arg1 \in DOMAIN streams
            /\ streams[w.frame.msg.arg1].role = "control"
            /\ Ahead(w.frame.data) /\ w.frame.data \in Nat
        BY <3>1, PieceData DEF ControlSent, WritesRight
      <4>2. /\ w.frame.msg.arg1 \in DOMAIN streams'
            /\ streams'[w.frame.msg.arg1].role = "control"
        BY <4>1, StreamsStep
      <4>3. ASSUME NEW j \in DOMAIN obeyed' PROVE obeyed'[j][2] < w.frame.data
        <5>1. CASE j \in DOMAIN obeyed /\ obeyed'[j] = obeyed[j]
          BY <1>3, <3>1, <5>1
        <5>2. CASE ~(j \in DOMAIN obeyed /\ obeyed'[j] = obeyed[j])
          <6>1. /\ n > 0 /\ 1 \in DOMAIN wire /\ IsWrite(wire[1])
                /\ obeyed'[j][2] = wire[1].frame.data
            BY <1>4, <5>2
          <6>2. 1 < i + n
            BY <1>2, <3>1, <6>1
          <6>3. wire[1].frame.data < wire[i + n].frame.data
            BY <3>1, <6>1, <6>2 DEF ControlSent, WritesInOrder
          <6> QED
            BY <6>1, <6>3
        <5> QED
          BY <5>1, <5>2
      <4>4. AheadAfter(w.frame.data)
        BY <4>1, AheadStep
      <4> QED
        BY <3>1, <4>2, <4>3, <4>4
    <3>2. CASE /\ SenderSendsHeader
               /\ wire'[i].frame.data = sender.frame.data
               /\ wire'[i].frame.msg.arg1 = channels[4].remote
      <4>1. /\ channels[4].remote \in DOMAIN streams'
            /\ streams'[channels[4].remote].role = "control"
        BY <1>6, <3>2, StreamsStep
      <4>2. /\ sender.frame.data <= written
            /\ \A j \in DOMAIN ctlPair : sender.frame.data < ctlPair[j]
        BY <1>6, <3>2 DEF ControlHeld, HandFirst
      <4>3. AheadAfter(wire'[i].frame.data)
        BY <1>6, <3>2, <4>2 DEF AheadAfter
      <4>4. \A j \in DOMAIN obeyed' : obeyed'[j][2] < sender.frame.data
        BY <1>6, <3>2 DEF ControlSent, ObeyedAhead, Ahead
      <4> QED
        BY <3>2, <4>1, <4>3, <4>4
    <3> QED
      BY <1>5, <2>1, <3>1, <3>2
  <2> QED
    BY <2>1 DEF WritesRight, IsWrite, Ahead, AheadAfter
<1>8. WritesInOrder'
  <2>1. ASSUME NEW i \in DOMAIN wire', NEW j \in DOMAIN wire', i < j,
               IsWrite(wire'[i]), IsWrite(wire'[j])
        PROVE  wire'[i].frame.data < wire'[j].frame.data
    <3>1. i \in Nat /\ j \in Nat /\ i # Len(wire')
      BY <1>2, <2>1
    <3>2. i + n \in DOMAIN wire /\ wire'[i] = wire[i + n] /\ IsWrite(wire[i + n])
      BY <1>5, <2>1, <3>1
    <3>3. CASE j + n \in DOMAIN wire /\ wire'[j] = wire[j + n] /\ IsWrite(wire[j + n])
      <4>1. i + n < j + n
        BY <2>1, <3>1
      <4> QED
        BY <3>2, <3>3, <4>1 DEF ControlSent, WritesInOrder
    <3>4. CASE SenderSendsHeader /\ wire'[j].frame.data = sender.frame.data
      <4>1. Ahead(wire[i + n].frame.data) /\ sender.pc = "send"
        BY <1>6, <3>2, <3>4 DEF ControlSent, WritesRight
      <4> QED
        BY <3>2, <3>4, <4>1 DEF Ahead
    <3> QED
      BY <1>5, <2>1, <3>3, <3>4
  <2> QED
    BY <2>1 DEF WritesInOrder, IsWrite
<1>9. ObeyedAhead'
  <2>1. ASSUME NEW i \in DOMAIN obeyed' PROVE \E x \in Nat : x = obeyed'[i][2] /\ Ahead(x)
    <3>1. CASE i \in DOMAIN obeyed /\ obeyed'[i] = obeyed[i]
      <4>1. obeyed[i][2] \in Nat
        BY <3>1 DEF Inv, Shape
      <4> QED
        BY <3>1, <4>1 DEF ControlSent, ObeyedAhead
    <3>2. CASE ~(i \in DOMAIN obeyed /\ obeyed'[i] = obeyed[i])
      BY <1>4, <3>2, PieceData
    <3> QED
      BY <3>1, <3>2
  <2>2. \A i \in DOMAIN obeyed' : AheadAfter(obeyed'[i][2])
    BY <2>1, AheadStep
  <2> QED
    BY <2>2 DEF ObeyedAhead, Ahead, AheadAfter
<1>10. ControlInOrder'
  <2>1. ASSUME NEW i \in DOMAIN obeyed' PROVE obeyed'[i][1] = "control"
    BY <1>4 DEF ControlSent, ControlInOrder
  <2>2. ASSUME NEW i \in DOMAIN obeyed', NEW j \in DOMAIN obeyed', i < j
        PROVE  obeyed'[i][2] < obeyed'[j][2]
    <3>1. /\ DOMAIN obeyed = 1 .. Len(obeyed) /\ Len(obeyed) \in Nat
          /\ i \in Nat /\ j \in Nat /\ j <= Len(obeyed) + 1
      BY ObeyedFrom
    <3>2. i \in DOMAIN obeyed /\ obeyed'[i] = obeyed[i]
      BY <1>4, <2>2, <3>1
    <3>3. CASE j \in DOMAIN obeyed /\ obeyed'[j] = obeyed[j]
      BY <2>2, <3>2, <3>3 DEF ControlSent, ControlInOrder
    <3>4. CASE ~(j \in DOMAIN obeyed /\ obeyed'[j] = obeyed[j])
      BY <1>3, <1>4, <3>2, <3>4
    <3> QED
      BY <3>3, <3>4
  <2> QED
    BY <2>1, <2>2 DEF ControlInOrder
<1> QED
  BY <1>7, <1>8, <1>9, <1>10 DEF ControlSent

(* scrcpy-server reads control messages on its control connection only, in *)
(* the order in which the client wrote them, and none of them twice; those *)
(* missing were dropped, by the sender or with the connection.             *)
THEOREM ControlOrder == Spec => []ControlInOrder
<1>1. Init => ControlHeld /\ ControlSent
  <2> SUFFICES ASSUME Init PROVE ControlHeld /\ ControlSent
    OBVIOUS
  <2>1. /\ ctlPair = << >> /\ sender.pc = "recv" /\ obeyed = << >>
    BY DEF Init
  <2>2. PICK lo \in {1, 2} : OpensOnly(wire, lo, 4)
    BY InitCases
  <2>3. \A i \in DOMAIN wire : ~IsWrite(wire[i])
    <3>1. lo \in Nat /\ 4 \in Nat
      BY <2>2
    <3>2. \A i \in DOMAIN wire : wire[i].frame.msg.cmd = "OPEN"
      BY <2>2, <3>1, OpensAreOpens
    <3> QED
      BY <3>2 DEF IsWrite
  <2>4. ControlHeld
    BY <2>1 DEF ControlHeld, WrittenFirst, PairInOrder, HandFirst
  <2>5. ControlSent
    BY <2>1, <2>3 DEF ControlSent, WritesRight, WritesInOrder, ObeyedAhead,
           ControlInOrder
  <2> QED
    BY <2>4, <2>5
<1>2. Inv /\ Roled /\ ControlHeld /\ ControlSent /\ [Next]_vars => ControlHeld' /\ ControlSent'
  BY ControlHeldStep, ControlSentStep
<1>3. ControlSent => ControlInOrder
  BY DEF ControlSent
<1> QED
  BY <1>1, <1>2, <1>3, RoledInvariance, PTL DEF Spec

----------------------------------------------------------------------------
(* The payloads a stream has sent, on their way to its consumer *)

(* No two streams belong to one channel. *)
PeersUnique ==
    \A d, e \in DOMAIN streams : (d # e /\ streams[d].peer = streams[e].peer)
                                    => streams[d].peer = 0

(* Once video is accepted, control is accepted after audio only. *)
AudioTaken == (PeerOf(2) /\ PeerOf(4)) => PeerOf(3)

(* The OKAY that tells the client of stream e: it was handled, the reader  *)
(* has it in hand, or it is on its way; then no data of e, or of a stream  *)
(* that was accepted after it, is before it.                               *)
Follower(m, e) == m.arg0 \in DOMAIN streams /\ streams[m.arg0].peer >= streams[e].peer
Learned(e)  == channels[streams[e].peer].remote = e
Learning(e) == reader.pc \in {"okay", "remote"} /\ reader.frame.msg.arg0 = e
Awaited(e) ==
    /\ reader.pc \in {"ack", "relay"} => ~Follower(reader.frame.msg, e)
    /\ \E i \in DOMAIN down :
          /\ down[i].msg.cmd = "OKAY" /\ down[i].msg.arg0 = e
          /\ \A j \in DOMAIN down : (j < i /\ down[j].msg.cmd = "WRTE")
                                       => ~Follower(down[j].msg, e)
Told(e) == Learned(e) \/ Learning(e) \/ Awaited(e)
AllTold == \A e \in DOMAIN streams : streams[e].peer # 0 => Told(e)

LEMMA PeersUniqueStep ==
    ASSUME Inv, OpensInOrder, PeersUnique, [Next]_vars
    PROVE  PeersUnique'
<1>1. \A d \in DOMAIN streams : streams'[d].peer = streams[d].peer
  BY StreamsStep
<1>2. ASSUME NEW d \in DOMAIN streams', d \notin DOMAIN streams
      PROVE  \A e \in DOMAIN streams : streams[e].peer < streams'[d].peer
  BY <1>2, StreamFrom, OpenTaken
<1>3. \A d, e \in DOMAIN streams' : (d \notin DOMAIN streams /\ e \notin DOMAIN streams) => d = e
  <2>1. CASE DeviceAccepts
    <3>1. Len(streams) \in Nat /\ DOMAIN streams = 1 .. Len(streams)
          /\ DOMAIN streams' = 1 .. Len(streams) + 1
      BY <2>1, AcceptedStep, PutProperties DEF Inv, Shape
    <3> QED
      BY <3>1
  <2>2. CASE DOMAIN streams' = DOMAIN streams
    BY <2>2
  <2> QED
    BY <2>1, <2>2, DomainGrows
<1>4. \A e \in DOMAIN streams : streams[e].peer \in Nat
  BY StreamEntry
<1>5. \A e \in DOMAIN streams' : e \notin DOMAIN streams => streams'[e].peer \in Nat
  BY StreamFrom
<1> QED
  BY <1>1, <1>2, <1>3, <1>4, <1>5 DEF PeersUnique

LEMMA AudioTakenStep ==
    ASSUME Inv, Roled, AudioTaken, [Next]_vars
    PROVE  AudioTaken'
<1> SUFFICES ASSUME PeerOf(2)', PeerOf(4)' PROVE PeerOf(3)'
  BY DEF AudioTaken
<1>1. PeerOf(3) => PeerOf(3)'
  BY OpensFrom
<1>2. CASE PeerOf(2) /\ PeerOf(4)
  BY <1>1, <1>2 DEF AudioTaken
<1>3. CASE ~PeerOf(4)
  <2>1. Receive(OpenMsg(4))
    BY <1>3, OpensFrom
  <2>2. /\ 1 \in DOMAIN wire /\ wire[1] = Head1(OpenFrame(4))
        /\ \A i \in DOMAIN wire : IsOpen(wire[i]) => i = 1 \/ wire[i].frame.msg.arg0 > 4
    BY <2>1, OpenTaken DEF Roled
  <2>3. PeerOf(2)
    <3> SUFFICES ASSUME ~PeerOf(2) PROVE FALSE
      OBVIOUS
    <3>1. Receive(OpenMsg(2))
      BY OpensFrom
    <3>2. OpenMsg(2) = OpenMsg(4)
      BY <2>1, <3>1 DEF Receive
    <3> QED
      BY <3>2, OpenFrameType
  <2>4. OpenOnWire(4)
    BY <2>2 DEF OpenOnWire
  <2>5. ~OpenOnWire(3)
    <3> SUFFICES ASSUME NEW i \in DOMAIN wire, wire[i] = Head1(OpenFrame(3)) PROVE FALSE
      BY DEF OpenOnWire
    <3>1. IsOpen(wire[i]) /\ wire[i].frame.msg.arg0 = 3
      BY OpenFrameType DEF IsOpen, Head1
    <3>2. wire[1].frame.msg.arg0 = 4
      BY <2>2, OpenFrameType DEF Head1
    <3> QED
      BY <2>2, <3>1, <3>2
  <2> QED
    BY <1>1, <2>3, <2>4, <2>5 DEF Roled, NoneSkipped
<1>4. CASE ~PeerOf(2) /\ PeerOf(4)
  <2>1. Receive(OpenMsg(2))
    BY <1>4, OpensFrom
  <2>2. \A d \in DOMAIN streams : streams[d].peer < 2
    BY <2>1, OpenTaken DEF Roled
  <2> QED
    BY <1>4, <2>2 DEF PeerOf
<1> QED
  BY <1>2, <1>3, <1>4

(* What the client has learned of a stream stays. *)
LEMMA LearnedKept ==
    ASSUME Inv, OpensInOrder, PeersUnique, [Next]_vars,
           NEW e \in DOMAIN streams, streams[e].peer # 0, Learned(e)
    PROVE  Learned(e)'
<1> DEFINE l == streams[e].peer
<1>1. l \in DOMAIN channels /\ l \in Nat
  BY StreamEntry, TableGrows DEF OpensInOrder
<1>2. channels[l] \in Channel /\ channels[l].local = l
  BY <1>1, EntryProperties
<1>3. channels[l].remote = e /\ e # 0
  BY StreamEntry DEF Learned
<1>4. streams'[e].peer = l
  BY StreamsStep
<1> HIDE DEF l
<1> SUFFICES channels'[l].remote = e
  BY <1>4 DEF Learned
<1>5. CASE ReaderReceives
  <2>1. ASSUME NEW m PROVE Guessed(channels, m)[l].remote = e
    BY <1>1, <1>3 DEF Guessed, Update
  <2>2. ASSUME NEW m PROVE OnClse(channels, m)[l].remote = e
    <3>1. Closed(channels[l]).remote = channels[l].remote
      BY <1>2 DEF Closed, Channel
    <3>2. OnClse(channels, m)[l] \in {channels[l], Closed(channels[l])}
      BY <1>1 DEF OnClse, Update
    <3> QED
      BY <1>3, <3>1, <3>2
  <2> QED
    BY <1>3, <1>5, <2>1, <2>2 DEF ReaderReceives
<1>6. CASE ReaderOkay
  <2> DEFINE m == reader.frame.msg
  <2>1. PICK field \in {"remote", "state"} :
           channels' = Assigned(channels, m, field) /\ reader.pc \in {"okay", "remote", "state"}
    BY <1>6 DEF ReaderOkay
  <2>2. FromStream(m)
    BY <2>1 DEF Inv, NamedRight, Handling
  <2>3. m.arg1 = l => m.arg0 = e
    <3> SUFFICES ASSUME m.arg1 = l, m.arg0 # e PROVE FALSE
      OBVIOUS
    <3>1. m.arg0 \in DOMAIN streams /\ streams[m.arg0].peer = streams[e].peer
      BY <2>2 DEF FromStream, l
    <3> QED
      BY <3>1 DEF PeersUnique
  <2> HIDE DEF m
  <2>4. channels'[l] = IF l = m.arg1
               THEN IF field = "remote" THEN [channels[l] EXCEPT !.remote = m.arg0]
                                        ELSE [channels[l] EXCEPT !.state = "OPEN"]
               ELSE channels[l]
    BY <1>1, <1>2, <2>1 DEF Assigned, Update
  <2> QED
    BY <1>2, <1>3, <2>3, <2>4 DEF Channel
<1>7. CASE MainKills
  <2>1. CASE channels' = channels
    BY <1>3, <2>1
  <2>2. CASE channels' = Append(channels, Opening(Len(channels) + 1))
    <3>1. Opening(Len(channels) + 1) \in Channel /\ DOMAIN channels = 1 .. Len(channels)
      BY TableGrows DEF Opening, Channel
    <3>2. channels'[l] = channels[l]
      BY <1>1, <2>2, <3>1, PutProperties DEF Inv, Shape
    <3> QED
      BY <1>3, <3>2
  <2> QED
    BY <1>7, <2>1, <2>2 DEF MainKills
<1>8. CASE UNCHANGED channels
  BY <1>3, <1>8
<1>9. ReaderReceives \/ ReaderOkay \/ MainKills \/ UNCHANGED channels
  BY DEF Next, Reader, ReaderReplies, ReaderAcks, ReaderRelays, ReaderStops,
         Sender, SenderTakes, SenderSendsHeader, SenderSendsPayload, Main,
         MainReadsAudioMetadata, MainWaits, MainReadsMetadata, ControlWritten,
         ConsumerReads, ConsumerEnds, Break, Device, DeviceAsks, DeviceConfused,
         DeviceAccepts, DeviceRefuses, DeviceReceives, DeviceWrites, DeviceCloses,
         vars, host
<1> QED
  BY <1>5, <1>6, <1>7, <1>8, <1>9

(* Whether a message is of a stream accepted after e is settled. *)
FollowsAfter(m, e) == m.arg0 \in DOMAIN streams' /\ streams'[m.arg0].peer >= streams'[e].peer
LEMMA FollowerKept ==
    ASSUME Inv, [Next]_vars, NEW m, m.arg0 \in DOMAIN streams,
           NEW e \in DOMAIN streams, ~Follower(m, e)
    PROVE  ~FollowsAfter(m, e)
  BY StreamsStep DEF Follower, FollowsAfter

LEMMA LearningStep ==
    ASSUME Inv, OpensInOrder, PeersUnique, [Next]_vars,
           NEW e \in DOMAIN streams, streams[e].peer # 0, Learning(e)
    PROVE  Learned(e)' \/ Learning(e)'
<1> DEFINE l == streams[e].peer
<1>1. l \in DOMAIN channels /\ l \in Nat
  BY StreamEntry, TableGrows DEF OpensInOrder
<1>2. channels[l] \in Channel /\ channels[l].local = l
  BY <1>1, EntryProperties
<1>3. streams'[e].peer = l
  BY StreamsStep
<1>4. reader.frame.msg.arg0 = e /\ reader.frame.msg.arg1 = l /\ e \in Nat
  BY StreamEntry DEF Learning, Inv, NamedRight, Handling, FromStream
<1> HIDE DEF l
<1>5. CASE ReaderOkay
  <2>1. CASE channels' = Assigned(channels, reader.frame.msg, "remote")
    <3>1. channels'[l] = [channels[l] EXCEPT !.remote = e]
      BY <1>1, <1>2, <1>4, <2>1 DEF Assigned, Update
    <3>2. channels'[l].remote = e
      BY <1>2, <1>4, <3>1 DEF Channel
    <3> QED
      BY <1>3, <3>2 DEF Learned
  <2>2. CASE reader' = [reader EXCEPT !.pc = "remote"]
    BY <1>4, <2>2 DEF Learning, Inv, Shape
  <2> QED
    BY <1>5, <2>1, <2>2 DEF ReaderOkay, Learning
<1>6. CASE reader' = reader
  BY <1>4, <1>6 DEF Learning
<1>7. ReaderOkay \/ reader' = reader
  BY DEF Learning, Next, Reader, ReaderReplies, ReaderReceives, ReaderAcks,
         ReaderRelays, ReaderStops, Sender, SenderTakes, SenderSendsHeader,
         SenderSendsPayload, Main, MainReadsAudioMetadata, MainWaits,
         MainReadsMetadata, ControlWritten, MainKills, ConsumerReads, ConsumerEnds,
         Break, Device, DeviceAsks, DeviceConfused, DeviceAccepts, DeviceRefuses,
         DeviceReceives, DeviceWrites, DeviceCloses, vars, host
<1> QED
  BY <1>5, <1>6, <1>7

(* The first of the messages on their way is taken by the reader. *)
LEMMA ReceivesHead ==
    ASSUME Inv, ReaderReceives
    PROVE  /\ reader.pc = "recv" /\ Len(down) \in Nat \ {0} /\ DOMAIN down = 1 .. Len(down)
           /\ DOMAIN down' = 1 .. Len(down) - 1
           /\ \A i \in DOMAIN down' : i + 1 \in DOMAIN down /\ down'[i] = down[i + 1]
           /\ \/ /\ down[1].msg.cmd = "WRTE"
                 /\ reader'.pc = "ack" /\ reader'.frame = down[1]
              \/ /\ down[1].msg.cmd = "OKAY"
                 /\ reader'.pc = "okay" /\ reader'.frame = down[1]
              \/ /\ down[1].msg.cmd \notin {"WRTE", "OKAY"}
                 /\ reader'.pc = "reply" \/ reader' = reader
<1>1. /\ down # << >> /\ down' = Tail(down) /\ reader.pc = "recv"
      /\ \/ Head(down).msg.cmd = "WRTE" /\ reader' = [pc |-> "ack", frame |-> Head(down)]
         \/ Head(down).msg.cmd = "OKAY" /\ reader' = [pc |-> "okay", frame |-> Head(down)]
         \/ /\ Head(down).msg.cmd \notin {"WRTE", "OKAY"}
            /\ reader'.pc = "reply" \/ reader' = reader
  BY DEF ReaderReceives
<1>2. /\ Len(down) \in Nat \ {0} /\ Head(down) = down[1]
      /\ DOMAIN down = 1 .. Len(down) /\ DOMAIN Tail(down) = 1 .. Len(down) - 1
      /\ \A i \in 1 .. Len(down) - 1 : Tail(down)[i] = down[i + 1]
  BY <1>1, TakeProperties DEF Inv, Shape
<1>3. \A i \in 1 .. Len(down) - 1 : i + 1 \in 1 .. Len(down)
  BY <1>2
<1> QED
  BY <1>1, <1>2, <1>3

(* A payload comes to the hand of the reader from the connection only. *)
LEMMA HandKept ==
    ASSUME Inv, [Next]_vars, ~ReaderReceives, reader'.pc \in {"ack", "relay"}
    PROVE  reader.pc \in {"ack", "relay"} /\ reader'.frame = reader.frame
<1>1. reader \in [pc : Places, frame : FrameSet]
  BY DEF Inv, Shape
<1>2. CASE ReaderOkay
  BY <1>1, <1>2 DEF ReaderOkay
<1>3. CASE ReaderAcks
  BY <1>1, <1>3 DEF ReaderAcks
<1>4. CASE ReaderRelays
  BY <1>4 DEF ReaderRelays
<1>5. CASE ReaderStops
  BY <1>1, <1>5 DEF ReaderStops
<1>8. CASE ReaderReplies
  <2>1. \/ reader' = [pc |-> "recv", frame |-> Nothing]
        \/ \E pc \in {"replyBody", "tls"} : reader' = [reader EXCEPT !.pc = pc]
    BY <1>8 DEF ReaderReplies
  <2> QED
    BY <1>1, <2>1
<1>6. CASE reader' = reader
  BY <1>6
<1>7. ReaderOkay \/ ReaderReplies \/ ReaderAcks \/ ReaderRelays \/ ReaderStops \/ reader' = reader
  BY DEF Next, Reader, Sender, SenderTakes, SenderSendsHeader, SenderSendsPayload,
         Main, MainReadsAudioMetadata, MainWaits, MainReadsMetadata,
         ControlWritten, MainKills, ConsumerReads, ConsumerEnds, Break, Device,
         DeviceAsks, DeviceConfused, DeviceAccepts, DeviceRefuses, DeviceReceives,
         DeviceWrites, DeviceCloses, vars, host
<1> QED
  BY <1>2, <1>3, <1>4, <1>5, <1>6, <1>7, <1>8

LEMMA AwaitedStep ==
    ASSUME Inv, OpensInOrder, [Next]_vars, NEW e \in DOMAIN streams, Awaited(e)
    PROVE  Learning(e)' \/ Awaited(e)'
<1>1. PICK i \in DOMAIN down :
          /\ down[i].msg.cmd = "OKAY" /\ down[i].msg.arg0 = e
          /\ \A j \in DOMAIN down : (j < i /\ down[j].msg.cmd = "WRTE")
                                       => ~Follower(down[j].msg, e)
  BY DEF Awaited
<1>2. reader.pc \in {"ack", "relay"} => ~Follower(reader.frame.msg, e)
  BY DEF Awaited
<1>3. /\ reader.pc \in {"ack", "relay"} => reader.frame.msg.arg0 \in DOMAIN streams
      /\ \A j \in DOMAIN down : down[j].msg.cmd = "WRTE" => down[j].msg.arg0 \in DOMAIN streams
  BY DEF Inv, NamedRight, Handling, FromStream, Named
<1>4. \A j \in DOMAIN down : (j < i /\ down[j].msg.cmd = "WRTE") => ~FollowsAfter(down[j].msg, e)
  BY <1>1, <1>3, FollowerKept
<1>5. reader.pc \in {"ack", "relay"} => ~FollowsAfter(reader.frame.msg, e)
  BY <1>2, <1>3, FollowerKept
<1>6. DOMAIN down = 1 .. Len(down) /\ Len(down) \in Nat
  BY LenProperties DEF Inv, Shape
<1>7. CASE ReaderReceives
  <2>1. CASE i = 1
    BY <1>1, <1>7, <2>1, ReceivesHead DEF Learning
  <2>2. CASE i # 1
    <3>1. i - 1 \in DOMAIN down' /\ (i - 1) + 1 = i
      BY <1>6, <1>7, <2>2, ReceivesHead
    <3>2. down'[i - 1] = down[i]
      BY <1>7, <3>1, ReceivesHead
    <3>3. ASSUME NEW j \in DOMAIN down', j < i - 1, down'[j].msg.cmd = "WRTE"
          PROVE  ~FollowsAfter(down'[j].msg, e)
      <4>1. j + 1 \in DOMAIN down /\ down'[j] = down[j + 1] /\ j + 1 < i
        BY <1>6, <1>7, <3>3, ReceivesHead
      <4> QED
        BY <1>4, <3>3, <4>1
    <3>4. 1 \in DOMAIN down /\ 1 < i
      BY <1>6, <2>2
    <3>5. reader'.pc \in {"ack", "relay"} => ~FollowsAfter(reader'.frame.msg, e)
      BY <1>4, <1>7, <3>4, ReceivesHead
    <3> QED
      BY <1>1, <3>1, <3>2, <3>3, <3>5 DEF Awaited, Follower, FollowsAfter
  <2> QED
    BY <2>1, <2>2
<1>8. CASE ~ReaderReceives
  <2>1. \A j \in DOMAIN down : j \in DOMAIN down' /\ down'[j] = down[j]
    <3>1. CASE \E f \in FrameSet : down' = Append(down, f)
      BY <1>6, <3>1, PutProperties DEF Inv, Shape
    <3> QED
      BY <1>8, <3>1, DownStep
  <2>2. \A j \in DOMAIN down' : j < i => j \in DOMAIN down
    <3>1. DOMAIN down' = 1 .. Len(down')
      BY DownRight, LenProperties
    <3>2. \A j \in DOMAIN down' : j \in Nat /\ j >= 1
      BY <3>1, DownRight, LenProperties
    <3> QED
      BY <1>6, <3>2
  <2>3. reader'.pc \in {"ack", "relay"} => /\ reader.pc \in {"ack", "relay"}
                                           /\ reader'.frame = reader.frame
    BY <1>8, HandKept
  <2>4. reader'.pc \in {"ack", "relay"} => ~FollowsAfter(reader'.frame.msg, e)
    BY <1>5, <2>3
  <2>5. ASSUME NEW j \in DOMAIN down', j < i, down'[j].msg.cmd = "WRTE"
        PROVE  ~FollowsAfter(down'[j].msg, e)
    BY <1>4, <2>1, <2>2, <2>5
  <2> QED
    BY <1>1, <2>1, <2>4, <2>5 DEF Awaited, Follower, FollowsAfter
<1> QED
  BY <1>7, <1>8

(* A stream is accepted with an OKAY, after all those of before. *)
LEMMA NewAwaited ==
    ASSUME Inv, OpensInOrder, [Next]_vars, NEW e \in DOMAIN streams', e \notin DOMAIN streams
    PROVE  Awaited(e)'
<1>1. DeviceAccepts
  BY DomainGrows
<1>2. PICK l \in DOMAIN channels :
         /\ l \in Nat /\ Receive(OpenMsg(l))
         /\ streams' = Append(streams, Stream(l, RoleOf(l)))
         /\ Stream(l, RoleOf(l)) \in DevStream
         /\ down' = Append(down, Frame(Msg("OKAY", Len(streams) + 1, l), 0))
  BY <1>1, AcceptedStep
<1> DEFINE f == Frame(Msg("OKAY", Len(streams) + 1, l), 0)
           i == Len(down) + 1
<1>3. /\ DOMAIN streams' = 1 .. Len(streams) + 1 /\ DOMAIN streams = 1 .. Len(streams)
      /\ Len(streams) \in Nat /\ streams'[Len(streams) + 1] = Stream(l, RoleOf(l))
  BY <1>2, PutProperties DEF Inv, Shape
<1>4. e = Len(streams) + 1
  BY <1>3
<1>5. Stream(l, RoleOf(l)).peer = l
  BY <1>2, RoleOfType, StreamType
<1>6. /\ streams'[e].peer = l
      /\ \A d \in DOMAIN streams : streams'[d].peer < l /\ streams[d].peer \in Nat
  BY <1>2, <1>3, <1>4, <1>5, OpenTaken, StreamsStep, StreamEntry
<1>7. f \in FrameSet /\ f.msg.cmd = "OKAY" /\ f.msg.arg0 = e
  BY <1>2, <1>3, <1>4 DEF Frame, Msg, FrameSet, Message
<1>8. /\ DOMAIN down' = 1 .. Len(down) + 1 /\ DOMAIN down = 1 .. Len(down)
      /\ Len(down) \in Nat /\ down'[i] = f
      /\ \A j \in 1 .. Len(down) : down'[j] = down[j]
  BY <1>2, <1>7, PutProperties DEF Inv, Shape
<1>9. ASSUME NEW m, FromStream(m) PROVE ~FollowsAfter(m, e)
  BY <1>2, <1>6, <1>9, StreamsStep DEF FromStream, FollowsAfter
<1> HIDE DEF f
<1>10. ASSUME NEW j \in DOMAIN down', j < i, down'[j].msg.cmd = "WRTE"
       PROVE  ~FollowsAfter(down'[j].msg, e)
  <2>1. j \in DOMAIN down /\ down'[j] = down[j]
    BY <1>8, <1>10
  <2>2. FromStream(down[j].msg)
    BY <1>10, <2>1 DEF Inv, NamedRight, Named
  <2> QED
    BY <1>9, <2>1, <2>2
<1>11. reader' = reader
  BY <1>1 DEF DeviceAccepts, host
<1>12. reader'.pc \in {"ack", "relay"} => ~FollowsAfter(reader'.frame.msg, e)
  <2>1. reader.pc \in {"ack", "relay"} => FromStream(reader.frame.msg)
    BY DEF Inv, NamedRight, Handling
  <2> QED
    BY <1>9, <1>11, <2>1
<1>13. i \in DOMAIN down' /\ down'[i].msg.cmd = "OKAY" /\ down'[i].msg.arg0 = e
  BY <1>7, <1>8
<1> HIDE DEF i
<1> QED
  BY <1>10, <1>12, <1>13 DEF Awaited, Follower, FollowsAfter

LEMMA AllToldStep ==
    ASSUME Inv, OpensInOrder, PeersUnique, AllTold, [Next]_vars
    PROVE  AllTold'
<1> SUFFICES ASSUME NEW e \in DOMAIN streams', streams'[e].peer # 0 PROVE Told(e)'
  BY DEF AllTold
<1>1. CASE e \notin DOMAIN streams
  BY <1>1, NewAwaited DEF Told
<1>2. CASE e \in DOMAIN streams
  <2>1. streams[e].peer # 0 /\ Told(e)
    BY <1>2, StreamsStep DEF AllTold
  <2>2. CASE Learned(e)
    BY <1>2, <2>1, <2>2, LearnedKept DEF Told
  <2>3. CASE Learning(e)
    BY <1>2, <2>1, <2>3, LearningStep DEF Told
  <2>4. CASE Awaited(e)
    BY <1>2, <2>4, AwaitedStep DEF Told
  <2> QED
    BY <2>1, <2>2, <2>3, <2>4 DEF Told
<1> QED
  BY <1>1, <1>2

Placed == PeersUnique /\ AudioTaken /\ AllTold

LEMMA InitPlaced == Init => Placed
<1> SUFFICES ASSUME Init PROVE Placed
  OBVIOUS
<1>1. OtherStreams \in Nat
  BY BoundsAssumption DEF BoundsAssumption
<1>2. /\ Other.peer = 0 /\ Stream(1, "shell").peer = 1
      /\ Opened(Opening(1), OtherStreams + 1).remote = OtherStreams + 1
  BY DEF Other, Stream, Opened, Opening
<1>3. \/ \A d \in DOMAIN streams : streams[d].peer = 0
      \/ /\ DOMAIN streams = 1 .. OtherStreams + 1
         /\ channels[1].remote = OtherStreams + 1 /\ streams[OtherStreams + 1].peer = 1
         /\ \A d \in 1 .. OtherStreams : streams[d].peer = 0
  BY <1>2, InitCases
<1>4. CASE \A d \in DOMAIN streams : streams[d].peer = 0
  BY <1>4 DEF Placed, PeersUnique, AudioTaken, AllTold, PeerOf
<1>5. CASE /\ DOMAIN streams = 1 .. OtherStreams + 1
           /\ channels[1].remote = OtherStreams + 1 /\ streams[OtherStreams + 1].peer = 1
           /\ \A d \in 1 .. OtherStreams : streams[d].peer = 0
  <2>1. \A d \in DOMAIN streams : \/ streams[d].peer = 0
                                  \/ d = OtherStreams + 1 /\ streams[d].peer = 1
    <3>1. \A d \in DOMAIN streams : d \in 1 .. OtherStreams \/ d = OtherStreams + 1
      BY <1>1, <1>5
    <3> QED
      BY <1>5, <3>1
  <2>2. PeersUnique
    BY <2>1 DEF PeersUnique
  <2>3. AudioTaken
    BY <2>1 DEF AudioTaken, PeerOf
  <2>4. AllTold
    BY <1>5, <2>1 DEF AllTold, Told, Learned
  <2> QED
    BY <2>2, <2>3, <2>4 DEF Placed
<1> QED
  BY <1>3, <1>4, <1>5

LEMMA PlacedStep ==
    ASSUME Inv, Roled, Placed, [Next]_vars
    PROVE  Placed'
<1>1. OpensInOrder
  BY DEF Roled
<1> QED
  BY <1>1, PeersUniqueStep, AudioTakenStep, AllToldStep DEF Placed

(* So, once video is accepted, a payload goes to the socketpair of its     *)
(* stream.                                                                 *)
LEMMA RoutedRight ==
    ASSUME Inv, Roled, Placed, PeerOf(2), reader.pc = "relay",
           NEW d \in DOMAIN streams, reader.frame.msg.arg0 = d,
           NEW k \in Kinds, streams[d].role = k
    PROVE  Destination(reader.frame.msg) = k
<1>1. streams[d].peer = Local[k] /\ Local[k] \in {2, 3, 4}
  <2>1. RoleRight(d) /\ streams[d].role \in DevRoles /\ streams[d].peer \in Nat
    BY StreamEntry DEF Roled, RolesRight
  <2>2. streams[d].peer \in {2, 3, 4}
    BY <2>1, LocalNumbers DEF RoleRight
  <2> QED
    BY <2>1, <2>2, LocalNumbers DEF RoleRight
<1>2. ASSUME NEW e \in DOMAIN streams, streams[e].peer # 0, streams[e].peer <= streams[d].peer
      PROVE  channels[streams[e].peer].remote = e
  <2>1. Told(e)
    BY <1>2 DEF Placed, AllTold
  <2>2. Follower(reader.frame.msg, e)
    BY <1>2, StreamEntry DEF Follower
  <2> QED
    BY <2>1, <2>2 DEF Told, Learning, Awaited, Learned
<1>3. channels[Local[k]].remote = d
  BY <1>1, <1>2
<1>4. CASE k = "video"
  BY <1>3, <1>4, LocalNumbers DEF Destination, Chan
<1>5. k # "video" => channels[2].remote # d
  <2> SUFFICES ASSUME k # "video" PROVE channels[2].remote # d
    OBVIOUS
  <2>1. PICK e \in DOMAIN streams : streams[e].peer = 2
    BY DEF PeerOf
  <2>2. e # d /\ channels[2].remote = e
    BY <1>1, <1>2, <2>1, LocalNumbers
  <2> QED
    BY <2>2
<1>6. CASE k = "audio"
  BY <1>3, <1>5, <1>6, LocalNumbers DEF Destination, Chan
<1>7. CASE k = "control"
  <2>1. PeerOf(4)
    BY <1>1, <1>7, LocalNumbers DEF PeerOf
  <2>2. PICK e \in DOMAIN streams : streams[e].peer = 3
    BY <2>1 DEF PeerOf, Placed, AudioTaken
  <2>3. e # d /\ channels[3].remote = e
    BY <1>1, <1>2, <1>7, <2>2, LocalNumbers
  <2> QED
    BY <1>3, <1>5, <1>7, <2>3, LocalNumbers DEF Destination, Chan
<1> QED
  BY <1>4, <1>6, <1>7, LocalNumbers

----------------------------------------------------------------------------
(* What lies between a consumer and the device *)

Entry == Nat \X Nat

LEMMA OrderAppendOther ==
    ASSUME NEW t \in Seq(Entry), NEW x \in Entry, NEW d, NEW n, InOrder(t, d, n), x[1] # d
    PROVE  InOrder(Append(t, x), d, n)
<1> DEFINE u == Append(t, x)
<1>1. /\ DOMAIN u = 1 .. Len(t) + 1 /\ DOMAIN t = 1 .. Len(t) /\ Len(t) \in Nat
      /\ u[Len(t) + 1] = x /\ \A i \in 1 .. Len(t) : u[i] = t[i]
  BY PutProperties
<1> HIDE DEF u
<1>2. {i \in DOMAIN u : u[i][1] = d} = {i \in DOMAIN t : t[i][1] = d}
  BY <1>1
<1>3. \A i \in {j \in DOMAIN t : t[j][1] = d} : u[i] = t[i]
  BY <1>1
<1> QED
  BY <1>2, <1>3 DEF InOrder, u

LEMMA OrderAppendNext ==
    ASSUME NEW t \in Seq(Entry), NEW d \in Nat, NEW n \in Nat, InOrder(t, d, n)
    PROVE  InOrder(Append(t, <<d, n + 1>>), d, n + 1)
<1> DEFINE x == <<d, n + 1>>
           u == Append(t, x)
           own == {i \in DOMAIN t : t[i][1] = d}
           now == {i \in DOMAIN u : u[i][1] = d}
<1>1. x \in Entry /\ x[1] = d /\ x[2] = n + 1
  BY DEF Entry
<1>2. /\ DOMAIN u = 1 .. Len(t) + 1 /\ DOMAIN t = 1 .. Len(t) /\ Len(t) \in Nat
      /\ u[Len(t) + 1] = x /\ \A i \in 1 .. Len(t) : u[i] = t[i]
  BY <1>1, PutProperties
<1> HIDE DEF x, u
<1>3. now = own \cup {Len(t) + 1}
  BY <1>1, <1>2
<1>4. /\ \A i, j \in own : i < j => t[i][2] < t[j][2]
      /\ {t[i][2] : i \in own} = 1 .. n
  BY DEF InOrder
<1>5. /\ \A i \in own : i < Len(t) + 1 /\ i \in Nat /\ u[i][2] = t[i][2]
      /\ u[Len(t) + 1][2] = n + 1
  BY <1>1, <1>2
<1>6. \A i \in own : t[i][2] \in 1 .. n
  BY <1>4
<1> HIDE DEF own, now
<1>7. ASSUME NEW i \in now, NEW j \in now, i < j PROVE u[i][2] < u[j][2]
  <2>1. i \in own
    BY <1>2, <1>3, <1>5, <1>7
  <2>2. CASE j \in own
    BY <1>4, <1>5, <1>7, <2>1, <2>2
  <2>3. CASE j = Len(t) + 1
    BY <1>5, <1>6, <2>1, <2>3
  <2> QED
    BY <1>3, <1>7, <2>2, <2>3
<1>8. {u[i][2] : i \in now} = {t[i][2] : i \in own} \cup {n + 1}
  BY <1>3, <1>5
<1>9. (1 .. n) \cup {n + 1} = 1 .. n + 1
  OBVIOUS
<1>10. {u[i][2] : i \in now} = 1 .. n + 1
  BY <1>4, <1>8, <1>9
<1> QED
  BY <1>7, <1>10 DEF InOrder, now, u, x

LEMMA OrderRemove ==
    ASSUME NEW a \in Seq(Entry), NEW x \in Entry, NEW b \in Seq(Entry), NEW d, NEW n,
           InOrder(Append(a, x) \o b, d, n), x[1] # d
    PROVE  InOrder(a \o b, d, n)
<1> DEFINE t == Append(a, x) \o b
           u == a \o b
           own == {i \in DOMAIN t : t[i][1] = d}
           now == {i \in DOMAIN u : u[i][1] = d}
           F(i) == IF i <= Len(a) THEN i ELSE i + 1
           G(i) == IF i <= Len(a) THEN i ELSE i - 1
<1>1. /\ Append(a, x) \in Seq(Entry) /\ Len(Append(a, x)) = Len(a) + 1
      /\ Append(a, x)[Len(a) + 1] = x /\ \A i \in 1 .. Len(a) : Append(a, x)[i] = a[i]
      /\ Len(a) \in Nat /\ Len(b) \in Nat
  BY PutProperties, LenProperties
<1>2. /\ t \in Seq(Entry) /\ Len(t) = Len(a) + 1 + Len(b)
      /\ \A i \in 1 .. Len(a) + 1 + Len(b) :
            t[i] = IF i <= Len(a) + 1 THEN Append(a, x)[i] ELSE b[i - (Len(a) + 1)]
  BY <1>1, ConcatProperties
<1>3. /\ u \in Seq(Entry) /\ Len(u) = Len(a) + Len(b)
      /\ \A i \in 1 .. Len(a) + Len(b) :
            u[i] = IF i <= Len(a) THEN a[i] ELSE b[i - Len(a)]
  BY <1>1, ConcatProperties
<1>4. DOMAIN t = 1 .. Len(a) + 1 + Len(b) /\ DOMAIN u = 1 .. Len(a) + Len(b)
  BY <1>2, <1>3, LenProperties
<1> HIDE DEF t, u
<1>5. ASSUME NEW i \in DOMAIN u
      PROVE  F(i) \in DOMAIN t /\ t[F(i)] = u[i] /\ G(F(i)) = i
  <2>1. CASE i <= Len(a)
    <3>1. F(i) = i /\ G(i) = i
      BY <2>1
    <3>2. i \in 1 .. Len(a) /\ i \in 1 .. Len(a) + 1 + Len(b) /\ i \in 1 .. Len(a) + Len(b)
          /\ i <= Len(a) + 1
      BY <1>1, <1>4, <1>5, <2>1
    <3>3. t[i] = a[i] /\ u[i] = a[i]
      BY <1>1, <1>2, <1>3, <2>1, <3>2
    <3> QED
      BY <1>4, <3>1, <3>2, <3>3
  <2>2. CASE i > Len(a)
    <3>1. i + 1 \in 1 .. Len(a) + 1 + Len(b) /\ i \in 1 .. Len(a) + Len(b)
          /\ (i + 1) - (Len(a) + 1) = i - Len(a) /\ ~(i + 1 <= Len(a) + 1)
      BY <1>1, <1>4, <1>5, <2>2
    <3>2. t[i + 1] = b[i - Len(a)] /\ u[i] = b[i - Len(a)]
      BY <1>1, <1>2, <1>3, <2>2, <3>1
    <3> QED
      BY <1>1, <1>4, <2>2, <3>1, <3>2
  <2> QED
    BY <1>1, <1>4, <1>5, <2>1, <2>2
<1>6. ASSUME NEW i \in DOMAIN t, i # Len(a) + 1
      PROVE  G(i) \in DOMAIN u /\ F(G(i)) = i
  BY <1>1, <1>4, <1>6
<1>7. t[Len(a) + 1] = x
  BY <1>1, <1>2
<1>8. \A i, j \in DOMAIN u : i < j => F(i) < F(j)
  BY <1>1, <1>4
<1> HIDE DEF F, G
<1>9. \A i \in now : i \in DOMAIN u /\ F(i) \in own /\ t[F(i)] = u[i]
  BY <1>5
<1>10. \A i \in own : \E j \in now : F(j) = i /\ u[j] = t[i]
  <2> SUFFICES ASSUME NEW i \in own PROVE \E j \in now : F(j) = i /\ u[j] = t[i]
    OBVIOUS
  <2>1. i # Len(a) + 1
    BY <1>7
  <2>2. G(i) \in DOMAIN u /\ F(G(i)) = i
    BY <1>6, <2>1
  <2>3. t[i] = u[G(i)]
    BY <1>5, <2>2
  <2> QED
    BY <2>2, <2>3
<1>11. /\ \A i, j \in own : i < j => t[i][2] < t[j][2]
       /\ {t[i][2] : i \in own} = 1 .. n
  BY DEF InOrder, t
<1> HIDE DEF own, now
<1>12. \A i, j \in now : i < j => u[i][2] < u[j][2]
  BY <1>8, <1>9, <1>11
<1>13. {u[i][2] : i \in now} = {t[i][2] : i \in own}
  BY <1>9, <1>10
<1> QED
  BY <1>11, <1>12, <1>13 DEF InOrder, now, u

LEMMA OrderNone ==
    ASSUME NEW t, NEW d, \A i \in DOMAIN t : t[i][1] # d
    PROVE  InOrder(t, d, 0)
  BY DEF InOrder

(* The payloads, with something else than a payload in place of the other  *)
(* messages.                                                               *)
Item(f)     == IF f.msg.cmd = "WRTE" THEN Payload(f) ELSE <<0, 0>>
ComingOf(q) == [i \in DOMAIN q |-> Item(q[i])]

LEMMA ItemType ==
    ASSUME NEW f \in FrameSet
    PROVE  Payload(f) \in Entry /\ Item(f) \in Entry /\ <<0, 0>> \in Entry
<1>1. f.msg.arg0 \in Nat /\ f.data \in Nat
  BY DEF FrameSet, Message
<1>2. Payload(f) \in Entry /\ <<0, 0>> \in Entry
  BY <1>1 DEF Payload, Entry
<1> QED
  BY <1>2 DEF Item

LEMMA ComingType ==
    ASSUME NEW q \in Seq(FrameSet)
    PROVE  ComingOf(q) \in Seq(Entry) /\ Len(ComingOf(q)) = Len(q)
<1>1. DOMAIN q = 1 .. Len(q) /\ Len(q) \in Nat /\ \A i \in DOMAIN q : q[i] \in FrameSet
  BY LenProperties, ElementOfSeq
<1>2. ComingOf(q) \in [1 .. Len(q) -> Entry]
  BY <1>1, ItemType DEF ComingOf
<1> QED
  BY <1>1, <1>2, SequenceOf

LEMMA ComingAppend ==
    ASSUME NEW q \in Seq(FrameSet), NEW f \in FrameSet
    PROVE  ComingOf(Append(q, f)) = Append(ComingOf(q), Item(f))
<1> DEFINE r == Append(q, f)
           s == ComingOf(r)
           t == Append(ComingOf(q), Item(f))
<1>1. /\ r \in Seq(FrameSet) /\ Len(r) = Len(q) + 1 /\ Len(q) \in Nat
      /\ DOMAIN r = 1 .. Len(q) + 1 /\ DOMAIN q = 1 .. Len(q)
      /\ r[Len(q) + 1] = f /\ \A i \in 1 .. Len(q) : r[i] = q[i]
  BY PutProperties
<1>2. s \in Seq(Entry) /\ Len(s) = Len(q) + 1 /\ \A i \in 1 .. Len(q) + 1 : s[i] = Item(r[i])
  BY <1>1, ComingType DEF ComingOf
<1>3. /\ ComingOf(q) \in Seq(Entry) /\ Len(ComingOf(q)) = Len(q)
      /\ \A i \in 1 .. Len(q) : ComingOf(q)[i] = Item(q[i])
  BY <1>1, ComingType DEF ComingOf
<1>4. /\ t \in Seq(Entry) /\ Len(t) = Len(q) + 1 /\ t[Len(q) + 1] = Item(f)
      /\ \A i \in 1 .. Len(q) : t[i] = ComingOf(q)[i]
  BY <1>3, ItemType, PutProperties
<1> HIDE DEF r, s, t
<1>5. \A i \in 1 .. Len(s) : s[i] = t[i]
  <2> SUFFICES ASSUME NEW i \in 1 .. Len(q) + 1 PROVE s[i] = t[i]
    BY <1>2
  <2>1. CASE i = Len(q) + 1
    BY <1>1, <1>2, <1>4, <2>1
  <2>2. CASE i \in 1 .. Len(q)
    BY <1>1, <1>2, <1>3, <1>4, <2>2
  <2> QED
    BY <1>1, <2>1, <2>2
<1>6. s = t
  BY <1>2, <1>4, <1>5, SeqEqual
<1> QED
  BY <1>6 DEF r, s, t

LEMMA ComingHead ==
    ASSUME NEW q \in Seq(FrameSet), q # << >>
    PROVE  /\ ComingOf(q) = << Item(Head(q)) >> \o ComingOf(Tail(q))
           /\ Tail(q) \in Seq(FrameSet) /\ Head(q) \in FrameSet
<1> DEFINE r == Tail(q)
           x == Item(Head(q))
           s == ComingOf(q)
           t == << x >> \o ComingOf(r)
<1>1. /\ Len(q) \in Nat \ {0} /\ Head(q) = q[1] /\ Head(q) \in FrameSet
      /\ r \in Seq(FrameSet) /\ Len(r) = Len(q) - 1
      /\ DOMAIN q = 1 .. Len(q) /\ DOMAIN r = 1 .. Len(q) - 1
      /\ \A i \in 1 .. Len(q) - 1 : r[i] = q[i + 1]
  BY TakeProperties
<1>2. s \in Seq(Entry) /\ Len(s) = Len(q) /\ \A i \in 1 .. Len(q) : s[i] = Item(q[i])
  BY <1>1, ComingType DEF ComingOf
<1>3. /\ ComingOf(r) \in Seq(Entry) /\ Len(ComingOf(r)) = Len(q) - 1
      /\ \A i \in 1 .. Len(q) - 1 : ComingOf(r)[i] = Item(r[i])
  BY <1>1, ComingType DEF ComingOf
<1>4. x \in Entry
  BY <1>1, ItemType
<1> HIDE DEF x
<1>5. << x >> \in Seq(Entry) /\ Len(<< x >>) = 1 /\ << x >>[1] = x
  BY <1>4
<1>6. /\ t \in Seq(Entry) /\ Len(t) = 1 + Len(ComingOf(r))
      /\ \A i \in 1 .. 1 + Len(ComingOf(r)) :
            t[i] = IF i <= 1 THEN << x >>[i] ELSE ComingOf(r)[i - 1]
  BY <1>3, <1>5, ConcatProperties
<1> HIDE DEF r, s, t
<1>7. \A i \in 1 .. Len(s) : s[i] = t[i]
  <2> SUFFICES ASSUME NEW i \in 1 .. Len(q) PROVE s[i] = t[i]
    BY <1>2
  <2>1. CASE i = 1
    BY <1>1, <1>2, <1>3, <1>5, <1>6, <2>1 DEF x
  <2>2. CASE i # 1
    <3>1. i - 1 \in 1 .. Len(q) - 1 /\ (i - 1) + 1 = i /\ i \in 1 .. 1 + Len(ComingOf(r))
          /\ ~(i <= 1)
      BY <1>1, <1>3, <2>2
    <3>2. t[i] = ComingOf(r)[i - 1]
      BY <1>6, <3>1
    <3>3. ComingOf(r)[i - 1] = Item(r[i - 1]) /\ r[i - 1] = q[i]
      BY <1>1, <1>3, <3>1
    <3> QED
      BY <1>2, <3>2, <3>3
  <2> QED
    BY <2>1, <2>2
<1>8. s = t
  BY <1>1, <1>2, <1>3, <1>6, <1>7, SeqEqual
<1> QED
  BY <1>1, <1>8 DEF r, s, t, x

(* A trail, of the payloads taken, those in the socketpair, the one in     *)
(* hand and those coming, and how a step changes it.                       *)
Laid(a, b, h, d) == a \o b \o h \o d

LEMMA LaidType ==
    ASSUME NEW a \in Seq(Entry), NEW b \in Seq(Entry), NEW h \in Seq(Entry), NEW d \in Seq(Entry)
    PROVE  Laid(a, b, h, d) \in Seq(Entry) /\ a \o b \in Seq(Entry)
<1>1. a \o b \in Seq(Entry)
  BY ConcatProperties
<1>2. a \o b \o h \in Seq(Entry)
  BY <1>1, ConcatProperties
<1> QED
  BY <1>1, <1>2, ConcatProperties DEF Laid

LEMMA LaidHand ==
    ASSUME NEW a \in Seq(Entry), NEW b \in Seq(Entry), NEW d \in Seq(Entry), NEW x \in Entry
    PROVE  /\ Laid(a, b, << x >>, d) = Append(a \o b, x) \o d
           /\ Laid(a, b, << >>, d) = a \o b \o d
<1>1. a \o b \in Seq(Entry)
  BY ConcatProperties
<1>2. a \o b \o << x >> = Append(a \o b, x) /\ a \o b \o << >> = a \o b
  BY <1>1, PutProperties
<1> QED
  BY <1>2 DEF Laid

LEMMA LaidReceived ==
    ASSUME NEW a \in Seq(Entry), NEW b \in Seq(Entry), NEW d \in Seq(Entry), NEW x \in Entry
    PROVE  Laid(a, b, << >>, << x >> \o d) = Append(a \o b, x) \o d
<1> DEFINE e == a \o b
           r == << x >> \o d
<1>1. e \in Seq(Entry) /\ << x >> \in Seq(Entry)
  BY ConcatProperties
<1> HIDE DEF e
<1>2. e \o << x >> = Append(e, x) /\ e \o << >> = e
  BY <1>1, PutProperties
<1>3. e \o r = (e \o << x >>) \o d
  BY <1>1, ConcatAssociative
<1> HIDE DEF r
<1>4. (e \o << >>) \o r = Append(e, x) \o d
  BY <1>2, <1>3
<1> QED
  BY <1>4 DEF e, r, Laid

LEMMA LaidRelayed ==
    ASSUME NEW a \in Seq(Entry), NEW b \in Seq(Entry), NEW d \in Seq(Entry), NEW x \in Entry
    PROVE  Laid(a, Append(b, x), << >>, d) = Append(a \o b, x) \o d
<1>1. a \o b \in Seq(Entry) /\ << x >> \in Seq(Entry)
  BY ConcatProperties
<1>2. /\ a \o b \o << x >> = Append(a \o b, x) /\ b \o << x >> = Append(b, x)
      /\ Append(a \o b, x) \in Seq(Entry)
  BY <1>1, PutProperties
<1>3. a \o (b \o << x >>) = (a \o b) \o << x >>
  BY <1>1, ConcatAssociative
<1>4. a \o Append(b, x) = Append(a \o b, x)
  BY <1>2, <1>3
<1>5. Append(a \o b, x) \o << >> = Append(a \o b, x)
  BY <1>2, PutProperties
<1> QED
  BY <1>4, <1>5 DEF Laid

LEMMA LaidTaken ==
    ASSUME NEW a \in Seq(Entry), NEW b \in Seq(Entry), NEW h, NEW d, NEW x \in Entry
    PROVE  Laid(Append(a, x), b, h, d) = Laid(a, << x >> \o b, h, d)
<1>1. << x >> \in Seq(Entry) /\ a \o << x >> = Append(a, x)
  BY PutProperties
<1>2. (a \o << x >>) \o b = a \o (<< x >> \o b)
  BY <1>1, ConcatAssociative
<1>3. Append(a, x) \o b = a \o (<< x >> \o b)
  BY <1>1, <1>2
<1> QED
  BY <1>3 DEF Laid

LEMMA HeadJoined ==
    ASSUME NEW q \in Seq(Entry), q # << >>
    PROVE  Head(q) \in Entry /\ Tail(q) \in Seq(Entry) /\ q = << Head(q) >> \o Tail(q)
<1>1. /\ Len(q) \in Nat \ {0} /\ Head(q) = q[1] /\ Head(q) \in Entry
      /\ Tail(q) \in Seq(Entry) /\ Tail(q) = SubSeq(q, 2, Len(q))
  BY TakeProperties, TailIsSubSeq
<1>2. 1 \in 1 .. Len(q) /\ Len(q) \in 1 .. Len(q)
  BY <1>1
<1>3. SubSeq(q, 1, Len(q)) = << q[1] >> \o SubSeq(q, 1 + 1, Len(q))
  BY <1>2, SubSeqRecursiveFirst
<1>4. SubSeq(q, 1, Len(q)) = q
  BY SubSeqFull
<1> QED
  BY <1>1, <1>3, <1>4

HandOf(r) == IF r.pc \in {"ack", "relay"} THEN << Payload(r.frame) >> ELSE << >>

LEMMA TrailParts ==
    ASSUME Inv, NEW k \in Kinds
    PROVE  /\ taken[k] \in Seq(Entry) /\ pairs[k] \in Seq(Entry)
           /\ HandOf(reader) \in Seq(Entry) /\ ComingOf(down) \in Seq(Entry)
           /\ Trail(k) = Laid(taken[k], pairs[k], HandOf(reader), ComingOf(down))
           /\ Trail(k) \in Seq(Entry) /\ taken[k] \o pairs[k] \in Seq(Entry)
<1>1. taken[k] \in Seq(Entry) /\ pairs[k] \in Seq(Entry)
  BY DEF Inv, Shape, Entry
<1>2. HandOf(reader) \in Seq(Entry)
  <2>1. Payload(reader.frame) \in Entry
    BY PayloadType DEF Entry
  <2>2. << Payload(reader.frame) >> \in Seq(Entry) /\ << >> \in Seq(Entry)
    BY <2>1
  <2> QED
    BY <2>2 DEF HandOf
<1>3. ComingOf(down) \in Seq(Entry)
  BY ComingType DEF Inv, Shape
<1>4. Trail(k) = Laid(taken[k], pairs[k], HandOf(reader), ComingOf(down))
  BY DEF Trail, InHand, Coming, HandOf, ComingOf, Item, Laid
<1>5. /\ taken[k] \o pairs[k] \in Seq(Entry)
      /\ Laid(taken[k], pairs[k], HandOf(reader), ComingOf(down)) \in Seq(Entry)
  BY <1>1, <1>2, <1>3, LaidType
<1> QED
  BY <1>1, <1>2, <1>3, <1>4, <1>5

LEMMA TrailGrown ==
    ASSUME Inv, NEW k \in Kinds, NEW x \in Entry
    PROVE  Laid(taken[k], pairs[k], HandOf(reader), Append(ComingOf(down), x)) = Append(Trail(k), x)
<1> DEFINE t == taken[k] \o pairs[k] \o HandOf(reader)
           d == ComingOf(down)
<1>1. /\ taken[k] \o pairs[k] \in Seq(Entry) /\ HandOf(reader) \in Seq(Entry) /\ d \in Seq(Entry)
      /\ Trail(k) = Laid(taken[k], pairs[k], HandOf(reader), d)
  BY TrailParts
<1>2. t \in Seq(Entry) /\ << x >> \in Seq(Entry)
  BY <1>1, ConcatProperties
<1>3. Trail(k) = t \o d
  BY <1>1 DEF Laid
<1> HIDE DEF t, d
<1>4. t \o d \in Seq(Entry)
  BY <1>1, <1>2, ConcatProperties
<1>5. d \o << x >> = Append(d, x) /\ (t \o d) \o << x >> = Append(t \o d, x)
  BY <1>1, <1>4, PutProperties
<1>6. t \o (d \o << x >>) = (t \o d) \o << x >>
  BY <1>1, <1>2, ConcatAssociative
<1>7. t \o Append(d, x) = Append(Trail(k), x)
  BY <1>3, <1>5, <1>6
<1> QED
  BY <1>7 DEF t, d, Laid

LEMMA TrailAfter ==
    ASSUME NEW k \in Kinds
    PROVE  Trail(k)' = Laid(taken'[k], pairs'[k], HandOf(reader'), ComingOf(down'))
  BY DEF Trail, InHand, Coming, HandOf, ComingOf, Item, Laid

(* What a step does to a trail: nothing, something of no stream of this    *)
(* role goes out of it, or something comes in at its end; it is the        *)
(* payload a stream sends now when there is one.                           *)
SentKept == \A d \in DOMAIN streams : streams'[d].sent = streams[d].sent
Foreign(x, k) == PeerOf(2) => \A d \in DOMAIN streams : streams[d].role = k => x[1] # d
TrailLoses(k) ==
    /\ SentKept
    /\ \E a, b \in Seq(Entry), x \in Entry :
          Trail(k) = Append(a, x) \o b /\ Trail(k)' = a \o b /\ Foreign(x, k)
SendsNext(k, e) ==
    /\ Trail(k)' = Append(Trail(k), <<e, streams[e].sent + 1>>)
    /\ streams'[e].sent = streams[e].sent + 1
    /\ \A d \in DOMAIN streams : d # e => streams'[d].sent = streams[d].sent
TrailMoves(k) ==
    \/ Trail(k)' = Trail(k) /\ SentKept
    \/ TrailLoses(k)
    \/ Trail(k)' = Append(Trail(k), <<0, 0>>) /\ SentKept
    \/ \E e \in DOMAIN streams : SendsNext(k, e)

LEMMA SentStep ==
    ASSUME Inv, [Next]_vars, ~\E d \in DOMAIN streams : DeviceWrites(d)
    PROVE  SentKept
<1>1. CASE DeviceAccepts
  <2>1. PICK l \in DOMAIN channels :
           /\ streams' = Append(streams, Stream(l, RoleOf(l)))
           /\ Stream(l, RoleOf(l)) \in DevStream
    BY <1>1, AcceptedStep
  <2> QED
    BY <2>1, PutProperties DEF SentKept, Inv, Shape
<1>2. ASSUME NEW e \in DOMAIN streams, NEW s, s.sent = streams[e].sent,
             streams' = [streams EXCEPT ![e] = s]
      PROVE  SentKept
  BY <1>2 DEF SentKept
<1>3. CASE \E e \in DOMAIN streams : streams' = [streams EXCEPT ![e].unacked = FALSE]
  <2>1. PICK e \in DOMAIN streams : streams' = [streams EXCEPT ![e].unacked = FALSE]
    BY <1>3
  <2> DEFINE s == [streams[e] EXCEPT !.unacked = FALSE]
  <2>2. s.sent = streams[e].sent
    BY StreamEntry DEF DevStream
  <2>3. streams' = [streams EXCEPT ![e] = s]
    BY <2>1
  <2> HIDE DEF s
  <2> QED
    BY <1>2, <2>2, <2>3
<1>4. CASE \E e \in DOMAIN streams : streams' = [streams EXCEPT ![e].alive = FALSE]
  <2>1. PICK e \in DOMAIN streams : streams' = [streams EXCEPT ![e].alive = FALSE]
    BY <1>4
  <2> DEFINE s == [streams[e] EXCEPT !.alive = FALSE]
  <2>2. s.sent = streams[e].sent
    BY StreamEntry DEF DevStream
  <2>3. streams' = [streams EXCEPT ![e] = s]
    BY <2>1
  <2> HIDE DEF s
  <2> QED
    BY <1>2, <2>2, <2>3
<1>5. CASE streams' = streams
  BY <1>5 DEF SentKept
<1>6. DeviceReceives => \/ streams' = streams
        \/ \E e \in DOMAIN streams : streams' = [streams EXCEPT ![e].unacked = FALSE]
  BY DEF DeviceReceives, Known, device
<1>7. (\E d \in DOMAIN streams : DeviceCloses(d)) =>
         \E e \in DOMAIN streams : streams' = [streams EXCEPT ![e].alive = FALSE]
  BY DEF DeviceCloses
<1>8. \/ DeviceAccepts \/ DeviceReceives \/ streams' = streams
      \/ \E d \in DOMAIN streams : DeviceCloses(d)
  BY DEF Next, Reader, ReaderReplies, ReaderReceives, ReaderOkay, ReaderAcks,
         ReaderRelays, ReaderStops, Sender, SenderTakes, SenderSendsHeader,
         SenderSendsPayload, Main, MainReadsAudioMetadata, MainWaits,
         MainReadsMetadata, ControlWritten, MainKills, ConsumerReads, ConsumerEnds,
         Break, Device, DeviceAsks, DeviceConfused, DeviceRefuses, vars, device
<1> QED
  BY <1>1, <1>3, <1>4, <1>5, <1>6, <1>7, <1>8

LEMMA TrailWritten ==
    ASSUME Inv, NEW k \in Kinds, NEW e \in DOMAIN streams, DeviceWrites(e)
    PROVE  SendsNext(k, e)
<1> DEFINE f == Frame(Msg("WRTE", e, streams[e].peer), streams[e].sent + 1)
<1>1. /\ Answer(<< f >>)
      /\ streams' = [streams EXCEPT ![e].sent = @ + 1, ![e].unacked = TRUE]
      /\ taken' = taken /\ pairs' = pairs /\ reader' = reader
  BY DEF DeviceWrites, host, relay
<1>2. e \in Nat /\ streams[e].peer \in Nat /\ streams[e].sent + 1 \in Nat
      /\ streams[e] \in DevStream
  BY StreamEntry
<1>3. f \in FrameSet /\ Item(f) = <<e, streams[e].sent + 1>>
  BY <1>2 DEF Frame, Msg, FrameSet, Message, Item, Payload
<1> HIDE DEF f
<1>4. down' = Append(down, f)
  BY <1>1, <1>3, AnswerOne
<1>5. ComingOf(down') = Append(ComingOf(down), <<e, streams[e].sent + 1>>)
  BY <1>3, <1>4, ComingAppend DEF Inv, Shape
<1>6. <<e, streams[e].sent + 1>> \in Entry
  BY <1>2 DEF Entry
<1>7. Trail(k)' = Append(Trail(k), <<e, streams[e].sent + 1>>)
  <2>1. Trail(k)' = Laid(taken[k], pairs[k], HandOf(reader),
                          Append(ComingOf(down), <<e, streams[e].sent + 1>>))
    BY <1>1, <1>5, TrailAfter
  <2> QED
    BY <1>6, <2>1, TrailGrown
<1>8. \A d \in DOMAIN streams : d # e => streams'[d] = streams[d]
  BY <1>1
<1>9. streams'[e].sent = streams[e].sent + 1
  <2> DEFINE s == [streams[e] EXCEPT !.sent = @ + 1, !.unacked = TRUE]
  <2>1. streams'[e] = s
    BY <1>1
  <2>2. s.sent = streams[e].sent + 1
    BY <1>2 DEF DevStream
  <2> QED
    BY <2>1, <2>2
<1> QED
  BY <1>7, <1>8, <1>9 DEF SendsNext

LEMMA TrailReceived ==
    ASSUME Inv, [Next]_vars, NEW k \in Kinds, ReaderReceives, SentKept
    PROVE  TrailMoves(k)
<1>1. /\ reader.pc = "recv" /\ down # << >> /\ down' = Tail(down)
      /\ taken' = taken /\ pairs' = pairs
      /\ \/ /\ Head(down).msg.cmd = "WRTE"
            /\ reader' = [pc |-> "ack", frame |-> Head(down)]
         \/ /\ Head(down).msg.cmd = "OKAY"
            /\ reader' = [pc |-> "okay", frame |-> Head(down)]
         \/ /\ Head(down).msg.cmd # "WRTE"
            /\ reader'.pc = "reply" \/ reader' = reader
  BY DEF ReaderReceives, relay
<1> DEFINE x == Item(Head(down))
           b == ComingOf(Tail(down))
           a == taken[k] \o pairs[k]
<1>2. ComingOf(down) = << x >> \o b /\ x \in Entry /\ b \in Seq(Entry)
  BY <1>1, ComingHead, ComingType, ItemType DEF Inv, Shape
<1>3. HandOf(reader) = << >>
  BY <1>1 DEF HandOf
<1>4. taken[k] \in Seq(Entry) /\ pairs[k] \in Seq(Entry) /\ a \in Seq(Entry)
  BY TrailParts, ConcatProperties
<1>5. Trail(k) = Laid(taken[k], pairs[k], << >>, << x >> \o b)
  BY <1>2, <1>3, TrailParts
<1> HIDE DEF x, b
<1>6. Trail(k) = Append(a, x) \o b
  <2>1. Laid(taken[k], pairs[k], << >>, << x >> \o b) = Append(a, x) \o b
    BY <1>2, <1>4, LaidReceived
  <2> QED
    BY <1>5, <2>1
<1>7. Trail(k)' = Laid(taken[k], pairs[k], HandOf(reader'), b)
  BY <1>1, TrailAfter DEF b
<1>8. CASE Head(down).msg.cmd = "WRTE"
  <2>1. HandOf(reader') = << x >>
    BY <1>1, <1>8 DEF HandOf, x, Item
  <2>2. Laid(taken[k], pairs[k], << x >>, b) = Append(a, x) \o b
    BY <1>2, <1>4, LaidHand
  <2>3. Trail(k)' = Append(a, x) \o b
    BY <1>7, <2>1, <2>2
  <2> QED
    BY <1>6, <2>3 DEF TrailMoves
<1>9. CASE Head(down).msg.cmd # "WRTE"
  <2>1. HandOf(reader') = << >> /\ x = <<0, 0>>
    BY <1>1, <1>9 DEF HandOf, x, Item
  <2>4. Laid(taken[k], pairs[k], << >>, b) = a \o b
    BY <1>2, <1>4, LaidHand
  <2>2. Trail(k)' = a \o b
    BY <1>7, <2>1, <2>4
  <2>3. Foreign(x, k)
    BY <2>1, StreamEntry DEF Foreign
  <2> HIDE DEF a
  <2> QED
    BY <1>2, <1>4, <1>6, <2>2, <2>3 DEF TrailMoves, TrailLoses
<1> QED
  BY <1>8, <1>9

LEMMA TrailRelayed ==
    ASSUME Inv, Roled, Placed, [Next]_vars, NEW k \in Kinds, ReaderRelays, SentKept
    PROVE  TrailMoves(k)
<1> DEFINE x == Payload(reader.frame)
           b == ComingOf(down)
           a == taken[k] \o pairs[k]
           w == Destination(reader.frame.msg)
<1>1. /\ reader.pc = "relay" /\ down' = down /\ taken' = taken
      /\ reader' = [pc |-> "recv", frame |-> Nothing]
      /\ \/ w = "nowhere" /\ pairs' = pairs
         \/ w # "nowhere" /\ pairs' = [pairs EXCEPT ![w] = Append(@, x)]
  BY DEF ReaderRelays, net
<1>2. x \in Entry /\ w \in Kinds \cup {"nowhere"}
  BY PayloadType DEF Entry
<1>3. HandOf(reader) = << x >> /\ HandOf(reader') = << >>
  BY <1>1 DEF HandOf
<1>4. taken[k] \in Seq(Entry) /\ pairs[k] \in Seq(Entry) /\ a \in Seq(Entry) /\ b \in Seq(Entry)
  BY TrailParts
<1>5. Trail(k) = Laid(taken[k], pairs[k], << x >>, b)
  BY <1>3, TrailParts
<1>6. Trail(k)' = Laid(taken[k], pairs'[k], << >>, b)
  BY <1>1, <1>3, TrailAfter
<1> HIDE DEF x, b, w
<1>7. Trail(k) = Append(a, x) \o b
  <2>1. Laid(taken[k], pairs[k], << x >>, b) = Append(a, x) \o b
    BY <1>2, <1>4, LaidHand
  <2> QED
    BY <1>5, <2>1
<1>8. CASE w = k
  <2>1. pairs'[k] = Append(pairs[k], x)
    BY <1>1, <1>8, LocalNumbers DEF Inv, Shape
  <2>2. Laid(taken[k], Append(pairs[k], x), << >>, b) = Append(a, x) \o b
    BY <1>2, <1>4, LaidRelayed
  <2>3. Trail(k)' = Trail(k)
    BY <1>6, <1>7, <2>1, <2>2
  <2> QED
    BY <2>3 DEF TrailMoves
<1>9. CASE w # k
  <2>1. pairs'[k] = pairs[k]
    BY <1>1, <1>9 DEF Inv, Shape
  <2>2. Laid(taken[k], pairs[k], << >>, b) = a \o b
    BY <1>2, <1>4, LaidHand
  <2>3. Trail(k)' = a \o b
    BY <1>6, <2>1, <2>2
  <2>4. Foreign(x, k)
    <3> SUFFICES ASSUME PeerOf(2), NEW d \in DOMAIN streams, streams[d].role = k, x[1] = d
                 PROVE  FALSE
      BY DEF Foreign
    <3>1. reader.frame.msg.arg0 = d
      BY DEF x, Payload
    <3>2. Destination(reader.frame.msg) = k
      BY <1>1, <3>1, RoutedRight
    <3> QED
      BY <1>9, <3>2 DEF w
  <2> HIDE DEF a
  <2> QED
    BY <1>2, <1>4, <1>7, <2>3, <2>4 DEF TrailMoves, TrailLoses
<1> QED
  BY <1>8, <1>9

LEMMA TrailTaken ==
    ASSUME Inv, [Next]_vars, NEW k \in Kinds, NEW j \in Kinds, Take(j),
           reader' = reader, down' = down, SentKept
    PROVE  TrailMoves(k)
<1> SUFFICES Trail(k)' = Trail(k)
  BY DEF TrailMoves
<1>1. /\ pairs[j] # << >>
      /\ taken' = [taken EXCEPT ![j] = Append(@, Head(pairs[j]))]
      /\ pairs' = [pairs EXCEPT ![j] = Tail(@)]
  BY DEF Take
<1>2. Trail(k)' = Laid(taken'[k], pairs'[k], HandOf(reader), ComingOf(down))
  BY TrailAfter
<1>3. Trail(k) = Laid(taken[k], pairs[k], HandOf(reader), ComingOf(down))
  BY TrailParts
<1>4. CASE j # k
  <2>1. taken'[k] = taken[k] /\ pairs'[k] = pairs[k]
    BY <1>1, <1>4 DEF Inv, Shape
  <2> QED
    BY <1>2, <1>3, <2>1
<1>5. CASE j = k
  <2> DEFINE x == Head(pairs[k])
             b == Tail(pairs[k])
  <2>1. taken'[k] = Append(taken[k], x) /\ pairs'[k] = b
    BY <1>1, <1>5 DEF Inv, Shape
  <2>2. taken[k] \in Seq(Entry) /\ pairs[k] \in Seq(Entry)
    BY TrailParts
  <2>3. x \in Entry /\ b \in Seq(Entry) /\ pairs[k] = << x >> \o b
    BY <1>1, <1>5, <2>2, HeadJoined
  <2> HIDE DEF x, b
  <2>4. Laid(Append(taken[k], x), b, HandOf(reader), ComingOf(down))
          = Laid(taken[k], << x >> \o b, HandOf(reader), ComingOf(down))
    BY <2>2, <2>3, LaidTaken
  <2> QED
    BY <1>2, <1>3, <2>1, <2>3, <2>4
<1> QED
  BY <1>4, <1>5

LEMMA TrailStep ==
    ASSUME Inv, Roled, Placed, [Next]_vars, NEW k \in Kinds
    PROVE  TrailMoves(k)
<1>1. CASE \E e \in DOMAIN streams : DeviceWrites(e)
  BY <1>1, TrailWritten DEF TrailMoves
<1>2. CASE ~\E e \in DOMAIN streams : DeviceWrites(e)
  <2>1. SentKept
    BY <1>2, SentStep
  <2>2. CASE ReaderReceives
    BY <2>1, <2>2, TrailReceived
  <2>3. CASE ReaderRelays
    BY <2>1, <2>3, TrailRelayed
  <2>4. CASE \E j \in Kinds : Take(j) /\ reader' = reader /\ down' = down
    BY <2>1, <2>4, TrailTaken
  <2>5. CASE /\ HandOf(reader') = HandOf(reader) /\ UNCHANGED <<taken, pairs>>
             /\ ~ReaderReceives
    <3>1. Trail(k)' = Laid(taken[k], pairs[k], HandOf(reader), ComingOf(down'))
      BY <2>5, TrailAfter
    <3>2. CASE down' = down
      <4>1. Trail(k)' = Trail(k)
        BY <3>1, <3>2, TrailParts
      <4> QED
        BY <2>1, <4>1 DEF TrailMoves
    <3>3. CASE \E f \in FrameSet : down' = Append(down, f) /\ f.msg.cmd # "WRTE"
      <4>1. PICK f \in FrameSet : down' = Append(down, f) /\ f.msg.cmd # "WRTE"
        BY <3>3
      <4>2. ComingOf(down') = Append(ComingOf(down), <<0, 0>>) /\ <<0, 0>> \in Entry
        BY <4>1, ComingAppend, ItemType DEF Inv, Shape, Item
      <4>3. Trail(k)' = Append(Trail(k), <<0, 0>>)
        BY <3>1, <4>2, TrailGrown
      <4> QED
        BY <2>1, <4>3 DEF TrailMoves
    <3> QED
      BY <1>2, <2>5, <3>2, <3>3, DownStep
  <2>6. ReaderOkay \/ ReaderReplies \/ ReaderAcks \/ ReaderStops =>
           HandOf(reader') = HandOf(reader) /\ UNCHANGED <<taken, pairs>> /\ ~ReaderReceives
    <3>1. reader \in [pc : Places, frame : FrameSet]
      BY DEF Inv, Shape
    <3>2. ReaderOkay => HandOf(reader') = HandOf(reader) /\ UNCHANGED <<taken, pairs>> /\ ~ReaderReceives
      BY <3>1 DEF ReaderOkay, HandOf, ReaderReceives, relay
    <3>3. ReaderAcks => HandOf(reader') = HandOf(reader) /\ UNCHANGED <<taken, pairs>> /\ ~ReaderReceives
      BY <3>1 DEF ReaderAcks, HandOf, ReaderReceives, relay
    <3>4. ReaderStops => HandOf(reader') = HandOf(reader) /\ UNCHANGED <<taken, pairs>> /\ ~ReaderReceives
      BY <3>1 DEF ReaderStops, HandOf, ReaderReceives, relay
    <3>5. ReaderReplies => /\ HandOf(reader') = HandOf(reader)
                           /\ UNCHANGED <<taken, pairs>> /\ ~ReaderReceives
      <4> SUFFICES ASSUME ReaderReplies
                   PROVE  HandOf(reader') = HandOf(reader) /\ UNCHANGED <<taken, pairs>>
                            /\ ~ReaderReceives
        OBVIOUS
      <4>1. \/ reader' = [pc |-> "recv", frame |-> Nothing]
            \/ \E pc \in {"replyBody", "tls"} : reader' = [reader EXCEPT !.pc = pc]
        BY DEF ReaderReplies
      <4>3. reader'.pc \notin {"ack", "relay"}
        BY <3>1, <4>1
      <4>2. reader'.pc \notin {"ack", "relay"} /\ reader.pc \in {"reply", "replyBody"}
        BY <4>3 DEF ReaderReplies
      <4> QED
        BY <4>2 DEF HandOf, ReaderReplies, ReaderReceives, relay
    <3> QED
      BY <3>2, <3>3, <3>4, <3>5
  <2>7. \/ ReaderReceives \/ ReaderRelays \/ ReaderOkay \/ ReaderAcks \/ ReaderStops
        \/ ReaderReplies
        \/ \E j \in Kinds : Take(j) /\ reader' = reader /\ down' = down
        \/ reader' = reader /\ UNCHANGED <<taken, pairs>>
    BY LocalNumbers DEF Next, Reader, Sender, SenderTakes, SenderSendsHeader,
           SenderSendsPayload, Main, MainReadsAudioMetadata, MainWaits,
           MainReadsMetadata, ControlWritten, MainKills, ConsumerReads,
           ConsumerEnds, Break, Device, DeviceAsks, DeviceConfused, DeviceAccepts,
           DeviceRefuses, DeviceReceives, DeviceWrites, DeviceCloses, vars, host,
           net, relay
  <2> QED
    BY <2>2, <2>3, <2>4, <2>5, <2>6, <2>7
<1> QED
  BY <1>1, <1>2

----------------------------------------------------------------------------
(* The payloads in order *)

(* Nothing on a trail is of a stream still to come. *)
TrailsOwned ==
    \A k \in Kinds : \A i \in DOMAIN Trail(k) : Trail(k)[i][1] \in 0 .. Len(streams)

Relayed == PeerOf(2) => \A d \in DOMAIN streams :
    streams[d].role \in Kinds => InOrder(Trail(streams[d].role), d, streams[d].sent)

LEMMA RemovedProperties ==
    ASSUME NEW a \in Seq(Entry), NEW x \in Entry, NEW b \in Seq(Entry), NEW i \in DOMAIN (a \o b)
    PROVE  \E j \in DOMAIN (Append(a, x) \o b) : (Append(a, x) \o b)[j] = (a \o b)[i]
<1> DEFINE t == Append(a, x) \o b
           u == a \o b
<1>1. /\ Append(a, x) \in Seq(Entry) /\ Len(Append(a, x)) = Len(a) + 1
      /\ \A j \in 1 .. Len(a) : Append(a, x)[j] = a[j]
      /\ Len(a) \in Nat /\ Len(b) \in Nat
  BY PutProperties, LenProperties
<1>2. /\ t \in Seq(Entry) /\ Len(t) = Len(a) + 1 + Len(b)
      /\ \A j \in 1 .. Len(a) + 1 + Len(b) :
            t[j] = IF j <= Len(a) + 1 THEN Append(a, x)[j] ELSE b[j - (Len(a) + 1)]
  BY <1>1, ConcatProperties
<1>3. /\ u \in Seq(Entry) /\ Len(u) = Len(a) + Len(b)
      /\ \A j \in 1 .. Len(a) + Len(b) : u[j] = IF j <= Len(a) THEN a[j] ELSE b[j - Len(a)]
  BY <1>1, ConcatProperties
<1>4. DOMAIN t = 1 .. Len(a) + 1 + Len(b) /\ DOMAIN u = 1 .. Len(a) + Len(b)
  BY <1>2, <1>3, LenProperties
<1> HIDE DEF t, u
<1>5. i \in 1 .. Len(a) + Len(b)
  BY <1>4 DEF u
<1>6. CASE i <= Len(a)
  <2>1. i \in 1 .. Len(a) /\ i \in 1 .. Len(a) + 1 + Len(b) /\ i <= Len(a) + 1
    BY <1>1, <1>5, <1>6
  <2>2. t[i] = a[i] /\ u[i] = a[i]
    BY <1>1, <1>2, <1>3, <1>5, <1>6, <2>1
  <2> QED
    BY <1>4, <2>1, <2>2 DEF t, u
<1>7. CASE i > Len(a)
  <2>1. i + 1 \in 1 .. Len(a) + 1 + Len(b) /\ ~(i + 1 <= Len(a) + 1)
        /\ (i + 1) - (Len(a) + 1) = i - Len(a) /\ ~(i <= Len(a))
    BY <1>1, <1>5, <1>7
  <2>2. t[i + 1] = b[i - Len(a)] /\ u[i] = b[i - Len(a)]
    BY <1>2, <1>3, <1>5, <2>1
  <2> QED
    BY <1>4, <2>1, <2>2 DEF t, u
<1> QED
  BY <1>1, <1>5, <1>6, <1>7

LEMMA AppendedProperties ==
    ASSUME NEW t \in Seq(Entry), NEW x \in Entry, NEW i \in DOMAIN Append(t, x)
    PROVE  Append(t, x)[i] = x \/ (i \in DOMAIN t /\ Append(t, x)[i] = t[i])
<1>1. /\ DOMAIN Append(t, x) = 1 .. Len(t) + 1 /\ DOMAIN t = 1 .. Len(t)
      /\ Len(t) \in Nat /\ Append(t, x)[Len(t) + 1] = x
      /\ \A j \in 1 .. Len(t) : Append(t, x)[j] = t[j]
  BY PutProperties
<1> QED
  BY <1>1

LEMMA TrailEntries ==
    ASSUME Inv, Roled, Placed, TrailsOwned, [Next]_vars,
           NEW k \in Kinds, NEW i \in DOMAIN Trail(k)'
    PROVE  Trail(k)'[i][1] \in 0 .. Len(streams)
<1>1. Len(streams) \in Nat /\ DOMAIN streams = 1 .. Len(streams)
  BY StreamsStep
<1>2. /\ Trail(k) \in Seq(Entry)
      /\ \A j \in DOMAIN Trail(k) : Trail(k)[j][1] \in 0 .. Len(streams)
  BY TrailParts DEF TrailsOwned
<1>3. CASE Trail(k)' = Trail(k)
  BY <1>2, <1>3
<1>4. CASE TrailLoses(k)
  <2>1. PICK a \in Seq(Entry), b \in Seq(Entry), x \in Entry :
           Trail(k) = Append(a, x) \o b /\ Trail(k)' = a \o b
    BY <1>4 DEF TrailLoses
  <2>2. i \in DOMAIN (a \o b)
    BY <2>1
  <2>3. \E j \in DOMAIN (Append(a, x) \o b) : (Append(a, x) \o b)[j] = (a \o b)[i]
    BY <2>2, RemovedProperties
  <2> QED
    BY <1>2, <2>1, <2>3
<1>5. ASSUME NEW x \in Entry, Trail(k)' = Append(Trail(k), x), x[1] \in 0 .. Len(streams)
      PROVE  Trail(k)'[i][1] \in 0 .. Len(streams)
  <2>1. i \in DOMAIN Append(Trail(k), x)
    BY <1>5
  <2>2. \/ Append(Trail(k), x)[i] = x
        \/ i \in DOMAIN Trail(k) /\ Append(Trail(k), x)[i] = Trail(k)[i]
    BY <1>2, <2>1, AppendedProperties
  <2> QED
    BY <1>2, <1>5, <2>2
<1>6. TrailMoves(k)
  BY TrailStep
<1>7. <<0, 0>> \in Entry /\ <<0, 0>>[1] \in 0 .. Len(streams)
  BY <1>1 DEF Entry
<1>8. \A e \in DOMAIN streams : /\ <<e, streams[e].sent + 1>> \in Entry
                                /\ <<e, streams[e].sent + 1>>[1] \in 0 .. Len(streams)
  BY <1>1, StreamEntry DEF Entry
<1> QED
  BY <1>3, <1>4, <1>5, <1>6, <1>7, <1>8 DEF TrailMoves, SendsNext

LEMMA TrailsOwnedStep ==
    ASSUME Inv, Roled, Placed, TrailsOwned, [Next]_vars
    PROVE  TrailsOwned'
<1>1. Len(streams) \in Nat /\ Len(streams') \in Nat /\ Len(streams) <= Len(streams')
  BY StreamsStep
<1>2. \A k \in Kinds : \A i \in DOMAIN Trail(k)' : Trail(k)'[i][1] \in 0 .. Len(streams)
  BY TrailEntries
<1>3. 0 .. Len(streams) \subseteq 0 .. Len(streams')
  BY <1>1
<1> QED
  BY <1>2, <1>3 DEF TrailsOwned

LEMMA RelayedStep ==
    ASSUME Inv, Roled, Placed, TrailsOwned, Relayed, [Next]_vars
    PROVE  Relayed'
<1> SUFFICES ASSUME PeerOf(2)', NEW d \in DOMAIN streams', NEW k \in Kinds,
                    streams'[d].role = k
             PROVE  InOrder(Trail(k)', d, streams'[d].sent)
  BY DEF Relayed
<1>1. /\ Len(streams) \in Nat /\ Len(streams') \in Nat /\ Len(streams) <= Len(streams')
      /\ DOMAIN streams = 1 .. Len(streams)
  BY StreamsStep
<1>2. CASE d \notin DOMAIN streams
  <2>1. DeviceAccepts
    BY <1>2, DomainGrows
  <2>2. PICK l \in DOMAIN channels :
         /\ l \in Nat /\ streams' = Append(streams, Stream(l, RoleOf(l)))
         /\ Stream(l, RoleOf(l)) \in DevStream
         /\ down' = Append(down, Frame(Msg("OKAY", Len(streams) + 1, l), 0))
    BY <2>1, AcceptedStep
  <2>3. /\ DOMAIN streams' = 1 .. Len(streams) + 1
        /\ streams'[Len(streams) + 1] = Stream(l, RoleOf(l))
    BY <2>2, PutProperties DEF Inv, Shape
  <2>4. d = Len(streams) + 1
    BY <1>1, <1>2, <2>3
  <2>8. l \in Nat /\ RoleOf(l) \in DevRoles
    BY <2>2, RoleOfType
  <2>5. Stream(l, RoleOf(l)).sent = 0
    BY <2>8, StreamType
  <2>6. streams'[d].sent = 0
    BY <2>3, <2>4, <2>5
  <2>7. \A i \in DOMAIN Trail(k)' : Trail(k)'[i][1] # d
    BY <1>1, <2>4, TrailEntries
  <2> QED
    BY <2>6, <2>7, OrderNone
<1>3. CASE d \in DOMAIN streams
  <2>1. streams[d].role = k /\ streams[d].sent \in Nat /\ d \in Nat \ {0}
    BY <1>3, StreamsStep, StreamEntry
  <2>2. PeerOf(2)
    <3> SUFFICES ASSUME ~PeerOf(2) PROVE FALSE
      OBVIOUS
    <3>1. Receive(OpenMsg(2))
      BY OpensFrom
    <3>2. streams[d].peer < 2 /\ streams[d].peer \in Nat
      BY <1>3, <3>1, OpenTaken, StreamEntry DEF Roled
    <3>3. streams[d].role \in {"other", "shell"}
      BY <1>3, <3>2 DEF Roled, RolesRight, RoleRight
    <3> QED
      BY <2>1, <3>3, LocalNumbers
  <2>3. InOrder(Trail(k), d, streams[d].sent) /\ Trail(k) \in Seq(Entry)
    BY <1>3, <2>1, <2>2, TrailParts DEF Relayed
  <2> DEFINE t == Trail(k)
             u == Trail(k)'
             n == streams[d].sent
  <2> HIDE DEF t, u
  <2>4. CASE u = t /\ SentKept
    BY <1>3, <2>3, <2>4 DEF SentKept, t, u
  <2>5. CASE TrailLoses(k)
    <3>1. PICK a \in Seq(Entry), b \in Seq(Entry), x \in Entry :
             t = Append(a, x) \o b /\ u = a \o b /\ Foreign(x, k)
      BY <2>5 DEF TrailLoses, t, u
    <3>2. x[1] # d
      BY <1>3, <2>1, <2>2, <3>1 DEF Foreign
    <3>3. InOrder(Append(a, x) \o b, d, n)
      BY <2>3, <3>1 DEF t
    <3>4. InOrder(a \o b, d, n)
      BY <3>2, <3>3, OrderRemove
    <3>5. streams'[d].sent = n
      BY <1>3, <2>5 DEF TrailLoses, SentKept
    <3> QED
      BY <3>1, <3>4, <3>5 DEF u
  <2>6. CASE u = Append(t, <<0, 0>>) /\ SentKept
    <3>1. <<0, 0>> \in Entry /\ <<0, 0>>[1] # d
      BY <2>1 DEF Entry
    <3>2. InOrder(Append(t, <<0, 0>>), d, n)
      BY <2>3, <3>1, OrderAppendOther DEF t
    <3>3. streams'[d].sent = n
      BY <1>3, <2>6 DEF SentKept
    <3> QED
      BY <2>6, <3>2, <3>3 DEF u
  <2>7. CASE \E e \in DOMAIN streams : SendsNext(k, e)
    <3>1. PICK e \in DOMAIN streams : SendsNext(k, e)
      BY <2>7
    <3> DEFINE x == <<e, streams[e].sent + 1>>
    <3>2. x \in Entry /\ x[1] = e
      BY StreamEntry DEF Entry
    <3>3. u = Append(t, x)
      BY <3>1 DEF SendsNext, t, u
    <3>4. CASE e = d
      <4>1. InOrder(Append(t, <<d, n + 1>>), d, n + 1)
        BY <2>1, <2>3, OrderAppendNext DEF t
      <4>2. streams'[d].sent = n + 1
        BY <3>1, <3>4 DEF SendsNext
      <4> QED
        BY <3>3, <3>4, <4>1, <4>2 DEF u
    <3>5. CASE e # d
      <4> HIDE DEF x
      <4>1. InOrder(Append(t, x), d, n)
        BY <2>3, <3>2, <3>5, OrderAppendOther DEF t
      <4>2. streams'[d].sent = n
        BY <1>3, <3>1, <3>5 DEF SendsNext
      <4> QED
        BY <3>3, <4>1, <4>2 DEF u
    <3> QED
      BY <3>4, <3>5
  <2> QED
    BY <2>4, <2>5, <2>6, <2>7, TrailStep DEF TrailMoves, t, u
<1> QED
  BY <1>2, <1>3

LEMMA InitRelayed == Init => TrailsOwned /\ Relayed
<1> SUFFICES ASSUME Init PROVE TrailsOwned /\ Relayed
  OBVIOUS
<1>1. ASSUME NEW k \in Kinds PROVE Trail(k) = << >>
  <2>1. /\ taken[k] = << >> /\ pairs[k] = << >> /\ down = << >> /\ reader.pc = "recv"
    BY <1>1 DEF Init
  <2>2. InHand = << >>
    BY <2>1 DEF InHand
  <2>3. Coming = << >>
    BY <2>1 DEF Coming
  <2> QED
    BY <2>1, <2>2, <2>3, EmptySeq, ConcatEmptySeq DEF Trail
<1>2. TrailsOwned
  BY <1>1 DEF TrailsOwned
<1>3. ~PeerOf(2)
  <2>1. Other.peer = 0 /\ Stream(1, "shell").peer = 1
    BY DEF Other, Stream
  <2> QED
    BY <2>1, InitOther DEF PeerOf
<1> QED
  BY <1>2, <1>3 DEF Relayed

(* What a stream has sent is between the device and its consumer, in       *)
(* order, with no gap and nothing twice.  The reader knows the remote id   *)
(* of a channel when it routes the first data of its stream, and the       *)
(* guesses it made before then never send a payload elsewhere: the OKAY of *)
(* a stream, and those of the streams accepted before it, come first.      *)
THEOREM RelayOrder == Spec => []RelayedInOrder
<1>1. Init => Placed /\ TrailsOwned /\ Relayed
  BY InitPlaced, InitRelayed
<1>2. Inv /\ Roled /\ Placed /\ TrailsOwned /\ Relayed /\ [Next]_vars
        => Placed' /\ TrailsOwned' /\ Relayed'
  BY PlacedStep, TrailsOwnedStep, RelayedStep
<1>3. Roled /\ Relayed => RelayedInOrder
  BY DEF Roled, VideoOpen, Relayed, RelayedInOrder, Running, Piping
<1> QED
  BY <1>1, <1>2, <1>3, RoledInvariance, PTL DEF Spec
=============================================================================
