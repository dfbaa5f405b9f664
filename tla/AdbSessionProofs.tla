-------------------------- MODULE AdbSessionProofs --------------------------
(***************************************************************************)
(* What holds of an ADB session for any number of channels, opens, writes  *)
(* and streams: identifiers are never mixed up, and a WRTE of a live       *)
(* stream is acknowledged exactly once.  Both rest on what the messages on *)
(* their way say: an OKAY or a WRTE of the device names a stream together  *)
(* with the channel it belongs to, no channel ever gets two streams, and   *)
(* the OKAY that tells a stream's identifier comes before its data.        *)
(***************************************************************************)
EXTENDS AdbSession, FiniteSetTheorems, SequenceTheorems, TLAPS

Channel == [local : Nat, remote : Nat, state : {"OPENING", "OPEN", "CLOSED"}]
Message == [cmd : {"OPEN", "OKAY", "WRTE", "CLSE"}, arg0 : Nat, arg1 : Nat]

(* What TypeOK leaves to the shape of the variables. *)
Shape ==
    /\ channels \in Seq(Channel)
    /\ up \in Seq(Message) /\ down \in Seq(Message)
    /\ devPeer \in Seq(Nat)
    /\ op \in [stage : {"none", "opening", "pushing"}, chan : Nat, writes : Nat]

(* An adb_push under way has its channel, and writes only once the device  *)
(* has told its identifier.                                                *)
PushKnown ==
    /\ op.stage # "none" => op.chan \in DOMAIN channels
    /\ op.stage = "pushing" => channels[op.chan].remote # 0

(* Does m name a stream by the identifiers it has, the device's in first   *)
(* place or in second?                                                     *)
FromStream(m) == m.arg0 \in Streams /\ devPeer[m.arg0] = m.arg1
ToStream(m)   == m.arg1 \in Streams /\ devPeer[m.arg1] = m.arg0

(* What the device accepts and sends is named right; it opens no channel.  *)
NamedRight ==
    \A k \in DOMAIN down :
        /\ down[k].cmd # "OPEN"
        /\ down[k].cmd \in {"OKAY", "WRTE"} => FromStream(down[k])

Inv == Shape /\ TypeOK /\ PushKnown /\ NamedRight /\ RoutedRight /\ AddressedRight

----------------------------------------------------------------------------
(* Queues of messages *)

(* A message sent last is in the queue, after those that were there. *)
LEMMA PutProperties ==
    ASSUME NEW S, NEW q \in Seq(S), NEW m \in S
    PROVE  /\ q \o << m >> = Append(q, m) /\ q \o << >> = q
           /\ Append(q, m) \in Seq(S) /\ Len(Append(q, m)) = Len(q) + 1
           /\ DOMAIN Append(q, m) = 1 .. Len(q) + 1 /\ DOMAIN q = 1 .. Len(q)
           /\ Append(q, m)[Len(q) + 1] = m
           /\ \A i \in 1 .. Len(q) : Append(q, m)[i] = q[i]
<1>1. /\ Append(q, m) \in Seq(S) /\ Len(Append(q, m)) = Len(q) + 1
      /\ Append(q, m)[Len(q) + 1] = m
      /\ \A i \in 1 .. Len(q) : Append(q, m)[i] = q[i]
  BY AppendProperties
<1>2. q \o << m >> = Append(q, m)
  BY AppendIsConcat
<1>3. q \o << >> = q
  BY ConcatEmptySeq
<1>4. DOMAIN Append(q, m) = 1 .. Len(q) + 1 /\ DOMAIN q = 1 .. Len(q)
  BY <1>1, LenProperties
<1> QED
  BY <1>1, <1>2, <1>3, <1>4

(* The first message taken out, the others are those of before. *)
LEMMA TakeProperties ==
    ASSUME NEW S, NEW q \in Seq(S), q # << >>
    PROVE  /\ Len(q) \in Nat \ {0} /\ Head(q) = q[1] /\ Head(q) \in S
           /\ Tail(q) \in Seq(S)
           /\ DOMAIN q = 1 .. Len(q) /\ DOMAIN Tail(q) = 1 .. Len(q) - 1
           /\ \A i \in 1 .. Len(q) - 1 : Tail(q)[i] = q[i + 1]
<1>1. Len(q) \in Nat \ {0} /\ Head(q) = q[1]
  BY EmptySeq
<1>2. /\ Head(q) \in S /\ Tail(q) \in Seq(S) /\ Len(Tail(q)) = Len(q) - 1
      /\ \A i \in 1 .. Len(Tail(q)) : Tail(q)[i] = q[i + 1]
  BY HeadTailProperties
<1>3. DOMAIN q = 1 .. Len(q) /\ DOMAIN Tail(q) = 1 .. Len(Tail(q))
  BY <1>2, LenProperties
<1> QED
  BY <1>1, <1>2, <1>3

(* A property of the messages in two queues holds of those in their        *)
(* concatenation: every one of these is one of those.                      *)
LEMMA JoinProperties ==
    ASSUME NEW S, NEW q \in Seq(S), NEW r \in Seq(S)
    PROVE  /\ q \o r \in Seq(S)
           /\ \A k \in DOMAIN (q \o r) :
                 \/ \E j \in DOMAIN q : (q \o r)[k] = q[j]
                 \/ \E j \in DOMAIN r : (q \o r)[k] = r[j]
<1>1. /\ q \o r \in Seq(S) /\ Len(q \o r) = Len(q) + Len(r)
      /\ \A i \in 1 .. Len(q) + Len(r) :
            (q \o r)[i] = IF i <= Len(q) THEN q[i] ELSE r[i - Len(q)]
  BY ConcatProperties
<1>2. /\ DOMAIN q = 1 .. Len(q) /\ DOMAIN r = 1 .. Len(r)
      /\ DOMAIN (q \o r) = 1 .. Len(q) + Len(r)
      /\ Len(q) \in Nat /\ Len(r) \in Nat
  BY <1>1, LenProperties
<1>3. ASSUME NEW k \in DOMAIN (q \o r)
      PROVE  \/ \E j \in DOMAIN q : (q \o r)[k] = q[j]
             \/ \E j \in DOMAIN r : (q \o r)[k] = r[j]
  <2>1. CASE k <= Len(q)
    BY <1>1, <1>2, <2>1
  <2>2. CASE ~(k <= Len(q))
    <3>1. k - Len(q) \in DOMAIN r /\ (q \o r)[k] = r[k - Len(q)]
      BY <1>1, <1>2, <2>2
    <3> QED
      BY <3>1
  <2> QED
    BY <2>1, <2>2
<1> QED
  BY <1>1, <1>3

(* What the host sends goes behind what is under way, or is lost. *)
LEMMA SentProperties ==
    ASSUME up \in Seq(Message), NEW msgs \in Seq(Message)
    PROVE  /\ Sent(msgs) \in Seq(Message)
           /\ \A k \in DOMAIN Sent(msgs) :
                 \/ \E j \in DOMAIN up : Sent(msgs)[k] = up[j]
                 \/ \E j \in DOMAIN msgs : Sent(msgs)[k] = msgs[j]
<1>1. CASE link = "up"
  BY <1>1, JoinProperties DEF Sent
<1>2. CASE link # "up"
  BY <1>2 DEF Sent
<1> QED
  BY <1>1, <1>2

(* The same for what the device answers with one message or none. *)
LEMMA AnswerProperties ==
    ASSUME down \in Seq(Message), NEW msgs \in Seq(Message), Answer(msgs)
    PROVE  /\ down' \in Seq(Message)
           /\ \A k \in DOMAIN down' :
                 \/ \E j \in DOMAIN down : down'[k] = down[j]
                 \/ \E j \in DOMAIN msgs : down'[k] = msgs[j]
<1>1. CASE link = "up"
  BY <1>1, JoinProperties DEF Answer
<1>2. CASE link # "up"
  BY <1>2 DEF Answer
<1> QED
  BY <1>1, <1>2

----------------------------------------------------------------------------
(* The table *)

(* What may become of an entry c: it is closed, or it gets the identifier  *)
(* of the stream that is its own.                                          *)
Follows(c, d) ==
    /\ d \in Channel /\ d.local = c.local
    /\ \/ d.remote = c.remote /\ d.state \in {c.state, "CLOSED"}
       \/ d.state = "OPEN" /\ d.remote \in Streams /\ devPeer[d.remote] = c.local

Kept(t) ==
    /\ t \in Seq(Channel) /\ DOMAIN t = DOMAIN channels
    /\ \A i \in DOMAIN channels : Follows(channels[i], t[i])

LEMMA SequenceOf ==
    ASSUME NEW S, NEW n \in Nat, NEW t \in [1 .. n -> S]
    PROVE  t \in Seq(S) /\ Len(t) = n
<1>1. t \in Seq(S)
  BY SeqDef
<1> QED
  BY <1>1, LenProperties

LEMMA KeptAll ==
    ASSUME Shape, NEW t, t = [i \in DOMAIN channels |-> t[i]],
           \A i \in DOMAIN channels : Follows(channels[i], t[i])
    PROVE  Kept(t)
<1>1. DOMAIN channels = 1 .. Len(channels) /\ Len(channels) \in Nat
  BY LenProperties DEF Shape
<1>2. t \in [1 .. Len(channels) -> Channel]
  BY <1>1 DEF Follows
<1> QED
  BY <1>1, <1>2, SequenceOf DEF Kept

(* The entries are channels, closed ones too. *)
LEMMA EntryProperties ==
    ASSUME Shape, NEW i \in DOMAIN channels
    PROVE  /\ channels[i] \in Channel /\ Follows(channels[i], channels[i])
           /\ Closed(channels[i]) \in Channel
           /\ Follows(channels[i], Closed(channels[i]))
<1>1. channels[i] \in Channel
  BY DEF Shape
<1> QED
  BY <1>1 DEF Follows, Closed, Channel

(* session_handle_message keeps the table: the identifiers in an OKAY are  *)
(* those of one stream.                                                    *)
LEMMA HandledTable ==
    ASSUME Inv, down # << >>
    PROVE  Kept(TableAfter(channels, Head(down)))
<1> DEFINE m == Head(down)
<1>1. /\ m \in Message /\ m.cmd # "OPEN"
      /\ m.cmd \in {"OKAY", "WRTE"} => FromStream(m)
  <2>1. Len(down) \in Nat \ {0} /\ m = down[1] /\ m \in Message
        /\ DOMAIN down = 1 .. Len(down)
    BY TakeProperties DEF Inv, Shape
  <2> QED
    BY <2>1 DEF Inv, NamedRight
<1> HIDE DEF m
<1>2. CASE m.cmd = "OKAY"
  <2>1. TableAfter(channels, m) = OnOkay(channels, m)
    BY <1>2 DEF TableAfter
  <2>2. OnOkay(channels, m)
          = [i \in DOMAIN channels |->
               IF channels[i].local = m.arg1 THEN Opened(channels[i], m.arg0)
                                             ELSE channels[i]]
    BY DEF OnOkay, Update
  <2>3. ASSUME NEW i \in DOMAIN channels
        PROVE  Follows(channels[i], OnOkay(channels, m)[i])
    <3>1. CASE channels[i].local = m.arg1
      <4> DEFINE c == channels[i]
                 d == Opened(c, m.arg0)
      <4>1. c \in Channel /\ m.arg0 \in Nat /\ OnOkay(channels, m)[i] = d
        BY <1>1, <2>2, <3>1, EntryProperties DEF Inv, Message
      <4>2. /\ d \in Channel /\ d.local = c.local
            /\ d.remote = m.arg0 /\ d.state = "OPEN"
        BY <4>1 DEF Opened, Channel
      <4>3. m.arg0 \in Streams /\ devPeer[m.arg0] = c.local
        BY <1>1, <1>2, <3>1 DEF FromStream
      <4> HIDE DEF c, d
      <4>4. Follows(c, d)
        BY <4>2, <4>3 DEF Follows
      <4> QED
        BY <4>1, <4>4 DEF c
    <3>2. CASE channels[i].local # m.arg1
      BY <2>2, <3>2, EntryProperties DEF Inv
    <3> QED
      BY <3>1, <3>2
  <2> QED
    BY <2>1, <2>2, <2>3, KeptAll DEF Inv, m
<1>3. CASE m.cmd = "CLSE"
  <2>1. TableAfter(channels, m) = OnClse(channels, m)
    BY <1>3 DEF TableAfter
  <2>2. OnClse(channels, m)
          = [i \in DOMAIN channels |->
               IF channels[i].local = m.arg0 THEN Closed(channels[i])
                                             ELSE channels[i]]
    BY DEF OnClse, Update
  <2>3. ASSUME NEW i \in DOMAIN channels
        PROVE  Follows(channels[i], OnClse(channels, m)[i])
    BY <2>2, EntryProperties DEF Inv
  <2> QED
    BY <2>1, <2>2, <2>3, KeptAll DEF Inv, m
<1>4. CASE m.cmd = "WRTE"
  <2>1. TableAfter(channels, m) = channels
    BY <1>4 DEF TableAfter
  <2> QED
    BY <2>1, EntryProperties DEF Inv, Kept, Shape, m
<1> QED
  BY <1>1, <1>2, <1>3, <1>4 DEF Message

(* A message closes a channel towards the stream it has. *)
LEMMA ClosingProperties ==
    ASSUME Inv, NEW i \in DOMAIN channels
    PROVE  LET msgs == ClosingMsgs(channels[i])
           IN  \/ msgs = << >>
               \/ \E m \in Message : /\ msgs = << m >> /\ m.cmd = "CLSE" /\ ToStream(m)
<1>1. CASE channels[i].state # "CLOSED" /\ channels[i].remote # 0
  <2> DEFINE m == Msg("CLSE", channels[i].local, channels[i].remote)
  <2>1. ClosingMsgs(channels[i]) = << m >>
    BY <1>1 DEF ClosingMsgs
  <2>2. m \in Message /\ m.cmd = "CLSE"
    BY EntryProperties DEF Inv, Channel, Message, Msg
  <2>3. devPeer[channels[i].remote] = channels[i].local
    BY <1>1 DEF Inv, RoutedRight
  <2>4. channels[i].remote \in Streams
    <3>1. channels[i].remote \in 0 .. Len(devPeer) /\ Len(devPeer) \in Nat
          /\ DOMAIN devPeer = 1 .. Len(devPeer)
      BY LenProperties DEF Inv, TypeOK, Shape
    <3> QED
      BY <1>1, <3>1 DEF Streams
  <2>5. m.arg0 = channels[i].local /\ m.arg1 = channels[i].remote
    BY DEF Msg
  <2>6. ToStream(m)
    BY <2>3, <2>4, <2>5 DEF ToStream
  <2> QED
    BY <2>1, <2>2, <2>6
<1>2. CASE ~(channels[i].state # "CLOSED" /\ channels[i].remote # 0)
  BY <1>2 DEF ClosingMsgs
<1> QED
  BY <1>1, <1>2

(* What session_disconnect sends is one such message after another. *)
LEMMA AllClosingProperties ==
    ASSUME Inv, NEW msgs \in AllClosingMsgs(channels)
    PROVE  /\ msgs \in Seq(Message)
           /\ \A k \in DOMAIN msgs : msgs[k].cmd = "CLSE" /\ ToStream(msgs[k])
<1> DEFINE told == {i \in DOMAIN channels : ClosingMsgs(channels[i]) # << >>}
<1>1. PICK f \in [1 .. Cardinality(told) -> told] :
         msgs = [k \in DOMAIN f |-> Head(ClosingMsgs(channels[f[k]]))]
  BY DEF AllClosingMsgs
<1>2. Cardinality(told) \in Nat
  <2>1. told \subseteq 1 .. Len(channels) /\ Len(channels) \in Nat
    BY LenProperties DEF Inv, Shape
  <2>2. IsFiniteSet(1 .. Len(channels))
    BY <2>1, FS_Interval
  <2> HIDE DEF told
  <2> QED
    BY <2>1, <2>2, FS_Subset, FS_CardinalityType
<1>3. ASSUME NEW k \in 1 .. Cardinality(told)
      PROVE  msgs[k] \in Message /\ msgs[k].cmd = "CLSE" /\ ToStream(msgs[k])
  <2>1. /\ f[k] \in DOMAIN channels /\ ClosingMsgs(channels[f[k]]) # << >>
        /\ msgs[k] = Head(ClosingMsgs(channels[f[k]]))
    BY <1>1, <1>3
  <2>2. PICK m \in Message : /\ ClosingMsgs(channels[f[k]]) = << m >>
                             /\ m.cmd = "CLSE" /\ ToStream(m)
    BY <2>1, ClosingProperties
  <2>3. msgs[k] = m
    BY <2>1, <2>2
  <2> QED
    BY <2>2, <2>3
<1> HIDE DEF told
<1>4. msgs \in [1 .. Cardinality(told) -> Message]
  BY <1>1, <1>3
<1> QED
  BY <1>2, <1>3, <1>4, SequenceOf

----------------------------------------------------------------------------
(* The steps, one variable at a time *)

(* The first message to the device. *)
LEMMA HeadOfUp ==
    ASSUME Inv, up # << >>
    PROVE  /\ Head(up) \in Message /\ Head(up).arg0 \in Nat /\ Head(up).arg1 \in Nat
           /\ Head(up).cmd = "OPEN" \/ ToStream(Head(up))
<1>1. /\ Len(up) \in Nat \ {0} /\ Head(up) = up[1] /\ Head(up) \in Message
      /\ DOMAIN up = 1 .. Len(up)
  BY TakeProperties DEF Inv, Shape
<1>2. Head(up).arg0 \in Nat /\ Head(up).arg1 \in Nat
  BY <1>1 DEF Message
<1> QED
  BY <1>1, <1>2 DEF Inv, AddressedRight, ToStream

(* Streams only come to the device's list, which keeps its order. *)
LEMMA PeersStep ==
    ASSUME Inv, [Next]_vars
    PROVE  /\ devPeer' \in Seq(Nat) /\ Streams \subseteq Streams'
           /\ \A d \in Streams : devPeer'[d] = devPeer[d]
           /\ \A m : FromStream(m) => FromStream(m)'
           /\ \A m : ToStream(m) => ToStream(m)'
<1>1. /\ devPeer' \in Seq(Nat) /\ Streams \subseteq Streams'
      /\ \A d \in Streams : devPeer'[d] = devPeer[d]
  <2>1. CASE DeviceAccepts
    <3>1. Head(up).arg0 \in Nat
      BY <2>1, HeadOfUp DEF DeviceAccepts
    <3>2. devPeer \in Seq(Nat) /\ devPeer' = Append(devPeer, Head(up).arg0)
      BY <2>1 DEF DeviceAccepts, Inv, Shape
    <3> QED
      BY <3>1, <3>2, PutProperties DEF Streams
  <2>2. CASE UNCHANGED devPeer
    BY <2>2 DEF Inv, Shape, Streams
  <2>3. DeviceAccepts \/ UNCHANGED devPeer
    BY DEF Next, Host, Device, Shell, Push, OpenChannel, OpenFails, PushOpened,
           PushWrite, PushEnds, Poll, Disconnect, Break, DeviceRefuses,
           DeviceReceives, DeviceWrites, DeviceCloses, Finished, vars, device
  <2> QED
    BY <2>1, <2>2, <2>3
<1> QED
  BY <1>1 DEF FromStream, ToStream

(* What is done to the table and to the next identifier. *)
LEMMA TableStep ==
    ASSUME Inv, [Next]_vars
    PROVE  \/ Kept(channels') /\ nextLocal' = nextLocal
           \/ /\ channels' = channels /\ nextLocal' = nextLocal + 1
              /\ nextLocal <= MaxOpens
           \/ /\ channels' = Append(channels, Opening(nextLocal))
              /\ nextLocal' = nextLocal + 1 /\ nextLocal <= MaxOpens
              /\ Len(channels) < MaxChannels
<1>1. CASE \E s \in {"none", "opening"} : OpenChannel(s)
  BY <1>1 DEF OpenChannel, CanOpen
<1>2. CASE OpenFails
  BY <1>2 DEF OpenFails, CanOpen
<1>3. CASE PushEnds
  <2>1. op.chan \in DOMAIN channels
    BY <1>3 DEF PushEnds, Inv, PushKnown
  <2>2. channels' = [channels EXCEPT ![op.chan] = Closed(channels[op.chan])]
        /\ nextLocal' = nextLocal
    BY <1>3 DEF PushEnds, CloseOne
  <2>3. \A i \in DOMAIN channels : Follows(channels[i], channels'[i])
    BY <2>1, <2>2, EntryProperties DEF Inv
  <2>4. channels' = [i \in DOMAIN channels |-> channels'[i]]
    BY <2>2
  <2> QED
    BY <2>2, <2>3, <2>4, KeptAll DEF Inv
<1>4. CASE Poll
  BY <1>4, HandledTable DEF Poll
<1>5. CASE Disconnect
  <2>1. channels' = [i \in DOMAIN channels |-> Closed(channels[i])]
        /\ nextLocal' = nextLocal
    BY <1>5 DEF Disconnect, CloseAll, Update
  <2>2. \A i \in DOMAIN channels : Follows(channels[i], channels'[i])
    BY <2>1, EntryProperties DEF Inv
  <2> QED
    BY <2>1, <2>2, KeptAll DEF Inv
<1>6. CASE UNCHANGED <<channels, nextLocal>>
  BY <1>6, EntryProperties DEF Kept, Inv, Shape
<1>7. \/ \E s \in {"none", "opening"} : OpenChannel(s)
      \/ OpenFails \/ PushEnds \/ Poll \/ Disconnect
      \/ UNCHANGED <<channels, nextLocal>>
  BY DEF Next, Host, Device, Shell, Push, PushOpened, PushWrite, Break,
         DeviceAccepts, DeviceRefuses, DeviceReceives, DeviceWrites,
         DeviceCloses, Finished, vars, host
<1> QED
  BY <1>1, <1>2, <1>3, <1>4, <1>5, <1>6, <1>7

(* The first message from the device, and the reply to it. *)
LEMMA HeadOfDown ==
    ASSUME Inv, down # << >>
    PROVE  /\ Head(down) \in Message /\ Head(down).cmd # "OPEN"
           /\ Head(down).cmd \in {"OKAY", "WRTE"} => FromStream(Head(down))
<1>1. /\ Len(down) \in Nat \ {0} /\ Head(down) = down[1] /\ Head(down) \in Message
      /\ DOMAIN down = 1 .. Len(down)
  BY TakeProperties DEF Inv, Shape
<1> QED
  BY <1>1 DEF Inv, NamedRight

LEMMA RepliesProperties ==
    ASSUME Inv, down # << >>
    PROVE  LET msgs == Replies(channels, Head(down))
           IN  \/ msgs = << >>
               \/ \E m \in Message : /\ msgs = << m >> /\ m.cmd = "OKAY" /\ ToStream(m)
<1> DEFINE h == Head(down)
           m == Msg("OKAY", h.arg1, h.arg0)
<1>1. /\ h \in Message /\ h.cmd # "OPEN"
      /\ h.cmd \in {"OKAY", "WRTE"} => FromStream(h)
  BY HeadOfDown
<1> HIDE DEF h
<1>2. CASE h.cmd = "WRTE"
  <2>1. Replies(channels, h) \in {<< >>, << m >>}
    BY <1>2 DEF Replies, OnWrteReply
  <2>2. m \in Message /\ m.cmd = "OKAY" /\ m.arg0 = h.arg1 /\ m.arg1 = h.arg0
    BY <1>1 DEF Msg, Message
  <2>3. ToStream(m)
    BY <1>1, <1>2, <2>2 DEF FromStream, ToStream
  <2> QED
    BY <2>1, <2>2, <2>3 DEF h
<1>3. CASE h.cmd # "WRTE"
  BY <1>1, <1>3 DEF Replies, h
<1> QED
  BY <1>2, <1>3

(* Of what the host sends, one message or more: every one but an OPEN is   *)
(* for the stream of its channel.                                          *)
Sendable(msgs) ==
    /\ msgs \in Seq(Message)
    /\ \A k \in DOMAIN msgs : msgs[k].cmd = "OPEN" \/ ToStream(msgs[k])

LEMMA SentRight ==
    ASSUME Inv, NEW msgs, Sendable(msgs)
    PROVE  Sendable(Sent(msgs))
  BY SentProperties DEF Sendable, Inv, Shape, AddressedRight, ToStream

LEMMA OneSendable ==
    ASSUME NEW m \in Message, m.cmd = "OPEN" \/ ToStream(m)
    PROVE  Sendable(<< m >>)
  BY DEF Sendable

LEMMA UpStep ==
    ASSUME Inv, [Next]_vars
    PROVE  Sendable(up')
<1>1. CASE \E s \in {"none", "opening"} : OpenChannel(s)
  <2>1. OpenMsg(nextLocal) \in Message /\ OpenMsg(nextLocal).cmd = "OPEN"
    BY BoundsAssumption DEF OpenMsg, Msg, Message, Inv, TypeOK, BoundsAssumption
  <2>2. up' = up \o << OpenMsg(nextLocal) >> /\ link = "up"
    BY <1>1, <2>1, PutProperties DEF OpenChannel, Inv, Shape
  <2>3. up' = Sent(<< OpenMsg(nextLocal) >>)
    BY <2>2 DEF Sent
  <2> QED
    BY <2>1, <2>3, OneSendable, SentRight
<1>2. CASE PushWrite
  <2> DEFINE c == channels[op.chan]
             m == Msg("WRTE", c.local, c.remote)
  <2>1. op.chan \in DOMAIN channels /\ c.remote # 0
    BY <1>2 DEF PushWrite, Inv, PushKnown
  <2>2. c \in Channel /\ m \in Message
    BY <2>1, EntryProperties DEF Inv, Channel, Msg, Message
  <2>3. c.remote \in 0 .. Len(devPeer) /\ devPeer[c.remote] = c.local
    BY <2>1 DEF Inv, TypeOK, RoutedRight
  <2>4. DOMAIN devPeer = 1 .. Len(devPeer) /\ Len(devPeer) \in Nat
    BY LenProperties DEF Inv, Shape
  <2>5. m.arg0 = c.local /\ m.arg1 = c.remote
    BY DEF Msg
  <2> HIDE DEF c
  <2>6. ToStream(m)
    BY <2>1, <2>3, <2>4, <2>5 DEF ToStream, Streams
  <2>7. up' = Sent(<< m >>)
    BY <1>2 DEF PushWrite, c
  <2> QED
    BY <2>2, <2>6, <2>7, OneSendable, SentRight
<1>3. CASE PushEnds
  <2>1. op.chan \in DOMAIN channels /\ up' = Sent(ClosingMsgs(channels[op.chan]))
    BY <1>3 DEF PushEnds, Inv, PushKnown
  <2>2. Sendable(<< >>)
    BY DEF Sendable
  <2>3. Sendable(ClosingMsgs(channels[op.chan]))
    BY <2>1, <2>2, ClosingProperties, OneSendable
  <2> QED
    BY <2>1, <2>3, SentRight
<1>4. CASE Poll
  <2>1. down # << >> /\ up' = Sent(Replies(channels, Head(down)))
    BY <1>4 DEF Poll
  <2>2. Sendable(<< >>)
    BY DEF Sendable
  <2>3. Sendable(Replies(channels, Head(down)))
    BY <2>1, <2>2, RepliesProperties, OneSendable
  <2> QED
    BY <2>1, <2>3, SentRight
<1>5. CASE Disconnect
  <2>1. PICK msgs \in AllClosingMsgs(channels) : up' = Sent(msgs)
    BY <1>5 DEF Disconnect
  <2>2. Sendable(msgs)
    BY AllClosingProperties DEF Sendable
  <2> QED
    BY <2>1, <2>2, SentRight
<1>6. CASE up' = << >>
  BY <1>6 DEF Sendable
<1>7. CASE up # << >> /\ up' = Tail(up)
  <2>1. /\ up' \in Seq(Message) /\ Len(up) \in Nat
        /\ DOMAIN up' = 1 .. Len(up) - 1 /\ DOMAIN up = 1 .. Len(up)
        /\ \A i \in 1 .. Len(up) - 1 : up'[i] = up[i + 1]
    BY <1>7, TakeProperties DEF Inv, Shape
  <2>2. \A i \in 1 .. Len(up) - 1 : i + 1 \in DOMAIN up
    BY <2>1
  <2> QED
    BY <2>1, <2>2 DEF Sendable, Inv, AddressedRight, ToStream
<1>8. CASE UNCHANGED up
  BY <1>8 DEF Sendable, Inv, Shape, AddressedRight, ToStream
<1>9. \/ \E s \in {"none", "opening"} : OpenChannel(s)
      \/ PushWrite \/ PushEnds \/ Poll \/ Disconnect \/ up' = << >>
      \/ (up # << >> /\ up' = Tail(up)) \/ UNCHANGED up
  BY DEF Next, Host, Device, Shell, Push, OpenFails, PushOpened, Break,
         DeviceAccepts, DeviceRefuses, DeviceReceives, DeviceWrites,
         DeviceCloses, Finished, vars
<1> QED
  BY <1>1, <1>2, <1>3, <1>4, <1>5, <1>6, <1>7, <1>8, <1>9

(* What the device answers, one message or none: an OKAY or a WRTE is from *)
(* a stream to its channel.  The streams are those after the step.         *)
Answerable(m) ==
    /\ m.cmd # "OPEN"
    /\ m.cmd \in {"OKAY", "WRTE"} => m.arg0 \in Streams' /\ devPeer'[m.arg0] = m.arg1

LEMMA AnsweredRight ==
    ASSUME Inv, [Next]_vars, NEW msgs \in Seq(Message), Answer(msgs),
           \A k \in DOMAIN msgs : Answerable(msgs[k])
    PROVE  down' \in Seq(Message) /\ \A k \in DOMAIN down' : Answerable(down'[k])
<1>1. \A k \in DOMAIN down : Answerable(down[k])
  BY PeersStep DEF Answerable, Inv, NamedRight, FromStream
<1>2. down \in Seq(Message)
  BY DEF Inv, Shape
<1>3. down' \in Seq(Message)
      /\ \A k \in DOMAIN down' : \/ \E j \in DOMAIN down : down'[k] = down[j]
                                 \/ \E j \in DOMAIN msgs : down'[k] = msgs[j]
  BY <1>2, AnswerProperties
<1> QED
  BY <1>1, <1>3 DEF Answerable

LEMMA AnsweredOne ==
    ASSUME Inv, [Next]_vars, NEW m \in Message, Answer(<< m >>), Answerable(m)
    PROVE  down' \in Seq(Message) /\ \A k \in DOMAIN down' : Answerable(down'[k])
<1>1. << m >> \in Seq(Message) /\ \A k \in DOMAIN << m >> : << m >>[k] = m
  OBVIOUS
<1>2. \A k \in DOMAIN << m >> : Answerable(<< m >>[k])
  BY <1>1 DEF Answerable
<1> HIDE DEF Answerable
<1> QED
  BY <1>1, <1>2, AnsweredRight

LEMMA DownStep ==
    ASSUME Inv, [Next]_vars
    PROVE  down' \in Seq(Message) /\ \A k \in DOMAIN down' : Answerable(down'[k])
<1>1. CASE DeviceAccepts
  <2> DEFINE m == Msg("OKAY", Len(devPeer) + 1, Head(up).arg0)
  <2>1. Head(up).arg0 \in Nat /\ devPeer \in Seq(Nat)
    BY <1>1, HeadOfUp DEF DeviceAccepts, Inv, Shape
  <2>2. devPeer' = Append(devPeer, Head(up).arg0) /\ Answer(<< m >>)
    BY <1>1 DEF DeviceAccepts
  <2>3. Len(devPeer) + 1 \in DOMAIN devPeer' /\ devPeer'[Len(devPeer) + 1] = Head(up).arg0
        /\ Len(devPeer) + 1 \in Nat
    BY <2>1, <2>2, PutProperties
  <2>4. m \in Message /\ m.cmd = "OKAY" /\ m.arg0 = Len(devPeer) + 1
        /\ m.arg1 = Head(up).arg0
    BY <2>1, <2>3 DEF Msg, Message
  <2>5. Answerable(m)
    BY <2>3, <2>4 DEF Answerable, FromStream, Streams
  <2> HIDE DEF m
  <2> QED
    BY <2>2, <2>4, <2>5, AnsweredOne
<1>2. CASE DeviceRefuses
  <2> DEFINE m == Msg("CLSE", 0, Head(up).arg0)
  <2>1. Answer(<< m >>) /\ Head(up).arg0 \in Nat
    BY <1>2, HeadOfUp DEF DeviceRefuses
  <2>2. m \in Message /\ m.cmd = "CLSE"
    BY <2>1 DEF Msg, Message
  <2>3. Answerable(m)
    BY <2>2 DEF Answerable
  <2> HIDE DEF m
  <2> QED
    BY <2>1, <2>2, <2>3, AnsweredOne
<1>3. CASE DeviceReceives
  <2> DEFINE h == Head(up)
             known == h.arg1 \in alive /\ devPeer[h.arg1] = h.arg0
             okay == Msg("OKAY", h.arg1, h.arg0)
             clse == Msg("CLSE", h.arg1, h.arg0)
  <2>1. /\ up # << >>
        /\ Answer(IF ~known \/ h.cmd = "OKAY" THEN << >>
                  ELSE IF h.cmd = "WRTE" THEN << okay >> ELSE << clse >>)
    BY <1>3 DEF DeviceReceives
  <2>2. h.arg0 \in Nat /\ h.arg1 \in Nat /\ (h.cmd = "OPEN" \/ ToStream(h))
    BY <2>1, HeadOfUp
  <2>3. okay \in Message /\ okay.cmd = "OKAY" /\ okay.arg0 = h.arg1 /\ okay.arg1 = h.arg0
        /\ clse \in Message /\ clse.cmd = "CLSE"
    BY <2>2 DEF Msg, Message
  <2>4. known => FromStream(okay)
    BY <2>3 DEF FromStream, Inv, TypeOK
  <2>5. known => okay.arg0 \in Streams' /\ devPeer'[okay.arg0] = okay.arg1
    <3>1. devPeer' = devPeer
      BY <1>3 DEF DeviceReceives
    <3> QED
      BY <2>4, <3>1 DEF FromStream, Streams
  <2>6. << >> \in Seq(Message) /\ DOMAIN << >> = {}
    OBVIOUS
  <2> HIDE DEF h, okay, clse, known
  <2>7. CASE ~known \/ h.cmd = "OKAY"
    BY <2>1, <2>6, <2>7, AnsweredRight
  <2>8. CASE known /\ h.cmd = "WRTE"
    <3>1. Answerable(okay)
      BY <2>3, <2>5, <2>8 DEF Answerable
    <3> QED
      BY <2>1, <2>3, <2>8, <3>1, AnsweredOne
  <2>9. CASE known /\ h.cmd # "OKAY" /\ h.cmd # "WRTE"
    <3>1. Answerable(clse)
      BY <2>3 DEF Answerable
    <3> QED
      BY <2>1, <2>3, <2>9, <3>1, AnsweredOne
  <2> QED
    BY <2>7, <2>8, <2>9
<1>4. ASSUME NEW d \in Streams, DeviceWrites(d) \/ DeviceCloses(d)
      PROVE  down' \in Seq(Message) /\ \A k \in DOMAIN down' : Answerable(down'[k])
  <2> DEFINE wrte == Msg("WRTE", d, devPeer[d])
             clse == Msg("CLSE", d, devPeer[d])
  <2>1. d \in Nat /\ devPeer[d] \in Nat
    BY LenProperties DEF Streams, Inv, Shape
  <2>2. wrte \in Message /\ wrte.cmd = "WRTE" /\ wrte.arg0 = d /\ wrte.arg1 = devPeer[d]
        /\ clse \in Message /\ clse.cmd = "CLSE"
    BY <2>1 DEF Msg, Message
  <2>3. Answer(<< wrte >>) \/ Answer(<< clse >>)
    BY <1>4 DEF DeviceWrites, DeviceCloses
  <2>4. FromStream(wrte) /\ devPeer' = devPeer
    BY <1>4, <2>2 DEF FromStream, DeviceWrites, DeviceCloses
  <2>5. Answerable(wrte) /\ Answerable(clse)
    BY <2>2, <2>4 DEF Answerable, FromStream, Streams
  <2> HIDE DEF wrte, clse
  <2> QED
    BY <2>2, <2>3, <2>5, AnsweredOne
<1>5. CASE Poll
  <2>1. /\ down' \in Seq(Message) /\ Len(down) \in Nat
        /\ DOMAIN down' = 1 .. Len(down) - 1 /\ DOMAIN down = 1 .. Len(down)
        /\ \A i \in 1 .. Len(down) - 1 : down'[i] = down[i + 1]
    BY <1>5, TakeProperties DEF Poll, Inv, Shape
  <2>2. \A i \in 1 .. Len(down) - 1 : i + 1 \in DOMAIN down
    BY <2>1
  <2>3. \A k \in DOMAIN down : Answerable(down[k])
    BY PeersStep DEF Answerable, Inv, NamedRight, FromStream
  <2> QED
    BY <2>1, <2>2, <2>3 DEF Answerable
<1>6. CASE UNCHANGED down
  <2>1. \A k \in DOMAIN down : Answerable(down[k])
    BY PeersStep DEF Answerable, Inv, NamedRight, FromStream
  <2> QED
    BY <1>6, <2>1 DEF Inv, Shape, Answerable
<1>7. \/ DeviceAccepts \/ DeviceRefuses \/ DeviceReceives
      \/ \E d \in Streams : DeviceWrites(d) \/ DeviceCloses(d)
      \/ Poll \/ UNCHANGED down
  BY DEF Next, Host, Device, Shell, Push, OpenChannel, OpenFails, PushOpened,
         PushWrite, PushEnds, Disconnect, Break, Finished, vars
<1> QED
  BY <1>1, <1>2, <1>3, <1>4, <1>5, <1>6, <1>7

----------------------------------------------------------------------------
(* The invariant *)

LEMMA InitInv == Init => Inv
<1> SUFFICES ASSUME Init PROVE Inv
  OBVIOUS
<1>1. channels = << >> /\ up = << >> /\ down = << >> /\ op = NoPush /\ nextLocal = 1
      /\ link = "up" /\ alive = {} /\ unacked = {}
  BY DEF Init
<1>2. PICK n \in 0 .. 1 : devPeer = [d \in 1 .. n |-> 0]
  BY DEF Init
<1>3. devPeer \in [1 .. n -> Nat] /\ n \in Nat
  BY <1>2
<1>4. devPeer \in Seq(Nat)
  BY <1>3, SequenceOf
<1>5. op \in [stage : {"none", "opening", "pushing"}, chan : Nat, writes : Nat]
      /\ op.stage = "none" /\ op.chan = 0 /\ op.writes = 0
  BY <1>1 DEF NoPush
<1>6. Shape
  BY <1>1, <1>4, <1>5 DEF Shape
<1>7. TypeOK
  BY <1>1, <1>5, BoundsAssumption DEF TypeOK, BoundsAssumption
<1>8. PushKnown /\ NamedRight /\ RoutedRight /\ AddressedRight
  BY <1>1, <1>5 DEF PushKnown, NamedRight, RoutedRight, AddressedRight
<1> QED
  BY <1>6, <1>7, <1>8 DEF Inv

(* The table after a step: its entries are typed and ordered, and those    *)
(* that have an identifier have that of their own stream.                  *)
LEMMA TableInv ==
    ASSUME Inv, [Next]_vars
    PROVE  /\ channels' \in Seq(Channel) /\ Len(channels') <= MaxChannels
           /\ DOMAIN channels \subseteq DOMAIN channels'
           /\ \A i \in DOMAIN channels : Follows(channels[i], channels'[i])
           /\ \A i \in DOMAIN channels' :
                 /\ channels'[i].local \in 1 .. nextLocal' - 1
                 /\ channels'[i].remote \in 0 .. Len(devPeer')
                 /\ channels'[i].state \in {"OPENING", "OPEN", "CLOSED"}
           /\ \A i, j \in DOMAIN channels' :
                 i < j => channels'[i].local < channels'[j].local
           /\ nextLocal' \in 1 .. MaxOpens + 1
           /\ RoutedRight'
<1> DEFINE Typed(c) == /\ c.local \in 1 .. nextLocal' - 1
                       /\ c.remote \in 0 .. Len(devPeer')
                       /\ c.state \in {"OPENING", "OPEN", "CLOSED"}
           Routed(c) == /\ c.remote # 0 => devPeer'[c.remote] = c.local
                        /\ c.state = "OPEN" => c.remote # 0
<1>1. /\ DOMAIN channels = 1 .. Len(channels) /\ Len(channels) \in Nat
      /\ DOMAIN devPeer = 1 .. Len(devPeer) /\ Len(devPeer) \in Nat
      /\ DOMAIN devPeer' = 1 .. Len(devPeer') /\ Len(devPeer') \in Nat
  BY PeersStep, LenProperties DEF Inv, Shape
<1>2. Len(devPeer) <= Len(devPeer')
  BY <1>1, PeersStep DEF Streams
<1>3. nextLocal \in Nat /\ nextLocal >= 1 /\ MaxOpens \in Nat
      /\ nextLocal <= MaxOpens + 1 /\ nextLocal' \in {nextLocal, nextLocal + 1}
      /\ nextLocal' \in 1 .. MaxOpens + 1
  BY TableStep, BoundsAssumption DEF Inv, TypeOK, BoundsAssumption
<1>4. ASSUME NEW i \in DOMAIN channels, NEW d, Follows(channels[i], d)
      PROVE  Typed(d) /\ Routed(d)
  <2> DEFINE c == channels[i]
  <2>1. /\ c.local \in 1 .. nextLocal - 1 /\ c.remote \in 0 .. Len(devPeer)
        /\ c.state \in {"OPENING", "OPEN", "CLOSED"}
        /\ c.remote # 0 => devPeer[c.remote] = c.local
        /\ c.state = "OPEN" => c.remote # 0
    BY DEF Inv, TypeOK, RoutedRight
  <2>2. c.remote # 0 => c.remote \in Streams
    BY <1>1, <2>1 DEF Streams
  <2>3. d.local = c.local
        /\ \/ d.remote = c.remote /\ d.state \in {c.state, "CLOSED"}
           \/ d.state = "OPEN" /\ d.remote \in Streams /\ devPeer[d.remote] = c.local
    BY <1>4 DEF Follows
  <2> HIDE DEF c
  <2>4. d.remote # 0 => d.remote \in Streams /\ devPeer[d.remote] = d.local
    BY <2>1, <2>2, <2>3
  <2>5. d.remote # 0 => devPeer'[d.remote] = d.local
    BY <2>4, PeersStep
  <2>6. d.state = "OPEN" => d.remote # 0
    BY <1>1, <2>1, <2>3 DEF Streams
  <2>7. d.remote \in 0 .. Len(devPeer')
    BY <1>1, <1>2, <2>1, <2>3 DEF Streams
  <2>8. d.local \in 1 .. nextLocal' - 1 /\ d.state \in {"OPENING", "OPEN", "CLOSED"}
    BY <1>3, <2>1, <2>3
  <2> QED
    BY <2>5, <2>6, <2>7, <2>8
<1>5. CASE Kept(channels') /\ nextLocal' = nextLocal
  <2>1. channels' \in Seq(Channel) /\ DOMAIN channels' = DOMAIN channels
        /\ \A i \in DOMAIN channels : Follows(channels[i], channels'[i])
    BY <1>5 DEF Kept
  <2>2. Len(channels') = Len(channels)
    BY <1>1, <2>1, LenProperties
  <2>3. \A i \in DOMAIN channels' : Typed(channels'[i]) /\ Routed(channels'[i])
    BY <1>4, <2>1
  <2>4. \A i \in DOMAIN channels : channels'[i].local = channels[i].local
    BY <2>1 DEF Follows
  <2> QED
    BY <1>3, <2>1, <2>2, <2>3, <2>4 DEF Inv, TypeOK, RoutedRight
<1>6. CASE channels' = channels
  <2>1. \A i \in DOMAIN channels : Follows(channels[i], channels'[i])
    BY <1>6, EntryProperties DEF Inv
  <2>2. \A i \in DOMAIN channels' : Typed(channels'[i]) /\ Routed(channels'[i])
    BY <1>4, <1>6, <2>1
  <2> QED
    BY <1>3, <1>6, <2>1, <2>2 DEF Inv, Shape, TypeOK, RoutedRight
<1>7. CASE /\ channels' = Append(channels, Opening(nextLocal))
           /\ nextLocal' = nextLocal + 1 /\ Len(channels) < MaxChannels
  <2> DEFINE new == Opening(nextLocal)
  <2>1. new \in Channel /\ new.local = nextLocal /\ new.remote = 0 /\ new.state = "OPENING"
    BY <1>3 DEF Opening, Channel
  <2>2. channels \in Seq(Channel)
    BY DEF Inv, Shape
  <2> HIDE DEF new
  <2>3. /\ channels' \in Seq(Channel) /\ Len(channels') = Len(channels) + 1
        /\ DOMAIN channels' = 1 .. Len(channels) + 1
        /\ channels'[Len(channels) + 1] = new
        /\ \A i \in 1 .. Len(channels) : channels'[i] = channels[i]
    BY <1>7, <2>1, <2>2, PutProperties DEF new
  <2>4. \A i \in DOMAIN channels : Follows(channels[i], channels'[i])
    BY <1>1, <2>3, EntryProperties DEF Inv
  <2>5. Typed(new) /\ Routed(new)
    BY <1>1, <1>3, <1>7, <2>1
  <2>6. \A i \in DOMAIN channels' : Typed(channels'[i]) /\ Routed(channels'[i])
    <3> HIDE DEF Typed, Routed
    <3>1. \A i \in DOMAIN channels : Typed(channels'[i]) /\ Routed(channels'[i])
      BY <1>4, <2>4
    <3> QED
      BY <1>1, <2>3, <2>5, <3>1
  <2>7. ASSUME NEW i \in DOMAIN channels', NEW j \in DOMAIN channels', i < j
        PROVE  channels'[i].local < channels'[j].local
    <3>1. i \in DOMAIN channels /\ channels'[i] = channels[i]
      BY <1>1, <2>3, <2>7
    <3>2. CASE j \in DOMAIN channels
      BY <1>1, <2>3, <2>7, <3>1, <3>2 DEF Inv, TypeOK
    <3>3. CASE j = Len(channels) + 1
      <4>1. channels[i].local \in 1 .. nextLocal - 1
        BY <3>1 DEF Inv, TypeOK
      <4> QED
        BY <1>3, <2>1, <2>3, <3>1, <3>3, <4>1
    <3> QED
      BY <1>1, <2>3, <3>2, <3>3
  <2>8. Len(channels') <= MaxChannels
    BY <1>1, <1>7, <2>3, BoundsAssumption DEF BoundsAssumption
  <2> QED
    BY <1>1, <1>3, <2>3, <2>4, <2>6, <2>7, <2>8 DEF RoutedRight
<1> QED
  BY <1>5, <1>6, <1>7, TableStep

(* The push under way after a step. *)
LEMMA PushInv ==
    ASSUME Inv, [Next]_vars
    PROVE  /\ op' \in [stage : {"none", "opening", "pushing"}, chan : Nat, writes : Nat]
           /\ op'.chan \in 0 .. Len(channels') /\ op'.writes \in 0 .. MaxWrites
           /\ PushKnown'
<1>1. /\ op.stage \in {"none", "opening", "pushing"} /\ op.chan \in 0 .. Len(channels)
      /\ op.writes \in 0 .. MaxWrites /\ MaxWrites \in Nat
      /\ op \in [stage : {"none", "opening", "pushing"}, chan : Nat, writes : Nat]
  BY BoundsAssumption DEF Inv, Shape, TypeOK, BoundsAssumption
<1>2. /\ DOMAIN channels = 1 .. Len(channels) /\ Len(channels) \in Nat
      /\ DOMAIN channels' = 1 .. Len(channels') /\ Len(channels') \in Nat
      /\ DOMAIN channels \subseteq DOMAIN channels' /\ Len(channels) <= Len(channels')
  <2>1. channels \in Seq(Channel) /\ channels' \in Seq(Channel)
        /\ DOMAIN channels \subseteq DOMAIN channels'
    BY TableInv DEF Inv, Shape
  <2> QED
    BY <2>1, LenProperties
<1>3. NoPush.stage = "none" /\ NoPush.chan = 0 /\ NoPush.writes = 0
      /\ NoPush \in [stage : {"none", "opening", "pushing"}, chan : Nat, writes : Nat]
  BY DEF NoPush
<1>4. CASE op' = NoPush
  BY <1>1, <1>2, <1>3, <1>4 DEF PushKnown
<1>5. CASE OpenChannel("opening")
  <2>1. op' = [stage |-> "opening", chan |-> Len(channels) + 1, writes |-> 0]
        /\ channels' = Append(channels, Opening(nextLocal))
    BY <1>5 DEF OpenChannel
  <2>2. Opening(nextLocal) \in Channel /\ channels \in Seq(Channel)
    BY BoundsAssumption DEF Opening, Channel, Inv, TypeOK, Shape, BoundsAssumption
  <2>3. Len(channels') = Len(channels) + 1
    BY <2>1, <2>2, PutProperties
  <2> QED
    BY <1>1, <1>2, <2>1, <2>3 DEF PushKnown
<1>6. CASE op.stage # "none" /\ op'.stage = "pushing" /\ op'.chan = op.chan
           /\ op'.writes \in 0 .. MaxWrites /\ channels[op.chan].remote # 0
           /\ op' \in [stage : {"none", "opening", "pushing"}, chan : Nat, writes : Nat]
  <2>1. op.chan \in DOMAIN channels
    BY <1>6 DEF Inv, PushKnown
  <2>2. Follows(channels[op.chan], channels'[op.chan])
    BY <2>1, TableInv
  <2>3. channels'[op.chan].remote # 0
    <3>1. 0 \notin Streams
      BY LenProperties DEF Streams, Inv, Shape
    <3> QED
      BY <1>6, <2>2, <3>1 DEF Follows
  <2> QED
    BY <1>1, <1>2, <1>6, <2>1, <2>3 DEF PushKnown
<1>7. CASE PushOpened
  <2>1. op.stage = "opening" /\ channels[op.chan].state = "OPEN"
        /\ op' = [op EXCEPT !.stage = "pushing"]
    BY <1>7 DEF PushOpened
  <2>2. op.chan \in DOMAIN channels
    BY <2>1 DEF Inv, PushKnown
  <2>3. channels[op.chan].remote # 0
    BY <2>1, <2>2 DEF Inv, RoutedRight
  <2> QED
    BY <1>1, <1>6, <2>1, <2>3
<1>8. CASE PushWrite
  <2>1. op.stage = "pushing" /\ op.writes < MaxWrites
        /\ op' = [op EXCEPT !.writes = op.writes + 1]
    BY <1>8 DEF PushWrite
  <2>2. channels[op.chan].remote # 0
    BY <2>1 DEF Inv, PushKnown
  <2> QED
    BY <1>1, <1>6, <2>1, <2>2
<1>9. CASE UNCHANGED op
  <2>1. CASE op.stage = "pushing"
    <3>1. channels[op.chan].remote # 0
      BY <2>1 DEF Inv, PushKnown
    <3> QED
      BY <1>1, <1>6, <1>9, <2>1, <3>1
  <2>2. CASE op.stage # "pushing"
    BY <1>1, <1>2, <1>9, <2>2 DEF Inv, PushKnown
  <2> QED
    BY <2>1, <2>2
<1>10. \/ op' = NoPush \/ OpenChannel("opening") \/ PushOpened \/ PushWrite
       \/ UNCHANGED op
  BY DEF Next, Host, Device, Shell, Push, OpenChannel, OpenFails, PushEnds, Poll,
         Disconnect, Break, DeviceAccepts, DeviceRefuses, DeviceReceives,
         DeviceWrites, DeviceCloses, Finished, vars, host
<1> QED
  BY <1>4, <1>5, <1>7, <1>8, <1>9, <1>10

(* The device's account of its streams after a step. *)
LEMMA DeviceInv ==
    ASSUME Inv, [Next]_vars
    PROVE  alive' \subseteq Streams' /\ unacked' \subseteq Streams'
<1>1. alive \subseteq Streams' /\ unacked \subseteq Streams'
  BY PeersStep DEF Inv, TypeOK
<1>2. CASE DeviceAccepts
  <2>1. Head(up).arg0 \in Nat /\ devPeer \in Seq(Nat)
    BY <1>2, HeadOfUp DEF DeviceAccepts, Inv, Shape
  <2>2. Len(devPeer) + 1 \in Streams'
    BY <1>2, <2>1, PutProperties DEF DeviceAccepts, Streams
  <2> QED
    BY <1>1, <1>2, <2>2 DEF DeviceAccepts
<1>3. CASE DeviceReceives
  BY <1>1, <1>3 DEF DeviceReceives
<1>4. ASSUME NEW d \in Streams, DeviceWrites(d) \/ DeviceCloses(d)
      PROVE  alive' \subseteq Streams' /\ unacked' \subseteq Streams'
  <2>1. d \in Streams'
    BY PeersStep
  <2> QED
    BY <1>1, <1>4, <2>1 DEF DeviceWrites, DeviceCloses
<1>5. CASE UNCHANGED <<alive, unacked>>
  BY <1>1, <1>5
<1>6. \/ DeviceAccepts \/ DeviceReceives
      \/ \E d \in Streams : DeviceWrites(d) \/ DeviceCloses(d)
      \/ UNCHANGED <<alive, unacked>>
  BY DEF Next, Host, Device, Shell, Push, OpenChannel, OpenFails, PushOpened,
         PushWrite, PushEnds, Poll, Disconnect, Break, DeviceRefuses, Finished,
         vars, device
<1> QED
  BY <1>2, <1>3, <1>4, <1>5, <1>6

LEMMA LinkStep ==
    ASSUME Inv, [Next]_vars
    PROVE  /\ link' \in {"up", "broken", "closed"}
           /\ link' = "up" => link = "up"
  BY DEF Inv, TypeOK, Next, Host, Device, Shell, Push, OpenChannel, OpenFails,
         PushOpened, PushWrite, PushEnds, Poll, Disconnect, Break, DeviceAccepts,
         DeviceRefuses, DeviceReceives, DeviceWrites, DeviceCloses, Finished, vars

LEMMA NextInv == Inv /\ [Next]_vars => Inv'
<1> SUFFICES ASSUME Inv, [Next]_vars PROVE Inv'
  OBVIOUS
<1>1. Shape'
  BY TableInv, UpStep, DownStep, PeersStep, PushInv DEF Shape, Sendable
<1>2. TypeOK'
  BY TableInv, LinkStep, PushInv, DeviceInv DEF TypeOK
<1>3. NamedRight'
  BY DownStep DEF NamedRight, Answerable, FromStream
<1>4. AddressedRight'
  <2>1. \A k \in DOMAIN up' : up'[k].cmd = "OPEN" \/ ToStream(up'[k])
    BY UpStep DEF Sendable
  <2>2. \A k \in DOMAIN up' : up'[k].cmd # "OPEN" =>
           up'[k].arg1 \in Streams' /\ devPeer'[up'[k].arg1] = up'[k].arg0
    BY <2>1, PeersStep DEF ToStream
  <2> QED
    BY <2>2 DEF AddressedRight
<1> QED
  BY <1>1, <1>2, <1>3, <1>4, TableInv, PushInv DEF Inv

LEMMA Invariance == Spec => []Inv
<1>1. Init => Inv
  BY InitInv
<1>2. Inv /\ [Next]_vars => Inv'
  BY NextInv
<1> QED
  BY <1>1, <1>2, PTL DEF Spec

(* The table keeps within MAX_CHANNELS, its local identifiers ascend and   *)
(* stay below the next one, its remote identifiers are the device's        *)
(* (session_open_channel, session_handle_message).                         *)
THEOREM TypeCorrectness == Spec => []TypeOK
<1>1. Inv => TypeOK
  BY DEF Inv
<1> QED
  BY <1>1, Invariance, PTL

(* A channel has the identifier of its own stream or none, and is open     *)
(* only with one (session_handle_message's OKAY, session_close_channel).   *)
THEOREM Routing == Spec => []RoutedRight
<1>1. Inv => RoutedRight
  BY DEF Inv
<1> QED
  BY <1>1, Invariance, PTL

(* Every message to the device names a stream by both its identifiers      *)
(* (adb_sync_send, session_close_channel, the OKAY that answers a WRTE).   *)
THEOREM Addressing == Spec => []AddressedRight
<1>1. Inv => AddressedRight
  BY DEF Inv
<1> QED
  BY <1>1, Invariance, PTL

----------------------------------------------------------------------------
(* Acknowledgements *)

(* While the connection is up: no two streams have one channel, an OPEN    *)
(* under way is the only one of its channel and has no stream yet, and     *)
(* every live stream has a channel.                                        *)
OneStreamEach ==
    link = "up" =>
      /\ \A d \in Streams : devPeer[d] < nextLocal
      /\ \A d, e \in Streams : devPeer[d] = devPeer[e] => d = e
      /\ \A d \in alive : \E i \in DOMAIN channels : channels[i].local = devPeer[d]
      /\ \A k \in DOMAIN up : up[k].cmd = "OPEN" =>
            /\ \E i \in DOMAIN channels : channels[i].local = up[k].arg0
            /\ \A d \in Streams : devPeer[d] # up[k].arg0
            /\ \A j \in DOMAIN up :
                  j # k /\ up[j].cmd = "OPEN" => up[j].arg0 # up[k].arg0

(* Is the stream d, whose channel is local, in the table? *)
KnownIn(t, local, d) == \E i \in DOMAIN t : t[i].local = local /\ t[i].remote = d

(* While the connection is up: a live stream is in the table, or the OKAY  *)
(* that tells its identifier is on its way, before any of its data.        *)
ToldFirst ==
    link = "up" => \A d \in alive :
        \/ KnownIn(channels, devPeer[d], d)
        \/ \E j \in DOMAIN down :
              /\ down[j] = Msg("OKAY", d, devPeer[d])
              /\ \A k \in DOMAIN down :
                    down[k] = Msg("WRTE", d, devPeer[d]) => j < k

(* Entries stay under their local identifiers. *)
LEMMA LocalsKept ==
    ASSUME Inv, [Next]_vars, NEW local, \E i \in DOMAIN channels : channels[i].local = local
    PROVE  \E i \in DOMAIN channels' : channels'[i].local = local
  BY TableInv DEF Follows

(* What a step of adb_push sends. *)
LEMMA PushSends ==
    ASSUME Inv, PushOpened \/ PushWrite \/ PushEnds
    PROVE  /\ UNCHANGED <<nextLocal, device, link, down>>
           /\ \/ up' = up
              \/ \E m \in Message : up' = Append(up, m) /\ m.cmd \in {"WRTE", "CLSE"}
<1>1. UNCHANGED <<nextLocal, device, link, down>>
  BY DEF PushOpened, PushWrite, PushEnds
<1>2. CASE PushOpened
  BY <1>1, <1>2 DEF PushOpened
<1>3. CASE PushWrite
  <2> DEFINE c == channels[op.chan]
             m == Msg("WRTE", c.local, c.remote)
  <2>1. op.chan \in DOMAIN channels
    BY <1>3 DEF PushWrite, Inv, PushKnown
  <2>2. m \in Message /\ m.cmd = "WRTE"
    BY <2>1, EntryProperties DEF Inv, Channel, Msg, Message
  <2>3. up' = Sent(<< m >>)
    BY <1>3 DEF PushWrite
  <2> HIDE DEF m
  <2>4. up' \in {up, Append(up, m)}
    BY <2>2, <2>3, PutProperties DEF Sent, Inv, Shape
  <2> QED
    BY <1>1, <2>2, <2>4
<1>4. CASE PushEnds
  <2>1. op.chan \in DOMAIN channels /\ up' = Sent(ClosingMsgs(channels[op.chan]))
    BY <1>4 DEF PushEnds, Inv, PushKnown
  <2>2. CASE ClosingMsgs(channels[op.chan]) = << >>
    <3>1. up \o << >> = up
      BY ConcatEmptySeq DEF Inv, Shape
    <3> QED
      BY <1>1, <2>1, <2>2, <3>1 DEF Sent
  <2>3. CASE \E m \in Message : ClosingMsgs(channels[op.chan]) = << m >> /\ m.cmd = "CLSE"
    <3>1. PICK m \in Message : ClosingMsgs(channels[op.chan]) = << m >> /\ m.cmd = "CLSE"
      BY <2>3
    <3>2. up' \in {up, Append(up, m)}
      BY <2>1, <3>1, PutProperties DEF Sent, Inv, Shape
    <3> QED
      BY <1>1, <3>1, <3>2
  <2> QED
    BY <2>1, <2>2, <2>3, ClosingProperties
<1> QED
  BY <1>2, <1>3, <1>4

(* What session_poll sends: the acknowledgement of a WRTE, or nothing.     *)
LEMMA PollSends ==
    ASSUME Inv, Poll, link = "up"
    PROVE  LET h == Head(down)
               o == Msg("OKAY", h.arg1, h.arg0)
           IN  /\ o \in Message
               /\ \/ up' = up /\ (h.cmd = "WRTE" => ~KnownIn(channels, h.arg1, h.arg0))
                  \/ up' = Append(up, o) /\ h.cmd = "WRTE"
<1> DEFINE h == Head(down)
           o == Msg("OKAY", h.arg1, h.arg0)
<1>1. h \in Message /\ h.cmd # "OPEN" /\ up' = up \o Replies(channels, h)
  BY HeadOfDown DEF Poll, Sent
<1>2. o \in Message
  BY <1>1 DEF Msg, Message
<1>3. up \o << o >> = Append(up, o) /\ up \o << >> = up
  BY <1>2, PutProperties DEF Inv, Shape
<1> HIDE DEF h
<1>4. CASE h.cmd = "WRTE"
  BY <1>1, <1>2, <1>3, <1>4 DEF Replies, OnWrteReply, KnownIn, h
<1>5. CASE h.cmd # "WRTE"
  BY <1>1, <1>2, <1>3, <1>5 DEF Replies, h
<1> QED
  BY <1>4, <1>5

(* While the OPENs under way are some of those of before and no stream     *)
(* comes, no channel gets a second one.                                    *)
LEMMA OpensKept ==
    ASSUME Inv, [Next]_vars, OneStreamEach, link = "up",
           devPeer' = devPeer, alive' \subseteq alive,
           NEW s \in {0, 1},
           \A k \in DOMAIN up' : up'[k].cmd = "OPEN" =>
              k + s \in DOMAIN up /\ up'[k] = up[k + s]
    PROVE  OneStreamEach'
<1>1. Streams' = Streams /\ nextLocal' \in {nextLocal, nextLocal + 1} /\ nextLocal \in Nat
  BY TableStep, BoundsAssumption DEF Streams, Inv, TypeOK, BoundsAssumption
<1>2. \A d \in Streams : devPeer[d] \in Nat
  BY DEF Streams, Inv, Shape
<1>3. \A d \in Streams : devPeer[d] < nextLocal'
  BY <1>1, <1>2 DEF OneStreamEach
<1>4. \A d \in alive' : \E i \in DOMAIN channels' : channels'[i].local = devPeer[d]
  BY LocalsKept DEF OneStreamEach
<1>5. ASSUME NEW k \in DOMAIN up', up'[k].cmd = "OPEN"
      PROVE  /\ \E i \in DOMAIN channels' : channels'[i].local = up'[k].arg0
             /\ \A d \in Streams : devPeer[d] # up'[k].arg0
             /\ \A j \in DOMAIN up' :
                   j # k /\ up'[j].cmd = "OPEN" => up'[j].arg0 # up'[k].arg0
  <2>1. k + s \in DOMAIN up /\ up'[k] = up[k + s] /\ up[k + s].cmd = "OPEN"
    BY <1>5
  <2>2. \E i \in DOMAIN channels' : channels'[i].local = up'[k].arg0
    BY <2>1, LocalsKept DEF OneStreamEach
  <2>3. \A d \in Streams : devPeer[d] # up'[k].arg0
    BY <2>1 DEF OneStreamEach
  <2>4. ASSUME NEW j \in DOMAIN up', j # k, up'[j].cmd = "OPEN"
        PROVE  up'[j].arg0 # up'[k].arg0
    <3>1. j + s \in DOMAIN up /\ up'[j] = up[j + s]
      BY <2>4
    <3>2. j \in Nat /\ k \in Nat
      BY UpStep, LenProperties DEF Sendable
    <3>3. j + s # k + s
      BY <2>4, <3>2
    <3> QED
      BY <2>1, <2>4, <3>1, <3>3 DEF OneStreamEach
  <2> QED
    BY <2>2, <2>3, <2>4
<1> QED
  BY <1>1, <1>3, <1>4, <1>5 DEF OneStreamEach

(* The steps there are while the connection stays up. *)
LEMMA StepsWhileUp ==
    ASSUME Inv, [Next]_vars, link' = "up"
    PROVE  /\ link = "up"
           /\ \/ \E s \in {"none", "opening"} : OpenChannel(s)
              \/ PushOpened \/ PushWrite \/ PushEnds
              \/ Poll
              \/ DeviceAccepts \/ DeviceRefuses \/ DeviceReceives
              \/ \E d \in Streams : DeviceWrites(d) \/ DeviceCloses(d)
              \/ UNCHANGED vars
<1>1. link = "up"
  BY LinkStep
<1> QED
  BY <1>1 DEF Next, Host, Device, Shell, Push, OpenFails, Disconnect, Break,
              Finished, vars

(* A queue of which the first message was taken. *)
LEMMA UpTaken ==
    ASSUME Inv, up # << >>, up' = Tail(up)
    PROVE  /\ Len(up) \in Nat \ {0} /\ Head(up) = up[1] /\ 1 \in DOMAIN up
           /\ DOMAIN up' = 1 .. Len(up) - 1
           /\ \A k \in DOMAIN up' : k + 1 \in DOMAIN up /\ up'[k] = up[k + 1]
<1>1. /\ Len(up) \in Nat \ {0} /\ Head(up) = up[1] /\ DOMAIN up = 1 .. Len(up)
      /\ DOMAIN up' = 1 .. Len(up) - 1
      /\ \A k \in 1 .. Len(up) - 1 : up'[k] = up[k + 1]
  BY TakeProperties DEF Inv, Shape
<1> QED
  BY <1>1

LEMMA OneStreamStep ==
    ASSUME Inv, [Next]_vars, OneStreamEach
    PROVE  OneStreamEach'
<1> SUFFICES ASSUME link' = "up" PROVE OneStreamEach'
  BY DEF OneStreamEach
<1>1. link = "up" /\ up \in Seq(Message)
      /\ DOMAIN up = 1 .. Len(up) /\ Len(up) \in Nat
  BY StepsWhileUp, LenProperties DEF Inv, Shape
<1>2. CASE \E s \in {"none", "opening"} : OpenChannel(s)
  <2> DEFINE m == OpenMsg(nextLocal)
  <2>1. /\ nextLocal \in Nat /\ m \in Message /\ m.cmd = "OPEN" /\ m.arg0 = nextLocal
    BY BoundsAssumption DEF OpenMsg, Msg, Message, Inv, TypeOK, BoundsAssumption
  <2>2. /\ channels' = Append(channels, Opening(nextLocal)) /\ up' = Append(up, m)
        /\ nextLocal' = nextLocal + 1
        /\ UNCHANGED <<device, link, down>>
    BY <1>2 DEF OpenChannel
  <2> HIDE DEF m
  <2>3. /\ DOMAIN up' = 1 .. Len(up) + 1 /\ up'[Len(up) + 1] = m
        /\ \A k \in 1 .. Len(up) : up'[k] = up[k]
    BY <1>1, <2>1, <2>2, PutProperties
  <2>4. \E i \in DOMAIN channels' : channels'[i].local = nextLocal
    <3>1. Opening(nextLocal) \in Channel /\ channels \in Seq(Channel)
          /\ Opening(nextLocal).local = nextLocal
      BY <2>1 DEF Opening, Channel, Inv, Shape
    <3>2. Len(channels) + 1 \in DOMAIN channels'
          /\ channels'[Len(channels) + 1] = Opening(nextLocal)
      BY <2>2, <3>1, PutProperties, LenProperties
    <3> QED
      BY <3>1, <3>2
  <2>5. Streams' = Streams /\ devPeer' = devPeer /\ alive' = alive
    BY <2>2 DEF Streams, device
  <2>6. \A d \in Streams : devPeer[d] \in Nat /\ devPeer[d] < nextLocal
    BY <1>1 DEF OneStreamEach, Streams, Inv, Shape
  <2>7. \A d \in alive : \E i \in DOMAIN channels' : channels'[i].local = devPeer[d]
    BY <1>1, LocalsKept DEF OneStreamEach
  <2>8. \A k \in DOMAIN up : up[k].cmd = "OPEN" =>
           /\ \E i \in DOMAIN channels' : channels'[i].local = up[k].arg0
           /\ up[k].arg0 \in Nat /\ up[k].arg0 < nextLocal
    <3> SUFFICES ASSUME NEW k \in DOMAIN up, up[k].cmd = "OPEN"
                 PROVE  /\ \E i \in DOMAIN channels' : channels'[i].local = up[k].arg0
                        /\ up[k].arg0 \in Nat /\ up[k].arg0 < nextLocal
      OBVIOUS
    <3>1. PICK i \in DOMAIN channels : channels[i].local = up[k].arg0
      BY <1>1 DEF OneStreamEach
    <3>2. channels[i].local \in 1 .. nextLocal - 1
      BY DEF Inv, TypeOK
    <3> QED
      BY <2>1, <3>1, <3>2, LocalsKept
  <2>9. ASSUME NEW k \in DOMAIN up', up'[k].cmd = "OPEN"
        PROVE  /\ \E i \in DOMAIN channels' : channels'[i].local = up'[k].arg0
               /\ \A d \in Streams : devPeer[d] # up'[k].arg0
               /\ \A j \in DOMAIN up' :
                     j # k /\ up'[j].cmd = "OPEN" => up'[j].arg0 # up'[k].arg0
    <3>1. CASE k \in DOMAIN up
      <4>1. up'[k] = up[k] /\ up[k].cmd = "OPEN"
        BY <1>1, <2>3, <2>9, <3>1
      <4>2. \A d \in Streams : devPeer[d] # up'[k].arg0
        BY <1>1, <3>1, <4>1 DEF OneStreamEach
      <4>3. ASSUME NEW j \in DOMAIN up', j # k, up'[j].cmd = "OPEN"
            PROVE  up'[j].arg0 # up'[k].arg0
        <5>1. CASE j \in DOMAIN up
          BY <1>1, <2>3, <3>1, <4>1, <4>3, <5>1 DEF OneStreamEach
        <5>2. CASE j = Len(up) + 1
          BY <2>1, <2>3, <2>8, <3>1, <4>1, <5>2
        <5> QED
          BY <1>1, <2>3, <5>1, <5>2
      <4> QED
        BY <2>8, <3>1, <4>1, <4>2, <4>3
    <3>2. CASE k = Len(up) + 1
      <4>1. up'[k].arg0 = nextLocal
        BY <2>1, <2>3, <3>2
      <4>2. \A j \in DOMAIN up' :
               j # k /\ up'[j].cmd = "OPEN" => up'[j].arg0 # up'[k].arg0
        BY <1>1, <2>1, <2>3, <2>8, <3>2, <4>1
      <4> QED
        BY <2>1, <2>4, <2>6, <4>1, <4>2
    <3> QED
      BY <1>1, <2>3, <3>1, <3>2
  <2>10. \A d \in Streams : devPeer[d] < nextLocal'
    BY <2>1, <2>2, <2>6
  <2> QED
    BY <1>1, <2>5, <2>7, <2>9, <2>10 DEF OneStreamEach
<1>3. CASE PushOpened \/ PushWrite \/ PushEnds
  <2>1. devPeer' = devPeer /\ alive' = alive
    BY <1>3, PushSends DEF device
  <2>2. \A k \in DOMAIN up' : up'[k].cmd = "OPEN" => k + 0 \in DOMAIN up /\ up'[k] = up[k + 0]
    <3>1. CASE up' = up
      BY <1>1, <3>1
    <3>2. ASSUME NEW m \in Message, up' = Append(up, m), m.cmd \in {"WRTE", "CLSE"}
          PROVE  \A k \in DOMAIN up' :
                    up'[k].cmd = "OPEN" => k + 0 \in DOMAIN up /\ up'[k] = up[k + 0]
      <4>1. /\ DOMAIN up' = 1 .. Len(up) + 1 /\ up'[Len(up) + 1] = m
            /\ \A k \in 1 .. Len(up) : up'[k] = up[k]
        BY <1>1, <3>2, PutProperties
      <4> QED
        BY <1>1, <3>2, <4>1
    <3> QED
      BY <1>3, <3>1, <3>2, PushSends
  <2> QED
    BY <1>1, <2>1, <2>2, OpensKept
<1>4. CASE Poll
  <2> DEFINE o == Msg("OKAY", Head(down).arg1, Head(down).arg0)
  <2>1. devPeer' = devPeer /\ alive' = alive
    BY <1>4 DEF Poll, device
  <2>2. o \in Message /\ o.cmd = "OKAY" /\ (up' = up \/ up' = Append(up, o))
    BY <1>1, <1>4, PollSends DEF Msg
  <2> HIDE DEF o
  <2>3. \A k \in DOMAIN up' : up'[k].cmd = "OPEN" => k + 0 \in DOMAIN up /\ up'[k] = up[k + 0]
    <3>1. CASE up' = up
      BY <1>1, <3>1
    <3>2. CASE up' = Append(up, o)
      <4>1. /\ DOMAIN up' = 1 .. Len(up) + 1 /\ up'[Len(up) + 1] = o
            /\ \A k \in 1 .. Len(up) : up'[k] = up[k]
        BY <1>1, <2>2, <3>2, PutProperties
      <4> QED
        BY <1>1, <2>2, <4>1
    <3> QED
      BY <2>2, <3>1, <3>2
  <2> QED
    BY <1>1, <2>1, <2>3, OpensKept
<1>5. CASE DeviceAccepts
  <2> DEFINE h == Head(up)
             e == Len(devPeer) + 1
  <2>1. /\ up # << >> /\ h.cmd = "OPEN" /\ devPeer' = Append(devPeer, h.arg0)
        /\ alive' = alive \cup {e} /\ up' = Tail(up) /\ UNCHANGED <<channels, nextLocal>>
    BY <1>5 DEF DeviceAccepts, host
  <2>2. /\ h = up[1] /\ 1 \in DOMAIN up /\ DOMAIN up' = 1 .. Len(up) - 1
        /\ \A k \in DOMAIN up' : k + 1 \in DOMAIN up /\ up'[k] = up[k + 1]
    BY <2>1, UpTaken
  <2>3. h.arg0 \in Nat /\ devPeer \in Seq(Nat)
    BY <2>1, HeadOfUp DEF Inv, Shape
  <2>4. /\ Streams' = Streams \cup {e} /\ e \notin Streams
        /\ devPeer'[e] = h.arg0 /\ \A d \in Streams : devPeer'[d] = devPeer[d]
    <3>1. /\ DOMAIN devPeer' = 1 .. Len(devPeer) + 1 /\ DOMAIN devPeer = 1 .. Len(devPeer)
          /\ devPeer'[e] = h.arg0 /\ \A d \in 1 .. Len(devPeer) : devPeer'[d] = devPeer[d]
      BY <2>1, <2>3, PutProperties
    <3>2. Len(devPeer) \in Nat
      BY <2>3, LenProperties
    <3> QED
      BY <3>1, <3>2 DEF Streams
  <2> HIDE DEF h, e
  <2>5. /\ \E i \in DOMAIN channels : channels[i].local = h.arg0
        /\ \A d \in Streams : devPeer[d] # h.arg0
        /\ \A j \in DOMAIN up : j # 1 /\ up[j].cmd = "OPEN" => up[j].arg0 # h.arg0
    BY <1>1, <2>1, <2>2 DEF OneStreamEach
  <2>6. h.arg0 < nextLocal
    <3>1. \A i \in DOMAIN channels : channels[i].local \in 1 .. nextLocal - 1
      BY DEF Inv, TypeOK
    <3>2. nextLocal \in Nat
      BY BoundsAssumption DEF Inv, TypeOK, BoundsAssumption
    <3> QED
      BY <2>5, <3>1, <3>2
  <2>7. \A d \in Streams' : devPeer'[d] < nextLocal'
    BY <1>1, <2>1, <2>4, <2>6 DEF OneStreamEach
  <2>8. \A c, d \in Streams' : devPeer'[c] = devPeer'[d] => c = d
    BY <1>1, <2>4, <2>5 DEF OneStreamEach
  <2>9. \A d \in alive' : \E i \in DOMAIN channels' : channels'[i].local = devPeer'[d]
    <3>1. alive \subseteq Streams
      BY DEF Inv, TypeOK
    <3>2. \A d \in alive : \E i \in DOMAIN channels : channels[i].local = devPeer[d]
      BY <1>1 DEF OneStreamEach
    <3> QED
      BY <2>1, <2>4, <2>5, <3>1, <3>2
  <2>10. ASSUME NEW k \in DOMAIN up', up'[k].cmd = "OPEN"
         PROVE  /\ \E i \in DOMAIN channels' : channels'[i].local = up'[k].arg0
                /\ \A d \in Streams' : devPeer'[d] # up'[k].arg0
                /\ \A j \in DOMAIN up' :
                      j # k /\ up'[j].cmd = "OPEN" => up'[j].arg0 # up'[k].arg0
    <3>1. k + 1 \in DOMAIN up /\ up'[k] = up[k + 1] /\ k \in Nat /\ k >= 1
      BY <1>1, <2>2
    <3>2. up[k + 1].cmd = "OPEN" /\ k + 1 # 1
      BY <2>10, <3>1
    <3>3. \E i \in DOMAIN channels' : channels'[i].local = up'[k].arg0
      BY <1>1, <2>1, <3>1, <3>2 DEF OneStreamEach
    <3>4. \A d \in Streams' : devPeer'[d] # up'[k].arg0
      <4>1. up[k + 1].arg0 # h.arg0
        BY <2>5, <3>1, <3>2
      <4>2. \A d \in Streams : devPeer[d] # up[k + 1].arg0
        BY <1>1, <3>1, <3>2 DEF OneStreamEach
      <4> QED
        BY <2>4, <3>1, <4>1, <4>2
    <3>5. ASSUME NEW j \in DOMAIN up', j # k, up'[j].cmd = "OPEN"
          PROVE  up'[j].arg0 # up'[k].arg0
      <4>1. j + 1 \in DOMAIN up /\ up'[j] = up[j + 1] /\ j \in Nat
        BY <1>1, <2>2
      <4>2. j + 1 # k + 1
        BY <3>1, <3>5, <4>1
      <4> QED
        BY <1>1, <3>1, <3>2, <3>5, <4>1, <4>2 DEF OneStreamEach
    <3> QED
      BY <3>3, <3>4, <3>5
  <2> QED
    BY <2>7, <2>8, <2>9, <2>10 DEF OneStreamEach
<1>6. CASE DeviceRefuses \/ DeviceReceives
  <2>1. up # << >> /\ up' = Tail(up) /\ devPeer' = devPeer /\ alive' \subseteq alive
    BY <1>6 DEF DeviceRefuses, DeviceReceives, device
  <2>2. \A k \in DOMAIN up' : k + 1 \in DOMAIN up /\ up'[k] = up[k + 1]
    BY <2>1, UpTaken
  <2> QED
    BY <1>1, <2>1, <2>2, OpensKept
<1>7. CASE \/ \E d \in Streams : DeviceWrites(d) \/ DeviceCloses(d)
           \/ UNCHANGED vars
  <2>1. up' = up /\ devPeer' = devPeer /\ alive' \subseteq alive
    BY <1>7 DEF DeviceWrites, DeviceCloses, vars, device
  <2>2. \A k \in DOMAIN up' : k + 0 \in DOMAIN up /\ up'[k] = up[k + 0]
    BY <1>1, <2>1
  <2> QED
    BY <1>1, <2>1, <2>2, OpensKept
<1> QED
  BY <1>2, <1>3, <1>4, <1>5, <1>6, <1>7, StepsWhileUp

(* A message is what its three parts are. *)
LEMMA MsgParts ==
    ASSUME NEW c, NEW a, NEW b
    PROVE  /\ Msg(c, a, b).cmd = c /\ Msg(c, a, b).arg0 = a /\ Msg(c, a, b).arg1 = b
           /\ \A m \in Message :
                 m.cmd = c /\ m.arg0 = a /\ m.arg1 = b => m = Msg(c, a, b)
  BY DEF Msg, Message

(* Whom an entry of the table has got to know stays known: there is one    *)
(* stream only it could be told of.                                        *)
LEMMA KnownKept ==
    ASSUME Inv, [Next]_vars, OneStreamEach, link = "up",
           NEW d \in Streams, KnownIn(channels, devPeer[d], d)
    PROVE  KnownIn(channels', devPeer[d], d)
<1>1. PICK i \in DOMAIN channels : channels[i].local = devPeer[d] /\ channels[i].remote = d
  BY DEF KnownIn
<1>2. Follows(channels[i], channels'[i]) /\ i \in DOMAIN channels'
  BY TableInv
<1>3. \A e \in Streams : devPeer[e] = devPeer[d] => e = d
  BY DEF OneStreamEach
<1>4. channels'[i].local = devPeer[d] /\ channels'[i].remote = d
  BY <1>1, <1>2, <1>3 DEF Follows
<1> QED
  BY <1>2, <1>4 DEF KnownIn

(* The OKAY of a stream, once handled, makes it known. *)
LEMMA OkayTells ==
    ASSUME Inv, OneStreamEach, link = "up", Poll, NEW d \in alive,
           Head(down) = Msg("OKAY", d, devPeer[d])
    PROVE  KnownIn(channels', devPeer[d], d)
<1> DEFINE h == Head(down)
<1>1. h.cmd = "OKAY" /\ h.arg0 = d /\ h.arg1 = devPeer[d]
  BY MsgParts
<1> HIDE DEF h
<1>2. channels' = TableAfter(channels, h)
  BY DEF Poll, h
<1>3. channels' = [i \in DOMAIN channels |->
                     IF channels[i].local = h.arg1 THEN Opened(channels[i], h.arg0)
                                                   ELSE channels[i]]
  BY <1>1, <1>2 DEF TableAfter, OnOkay, Update
<1>4. PICK i \in DOMAIN channels : channels[i].local = devPeer[d]
  BY DEF OneStreamEach
<1>5. channels'[i] = Opened(channels[i], d) /\ i \in DOMAIN channels'
  BY <1>1, <1>3, <1>4
<1>6. channels[i] \in Channel
  BY EntryProperties DEF Inv
<1>7. channels'[i].local = channels[i].local /\ channels'[i].remote = d
  BY <1>5, <1>6 DEF Opened, Channel
<1> QED
  BY <1>4, <1>5, <1>7 DEF KnownIn

(* The OKAY of a stream is on its way, and its data not before it. *)
Announced(q, local, d) ==
    \E j \in DOMAIN q :
        /\ q[j] = Msg("OKAY", d, local)
        /\ \A k \in DOMAIN q : q[k] = Msg("WRTE", d, local) => j < k

LEMMA AnnouncedAppend ==
    ASSUME NEW q \in Seq(Message), NEW m \in Message, NEW local, NEW d,
           Announced(q, local, d)
    PROVE  Announced(Append(q, m), local, d)
<1>1. /\ DOMAIN Append(q, m) = 1 .. Len(q) + 1 /\ DOMAIN q = 1 .. Len(q)
      /\ Append(q, m)[Len(q) + 1] = m /\ Len(q) \in Nat
      /\ \A i \in 1 .. Len(q) : Append(q, m)[i] = q[i]
  BY PutProperties, LenProperties
<1>2. PICK j \in DOMAIN q :
         /\ q[j] = Msg("OKAY", d, local)
         /\ \A k \in DOMAIN q : q[k] = Msg("WRTE", d, local) => j < k
  BY DEF Announced
<1>3. j \in DOMAIN Append(q, m) /\ Append(q, m)[j] = Msg("OKAY", d, local)
  BY <1>1, <1>2
<1>4. ASSUME NEW k \in DOMAIN Append(q, m), Append(q, m)[k] = Msg("WRTE", d, local)
      PROVE  j < k
  BY <1>1, <1>2, <1>4
<1> QED
  BY <1>3, <1>4 DEF Announced

LEMMA AnnouncedTail ==
    ASSUME NEW q \in Seq(Message), q # << >>, NEW local, NEW d,
           Announced(q, local, d), Head(q) # Msg("OKAY", d, local)
    PROVE  Announced(Tail(q), local, d)
<1>1. /\ DOMAIN q = 1 .. Len(q) /\ DOMAIN Tail(q) = 1 .. Len(q) - 1
      /\ Head(q) = q[1] /\ Len(q) \in Nat
      /\ \A i \in 1 .. Len(q) - 1 : Tail(q)[i] = q[i + 1]
  BY TakeProperties
<1>2. PICK j \in DOMAIN q :
         /\ q[j] = Msg("OKAY", d, local)
         /\ \A k \in DOMAIN q : q[k] = Msg("WRTE", d, local) => j < k
  BY DEF Announced
<1>3. j # 1 /\ j - 1 \in DOMAIN Tail(q) /\ Tail(q)[j - 1] = Msg("OKAY", d, local)
  <2>1. j # 1
    BY <1>1, <1>2
  <2>2. j - 1 \in 1 .. Len(q) - 1 /\ (j - 1) + 1 = j
    BY <1>1, <2>1
  <2> QED
    BY <1>1, <1>2, <2>1, <2>2
<1>4. ASSUME NEW k \in DOMAIN Tail(q), Tail(q)[k] = Msg("WRTE", d, local)
      PROVE  j - 1 < k
  <2>1. k + 1 \in DOMAIN q /\ q[k + 1] = Msg("WRTE", d, local)
    BY <1>1, <1>4
  <2>2. j < k + 1
    BY <1>2, <2>1
  <2> QED
    BY <1>1, <2>2
<1> QED
  BY <1>3, <1>4 DEF Announced

(* What may be added to the messages from the device, besides one taken.   *)
LEMMA DownMoves ==
    ASSUME Inv, [Next]_vars, link' = "up"
    PROVE  \/ Poll
           \/ down' = down
           \/ \E m \in Message : down' = Append(down, m)
<1>1. link = "up" /\ down \in Seq(Message)
  BY StepsWhileUp DEF Inv, Shape
<1>2. ASSUME NEW msgs, Answer(msgs)
      PROVE  down' = down \o msgs
  BY <1>1, <1>2 DEF Answer
<1>3. ASSUME NEW m \in Message, Answer(<< m >>)
      PROVE  \E n \in Message : down' = Append(down, n)
  <2>1. down' = down \o << m >>
    BY <1>2, <1>3
  <2> QED
    BY <1>1, <2>1, PutProperties
<1>4. ASSUME up # << >>, NEW c \in {"OKAY", "CLSE"}, NEW a \in Nat
      PROVE  Msg(c, a, Head(up).arg0) \in Message
  BY <1>4, HeadOfUp DEF Msg, Message
<1>5. CASE DeviceAccepts
  <2>1. Len(devPeer) + 1 \in Nat
    BY LenProperties DEF Inv, Shape
  <2> QED
    BY <1>3, <1>4, <1>5, <2>1 DEF DeviceAccepts
<1>6. CASE DeviceRefuses
  BY <1>3, <1>4, <1>6 DEF DeviceRefuses
<1>7. CASE DeviceReceives
  <2> DEFINE h == Head(up)
             known == h.arg1 \in alive /\ devPeer[h.arg1] = h.arg0
             okay == Msg("OKAY", h.arg1, h.arg0)
             clse == Msg("CLSE", h.arg1, h.arg0)
  <2>1. up # << >> /\ h.arg1 \in Nat
    BY <1>7, HeadOfUp DEF DeviceReceives
  <2>2. okay \in Message /\ clse \in Message
    BY <1>4, <2>1
  <2>3. Answer(<< >>) \/ Answer(<< okay >>) \/ Answer(<< clse >>)
    BY <1>7 DEF DeviceReceives
  <2> HIDE DEF okay, clse
  <2>4. down \o << >> = down
    BY <1>1, ConcatEmptySeq
  <2> QED
    BY <1>2, <1>3, <2>2, <2>3, <2>4
<1>8. ASSUME NEW d \in Streams, DeviceWrites(d) \/ DeviceCloses(d)
      PROVE  \E m \in Message : down' = Append(down, m)
  <2>1. d \in Nat /\ devPeer[d] \in Nat
    BY LenProperties DEF Streams, Inv, Shape
  <2>2. Msg("WRTE", d, devPeer[d]) \in Message /\ Msg("CLSE", d, devPeer[d]) \in Message
    BY <2>1 DEF Msg, Message
  <2> QED
    BY <1>3, <1>8, <2>2 DEF DeviceWrites, DeviceCloses
<1>9. CASE \/ \E s \in {"none", "opening"} : OpenChannel(s)
           \/ PushOpened \/ PushWrite \/ PushEnds \/ UNCHANGED vars
  BY <1>9 DEF OpenChannel, PushOpened, PushWrite, PushEnds, vars
<1> QED
  BY <1>5, <1>6, <1>7, <1>8, <1>9, StepsWhileUp

(* A stream is live after a step if it was before, or was just accepted.   *)
LEMMA AliveMoves ==
    ASSUME Inv, [Next]_vars, NEW d \in alive'
    PROVE  d \in alive \/ (DeviceAccepts /\ d = Len(devPeer) + 1)
  BY DEF Next, Host, Device, Shell, Push, OpenChannel, OpenFails, PushOpened,
         PushWrite, PushEnds, Poll, Disconnect, Break, DeviceAccepts,
         DeviceRefuses, DeviceReceives, DeviceWrites, DeviceCloses, Finished,
         vars, device

(* Nothing under way names the stream that is accepted next. *)
LEMMA NextStreamUnnamed ==
    ASSUME Inv, NEW p
    PROVE  /\ \A k \in DOMAIN down : down[k] # Msg("WRTE", Len(devPeer) + 1, p)
           /\ \A k \in DOMAIN up : up[k] # Msg("OKAY", p, Len(devPeer) + 1)
           /\ Len(devPeer) + 1 \notin unacked
<1>1. Len(devPeer) + 1 \notin Streams
  BY LenProperties DEF Streams, Inv, Shape
<1>2. ASSUME NEW k \in DOMAIN down, down[k] = Msg("WRTE", Len(devPeer) + 1, p)
      PROVE  FALSE
  <2>1. down[k].cmd = "WRTE" /\ down[k].arg0 = Len(devPeer) + 1
    BY <1>2, MsgParts
  <2> QED
    BY <1>1, <2>1 DEF Inv, NamedRight, FromStream
<1>3. ASSUME NEW k \in DOMAIN up, up[k] = Msg("OKAY", p, Len(devPeer) + 1)
      PROVE  FALSE
  <2>1. up[k].cmd = "OKAY" /\ up[k].arg1 = Len(devPeer) + 1
    BY <1>3, MsgParts
  <2> QED
    BY <1>1, <2>1 DEF Inv, AddressedRight
<1> QED
  BY <1>1, <1>2, <1>3 DEF Inv, TypeOK

LEMMA ToldStep ==
    ASSUME Inv, [Next]_vars, OneStreamEach, ToldFirst
    PROVE  ToldFirst'
<1> SUFFICES ASSUME link' = "up", NEW d \in alive'
             PROVE  KnownIn(channels', devPeer'[d], d) \/ Announced(down', devPeer'[d], d)
  BY DEF ToldFirst, Announced
<1>1. link = "up" /\ down \in Seq(Message)
  BY StepsWhileUp DEF Inv, Shape
<1>2. CASE d \in alive
  <2>1. d \in Streams /\ devPeer'[d] = devPeer[d]
    BY <1>2, PeersStep DEF Inv, TypeOK
  <2>2. CASE KnownIn(channels, devPeer[d], d)
    BY <1>1, <2>1, <2>2, KnownKept
  <2>3. CASE Announced(down, devPeer[d], d)
    <3>1. CASE Poll
      <4>1. down # << >> /\ down' = Tail(down)
        BY <3>1 DEF Poll
      <4>2. CASE Head(down) = Msg("OKAY", d, devPeer[d])
        BY <1>1, <1>2, <2>1, <3>1, <4>2, OkayTells
      <4>3. CASE Head(down) # Msg("OKAY", d, devPeer[d])
        BY <1>1, <2>1, <2>3, <4>1, <4>3, AnnouncedTail
      <4> QED
        BY <4>2, <4>3
    <3>2. CASE down' = down
      BY <2>1, <2>3, <3>2
    <3>3. CASE \E m \in Message : down' = Append(down, m)
      BY <1>1, <2>1, <2>3, <3>3, AnnouncedAppend
    <3> QED
      BY <3>1, <3>2, <3>3, DownMoves
  <2> QED
    BY <1>1, <1>2, <2>2, <2>3 DEF ToldFirst, Announced
<1>3. CASE DeviceAccepts /\ d = Len(devPeer) + 1
  <2> DEFINE p == Head(up).arg0
             o == Msg("OKAY", d, p)
  <2>1. p \in Nat /\ devPeer \in Seq(Nat) /\ d \in Nat
    BY <1>3, HeadOfUp, LenProperties DEF DeviceAccepts, Inv, Shape
  <2>2. devPeer' = Append(devPeer, p) /\ down' = down \o << o >>
    BY <1>1, <1>3 DEF DeviceAccepts, Answer
  <2>3. devPeer'[d] = p
    BY <1>3, <2>1, <2>2, PutProperties
  <2>4. o \in Message /\ o.cmd = "OKAY" /\ Msg("WRTE", d, p).cmd = "WRTE"
    BY <2>1 DEF Msg, Message
  <2> HIDE DEF p, o
  <2>5. /\ DOMAIN down' = 1 .. Len(down) + 1 /\ DOMAIN down = 1 .. Len(down)
        /\ down'[Len(down) + 1] = o /\ Len(down) \in Nat
        /\ \A i \in 1 .. Len(down) : down'[i] = down[i]
    BY <1>1, <2>2, <2>4, PutProperties, LenProperties
  <2>6. \A k \in DOMAIN down' : down'[k] # Msg("WRTE", d, p)
    BY <1>3, <2>4, <2>5, NextStreamUnnamed
  <2> QED
    BY <2>3, <2>5, <2>6 DEF Announced, o
<1> QED
  BY <1>2, <1>3, AliveMoves

(* Counting the messages like m in a queue: their number is finite, and    *)
(* changes by one with each that comes or is taken.                        *)
Alike(q, m) == {k \in DOMAIN q : q[k] = m}

LEMMA CountType ==
    ASSUME NEW q \in Seq(Message), NEW m
    PROVE  /\ Alike(q, m) \subseteq 1 .. Len(q) /\ IsFiniteSet(Alike(q, m))
           /\ Count(q, m) = Cardinality(Alike(q, m)) /\ Count(q, m) \in Nat
           /\ Count(q, m) = 0 <=> \A k \in DOMAIN q : q[k] # m
<1>1. Alike(q, m) \subseteq 1 .. Len(q) /\ Len(q) \in Nat
  BY LenProperties DEF Alike
<1>2. IsFiniteSet(1 .. Len(q))
  BY <1>1, FS_Interval
<1>3. IsFiniteSet(Alike(q, m))
  BY <1>1, <1>2, FS_Subset
<1>4. Count(q, m) = Cardinality(Alike(q, m))
  BY DEF Count, Alike
<1>5. Count(q, m) = 0 <=> Alike(q, m) = {}
  BY <1>3, <1>4, FS_EmptySet
<1> QED
  BY <1>1, <1>3, <1>4, <1>5, FS_CardinalityType DEF Alike

LEMMA CountAppend ==
    ASSUME NEW q \in Seq(Message), NEW x \in Message, NEW m
    PROVE  Count(Append(q, x), m) = Count(q, m) + (IF x = m THEN 1 ELSE 0)
<1>1. /\ DOMAIN Append(q, x) = 1 .. Len(q) + 1 /\ DOMAIN q = 1 .. Len(q)
      /\ Append(q, x)[Len(q) + 1] = x /\ Append(q, x) \in Seq(Message)
      /\ \A i \in 1 .. Len(q) : Append(q, x)[i] = q[i]
      /\ Len(q) \in Nat
  BY PutProperties, LenProperties
<1>2. Alike(Append(q, x), m)
        = IF x = m THEN Alike(q, m) \cup {Len(q) + 1} ELSE Alike(q, m)
  BY <1>1 DEF Alike
<1>3. Len(q) + 1 \notin Alike(q, m) /\ IsFiniteSet(Alike(q, m))
  BY <1>1, CountType
<1>4. Cardinality(Alike(q, m) \cup {Len(q) + 1}) = Cardinality(Alike(q, m)) + 1
  BY <1>3, FS_AddElement
<1>5. /\ Count(q, m) = Cardinality(Alike(q, m)) /\ Count(q, m) \in Nat
      /\ Count(Append(q, x), m) = Cardinality(Alike(Append(q, x), m))
  BY <1>1, CountType
<1> QED
  BY <1>2, <1>4, <1>5

LEMMA CountTail ==
    ASSUME NEW q \in Seq(Message), q # << >>, NEW m
    PROVE  Count(q, m) = Count(Tail(q), m) + (IF Head(q) = m THEN 1 ELSE 0)
<1>1. /\ DOMAIN q = 1 .. Len(q) /\ DOMAIN Tail(q) = 1 .. Len(q) - 1
      /\ Head(q) = q[1] /\ Len(q) \in Nat \ {0} /\ Tail(q) \in Seq(Message)
      /\ \A i \in 1 .. Len(q) - 1 : Tail(q)[i] = q[i + 1]
  BY TakeProperties
<1> DEFINE later == Alike(q, m) \ {1}
           f == [i \in Alike(Tail(q), m) |-> i + 1]
<1>2. f \in [Alike(Tail(q), m) -> later]
  BY <1>1 DEF Alike
<1>3. \A a, b \in Alike(Tail(q), m) : f[a] = f[b] => a = b
  BY <1>1 DEF Alike
<1>4. \A t \in later : \E i \in Alike(Tail(q), m) : f[i] = t
  <2> SUFFICES ASSUME NEW t \in later PROVE \E i \in Alike(Tail(q), m) : f[i] = t
    OBVIOUS
  <2>1. t \in 2 .. Len(q) /\ q[t] = m
    BY <1>1 DEF Alike
  <2>2. t - 1 \in 1 .. Len(q) - 1 /\ Tail(q)[t - 1] = q[(t - 1) + 1] /\ (t - 1) + 1 = t
    BY <1>1, <2>1
  <2>3. t - 1 \in Alike(Tail(q), m)
    BY <1>1, <2>1, <2>2 DEF Alike
  <2> QED
    BY <2>2, <2>3
<1>5. f \in Bijection(Alike(Tail(q), m), later)
  BY <1>2, <1>3, <1>4 DEF Bijection, Injection, IsInjective, Surjection
<1>6. ExistsBijection(Alike(Tail(q), m), later)
  BY <1>5 DEF ExistsBijection
<1>7. /\ IsFiniteSet(Alike(Tail(q), m)) /\ IsFiniteSet(Alike(q, m))
      /\ Count(q, m) = Cardinality(Alike(q, m)) /\ Count(q, m) \in Nat
      /\ Count(Tail(q), m) = Cardinality(Alike(Tail(q), m)) /\ Count(Tail(q), m) \in Nat
  BY <1>1, CountType
<1> HIDE DEF f, later
<1>8. Cardinality(later) = Cardinality(Alike(Tail(q), m))
  BY <1>6, <1>7, FS_Bijection
<1>9. Cardinality(later)
        = IF 1 \in Alike(q, m) THEN Cardinality(Alike(q, m)) - 1 ELSE Cardinality(Alike(q, m))
  BY <1>7, FS_RemoveElement DEF later
<1>10. 1 \in Alike(q, m) <=> Head(q) = m
  BY <1>1 DEF Alike
<1> QED
  BY <1>7, <1>8, <1>9, <1>10

(* What AckedOnce says of one stream, and the messages it counts. *)
Wrte(d) == Msg("WRTE", d, devPeer[d])
Okay(d) == Msg("OKAY", devPeer[d], d)
Acked(d) == Count(down, Wrte(d)) + Count(up, Okay(d)) = IF d \in unacked THEN 1 ELSE 0

(* A step in which neither queue gains or loses a WRTE of the stream or    *)
(* its OKAY.                                                               *)
LEMMA AckedKept ==
    ASSUME NEW d, Acked(d), Wrte(d)' = Wrte(d), Okay(d)' = Okay(d),
           Count(down', Wrte(d)) = Count(down, Wrte(d)),
           Count(up', Okay(d)) = Count(up, Okay(d)),
           d \in unacked' <=> d \in unacked
    PROVE  Acked(d)'
  BY DEF Acked

LEMMA AckedStep ==
    ASSUME Inv, [Next]_vars, OneStreamEach, ToldFirst, AckedOnce, link' = "up",
           NEW d \in alive'
    PROVE  Acked(d)'
<1>1. /\ link = "up" /\ down \in Seq(Message) /\ up \in Seq(Message)
      /\ down' \in Seq(Message) /\ up' \in Seq(Message)
  BY StepsWhileUp, UpStep, DownStep DEF Inv, Shape, Sendable
<1>2. /\ Wrte(d).cmd = "WRTE" /\ Wrte(d).arg0 = d /\ Wrte(d).arg1 = devPeer[d]
      /\ Okay(d).cmd = "OKAY" /\ Okay(d).arg0 = devPeer[d] /\ Okay(d).arg1 = d
  BY MsgParts DEF Wrte, Okay
<1>3. CASE DeviceAccepts /\ d = Len(devPeer) + 1
  <2> DEFINE p == Head(up).arg0
             o == Msg("OKAY", d, p)
  <2>1. p \in Nat /\ devPeer \in Seq(Nat) /\ d \in Nat /\ up # << >>
    BY <1>3, HeadOfUp, LenProperties DEF DeviceAccepts, Inv, Shape
  <2>2. /\ devPeer' = Append(devPeer, p) /\ down' = down \o << o >> /\ up' = Tail(up)
        /\ unacked' = unacked
    BY <1>1, <1>3 DEF DeviceAccepts, Answer
  <2>3. devPeer'[d] = p
    BY <1>3, <2>1, <2>2, PutProperties
  <2>4. o \in Message /\ o.cmd = "OKAY" /\ Msg("WRTE", d, p).cmd = "WRTE"
    BY <2>1 DEF Msg, Message
  <2> HIDE DEF p, o
  <2>5. down' = Append(down, o)
    BY <1>1, <2>2, <2>4, PutProperties
  <2>6. Count(down, Msg("WRTE", d, p)) = 0 /\ Count(up, Msg("OKAY", p, d)) = 0
        /\ d \notin unacked
    BY <1>1, <1>3, CountType, NextStreamUnnamed
  <2>7. Count(down', Msg("WRTE", d, p)) = 0
    BY <1>1, <2>4, <2>5, <2>6, CountAppend
  <2>8. Count(up', Msg("OKAY", p, d)) = 0
    <3>1. Count(up', Msg("OKAY", p, d)) \in Nat
      BY <1>1, CountType
    <3>2. 0 = Count(up', Msg("OKAY", p, d))
                + (IF Head(up) = Msg("OKAY", p, d) THEN 1 ELSE 0)
      BY <1>1, <2>1, <2>2, <2>6, CountTail
    <3> QED
      BY <3>1, <3>2
  <2>9. Wrte(d)' = Msg("WRTE", d, p) /\ Okay(d)' = Msg("OKAY", p, d)
    BY <2>3 DEF Wrte, Okay
  <2> QED
    BY <2>2, <2>6, <2>7, <2>8, <2>9 DEF Acked
<1>4. CASE d \in alive
  <2>1. d \in Streams /\ devPeer'[d] = devPeer[d] /\ Acked(d)
    BY <1>1, <1>4, PeersStep DEF Inv, TypeOK, AckedOnce, Acked, Wrte, Okay
  <2>2. Wrte(d)' = Wrte(d) /\ Okay(d)' = Okay(d)
    BY <2>1 DEF Wrte, Okay
  <2>3. /\ Count(down, Wrte(d)) \in Nat /\ Count(down', Wrte(d)) \in Nat
        /\ Count(up, Okay(d)) \in Nat /\ Count(up', Okay(d)) \in Nat
    BY <1>1, CountType
  <2>4. ASSUME NEW m \in Message, m.cmd # "WRTE", down' = down \/ down' = Append(down, m)
        PROVE  Count(down', Wrte(d)) = Count(down, Wrte(d))
    <3>1. Count(Append(down, m), Wrte(d)) = Count(down, Wrte(d)) + (IF m = Wrte(d) THEN 1 ELSE 0)
      BY <1>1, CountAppend
    <3>2. m # Wrte(d)
      BY <1>2, <2>4
    <3>3. CASE down' = down
      BY <3>3
    <3>4. CASE down' = Append(down, m)
      BY <2>3, <3>1, <3>2, <3>4
    <3> QED
      BY <2>4, <3>3, <3>4
  <2>5. ASSUME NEW m \in Message, m.cmd # "OKAY", up' = up \/ up' = Append(up, m)
        PROVE  Count(up', Okay(d)) = Count(up, Okay(d))
    <3>1. Count(Append(up, m), Okay(d)) = Count(up, Okay(d)) + (IF m = Okay(d) THEN 1 ELSE 0)
      BY <1>1, CountAppend
    <3>2. m # Okay(d)
      BY <1>2, <2>5
    <3>3. CASE up' = up
      BY <3>3
    <3>4. CASE up' = Append(up, m)
      BY <2>3, <3>1, <3>2, <3>4
    <3> QED
      BY <2>5, <3>3, <3>4
  <2>6. ASSUME up # << >>, up' = Tail(up), Head(up) # Okay(d)
        PROVE  Count(up', Okay(d)) = Count(up, Okay(d))
    BY <1>1, <2>3, <2>6, CountTail
  <2>7. CASE \E s \in {"none", "opening"} : OpenChannel(s)
    <3>1. OpenMsg(nextLocal) \in Message /\ OpenMsg(nextLocal).cmd = "OPEN"
      BY BoundsAssumption DEF OpenMsg, Msg, Message, Inv, TypeOK, BoundsAssumption
    <3>2. up' = Append(up, OpenMsg(nextLocal)) /\ UNCHANGED <<down, unacked>>
      BY <2>7 DEF OpenChannel, device
    <3>3. Count(up', Okay(d)) = Count(up, Okay(d))
      BY <2>5, <3>1, <3>2
    <3> QED
      BY <2>1, <2>2, <3>2, <3>3, AckedKept
  <2>8. CASE PushOpened \/ PushWrite \/ PushEnds
    <3>1. /\ UNCHANGED <<down, unacked>>
          /\ \/ up' = up
             \/ \E m \in Message : up' = Append(up, m) /\ m.cmd \in {"WRTE", "CLSE"}
      BY <2>8, PushSends DEF device
    <3>2. Count(up', Okay(d)) = Count(up, Okay(d))
      BY <2>5, <3>1
    <3> QED
      BY <2>1, <2>2, <3>1, <3>2, AckedKept
  <2>9. CASE Poll
    <3> DEFINE h == Head(down)
               o == Msg("OKAY", h.arg1, h.arg0)
    <3>1. /\ o \in Message
          /\ \/ up' = up /\ (h.cmd = "WRTE" => ~KnownIn(channels, h.arg1, h.arg0))
             \/ up' = Append(up, o) /\ h.cmd = "WRTE"
      BY <1>1, <2>9, PollSends
    <3>2. down # << >> /\ down' = Tail(down) /\ unacked' = unacked
      BY <2>9 DEF Poll, device
    <3>3. Count(down, Wrte(d)) = Count(down', Wrte(d)) + (IF h = Wrte(d) THEN 1 ELSE 0)
      BY <1>1, <3>2, CountTail
    <3>4. h \in Message
      BY <3>2, HeadOfDown
    <3>5. o.cmd = "OKAY" /\ o.arg0 = h.arg1 /\ o.arg1 = h.arg0
      BY MsgParts
    <3> HIDE DEF h, o
    <3>6. CASE h = Wrte(d)
      <4>1. h.cmd = "WRTE" /\ h.arg0 = d /\ h.arg1 = devPeer[d]
        BY <1>2, <3>6
      <4>2. KnownIn(channels, devPeer[d], d)
        <5>1. 1 \in DOMAIN down /\ down[1] = Wrte(d)
          BY <1>1, <3>2, <3>6, TakeProperties DEF h
        <5>2. ~(\E j \in DOMAIN down :
                  /\ down[j] = Msg("OKAY", d, devPeer[d])
                  /\ \A k \in DOMAIN down : down[k] = Msg("WRTE", d, devPeer[d]) => j < k)
          <6> SUFFICES ASSUME NEW j \in DOMAIN down,
                              \A k \in DOMAIN down :
                                 down[k] = Msg("WRTE", d, devPeer[d]) => j < k
                       PROVE  FALSE
            OBVIOUS
          <6>1. j < 1
            BY <5>1 DEF Wrte
          <6>2. j \in 1 .. Len(down) /\ Len(down) \in Nat
            BY <1>1, LenProperties
          <6> QED
            BY <6>1, <6>2
        <5> QED
          BY <1>1, <1>4, <5>2 DEF ToldFirst
      <4>3. up' = Append(up, o)
        BY <3>1, <4>1, <4>2
      <4>4. o = Okay(d)
        BY <3>1, <3>5, <4>1, MsgParts DEF Okay
      <4>5. Count(up', Okay(d)) = Count(up, Okay(d)) + 1
        BY <1>1, <3>1, <4>3, <4>4, CountAppend
      <4> QED
        BY <2>1, <2>2, <2>3, <3>2, <3>3, <3>6, <4>5 DEF Acked
    <3>7. CASE h # Wrte(d)
      <4>1. up' = up \/ (up' = Append(up, o) /\ o # Okay(d))
        <5>1. CASE up' = Append(up, o) /\ h.cmd = "WRTE"
          <6>1. o = Okay(d) => h.arg0 = d /\ h.arg1 = devPeer[d]
            BY <1>2, <3>5
          <6>2. o # Okay(d)
            BY <3>4, <3>7, <5>1, <6>1, MsgParts DEF Wrte
          <6> QED
            BY <5>1, <6>2
        <5> QED
          BY <3>1, <5>1
      <4>2. Count(up', Okay(d)) = Count(up, Okay(d))
        <5>1. Count(Append(up, o), Okay(d)) = Count(up, Okay(d)) + (IF o = Okay(d) THEN 1 ELSE 0)
          BY <1>1, <3>1, CountAppend
        <5>2. CASE up' = up
          BY <5>2
        <5>3. CASE up' = Append(up, o) /\ o # Okay(d)
          BY <2>3, <5>1, <5>3
        <5> QED
          BY <4>1, <5>2, <5>3
      <4>3. Count(down', Wrte(d)) = Count(down, Wrte(d))
        BY <2>3, <3>3, <3>7
      <4> QED
        BY <2>1, <2>2, <3>2, <4>2, <4>3, AckedKept
    <3> QED
      BY <3>6, <3>7
  <2>10. CASE DeviceAccepts
    <3> DEFINE o == Msg("OKAY", Len(devPeer) + 1, Head(up).arg0)
    <3>1. /\ up # << >> /\ Head(up).cmd = "OPEN" /\ up' = Tail(up)
          /\ down' = down \o << o >> /\ unacked' = unacked
      BY <1>1, <2>10 DEF DeviceAccepts, Answer
    <3>2. o \in Message /\ o.cmd = "OKAY"
      <4>1. Head(up).arg0 \in Nat /\ Len(devPeer) + 1 \in Nat
        BY <3>1, HeadOfUp, LenProperties DEF Inv, Shape
      <4> QED
        BY <4>1 DEF Msg, Message
    <3> HIDE DEF o
    <3>3. down' = Append(down, o)
      BY <1>1, <3>1, <3>2, PutProperties
    <3>4. Count(down', Wrte(d)) = Count(down, Wrte(d))
      BY <2>4, <3>2, <3>3
    <3>5. Count(up', Okay(d)) = Count(up, Okay(d))
      BY <1>2, <2>6, <3>1
    <3> QED
      BY <2>1, <2>2, <3>1, <3>4, <3>5, AckedKept
  <2>11. CASE DeviceRefuses
    <3> DEFINE m == Msg("CLSE", 0, Head(up).arg0)
    <3>1. /\ up # << >> /\ Head(up).cmd = "OPEN" /\ up' = Tail(up)
          /\ down' = down \o << m >> /\ unacked' = unacked
      BY <1>1, <2>11 DEF DeviceRefuses, Answer, device
    <3>2. m \in Message /\ m.cmd = "CLSE"
      BY <3>1, HeadOfUp DEF Msg, Message
    <3> HIDE DEF m
    <3>3. down' = Append(down, m)
      BY <1>1, <3>1, <3>2, PutProperties
    <3>4. Count(down', Wrte(d)) = Count(down, Wrte(d))
      BY <2>4, <3>2, <3>3
    <3>5. Count(up', Okay(d)) = Count(up, Okay(d))
      BY <1>2, <2>6, <3>1
    <3> QED
      BY <2>1, <2>2, <3>1, <3>4, <3>5, AckedKept
  <2>12. CASE DeviceReceives
    <3> DEFINE h == Head(up)
               known == h.arg1 \in alive /\ devPeer[h.arg1] = h.arg0
               okay == Msg("OKAY", h.arg1, h.arg0)
               clse == Msg("CLSE", h.arg1, h.arg0)
    <3>1. /\ up # << >> /\ up' = Tail(up)
          /\ unacked' = IF known /\ h.cmd = "OKAY" THEN unacked \ {h.arg1} ELSE unacked
          /\ Answer(IF ~known \/ h.cmd = "OKAY" THEN << >>
                    ELSE IF h.cmd = "WRTE" THEN << okay >> ELSE << clse >>)
      BY <2>12 DEF DeviceReceives
    <3>2. h \in Message /\ h.arg0 \in Nat /\ h.arg1 \in Nat
      BY <3>1, HeadOfUp
    <3>3. okay \in Message /\ okay.cmd = "OKAY" /\ clse \in Message /\ clse.cmd = "CLSE"
      BY <3>2 DEF Msg, Message
    <3> HIDE DEF h, okay, clse
    <3>4. down' = down \/ down' = Append(down, okay) \/ down' = Append(down, clse)
      <4>1. /\ down \o << >> = down
            /\ down \o << okay >> = Append(down, okay)
            /\ down \o << clse >> = Append(down, clse)
        BY <1>1, <3>3, PutProperties
      <4>2. Answer(<< >>) \/ Answer(<< okay >>) \/ Answer(<< clse >>)
        BY <3>1
      <4> QED
        BY <1>1, <4>1, <4>2 DEF Answer
    <3>5. Count(down', Wrte(d)) = Count(down, Wrte(d))
      <4>1. okay.cmd # "WRTE" /\ clse.cmd # "WRTE"
        BY <3>3
      <4> QED
        BY <2>4, <3>3, <3>4, <4>1
    <3>6. CASE h = Okay(d)
      <4>1. h.cmd = "OKAY" /\ h.arg1 = d /\ h.arg0 = devPeer[d]
        BY <1>2, <3>6
      <4>2. unacked' = unacked \ {d}
        BY <1>4, <3>1, <4>1
      <4>3. Count(up, Okay(d)) = Count(up', Okay(d)) + 1
        BY <1>1, <3>1, <3>6, CountTail DEF h
      <4>4. Count(down, Wrte(d)) + Count(up, Okay(d)) = 1
        BY <2>1, <2>3, <4>3 DEF Acked
      <4> QED
        BY <2>2, <2>3, <3>5, <4>2, <4>3, <4>4 DEF Acked
    <3>7. CASE h # Okay(d)
      <4>1. Count(up', Okay(d)) = Count(up, Okay(d))
        BY <2>6, <3>1, <3>7 DEF h
      <4>2. known /\ h.cmd = "OKAY" => h.arg1 # d
        BY <3>2, <3>7, MsgParts DEF Okay
      <4>3. d \in unacked' <=> d \in unacked
        BY <3>1, <4>2
      <4> QED
        BY <2>1, <2>2, <3>5, <4>1, <4>3, AckedKept
    <3> QED
      BY <3>6, <3>7
  <2>13. ASSUME NEW e \in Streams, DeviceWrites(e)
         PROVE  Acked(d)'
    <3>1. /\ e \notin unacked /\ unacked' = unacked \cup {e} /\ up' = up
          /\ down' = down \o << Wrte(e) >>
      BY <1>1, <2>13 DEF DeviceWrites, Answer, Wrte
    <3>2. Wrte(e) \in Message
      BY LenProperties DEF Wrte, Msg, Message, Streams, Inv, Shape
    <3>3. Count(down', Wrte(d)) = Count(down, Wrte(d)) + (IF Wrte(e) = Wrte(d) THEN 1 ELSE 0)
      <4>1. down' = Append(down, Wrte(e))
        BY <1>1, <3>1, <3>2, PutProperties
      <4>2. Count(Append(down, Wrte(e)), Wrte(d))
              = Count(down, Wrte(d)) + (IF Wrte(e) = Wrte(d) THEN 1 ELSE 0)
        BY <1>1, <3>2, CountAppend
      <4> QED
        BY <4>1, <4>2
    <3>4. CASE e = d
      BY <2>1, <2>2, <2>3, <3>1, <3>3, <3>4 DEF Acked
    <3>5. CASE e # d
      <4>1. Wrte(e) # Wrte(d)
        BY <3>5, MsgParts DEF Wrte
      <4> QED
        BY <2>1, <2>2, <2>3, <3>1, <3>3, <3>5, <4>1, AckedKept
    <3> QED
      BY <3>4, <3>5
  <2>14. ASSUME NEW e \in Streams, DeviceCloses(e)
         PROVE  Acked(d)'
    <3> DEFINE m == Msg("CLSE", e, devPeer[e])
    <3>1. unacked' = unacked /\ up' = up /\ down' = down \o << m >>
      BY <1>1, <2>14 DEF DeviceCloses, Answer
    <3>2. m \in Message /\ m.cmd = "CLSE"
      BY LenProperties DEF Msg, Message, Streams, Inv, Shape
    <3> HIDE DEF m
    <3>3. down' = Append(down, m)
      BY <1>1, <3>1, <3>2, PutProperties
    <3>4. Count(down', Wrte(d)) = Count(down, Wrte(d))
      BY <2>4, <3>2, <3>3
    <3> QED
      BY <2>1, <2>2, <3>1, <3>4, AckedKept
  <2>15. CASE UNCHANGED vars
    BY <2>1, <2>2, <2>15, AckedKept DEF vars, device
  <2> QED
    BY <2>7, <2>8, <2>9, <2>10, <2>11, <2>12, <2>13, <2>14, <2>15, StepsWhileUp
<1> QED
  BY <1>3, <1>4, AliveMoves

(* Each WRTE of a live stream is acknowledged exactly once, also when its  *)
(* channel was closed or opened again meanwhile (session_handle_message's  *)
(* WRTE case), for any number of channels, streams and messages.           *)
THEOREM Acknowledgement == Spec => []AckedOnce
<1> DEFINE All == Inv /\ OneStreamEach /\ ToldFirst /\ AckedOnce
<1>1. Init => All
  <2> SUFFICES ASSUME Init PROVE All
    OBVIOUS
  <2>1. alive = {} /\ up = << >> /\ nextLocal = 1
    BY DEF Init
  <2>2. PICK n \in 0 .. 1 : devPeer = [d \in 1 .. n |-> 0]
    BY DEF Init
  <2>3. \A c, d \in Streams : devPeer[d] = 0 /\ c = d
    BY <2>2 DEF Streams
  <2>4. OneStreamEach
    BY <2>1, <2>3 DEF OneStreamEach
  <2> QED
    BY <2>1, <2>4, InitInv DEF ToldFirst, AckedOnce
<1>2. All /\ [Next]_vars => All'
  <2> SUFFICES ASSUME All, [Next]_vars PROVE All'
    OBVIOUS
  <2>1. AckedOnce'
    <3>1. ASSUME link' = "up", NEW d \in alive' PROVE Acked(d)'
      BY <3>1, AckedStep
    <3> QED
      BY <3>1 DEF AckedOnce, Acked, Wrte, Okay
  <2> QED
    BY <2>1, NextInv, OneStreamStep, ToldStep
<1>3. All => AckedOnce
  OBVIOUS
<1> HIDE DEF All
<1> QED
  BY <1>1, <1>2, <1>3, PTL DEF Spec
=============================================================================
