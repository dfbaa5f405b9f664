------------------------------ MODULE AdbRelay ------------------------------
(***************************************************************************)
(* The threads that share an ADB connection once the streams of            *)
(* scrcpy-server are being opened (device/server.c): the ADB reader, which *)
(* handles every message and relays the data of the video, audio and       *)
(* control streams through socketpairs, the control sender, which carries  *)
(* control messages the other way, and the main thread, which waits for    *)
(* the channels, then runs, and at the end kills the server through the    *)
(* same connection.  send_lock is taken by the sender, and by the reader   *)
(* for its acknowledgements; server_kill and session_handle_message, which *)
(* answers what the device asks of its own accord, send without it.        *)
(*                                                                         *)
(* The connection is the plain one: a message goes out as a header and, if *)
(* it has one, a payload (adb_send_msg).  A payload from the device is its *)
(* number among those of its stream.                                       *)
(***************************************************************************)
EXTENDS AdbChannels, FiniteSets, SequencesExt

CONSTANTS
    PairCapacity,   \* how many payloads a socketpair holds
    Loads,          \* bounds: [role -> how many WRTEs its stream sends], with
                    \* "written", how many control messages the program writes,
                    \* and "faults", how often a stream is closed or refused,
                    \* the device asks something, a pipeline thread fails, or
                    \* the connection breaks
    OtherStreams    \* how many identifiers adbd gave to streams that are not
                    \* ours: those before them, and those it opens itself

Roles == {"shell", "video", "audio", "control"}
Kinds == Roles \ {"shell"}

ASSUME BoundsAssumption ==
    /\ PairCapacity \in Nat \ {0} /\ OtherStreams \in Nat
    /\ Loads \subseteq [Roles \cup {"written", "faults"} -> Nat]

VARIABLES
    channels,   \* conn->channels
    reader,     \* the reader thread: its place and the message in hand
    sender,     \* the control sender: its place and the message in hand
    main,       \* the place of the main thread
    pairs,      \* pairs[k]: the payloads in the socketpair of kind k
    taken,      \* taken[k]: those its consumer has read
    ended,      \* the kinds whose pipeline thread is over, or never began
    ctlPair,    \* the control messages on their way to the sender
    written,    \* how many control messages were written so far
    state,      \* conn->state
    unlocked,   \* has a message been sent without send_lock (history)
    link,       \* "up" or "broken"
    wire,       \* the headers and payloads on their way to the device
    down,       \* the messages on their way from the device
    left,       \* the load, less the faults there were
    streams,    \* the device's streams, by their identifiers
    obeyed      \* the control messages scrcpy-server has read

relay   == <<pairs, taken, ended>>
control == <<ctlPair, written>>
session == <<state, unlocked>>
host    == <<channels, reader, sender, main, relay, control, session>>
device  == <<streams, obeyed>>
net     == <<link, wire, down, left>>
vars    == <<host, net, device>>

(* The channels in the order they were opened. *)
Local == [shell |-> 1, video |-> 2, audio |-> 3, control |-> 4]
Chan(k) == channels[Local[k]]

Frame(m, n) == [msg |-> m, data |-> n]       \* data = 0: no payload
Nothing     == Frame(Msg("NONE", 0, 0), 0)
Head1(f)    == [part |-> "header",  frame |-> f]
Body1(f)    == [part |-> "payload", frame |-> f]
HasBody(f)  == f.msg.cmd \in {"OPEN", "WRTE", "AUTH"}
Pieces(f)   == IF HasBody(f) THEN << Head1(f), Body1(f) >> ELSE << Head1(f) >>
OpenFrame(l) == Frame(OpenMsg(l), l)

Other == [peer |-> 0, role |-> "other", sent |-> 0, alive |-> FALSE, unacked |-> FALSE]
Stream(local, role) == [Other EXCEPT !.peer = local, !.role = role, !.alive = TRUE]

(* The OPENs of the three streams are sent before the reader is started,   *)
(* in the order video, audio, control; the shell that starts the server    *)
(* was opened before and may or may not have been answered yet.  Audio and *)
(* control are wanted; the channel the push used is over and left out.     *)
Init ==
    /\ reader = [pc |-> "recv", frame |-> Nothing]
    /\ sender = [pc |-> "recv", frame |-> Nothing]
    /\ main = "video"
    /\ pairs = [k \in Kinds |-> << >>] /\ taken = [k \in Kinds |-> << >>]
    /\ ended = {} /\ state = "connected" /\ unlocked = FALSE
    /\ ctlPair = << >> /\ written = 0
    /\ link = "up" /\ down = << >> /\ obeyed = << >> /\ left \in Loads
    /\ LET others == [d \in 1 .. OtherStreams |-> Other]
           opens  == Pieces(OpenFrame(Local["video"]))
                       \o Pieces(OpenFrame(Local["audio"]))
                       \o Pieces(OpenFrame(Local["control"]))
       IN  \/ /\ channels = [l \in 1 .. 4 |-> Opening(l)]
              /\ streams = others
              /\ wire = Pieces(OpenFrame(Local["shell"])) \o opens
           \/ /\ channels = [l \in 1 .. 4 |-> IF l = Local["shell"]
                               THEN Opened(Opening(l), OtherStreams + 1)
                               ELSE Opening(l)]
              /\ streams = Append(others, Stream(Local["shell"], "shell"))
              /\ wire = opens

Sent(pieces) == IF link = "up" THEN wire \o pieces ELSE wire

(* send_lock is held by the sender between a header and its payload; the   *)
(* reader sends nothing but single headers under it.                       *)
LockFree == sender.pc # "payload"

----------------------------------------------------------------------------
(* adb_reader_thread *)

(* A WRTE names the video channel, and the audio channel, as long as their *)
(* remote ids are not known.                                               *)
Guessed(chans, m) ==
    Update(chans, LAMBDA c : c.local \in {Local["video"], Local["audio"]}
                               /\ c.remote = 0,
                  LAMBDA c : [c EXCEPT !.remote = m.arg0])

(* What session_handle_message answers.  adbd opens a stream without a     *)
(* local id, so none of the channels is touched.                           *)
Reply(m) == IF m.cmd = "OPEN" THEN Frame(Msg("OKAY", m.arg1, m.arg0), 0)
                              ELSE Frame(Msg(m.cmd, 0, 0), 1)

StateAfter(m) == CASE m.cmd = "STLS" -> "negotiating"
                   [] m.cmd = "CNXN" -> "connected"
                   [] OTHER          -> state

(* An AUTH whose token cannot be signed is not answered.                   *)
ReaderReceives ==
    /\ reader.pc = "recv" /\ down # << >>
    /\ down' = Tail(down)
    /\ LET f == Head(down)
       IN  \/ /\ f.msg.cmd = "WRTE"
              /\ channels' = Guessed(channels, f.msg)
              /\ reader' = [pc |-> "ack", frame |-> f]
           \/ /\ f.msg.cmd = "OKAY"
              /\ reader' = [pc |-> "okay", frame |-> f]
              /\ UNCHANGED channels
           \/ /\ f.msg.cmd = "CLSE"
              /\ channels' = OnClse(channels, f.msg)
              /\ UNCHANGED reader
           \/ /\ f.msg.cmd \in {"OPEN", "AUTH", "STLS"}
              /\ reader' = [pc |-> "reply", frame |-> Reply(f.msg)]
              /\ UNCHANGED channels
           \/ /\ f.msg.cmd \in {"AUTH", "CNXN"}
              /\ UNCHANGED <<reader, channels>>
    /\ state' = StateAfter(Head(down).msg)
    /\ UNCHANGED <<sender, main, relay, control, unlocked, link, wire, left, device>>

(* The answer goes out without send_lock.  After an STLS the reader is in  *)
(* tls_handshake, from where on the model does not follow it.              *)
ReaderReplies ==
    /\ \/ /\ reader.pc = "reply"
          /\ wire' = Sent(<< Head1(reader.frame) >>)
          /\ reader' = CASE reader.frame.msg.cmd = "AUTH" ->
                             [reader EXCEPT !.pc = "replyBody"]
                        [] reader.frame.msg.cmd = "STLS" ->
                             [reader EXCEPT !.pc = "tls"]
                        [] OTHER -> [pc |-> "recv", frame |-> Nothing]
          /\ unlocked' = TRUE /\ UNCHANGED state
       \/ /\ reader.pc = "replyBody"
          /\ wire' = Sent(<< Body1(reader.frame) >>)
          /\ reader' = [pc |-> "recv", frame |-> Nothing]
          /\ state' = "auth sent" /\ UNCHANGED unlocked
    /\ UNCHANGED <<channels, sender, main, relay, control, link, down, left, device>>

(* remote_id and state are plain fields read by other threads: the two     *)
(* assignments may be seen in either order.                                *)
Assigned(chans, m, field) ==
    Update(chans, LAMBDA c : c.local = m.arg1,
           LAMBDA c : IF field = "remote" THEN [c EXCEPT !.remote = m.arg0]
                                          ELSE [c EXCEPT !.state = "OPEN"])

ReaderOkay ==
    /\ \/ /\ reader.pc = "okay"
          /\ \E first \in {"remote", "state"} :
                /\ channels' = Assigned(channels, reader.frame.msg, first)
                /\ reader' = [reader EXCEPT !.pc =
                                IF first = "remote" THEN "state" ELSE "remote"]
       \/ /\ reader.pc \in {"remote", "state"}
          /\ channels' = Assigned(channels, reader.frame.msg, reader.pc)
          /\ reader' = [pc |-> "recv", frame |-> Nothing]
    /\ UNCHANGED <<sender, main, relay, control, session, net, device>>

ReaderAcksUnlocked ==   \* Seeded fault: send_lock is not taken.
    /\ reader.pc = "ack"
    /\ wire' = Sent(Pieces(Frame(Msg("OKAY", reader.frame.msg.arg1,
                                             reader.frame.msg.arg0), 0)))
    /\ reader' = [reader EXCEPT !.pc = "relay"]
    /\ UNCHANGED <<channels, sender, main, relay, control, session, link, down, left, device>>

ReaderAcksChannel ==   \* Seeded fault: the ids are those of the video channel.
    /\ reader.pc = "ack" /\ LockFree
    /\ wire' = Sent(Pieces(Frame(Msg("OKAY", Chan("video").local,
                                             Chan("video").remote), 0)))
    /\ reader' = [reader EXCEPT !.pc = "relay"]
    /\ UNCHANGED <<channels, sender, main, relay, control, session, link, down, left, device>>

ReaderAcksIfFree ==   \* Seeded fault: a message is skipped when the lock is held.
    /\ reader.pc = "ack"
    /\ IF LockFree
         THEN /\ wire' = Sent(Pieces(Frame(Msg("OKAY", reader.frame.msg.arg1,
                                                       reader.frame.msg.arg0), 0)))
              /\ reader' = [reader EXCEPT !.pc = "relay"]
         ELSE reader' = [pc |-> "recv", frame |-> Nothing] /\ UNCHANGED wire
    /\ UNCHANGED <<channels, sender, main, relay, control, session, link, down, left, device>>

ReaderAcks ==
    /\ reader.pc = "ack" /\ LockFree
    /\ wire' = Sent(Pieces(Frame(Msg("OKAY", reader.frame.msg.arg1,
                                             reader.frame.msg.arg0), 0)))
    /\ reader' = [reader EXCEPT !.pc = "relay"]
    /\ UNCHANGED <<channels, sender, main, relay, control, session, link, down, left, device>>

(* The first channel, in this order, whose remote id is the sender's.      *)
Destination(m) ==
    CASE m.arg0 = Chan("video").remote   -> "video"
      [] m.arg0 # Chan("video").remote
           /\ m.arg0 = Chan("audio").remote -> "audio"
      [] m.arg0 \notin {Chan("video").remote, Chan("audio").remote}
           /\ m.arg0 = Chan("control").remote -> "control"
      [] OTHER -> "nowhere"

Payload(f) == <<f.msg.arg0, f.data>>

ReaderRelaysDropping ==   \* Seeded fault: what does not fit is dropped.
    /\ reader.pc = "relay"
    /\ LET k == Destination(reader.frame.msg)
       IN  IF k = "nowhere" \/ Len(pairs[k]) = PairCapacity THEN UNCHANGED pairs
           ELSE pairs' = [pairs EXCEPT ![k] = Append(@, Payload(reader.frame))]
    /\ reader' = [pc |-> "recv", frame |-> Nothing]
    /\ UNCHANGED <<channels, sender, main, taken, ended, control, session, net, device>>

(* send to the socketpair, which blocks while it is full. *)
ReaderRelays ==
    /\ reader.pc = "relay"
    /\ LET k == Destination(reader.frame.msg)
       IN  \/ k = "nowhere" /\ UNCHANGED pairs
           \/ /\ k # "nowhere" /\ Len(pairs[k]) < PairCapacity
              /\ pairs' = [pairs EXCEPT ![k] = Append(@, Payload(reader.frame))]
    /\ reader' = [pc |-> "recv", frame |-> Nothing]
    /\ UNCHANGED <<channels, sender, main, taken, ended, control, session, net, device>>

ReaderStops ==
    /\ reader.pc = "recv" /\ down = << >> /\ link = "broken"
    /\ reader' = [reader EXCEPT !.pc = "done"]
    /\ UNCHANGED <<channels, sender, main, relay, control, session, net, device>>

Reader == ReaderReceives \/ ReaderReplies \/ ReaderOkay \/ ReaderAcks \/ ReaderRelays \/ ReaderStops

----------------------------------------------------------------------------
(* ctrl_sender_thread *)

SenderTakesIfOpen ==   \* Seeded fault: the remote id is not looked at.
    /\ sender.pc = "recv" /\ ctlPair # << >>
    /\ ctlPair' = Tail(ctlPair)
    /\ IF Chan("control").state = "OPEN"
         THEN sender' = [pc |-> "send", frame |-> Frame(Nothing.msg, Head(ctlPair))]
         ELSE UNCHANGED sender
    /\ UNCHANGED <<channels, reader, main, relay, written, session, net, device>>

(* A message that comes while the control channel is not open is dropped.  *)
SenderTakes ==
    /\ sender.pc = "recv" /\ ctlPair # << >>
    /\ ctlPair' = Tail(ctlPair)
    /\ IF Chan("control").state = "OPEN" /\ Chan("control").remote # 0
         THEN sender' = [pc |-> "send", frame |-> Frame(Nothing.msg, Head(ctlPair))]
         ELSE UNCHANGED sender
    /\ UNCHANGED <<channels, reader, main, relay, written, session, net, device>>

(* send_lock is taken; the identifiers are read now. *)
SenderSendsHeader ==
    /\ sender.pc = "send"
    /\ LET f == Frame(Msg("WRTE", Chan("control").local, Chan("control").remote),
                      sender.frame.data)
       IN  /\ wire' = Sent(<< Head1(f) >>)
           /\ sender' = [pc |-> "payload", frame |-> f]
    /\ UNCHANGED <<channels, reader, main, relay, control, session, link, down, left, device>>

SenderSendsPayloadTwice ==   \* Seeded fault: the message is kept and sent again.
    /\ sender.pc = "payload"
    /\ wire' = Sent(<< Body1(sender.frame) >>)
    /\ sender' \in {[sender EXCEPT !.pc = "send"], [pc |-> "recv", frame |-> Nothing]}
    /\ UNCHANGED <<channels, reader, main, relay, control, session, link, down, left, device>>

SenderSendsPayload ==
    /\ sender.pc = "payload"
    /\ wire' = Sent(<< Body1(sender.frame) >>)
    /\ sender' = [pc |-> "recv", frame |-> Nothing]
    /\ UNCHANGED <<channels, reader, main, relay, control, session, link, down, left, device>>

Sender == SenderTakes \/ SenderSendsHeader \/ SenderSendsPayload

----------------------------------------------------------------------------
(* The main thread: server_start from its first wait on, the metadata of   *)
(* the audio stream, the run, and server_kill; with it the video and audio *)
(* threads that read the pairs, once they are started.                     *)

NextWait == [video |-> "audio", audio |-> "control", control |-> "metadata"]

MainWaitsNoCheck(k) ==   \* Seeded fault: a wait that times out is success.
    /\ main = k
    /\ main' = NextWait[k]
    /\ UNCHANGED <<channels, reader, sender, relay, control, session, net, device>>

(* Each wait ends when the channel is seen open or after 30 s; without the *)
(* video channel the start fails, without the others it goes on.           *)
MainWaits(k) ==
    /\ main = k
    /\ \/ Chan(k).state = "OPEN" /\ main' = NextWait[k]
       \/ Chan(k).state # "OPEN" /\ main' = IF k = "video" THEN "failed"
                                                           ELSE NextWait[k]
    /\ UNCHANGED <<channels, reader, sender, relay, control, session, net, device>>

Take(k) ==
    /\ pairs[k] # << >>
    /\ taken' = [taken EXCEPT ![k] = Append(@, Head(pairs[k]))]
    /\ pairs' = [pairs EXCEPT ![k] = Tail(@)]

(* The first payload of the video stream is its metadata; with it          *)
(* server_start has succeeded.                                             *)
MainReadsMetadata ==
    /\ main = "metadata" /\ Take("video")
    /\ main' = "audio metadata"
    /\ UNCHANGED <<channels, reader, sender, ended, control, session, net, device>>

(* The first payload of the audio stream is its metadata, waited for       *)
(* without limit, before the pipelines are started.                        *)
MainReadsAudioMetadata ==
    /\ main = "audio metadata" /\ Take("audio")
    /\ main' = "running"
    /\ UNCHANGED <<channels, reader, sender, ended, control, session, net, device>>

Piping  == main \in {"running", "killing", "killed"}
Running == Piping \/ main = "audio metadata"

(* The video or the audio thread reads; nobody reads the control socket.   *)
ConsumerReads(k) ==
    /\ Piping /\ k \in {"video", "audio"} \ ended /\ Take(k)
    /\ UNCHANGED <<channels, reader, sender, main, ended, control, session, net, device>>

ControlWritten ==
    /\ main = "running" /\ written < left.written
    /\ written' = written + 1
    /\ ctlPair' = Append(ctlPair, written + 1)
    /\ UNCHANGED <<channels, reader, sender, main, relay, session, net, device>>

(* server_kill: an adb_shell on the connection the reader and the sender   *)
(* use, without send_lock; it does nothing unless the state is connected.  *)
MainKills ==
    \/ /\ main = "running" /\ state = "connected"
       /\ channels' = Append(channels, Opening(Len(channels) + 1))
       /\ wire' = Sent(<< Head1(OpenFrame(Len(channels) + 1)) >>)
       /\ main' = "killing" /\ unlocked' = TRUE
       /\ UNCHANGED <<reader, sender, relay, control, state, link, down, left, device>>
    \/ /\ main = "killing"
       /\ wire' = Sent(<< Body1(OpenFrame(Len(channels))) >>)
       /\ main' = "killed"
       /\ UNCHANGED <<channels, reader, sender, relay, control, session, link, down, left, device>>
    \/ /\ main = "running" /\ state # "connected"
       /\ main' = "killed"
       /\ UNCHANGED <<channels, reader, sender, relay, control, session, net, device>>

Main == (\E k \in Kinds : MainWaits(k)) \/ MainReadsMetadata
          \/ MainReadsAudioMetadata \/ ControlWritten \/ MainKills

----------------------------------------------------------------------------
(* The connection, adbd and scrcpy-server *)

Fault == left.faults > 0 /\ left' = [left EXCEPT !.faults = @ - 1]

(* A pipeline thread could not be created, or its read failed; after       *)
(* server_kill the pipelines are stopped.                                  *)
ConsumerEnds(k) ==
    /\ Piping /\ k \in {"video", "audio"} \ ended
    /\ Fault \/ (main = "killed" /\ UNCHANGED left)
    /\ ended' = ended \cup {k}
    /\ UNCHANGED <<channels, reader, sender, main, pairs, taken, control, session,
                   link, wire, down, device>>

Break ==
    /\ link = "up" /\ Fault
    /\ link' = "broken" /\ wire' = << >>
    /\ UNCHANGED <<host, down, device>>

Whole == wire # << >> /\ LET f == Head(wire).frame IN IsPrefix(Pieces(f), wire)

(* A header is followed by something other than its payload, or the host   *)
(* goes over to TLS: the plain connection is over.                         *)
DeviceConfused ==
    /\ \/ Len(wire) >= 2 /\ ~Whole
       \/ Whole /\ Head(wire).frame.msg.cmd = "STLS"
    /\ link' = "broken" /\ wire' = << >>
    /\ UNCHANGED <<host, down, left, device>>

Receive(m) ==
    /\ Whole /\ Head(wire).frame.msg = m
    /\ wire' = SubSeq(wire, Len(Pieces(Head(wire).frame)) + 1, Len(wire))

Answer(msgs) == down' = down \o msgs

(* scrcpy-server takes its connections in a fixed order.                   *)
Accepted == {streams[d].role : d \in DOMAIN streams} \ {"other"}
RoleOf(l) ==
    IF l = Local["shell"] THEN "shell"
    ELSE IF l > Local["control"] THEN "kill"
    ELSE CASE "video" \notin Accepted   -> "video"
           [] "video" \in Accepted /\ "audio" \notin Accepted -> "audio"
           [] OTHER -> "control"

DeviceAccepts ==
    \E l \in DOMAIN channels :
        /\ Receive(OpenMsg(l))
        /\ streams' = Append(streams, Stream(l, RoleOf(l)))
        /\ Answer(<< Frame(Msg("OKAY", Len(streams) + 1, l), 0) >>)
        /\ UNCHANGED <<host, link, left, obeyed>>

(* Until scrcpy-server listens, its connections are refused; once it has   *)
(* taken the first, adbd is assumed to refuse none.                        *)
DeviceRefuses ==
    \E k \in Kinds :
        /\ Accepted \cap Kinds = {} /\ Fault
        /\ Receive(OpenMsg(Local[k]))
        /\ Answer(<< Frame(Msg("CLSE", 0, Local[k]), 0) >>)
        /\ UNCHANGED <<host, link, device>>

Known(d, m) == d \in DOMAIN streams /\ streams[d].alive /\ streams[d].peer = m.arg0

DeviceReceives ==
    \E m \in {Head(wire).frame.msg : i \in 1 .. Len(wire)} :
        /\ m.cmd \in {"OKAY", "WRTE", "AUTH"} /\ Receive(m)
        /\ \/ /\ m.cmd = "OKAY" /\ Known(m.arg1, m)
              /\ streams' = [streams EXCEPT ![m.arg1].unacked = FALSE]
              /\ UNCHANGED <<down, obeyed>>
           \/ /\ m.cmd = "WRTE" /\ Known(m.arg1, m)
              /\ obeyed' = Append(obeyed, <<streams[m.arg1].role, Head(wire).frame.data>>)
              /\ Answer(<< Frame(Msg("OKAY", m.arg1, m.arg0), 0) >>)
              /\ UNCHANGED streams
           \/ ~Known(m.arg1, m) /\ UNCHANGED <<down, device>>
    /\ UNCHANGED <<host, link, left>>

DeviceWrites(d) ==
    /\ link = "up" /\ streams[d].alive /\ ~streams[d].unacked
    /\ streams[d].role \in Roles /\ streams[d].sent < left[streams[d].role]
    /\ streams' = [streams EXCEPT ![d].sent = @ + 1, ![d].unacked = TRUE]
    /\ Answer(<< Frame(Msg("WRTE", d, streams[d].peer), streams[d].sent + 1) >>)
    /\ UNCHANGED <<host, link, wire, left, obeyed>>

DeviceCloses(d) ==
    /\ link = "up" /\ streams[d].alive /\ Fault
    /\ streams' = [streams EXCEPT ![d].alive = FALSE]
    /\ Answer(<< Frame(Msg("CLSE", d, streams[d].peer), 0) >>)
    /\ UNCHANGED <<host, link, wire, obeyed>>

(* Of its own accord adbd opens a stream of its own (a reverse forward),   *)
(* which then carries nothing, asks for a signature or for TLS, or says    *)
(* again who it is.                                                        *)
Asked == {Msg("OPEN", d, 0) : d \in 1 .. OtherStreams}
           \cup {Msg(cmd, 0, 0) : cmd \in {"AUTH", "STLS", "CNXN"}}

DeviceAsks ==
    /\ link = "up" /\ Fault
    /\ \E m \in Asked : Answer(<< Frame(m, 0) >>)
    /\ UNCHANGED <<host, link, wire, device>>

Device == DeviceConfused \/ DeviceAsks \/ DeviceAccepts \/ DeviceRefuses \/ DeviceReceives
            \/ \E d \in DOMAIN streams : DeviceWrites(d) \/ DeviceCloses(d)

Next == Reader \/ Sender \/ Main
          \/ (\E k \in Kinds : ConsumerReads(k) \/ ConsumerEnds(k))
          \/ Break \/ Device

(* The threads of the program are scheduled, the pipeline threads as long  *)
(* as they are there; nothing is asked of adbd, of the network, or of the  *)
(* user.                                                                   *)
Fairness ==
    /\ WF_vars(Reader) /\ WF_vars(Sender) /\ WF_vars(MainReadsAudioMetadata)
    /\ \A k \in Kinds : WF_vars(ConsumerReads(k))

Spec == Init /\ [][Next]_vars /\ Fairness

----------------------------------------------------------------------------
(* Properties *)

TypeOK ==
    /\ \A l \in DOMAIN channels :
          /\ channels[l].local = l
          /\ channels[l].remote \in 0 .. Len(streams)
          /\ channels[l].state \in {"OPENING", "OPEN", "CLOSED"}
    /\ reader.pc \in {"recv", "ack", "relay", "okay", "remote", "state", "done",
                      "reply", "replyBody", "tls"}
    /\ sender.pc \in {"recv", "send", "payload"}
    /\ main \in {"video", "audio", "control", "metadata", "audio metadata",
                 "running", "killing", "killed", "failed"}
    /\ state \in {"connected", "auth sent", "negotiating"}
    /\ unlocked \in BOOLEAN /\ ended \subseteq {"video", "audio"}
    /\ \A k \in Kinds : Len(pairs[k]) <= PairCapacity
    /\ link \in {"up", "broken"} /\ written \in 0 .. left.written /\ left.faults \in Nat

(* Every message to the device names its stream by both ids, although the  *)
(* reader assigns them while the sender reads them: no control message and *)
(* no acknowledgement goes to a stream that is not the channel's.          *)
AddressedRight ==
    \A i \in DOMAIN wire :
        LET m == wire[i].frame.msg
        IN  m.cmd \notin {"OPEN", "AUTH", "STLS"} =>
              m.arg1 \in DOMAIN streams /\ streams[m.arg1].peer = m.arg0

(* While the connection stands, a stream's WRTE is on its way, in the hands*)
(* of the reader, or acknowledged once: no stream stalls and none overruns.*)
AckedOnce ==
    link = "up" =>
        \A d \in DOMAIN streams : streams[d].alive =>
            Cardinality({i \in DOMAIN down : down[i].msg.cmd = "WRTE"
                                               /\ down[i].msg.arg0 = d})
              + Cardinality({i \in DOMAIN wire : wire[i].frame.msg
                               = Msg("OKAY", streams[d].peer, d)})
              + (IF reader.pc = "ack" /\ reader.frame.msg.arg0 = d THEN 1 ELSE 0)
            = IF streams[d].unacked THEN 1 ELSE 0

(* A payload on the wire comes right after its header, and a header whose  *)
(* payload does not follow is the last and still being sent.               *)
MessagesWhole ==
    \A i \in DOMAIN wire :
        /\ (wire[i].part = "header" /\ HasBody(wire[i].frame)) =>
              IF i < Len(wire) THEN wire[i + 1] = Body1(wire[i].frame)
              ELSE sender.pc = "payload"
        /\ wire[i].part = "payload" => i > 1 /\ wire[i - 1] = Head1(wire[i].frame)

(* The reader's acknowledgements and the control messages are never mixed, *)
(* until something is sent without send_lock: by server_kill, or by        *)
(* session_handle_message when adbd asks something.                        *)
WholeIfLocked == unlocked \/ MessagesWhole

(* scrcpy-server knows its connections only by their order.  Once the      *)
(* start has succeeded, the channel the client takes for video, audio or   *)
(* control is the one the server does, whatever was refused before the     *)
(* server took its first.                                                  *)
RolesAgree ==
    Running => \A d \in DOMAIN streams :
        streams[d].role \in Kinds => streams[d].peer = Local[streams[d].role]

(* What lies between the consumer of the socketpair of kind k and the      *)
(* device, in this order: the payloads read, those in the socketpair, the  *)
(* one in the hands of the reader, those on their way to it.               *)
InHand == IF reader.pc \in {"ack", "relay"} THEN << Payload(reader.frame) >> ELSE << >>
Coming == [i \in DOMAIN down |-> IF down[i].msg.cmd = "WRTE" THEN Payload(down[i])
                                                             ELSE <<0, 0>>]
Trail(k) == taken[k] \o pairs[k] \o InHand \o Coming

(* Of the payloads of d, number 1 to n are there and in order.             *)
InOrder(trail, d, n) ==
    LET own == {i \in DOMAIN trail : trail[i][1] = d}
    IN  /\ \A i, j \in own : i < j => trail[i][2] < trail[j][2]
        /\ {trail[i][2] : i \in own} = 1 .. n

(* Once the start has succeeded, what a stream sent is on its way to its   *)
(* consumer or there, in order, with no gap and nothing twice.             *)
RelayedInOrder ==
    Running => \A d \in DOMAIN streams :
        streams[d].role \in Kinds => InOrder(Trail(streams[d].role), d, streams[d].sent)

(* scrcpy-server reads control messages on its control connection only, in *)
(* the order they were written, none of them twice.                        *)
ControlInOrder ==
    /\ \A i \in DOMAIN obeyed : obeyed[i][1] = "control"
    /\ \A i, j \in DOMAIN obeyed : i < j => obeyed[i][2] < obeyed[j][2]

(* What may hold the video stream up for good: the unlimited wait for the  *)
(* audio metadata, before there is a video thread; that thread's end; a    *)
(* payload for a full socketpair that nobody reads, the control one or     *)
(* that of a thread which has ended; and a TLS handshake.                  *)
HeldUp ==
    \/ main = "audio metadata" /\ pairs["audio"] = << >>
    \/ "video" \in ended
    \/ /\ reader.pc = "relay"
       /\ LET k == Destination(reader.frame.msg)
          IN  k \in {"control"} \cup ended /\ Len(pairs[k]) = PairCapacity
    \/ reader.pc = "tls"

Own(s, d) == SelectSeq(s, LAMBDA x : x[1] = d)

(* Once the start has succeeded, all the video stream has sent reaches the *)
(* main thread or the video thread in the end, and is not held up by the   *)
(* sender's use of the lock, by another stream's data or by a fault, but   *)
(* for what HeldUp names.                                                  *)
VideoArrives ==
    <>[](Running => \A d \in DOMAIN streams :
            streams[d].role = "video" =>
                Len(Own(taken["video"], d)) = streams[d].sent \/ HeldUp)

(* Only what the video stream sent is put in the socketpair of the video   *)
(* thread.                                                                 *)
VideoUnmixed ==
    \A i \in DOMAIN pairs["video"] : streams[pairs["video"][i][1]].role = "video"
=============================================================================
