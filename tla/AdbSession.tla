----------------------------- MODULE AdbSession -----------------------------
(***************************************************************************)
(* An established ADB connection used by one thread (adb/session.c and the *)
(* operations of adb/adb.c), and the adbd at its other end.  adb_shell and *)
(* adb_forward open a channel and forget it; adb_push opens one, waits for *)
(* it to become open, writes to it and closes it, polling in between.      *)
(*                                                                         *)
(* The two directions of the connection are queues.  The device is modelled*)
(* by what the code expects of it: it accepts or refuses an OPEN, answers  *)
(* each WRTE with an OKAY, sends a stream's next WRTE only when the last   *)
(* one was acknowledged, and may close a stream at any time.  It names a   *)
(* stream by identifiers of its own.                                       *)
(***************************************************************************)
EXTENDS AdbChannels

CONSTANTS
    MaxChannels,    \* MAX_CHANNELS
    MaxOpens,       \* bound: how many times a channel is opened
    MaxWrites       \* bound: how many WRTEs one adb_push sends

ASSUME BoundsAssumption ==
    MaxChannels \in Nat /\ MaxOpens \in Nat /\ MaxWrites \in Nat

VARIABLES
    channels,   \* conn->channels up to conn->channel_count
    nextLocal,  \* conn->next_local_id
    link,       \* is the connection up?  "up", "broken" or "closed"
    up, down,   \* the messages on their way to and from the device
    op,         \* the adb_push under way: its stage, channel and writes
    devPeer,    \* devPeer[d]: the local id the device's stream d belongs to
    alive,      \* the device's streams that are not closed
    unacked     \* the device's streams whose last WRTE awaits its OKAY

host   == <<channels, nextLocal, op>>
device == <<devPeer, alive, unacked>>
vars   == <<host, device, link, up, down>>

NoPush == [stage |-> "none", chan |-> 0, writes |-> 0]

Init ==
    /\ channels = << >> /\ nextLocal = 1
    /\ link = "up" /\ up = << >> /\ down = << >>
    /\ op = NoPush
    /\ \E n \in 0 .. 1 : devPeer = [d \in 1 .. n |-> 0]   \* others' streams
    /\ alive = {} /\ unacked = {}

----------------------------------------------------------------------------
(* The host *)

CanOpen == op = NoPush /\ nextLocal <= MaxOpens /\ link # "closed"
             /\ Len(channels) < MaxChannels

(* Seeded fault: the identifier is not advanced. *)
OpenChannelKeepsId(stage) ==
    /\ CanOpen /\ link = "up"
    /\ channels' = Append(channels, Opening(nextLocal))
    /\ up' = Append(up, OpenMsg(nextLocal))
    /\ op' = IF stage = "none" THEN NoPush
             ELSE [stage |-> stage, chan |-> Len(channels) + 1, writes |-> 0]
    /\ UNCHANGED <<nextLocal, device, link, down>>

(* session_open_channel, for a caller that goes on with stage. *)
OpenChannel(stage) ==
    /\ CanOpen /\ link = "up"
    /\ channels' = Append(channels, Opening(nextLocal))
    /\ nextLocal' = nextLocal + 1
    /\ up' = Append(up, OpenMsg(nextLocal))
    /\ op' = IF stage = "none" THEN NoPush
             ELSE [stage |-> stage, chan |-> Len(channels) + 1, writes |-> 0]
    /\ UNCHANGED <<device, link, down>>

Shell == OpenChannel("none")        \* adb_shell, adb_forward
Push  == OpenChannel("opening")     \* adb_push

(* The OPEN could not be sent: the entry is given back, its id is not.     *)
OpenFails ==
    /\ CanOpen /\ link = "broken"
    /\ nextLocal' = nextLocal + 1
    /\ UNCHANGED <<channels, op, device, link, up, down>>

Sent(msgs) == IF link = "up" THEN up \o msgs ELSE up

(* adb_sync_send found its channel open. *)
PushOpened ==
    /\ op.stage = "opening" /\ channels[op.chan].state = "OPEN"
    /\ op' = [op EXCEPT !.stage = "pushing"]
    /\ UNCHANGED <<channels, nextLocal, device, link, up, down>>

(* SEND, DATA and DONE: none waits for the OKAY of the one before, and the *)
(* state of the channel is not looked at again.                            *)
PushWrite ==
    /\ op.stage = "pushing" /\ op.writes < MaxWrites
    /\ op' = [op EXCEPT !.writes = @ + 1]
    /\ up' = Sent(<< Msg("WRTE", channels[op.chan].local,
                                 channels[op.chan].remote) >>)
    /\ UNCHANGED <<channels, nextLocal, device, link, down>>

(* The retries are used up, the channel was closed meanwhile, or the push  *)
(* is complete: session_close_channel.                                     *)
PushEnds ==
    /\ \/ op.stage = "opening" /\ channels[op.chan].state # "OPEN"
       \/ op.stage = "pushing"
    /\ up' = Sent(ClosingMsgs(channels[op.chan]))
    /\ channels' = CloseOne(channels, op.chan)
    /\ op' = NoPush
    /\ UNCHANGED <<nextLocal, device, link, down>>

(* session_poll or one of the inline reads: handle the next message.       *)
Poll ==
    /\ link # "closed" /\ down # << >>
    /\ channels' = TableAfter(channels, Head(down))
    /\ up' = Sent(Replies(channels, Head(down)))
    /\ down' = Tail(down)
    /\ UNCHANGED <<nextLocal, op, device, link>>

(* adb_disconnect. *)
Disconnect ==
    /\ op = NoPush /\ link # "closed"
    /\ \E msgs \in AllClosingMsgs(channels) : up' = Sent(msgs)
    /\ channels' = CloseAll(channels)
    /\ link' = "closed"
    /\ UNCHANGED <<nextLocal, op, device, down>>

Host == Shell \/ Push \/ OpenFails \/ PushOpened \/ PushWrite \/ PushEnds
          \/ Poll \/ Disconnect

----------------------------------------------------------------------------
(* The network and the device *)

(* The connection breaks: what was under way to the device is lost.        *)
Break ==
    /\ link = "up"
    /\ link' = "broken" /\ up' = << >>
    /\ UNCHANGED <<host, device, down>>

Streams == DOMAIN devPeer

Answer(msgs) == down' = IF link = "up" THEN down \o msgs ELSE down

DeviceAccepts ==
    /\ up # << >> /\ Head(up).cmd = "OPEN"
    /\ devPeer' = Append(devPeer, Head(up).arg0)
    /\ alive' = alive \cup {Len(devPeer) + 1}
    /\ Answer(<< Msg("OKAY", Len(devPeer) + 1, Head(up).arg0) >>)
    /\ up' = Tail(up)
    /\ UNCHANGED <<host, link, unacked>>

DeviceRefuses ==
    /\ up # << >> /\ Head(up).cmd = "OPEN"
    /\ Answer(<< Msg("CLSE", 0, Head(up).arg0) >>)
    /\ up' = Tail(up)
    /\ UNCHANGED <<host, device, link>>

(* A WRTE to a live stream is acknowledged, an OKAY permits the next WRTE, *)
(* a CLSE ends the stream and is answered.                                 *)
DeviceReceives ==
    /\ up # << >> /\ Head(up).cmd # "OPEN"
    /\ LET m == Head(up)
           d == m.arg1
           known == d \in alive /\ devPeer[d] = m.arg0
       IN  /\ unacked' = IF known /\ m.cmd = "OKAY" THEN unacked \ {d}
                                                    ELSE unacked
           /\ alive' = IF known /\ m.cmd = "CLSE" THEN alive \ {d} ELSE alive
           /\ Answer(IF ~known \/ m.cmd = "OKAY" THEN << >>
                     ELSE IF m.cmd = "WRTE" THEN << Msg("OKAY", d, m.arg0) >>
                     ELSE << Msg("CLSE", d, m.arg0) >>)
    /\ up' = Tail(up)
    /\ UNCHANGED <<host, devPeer, link>>

DeviceWrites(d) ==
    /\ link = "up" /\ d \in alive \ unacked
    /\ Answer(<< Msg("WRTE", d, devPeer[d]) >>)
    /\ unacked' = unacked \cup {d}
    /\ UNCHANGED <<host, devPeer, alive, link, up>>

DeviceCloses(d) ==
    /\ link = "up" /\ d \in alive
    /\ Answer(<< Msg("CLSE", d, devPeer[d]) >>)
    /\ alive' = alive \ {d}
    /\ UNCHANGED <<host, devPeer, unacked, link, up>>

Device == DeviceAccepts \/ DeviceRefuses \/ DeviceReceives
            \/ \E d \in Streams : DeviceWrites(d) \/ DeviceCloses(d)

Finished == link = "closed" /\ UNCHANGED vars

Next == Host \/ Break \/ Device \/ Finished

Spec == Init /\ [][Next]_vars
----------------------------------------------------------------------------
(* Properties *)

TypeOK ==
    /\ Len(channels) <= MaxChannels
    /\ \A i \in DOMAIN channels :
          /\ channels[i].local \in 1 .. nextLocal - 1
          /\ channels[i].remote \in 0 .. Len(devPeer)
          /\ channels[i].state \in {"OPENING", "OPEN", "CLOSED"}
    /\ \A i, j \in DOMAIN channels : i < j => channels[i].local < channels[j].local
    /\ nextLocal \in 1 .. MaxOpens + 1
    /\ link \in {"up", "broken", "closed"}
    /\ op.stage \in {"none", "opening", "pushing"}
    /\ op.chan \in 0 .. Len(channels) /\ op.writes \in 0 .. MaxWrites
    /\ alive \subseteq Streams /\ unacked \subseteq Streams

(* A channel that has a remote id has that of its own stream, whatever was *)
(* accepted, refused, closed or written in between; and a channel is only  *)
(* used (CHAN_OPEN) once the device has told its id.                       *)
RoutedRight ==
    \A i \in DOMAIN channels :
        /\ channels[i].remote # 0 =>
             devPeer[channels[i].remote] = channels[i].local
        /\ channels[i].state = "OPEN" => channels[i].remote # 0

(* Every message the host sends about a stream names it by both ids: the   *)
(* device never gets data, an acknowledgement or a close for a stream that *)
(* does not exist or that belongs to another channel.                      *)
AddressedRight ==
    \A k \in DOMAIN up :
        up[k].cmd # "OPEN" =>
            up[k].arg1 \in Streams /\ devPeer[up[k].arg1] = up[k].arg0

Count(msgs, m) == Cardinality({k \in DOMAIN msgs : msgs[k] = m})

(* Each WRTE of a live stream is acknowledged exactly once, also when its  *)
(* channel was closed or reopened meanwhile: no stream stalls for want of  *)
(* an OKAY, none is let to send twice.                                     *)
AckedOnce ==
    link = "up" =>
        \A d \in alive :
            Count(down, Msg("WRTE", d, devPeer[d]))
              + Count(up, Msg("OKAY", devPeer[d], d))
            = IF d \in unacked THEN 1 ELSE 0
=============================================================================
