---------------------------- MODULE AdbChannels ----------------------------
(***************************************************************************)
(* The channel table of an ADB connection (adb/session.c) and what each    *)
(* operation and each message does to it, as operators on the table.       *)
(*                                                                         *)
(* A table is a sequence of records, conn->channels[0 .. channel_count-1]; *)
(* nothing is ever taken out of it.  Identifiers are positive: 0 stands    *)
(* for a remote_id that is not known.  No two channels have the same local *)
(* id, so the first match of a handler's loop is its only match.  Of a     *)
(* message only the command and the two arguments are kept.                *)
(***************************************************************************)
EXTENDS Naturals, Sequences, FiniteSets

Msg(cmd, arg0, arg1) == [cmd |-> cmd, arg0 |-> arg0, arg1 |-> arg1]

(* The entry session_open_channel makes, and the message it sends.         *)
Opening(local) == [local |-> local, remote |-> 0, state |-> "OPENING"]
OpenMsg(local) == Msg("OPEN", local, 0)

(* The table with entry c replaced by New(c) where Test(c).                *)
Update(chans, Test(_), New(_)) ==
    [i \in DOMAIN chans |-> IF Test(chans[i]) THEN New(chans[i]) ELSE chans[i]]

Opened(c, remote) == [c EXCEPT !.remote = remote, !.state = "OPEN"]
Closed(c)         == [c EXCEPT !.state = "CLOSED"]

----------------------------------------------------------------------------
(* session_close_channel: nothing is done to a closed channel, and a CLSE  *)
(* is sent only when the device has told its identifier.                   *)
ClosingMsgsAlways(c) ==      \* Seeded fault: a CLSE is sent in any case.
    IF c.state # "CLOSED" THEN << Msg("CLSE", c.local, c.remote) >> ELSE << >>

ClosingMsgs(c) ==
    IF c.state # "CLOSED" /\ c.remote # 0
      THEN << Msg("CLSE", c.local, c.remote) >> ELSE << >>

CloseOne(chans, i) == [chans EXCEPT ![i] = Closed(@)]

(* session_disconnect closes every channel, in the order of the table: the *)
(* messages this sends (the set has one member, the only enumeration of    *)
(* the channels to tell the device about).                                 *)
AllClosingMsgs(chans) ==
    LET told == {i \in DOMAIN chans : ClosingMsgs(chans[i]) # << >>}
    IN  {[k \in DOMAIN f |-> Head(ClosingMsgs(chans[f[k]]))] :
            f \in {g \in [1 .. Cardinality(told) -> told] :
                     \A j, k \in DOMAIN g : j < k => g[j] < g[k]}}

CloseAll(chans) == Update(chans, LAMBDA c : TRUE, Closed)

----------------------------------------------------------------------------
(* session_handle_message, one command at a time: the table afterwards and *)
(* the messages sent in reply.                                             *)

OnOkaySwapped(chans, m) ==   \* Seeded fault: the two arguments are swapped.
    Update(chans, LAMBDA c : c.local = m.arg0, LAMBDA c : Opened(c, m.arg1))

(* The device accepted the channel arg1, or took the data last sent on it; *)
(* the state is not looked at, a closed channel becomes open.              *)
OnOkay(chans, m) ==
    Update(chans, LAMBDA c : c.local = m.arg1, LAMBDA c : Opened(c, m.arg0))

(* The device opens a channel towards the host: handled like an OKAY, and  *)
(* accepted whether a channel was found or not.                            *)
OnOpen(chans, m)      == OnOkay(chans, m)
OnOpenReply(chans, m) == << Msg("OKAY", m.arg1, m.arg0) >>

OnWrteReplyIfOpen(chans, m) ==   \* Seeded fault: a closed channel is mute.
    IF \E i \in DOMAIN chans :
          /\ chans[i].local = m.arg1 /\ chans[i].remote = m.arg0
          /\ chans[i].state = "OPEN"
      THEN << Msg("OKAY", m.arg1, m.arg0) >> ELSE << >>

(* Data is acknowledged when it names a channel by both identifiers.       *)
OnWrteReply(chans, m) ==
    IF \E i \in DOMAIN chans :
          chans[i].local = m.arg1 /\ chans[i].remote = m.arg0
      THEN << Msg("OKAY", m.arg1, m.arg0) >> ELSE << >>

(* The channel whose LOCAL id is arg0 is closed.                           *)
OnClse(chans, m) == Update(chans, LAMBDA c : c.local = m.arg0, Closed)

TableAfter(chans, m) ==
    CASE m.cmd = "OPEN" -> OnOpen(chans, m)
      [] m.cmd = "OKAY" -> OnOkay(chans, m)
      [] m.cmd = "CLSE" -> OnClse(chans, m)
      [] OTHER          -> chans

Replies(chans, m) ==
    CASE m.cmd = "OPEN" -> OnOpenReply(chans, m)
      [] m.cmd = "WRTE" -> OnWrteReply(chans, m)
      [] OTHER          -> << >>
============================================================================
