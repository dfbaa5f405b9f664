---------------------------- MODULE AdbHandshake ----------------------------
(***************************************************************************)
(* adb_connect: the TCP connection, the CNXN / AUTH / STLS exchange with   *)
(* adbd, in the clear and behind TLS, and how every later reader takes a   *)
(* message off the connection (adb_recv_msg, adb_recv_msg_tls,             *)
(* session_poll and the drain loops of server.c).                          *)
(*                                                                         *)
(* The connection is a stream and the program reads it in pieces.  A       *)
(* message is a header of two pieces and, if it has a payload, a body of   *)
(* two; a piece is what one recv may return, so a read can end after any   *)
(* of them.  A read of a header takes two pieces wherever it starts: once  *)
(* a reader is out of step it takes the wrong ones.  Behind TLS the stream *)
(* also holds records that are no data (session tickets), for which        *)
(* mbedtls_ssl_read returns WANT_READ or asks to be called again.          *)
(***************************************************************************)
EXTENDS Naturals, Sequences, SequencesExt

CONSTANTS
    MaxTries,       \* 100 turns in the clear, 50 behind TLS
    MaxSent,        \* bound: messages the device sends
    MaxTickets,     \* bound: records without data
    Sizes           \* payloads: 0 none, 1 up to 4 KB, 2 up to 1 MB, 3 larger

ASSUME HandshakeAssumption ==
    /\ MaxTries \in Nat \ {0} /\ MaxSent \in Nat /\ MaxTickets \in Nat
    /\ Sizes \subseteq 0 .. 3

VARIABLES
    dev,        \* what adbd is about to do
    sent,       \* the number of messages it sent
    tickets,    \* the number of records without data it sent
    down,       \* the pieces on their way to the program
    up,         \* the messages on their way to adbd
    pc,         \* where adb_connect or a later reader stands
    mode,       \* which reader: "plain", "tls", "poll" or "drain"
    tries,      \* the turns the loop of adb_connect has taken
    got,        \* the pieces of the message being received
    state,      \* conn->state
    held,       \* what adb_connect has allocated and not released
    ret,        \* what adb_connect returned
    handled,    \* the messages acted on, in order, and whether whole
    lost        \* how the program lost track of the stream

device == <<dev, sent, tickets>>
result == <<state, held, ret>>
vars   == <<device, down, up, pc, mode, tries, got, result, handled, lost>>

Ticket == [m |-> [cmd |-> "TICKET", n |-> 0, size |-> 0], u |-> 0]
Pieces(m) == [i \in 1 .. (IF m.size = 0 THEN 2 ELSE 4) |-> [m |-> m, u |-> i]]
Room == [plain |-> 2, tls |-> 1, poll |-> 2, drain |-> 1]

Init ==
    /\ dev = "wait" /\ sent = 0 /\ tickets = 0 /\ down = << >> /\ up = << >>
    /\ pc = "connect" /\ mode = "plain" /\ tries = 0 /\ got = << >>
    /\ state = "connecting" /\ held = {} /\ ret = "none"
    /\ handled = << >> /\ lost = {}

----------------------------------------------------------------------------
(* The device *)

Send(cmd, size, next) ==
    /\ sent < MaxSent /\ sent' = sent + 1 /\ dev' = next
    /\ LET new == Pieces([cmd |-> cmd, n |-> sent + 1, size |-> size])
       IN \/ down' = down \o new /\ UNCHANGED tickets
          \/ /\ "tls" \in held /\ tickets < MaxTickets /\ tickets' = tickets + 1
             /\ \E k \in 1 .. Len(new) + 1 : down' = down \o InsertAt(new, k, Ticket)

Heard(cmd) == up # << >> /\ Head(up) = cmd /\ up' = Tail(up)

(* What adbd sends when it has heard enough to accept the host, or not yet.*)
Answer == Send("AUTH", 1, "auth") \/ \E s \in Sizes : Send("CNXN", s, "online")

(* It may close the connection at any time; what was under way is lost     *)
(* from some piece on.                                                     *)
Device ==
    /\ \/ dev = "wait"   /\ Heard("CNXN") /\ (Answer \/ Send("STLS", 0, "stls"))
       \/ dev = "auth"   /\ Heard("AUTH") /\ Answer
       \/ dev = "tls"    /\ UNCHANGED up /\ (Answer \/ Send("STLS", 0, "again"))
       \/ dev = "again"  /\ Heard("STLS") /\ Answer
       \/ dev = "online" /\ UNCHANGED up /\ \E s \in Sizes : Send("MSG", s, dev)
       \/ dev = "stls"   /\ Heard("STLS") /\ dev' = "hello"
                         /\ UNCHANGED <<sent, tickets, down>>
       \/ /\ dev # "closed" /\ dev' = "closed" /\ UNCHANGED <<sent, tickets, up>>
          /\ \E k \in 0 .. Len(down) : down' = SubSeq(down, 1, k)
    /\ UNCHANGED <<pc, mode, tries, got, result, handled, lost>>

----------------------------------------------------------------------------
(* Setting up, giving up and succeeding *)

(* Seeded fault: adb_disconnect leaves the TLS context. *)
ReleasedButTls(h) == h \ {"fd", "conn"}
Released(h) == h \ {"fd", "tls", "conn"}

Fail ==
    /\ held' = Released(held \ {"payload"})
    /\ ret' = "failed" /\ state' = "disconnected" /\ pc' = "done"

SendCnxn == up' = <<"CNXN">>

(* The socket is closed by session_connect when it cannot be connected.    *)
Connect ==
    /\ pc = "connect"
    /\ \/ /\ ret' = "failed" /\ pc' = "done"
          /\ UNCHANGED <<up, state, held>>
       \/ /\ held' = {"conn", "fd", "payload"} /\ SendCnxn
          /\ state' = "auth_sent" /\ pc' = "select" /\ UNCHANGED ret
       \/ Fail /\ SendCnxn          \* no memory for the payload
    /\ UNCHANGED <<device, down, mode, tries, got, handled, lost>>

(* The end of a turn of either loop of adb_connect. *)
Turn ==
    /\ tries' = tries + 1
    /\ IF tries + 1 = MaxTries THEN Fail
       ELSE pc' = (IF mode = "plain" THEN "select" ELSE "read") /\ UNCHANGED result

(* Seeded fault: a timeout of select does not count as a turn. *)
SelectForever ==
    /\ pc = "select"
    /\ IF down # << >> \/ dev = "closed"
       THEN pc' = "read" /\ UNCHANGED <<tries, result>>
       ELSE pc' = "select" /\ UNCHANGED <<tries, result>>
    /\ got' = << >>
    /\ UNCHANGED <<device, down, up, mode, handled, lost>>
Select ==
    /\ pc = "select"
    /\ IF down # << >> \/ dev = "closed"
       THEN pc' = "read" /\ UNCHANGED <<tries, result>>
       ELSE Turn
    /\ got' = << >>
    /\ UNCHANGED <<device, down, up, mode, handled, lost>>

(* The blocking TLS handshake, once adbd has heard our STLS. *)
TlsHandshake ==
    /\ pc = "tls"
    /\ \/ /\ dev = "hello" /\ dev' = "tls" /\ mode' = "tls" /\ pc' = "read"
          /\ held' = held \cup {"tls"} /\ UNCHANGED <<ret, state, sent, tickets>>
       \/ dev \in {"hello", "closed"} /\ Fail /\ UNCHANGED <<mode, device>>
    /\ tries' = 0 /\ got' = << >>
    /\ UNCHANGED <<down, up, handled, lost>>

----------------------------------------------------------------------------
(* Receiving *)

IsHeader == Len(got) >= 2 /\ got[1].m = got[2].m /\ got[1].u = 1
Misread  == Len(got) = 2 /\ ~(IsHeader /\ got[2].u = 2)     \* wrong magic
TooLarge == IsHeader /\ Len(got) = 2 /\ got[1].m.size > Room[mode]
Whole    == IsHeader /\ got = Pieces(got[1].m)
Reading  == pc = "read" /\ ~Misread /\ ~TooLarge /\ ~Whole

Take ==
    /\ Reading /\ down # << >> /\ down' = Tail(down)
    /\ IF Head(down) = Ticket THEN UNCHANGED got    \* tls_recv tries again
       ELSE got' = Append(got, Head(down))
    /\ UNCHANGED <<device, up, pc, mode, tries, result, handled, lost>>

(* What is done with a message m, whole or as much of it as was received.  *)
(* No signature, no answer to the token; behind TLS a write may be given   *)
(* up.                                                                     *)
Reply(cmd) ==
    up' = Append(up, cmd) \/ ((mode = "tls" \/ cmd = "AUTH") /\ UNCHANGED up)
Handle(m) ==
    /\ handled' = IF m.cmd = "TICKET" THEN handled ELSE Append(handled, [m |-> m, whole |-> Whole])
    /\ got' = << >>
    /\ \/ /\ mode \in {"poll", "drain"} /\ pc' = "idle"
          /\ UNCHANGED <<up, mode, tries, result>>
       \/ /\ mode \in {"plain", "tls"} /\ m.cmd = "CNXN"
          /\ state' = "connected" /\ ret' = "connected" /\ pc' = "idle"
          /\ held' = held \ {"payload"} /\ UNCHANGED <<up, mode, tries>>
       \/ /\ mode = "plain" /\ m.cmd = "STLS"
          /\ Reply("STLS") /\ pc' = "tls" /\ UNCHANGED <<mode, tries, result>>
       \/ /\ \/ mode \in {"plain", "tls"} /\ m.cmd = "AUTH" /\ Reply("AUTH")
             \/ mode = "plain" /\ m.cmd \notin {"CNXN", "STLS"} /\ UNCHANGED up
             \/ mode = "tls" /\ m.cmd = "STLS" /\ Reply("STLS")
             \/ mode = "tls" /\ m.cmd \notin {"CNXN", "STLS"} /\ UNCHANGED up
          /\ Turn /\ UNCHANGED mode

(* adb_connect's loop in the clear leaves a payload of more than 1 MB on   *)
(* the stream and goes on with the message.                                *)
Received ==
    /\ pc = "read" /\ (Whole \/ (mode = "plain" /\ TooLarge))
    /\ Handle(got[1].m)
    /\ lost' = IF TooLarge THEN lost \cup {"skipped"} ELSE lost
    /\ UNCHANGED <<device, down>>

(* The receive fails: wrong magic, no room for the payload, or the end of  *)
(* the connection.                                                         *)
Eof == Reading /\ down = << >> /\ dev = "closed"
ReceiveFails ==
    /\ pc = "read" /\ (Misread \/ (mode # "plain" /\ TooLarge) \/ Eof)
    /\ lost' = IF TooLarge THEN lost \cup {"skipped"} ELSE lost
    /\ CASE mode = "plain" -> Fail /\ UNCHANGED tries
         [] mode = "tls"   -> Turn
         [] OTHER          -> pc' = "idle" /\ UNCHANGED <<tries, result>>
    /\ got' = << >>
    /\ UNCHANGED <<device, down, up, mode, handled>>

Nothing == Ticket.m     \* a header of zeroes, or of no command

(* Seeded fault: adb_connect's header is not zeroed between turns. *)
SeenUnzeroed ==
    IF got # << >> THEN {IF got[1].u = 1 THEN got[1].m ELSE Nothing}
    ELSE IF handled # << >> THEN {Nothing, Last(handled).m}
    ELSE {Nothing}

(* adb_recv_msg_tls returns 0, for a record without data or the peer's     *)
(* closing: what was received is all the caller sees of the message.  The  *)
(* header of adb_connect was zeroed, that of session_poll holds whatever   *)
(* its stack held, the drain loops take only whole messages.               *)
Seen ==
    IF got # << >> THEN {IF got[1].u = 1 THEN got[1].m ELSE Nothing}
    ELSE IF mode = "poll" /\ handled # << >> THEN {Nothing, Last(handled).m}
    ELSE {Nothing}

WantRead ==
    /\ Reading /\ "tls" \in held
    /\ \/ down # << >> /\ Head(down) = Ticket /\ down' = Tail(down)
       \/ Eof /\ UNCHANGED down
    /\ \E m \in (IF mode = "drain" THEN {Nothing} ELSE Seen) : Handle(m)
    /\ lost' = lost \cup (IF got # << >> THEN {"cut"} ELSE {})
                    \cup (IF got = << >> /\ mode = "poll" THEN {"stale"} ELSE {})
    /\ UNCHANGED device

----------------------------------------------------------------------------
(* After the connection *)

(* session_poll and the drain loops read when select says so. *)
ReadAs(reader) ==
    /\ pc = "idle" /\ (down # << >> \/ dev = "closed")
    /\ Len(handled) <= MaxSent          \* bound: a stale header may come again
    /\ pc' = "read" /\ mode' = reader /\ got' = << >>
    /\ UNCHANGED <<device, down, up, tries, result, handled, lost>>
Poll  == ReadAs("poll")
Drain == ReadAs("drain")

adb_disconnect ==
    /\ pc = "idle" /\ pc' = "done"
    /\ held' = Released(held) /\ state' = "disconnected" /\ ret' = "closed"
    /\ UNCHANGED <<device, down, up, mode, tries, got, handled, lost>>

Host ==
    \/ Connect \/ Select \/ TlsHandshake
    \/ Take \/ Received \/ ReceiveFails \/ WantRead

Done == pc = "done" /\ UNCHANGED vars

Next == Host \/ Poll \/ Drain \/ adb_disconnect \/ Device \/ Done

Spec == Init /\ [][Next]_vars /\ WF_vars(Host)

----------------------------------------------------------------------------
(* Every message is acted on whole, once and in the order the device sent  *)
(* them, the connection counting as set up only after a CNXN, unless the   *)
(* program met one of the three things it does not survive: a receive that *)
(* ended inside a message, a payload it had no room for, or session_poll   *)
(* finding no message.  A record without data between two messages is      *)
(* harmless while adb_connect runs.                                        *)
HandledInOrder ==
    lost = {} =>
        /\ \A i \in DOMAIN handled : handled[i].whole /\ handled[i].m.n = i
        /\ state = "connected" =>
              \E i \in DOMAIN handled : handled[i].m.cmd = "CNXN"

(* Whichever way adb_connect returns, the payload buffer is freed; after a *)
(* failure and after adb_disconnect nothing is left, and a connection it   *)
(* hands out has its socket.                                               *)
HeldAtReturn ==
    /\ ret \in {"failed", "closed"} => held = {}
    /\ ret = "connected" => held \ {"tls"} = {"conn", "fd"}

(* adb_connect returns, or it stands for good in a blocking receive or in  *)
(* the TLS handshake with a device that says nothing more: its turns bound *)
(* the timeouts of select, not the receives.                               *)
Starved ==
    \/ Reading /\ down = << >> /\ dev # "closed"
    \/ pc = "tls" /\ dev \notin {"hello", "closed"}
ConnectEnds == <>[](ret # "none" \/ Starved)
=============================================================================
