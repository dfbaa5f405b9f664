---------------------------- MODULE StreamFraming ----------------------------
(***************************************************************************)
(* Cutting the relayed byte streams back into packets:                     *)
(* video_socket_read_packet, audio_socket_read_packet and                  *)
(* demuxer_recv_packet.  They share one shape: a header of 12 bytes, from  *)
(* it the length of the payload, then the payload, each read in as many    *)
(* recvs as the network makes it.  The video reader starts with the bytes  *)
(* server_start left pending when it looked for a session header and found *)
(* the header of a packet.  Only the audio reader has a caller, the loop of*)
(* audio_thread_func; the other two are modelled as the functions they are.*)
(*                                                                         *)
(* A stream is a sequence of pieces, the smallest unit a recv returns: two *)
(* of a header and some of a payload, each naming its packet.              *)
(***************************************************************************)
EXTENDS Naturals, Sequences, SequencesExt

CONSTANTS
    MaxPackets,     \* bound: packets the server sends
    MaxSize         \* bound: pieces of a payload

ASSUME FramingAssumption == MaxPackets \in Nat /\ MaxSize \in Nat

TooLarge == MaxSize + 1     \* stands for a size the reader refuses

VARIABLES
    reader,     \* "video", "audio" or "demuxer"
    stream,     \* the pieces on their way
    closed,     \* has the other end closed?
    sent,       \* the number of packets sent
    pending,    \* sock->pending
    pc,         \* "meta", "header", "payload" or "failed"
    buf,        \* the pieces read of the current header or payload
    header,     \* the packet whose header was read
    out,        \* the packets handed to the caller, with their payloads
    size,       \* sock->width, by the packet it comes from; 0 the codec block
    dropped     \* was there no memory for the pending bytes?

wire == <<stream, closed, sent>>
vars == <<reader, wire, pending, pc, buf, header, out, size, dropped>>

Packet(n, kind, len) == [n |-> n, kind |-> kind, len |-> len]
NoPacket == Packet(0, "none", 0)
Header(p)  == [i \in 1 .. 2 |-> [p |-> p, i |-> i]]
Payload(p) == [i \in 1 .. p.len |-> [p |-> p, i |-> i + 2]]
OnWire(p)  == Header(p) \o (IF p.kind = "media" THEN Payload(p) ELSE << >>)

Init ==
    /\ reader \in {"video", "audio", "demuxer"}
    /\ pc = (IF reader = "video" THEN "meta" ELSE "header")
    /\ stream = << >> /\ closed = FALSE /\ sent = 0 /\ pending = << >>
    /\ buf = << >> /\ header = NoPacket /\ out = << >> /\ size = 0
    /\ dropped = FALSE

----------------------------------------------------------------------------
(* The other end of the socket *)

(* A session packet is a header without payload whose last field is a      *)
(* height; only the video stream has them.                                 *)
SendPacket ==
    /\ ~closed /\ sent < MaxPackets /\ sent' = sent + 1
    /\ \E kind \in (IF reader = "video" THEN {"session", "media"} ELSE {"media"}),
         len \in 0 .. (IF reader = "demuxer" THEN MaxSize ELSE TooLarge) :
           stream' = stream \o OnWire(Packet(sent + 1, kind, len))
    /\ UNCHANGED <<reader, closed, pending, pc, buf, header, out, size, dropped>>

Close ==
    /\ ~closed /\ closed' = TRUE
    /\ \E k \in 0 .. Len(stream) : stream' = SubSeq(stream, 1, k)
    /\ UNCHANGED <<reader, sent, pending, pc, buf, header, out, size, dropped>>

----------------------------------------------------------------------------
(* recv_all and recv_all_pending *)

WantOneMore ==   \* Seeded fault: the length of a payload is off by one.
    IF pc = "payload" THEN header.len + 1 ELSE 2

Want == IF pc = "payload" THEN header.len ELSE 2
Receiving == pc # "failed" /\ Len(buf) < Want

TakePending ==
    /\ Receiving /\ pending # << >>
    /\ LET take == IF Len(pending) < Want THEN Len(pending) ELSE Want
       IN /\ buf' = SubSeq(pending, 1, take)
          /\ pending' = SubSeq(pending, take + 1, Len(pending))
    /\ UNCHANGED <<reader, wire, pc, header, out, size, dropped>>

Recv ==
    /\ Receiving /\ pending = << >>
    /\ \E k \in 1 .. Len(stream) :
          /\ Len(buf) + k <= Want
          /\ buf' = buf \o SubSeq(stream, 1, k)
          /\ stream' = SubSeq(stream, k + 1, Len(stream))
    /\ UNCHANGED <<reader, closed, sent, pending, pc, header, out, size, dropped>>

Deliver(p, data) ==
    /\ out' = Append(out, [p |-> p, data |-> data])
    /\ pc' = "header" /\ buf' = << >>

RecvEndsShort ==   \* Seeded fault: the end of the stream ends a payload.
    /\ Receiving /\ pending = << >> /\ stream = << >> /\ closed /\ pc = "payload"
    /\ Deliver(header, buf) /\ UNCHANGED <<reader, wire, pending, header, size, dropped>>

(* recv returns 0 or fails: a payload read in part is freed. *)
Fail == pc' = "failed" /\ buf' = << >> /\ UNCHANGED <<header, out, size>>
RecvFails ==
    /\ Receiving /\ pending = << >> /\ stream = << >> /\ closed
    /\ Fail /\ UNCHANGED <<reader, wire, pending, dropped>>

----------------------------------------------------------------------------
(* What is done with twelve bytes, and with a payload *)

(* server_start: a session header is skipped, anything else kept pending.  *)
Metadata ==
    /\ pc = "meta" /\ Len(buf) = 2 /\ pc' = "header" /\ buf' = << >>
    /\ IF buf[1].p.kind = "session"
       THEN out' = <<[p |-> buf[1].p, data |-> << >>]>> /\ UNCHANGED <<pending, dropped>>
       ELSE \/ pending' = buf /\ UNCHANGED <<out, dropped>>
            \/ dropped' = TRUE /\ UNCHANGED <<out, pending>>
    /\ UNCHANGED <<reader, wire, header, size>>

(* The packet a header tells of; one read out of step tells anything.      *)
Told ==
    IF buf = Header(buf[1].p) THEN {buf[1].p}
    ELSE {Packet(0, kind, len) : kind \in {"session", "media"}, len \in 0 .. TooLarge}

NoPayload(p) == p.len = 0 \/ (reader = "video" /\ p.kind = "session")

HeaderRead ==
    /\ pc = "header" /\ Len(buf) = 2
    /\ Len(out) < MaxPackets         \* bound, for what is read out of step
    /\ \E p \in Told :
          \/ /\ NoPayload(p) /\ Deliver(p, << >>) /\ header' = p
             /\ size' = IF p.kind = "session" /\ p.len > 0 THEN p.n ELSE size
          \/ /\ ~NoPayload(p) /\ p.len <= MaxSize
             /\ pc' = "payload" /\ buf' = << >> /\ header' = p
             /\ UNCHANGED <<out, size>>
          \/ ~NoPayload(p) /\ Fail      \* too large, or no memory
    /\ UNCHANGED <<reader, wire, pending, dropped>>

PayloadRead ==
    /\ pc = "payload" /\ Len(buf) = Want
    /\ Deliver(header, buf)
    /\ UNCHANGED <<reader, wire, pending, header, size, dropped>>

Reader ==
    \/ TakePending \/ Recv \/ RecvFails
    \/ Metadata \/ HeaderRead \/ PayloadRead

Next == SendPacket \/ Close \/ Reader

(* The audio thread calls its reader until it fails; nothing calls the     *)
(* other two.                                                              *)
Spec == Init /\ [][Next]_vars /\ WF_vars(reader = "audio" /\ Reader)

----------------------------------------------------------------------------
(* However the network splits the stream and wherever it ends, the packets *)
(* handed to the caller are the first ones the server sent, in order and   *)
(* each with its own payload and nothing else, unless server_start had no  *)
(* memory to keep the header it had read.                                  *)
PacketsAsSent ==
    ~dropped =>
        \A i \in DOMAIN out :
            /\ out[i].p.n = i
            /\ out[i].data = IF out[i].p.kind = "media" THEN Payload(out[i].p)
                             ELSE << >>

(* Every packet of sound sent reaches the audio thread, unless the reader  *)
(* failed: it does not wait for bytes that belong to no packet             *)
(* (audio_socket_read_packet, audio_thread_func).                          *)
AllRead == reader = "audio" => <>[](pc = "failed" \/ Len(out) = sent)
=============================================================================
