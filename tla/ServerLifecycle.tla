--------------------------- MODULE ServerLifecycle ---------------------------
(***************************************************************************)
(* The life of the threads, sockets and memory around the server           *)
(* (device/server.c: server_start from the connection on, its cleanup,     *)
(* server_destroy; app/application.c: application_run and                  *)
(* application_destroy; the start and stop of the two pipelines).  The     *)
(* main thread creates four others and takes down what they use, and it    *)
(* waits for each of them only so long.                                    *)
(*                                                                         *)
(* What AdbRelay models in detail is abstract here: a message from the     *)
(* device opens a channel, puts data into a socketpair or does neither.    *)
(* A socketpair is the number of payloads in it and its two ends.          *)
(***************************************************************************)
EXTENDS Naturals

CONSTANTS
    MaxMessages,    \* bound: messages the reader gets from the device
    MaxControl      \* bound: control messages the program writes

ASSUME BoundsAssumption == MaxMessages \in Nat /\ MaxControl \in Nat

Kinds   == {"video", "audio", "control"}
Threads == {"reader", "sender", "video", "audio"}
Objects == {"reader", "connection", "video decoder", "audio decoder"}
Ends    == Kinds \X {"read", "write"}

VARIABLES
    main,       \* where the main thread is
    wanted,     \* the streams asked for: video, options.audio, options.control
    started,    \* did server_start succeed?
    pc,         \* pc[t]: where thread t is
    running,    \* the threads whose running flag is set
    gaveUp,     \* the threads the main thread stopped waiting for
    link,       \* the connection: "none", "up", "broken" or "closed"
    open,       \* the streams whose channel is CHAN_OPEN
    data,       \* data[k]: payloads in the socketpair of kind k
    created,    \* the ends of the socketpairs there are
    half,       \* the first end of a socketpair that got no second one
    shut,       \* the ends that were shut down
    closes,     \* closes[e]: how often end e was closed
    memory,     \* memory[o]: "none", "live" or "freed"
    messages, written   \* messages received, control messages written

flags   == <<running, gaveUp>>
adb     == <<link, open, messages>>
sockets == <<created, half, shut, closes>>
vars    == <<main, wanted, started, pc, flags, adb, data, sockets, memory, written>>

(* application_init has succeeded. *)
Init ==
    /\ main = "start" /\ started = FALSE
    /\ wanted \in {{"video"} \cup o : o \in SUBSET {"audio", "control"}}
    /\ pc = [t \in Threads |-> "none"]
    /\ running = {} /\ gaveUp = {}
    /\ link = "none" /\ open = {} /\ messages = 0 /\ written = 0
    /\ data = [k \in Kinds |-> 0]
    /\ created = {} /\ half = {} /\ shut = {}
    /\ closes = [e \in Ends |-> 0]
    /\ memory = [o \in Objects |->
                   IF o \in {"reader", "connection"} THEN "none" ELSE "live"]

Goto(from, to) == main = from /\ main' = to
Live(o)  == memory' = [memory EXCEPT ![o] = "live"]
Freed(os) ==
    memory' = [o \in Objects |->
                 IF o \in os /\ memory[o] = "live" THEN "freed" ELSE memory[o]]
Closed(es) == closes' = [e \in Ends |-> closes[e] + (IF e \in es THEN 1 ELSE 0)]
PairOf(ks) == ks \X {"read", "write"}
Over(t) == pc[t] \in {"none", "done"}

----------------------------------------------------------------------------
(* The main thread in server_start *)

(* adb_connect may fail; so may the push, the shell or an OPEN after it.   *)
Connect ==
    /\ \/ Goto("start", "destroy") /\ UNCHANGED <<link, memory>>
       \/ /\ Goto("start", "failed") \/ Goto("start", "pairs")
          /\ link' = "up" /\ Live("connection")
    /\ UNCHANGED <<wanted, started, pc, flags, open, messages, data, sockets, written>>

(* The socketpairs, in this order; the first that fails ends the start.    *)
(* create_socketpair may have made, and closed, its first end by then.     *)
Position == [video |-> 1, audio |-> 2, control |-> 3]
MakePairs ==
    \E n \in 0 .. 3 :
        LET made  == {k \in wanted : Position[k] <= n}
            first == {k \in wanted : Position[k] = n + 1} \X {"read"}
        IN  /\ created' = PairOf(made)
            /\ half' \in {{}, first} /\ Closed(half')
            /\ Goto("pairs", IF made = wanted THEN "threads" ELSE "failed")
            /\ UNCHANGED <<wanted, started, pc, flags, adb, data, shut, memory, written>>

(* Nobody looks at whether the threads could be created. *)
StartThreads ==
    /\ \/ Goto("threads", "failed") /\ UNCHANGED <<pc, running, memory>>
       \/ /\ Goto("threads", "video") /\ Live("reader")
          /\ running' = {"reader"}
          /\ \E r \in {"recv", "none"}, s \in {"test", "none"} :
                pc' = [pc EXCEPT !["reader"] = r, !["sender"] =
                         IF "control" \in wanted THEN s ELSE "none"]
    /\ UNCHANGED <<wanted, started, gaveUp, adb, data, sockets, written>>

(* Each wait for a channel ends after 30 s; only video is indispensable.   *)
After == [video |-> "audio", audio |-> "control", control |-> "metadata"]
Wait(k) ==
    /\ \/ k \in open \cup (Kinds \ wanted) /\ Goto(k, After[k])
       \/ /\ k \in wanted \ open
          /\ Goto(k, IF k = "video" THEN "failed" ELSE After[k])
    /\ UNCHANGED <<wanted, started, pc, flags, adb, data, sockets, memory, written>>

Take(k) == data[k] > 0 /\ data' = [data EXCEPT ![k] = @ - 1]

(* The video stream's metadata, read without a limit; then all is handed   *)
(* over to srv, except the control sender and the write ends of audio and  *)
(* control.                                                                *)
ReadMetadata ==
    /\ Goto("metadata", "audio metadata") /\ Take("video")
    /\ started' = TRUE
    /\ UNCHANGED <<wanted, pc, flags, adb, sockets, memory, written>>

----------------------------------------------------------------------------
(* The main thread in application_run *)

(* The codec of the audio stream, read whenever the socket exists.         *)
ReadAudioMetadata ==
    /\ Goto("audio metadata", "decoder")
    /\ IF "audio" \in wanted THEN Take("audio") ELSE UNCHANGED data
    /\ UNCHANGED <<wanted, started, pc, flags, adb, sockets, memory, written>>

InitVideoDecoder ==
    /\ Goto("decoder", "pipelines") \/ Goto("decoder", "stop reader")
    /\ UNCHANGED <<wanted, started, pc, flags, adb, data, sockets, memory, written>>

(* video_pipeline_start and audio_pipeline_start; a thread may not start.  *)
StartPipelines ==
    /\ Goto("pipelines", "loop")
    /\ \E new \in SUBSET (wanted \ {"control"}) :
          /\ pc' = [t \in Threads |-> IF t \in new THEN "test" ELSE pc[t]]
          /\ running' = running \cup new
    /\ UNCHANGED <<wanted, started, gaveUp, adb, data, sockets, memory, written>>

WriteControl ==
    /\ main = "loop" /\ "control" \in wanted /\ written < MaxControl
    /\ written' = written + 1
    /\ data' = [data EXCEPT !["control"] = @ + 1]
    /\ UNCHANGED <<main, wanted, started, pc, flags, adb, sockets, memory>>

(* The window is closed: server_kill, script_engine_stop.                  *)
Quit ==
    /\ Goto("loop", "stop video")
    /\ UNCHANGED <<wanted, started, pc, flags, adb, data, sockets, memory, written>>

Next2 == [video |-> "stop audio", audio |-> "stop reader"]
JoinOf == [video |-> "join video", audio |-> "join audio"]
StopOf == [video |-> "stop video", audio |-> "stop audio"]

(* video_pipeline_stop, audio_pipeline_stop: the flag, the socket, and a   *)
(* wait of 3 s or 2 s.                                                     *)
StopPipeline(k) ==
    /\ running' = running \ {k}
    /\ IF pc[k] = "none" THEN Goto(StopOf[k], Next2[k]) /\ UNCHANGED shut
       ELSE Goto(StopOf[k], JoinOf[k]) /\ shut' = shut \cup {<<k, "read">>}
    /\ UNCHANGED <<wanted, started, pc, gaveUp, adb, data, created, half, closes,
                   memory, written>>

JoinPipeline(k) ==
    /\ Goto(JoinOf[k], Next2[k])
    /\ gaveUp' = gaveUp \cup (IF Over(k) THEN {} ELSE {k})
    /\ UNCHANGED <<wanted, started, pc, running, adb, data, sockets, memory, written>>

----------------------------------------------------------------------------
(* The main thread in server_destroy, and in the cleanup of server_start   *)

StopReader ==
    /\ Goto("stop reader", "join reader") \/ Goto("failed", "join reader")
    /\ running' = running \ {"reader"}
    /\ UNCHANGED <<wanted, started, pc, gaveUp, adb, data, sockets, memory, written>>

JoinReaderWithoutLimit ==   \* Seeded fault: the wait for the reader has no limit.
    /\ Over("reader")
    /\ Goto("join reader", IF started THEN "free" ELSE "join sender")
    /\ UNCHANGED <<wanted, started, pc, running, gaveUp, adb, data, sockets, memory,
                   written>>

SkipJoinReader ==   \* Seeded fault: nobody waits for the reader.
    /\ Goto("join reader", IF started THEN "free" ELSE "join sender")
    /\ UNCHANGED <<wanted, started, pc, running, gaveUp, adb, data, sockets, memory,
                   written>>

(* 3 s each; only the cleanup waits for the control sender. *)
JoinReader ==
    /\ Goto("join reader", IF started THEN "free" ELSE "join sender")
    /\ gaveUp' = gaveUp \cup (IF Over("reader") THEN {} ELSE {"reader"})
    /\ UNCHANGED <<wanted, started, pc, running, adb, data, sockets, memory, written>>

JoinSender ==
    /\ Goto("join sender", "free")
    /\ gaveUp' = gaveUp \cup (IF Over("sender") THEN {} ELSE {"sender"})
    /\ UNCHANGED <<wanted, started, pc, running, adb, data, sockets, memory, written>>

FreeReader ==
    /\ Goto("free", "close")
    /\ Freed({"reader"})
    /\ UNCHANGED <<wanted, started, pc, flags, adb, data, sockets, written>>

CloseAlways ==   \* Seeded fault: the cleanup closes what srv has taken over.
    /\ Goto("close", "disconnect")
    /\ Closed(created)
    /\ UNCHANGED <<wanted, started, pc, flags, adb, data, created, half, shut, memory,
                   written>>

(* server_destroy closes the one end srv owns, the cleanup every end, and  *)
(* the half socketpair's once more: its number is still in sp.             *)
Close ==
    /\ Goto("close", "disconnect")
    /\ Closed(IF started THEN {<<"video", "write">>} ELSE created \cup half)
    /\ UNCHANGED <<wanted, started, pc, flags, adb, data, created, half, shut, memory,
                   written>>

(* adb_disconnect.  The CLSE that session_disconnect sends for each channel*)
(* before it closes the socket is taken to return, though send has no      *)
(* limit: a device that no longer reads could hold the main thread here.   *)
Disconnect ==
    /\ Goto("disconnect", "destroy")
    /\ link' = "closed" /\ Freed({"connection"})
    /\ UNCHANGED <<wanted, started, pc, flags, open, messages, data, sockets, written>>

----------------------------------------------------------------------------
(* The main thread in application_destroy *)

DestroyDecoders ==
    /\ Goto("destroy", "sockets")
    /\ Freed({"video decoder", "audio decoder"})
    /\ UNCHANGED <<wanted, started, pc, flags, adb, data, sockets, written>>

CloseSocketsButControl ==   \* Seeded fault: the control socket is forgotten.
    /\ Goto("sockets", "end")
    /\ Closed({e \in created : e[2] = "read" /\ e[1] # "control"})
    /\ UNCHANGED <<wanted, started, pc, flags, adb, data, created, half, shut, memory,
                   written>>

(* Every read end there ever was: video_sock.fd and the others keep the    *)
(* value server_start gave them, also when it failed and closed them.      *)
CloseSockets ==
    /\ Goto("sockets", "end")
    /\ Closed({e \in created : e[2] = "read"})
    /\ UNCHANGED <<wanted, started, pc, flags, adb, data, created, half, shut, memory,
                   written>>

Main ==
    \/ Connect \/ MakePairs \/ StartThreads \/ (\E k \in Kinds : Wait(k))
    \/ ReadMetadata \/ ReadAudioMetadata \/ InitVideoDecoder \/ StartPipelines
    \/ \E k \in {"video", "audio"} : StopPipeline(k) \/ JoinPipeline(k)
    \/ StopReader \/ JoinReader \/ JoinSender \/ FreeReader \/ Close \/ Disconnect
    \/ DestroyDecoders \/ CloseSockets

----------------------------------------------------------------------------
(* The other threads *)

Step(t, from, to) == pc[t] = from /\ pc' = [pc EXCEPT ![t] = to]

(* What a thread finds in reader->running: anything, once it is freed.     *)
RunningRead ==
    IF memory["reader"] = "freed" THEN BOOLEAN ELSE {"reader" \in running}

ReaderReceives ==
    /\ link = "up" /\ messages < MaxMessages /\ Step("reader", "recv", "busy")
    /\ messages' = messages + 1
    /\ UNCHANGED <<main, wanted, started, flags, link, open, data, sockets, memory, written>>

(* An OKAY, data, or something else; then the flag is looked at.           *)
ReaderHandles ==
    /\ \E on \in RunningRead : Step("reader", "busy", IF on THEN "recv" ELSE "exit")
    /\ \/ \E k \in wanted \ open : open' = open \cup {k} /\ UNCHANGED data
       \/ \E k \in open \ {"control"} : data' = [data EXCEPT ![k] = @ + 1]
                                          /\ UNCHANGED open
       \/ UNCHANGED <<open, data>>
    /\ UNCHANGED <<main, wanted, started, flags, link, messages, sockets, memory, written>>

ReaderFails ==
    /\ link \in {"broken", "closed"} /\ Step("reader", "recv", "exit")
    /\ UNCHANGED <<main, wanted, started, flags, adb, data, sockets, memory, written>>

ReaderExits ==
    /\ Step("reader", "exit", "done")
    /\ running' = running \ {"reader"}
    /\ UNCHANGED <<main, wanted, started, gaveUp, adb, data, sockets, memory, written>>

Reader == ReaderReceives \/ ReaderHandles \/ ReaderFails \/ ReaderExits

(* recv on the read end of kind k, or on the control sender's end.         *)
Ended(own, peer) ==
    own \in shut \/ closes[own] > 0 \/ closes[peer] > 0

SenderTests ==
    /\ \E on \in RunningRead : Step("sender", "test", IF on THEN "recv" ELSE "done")
    /\ UNCHANGED <<main, wanted, started, flags, adb, data, sockets, memory, written>>

SenderReceives ==
    /\ \/ Step("sender", "recv", "busy") /\ Take("control")
          /\ closes[<<"control", "write">>] = 0
       \/ /\ Step("sender", "recv", "done") /\ UNCHANGED data
          /\ Ended(<<"control", "write">>, <<"control", "read">>)
    /\ UNCHANGED <<main, wanted, started, flags, adb, sockets, memory, written>>

SenderSends ==
    /\ Step("sender", "busy", "test")
    /\ UNCHANGED <<main, wanted, started, flags, adb, data, sockets, memory, written>>

Sender == SenderTests \/ SenderReceives \/ SenderSends

PipelineTests(k) ==
    /\ Step(k, "test", IF k \in running THEN "recv" ELSE "done")
    /\ UNCHANGED <<main, wanted, started, flags, adb, data, sockets, memory, written>>

(* A packet the audio thread cannot take ends it as well. *)
PipelineReceives(k) ==
    /\ \/ /\ Take(k) /\ ~ Ended(<<k, "read">>, <<k, "read">>)
          /\ Step(k, "recv", "decode") \/ (k = "audio" /\ Step(k, "recv", "done"))
       \/ /\ Ended(<<k, "read">>, <<k, "write">>)
          /\ Step(k, "recv", "done") /\ UNCHANGED data
    /\ UNCHANGED <<main, wanted, started, flags, adb, sockets, memory, written>>

PipelineDecodes(k) ==
    /\ Step(k, "decode", "test")
    /\ UNCHANGED <<main, wanted, started, flags, adb, data, sockets, memory, written>>

Pipeline(k) == PipelineTests(k) \/ PipelineReceives(k) \/ PipelineDecodes(k)

(* The connection is lost. *)
Break ==
    /\ link = "up" /\ link' = "broken"
    /\ UNCHANGED <<main, wanted, started, pc, flags, open, messages, data, sockets,
                   memory, written>>

Next ==
    \/ Main \/ WriteControl \/ Quit
    \/ Reader \/ Sender \/ (\E k \in {"video", "audio"} : Pipeline(k)) \/ Break

(* Every thread is scheduled, and the main thread's waits have a limit,    *)
(* except for the two reads of metadata.  The device owes no message and   *)
(* the user need not quit.                                                 *)
Fairness ==
    /\ WF_vars(Main) /\ WF_vars(Reader) /\ WF_vars(Sender)
    /\ \A k \in {"video", "audio"} : WF_vars(Pipeline(k))

Spec == Init /\ [][Next]_vars /\ Fairness
----------------------------------------------------------------------------
(* Properties *)

TypeOK ==
    /\ main \in {"start", "pairs", "threads", "video", "audio", "control", "metadata",
                 "audio metadata", "decoder", "pipelines", "loop", "stop video",
                 "join video", "stop audio", "join audio", "stop reader", "failed",
                 "join reader", "join sender", "free", "close", "disconnect",
                 "destroy", "sockets", "end"}
    /\ wanted \subseteq Kinds /\ started \in BOOLEAN
    /\ pc \in [Threads -> {"none", "test", "recv", "busy", "decode", "exit", "done"}]
    /\ running \subseteq Threads /\ gaveUp \subseteq Threads
    /\ link \in {"none", "up", "broken", "closed"} /\ open \subseteq wanted
    /\ data \in [Kinds -> Nat] /\ messages \in Nat /\ written \in Nat
    /\ created \subseteq Ends /\ half \subseteq Ends /\ shut \subseteq created
    /\ closes \in [Ends -> Nat]
    /\ memory \in [Objects -> {"none", "live", "freed"}]

(* What a thread will still touch from where it is.  The control sender    *)
(* that is blocked in recv touches nothing if recv fails.                  *)
Uses(t) ==
    CASE t = "reader" /\ pc[t] \in {"recv", "busy"} -> {"reader", "connection"}
      [] t = "reader" /\ pc[t] = "exit"             -> {"reader"}
      [] t = "sender" /\ pc[t] \in {"test", "busy"} -> {"reader", "connection"}
      [] t = "video"  /\ pc[t] = "decode"           -> {"video decoder"}
      [] t = "audio"  /\ pc[t] = "decode"           -> {"audio decoder"}
      [] OTHER -> {}

(* Nothing a thread will still touch is freed, wherever the start failed   *)
(* or the window was closed -- unless the main thread gave up waiting for  *)
(* it.  After a successful start nobody waits for the control sender.      *)
FreedAlone ==
    \A t \in Threads \ gaveUp : \A o \in Uses(t) :
        memory[o] = "freed" => t = "sender" /\ started

(* In the end every end of a socketpair was closed, and none more often    *)
(* than once.  Two kinds are exempt: after a failed start a read end is    *)
(* closed a second time, by application_destroy or, if create_socketpair   *)
(* had closed it, by the cleanup; after a successful one the write ends of *)
(* audio and control are left to the end of the process.                   *)
EndsClosed ==
    /\ \A e \in Ends : closes[e] > 1 => ~started /\ e[2] = "read" /\ closes[e] = 2
    /\ main = "end" => \A e \in created :
          closes[e] = 0 => started /\ e \in {<<"audio", "write">>, <<"control", "write">>}

(* Once server_kill has returned after the window was closed, the program  *)
(* ends, whether the device answers or not: no wait of the teardown is for *)
(* ever.                                                                   *)
ShutdownEnds == (main = "stop video") ~> (main = "end")

(* No thread outlives the teardown for long: each is woken by what is shut *)
(* down or closed, however it was blocked.                                 *)
ThreadsEnd == (main = "end") ~> (\A t \in Threads : Over(t))
=============================================================================
