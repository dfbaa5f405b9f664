---------------------------- MODULE SharedFrame ----------------------------
(***************************************************************************)
(* The one-slot mailbox through which the video thread hands decoded       *)
(* frames to the main thread (pipeline/pipeline.h), with its two users:    *)
(* the loop of video_thread_func (pipeline/video_pipeline.c) and the idle  *)
(* branch, the frame-capture query and the shutdown of the main thread     *)
(* (app/application.c).                                                    *)
(*                                                                         *)
(* Each Interlocked operation, each free and each plain access to          *)
(* sf->current is a step of its own: the mailbox has no lock.  A frame is  *)
(* its number in decoding order; 0 is NULL.  heap says what became of the  *)
(* block of memory behind each frame.                                      *)
(***************************************************************************)
EXTENDS Naturals

CONSTANTS
    MaxFrames,      \* bound: how many frames the decoder returns
    Sizes,          \* the dimensions a frame can have
    ScriptEnabled   \* app->script_enabled: are there frame-capture queries?

ASSUME MaxFramesAssumption == MaxFrames \in Nat
ASSUME ScriptEnabledAssumption == ScriptEnabled \in BOOLEAN

Frames == 1 .. MaxFrames

VARIABLES
    current,    \* sf->current
    ready,      \* sf->ready
    heap,       \* heap[f]: "unused", "live" or "freed"
    size,       \* size[f]: the dimensions of frame f
    decoded,    \* how many frames the decoder has returned
    published,  \* the last frame that became sf->current
    ppc,        \* where the video thread is
    mine,       \* the frame the video thread is about to submit
    old,        \* the frame the video thread swapped out
    running,    \* vp->running
    cpc,        \* where the main thread is
    purpose,    \* what the main thread acquires a frame for
    taken,      \* the frame the main thread owns
    seen,       \* the last frame the main thread acquired
    shown,      \* the last frame rendered
    deviceSize, \* app->device_width and app->device_height
    timedOut    \* did the wait for the video thread give up?

slot     == <<current, ready>>
memory   == <<heap, size, decoded>>
producer == <<ppc, mine, old, published>>
consumer == <<cpc, purpose, taken, seen, shown, deviceSize>>
stopping == <<running, timedOut>>
vars     == <<slot, memory, producer, consumer, stopping>>

Init ==
    /\ current = 0 /\ ready = 0
    /\ heap = [f \in Frames |-> "unused"]
    /\ size \in [Frames -> Sizes]
    /\ decoded = 0 /\ published = 0
    /\ ppc = "test" /\ mine = 0 /\ old = 0
    /\ running = TRUE /\ timedOut = FALSE
    /\ cpc = "loop" /\ purpose = "render" /\ taken = 0
    /\ seen = 0 /\ shown = 0
    /\ deviceSize \in Sizes

Free(h, f) == IF f = 0 THEN h ELSE [h EXCEPT ![f] = "freed"]

----------------------------------------------------------------------------
(* The video thread *)

(* while (vp->running) *)
TestRunning ==
    /\ ppc = "test"
    /\ ppc' = IF running THEN "recv" ELSE "done"
    /\ UNCHANGED <<slot, memory, mine, old, published, consumer, stopping>>

(* recv returned bytes that complete a frame, and it was wrapped in a      *)
(* frame_data_t.  vp->running may have been cleared in the meantime.       *)
Decode ==
    /\ ppc = "recv" /\ decoded < MaxFrames
    /\ decoded' = decoded + 1
    /\ mine' = decoded + 1
    /\ heap' = [heap EXCEPT ![decoded + 1] = "live"]
    /\ ppc' = "swap"
    /\ UNCHANGED <<slot, size, old, published, consumer, stopping>>

(* The decoder returned a frame but there was no memory for its wrapper:   *)
(* the thread frees it and goes on.                                        *)
DecodeUnwrapped ==
    /\ ppc = "recv" /\ decoded < MaxFrames
    /\ decoded' = decoded + 1
    /\ heap' = [heap EXCEPT ![decoded + 1] = "freed"]
    /\ ppc' = "test"
    /\ UNCHANGED <<slot, size, mine, old, published, consumer, stopping>>

(* recv returned bytes that complete no frame. *)
DecodeNothing ==
    /\ ppc = "recv"
    /\ ppc' = "test"
    /\ UNCHANGED <<slot, memory, mine, old, published, consumer, stopping>>

(* recv failed or the stream ended: the device closed it, or the main      *)
(* thread shut the socket down.                                            *)
StopReading ==
    /\ ppc = "recv"
    /\ ppc' = "done"
    /\ UNCHANGED <<slot, memory, mine, old, published, consumer, stopping>>

(* Seeded fault: a full slot keeps its frame and the new one is dropped. *)
SubmitSwapDropsNewest ==
    /\ ppc = "swap"
    /\ IF current = 0 THEN current' = mine /\ old' = 0
                      ELSE current' = current /\ old' = mine
    /\ published' = mine /\ mine' = 0
    /\ ppc' = "ready"
    /\ UNCHANGED <<ready, memory, consumer, stopping>>

(* shared_frame_submit: exchange the pointer ... *)
SubmitSwap ==
    /\ ppc = "swap"
    /\ old' = current /\ current' = mine /\ published' = mine /\ mine' = 0
    /\ ppc' = "ready"
    /\ UNCHANGED <<ready, memory, consumer, stopping>>

(* Seeded fault: the flag is toggled instead of set. *)
SubmitReadyToggles ==
    /\ ppc = "ready"
    /\ ready' = 1 - ready
    /\ ppc' = "free"
    /\ UNCHANGED <<current, memory, mine, old, published, consumer, stopping>>

(* Seeded fault: the flag is incremented instead of set. *)
SubmitReadyCounts ==
    /\ ppc = "ready"
    /\ ready' = ready + 1
    /\ ppc' = "free"
    /\ UNCHANGED <<current, memory, mine, old, published, consumer, stopping>>

(* ... then raise the flag ... *)
SubmitReady ==
    /\ ppc = "ready"
    /\ ready' = 1
    /\ ppc' = "free"
    /\ UNCHANGED <<current, memory, mine, old, published, consumer, stopping>>

(* ... then free the frame nobody took. *)
SubmitFree ==
    /\ ppc = "free"
    /\ heap' = Free(heap, old)
    /\ old' = 0
    /\ ppc' = "test"
    /\ UNCHANGED <<slot, size, decoded, mine, published, consumer, stopping>>

Producer == TestRunning \/ Decode \/ DecodeUnwrapped \/ DecodeNothing
              \/ StopReading \/ SubmitSwap \/ SubmitReady \/ SubmitFree

----------------------------------------------------------------------------
(* The main thread *)

(* No window message is pending: the idle branch tries to get a frame. *)
Idle ==
    /\ cpc = "loop"
    /\ cpc' = "test" /\ purpose' = "render"
    /\ UNCHANGED <<slot, memory, producer, taken, seen, shown, deviceSize,
                   stopping>>

(* shared_frame_acquire: lower the flag, or return NULL if it is down.     *)
AcquireTest ==
    /\ cpc = "test"
    /\ ready' = 0
    /\ cpc' = IF ready = 1 THEN "take" ELSE "script"
    /\ UNCHANGED <<current, memory, producer, purpose, taken, seen, shown,
                   deviceSize, stopping>>

(* Seeded fault: the pointer is read but left in the slot. *)
AcquireTakeLeavesPointer ==
    /\ cpc = "take"
    /\ taken' = current
    /\ seen' = IF current = 0 THEN seen ELSE current
    /\ cpc' = IF current = 0 THEN "script" ELSE "use"
    /\ UNCHANGED <<slot, memory, producer, purpose, shown, deviceSize,
                   stopping>>

(* ... then take the pointer, which may be NULL all the same.              *)
AcquireTake ==
    /\ cpc = "take"
    /\ taken' = current /\ current' = 0
    /\ seen' = IF current = 0 THEN seen ELSE current
    /\ cpc' = IF current = 0 THEN "script" ELSE "use"
    /\ UNCHANGED <<ready, memory, producer, purpose, shown, deviceSize,
                   stopping>>

(* Render the frame, after following a change of its dimensions; free it.  *)
Render ==
    /\ cpc = "use" /\ purpose = "render"
    /\ deviceSize' = IF size[taken] # deviceSize THEN size[taken]
                                                 ELSE deviceSize
    /\ shown' = taken
    /\ heap' = Free(heap, taken) /\ taken' = 0
    /\ cpc' = "script"
    /\ UNCHANGED <<slot, size, decoded, producer, purpose, seen, stopping>>

(* script_process_messages finds a frame-capture query in the queue.       *)
CaptureQuery ==
    /\ ScriptEnabled
    /\ cpc = "script"
    /\ cpc' = "test" /\ purpose' = "capture"
    /\ UNCHANGED <<slot, memory, producer, taken, seen, shown, deviceSize,
                   stopping>>

(* on_script_query_frame_capture copies the frame and frees it. *)
Capture ==
    /\ cpc = "use" /\ purpose = "capture"
    /\ heap' = Free(heap, taken) /\ taken' = 0
    /\ cpc' = "script"
    /\ UNCHANGED <<slot, size, decoded, producer, purpose, seen, shown,
                   deviceSize, stopping>>

(* No script message is left: back to the head of the main loop. *)
ScriptDone ==
    /\ cpc = "script"
    /\ cpc' = "loop"
    /\ UNCHANGED <<slot, memory, producer, purpose, taken, seen, shown,
                   deviceSize, stopping>>

(* The window was closed: video_pipeline_stop clears running and shuts the *)
(* socket down.                                                            *)
Quit ==
    /\ cpc = "loop"
    /\ running' = FALSE
    /\ cpc' = "join"
    /\ UNCHANGED <<slot, memory, producer, purpose, taken, seen, shown,
                   deviceSize, timedOut>>

(* WaitForSingleObject(vp->thread, 3000): the thread has ended, or the     *)
(* wait gives up; the result is not looked at.                             *)
Join ==
    /\ cpc = "join"
    /\ timedOut' = (ppc # "done")
    /\ cpc' = "destroy"
    /\ UNCHANGED <<slot, memory, producer, purpose, taken, seen, shown,
                   deviceSize, running>>

(* application_destroy frees the frame nobody took ... *)
DestroyFree ==
    /\ cpc = "destroy"
    /\ heap' = Free(heap, current)
    /\ cpc' = IF current = 0 THEN "end" ELSE "clear"
    /\ UNCHANGED <<slot, size, decoded, producer, purpose, taken, seen, shown,
                   deviceSize, stopping>>

(* ... and then clears the pointer. *)
DestroyClear ==
    /\ cpc = "clear"
    /\ current' = 0
    /\ cpc' = "end"
    /\ UNCHANGED <<ready, memory, producer, purpose, taken, seen, shown,
                   deviceSize, stopping>>

Consumer == AcquireTest \/ AcquireTake \/ Render \/ Capture
              \/ Join \/ DestroyFree \/ DestroyClear

Finished == cpc = "end" /\ ppc = "done" /\ UNCHANGED vars

Next ==
    \/ Producer \/ Consumer
    \/ Idle \/ CaptureQuery \/ ScriptDone \/ Quit
    \/ Finished

(***************************************************************************)
(* Fairness: a thread that is not waiting for its environment goes on.     *)
(* recv and the decoder owe nobody a frame; the user need not quit and the *)
(* script need not query.  The main loop's turn through the idle branch is *)
(* fair because PeekMessage runs dry; a script that queries without end is *)
(* not excluded.                                                           *)
(***************************************************************************)
Fairness ==
    /\ WF_vars(TestRunning \/ SubmitSwap \/ SubmitReady \/ SubmitFree)
    /\ WF_vars(Consumer)
    /\ WF_vars(Idle \/ ScriptDone)

Spec == Init /\ [][Next]_vars /\ Fairness
----------------------------------------------------------------------------
(* Properties *)

TypeOK ==
    /\ current \in 0 .. MaxFrames /\ ready \in {0, 1}
    /\ heap \in [Frames -> {"unused", "live", "freed"}]
    /\ size \in [Frames -> Sizes]
    /\ decoded \in 0 .. MaxFrames /\ published \in 0 .. MaxFrames
    /\ ppc \in {"test", "recv", "swap", "ready", "free", "done"}
    /\ mine \in 0 .. MaxFrames /\ old \in 0 .. MaxFrames
    /\ running \in BOOLEAN /\ timedOut \in BOOLEAN
    /\ cpc \in {"loop", "test", "take", "use", "script", "join", "destroy",
                "clear", "end"}
    /\ purpose \in {"render", "capture"}
    /\ taken \in 0 .. MaxFrames /\ seen \in 0 .. MaxFrames
    /\ shown \in 0 .. MaxFrames
    /\ deviceSize \in Sizes

(* The places a frame is owned from: the two variables of the video        *)
(* thread, the slot and the variable of the main thread.  While            *)
(* application_destroy is between the free and the store of NULL, the slot *)
(* owns nothing.                                                           *)
SlotOwns == IF cpc = "clear" THEN 0 ELSE current
Owned    == {mine, old, SlotOwns, taken} \ {0}
OneOwner ==
    /\ mine # 0 => mine \notin {old, SlotOwns, taken}
    /\ old # 0 => old \notin {SlotOwns, taken}
    /\ SlotOwns # 0 => SlotOwns # taken

(* Every block of memory is reachable from exactly one place while it is   *)
(* live, and from none once it is freed: no frame is freed twice, used     *)
(* after it was freed, or leaked, whatever the interleaving of submit and  *)
(* acquire -- unless the main thread stopped waiting for the video thread. *)
Ownership ==
    ~timedOut => Owned = {f \in Frames : heap[f] = "live"} /\ OneOwner

(* A frame in the slot is announced by the flag, or somebody is about to   *)
(* touch it: submit and acquire never leave a frame behind that neither    *)
(* the next acquire nor the video thread's next step would find.           *)
NotStranded ==
    (current # 0 /\ ready = 0) =>
        ppc = "ready" \/ cpc = "take"

(* When both threads are between two turns and the slot is empty, the last *)
(* frame the video thread published has reached the main thread: frames    *)
(* are replaced by newer ones, but the last one is never lost.  Input is   *)
(* scaled with the dimensions of the frame in the window.                  *)
AtRest == ppc \in {"test", "recv"} /\ cpc = "loop" /\ current = 0
LastFrameDelivered ==
    AtRest =>
        /\ seen = published
        /\ shown # 0 => deviceSize = size[shown]

(* The mailbox gives the main thread newer and newer frames, once each,    *)
(* and no frame stays in it: the specification LatestFrame.  A destroyed   *)
(* mailbox is closed.                                                      *)
Mailbox == INSTANCE LatestFrame WITH
    latest <- current, newest <- published, open <- cpc # "end"
MailboxSpec == Mailbox!Spec
============================================================================
