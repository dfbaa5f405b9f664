---------------------------- MODULE ScriptEngine ----------------------------
(***************************************************************************)
(* The script engine (script/engine.c, script/bindings.c,                  *)
(* script/event_dispatch.c) between the main thread and the thread that    *)
(* runs Scheme.  Three queues join them: to_main carries commands and      *)
(* queries, response_q the answers, to_scheme events and the shutdown      *)
(* message.  A query waits for its answer at most 5 s; the stop waits for  *)
(* the thread at most 5 s and then terminates it.                          *)
(*                                                                         *)
(* A queue is the bounded FIFO that ScriptQueue is shown to implement: a   *)
(* send never waits and drops what does not fit.  What Scheme code does is *)
(* left open: any commands and queries in any order, for as long as it     *)
(* likes.  Requests are numbered; the program does not know the numbers.   *)
(* A command ends where script_process_messages takes it off the queue:    *)
(* application_run gives it no callback for any.                           *)
(***************************************************************************)
EXTENDS Naturals, Sequences, FiniteSets

CONSTANTS
    QueryKinds,     \* the queries: device info, clipboard, ...
    Captures,       \* those whose answer, a frame, is too large for a message
    Capacity,       \* SCRIPT_MSG_QUEUE_CAPACITY
    MaxRequests,    \* bound: commands and queries the scripts issue
    MaxEvents       \* bound: key events

ASSUME BoundsAssumption ==
    Capacity \in Nat \ {0} /\ MaxRequests \in Nat /\ MaxEvents \in Nat
ASSUME KindsAssumption == "command" \notin QueryKinds /\ Captures \subseteq QueryKinds

VARIABLES
    main,       \* where the main thread is in the life of the engine
    running,    \* engine->running
    thread,     \* where the script thread is
    toMain, responses, toScheme,
    asked,      \* how many requests were issued; the last is the pending one
    kind,       \* the kind of the pending query
    answers,    \* [of, is]: query of, of a kind, was given the answer to query
                \* is, and made a value of it or #f
    timeouts,   \* how many queries gave up waiting
    handled,    \* the requests script_process_messages has seen
    refused,    \* the requests that found the queue full
    events      \* how many key events there were

queues == <<toMain, responses, toScheme>>
asking == <<asked, kind, answers, timeouts, handled, refused>>
vars   == <<main, running, thread, queues, asking, events>>

Init ==
    /\ main = "initialized" /\ running = FALSE /\ thread = "none"
    /\ toMain = << >> /\ responses = << >> /\ toScheme = << >>
    /\ asked = 0 /\ kind = "command" /\ answers = << >> /\ timeouts = 0
    /\ handled = {} /\ refused = {}
    /\ events = 0

SentOffByOne(queue, m) ==   \* Seeded fault: the check for a full queue.
    IF Len(queue) <= Capacity THEN Append(queue, m) ELSE queue

Sent(queue, m) == IF Len(queue) < Capacity THEN Append(queue, m) ELSE queue

Request(k, n) == [kind |-> k, id |-> n]

----------------------------------------------------------------------------
(* The main thread *)

(* script_engine_start; the creation of the thread may fail. *)
Start ==
    /\ main = "initialized"
    /\ main' = "loop"
    /\ \/ running' = TRUE  /\ thread' = "booting"
       \/ running' = FALSE /\ thread' = "none"
    /\ UNCHANGED <<queues, asking, events>>

(* Seeded fault: a query that is waiting is answered first. *)
MainProcessesQueryFirst ==
    /\ main = "loop"
    /\ \E i \in DOMAIN toMain :
          /\ toMain[i].kind \in QueryKinds
          /\ toMain' = [j \in 1 .. Len(toMain) - 1 |->
                          IF j < i THEN toMain[j] ELSE toMain[j + 1]]
          /\ responses' = Sent(responses, toMain[i])
          /\ handled' = handled \cup {toMain[i].id}
    /\ UNCHANGED <<main, running, thread, toScheme, asked, kind, answers, timeouts, refused, events>>

(* script_process_messages, one message at a time: a query is answered, if *)
(* the answer fits; for a command there is no callback, and it is dropped. *)
MainProcesses ==
    /\ main = "loop" /\ toMain # << >>
    /\ toMain' = Tail(toMain)
    /\ handled' = handled \cup {Head(toMain).id}
    /\ responses' = IF Head(toMain).kind \in QueryKinds
                      THEN Sent(responses, Head(toMain)) ELSE responses
    /\ UNCHANGED <<main, running, thread, toScheme, asked, kind, answers, timeouts, refused, events>>

(* on_key_event passes the event on whether the thread runs or not.        *)
KeyEvent ==
    /\ main = "loop" /\ events < MaxEvents
    /\ events' = events + 1
    /\ toScheme' = Sent(toScheme, "event")
    /\ UNCHANGED <<main, running, thread, toMain, responses, asking>>

(* script_engine_stop, up to its wait. *)
Stop ==
    /\ main = "loop"
    /\ running' = FALSE
    /\ IF running
         THEN main' = "joining" /\ toScheme' = Sent(toScheme, "shutdown")
         ELSE main' = "stopped" /\ UNCHANGED toScheme
    /\ UNCHANGED <<thread, toMain, responses, asking, events>>

Gone == thread \in {"none", "done", "terminated"}

JoinWithoutLimit ==   \* Seeded fault: the wait for the thread has no limit.
    /\ main = "joining" /\ Gone /\ main' = "stopped"
    /\ UNCHANGED <<thread, running, queues, asking, events>>

JoinWithoutTermination ==   \* Seeded fault: a thread that does not end is left.
    /\ main = "joining" /\ main' = "stopped"
    /\ UNCHANGED <<thread, running, queues, asking, events>>

(* The thread has ended, or it has not after 5 s and is terminated.  That  *)
(* is taken to be done when TerminateThread returns: the code does not look*)
(* at its result, nor wait once more for the thread to be gone.            *)
Join ==
    /\ main = "joining" /\ main' = "stopped"
    /\ thread' = IF Gone THEN thread ELSE "terminated"
    /\ UNCHANGED <<running, queues, asking, events>>

(* script_engine_destroy: the stop it starts with finds running false.     *)
Destroy ==
    /\ main = "stopped" /\ main' = "destroyed"
    /\ toMain' = << >> /\ responses' = << >> /\ toScheme' = << >>
    /\ UNCHANGED <<running, thread, asking, events>>

Main == Start \/ MainProcesses \/ KeyEvent \/ Stop \/ Join \/ Destroy

----------------------------------------------------------------------------
(* The script thread *)

(* Without a boot file it ends at once, and running stays TRUE; otherwise  *)
(* init.ss, the script and the expression of the command line are run.     *)
Boot ==
    /\ thread = "booting"
    /\ thread' \in {"done", "scheme"}
    /\ UNCHANGED <<main, running, queues, asking, events>>

Refusal == IF Len(toMain) < Capacity THEN {} ELSE {asked + 1}

(* A control command: fire and forget. *)
Command ==
    /\ thread = "scheme" /\ asked < MaxRequests
    /\ asked' = asked + 1
    /\ toMain' = Sent(toMain, Request("command", asked + 1))
    /\ refused' = refused \cup Refusal
    /\ UNCHANGED <<main, running, thread, responses, toScheme, kind, answers, timeouts, handled, events>>

(* query_sync: #f when the query could not be sent, or else the wait.      *)
Ask(k) ==
    /\ thread = "scheme" /\ asked < MaxRequests
    /\ asked' = asked + 1 /\ kind' = k
    /\ toMain' = Sent(toMain, Request(k, asked + 1))
    /\ refused' = refused \cup Refusal
    /\ thread' = IF Len(toMain) < Capacity THEN "query" ELSE "scheme"
    /\ UNCHANGED <<main, running, responses, toScheme, answers, timeouts, handled, events>>

(* The binding makes a value of an answer of the right kind whose data are *)
(* there, and #f of any other; in either case the answer is gone.  The     *)
(* answer to a capture has room for 244 bytes, less than any frame of a    *)
(* device, and so carries none.                                            *)
Answer(r) ==
    [of |-> asked, is |-> r.id, kind |-> kind,
     value |-> r.kind = kind /\ kind \notin Captures]

AnsweredByLast ==   \* Seeded fault: the newest answer is taken, not the oldest.
    /\ thread = "query" /\ responses # << >>
    /\ thread' = "scheme"
    /\ responses' = SubSeq(responses, 1, Len(responses) - 1)
    /\ answers' = Append(answers, Answer(responses[Len(responses)]))
    /\ UNCHANGED <<main, running, toMain, toScheme, asked, kind, timeouts, handled, refused, events>>

Answered ==
    /\ thread = "query" /\ responses # << >>
    /\ thread' = "scheme"
    /\ responses' = Tail(responses)
    /\ answers' = Append(answers, Answer(Head(responses)))
    /\ UNCHANGED <<main, running, toMain, toScheme, asked, kind, timeouts, handled, refused, events>>

AskWithoutLimit ==   \* Seeded fault: only a shutdown ends the wait.
    /\ thread = "query" /\ ~running /\ thread' = "scheme"
    /\ UNCHANGED <<main, running, queues, asking, events>>

(* 5 s without an answer. *)
AskTimesOut ==
    /\ thread = "query" /\ responses = << >>
    /\ thread' = "scheme"
    /\ timeouts' = timeouts + 1
    /\ UNCHANGED <<main, running, queues, asked, kind, answers, handled, refused, events>>

SchemeReturns ==
    /\ thread = "scheme" /\ thread' = "check"
    /\ UNCHANGED <<main, running, queues, asking, events>>

(* The loop of script_thread_func: running is tested, then recv waits for  *)
(* at most 100 ms.                                                         *)
LoopChecks ==
    /\ thread = "check"
    /\ thread' = IF running THEN "recv" ELSE "done"
    /\ UNCHANGED <<main, running, queues, asking, events>>

LoopReceives ==
    /\ thread = "recv"
    /\ \/ /\ toScheme # << >>
          /\ toScheme' = Tail(toScheme)
          /\ thread' = IF Head(toScheme) = "shutdown" THEN "done" ELSE "scheme"
       \/ /\ toScheme = << >>
          /\ thread' = "check"
          /\ UNCHANGED toScheme
    /\ UNCHANGED <<main, running, toMain, responses, asking, events>>

Waiting == Answered \/ AskTimesOut
Script  == Boot \/ Command \/ (\E k \in QueryKinds : Ask(k)) \/ Waiting
             \/ SchemeReturns \/ LoopChecks \/ LoopReceives

Finished == main = "destroyed" /\ UNCHANGED vars

Next == Main \/ Script \/ Finished

(* The two waits have a limit.  Nothing is asked of the main loop, which a *)
(* modal window may hold, nor of the Scheme code, which may never return.  *)
Fairness == WF_vars(Join) /\ WF_vars(Waiting)

Spec == Init /\ [][Next]_vars /\ Fairness

----------------------------------------------------------------------------
(* Properties *)

Requests == [kind : QueryKinds \cup {"command"}, id : Nat]
Answers  == [of : Nat, is : Nat, kind : QueryKinds \cup {"command"}, value : BOOLEAN]

TypeOK ==
    /\ main \in {"initialized", "loop", "joining", "stopped", "destroyed"}
    /\ thread \in {"none", "booting", "scheme", "query", "check", "recv",
                   "done", "terminated"}
    /\ running \in BOOLEAN
    /\ toMain \in Seq(Requests) /\ Len(toMain) <= Capacity
    /\ responses \in Seq(Requests) /\ Len(responses) <= Capacity
    /\ toScheme \in Seq({"event", "shutdown"}) /\ Len(toScheme) <= Capacity
    /\ kind \in QueryKinds \cup {"command"}
    /\ answers \in Seq(Answers)
    /\ handled \subseteq Nat /\ refused \subseteq Nat
    /\ asked \in Nat /\ timeouts \in Nat /\ events \in Nat

IsQuery(m) == m.kind \in QueryKinds
Queries(queue) == {i \in DOMAIN queue : IsQuery(queue[i])}
UnderWay == Cardinality(Queries(toMain)) + Len(responses)

(* Answers come in the order of the queries and none serves twice.  A      *)
(* query gets the answer to an earlier one only when queries have timed    *)
(* out: no more of them are under way than those, and the one that waits.  *)
(* Without a timeout it makes a value of its answer, unless it asked for a *)
(* frame (query_sync, c_query_device_info, c_query_frame_capture).         *)
StaleOnlyByTimeout ==
    /\ \A i, j \in DOMAIN answers : i < j => answers[i].is < answers[j].is
    /\ \A i \in DOMAIN answers :
          /\ answers[i].is <= answers[i].of
          /\ timeouts = 0 => /\ answers[i].is = answers[i].of
                             /\ answers[i].value \/ answers[i].kind \in Captures
    /\ UnderWay <= timeouts + (IF thread \in {"query", "terminated"} THEN 1 ELSE 0)

(* When a query has got its own answer the main thread has had every       *)
(* command issued before it in hand, or the queue was full when the command*)
(* was issued: none is still to come.  What the main thread does with a    *)
(* command is nothing (script_process_messages, query_sync).               *)
QueryIsBarrier ==
    answers # << >> =>
        LET last == answers[Len(answers)]
        IN  last.is = last.of => 1 .. last.of \subseteq handled \cup refused

(* Once the queues are destroyed no thread is left that could use them,    *)
(* also when the thread ended early, was never created, or never ends.     *)
NoUseAfterDestroy == main = "destroyed" => Gone

(* The stop comes to an end whatever the script does. *)
StopEnds == (main = "joining") ~> (main = "stopped")

(* A query returns even though the main thread never answers. *)
QueryReturns == (thread = "query") ~> (thread # "query")
=============================================================================
