------------------------- MODULE ScriptEngineProofs -------------------------
(***************************************************************************)
(* What holds of the script engine for every capacity, every set of query  *)
(* kinds and every bound.  The barrier rests on an order and a count: the  *)
(* requests the main thread has not seen are in the order they were issued,*)
(* and every request has been seen, was refused, or waits among them.      *)
(* That a stale answer takes a timeout rests on a count: a query that gave *)
(* up waiting is the only way to have more than one under way.             *)
(***************************************************************************)
EXTENDS ScriptEngine, FiniteSetTheorems, TLAPS

(* What a send that drops what does not fit leaves in a queue.             *)
LEMMA SentType ==
    ASSUME NEW S, NEW q \in Seq(S), NEW m \in S, Len(q) <= Capacity
    PROVE  Sent(q, m) \in Seq(S) /\ Len(Sent(q, m)) <= Capacity
  BY BoundsAssumption DEF BoundsAssumption, Sent

LEMMA TailType ==
    ASSUME NEW S, NEW q \in Seq(S), q # << >>, Len(q) <= Capacity
    PROVE  /\ Head(q) \in S /\ Tail(q) \in Seq(S) /\ Len(Tail(q)) <= Capacity
  BY BoundsAssumption DEF BoundsAssumption

(* Type correctness of the engine's state (engine_t, its three queues).    *)
THEOREM TypeCorrectness == Spec => []TypeOK
<1> USE BoundsAssumption, KindsAssumption DEF BoundsAssumption
<1>1. Init => TypeOK
  <2> SUFFICES ASSUME Init PROVE TypeOK
    OBVIOUS
  <2>1. toMain \in Seq(Requests) /\ responses \in Seq(Requests)
        /\ toScheme \in Seq({"event", "shutdown"})
        /\ answers \in Seq(Answers)
    BY DEF Init
  <2>2. Len(toMain) <= Capacity /\ Len(responses) <= Capacity
        /\ Len(toScheme) <= Capacity
    BY DEF Init
  <2>3. main = "initialized" /\ thread = "none" /\ running \in BOOLEAN
        /\ kind = "command" /\ asked \in Nat /\ timeouts \in Nat /\ events \in Nat
        /\ handled \subseteq Nat /\ refused \subseteq Nat
    BY DEF Init
  <2> QED
    BY <2>1, <2>2, <2>3 DEF TypeOK
<1>2. TypeOK /\ [Next]_vars => TypeOK'
  <2> SUFFICES ASSUME TypeOK, [Next]_vars PROVE TypeOK'
    OBVIOUS
  <2> USE DEF TypeOK
  <2>1. CASE Start
    BY <2>1 DEF Start, Requests, queues, asking
  <2>2. CASE MainProcesses
    <3>1. /\ Head(toMain) \in Requests /\ Tail(toMain) \in Seq(Requests)
          /\ Len(Tail(toMain)) <= Capacity
      BY <2>2, TailType DEF MainProcesses
    <3>2. Sent(responses, Head(toMain)) \in Seq(Requests)
          /\ Len(Sent(responses, Head(toMain))) <= Capacity
      BY <3>1, SentType
    <3>3. handled' \subseteq Nat
      BY <2>2, <3>1 DEF MainProcesses, Requests
    <3> QED
      BY <2>2, <3>1, <3>2, <3>3 DEF MainProcesses, Requests
  <2>3. CASE KeyEvent
    BY <2>3, SentType DEF KeyEvent, asking, Requests
  <2>4. CASE Stop
    <3>1. Sent(toScheme, "shutdown") \in Seq({"event", "shutdown"})
          /\ Len(Sent(toScheme, "shutdown")) <= Capacity
      BY SentType
    <3> QED
      BY <2>4, <3>1 DEF Stop, asking, Requests
  <2>5. CASE Join
    BY <2>5 DEF Join, Requests, queues, asking
  <2>6. CASE Destroy
    BY <2>6 DEF Destroy, Requests, asking
  <2>7. CASE Boot
    BY <2>7 DEF Boot, Requests, queues, asking
  <2>8. CASE Command
    <3>1. Request("command", asked + 1) \in Requests
      BY DEF Request, Requests
    <3>2. toMain' \in Seq(Requests) /\ Len(toMain') <= Capacity
      BY <2>8, <3>1, SentType DEF Command
    <3>3. refused' \subseteq Nat
      BY <2>8 DEF Command, Refusal
    <3> QED
      BY <2>8, <3>2, <3>3 DEF Command, Requests
  <2>9. CASE \E k \in QueryKinds : Ask(k)
    <3> SUFFICES ASSUME NEW k \in QueryKinds, Ask(k) PROVE TypeOK'
      BY <2>9
    <3>1. Request(k, asked + 1) \in Requests
      BY DEF Request, Requests
    <3>2. toMain' \in Seq(Requests) /\ Len(toMain') <= Capacity
      BY <3>1, SentType DEF Ask
    <3>3. refused' \subseteq Nat
      BY DEF Ask, Refusal
    <3> QED
      BY <3>2, <3>3 DEF Ask, Requests
  <2>10. CASE Answered
    <3>1. Head(responses) \in Requests /\ Tail(responses) \in Seq(Requests)
          /\ Len(Tail(responses)) <= Capacity
      BY <2>10, TailType DEF Answered
    <3>2. (Head(responses).kind = kind /\ kind \notin Captures) \in BOOLEAN
      OBVIOUS
    <3>3. Answer(Head(responses)) \in Answers
      BY <3>1, <3>2 DEF Answer, Answers, Requests
    <3>4. answers' \in Seq(Answers)
      BY <2>10, <3>3 DEF Answered
    <3> QED
      BY <2>10, <3>1, <3>4 DEF Answered, Requests
  <2>11. CASE AskTimesOut
    BY <2>11 DEF AskTimesOut, Requests, queues
  <2>12. CASE SchemeReturns
    BY <2>12 DEF SchemeReturns, Requests, queues, asking
  <2>13. CASE LoopChecks
    BY <2>13 DEF LoopChecks, Requests, queues, asking
  <2>14. CASE LoopReceives
    <3>1. toScheme' \in Seq({"event", "shutdown"}) /\ Len(toScheme') <= Capacity
      <4>1. CASE toScheme # << >> /\ toScheme' = Tail(toScheme)
        BY <4>1, TailType
      <4> QED
        BY <2>14, <4>1 DEF LoopReceives
    <3> QED
      BY <2>14, <3>1 DEF LoopReceives, asking, Requests
  <2>15. CASE UNCHANGED vars
    BY <2>15 DEF vars, Requests, queues, asking
  <2> QED
    BY <2>1, <2>2, <2>3, <2>4, <2>5, <2>6, <2>7, <2>8, <2>9, <2>10, <2>11,
       <2>12, <2>13, <2>14, <2>15 DEF Next, Main, Script, Waiting, Finished
<1> QED
  BY <1>1, <1>2, PTL DEF Spec

(* A thread exists only between the start and the end of the stop. *)
ThreadBound ==
    /\ main = "initialized" => thread = "none"
    /\ main \in {"stopped", "destroyed"} => Gone
    /\ ~running /\ main = "loop" => thread = "none"

(* The engine's start, stop and thread keep to it. *)
LEMMA ThreadBoundInvariance == Spec => []ThreadBound
<1>1. Init => ThreadBound
  BY DEF Init, ThreadBound
<1>2. ThreadBound /\ [Next]_vars => ThreadBound'
  BY DEF ThreadBound, Gone, Next, vars, Main, Script, Waiting, Finished, Start,
         MainProcesses, KeyEvent, Stop, Join, Destroy, Boot, Command, Ask,
         Answered, AskTimesOut, SchemeReturns, LoopChecks, LoopReceives
<1> QED
  BY <1>1, <1>2, PTL DEF Spec

(* script_engine_destroy frees nothing a script thread could still use:    *)
(* by then the thread was never created, has ended or is terminated.       *)
THEOREM DestroyedAlone == Spec => []NoUseAfterDestroy
<1>1. ThreadBound => NoUseAfterDestroy
  BY DEF ThreadBound, NoUseAfterDestroy
<1> QED
  BY <1>1, ThreadBoundInvariance, PTL

(* Requests the main thread has not seen are in the order they were issued *)
(* and newer than every answer, given or waiting.                          *)
ToMainOrdered ==
    \A i, j \in 1 .. Len(toMain) : i < j => toMain[i].id < toMain[j].id
ResponsesOlder ==
    \A i \in 1 .. Len(responses), j \in 1 .. Len(toMain) :
        responses[i].id < toMain[j].id
AnswersOlder ==
    \A i \in 1 .. Len(answers), j \in 1 .. Len(toMain) :
        answers[i].is < toMain[j].id
AllAsked ==
    /\ \A i \in 1 .. Len(answers) : answers[i].is <= asked
    /\ \A i \in 1 .. Len(responses) : responses[i].id <= asked
    /\ \A i \in 1 .. Len(toMain) : toMain[i].id <= asked

Ordered == ToMainOrdered /\ ResponsesOlder /\ AnswersOlder /\ AllAsked

LEMMA InSet ==
    ASSUME NEW S, NEW q \in Seq(S)
    PROVE  Len(q) \in Nat /\ \A i \in 1 .. Len(q) : q[i] \in S
  OBVIOUS

LEMMA Elements ==
    ASSUME TypeOK
    PROVE  /\ \A i \in 1 .. Len(toMain) : toMain[i].id \in Nat
           /\ \A i \in 1 .. Len(responses) : responses[i].id \in Nat
           /\ \A i \in 1 .. Len(answers) : answers[i].is \in Nat
           /\ Len(toMain) \in Nat /\ Len(responses) \in Nat /\ Len(answers) \in Nat
           /\ asked \in Nat
<1>1. /\ toMain \in Seq(Requests) /\ responses \in Seq(Requests)
      /\ answers \in Seq(Answers) /\ asked \in Nat
  BY DEF TypeOK
<1>2. /\ Len(toMain) \in Nat /\ \A i \in 1 .. Len(toMain) : toMain[i] \in Requests
      /\ Len(responses) \in Nat
      /\ \A i \in 1 .. Len(responses) : responses[i] \in Requests
  BY <1>1, InSet
<1>3. /\ Len(answers) \in Nat
      /\ \A i \in 1 .. Len(answers) :
            answers[i] \in Answers
  BY <1>1, InSet
<1>4. \A r \in Requests : r.id \in Nat
  BY DEF Requests
<1>5. \A r \in Answers : r.is \in Nat
  BY DEF Answers
<1> QED
  BY <1>1, <1>2, <1>3, <1>4, <1>5

LEMMA TailElements ==
    ASSUME NEW S, NEW q \in Seq(S), q # << >>
    PROVE  /\ Len(q) \in Nat /\ Len(q) >= 1 /\ Head(q) = q[1]
           /\ Len(Tail(q)) = Len(q) - 1
           /\ \A i \in 1 .. Len(Tail(q)) : Tail(q)[i] = q[i + 1]
  OBVIOUS

LEMMA AppendElements ==
    ASSUME NEW S, NEW q \in Seq(S), NEW m \in S
    PROVE  /\ Len(q) \in Nat /\ Len(Append(q, m)) = Len(q) + 1
           /\ Append(q, m)[Len(q) + 1] = m
           /\ \A i \in 1 .. Len(q) : Append(q, m)[i] = q[i]
  OBVIOUS

(* What the handling of one message leaves in the queues (engine.c:        *)
(* script_process_messages): a query's answer is appended, if it fits.     *)
LEMMA ProcessesEffect ==
    ASSUME TypeOK, MainProcesses
    PROVE  /\ Len(toMain) >= 1 /\ Head(toMain) = toMain[1]
           /\ Len(toMain') = Len(toMain) - 1
           /\ \A i \in 1 .. Len(toMain') : toMain'[i] = toMain[i + 1]
           /\ \/ UNCHANGED responses
              \/ /\ IsQuery(toMain[1])
                 /\ Len(responses') = Len(responses) + 1
                 /\ responses'[Len(responses) + 1] = toMain[1]
                 /\ \A i \in 1 .. Len(responses) : responses'[i] = responses[i]
           /\ handled' = handled \cup {toMain[1].id}
           /\ UNCHANGED <<main, running, thread, asked, kind, answers, timeouts, refused>>
<1>1. /\ Len(toMain) >= 1 /\ Head(toMain) = toMain[1]
      /\ Len(toMain') = Len(toMain) - 1
      /\ \A i \in 1 .. Len(toMain') : toMain'[i] = toMain[i + 1]
  BY TailElements DEF MainProcesses, TypeOK
<1>2. Head(toMain) \in Requests /\ responses \in Seq(Requests)
  BY TailType DEF MainProcesses, TypeOK
<1>3. CASE responses' = Append(responses, Head(toMain)) /\ IsQuery(Head(toMain))
  <2>1. /\ Len(responses') = Len(responses) + 1
        /\ responses'[Len(responses) + 1] = Head(toMain)
        /\ \A i \in 1 .. Len(responses) : responses'[i] = responses[i]
    BY <1>2, <1>3, AppendElements
  <2> QED
    BY <1>1, <1>3, <2>1 DEF MainProcesses
<1>4. CASE UNCHANGED responses
  BY <1>1, <1>4 DEF MainProcesses
<1> QED
  BY <1>3, <1>4 DEF MainProcesses, Sent, IsQuery

(* What a query that is answered takes from response_q (bindings.c:        *)
(* query_sync), and what it gets.                                          *)
LEMMA AnsweredEffect ==
    ASSUME TypeOK, Answered
    PROVE  /\ Len(responses) >= 1
           /\ Len(responses') = Len(responses) - 1
           /\ \A i \in 1 .. Len(responses') : responses'[i] = responses[i + 1]
           /\ Len(answers') = Len(answers) + 1
           /\ \A i \in 1 .. Len(answers) : answers'[i] = answers[i]
           /\ answers'[Len(answers) + 1].is = responses[1].id
           /\ answers'[Len(answers) + 1].of = asked
           /\ answers'[Len(answers) + 1].kind = kind
           /\ responses[1].kind = kind =>
                 answers'[Len(answers) + 1].value \/ kind \in Captures
           /\ UNCHANGED <<main, toMain, asked, kind, timeouts, handled, refused>>
<1>1. /\ Len(responses) >= 1 /\ Head(responses) = responses[1]
      /\ Len(responses') = Len(responses) - 1
      /\ \A i \in 1 .. Len(responses') : responses'[i] = responses[i + 1]
  BY TailElements DEF Answered, TypeOK
<1>2. (Head(responses).kind = kind /\ kind \notin Captures) \in BOOLEAN
  OBVIOUS
<1>3. Head(responses) \in Requests /\ asked \in Nat
      /\ kind \in QueryKinds \cup {"command"}
  BY TailType DEF Answered, TypeOK
<1> DEFINE a == Answer(Head(responses))
<1>4. a \in Answers
  BY <1>2, <1>3 DEF Requests, Answer, Answers
<1>5. /\ a.is = responses[1].id /\ a.of = asked /\ a.kind = kind
      /\ responses[1].kind = kind => a.value \/ kind \in Captures
  BY <1>1 DEF Answer
<1>6. answers' = Append(answers, a)
  BY DEF Answered
<1> HIDE DEF a
<1>7. /\ Len(answers') = Len(answers) + 1 /\ answers'[Len(answers) + 1] = a
      /\ \A i \in 1 .. Len(answers) : answers'[i] = answers[i]
  BY <1>4, <1>6, AppendElements DEF TypeOK
<1> QED
  BY <1>1, <1>5, <1>7 DEF Answered

(* The order survives every step.                                          *)
LEMMA OrderedStep == TypeOK /\ Ordered /\ [Next]_vars => Ordered'
<1> SUFFICES ASSUME TypeOK, Ordered, [Next]_vars PROVE Ordered'
  OBVIOUS
<1>0. /\ ToMainOrdered /\ ResponsesOlder /\ AnswersOlder /\ AllAsked
      /\ \A i \in 1 .. Len(toMain) : toMain[i].id \in Nat
      /\ \A i \in 1 .. Len(responses) : responses[i].id \in Nat
      /\ \A i \in 1 .. Len(answers) : answers[i].is \in Nat
      /\ Len(toMain) \in Nat /\ Len(responses) \in Nat /\ Len(answers) \in Nat
      /\ asked \in Nat
  BY Elements DEF Ordered
<1>1. CASE UNCHANGED <<answers, responses, toMain, asked>>
  BY <1>0, <1>1 DEF Ordered, ToMainOrdered, ResponsesOlder, AnswersOlder, AllAsked
<1>2. CASE MainProcesses
  <2>1. /\ Len(toMain) >= 1 /\ Len(toMain') = Len(toMain) - 1
        /\ \A i \in 1 .. Len(toMain') : toMain'[i] = toMain[i + 1]
    BY <1>2, ProcessesEffect
  <2>2. UNCHANGED <<answers, asked>>
    BY <1>2, ProcessesEffect
  <2>3. /\ 1 \in 1 .. Len(toMain)
        /\ \A i \in 1 .. Len(toMain') : i + 1 \in 1 .. Len(toMain) /\ 1 < i + 1
    BY <1>0, <2>1
  <2>4. \A i \in 1 .. Len(toMain') : toMain[1].id < toMain[i + 1].id
    BY <1>0, <2>3 DEF ToMainOrdered
  <2>5. \A i \in 1 .. Len(responses') :
          \/ i \in 1 .. Len(responses) /\ responses'[i] = responses[i]
          \/ responses'[i] = toMain[1]
    BY <1>0, <1>2, ProcessesEffect
  <2>6. ToMainOrdered'
    <3> SUFFICES ASSUME NEW i \in 1 .. Len(toMain'), NEW j \in 1 .. Len(toMain'),
                        i < j
                 PROVE  toMain'[i].id < toMain'[j].id
      BY DEF ToMainOrdered
    <3>1. i + 1 < j + 1
      BY <1>0, <2>1
    <3> QED
      BY <1>0, <2>1, <2>3, <3>1 DEF ToMainOrdered
  <2>7. ResponsesOlder'
    <3> SUFFICES ASSUME NEW i \in 1 .. Len(responses'), NEW j \in 1 .. Len(toMain')
                 PROVE  responses'[i].id < toMain'[j].id
      BY DEF ResponsesOlder
    <3> QED
      BY <1>0, <2>1, <2>3, <2>4, <2>5 DEF ResponsesOlder
  <2>8. AnswersOlder'
    BY <1>0, <2>1, <2>2, <2>3 DEF AnswersOlder
  <2>9. AllAsked'
    BY <1>0, <2>1, <2>2, <2>3, <2>5 DEF AllAsked
  <2> QED
    BY <2>6, <2>7, <2>8, <2>9 DEF Ordered
<1>3. ASSUME NEW k \in QueryKinds \cup {"command"},
             toMain' = Sent(toMain, Request(k, asked + 1)),
             asked' = asked + 1, UNCHANGED <<answers, responses>>
      PROVE  Ordered'
  <2>1. \A i \in 1 .. Len(toMain') :
          \/ i \in 1 .. Len(toMain) /\ toMain'[i] = toMain[i]
          \/ (\A j \in 1 .. Len(toMain') : j <= i) /\ toMain'[i].id = asked + 1
    <3>1. CASE UNCHANGED toMain
      BY <3>1
    <3>2. CASE toMain' = Append(toMain, Request(k, asked + 1))
      <4>1. /\ Request(k, asked + 1) \in Requests /\ toMain \in Seq(Requests)
            /\ Request(k, asked + 1).id = asked + 1
        BY <1>0 DEF Request, Requests, TypeOK
      <4>2. /\ Len(toMain') = Len(toMain) + 1
            /\ toMain'[Len(toMain) + 1] = Request(k, asked + 1)
            /\ \A i \in 1 .. Len(toMain) : toMain'[i] = toMain[i]
        BY <3>2, <4>1, AppendElements
      <4> QED
        BY <1>0, <4>1, <4>2
    <3> QED
      BY <1>3, <3>1, <3>2 DEF Sent
  <2>2. ToMainOrdered'
    <3> SUFFICES ASSUME NEW i \in 1 .. Len(toMain'), NEW j \in 1 .. Len(toMain'),
                        i < j
                 PROVE  toMain'[i].id < toMain'[j].id
      BY DEF ToMainOrdered
    <3>1. i \in 1 .. Len(toMain) /\ toMain'[i] = toMain[i]
      <4>1. ~(j <= i)
        OBVIOUS
      <4> QED
        BY <2>1, <4>1
    <3>2. CASE j \in 1 .. Len(toMain) /\ toMain'[j] = toMain[j]
      BY <1>0, <3>1, <3>2 DEF ToMainOrdered
    <3>3. CASE toMain'[j].id = asked + 1
      <4>1. toMain[i].id \in Nat /\ toMain[i].id <= asked
        BY <1>0, <3>1 DEF AllAsked
      <4> QED
        BY <1>0, <3>1, <3>3, <4>1
    <3> QED
      BY <2>1, <3>2, <3>3
  <2>3. ResponsesOlder'
    BY <1>0, <1>3, <2>1 DEF ResponsesOlder, AllAsked
  <2>4. AnswersOlder'
    BY <1>0, <1>3, <2>1 DEF AnswersOlder, AllAsked
  <2>5. AllAsked'
    BY <1>0, <1>3, <2>1 DEF AllAsked
  <2> QED
    BY <2>2, <2>3, <2>4, <2>5 DEF Ordered
<1>4. CASE Command
  BY <1>3, <1>4 DEF Command
<1>5. CASE \E k \in QueryKinds : Ask(k)
  BY <1>3, <1>5 DEF Ask
<1>6. CASE Answered
  <2>1. /\ Len(responses) >= 1 /\ Len(responses') = Len(responses) - 1
        /\ \A i \in 1 .. Len(responses') : responses'[i] = responses[i + 1]
    BY <1>6, AnsweredEffect
  <2>2. UNCHANGED <<toMain, asked>>
    BY <1>6, AnsweredEffect
  <2>3. /\ 1 \in 1 .. Len(responses)
        /\ \A i \in 1 .. Len(responses') : i + 1 \in 1 .. Len(responses)
    BY <1>0, <2>1
  <2>4. \A i \in 1 .. Len(answers') :
          \/ i \in 1 .. Len(answers) /\ answers'[i] = answers[i]
          \/ answers'[i].is = responses[1].id
    BY <1>0, <1>6, AnsweredEffect
  <2>5. ToMainOrdered'
    BY <1>0, <2>2 DEF ToMainOrdered
  <2>6. ResponsesOlder'
    BY <1>0, <2>1, <2>2, <2>3 DEF ResponsesOlder
  <2>7. AnswersOlder'
    BY <1>0, <2>2, <2>3, <2>4 DEF AnswersOlder, ResponsesOlder
  <2>8. AllAsked'
    BY <1>0, <2>1, <2>2, <2>3, <2>4 DEF AllAsked
  <2> QED
    BY <2>5, <2>6, <2>7, <2>8 DEF Ordered
<1>7. CASE Destroy
  <2>1. /\ toMain' = << >> /\ responses' = << >> /\ UNCHANGED <<answers, asked>>
    BY <1>7 DEF Destroy, asking
  <2> QED
    BY <1>0, <2>1
       DEF Ordered, ToMainOrdered, ResponsesOlder, AnswersOlder, AllAsked
<1> QED
  BY <1>1, <1>2, <1>4, <1>5, <1>6, <1>7
     DEF Next, vars, queues, asking, Main, Script, Waiting, Finished, Start, KeyEvent,
         Stop, Join, Boot, AskTimesOut, SchemeReturns, LoopChecks, LoopReceives

(* Every request is in the main thread's hands, was refused, or waits in   *)
(* to_main; and with an answer, given or waiting, so are, except for those *)
(* that wait, all the requests before the one it answers.                  *)
Accounted ==
    main # "destroyed" =>
        \A n \in 1 .. asked : \/ n \in handled \cup refused
                              \/ \E j \in 1 .. Len(toMain) : toMain[j].id = n
Covered ==
    /\ \A i \in 1 .. Len(answers) : 1 .. answers[i].is \subseteq handled \cup refused
    /\ \A i \in 1 .. Len(responses) : 1 .. responses[i].id \subseteq handled \cup refused

LEMMA AccountedStep == TypeOK /\ Accounted /\ [Next]_vars => Accounted'
<1> SUFFICES ASSUME TypeOK, Accounted, [Next]_vars, main' # "destroyed" PROVE Accounted'
  BY DEF Accounted
<1>0. /\ Len(toMain) \in Nat /\ asked \in Nat
      /\ main # "destroyed"
  BY Elements DEF Next, vars, queues, asking, Main, Script, Waiting, Finished, Start,
     MainProcesses, KeyEvent, Stop, Join, Destroy, Boot, Command, Ask, Answered,
     AskTimesOut, SchemeReturns, LoopChecks, LoopReceives
<1>1. CASE UNCHANGED <<toMain, asked, handled, refused>>
  BY <1>0, <1>1 DEF Accounted
<1>2. CASE MainProcesses
  <2>1. /\ Len(toMain') = Len(toMain) - 1 /\ Len(toMain) >= 1
        /\ \A i \in 1 .. Len(toMain') : toMain'[i] = toMain[i + 1]
        /\ handled' = handled \cup {toMain[1].id} /\ UNCHANGED <<asked, refused>>
    BY <1>2, ProcessesEffect
  <2> SUFFICES ASSUME NEW n \in 1 .. asked
               PROVE  \/ n \in handled' \cup refused'
                      \/ \E j \in 1 .. Len(toMain') : toMain'[j].id = n
    BY <2>1 DEF Accounted
  <2>2. CASE n \in handled \cup refused
    BY <2>1, <2>2
  <2>3. ASSUME NEW j \in 1 .. Len(toMain), toMain[j].id = n
        PROVE  \/ n \in handled' \cup refused'
               \/ \E k \in 1 .. Len(toMain') : toMain'[k].id = n
    <3>1. CASE j = 1
      BY <2>1, <2>3, <3>1
    <3>2. CASE j # 1
      <4>1. j - 1 \in 1 .. Len(toMain') /\ (j - 1) + 1 = j
        BY <1>0, <2>1, <3>2
      <4>2. toMain'[j - 1] = toMain[j]
        BY <2>1, <4>1
      <4> QED
        BY <2>3, <4>1, <4>2
    <3> QED
      BY <3>1, <3>2
  <2> QED
    BY <1>0, <2>2, <2>3 DEF Accounted
<1>3. ASSUME NEW k \in QueryKinds \cup {"command"},
             toMain' = Sent(toMain, Request(k, asked + 1)),
             asked' = asked + 1, refused' = refused \cup Refusal, UNCHANGED handled
      PROVE  Accounted'
  <2> SUFFICES ASSUME NEW n \in 1 .. asked + 1
               PROVE  \/ n \in handled \cup refused'
                      \/ \E j \in 1 .. Len(toMain') : toMain'[j].id = n
    BY <1>3 DEF Accounted
  <2>1. n \in 1 .. asked \/ n = asked + 1
    BY <1>0
  <2>2. CASE Len(toMain) < Capacity
    <3>1. /\ Request(k, asked + 1) \in Requests /\ toMain \in Seq(Requests)
          /\ Request(k, asked + 1).id = asked + 1
      BY <1>0 DEF Request, Requests, TypeOK
    <3>2. /\ Len(toMain') = Len(toMain) + 1
          /\ toMain'[Len(toMain) + 1] = Request(k, asked + 1)
          /\ \A i \in 1 .. Len(toMain) : toMain'[i] = toMain[i]
      BY <1>3, <2>2, <3>1, AppendElements DEF Sent
    <3>3. CASE n = asked + 1
      <4>1. Len(toMain) + 1 \in 1 .. Len(toMain')
        BY <1>0, <3>2
      <4> QED
        BY <3>1, <3>2, <3>3, <4>1
    <3>4. CASE n \in handled \cup refused
      BY <1>3, <3>4
    <3>5. ASSUME NEW j \in 1 .. Len(toMain), toMain[j].id = n
          PROVE  \E i \in 1 .. Len(toMain') : toMain'[i].id = n
      <4>1. j \in 1 .. Len(toMain') /\ toMain'[j] = toMain[j]
        BY <1>0, <3>2
      <4> QED
        BY <3>5, <4>1
    <3> QED
      BY <1>0, <2>1, <3>3, <3>4, <3>5 DEF Accounted
  <2>3. CASE ~(Len(toMain) < Capacity)
    <3>1. toMain' = toMain /\ asked + 1 \in refused'
      BY <1>3, <2>3 DEF Sent, Refusal
    <3>2. CASE n \in 1 .. asked
      BY <1>0, <1>3, <3>1, <3>2 DEF Accounted
    <3> QED
      BY <2>1, <3>1, <3>2
  <2> QED
    BY <2>2, <2>3
<1>4. CASE Command
  BY <1>3, <1>4 DEF Command
<1>5. CASE \E k \in QueryKinds : Ask(k)
  BY <1>3, <1>5 DEF Ask
<1>6. CASE Answered
  BY <1>1, <1>6, AnsweredEffect
<1>7. CASE Destroy
  BY <1>7 DEF Destroy
<1> QED
  BY <1>1, <1>2, <1>4, <1>5, <1>6, <1>7
     DEF Next, vars, queues, asking, Main, Script, Waiting, Finished, Start, KeyEvent,
         Stop, Join, Boot, AskTimesOut, SchemeReturns, LoopChecks, LoopReceives

LEMMA CoveredStep ==
    TypeOK /\ Ordered /\ Accounted /\ Covered /\ [Next]_vars => Covered'
<1> SUFFICES ASSUME TypeOK, Ordered, Accounted, Covered, [Next]_vars PROVE Covered'
  OBVIOUS
<1>0. /\ \A i \in 1 .. Len(toMain) : toMain[i].id \in Nat
      /\ Len(toMain) \in Nat /\ Len(responses) \in Nat /\ Len(answers) \in Nat
      /\ asked \in Nat
  BY Elements
<1>1. ASSUME UNCHANGED <<answers, responses>>,
             handled \cup refused \subseteq handled' \cup refused'
      PROVE  Covered'
  BY <1>1 DEF Covered
<1>2. CASE MainProcesses
  <2>1. /\ Len(toMain) >= 1 /\ main # "destroyed"
        /\ handled' = handled \cup {toMain[1].id} /\ UNCHANGED <<answers, refused>>
    BY <1>2, ProcessesEffect DEF MainProcesses
  <2>2. 1 \in 1 .. Len(toMain)
        /\ toMain[1].id \in Nat /\ toMain[1].id <= asked
    BY <1>0, <2>1 DEF Ordered, AllAsked
  <2>3. ASSUME NEW n \in 1 .. toMain[1].id PROVE n \in handled' \cup refused'
    <3>1. CASE n = toMain[1].id
      BY <2>1, <3>1
    <3>2. CASE n # toMain[1].id
      <4>1. n \in 1 .. asked /\ n < toMain[1].id
        BY <1>0, <2>2, <3>2
      <4>2. ASSUME NEW j \in 1 .. Len(toMain), toMain[j].id = n PROVE FALSE
        <5>1. j # 1 /\ 1 < j
          BY <1>0, <4>1, <4>2
        <5>2. toMain[1].id < toMain[j].id
          BY <2>2, <5>1 DEF Ordered, ToMainOrdered
        <5> QED
          BY <2>2, <4>1, <4>2, <5>2
      <4> QED
        BY <2>1, <4>1, <4>2 DEF Accounted
    <3> QED
      BY <3>1, <3>2
  <2>4. \A i \in 1 .. Len(responses') :
          \/ i \in 1 .. Len(responses) /\ responses'[i] = responses[i]
          \/ responses'[i] = toMain[1]
    BY <1>0, <1>2, ProcessesEffect
  <2>5. handled \cup refused \subseteq handled' \cup refused'
    BY <2>1
  <2> QED
    BY <2>1, <2>3, <2>4, <2>5 DEF Covered
<1>3. CASE Answered
  <2>1. /\ Len(responses) >= 1 /\ Len(responses') = Len(responses) - 1
        /\ \A i \in 1 .. Len(responses') : responses'[i] = responses[i + 1]
        /\ Len(answers') = Len(answers) + 1
        /\ answers'[Len(answers) + 1].is = responses[1].id
        /\ \A i \in 1 .. Len(answers) : answers'[i] = answers[i]
        /\ UNCHANGED <<handled, refused>>
    BY <1>3, AnsweredEffect
  <2>2. /\ 1 \in 1 .. Len(responses)
        /\ \A i \in 1 .. Len(responses') : i + 1 \in 1 .. Len(responses)
        /\ \A i \in 1 .. Len(answers') : i \in 1 .. Len(answers) \/ i = Len(answers) + 1
    BY <1>0, <2>1
  <2> QED
    BY <2>1, <2>2 DEF Covered
<1>4. CASE Destroy
  BY <1>4 DEF Destroy, asking, Covered
<1>5. CASE Command \/ \E k \in QueryKinds : Ask(k)
  BY <1>1, <1>5 DEF Command, Ask
<1> QED
  BY <1>1, <1>2, <1>3, <1>4, <1>5
     DEF Next, vars, queues, asking, Main, Script, Waiting, Finished, Start, KeyEvent,
         Stop, Join, Boot, AskTimesOut, SchemeReturns, LoopChecks, LoopReceives

(* A script that gets the answer to its question has nothing it issued     *)
(* before still on the way: the main thread has had it in hand, or to_main *)
(* was full when it was issued (bindings.c: query_sync and the commands    *)
(* use one queue).                                                         *)
THEOREM Barrier == Spec => []QueryIsBarrier
<1>1. Init => Ordered /\ Accounted /\ Covered
  BY DEF Init, Ordered, ToMainOrdered, ResponsesOlder, AnswersOlder, AllAsked,
         Accounted, Covered
<1>2. TypeOK /\ Covered => QueryIsBarrier
  <2> SUFFICES ASSUME TypeOK, Covered, answers # << >>,
                      answers[Len(answers)].is = answers[Len(answers)].of
               PROVE  1 .. answers[Len(answers)].of \subseteq handled \cup refused
    BY DEF QueryIsBarrier
  <2>1. Len(answers) \in 1 .. Len(answers)
    BY DEF TypeOK
  <2> QED
    BY <2>1 DEF Covered
<1> QED
  BY <1>1, <1>2, OrderedStep, AccountedStep, CoveredStep, TypeCorrectness, PTL DEF Spec

----------------------------------------------------------------------------
(* The queries a queue holds can be counted. *)
LEMMA CountType ==
    ASSUME NEW q \in Seq(Requests)
    PROVE  /\ Queries(q) \subseteq 1 .. Len(q) /\ IsFiniteSet(Queries(q))
           /\ Cardinality(Queries(q)) \in Nat
           /\ Cardinality(Queries(q)) = 0 <=> Queries(q) = {}
<1>1. Queries(q) \subseteq 1 .. Len(q)
  BY DEF Queries
<1>2. IsFiniteSet(1 .. Len(q))
  BY FS_Interval
<1>3. IsFiniteSet(Queries(q))
  BY <1>1, <1>2, FS_Subset
<1> QED
  BY <1>1, <1>3, FS_CardinalityType, FS_EmptySet

(* Appending a request adds one query, or none if it is a command. *)
LEMMA CountAppend ==
    ASSUME NEW q \in Seq(Requests), NEW m \in Requests
    PROVE  Cardinality(Queries(Append(q, m)))
             = Cardinality(Queries(q)) + (IF IsQuery(m) THEN 1 ELSE 0)
<1>1. /\ Len(q) \in Nat /\ Len(Append(q, m)) = Len(q) + 1
      /\ Append(q, m)[Len(q) + 1] = m
      /\ \A i \in 1 .. Len(q) : Append(q, m)[i] = q[i]
  BY AppendElements
<1>2. DOMAIN Append(q, m) = 1 .. Len(q) + 1 /\ DOMAIN q = 1 .. Len(q)
  BY <1>1
<1>3. Queries(Append(q, m))
        = IF IsQuery(m) THEN Queries(q) \cup {Len(q) + 1} ELSE Queries(q)
  BY <1>1, <1>2 DEF Queries
<1>4. Len(q) + 1 \notin Queries(q) /\ IsFiniteSet(Queries(q))
      /\ Cardinality(Queries(q)) \in Nat
  BY <1>1, CountType
<1>5. Cardinality(Queries(q) \cup {Len(q) + 1}) = Cardinality(Queries(q)) + 1
  BY <1>4, FS_AddElement
<1> QED
  BY <1>3, <1>4, <1>5

(* Removing the first request removes one query, or none. *)
LEMMA CountTail ==
    ASSUME NEW q \in Seq(Requests), q # << >>
    PROVE  Cardinality(Queries(Tail(q)))
             = Cardinality(Queries(q)) - (IF IsQuery(Head(q)) THEN 1 ELSE 0)
<1>1. /\ Len(q) \in Nat /\ Len(q) >= 1 /\ Head(q) = q[1]
      /\ Len(Tail(q)) = Len(q) - 1 /\ Tail(q) \in Seq(Requests)
      /\ \A i \in 1 .. Len(Tail(q)) : Tail(q)[i] = q[i + 1]
  BY TailElements
<1>2. DOMAIN Tail(q) = 1 .. Len(q) - 1 /\ DOMAIN q = 1 .. Len(q)
  BY <1>1
<1> DEFINE later == Queries(q) \ {1}
           f == [i \in Queries(Tail(q)) |-> i + 1]
<1>3. f \in [Queries(Tail(q)) -> later]
  BY <1>1, <1>2 DEF Queries
<1>4. \A a, b \in Queries(Tail(q)) : f[a] = f[b] => a = b
  BY <1>1, <1>2 DEF Queries
<1>5. \A t \in later : \E i \in Queries(Tail(q)) : f[i] = t
  <2> SUFFICES ASSUME NEW t \in later PROVE \E i \in Queries(Tail(q)) : f[i] = t
    OBVIOUS
  <2>1. t \in 2 .. Len(q) /\ IsQuery(q[t])
    BY <1>1, <1>2 DEF Queries
  <2>2. t - 1 \in 1 .. Len(q) - 1 /\ Tail(q)[t - 1] = q[(t - 1) + 1] /\ (t - 1) + 1 = t
    BY <1>1, <2>1
  <2>3. t - 1 \in Queries(Tail(q))
    BY <1>2, <2>1, <2>2 DEF Queries
  <2> QED
    BY <2>2, <2>3
<1>6. f \in Bijection(Queries(Tail(q)), later)
  BY <1>3, <1>4, <1>5 DEF Bijection, Injection, IsInjective, Surjection
<1>7. ExistsBijection(Queries(Tail(q)), later)
  BY <1>6 DEF ExistsBijection
<1>8. IsFiniteSet(Queries(Tail(q)))
  BY <1>1, CountType
<1> HIDE DEF f, later
<1>9. Cardinality(later) = Cardinality(Queries(Tail(q)))
  BY <1>7, <1>8, FS_Bijection
<1>10. Cardinality(later)
         = IF 1 \in Queries(q) THEN Cardinality(Queries(q)) - 1 ELSE Cardinality(Queries(q))
  BY CountType, FS_RemoveElement DEF later
<1>11. 1 \in Queries(q) <=> IsQuery(Head(q))
  BY <1>1, <1>2 DEF Queries
<1> QED
  BY <1>9, <1>10, <1>11, CountType

----------------------------------------------------------------------------
(* Answers, given and waiting, are in the order of the queries. *)
Increasing ==
    /\ \A i, j \in 1 .. Len(responses) : i < j => responses[i].id < responses[j].id
    /\ \A i \in 1 .. Len(answers), j \in 1 .. Len(responses) :
          answers[i].is < responses[j].id
    /\ \A i, j \in 1 .. Len(answers) : i < j => answers[i].is < answers[j].is

(* Until a query has timed out, the only one under way is the pending one, *)
(* and every answer was the right one.                                     *)
PendingOnly ==
    timeouts = 0 =>
        /\ \A i \in Queries(toMain) : toMain[i].id = asked /\ toMain[i].kind = kind
        /\ \A i \in 1 .. Len(responses) :
              responses[i].id = asked /\ responses[i].kind = kind
        /\ \A i \in 1 .. Len(answers) :
              /\ answers[i].is = answers[i].of
              /\ answers[i].value \/ answers[i].kind \in Captures

NeverEarly == \A i \in 1 .. Len(answers) : answers[i].is <= answers[i].of

Waits == IF thread \in {"query", "terminated"} THEN 1 ELSE 0
FewUnderWay == UnderWay <= timeouts + Waits

Fresh == Increasing /\ PendingOnly /\ NeverEarly /\ FewUnderWay

(* Every step keeps the answers in order. *)
LEMMA IncreasingStep ==
    TypeOK /\ Ordered /\ Increasing /\ [Next]_vars => Increasing'
<1> SUFFICES ASSUME TypeOK, Ordered, Increasing, [Next]_vars PROVE Increasing'
  OBVIOUS
<1>0. /\ ResponsesOlder /\ AnswersOlder
      /\ \A i \in 1 .. Len(toMain) : toMain[i].id \in Nat
      /\ \A i \in 1 .. Len(responses) : responses[i].id \in Nat
      /\ \A i \in 1 .. Len(answers) : answers[i].is \in Nat
      /\ Len(toMain) \in Nat /\ Len(responses) \in Nat /\ Len(answers) \in Nat
  BY Elements DEF Ordered
<1>1. CASE UNCHANGED <<answers, responses>>
  BY <1>1 DEF Increasing
<1>2. CASE MainProcesses
  <2>1. UNCHANGED answers
    BY <1>2, ProcessesEffect
  <2>2. CASE UNCHANGED responses
    BY <2>1, <2>2, <1>1
  <2>3. CASE /\ Len(responses') = Len(responses) + 1
             /\ responses'[Len(responses) + 1] = toMain[1]
             /\ \A i \in 1 .. Len(responses) : responses'[i] = responses[i]
    <3>1. 1 \in 1 .. Len(toMain)
      BY <1>0, <1>2, ProcessesEffect
    <3>2. /\ \A i \in 1 .. Len(responses) : responses[i].id < toMain[1].id
          /\ \A i \in 1 .. Len(answers) : answers[i].is < toMain[1].id
      BY <1>0, <3>1 DEF ResponsesOlder, AnswersOlder
    <3>3. \A i \in 1 .. Len(responses') :
            i \in 1 .. Len(responses) \/ i = Len(responses) + 1
      BY <1>0, <2>3
    <3>4. \A i, j \in 1 .. Len(responses') :
            i < j => i \in 1 .. Len(responses)
      BY <1>0, <2>3
    <3> QED
      BY <2>1, <2>3, <3>2, <3>3, <3>4 DEF Increasing
  <2> QED
    BY <1>2, <2>2, <2>3, ProcessesEffect
<1>3. CASE Answered
  <2>1. /\ Len(responses) >= 1 /\ Len(responses') = Len(responses) - 1
        /\ \A i \in 1 .. Len(responses') : responses'[i] = responses[i + 1]
        /\ Len(answers') = Len(answers) + 1
        /\ answers'[Len(answers) + 1].is = responses[1].id
        /\ \A i \in 1 .. Len(answers) : answers'[i] = answers[i]
    BY <1>3, AnsweredEffect
  <2>2. /\ 1 \in 1 .. Len(responses)
        /\ \A i \in 1 .. Len(responses') : i + 1 \in 1 .. Len(responses) /\ 1 < i + 1
        /\ \A i, j \in 1 .. Len(responses') : i < j => i + 1 < j + 1
    BY <1>0, <2>1
  <2>3. \A i \in 1 .. Len(answers') :
          i \in 1 .. Len(answers) \/ i = Len(answers) + 1
    BY <1>0, <2>1
  <2>4. \A i, j \in 1 .. Len(answers') : i < j => i \in 1 .. Len(answers)
    BY <1>0, <2>1
  <2>5. \A i, j \in 1 .. Len(responses') : i < j => responses'[i].id < responses'[j].id
    BY <2>1, <2>2 DEF Increasing
  <2>6. \A i \in 1 .. Len(answers'), j \in 1 .. Len(responses') :
          answers'[i].is < responses'[j].id
    BY <2>1, <2>2, <2>3 DEF Increasing
  <2>7. \A i, j \in 1 .. Len(answers') : i < j => answers'[i].is < answers'[j].is
    BY <2>1, <2>2, <2>3, <2>4 DEF Increasing
  <2> QED
    BY <2>5, <2>6, <2>7 DEF Increasing
<1>4. CASE Destroy
  BY <1>0, <1>4 DEF Destroy, asking, Increasing
<1> QED
  BY <1>1, <1>2, <1>3, <1>4
     DEF Next, vars, queues, asking, Main, Script, Waiting, Finished, Start, KeyEvent,
         Stop, Join, Boot, Command, Ask, AskTimesOut, SchemeReturns, LoopChecks,
         LoopReceives

(* Every step keeps the count of what is under way.  A request or an       *)
(* answer that does not fit only lowers it.                                *)
LEMMA FewUnderWayStep ==
    TypeOK /\ ThreadBound /\ FewUnderWay /\ [Next]_vars => FewUnderWay'
<1> SUFFICES ASSUME TypeOK, ThreadBound, FewUnderWay, [Next]_vars PROVE FewUnderWay'
  OBVIOUS
<1>0. /\ Len(responses) \in Nat /\ timeouts \in Nat /\ toMain \in Seq(Requests)
      /\ Cardinality(Queries(toMain)) \in Nat
      /\ Cardinality(Queries(toMain)) + Len(responses) <= timeouts + Waits
  BY CountType DEF TypeOK, FewUnderWay, UnderWay
<1> DEFINE Quiet == UNCHANGED <<responses, toMain, timeouts>>
<1>1. CASE Quiet /\ thread' = thread
  BY <1>0, <1>1 DEF FewUnderWay, UnderWay, Waits
<1>2. CASE Quiet /\ thread # "query" /\ thread # "terminated"
  BY <1>0, <1>2 DEF FewUnderWay, UnderWay, Waits
<1>3. CASE Quiet /\ thread' = "terminated"
  BY <1>0, <1>3 DEF FewUnderWay, UnderWay, Waits
<1>4. CASE MainProcesses
  <2>1. Cardinality(Queries(toMain'))
          = Cardinality(Queries(toMain)) - (IF IsQuery(toMain[1]) THEN 1 ELSE 0)
    BY <1>0, <1>4, CountTail, ProcessesEffect DEF MainProcesses
  <2>2. \/ Len(responses') = Len(responses)
        \/ Len(responses') = Len(responses) + 1 /\ IsQuery(toMain[1])
    BY <1>4, ProcessesEffect
  <2>3. UNCHANGED <<thread, timeouts>>
    BY <1>4, ProcessesEffect
  <2> QED
    BY <1>0, <2>1, <2>2, <2>3 DEF FewUnderWay, UnderWay, Waits
<1>5. CASE Command
  <2>1. Request("command", asked + 1) \in Requests
        /\ ~ IsQuery(Request("command", asked + 1))
    BY KindsAssumption DEF Request, Requests, IsQuery, TypeOK
  <2>2. Cardinality(Queries(toMain')) = Cardinality(Queries(toMain))
    BY <1>0, <1>5, <2>1, CountAppend DEF Command, Sent
  <2> QED
    BY <1>0, <1>5, <2>2 DEF Command, FewUnderWay, UnderWay, Waits
<1>6. ASSUME NEW k \in QueryKinds, Ask(k) PROVE FewUnderWay'
  <2>1. Request(k, asked + 1) \in Requests /\ IsQuery(Request(k, asked + 1))
    BY DEF Request, Requests, IsQuery, TypeOK
  <2>2. CASE Len(toMain) < Capacity
    <3>1. Cardinality(Queries(toMain')) = Cardinality(Queries(toMain)) + 1
      BY <1>0, <1>6, <2>1, <2>2, CountAppend DEF Ask, Sent
    <3> QED
      BY <1>0, <1>6, <2>2, <3>1 DEF Ask, FewUnderWay, UnderWay, Waits
  <2>3. CASE ~(Len(toMain) < Capacity)
    BY <1>0, <1>6, <2>3 DEF Ask, Sent, FewUnderWay, UnderWay, Waits
  <2> QED
    BY <2>2, <2>3
<1>7. CASE Answered
  <2>1. /\ Len(responses') = Len(responses) - 1 /\ UNCHANGED <<toMain, timeouts>>
        /\ thread = "query" /\ thread' = "scheme"
    BY <1>7, AnsweredEffect DEF Answered
  <2> QED
    BY <1>0, <2>1 DEF FewUnderWay, UnderWay, Waits
<1>8. CASE AskTimesOut
  BY <1>0, <1>8 DEF AskTimesOut, queues, FewUnderWay, UnderWay, Waits
<1>9. CASE Destroy
  <2>1. Queries(toMain') = {} /\ Len(responses') = 0 /\ UNCHANGED <<thread, timeouts>>
    BY <1>9 DEF Destroy, asking, Queries
  <2>2. Cardinality(Queries(toMain')) = 0
    BY <2>1, FS_EmptySet
  <2> QED
    BY <1>0, <2>1, <2>2 DEF FewUnderWay, UnderWay, Waits
<1>10. CASE Start \/ KeyEvent \/ Stop \/ Finished \/ UNCHANGED vars
  <2>1. Quiet /\ (thread' = thread \/ thread = "none")
    BY <1>10 DEF Start, KeyEvent, Stop, Finished, vars, queues, asking, ThreadBound
  <2> QED
    BY <1>1, <1>2, <2>1
<1>11. CASE Join
  BY <1>1, <1>3, <1>11 DEF Join, queues, asking
<1>12. CASE Boot \/ SchemeReturns \/ LoopChecks \/ LoopReceives
  BY <1>2, <1>12 DEF Boot, SchemeReturns, LoopChecks, LoopReceives, queues, asking
<1> QED
  BY <1>4, <1>5, <1>6, <1>7, <1>8, <1>9, <1>10, <1>11, <1>12
     DEF Next, Main, Script, Waiting

(* Every step keeps what is known until the first timeout: a query is sent *)
(* when none is under way, and answered before the next is sent.           *)
LEMMA PendingOnlyStep ==
    TypeOK /\ FewUnderWay /\ PendingOnly /\ [Next]_vars => PendingOnly'
<1> SUFFICES ASSUME TypeOK, FewUnderWay, PendingOnly, [Next]_vars, timeouts' = 0
             PROVE  PendingOnly'
  BY DEF PendingOnly
<1>0. /\ toMain \in Seq(Requests) /\ Len(toMain) \in Nat
      /\ Len(responses) \in Nat /\ Len(answers) \in Nat /\ asked \in Nat
      /\ timeouts \in Nat /\ Cardinality(Queries(toMain)) \in Nat
      /\ Cardinality(Queries(toMain)) + Len(responses) <= timeouts + Waits
      /\ Cardinality(Queries(toMain)) = 0 => Queries(toMain) = {}
  BY Elements, CountType DEF TypeOK, FewUnderWay, UnderWay
<1>1. timeouts = 0 /\ ~ AskTimesOut
  BY <1>0 DEF AskTimesOut, Next, vars, asking, Main, Script, Waiting, Finished,
     Start, MainProcesses, KeyEvent, Stop, Join, Destroy, Boot, Command, Ask,
     Answered, SchemeReturns, LoopChecks, LoopReceives
<1>2. /\ \A i \in Queries(toMain) : toMain[i].id = asked /\ toMain[i].kind = kind
      /\ \A i \in 1 .. Len(responses) :
            responses[i].id = asked /\ responses[i].kind = kind
      /\ \A i \in 1 .. Len(answers) :
            /\ answers[i].is = answers[i].of
            /\ answers[i].value \/ answers[i].kind \in Captures
  BY <1>1 DEF PendingOnly
<1>3. CASE UNCHANGED <<answers, responses, toMain, asked, kind>>
  BY <1>2, <1>3 DEF PendingOnly
<1>4. CASE MainProcesses
  <2>1. /\ Len(toMain) >= 1 /\ Len(toMain') = Len(toMain) - 1
        /\ \A i \in 1 .. Len(toMain') : toMain'[i] = toMain[i + 1]
        /\ UNCHANGED <<answers, asked, kind>>
    BY <1>4, ProcessesEffect
  <2>2. toMain' \in Seq(Requests)
    BY <1>0, <1>4, TailType DEF MainProcesses, TypeOK
  <2>3. \A i \in Queries(toMain') : i + 1 \in Queries(toMain) /\ toMain'[i] = toMain[i + 1]
    BY <1>0, <2>1, <2>2 DEF Queries
  <2>4. IsQuery(toMain[1]) => 1 \in Queries(toMain)
    BY <1>0, <2>1 DEF Queries
  <2>5. \A i \in 1 .. Len(responses') :
          \/ i \in 1 .. Len(responses) /\ responses'[i] = responses[i]
          \/ responses'[i] = toMain[1] /\ IsQuery(toMain[1])
    BY <1>0, <1>4, ProcessesEffect
  <2> QED
    BY <1>2, <2>1, <2>3, <2>4, <2>5 DEF PendingOnly
<1>5. ASSUME NEW k \in QueryKinds \cup {"command"}, thread = "scheme",
             toMain' = Sent(toMain, Request(k, asked + 1)), asked' = asked + 1,
             kind' = (IF k \in QueryKinds THEN k ELSE kind),
             UNCHANGED <<answers, responses>>
      PROVE  PendingOnly'
  <2>1. Queries(toMain) = {} /\ Len(responses) = 0
    BY <1>0, <1>1, <1>5 DEF Waits
  <2>2. Request(k, asked + 1) \in Requests
        /\ Request(k, asked + 1).id = asked + 1 /\ Request(k, asked + 1).kind = k
    BY <1>0 DEF Request, Requests
  <2>3. \A i \in Queries(toMain') :
          toMain'[i] = Request(k, asked + 1) /\ IsQuery(toMain'[i])
    <3>1. CASE toMain' = Append(toMain, Request(k, asked + 1))
      <4>1. /\ Len(toMain') = Len(toMain) + 1 /\ toMain' \in Seq(Requests)
            /\ toMain'[Len(toMain) + 1] = Request(k, asked + 1)
            /\ \A i \in 1 .. Len(toMain) : toMain'[i] = toMain[i]
        BY <1>0, <2>2, <3>1, AppendElements
      <4> QED
        BY <1>0, <2>1, <4>1 DEF Queries
    <3>2. CASE UNCHANGED toMain
      BY <2>1, <3>2
    <3> QED
      BY <1>5, <3>1, <3>2 DEF Sent
  <2> QED
    BY <1>2, <1>5, <2>1, <2>2, <2>3 DEF PendingOnly, IsQuery
<1>6. CASE Command
  BY <1>5, <1>6, KindsAssumption DEF Command
<1>7. CASE \E k \in QueryKinds : Ask(k)
  BY <1>5, <1>7 DEF Ask
<1>8. CASE Answered
  <2>1. /\ Len(responses) >= 1 /\ Len(responses') = Len(responses) - 1
        /\ \A i \in 1 .. Len(responses') : responses'[i] = responses[i + 1]
        /\ Len(answers') = Len(answers) + 1
        /\ answers'[Len(answers) + 1].is = responses[1].id
        /\ answers'[Len(answers) + 1].of = asked
        /\ answers'[Len(answers) + 1].kind = kind
        /\ responses[1].kind = kind =>
              answers'[Len(answers) + 1].value \/ kind \in Captures
        /\ \A i \in 1 .. Len(answers) : answers'[i] = answers[i]
        /\ UNCHANGED <<toMain, asked, kind>>
    BY <1>8, AnsweredEffect
  <2>2. 1 \in 1 .. Len(responses)
        /\ \A i \in 1 .. Len(responses') : i + 1 \in 1 .. Len(responses)
    BY <1>0, <2>1
  <2>3. \A i \in 1 .. Len(answers') : i \in 1 .. Len(answers) \/ i = Len(answers) + 1
    BY <1>0, <2>1
  <2>4. responses[1].id = asked /\ responses[1].kind = kind
    BY <1>2, <2>2
  <2>5. answers'[Len(answers) + 1].value \/ answers'[Len(answers) + 1].kind \in Captures
    BY <2>1, <2>4
  <2>6. \A i \in 1 .. Len(answers') :
          answers'[i].value \/ answers'[i].kind \in Captures
    BY <1>2, <2>1, <2>3, <2>5, Zenon
  <2>7. \A i \in 1 .. Len(answers') : answers'[i].is = answers'[i].of
    BY <1>2, <2>1, <2>3, <2>4
  <2>8. \A i \in 1 .. Len(responses') : responses'[i].id = asked /\ responses'[i].kind = kind
    BY <1>2, <2>1, <2>2
  <2> QED
    BY <1>2, <2>1, <2>6, <2>7, <2>8, Zenon DEF PendingOnly
<1>9. CASE Destroy
  BY <1>2, <1>9 DEF Destroy, asking, PendingOnly, Queries
<1> QED
  BY <1>1, <1>3, <1>4, <1>6, <1>7, <1>8, <1>9
     DEF Next, vars, queues, asking, Main, Script, Waiting, Finished, Start, KeyEvent,
         Stop, Join, Boot, SchemeReturns, LoopChecks, LoopReceives

(* An answer is never to a query that is yet to be asked. *)
LEMMA NeverEarlyStep == TypeOK /\ Ordered /\ NeverEarly /\ [Next]_vars => NeverEarly'
<1> SUFFICES ASSUME TypeOK, Ordered, NeverEarly, [Next]_vars PROVE NeverEarly'
  OBVIOUS
<1>1. CASE UNCHANGED answers
  BY <1>1 DEF NeverEarly
<1>2. CASE Answered
  <2>1. /\ Len(responses) >= 1
        /\ Len(answers') = Len(answers) + 1
        /\ answers'[Len(answers) + 1].is = responses[1].id
        /\ answers'[Len(answers) + 1].of = asked
        /\ \A i \in 1 .. Len(answers) : answers'[i] = answers[i]
    BY <1>2, AnsweredEffect
  <2>2. responses[1].id <= asked /\ Len(answers) \in Nat
    BY <2>1, Elements DEF Ordered, AllAsked
  <2>3. \A i \in 1 .. Len(answers') : i \in 1 .. Len(answers) \/ i = Len(answers) + 1
    BY <2>1, <2>2
  <2> QED
    BY <2>1, <2>2, <2>3 DEF NeverEarly
<1> QED
  BY <1>1, <1>2
     DEF Next, vars, asking, Main, Script, Waiting, Finished, Start, KeyEvent, Stop,
         Join, Boot, SchemeReturns, LoopChecks, LoopReceives, MainProcesses, Destroy,
         Command, Ask, AskTimesOut

(* What the script gets (bindings.c: query_sync): answers in the order of  *)
(* its queries, none twice, none too early, and a stale one only after a   *)
(* query has timed out; at no time are more under way than have timed out, *)
(* and the pending one.                                                    *)
THEOREM Freshness == Spec => []StaleOnlyByTimeout
<1>1. Init => Ordered /\ Fresh
  <2> SUFFICES ASSUME Init PROVE Ordered /\ Fresh
    OBVIOUS
  <2>1. /\ Queries(toMain) = {} /\ Len(responses) = 0 /\ Len(answers) = 0
        /\ Len(toMain) = 0 /\ timeouts = 0 /\ Waits = 0
    BY DEF Init, Queries, Waits
  <2>2. Cardinality(Queries(toMain)) = 0
    BY <2>1, FS_EmptySet
  <2> QED
    BY <2>1, <2>2
       DEF Ordered, ToMainOrdered, ResponsesOlder, AnswersOlder, AllAsked, Fresh,
           Increasing, PendingOnly, NeverEarly, FewUnderWay, UnderWay
<1>2. TypeOK /\ ThreadBound /\ Ordered /\ Fresh /\ [Next]_vars => Ordered' /\ Fresh'
  BY OrderedStep, IncreasingStep, FewUnderWayStep, PendingOnlyStep, NeverEarlyStep
     DEF Fresh
<1>3. TypeOK /\ Fresh => StaleOnlyByTimeout
  <2> SUFFICES ASSUME TypeOK, Fresh PROVE StaleOnlyByTimeout
    OBVIOUS
  <2>1. DOMAIN answers = 1 .. Len(answers)
    BY DEF TypeOK
  <2> QED
    BY <2>1 DEF Fresh, Increasing, PendingOnly, NeverEarly, FewUnderWay, Waits,
                StaleOnlyByTimeout
<1> QED
  BY <1>1, <1>2, <1>3, TypeCorrectness, ThreadBoundInvariance, PTL DEF Spec
=============================================================================
