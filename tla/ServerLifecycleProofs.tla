------------------------- MODULE ServerLifecycleProofs -------------------------
(***************************************************************************)
(* What holds of the life of the threads, sockets and memory for any       *)
(* number of messages: nothing is freed under a thread that was waited     *)
(* for, and every end of a socketpair is closed as often as EndsClosed     *)
(* says.  Both rest on what is known at each place of the main thread: who *)
(* has been waited for there, and what it has freed and closed so far.     *)
(***************************************************************************)
EXTENDS ServerLifecycle, TLAPS

(* A thread nobody has to wait for any longer. *)
Settled(t) == Over(t) \/ t \in gaveUp

(* Places of the main thread: before the socketpairs are complete, in the  *)
(* teardown of the server and of the application.                          *)
Beginning == {"start", "pairs", "threads"}
Ending    == {"free", "close", "disconnect", "destroy", "sockets", "end"}
Aborted   == {"failed", "join reader", "join sender"}

(* Who is running where.  The control sender is only waited for when the   *)
(* start has failed.                                                       *)
Waited ==
    /\ main \in Beginning \cup Ending \cup {"join sender"} => Settled("reader")
    /\ main \in Beginning \cup Ending /\ ~started => Settled("sender")
    /\ main \notin {"loop", "stop video", "join video"} => Settled("video")
    /\ main \notin {"loop", "stop video", "join video", "stop audio", "join audio"}
         => Settled("audio")

(* Where the main thread must have come before it freed something. *)
FreedLate ==
    /\ memory["reader"] = "freed" => main \in Ending \ {"free"}
    /\ memory["connection"] = "freed" => main \in {"destroy", "sockets", "end"}
    /\ \A o \in {"video decoder", "audio decoder"} :
          memory[o] = "freed" => main \in {"sockets", "end"}

(* The socketpairs of a start that went on are those of the streams asked  *)
(* for, and a pipeline runs on one of these.                               *)
PairsMade ==
    /\ main \in {"start", "pairs"} => created = {} /\ ~started
    /\ main \notin {"start", "pairs"} \cup Aborted \cup Ending /\ main # "stop reader"
         => created = PairOf(wanted)
    /\ \A k \in {"video", "audio"} : pc[k] # "none" => k \in wanted

(* Half a socketpair was made only by a start that failed there.           *)
HalfMade ==
    /\ half # {} => main \in Aborted \cup Ending /\ ~started
    /\ \A e \in half : e \in Ends \ created /\ e[2] = "read"

(* What server_destroy or the cleanup has closed, and what                 *)
(* application_destroy has.                                                *)
ByItself(e)      == e \in half
ByServer(e)      == IF started THEN e = <<"video", "write">> ELSE e \in created \cup half
ByApplication(e) == e \in created /\ e[2] = "read"
Times(b)         == IF b THEN 1 ELSE 0

ClosedSoFar ==
    /\ main \notin {"disconnect", "destroy", "sockets", "end"} =>
          \A e \in Ends : closes[e] = Times(ByItself(e))
    /\ main \in {"disconnect", "destroy", "sockets"} =>
          \A e \in Ends : closes[e] = Times(ByItself(e)) + Times(ByServer(e))
    /\ main = "end" =>
          \A e \in Ends : closes[e] = Times(ByItself(e)) + Times(ByServer(e))
                                        + Times(ByApplication(e))

(* The inductive invariant. *)
IInv == TypeOK /\ Waited /\ FreedLate /\ PairsMade /\ HalfMade /\ ClosedSoFar

----------------------------------------------------------------------------
(* The program starts with nothing running, open or allocated. *)
LEMMA InitIInv == Init => IInv
<1> SUFFICES ASSUME Init PROVE IInv
  OBVIOUS
<1>1. TypeOK
  BY BoundsAssumption DEF Init, TypeOK, Kinds, Threads, Objects, Ends
<1>2. Waited
  BY DEF Init, Waited, Settled, Over, Threads, Beginning, Ending
<1>3. FreedLate
  BY DEF Init, FreedLate, Objects
<1>4. PairsMade
  BY DEF Init, PairsMade, Threads
<1>5. ClosedSoFar
  BY DEF Init, ClosedSoFar, ByItself, Times
<1>6. HalfMade
  BY DEF Init, HalfMade
<1> QED
  BY <1>1, <1>2, <1>3, <1>4, <1>5, <1>6 DEF IInv

(* What the steps do to the places of the threads and to the data under    *)
(* way, whatever thread takes them.                                        *)
PcPlaces == {"none", "test", "recv", "busy", "decode", "exit", "done"}

LEMMA StepPlace ==
    ASSUME TypeOK, NEW t \in Threads, NEW from, NEW to \in PcPlaces, Step(t, from, to)
    PROVE  pc' \in [Threads -> PcPlaces]
  BY DEF TypeOK, Step, PcPlaces

LEMMA Successor == \A n \in Nat : n + 1 \in Nat
  OBVIOUS

LEMMA TakeData ==
    ASSUME TypeOK, NEW k \in Kinds, Take(k)
    PROVE  data' \in [Kinds -> Nat]
<1>1. data \in [Kinds -> Nat] /\ data[k] > 0
  BY DEF TypeOK, Take
<1>2. data[k] - 1 \in Nat
  BY <1>1
<1> QED
  BY <1>1, <1>2 DEF Take

LEMMA PutData ==
    ASSUME TypeOK, NEW k \in Kinds, data' = [data EXCEPT ![k] = @ + 1]
    PROVE  data' \in [Kinds -> Nat]
<1>1. data \in [Kinds -> Nat]
  BY DEF TypeOK
<1>2. data[k] + 1 \in Nat
  BY <1>1
<1> QED
  BY <1>1, <1>2

LEMMA ClosedCounts ==
    ASSUME TypeOK, NEW es, Closed(es)
    PROVE  closes' \in [Ends -> Nat]
<1>1. closes \in [Ends -> Nat]
  BY DEF TypeOK
<1> QED
  BY <1>1 DEF Closed

(* What the creation of the socketpairs may leave half made. *)
LEMMA HalfOfAPair ==
    ASSUME TypeOK, MakePairs
    PROVE  /\ half' \subseteq Ends /\ \A e \in half' : e \notin created' /\ e[2] = "read"
           /\ half' # {} => main' = "failed"
<1>1. PICK n \in 0 .. 3 :
        /\ created' = PairOf({k \in wanted : Position[k] <= n})
        /\ half' \in {{}, {k \in wanted : Position[k] = n + 1} \X {"read"}}
        /\ main' = IF {k \in wanted : Position[k] <= n} = wanted
                     THEN "threads" ELSE "failed"
  BY DEF MakePairs, Goto
<1>2. ASSUME NEW e \in half'
      PROVE  /\ e \in Ends /\ e \notin created' /\ e[2] = "read"
             /\ e[1] \in wanted /\ ~(Position[e[1]] <= n)
  <2>1. PICK k \in wanted : Position[k] = n + 1 /\ e = <<k, "read">>
    BY <1>1, <1>2
  <2>2. ~(Position[k] <= n)
    BY <2>1
  <2>3. e[1] = k /\ e[2] = "read" /\ e \in Ends
    BY <2>1 DEF Ends, TypeOK
  <2>4. e \notin created'
    BY <1>1, <2>1, <2>2 DEF PairOf
  <2> QED
    BY <2>1, <2>2, <2>3, <2>4
<1> QED
  BY <1>1, <1>2

(* The tables that say where the main thread goes next. *)
LEMMA Tables ==
    /\ \A k \in Kinds : After[k] \in {"audio", "control", "metadata"}
    /\ Next2["video"] = "stop audio" /\ Next2["audio"] = "stop reader"
    /\ StopOf["video"] = "stop video" /\ StopOf["audio"] = "stop audio"
    /\ JoinOf["video"] = "join video" /\ JoinOf["audio"] = "join audio"
<1>1. After["video"] = "audio" /\ After["audio"] = "control"
      /\ After["control"] = "metadata"
  BY DEF After
<1>2. Next2["video"] = "stop audio" /\ Next2["audio"] = "stop reader"
  BY DEF Next2
<1>3. StopOf["video"] = "stop video" /\ StopOf["audio"] = "stop audio"
  BY DEF StopOf
<1>4. JoinOf["video"] = "join video" /\ JoinOf["audio"] = "join audio"
  BY DEF JoinOf
<1> QED
  BY <1>1, <1>2, <1>3, <1>4 DEF Kinds

LEMMA Members ==
    /\ "video" \in Kinds /\ "audio" \in Kinds /\ "control" \in Kinds
    /\ \A t \in {"reader", "sender", "video", "audio"} : t \in Threads
  BY DEF Kinds, Threads

(* Every step keeps the types.  A pipeline shuts down the read end of a    *)
(* socketpair there is.                                                    *)
LEMMA NextType == IInv /\ [Next]_vars => TypeOK'
<1> SUFFICES ASSUME IInv, [Next]_vars PROVE TypeOK'
  OBVIOUS
<1> USE DEF IInv, TypeOK, flags, adb, sockets, Goto
<1>1. CASE Connect
  BY <1>1 DEF Connect, Live, Threads, Objects
<1>2. CASE MakePairs
  <2>1. PICK n \in 0 .. 3 : created' = PairOf({k \in wanted : Position[k] <= n})
    BY <1>2 DEF MakePairs
  <2>2. created' \subseteq Ends
    BY <2>1 DEF PairOf, Ends
  <2>3. UNCHANGED shut /\ shut = {} /\ main' \in {"threads", "failed"}
    BY <1>2 DEF MakePairs, PairsMade
  <2>4. half' \subseteq Ends /\ closes' \in [Ends -> Nat]
    BY <1>2, HalfOfAPair, ClosedCounts DEF MakePairs
  <2> QED
    BY <1>2, <2>2, <2>3, <2>4 DEF MakePairs
<1>3. CASE StartThreads
  <2>1. pc' \in [Threads -> PcPlaces]
    BY <1>3 DEF StartThreads, PcPlaces
  <2>2. memory' \in [Objects -> {"none", "live", "freed"}]
    BY <1>3 DEF StartThreads, Live
  <2>3. running' \subseteq Threads
    BY <1>3, Members DEF StartThreads
  <2> QED
    BY <1>3, <2>1, <2>2, <2>3 DEF StartThreads, PcPlaces
<1>4. ASSUME NEW k \in Kinds, Wait(k) PROVE TypeOK'
  <2>1. main' \in {"audio", "control", "metadata", "failed"}
    BY <1>4, Tables DEF Wait
  <2> QED
    BY <1>4, <2>1 DEF Wait
<1>5. CASE ReadMetadata
  <2>1. data' \in [Kinds -> Nat]
    BY <1>5, Members, TakeData DEF ReadMetadata
  <2> QED
    BY <1>5, <2>1 DEF ReadMetadata
<1>6. CASE ReadAudioMetadata
  <2>1. data' \in [Kinds -> Nat]
    BY <1>6, Members, TakeData DEF ReadAudioMetadata
  <2> QED
    BY <1>6, <2>1 DEF ReadAudioMetadata
<1>7. CASE InitVideoDecoder
  BY <1>7 DEF InitVideoDecoder
<1>8. CASE StartPipelines
  <2>1. pc' \in [Threads -> PcPlaces]
    BY <1>8 DEF StartPipelines, PcPlaces
  <2>2. running' \subseteq Threads
    BY <1>8 DEF StartPipelines, Kinds, Threads
  <2> QED
    BY <1>8, <2>1, <2>2 DEF StartPipelines, PcPlaces
<1>9. ASSUME NEW k \in {"video", "audio"}, StopPipeline(k) PROVE TypeOK'
  <2>1. main' \in {"stop audio", "stop reader", "join video", "join audio"}
    BY <1>9, Tables DEF StopPipeline
  <2>2. shut' \subseteq created /\ UNCHANGED created
    <3>1. CASE pc[k] = "none"
      BY <1>9, <3>1 DEF StopPipeline
    <3>2. CASE pc[k] # "none"
      <4>1. main \in {"stop video", "stop audio"}
        BY <1>9, Tables DEF StopPipeline
      <4>2. created = PairOf(wanted)
        BY <4>1 DEF PairsMade, Aborted, Ending
      <4>3. k \in wanted
        BY <3>2 DEF PairsMade
      <4>4. <<k, "read">> \in created
        BY <4>2, <4>3 DEF PairOf
      <4> QED
        BY <1>9, <4>4 DEF StopPipeline
    <3> QED
      BY <3>1, <3>2
  <2> QED
    BY <1>9, <2>1, <2>2 DEF StopPipeline
<1>10. ASSUME NEW k \in {"video", "audio"}, JoinPipeline(k) PROVE TypeOK'
  <2>1. main' \in {"stop audio", "stop reader"}
    BY <1>10, Tables DEF JoinPipeline
  <2>2. gaveUp' \subseteq Threads
    BY <1>10, Members DEF JoinPipeline
  <2> QED
    BY <1>10, <2>1, <2>2 DEF JoinPipeline
<1>11. CASE StopReader
  BY <1>11 DEF StopReader
<1>12. CASE JoinReader
  <2>1. gaveUp' \subseteq Threads
    BY <1>12, Members DEF JoinReader
  <2> QED
    BY <1>12, <2>1 DEF JoinReader
<1>13. CASE JoinSender
  <2>1. gaveUp' \subseteq Threads
    BY <1>13, Members DEF JoinSender
  <2> QED
    BY <1>13, <2>1 DEF JoinSender
<1>14. CASE FreeReader
  BY <1>14 DEF FreeReader, Freed, Objects
<1>15. CASE Close
  <2>1. closes' \in [Ends -> Nat]
    BY <1>15, ClosedCounts DEF Close
  <2> QED
    BY <1>15, <2>1 DEF Close
<1>16. CASE Disconnect
  BY <1>16 DEF Disconnect, Freed, Objects
<1>17. CASE DestroyDecoders
  BY <1>17 DEF DestroyDecoders, Freed, Objects
<1>18. CASE CloseSockets
  <2>1. closes' \in [Ends -> Nat]
    BY <1>18, ClosedCounts DEF CloseSockets
  <2> QED
    BY <1>18, <2>1 DEF CloseSockets
<1>19. CASE WriteControl
  <2>1. data' \in [Kinds -> Nat]
    BY <1>19, Members, PutData DEF WriteControl
  <2> QED
    BY <1>19, <2>1 DEF WriteControl
<1>20. CASE Quit
  BY <1>20 DEF Quit
<1>21. CASE ReaderReceives
  <2>1. pc' \in [Threads -> PcPlaces]
    BY <1>21, Members, StepPlace DEF ReaderReceives, PcPlaces
  <2>2. messages' \in Nat
    <3>1. messages \in Nat /\ messages' = messages + 1
      BY <1>21 DEF ReaderReceives
    <3> QED
      BY <3>1, Successor, Zenon
  <2> QED
    BY <1>21, <2>1, <2>2 DEF ReaderReceives, PcPlaces
<1>22. CASE ReaderHandles
  <2>1. pc' \in [Threads -> PcPlaces]
    BY <1>22, Members, StepPlace DEF ReaderHandles, PcPlaces
  <2>2. data' \in [Kinds -> Nat]
    BY <1>22, PutData DEF ReaderHandles
  <2>3. open' \subseteq wanted
    BY <1>22 DEF ReaderHandles
  <2> QED
    BY <1>22, <2>1, <2>2, <2>3 DEF ReaderHandles, PcPlaces
<1>23. CASE ReaderFails
  <2>1. pc' \in [Threads -> PcPlaces]
    BY <1>23, Members, StepPlace DEF ReaderFails, PcPlaces
  <2> QED
    BY <1>23, <2>1 DEF ReaderFails, PcPlaces
<1>24. CASE ReaderExits
  <2>1. pc' \in [Threads -> PcPlaces]
    BY <1>24, Members, StepPlace DEF ReaderExits, PcPlaces
  <2> QED
    BY <1>24, <2>1 DEF ReaderExits, PcPlaces
<1>25. CASE SenderTests
  <2>1. pc' \in [Threads -> PcPlaces]
    BY <1>25, Members, StepPlace DEF SenderTests, PcPlaces
  <2> QED
    BY <1>25, <2>1 DEF SenderTests, PcPlaces
<1>26. CASE SenderReceives
  <2>1. pc' \in [Threads -> PcPlaces]
    BY <1>26, Members, StepPlace DEF SenderReceives, PcPlaces
  <2>2. data' \in [Kinds -> Nat]
    BY <1>26, Members, TakeData DEF SenderReceives
  <2> QED
    BY <1>26, <2>1, <2>2 DEF SenderReceives, PcPlaces
<1>27. CASE SenderSends
  <2>1. pc' \in [Threads -> PcPlaces]
    BY <1>27, Members, StepPlace DEF SenderSends, PcPlaces
  <2> QED
    BY <1>27, <2>1 DEF SenderSends, PcPlaces
<1>28. ASSUME NEW k \in {"video", "audio"}, PipelineTests(k) PROVE TypeOK'
  <2>1. pc' \in [Threads -> PcPlaces]
    BY <1>28, Members, StepPlace DEF PipelineTests, PcPlaces
  <2> QED
    BY <1>28, <2>1 DEF PipelineTests, PcPlaces
<1>29. ASSUME NEW k \in {"video", "audio"}, PipelineReceives(k) PROVE TypeOK'
  <2>1. pc' \in [Threads -> PcPlaces]
    BY <1>29, Members, StepPlace DEF PipelineReceives, PcPlaces
  <2>2. data' \in [Kinds -> Nat]
    BY <1>29, Members, TakeData DEF PipelineReceives
  <2> QED
    BY <1>29, <2>1, <2>2 DEF PipelineReceives, PcPlaces
<1>30. ASSUME NEW k \in {"video", "audio"}, PipelineDecodes(k) PROVE TypeOK'
  <2>1. pc' \in [Threads -> PcPlaces]
    BY <1>30, Members, StepPlace DEF PipelineDecodes, PcPlaces
  <2> QED
    BY <1>30, <2>1 DEF PipelineDecodes, PcPlaces
<1>31. CASE Break
  BY <1>31 DEF Break
<1>32. CASE UNCHANGED vars
  BY <1>32 DEF vars
<1> QED
  BY <1>1, <1>2, <1>3, <1>4, <1>5, <1>6, <1>7, <1>8, <1>9, <1>10, <1>11, <1>12, <1>13, <1>14, <1>15, <1>16, <1>17, <1>18, <1>19, <1>20, <1>21, <1>22, <1>23, <1>24, <1>25, <1>26, <1>27, <1>28, <1>29, <1>30, <1>31, <1>32
     DEF Next, Main, Reader, Sender, Pipeline

(* A thread that takes a step has not ended; it settles nothing and, as    *)
(* the main thread stands still, it unsettles nothing.                     *)
LEMMA StepSettled ==
    ASSUME TypeOK, Waited, NEW t \in Threads, NEW from, NEW to, Step(t, from, to),
           from \notin {"none", "done"}, UNCHANGED <<main, started, gaveUp>>
    PROVE  Waited'
<1>1. \A u \in Threads : Settled(u) => Settled(u)'
  BY DEF TypeOK, Step, Settled, Over
<1> QED
  BY <1>1, Members DEF Waited

(* server_start starts no pipeline. *)
LEMMA StartedThreads ==
    ASSUME TypeOK, StartThreads
    PROVE  pc'["video"] = pc["video"] /\ pc'["audio"] = pc["audio"]
<1>1. pc \in [Threads -> PcPlaces]
  BY DEF TypeOK, PcPlaces
<1>2. ASSUME NEW r, NEW s, pc' = [pc EXCEPT !["reader"] = r, !["sender"] = s]
      PROVE  pc'["video"] = pc["video"] /\ pc'["audio"] = pc["audio"]
  BY <1>1, <1>2, Members
<1> QED
  BY <1>2 DEF StartThreads

(* Every step keeps who has been waited for. *)
LEMMA NextWaited == IInv /\ [Next]_vars => Waited'
<1> SUFFICES ASSUME IInv, [Next]_vars PROVE Waited'
  OBVIOUS
<1>0. TypeOK /\ Waited
  BY DEF IInv
<1> USE DEF flags, adb, sockets, Goto
<1>1. CASE Connect
  BY <1>0, <1>1 DEF Connect, Waited, Settled, Over, Beginning, Ending
<1>2. CASE MakePairs
  BY <1>0, <1>2 DEF MakePairs, Waited, Settled, Over, Beginning, Ending
<1>3. CASE StartThreads
  <2>1. pc'["video"] = pc["video"] /\ pc'["audio"] = pc["audio"]
    BY <1>0, <1>3, StartedThreads
  <2>2. main = "threads" /\ main' \in {"failed", "video"}
    BY <1>3 DEF StartThreads
  <2> QED
    BY <1>0, <1>3, <2>1, <2>2
       DEF StartThreads, Waited, Settled, Over, Beginning, Ending
<1>4. ASSUME NEW k \in Kinds, Wait(k) PROVE Waited'
  <2>1. main \in Kinds /\ main' \in {"audio", "control", "metadata", "failed"}
    BY <1>4, Tables DEF Wait
  <2> QED
    BY <1>0, <1>4, <2>1 DEF Wait, Waited, Settled, Over, Beginning, Ending, Kinds
<1>5. CASE ReadMetadata \/ ReadAudioMetadata \/ InitVideoDecoder
  BY <1>0, <1>5 DEF ReadMetadata, ReadAudioMetadata, InitVideoDecoder, Waited, Settled,
                    Over, Beginning, Ending
<1>6. CASE StartPipelines
  BY <1>0, <1>6 DEF StartPipelines, Waited, Beginning, Ending
<1>7. CASE WriteControl \/ Quit
  BY <1>0, <1>7 DEF WriteControl, Quit, Waited, Settled, Over, Beginning, Ending
<1>8. CASE StopPipeline("video") \/ StopPipeline("audio")
  BY <1>0, <1>8, Tables DEF StopPipeline, Waited, Settled, Over, Beginning, Ending
<1>9. CASE JoinPipeline("video") \/ JoinPipeline("audio")
  BY <1>0, <1>9, Tables DEF JoinPipeline, Waited, Settled, Over, Beginning, Ending
<1>10. CASE StopReader \/ JoinReader \/ JoinSender
  BY <1>0, <1>10 DEF StopReader, JoinReader, JoinSender, Waited, Settled, Over,
                     Beginning, Ending
<1>11. CASE FreeReader \/ Close \/ Disconnect \/ DestroyDecoders \/ CloseSockets
  BY <1>0, <1>11 DEF FreeReader, Close, Disconnect, DestroyDecoders, CloseSockets,
                     Waited, Settled, Over, Beginning, Ending
<1>12. CASE Reader
  BY <1>0, <1>12, StepSettled, Members
     DEF Reader, ReaderReceives, ReaderHandles, ReaderFails, ReaderExits
<1>13. CASE Sender
  BY <1>0, <1>13, StepSettled, Members
     DEF Sender, SenderTests, SenderReceives, SenderSends
<1>14. ASSUME NEW k \in {"video", "audio"}, Pipeline(k) PROVE Waited'
  BY <1>0, <1>14, StepSettled, Members
     DEF Pipeline, PipelineTests, PipelineReceives, PipelineDecodes
<1>15. CASE Break \/ UNCHANGED vars
  BY <1>0, <1>15 DEF Break, vars, Waited, Settled, Over
<1> QED
  BY <1>1, <1>2, <1>3, <1>4, <1>5, <1>6, <1>7, <1>8, <1>9, <1>10, <1>11, <1>12,
     <1>13, <1>14, <1>15 DEF Next, Main

(* Steps of the other threads free, create and close nothing. *)
LEMMA OthersLeave ==
    ASSUME \/ Reader \/ Sender \/ (\E k \in {"video", "audio"} : Pipeline(k))
           \/ Break \/ WriteControl \/ UNCHANGED vars
    PROVE  UNCHANGED <<main, wanted, started, created, half, closes, memory>>
  BY DEF Reader, ReaderReceives, ReaderHandles, ReaderFails, ReaderExits, Sender,
         SenderTests, SenderReceives, SenderSends, Pipeline, PipelineTests,
         PipelineReceives, PipelineDecodes, Break, WriteControl, vars, sockets, adb, flags

(* Every step keeps when what is freed. *)
LEMMA NextFreedLate == IInv /\ [Next]_vars => FreedLate'
<1> SUFFICES ASSUME IInv, [Next]_vars PROVE FreedLate'
  OBVIOUS
<1>0. TypeOK /\ FreedLate
  BY DEF IInv
<1> USE DEF flags, adb, sockets, Goto
<1>1. CASE Connect \/ StartThreads
  <2>1. \/ memory' = memory
        \/ memory' = [memory EXCEPT !["connection"] = "live"]
        \/ memory' = [memory EXCEPT !["reader"] = "live"]
    BY <1>1 DEF Connect, StartThreads, Live
  <2>2. \A o \in Objects : memory'[o] = "freed" => memory[o] = "freed"
    BY <1>0, <2>1 DEF TypeOK
  <2>3. main \in {"start", "threads"}
    BY <1>1 DEF Connect, StartThreads
  <2> QED
    BY <1>0, <2>2, <2>3 DEF FreedLate, Ending, Objects
<1>2. CASE FreeReader \/ Disconnect \/ DestroyDecoders
  <2>1. CASE FreeReader
    BY <1>0, <2>1 DEF FreeReader, Freed, FreedLate, Ending, Objects
  <2>2. CASE Disconnect
    BY <1>0, <2>2 DEF Disconnect, Freed, FreedLate, Ending, Objects
  <2>3. CASE DestroyDecoders
    BY <1>0, <2>3 DEF DestroyDecoders, Freed, FreedLate, Ending, Objects
  <2> QED
    BY <1>2, <2>1, <2>2, <2>3
<1>3. CASE Close \/ CloseSockets
  BY <1>0, <1>3 DEF Close, CloseSockets, FreedLate, Ending
<1>4. CASE StopReader \/ JoinReader \/ JoinSender \/ MakePairs
  BY <1>0, <1>4 DEF StopReader, JoinReader, JoinSender, MakePairs, FreedLate, Ending
<1>5. ASSUME NEW k \in Kinds, Wait(k) PROVE FreedLate'
  BY <1>0, <1>5, Tables DEF Wait, Kinds, FreedLate, Ending
<1>6. CASE ReadMetadata \/ ReadAudioMetadata \/ InitVideoDecoder \/ StartPipelines \/ Quit
  BY <1>0, <1>6 DEF ReadMetadata, ReadAudioMetadata, InitVideoDecoder, StartPipelines,
                    Quit, FreedLate, Ending
<1>7. ASSUME NEW k \in {"video", "audio"}, StopPipeline(k) \/ JoinPipeline(k)
      PROVE  FreedLate'
  BY <1>0, <1>7, Tables DEF StopPipeline, JoinPipeline, FreedLate, Ending
<1>8. CASE \/ Reader \/ Sender \/ (\E k \in {"video", "audio"} : Pipeline(k))
           \/ Break \/ WriteControl \/ UNCHANGED vars
  BY <1>0, <1>8, OthersLeave DEF FreedLate
<1> QED
  BY <1>1, <1>2, <1>3, <1>4, <1>5, <1>6, <1>7, <1>8 DEF Next, Main

(* Every step keeps which socketpairs there are. *)
LEMMA NextPairsMade == IInv /\ [Next]_vars => PairsMade'
<1> SUFFICES ASSUME IInv, [Next]_vars PROVE PairsMade'
  OBVIOUS
<1>0. TypeOK /\ PairsMade
  BY DEF IInv
<1> USE DEF flags, adb, sockets, Goto
<1>1. CASE Connect
  BY <1>0, <1>1 DEF Connect, PairsMade, Aborted, Ending
<1>2. CASE MakePairs
  <2>1. PICK n \in 0 .. 3 :
          /\ created' = PairOf({k \in wanted : Position[k] <= n})
          /\ main' = IF {k \in wanted : Position[k] <= n} = wanted
                       THEN "threads" ELSE "failed"
    BY <1>2 DEF MakePairs
  <2>2. main' = "threads" => created' = PairOf(wanted)
    BY <2>1
  <2>3. main' \in {"threads", "failed"} /\ UNCHANGED <<wanted, pc>>
    BY <1>2, <2>1 DEF MakePairs
  <2> QED
    BY <1>0, <2>2, <2>3 DEF PairsMade, Aborted, Ending, PairOf
<1>3. CASE StartThreads
  <2>1. pc'["video"] = pc["video"] /\ pc'["audio"] = pc["audio"]
    BY <1>0, <1>3, StartedThreads
  <2>2. main = "threads" /\ main' \in {"failed", "video"} /\ UNCHANGED <<wanted, created>>
    BY <1>3 DEF StartThreads
  <2> QED
    BY <1>0, <2>1, <2>2 DEF PairsMade, Aborted, Ending, PairOf
<1>4. CASE StartPipelines
  <2>1. \A k \in {"video", "audio"} : pc'[k] # "none" => pc[k] # "none" \/ k \in wanted
    BY <1>0, <1>4, Members DEF StartPipelines
  <2>2. main = "pipelines" /\ main' = "loop" /\ UNCHANGED <<wanted, created>>
    BY <1>4 DEF StartPipelines
  <2> QED
    BY <1>0, <2>1, <2>2 DEF PairsMade, Aborted, Ending, PairOf
<1>5. ASSUME UNCHANGED <<wanted, created, pc>>, main \notin {"start", "pairs"},
             main \in Aborted \cup Ending \cup {"stop reader"} =>
                main' \in Aborted \cup Ending \cup {"stop reader"},
             main' \notin {"start", "pairs"}
      PROVE  PairsMade'
  BY <1>0, <1>5 DEF PairsMade, PairOf, Aborted, Ending
<1>6. CASE \/ ReadMetadata \/ ReadAudioMetadata \/ InitVideoDecoder \/ Quit
           \/ StopReader \/ JoinReader \/ JoinSender \/ FreeReader \/ Close
           \/ Disconnect \/ DestroyDecoders \/ CloseSockets
  BY <1>5, <1>6 DEF ReadMetadata, ReadAudioMetadata, InitVideoDecoder, Quit, StopReader,
                    JoinReader, JoinSender, FreeReader, Close, Disconnect,
                    DestroyDecoders, CloseSockets, Aborted, Ending
<1>7. ASSUME NEW k \in Kinds, Wait(k) PROVE PairsMade'
  <2>1. main \in Kinds /\ main' \in {"audio", "control", "metadata", "failed"}
    BY <1>7, Tables DEF Wait
  <2> QED
    BY <1>5, <1>7, <2>1 DEF Wait, Aborted, Ending, Kinds
<1>8. ASSUME NEW k \in {"video", "audio"}, StopPipeline(k) \/ JoinPipeline(k)
      PROVE  PairsMade'
  BY <1>5, <1>8, Tables DEF StopPipeline, JoinPipeline, Aborted, Ending
<1>9. ASSUME NEW t \in Threads, NEW from, NEW to, Step(t, from, to), from # "none",
             UNCHANGED <<main, wanted, started, created>>
      PROVE  PairsMade'
  <2>1. \A k \in {"video", "audio"} : pc'[k] # "none" => pc[k] # "none"
    BY <1>0, <1>9, Members DEF Step, TypeOK
  <2> QED
    BY <1>0, <1>9, <2>1 DEF PairsMade, PairOf
<1>10. CASE Reader \/ Sender
  BY <1>9, <1>10, Members
     DEF Reader, ReaderReceives, ReaderHandles, ReaderFails, ReaderExits,
         Sender, SenderTests, SenderReceives, SenderSends
<1>11. ASSUME NEW k \in {"video", "audio"}, Pipeline(k) PROVE PairsMade'
  BY <1>9, <1>11, Members DEF Pipeline, PipelineTests, PipelineReceives, PipelineDecodes
<1>12. CASE Break \/ WriteControl \/ UNCHANGED vars
  <2>1. UNCHANGED <<main, wanted, started, created, pc>>
    BY <1>12 DEF Break, WriteControl, vars
  <2> QED
    BY <1>0, <2>1 DEF PairsMade, PairOf
<1> QED
  BY <1>1, <1>2, <1>3, <1>4, <1>6, <1>7, <1>8, <1>10, <1>11, <1>12 DEF Next, Main

(* Every step keeps what is known of half a socketpair: the main thread    *)
(* does not leave the ways that end the program.                           *)
LEMMA NextHalfMade == IInv /\ [Next]_vars => HalfMade'
<1> SUFFICES ASSUME IInv, [Next]_vars PROVE HalfMade'
  OBVIOUS
<1>0. HalfMade /\ TypeOK
  BY DEF IInv
<1> USE DEF flags, adb, sockets, Goto
<1>1. CASE MakePairs
  <2>1. UNCHANGED started /\ ~started
    BY <1>1 DEF MakePairs, IInv, PairsMade
  <2> QED
    BY <1>0, <1>1, <2>1, HalfOfAPair DEF HalfMade, Aborted
<1>2. ASSUME UNCHANGED <<half, created, started>>,
             main \in Aborted \cup Ending => main' \in Aborted \cup Ending
      PROVE  HalfMade'
  BY <1>0, <1>2 DEF HalfMade, Aborted, Ending
<1>3. CASE Connect \/ StartThreads
  BY <1>2, <1>3 DEF Connect, StartThreads, Aborted, Ending
<1>4. CASE ReadMetadata
  <2>1. half = {} /\ UNCHANGED <<half, created>>
    BY <1>0, <1>4 DEF ReadMetadata, HalfMade, Aborted, Ending
  <2> QED
    BY <2>1 DEF HalfMade
<1>5. CASE ReadAudioMetadata \/ InitVideoDecoder \/ StartPipelines \/ Quit
  BY <1>2, <1>5 DEF ReadAudioMetadata, InitVideoDecoder, StartPipelines, Quit, Aborted,
                    Ending
<1>6. CASE \/ StopReader \/ JoinReader \/ JoinSender \/ FreeReader \/ Close
           \/ Disconnect \/ DestroyDecoders \/ CloseSockets
  BY <1>2, <1>6 DEF StopReader, JoinReader, JoinSender, FreeReader, Close, Disconnect,
                    DestroyDecoders, CloseSockets, Aborted, Ending
<1>7. ASSUME NEW k \in Kinds, Wait(k) PROVE HalfMade'
  BY <1>2, <1>7 DEF Wait, Kinds, Aborted, Ending
<1>8. ASSUME NEW k \in {"video", "audio"}, StopPipeline(k) \/ JoinPipeline(k)
      PROVE  HalfMade'
  BY <1>2, <1>8, Tables DEF StopPipeline, JoinPipeline, Aborted, Ending
<1>9. CASE \/ Reader \/ Sender \/ (\E k \in {"video", "audio"} : Pipeline(k))
           \/ Break \/ WriteControl \/ UNCHANGED vars
  BY <1>2, <1>9, OthersLeave
<1> QED
  BY <1>1, <1>3, <1>4, <1>5, <1>6, <1>7, <1>8, <1>9 DEF Next, Main

(* Every step keeps how often what was closed.  The three steps that close *)
(* something are MakePairs, Close and CloseSockets, and only a start that  *)
(* fails before it has made socketpairs skips the second.                  *)
LEMMA NextClosedSoFar == IInv /\ [Next]_vars => ClosedSoFar'
<1> SUFFICES ASSUME IInv, [Next]_vars PROVE ClosedSoFar'
  OBVIOUS
<1>0. ClosedSoFar /\ PairsMade /\ HalfMade /\ closes \in [Ends -> Nat]
  BY DEF IInv, TypeOK
<1> USE DEF flags, adb, sockets, Goto
<1>1. CASE Connect
  <2>1. /\ main = "start" /\ main' \in {"destroy", "failed", "pairs"}
        /\ UNCHANGED <<closes, half, created, started>>
    BY <1>1 DEF Connect
  <2>2. half = {} /\ created = {} /\ ~started
    BY <1>0, <2>1 DEF HalfMade, PairsMade, Aborted, Ending
  <2>3. \A e \in Ends : closes[e] = 0
    BY <1>0, <2>1, <2>2 DEF ClosedSoFar, ByItself, Times
  <2> QED
    BY <2>1, <2>2, <2>3 DEF ClosedSoFar, ByItself, ByServer, Times
<1>2. CASE Close
  <2>1. CASE started
    BY <1>0, <1>2, <2>1
       DEF Close, Closed, ClosedSoFar, ByItself, ByServer, Times
  <2>2. CASE ~started
    BY <1>0, <1>2, <2>2
       DEF Close, Closed, ClosedSoFar, ByItself, ByServer, Times
  <2> QED
    BY <2>1, <2>2
<1>3. CASE CloseSockets
  <2>1. \A e \in Ends : closes'[e] = closes[e] + Times(ByApplication(e))
    BY <1>0, <1>3 DEF CloseSockets, Closed, ByApplication, Times
  <2>2. \A e \in Ends : closes[e] = Times(ByItself(e)) + Times(ByServer(e))
    BY <1>0, <1>3 DEF CloseSockets, ClosedSoFar
  <2>3. main' = "end" /\ UNCHANGED <<created, half, started>>
    BY <1>3 DEF CloseSockets
  <2>4. \A e : Times(ByItself(e))' = Times(ByItself(e))
               /\ Times(ByServer(e))' = Times(ByServer(e))
               /\ Times(ByApplication(e))' = Times(ByApplication(e))
    BY <2>3 DEF Times, ByItself, ByServer, ByApplication
  <2> QED
    BY <2>1, <2>2, <2>3, <2>4 DEF ClosedSoFar
<1>4. CASE Disconnect \/ DestroyDecoders
  <2>1. /\ main \in {"disconnect", "destroy"} /\ main' \in {"destroy", "sockets"}
        /\ UNCHANGED <<closes, created, half, started>>
    BY <1>4 DEF Disconnect, DestroyDecoders
  <2> QED
    BY <1>0, <2>1 DEF ClosedSoFar, ByItself, ByServer, Times
<1>5. ASSUME UNCHANGED <<closes, half>>,
             main \notin {"disconnect", "destroy", "sockets", "end"},
             main' \notin {"disconnect", "destroy", "sockets", "end"}
      PROVE  ClosedSoFar'
  BY <1>0, <1>5 DEF ClosedSoFar, ByItself, Times
<1>10. CASE MakePairs
  <2>1. /\ main = "pairs" /\ main' \in {"threads", "failed"} /\ half = {}
        /\ \A e \in Ends : closes'[e] = closes[e] + (IF e \in half' THEN 1 ELSE 0)
    BY <1>0, <1>10 DEF MakePairs, HalfMade, Aborted, Ending, Closed
  <2>2. \A e \in Ends : closes[e] = 0
    BY <1>0, <2>1 DEF ClosedSoFar, ByItself, Times
  <2> QED
    BY <2>1, <2>2 DEF ClosedSoFar, ByItself, Times
<1>6. CASE \/ StartThreads \/ ReadMetadata \/ ReadAudioMetadata
           \/ InitVideoDecoder \/ StartPipelines \/ Quit
           \/ StopReader \/ JoinReader \/ JoinSender \/ FreeReader
  BY <1>5, <1>6 DEF StartThreads, ReadMetadata, ReadAudioMetadata,
                    InitVideoDecoder, StartPipelines, Quit, StopReader, JoinReader,
                    JoinSender, FreeReader
<1>7. ASSUME NEW k \in Kinds, Wait(k) PROVE ClosedSoFar'
  BY <1>5, <1>7, Tables DEF Wait, Kinds
<1>8. ASSUME NEW k \in {"video", "audio"}, StopPipeline(k) \/ JoinPipeline(k)
      PROVE  ClosedSoFar'
  BY <1>5, <1>8, Tables DEF StopPipeline, JoinPipeline
<1>9. CASE \/ Reader \/ Sender \/ (\E k \in {"video", "audio"} : Pipeline(k))
           \/ Break \/ WriteControl \/ UNCHANGED vars
  BY <1>0, <1>9, OthersLeave DEF ClosedSoFar, ByItself, ByServer, ByApplication, Times
<1> QED
  BY <1>1, <1>2, <1>3, <1>4, <1>6, <1>7, <1>8, <1>9, <1>10 DEF Next, Main

----------------------------------------------------------------------------
(* The invariant holds in every reachable state. *)
LEMMA Invariance == Spec => []IInv
<1>1. IInv /\ [Next]_vars => IInv'
  BY NextType, NextWaited, NextFreedLate, NextPairsMade, NextHalfMade,
     NextClosedSoFar DEF IInv
<1> QED
  BY InitIInv, <1>1, PTL DEF Spec

(* Type correctness of the life cycle: in particular a pipeline's stop     *)
(* only shuts down a socket there is (server.c, application.c).            *)
THEOREM TypeCorrectness == Spec => []TypeOK
<1>1. IInv => TypeOK
  BY DEF IInv
<1> QED
  BY Invariance, <1>1, PTL

(* Nothing a thread will still touch is freed while the main thread has    *)
(* not given up waiting for it, wherever the start failed or the window    *)
(* was closed; the control sender after a successful start is the          *)
(* exception, for nobody waits for it (server.c: server_destroy).          *)
THEOREM NothingFreedInUse == Spec => []FreedAlone
<1>1. IInv => FreedAlone
  <2> SUFFICES ASSUME IInv, NEW t \in Threads \ gaveUp, NEW o \in Uses(t),
                      memory[o] = "freed"
               PROVE  t = "sender" /\ started
    BY DEF FreedAlone
  <2>1. Waited /\ FreedLate
    BY DEF IInv
  <2>2. CASE t = "reader"
    <3>1. o \in {"reader", "connection"} /\ ~Over("reader")
      BY <2>2 DEF Uses, Over
    <3> QED
      BY <2>1, <2>2, <3>1 DEF Waited, FreedLate, Settled, Ending
  <2>3. CASE t = "sender"
    <3>1. o \in {"reader", "connection"} /\ ~Over("sender")
      BY <2>3 DEF Uses, Over
    <3> QED
      BY <2>1, <2>3, <3>1 DEF Waited, FreedLate, Settled, Ending
  <2>4. CASE t = "video"
    <3>1. o = "video decoder" /\ ~Over("video")
      BY <2>4 DEF Uses, Over
    <3> QED
      BY <2>1, <2>4, <3>1 DEF Waited, FreedLate, Settled
  <2>5. CASE t = "audio"
    <3>1. o = "audio decoder" /\ ~Over("audio")
      BY <2>5 DEF Uses, Over
    <3> QED
      BY <2>1, <2>5, <3>1 DEF Waited, FreedLate, Settled
  <2> QED
    BY <2>2, <2>3, <2>4, <2>5 DEF Threads
<1> QED
  BY Invariance, <1>1, PTL

(* No end of a socketpair is closed twice, but for the read ends after a   *)
(* start that failed (a half socketpair's among them), and all are closed  *)
(* in the end, but for two write ends after one that succeeded (server.c: server_start, server_destroy;  *)
(* application.c: application_destroy).                                    *)
THEOREM EveryEndClosed == Spec => []EndsClosed
<1>1. IInv => EndsClosed
  <2> SUFFICES ASSUME IInv PROVE EndsClosed
    OBVIOUS
  <2>1. ClosedSoFar /\ HalfMade /\ created \subseteq Ends
    BY DEF IInv, TypeOK
  <2>2. ASSUME NEW e \in Ends, closes[e] > 1
        PROVE  ~started /\ e[2] = "read" /\ closes[e] = 2
    <3>1. \/ closes[e] = Times(ByItself(e))
          \/ closes[e] = Times(ByItself(e)) + Times(ByServer(e))
          \/ closes[e] = Times(ByItself(e)) + Times(ByServer(e)) + Times(ByApplication(e))
      BY <2>1, <2>2 DEF ClosedSoFar
    <3>2. CASE e \in half
      BY <2>1, <2>2, <3>1, <3>2 DEF HalfMade, ByItself, ByServer, ByApplication, Times
    <3>3. CASE e \notin half
      BY <2>1, <2>2, <3>1, <3>3 DEF ByItself, ByServer, ByApplication, Times
    <3> QED
      BY <3>2, <3>3
  <2>3. ASSUME main = "end", NEW e \in created, closes[e] = 0
        PROVE  started /\ e \in {<<"audio", "write">>, <<"control", "write">>}
    <3>1. e \in Ends /\ Times(ByServer(e)) + Times(ByApplication(e)) = 0
      BY <2>1, <2>3 DEF ClosedSoFar, Times
    <3>2. started /\ e[2] # "read" /\ e # <<"video", "write">>
      BY <2>3, <3>1 DEF ByServer, ByApplication, Times
    <3> QED
      BY <3>1, <3>2 DEF Ends, Kinds
  <2> QED
    BY <2>2, <2>3 DEF EndsClosed
<1> QED
  BY Invariance, <1>1, PTL
=============================================================================
