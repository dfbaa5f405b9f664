------------------------- MODULE ScriptQueueProofs -------------------------
(***************************************************************************)
(* For every number of threads and every capacity, the semaphore of a      *)
(* script message queue counts its messages: recv never takes from an      *)
(* empty ring and no signal is lost.  The ring it guards is a first-in     *)
(* first-out queue: its steps are those of MessageQueue.                   *)
(***************************************************************************)
EXTENDS ScriptQueue, FiniteSetTheorems, SequenceTheorems, TLAPS

Places == {"idle", "send", "release", "wait", "take"}

(* While drain empties the semaphore nobody else is in a call. *)
DrainAlone == draining => count = 0 /\ \A t \in Threads : pc[t] = "idle"

(* The inductive invariant. *)
IInv == TypeOK /\ SemaphoreCountsMessages /\ DrainAlone

(* There are finitely many threads in any place. *)
LEMMA FiniteWhere ==
  ASSUME NEW f, NEW p
  PROVE  IsFiniteSet(Where(f, p)) /\ Cardinality(Where(f, p)) \in Nat
  <1>1. IsFiniteSet(Threads)
    BY ThreadsAssumption, FS_Union DEF Threads
  <1>2. Where(f, p) \subseteq Threads
    BY DEF Where
  <1>3. IsFiniteSet(Where(f, p))
    BY <1>1, <1>2, FS_Subset
  <1> QED BY <1>3, FS_CardinalityType

(* A thread that goes from one place to another leaves the first, enters   *)
(* the second, and changes the number of threads nowhere else.             *)
LEMMA Move ==
  ASSUME NEW t \in Threads, NEW o \in Places, NEW p \in Places, o # p,
         pc \in [Threads -> Places], pc[t] = o, pc' = [pc EXCEPT ![t] = p]
  PROVE  /\ Cardinality(Where(pc', p)) = Cardinality(Where(pc, p)) + 1
         /\ Cardinality(Where(pc', o)) = Cardinality(Where(pc, o)) - 1
         /\ \A r \in Places \ {o, p} : Where(pc', r) = Where(pc, r)
  <1>1. Where(pc', p) = Where(pc, p) \cup {t} /\ t \notin Where(pc, p)
    BY DEF Where
  <1>2. Where(pc', o) = Where(pc, o) \ {t} /\ t \in Where(pc, o)
    BY DEF Where
  <1>3. \A r \in Places \ {o, p} : Where(pc', r) = Where(pc, r)
    BY DEF Where
  <1>4. Cardinality(Where(pc', p)) = Cardinality(Where(pc, p)) + 1
    BY <1>1, FiniteWhere, FS_AddElement
  <1>5. Cardinality(Where(pc', o)) = Cardinality(Where(pc, o)) - 1
    BY <1>2, FiniteWhere, FS_RemoveElement
  <1> QED BY <1>3, <1>4, <1>5

(* A thread in a place makes the number of threads there positive. *)
LEMMA SomebodyThere ==
  ASSUME NEW f, NEW t \in Threads
  PROVE  Cardinality(Where(f, f[t])) > 0
  <1>1. t \in Where(f, f[t])
    BY DEF Where
  <1>2. Where(f, f[t]) # {}
    BY <1>1
  <1> QED BY <1>2, FiniteWhere, FS_EmptySet

(* With every thread idle nobody is in another place. *)
LEMMA NobodyThere ==
  ASSUME NEW f, \A t \in Threads : f[t] = "idle", NEW p \in Places \ {"idle"}
  PROVE  Cardinality(Where(f, p)) = 0
  <1>1. Where(f, p) = {}
    BY DEF Where
  <1> QED BY <1>1, FS_EmptySet

(* The counters do not wrap in the range they are used in. *)
LEMMA NoWrap == ASSUME NEW n \in 0 .. Capacity PROVE n % Modulus = n
  BY CapacityAssumption

(* An index stays in the ring. *)
LEMMA NextSlot == ASSUME NEW i \in Slots PROVE (i + 1) % Capacity \in Slots
  BY CapacityAssumption DEF Slots

(* The queue starts empty. *)
LEMMA InitIInv == Init => IInv
  <1> SUFFICES ASSUME Init PROVE IInv
    OBVIOUS
  <1>1. TypeOK
    <2>1. items \in [Slots -> Msgs \cup {NoMsg}]
      BY DEF Init
    <2>2. pc \in [Threads -> Places]
      BY DEF Init, Places
    <2>3. msg \in [Threads -> Msgs \cup {NoMsg}]
      BY DEF Init
    <2>4. 0 \in Slots /\ 0 \in 0 .. Capacity
      BY CapacityAssumption DEF Slots
    <2> QED BY <2>1, <2>2, <2>3, <2>4 DEF Init, TypeOK, Places
  <1>2. SemaphoreCountsMessages
    BY NobodyThere DEF Init, SemaphoreCountsMessages, At, Places
  <1> QED BY <1>1, <1>2 DEF IInv, DrainAlone, Init
(* A thread in its call, or another thread's drain, is alone. *)
LEMMA NotDraining ==
  ASSUME IInv, NEW t \in Threads, pc[t] # "idle"
  PROVE  ~draining
  BY DEF IInv, DrainAlone

(* Entering send or recv, giving up on a full ring and giving up on the    *)
(* semaphore move a thread between places nobody counts.                   *)
LEMMA UncountedStep ==
  ASSUME IInv, NEW t \in Threads, ~draining,
         NEW p \in {"idle", "send", "wait"},
         pc[t] \in {"idle", "send", "wait"}, pc[t] # p,
         pc' = [pc EXCEPT ![t] = p],
         msg' \in [Threads -> Msgs \cup {NoMsg}],
         UNCHANGED <<ring, semaphore, draining>>
  PROVE  IInv'
  <1>1. pc \in [Threads -> Places] /\ pc' \in [Threads -> Places]
    BY DEF IInv, TypeOK, Places
  <1>2. /\ Where(pc', "release") = Where(pc, "release")
        /\ Where(pc', "take") = Where(pc, "take")
    BY <1>1 DEF Where
  <1>3. SemaphoreCountsMessages'
    BY <1>2 DEF IInv, SemaphoreCountsMessages, At, ring
  <1>4. TypeOK'
    BY <1>1 DEF IInv, TypeOK, Places, ring
  <1> QED BY <1>3, <1>4 DEF IInv, DrainAlone

(* Every step preserves the invariant. *)
LEMMA NextIInv == IInv /\ [Next]_vars => IInv'
  <1> SUFFICES ASSUME IInv, [Next]_vars PROVE IInv'
    OBVIOUS
  <1> DEFINE Rel == Cardinality(Where(pc, "release"))
             Tak == Cardinality(Where(pc, "take"))
  <1>a. Rel \in Nat /\ Tak \in Nat
    BY FiniteWhere
  <1>b. pc \in [Threads -> Places] /\ TypeOK
    BY DEF IInv, TypeOK, Places
  <1>c. ~draining => semaphore + Rel + Tak = count
    BY DEF IInv, SemaphoreCountsMessages, At
  <1>1. ASSUME NEW t \in Senders, NEW m \in Msgs, Send(t, m) PROVE IInv'
    <2>1. t \in Threads
      BY DEF Threads
    <2>2. msg' \in [Threads -> Msgs \cup {NoMsg}]
      BY <1>1, <1>b DEF Send, TypeOK
    <2> QED BY <1>1, <2>1, <2>2, UncountedStep DEF Send
  <1>2. ASSUME NEW t \in Senders, SendFull(t) PROVE IInv'
    <2>1. t \in Threads /\ pc[t] = "send" /\ pc' = [pc EXCEPT ![t] = "idle"]
      BY <1>2 DEF Threads, SendFull
    <2>2. ~draining
      BY <2>1, NotDraining
    <2>3. msg' \in [Threads -> Msgs \cup {NoMsg}]
      BY <1>2, <1>b DEF SendFull, TypeOK
    <2> QED
      BY <1>2, <2>1, <2>2, <2>3, UncountedStep DEF SendFull
  <1>3. ASSUME NEW t \in Senders, SendStore(t) PROVE IInv'
    <2>1. /\ t \in Threads /\ pc[t] = "send"
          /\ pc' = [pc EXCEPT ![t] = "release"]
      BY <1>3 DEF Threads, SendStore
    <2>2. ~draining
      BY <2>1, NotDraining
    <2>3. /\ Cardinality(Where(pc', "release")) = Rel + 1
          /\ Where(pc', "take") = Where(pc, "take")
      BY <1>b, <2>1, Move DEF Places
    <2>4. count' = count + 1 /\ count' \in 0 .. Capacity
      <3>1. count + 1 \in 0 .. Capacity
        BY <1>3, <1>b, CapacityAssumption DEF SendStore, TypeOK
      <3> QED BY <1>3, <3>1, NoWrap DEF SendStore
    <2>5. SemaphoreCountsMessages'
      BY <1>3, <1>a, <1>b, <1>c, <2>2, <2>3, <2>4
      DEF SendStore, SemaphoreCountsMessages, At, TypeOK
    <2>6. tail' \in Slots
      BY <1>3, <1>b, NextSlot DEF SendStore, TypeOK
    <2>7. TypeOK'
      BY <1>3, <1>b, <2>1, <2>4, <2>6 DEF SendStore, TypeOK, Places
    <2> QED BY <1>3, <2>2, <2>5, <2>7 DEF IInv, DrainAlone, SendStore
  <1>4. ASSUME NEW t \in Senders, Release(t) PROVE IInv'
    <2>1. /\ t \in Threads /\ pc[t] = "release"
          /\ pc' = [pc EXCEPT ![t] = "idle"]
      BY <1>4 DEF Threads, Release
    <2>2. ~draining
      BY <2>1, NotDraining
    <2>3. /\ Cardinality(Where(pc', "release")) = Rel - 1
          /\ Where(pc', "take") = Where(pc, "take")
      BY <1>b, <2>1, Move DEF Places
    <2>4. Rel > 0
      BY <2>1, SomebodyThere
    <2>5. semaphore' = semaphore + 1 /\ semaphore' \in 0 .. Capacity
      BY <1>4, <1>a, <1>b, <1>c, <2>2, <2>4, CapacityAssumption
      DEF Release, TypeOK
    <2>6. SemaphoreCountsMessages'
      BY <1>4, <1>a, <1>b, <1>c, <2>2, <2>3, <2>5
      DEF Release, SemaphoreCountsMessages, At, TypeOK, ring
    <2>7. TypeOK'
      BY <1>4, <1>b, <2>1, <2>5 DEF Release, TypeOK, Places, ring
    <2> QED BY <1>4, <2>2, <2>6, <2>7 DEF IInv, DrainAlone, Release
  <1>5. ASSUME NEW t \in Receivers, Recv(t) PROVE IInv'
    <2>1. t \in Threads
      BY DEF Threads
    <2>2. msg' \in [Threads -> Msgs \cup {NoMsg}]
      BY <1>5, <1>b DEF Recv, TypeOK
    <2> QED BY <1>5, <2>1, <2>2, UncountedStep DEF Recv
  <1>6. ASSUME NEW t \in Receivers, WaitObject(t) PROVE IInv'
    <2>1. /\ t \in Threads /\ pc[t] = "wait"
          /\ pc' = [pc EXCEPT ![t] = "take"]
      BY <1>6 DEF Threads, WaitObject
    <2>2. ~draining
      BY <2>1, NotDraining
    <2>3. /\ Cardinality(Where(pc', "take")) = Tak + 1
          /\ Where(pc', "release") = Where(pc, "release")
      BY <1>b, <2>1, Move DEF Places
    <2>4. semaphore' = semaphore - 1 /\ semaphore' \in 0 .. Capacity
      BY <1>6, <1>b, CapacityAssumption DEF WaitObject, TypeOK
    <2>5. SemaphoreCountsMessages'
      BY <1>6, <1>a, <1>b, <1>c, <2>2, <2>3, <2>4
      DEF WaitObject, SemaphoreCountsMessages, At, TypeOK, ring
    <2>6. TypeOK'
      BY <1>6, <1>b, <2>1, <2>4 DEF WaitObject, TypeOK, Places, ring
    <2> QED BY <1>6, <2>2, <2>5, <2>6 DEF IInv, DrainAlone, WaitObject
  <1>7. ASSUME NEW t \in Receivers, WaitTimeout(t) PROVE IInv'
    <2>1. t \in Threads /\ pc[t] = "wait" /\ pc' = [pc EXCEPT ![t] = "idle"]
      BY <1>7 DEF Threads, WaitTimeout
    <2>2. ~draining
      BY <2>1, NotDraining
    <2>3. msg' \in [Threads -> Msgs \cup {NoMsg}]
      BY <1>7, <1>b DEF WaitTimeout, TypeOK
    <2> QED
      BY <1>7, <2>1, <2>2, <2>3, UncountedStep DEF WaitTimeout
  <1>8. ASSUME NEW t \in Receivers, RecvTake(t) PROVE IInv'
    <2>1. /\ t \in Threads /\ pc[t] = "take"
          /\ pc' = [pc EXCEPT ![t] = "idle"]
      BY <1>8 DEF Threads, RecvTake
    <2>2. ~draining
      BY <2>1, NotDraining
    <2>3. /\ Cardinality(Where(pc', "take")) = Tak - 1
          /\ Where(pc', "release") = Where(pc, "release")
      BY <1>b, <2>1, Move DEF Places
    <2>4. Tak > 0
      BY <2>1, SomebodyThere
    <2>5. count' = count - 1 /\ count' \in 0 .. Capacity
      <3>1. count - 1 \in 0 .. Capacity
        BY <1>a, <1>b, <1>c, <2>2, <2>4, CapacityAssumption DEF TypeOK
      <3> QED BY <1>8, <3>1, NoWrap DEF RecvTake
    <2>6. SemaphoreCountsMessages'
      BY <1>8, <1>a, <1>b, <1>c, <2>2, <2>3, <2>5
      DEF RecvTake, SemaphoreCountsMessages, At, TypeOK
    <2>7. head' \in Slots /\ items[head] \in Msgs \cup {NoMsg}
      BY <1>8, <1>b, NextSlot DEF RecvTake, TypeOK
    <2>8. TypeOK'
      BY <1>8, <1>b, <2>1, <2>5, <2>7 DEF RecvTake, TypeOK, Places
    <2> QED BY <1>8, <2>2, <2>6, <2>8 DEF IInv, DrainAlone, RecvTake
  <1>9. CASE DrainRing
    <2>1. 0 \in Slots /\ 0 \in 0 .. Capacity
      BY CapacityAssumption DEF Slots
    <2>2. TypeOK'
      BY <1>9, <1>b, <2>1 DEF DrainRing, TypeOK
    <2> QED
      BY <1>9, <2>2 DEF IInv, DrainRing, SemaphoreCountsMessages, DrainAlone
  <1>10. CASE DrainSemaphore
    <2>0. semaphore \in 0 .. Capacity /\ draining \in BOOLEAN
      BY <1>b DEF TypeOK
    <2>1. /\ semaphore' \in 0 .. Capacity /\ draining' \in BOOLEAN
          /\ ~draining' => semaphore' = 0
      <3>1. CASE semaphore > 0
        <4>1. semaphore' = semaphore - 1 /\ draining' = draining /\ draining
          BY <1>10, <3>1 DEF DrainSemaphore
        <4>2. semaphore' \in 0 .. Capacity
          BY <2>0, <3>1, <4>1, CapacityAssumption
        <4>3. draining' \in BOOLEAN /\ (~draining' => semaphore' = 0)
          BY <4>1, Zenon
        <4> QED BY <4>2, <4>3
      <3>2. CASE ~(semaphore > 0)
        <4>1. semaphore' = semaphore /\ draining' = FALSE
          BY <1>10, <3>2 DEF DrainSemaphore
        <4>2. semaphore' \in 0 .. Capacity /\ semaphore' = 0
          BY <2>0, <3>2, <4>1
        <4> QED BY <4>1, <4>2
      <3> QED BY <3>1, <3>2
    <2>a. TypeOK'
      BY <1>10, <1>b, <2>1 DEF DrainSemaphore, TypeOK, ring
    <2>2. Rel = 0 /\ Tak = 0
      BY <1>10, NobodyThere DEF IInv, DrainAlone, DrainSemaphore, Places
    <2>3. SemaphoreCountsMessages'
      <3>1. pc' = pc /\ count' = count /\ count = 0
        BY <1>10 DEF DrainSemaphore, ring, IInv, DrainAlone
      <3> QED BY <2>1, <2>2, <3>1 DEF SemaphoreCountsMessages, At
    <2> QED
      BY <1>10, <2>a, <2>3 DEF IInv, DrainAlone, DrainSemaphore, ring
  <1>11. CASE UNCHANGED vars
    BY <1>11 DEF vars, ring, IInv, TypeOK, SemaphoreCountsMessages, At, Where,
                 DrainAlone
  <1> QED
    BY <1>1, <1>2, <1>3, <1>4, <1>5, <1>6, <1>7, <1>8, <1>9, <1>10, <1>11
    DEF Next, SenderStep, ReceiverStep

(* The invariant holds in every reachable state. *)
LEMMA Invariance == Spec => []IInv
  BY InitIInv, NextIInv, PTL DEF Spec

(* The counters and indices stay in their ranges: in particular the count  *)
(* never wraps below zero and the ring never holds more than it has slots. *)
THEOREM TypeCorrectness == Spec => []TypeOK
  <1>1. IInv => TypeOK BY DEF IInv
  <1> QED BY Invariance, <1>1, PTL

(* The semaphore counts the messages in the ring, up to the operations     *)
(* under way, whatever the number of senders and receivers.                *)
THEOREM SemaphoreCounts == Spec => []SemaphoreCountsMessages
  <1>1. IInv => SemaphoreCountsMessages BY DEF IInv
  <1> QED BY Invariance, <1>1, PTL

----------------------------------------------------------------------------
(* The slot after the last message is the one tail points to, and a sender *)
(* holds a message.                                                        *)
RingInv ==
    /\ tail = (head + count) % Capacity
    /\ \A t \in Threads : pc[t] = "send" => msg[t] \in Msgs

(* An index that runs past the end of the ring goes on from its start. *)
LEMMA Wrap ==
  ASSUME NEW a \in Nat, a < 2 * Capacity
  PROVE  a % Capacity = IF a < Capacity THEN a ELSE a - Capacity
  <1>1. Capacity \in Nat /\ Capacity > 0
    BY CapacityAssumption
  <1> QED BY <1>1

(* A receiver past the semaphore finds a message in the ring. *)
LEMMA TakeFinds ==
  ASSUME IInv, NEW t \in Threads, pc[t] = "take"
  PROVE  count > 0
  <1>1. Cardinality(Where(pc, "take")) > 0
    BY SomebodyThere
  <1>2. /\ Cardinality(Where(pc, "take")) \in Nat
        /\ Cardinality(Where(pc, "release")) \in Nat
    BY FiniteWhere
  <1>3. semaphore \in Nat /\ count \in Nat
    BY CapacityAssumption DEF IInv, TypeOK
  <1>4. semaphore + Cardinality(Where(pc, "release"))
          + Cardinality(Where(pc, "take")) = count
    BY NotDraining DEF IInv, SemaphoreCountsMessages, At
  <1> QED BY <1>1, <1>2, <1>3, <1>4

(* Storing a message moves tail, taking one moves head. *)
LEMMA NextRingInv == IInv /\ RingInv /\ [Next]_vars => RingInv'
  <1> SUFFICES ASSUME IInv, RingInv, [Next]_vars PROVE RingInv'
    OBVIOUS
  <1>a. /\ head \in Slots /\ tail \in Slots /\ count \in 0 .. Capacity
        /\ Capacity \in Nat /\ Capacity > 0
        /\ pc \in [Threads -> Places] /\ msg \in [Threads -> Msgs \cup {NoMsg}]
        /\ tail = (head + count) % Capacity
    BY CapacityAssumption DEF IInv, TypeOK, Places, RingInv
  <1>1. ASSUME NEW t \in Senders, SendStore(t) PROVE RingInv'
    <2>1. count' = count + 1 /\ head' = head /\ tail' = (tail + 1) % Capacity
      <3>1. count + 1 \in 0 .. Capacity
        BY <1>1, <1>a DEF SendStore
      <3> QED BY <1>1, <3>1, NoWrap DEF SendStore
    <2>2. head + count \in Nat /\ head + count < 2 * Capacity
          /\ tail = IF head + count < Capacity THEN head + count
                                               ELSE head + count - Capacity
      BY <1>1, <1>a, Wrap DEF SendStore, Slots
    <2>3. tail' = (head' + count') % Capacity
      BY <1>1, <1>a, <2>1, <2>2, Wrap DEF SendStore, Slots
    <2> QED BY <1>1, <1>a, <2>3 DEF RingInv, SendStore, Places, Threads
  <1>2. ASSUME NEW t \in Receivers, RecvTake(t) PROVE RingInv'
    <2>1. t \in Threads /\ count > 0
      BY <1>2, TakeFinds DEF RecvTake, Threads
    <2>2. count' = count - 1 /\ tail' = tail /\ head' = (head + 1) % Capacity
      <3>1. count - 1 \in 0 .. Capacity
        BY <1>a, <2>1
      <3> QED BY <1>2, <3>1, NoWrap DEF RecvTake
    <2>3. head' = IF head + 1 < Capacity THEN head + 1 ELSE head + 1 - Capacity
      BY <1>a, <2>2, Wrap DEF Slots
    <2>4. tail = IF head + count < Capacity THEN head + count
                                            ELSE head + count - Capacity
      BY <1>a, Wrap DEF Slots
    <2>5. tail' = (head' + count') % Capacity
      BY <1>a, <2>1, <2>2, <2>3, <2>4, Wrap DEF Slots
    <2>6. \A u \in Threads : pc'[u] = "send" => u # t /\ pc[u] = "send" /\ msg'[u] = msg[u]
      BY <1>2, <1>a, <2>1 DEF RecvTake
    <2> QED BY <2>5, <2>6 DEF RingInv
  <1>3. ASSUME NEW t \in Senders, NEW m \in Msgs, Send(t, m) PROVE RingInv'
    BY <1>3, <1>a DEF RingInv, Send, ring, Threads
  <1>4. ASSUME NEW t \in Senders, SendFull(t) \/ Release(t) PROVE RingInv'
    BY <1>4, <1>a DEF RingInv, SendFull, Release, ring, Threads
  <1>5. ASSUME NEW t \in Receivers, Recv(t) \/ WaitObject(t) \/ WaitTimeout(t)
        PROVE  RingInv'
    BY <1>5, <1>a DEF RingInv, Recv, WaitObject, WaitTimeout, ring, Threads
  <1>6. CASE DrainRing
    BY <1>6, <1>a, Wrap DEF RingInv, DrainRing
  <1>7. CASE DrainSemaphore \/ UNCHANGED vars
    BY <1>7 DEF RingInv, DrainSemaphore, vars, ring
  <1> QED
    BY <1>1, <1>2, <1>3, <1>4, <1>5, <1>6, <1>7 DEF Next, SenderStep, ReceiverStep

(* The contents of the ring are a sequence of count messages. *)
LEMMA ContentsType ==
  ASSUME IInv
  PROVE  /\ Contents \in Seq(Msgs \cup {NoMsg}) /\ Len(Contents) = count
         /\ count \in Nat
         /\ \A i \in 1 .. count :
               (head + i - 1) % Capacity \in Slots
               /\ Contents[i] = items[(head + i - 1) % Capacity]
  <1>1. /\ head \in Slots /\ count \in 0 .. Capacity /\ count \in Nat
        /\ Capacity \in Nat /\ Capacity > 0
        /\ items \in [Slots -> Msgs \cup {NoMsg}]
    BY CapacityAssumption DEF IInv, TypeOK
  <1>2. \A i \in 1 .. count : (head + i - 1) % Capacity \in Slots
    BY <1>1, Wrap DEF Slots
  <1> QED BY <1>1, <1>2 DEF Contents

(* send appends its message to the ring's contents ... *)
LEMMA StoreAppends ==
  ASSUME IInv, RingInv, NEW t \in Senders, SendStore(t)
  PROVE  Fifo!Enqueue(msg[t]) /\ msg[t] \in Msgs
  <1>a. /\ head \in Slots /\ tail \in Slots /\ count \in 0 .. Capacity
        /\ Capacity \in Nat /\ Capacity > 0
        /\ items \in [Slots -> Msgs \cup {NoMsg}] /\ count < Capacity
        /\ tail = (head + count) % Capacity
        /\ msg[t] \in Msgs
    BY CapacityAssumption DEF IInv, TypeOK, RingInv, SendStore, Threads
  <1>1. count' = count + 1 /\ head' = head /\ items' = [items EXCEPT ![tail] = msg[t]]
    <2>1. count + 1 \in 0 .. Capacity
      BY <1>a
    <2> QED BY <2>1, NoWrap DEF SendStore
  <1>2. \A i \in 1 .. count : (head + i - 1) % Capacity \in Slots \ {tail}
    <2>1. tail = IF head + count < Capacity THEN head + count
                                            ELSE head + count - Capacity
      BY <1>a, Wrap DEF Slots
    <2> QED BY <1>a, <2>1, Wrap DEF Slots
  <1>3. items'[tail] = msg[t] /\ \A s \in Slots \ {tail} : items'[s] = items[s]
    BY <1>a, <1>1
  <1>4. Contents' = [i \in 1 .. count + 1 |-> items'[(head + i - 1) % Capacity]]
    BY <1>1 DEF Contents
  <1>5. /\ DOMAIN Contents' = 1 .. count + 1
        /\ Contents'[count + 1] = msg[t]
        /\ \A i \in 1 .. count : Contents'[i] = Contents[i]
    <2>1. head + (count + 1) - 1 = head + count
      BY <1>a DEF Slots
    <2>2. Contents'[count + 1] = items'[tail]
      BY <1>4, <1>a, <2>1
    <2>3. \A i \in 1 .. count : Contents'[i] = items'[(head + i - 1) % Capacity]
      BY <1>4, <1>a
    <2> QED BY <1>2, <1>3, <1>4, <2>2, <2>3, ContentsType
  <1>6. Append(Contents, msg[t])
          = [i \in 1 .. count + 1 |-> IF i = count + 1 THEN msg[t] ELSE Contents[i]]
    BY ContentsType, <1>a
  <1>7. Contents' = Append(Contents, msg[t])
    <2>1. \A i \in 1 .. count + 1 :
            Contents'[i] = IF i = count + 1 THEN msg[t] ELSE Contents[i]
      BY <1>5, <1>a
    <2>2. Contents' = [i \in 1 .. count + 1 |-> Contents'[i]]
      BY <1>4
    <2> QED BY <1>6, <2>1, <2>2, Zenon
  <1> QED BY <1>7, <1>a, ContentsType DEF Fifo!Enqueue

(* The elements of a tail. *)
LEMMA TailIs ==
  ASSUME NEW S, NEW s \in Seq(S), s # << >>
  PROVE  Tail(s) = [i \in 1 .. Len(s) - 1 |-> s[i + 1]]
  <1> DEFINE rest == [i \in 1 .. Len(s) - 1 |-> s[i + 1]]
  <1>1. rest \in Seq(S) /\ Len(rest) = Len(s) - 1
    OBVIOUS
  <1>2. \A i \in 1 .. Len(s) - 1 : rest[i] = s[i + 1]
    OBVIOUS
  <1> HIDE DEF rest
  <1>3. Tail(s) = rest
    BY <1>1, <1>2, HeadTailProperties, SeqEqual
  <1> QED BY <1>3 DEF rest

(* ... and recv takes the oldest one away. *)
LEMMA TakeDequeues ==
  ASSUME IInv, NEW t \in Receivers, RecvTake(t)
  PROVE  Fifo!Dequeue
  <1>a. /\ head \in Slots /\ count \in 0 .. Capacity /\ count > 0
        /\ Capacity \in Nat /\ Capacity > 0
    BY CapacityAssumption, TakeFinds DEF IInv, TypeOK, RecvTake, Threads
  <1>1. count' = count - 1 /\ items' = items /\ head' = (head + 1) % Capacity
    <2>1. count - 1 \in 0 .. Capacity
      BY <1>a
    <2> QED BY <2>1, NoWrap DEF RecvTake
  <1>2. head' = IF head + 1 < Capacity THEN head + 1 ELSE head + 1 - Capacity
    BY <1>a, <1>1, Wrap DEF Slots
  <1>3. \A i \in 1 .. count - 1 :
          (head' + i - 1) % Capacity = (head + (i + 1) - 1) % Capacity
    BY <1>a, <1>2, Wrap DEF Slots
  <1>4. Contents' = [i \in 1 .. count - 1 |-> items[(head' + i - 1) % Capacity]]
    BY <1>1 DEF Contents
  <1>5. \A i \in 1 .. count - 1 : i + 1 \in 1 .. count
    BY <1>a
  <1>6. Contents' = [i \in 1 .. count - 1 |-> Contents[i + 1]]
    BY <1>3, <1>4, <1>5, ContentsType
  <1>7. Tail(Contents) = [i \in 1 .. count - 1 |-> Contents[i + 1]]
    <2>1. Contents \in Seq(Msgs \cup {NoMsg}) /\ Len(Contents) = count
      BY ContentsType
    <2>2. Contents # << >>
      BY <1>a, <2>1
    <2> QED BY <2>1, <2>2, TailIs
  <1>8. Contents # << >>
    BY ContentsType, <1>a
  <1> QED BY <1>6, <1>7, <1>8 DEF Fifo!Dequeue

(* Every step of the queue's threads is a step of MessageQueue or changes  *)
(* nothing in it (message_queue.c): messages leave in the order in which   *)
(* they were stored, and none is lost, repeated or overwritten.            *)
THEOREM Refinement == Spec => Fifo!Init /\ [][Fifo!Next]_Contents
  <1>1. Init => Fifo!Init /\ RingInv
    <2> SUFFICES ASSUME Init PROVE Fifo!Init /\ RingInv
      OBVIOUS
    <2>1. Contents = << >>
      BY DEF Init, Contents
    <2>2. RingInv
      BY CapacityAssumption, Wrap DEF Init, RingInv
    <2> QED BY <2>1, <2>2 DEF Fifo!Init
  <1>2. IInv /\ RingInv /\ [Next]_vars => [Fifo!Next]_Contents
    <2> SUFFICES ASSUME IInv, RingInv, [Next]_vars PROVE [Fifo!Next]_Contents
      OBVIOUS
    <2>1. ASSUME NEW t \in Senders, SendStore(t) PROVE Fifo!Next
      BY <2>1, StoreAppends DEF Fifo!Next
    <2>2. ASSUME NEW t \in Receivers, RecvTake(t) PROVE Fifo!Next
      BY <2>2, TakeDequeues DEF Fifo!Next
    <2>3. CASE DrainRing
      <3>1. Contents' = << >>
        BY <2>3 DEF DrainRing, Contents
      <3> QED BY <3>1 DEF Fifo!Next, Fifo!Clear
    <2>4. CASE UNCHANGED ring
      BY <2>4 DEF ring, Contents
    <2> QED
      BY <2>1, <2>2, <2>3, <2>4
      DEF Next, SenderStep, ReceiverStep, Send, SendFull, Release, Recv, WaitObject,
          WaitTimeout, DrainSemaphore, vars
  <1> QED BY <1>1, <1>2, NextRingInv, Invariance, PTL DEF Spec
============================================================================
