---------------------------- MODULE ScriptQueue ----------------------------
(***************************************************************************)
(* script_msg_queue_t (script/message_queue.c): a ring buffer under a      *)
(* critical section, and a semaphore that counts the messages to be taken. *)
(* The semaphore is released after the critical section is left and waited *)
(* for before it is entered, so the two counts differ while an operation   *)
(* is under way.                                                           *)
(*                                                                         *)
(* Everything done inside the critical section is one step: every access   *)
(* to the ring holds it.  A timed wait may give up whenever the semaphore  *)
(* is at 0.  script_msg_queue_drain is only called on a queue nobody else  *)
(* is using (tests/test_message_queue.c), and is modelled so.              *)
(***************************************************************************)
EXTENDS Integers, FiniteSets, Sequences

CONSTANTS
    Senders, Receivers,     \* the threads that call send, and recv
    Msgs,                   \* the messages
    NoMsg,                  \* what a slot holds before its first message
    Capacity,               \* SCRIPT_MSG_QUEUE_CAPACITY
    Modulus                 \* 2^32, the range of the uint32_t counters

ASSUME ThreadsAssumption ==
    IsFiniteSet(Senders) /\ IsFiniteSet(Receivers) /\ Senders \cap Receivers = {}
ASSUME MsgsAssumption == NoMsg \notin Msgs
ASSUME CapacityAssumption ==
    Capacity \in Nat \ {0} /\ Modulus \in Nat /\ Modulus > Capacity

Threads == Senders \cup Receivers
Slots   == 0 .. Capacity - 1

VARIABLES
    items,      \* q->items
    head, tail, count,
    semaphore,
    pc,         \* pc[t]: where thread t is in its call
    msg,        \* msg[t]: the message t is sending or has received
    draining    \* is script_msg_queue_drain emptying the semaphore?

ring == <<items, head, tail, count>>
vars == <<ring, semaphore, pc, msg, draining>>

Init ==
    /\ items = [i \in Slots |-> NoMsg]
    /\ head = 0 /\ tail = 0 /\ count = 0
    /\ semaphore = 0
    /\ pc = [t \in Threads |-> "idle"]
    /\ msg = [t \in Threads |-> NoMsg]
    /\ draining = FALSE

----------------------------------------------------------------------------
Send(t, m) ==
    /\ pc[t] = "idle" /\ ~draining
    /\ pc' = [pc EXCEPT ![t] = "send"]
    /\ msg' = [msg EXCEPT ![t] = m]
    /\ UNCHANGED <<ring, semaphore, draining>>

(* Inside the critical section: refuse the message ... *)
SendFull(t) ==
    /\ pc[t] = "send" /\ count >= Capacity
    /\ pc' = [pc EXCEPT ![t] = "idle"]
    /\ UNCHANGED <<ring, semaphore, msg, draining>>

(* Seeded fault: the check for a full ring is off by one. *)
SendStoreOffByOne(t) ==
    /\ pc[t] = "send" /\ count <= Capacity
    /\ items' = [items EXCEPT ![tail] = msg[t]]
    /\ tail' = (tail + 1) % Capacity
    /\ count' = (count + 1) % Modulus
    /\ pc' = [pc EXCEPT ![t] = "release"]
    /\ UNCHANGED <<head, semaphore, msg, draining>>

(* ... or store it. *)
SendStore(t) ==
    /\ pc[t] = "send" /\ count < Capacity
    /\ items' = [items EXCEPT ![tail] = msg[t]]
    /\ tail' = (tail + 1) % Capacity
    /\ count' = (count + 1) % Modulus
    /\ pc' = [pc EXCEPT ![t] = "release"]
    /\ UNCHANGED <<head, semaphore, msg, draining>>

(* Seeded fault: only a message stored in an empty ring is signalled. *)
ReleaseWhenFirst(t) ==
    /\ pc[t] = "release"
    /\ semaphore' = IF count = 1 /\ semaphore < Capacity THEN semaphore + 1
                                                       ELSE semaphore
    /\ pc' = [pc EXCEPT ![t] = "idle"]
    /\ UNCHANGED <<ring, msg, draining>>

(* ReleaseSemaphore fails, unnoticed, when the count is at its maximum.    *)
Release(t) ==
    /\ pc[t] = "release"
    /\ semaphore' = IF semaphore < Capacity THEN semaphore + 1 ELSE semaphore
    /\ pc' = [pc EXCEPT ![t] = "idle"]
    /\ UNCHANGED <<ring, msg, draining>>

Recv(t) ==
    /\ pc[t] = "idle" /\ ~draining
    /\ pc' = [pc EXCEPT ![t] = "wait"]
    /\ msg' = [msg EXCEPT ![t] = NoMsg]
    /\ UNCHANGED <<ring, semaphore, draining>>

WaitObject(t) ==
    /\ pc[t] = "wait" /\ semaphore > 0
    /\ semaphore' = semaphore - 1
    /\ pc' = [pc EXCEPT ![t] = "take"]
    /\ UNCHANGED <<ring, msg, draining>>

(* Seeded fault: the result of the wait is not looked at. *)
WaitTimeoutIgnored(t) ==
    /\ pc[t] = "wait" /\ semaphore = 0
    /\ pc' = [pc EXCEPT ![t] = "take"]
    /\ UNCHANGED <<ring, semaphore, msg, draining>>

WaitTimeout(t) ==
    /\ pc[t] = "wait" /\ semaphore = 0
    /\ pc' = [pc EXCEPT ![t] = "idle"]
    /\ UNCHANGED <<ring, semaphore, msg, draining>>

(* Inside the critical section: take the message at the head.  Nothing is  *)
(* checked here: the semaphore is trusted.                                 *)
RecvTake(t) ==
    /\ pc[t] = "take"
    /\ msg' = [msg EXCEPT ![t] = items[head]]
    /\ head' = (head + 1) % Capacity
    /\ count' = (count - 1) % Modulus
    /\ pc' = [pc EXCEPT ![t] = "idle"]
    /\ UNCHANGED <<items, tail, semaphore, draining>>

(* script_msg_queue_drain: reset the ring, then empty the semaphore.       *)
DrainRing ==
    /\ ~draining /\ \A t \in Threads : pc[t] = "idle"
    /\ head' = 0 /\ tail' = 0 /\ count' = 0
    /\ draining' = TRUE
    /\ UNCHANGED <<items, semaphore, pc, msg>>

DrainSemaphore ==
    /\ draining
    /\ IF semaphore > 0 THEN semaphore' = semaphore - 1 /\ UNCHANGED draining
                        ELSE draining' = FALSE /\ UNCHANGED semaphore
    /\ UNCHANGED <<ring, pc, msg>>

SenderStep(t)   == SendFull(t) \/ SendStore(t) \/ Release(t)
ReceiverStep(t) == Recv(t) \/ WaitObject(t) \/ WaitTimeout(t) \/ RecvTake(t)

Next ==
    \/ \E t \in Senders : (\E m \in Msgs : Send(t, m)) \/ SenderStep(t)
    \/ \E t \in Receivers : ReceiverStep(t)
    \/ DrainRing \/ DrainSemaphore

(* A thread inside a call goes on with it, and the receivers poll: the     *)
(* main loop and script_thread_func call recv again and again.             *)
Fairness ==
    /\ \A t \in Senders : WF_vars(SenderStep(t))
    /\ \A t \in Receivers : WF_vars(ReceiverStep(t))
    /\ WF_vars(DrainSemaphore)

Spec == Init /\ [][Next]_vars /\ Fairness
----------------------------------------------------------------------------
(* Properties *)

TypeOK ==
    /\ items \in [Slots -> Msgs \cup {NoMsg}]
    /\ head \in Slots /\ tail \in Slots /\ count \in 0 .. Capacity
    /\ semaphore \in 0 .. Capacity
    /\ pc \in [Threads -> {"idle", "send", "release", "wait", "take"}]
    /\ msg \in [Threads -> Msgs \cup {NoMsg}]
    /\ draining \in BOOLEAN

Where(f, place) == {t \in Threads : f[t] = place}
At(place)       == Where(pc, place)

(* The semaphore and the ring agree: a message is counted by the           *)
(* semaphore, or its sender is about to release it, or its receiver has    *)
(* passed the wait and is about to take it.  Hence recv never takes from   *)
(* an empty ring and ReleaseSemaphore never finds the count at its maximum *)
(* and loses a signal.                                                     *)
SemaphoreCountsMessages ==
    ~draining =>
        semaphore + Cardinality(At("release")) + Cardinality(At("take")) = count

(* The messages in the ring, oldest first. *)
Contents == [i \in 1 .. count |-> items[(head + i - 1) % Capacity]]

(* Messages leave in the order in which they were stored, none is lost,    *)
(* repeated or overwritten, and none stays for ever while a receiver       *)
(* polls: the ring and its semaphore implement a bounded FIFO queue.       *)
Fifo == INSTANCE MessageQueue WITH q <- Contents
FifoSpec == Fifo!Spec
============================================================================
