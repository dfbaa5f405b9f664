---------------------------- MODULE MessageQueue ----------------------------
(***************************************************************************)
(* What a script message queue promises its senders and receivers: a       *)
(* bounded first-in first-out queue.  A send either appends its message or *)
(* is refused because the queue is full; a receive takes the oldest        *)
(* message; clearing forgets all of them.                                  *)
(***************************************************************************)
EXTENDS Naturals, Sequences

CONSTANTS Msgs, Capacity

VARIABLE q      \* the messages in the queue, oldest first

Init == q = <<>>

Enqueue(m) == Len(q) < Capacity /\ q' = Append(q, m)
Dequeue    == q # <<>> /\ q' = Tail(q)
Clear      == q' = <<>>

Next == (\E m \in Msgs : Enqueue(m)) \/ Dequeue \/ Clear

(* A message in the queue does not stay there for ever. *)
Spec == Init /\ [][Next]_q /\ WF_q(q # <<>> /\ (Dequeue \/ Clear))
============================================================================
