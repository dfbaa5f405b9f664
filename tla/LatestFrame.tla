---------------------------- MODULE LatestFrame ----------------------------
(***************************************************************************)
(* What the mailbox between the video thread and the main thread promises: *)
(* it holds at most one frame, the newest one published; the main thread   *)
(* takes it at most once and so never sees the same or an older frame      *)
(* again; and a frame does not stay in it for ever while it is open.       *)
(*                                                                         *)
(* Frames are numbered in the order the decoder returns them.  A frame the *)
(* video thread could not wrap (no memory) is never published, so the      *)
(* published numbers may skip.                                             *)
(***************************************************************************)
EXTENDS Naturals

VARIABLES
    latest,     \* the frame in the mailbox, 0 when it is empty
    newest,     \* the last frame published
    seen,       \* the last frame taken
    open        \* FALSE once the mailbox has been torn down

vars == <<latest, newest, seen, open>>

Init == latest = 0 /\ newest = 0 /\ seen = 0 /\ open = TRUE

(* The video thread replaces whatever is in the mailbox by a newer frame. *)
Publish ==
    /\ newest' \in Nat /\ newest' > newest /\ latest' = newest'
    /\ UNCHANGED <<seen, open>>

(* The main thread empties the mailbox and owns what was in it. *)
Take ==
    /\ open /\ latest # 0
    /\ seen' = latest /\ latest' = 0
    /\ UNCHANGED <<newest, open>>

(* The mailbox is torn down; a frame still in it is discarded. *)
Close ==
    /\ open
    /\ open' = FALSE /\ latest' = 0
    /\ UNCHANGED <<newest, seen>>

Next == Publish \/ Take \/ Close

(* A frame in an open mailbox is eventually taken, replaced or discarded. *)
Spec == Init /\ [][Next]_vars /\ WF_vars(latest # 0 /\ (Take \/ Close))
============================================================================
