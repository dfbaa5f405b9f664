----------------------------- MODULE MCAdbRelay -----------------------------
(* The loads for the runs of AdbRelay: one of several payloads each way    *)
(* without faults, one with a fault, one where the shell talks, one whose  *)
(* control messages overfill their socketpair, and one whose audio does so *)
(* once the audio thread is over.                                          *)
EXTENDS AdbRelay

Load(s, v, a, c, w, f) ==
    [shell |-> s, video |-> v, audio |-> a, control |-> c, written |-> w, faults |-> f]

MCLoads == { Load(0, 2, 1, 0, 2, 0), Load(0, 1, 1, 0, 1, 1), Load(1, 1, 1, 1, 0, 0),
              Load(0, 2, 1, 2, 0, 0), Load(0, 2, 3, 0, 0, 1) }
=============================================================================
