--------------------------- MODULE MCScriptQueue ---------------------------
(* ScriptQueue for two senders, two receivers and a ring of two slots; the *)
(* counters wrap at 8.                                                     *)
EXTENDS ScriptQueue

CONSTANTS s1, s2, r1, r2, m1, m2

MCSenders   == {s1, s2}
MCReceivers == {r1, r2}
MCMsgs      == {m1, m2}
============================================================================
