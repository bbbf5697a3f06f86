--------------------------- MODULE MC_EventLogger ---------------------------
(* Two loggers.                                                              *)
EXTENDS EventLogger

CONSTANTS u1, u2
=============================================================================
