---------------------------- MODULE MC_AppRuntime ----------------------------
(* Small instances of AppRuntime for TLC. *)
EXTENDS AppRuntime

CONSTANTS t1, t2, t3

\* The types of the first, the second and any further task.
Types(a, b, c) == [t \in Tasks |-> IF t = t1 THEN a ELSE IF t = t2 THEN b ELSE c]

RestartUpgrade == Types("restart", "upgrade", "upgrade")
StartScaleStop == Types("start", "scale", "stop")
==============================================================================
