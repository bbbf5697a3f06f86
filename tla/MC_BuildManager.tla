--------------------------- MODULE MC_BuildManager ---------------------------
(* Small instances of BuildManager for TLC. *)
EXTENDS BuildManager, TLC

CONSTANTS t1, t2, t3, b1, b2

\* A source build keeps its token, the others do not, and the slug build works in
\* a goroutine of its own; t1 and t2 build one service.
SourceAndSlug == (t1 :> "source") @@ (t2 :> "slug")
SourcesAndShare == (t1 :> "source") @@ (t2 :> "source") @@ (t3 :> "share")
\* The last build of the service is not to be deployed.
Actions == [t \in Tasks |-> IF t = t2 THEN "deploy" ELSE "upgrade"]
Upgrades == [t \in Tasks |-> "upgrade"]
Services == [t \in Tasks |-> IF t = t3 THEN "s2" ELSE "s1"]

\* A cluster without Windows nodes.
AllToBuilder == [t \in Tasks |-> "builder"]
AllBuilder == [b \in Builders |-> "builder"]
==============================================================================
