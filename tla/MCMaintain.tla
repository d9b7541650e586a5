----------------------------- MODULE MCMaintain -----------------------------
(* Two instances, one of which keeps a day more than the other.            *)
EXTENDS Maintain

MCInstances == {"a", "b"}
MCRetention == [i \in MCInstances |-> IF i = "a" THEN 1 ELSE 2]
=============================================================================
