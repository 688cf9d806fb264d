------------------------------ MODULE MCJanitor ------------------------------
(***************************************************************************)
(* Instances of Janitor for TLC: a runner with a job that uses all kinds   *)
(* of resource, and a second one, of this or of another instance.          *)
(***************************************************************************)
EXTENDS JanitorProperties

CONSTANTS r1, r2

OneWithJob == [r \in {r1} |-> Kind \ {"volume"}]
JobAndPlain == [r \in {r1, r2} |-> IF r = r1 THEN Kind \ {"volume"} ELSE {"runner", "network"}]
==============================================================================
