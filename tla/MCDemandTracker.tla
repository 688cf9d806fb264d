--------------------------- MODULE MCDemandTracker ---------------------------
(***************************************************************************)
(* Instances of DemandTracker for TLC.                                     *)
(***************************************************************************)
EXTENDS DemandTracker

CONSTANTS a, b

OneRepo == [j \in Job |-> a]
TwoRepos == [j \in Job |-> IF j = 1 THEN a ELSE b]

\* Every job fits every pool; or the first job fits only the second pool.
SuitsAll == [j \in Job |-> Pool]
SuitsSome == [j \in Job |-> IF j = 1 THEN Pool \ {1} ELSE Pool]
==============================================================================
