----------------------------- MODULE MCReconciler -----------------------------
(***************************************************************************)
(* Instances of Reconciler for TLC.                                        *)
(***************************************************************************)
EXTENDS ReconcilerProperties, TLC

CONSTANTS r1, r2, r3, p1, p2, c1, c2

Cfg(min, max) == [min |-> min, max |-> max]

\* One repository-bound connection with two repositories, or two connections.
OneConn == [t \in {1, 2} |-> c1]
TwoConns == [t \in {1, 2} |-> IF t = 1 THEN c1 ELSE c2]
SoleTarget == [t \in {1} |-> c1]

UpToOne == {Cfg(0, 1)}
UpToTwo == {Cfg(0, 1), Cfg(0, 2)}
WarmOne == {Cfg(1, 1)}

StartOne == [p \in {p1} |-> Cfg(0, 1)]
StartTwo == [p \in {p1} |-> Cfg(0, 2)]
StartWarm == [p \in {p1} |-> Cfg(1, 1)]
StartWarmPair == [p \in {p1, p2} |-> Cfg(1, 1)]

RunnerSymmetry == Permutations(Runner)
==============================================================================
