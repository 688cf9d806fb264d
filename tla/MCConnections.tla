---------------------------- MODULE MCConnections ----------------------------
(***************************************************************************)
(* The instance of Connections for TLC: one owner, who is set up twice,    *)
(* whom the environment may name, and whom an older release connected.     *)
(***************************************************************************)
EXTENDS ConnectionsProperties

CONSTANTS a, b, legacy, e, o1

OneOwner == [i \in {a, b, legacy, e} |-> o1]
==============================================================================
