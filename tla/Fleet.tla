-------------------------------- MODULE Fleet --------------------------------
(***************************************************************************)
(* What the manager promises about a fleet of ephemeral runners, without   *)
(* cycles, discovery, locks or timers: one container at a time appears,    *)
(* under the maximum of its pool and under a name GitHub does not know;    *)
(* containers may go in groups; a registration belongs to a container      *)
(* until the job is done, and what a dead container leaves registered is   *)
(* forgotten only after the container is gone.                             *)
(***************************************************************************)
EXTENDS Integers, FiniteSets

CONSTANTS Runner, Pool, PoolConfig, NoConfig, InitPools

VARIABLES
  members,     \* the containers Docker holds for a pool
  registered,  \* the names GitHub knows
  working,     \* those that run a job
  pools        \* the configured pools

vars == <<members, registered, working, pools>>

Members == UNION {members[p] : p \in Pool}

Init ==
  /\ members = [p \in Pool |-> {}]
  /\ registered = {} /\ working = {}
  /\ pools = InitPools

\* A name is used once: no container has it and GitHub has forgotten it.
Start(r, p) ==
  /\ r \notin Members \cup registered
  /\ pools[p] # NoConfig /\ Cardinality(members[p]) < pools[p].max
  /\ members' = [members EXCEPT ![p] = @ \cup {r}]
  /\ UNCHANGED <<registered, working, pools>>

\* The registration of a removed runner stays, without a job.
Stop(S) ==
  /\ members' = [p \in Pool |-> members[p] \ S]
  /\ working' = working \ S
  /\ UNCHANGED <<registered, pools>>

Register(r) ==
  /\ r \in Members \ registered
  /\ registered' = registered \cup {r}
  /\ UNCHANGED <<members, working, pools>>

TakeJob(r) ==
  /\ r \in (Members \cap registered) \ working
  /\ working' = working \cup {r}
  /\ UNCHANGED <<members, registered, pools>>

\* The container dies under its job.
LoseJob(r) ==
  /\ r \in working
  /\ working' = working \ {r}
  /\ UNCHANGED <<members, registered, pools>>

FinishJob(r) ==
  /\ r \in working
  /\ registered' = registered \ {r} /\ working' = working \ {r}
  /\ UNCHANGED <<members, pools>>

Forget(r) ==
  /\ r \in registered \ Members
  /\ registered' = registered \ {r} /\ working' = working \ {r}
  /\ UNCHANGED <<members, pools>>

Configure ==
  /\ pools' \in [Pool -> PoolConfig \cup {NoConfig}]
  /\ UNCHANGED <<members, registered, working>>

Next ==
  \/ Configure
  \/ \E S \in SUBSET Runner : Stop(S)
  \/ \E r \in Runner : \/ Register(r) \/ TakeJob(r) \/ LoseJob(r) \/ FinishJob(r) \/ Forget(r)
                       \/ \E p \in Pool : Start(r, p)

Spec == Init /\ [][Next]_vars
==============================================================================
