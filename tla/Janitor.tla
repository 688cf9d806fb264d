------------------------------- MODULE Janitor -------------------------------
(***************************************************************************)
(* What runners leave on the Docker host and who removes it: the teardown  *)
(* of a runner by the reconcile loop, and the janitor that the loop and    *)
(* the API start.  Both run in threads and meet at the Docker daemon only; *)
(* jobs create resources meanwhile.  A resource is one of its runner: the  *)
(* runner's container, a container, a network or a volume of its job.      *)
(***************************************************************************)
EXTENDS Integers, FiniteSets

CONSTANTS Runner,          \* runner ids on this host, of all EasyRunners instances
          Own,             \* those of this instance
          Prefixed,        \* foreign ones whose Compose project starts with our prefix
          Has,             \* the kinds of resource a runner comes to have
          Grace,           \* docker_resource_cleanup_grace_seconds, at least 30 s
          CleanupVolumes,  \* docker_resource_cleanup_volumes
          MaxLate,         \* how many units of time the lists of one inventory take
          MaxFaults        \* Docker errors and crashes

Kind == {"runner", "sibling", "network", "volume"}

ASSUME JanitorAssumption ==
  /\ Own \subseteq Runner /\ Prefixed \subseteq Runner \ Own
  /\ Has \in [Runner -> SUBSET Kind] /\ \A r \in Runner : "runner" \in Has[r]
  /\ Grace \in Nat \ {0} /\ MaxLate \in Nat /\ MaxFaults \in Nat
  /\ CleanupVolumes \in BOOLEAN

VARIABLES
  docker,    \* resource -> unborn, up, down (a container that exited), gone
  age,       \* resource -> age, up to MaxAge
  loop,      \* what the reconcile loop does: teardown of a runner, maintenance
  pass,      \* the cleanup in progress, behind the cleanup lock
  archived,  \* history: runners whose diagnostics were captured
  faults

vars == <<docker, age, loop, pass, archived, faults>>

Res == {x \in [kind : Kind, of : Runner] : x.kind \in Has[x.of]}
MaxAge == Grace + MaxLate
Container(r) == [kind |-> "runner", of |-> r]
IsContainer(x) == x.kind \in {"runner", "sibling"}
Present == {x \in Res : docker[x] \in {"up", "down"}}
RunsNow(r) == docker[Container(r)] = "up"

Least(a, b) == IF a <= b THEN a ELSE b

Resting == [op |-> "none"]
NoPass == [step |-> "none"]

---------------------------------------------------------------------------
(* What the inventory makes of what it lists *)

\* Labels of this instance and a runner, or a Compose project of our prefix.
ClaimsExplicit(x) == x.of \in Own /\ x.kind = "runner"
Claims(x) == x.of \in Own \cup Prefixed

\* Ages count from the moment before the first list.
OldWhenListed(x, late) == age[x] >= Grace
Old(x, late) == age[x] - late >= Grace

\* active_runner_ids and active_projects: own runners with a container that runs.
ActiveNow == {r \in Own : RunsNow(r)}

Listed(kinds) == {x \in Present : x.kind \in kinds}

---------------------------------------------------------------------------
(* The host *)

Init ==
  /\ docker = [x \in Res |-> "unborn"]
  /\ age = [x \in Res |-> 0]
  /\ loop = Resting /\ pass = NoPass
  /\ archived = {} /\ faults = 0

\* create_runner, and what the job of a running runner creates under its project.
Create(x) ==
  /\ docker[x] = "unborn"
  /\ x.kind = "runner" \/ RunsNow(x.of)
  /\ docker' = [docker EXCEPT ![x] = "up"]
  /\ UNCHANGED <<age, loop, pass, archived, faults>>

\* A container exits by itself: the job is done, or the job's service stops.
Exit(x) ==
  /\ IsContainer(x) /\ docker[x] = "up"
  /\ docker' = [docker EXCEPT ![x] = "down"]
  /\ UNCHANGED <<age, loop, pass, archived, faults>>

Scans == pass.step \in {"containers", "networks", "volumes"}
Aged == [x \in Res |-> IF x \in Present THEN Least(age[x] + 1, MaxAge) ELSE 0]
Tick ==
  /\ Scans => pass.late < MaxLate
  /\ age' = Aged
  /\ pass' = IF Scans THEN [pass EXCEPT !.late = @ + 1] ELSE pass
  /\ UNCHANGED <<docker, loop, archived, faults>>

\* A network is held by a container that runs, a volume by any container.
InUse(x) ==
  LET job == [kind |-> "sibling", of |-> x.of]
  IN  job \in Res /\ \/ x.kind = "network" /\ docker[job] = "up"
                     \/ x.kind = "volume" /\ docker[job] \in {"up", "down"}

Gone(X) == docker' = [x \in Res |-> IF x \in X THEN "gone" ELSE docker[x]]

\* A request to Docker fails.
Fault == faults < MaxFaults /\ faults' = faults + 1

---------------------------------------------------------------------------
(* remove_runner, called by the reconcile loop *)

\* The runner exited, or its capacity is given up while it is idle.
BeginTeardown(r) ==
  /\ loop = Resting /\ r \in Own /\ Container(r) \in Present
  /\ loop' = [op |-> "get", of |-> r]
  /\ UNCHANGED <<docker, age, pass, archived, faults>>

Teardown(op) == loop.op = op
Proceed(op) == loop' = [loop EXCEPT !.op = op]

\* A container that is gone has no diagnostics; its resources are looked for.  An
\* error of Docker or of the disk ends the teardown before anything is removed.
GetContainer ==
  /\ Teardown("get")
  /\ \/ /\ IF Container(loop.of) \in Present
           THEN archived' = archived \cup {loop.of} /\ Proceed("stop")
           ELSE UNCHANGED archived /\ Proceed("siblings")
        /\ UNCHANGED faults
     \/ Fault /\ loop' = Resting /\ UNCHANGED archived
  /\ UNCHANGED <<docker, age, pass>>

\* Whether or not it stops, the rest is done.
StopContainer ==
  /\ Teardown("stop")
  /\ Proceed("siblings")
  /\ \/ /\ docker' = [docker EXCEPT ![Container(loop.of)] = IF @ = "up" THEN "down" ELSE @]
        /\ UNCHANGED faults
     \/ Fault /\ UNCHANGED docker
  /\ UNCHANGED <<age, pass, archived>>

\* Resources of exactly this runner.  What cannot be removed is left; a list that
\* fails leaves the rest, too.
RemoveOwned(op, kind, next) ==
  /\ Teardown(op)
  /\ \/ Gone({x \in Present : x.kind = kind /\ x.of = loop.of /\ ~InUse(x)})
        /\ Proceed(next)
        /\ UNCHANGED faults
     \/ Fault /\ (Proceed(next) \/ Proceed("container")) /\ UNCHANGED docker
  /\ UNCHANGED <<age, pass, archived>>
RemoveSiblings == RemoveOwned("siblings", "sibling", "networks")
RemoveNetworks == RemoveOwned("networks", "network", IF CleanupVolumes THEN "volumes" ELSE "container")
RemoveVolumes == RemoveOwned("volumes", "volume", "container")

\* A container removed by somebody else meanwhile fails the cycle, and so may Docker.
RemoveContainer ==
  /\ Teardown("container")
  /\ \/ Gone({Container(loop.of)}) /\ UNCHANGED faults
     \/ Fault /\ UNCHANGED docker
  /\ loop' = Resting
  /\ UNCHANGED <<age, pass, archived>>

---------------------------------------------------------------------------
(* The inventory and the janitor *)

\* _maintain_docker_resources, when the interval is over and the inventory shows
\* something to remove; the loop then waits for the cleanup lock.
Maintain ==
  /\ loop = Resting
  /\ \E x \in Present : Claims(x) /\ x.of \notin ActiveNow /\ Old(x, 0)
  /\ loop' = [op |-> "maintain"]
  /\ UNCHANGED <<docker, age, pass, archived, faults>>

BeginPass(by) ==
  /\ pass = NoPass
  /\ by = "loop" => loop.op = "maintain"
  /\ pass' = [by |-> by, step |-> "containers", late |-> 0, active |-> {},
              seen |-> {}, old |-> {}, todo |-> {}, targets |-> {}, left |-> {}]
  /\ UNCHANGED <<docker, age, loop, archived, faults>>

Scan(step, kinds, next, active) ==
  /\ pass.step = step
  /\ pass' = [pass EXCEPT !.step = next, !.active = active,
                          !.seen = @ \cup Listed(kinds),
                          !.old = @ \cup {x \in Listed(kinds) : Old(x, pass.late)}]
  /\ UNCHANGED <<docker, age, loop, archived, faults>>
ScanContainers == Scan("containers", {"runner", "sibling"}, "networks", ActiveNow)
ScanNetworks == Scan("networks", {"network"}, "volumes", pass.active)
ScanVolumes == Scan("volumes", {"volume"}, "choose", pass.active)

Records == {x \in pass.seen : Claims(x) /\ x.of \notin pass.active}
Eligible == {x \in Records \cap pass.old : x.kind = "volume" => (pass.by = "api" \/ CleanupVolumes)}

\* The loop takes every eligible leftover; a request of the API names its targets,
\* none for a dry run.  Targets are passed over when an inventory of the API, which
\* takes no lock, replaces the handles published by this one with older ones.
Choose ==
  /\ pass.step = "choose"
  /\ \E keys \in SUBSET Eligible :
       /\ pass' = [pass EXCEPT !.step = "remove", !.late = 0, !.active = {}, !.seen = {},
                               !.old = {}, !.todo = keys, !.targets = keys]
       /\ IF pass.by = "api" \/ keys = Eligible THEN UNCHANGED faults ELSE Fault
  /\ UNCHANGED <<docker, age, loop, archived>>

RankSwapped(x) == IF x.kind = "network" THEN 0 ELSE IF IsContainer(x) THEN 1 ELSE 2
Rank(x) == IF IsContainer(x) THEN 0 ELSE IF x.kind = "network" THEN 1 ELSE 2

\* A container is stopped and removed; what fails is reported and left.
RemoveTarget(x) ==
  /\ pass.step = "remove" /\ x \in pass.todo
  /\ \A y \in pass.todo : Rank(x) <= Rank(y)
  /\ \/ /\ x \notin Present \/ ~InUse(x)
        /\ Gone({x}) /\ pass' = [pass EXCEPT !.todo = @ \ {x}]
        /\ UNCHANGED faults
     \/ /\ x \in Present /\ InUse(x)
        /\ pass' = [pass EXCEPT !.todo = @ \ {x}, !.left = @ \cup {x}]
        /\ UNCHANGED <<docker, faults>>
     \/ /\ Fault
        /\ pass' = [pass EXCEPT !.todo = @ \ {x}, !.targets = @ \ {x}]
        /\ UNCHANGED docker
  /\ UNCHANGED <<age, loop, archived>>

\* The lock is released.
PassOver ==
  /\ pass' = NoPass
  /\ loop' = IF pass.by = "loop" THEN Resting ELSE loop
EndPass ==
  /\ pass.step = "remove" /\ pass.todo = {}
  /\ PassOver
  /\ UNCHANGED <<docker, age, archived, faults>>

\* A list that fails ends the pass.
ListFails ==
  /\ Scans /\ Fault
  /\ PassOver
  /\ UNCHANGED <<docker, age, archived>>

\* What the manager was doing is lost when it goes down, the cleanup lock too.
LostLoop == loop' = Resting /\ UNCHANGED pass
Lost == loop' = Resting /\ pass' = NoPass
Crash ==
  /\ Fault
  /\ Lost
  /\ UNCHANGED <<docker, age, archived>>

---------------------------------------------------------------------------

Cycle == GetContainer \/ StopContainer \/ RemoveSiblings \/ RemoveNetworks
           \/ RemoveVolumes \/ RemoveContainer
Cleaning == ScanContainers \/ ScanNetworks \/ ScanVolumes \/ Choose
              \/ EndPass \/ \E x \in Res : RemoveTarget(x)

Next ==
  \/ Tick \/ Crash \/ ListFails \/ Cycle \/ Maintain \/ Cleaning
  \/ \E x \in Res : Create(x) \/ Exit(x)
  \/ \E r \in Runner : BeginTeardown(r)
  \/ \E by \in {"loop", "api"} : BeginPass(by)

\* Time passes, requests to Docker are answered, the loop comes round to a runner
\* that exited and to its maintenance, and the cleanup lock is handed on in the
\* order it was asked for.
Fairness ==
  /\ WF_vars(Tick) /\ WF_vars(Cycle) /\ WF_vars(Cleaning)
  /\ SF_vars(Maintain) /\ SF_vars(BeginPass("loop"))
  /\ \A r \in Own : SF_vars(~RunsNow(r) /\ BeginTeardown(r))

Spec == Init /\ [][Next]_vars
FairSpec == Spec /\ Fairness
==============================================================================
