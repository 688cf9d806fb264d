------------------------ MODULE ReconcilerProperties ------------------------
(***************************************************************************)
(* What the capacity loop of module Reconciler promises, and what the      *)
(* repository says of it that the code does not keep.                      *)
(***************************************************************************)
EXTENDS Reconciler

\* Every variable has its type; above all a plan never grants a negative
\* number of slots (scheduler.py 618).
TypeOK ==
  /\ cstatus \in [Runner -> Container]
  /\ cpool \in [Runner -> Pool]
  /\ ctarget \in [Runner -> Target]
  /\ age \in [Runner -> Age]
  /\ gh \in [Runner -> Registration]
  /\ selected \in SUBSET Target
  /\ conns \in SUBSET Conn
  /\ pools \in [Pool -> PoolConfig \cup {NoConfig}]
  /\ floors \in [Pool -> [Target -> Nat]]
  /\ queue \in [Pool -> Seq(Target)] /\ \A p \in Pool : Len(queue[p]) <= MaxQueue
  /\ published \in [Runner -> RunnerState]
  /\ idleSince \in [Runner -> Timer]
  /\ busySince \in [Runner -> Timer]
  /\ request \in Request
  /\ running \in BOOLEAN
  /\ phase \in Phase
  /\ cycleConns \in SUBSET Conn
  /\ errs \in SUBSET Conn
  /\ seen \in [Runner -> {"none", "created", "running", "exited"}]
  /\ remote \in [Runner -> Registration]
  /\ live \in [Runner -> RunnerState]
  /\ todo \in SUBSET Pool
  /\ plan \in Plan
  /\ doomed \in SUBSET Runner
  /\ steady \in [Runner -> BOOLEAN]

---------------------------------------------------------------------------
(* Capacity *)

\* Every container of the pool is known to the running cycle.
Accounted(p) == \A r \in Existing(p) : live[r] # "none"

ListingComplete ==
  phase \in {"discover", "classify"} =>
    \A r \in Runner : cstatus[r] # "absent" => seen[r] # "none" \/ live[r] # "none"

UnscaledPoolsAccounted ==
  /\ phase = "forget" => \A p \in Pool : Accounted(p)
  /\ phase = "pool" => \A p \in todo : Accounted(p)
  /\ phase \in {"create", "down"} => \A p \in todo \ {plan.pool} : Accounted(p)

RoomLeft ==
  phase = "create" /\ plan.slots > 0 =>
    /\ pools[plan.pool] # NoConfig
    /\ Accounted(plan.pool)
    /\ Cardinality(LiveIn(plan.pool)) + plan.slots <= pools[plan.pool].max

LiveExists == \A r \in Runner : live[r] # "none" => cstatus[r] # "absent"
CurrentPool == phase \in {"pool", "create", "down"} => todo \subseteq Configured
ClassifiedOnce ==
  /\ phase = "free" => live = NoneOf
  /\ phase \notin {"discover", "classify"} => seen = NoneOf
  /\ \A r \in Runner : seen[r] # "none" => live[r] = "none" /\ cstatus[r] # "absent"

\* The cycle's view of the fleet is complete wherever a creation relies on it:
\* until a pool has been scaled, every container of that pool is in `live`, and
\* the slots still to be used fit under the pool's maximum.  It spans the list,
\* the classification, the failed creations of other pools and the lock that
\* keeps the pools fixed (scheduler.py 303, 411-489, 617-654).
CapacityInv ==
  /\ ListingComplete /\ UnscaledPoolsAccounted /\ RoomLeft /\ LiveExists
  /\ CurrentPool /\ ClassifiedOnce

Appears(r) == cstatus[r] = "absent" /\ cstatus'[r] # "absent"

CreationFits ==
  \A r \in Runner : \A p \in Pool : (Appears(r) /\ cpool'[r] = p) =>
    /\ pools[p] # NoConfig
    /\ Cardinality(Existing(p)') <= pools[p].max

\* No creation, in whatever order cycles, failures, crashes, restarts and edits
\* of the pools come, takes the containers Docker holds for a pool above the
\* maximum configured at that moment (scheduler.py 617-636 with the lock 281).
CreateWithinMax == [][CreationFits]_vars

\* The capacity the cycle knows of for target t in the pool it scales.
Capable(t) == LiveOn(plan.pool, t, RunnerState \ {"none"})

NeverBeyondWish ==
  phase = "create" /\ phase' = "create" =>
    \A t \in Target : Cardinality(Capable(t)') > Cardinality(Capable(t)) =>
      Cardinality(Capable(t)') <= plan.desired[t]
WishReached ==
  phase = "create" /\ phase' = "down" /\ plan.slots > 0 /\ (\E r \in Runner : Fresh(r)) =>
    \A t \in Target : ConnOf[t] \in errs \/ Cardinality(Capable(t)) >= plan.desired[t]
WishLeft ==
  phase = "down" /\ phase' = "down" =>
    \A r \in doomed : live'[r] = "none" =>
      Cardinality(Capable(ctarget[r])') >= plan.desired[ctarget[r]]

\* What the plan wants for a target is what the cycle makes of it, whatever fails in
\* between: no creation goes beyond it, creations that end with slots to spare have
\* reached it for every target whose connection answered, and ordinary scale-down
\* never goes below it (scheduler.py 600-692).
PlanCarriedOut == [][NeverBeyondWish /\ WishReached /\ WishLeft]_vars

---------------------------------------------------------------------------
(* Runners at work *)

Vanishes(r) == cstatus[r] # "absent" /\ cstatus'[r] = "absent"
InCycle == phase # "free" /\ phase' # "free"

JustRemoval(r) ==
  \/ age[r] = "expired" \/ busySince[r] = "due"
  \/ pools[cpool[r]] = NoConfig \/ ConnOfRunner(r) \notin cycleConns

\* GitHub's answer for r reached this cycle.
Answered(r) == ConnOfRunner(r) \notin errs /\ remote[r] # "none"

\* A runner that GitHub has reported busy ever since the cycle began, and that
\* the answers this cycle got contain, is removed by the cycle only for a
\* deadline (max_lifetime, job_timeout) or for a pool or connection that no
\* longer exists, whatever it was doing in earlier cycles and whichever other
\* requests failed (scheduler.py 411-489, 664-692).
BusyKept ==
  [][\A r \in Runner : (InCycle /\ steady[r] /\ Answered(r) /\ Vanishes(r)) => JustRemoval(r)]_vars

\* Only the registration of a runner whose container is gone is deleted on
\* GitHub, although containers and registrations are listed at different times
\* and a live runner may be offline for a while (scheduler.py 491-506).
ForgetSparesContainers ==
  [][\A r \in Runner : (gh[r] = "offline" /\ gh'[r] = "none") => cstatus[r] = "absent"]_vars

---------------------------------------------------------------------------
(* The abstract fleet *)

ContainersOf == [p \in Pool |-> Existing(p)]
KnownToGitHub == {r \in Runner : gh[r] # "none"}
AtWork == {r \in Runner : gh[r] = "busy"}

AbstractFleet == INSTANCE Fleet WITH
  members <- ContainersOf, registered <- KnownToGitHub, working <- AtWork

\* The loop with its discovery, failures, edits of pools and restarts implements
\* the fleet of module Fleet: every step, whatever else it does, starts one
\* container within its maximum, stops some, advances one registration, or
\* changes the pools, and never two of these at once (scheduler.py 280-697).
ImplementsFleet == AbstractFleet!Spec

---------------------------------------------------------------------------
(* What the documentation, a test or an error message promises *)

\* src/README.md:331: "Busy runners are never stopped for ordinary scale-down."
BusyNeverScaledDown ==
  [][\A r \in Runner : (phase = "down" /\ phase' = "down" /\ steady[r]) => ~Vanishes(r)]_vars

\* tests/test_scheduler.py:717, test_github_discovery_failure_does_not_remove_a_live_runner:
\* a failed discovery request is no reason to remove a runner that is at work.
DiscoveryFailureSparesBusy ==
  [][\A r \in Runner : (phase = "classify" /\ phase' = "classify" /\ steady[r] /\ Vanishes(r))
                          => JustRemoval(r)]_vars

\* README: "EasyRunners waits for active jobs and runners before allowing a
\* connection to be removed."
DisconnectWaitsForRunners ==
  [][\A c \in conns \ conns' : \A r \in Runner : cstatus[r] = "running" => ConnOfRunner(r) # c]_vars

---------------------------------------------------------------------------
(* Progress *)

\* The run loop, while it goes on, comes back after every interval, and a cycle
\* that has begun goes on whoever asked for it; Docker and GitHub answer; deadlines
\* pass; runners register, take queued jobs, finish and exit.
Fairness ==
  /\ WF_vars(CycleStep /\ (running \/ phase # "free"))
  /\ \A r \in Runner : /\ WF_vars(Register(r)) /\ WF_vars(JobAssigned(r))
                       /\ WF_vars(JobEnds(r)) /\ WF_vars(Exit(r))
                       /\ SF_vars(IdleElapses(r))

FairSpec == Spec /\ Fairness

SomeRunnerDies == \E r \in Runner : Dies(r)

\* A fault that happens again and again can undo every cycle; what is promised is
\* promised for the time after the last one.  A step that leads where another step
\* leads is none: the end of a cycle that knows of nothing looks like a restart.
NoFault == \/ Publish \/ GitHubFails \/ CommitFloor \/ \E p \in Pool : ClearFloors(p)
           \/ Environment
CrashesCease == <>[][Crash => NoFault]_vars
ErrorsCease == <>[][DockerFails => NoFault]_vars
DeathsCease == <>[][~SomeRunnerDies]_vars

\* "the oldest queued matching jobs receive available slots first"
\* (src/README.md:323): the oldest job of a pool is eventually run, even when
\* another target's idle runners or newer jobs hold or want the only slot, and
\* whatever runners died and restarts cut short before.
OldestJobServed ==
  CrashesCease /\ DeathsCease => \A p \in Pool, t \in Target :
    (queue[p] # <<>> /\ Head(queue[p]) = t) ~> (\E r \in Runner : gh[r] = "busy" /\ ctarget[r] = t)

\* A pool is brought back to its minimum again and again, whatever its runners
\* do: however often one dies or ends its job, in whatever cycle and step of it, and
\* after the last restart of the manager.
MinimumRestored ==
  CrashesCease => \A p \in Pool : []<>(pools[p] = NoConfig \/
    Cardinality({r \in Existing(p) : cstatus[r] = "running"}) >= pools[p].min)

\* What no longer belongs anywhere: the container ended, or its pool or its
\* connection was taken away while the cycle that created it ran.
Orphaned(r) ==
  \/ cstatus[r] = "exited"
  \/ /\ cstatus[r] # "absent"
     /\ pools[cpool[r]] = NoConfig \/ ConnOfRunner(r) \notin conns

\* An orphaned container does not stay, although the handlers that orphan it do
\* not look for it again (scheduler.py 411-440), Docker may fail to list or to
\* remove it for a while and restarts cut cycles short - unless the run loop has
\* ended, which the removal of a pool that jobs wait for can do to it (demand.py 135).
OrphansReaped ==
  ErrorsCease /\ CrashesCease => \A r \in Runner : Orphaned(r) ~> (~Orphaned(r) \/ ~running)
==============================================================================
