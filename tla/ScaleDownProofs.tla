---------------------------- MODULE ScaleDownProofs ----------------------------
(***************************************************************************)
(* For every set of runners, pools, targets and connections: the cycle     *)
(* keeps the runners it knows to be at work, and what it retires is never  *)
(* capacity it wants.                                                      *)
(***************************************************************************)
EXTENDS ReconcilerProofs

---------------------------------------------------------------------------
(* What the cycle knows of a runner at work *)

\* A busy registration belongs to a container that runs.
BusyRuns == \A r \in Runner : gh[r] = "busy" => cstatus[r] = "running"
SteadyIsBusy == \A r \in Runner : steady[r] => gh[r] = "busy"

\* Nothing is classified before GitHub was asked.
NothingClassified == phase \in {"free", "discover"} => live = NoneOf

\* A runner busy since the list was made was listed as running, and whatever
\* answer the cycle got for it says so.
SteadyListed ==
  phase \in {"discover", "classify"} =>
    \A r \in Runner : steady[r] => seen[r] \in {"none", "running"}
SteadyKnown ==
  phase \notin {"free", "discover"} =>
    \A r \in Runner : steady[r] /\ Answered(r) => remote[r] = "busy" /\ live[r] \in {"none", "busy"}

WorkInv == BusyRuns /\ SteadyIsBusy /\ NothingClassified /\ SteadyListed /\ SteadyKnown

\* With the lock released the cycle claims nothing.
LEMMA OverWork ==
  ASSUME Released, BusyRuns', SteadyIsBusy'
  PROVE  WorkInv'
BY DEF Released, WorkInv, NothingClassified, SteadyListed, SteadyKnown

\* A step that leaves the cycle alone can only end the work of a runner.
LEMMA OutsideWork ==
  ASSUME WorkInv, UNCHANGED <<phase, errs, seen, remote, live, ctarget>>,
         \A r \in Runner : steady'[r] => steady[r],
         BusyRuns', SteadyIsBusy'
  PROVE  WorkInv'
<1>1. NothingClassified' /\ SteadyListed'
  BY DEF WorkInv, NothingClassified, SteadyListed, NoneOf
<1>2. \A r \in Runner : Answered(r)' <=> Answered(r)
  BY DEF Answered, ConnOfRunner
<1>3. SteadyKnown'
  BY <1>2 DEF WorkInv, SteadyKnown
<1> QED
  BY <1>1, <1>3 DEF WorkInv

\* Removing containers ends their work and no other.
LEMMA RemovedWork ==
  ASSUME TypeOK, WorkInv, NEW S, Removed(S)
  PROVE  BusyRuns' /\ SteadyIsBusy' /\ \A r \in Runner : steady'[r] => steady[r] /\ r \notin S
<1>1. \A r \in Runner : /\ steady'[r] => steady[r] /\ r \notin S
                        /\ r \notin S => gh'[r] = gh[r] /\ cstatus'[r] = cstatus[r]
                        /\ r \in S => gh'[r] # "busy"
  BY DEF Removed
<1> QED
  BY <1>1 DEF WorkInv, BusyRuns, SteadyIsBusy

\* A registration moves while its container runs, and work lasts while it is busy.
LEMMA RegistersWork ==
  ASSUME TypeOK, WorkInv, NEW r \in Runner, NEW state, Registers(r, state),
         state = "busy" => cstatus'[r] = "running",
         \A q \in Runner : q # r => cstatus'[q] = cstatus[q]
  PROVE  BusyRuns' /\ SteadyIsBusy' /\ \A q \in Runner : steady'[q] => steady[q]
<1>1. \A q \in Runner : gh'[q] = IF q = r THEN state ELSE gh[q]
  BY DEF Registers, TypeOK
<1>2. \A q \in Runner : steady'[q] => steady[q] /\ (q = r => state = "busy")
  BY DEF Registers, TypeOK
<1> QED
  BY <1>1, <1>2 DEF WorkInv, BusyRuns, SteadyIsBusy

\* The list is made while a busy runner's container runs.
LEMMA BeginWork ==
  ASSUME TypeOK, WorkInv, Begin
  PROVE  WorkInv'
<1>1. /\ phase' = "discover" /\ phase = "free" /\ UNCHANGED <<cstatus, gh, live>>
      /\ \A r \in Runner : steady'[r] = (gh[r] = "busy") /\ seen'[r] = DockerView(r)
  BY DEF Begin, world
<1>2. BusyRuns' /\ SteadyIsBusy'
  BY <1>1 DEF WorkInv, BusyRuns, SteadyIsBusy
<1>3. SteadyListed'
  BY <1>1 DEF WorkInv, BusyRuns, SteadyListed, DockerView
<1>4. NothingClassified' /\ SteadyKnown'
  BY <1>1 DEF WorkInv, NothingClassified, SteadyKnown, NoneOf
<1> QED
  BY <1>2, <1>3, <1>4 DEF WorkInv

\* An answer about a runner that is busy all along says busy.
LEMMA DiscoverWork ==
  ASSUME TypeOK, WorkInv, Discover
  PROVE  WorkInv'
<1>1. /\ phase = "discover" /\ phase' = "classify"
      /\ UNCHANGED <<cstatus, gh, live, seen, steady, ctarget>>
  BY DEF Discover, world
<1>2. \A r \in Runner : remote'[r] \in {gh[r], "none"}
  BY DEF Discover
<1>3. BusyRuns' /\ SteadyIsBusy'
  BY <1>1 DEF WorkInv, BusyRuns, SteadyIsBusy
<1>4. NothingClassified' /\ SteadyListed'
  BY <1>1 DEF WorkInv, NothingClassified, SteadyListed
<1>5. SteadyKnown'
  <2>1. \A r \in Runner : live[r] = "none"
    BY <1>1 DEF WorkInv, NothingClassified, NoneOf
  <2>2. ASSUME NEW r \in Runner, steady'[r], Answered(r)'
        PROVE  remote'[r] = "busy" /\ live'[r] = "none"
    <3>1. gh[r] = "busy"
      BY <1>1, <2>2 DEF WorkInv, SteadyIsBusy
    <3>2. remote'[r] # "none"
      BY <2>2 DEF Answered
    <3> QED
      BY <1>1, <1>2, <2>1, <3>1, <3>2
  <2> QED
    BY <2>2 DEF SteadyKnown
<1> QED
  BY <1>3, <1>4, <1>5 DEF WorkInv

\* A runner that answered busy is kept as busy.
LEMMA KeepWork ==
  ASSUME TypeOK, WorkInv, NEW r \in Runner, Keep(r)
  PROVE  WorkInv'
<1>1. /\ phase = "classify" /\ UNCHANGED <<phase, cstatus, gh, ctarget, errs, remote, steady>>
  BY DEF Keep, world
<1>2. \A q \in Runner : /\ live'[q] = IF q = r THEN KeptState(r) ELSE live[q]
                        /\ seen'[q] = IF q = r THEN "none" ELSE seen[q]
  BY DEF Keep, TypeOK
<1>3. BusyRuns' /\ SteadyIsBusy' /\ NothingClassified'
  BY <1>1 DEF WorkInv, BusyRuns, SteadyIsBusy, NothingClassified
<1>4. SteadyListed'
  BY <1>1, <1>2 DEF WorkInv, SteadyListed
<1>5. SteadyKnown'
  <2>1. \A q \in Runner : Answered(q)' <=> Answered(q)
    BY <1>1 DEF Answered, ConnOfRunner
  <2>2. remote[r] = "busy" /\ Answered(r) => KeptState(r) = "busy"
    BY DEF KeptState, Answered
  <2> QED
    BY <1>1, <1>2, <2>1, <2>2 DEF WorkInv, SteadyKnown
<1> QED
  BY <1>3, <1>4, <1>5 DEF WorkInv

\* Reaping ends the work of the runner that goes.
LEMMA ReapWork ==
  ASSUME TypeOK, WorkInv, NEW r \in Runner, Reap(r)
  PROVE  WorkInv'
<1>1. /\ phase = "classify" /\ UNCHANGED <<phase, live, ctarget, errs, remote>> /\ Removed({r})
  BY DEF Reap
<1>2. BusyRuns' /\ SteadyIsBusy' /\ \A q \in Runner : steady'[q] => steady[q]
  BY <1>1, RemovedWork
<1>3. \A q \in Runner : seen'[q] \in {seen[q], "none"}
  BY DEF Reap, TypeOK
<1>4. NothingClassified' /\ SteadyListed'
  BY <1>1, <1>2, <1>3 DEF WorkInv, NothingClassified, SteadyListed
<1>5. SteadyKnown'
  <2>1. \A q \in Runner : Answered(q)' <=> Answered(q)
    BY <1>1 DEF Answered, ConnOfRunner
  <2> QED
    BY <1>1, <1>2, <2>1 DEF WorkInv, SteadyKnown
<1> QED
  BY <1>2, <1>4, <1>5 DEF WorkInv

\* A deleted registration was offline, so nobody's work ends.
LEMMA ForgetWork ==
  ASSUME TypeOK, WorkInv, NEW r \in Runner, Forget(r)
  PROVE  WorkInv'
<1>1. /\ phase = "forget" /\ UNCHANGED <<phase, cstatus, live, ctarget, errs>>
      /\ \A q \in Runner : /\ q # r => gh'[q] = gh[q] /\ remote'[q] = remote[q]
                           /\ steady'[q] => steady[q] /\ q # r
                           /\ gh'[r] = "none"
  BY DEF Forget, TypeOK
<1>2. BusyRuns' /\ SteadyIsBusy'
  BY <1>1 DEF WorkInv, BusyRuns, SteadyIsBusy
<1>3. NothingClassified' /\ SteadyListed'
  BY <1>1 DEF WorkInv, NothingClassified, SteadyListed
<1>4. SteadyKnown'
  <2>1. \A q \in Runner : q # r => (Answered(q)' <=> Answered(q))
    BY <1>1 DEF Answered, ConnOfRunner
  <2> QED
    BY <1>1, <2>1 DEF WorkInv, SteadyKnown
<1> QED
  BY <1>2, <1>3, <1>4 DEF WorkInv

\* A container that is launched has a name nobody works under.
LEMMA LaunchWork ==
  ASSUME TypeOK, WorkInv, NEW r \in Runner, NEW t \in Target, NEW s, Launch(r, t, s),
         phase = "create", UNCHANGED <<phase, gh, errs, remote, steady>>,
         \A q \in Runner : q # r => live'[q] = live[q]
  PROVE  WorkInv'
<1>1. gh[r] = "none" /\ ~steady[r]
  BY DEF Launch, Fresh, WorkInv, SteadyIsBusy
<1>2. \A q \in Runner : q # r => cstatus'[q] = cstatus[q] /\ ctarget'[q] = ctarget[q]
  BY DEF Launch, TypeOK
<1>3. BusyRuns' /\ SteadyIsBusy'
  BY <1>1, <1>2 DEF WorkInv, BusyRuns, SteadyIsBusy
<1>4. NothingClassified' /\ SteadyListed'
  BY DEF NothingClassified, SteadyListed
<1>5. SteadyKnown'
  <2>1. \A q \in Runner : q # r => (Answered(q)' <=> Answered(q))
    BY <1>2 DEF Answered, ConnOfRunner
  <2> QED
    BY <1>1, <2>1 DEF WorkInv, SteadyKnown
<1> QED
  BY <1>3, <1>4, <1>5 DEF WorkInv

\* A step from one stage of the cycle to a later one tells it nothing new.
LEMMA StageWork ==
  ASSUME WorkInv, phase \notin {"free", "discover"}, phase' \notin {"free", "discover", "classify"},
         UNCHANGED <<cstatus, gh, ctarget, errs, remote, live, steady>>
  PROVE  WorkInv'
<1>1. \A q \in Runner : Answered(q)' <=> Answered(q)
  BY DEF Answered, ConnOfRunner
<1> QED
  BY <1>1 DEF WorkInv, BusyRuns, SteadyIsBusy, NothingClassified, SteadyListed, SteadyKnown

\* Every step of the cycle keeps what it knows of runners at work.
LEMMA CycleWork ==
  ASSUME TypeOK, WorkInv, CycleStep
  PROVE  WorkInv'
<1>1. ASSUME Released, UNCHANGED <<cstatus, gh, steady>>
      PROVE  WorkInv'
  <2>1. BusyRuns' /\ SteadyIsBusy'
    BY <1>1 DEF WorkInv, BusyRuns, SteadyIsBusy
  <2> QED
    BY <1>1, <2>1, OverWork
<1>2. CASE Begin \/ Discover
  BY <1>2, BeginWork, DiscoverWork
<1>3. CASE EndClassify \/ EndForget \/ EndCreate \/ EndPool
  BY <1>3, StageWork DEF EndClassify, EndForget, EndCreate, EndPool, world
<1>4. CASE Publish \/ GitHubFails
  BY <1>1, <1>4 DEF Publish, GitHubFails, CycleOver, world
<1>5. CASE DockerFails
  <2>1. CASE UNCHANGED <<cstatus, age, gh, steady>>
    BY <1>1, <1>5, <2>1 DEF DockerFails, CycleOver
  <2>2. CASE \E r \in Runner : Removed({r})
    BY <1>5, <2>2, RemovedWork, OverWork DEF DockerFails, CycleOver
  <2> QED
    BY <1>5, <2>1, <2>2 DEF DockerFails
<1>6. ASSUME NEW r \in Runner, Keep(r) \/ Reap(r) \/ Forget(r)
      PROVE  WorkInv'
  BY <1>6, KeepWork, ReapWork, ForgetWork
<1>7. ASSUME NEW r \in Runner, ScaleDown(r)
      PROVE  WorkInv'
  <2>1. /\ phase = "down" /\ UNCHANGED <<phase, ctarget, errs, remote>> /\ Removed({r})
        /\ \A q \in Runner : live'[q] \in {live[q], "none"}
    BY <1>7 DEF ScaleDown, TypeOK
  <2>2. BusyRuns' /\ SteadyIsBusy' /\ \A q \in Runner : steady'[q] => steady[q]
    BY <2>1, RemovedWork
  <2>3. \A q \in Runner : Answered(q)' <=> Answered(q)
    BY <2>1 DEF Answered, ConnOfRunner
  <2> QED
    BY <2>1, <2>2, <2>3 DEF WorkInv, NothingClassified, SteadyListed, SteadyKnown
<1>8. ASSUME NEW p \in Pool, StartPool(p)
      PROVE  WorkInv'
  BY <1>8, StageWork DEF StartPool, world
<1>9. ASSUME NEW t \in Target, SkipTarget(t)
      PROVE  WorkInv'
  BY <1>9, StageWork DEF SkipTarget, Wanted, world
<1>10. ASSUME NEW t \in Target, CreateFails(t)
      PROVE  WorkInv'
  <2>1. phase = "create" /\ UNCHANGED <<phase, gh, errs, remote, live, steady>>
    BY <1>10 DEF CreateFails, Wanted
  <2>2. CASE UNCHANGED <<cstatus, cpool, ctarget>>
    BY <2>1, <2>2, StageWork
  <2>3. CASE \E r \in Runner : Launch(r, t, "created")
    BY <2>1, <2>3, LaunchWork
  <2> QED
    BY <1>10, <2>2, <2>3 DEF CreateFails
<1>11. ASSUME NEW r \in Runner, NEW t \in Target, CreateRunner(r, t)
      PROVE  WorkInv'
  <2>1. /\ phase = "create" /\ UNCHANGED <<phase, gh, errs, remote, steady>>
        /\ \A q \in Runner : q # r => live'[q] = live[q]
        /\ Launch(r, t, "running")
    BY <1>11 DEF CreateRunner, Wanted, TypeOK
  <2> QED
    BY <2>1, LaunchWork
<1> QED
  BY <1>2, <1>3, <1>4, <1>5, <1>6, <1>7, <1>8, <1>9, <1>10, <1>11 DEF CycleStep

\* Every HTTP handler, crash and shutdown keeps it.
LEMMA ApiWork ==
  ASSUME TypeOK, WorkInv, ApiStep
  PROVE  WorkInv'
<1>1. ASSUME UNCHANGED <<world, cycle, steady>>
      PROVE  WorkInv'
  <2>1. UNCHANGED <<phase, errs, seen, remote, live, ctarget, cstatus, gh, steady>>
    BY <1>1 DEF world, cycle
  <2>2. BusyRuns' /\ SteadyIsBusy'
    BY <2>1 DEF WorkInv, BusyRuns, SteadyIsBusy
  <2> QED
    BY <2>1, <2>2, OutsideWork
<1>2. CASE Crash
  <2>1. BusyRuns' /\ SteadyIsBusy'
    BY <1>2 DEF Crash, world, WorkInv, BusyRuns, SteadyIsBusy
  <2> QED
    BY <1>2, <2>1, OverWork DEF Crash, Forgotten
<1>3. CASE Shutdown
  BY <1>3, RemovedWork, OverWork DEF Shutdown, Forgotten
<1> QED
  BY <1>1, <1>2, <1>3 DEF ApiStep, CheckPools, CommitPools, CommitFloor, CheckFloor, ClearFloors,
                          Disconnect

\* Runners, GitHub and time keep it.
LEMMA EnvironmentWork ==
  ASSUME TypeOK, WorkInv, Environment
  PROVE  WorkInv'
<1>1. ASSUME NEW r \in Runner, NEW state, Registers(r, state), RestUnchanged,
             state = "busy" => cstatus'[r] = "running",
             \A q \in Runner : q # r => cstatus'[q] = cstatus[q]
      PROVE  WorkInv'
  <2>1. UNCHANGED <<phase, errs, seen, remote, live, ctarget>>
    BY <1>1 DEF RestUnchanged, cycle
  <2> QED
    BY <1>1, <2>1, RegistersWork, OutsideWork
<1>2. ASSUME UNCHANGED <<cycle, ctarget, gh, steady>>,
             \A r \in Runner : gh[r] = "busy" => cstatus'[r] = cstatus[r]
      PROVE  WorkInv'
  <2>1. UNCHANGED <<phase, errs, seen, remote, live, ctarget, gh, steady>>
    BY <1>2 DEF cycle
  <2>2. BusyRuns' /\ SteadyIsBusy'
    BY <1>2 DEF WorkInv, BusyRuns, SteadyIsBusy
  <2> QED
    BY <2>1, <2>2, OutsideWork
<1>3. ASSUME NEW r \in Runner, Register(r)
      PROVE  WorkInv'
  BY <1>1, <1>3 DEF Register
<1>4. ASSUME NEW r \in Runner, JobAssigned(r)
      PROVE  WorkInv'
  BY <1>1, <1>4 DEF JobAssigned
<1>5. ASSUME NEW r \in Runner, JobEnds(r)
      PROVE  WorkInv'
  BY <1>1, <1>5 DEF JobEnds, TypeOK
<1>6. ASSUME NEW r \in Runner, Exit(r)
      PROVE  WorkInv'
  BY <1>2, <1>6 DEF Exit, RestUnchanged, TypeOK, WorkInv, BusyRuns
<1>7. ASSUME NEW r \in Runner, Dies(r)
      PROVE  WorkInv'
  BY <1>1, <1>7 DEF Dies, TypeOK
<1>8. ASSUME NEW r \in Runner, Flap(r)
      PROVE  WorkInv'
  BY <1>1, <1>8 DEF Flap
<1>9. ASSUME NEW r \in Runner, Aging(r) \/ IdleElapses(r) \/ BusyElapses(r)
      PROVE  WorkInv'
  BY <1>2, <1>9 DEF Aging, IdleElapses, BusyElapses, RestUnchanged
<1>10. ASSUME NEW p \in Pool, NEW t \in Target, JobArrives(p, t)
      PROVE  WorkInv'
  BY <1>2, <1>10 DEF JobArrives, RestUnchanged
<1>11. ASSUME NEW t \in Target, Reselect(t)
      PROVE  WorkInv'
  BY <1>2, <1>11 DEF Reselect
<1>12. ASSUME NEW p \in Pool, Unmatch(p)
      PROVE  WorkInv'
  BY <1>2, <1>12 DEF Unmatch, RestUnchanged
<1> QED
  BY <1>3, <1>4, <1>5, <1>6, <1>7, <1>8, <1>9, <1>10, <1>11, <1>12 DEF Environment, RunnerStep

\* The same with types, capacity and steps that change nothing.
LEMMA StepWork ==
  ASSUME TypeOK, WorkInv, [Next]_vars
  PROVE  WorkInv'
<1>1. CASE UNCHANGED vars
  <2>1. UNCHANGED <<phase, errs, seen, remote, live, ctarget, cstatus, gh, steady>>
    BY <1>1 DEF vars, world, cycle
  <2>2. BusyRuns' /\ SteadyIsBusy'
    BY <2>1 DEF WorkInv, BusyRuns, SteadyIsBusy
  <2> QED
    BY <2>1, <2>2, OutsideWork
<1> QED
  BY <1>1, CycleWork, ApiWork, EnvironmentWork DEF Next

\* At the start nobody works.
LEMMA InitWork ==
  ASSUME Init
  PROVE  WorkInv
BY DEF Init, NoneOf, WorkInv, BusyRuns, SteadyIsBusy, NothingClassified, SteadyListed, SteadyKnown

---------------------------------------------------------------------------
(* What is retired *)

DoomedOn(t) == {r \in doomed : ctarget[r] = t}

\* While a pool is scaled down, those about to go are idle runners of this pool,
\* and a target that loses any keeps what the plan wants for it.
DoomedIdle ==
  phase = "down" => \A r \in doomed : r \in LiveIn(plan.pool) /\ live[r] = "idle"
DemandCovered ==
  phase = "down" =>
    \A t \in Target : DoomedOn(t) # {} =>
      plan.desired[t] + Cardinality(DoomedOn(t)) <= Cardinality(Capable(t))

RetireInv == DoomedIdle /\ DemandCovered

\* Outside a scale-down nothing is claimed.
LEMMA ElsewhereRetire ==
  ASSUME phase' # "down"
  PROVE  RetireInv'
BY DEF RetireInv, DoomedIdle, DemandCovered

\* The claim is about the cycle and the labels only.
LEMMA OutsideRetire ==
  ASSUME RetireInv, UNCHANGED <<phase, plan, doomed, live, cpool, ctarget>>
  PROVE  RetireInv'
<1>1. LiveIn(plan.pool)' = LiveIn(plan.pool)
  BY DEF LiveIn
<1>2. \A t \in Target : DoomedOn(t)' = DoomedOn(t) /\ Capable(t)' = Capable(t)
  BY DEF DoomedOn, Capable, LiveOn, LiveIn
<1>3. DoomedIdle'
  BY <1>1 DEF RetireInv, DoomedIdle
<1>4. DemandCovered'
  BY <1>2 DEF RetireInv, DemandCovered
<1> QED
  BY <1>3, <1>4 DEF RetireInv

\* The retired of a target and the capacity that stays: of the idle runners only
\* those past the allowance go, and the allowance is what the demand still needs
\* beside the busy and the starting ones.
LEMMA AllowanceCovers ==
  ASSUME NEW desired \in Nat, NEW busy \in Nat, NEW starting \in Nat, NEW due \in Nat,
         NEW idle \in Nat, due <= idle,
         Retired(due, IdleAllowance(desired, busy, starting)) # 0
  PROVE  desired + Retired(due, IdleAllowance(desired, busy, starting))
           <= busy + starting + idle
BY DEF Retired, IdleAllowance, Larger

\* Busy, starting and idle runners are different runners.
LEMMA StatesAdd ==
  ASSUME TypeOK, NEW p \in Pool, NEW t \in Target
  PROVE  /\ Cardinality(LiveOn(p, t, {"busy"})) \in Nat
         /\ Cardinality(LiveOn(p, t, {"starting"})) \in Nat
         /\ Cardinality(LiveOn(p, t, {"idle"})) \in Nat
         /\ Cardinality(LiveOn(p, t, RunnerState \ {"none"})) =
              Cardinality(LiveOn(p, t, {"busy"})) + Cardinality(LiveOn(p, t, {"starting"}))
                + Cardinality(LiveOn(p, t, {"idle"}))
<1> DEFINE B == LiveOn(p, t, {"busy"})
           S == LiveOn(p, t, {"starting"})
           I == LiveOn(p, t, {"idle"})
           A == LiveOn(p, t, RunnerState \ {"none"})
<1>1. IsFiniteSet(B) /\ IsFiniteSet(S) /\ IsFiniteSet(I) /\ IsFiniteSet(B \cup S)
  <2>1. B \subseteq Runner /\ S \subseteq Runner /\ I \subseteq Runner
    BY DEF LiveOn, LiveIn
  <2>2. B \cup S \subseteq Runner
    BY <2>1
  <2> HIDE DEF B, S, I
  <2> QED
    BY <2>1, <2>2, FS_Subset, ReconcilerAssumption
<1>2. A = (B \cup S) \cup I /\ B \cap S = {} /\ (B \cup S) \cap I = {}
  <2>1. B \cap S = {} /\ (B \cup S) \cap I = {}
    BY DEF LiveOn
  <2>2. A = (B \cup S) \cup I
    BY DEF LiveOn, RunnerState
  <2> QED
    BY <2>1, <2>2
<1> HIDE DEF B, S, I, A
<1>3. Cardinality(B) \in Nat /\ Cardinality(S) \in Nat /\ Cardinality(I) \in Nat
  BY <1>1, FS_CardinalityType
<1>4. Cardinality({}) = 0
  BY FS_EmptySet
<1>5. Cardinality(B \cup S) = Cardinality(B) + Cardinality(S)
  <2>1. Cardinality(B \cup S) = Cardinality(B) + Cardinality(S) - Cardinality(B \cap S)
    BY <1>1, FS_Union
  <2>2. Cardinality(B \cap S) = 0
    BY Zenon, <1>2, <1>4
  <2> QED
    BY <1>3, <2>1, <2>2
<1>6. Cardinality(A) = Cardinality(B \cup S) + Cardinality(I)
  <2>1. Cardinality((B \cup S) \cup I)
          = Cardinality(B \cup S) + Cardinality(I) - Cardinality((B \cup S) \cap I)
    BY <1>1, FS_Union
  <2>2. Cardinality((B \cup S) \cap I) = 0
    BY Zenon, <1>2, <1>4
  <2>3. Cardinality(A) = Cardinality((B \cup S) \cup I)
    BY Zenon, <1>2
  <2> QED
    BY <1>3, <1>5, <2>1, <2>2, <2>3
<1> QED
  BY <1>3, <1>5, <1>6 DEF A, B, S, I

\* What is chosen for removal satisfies the claim.
LEMMA EndCreateRetire ==
  ASSUME TypeOK, EndCreate
  PROVE  RetireInv'
<1>1. /\ doomed' \in Removable(plan.pool)
      /\ UNCHANGED <<plan, live, cpool, ctarget, idleSince>>
  BY DEF EndCreate, world, memory
<1>2. plan.pool \in Pool /\ plan.desired \in [Target -> Nat]
  BY DEF TypeOK, Plan
<1>3. LiveIn(plan.pool)' = LiveIn(plan.pool)
  BY <1>1 DEF LiveIn
<1>4. DoomedIdle'
  BY <1>1, <1>3 DEF DoomedIdle, Removable
<1>5. ASSUME NEW t \in Target, DoomedOn(t)' # {}
      PROVE  plan.desired[t] + Cardinality(DoomedOn(t)') <= Cardinality(Capable(t)')
  <2> DEFINE D == {r \in doomed' : ctarget[r] = t}
             due == Cardinality(DueIdle(plan.pool, t))
             busy == Cardinality(LiveOn(plan.pool, t, {"busy"}))
             starting == Cardinality(LiveOn(plan.pool, t, {"starting"}))
             idle == Cardinality(LiveOn(plan.pool, t, {"idle"}))
  <2>1. DoomedOn(t)' = D /\ Capable(t)' = Capable(t)
    BY <1>1 DEF DoomedOn, Capable, LiveOn, LiveIn
  <2>2. Cardinality(D) = Retired(due, IdleAllowance(plan.desired[t], busy, starting))
    BY <1>1 DEF Removable
  <2>3. busy \in Nat /\ starting \in Nat /\ idle \in Nat
        /\ Cardinality(Capable(t)) = busy + starting + idle
    BY <1>2, StatesAdd DEF Capable
  <2>4. due \in Nat /\ due <= idle
    <3>1. LiveOn(plan.pool, t, {"idle"}) \subseteq Runner
      BY DEF LiveOn, LiveIn
    <3>2. DueIdle(plan.pool, t) \subseteq LiveOn(plan.pool, t, {"idle"})
      BY DEF DueIdle
    <3>3. IsFiniteSet(LiveOn(plan.pool, t, {"idle"}))
      BY <3>1, FS_Subset, ReconcilerAssumption
    <3>4. IsFiniteSet(DueIdle(plan.pool, t)) /\ due <= idle
      BY <3>2, <3>3, FS_Subset
    <3> QED
      BY <3>4, FS_CardinalityType
  <2>5. Cardinality(D) # 0
    <3>1. D \subseteq Runner
      BY <1>1 DEF Removable, LiveIn
    <3>2. IsFiniteSet(D)
      BY <3>1, FS_Subset, ReconcilerAssumption
    <3>3. D # {}
      BY <1>5, <2>1
    <3> HIDE DEF D
    <3> QED
      BY <3>2, <3>3, FS_EmptySet
  <2> HIDE DEF D, due, busy, starting, idle
  <2>6. plan.desired[t] \in Nat
    BY <1>2
  <2>7. plan.desired[t] + Cardinality(D) <= busy + starting + idle
    BY <2>2, <2>3, <2>4, <2>5, <2>6, AllowanceCovers
  <2> QED
    BY <2>1, <2>3, <2>7
<1>6. DemandCovered'
  BY <1>1, <1>5 DEF DemandCovered
<1> QED
  BY <1>4, <1>6 DEF RetireInv

\* A runner that goes takes one from either side.
LEMMA ScaleDownRetire ==
  ASSUME TypeOK, RetireInv, NEW r \in Runner, ScaleDown(r)
  PROVE  /\ RetireInv'
         /\ Cardinality(Capable(ctarget[r])') >= plan.desired[ctarget[r]]
<1>1. /\ phase = "down" /\ r \in doomed
      /\ UNCHANGED <<phase, plan, cpool, ctarget>>
      /\ doomed' = doomed \ {r}
      /\ \A q \in Runner : live'[q] = IF q = r THEN "none" ELSE live[q]
  BY DEF ScaleDown, TypeOK
<1>2. r \in LiveIn(plan.pool) /\ live[r] = "idle" /\ doomed \in SUBSET Runner
  BY <1>1 DEF RetireInv, DoomedIdle, TypeOK
<1>3. DoomedIdle'
  BY <1>1 DEF RetireInv, DoomedIdle, LiveIn, TypeOK
<1>4. \A t \in Target :
         /\ DoomedOn(t)' = DoomedOn(t) \ {r}
         /\ Capable(t)' = Capable(t) \ {r}
         /\ ctarget[r] = t => r \in DoomedOn(t) /\ r \in Capable(t)
         /\ ctarget[r] # t => r \notin DoomedOn(t) /\ r \notin Capable(t)
  <2> TAKE t \in Target
  <2>1. DoomedOn(t)' = DoomedOn(t) \ {r}
    BY <1>1 DEF DoomedOn
  <2>2. Capable(t)' = Capable(t) \ {r}
    BY <1>1 DEF Capable, LiveOn, LiveIn
  <2>3. /\ ctarget[r] = t => r \in DoomedOn(t) /\ r \in Capable(t)
        /\ ctarget[r] # t => r \notin DoomedOn(t) /\ r \notin Capable(t)
    BY <1>1, <1>2 DEF DoomedOn, Capable, LiveOn, RunnerState
  <2> QED
    BY <2>1, <2>2, <2>3
<1>5. \A t \in Target :
         /\ IsFiniteSet(DoomedOn(t)) /\ IsFiniteSet(Capable(t))
         /\ Cardinality(DoomedOn(t)) \in Nat /\ Cardinality(Capable(t)) \in Nat
  <2> TAKE t \in Target
  <2>1. DoomedOn(t) \subseteq Runner /\ Capable(t) \subseteq Runner
    BY <1>2 DEF DoomedOn, Capable, LiveOn, LiveIn
  <2>2. IsFiniteSet(DoomedOn(t)) /\ IsFiniteSet(Capable(t))
    BY <2>1, FS_Subset, ReconcilerAssumption
  <2> QED
    BY <2>2, FS_CardinalityType
<1>6. \A t \in Target : ctarget[r] = t =>
         /\ Cardinality(DoomedOn(t)') = Cardinality(DoomedOn(t)) - 1
         /\ Cardinality(Capable(t)') = Cardinality(Capable(t)) - 1
         /\ Cardinality(DoomedOn(t)) > 0
  <2> SUFFICES ASSUME NEW t \in Target, ctarget[r] = t
               PROVE  /\ Cardinality(DoomedOn(t)') = Cardinality(DoomedOn(t)) - 1
                      /\ Cardinality(Capable(t)') = Cardinality(Capable(t)) - 1
                      /\ Cardinality(DoomedOn(t)) > 0
    OBVIOUS
  <2>1. Cardinality(DoomedOn(t)') = Cardinality(DoomedOn(t)) - 1
    BY <1>4, <1>5, FS_RemoveElement
  <2>2. Cardinality(Capable(t)') = Cardinality(Capable(t)) - 1
    BY <1>4, <1>5, FS_RemoveElement
  <2>3. Cardinality(DoomedOn(t)) # 0
    BY <1>4, <1>5, FS_EmptySet
  <2> QED
    BY <1>5, <2>1, <2>2, <2>3
<1>7. \A t \in Target : plan.desired[t] \in Nat
  BY DEF TypeOK, Plan
<1>8. \A t \in Target : DoomedOn(t) # {} =>
         plan.desired[t] + Cardinality(DoomedOn(t)) <= Cardinality(Capable(t))
  BY <1>1 DEF RetireInv, DemandCovered
<1>9. DemandCovered'
  <2> SUFFICES ASSUME NEW t \in Target, DoomedOn(t)' # {}
               PROVE  plan.desired[t] + Cardinality(DoomedOn(t)') <= Cardinality(Capable(t)')
    BY <1>1 DEF DemandCovered
  <2>1. DoomedOn(t) # {}
    BY <1>4
  <2>2. CASE ctarget[r] = t
    BY <1>5, <1>6, <1>7, <1>8, <2>1, <2>2
  <2>3. CASE ctarget[r] # t
    <3>1. DoomedOn(t)' = DoomedOn(t) /\ Capable(t)' = Capable(t)
      BY <1>4, <2>3
    <3> QED
      BY <1>8, <2>1, <3>1
  <2> QED
    BY <2>2, <2>3
<1>10. Cardinality(Capable(ctarget[r])') >= plan.desired[ctarget[r]]
  <2>1. PICK t \in Target : ctarget[r] = t
    BY DEF TypeOK
  <2>2. Cardinality(Capable(t)') >= plan.desired[t]
    <3>1. DoomedOn(t) # {}
      BY <1>4, <2>1
    <3> QED
      BY <1>5, <1>6, <1>7, <1>8, <2>1, <3>1
  <2>3. Capable(ctarget[r])' = Capable(t)'
    BY <1>1, <2>1 DEF Capable, LiveOn
  <2> QED
    BY <2>1, <2>2, <2>3
<1> QED
  BY <1>3, <1>9, <1>10 DEF RetireInv

\* Every step of the cycle keeps the claim.
LEMMA CycleRetire ==
  ASSUME TypeOK, RetireInv, CycleStep
  PROVE  RetireInv'
<1>1. CASE EndCreate
  BY <1>1, EndCreateRetire
<1>2. ASSUME NEW r \in Runner, ScaleDown(r)
      PROVE  RetireInv'
  BY <1>2, ScaleDownRetire
<1>3. CASE Begin \/ Discover \/ EndClassify \/ EndForget \/ EndPool
  BY <1>3, ElsewhereRetire DEF Begin, Discover, EndClassify, EndForget, EndPool
<1>4. CASE Publish \/ DockerFails \/ GitHubFails
  BY <1>4, ElsewhereRetire DEF Publish, DockerFails, GitHubFails, CycleOver, Released
<1>5. ASSUME NEW r \in Runner, Keep(r) \/ Reap(r) \/ Forget(r)
      PROVE  RetireInv'
  BY <1>5, ElsewhereRetire DEF Keep, Reap, Forget
<1>6. ASSUME NEW p \in Pool, StartPool(p)
      PROVE  RetireInv'
  BY <1>6, ElsewhereRetire DEF StartPool
<1>7. ASSUME NEW t \in Target, SkipTarget(t) \/ CreateFails(t)
      PROVE  RetireInv'
  BY <1>7, ElsewhereRetire DEF SkipTarget, CreateFails, Wanted
<1>8. ASSUME NEW r \in Runner, NEW t \in Target, CreateRunner(r, t)
      PROVE  RetireInv'
  BY <1>8, ElsewhereRetire DEF CreateRunner, Wanted
<1> QED
  BY <1>1, <1>2, <1>3, <1>4, <1>5, <1>6, <1>7, <1>8 DEF CycleStep

\* Handlers, restarts, runners, GitHub and time leave the cycle alone or end it.
LEMMA OthersRetire ==
  ASSUME TypeOK, RetireInv, ApiStep \/ Environment
  PROVE  RetireInv'
<1>1. ASSUME UNCHANGED <<cycle, cpool, ctarget>>
      PROVE  RetireInv'
  BY <1>1, OutsideRetire DEF cycle
<1>2. CASE Crash \/ Shutdown
  BY <1>2, ElsewhereRetire DEF Crash, Shutdown, Forgotten, CycleOver, Released
<1>3. CASE ApiStep
  BY <1>1, <1>2, <1>3 DEF ApiStep, CheckPools, CommitPools, CommitFloor, CheckFloor, ClearFloors,
                          Disconnect, world
<1>4. CASE Environment
  <2>1. UNCHANGED <<cycle, cpool, ctarget>>
    BY <1>4 DEF Environment, RunnerStep, Register, JobAssigned, JobEnds, Exit, Dies, Flap, Aging,
                IdleElapses, BusyElapses, JobArrives, Unmatch, Reselect, RestUnchanged
  <2> QED
    BY <1>1, <2>1
<1> QED
  BY <1>3, <1>4

\* The same with steps that change nothing.
LEMMA StepRetire ==
  ASSUME TypeOK, RetireInv, [Next]_vars
  PROVE  RetireInv'
<1>1. CASE UNCHANGED vars
  BY <1>1, OutsideRetire DEF vars, world, cycle
<1> QED
  BY <1>1, CycleRetire, OthersRetire DEF Next

---------------------------------------------------------------------------
(* What the plan wants is what is created *)

\* While a pool is scaled up, what is owed to a target and the capacity it has do not
\* exceed the wish as long as anything is owed, and make up the wish unless its
\* connection did not answer.
WishKept ==
  phase = "create" =>
    \A t \in Target :
      /\ plan.deficit[t] > 0 => plan.deficit[t] + Cardinality(Capable(t)) <= plan.desired[t]
      /\ ConnOf[t] \notin errs => plan.deficit[t] + Cardinality(Capable(t)) >= plan.desired[t]

LEMMA CapableType ==
  ASSUME NEW t
  PROVE  IsFiniteSet(Capable(t)) /\ Cardinality(Capable(t)) \in Nat
<1>1. Capable(t) \subseteq Runner
  BY DEF Capable, LiveOn, LiveIn
<1>2. IsFiniteSet(Capable(t))
  BY <1>1, FS_Subset, ReconcilerAssumption
<1> QED
  BY <1>2, FS_CardinalityType

\* The claim is about the cycle and the labels only, and about creations only.
LEMMA OutsideWish ==
  ASSUME WishKept,
         phase' # "create" \/ UNCHANGED <<phase, errs, plan, live, cpool, ctarget>>
  PROVE  WishKept'
<1>1. CASE UNCHANGED <<phase, errs, plan, live, cpool, ctarget>>
  <2>1. \A t \in Target : Capable(t)' = Capable(t)
    BY <1>1 DEF Capable, LiveOn, LiveIn
  <2> QED
    BY <1>1, <2>1 DEF WishKept
<1> QED
  BY <1>1 DEF WishKept

\* The deficits are what the runners known to the cycle leave of the wish.
LEMMA StartPoolWish ==
  ASSUME TypeOK, NEW p \in Pool, StartPool(p), TypeOK'
  PROVE  WishKept'
<1> DEFINE all == {"starting", "idle", "busy"}
<1>1. /\ plan'.pool = p /\ UNCHANGED <<live, cpool, ctarget>>
      /\ plan'.deficit = Deficit(plan'.desired, CountOn(p, all))
  BY DEF StartPool, world
<1>2. plan'.desired \in [Target -> Nat]
  BY DEF TypeOK, Plan
<1>3. ASSUME NEW t \in Target
      PROVE  CountOn(p, all)[t] = Cardinality(Capable(t)')
  <2>1. RunnerState \ {"none"} = all
    BY DEF RunnerState
  <2>2. Capable(t)' = LiveOn(p, t, all)
    BY <1>1, <2>1 DEF Capable, LiveOn, LiveIn
  <2> QED
    BY <2>2 DEF CountOn
<1>4. ASSUME NEW t \in Target
      PROVE  /\ plan'.deficit[t] = Larger(0, plan'.desired[t] - Cardinality(Capable(t)'))
             /\ Cardinality(Capable(t)') \in Nat /\ plan'.desired[t] \in Nat
  <2>1. plan'.deficit[t] = Larger(0, plan'.desired[t] - CountOn(p, all)[t])
    BY <1>1 DEF Deficit
  <2>2. IsFiniteSet(LiveOn(p, t, all))
    <3>1. LiveOn(p, t, all) \subseteq Runner
      BY DEF LiveOn, LiveIn
    <3> QED
      BY <3>1, FS_Subset, ReconcilerAssumption
  <2>3. CountOn(p, all)[t] \in Nat
    BY <2>2, FS_CardinalityType DEF CountOn
  <2> QED
    BY <1>2, <1>3, <2>1, <2>3
<1>5. ASSUME NEW t \in Target
      PROVE  /\ plan'.deficit[t] > 0 =>
                  plan'.deficit[t] + Cardinality(Capable(t)') <= plan'.desired[t]
             /\ plan'.deficit[t] + Cardinality(Capable(t)') >= plan'.desired[t]
  BY <1>4 DEF Larger
<1> QED
  BY <1>5 DEF WishKept

\* What a granted slot changes of the plan.
LEMMA AdvanceWish ==
  ASSUME TypeOK, NEW t \in Target, Wanted(t), plan' = Advance(t)
  PROVE  /\ plan'.pool = plan.pool /\ plan'.desired = plan.desired
         /\ plan.desired \in [Target -> Nat] /\ plan.deficit \in [Target -> Nat]
         /\ plan.deficit[t] > 0
         /\ \A u \in Target : plan'.deficit[u] = IF u = t THEN plan.deficit[t] - 1 ELSE plan.deficit[u]
BY DEF Advance, Wanted, FirstInLine, TypeOK, Plan

LEMMA SkipTargetWish ==
  ASSUME TypeOK, WishKept, NEW t \in Target, SkipTarget(t)
  PROVE  WishKept'
<1>1. /\ Wanted(t) /\ plan' = Advance(t) /\ ConnOf[t] \in errs /\ phase = "create"
      /\ UNCHANGED <<phase, errs, live, cpool, ctarget>>
  BY DEF SkipTarget, Wanted, world
<1>2. /\ plan'.pool = plan.pool /\ plan'.desired = plan.desired
      /\ plan.desired \in [Target -> Nat] /\ plan.deficit \in [Target -> Nat]
      /\ \A u \in Target : plan'.deficit[u] = IF u = t THEN plan.deficit[t] - 1 ELSE plan.deficit[u]
  BY <1>1, AdvanceWish
<1>3. \A u \in Target : Capable(u)' = Capable(u)
  BY <1>1, <1>2 DEF Capable, LiveOn, LiveIn
<1>4. ASSUME NEW u \in Target
      PROVE  /\ plan'.deficit[u] > 0 =>
                  plan'.deficit[u] + Cardinality(Capable(u)) <= plan.desired[u]
             /\ ConnOf[u] \notin errs =>
                  plan'.deficit[u] + Cardinality(Capable(u)) >= plan.desired[u]
  <2>1. Cardinality(Capable(u)) \in Nat /\ plan.deficit[u] \in Nat /\ plan.desired[u] \in Nat
    BY <1>2, CapableType
  <2>2. /\ plan.deficit[u] > 0 => plan.deficit[u] + Cardinality(Capable(u)) <= plan.desired[u]
        /\ ConnOf[u] \notin errs => plan.deficit[u] + Cardinality(Capable(u)) >= plan.desired[u]
    BY <1>1 DEF WishKept
  <2> QED
    BY <1>1, <1>2, <2>1, <2>2
<1> QED
  BY <1>1, <1>2, <1>3, <1>4 DEF WishKept

\* The runner that is created is capacity of its target.
LEMMA CreateRunnerWish ==
  ASSUME TypeOK, NEW t \in Target, NEW r \in Runner, CreateRunner(r, t)
  PROVE  \A u \in Target :
           /\ Cardinality(Capable(u)) \in Nat
           /\ Cardinality(Capable(u)') = Cardinality(Capable(u)) + IF u = t THEN 1 ELSE 0
<1>1. /\ live[r] = "none"
      /\ plan'.pool = plan.pool /\ plan.pool \in Pool
      /\ \A q \in Runner : /\ live'[q] = IF q = r THEN "starting" ELSE live[q]
                           /\ cpool'[q] = IF q = r THEN plan.pool ELSE cpool[q]
                           /\ ctarget'[q] = IF q = r THEN t ELSE ctarget[q]
  <2>1. plan'.pool = plan.pool
    BY AdvanceWish DEF CreateRunner
  <2> QED
    BY <2>1 DEF CreateRunner, Launch, Fresh, TypeOK, Plan
<1>2. \A u \in Target : r \notin Capable(u)
  BY <1>1 DEF Capable, LiveOn, LiveIn
<1>3. \A u \in Target : Capable(u)' = IF u = t THEN Capable(u) \cup {r} ELSE Capable(u)
  <2>1. ASSUME NEW u \in Target, NEW q \in Runner
        PROVE  q \in Capable(u)' <=> q \in Capable(u) \/ (q = r /\ u = t)
    BY <1>1 DEF Capable, LiveOn, LiveIn, RunnerState
  <2>2. \A u \in Target : Capable(u) \subseteq Runner /\ Capable(u)' \subseteq Runner
    BY DEF Capable, LiveOn, LiveIn
  <2> QED
    BY <2>1, <2>2
<1> TAKE u \in Target
<1>4. IsFiniteSet(Capable(u)) /\ Cardinality(Capable(u)) \in Nat
  BY CapableType
<1>5. Cardinality(Capable(u) \cup {r}) = Cardinality(Capable(u)) + 1
  BY <1>2, <1>4, FS_AddElement
<1>6. CASE u = t
  <2>1. Capable(u)' = Capable(u) \cup {r}
    BY <1>3, <1>6
  <2>2. Cardinality(Capable(u)') = Cardinality(Capable(u)) + 1
    BY <1>5, <2>1
  <2> QED
    BY <1>4, <1>6, <2>2
<1>7. CASE u # t
  <2>1. Capable(u)' = Capable(u)
    BY <1>3, <1>7
  <2>2. Cardinality(Capable(u)') = Cardinality(Capable(u)) + 0
    BY <1>4, <2>1
  <2> QED
    BY <1>4, <1>7, <2>2
<1> QED
  BY <1>6, <1>7

LEMMA CreateWish ==
  ASSUME TypeOK, WishKept, NEW t \in Target, NEW r \in Runner, CreateRunner(r, t)
  PROVE  WishKept'
<1>1. /\ Wanted(t) /\ plan' = Advance(t) /\ phase = "create" /\ UNCHANGED <<phase, errs>>
  BY DEF CreateRunner, Wanted
<1>2. /\ plan'.desired = plan.desired
      /\ plan.desired \in [Target -> Nat] /\ plan.deficit \in [Target -> Nat]
      /\ plan.deficit[t] > 0
      /\ \A u \in Target : plan'.deficit[u] = IF u = t THEN plan.deficit[t] - 1 ELSE plan.deficit[u]
  BY <1>1, AdvanceWish
<1>3. ASSUME NEW u \in Target
      PROVE  /\ plan'.deficit[u] > 0 =>
                  plan'.deficit[u] + Cardinality(Capable(u)') <= plan.desired[u]
             /\ ConnOf[u] \notin errs =>
                  plan'.deficit[u] + Cardinality(Capable(u)') >= plan.desired[u]
  <2>1. /\ Cardinality(Capable(u)) \in Nat /\ plan.deficit[u] \in Nat /\ plan.desired[u] \in Nat
        /\ Cardinality(Capable(u)') = Cardinality(Capable(u)) + IF u = t THEN 1 ELSE 0
    BY <1>2, CreateRunnerWish
  <2>2. /\ plan.deficit[u] > 0 => plan.deficit[u] + Cardinality(Capable(u)) <= plan.desired[u]
        /\ ConnOf[u] \notin errs => plan.deficit[u] + Cardinality(Capable(u)) >= plan.desired[u]
    BY <1>1 DEF WishKept
  <2> QED
    BY <1>2, <2>1, <2>2
<1> QED
  BY <1>1, <1>2, <1>3 DEF WishKept

\* A creation that fails ends the creations and adds no capacity.
LEMMA CreateFailsWish ==
  ASSUME TypeOK, WishKept, NEW t \in Target, CreateFails(t)
  PROVE  WishKept' /\ \A u \in Target : Capable(u)' = Capable(u)
<1>1. /\ phase = "create" /\ UNCHANGED <<phase, errs, live>>
      /\ plan' = [plan EXCEPT !.slots = 0]
  BY DEF CreateFails, Wanted, GiveUp
<1>2. plan'.pool = plan.pool /\ plan'.desired = plan.desired /\ plan'.deficit = plan.deficit
  BY <1>1 DEF TypeOK, Plan
<1>3. \A q \in Runner : live[q] # "none" => cpool'[q] = cpool[q] /\ ctarget'[q] = ctarget[q]
  BY DEF CreateFails, Launch, Fresh, TypeOK
<1>4. \A u \in Target : Capable(u)' = Capable(u)
  BY <1>1, <1>2, <1>3 DEF Capable, LiveOn, LiveIn
<1> QED
  BY <1>1, <1>2, <1>4 DEF WishKept

LEMMA StepWish ==
  ASSUME TypeOK, WishKept, [Next]_vars, TypeOK'
  PROVE  WishKept'
<1>1. CASE UNCHANGED vars
  BY <1>1, OutsideWish DEF vars, world, cycle
<1>2. CASE CycleStep
  <2>1. CASE Begin \/ Discover \/ EndClassify \/ EndForget \/ EndCreate \/ EndPool
    BY <2>1, OutsideWish DEF Begin, Discover, EndClassify, EndForget, EndCreate, EndPool
  <2>2. CASE Publish \/ DockerFails \/ GitHubFails
    BY <2>2, OutsideWish DEF Publish, DockerFails, GitHubFails, CycleOver, Released
  <2>3. ASSUME NEW r \in Runner, Keep(r) \/ Reap(r) \/ Forget(r) \/ ScaleDown(r)
        PROVE  WishKept'
    BY <2>3, OutsideWish DEF Keep, Reap, Forget, ScaleDown
  <2>4. ASSUME NEW p \in Pool, StartPool(p)
        PROVE  WishKept'
    BY <2>4, StartPoolWish
  <2>5. ASSUME NEW t \in Target, SkipTarget(t)
        PROVE  WishKept'
    BY <2>5, SkipTargetWish
  <2>6. ASSUME NEW t \in Target, CreateFails(t)
        PROVE  WishKept'
    BY <2>6, CreateFailsWish
  <2>7. ASSUME NEW r \in Runner, NEW t \in Target, CreateRunner(r, t)
        PROVE  WishKept'
    BY <2>7, CreateWish
  <2> QED
    BY <1>2, <2>1, <2>2, <2>3, <2>4, <2>5, <2>6, <2>7 DEF CycleStep
<1>3. ASSUME UNCHANGED <<cycle, cpool, ctarget>>
      PROVE  WishKept'
  BY <1>3, OutsideWish DEF cycle
<1>4. CASE ApiStep
  <2>1. CASE Crash \/ Shutdown
    BY <2>1, OutsideWish DEF Crash, Shutdown, Forgotten, CycleOver, Released
  <2> QED
    BY <1>3, <1>4, <2>1 DEF ApiStep, CheckPools, CommitPools, CommitFloor, CheckFloor, ClearFloors,
                            Disconnect, world
<1>5. CASE Environment
  <2>1. UNCHANGED <<cycle, cpool, ctarget>>
    BY <1>5 DEF Environment, RunnerStep, Register, JobAssigned, JobEnds, Exit, Dies, Flap, Aging,
                IdleElapses, BusyElapses, JobArrives, Unmatch, Reselect, RestUnchanged
  <2> QED
    BY <1>3, <2>1
<1> QED
  BY <1>1, <1>2, <1>4, <1>5 DEF Next

---------------------------------------------------------------------------
(* The theorems *)

\* In every reachable state the cycle knows its busy runners as busy, what it is about
\* to create is what the wish lacks, and what it is about to retire is idle and beyond
\* the wish of its target.
THEOREM Retention == Spec => [](TypeOK /\ WorkInv /\ RetireInv /\ WishKept)
<1>1. Init => WorkInv /\ RetireInv /\ WishKept
  BY InitWork DEF Init, RetireInv, DoomedIdle, DemandCovered, WishKept
<1>2. TypeOK /\ (WorkInv /\ RetireInv /\ WishKept) /\ [Next]_vars /\ TypeOK'
        => WorkInv' /\ RetireInv' /\ WishKept'
  BY StepWork, StepRetire, StepWish
<1> QED
  BY <1>1, <1>2, TypesHold, PTL DEF Spec

\* Containers vanish inside a cycle by a removal during classification or during
\* a scale-down; both know a steady runner better.
LEMMA VanishesJustly ==
  ASSUME TypeOK, WorkInv, RetireInv, [Next]_vars, NEW r \in Runner,
         InCycle, steady[r], Answered(r), Vanishes(r)
  PROVE  JustRemoval(r)
<1>1. ASSUME NEW S, Removed(S)
      PROVE  r \in S
  BY <1>1 DEF Removed, Vanishes
<1>2. CASE Reap(r)
  <2>1. phase = "classify" /\ seen[r] # "none" /\ MustGo(r)
    BY <1>2 DEF Reap
  <2>2. seen[r] = "running" /\ remote[r] = "busy"
    BY <2>1 DEF WorkInv, SteadyListed, SteadyKnown
  <2> QED
    BY <2>1, <2>2 DEF MustGo, UnknownPool, UnknownConnection, JobTimedOut, NeverRegistered,
                      JustRemoval
<1>3. CASE ScaleDown(r)
  <2>1. phase = "down" /\ live[r] = "idle"
    BY <1>3 DEF ScaleDown, RetireInv, DoomedIdle
  <2> QED
    BY <2>1 DEF WorkInv, SteadyKnown
<1>4. CASE UNCHANGED cstatus
  BY <1>4 DEF Vanishes
<1>5. ASSUME NEW q \in Runner, NEW s, s # "absent", cstatus' = [cstatus EXCEPT ![q] = s]
      PROVE  FALSE
  BY <1>5 DEF Vanishes, TypeOK
<1>6. CASE CycleStep
  <2>1. ASSUME NEW q \in Runner, Reap(q) \/ ScaleDown(q)
        PROVE  q = r
    BY <1>1, <2>1 DEF Reap, ScaleDown
  <2>2. CASE DockerFails \/ GitHubFails \/ Publish
    BY <2>2 DEF DockerFails, GitHubFails, Publish, CycleOver, Released, InCycle
  <2>3. CASE Begin \/ Discover \/ EndClassify \/ EndForget \/ EndCreate \/ EndPool
    BY <1>4, <2>3 DEF Begin, Discover, EndClassify, EndForget, EndCreate, EndPool, world
  <2>4. ASSUME NEW q \in Runner, Keep(q) \/ Forget(q)
        PROVE  JustRemoval(r)
    BY <1>4, <2>4 DEF Keep, Forget, world
  <2>5. ASSUME NEW p \in Pool, StartPool(p)
        PROVE  JustRemoval(r)
    BY <1>4, <2>5 DEF StartPool, world
  <2>6. ASSUME NEW t \in Target, SkipTarget(t)
        PROVE  JustRemoval(r)
    BY <1>4, <2>6 DEF SkipTarget, world
  <2>7. ASSUME NEW t \in Target, CreateFails(t)
        PROVE  JustRemoval(r)
    BY <1>4, <1>5, <2>7 DEF CreateFails, Launch
  <2>8. ASSUME NEW q \in Runner, NEW t \in Target, CreateRunner(q, t)
        PROVE  JustRemoval(r)
    BY <1>5, <2>8 DEF CreateRunner, Launch
  <2> QED
    BY <1>2, <1>3, <1>6, <2>1, <2>2, <2>3, <2>4, <2>5, <2>6, <2>7, <2>8 DEF CycleStep
<1>7. CASE ApiStep
  <2>1. CASE Crash \/ Shutdown
    BY <2>1 DEF Crash, Shutdown, Forgotten, CycleOver, Released, InCycle
  <2> QED
    BY <1>4, <1>7, <2>1 DEF ApiStep, CheckPools, CommitPools, CommitFloor, CheckFloor, ClearFloors,
                            Disconnect, world
<1>8. CASE Environment
  <2>1. ASSUME NEW q \in Runner, JobEnds(q) \/ Exit(q) \/ Dies(q)
        PROVE  FALSE
    BY <1>5, <2>1 DEF JobEnds, Exit, Dies
  <2>2. ASSUME NEW q \in Runner,
               Register(q) \/ JobAssigned(q) \/ Flap(q) \/ Aging(q) \/ IdleElapses(q)
                 \/ BusyElapses(q)
        PROVE  JustRemoval(r)
    BY <1>4, <2>2 DEF Register, JobAssigned, Flap, Aging, IdleElapses, BusyElapses
  <2>3. ASSUME NEW t \in Target, Reselect(t) \/ \E p \in Pool : JobArrives(p, t)
        PROVE  JustRemoval(r)
    BY <1>4, <2>3 DEF Reselect, JobArrives
  <2>4. ASSUME NEW p \in Pool, Unmatch(p)
        PROVE  JustRemoval(r)
    BY <1>4, <2>4 DEF Unmatch
  <2> QED
    BY <1>8, <2>1, <2>2, <2>3, <2>4 DEF Environment, RunnerStep
<1>9. CASE UNCHANGED vars
  BY <1>4, <1>9 DEF vars, world
<1> QED
  BY <1>6, <1>7, <1>8, <1>9 DEF Next

\* A runner that worked all through the cycle and answered it goes only for a
\* deadline, or with its pool or its connection.
THEOREM WorkersAreKept == Spec => BusyKept
<1>1. TypeOK /\ WorkInv /\ RetireInv /\ [Next]_vars =>
        \A r \in Runner : (InCycle /\ steady[r] /\ Answered(r) /\ Vanishes(r)) => JustRemoval(r)
  BY VanishesJustly
<1> QED
  BY <1>1, Retention, PTL DEF Spec, BusyKept

\* Between two steps of a scale-down only ScaleDown takes a runner from the live.
LEMMA RetiresOneByOne ==
  ASSUME TypeOK, RetireInv, [Next]_vars, NEW r \in doomed,
         phase = "down", phase' = "down", live'[r] = "none"
  PROVE  ScaleDown(r)
<1>1. r \in Runner /\ live[r] = "idle"
  BY DEF RetireInv, DoomedIdle, TypeOK
<1>2. live' # live
  BY <1>1
<1>3. CASE CycleStep
  <2>1. CASE Begin \/ Discover \/ EndClassify \/ EndForget \/ EndPool \/ EndCreate
    BY <1>2, <2>1 DEF Begin, Discover, EndClassify, EndForget, EndPool, EndCreate
  <2>2. CASE Publish \/ DockerFails \/ GitHubFails
    BY <2>2 DEF Publish, DockerFails, GitHubFails, CycleOver, Released
  <2>3. ASSUME NEW q \in Runner, Keep(q) \/ Reap(q) \/ Forget(q)
        PROVE  FALSE
    BY <2>3 DEF Keep, Reap, Forget
  <2>4. ASSUME NEW p \in Pool, StartPool(p)
        PROVE  FALSE
    BY <2>4 DEF StartPool
  <2>5. ASSUME NEW t \in Target, SkipTarget(t) \/ CreateFails(t)
                                   \/ \E q \in Runner : CreateRunner(q, t)
        PROVE  FALSE
    BY <2>5 DEF SkipTarget, CreateFails, CreateRunner, Wanted
  <2>6. ASSUME NEW q \in Runner, ScaleDown(q)
        PROVE  q = r
    BY <1>1, <2>6 DEF ScaleDown, TypeOK
  <2> QED
    BY <1>3, <2>1, <2>2, <2>3, <2>4, <2>5, <2>6 DEF CycleStep
<1>4. CASE ApiStep
  BY <1>2, <1>4 DEF ApiStep, CheckPools, CommitPools, CommitFloor, CheckFloor, ClearFloors,
                    Disconnect, Crash, Shutdown, Forgotten, CycleOver, Released, cycle
<1>5. CASE Environment
  BY <1>2, <1>5 DEF Environment, RunnerStep, Register, JobAssigned, JobEnds, Exit, Dies, Flap,
       Aging, IdleElapses, BusyElapses, JobArrives, Unmatch, Reselect, RestUnchanged, cycle
<1>6. CASE UNCHANGED vars
  BY <1>2, <1>6 DEF vars, cycle
<1> QED
  BY <1>3, <1>4, <1>5, <1>6 DEF Next

\* Within the creations of a pool capacity only grows by a creation.
LEMMA CreatesOneByOne ==
  ASSUME TypeOK, [Next]_vars, phase = "create", phase' = "create", NEW t \in Target
  PROVE  \/ Cardinality(Capable(t)') = Cardinality(Capable(t))
         \/ \E u \in Target, r \in Runner : CreateRunner(r, u)
<1>1. ASSUME UNCHANGED <<plan, live, cpool, ctarget>>
      PROVE  Capable(t)' = Capable(t)
  BY <1>1 DEF Capable, LiveOn, LiveIn
<1>2. CASE CycleStep
  <2>1. CASE Begin \/ Discover \/ EndClassify \/ EndForget \/ EndCreate \/ EndPool
    BY <2>1 DEF Begin, Discover, EndClassify, EndForget, EndCreate, EndPool
  <2>2. CASE Publish \/ DockerFails \/ GitHubFails
    BY <2>2 DEF Publish, DockerFails, GitHubFails, CycleOver, Released
  <2>3. ASSUME NEW r \in Runner, Keep(r) \/ Reap(r) \/ Forget(r) \/ ScaleDown(r)
        PROVE  FALSE
    BY <2>3 DEF Keep, Reap, Forget, ScaleDown
  <2>4. ASSUME NEW p \in Pool, StartPool(p)
        PROVE  FALSE
    BY <2>4 DEF StartPool
  <2>5. ASSUME NEW u \in Target, SkipTarget(u)
        PROVE  Capable(t)' = Capable(t)
    <3>1. plan'.pool = plan.pool /\ UNCHANGED <<live, cpool, ctarget>>
      BY <2>5, AdvanceWish DEF SkipTarget, world
    <3> QED
      BY <3>1 DEF Capable, LiveOn, LiveIn
  <2>6. ASSUME NEW u \in Target, CreateFails(u)
        PROVE  Capable(t)' = Capable(t)
    <3>1. plan'.pool = plan.pool /\ live' = live
      BY <2>6 DEF CreateFails, GiveUp, TypeOK, Plan
    <3>2. \A q \in Runner : live[q] # "none" => cpool'[q] = cpool[q] /\ ctarget'[q] = ctarget[q]
      BY <2>6 DEF CreateFails, Launch, Fresh, TypeOK
    <3> QED
      BY <3>1, <3>2 DEF Capable, LiveOn, LiveIn
  <2> QED
    BY <1>2, <2>1, <2>2, <2>3, <2>4, <2>5, <2>6 DEF CycleStep
<1>3. CASE ApiStep
  BY <1>1, <1>3 DEF ApiStep, CheckPools, CommitPools, CommitFloor, CheckFloor, ClearFloors,
                    Disconnect, Crash, Shutdown, Forgotten, CycleOver, Released, cycle, world
<1>4. CASE Environment
  BY <1>1, <1>4 DEF Environment, RunnerStep, Register, JobAssigned, JobEnds, Exit, Dies, Flap,
       Aging, IdleElapses, BusyElapses, JobArrives, Unmatch, Reselect, RestUnchanged, cycle
<1>5. CASE UNCHANGED vars
  BY <1>1, <1>5 DEF vars, cycle, world
<1> QED
  BY <1>2, <1>3, <1>4, <1>5 DEF Next

\* No creation goes beyond the wish.
LEMMA CreationsWanted ==
  ASSUME TypeOK, WishKept, [Next]_vars
  PROVE  NeverBeyondWish
<1> SUFFICES ASSUME phase = "create", phase' = "create", NEW t \in Target,
                    Cardinality(Capable(t)') > Cardinality(Capable(t))
             PROVE  Cardinality(Capable(t)') <= plan.desired[t]
  BY DEF NeverBeyondWish
<1>1. Cardinality(Capable(t)) \in Nat
  BY CapableType
<1>2. PICK u \in Target, r \in Runner : CreateRunner(r, u)
  BY <1>1, CreatesOneByOne
<1>3. Cardinality(Capable(t)') = Cardinality(Capable(t)) + IF t = u THEN 1 ELSE 0
  BY <1>2, CreateRunnerWish
<1>4. t = u
  BY <1>1, <1>3
<1>5. plan.deficit[t] > 0 /\ plan.deficit[t] \in Nat /\ plan.desired[t] \in Nat
  BY <1>2, <1>4 DEF CreateRunner, Wanted, FirstInLine, TypeOK, Plan
<1>6. plan.deficit[t] + Cardinality(Capable(t)) <= plan.desired[t]
  BY <1>5 DEF WishKept
<1> QED
  BY <1>1, <1>3, <1>4, <1>5, <1>6

\* Creations that end with slots to spare have reached the wish.
LEMMA CreationsComplete ==
  ASSUME TypeOK, WishKept, [Next]_vars
  PROVE  WishReached
<1> SUFFICES ASSUME phase = "create", phase' = "down", plan.slots > 0, \E r \in Runner : Fresh(r),
                    NEW t \in Target, ConnOf[t] \notin errs
             PROVE  Cardinality(Capable(t)) >= plan.desired[t]
  BY DEF WishReached
<1>1. EndCreate
  <2>1. CASE CycleStep
    BY <2>1 DEF CycleStep, Begin, Discover, Keep, Reap, EndClassify, Forget, EndForget, StartPool,
                SkipTarget, CreateRunner, CreateFails, ScaleDown, EndPool, Publish, DockerFails,
                GitHubFails, CycleOver, Released
  <2>2. CASE ApiStep
    BY <2>2 DEF ApiStep, CheckPools, CommitPools, CommitFloor, CheckFloor, ClearFloors,
                Disconnect, Crash, Shutdown, Forgotten, CycleOver, Released, cycle
  <2>3. CASE Environment
    BY <2>3 DEF Environment, RunnerStep, Register, JobAssigned, JobEnds, Exit, Dies, Flap, Aging,
                IdleElapses, BusyElapses, JobArrives, Unmatch, Reselect, RestUnchanged, cycle
  <2> QED
    BY <2>1, <2>2, <2>3 DEF Next, vars, cycle
<1>2. plan.deficit[t] = 0
  BY <1>1 DEF EndCreate, NoneInLine, TypeOK, Plan
<1>3. Cardinality(Capable(t)) \in Nat /\ plan.desired[t] \in Nat
  BY CapableType DEF TypeOK, Plan
<1>4. plan.deficit[t] + Cardinality(Capable(t)) >= plan.desired[t]
  BY DEF WishKept
<1> QED
  BY <1>2, <1>3, <1>4

\* Ordinary scale-down leaves every target what the plan wants for it.
LEMMA RetirementsSpare ==
  ASSUME TypeOK, RetireInv, [Next]_vars
  PROVE  WishLeft
<1> SUFFICES ASSUME NEW r \in doomed, phase = "down", phase' = "down", live'[r] = "none"
             PROVE  Cardinality(Capable(ctarget[r])') >= plan.desired[ctarget[r]]
  BY DEF WishLeft
<1>1. ScaleDown(r) /\ r \in Runner
  BY RetiresOneByOne DEF TypeOK
<1> QED
  BY <1>1, ScaleDownRetire

\* What the plan wants for a target is what the cycle makes of it, for every fleet and
\* whatever fails in between.
THEOREM PlanIsCarriedOut == Spec => PlanCarriedOut
<1>1. TypeOK /\ WorkInv /\ RetireInv /\ WishKept /\ [Next]_vars =>
        NeverBeyondWish /\ WishReached /\ WishLeft
  BY CreationsWanted, CreationsComplete, RetirementsSpare
<1> QED
  BY <1>1, Retention, PTL DEF Spec, PlanCarriedOut
================================================================================
