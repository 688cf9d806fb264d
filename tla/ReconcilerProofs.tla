--------------------------- MODULE ReconcilerProofs ---------------------------
(***************************************************************************)
(* For every set of runners, pools, targets and connections: the types of  *)
(* the capacity loop, the inductive invariant CapacityInv, from it that no *)
(* creation exceeds a pool's maximum, and that the loop implements Fleet.  *)
(***************************************************************************)
EXTENDS ReconcilerProperties, FiniteSetTheorems, TLAPS

---------------------------------------------------------------------------
(* Types and bounds of the scaling arithmetic *)

\* max(0, x) is a natural number.
LEMMA ClampType ==
  ASSUME NEW x \in Int
  PROVE  Larger(0, x) \in Nat
BY DEF Larger

\* The larger of two natural numbers is one.
LEMMA LargerType ==
  ASSUME NEW a \in Nat, NEW b \in Nat
  PROVE  Larger(a, b) \in Nat
BY DEF Larger

\* Only finitely many jobs are queued, so their number is a natural number.
LEMMA OccurrencesType ==
  ASSUME NEW ordered, IsFiniteSet(DOMAIN ordered), NEW t
  PROVE  Occurrences(ordered, t) \in Nat
<1> DEFINE S == {i \in DOMAIN ordered : ordered[i] = t}
<1>1. IsFiniteSet(S)
  BY FS_Subset
<1> QED
  BY <1>1, FS_CardinalityType DEF Occurrences

\* A wish for finitely many targets adds up to a natural number.
LEMMA TotalType ==
  ASSUME NEW f \in [Target -> Nat]
  PROVE  Total(f) \in Nat
<1> DEFINE U == [t \in Target |-> {t} \X (1..f[t])]
           S == {{t} \X (1..f[t]) : t \in Target}
<1>1. \A t \in Target : IsFiniteSet({t} \X (1..f[t]))
  <2> TAKE t \in Target
  <2>1. IsFiniteSet({t})
    BY FS_Singleton
  <2>2. IsFiniteSet(1..f[t])
    <3>1. f[t] \in Int
      OBVIOUS
    <3> QED
      BY <3>1, FS_Interval
  <2> QED
    BY <2>1, <2>2, FS_Product
<1>2. IsFiniteSet(S)
  <2>1. U \in Surjection(Target, S)
    BY DEF Surjection
  <2> HIDE DEF S, U
  <2> QED
    BY <2>1, FS_Surjection, TargetAssumption
<1>3. \A T \in S : IsFiniteSet(T)
  BY <1>1
<1>4. IsFiniteSet(UNION S)
  <2> HIDE DEF S
  <2> QED
    BY <1>2, <1>3, FS_UNION
<1> QED
  BY <1>4, FS_CardinalityType DEF Total, Units

\* The wish of a pool, with or without its minimum, is a number per target.
LEMMA DesiredType ==
  ASSUME NEW ordered, IsFiniteSet(DOMAIN ordered),
         NEW busy \in [Target -> Nat], NEW floor \in [Target -> Nat],
         NEW min \in Nat, NEW warm
  PROVE  /\ Demanded(ordered, busy, floor) \in [Target -> Nat]
         /\ Desired(ordered, busy, floor, min, warm) \in [Target -> Nat]
<1> DEFINE asked == Demanded(ordered, busy, floor)
           gap   == Larger(0, min - Total(asked))
<1>1. asked \in [Target -> Nat]
  <2>1. \A t \in Target : Larger(busy[t] + Occurrences(ordered, t), floor[t]) \in Nat
    <3> TAKE t \in Target
    <3>1. Occurrences(ordered, t) \in Nat
      BY OccurrencesType
    <3>2. busy[t] + Occurrences(ordered, t) \in Nat
      BY <3>1
    <3> QED
      BY <3>2, LargerType
  <2> QED
    BY <2>1 DEF Demanded
<1>2. gap \in Nat
  <2> HIDE DEF asked
  <2> QED
    BY <1>1, TotalType, ClampType
<1>3. [t \in Target |-> asked[t] + IF t = warm THEN gap ELSE 0] \in [Target -> Nat]
  <2> HIDE DEF asked, gap
  <2> QED
    BY <1>1, <1>2
<1> QED
  BY <1>1, <1>3 DEF Desired

\* What is lacking is never negative.
LEMMA DeficitType ==
  ASSUME NEW desired \in [Target -> Nat], NEW have \in [Target -> Nat]
  PROVE  Deficit(desired, have) \in [Target -> Nat]
BY ClampType DEF Deficit

\* The free slots are a natural number, and with the runners counted they fit
\* under the maximum.
LEMMA SlotsFit ==
  ASSUME NEW max \in Nat, NEW count \in Nat
  PROVE  /\ Slots(max, count) \in Nat
         /\ Slots(max, count) > 0 => count + Slots(max, count) <= max
BY DEF Slots, Larger

---------------------------------------------------------------------------

USE DEF Container, Registration, RunnerState, Age, Timer, Phase

---------------------------------------------------------------------------
(* Types of the helpers *)

\* No queued job at all is a set of queued jobs.
LEMMA NoJobs == <<>> \in Jobs
<1>1. <<>> \in [{} -> Target]
  OBVIOUS
<1>2. {} \in SUBSET (1..MaxQueue)
  OBVIOUS
<1> QED
  BY <1>1, <1>2 DEF Jobs

\* The empty plan is a plan.
LEMMA NoPlanType == NoPlan \in Plan
<1>1. (CHOOSE p \in Pool : TRUE) \in Pool
  BY ReconcilerAssumption
<1> QED
  BY <1>1, NoJobs DEF NoPlan, Plan

\* The end of a cycle leaves its locals well typed.
LEMMA ReleasedType ==
  ASSUME Released
  PROVE  /\ phase' \in Phase /\ cycleConns' \in SUBSET Conn /\ errs' \in SUBSET Conn
         /\ seen' \in [Runner -> {"none", "created", "running", "exited"}]
         /\ remote' \in [Runner -> Registration] /\ live' \in [Runner -> RunnerState]
         /\ todo' \in SUBSET Pool /\ plan' \in Plan /\ doomed' \in SUBSET Runner
BY NoPlanType DEF Released, NoneOf

\* Removing containers keeps the types of what Docker and GitHub hold.
LEMMA RemovedType ==
  ASSUME TypeOK, NEW S, Removed(S)
  PROVE  /\ cstatus' \in [Runner -> Container] /\ age' \in [Runner -> Age]
         /\ gh' \in [Runner -> Registration] /\ steady' \in [Runner -> BOOLEAN]
<1>1. cstatus' \in [Runner -> Container]
  BY DEF Removed, TypeOK
<1>2. age' \in [Runner -> Age]
  BY DEF Removed, TypeOK
<1>3. gh' \in [Runner -> Registration]
  BY DEF Removed, TypeOK
<1>4. steady' \in [Runner -> BOOLEAN]
  BY Zenon DEF Removed, TypeOK
<1> QED
  BY <1>1, <1>2, <1>3, <1>4

\* The jobs behind the first pending one are queued jobs again.
LEMMA BehindType ==
  ASSUME NEW ordered \in Jobs, NEW deficit
  PROVE  Behind(ordered, deficit) \in Jobs
<1> DEFINE D == {k \in DOMAIN ordered : \E j \in Pending(ordered, deficit) : j < k}
<1>1. PICK S \in SUBSET (1..MaxQueue) : ordered \in [S -> Target]
  BY DEF Jobs
<1>2. D \in SUBSET (1..MaxQueue)
  BY <1>1
<1>3. Behind(ordered, deficit) \in [D -> Target]
  BY <1>1 DEF Behind
<1> QED
  BY <1>2, <1>3 DEF Jobs

\* Dealing with one request leaves a plan: a slot and a deficit were there.
LEMMA AdvanceType ==
  ASSUME TypeOK, NEW t \in Target, Wanted(t)
  PROVE  Advance(t) \in Plan
<1>1. plan \in Plan
  BY DEF TypeOK
<1>2. Behind(plan.ordered, plan.deficit) \in Jobs
  BY <1>1, BehindType DEF Plan
<1>3. plan.slots - 1 \in Nat
  BY <1>1 DEF Wanted, Plan
<1>4. plan.deficit[t] - 1 \in Nat
  BY <1>1 DEF Wanted, FirstInLine, Plan
<1> QED
  BY <1>1, <1>2, <1>3, <1>4 DEF Advance, Plan

\* Setting one floor keeps the type of the floors.
LEMMA FloorType ==
  ASSUME NEW f \in [Pool -> [Target -> Nat]], NEW p \in Pool, NEW t \in Target, NEW n \in Nat
  PROVE  [f EXCEPT ![p][t] = n] \in [Pool -> [Target -> Nat]]
<1>1. f[p] \in [Target -> Nat]
  OBVIOUS
<1>2. [f[p] EXCEPT ![t] = n] \in [Target -> Nat]
  BY <1>1
<1> QED
  BY <1>2

\* The runners of a pool are finitely many.
LEMMA LiveFinite ==
  ASSUME NEW p \in Pool
  PROVE  IsFiniteSet(LiveIn(p)) /\ Cardinality(LiveIn(p)) \in Nat
<1>1. IsFiniteSet(LiveIn(p))
  BY FS_Subset, ReconcilerAssumption DEF LiveIn
<1> QED
  BY <1>1, FS_CardinalityType

\* Counting the runners of each target gives a number per target.
LEMMA CountType ==
  ASSUME NEW p \in Pool, NEW states
  PROVE  CountOn(p, states) \in [Target -> Nat]
<1>1. \A t \in Target : Cardinality(LiveOn(p, t, states)) \in Nat
  <2> TAKE t \in Target
  <2>1. LiveOn(p, t, states) \in SUBSET Runner
    BY DEF LiveOn, LiveIn
  <2>2. IsFiniteSet(LiveOn(p, t, states))
    BY <2>1, FS_Subset, ReconcilerAssumption
  <2> QED
    BY <2>2, FS_CardinalityType
<1> QED
  BY <1>1 DEF CountOn

\* The reachable queued jobs keep their positions, which are bounded.
LEMMA OrderedType ==
  ASSUME TypeOK, NEW p \in Pool
  PROVE  ordered_targets(p) \in Jobs /\ IsFiniteSet(DOMAIN ordered_targets(p))
<1> DEFINE D == {j \in DOMAIN queue[p] : Reachable(queue[p][j])}
<1>1. queue[p] \in Seq(Target) /\ Len(queue[p]) <= MaxQueue
  BY DEF TypeOK
<1>2. D \in SUBSET (1..MaxQueue)
  BY <1>1, ReconcilerAssumption
<1>3. ordered_targets(p) \in [D -> Target]
  BY <1>1 DEF ordered_targets
<1>4. IsFiniteSet(D)
  <2>1. IsFiniteSet(1..MaxQueue)
    BY FS_Interval, ReconcilerAssumption
  <2> HIDE DEF D
  <2> QED
    BY <1>2, <2>1, FS_Subset
<1> QED
  BY <1>2, <1>3, <1>4 DEF Jobs

---------------------------------------------------------------------------
(* Types: the actions that need an argument *)

\* Discovery reads the targets of connections and drops floors, nothing else.
LEMMA DiscoverTypes ==
  ASSUME TypeOK, Discover
  PROVE  TypeOK'
<1>1. errs' \in SUBSET Conn
  BY ReconcilerAssumption DEF Discover, TypeOK, Active, Failures, Requested
<1>2. remote' \in [Runner -> Registration]
  BY DEF Discover, TypeOK
<1>3. floors' \in [Pool -> [Target -> Nat]]
  BY DEF Discover, TypeOK
<1> QED
  BY <1>1, <1>2, <1>3 DEF TypeOK, Discover, world

\* A cycle that Docker ends may or may not have removed a container.
LEMMA DockerFailsTypes ==
  ASSUME TypeOK, DockerFails
  PROVE  TypeOK'
<1>1. /\ cstatus' \in [Runner -> Container] /\ age' \in [Runner -> Age]
      /\ gh' \in [Runner -> Registration] /\ steady' \in [Runner -> BOOLEAN]
  <2>1. CASE UNCHANGED <<cstatus, age, gh, steady>>
    BY <2>1 DEF TypeOK
  <2>2. CASE \E r \in Runner : Removed({r})
    BY <2>2, RemovedType
  <2> QED
    BY <2>1, <2>2 DEF DockerFails
<1> QED
  BY <1>1, ReleasedType DEF TypeOK, DockerFails, CycleOver

\* Removal during classification.
LEMMA ReapTypes ==
  ASSUME TypeOK, NEW r \in Runner, Reap(r)
  PROVE  TypeOK'
<1>1. Removed({r})
  BY DEF Reap
<1>2. /\ cstatus' \in [Runner -> Container] /\ age' \in [Runner -> Age]
      /\ gh' \in [Runner -> Registration] /\ steady' \in [Runner -> BOOLEAN]
  BY <1>1, RemovedType
<1>3. idleSince' \in [Runner -> Timer] /\ busySince' \in [Runner -> Timer]
  <2>1. \/ UNCHANGED <<idleSince, busySince>>
        \/ ClearTimers(r)
    BY DEF Reap
  <2>2. CASE UNCHANGED <<idleSince, busySince>>
    BY <2>2 DEF TypeOK
  <2>3. CASE ClearTimers(r)
    BY <2>3 DEF ClearTimers, TypeOK
  <2> QED
    BY <2>1, <2>2, <2>3
<1>4. seen' \in [Runner -> {"none", "created", "running", "exited"}]
  BY DEF Reap, TypeOK
<1> QED
  BY <1>2, <1>3, <1>4 DEF TypeOK, Reap

\* A creation takes one slot and one runner of the deficit.
LEMMA CreateRunnerTypes ==
  ASSUME TypeOK, NEW r \in Runner, NEW t \in Target, CreateRunner(r, t)
  PROVE  TypeOK'
<1>1. plan' \in Plan 
  BY AdvanceType DEF CreateRunner
<1>2. cpool' \in [Runner -> Pool]
  BY DEF CreateRunner, Launch, TypeOK, Plan
<1> QED
  BY <1>1, <1>2 DEF TypeOK, CreateRunner, Launch, memory

\* A failed creation ends the creations, and may leave a container.
LEMMA CreateFailsTypes ==
  ASSUME TypeOK, NEW t \in Target, CreateFails(t)
  PROVE  TypeOK'
<1>1. plan' \in Plan 
  BY DEF CreateFails, GiveUp, TypeOK, Plan
<1>2. cpool' \in [Runner -> Pool] /\ cstatus' \in [Runner -> Container] /\ ctarget' \in [Runner -> Target]
  <2>1. CASE UNCHANGED <<cstatus, cpool, ctarget>>
    BY <2>1 DEF TypeOK
  <2>2. CASE \E r \in Runner : Launch(r, t, "created")
    BY <2>2 DEF Launch, TypeOK, Plan
  <2> QED
    BY <2>1, <2>2 DEF CreateFails
<1> QED
  BY <1>1, <1>2 DEF TypeOK, CreateFails, memory

\* The floor that a handler commits is the one it checked.
LEMMA CommitFloorTypes ==
  ASSUME TypeOK, CommitFloor
  PROVE  TypeOK'
<1>1. request.pool \in Pool /\ request.target \in Target /\ request.desired \in Nat
  BY DEF CommitFloor, TypeOK, Request, NoRequest
<1>3. floors' \in [Pool -> [Target -> Nat]]
  <2>1. floors \in [Pool -> [Target -> Nat]]
    BY DEF TypeOK
  <2>2. [floors EXCEPT ![request.pool][request.target] = request.desired] \in [Pool -> [Target -> Nat]]
    BY <1>1, <2>1, FloorType
  <2> QED
    BY <2>1, <2>2 DEF CommitFloor
<1>2. request' \in Request
  BY DEF CommitFloor, Reply, Request
<1> QED
  BY <1>3, <1>2 DEF TypeOK, CommitFloor, world, cycle

\* A restart finds the queues of the pools there are.
LEMMA QueueKept ==
  ASSUME TypeOK, Forgotten
  PROVE  queue' \in [Pool -> Seq(Target)] /\ \A q \in Pool : Len(queue'[q]) <= MaxQueue
<1>1. \A p \in Pool : queue[p] \in Seq(Target) /\ Len(queue[p]) <= MaxQueue
  BY DEF TypeOK
<1>2. <<>> \in Seq(Target) /\ Len(<<>>) <= MaxQueue
  BY ReconcilerAssumption
<1> QED
  BY <1>1, <1>2 DEF Forgotten

\* After a restart the locals and the memory are empty.
LEMMA CrashTypes ==
  ASSUME TypeOK, Crash
  PROVE  TypeOK'
<1>2. request' \in Request
  BY DEF Crash, Forgotten, Reply, Request
<1>3. queue' \in [Pool -> Seq(Target)] /\ \A q \in Pool : Len(queue'[q]) <= MaxQueue
  BY QueueKept DEF Crash
<1> QED
  BY <1>2, <1>3, ReleasedType DEF TypeOK, Crash, Forgotten, NoneOf, world

\* The same after an orderly shutdown that removed idle runners.
LEMMA ShutdownTypes ==
  ASSUME TypeOK, Shutdown
  PROVE  TypeOK'
<1>2. request' \in Request
  BY DEF Shutdown, Forgotten, Reply, Request
<1>3. queue' \in [Pool -> Seq(Target)] /\ \A q \in Pool : Len(queue'[q]) <= MaxQueue
  BY QueueKept DEF Shutdown
<1> QED
  BY <1>2, <1>3, ReleasedType, RemovedType DEF TypeOK, Shutdown, Forgotten, NoneOf

\* A floor asked for is at most MaxFloor.
LEMMA CheckFloorTypes ==
  ASSUME TypeOK, NEW p \in Pool, NEW t \in Target, NEW n \in 0..MaxFloor, CheckFloor(p, t, n)
  PROVE  TypeOK'
<1>1. floors' \in [Pool -> [Target -> Nat]]
  <2>1. floors \in [Pool -> [Target -> Nat]]
    BY DEF TypeOK
  <2>2. [floors EXCEPT ![p][t] = n] \in [Pool -> [Target -> Nat]]
    BY <2>1, FloorType, ReconcilerAssumption
  <2> QED
    BY <2>1, <2>2 DEF CheckFloor
<1>2. request' \in Request
  BY ReconcilerAssumption DEF CheckFloor, Request, TypeOK
<1> QED
  BY <1>1, <1>2 DEF TypeOK, CheckFloor, world, cycle

\* The queue grows up to its bound.
LEMMA JobArrivesTypes ==
  ASSUME TypeOK, NEW p \in Pool, NEW t \in Target, JobArrives(p, t)
  PROVE  TypeOK'
<1>1. queue' \in [Pool -> Seq(Target)] /\ \A q \in Pool : Len(queue'[q]) <= MaxQueue
  BY ReconcilerAssumption DEF JobArrives, TypeOK
<1> QED
  BY <1>1 DEF TypeOK, JobArrives, RestUnchanged, cycle

\* The jobs of a removed pool leave an empty queue.
LEMMA UnmatchTypes ==
  ASSUME TypeOK, NEW p \in Pool, Unmatch(p)
  PROVE  TypeOK'
<1>1. <<>> \in Seq(Target) /\ Len(<<>>) <= MaxQueue
  BY ReconcilerAssumption
<1>2. queue' \in [Pool -> Seq(Target)] /\ \A q \in Pool : Len(queue'[q]) <= MaxQueue
  BY <1>1 DEF Unmatch, TypeOK
<1> QED
  BY <1>2 DEF TypeOK, Unmatch, RestUnchanged, cycle

\* A job that leaves the queue leaves the others in place.
LEMMA JobAssignedTypes ==
  ASSUME TypeOK, NEW r \in Runner, JobAssigned(r)
  PROVE  TypeOK'
<1> DEFINE p == cpool[r]
           rest(i) == SubSeq(queue[p], 1, i - 1) \o SubSeq(queue[p], i + 1, Len(queue[p]))
<1>0. p \in Pool /\ queue[p] \in Seq(Target) /\ Len(queue[p]) <= MaxQueue
  BY DEF TypeOK
<1>1. queue' \in [Pool -> Seq(Target)] /\ \A q \in Pool : Len(queue'[q]) <= MaxQueue
  <2>1. CASE UNCHANGED queue
    BY <2>1 DEF TypeOK
  <2>2. ASSUME NEW i \in DOMAIN queue[p], queue' = [queue EXCEPT ![p] = rest(i)]
        PROVE  queue' \in [Pool -> Seq(Target)] /\ \A q \in Pool : Len(queue'[q]) <= MaxQueue
    <3>1. rest(i) \in Seq(Target) /\ Len(rest(i)) <= Len(queue[p])
      BY <1>0
    <3>2. Len(rest(i)) <= MaxQueue
      BY <1>0, <3>1, ReconcilerAssumption
    <3> HIDE DEF rest
    <3> QED
      BY <1>0, <2>2, <3>1, <3>2 DEF TypeOK
  <2> QED
    BY <2>1, <2>2 DEF JobAssigned
<1> QED
  BY <1>1 DEF TypeOK, JobAssigned, Registers, RestUnchanged, cycle

\* A pool that is to be scaled is configured, so its plan is well formed.
LEMMA StartPoolTypes ==
  ASSUME TypeOK, CurrentPool, NEW p \in Pool, StartPool(p)
  PROVE  TypeOK'
<1> DEFINE ordered == ordered_targets(p)
           busy    == CountOn(p, {"busy"})
           have    == CountOn(p, {"starting", "idle", "busy"})
           desired == Desired(ordered, busy, floors[p], pools[p].min, DefaultTarget)
           slots   == Slots(pools[p].max, Cardinality(LiveIn(p)))
<1>1. pools[p].min \in Nat /\ pools[p].max \in Nat
  BY ReconcilerAssumption DEF TypeOK, Configured, CurrentPool, StartPool
<1>2. floors[p] \in [Target -> Nat]
  BY DEF TypeOK
<1>3. ordered \in Jobs
  BY OrderedType
<1>4. desired \in [Target -> Nat]
  <2>1. IsFiniteSet(DOMAIN ordered) /\ busy \in [Target -> Nat]
    BY OrderedType, CountType
  <2> HIDE DEF ordered, busy
  <2> QED
    BY <1>1, <1>2, <2>1, DesiredType
<1>5. Deficit(desired, have) \in [Target -> Nat]
  <2>1. have \in [Target -> Nat]
    BY CountType
  <2> HIDE DEF have, desired
  <2> QED
    BY <1>4, <2>1, DeficitType
<1>6. slots \in Nat
  BY <1>1, LiveFinite, SlotsFit
<1>7. plan' = [pool |-> p, desired |-> desired, ordered |-> ordered,
               deficit |-> Deficit(desired, have), slots |-> slots]
  BY DEF StartPool
<1>8. plan' \in Plan
  <2> HIDE DEF ordered, have, desired, slots
  <2> QED
    BY <1>3, <1>4, <1>5, <1>6, <1>7 DEF Plan
<1> QED
  <2>1. phase' = "create" /\ UNCHANGED <<world, memory, cycleConns, errs, seen, remote, live,
      todo, doomed, steady>>
    BY DEF StartPool
  <2> QED
    BY <1>8, <2>1 DEF TypeOK, world, memory

---------------------------------------------------------------------------
(* Types: every action *)

\* Every step of the cycle keeps the types.
LEMMA CycleTypes ==
  ASSUME TypeOK, CurrentPool, CycleStep
  PROVE  TypeOK'
<1>1. CASE Begin
  BY <1>1 DEF TypeOK, Begin, DockerView, world
<1>2. CASE Discover
  BY <1>2, DiscoverTypes
<1>3. CASE EndClassify
  BY <1>3 DEF TypeOK, EndClassify, world, memory
<1>4. CASE EndForget
  BY <1>4 DEF TypeOK, EndForget, world, memory, Configured
<1>5. CASE EndCreate
  BY <1>5 DEF TypeOK, EndCreate, world, memory, Removable, LiveIn
<1>6. CASE EndPool
  BY <1>6, NoPlanType DEF TypeOK, EndPool, world, memory
<1>7. CASE Publish
  BY <1>7, ReleasedType DEF TypeOK, Publish, CycleOver, world
<1>8. CASE DockerFails
  BY <1>8, DockerFailsTypes
<1>9. CASE GitHubFails
  BY <1>9, ReleasedType DEF TypeOK, GitHubFails, CycleOver, world
<1>10. ASSUME NEW r \in Runner, Keep(r)
      PROVE  TypeOK'
  BY <1>10 DEF TypeOK, Keep, KeptState, Observe, world
<1>11. ASSUME NEW r \in Runner, Reap(r)
      PROVE  TypeOK'
  BY <1>11, ReapTypes
<1>12. ASSUME NEW r \in Runner, Forget(r)
      PROVE  TypeOK'
  BY <1>12 DEF TypeOK, Forget, memory
<1>13. ASSUME NEW r \in Runner, ScaleDown(r)
      PROVE  TypeOK'
  BY <1>13 DEF TypeOK, ScaleDown, Removed, ClearTimers
<1>14. ASSUME NEW p \in Pool, StartPool(p)
      PROVE  TypeOK'
  BY <1>14, StartPoolTypes
<1>15. ASSUME NEW t \in Target, SkipTarget(t)
      PROVE  TypeOK'
  BY <1>15, AdvanceType DEF TypeOK, SkipTarget, world, memory
<1>16. ASSUME NEW t \in Target, CreateFails(t)
      PROVE  TypeOK'
  BY <1>16, CreateFailsTypes
<1>17. ASSUME NEW r \in Runner, NEW t \in Target, CreateRunner(r, t)
      PROVE  TypeOK'
  BY <1>17, CreateRunnerTypes
<1> QED
  BY <1>1, <1>2, <1>3, <1>4, <1>5, <1>6, <1>7, <1>8, <1>9, <1>10, <1>11, <1>12, <1>13, <1>14,
      <1>15, <1>16, <1>17 DEF CycleStep

\* Every HTTP handler, crash and shutdown keeps the types.
LEMMA ApiTypes ==
  ASSUME TypeOK, ApiStep
  PROVE  TypeOK'
<1>1. CASE CheckPools
  <2>1. request' \in Request
    <3>1. PICK new \in [Pool -> PoolConfig \cup {NoConfig}] :
            request' = [op |-> "pools", pools |-> new]
      BY <1>1 DEF CheckPools
    <3> QED
      BY <3>1 DEF Request
  <2> QED
    BY <1>1, <2>1 DEF TypeOK, CheckPools, world, cycle
<1>2. CASE CommitPools
  BY <1>2, ReconcilerAssumption DEF TypeOK, Request, NoRequest, CommitPools, world, cycle, Reply
<1>3. CASE CommitFloor
  BY <1>3, CommitFloorTypes
<1>4. CASE Crash
  BY <1>4, CrashTypes
<1>5. CASE Shutdown
  BY <1>5, ShutdownTypes
<1>6. ASSUME NEW p \in Pool, NEW t \in Target, NEW n \in 0..MaxFloor, CheckFloor(p, t, n)
      PROVE  TypeOK'
  BY <1>6, CheckFloorTypes
<1>7. ASSUME NEW p \in Pool, ClearFloors(p)
      PROVE  TypeOK'
  BY <1>7 DEF TypeOK, ClearFloors, world, cycle
<1>8. ASSUME NEW c \in Conn, Disconnect(c)
      PROVE  TypeOK'
  BY <1>8 DEF TypeOK, Disconnect, world, cycle
<1> QED
  BY <1>1, <1>2, <1>3, <1>4, <1>5, <1>6, <1>7, <1>8 DEF ApiStep

\* Runners, GitHub and time keep the types.
LEMMA EnvironmentTypes ==
  ASSUME TypeOK, Environment
  PROVE  TypeOK'
<1>1. ASSUME NEW r \in Runner, Register(r)
      PROVE  TypeOK'
  BY <1>1 DEF TypeOK, Register, Registers, RestUnchanged, cycle
<1>2. ASSUME NEW r \in Runner, JobAssigned(r)
      PROVE  TypeOK'
  BY <1>2, JobAssignedTypes
<1>3. ASSUME NEW r \in Runner, JobEnds(r)
      PROVE  TypeOK'
  BY <1>3 DEF TypeOK, JobEnds, Registers, RestUnchanged, cycle
<1>4. ASSUME NEW r \in Runner, Exit(r)
      PROVE  TypeOK'
  BY <1>4 DEF TypeOK, Exit, RestUnchanged, cycle
<1>5. ASSUME NEW r \in Runner, Dies(r)
      PROVE  TypeOK'
  BY <1>5 DEF TypeOK, Dies, Registers, RestUnchanged, cycle
<1>6. ASSUME NEW r \in Runner, Flap(r)
      PROVE  TypeOK'
  BY <1>6 DEF TypeOK, Flap, Registers, RestUnchanged, cycle
<1>7. ASSUME NEW r \in Runner, Aging(r)
      PROVE  TypeOK'
  BY <1>7 DEF TypeOK, Aging, RestUnchanged, cycle
<1>8. ASSUME NEW r \in Runner, IdleElapses(r)
      PROVE  TypeOK'
  BY <1>8 DEF TypeOK, IdleElapses, RestUnchanged, cycle
<1>9. ASSUME NEW r \in Runner, BusyElapses(r)
      PROVE  TypeOK'
  BY <1>9 DEF TypeOK, BusyElapses, RestUnchanged, cycle
<1>10. ASSUME NEW p \in Pool, NEW t \in Target, JobArrives(p, t)
      PROVE  TypeOK'
  BY <1>10, JobArrivesTypes
<1>11. ASSUME NEW t \in Target, Reselect(t)
      PROVE  TypeOK'
  BY <1>11 DEF TypeOK, Reselect, memory, cycle
<1>12. ASSUME NEW p \in Pool, Unmatch(p)
      PROVE  TypeOK'
  BY <1>12, UnmatchTypes
<1> QED
  BY <1>1, <1>2, <1>3, <1>4, <1>5, <1>6, <1>7, <1>8, <1>9, <1>10, <1>11, <1>12 DEF Environment,
      RunnerStep

---------------------------------------------------------------------------
(* Capacity: the actions that need an argument *)

\* With the lock released and nothing known, nothing is claimed.
LEMMA OverCapacity ==
  ASSUME Released
  PROVE  CapacityInv'
BY DEF Released, NoneOf, CapacityInv, ListingComplete, UnscaledPoolsAccounted, RoomLeft,
       LiveExists, CurrentPool, ClassifiedOnce

\* Whatever neither touches the cycle nor makes or removes a container.
LEMMA OutsideCapacity ==
  ASSUME CapacityInv, UNCHANGED <<cpool, pools, cycle>>,
         \A r \in Runner : cstatus'[r] = "absent" <=> cstatus[r] = "absent"
  PROVE  CapacityInv'
<1>1. UNCHANGED <<phase, seen, live, todo, plan>>
  BY DEF cycle
<1>2. \A p \in Pool : LiveIn(p)' = LiveIn(p)
  BY <1>1 DEF LiveIn
<1>3. LiveIn(plan.pool)' = LiveIn(plan.pool)
  BY <1>1 DEF LiveIn
<1> QED
  BY <1>1, <1>2, <1>3 DEF Configured, CapacityInv, ListingComplete, UnscaledPoolsAccounted,
      RoomLeft, LiveExists, CurrentPool, ClassifiedOnce, Accounted, Existing

\* A container that is kept moves from the list to the live runners.
LEMMA KeepCapacity ==
  ASSUME TypeOK, CapacityInv, NEW r \in Runner, Keep(r)
  PROVE  CapacityInv'
<1>1. KeptState(r) # "none"
  BY DEF KeptState
<1>2. /\ phase = "classify" /\ UNCHANGED <<phase, cstatus>> /\ seen[r] # "none"
      /\ live' = [live EXCEPT ![r] = KeptState(r)] /\ seen' = [seen EXCEPT ![r] = "none"]
  BY DEF Keep, world
<1>3. \A q \in Runner : /\ live'[q] = IF q = r THEN KeptState(r) ELSE live[q]
                        /\ seen'[q] = IF q = r THEN "none" ELSE seen[q]
  <2>1. DOMAIN live = Runner /\ DOMAIN seen = Runner
    BY DEF TypeOK
  <2> QED
    BY <1>2, <2>1
<1> QED
  BY <1>1, <1>2, <1>3 DEF CapacityInv, ListingComplete, UnscaledPoolsAccounted, RoomLeft,
      LiveExists, CurrentPool, ClassifiedOnce, Accounted, Existing

\* The slots of a new plan fit under the maximum of its pool.
LEMMA StartPoolCapacity ==
  ASSUME TypeOK, CapacityInv, NEW p \in Pool, StartPool(p)
  PROVE  CapacityInv'
<1>1. pools[p] # NoConfig /\ pools[p].max \in Nat
  BY ReconcilerAssumption DEF StartPool, TypeOK, Configured, CapacityInv, CurrentPool
<1>2. plan'.pool = p /\ plan'.slots = Slots(pools[p].max, Cardinality(LiveIn(p)))
  BY DEF StartPool
<1>3. plan'.slots > 0 => Cardinality(LiveIn(p)) + plan'.slots <= pools[p].max
  BY <1>1, <1>2, LiveFinite, SlotsFit
<1>4. UNCHANGED <<cstatus, cpool, pools, live, seen,
    todo>> /\ phase = "pool" /\ phase' = "create" /\ p \in todo
  BY DEF StartPool, world, memory
<1>5. LiveIn(plan.pool)' = LiveIn(p)
  BY <1>2, <1>4 DEF LiveIn
<1> QED
  BY <1>1, <1>2, <1>3, <1>4, <1>5 DEF Configured, CapacityInv, ListingComplete,
      UnscaledPoolsAccounted, RoomLeft, LiveExists, CurrentPool, ClassifiedOnce, Accounted,
          Existing

\* A skipped request uses up a slot and makes nothing.
LEMMA SkipTargetCapacity ==
  ASSUME TypeOK, CapacityInv, NEW t \in Target, SkipTarget(t)
  PROVE  CapacityInv'
<1>1. plan'.pool = plan.pool /\ plan'.slots = plan.slots - 1 /\ plan.slots \in Nat /\ plan.pool \in Pool
  BY DEF SkipTarget, Advance, TypeOK, Plan
<1>2. UNCHANGED <<cstatus, cpool, pools, live, seen, todo,
    phase>> /\ phase = "create" /\ plan.slots > 0
  BY DEF SkipTarget, Wanted, world, memory
<1>3. LiveIn(plan.pool)' = LiveIn(plan.pool)
  BY <1>1, <1>2 DEF LiveIn
<1>4. Cardinality(LiveIn(plan.pool)) \in Nat /\ plan'.slots \in Nat
  BY <1>1, <1>2, LiveFinite
<1>6. pools[plan.pool] # NoConfig => pools[plan.pool].max \in Nat
  BY <1>1, ReconcilerAssumption DEF TypeOK
<1>5. RoomLeft'
  BY <1>1, <1>2, <1>3, <1>4, <1>6 DEF CapacityInv, RoomLeft, Accounted, Existing
<1> QED
  BY <1>1, <1>2, <1>5 DEF Configured, CapacityInv, ListingComplete, UnscaledPoolsAccounted,
      LiveExists, CurrentPool, ClassifiedOnce, Accounted, Existing

\* A created runner fills exactly one of the slots.
LEMMA CreateRunnerCapacity ==
  ASSUME TypeOK, CapacityInv, NEW r \in Runner, NEW t \in Target, CreateRunner(r, t)
  PROVE  CapacityInv'
<1>1. plan'.pool = plan.pool /\ plan'.slots = plan.slots - 1 /\ plan.slots \in Nat /\ plan.pool \in Pool
  BY DEF CreateRunner, Advance, TypeOK, Plan
<1>2. /\ UNCHANGED <<pools, seen, todo, phase>> /\ phase = "create" /\ plan.slots > 0
      /\ live[r] = "none" /\ cstatus[r] = "absent"
      /\ live' = [live EXCEPT ![r] = "starting"] 
      /\ cpool' = [cpool EXCEPT ![r] = plan.pool]
      /\ cstatus' = [cstatus EXCEPT ![r] = "running"]
  BY DEF CreateRunner, Launch, Fresh, Wanted, memory
<1>3. LiveIn(plan.pool)' = LiveIn(plan.pool) \cup {r} /\ r \notin LiveIn(plan.pool)
  BY <1>1, <1>2 DEF LiveIn, TypeOK
<1>4. Cardinality(LiveIn(plan.pool)') = Cardinality(LiveIn(plan.pool)) + 1
  <2>1. IsFiniteSet(LiveIn(plan.pool))
    BY <1>1, LiveFinite
  <2> QED
    BY <1>3, <2>1, FS_AddElement
<1>5. Cardinality(LiveIn(plan.pool)) \in Nat /\ plan'.slots \in Nat
  BY <1>1, <1>2, LiveFinite
<1>6. \A q \in Runner : /\ live'[q] = IF q = r THEN "starting" ELSE live[q]
                        /\ cpool'[q] = IF q = r THEN plan.pool ELSE cpool[q]
                        /\ cstatus'[q] = IF q = r THEN "running" ELSE cstatus[q]
  <2>1. DOMAIN live = Runner /\ DOMAIN cpool = Runner /\ DOMAIN cstatus = Runner
    BY DEF TypeOK
  <2> QED
    BY <1>2, <2>1
<1>8. pools[plan.pool] # NoConfig => pools[plan.pool].max \in Nat
  BY <1>1, ReconcilerAssumption DEF TypeOK
<1>7. RoomLeft'
  BY <1>1, <1>2, <1>4, <1>5, <1>6, <1>8 DEF CapacityInv, RoomLeft, Accounted, Existing
<1> QED
  BY <1>1, <1>2, <1>6, <1>7 DEF NoneOf, Configured, CapacityInv, ListingComplete,
      UnscaledPoolsAccounted, LiveExists, CurrentPool, ClassifiedOnce, Accounted, Existing

\* After a failed creation no slot is left, whatever Docker kept.
LEMMA CreateFailsCapacity ==
  ASSUME TypeOK, CapacityInv, NEW t \in Target, CreateFails(t)
  PROVE  CapacityInv'
<1>1. plan'.pool = plan.pool /\ plan'.slots = 0
  BY DEF CreateFails, GiveUp, TypeOK, Plan
<1>2. UNCHANGED <<pools, live, seen, todo, phase>> /\ phase = "create"
  BY DEF CreateFails, Wanted, memory
<1>3. CASE UNCHANGED <<cstatus, cpool>>
  BY <1>1, <1>2, <1>3 DEF Configured, CapacityInv, ListingComplete, UnscaledPoolsAccounted,
      RoomLeft, LiveExists, CurrentPool, ClassifiedOnce, Accounted, Existing
<1>4. CASE \E r \in Runner : Launch(r, t, "created")
  BY <1>1, <1>2, <1>4 DEF Configured, Launch, Fresh, TypeOK, CapacityInv, ListingComplete,
      UnscaledPoolsAccounted, RoomLeft, LiveExists, CurrentPool, ClassifiedOnce, Accounted,
          Existing
<1> QED
  BY <1>3, <1>4 DEF CreateFails

---------------------------------------------------------------------------
(* Capacity: every action *)

\* Every step of the cycle keeps the capacity invariant.
LEMMA CycleCapacity ==
  ASSUME TypeOK, CapacityInv, CycleStep
  PROVE  CapacityInv'
<1> USE DEF CapacityInv, ListingComplete, UnscaledPoolsAccounted, RoomLeft, LiveExists,
    CurrentPool, ClassifiedOnce, Accounted, Existing
<1>1. CASE Begin
  <2>1. /\ live = NoneOf /\ live' = NoneOf /\ phase' = "discover"
        /\ cstatus' = cstatus
    BY <1>1 DEF Begin, world
  <2>2. \A r \in Runner : seen'[r] = DockerView(r)
    BY <1>1 DEF Begin
  <2>3. \A r \in Runner : DockerView(r) = "none" <=> cstatus[r] = "absent"
    <3> TAKE r \in Runner
    <3>1. cstatus[r] \in Container
      BY DEF TypeOK
    <3> HIDE DEF CapacityInv, ListingComplete
    <3> QED
      BY <3>1 DEF DockerView, Container
  <2>4. \A r \in Runner : live'[r] = "none"
    BY <2>1 DEF NoneOf
  <2> QED
    BY <2>1, <2>2, <2>3, <2>4
<1>2. CASE Discover
  BY <1>2 DEF Discover, world
<1>3. CASE EndClassify
  BY <1>3 DEF EndClassify, world, memory, NoneOf
<1>4. CASE EndForget
  BY <1>4 DEF EndForget, world, memory, Configured, NoneOf
<1>5. CASE EndCreate
  BY <1>5 DEF EndCreate, world, memory, Configured, NoneOf
<1>6. CASE EndPool
  BY <1>6 DEF EndPool, world, memory, Configured
<1>7. CASE Publish
  BY <1>7, OverCapacity DEF Publish, CycleOver
<1>8. CASE DockerFails
  BY <1>8, OverCapacity DEF DockerFails, CycleOver
<1>9. CASE GitHubFails
  BY <1>9, OverCapacity DEF GitHubFails, CycleOver
<1>10. ASSUME NEW r \in Runner, Keep(r)
      PROVE  CapacityInv'
  BY <1>10, KeepCapacity
<1>11. ASSUME NEW r \in Runner, Reap(r)
      PROVE  CapacityInv'
  BY <1>11 DEF Reap, Removed, TypeOK
<1>12. ASSUME NEW r \in Runner, Forget(r)
      PROVE  CapacityInv'
  BY <1>12 DEF Forget, memory
<1>13. ASSUME NEW r \in Runner, ScaleDown(r)
      PROVE  CapacityInv'
  BY <1>13 DEF ScaleDown, Removed, Configured, TypeOK, NoneOf
<1>14. ASSUME NEW p \in Pool, StartPool(p)
      PROVE  CapacityInv'
  BY <1>14, StartPoolCapacity
<1>15. ASSUME NEW t \in Target, SkipTarget(t)
      PROVE  CapacityInv'
  BY <1>15, SkipTargetCapacity
<1>16. ASSUME NEW t \in Target, CreateFails(t)
      PROVE  CapacityInv'
  BY <1>16, CreateFailsCapacity
<1>17. ASSUME NEW r \in Runner, NEW t \in Target, CreateRunner(r, t)
      PROVE  CapacityInv'
  BY <1>17, CreateRunnerCapacity
<1> QED
  BY <1>1, <1>2, <1>3, <1>4, <1>5, <1>6, <1>7, <1>8, <1>9, <1>10, <1>11, <1>12, <1>13, <1>14,
      <1>15, <1>16, <1>17 DEF CycleStep

\* Every HTTP handler, crash and shutdown keeps the capacity invariant.
LEMMA ApiCapacity ==
  ASSUME TypeOK, CapacityInv, ApiStep
  PROVE  CapacityInv'
<1> USE DEF CapacityInv, ListingComplete, UnscaledPoolsAccounted, RoomLeft, LiveExists,
    CurrentPool, ClassifiedOnce, Accounted, Existing
<1>1. CASE CheckPools
  BY <1>1, OutsideCapacity DEF CheckPools, world
<1>2. CASE CommitPools
  BY <1>2 DEF CommitPools, LockFree, world, cycle
<1>3. CASE CommitFloor
  BY <1>3, OutsideCapacity DEF CommitFloor, world
<1>4. CASE Crash
  BY <1>4, OverCapacity DEF Crash, Forgotten
<1>5. CASE Shutdown
  BY <1>5, OverCapacity DEF Shutdown, Forgotten
<1>6. ASSUME NEW p \in Pool, NEW t \in Target, NEW n \in 0..MaxFloor, CheckFloor(p, t, n)
      PROVE  CapacityInv'
  BY <1>6, OutsideCapacity DEF CheckFloor, world
<1>7. ASSUME NEW p \in Pool, ClearFloors(p)
      PROVE  CapacityInv'
  BY <1>7, OutsideCapacity DEF ClearFloors, world
<1>8. ASSUME NEW c \in Conn, Disconnect(c)
      PROVE  CapacityInv'
  BY <1>8, OutsideCapacity DEF Disconnect, world
<1> QED
  BY <1>1, <1>2, <1>3, <1>4, <1>5, <1>6, <1>7, <1>8 DEF ApiStep

\* Runners, GitHub and time keep the capacity invariant.
LEMMA EnvironmentCapacity ==
  ASSUME TypeOK, CapacityInv, Environment
  PROVE  CapacityInv'
<1>1. ASSUME NEW r \in Runner, Register(r)
      PROVE  CapacityInv'
  BY <1>1, OutsideCapacity DEF Register, RestUnchanged, TypeOK
<1>2. ASSUME NEW r \in Runner, JobAssigned(r)
      PROVE  CapacityInv'
  BY <1>2, OutsideCapacity DEF JobAssigned, RestUnchanged, TypeOK
<1>3. ASSUME NEW r \in Runner, JobEnds(r)
      PROVE  CapacityInv'
  BY <1>3, OutsideCapacity DEF JobEnds, RestUnchanged, TypeOK
<1>4. ASSUME NEW r \in Runner, Exit(r)
      PROVE  CapacityInv'
  BY <1>4, OutsideCapacity DEF Exit, RestUnchanged, TypeOK
<1>5. ASSUME NEW r \in Runner, Dies(r)
      PROVE  CapacityInv'
  BY <1>5, OutsideCapacity DEF Dies, RestUnchanged, TypeOK
<1>6. ASSUME NEW r \in Runner, Flap(r)
      PROVE  CapacityInv'
  BY <1>6, OutsideCapacity DEF Flap, RestUnchanged, TypeOK
<1>7. ASSUME NEW r \in Runner, Aging(r)
      PROVE  CapacityInv'
  BY <1>7, OutsideCapacity DEF Aging, RestUnchanged, TypeOK
<1>8. ASSUME NEW r \in Runner, IdleElapses(r)
      PROVE  CapacityInv'
  BY <1>8, OutsideCapacity DEF IdleElapses, RestUnchanged, TypeOK
<1>9. ASSUME NEW r \in Runner, BusyElapses(r)
      PROVE  CapacityInv'
  BY <1>9, OutsideCapacity DEF BusyElapses, RestUnchanged, TypeOK
<1>10. ASSUME NEW p \in Pool, NEW t \in Target, JobArrives(p, t)
      PROVE  CapacityInv'
  BY <1>10, OutsideCapacity DEF JobArrives, RestUnchanged, TypeOK
<1>11. ASSUME NEW t \in Target, Reselect(t)
      PROVE  CapacityInv'
  BY <1>11, OutsideCapacity DEF Reselect, memory
<1>12. ASSUME NEW p \in Pool, Unmatch(p)
      PROVE  CapacityInv'
  BY <1>12, OutsideCapacity DEF Unmatch, RestUnchanged, TypeOK
<1> QED
  BY <1>1, <1>2, <1>3, <1>4, <1>5, <1>6, <1>7, <1>8, <1>9, <1>10, <1>11, <1>12 DEF Environment,
      RunnerStep

---------------------------------------------------------------------------
(* The theorems *)

\* The initial state is well typed and claims nothing.
LEMMA InitInv ==
  ASSUME Init
  PROVE  TypeOK /\ CapacityInv
<1>1. (CHOOSE p \in Pool : TRUE) \in Pool /\ (CHOOSE t \in Target : TRUE) \in Target
  BY ReconcilerAssumption
<1>2. TypeOK
  BY <1>1, NoPlanType, ReconcilerAssumption DEF Init, TypeOK, NoneOf, Request, NoRequest
<1>3. CapacityInv
  BY DEF Init, NoneOf, CapacityInv, ListingComplete, UnscaledPoolsAccounted, RoomLeft,
         LiveExists, CurrentPool, ClassifiedOnce
<1> QED
  BY <1>2, <1>3

\* A step that changes nothing preserves the invariant.
LEMMA StutterInv ==
  ASSUME TypeOK, CapacityInv, UNCHANGED vars
  PROVE  TypeOK' /\ CapacityInv'
<1>1. TypeOK'
  BY DEF TypeOK, vars, world, memory, cycle
<1>2. CapacityInv'
  BY OutsideCapacity DEF vars, world, memory
<1> QED
  BY <1>1, <1>2

\* Types and capacity together are inductive: the types of a plan need the pool
\* to be configured, the capacity argument needs the types.
LEMMA StepInv ==
  ASSUME TypeOK, CapacityInv, [Next]_vars
  PROVE  TypeOK' /\ CapacityInv'
<1>1. CurrentPool
  BY DEF CapacityInv
<1>2. CASE CycleStep
  BY <1>1, <1>2, CycleTypes, CycleCapacity
<1>3. CASE ApiStep
  BY <1>3, ApiTypes, ApiCapacity
<1>4. CASE Environment
  BY <1>4, EnvironmentTypes, EnvironmentCapacity
<1>5. CASE UNCHANGED vars
  BY <1>5, StutterInv
<1> QED
  BY <1>2, <1>3, <1>4, <1>5 DEF Next

\* In every reachable state the types hold and the cycle's view of the fleet is
\* complete wherever a creation relies on it.
THEOREM Invariance == Spec => [](TypeOK /\ CapacityInv)
<1>1. Init => TypeOK /\ CapacityInv
  BY InitInv
<1>2. TypeOK /\ CapacityInv /\ [Next]_vars => TypeOK' /\ CapacityInv'
  BY StepInv
<1> QED
  BY <1>1, <1>2, PTL DEF Spec

\* Every variable keeps its type, and no plan ever has a negative number of slots.
THEOREM TypesHold == Spec => []TypeOK
BY Invariance, PTL

\* The capacity invariant holds in every reachable state.
THEOREM CapacityHolds == Spec => []CapacityInv
BY Invariance, PTL

\* Containers come into being in two actions only, and under the running plan.
LEMMA OnlyLaunches ==
  ASSUME TypeOK, CapacityInv, [Next]_vars, NEW r \in Runner, Appears(r)
  PROVE  /\ phase = "create" /\ plan.slots > 0
         /\ \E s \in Container : /\ cstatus' = [cstatus EXCEPT ![r] = s]
                                 /\ cpool' = [cpool EXCEPT ![r] = plan.pool]
         /\ live[r] = "none"
<1>1. CASE UNCHANGED cstatus
  BY <1>1 DEF Appears
<1>2. CASE \E S : Removed(S)
  BY <1>2 DEF Appears, Removed
<1>3. ASSUME NEW q \in Runner, cstatus[q] # "absent",
             \E s \in Container : cstatus' = [cstatus EXCEPT ![q] = s]
      PROVE  FALSE
  BY <1>3 DEF Appears, TypeOK
<1>4. ASSUME NEW q \in Runner, NEW t \in Target, CreateRunner(q, t)
      PROVE  q = r
  BY <1>4 DEF CreateRunner, Launch, Appears, TypeOK
<1>5. ASSUME NEW q \in Runner, NEW t \in Target, Launch(q, t, "created")
      PROVE  q = r
  BY <1>5 DEF Launch, Appears, TypeOK
<1>6. ASSUME NEW t \in Target, CreateRunner(r, t)
      PROVE  /\ phase = "create" /\ plan.slots > 0
             /\ \E s \in Container : /\ cstatus' = [cstatus EXCEPT ![r] = s]
                                     /\ cpool' = [cpool EXCEPT ![r] = plan.pool]
             /\ live[r] = "none"
  BY <1>6 DEF CreateRunner, Wanted, Launch, Fresh
<1>7. ASSUME NEW t \in Target, CreateFails(t)
      PROVE  /\ phase = "create" /\ plan.slots > 0
             /\ \E s \in Container : /\ cstatus' = [cstatus EXCEPT ![r] = s]
                                     /\ cpool' = [cpool EXCEPT ![r] = plan.pool]
             /\ live[r] = "none"
  <2>1. Launch(r, t, "created")
    BY <1>1, <1>5, <1>7 DEF CreateFails, Appears
  <2> QED
    BY <1>7, <2>1 DEF CreateFails, Wanted, Launch, Fresh
<1>8. CASE CycleStep
  <2>1. CASE DockerFails
    BY <1>1, <1>2, <2>1 DEF DockerFails
  <2>2. ASSUME NEW q \in Runner, Reap(q) \/ ScaleDown(q)
        PROVE  FALSE
    BY <1>2, <2>2 DEF Reap, ScaleDown, Appears, Removed
  <2>3. ASSUME NEW q \in Runner, Keep(q) \/ Forget(q)
        PROVE  FALSE
    BY <2>3 DEF Keep, Forget, Appears, world
  <2>4. ASSUME NEW t \in Target, SkipTarget(t)
        PROVE  FALSE
    BY <2>4 DEF SkipTarget, Appears, world
  <2>5. ASSUME NEW p \in Pool, StartPool(p)
        PROVE  FALSE
    BY <2>5 DEF StartPool, Appears, world
  <2>6. CASE Begin \/ Discover \/ EndClassify \/ EndForget \/ EndCreate \/ EndPool
               \/ Publish \/ GitHubFails
    BY <2>6 DEF Begin, Discover, EndClassify, EndForget, EndCreate, EndPool, Publish,
                GitHubFails, Appears, world
  <2> QED
    BY <1>4, <1>6, <1>7, <1>8, <2>1, <2>2, <2>3, <2>4, <2>5, <2>6 DEF CycleStep
<1>9. CASE ApiStep
  BY <1>9 DEF ApiStep, CheckPools, CommitPools, CommitFloor, Crash, Shutdown, CheckFloor,
              ClearFloors, Disconnect, world, Removed, Appears
<1>10. CASE Environment
  <2>1. ASSUME NEW q \in Runner, JobEnds(q) \/ Exit(q) \/ Dies(q)
        PROVE  FALSE
    BY <1>3, <2>1 DEF JobEnds, Exit, Dies
  <2>2. ASSUME NEW q \in Runner,
               Register(q) \/ JobAssigned(q) \/ Flap(q) \/ Aging(q) \/ IdleElapses(q)
                 \/ BusyElapses(q)
        PROVE  FALSE
    BY <2>2 DEF Register, JobAssigned, Flap, Aging, IdleElapses, BusyElapses, Appears
  <2>3. ASSUME NEW t \in Target, Reselect(t) \/ \E p \in Pool : JobArrives(p, t)
        PROVE  FALSE
    BY <2>3 DEF Reselect, JobArrives, Appears
  <2>4. ASSUME NEW p \in Pool, Unmatch(p)
        PROVE  FALSE
    BY <2>4 DEF Unmatch, Appears
  <2> QED
    BY <1>10, <2>1, <2>2, <2>3, <2>4 DEF Environment, RunnerStep
<1> QED
  BY <1>1, <1>8, <1>9, <1>10 DEF Next, vars, world

\* A container that appears fits under the maximum of its pool: the pool is the
\* plan's, all its other containers are live, and a slot was left for it.
LEMMA LaunchFits ==
  ASSUME TypeOK, CapacityInv, [Next]_vars
  PROVE  CreationFits
<1> SUFFICES ASSUME NEW r \in Runner, NEW p \in Pool, Appears(r), cpool'[r] = p
             PROVE  pools[p] # NoConfig /\ Cardinality(Existing(p)') <= pools[p].max
  BY DEF CreationFits
<1>1. /\ phase = "create" /\ plan.slots > 0 /\ live[r] = "none"
      /\ \E s \in Container : /\ cstatus' = [cstatus EXCEPT ![r] = s]
                              /\ cpool' = [cpool EXCEPT ![r] = plan.pool]
  BY OnlyLaunches
<1>2. p = plan.pool /\ plan.slots \in Nat
  BY <1>1 DEF TypeOK, Plan
<1>3. /\ pools[p] # NoConfig /\ Accounted(p)
      /\ Cardinality(LiveIn(p)) + plan.slots <= pools[p].max
  BY <1>1, <1>2 DEF CapacityInv, RoomLeft
<1>4. pools[p].max \in Nat
  BY <1>3, ReconcilerAssumption DEF TypeOK
<1>5. Existing(p)' \subseteq LiveIn(p) \cup {r}
  BY <1>1, <1>3 DEF Existing, Accounted, LiveIn, TypeOK
<1>6. /\ IsFiniteSet(LiveIn(p) \cup {r})
      /\ Cardinality(LiveIn(p) \cup {r}) <= Cardinality(LiveIn(p)) + 1
      /\ Cardinality(LiveIn(p) \cup {r}) \in Nat
  <2>1. IsFiniteSet(LiveIn(p)) /\ Cardinality(LiveIn(p)) \in Nat
    BY LiveFinite
  <2>2. IsFiniteSet(LiveIn(p) \cup {r})
    BY <2>1, FS_AddElement
  <2>3. Cardinality(LiveIn(p) \cup {r}) =
          IF r \in LiveIn(p) THEN Cardinality(LiveIn(p)) ELSE Cardinality(LiveIn(p)) + 1
    BY <2>1, FS_AddElement
  <2> QED
    BY <2>1, <2>2, <2>3
<1>7. Cardinality(Existing(p)') <= Cardinality(LiveIn(p) \cup {r}) /\ Cardinality(Existing(p)') \in Nat
  <2>1. IsFiniteSet(Existing(p)') /\ Cardinality(Existing(p)') <= Cardinality(LiveIn(p) \cup {r})
    BY <1>5, <1>6, FS_Subset
  <2> QED
    BY <2>1, FS_CardinalityType
<1>8. Cardinality(LiveIn(p)) \in Nat
  BY LiveFinite
<1> QED
  BY <1>1, <1>2, <1>3, <1>4, <1>6, <1>7, <1>8

\* No creation takes the containers of a pool above its maximum, for any number
\* of runners, pools, targets and connections and any failures.
THEOREM MaximumHolds == Spec => CreateWithinMax
<1>1. TypeOK /\ CapacityInv /\ [Next]_vars => CreationFits
  BY LaunchFits
<1> QED
  BY <1>1, Invariance, PTL DEF Spec, CreateWithinMax

---------------------------------------------------------------------------
(* The loop implements the fleet: each step is a step of Fleet or leaves it as it is *)

\* The module of the fleet counts as this one does.
LEMMA SameCount == \A S : AbstractFleet!Cardinality(S) = Cardinality(S)
BY DEF AbstractFleet!Cardinality, Cardinality


\* The members of the abstract fleet are the containers Docker holds.
LEMMA MembersAreContainers ==
  ASSUME TypeOK
  PROVE  AbstractFleet!Members = {r \in Runner : cstatus[r] # "absent"}
<1>1. \A r \in Runner : cpool[r] \in Pool
  BY DEF TypeOK
<1>2. \A p \in Pool : ContainersOf[p] = {r \in Runner : cstatus[r] # "absent" /\ cpool[r] = p}
  BY DEF ContainersOf, Existing
<1> QED
  BY <1>1, <1>2 DEF AbstractFleet!Members

\* A step that leaves containers, registrations and pools alone is a stutter.
LEMMA QuietStep ==
  ASSUME UNCHANGED <<cstatus, cpool, gh, pools>>
  PROVE  UNCHANGED AbstractFleet!vars
<1>1. UNCHANGED ContainersOf
  BY DEF ContainersOf, Existing
<1>2. UNCHANGED <<KnownToGitHub, AtWork>>
  BY DEF KnownToGitHub, AtWork
<1> QED
  BY <1>1, <1>2 DEF AbstractFleet!vars

\* Removing the containers S stops S.
LEMMA RemovalStops ==
  ASSUME TypeOK, NEW S \in SUBSET Runner, Removed(S), UNCHANGED <<cpool, pools>>
  PROVE  AbstractFleet!Stop(S)
<1>1. ContainersOf' = [p \in Pool |-> ContainersOf[p] \ S]
  <2>1. \A p \in Pool : Existing(p)' = Existing(p) \ S
    BY DEF Removed, Existing, TypeOK
  <2> QED
    BY <2>1 DEF ContainersOf
<1>2. KnownToGitHub' = KnownToGitHub
  BY DEF Removed, KnownToGitHub, TypeOK
<1>3. AtWork' = AtWork \ S
  BY DEF Removed, AtWork, TypeOK
<1> QED
  BY <1>1, <1>2, <1>3 DEF AbstractFleet!Stop

\* A container that is launched while its pool has room starts.
LEMMA LaunchStarts ==
  ASSUME TypeOK, CreationFits, NEW r \in Runner, NEW t \in Target, NEW s \in {"running", "created"},
         NEW p \in Pool, p = plan.pool,
         phase = "create", Launch(r, t, s), UNCHANGED <<gh, pools>>
  PROVE  AbstractFleet!Start(r, p)
<1>1. /\ cstatus \in [Runner -> Container] /\ cpool \in [Runner -> Pool]
  BY DEF TypeOK
<1>2. /\ cstatus[r] = "absent" /\ gh[r] = "none" /\ s # "absent"
      /\ cstatus' = [cstatus EXCEPT ![r] = s] /\ cpool' = [cpool EXCEPT ![r] = p]
  BY DEF Launch, Fresh
<1>3. /\ Existing(p)' = Existing(p) \cup {r}
      /\ \A q \in Pool : q # p => Existing(q)' = Existing(q)
      /\ \A q \in Pool : r \notin Existing(q)
  BY <1>1, <1>2 DEF Existing
<1>4. Appears(r) /\ cpool'[r] = p
  BY <1>1, <1>2 DEF Appears
<1>5. pools[p] # NoConfig /\ Cardinality(Existing(p)') <= pools[p].max
  BY <1>1, <1>4 DEF CreationFits
<1>6. Cardinality(Existing(p)) < pools[p].max
  <2>1. IsFiniteSet(Existing(p))
    BY FS_Subset, ReconcilerAssumption DEF Existing
  <2>2. /\ Cardinality(Existing(p)) \in Nat
        /\ Cardinality(Existing(p) \cup {r}) = Cardinality(Existing(p)) + 1
    BY <1>1, <1>3, <2>1, FS_CardinalityType, FS_AddElement
  <2>3. pools[p].max \in Nat
    BY <1>1, <1>5, ReconcilerAssumption DEF TypeOK
  <2> QED
    BY <1>3, <1>5, <2>2, <2>3
<1>7. ContainersOf' = [ContainersOf EXCEPT ![p] = @ \cup {r}]
  BY <1>1, <1>3 DEF ContainersOf
<1>8. UNCHANGED <<KnownToGitHub, AtWork>> /\ r \notin KnownToGitHub
  BY <1>2 DEF KnownToGitHub, AtWork
<1>9. ContainersOf[p] = Existing(p)
  BY <1>1 DEF ContainersOf
<1>10. r \notin AbstractFleet!Members
  BY <1>2, MembersAreContainers
<1> QED
  BY <1>5, <1>6, <1>7, <1>8, <1>9, <1>10, SameCount DEF AbstractFleet!Start

---------------------------------------------------------------------------
(* The steps *)

\* The lists of a cycle: when registrations are deleted, every container is live.
LEMMA ForgetsTheDead ==
  ASSUME TypeOK, CapacityInv, NEW r \in Runner, Forget(r)
  PROVE  cstatus[r] = "absent"
<1>1. \A p \in Pool : Accounted(p)
  BY DEF Forget, CapacityInv, UnscaledPoolsAccounted
<1>2. cpool[r] \in Pool /\ live[r] = "none"
  BY DEF TypeOK, Forget, Stale
<1> QED
  BY <1>1, <1>2 DEF Accounted, Existing

\* A step of the cycle is a step of the fleet.
LEMMA CycleRefines ==
  ASSUME TypeOK, CapacityInv, CreationFits, CycleStep
  PROVE  AbstractFleet!Next \/ UNCHANGED AbstractFleet!vars
<1>1. ASSUME NEW r \in Runner, Removed({r}), UNCHANGED <<cpool, pools>>
      PROVE  AbstractFleet!Next
  <2>1. AbstractFleet!Stop({r})
    BY <1>1, RemovalStops
  <2> QED
    BY <2>1 DEF AbstractFleet!Next
<1>2. ASSUME NEW r \in Runner, Reap(r) \/ ScaleDown(r)
      PROVE  AbstractFleet!Next
  BY <1>1, <1>2 DEF Reap, ScaleDown
<1>3. ASSUME DockerFails
      PROVE  AbstractFleet!Next \/ UNCHANGED AbstractFleet!vars
  <2>1. UNCHANGED <<cpool, pools>>
    BY <1>3 DEF DockerFails, memory
  <2>2. (\E r \in Runner : Removed({r})) \/ UNCHANGED <<cstatus, gh>>
    BY <1>3 DEF DockerFails
  <2> QED
    BY <1>1, <2>1, <2>2, QuietStep
<1>4. ASSUME NEW t \in Target, NEW r \in Runner, CreateRunner(r, t)
      PROVE  AbstractFleet!Next
  <2>1. PICK p \in Pool : p = plan.pool
    BY DEF TypeOK, Plan
  <2>2. phase = "create" /\ Launch(r, t, "running") /\ UNCHANGED <<gh, pools>>
    BY <1>4 DEF CreateRunner, Wanted, memory
  <2>3. AbstractFleet!Start(r, p)
    BY <2>1, <2>2, LaunchStarts
  <2> QED
    BY <2>3 DEF AbstractFleet!Next
<1>5. ASSUME NEW t \in Target, CreateFails(t)
      PROVE  AbstractFleet!Next \/ UNCHANGED AbstractFleet!vars
  <2>1. UNCHANGED <<gh, pools>> /\ phase = "create"
    BY <1>5 DEF CreateFails, memory, Wanted
  <2>2. CASE UNCHANGED <<cstatus, cpool>>
    BY <2>1, <2>2, QuietStep
  <2>3. ASSUME NEW r \in Runner, Launch(r, t, "created")
        PROVE  AbstractFleet!Next
    <3>1. PICK p \in Pool : p = plan.pool
      BY DEF TypeOK, Plan
    <3>2. AbstractFleet!Start(r, p)
      BY <2>1, <2>3, <3>1, LaunchStarts
    <3> QED
      BY <3>2 DEF AbstractFleet!Next
  <2> QED
    BY <1>5, <2>2, <2>3 DEF CreateFails
<1>6. ASSUME NEW r \in Runner, Forget(r)
      PROVE  AbstractFleet!Next \/ UNCHANGED AbstractFleet!vars
  <2>1. cstatus[r] = "absent"
    BY <1>6, ForgetsTheDead
  <2>2. gh' = [gh EXCEPT ![r] = "none"] /\ UNCHANGED <<cstatus, cpool, pools>>
    BY <1>6 DEF Forget, memory
  <2>3. UNCHANGED ContainersOf
    BY <2>2 DEF ContainersOf, Existing
  <2>4. CASE r \in KnownToGitHub
    <3>1. KnownToGitHub' = KnownToGitHub \ {r} /\ AtWork' = AtWork \ {r}
      BY <2>2 DEF KnownToGitHub, AtWork, TypeOK
    <3>2. r \notin AbstractFleet!Members
      BY <2>1, MembersAreContainers
    <3>3. AbstractFleet!Forget(r)
      BY <2>2, <2>3, <2>4, <3>1, <3>2 DEF AbstractFleet!Forget
    <3> QED
      BY <3>3 DEF AbstractFleet!Next
  <2>5. CASE r \notin KnownToGitHub
    <3>1. UNCHANGED gh
      BY <2>2, <2>5 DEF KnownToGitHub, TypeOK
    <3> QED
      BY <2>2, <3>1, QuietStep
  <2> QED
    BY <2>4, <2>5
<1>7. ASSUME NEW r \in Runner, Keep(r)
      PROVE  UNCHANGED AbstractFleet!vars
  BY <1>7, QuietStep DEF Keep, world
<1>8. ASSUME NEW t \in Target, SkipTarget(t)
      PROVE  UNCHANGED AbstractFleet!vars
  BY <1>8, QuietStep DEF SkipTarget, world, memory
<1>9. ASSUME NEW p \in Pool, StartPool(p)
      PROVE  UNCHANGED AbstractFleet!vars
  BY <1>9, QuietStep DEF StartPool, world, memory
<1>10. CASE Begin \/ Discover \/ EndClassify \/ EndForget \/ EndCreate \/ EndPool \/ Publish
              \/ GitHubFails
  BY <1>10, QuietStep DEF Begin, Discover, EndClassify, EndForget, EndCreate, EndPool, Publish,
                          GitHubFails, world, memory
<1> QED
  BY <1>2, <1>3, <1>4, <1>5, <1>6, <1>7, <1>8, <1>9, <1>10 DEF CycleStep

\* A handler changes the pools, or stops the idle runners, or neither.
LEMMA ApiRefines ==
  ASSUME TypeOK, ApiStep
  PROVE  AbstractFleet!Next \/ UNCHANGED AbstractFleet!vars
<1>1. CASE CheckPools \/ CommitFloor \/ Crash
  BY <1>1, QuietStep DEF CheckPools, CommitFloor, Crash, world
<1>2. ASSUME NEW p \in Pool, NEW t \in Target, NEW n \in 0..MaxFloor, CheckFloor(p, t, n)
      PROVE  UNCHANGED AbstractFleet!vars
  BY <1>2, QuietStep DEF CheckFloor, world
<1>3. ASSUME NEW p \in Pool, ClearFloors(p)
      PROVE  UNCHANGED AbstractFleet!vars
  BY <1>3, QuietStep DEF ClearFloors, world
<1>4. ASSUME NEW c \in Conn, Disconnect(c)
      PROVE  UNCHANGED AbstractFleet!vars
  BY <1>4, QuietStep DEF Disconnect, world
<1>5. CASE CommitPools
  <2>1. pools' \in [Pool -> PoolConfig \cup {NoConfig}]
    BY <1>5 DEF CommitPools, TypeOK, Request, NoRequest
  <2>2. UNCHANGED <<ContainersOf, KnownToGitHub, AtWork>>
    BY <1>5 DEF CommitPools, world, ContainersOf, Existing, KnownToGitHub, AtWork
  <2> QED
    BY <2>1, <2>2 DEF AbstractFleet!Configure, AbstractFleet!Next
<1>6. CASE Shutdown
  <2>1. PICK S \in SUBSET Runner : Removed(S) /\ UNCHANGED <<cpool, pools>>
    BY <1>6 DEF Shutdown
  <2>2. AbstractFleet!Stop(S)
    BY <2>1, RemovalStops
  <2> QED
    BY <2>1, <2>2 DEF AbstractFleet!Next
<1> QED
  BY <1>1, <1>2, <1>3, <1>4, <1>5, <1>6 DEF ApiStep

\* What happens to one registration while containers stay where they are.
LEMMA RegistrationRefines ==
  ASSUME TypeOK, NEW r \in Runner, NEW s \in Registration,
         gh' = [gh EXCEPT ![r] = s], cstatus[r] = "running",
         UNCHANGED <<cpool, pools>>, \A q \in Runner : (cstatus'[q] = "absent") = (cstatus[q] = "absent"),
         s = "none" => gh[r] \in {"none", "busy"},
         s = "busy" => gh[r] # "none"
  PROVE  AbstractFleet!Next \/ UNCHANGED AbstractFleet!vars
<1>1. UNCHANGED <<ContainersOf, pools>>
  BY DEF ContainersOf, Existing
<1>2. r \in AbstractFleet!Members
  BY MembersAreContainers
<1>3. CASE s = "none"
  <2>1. KnownToGitHub' = KnownToGitHub \ {r} /\ AtWork' = AtWork \ {r}
    BY <1>3 DEF KnownToGitHub, AtWork, TypeOK
  <2>2. gh[r] = "none" => KnownToGitHub' = KnownToGitHub /\ AtWork' = AtWork
    BY <2>1 DEF KnownToGitHub, AtWork
  <2>3. gh[r] = "busy" => r \in AtWork
    BY DEF AtWork
  <2> QED
    BY <1>1, <1>3, <2>1, <2>2, <2>3
    DEF AbstractFleet!FinishJob, AbstractFleet!Next, AbstractFleet!vars
<1>4. CASE s = "busy"
  <2>1. KnownToGitHub' = KnownToGitHub /\ AtWork' = AtWork \cup {r} /\ r \in KnownToGitHub
    BY <1>4 DEF KnownToGitHub, AtWork, TypeOK
  <2>2. r \in AtWork => AtWork' = AtWork
    BY <2>1
  <2> QED
    BY <1>1, <1>2, <2>1, <2>2 DEF AbstractFleet!TakeJob, AbstractFleet!Next, AbstractFleet!vars
<1>5. CASE s \in {"idle", "offline"}
  <2>1. KnownToGitHub' = KnownToGitHub \cup {r} /\ AtWork' = AtWork \ {r}
    BY <1>5 DEF KnownToGitHub, AtWork, TypeOK
  <2>2. r \in AtWork => r \in KnownToGitHub
    BY DEF KnownToGitHub, AtWork
  <2>3. CASE r \in AtWork
    BY <1>1, <2>1, <2>2, <2>3 DEF AbstractFleet!LoseJob, AbstractFleet!Next
  <2>4. CASE r \in KnownToGitHub \ AtWork
    <3>1. KnownToGitHub' = KnownToGitHub /\ AtWork' = AtWork
      BY <2>1, <2>4
    <3> QED
      BY <1>1, <3>1 DEF AbstractFleet!vars
  <2>5. CASE r \notin KnownToGitHub
    <3>1. AtWork' = AtWork
      BY <2>1, <2>2, <2>5
    <3> QED
      BY <1>1, <1>2, <2>1, <2>5, <3>1 DEF AbstractFleet!Register, AbstractFleet!Next
  <2> QED
    BY <2>3, <2>4, <2>5
<1> QED
  BY <1>3, <1>4, <1>5 DEF Registration

\* Runners, GitHub and time.
LEMMA EnvironmentRefines ==
  ASSUME TypeOK, Environment
  PROVE  AbstractFleet!Next \/ UNCHANGED AbstractFleet!vars
<1>1. ASSUME NEW r \in Runner, Register(r) \/ JobAssigned(r) \/ Flap(r)
      PROVE  AbstractFleet!Next \/ UNCHANGED AbstractFleet!vars
  <2>1. /\ cstatus[r] = "running" /\ UNCHANGED <<cstatus, cpool, pools>>
        /\ \E s \in {"idle", "busy", "offline"} :
              gh' = [gh EXCEPT ![r] = s] /\ (s = "busy" => gh[r] # "none")
    BY <1>1 DEF Register, JobAssigned, Flap, Registers, RestUnchanged
  <2> QED
    BY <2>1, RegistrationRefines DEF Registration
<1>2. ASSUME NEW r \in Runner, JobEnds(r)
      PROVE  AbstractFleet!Next \/ UNCHANGED AbstractFleet!vars
  <2>1. /\ cstatus[r] = "running" /\ gh[r] = "busy" /\ UNCHANGED <<cpool, pools>>
        /\ cstatus' = [cstatus EXCEPT ![r] = "finishing"] /\ gh' = [gh EXCEPT ![r] = "none"]
    BY <1>2 DEF JobEnds, Registers, RestUnchanged
  <2>2. \A q \in Runner : (cstatus'[q] = "absent") = (cstatus[q] = "absent")
    BY <2>1 DEF TypeOK
  <2> QED
    BY <2>1, <2>2, RegistrationRefines DEF Registration
<1>3. ASSUME NEW r \in Runner, Dies(r)
      PROVE  AbstractFleet!Next \/ UNCHANGED AbstractFleet!vars
  <2>1. /\ cstatus[r] = "running" /\ UNCHANGED <<cpool, pools>>
        /\ cstatus' = [cstatus EXCEPT ![r] = "exited"]
        /\ gh' = [gh EXCEPT ![r] = IF gh[r] = "none" THEN "none" ELSE "offline"]
    BY <1>3 DEF Dies, Registers, RestUnchanged
  <2>2. \A q \in Runner : (cstatus'[q] = "absent") = (cstatus[q] = "absent")
    BY <2>1 DEF TypeOK
  <2>3. CASE gh[r] = "none"
    BY <2>1, <2>2, <2>3, RegistrationRefines DEF Registration
  <2>4. CASE gh[r] # "none"
    BY <2>1, <2>2, <2>4, RegistrationRefines DEF Registration
  <2> QED
    BY <2>3, <2>4
<1>4. ASSUME NEW r \in Runner, Exit(r)
      PROVE  UNCHANGED AbstractFleet!vars
  <2>1. UNCHANGED ContainersOf
    BY <1>4 DEF Exit, RestUnchanged, ContainersOf, Existing, TypeOK
  <2>2. UNCHANGED <<KnownToGitHub, AtWork, pools>>
    BY <1>4 DEF Exit, RestUnchanged, KnownToGitHub, AtWork
  <2> QED
    BY <2>1, <2>2 DEF AbstractFleet!vars
<1>5. ASSUME NEW r \in Runner, Aging(r) \/ IdleElapses(r) \/ BusyElapses(r)
      PROVE  UNCHANGED AbstractFleet!vars
  BY <1>5, QuietStep DEF Aging, IdleElapses, BusyElapses, RestUnchanged
<1>6. ASSUME NEW t \in Target, Reselect(t) \/ \E p \in Pool : JobArrives(p, t)
      PROVE  UNCHANGED AbstractFleet!vars
  BY <1>6, QuietStep DEF Reselect, JobArrives, RestUnchanged, memory
<1>7. ASSUME NEW p \in Pool, Unmatch(p)
      PROVE  UNCHANGED AbstractFleet!vars
  BY <1>7, QuietStep DEF Unmatch, RestUnchanged
<1> QED
  BY <1>1, <1>2, <1>3, <1>4, <1>5, <1>6, <1>7 DEF Environment, RunnerStep

---------------------------------------------------------------------------
(* The theorems *)

\* The first state of the loop is the first state of the fleet.
LEMMA InitRefines == Init => AbstractFleet!Init
<1>1. Init => ContainersOf = [p \in Pool |-> {}]
  BY DEF Init, ContainersOf, Existing
<1>2. Init => KnownToGitHub = {} /\ AtWork = {}
  BY DEF Init, KnownToGitHub, AtWork, NoneOf
<1> QED
  BY <1>1, <1>2 DEF Init, AbstractFleet!Init

\* Every step of the loop is a step of the fleet or leaves the fleet alone.
LEMMA StepRefines ==
  ASSUME TypeOK, CapacityInv, [Next]_vars
  PROVE  [AbstractFleet!Next]_AbstractFleet!vars
<1>1. CreationFits
  BY LaunchFits
<1>2. CASE UNCHANGED vars
  BY <1>2, QuietStep DEF vars, world, memory
<1>3. CASE CycleStep
  BY <1>1, <1>3, CycleRefines
<1>4. CASE ApiStep
  BY <1>4, ApiRefines
<1>5. CASE Environment
  BY <1>5, EnvironmentRefines
<1> QED
  BY <1>2, <1>3, <1>4, <1>5 DEF Next

\* The capacity loop, with its discovery, failures, edits and restarts,
\* implements the abstract fleet.
THEOREM LoopImplementsFleet == Spec => ImplementsFleet
<1>1. TypeOK /\ CapacityInv /\ [Next]_vars => [AbstractFleet!Next]_AbstractFleet!vars
  BY StepRefines
<1> QED
  BY <1>1, InitRefines, Invariance, PTL DEF Spec, ImplementsFleet, AbstractFleet!Spec

\* A registration is deleted only when its container is gone, for any number of
\* runners and any order of listings, failures and restarts.
THEOREM ContainersSpared == Spec => ForgetSparesContainers
<1> DEFINE Spares == \A r \in Runner : (gh[r] = "offline" /\ gh'[r] = "none") => cstatus[r] = "absent"
<1>1. ASSUME TypeOK, CapacityInv, [Next]_vars
      PROVE  Spares
  <2> SUFFICES ASSUME NEW r \in Runner, gh[r] = "offline", gh'[r] = "none"
               PROVE  cstatus[r] = "absent"
    OBVIOUS
  <2>1. CASE CycleStep
    <3>1. ASSUME NEW q \in Runner, Forget(q)
          PROVE  cstatus[r] = "absent"
      <4>1. q = r
        BY <1>1, <3>1 DEF Forget, TypeOK
      <4> QED
        BY <1>1, <3>1, <4>1, ForgetsTheDead
    <3>2. ASSUME NEW S \in SUBSET Runner, Removed(S)
          PROVE  FALSE
      BY <1>1, <3>2 DEF Removed, TypeOK
    <3>3. ASSUME UNCHANGED gh
          PROVE  FALSE
      BY <3>3
    <3> QED
      BY <2>1, <3>1, <3>2, <3>3
      DEF CycleStep, Reap, ScaleDown, DockerFails, Begin, Discover, EndClassify, EndForget, EndCreate,
          EndPool, Publish, GitHubFails, Keep, StartPool, SkipTarget, CreateFails, CreateRunner, world
  <2>2. CASE ApiStep
    BY <1>1, <2>2 DEF ApiStep, CheckPools, CommitPools, CommitFloor, Crash, Shutdown, CheckFloor,
                ClearFloors, Disconnect, world, Removed, TypeOK
  <2>3. CASE Environment
    <3>1. ASSUME NEW q \in Runner, RunnerStep(q) \/ Dies(q) \/ Flap(q)
          PROVE  cstatus[r] = "absent"
      BY <1>1, <3>1 DEF RunnerStep, Register, JobAssigned, JobEnds, Exit, Dies, Flap, Registers, TypeOK
    <3>2. ASSUME UNCHANGED gh
          PROVE  FALSE
      BY <3>2
    <3> QED
      BY <2>3, <3>1, <3>2 DEF Environment, Aging, IdleElapses, BusyElapses, JobArrives, Unmatch, Reselect
  <2> QED
    BY <1>1, <2>1, <2>2, <2>3 DEF Next, vars, world
<1> QED
  BY <1>1, Invariance, PTL DEF Spec, ForgetSparesContainers
=============================================================================
