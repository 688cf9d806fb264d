---------------------------- MODULE JanitorProofs ----------------------------
(***************************************************************************)
(* The janitor, for every set of runners, every grace period and every     *)
(* delay of the lists: its types, that it spares what belongs to a runner  *)
(* that runs, and that one pass is enough.                                 *)
(***************************************************************************)
EXTENDS JanitorProperties, TLAPS

USE JanitorAssumption

---------------------------------------------------------------------------
(* Types *)

Teardowns == {"get", "stop", "siblings", "networks", "volumes", "container"}
Looping == {Resting, [op |-> "maintain"]} \cup [op : Teardowns, of : Own]
Passing ==
  [by : {"loop", "api"}, step : {"containers", "networks", "volumes", "choose", "remove"},
   late : 0..MaxLate, active : SUBSET Own, seen : SUBSET Res, old : SUBSET Res,
   todo : SUBSET Res, targets : SUBSET Res, left : SUBSET Res]

\* The shape of the state, exactly enough to be inductive.
Shape ==
  /\ docker \in [Res -> {"unborn", "up", "down", "gone"}]
  /\ \A x \in Res : docker[x] = "down" => IsContainer(x)
  /\ age \in [Res -> 0..MaxAge]
  /\ loop \in Looping
  /\ archived \subseteq Own
  /\ faults \in 0..MaxFaults
  /\ pass \in {NoPass} \cup Passing
  /\ pass # NoPass => /\ pass.old \subseteq pass.seen
                      /\ pass.by = "loop" => loop = [op |-> "maintain"]

\* Every runner has a container among the resources.
LEMMA ContainerIsResource ==
  ASSUME NEW r \in Runner
  PROVE  Container(r) \in Res /\ IsContainer(Container(r)) /\ Container(r).of = r
BY DEF Container, Res, Kind, IsContainer

\* A resource belongs to a runner.
LEMMA OwnerIsRunner == \A x \in Res : x.of \in Runner /\ x.kind \in Kind
BY DEF Res

\* A cleanup is under way exactly when its record says a step.
LEMMA PassUnderWay ==
  ASSUME pass \in {NoPass} \cup Passing
  PROVE  /\ pass # NoPass <=> pass.step # "none"
         /\ pass # NoPass <=> pass \in Passing
BY DEF NoPass, Passing

LEMMA InitShape == Init => Shape
<1> SUFFICES ASSUME Init PROVE Shape
  OBVIOUS
<1>1. 0 \in 0..MaxAge /\ 0 \in 0..MaxFaults
  BY DEF MaxAge
<1> QED
  BY <1>1 DEF Init, Shape, Looping

\* What happens on the host keeps the shape.
LEMMA HostShape ==
  ASSUME Shape, \/ Tick \/ Crash \/ ListFails
                \/ \E x \in Res : Create(x) \/ Exit(x)
  PROVE  Shape'
<1>1. CASE Tick
  <2>1. age' \in [Res -> 0..MaxAge]
    BY <1>1 DEF Shape, Tick, Aged, Least, MaxAge
  <2>2. CASE Scans
    <3>1. pass \in Passing
      BY <2>2, PassUnderWay DEF Shape, Scans
    <3>2. pass.late + 1 \in 0..MaxLate
      BY <1>1, <2>2, <3>1 DEF Tick, Passing
    <3>3. pass' \in Passing /\ pass'.old = pass.old /\ pass'.seen = pass.seen /\ pass'.by = pass.by
      BY <1>1, <2>2, <3>1, <3>2 DEF Tick, Passing
    <3> QED
      BY <1>1, <2>1, <3>1, <3>3, PassUnderWay DEF Tick, Shape
  <2>3. CASE ~Scans
    BY <1>1, <2>1, <2>3 DEF Tick, Shape
  <2> QED
    BY <2>2, <2>3
<1>2. CASE Crash \/ ListFails
  <2>1. faults' \in 0..MaxFaults
    BY <1>2 DEF Crash, ListFails, Fault, Shape
  <2> QED
    BY <1>2, <2>1 DEF Crash, Lost, ListFails, PassOver, Shape, Looping
<1>3. ASSUME NEW x \in Res, Create(x) \/ Exit(x)
      PROVE  Shape'
  BY <1>3 DEF Create, Exit, Shape
<1> QED
  BY <1>1, <1>2, <1>3

\* Teardowns and the decision to clean up keep the shape.
LEMMA LoopShape ==
  ASSUME Shape, Cycle \/ Maintain \/ \E r \in Runner : BeginTeardown(r)
  PROVE  Shape'
<1>1. ASSUME NEW r \in Runner, BeginTeardown(r)
      PROVE  Shape'
  BY <1>1 DEF BeginTeardown, Shape, Looping, Teardowns, Resting
<1>2. CASE Maintain
  BY <1>2 DEF Maintain, Shape, Looping, Resting
<1>3. CASE Cycle
  <2>1. loop \in [op : Teardowns, of : Own] /\ loop.of \in Runner
    BY <1>3 DEF Cycle, GetContainer, StopContainer, RemoveSiblings, RemoveNetworks, RemoveVolumes,
                RemoveOwned, RemoveContainer, Teardown, Shape, Looping, Resting
  <2>2. pass = NoPass \/ pass.by # "loop"
    BY <2>1 DEF Shape, Teardowns
  <2>3. SUFFICES /\ docker' \in [Res -> {"unborn", "up", "down", "gone"}]
                 /\ \A x \in Res : docker'[x] = "down" => IsContainer(x)
                 /\ loop' \in Looping
                 /\ archived' \subseteq Own
                 /\ faults' \in 0..MaxFaults
    BY <1>3, <2>2 DEF Cycle, GetContainer, StopContainer, RemoveSiblings, RemoveNetworks,
                      RemoveVolumes, RemoveOwned, RemoveContainer, Shape
  <2>4. \A op \in Teardowns : Proceed(op) => loop' \in Looping
    BY <2>1 DEF Proceed, Looping
  <2>5. ASSUME NEW X, Gone(X)
        PROVE  /\ docker' \in [Res -> {"unborn", "up", "down", "gone"}]
               /\ \A x \in Res : docker'[x] = "down" => IsContainer(x)
    BY <2>5 DEF Gone, Shape
  <2>6. Fault => faults' \in 0..MaxFaults
    BY DEF Fault, Shape
  <2>7. CASE GetContainer
    <3>1. loop' \in Looping
      BY <2>4, <2>7 DEF GetContainer, Teardowns, Looping
    <3>2. archived' \subseteq Own
      BY <2>1, <2>7 DEF GetContainer, Shape
    <3>3. faults' \in 0..MaxFaults
      BY <2>6, <2>7 DEF GetContainer, Shape
    <3> QED
      BY <2>7, <3>1, <3>2, <3>3 DEF GetContainer, Shape
  <2>8. CASE StopContainer
    <3>1. docker' = docker \/ docker' = [docker EXCEPT ![Container(loop.of)] = IF @ = "up" THEN "down" ELSE @]
      BY <2>8 DEF StopContainer
    <3>2. /\ docker' \in [Res -> {"unborn", "up", "down", "gone"}]
          /\ \A x \in Res : docker'[x] = "down" => IsContainer(x)
      BY <2>1, <3>1, ContainerIsResource DEF Shape
    <3>3. loop' \in Looping
      BY <2>4, <2>8 DEF StopContainer, Teardowns
    <3>4. archived' \subseteq Own /\ faults' \in 0..MaxFaults
      BY <2>6, <2>8 DEF StopContainer, Shape
    <3> QED
      BY <3>2, <3>3, <3>4
  <2>9. ASSUME NEW op, NEW kind, NEW next \in Teardowns, RemoveOwned(op, kind, next)
        PROVE  /\ docker' \in [Res -> {"unborn", "up", "down", "gone"}]
               /\ \A x \in Res : docker'[x] = "down" => IsContainer(x)
               /\ loop' \in Looping
               /\ archived' \subseteq Own
               /\ faults' \in 0..MaxFaults
    <3>1. loop' \in Looping
      BY <2>4, <2>9 DEF RemoveOwned, Teardowns
    <3>2. archived' \subseteq Own /\ faults' \in 0..MaxFaults
      BY <2>6, <2>9 DEF RemoveOwned, Shape
    <3>3. (\E X : Gone(X)) \/ docker' = docker
      BY <2>9 DEF RemoveOwned
    <3> QED
      BY <2>5, <3>1, <3>2, <3>3 DEF Shape
  <2>10. CASE RemoveSiblings \/ RemoveNetworks \/ RemoveVolumes
    BY <2>9, <2>10 DEF RemoveSiblings, RemoveNetworks, RemoveVolumes, Teardowns
  <2>11. CASE RemoveContainer
    <3>1. (\E X : Gone(X)) \/ docker' = docker
      BY <2>11 DEF RemoveContainer
    <3> QED
      BY <2>5, <2>6, <2>11, <3>1 DEF RemoveContainer, Shape, Looping
  <2> QED
    BY <1>3, <2>7, <2>8, <2>10, <2>11 DEF Cycle
<1> QED
  BY <1>1, <1>2, <1>3

\* A cleanup keeps the shape.
LEMMA PassShape ==
  ASSUME Shape, Cleaning \/ \E by \in {"loop", "api"} : BeginPass(by)
  PROVE  Shape'
<1>1. ASSUME NEW by \in {"loop", "api"}, BeginPass(by)
      PROVE  Shape'
  <2>1. pass' \in Passing /\ pass'.by = by /\ pass'.old = {} /\ pass'.seen = {}
    BY <1>1 DEF BeginPass, Passing
  <2>2. by = "loop" => loop = [op |-> "maintain"]
    BY <1>1 DEF BeginPass, Shape, Looping, Resting, Teardowns
  <2> QED
    BY <1>1, <2>1, <2>2 DEF BeginPass, Shape
<1>2. ASSUME NEW step, NEW kinds, NEW next \in {"networks", "volumes", "choose"},
             NEW active \in SUBSET Own, step # "none", Scan(step, kinds, next, active)
      PROVE  Shape'
  <2>1. pass \in Passing
    BY <1>2, PassUnderWay DEF Scan, Shape
  <2>2. Listed(kinds) \subseteq Res /\ {x \in Listed(kinds) : Old(x, pass.late)} \subseteq Listed(kinds)
    BY DEF Listed, Present
  <2>3. /\ pass' \in Passing /\ pass'.by = pass.by
        /\ pass'.seen = pass.seen \cup Listed(kinds)
        /\ pass'.old = pass.old \cup {x \in Listed(kinds) : Old(x, pass.late)}
    BY <1>2, <2>1, <2>2 DEF Scan, Passing
  <2> QED
    BY <1>2, <2>1, <2>2, <2>3, PassUnderWay DEF Scan, Shape
<1>3. CASE ScanContainers \/ ScanNetworks \/ ScanVolumes
  <2>1. ActiveNow \in SUBSET Own
    BY DEF ActiveNow
  <2>2. pass.step # "none" => pass.active \in SUBSET Own
    BY PassUnderWay DEF Shape, Passing
  <2> QED
    BY <1>2, <1>3, <2>1, <2>2 DEF ScanContainers, ScanNetworks, ScanVolumes, Scan
<1>4. CASE Choose
  <2>1. pass \in Passing
    BY <1>4, PassUnderWay DEF Choose, Shape
  <2>2. Eligible \subseteq Res
    BY <2>1 DEF Eligible, Records, Passing
  <2>3. PICK keys \in SUBSET Eligible :
          /\ pass' = [pass EXCEPT !.step = "remove", !.late = 0, !.active = {}, !.seen = {},
                                  !.old = {}, !.todo = keys, !.targets = keys]
          /\ faults' = faults \/ Fault
    BY <1>4 DEF Choose
  <2>4. pass' \in Passing /\ pass'.by = pass.by /\ pass'.old = {}
    <3>1. pass' = [by |-> pass.by, step |-> "remove", late |-> 0, active |-> {}, seen |-> {},
                   old |-> {}, todo |-> keys, targets |-> keys, left |-> pass.left]
      BY <2>1, <2>3 DEF Passing
    <3>2. pass.by \in {"loop", "api"} /\ pass.left \in SUBSET Res /\ keys \in SUBSET Res
      BY <2>1, <2>2 DEF Passing
    <3> QED
      BY <3>1, <3>2 DEF Passing
  <2>5. faults' \in 0..MaxFaults
    BY <2>3 DEF Fault, Shape
  <2> QED
    BY <1>4, <2>1, <2>4, <2>5, PassUnderWay DEF Choose, Shape
<1>5. ASSUME NEW x \in Res, RemoveTarget(x)
      PROVE  Shape'
  <2>1. pass \in Passing
    BY <1>5, PassUnderWay DEF RemoveTarget, Shape
  <2>2. pass' \in Passing /\ pass'.by = pass.by /\ pass'.old = pass.old /\ pass'.seen = pass.seen
    <3>1. \/ pass' = [pass EXCEPT !.todo = @ \ {x}]
          \/ pass' = [pass EXCEPT !.todo = @ \ {x}, !.left = @ \cup {x}]
          \/ pass' = [pass EXCEPT !.todo = @ \ {x}, !.targets = @ \ {x}]
      BY <1>5 DEF RemoveTarget
    <3>2. /\ pass.todo \ {x} \in SUBSET Res /\ pass.left \cup {x} \in SUBSET Res
          /\ pass.targets \ {x} \in SUBSET Res
      BY <2>1 DEF Passing
    <3> QED
      BY <2>1, <3>1, <3>2 DEF Passing
  <2>3. docker' \in [Res -> {"unborn", "up", "down", "gone"}] /\ \A y \in Res : docker'[y] = "down" => IsContainer(y)
    BY <1>5 DEF RemoveTarget, Gone, Shape
  <2>4. faults' \in 0..MaxFaults
    BY <1>5 DEF RemoveTarget, Fault, Shape
  <2> QED
    BY <1>5, <2>1, <2>2, <2>3, <2>4, PassUnderWay DEF RemoveTarget, Shape
<1>6. CASE EndPass
  BY <1>6 DEF EndPass, PassOver, Shape, Looping
<1> QED
  BY <1>1, <1>3, <1>4, <1>5, <1>6 DEF Cleaning

LEMMA ShapeStep == Shape /\ [Next]_vars => Shape'
<1> SUFFICES ASSUME Shape, [Next]_vars PROVE Shape'
  OBVIOUS
<1>1. CASE UNCHANGED vars
  BY <1>1 DEF Shape, vars
<1>2. CASE Next
  BY <1>2, HostShape, LoopShape, PassShape DEF Next
<1> QED
  BY <1>1, <1>2

LEMMA ShapeImpliesTypes == Shape => TypeOK
<1> SUFFICES ASSUME Shape PROVE TypeOK
  OBVIOUS
<1>1. loop = Resting \/ loop.op = "maintain" \/ loop.of \in Own
  BY DEF Shape, Looping
<1>2. pass # NoPass => /\ pass.todo \cup pass.left \subseteq Res
                       /\ pass.seen \subseteq Res
                       /\ pass.active \subseteq Own /\ pass.late \in 0..MaxLate
  BY DEF Shape, Passing
<1>3. pass # NoPass => /\ pass.old \subseteq pass.seen
                       /\ pass.by = "loop" => loop.op = "maintain"
  BY DEF Shape
<1> QED
  BY <1>1, <1>2, <1>3 DEF Shape, TypeOK

\* Every reachable state is type correct.
THEOREM TypesHold == Spec => []TypeOK
<1>1. Spec => []Shape
  BY InitShape, ShapeStep, PTL DEF Spec
<1> QED
  BY <1>1, ShapeImpliesTypes, PTL
---------------------------------------------------------------------------
(* What belongs to a runner that runs is spared *)

Ended(r) == docker[Container(r)] \in {"down", "gone"}
Unborn(r) == docker[Container(r)] = "unborn"

\* A job creates resources only while its runner runs, and what does not exist has
\* no age.
BornAfterRunner ==
  /\ \A x \in Res : Unborn(x.of) => docker[x] = "unborn"
  /\ \A x \in Res : docker[x] = "unborn" => age[x] = 0

\* Between the list of containers and the last list: the resources of a runner that
\* was not active and has not ended are no older than the inventory.
Newcomers ==
  pass.step \in {"networks", "volumes"} =>
    \A x \in Res : x.of \in Own \ pass.active /\ ~Ended(x.of) => age[x] <= pass.late

\* So what is old enough to go, of an owner that was not active, is of one that ended.
OldOfEnded ==
  pass.step \in {"networks", "volumes", "choose"} =>
    \A x \in pass.old : x.of \in Own \ pass.active => Ended(x.of)
TargetsOfEnded ==
  pass.step = "remove" => \A x \in pass.todo : Ended(x.of)

Fresh ==
  /\ pass.step = "containers" => pass.old = {}
  /\ pass.step \in {"containers", "networks", "volumes", "choose"} => pass.left = {}

Safe == Shape /\ BornAfterRunner /\ Newcomers /\ OldOfEnded /\ TargetsOfEnded /\ Fresh

LEMMA InitSafe == Init => Safe
<1> SUFFICES ASSUME Init PROVE Safe
  OBVIOUS
<1> QED
  BY InitShape DEF Init, Safe, BornAfterRunner, Newcomers, OldOfEnded, TargetsOfEnded, Fresh, NoPass

\* A runner that ended stays so, and no container is born but by its creation.
LEMMA EndedStays ==
  ASSUME Shape, [Next]_vars
  PROVE  /\ \A r \in Runner : Ended(r) => Ended(r)'
         /\ \A x \in Res : docker[x] # "unborn" => docker'[x] # "unborn"
<1>1. \A X : Gone(X) => /\ \A r \in Runner : Ended(r) => Ended(r)'
                        /\ \A x \in Res : docker[x] # "unborn" => docker'[x] # "unborn"
  BY ContainerIsResource DEF Gone, Ended
<1>2. docker' = docker => /\ \A r \in Runner : Ended(r) => Ended(r)'
                          /\ \A x \in Res : docker[x] # "unborn" => docker'[x] # "unborn"
  BY DEF Ended
<1>3. ASSUME NEW x \in Res, Create(x) \/ Exit(x)
      PROVE  /\ \A r \in Runner : Ended(r) => Ended(r)'
             /\ \A y \in Res : docker[y] # "unborn" => docker'[y] # "unborn"
  BY <1>3, ContainerIsResource DEF Create, Exit, Ended, Shape
<1>4. ASSUME StopContainer
      PROVE  /\ \A r \in Runner : Ended(r) => Ended(r)'
             /\ \A y \in Res : docker[y] # "unborn" => docker'[y] # "unborn"
  <2>1. \/ docker' = docker
        \/ docker' = [docker EXCEPT ![Container(loop.of)] = IF @ = "up" THEN "down" ELSE @]
    BY <1>4 DEF StopContainer
  <2> QED
    BY <2>1, ContainerIsResource DEF Ended, Shape
<1>5. Cycle => StopContainer \/ docker' = docker \/ \E X : Gone(X)
  BY DEF Cycle, GetContainer, RemoveSiblings, RemoveNetworks, RemoveVolumes, RemoveOwned, RemoveContainer
<1>6. Cleaning => docker' = docker \/ \E X : Gone(X)
  BY DEF Cleaning, ScanContainers, ScanNetworks, ScanVolumes, Scan, Choose, EndPass, RemoveTarget
<1>7. CASE Next
  <2>1. Tick \/ Crash \/ ListFails \/ Maintain \/ (\E r \in Runner : BeginTeardown(r))
          \/ (\E by \in {"loop", "api"} : BeginPass(by)) => docker' = docker
    BY DEF Tick, Crash, ListFails, Maintain, BeginTeardown, BeginPass
  <2> QED
    BY <1>1, <1>2, <1>3, <1>4, <1>5, <1>6, <1>7, <2>1 DEF Next
<1>8. CASE UNCHANGED vars
  BY <1>2, <1>8 DEF vars
<1> QED
  BY <1>7, <1>8

\* What comes to be known was created, or removed before.
LEMMA Births ==
  ASSUME Shape, [Next]_vars, NEW x \in Res, docker[x] = "unborn", docker'[x] # "unborn"
  PROVE  \/ Create(x)
         \/ x = Container(loop.of) /\ loop.of \in Runner
         \/ RemoveTarget(x)
<1>1. ASSUME NEW X, Gone(X)
      PROVE  x \in X
  BY <1>1 DEF Gone
<1>2. ASSUME NEW y \in Res, Create(y) \/ Exit(y)
      PROVE  Create(x)
  BY <1>2 DEF Create, Exit, Shape
<1>3. ASSUME NEW y \in Res, RemoveTarget(y)
      PROVE  RemoveTarget(x)
  BY <1>1, <1>3 DEF RemoveTarget
<1>4. ~StopContainer
  BY DEF StopContainer, Shape
<1>5. ASSUME NEW op, NEW kind, NEW next
      PROVE  ~RemoveOwned(op, kind, next)
  BY <1>1 DEF RemoveOwned, Present
<1>6. RemoveContainer => x = Container(loop.of) /\ loop.of \in Runner
  <2> SUFFICES ASSUME RemoveContainer PROVE x = Container(loop.of) /\ loop.of \in Runner
    OBVIOUS
  <2>1. x = Container(loop.of)
    BY <1>1 DEF RemoveContainer
  <2>2. loop.of \in Own
    BY DEF RemoveContainer, Teardown, Shape, Looping, Resting
  <2> QED
    BY <2>1, <2>2
<1>7. docker' # docker
  OBVIOUS
<1>8. ~(Tick \/ Crash \/ ListFails \/ Maintain \/ (\E r \in Runner : BeginTeardown(r))
          \/ (\E by \in {"loop", "api"} : BeginPass(by)))
  BY <1>7 DEF Tick, Crash, ListFails, Maintain, BeginTeardown, BeginPass
<1>9. Cycle => RemoveContainer
  BY <1>4, <1>5, <1>7 DEF Cycle, GetContainer, RemoveSiblings, RemoveNetworks, RemoveVolumes
<1>10. Cleaning => \E y \in Res : RemoveTarget(y)
  BY <1>7 DEF Cleaning, ScanContainers, ScanNetworks, ScanVolumes, Scan, Choose, EndPass
<1>11. ~UNCHANGED vars
  BY <1>7 DEF vars
<1> QED
  BY <1>2, <1>3, <1>6, <1>8, <1>9, <1>10, <1>11 DEF Next

LEMMA BornStep ==
  ASSUME Safe, [Next]_vars
  PROVE  BornAfterRunner'
<1>1. ASSUME NEW x \in Res, docker'[x] # "unborn"
      PROVE  ~Unborn(x.of)'
  <2>1. ~Unborn(x.of) => ~Unborn(x.of)'
    BY EndedStays, ContainerIsResource, OwnerIsRunner DEF Safe, Unborn
  <2>2. Ended(x.of) => ~Unborn(x.of)
    BY DEF Ended, Unborn
  <2>3. CASE docker[x] # "unborn"
    <3>1. ~Unborn(x.of)
      BY <2>3 DEF Safe, BornAfterRunner
    <3> QED
      BY <2>1, <3>1
  <2>4. CASE docker[x] = "unborn"
    <3>1. x.kind = "runner" => x = Container(x.of)
      BY DEF Container, Res
    <3>2. CASE Create(x)
      BY <1>1, <2>1, <3>1, <3>2 DEF Create, RunsNow, Unborn
    <3>3. CASE x = Container(loop.of) /\ loop.of \in Runner
      BY <1>1, <3>3, ContainerIsResource DEF Unborn
    <3>4. CASE RemoveTarget(x)
      BY <2>1, <2>2, <3>4 DEF RemoveTarget, Safe, TargetsOfEnded
    <3> QED
      BY <1>1, <2>4, <3>2, <3>3, <3>4, Births DEF Safe
  <2> QED
    BY <2>3, <2>4
<1>2. ASSUME NEW x \in Res, docker'[x] = "unborn"
      PROVE  age'[x] = 0
  <2>1. docker[x] = "unborn" /\ age[x] = 0
    BY <1>2, EndedStays DEF Safe, BornAfterRunner
  <2>2. CASE Tick
    BY <2>1, <2>2 DEF Tick, Aged, Present
  <2>3. ~Tick => age' = age
    BY DEF Next, vars, Crash, ListFails, Cycle, GetContainer, StopContainer, RemoveSiblings, RemoveNetworks,
           RemoveVolumes, RemoveOwned, RemoveContainer, Maintain, Cleaning, ScanContainers,
           ScanNetworks, ScanVolumes, Scan, Choose, EndPass, RemoveTarget, Create, Exit,
           BeginTeardown, BeginPass
  <2> QED
    BY <2>1, <2>2, <2>3
<1> QED
  BY <1>1, <1>2 DEF BornAfterRunner

\* What the lists say of owners stays true while the inventory goes on.
LEMMA NewcomersStep ==
  ASSUME Safe, [Next]_vars
  PROVE  Newcomers'
<1> SUFFICES ASSUME pass'.step \in {"networks", "volumes"},
                    NEW x \in Res, x.of \in Own \ pass'.active, ~Ended(x.of)'
             PROVE  age'[x] <= pass'.late
  BY DEF Newcomers
<1>1. ~Ended(x.of) /\ x.of \in Runner
  BY EndedStays, OwnerIsRunner DEF Safe
<1>2. age[x] \in Nat /\ age \in [Res -> Nat]
  BY DEF Safe, Shape, MaxAge
<1>3. CASE Tick
  <2>1. pass.step \in {"networks", "volumes"} /\ pass.active = pass'.active /\ pass \in Passing
    BY <1>3, PassUnderWay DEF Tick, Safe, Shape, Passing
  <2>2. age[x] <= pass.late
    BY <1>1, <2>1 DEF Safe, Newcomers
  <2>3. pass'.late = pass.late + 1 /\ pass.late \in Nat
    BY <1>3, <2>1 DEF Tick, Scans, Passing
  <2>4. age'[x] <= age[x] + 1 /\ age'[x] \in Nat
    BY <1>2, <1>3 DEF Tick, Aged, Least, MaxAge
  <2> QED
    BY <1>2, <2>2, <2>3, <2>4
<1>4. CASE ScanContainers
  <2>1. /\ pass'.active = ActiveNow /\ pass'.late = pass.late /\ pass.late \in Nat
        /\ age' = age /\ docker' = docker
    BY <1>4, PassUnderWay DEF ScanContainers, Scan, Safe, Shape, Passing
  <2>2. Unborn(x.of)
    <3>1. ~RunsNow(x.of)
      BY <2>1 DEF ActiveNow
    <3>2. docker[Container(x.of)] \in {"unborn", "up", "down", "gone"}
      BY <1>1, ContainerIsResource DEF Safe, Shape
    <3> QED
      BY <1>1, <3>1, <3>2 DEF RunsNow, Ended, Unborn
  <2>3. age[x] = 0
    BY <2>2 DEF Safe, BornAfterRunner
  <2> QED
    BY <2>1, <2>3
<1>5. CASE ~Tick /\ ~ScanContainers
  <2>1. /\ age' = age /\ pass'.late = pass.late /\ pass'.active = pass.active
        /\ pass.step \in {"networks", "volumes"}
    <3>1. CASE ScanNetworks \/ ScanVolumes
      BY <3>1, PassUnderWay DEF ScanNetworks, ScanVolumes, Scan, Safe, Shape, Passing
    <3>2. CASE pass' = pass /\ age' = age
      BY <3>2
    <3>3. ASSUME NEW y \in Res, RemoveTarget(y) PROVE FALSE
      <4>1. pass \in Passing /\ pass.step = "remove"
        BY <3>3, PassUnderWay DEF RemoveTarget, Safe, Shape
      <4> QED
        BY <3>3, <4>1 DEF RemoveTarget, Passing
    <3>4. CASE Choose
      <4>1. pass \in Passing
        BY <3>4, PassUnderWay DEF Choose, Safe, Shape
      <4> QED
        BY <3>4, <4>1 DEF Choose, Passing
    <3>5. ASSUME NEW by \in {"loop", "api"}, BeginPass(by) PROVE FALSE
      BY <3>5 DEF BeginPass
    <3>6. ~Crash /\ ~EndPass /\ ~ListFails
      BY DEF Crash, Lost, EndPass, ListFails, PassOver, NoPass
    <3>7. Cycle \/ Maintain \/ (\E y \in Res : Create(y) \/ Exit(y))
            \/ (\E r \in Runner : BeginTeardown(r)) \/ UNCHANGED vars
            => pass' = pass /\ age' = age
      BY DEF vars, Cycle, GetContainer, StopContainer, RemoveSiblings, RemoveNetworks,
             RemoveVolumes, RemoveOwned, RemoveContainer, Maintain, Create, Exit, BeginTeardown
    <3> QED
      BY <1>5, <3>1, <3>2, <3>3, <3>4, <3>5, <3>6, <3>7 DEF Next, Cleaning
  <2> QED
    BY <1>1, <2>1 DEF Safe, Newcomers
<1> QED
  BY <1>3, <1>4, <1>5
\* Which steps touch the cleanup under way.
LEMMA PassSteps ==
  ASSUME [Next]_vars
  PROVE  \/ pass' \in {pass, NoPass}
         \/ Tick \/ ScanContainers \/ ScanNetworks \/ ScanVolumes \/ Choose
         \/ \E by \in {"loop", "api"} : BeginPass(by)
         \/ \E x \in Res : RemoveTarget(x)
<1>1. Crash \/ EndPass \/ ListFails => pass' = NoPass
  BY DEF Crash, Lost, EndPass, ListFails, PassOver
<1>2. Cycle \/ Maintain \/ (\E y \in Res : Create(y) \/ Exit(y))
        \/ (\E r \in Runner : BeginTeardown(r)) \/ UNCHANGED vars
        => pass' = pass
  BY DEF vars, Cycle, GetContainer, StopContainer, RemoveSiblings, RemoveNetworks,
         RemoveVolumes, RemoveOwned, RemoveContainer, Maintain, Create, Exit, BeginTeardown
<1> QED
  BY <1>1, <1>2 DEF Next, Cleaning

\* What each of them makes of it.
LEMMA TickFields ==
  ASSUME Shape, Tick, pass # NoPass
  PROVE  /\ pass \in Passing
         /\ pass' = pass \/ pass' = [pass EXCEPT !.late = @ + 1]
BY PassUnderWay DEF Tick, Shape

LEMMA BeginFields ==
  ASSUME NEW by, BeginPass(by)
  PROVE  pass'.step = "containers" /\ pass'.old = {} /\ pass'.left = {} /\ docker' = docker
BY DEF BeginPass

LEMMA ScanFields ==
  ASSUME Shape, NEW step, NEW kinds, NEW next, NEW active,
         Scan(step, kinds, next, active), step # "none"
  PROVE  /\ pass \in Passing /\ pass.step = step /\ pass'.step = next
         /\ pass'.active = active /\ pass'.left = pass.left
         /\ pass'.old = pass.old \cup {x \in Listed(kinds) : Old(x, pass.late)}
         /\ docker' = docker
<1>1. pass \in Passing
  BY PassUnderWay DEF Scan, Shape
<1> DEFINE fresh == {x \in Listed(kinds) : Old(x, pass.late)}
<1>2. pass' = [pass EXCEPT !.step = next, !.active = active,
                           !.seen = @ \cup Listed(kinds), !.old = @ \cup fresh]
  BY DEF Scan
<1> HIDE DEF fresh
<1>3. /\ pass'.step = next /\ pass'.active = active /\ pass'.left = pass.left
      /\ pass'.old = pass.old \cup fresh
  BY <1>1, <1>2 DEF Passing
<1> QED
  BY <1>1, <1>3 DEF Scan, fresh

LEMMA ChooseFields ==
  ASSUME Shape, Choose
  PROVE  /\ pass \in Passing /\ pass.step = "choose" /\ pass'.step = "remove"
         /\ pass'.left = pass.left
         /\ pass'.todo \subseteq Eligible /\ pass'.targets = pass'.todo
         /\ docker' = docker
<1>1. pass \in Passing
  BY PassUnderWay DEF Choose, Shape
<1>2. PICK keys \in SUBSET Eligible :
        pass' = [pass EXCEPT !.step = "remove", !.late = 0, !.active = {}, !.seen = {},
                             !.old = {}, !.todo = keys, !.targets = keys]
  BY DEF Choose
<1>3. /\ pass'.step = "remove" /\ pass'.left = pass.left
      /\ pass'.todo = keys /\ pass'.targets = keys
  BY <1>1, <1>2 DEF Passing
<1> QED
  BY <1>1, <1>3 DEF Choose

\* A target that is done is removed, left because it is held, or given up.
LEMMA TargetFields ==
  ASSUME Shape, NEW x \in Res, RemoveTarget(x)
  PROVE  /\ pass \in Passing /\ pass.step = "remove" /\ pass'.step = "remove"
         /\ pass'.todo = pass.todo \ {x}
         /\ \/ pass'.left = pass.left /\ pass'.targets = pass.targets /\ Gone({x})
               /\ (x \notin Present \/ ~InUse(x))
            \/ /\ pass'.left = pass.left \cup {x} /\ pass'.targets = pass.targets
               /\ docker' = docker /\ InUse(x)
            \/ /\ pass'.left = pass.left /\ pass'.targets = pass.targets \ {x}
               /\ docker' = docker
<1>1. pass \in Passing /\ pass.step = "remove"
  BY PassUnderWay DEF RemoveTarget, Shape
<1> QED
  BY <1>1 DEF RemoveTarget, Passing

LEMMA FreshStep ==
  ASSUME Shape, Fresh, [Next]_vars
  PROVE  Fresh'
<1>1. CASE pass' \in {pass, NoPass}
  BY <1>1 DEF Fresh, NoPass
<1>2. CASE Tick
  <2>1. CASE pass = NoPass
    BY <1>2, <2>1 DEF Tick, Scans, NoPass, Fresh
  <2>2. CASE pass # NoPass
    BY <1>2, <2>2, TickFields DEF Fresh, Passing
  <2> QED
    BY <2>1, <2>2
<1>3. CASE ScanContainers \/ ScanNetworks \/ ScanVolumes
  <2>1. /\ pass'.left = pass.left /\ pass.step \in {"containers", "networks", "volumes"}
        /\ pass'.step # "containers"
    BY <1>3, ScanFields DEF ScanContainers, ScanNetworks, ScanVolumes
  <2> QED
    BY <2>1 DEF Fresh
<1>4. CASE Choose
  BY <1>4, ChooseFields DEF Fresh
<1>5. CASE \E by \in {"loop", "api"} : BeginPass(by)
  BY <1>5, BeginFields DEF Fresh
<1>6. CASE \E x \in Res : RemoveTarget(x)
  BY <1>6, TargetFields DEF Fresh
<1> QED
  BY <1>1, <1>2, <1>3, <1>4, <1>5, <1>6, PassSteps

\* Only what belongs to runners that ended gets old unclaimed.
LEMMA OldOfEndedStep ==
  ASSUME Safe, [Next]_vars
  PROVE  OldOfEnded'
<1> SUFFICES ASSUME pass'.step \in {"networks", "volumes", "choose"},
                    NEW x \in pass'.old, x.of \in Own \ pass'.active
             PROVE  Ended(x.of)'
  BY DEF OldOfEnded
<1> USE DEF Safe
<1>1. x.of \in Runner /\ (Ended(x.of) => Ended(x.of)')
  BY EndedStays
<1>2. CASE pass' \in {pass, NoPass}
  BY <1>1, <1>2 DEF OldOfEnded, NoPass
<1>3. CASE Tick
  <2>1. pass # NoPass
    BY <1>3 DEF Tick, Scans, NoPass
  <2>2. pass'.step = pass.step /\ pass'.old = pass.old /\ pass'.active = pass.active
    BY <1>3, <2>1, TickFields DEF Passing
  <2> QED
    BY <1>1, <2>2 DEF OldOfEnded
<1>4. ASSUME x \in Present, Old(x, pass.late), x \in Res, pass \in Passing, ~Ended(x.of)
      PROVE  age[x] > pass.late
  BY <1>4 DEF Old, Shape, MaxAge, Passing
<1>5. CASE ScanContainers
  <2>1. /\ pass \in Passing /\ pass.step = "containers" /\ pass'.active = ActiveNow
        /\ pass'.old = pass.old \cup {y \in Listed({"runner", "sibling"}) : Old(y, pass.late)}
        /\ docker' = docker
    BY <1>5, ScanFields DEF ScanContainers
  <2>2. x \in Present
    BY <2>1 DEF Fresh, Listed
  <2>3. ~Unborn(x.of)
    BY <2>2 DEF Present, BornAfterRunner
  <2>4. ~RunsNow(x.of)
    BY <2>1 DEF ActiveNow
  <2>5. docker[Container(x.of)] \in {"unborn", "up", "down", "gone"}
    BY <1>1, ContainerIsResource DEF Shape
  <2> QED
    BY <1>1, <2>3, <2>4, <2>5 DEF Unborn, RunsNow, Ended
<1>6. ASSUME NEW kinds, NEW step \in {"networks", "volumes"}, NEW next,
             Scan(step, kinds, next, pass.active)
      PROVE  Ended(x.of)'
  <2>1. /\ pass \in Passing /\ pass.step = step /\ pass'.active = pass.active
        /\ pass'.old = pass.old \cup {y \in Listed(kinds) : Old(y, pass.late)}
    BY <1>6, ScanFields
  <2>2. CASE x \in pass.old
    BY <1>1, <2>1, <2>2 DEF OldOfEnded
  <2>3. CASE x \in Present /\ Old(x, pass.late)
    <3> SUFFICES ASSUME ~Ended(x.of) PROVE FALSE
      BY <1>1
    <3>1. age[x] > pass.late
      BY <1>4, <2>1, <2>3 DEF Present
    <3>2. age[x] <= pass.late
      BY <2>1, <2>3 DEF Newcomers, Present
    <3> QED
      BY <2>1, <2>3, <3>1, <3>2 DEF Shape, Present, Passing, MaxAge
  <2> QED
    BY <2>1, <2>2, <2>3 DEF Listed
<1>7. CASE ScanNetworks \/ ScanVolumes
  BY <1>6, <1>7 DEF ScanNetworks, ScanVolumes
<1>8. CASE Choose
  BY <1>8, ChooseFields
<1>9. CASE \E by \in {"loop", "api"} : BeginPass(by)
  BY <1>9, BeginFields
<1>10. CASE \E y \in Res : RemoveTarget(y)
  BY <1>10, TargetFields
<1> QED
  BY <1>2, <1>3, <1>5, <1>7, <1>8, <1>9, <1>10, PassSteps

\* So every target is of a runner that ended.
LEMMA TargetsOfEndedStep ==
  ASSUME Prefixed = {}, Safe, [Next]_vars
  PROVE  TargetsOfEnded'
<1> SUFFICES ASSUME pass'.step = "remove", NEW x \in pass'.todo
             PROVE  Ended(x.of)'
  BY DEF TargetsOfEnded
<1> USE DEF Safe
<1>1. \A r \in Runner : Ended(r) => Ended(r)'
  BY EndedStays
<1>2. ASSUME pass.step = "remove", x \in pass.todo
      PROVE  Ended(x.of)'
  <2>1. x \in Res
    BY <1>2, PassUnderWay DEF Shape, Passing
  <2> QED
    BY <1>1, <1>2, <2>1, OwnerIsRunner DEF TargetsOfEnded
<1>3. CASE pass' \in {pass, NoPass}
  BY <1>2, <1>3 DEF NoPass
<1>4. CASE Tick
  <2>1. pass # NoPass
    BY <1>4 DEF Tick, Scans, NoPass
  <2>2. pass'.step = pass.step /\ pass'.todo = pass.todo
    BY <1>4, <2>1, TickFields DEF Passing
  <2> QED
    BY <1>2, <2>2
<1>5. CASE ScanContainers \/ ScanNetworks \/ ScanVolumes
  BY <1>5, ScanFields DEF ScanContainers, ScanNetworks, ScanVolumes
<1>6. CASE Choose
  <2>1. pass.step = "choose" /\ x \in pass.old /\ x.of \in Own \ pass.active
    BY <1>6, ChooseFields DEF Eligible, Records, Claims
  <2> QED
    BY <1>1, <2>1 DEF OldOfEnded
<1>7. CASE \E by \in {"loop", "api"} : BeginPass(by)
  BY <1>7, BeginFields
<1>8. CASE \E y \in Res : RemoveTarget(y)
  BY <1>2, <1>8, TargetFields
<1> QED
  BY <1>3, <1>4, <1>5, <1>6, <1>7, <1>8, PassSteps

LEMMA SafeStep == Prefixed = {} /\ Safe /\ [Next]_vars => Safe'
BY ShapeStep, BornStep, NewcomersStep, OldOfEndedStep, TargetsOfEndedStep, FreshStep DEF Safe

\* What a safe step removes, it removes of a runner that ended or is torn down.
LEMMA RemovalSpares ==
  ASSUME Safe, [Next]_vars, NEW x \in Res, x \in Present, docker'[x] = "gone", RunsNow(x.of)
  PROVE  loop.op # "maintain" /\ loop # Resting /\ loop.of = x.of
<1> USE DEF Safe
<1>1. ASSUME NEW X, Gone(X)
      PROVE  x \in X
  BY <1>1 DEF Gone, Present
<1>2. docker[x] \in {"up", "down"} /\ docker[x] # "gone"
  BY DEF Present
<1>3. docker' # docker
  BY <1>2
<1>4. ASSUME NEW op \in Teardowns, loop.op = op
      PROVE  loop.op # "maintain" /\ loop # Resting
  BY <1>4 DEF Teardowns, Resting
<1>5. ASSUME NEW op \in Teardowns, NEW kind, NEW next, RemoveOwned(op, kind, next)
      PROVE  loop.op # "maintain" /\ loop # Resting /\ loop.of = x.of
  BY <1>1, <1>3, <1>4, <1>5 DEF RemoveOwned, Teardown
<1>6. CASE RemoveSiblings \/ RemoveNetworks \/ RemoveVolumes
  BY <1>5, <1>6 DEF RemoveSiblings, RemoveNetworks, RemoveVolumes, Teardowns
<1>7. CASE RemoveContainer
  <2>1. x = Container(loop.of)
    BY <1>1, <1>3, <1>7 DEF RemoveContainer
  <2> QED
    BY <1>4, <1>7, <2>1 DEF RemoveContainer, Teardown, Teardowns, Container
<1>8. ~StopContainer
  BY <1>2 DEF StopContainer, Shape
<1>9. CASE \E y \in Res : RemoveTarget(y)
  <2>1. PICK y \in Res : RemoveTarget(y)
    BY <1>9
  <2>2. y = x
    BY <1>1, <1>3, <2>1 DEF RemoveTarget
  <2>3. Ended(x.of)
    BY <2>1, <2>2 DEF RemoveTarget, TargetsOfEnded
  <2> QED
    BY <2>3 DEF Ended, RunsNow
<1>10. ASSUME NEW y \in Res PROVE ~(Create(y) \/ Exit(y))
  BY <1>2 DEF Create, Exit, Shape
<1>11. ~(Tick \/ Crash \/ ListFails \/ GetContainer \/ Maintain \/ (\E r \in Runner : BeginTeardown(r))
           \/ (\E by \in {"loop", "api"} : BeginPass(by)) \/ ScanContainers \/ ScanNetworks
           \/ ScanVolumes \/ Choose \/ EndPass \/ UNCHANGED vars)
  BY <1>3 DEF vars, Tick, Crash, ListFails, GetContainer, Maintain, BeginTeardown, BeginPass, ScanContainers,
              ScanNetworks, ScanVolumes, Scan, Choose, EndPass
<1> QED
  BY <1>6, <1>7, <1>8, <1>9, <1>10, <1>11 DEF Next, Cycle, Cleaning

\* While no Compose project of somebody else starts with our prefix, neither the
\* janitor nor a teardown takes anything of another runner that runs.
THEOREM LiveSpared ==
  ASSUME Prefixed = {}
  PROVE  Spec => SparesLive
<1>1. Safe /\ [Next]_vars => Safe'
  BY SafeStep
<1>2. Spec => []Safe
  BY InitSafe, <1>1, PTL DEF Spec
<1>3. Safe /\ [Next]_vars =>
        [\A x \in Res : (x \in Present /\ docker'[x] = "gone" /\ RunsNow(x.of)) =>
           loop.op # "maintain" /\ loop # Resting /\ loop.of = x.of]_vars
  BY RemovalSpares
<1> QED
  BY <1>2, <1>3, PTL DEF Spec, SparesLive
---------------------------------------------------------------------------
(* One pass is enough *)

\* What a pass leaves is no container, and what it is done with is gone or left.
Done ==
  pass.step = "remove" =>
    /\ \A x \in pass.left : x \in Res /\ ~IsContainer(x)
    /\ \A x \in pass.targets \ pass.todo : docker[x] = "gone" \/ x \in pass.left

Tidy == Shape /\ Fresh /\ Done /\ LeftOnlyIfHeld

LEMMA InitTidy == Init => Tidy
BY InitShape DEF Init, Tidy, Fresh, Done, LeftOnlyIfHeld, NoPass

\* What is gone is not created again: runner ids and job projects are used once.
LEMMA GoneStays ==
  ASSUME Shape, [Next]_vars, NEW x \in Res, docker[x] = "gone"
  PROVE  docker'[x] = "gone"
<1>1. \A X : Gone(X) => docker'[x] = "gone"
  BY DEF Gone
<1>2. ASSUME NEW y \in Res, Create(y) \/ Exit(y)
      PROVE  docker'[x] = "gone"
  BY <1>2 DEF Create, Exit, Shape
<1>3. StopContainer => docker'[x] = "gone"
  BY DEF StopContainer, Shape
<1>4. ASSUME NEW y \in Res, RemoveTarget(y)
      PROVE  docker'[x] = "gone"
  BY <1>1, <1>4 DEF RemoveTarget
<1>5. Cycle => StopContainer \/ docker' = docker \/ \E X : Gone(X)
  BY DEF Cycle, GetContainer, RemoveSiblings, RemoveNetworks, RemoveVolumes, RemoveOwned, RemoveContainer
<1>6. Tick \/ Crash \/ ListFails \/ Maintain \/ (\E r \in Runner : BeginTeardown(r))
        \/ (\E by \in {"loop", "api"} : BeginPass(by)) \/ ScanContainers \/ ScanNetworks
        \/ ScanVolumes \/ Choose \/ EndPass \/ UNCHANGED vars
        => docker' = docker
  BY DEF vars, Tick, Crash, ListFails, Maintain, BeginTeardown, BeginPass, ScanContainers, ScanNetworks,
         ScanVolumes, Scan, Choose, EndPass
<1> QED
  BY <1>1, <1>2, <1>3, <1>4, <1>5, <1>6 DEF Next, Cleaning

\* A target that is held is held by a container that is no target: the containers
\* among the targets come first.
LEMMA TargetStep ==
  ASSUME Tidy, NEW x \in Res, RemoveTarget(x), [Next]_vars
  PROVE  Done' /\ LeftOnlyIfHeld'
<1> USE DEF Tidy
<1>1. /\ pass \in Passing /\ pass.step = "remove" /\ pass'.step = "remove"
      /\ pass'.todo = pass.todo \ {x} /\ pass # NoPass
  BY TargetFields, PassUnderWay DEF Shape
<1>2. pass.targets \subseteq Res /\ pass.todo \subseteq Res
  BY <1>1 DEF Passing
<1>3. \A y \in pass.targets \ pass.todo : docker'[y] = "gone" \/ y \in pass.left
  BY <1>1, <1>2, GoneStays DEF Done
<1>4. CASE pass'.left = pass.left /\ pass'.targets = pass.targets /\ Gone({x})
  <2>1. docker'[x] = "gone"
    BY <1>4 DEF Gone
  <2> QED
    BY <1>1, <1>3, <1>4, <2>1 DEF Done, LeftOnlyIfHeld
<1>5. CASE pass'.left = pass.left /\ pass'.targets = pass.targets \ {x}
  BY <1>1, <1>3, <1>5 DEF Done, LeftOnlyIfHeld
<1>6. CASE pass'.left = pass.left \cup {x} /\ pass'.targets = pass.targets /\ InUse(x)
  <2> DEFINE job == [kind |-> "sibling", of |-> x.of]
  <2>1. job \in Res /\ IsContainer(job) /\ docker[job] # "gone" /\ ~IsContainer(x)
    BY <1>6 DEF InUse, IsContainer
  <2>2. job \notin pass.left
    BY <1>1, <2>1 DEF Done
  <2>3. job \notin pass.todo
    BY <2>1 DEF RemoveTarget, Rank
  <2>4. job \notin pass.targets
    BY <1>1, <2>1, <2>2, <2>3 DEF Done
  <2>5. Done'
    BY <1>1, <1>3, <1>6, <2>1 DEF Done
  <2>6. LeftOnlyIfHeld'
    BY <1>1, <1>6, <2>4 DEF LeftOnlyIfHeld
  <2> QED
    BY <2>5, <2>6
<1> QED
  BY <1>4, <1>5, <1>6, TargetFields

LEMMA TidyStep == Tidy /\ [Next]_vars => Tidy'
<1> SUFFICES ASSUME Tidy, [Next]_vars PROVE Done' /\ LeftOnlyIfHeld'
  BY ShapeStep, FreshStep DEF Tidy
<1> USE DEF Tidy
<1>1. CASE pass' = NoPass
  BY <1>1 DEF Done, LeftOnlyIfHeld, NoPass
<1>2. CASE pass # NoPass /\ pass'.step = pass.step /\ pass'.left = pass.left
           /\ pass'.targets = pass.targets /\ pass'.todo = pass.todo
  <2>1. pass.targets \subseteq Res
    BY <1>2, PassUnderWay DEF Shape, Passing
  <2>2. Done'
    BY <1>2, <2>1, GoneStays DEF Done
  <2>3. LeftOnlyIfHeld'
    BY <1>2 DEF LeftOnlyIfHeld
  <2> QED
    BY <2>2, <2>3
<1>3. CASE pass' = pass
  BY <1>1, <1>2, <1>3
<1>4. CASE Tick
  <2>1. CASE pass = NoPass
    BY <1>1, <1>4, <2>1 DEF Tick, Scans, NoPass
  <2>2. CASE pass # NoPass
    BY <1>2, <1>4, <2>2, TickFields DEF Passing
  <2> QED
    BY <2>1, <2>2
<1>5. CASE ScanContainers \/ ScanNetworks \/ ScanVolumes
  <2>1. pass'.left = {} /\ pass'.step # "remove"
    BY <1>5, ScanFields DEF ScanContainers, ScanNetworks, ScanVolumes, Fresh
  <2> QED
    BY <2>1 DEF Done, LeftOnlyIfHeld
<1>6. CASE Choose
  BY <1>6, ChooseFields DEF Fresh, Done, LeftOnlyIfHeld
<1>7. CASE \E by \in {"loop", "api"} : BeginPass(by)
  BY <1>7, BeginFields DEF Done, LeftOnlyIfHeld
<1>8. CASE \E x \in Res : RemoveTarget(x)
  BY <1>8, TargetStep
<1> QED
  BY <1>1, <1>3, <1>4, <1>5, <1>6, <1>7, <1>8, PassSteps

\* Whoever shares the daemon, and whatever fails: what a pass leaves is held by a
\* container that it did not set out to remove, or could not.
THEOREM OnePassIsEnough == Spec => []LeftOnlyIfHeld
<1>1. Spec => []Tidy
  BY InitTidy, TidyStep, PTL DEF Spec
<1> QED
  BY <1>1, PTL DEF Tidy
==============================================================================
