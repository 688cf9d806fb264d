------------------------------ MODULE Reconciler ------------------------------
(***************************************************************************)
(* The capacity loop of the manager: Scheduler.reconcile under its lock,   *)
(* step by step at the points where the coroutine awaits Docker or GitHub, *)
(* together with everything that moves while it waits: runner containers,  *)
(* GitHub's registrations and job assignments, and the HTTP handlers that  *)
(* change pools, manual floors and connections.                            *)
(***************************************************************************)
EXTENDS PoolScaling

CONSTANTS Runner,         \* container names; a name serves one container at a time
          Pool,           \* pool names
          Conn,           \* GitHub connections
          ConnOf,         \* [Target -> Conn]
          RepoScoped,     \* the connections whose runners are bound to a repository
          PoolConfig,     \* the pool configurations an operator may write
          NoConfig,       \* the pool is not configured
          InitPools,      \* the pools at first start
          MaxQueue,       \* bound on the queued jobs of a pool
          MaxFloor,       \* bound on a manual floor
          Events          \* which of the optional environment events happen

ASSUME ReconcilerAssumption ==
  /\ IsFiniteSet(Runner)
  /\ Pool # {} /\ Target # {}
  /\ ConnOf \in [Target -> Conn]
  /\ RepoScoped \subseteq Conn
  /\ PoolConfig \subseteq [min : Nat, max : Nat]
  /\ NoConfig \notin PoolConfig
  /\ InitPools \in [Pool -> PoolConfig \cup {NoConfig}]
  /\ MaxQueue \in Nat /\ MaxFloor \in Nat

VARIABLES
  cstatus,     \* Docker: the container of a name
  cpool,       \* its pool label
  ctarget,     \* its connection and repository labels
  age,         \* container age against registration_timeout and max_lifetime
  gh,          \* GitHub: the registration of that name
  selected,    \* the targets the App installations select
  conns,       \* the connection store
  pools,       \* settings.runner_pools
  floors,      \* Scheduler._manual
  queue,       \* the tracker's queued jobs of a pool, oldest first
  published,   \* Scheduler._runners: the state of each runner at the last cycle
  idleSince,   \* Scheduler._idle_since against idle_timeout
  busySince,   \* Scheduler._busy_since against job_timeout
  request,     \* an HTTP handler between its check and its commit
  running,     \* Scheduler.run goes on
  phase,       \* where the coroutine that holds Scheduler._lock is
  cycleConns,  \* _reconcile_locked: connections
  errs,        \* runner_errors
  seen,        \* containers still to be classified, as listed
  remote,      \* github_runners, as listed
  live,        \* live, with runner.state
  todo,        \* pools still to be scaled
  plan,        \* the scaling decision of the current pool
  doomed,      \* the idle runners about to be scaled down
  steady       \* history: busy on GitHub ever since this cycle began

world  == <<cstatus, cpool, ctarget, age, gh, selected>>
memory == <<conns, pools, floors, queue, published, idleSince, busySince, request, running>>
cycle  == <<phase, cycleConns, errs, seen, remote, live, todo, plan, doomed>>
vars   == <<world, memory, cycle, steady>>

---------------------------------------------------------------------------
(* Types and helpers *)

Container    == {"absent", "created", "running", "finishing", "exited"}
Registration == {"none", "offline", "idle", "busy"}
RunnerState  == {"none", "starting", "idle", "busy"}
Age          == {"new", "overdue", "expired"}
Timer        == {"unset", "fresh", "due"}
Phase        == {"free", "discover", "classify", "forget", "pool", "create", "down"}

NoRequest == [op |-> "none"]
Request   == {NoRequest}
             \cup [op : {"pools"}, pools : [Pool -> PoolConfig \cup {NoConfig}]]
             \cup [op : {"floor"}, pool : Pool, target : Target, desired : Nat]

Jobs   == UNION {[S -> Target] : S \in SUBSET (1..MaxQueue)}
Plan   == [pool : Pool, desired : [Target -> Nat], ordered : Jobs,
           deficit : [Target -> Nat], slots : Nat]
NoPlan == [pool |-> CHOOSE p \in Pool : TRUE, desired |-> [t \in Target |-> 0],
           ordered |-> <<>>, deficit |-> [t \in Target |-> 0], slots |-> 0]

NoneOf == [r \in Runner |-> "none"]
ConnOfRunner(r) == ConnOf[ctarget[r]]
Configured == {p \in Pool : pools[p] # NoConfig}
Existing(p) == {r \in Runner : cstatus[r] # "absent" /\ cpool[r] = p}
LiveIn(p) == {r \in Runner : live[r] # "none" /\ cpool[r] = p}
LiveOn(p, t, states) == {r \in LiveIn(p) : ctarget[r] = t /\ live[r] \in states}
CountOn(p, states) == [t \in Target |-> Cardinality(LiveOn(p, t, states))]

\* uuid4 names: a new container's name is known nowhere.
Fresh(r) == /\ cstatus[r] = "absent" /\ gh[r] = "none"
            /\ live[r] = "none" /\ published[r] = "none"
            /\ idleSince[r] = "unset" /\ busySince[r] = "unset"

\* remove_runner: the container goes; its registration, if any, shows offline.
Removed(S) ==
  /\ cstatus' = [r \in Runner |-> IF r \in S THEN "absent" ELSE cstatus[r]]
  /\ age' = [r \in Runner |-> IF r \in S THEN "new" ELSE age[r]]
  /\ gh' = [r \in Runner |-> IF r \in S /\ gh[r] # "none" THEN "offline" ELSE gh[r]]
  /\ steady' = [r \in Runner |-> r \notin S /\ steady[r]]

ClearTimers(r) ==
  /\ idleSince' = [idleSince EXCEPT ![r] = "unset"]
  /\ busySince' = [busySince EXCEPT ![r] = "unset"]

\* The lock is released and the locals of the coroutine are gone.
Released ==
  /\ phase' = "free" /\ cycleConns' = {} /\ errs' = {}
  /\ seen' = NoneOf /\ remote' = NoneOf /\ live' = NoneOf
  /\ todo' = {} /\ plan' = NoPlan /\ doomed' = {}

\* status(), which every cycle ends with, has no count for a removed pool that
\* jobs still wait for.  The exception ends Scheduler.run when the cycle was its
\* own; a cycle of an HTTP handler or a webhook hands it to its caller.
StatusRaises == \E p \in Pool : pools[p] = NoConfig /\ queue[p] # <<>>
CycleOver ==
  /\ Released
  /\ running' = running \/ (StatusRaises /\ running' = FALSE)

Init ==
  /\ cstatus = [r \in Runner |-> "absent"]
  /\ cpool = [r \in Runner |-> CHOOSE p \in Pool : TRUE]
  /\ ctarget = [r \in Runner |-> CHOOSE t \in Target : TRUE]
  /\ age = [r \in Runner |-> "new"]
  /\ gh = NoneOf
  /\ selected = Target
  /\ conns = Conn
  /\ pools = InitPools
  /\ floors = [p \in Pool |-> [t \in Target |-> 0]]
  /\ queue = [p \in Pool |-> <<>>]
  /\ published = NoneOf
  /\ idleSince = [r \in Runner |-> "unset"]
  /\ busySince = [r \in Runner |-> "unset"]
  /\ request = NoRequest
  /\ running = TRUE
  /\ phase = "free" /\ cycleConns = {} /\ errs = {}
  /\ seen = NoneOf /\ remote = NoneOf /\ live = NoneOf
  /\ todo = {} /\ plan = NoPlan /\ doomed = {}
  /\ steady = [r \in Runner |-> FALSE]

---------------------------------------------------------------------------
(* The cycle: discovery *)

\* Docker reports a container that has finished its job as running until its
\* process exits.
DockerView(r) ==
  CASE cstatus[r] = "absent"    -> "none"
    [] cstatus[r] = "finishing" -> "running"
    [] OTHER                    -> cstatus[r]

\* The lock is taken; expired floors go; the containers and the connections
\* of this cycle are read.
Begin ==
  /\ phase = "free"
  /\ \E kept \in IF "expiry" \in Events THEN SUBSET (Pool \X Target)
                                       ELSE {Pool \X Target} :
       floors' = [p \in Pool |-> [t \in Target |->
                    IF <<p, t>> \in kept THEN floors[p][t] ELSE 0]]
  /\ seen' = [r \in Runner |-> DockerView(r)]
  /\ cycleConns' = conns
  /\ steady' = [r \in Runner |-> gh[r] = "busy"]
  /\ phase' = "discover"
  /\ UNCHANGED <<world, conns, pools, queue, published, idleSince, busySince, request,
                 running, errs, remote, live, todo, plan, doomed>>

\* Between full sweeps only connections with containers, jobs or floors are asked.
Active ==
  {c \in conns : \/ \E r \in Runner : seen[r] # "none" /\ ConnOfRunner(r) = c
                 \/ \E p \in Pool, t \in Target :
                      ConnOf[t] = c /\ (floors[p][t] > 0 \/ Occurrences(queue[p], t) > 0)}

\* The repositories whose runners are listed: on a full sweep the selected ones,
\* in between those with a container, a job or a floor.
Requested(full) ==
  IF full THEN selected
  ELSE {t \in Target : \/ \E r \in Runner : seen[r] # "none" /\ ctarget[r] = t
                       \/ \E p \in Pool : floors[p][t] > 0 \/ Occurrences(queue[p], t) > 0}

\* The requests that fail: those for repositories that are no longer selected,
\* and any others.
Failures(requested) ==
  {lost \in SUBSET requested : /\ requested \ selected \subseteq lost
                               /\ "partial" \notin Events => lost \subseteq requested \ selected}

\* list_runners over every connection asked.  A repository-bound connection
\* fails only when each of its requests fails.
Discover ==
  /\ phase = "discover"
  /\ \E full \in IF "selective" \in Events THEN BOOLEAN ELSE {TRUE} :
     LET asked     == IF cycleConns = {} THEN {} ELSE IF full THEN conns ELSE Active
         requested == {t \in Requested(full) : ConnOf[t] \in RepoScoped \cap asked}
     IN  \E bad \in IF "github" \in Events THEN SUBSET asked ELSE {{}} :
         \E lost \in Failures(requested) :
           /\ errs' = bad \cup ({ConnOf[t] : t \in lost} \ {ConnOf[t] : t \in requested \ lost})
           /\ remote' = [r \in Runner |->
                IF /\ ConnOfRunner(r) \in asked \ errs'
                   /\ ConnOfRunner(r) \in RepoScoped => ctarget[r] \in requested \ lost
                THEN gh[r] ELSE "none"]
           /\ floors' = [p \in Pool |-> [t \in Target |->
                IF full /\ ConnOf[t] \in (RepoScoped \cap cycleConns \cap conns) \ bad
                        /\ t \notin selected
                THEN 0 ELSE floors[p][t]]]
  /\ phase' = "classify"
  /\ UNCHANGED <<world, conns, pools, queue, published, idleSince, busySince, request,
                 running, cycleConns, seen, live, todo, plan, doomed, steady>>

---------------------------------------------------------------------------
(* The cycle: every listed container is kept or removed *)

JobTimedOut(r) == remote[r] = "busy" /\ busySince[r] = "due"
NeverRegisteredAnyState(r) == remote[r] # "idle" /\ age[r] = "overdue"
NeverRegistered(r) == remote[r] = "none" /\ age[r] = "overdue"

UnknownPoolKept(r) == FALSE
UnknownPool(r) == pools[cpool[r]] = NoConfig
UnknownConnection(r) == ConnOfRunner(r) \notin cycleConns

\* The reasons for removal, in the order the code tests them; a connection
\* whose discovery failed stops the tests before GitHub's answer is used.
MustGo(r) ==
  \/ UnknownPool(r)
  \/ UnknownConnection(r)
  \/ seen[r] = "exited"
  \/ age[r] = "expired"
  \/ /\ ConnOfRunner(r) \notin errs
     /\ JobTimedOut(r) \/ NeverRegistered(r)

\* runner.state of a kept container: GitHub's answer, or the state published
\* by the previous cycle when the connection could not be asked.
KeptState(r) ==
  CASE ConnOfRunner(r) \in errs /\ published[r] # "none" -> published[r]
    [] ConnOfRunner(r) \notin errs /\ remote[r] \in {"idle", "busy"} -> remote[r]
    [] OTHER -> "starting"

\* setdefault on the timer of the observed state, pop on the other one.
Observe(r) ==
  LET state == IF ConnOfRunner(r) \in errs THEN "unknown" ELSE remote[r]
      Since(timer, mine, other) ==
        CASE state = mine /\ timer[r] = "unset" -> [timer EXCEPT ![r] = "fresh"]
          [] state = other                      -> [timer EXCEPT ![r] = "unset"]
          [] OTHER                              -> timer
  IN  /\ idleSince' = Since(idleSince, "idle", "busy")
      /\ busySince' = Since(busySince, "busy", "idle")

Keep(r) ==
  /\ phase = "classify" /\ seen[r] # "none" /\ ~MustGo(r)
  /\ live' = [live EXCEPT ![r] = KeptState(r)]
  /\ seen' = [seen EXCEPT ![r] = "none"]
  /\ Observe(r)
  /\ UNCHANGED <<world, conns, pools, floors, queue, published, request, running,
                 phase, cycleConns, errs, remote, todo, plan, doomed, steady>>

\* Removal for an unknown pool is the one that leaves the timers behind.
Reap(r) ==
  /\ phase = "classify" /\ seen[r] # "none" /\ MustGo(r)
  /\ Removed({r})
  /\ seen' = [seen EXCEPT ![r] = "none"]
  /\ IF UnknownPool(r) THEN UNCHANGED <<idleSince, busySince>> ELSE ClearTimers(r)
  /\ UNCHANGED <<cpool, ctarget, selected, conns, pools, floors, queue, published, request,
                 running, phase, cycleConns, errs, remote, live, todo, plan, doomed>>

EndClassify ==
  /\ phase = "classify" /\ seen = NoneOf
  /\ phase' = "forget"
  /\ UNCHANGED <<world, memory, cycleConns, errs, seen, remote, live, todo, plan, doomed, steady>>

---------------------------------------------------------------------------
(* The cycle: offline registrations without a live container are deleted *)

StaleAnyway(r) == remote[r] = "offline"
Stale(r) == remote[r] = "offline" /\ live[r] = "none"

Forget(r) ==
  /\ phase = "forget" /\ Stale(r) /\ ConnOfRunner(r) \in conns
  /\ gh' = [gh EXCEPT ![r] = "none"]
  /\ remote' = [remote EXCEPT ![r] = "none"]
  /\ steady' = [steady EXCEPT ![r] = FALSE]
  /\ UNCHANGED <<cstatus, cpool, ctarget, age, selected, memory,
                 phase, cycleConns, errs, seen, live, todo, plan, doomed>>

EndForget ==
  /\ phase = "forget" /\ \A r \in Runner : ~Stale(r)
  /\ phase' = "pool"
  /\ todo' = Configured
  /\ UNCHANGED <<world, memory, cycleConns, errs, seen, remote, live, plan, doomed, steady>>

---------------------------------------------------------------------------
(* The cycle: each pool is scaled *)

\* default_target: the first connection in owner order that offers a target.
DefaultTarget ==
  LET offered == {t \in selected : ConnOf[t] \in cycleConns}
  IN  IF offered = {} THEN NoTarget
      ELSE CHOOSE t \in offered : \A u \in offered : t <= u

\* job_target drops a job whose connection is unknown.
Reachable(t) == ConnOf[t] \in cycleConns \cup conns

\* Listing the repositories for default_target fails for a connection that has
\* been disconnected meanwhile, unless an earlier one already offers a target.
DefaultTargetFails ==
  \E t \in Target : /\ ConnOf[t] \in (RepoScoped \cap cycleConns) \ conns
                    /\ \A u \in selected : u < t => ConnOf[u] \notin cycleConns

ordered_targets(p) ==
  [i \in {j \in DOMAIN queue[p] : Reachable(queue[p][j])} |-> queue[p][i]]

StartPool(p) ==
  LET ordered == ordered_targets(p)
      busy    == CountOn(p, {"busy"})
      owed    == Total(Demanded(ordered, busy, floors[p]))
      desired == Desired(ordered, busy, floors[p], pools[p].min, DefaultTarget)
  IN
  /\ phase = "pool" /\ p \in todo
  /\ pools[p].min > owed => ~DefaultTargetFails
  /\ plan' = [pool    |-> p,
              desired |-> desired,
              ordered |-> ordered,
              deficit |-> Deficit(desired, CountOn(p, {"starting", "idle", "busy"})),
              slots   |-> Slots(pools[p].max, Cardinality(LiveIn(p)))]
  /\ phase' = "create"
  /\ UNCHANGED <<world, memory, cycleConns, errs, seen, remote, live, todo, doomed, steady>>

\* The plan once the request for t has been dealt with.
Advance(t) == [plan EXCEPT !.ordered = Behind(plan.ordered, plan.deficit),
                           !.deficit[t] = plan.deficit[t] - 1,
                           !.slots = plan.slots - 1]

Wanted(t) == phase = "create" /\ plan.slots > 0 /\ FirstInLine(plan.ordered, plan.deficit, t)

Launch(r, t, status) ==
  /\ Fresh(r)
  /\ cstatus' = [cstatus EXCEPT ![r] = status]
  /\ cpool' = [cpool EXCEPT ![r] = plan.pool]
  /\ ctarget' = [ctarget EXCEPT ![r] = t]

\* A target whose discovery failed uses up its slot without a runner.
SkipTarget(t) ==
  /\ Wanted(t) /\ ConnOf[t] \in errs
  /\ plan' = Advance(t)
  /\ UNCHANGED <<world, memory, phase, cycleConns, errs, seen, remote, live, todo, doomed, steady>>

CreateRunner(r, t) ==
  /\ Wanted(t) /\ ConnOf[t] \in conns \ errs
  /\ Launch(r, t, "running")
  /\ live' = [live EXCEPT ![r] = "starting"]
  /\ plan' = Advance(t)
  /\ UNCHANGED <<age, gh, selected, memory, phase, cycleConns, errs, seen, remote,
                 todo, doomed, steady>>

\* The first failure, of GitHub to give a registration token or of Docker, ends the
\* creations of this pool.  A container that Docker created and could not start stays
\* behind, unknown to this cycle.
GiveUpNever == plan
GiveUp == [plan EXCEPT !.slots = 0]
CreateFails(t) ==
  /\ Wanted(t) /\ ConnOf[t] \notin errs
  /\ \/ /\ ConnOf[t] \notin conns \/ {"docker", "github"} \cap Events # {}
        /\ UNCHANGED <<cstatus, cpool, ctarget>>
     \/ /\ ConnOf[t] \in conns /\ "docker" \in Events
        /\ \E r \in Runner : Launch(r, t, "created")
  /\ plan' = GiveUp
  /\ UNCHANGED <<age, gh, selected, memory, phase, cycleConns, errs, seen, remote, live,
                 todo, doomed, steady>>

\* Idle runners past idle_timeout, per target those that demand does not need.
\* The order of idle_since is abstracted: any of them may be the oldest.
DueIdle(p, t) == {r \in LiveOn(p, t, {"idle"}) : idleSince[r] = "due"}
Removable(p) ==
  {S \in SUBSET {r \in LiveIn(p) : live[r] = "idle" /\ idleSince[r] = "due"} :
     \A t \in Target :
       Cardinality({r \in S : ctarget[r] = t}) =
         Retired(Cardinality(DueIdle(p, t)),
                 IdleAllowance(plan.desired[t],
                               Cardinality(LiveOn(p, t, {"busy"})),
                               Cardinality(LiveOn(p, t, {"starting"}))))}

\* Runner is finite: with no fresh name left the creations end early.
EndCreate ==
  /\ phase = "create"
  /\ plan.slots = 0 \/ NoneInLine(plan.deficit) \/ \A r \in Runner : ~Fresh(r)
  /\ doomed' \in Removable(plan.pool)
  /\ phase' = "down"
  /\ UNCHANGED <<world, memory, cycleConns, errs, seen, remote, live, todo, plan, steady>>

ScaleDown(r) ==
  /\ phase = "down" /\ r \in doomed
  /\ Removed({r})
  /\ ClearTimers(r)
  /\ live' = [live EXCEPT ![r] = "none"]
  /\ doomed' = doomed \ {r}
  /\ UNCHANGED <<cpool, ctarget, selected, conns, pools, floors, queue, published, request,
                 running, phase, cycleConns, errs, seen, remote, todo, plan>>

EndPool ==
  /\ phase = "down" /\ doomed = {}
  /\ todo' = todo \ {plan.pool}
  /\ plan' = NoPlan
  /\ phase' = "pool"
  /\ UNCHANGED <<world, memory, cycleConns, errs, seen, remote, live, doomed, steady>>

Publish ==
  /\ phase = "pool" /\ todo = {}
  /\ published' = live
  /\ CycleOver
  /\ UNCHANGED <<world, conns, pools, floors, queue, idleSince, busySince, request, steady>>

---------------------------------------------------------------------------
(* The cycle: an exception ends it early; the lock is released and nothing *)
(* is published                                                            *)

DockerFails ==
  /\ "docker" \in Events
  /\ \/ /\ phase = "discover"
        /\ UNCHANGED <<cstatus, age, gh, steady>>
     \/ \E r \in Runner :
          /\ \/ phase = "classify" /\ seen[r] # "none" /\ MustGo(r)
             \/ phase = "down" /\ r \in doomed
          /\ Removed({r}) \/ UNCHANGED <<cstatus, age, gh, steady>>
  /\ CycleOver
  /\ UNCHANGED <<cpool, ctarget, selected, conns, pools, floors, queue, published,
                 idleSince, busySince, request>>

GitHubFails ==
  /\ \/ /\ phase = "forget"
        /\ \E r \in Runner : Stale(r) /\ ("github" \in Events \/ ConnOfRunner(r) \notin conns)
     \/ /\ phase = "pool"
        /\ \E p \in todo :
             pools[p].min > Total(Demanded(ordered_targets(p),
                                           CountOn(p, {"busy"}), floors[p]))
        /\ DefaultTargetFails \/ ("github" \in Events /\ RepoScoped \cap cycleConns # {})
  /\ CycleOver
  /\ UNCHANGED <<world, conns, pools, floors, queue, published, idleSince, busySince,
                 request, steady>>

---------------------------------------------------------------------------
(* HTTP handlers that run between the awaits of a cycle *)

Reply == request' = NoRequest

\* replace_pools: the check runs before the lock is asked for.
RemovedBy(new) == {p \in Configured : new[p] = NoConfig}
CheckPools ==
  /\ "pools" \in Events /\ request = NoRequest
  /\ \E new \in [Pool -> PoolConfig \cup {NoConfig}] :
       /\ new # pools
       /\ \E p \in Pool : new[p] # NoConfig
       /\ \A r \in Runner : published[r] # "none" \/ cstatus[r] # "absent"
                              => cpool[r] \notin RemovedBy(new)
       /\ request' = [op |-> "pools", pools |-> new]
  /\ UNCHANGED <<world, conns, pools, floors, queue, published, idleSince, busySince,
                 running, cycle, steady>>

LockIgnored == TRUE
LockFree == phase = "free"
CommitPools ==
  /\ request.op = "pools" /\ LockFree
  /\ pools' = request.pools
  /\ floors' = [p \in Pool |-> IF request.pools[p] = NoConfig
                               THEN [t \in Target |-> 0] ELSE floors[p]]
  /\ Reply
  /\ UNCHANGED <<world, conns, queue, published, idleSince, busySince, running,
                 cycle, steady>>

\* set_manual_floor: for a repository-bound target the repositories are listed
\* between the check and the assignment; neither takes the lock.
CheckFloor(p, t, n) ==
  /\ "floors" \in Events /\ request = NoRequest
  /\ pools[p] # NoConfig /\ n <= pools[p].max /\ ConnOf[t] \in conns
  /\ IF ConnOf[t] \in RepoScoped
     THEN /\ request' = [op |-> "floor", pool |-> p, target |-> t, desired |-> n]
          /\ UNCHANGED floors
     ELSE /\ floors' = [floors EXCEPT ![p][t] = n]
          /\ UNCHANGED request
  /\ UNCHANGED <<world, conns, pools, queue, published, idleSince, busySince, running,
                 cycle, steady>>

CommitFloor ==
  /\ request.op = "floor"
  /\ IF request.target \in selected /\ ConnOf[request.target] \in conns
     THEN floors' = [floors EXCEPT ![request.pool][request.target] = request.desired]
     ELSE UNCHANGED floors
  /\ Reply
  /\ UNCHANGED <<world, conns, pools, queue, published, idleSince, busySince, running,
                 cycle, steady>>

\* desired = 0 without a target drops every floor of the pool.
ClearFloors(p) ==
  /\ "floors" \in Events /\ pools[p] # NoConfig
  /\ floors' = [floors EXCEPT ![p] = [t \in Target |-> 0]]
  /\ UNCHANGED <<world, conns, pools, queue, published, idleSince, busySince, request, running,
                 cycle, steady>>

\* github_disconnect: refused while a published runner or a tracked job belongs
\* to the connection.  A running job is tracked unless its webhook was lost.
Disconnect(c) ==
  /\ "disconnect" \in Events /\ c \in conns
  /\ \A r \in Runner : published[r] # "none" => ConnOfRunner(r) # c
  /\ \A p \in Pool : \A i \in DOMAIN queue[p] : ConnOf[queue[p][i]] # c
  /\ "lag" \in Events \/ \A r \in Runner : gh[r] = "busy" => ConnOfRunner(r) # c
  /\ conns' = conns \ {c}
  /\ UNCHANGED <<world, pools, floors, queue, published, idleSince, busySince, request, running,
                 cycle, steady>>

\* The process restarts: only pools and connections are kept on disk.  Queued
\* demand is polled again before the first cycle, for the pools there are.
Forgotten ==
  /\ queue' = [p \in Pool |-> IF pools[p] = NoConfig THEN <<>> ELSE queue[p]]
  /\ floors' = [p \in Pool |-> [t \in Target |-> 0]]
  /\ published' = NoneOf
  /\ idleSince' = [r \in Runner |-> "unset"]
  /\ busySince' = [r \in Runner |-> "unset"]
  /\ Reply
  /\ running' = TRUE
  /\ Released

Crash ==
  /\ "crash" \in Events
  /\ Forgotten
  /\ UNCHANGED <<world, conns, pools, steady>>

\* shutdown with cleanup_idle_on_shutdown: the published idle runners go one after
\* the other until the process ends, and neither the lock nor GitHub is asked.
Shutdown ==
  /\ "shutdown" \in Events
  /\ \E S \in SUBSET {r \in Runner : published[r] = "idle"} : Removed(S)
  /\ Forgotten
  /\ UNCHANGED <<cpool, ctarget, selected, conns, pools>>

---------------------------------------------------------------------------
(* The runners, GitHub and time *)

RestUnchanged == UNCHANGED <<cpool, ctarget, selected, conns, pools, floors, published,
                             request, running, cycle>>

\* steady lasts as long as the registration stays busy.
Registers(r, state) ==
  /\ gh' = [gh EXCEPT ![r] = state]
  /\ steady' = [steady EXCEPT ![r] = @ /\ state = "busy"]

Register(r) ==
  /\ cstatus[r] = "running" /\ gh[r] = "none"
  /\ Registers(r, "idle")
  /\ RestUnchanged /\ UNCHANGED <<cstatus, age, queue, idleSince, busySince>>

\* GitHub gives the oldest queued job of its target to an idle runner.  When the
\* job's webhooks were lost the tracker knows nothing of it.
JobAssigned(r) ==
  LET p == cpool[r]
      mine == {i \in DOMAIN queue[p] : queue[p][i] = ctarget[r]}
  IN
  /\ cstatus[r] = "running" /\ gh[r] = "idle"
  /\ Registers(r, "busy")
  /\ \/ \E i \in mine : /\ \A j \in mine : i <= j
                        /\ queue' = [queue EXCEPT ![p] =
                             SubSeq(@, 1, i - 1) \o SubSeq(@, i + 1, Len(@))]
     \/ "lag" \in Events /\ UNCHANGED queue
  /\ RestUnchanged /\ UNCHANGED <<cstatus, age, idleSince, busySince>>

\* An ephemeral runner is de-registered by GitHub after its job and then exits.
JobEnds(r) ==
  /\ gh[r] = "busy" /\ cstatus[r] = "running"
  /\ Registers(r, "none")
  /\ cstatus' = [cstatus EXCEPT ![r] = "finishing"]
  /\ RestUnchanged /\ UNCHANGED <<age, queue, idleSince, busySince>>

Exit(r) ==
  /\ cstatus[r] = "finishing"
  /\ cstatus' = [cstatus EXCEPT ![r] = "exited"]
  /\ RestUnchanged /\ UNCHANGED <<age, gh, queue, idleSince, busySince, steady>>

\* A container that dies early leaves its registration behind, offline.
Dies(r) ==
  /\ "exit" \in Events /\ cstatus[r] = "running"
  /\ cstatus' = [cstatus EXCEPT ![r] = "exited"]
  /\ Registers(r, IF gh[r] = "none" THEN "none" ELSE "offline")
  /\ RestUnchanged /\ UNCHANGED <<age, queue, idleSince, busySince>>

Flap(r) ==
  /\ "offline" \in Events /\ cstatus[r] = "running" /\ gh[r] \in {"idle", "offline"}
  /\ Registers(r, IF gh[r] = "idle" THEN "offline" ELSE "idle")
  /\ RestUnchanged /\ UNCHANGED <<cstatus, age, queue, idleSince, busySince>>

JobArrives(p, t) ==
  /\ pools[p] # NoConfig /\ ConnOf[t] \in conns /\ t \in selected
  /\ Len(queue[p]) < MaxQueue
  /\ queue' = [queue EXCEPT ![p] = Append(@, t)]
  /\ RestUnchanged /\ UNCHANGED <<cstatus, age, gh, idleSince, busySince, steady>>

\* The next poll that reads the jobs of a removed pool matches them to another
\* pool, where they arrive like any job, or to none.
Unmatch(p) ==
  /\ pools[p] = NoConfig /\ queue[p] # <<>>
  /\ queue' = [queue EXCEPT ![p] = <<>>]
  /\ RestUnchanged /\ UNCHANGED <<cstatus, age, gh, idleSince, busySince, steady>>

\* A repository is added to or taken from an App installation.
Reselect(t) ==
  /\ "selection" \in Events /\ ConnOf[t] \in RepoScoped
  /\ selected' = (selected \ {t}) \cup ({t} \ selected)
  /\ UNCHANGED <<cstatus, cpool, ctarget, age, gh, memory, cycle, steady>>

\* Time passes between cycles: now is read once per cycle.  "age" and "timeout"
\* let the container's and the timers' deadlines be reached.
Aging(r) ==
  /\ phase = "free" /\ "age" \in Events /\ cstatus[r] # "absent" /\ age[r] # "expired"
  /\ age' = [age EXCEPT ![r] = IF age[r] = "new" THEN "overdue" ELSE "expired"]
  /\ RestUnchanged /\ UNCHANGED <<cstatus, gh, queue, idleSince, busySince, steady>>

IdleElapses(r) ==
  /\ phase = "free" /\ idleSince[r] = "fresh"
  /\ idleSince' = [idleSince EXCEPT ![r] = "due"]
  /\ RestUnchanged /\ UNCHANGED <<cstatus, age, gh, queue, busySince, steady>>

BusyElapses(r) ==
  /\ phase = "free" /\ "age" \in Events /\ busySince[r] = "fresh"
  /\ busySince' = [busySince EXCEPT ![r] = "due"]
  /\ RestUnchanged /\ UNCHANGED <<cstatus, age, gh, queue, idleSince, steady>>

---------------------------------------------------------------------------
(* The specification *)

CycleStep ==
  \/ Begin \/ Discover \/ EndClassify \/ EndForget \/ EndCreate \/ EndPool \/ Publish
  \/ DockerFails \/ GitHubFails
  \/ \E r \in Runner : Keep(r) \/ Reap(r) \/ Forget(r) \/ ScaleDown(r)
  \/ \E p \in Pool : StartPool(p)
  \/ \E t \in Target : \/ SkipTarget(t) \/ CreateFails(t)
                       \/ \E r \in Runner : CreateRunner(r, t)

ApiStep ==
  \/ CheckPools \/ CommitPools \/ CommitFloor \/ Crash \/ Shutdown
  \/ \E p \in Pool, t \in Target, n \in 0..MaxFloor : CheckFloor(p, t, n)
  \/ \E p \in Pool : ClearFloors(p)
  \/ \E c \in Conn : Disconnect(c)

RunnerStep(r) == Register(r) \/ JobAssigned(r) \/ JobEnds(r) \/ Exit(r)

Environment ==
  \/ \E r \in Runner : RunnerStep(r) \/ Dies(r) \/ Flap(r) \/ Aging(r) \/ IdleElapses(r) \/ BusyElapses(r)
  \/ \E p \in Pool, t \in Target : JobArrives(p, t)
  \/ \E p \in Pool : Unmatch(p)
  \/ \E t \in Target : Reselect(t)

Next == CycleStep \/ ApiStep \/ Environment

Spec == Init /\ [][Next]_vars
==============================================================================
