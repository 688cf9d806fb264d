# EasyRunners: specifications

TLA+ models of the EasyRunners manager (`src/src/runner_manager`), the TLC instances that check them
and the theorems TLAPS proves about them. Paths below are relative to `src/src/runner_manager`
unless they start with `src/`.

## The system

EasyRunners keeps self-hosted GitHub Actions runners on one Docker host. One asyncio process lists
containers and GitHub registrations, compares them with the demand for jobs, and creates and removes
containers. Nothing about a runner is stored by the manager: Docker labels and GitHub's list are read
again in every cycle.

| Component | State it keeps | Operations | Correct when |
|---|---|---|---|
| Capacity loop (`scheduler.py`) | lock, published runners, idle and busy timers, manual floors, pool errors | `reconcile`, `set_manual_floor`, `replace_pools`, `shutdown` | maximum never exceeded, busy runners kept, minimum restored, orphans removed, oldest job served |
| Scaling arithmetic (`scheduler.py` 45-58, 549-692) | none | counts, wishes, deficits, slots, idle allowance | covers `calculate_scale`, serves old jobs first, never goes below the demand |
| Run loop (`scheduler.py` 107-160) | poll times, stop event | `run`, `poll_demand` | ends by itself only for the two exceptions of `status()` below; sweeps recur |
| Demand tracker (`demand.py`) | jobs with status and pool, when each was last seen | `handle_webhook`, `apply_poll`, counts | queued jobs are known, ended jobs are forgotten |
| Docker manager (`docker.py`) | client, resource cache, diagnostics on disk | list, create, remove; inventory, orphan cleanup, log pruning | removes only what it owns, leaves nothing behind |
| GitHub client and registry (`github.py`) | tokens, rate-limit window, repository cache, per-connection errors | requests, runner lists, queue polls, validation | failures of one repository or connection stay local |
| Connections and onboarding (`github.py`, `api.py`) | rows in SQLite, secrets in files | manifest, installation, disconnect, legacy migration | rows and secrets agree after a crash; no connection goes while it is used |
| Database (`database.py`) | settings, deliveries, setup states, history, tokens | claim, add, prune | a delivery is handled once; one-time states are used once |
| Notifications (`notifications.py`) | last time sent per key | `send` | at most one per cooldown |
| Auth (`auth.py`) | session epoch, failed logins, tokens | login, logout, tokens | revoked sessions and tokens stay revoked |
| Lifespan (`main.py`), runner image (`src/runner/entrypoint.sh`) | | start, stop; register, run one job, exit | a restart adopts the containers it finds |
| Metrics, CLI, dashboard, adoption scan | | presentation and read-only scans | |

The parts meet in the capacity loop: webhooks and polls fill the tracker, the tracker's queued jobs
and GitHub's runner list decide how many containers Docker should run, HTTP handlers change pools,
floors and connections while a cycle is suspended in an `await`. What is hard to test is therefore
the order of things: the environment moves at every `await`, one of several calls fails, the process
restarts, and decisions rest on lists read some calls ago. The list of such places with their
lines is under `hazards` in `PROJECT.json`, each with the properties that watch it.

## Modules

| Module | Role |
|---|---|
| `PoolScaling` | the arithmetic of one pool's decision as constant operators |
| `Fleet` | abstract specification of the fleet: what may happen to containers and registrations, without cycles |
| `Reconciler`, `ReconcilerProperties`, `MCReconciler` | the cycle of the capacity loop, one action per awaited step, with HTTP handlers, GitHub, containers and time around it; its properties; instances |
| `CreationPlan` | the creation loop of one pool for every small fleet, compared with `calculate_scale` |
| `DemandTracker`, `MCDemandTracker` | webhooks, polls, the tracker and the run loop, with their properties; instances |
| `ConnectionRegistry` | abstract specification of the connections: setups, owners, installations and ends, as if each connection were one record |
| `Connections`, `ConnectionsProperties`, `MCConnections` | onboarding, validation, polls, disconnection and migration of GitHub connections, with a crash between any two writes |
| `GitHubClient`, `GitHubClientProperties`, `MCGitHubClient` | concurrent calls with one token, retries and rate limits |
| `Janitor`, `JanitorProperties`, `MCJanitor` | teardown of a runner and cleanup of what its job left, request by request |
| `PoolSettings`, `PoolSettingsProperties`, `MCPoolSettings` | the saved pools, their migration at start, label matching, concurrent edits |
| `ReconcilerProofs`, `ScaleDownProofs` | theorems about `PoolScaling` and `Reconciler`: types and capacity, refinement of `Fleet`, retention of busy runners, how a plan is carried out |
| `CreationPlanProofs` | theorems about `CreationPlan`: the plan of any fleet against `calculate_scale`, and its order |
| `DemandTrackerProofs`, `ConnectionsProofs`, `GitHubClientProofs`, `JanitorProofs`, `PoolSettingsProofs` | theorems about the other modules |

`Reconciler` and `CreationPlan` both extend `PoolScaling`, so what is checked about the plan for all
small fleets is what the cycle uses. `Reconciler` implements `Fleet` (`ImplementsFleet`) and
`Connections` implements `ConnectionRegistry` (`ImplementsRegistry`). The others
stand for parts that meet the loop at a narrow interface: `Reconciler` sees the tracker as `queue`,
the queued jobs of a pool in order; the connection store as `conns`, the connections of the moment;
a teardown as one step that may fail; a pool edit as check and commit; a call to GitHub as an answer
or a failure per connection or repository. What happens behind each of these is the subject of the
module of that name.

### Reconciler

State: what Docker holds (`cstatus`, `cpool`, `ctarget`, `age`), what GitHub holds (`gh`,
`selected`), the manager's memory (`conns`, `pools`, `floors`, `queue`, `published`, `idleSince`,
`busySince`, `request`, and whether `Scheduler.run` goes on: `running`), and the locals of `_reconcile_locked` while it runs (`phase` and
`cycleConns` to `doomed`). `steady` is a history variable: the runners GitHub has reported busy ever
since the cycle began. A *target* is a (connection, repository) pair, numbered in the code's sort
order, which is also the owners' order here.

A cycle is `Begin` (lock, expiry of floors, container list, connections), `Discover` (the runner
lists of every connection asked, with failures per connection and per repository), `Keep` or `Reap`
for each container in any order, `Forget` for each stale registration, then for each pool
`StartPool` (counts, wishes, deficits, slots), `CreateRunner` / `CreateFails` / `SkipTarget` for the
entries of `create_targets`, `EndCreate` (which idle runners go), `ScaleDown` for each, `EndPool`,
and `Publish`. `DockerFails` and `GitHubFails` are the exceptions that leave `_reconcile_locked`:
the lock is released, nothing is published, and what was done stays done. However a cycle ends,
`reconcile` then calls `status()` outside its `try`, and `queued_counts` raises when jobs wait for a
pool that was removed (`StatusRaises`). If the cycle was that of the run loop, the loop is over until
the next restart (`running`); a cycle of an HTTP handler or a webhook hands the exception to its
caller, so `CycleOver` leaves both open, and cycles begin without the loop. `Unmatch` is the poll that
matches the jobs of a removed pool anew. Between any two of these
steps the environment moves: a runner registers, takes the oldest job of its target, ends it
(de-registered first, exited later), dies, goes offline and comes back; a repository is selected or
de-selected; jobs arrive; the handlers `replace_pools` (check, then commit under the lock),
`set_manual_floor` (check, list, assign), `github_disconnect` and `shutdown` run; the process crashes.

The optional parts of the environment are switched by `Events`: `pools`, `floors`, `expiry`,
`disconnect`, `crash`, `shutdown`, `docker` and `github` (their errors), `partial` (a single
repository's request fails), `selective` (cycles between full sweeps), `selection`, `offline`,
`exit`, `age` (registration, lifetime and job deadlines) and `lag` (lost webhooks).

### DemandTracker

A job goes from queued to in progress to completed on GitHub and each step sends one event (`sent`),
which may be lost and is handled in any order; `claimed` is the table of deliveries. A poll asks for
the queued runs of the repositories, then reads each run's jobs, and applies the answer when all are
there; webhooks are handled between the requests, and a second poll may run for an HTTP request.
`loop` is `Scheduler.run`: full sweep, cycle, poll, cycle. Two exceptions of `status()` end it:
`queued_counts` raises `KeyError` for a pool that is gone, and `parse_byte_size` raises `ValueError` for a
pool in `Unreadable`, whose memory is no byte size, which no validation refuses.

### Fleet

State: the containers of each pool (`members`), the names GitHub knows (`registered`), those at work
(`working`) and `pools`. `Start` makes one container below the maximum and under a name that is free
on both sides, `Stop` removes any group, `Forget` only a registration without a container. `Reconciler`
maps its state to it with `ContainersOf`, `KnownToGitHub` and `AtWork`; its locals have no counterpart.

### Connections

State: rows of `github_connections` (`rows`: none, registered, installed), secret files (`files`), the
files and the setting of an older release (`root`, `setting`), one-time states (`states`), whether the
environment configures a connection (`env`), GitHub's side (`github`), and per handler what it waits
for (`task`). `disk` survives a crash, `task` does not.

`OfferSetup`, `Expire`, `Callback` and `Convert` are the manifest flow: the state is consumed before the
code is exchanged, secrets are saved before the row. `Redirect`, `CheckSucceeds`, `ListSucceeds`,
`ListRejects`, `ListInterrupted` are the validation of an installation, which is stored, then taken
back when no repository is found or the listing is answered with an error. The redirect names the
connection, and nothing keeps it from naming one of the environment: its row is then written as
installed, and a listing that fails takes the installation of that row back. `credentials` still
answers for such a row with the environment's own, so the next read that stores metadata
writes it as installed again; `connections(include_incomplete=False)` passes over it until then. `BeginScan` and `EndScan` are every read that writes metadata into
the stored connection after waiting. `Disconnect` erases the row before the secrets. `Start` runs the
migration of the older release, `Migrated(k)` being the disk after the first `k` of its four writes;
`Saved` and `Erased` do the same for onboarding and disconnection, so a crash falls between any two
writes. `Events`: `crash`, `server` (errors of GitHub), `environment` (another one at a restart),
`direct` (a setup that names its target and is not resolved first).

### ConnectionRegistry

State: the `stage` of each connection (none, registered, installed), the setups still `offered`, and what
was disconnected (`retired`). `Connect` uses up a setup and needs a free owner; `Adopt` is a connection
that needs no setup (of the environment, of an older release); `Install`, `TakeBack` and `Disconnect`
move one connection by one stage, those of the environment except for `Disconnect`. `Connections` maps to it with `StageOf` (a row counts once both its
secrets are there, which for a migration may take several starts), `UnderWay` (an open state, or a
handler converting it) and `gone`.

### GitHubClient

State: where each call is, with its attempt, credentials, token and answer (`call`); the cached token,
the token lock, the end of the pause (`window`) and the secondary backoff (`backoff`), shared by all
calls; the stored installation; on GitHub's side the installation, the epoch of accepted tokens and
what is left of a primary limit. `Begin`, `TakeToken`, `Mint`, `Minted`, `MintFails` are
`GitHubAuth.token` behind its lock; `Serve` is GitHub's answer; `Success`, `Unauthorized`, `Limited`,
`TryAgain` and `Fail` are the branches of `request`. `Tick`, `Expire`, `Disturb` and `Reconnect` are time,
the token's end, what happens on GitHub, and a validation that stores a new installation.

### Janitor

State: each resource on the host (`docker`) with its age; what the loop does (`loop`: a teardown, or
maintenance); the cleanup behind the lock (`pass`), with what its inventory has seen. `BeginTeardown`,
`GetContainer`, `StopContainer`, `RemoveSiblings`, `RemoveNetworks`, `RemoveVolumes` and
`RemoveContainer` are `remove_runner`, one request each. `Maintain` and `BeginPass`, the three lists
`ScanContainers`, `ScanNetworks`, `ScanVolumes`, then `Choose`, `RemoveTarget` in order of kind, and
`EndPass` are the inventory and the cleanup of the loop or of the API. Jobs create resources
(`Create`) and containers exit (`Exit`) between any two of them; a list that fails ends a cleanup
(`ListFails`), `Crash` ends both.

### PoolSettings

State: the saved override, its backup, the pools in use, and per request the pools it will put in
place. A pool is labels, aliases, Docker mode, priority and `spec` for everything else.
`migrate_legacy_pools` is `ToDocker` after `ToStandard`; `match_pool` takes the first of the pools
that fit in the order `Precedes`. `Start` migrates in two writes and may be cut short between them;
`PutPool`, `DeletePool` and `ImportPools` read and check, `Apply` and `Refuse` come after the wait.

## Runs

Each `.cfg` belongs to the run of the same name in `PROJECT.json`; `tlc -config X.cfg Module.tla`
repeats it.

| Run | Instance | Shows |
|---|---|---|
| `capacity` | 3 runners, 1 pool with maximum 1 or 2, 2 jobs; pool edits, Docker errors, crashes | `TypeOK`, `CapacityInv`, `CreateWithinMax` |
| `busy` | 2 runners, 2 repositories of one connection, maximum 1 or 2, 1 job; failures of either or both, of GitHub's tokens, full and selective sweeps, every deadline, crashes, shutdown | `BusyKept`, `PlanCarriedOut` |
| `flapping` | 2 runners, 2 repositories, demand from floors; offline, early exit, selection, repositories missing from discovery, expiring floors, jobs whose webhooks are lost | `ForgetSparesContainers`, `ImplementsFleet` |
| `progress` | 2 runners, 2 connections, minimum and maximum 1, 2 jobs; runners that die in any state, crashes | `OldestJobServed`, `MinimumRestored` |
| `retire` | 1 runner, 2 warm pools, 1 job each, 1 connection; removal of both, Docker errors, crashes | `OrphansReaped` |
| `plan` | 2 targets, up to 3 jobs, 1 runner per target and state, maximum 0 to 3 | `SoleTargetAgrees`, `CoversReference`, `OldestJobsFirstWhenCold` |
| `ghosts` | 1 job, 2 pollers, 2 pools, 2 faults; every event but the removal of pools | `TypeOK`, `GhostsPurged`, `DemandRestored` |
| `onboarding` | 2 setups for one owner, a connection of the environment, one of an older release, 2 handlers; every event | `TypeOK`, `NoResurrection`, `RowHasSecrets`, `SecretsHaveRow`, `OneConnectionPerOwner`, `LegacyKept`, `InstalledByValidation`, `ImplementsRegistry` |
| `janitor` | 1 runner with a job's container and network; grace 1, lists that take up to 1, 1 fault | `TypeOK`, `LeftOnlyIfHeld`, `SparesLive`, `LeftoversReaped` |
| `client` | 2 calls of 2 attempts, longest backoff 3, retry-after 2, limit of 2, 2 faults | `TypeOK`, `RetryAsksAnew`, `BackoffGrows`, `PauseKept`, `CallsEnd`, `ServiceRestored` |
| `pools` | every override made of ten entries (built-in pools of older releases unchanged or customised, pools of today), 2 editors, 2 edits put in place | `BackupHoldsOriginal`, `LabelsDistinct`, `SavedIsServed`, `JobsStayServed`, `VariantsKept` |

The bounds are small because the interesting cases are: the maximum matters with one runner more
than it allows; lists and decisions disagree with one step of the environment between them; the
order of jobs matters with two targets and three jobs; two handlers are enough for one to overtake
the other; a crash between two writes leaves a state that a second crash can only meet again; a job's
network shows with one container that holds it; a second call shows a stale token. `MaxQueue`,
`MaxFloor`, `MaxFaults`, `MaxEdits`, `Cap` and the finite `Runner` bound what is unbounded in the code;
with no fresh name left a pool's creations end early. Symmetry in runners is used in safety runs
only. `busy` leaves floors out because a cycle reads them once, when it plans a pool; `flapping` has no
tracked jobs, floors being its demand, so that offline runners meet more of the cycle. `janitor` has
no volume, for time; the theorems about it cover volumes and any number of runners.

One run finds a disagreement between the code and the documentation; `findings` quotes it:

| Run | Property | What happens |
|---|---|---|
| `stale_idle` | `BusyNeverScaledDown` | an idle runner takes a job while its connection cannot be asked; the idle state of the previous cycle gets it removed |

More instances on disk show where a sentence of the documentation, a test's name or a message says
more than the code does. Each is a counterexample TLC finds, not a run:

| Instance | Module | Property | What is said, and what happens |
|---|---|---|---|
| `PartialDiscovery.cfg` | `MCReconciler` | `DiscoveryFailureSparesBusy` | `src/tests/test_scheduler.py:717`; only one repository's request fails, so the connection counts as discovered and its busy runner as never registered |
| `Disconnection.cfg` | `MCReconciler` | `DisconnectWaitsForRunners` | `src/README.md:115`; the check looks at the last published cycle, not at the runners of the current one |
| `MissedCompletion.cfg` | `MCDemandTracker` | `MissedCompletionRepaired` | `src/README.md:319`; a job in progress is never purged and no poll reports its end |
| `LoopEnds.cfg` | `MCDemandTracker` | `FullSweepsKeepRunning` | `src/README.md:319-320`; removing a pool with queued jobs ends `Scheduler.run` |
| `UnreadableMemory.cfg` | `MCDemandTracker` | `FullSweepsKeepRunning` | `src/README.md:319-320`; an added pool whose memory is no byte size makes `status()` raise and ends `Scheduler.run` |
| `EnvRow.cfg` | `MCConnections` | `RefusedOnlyIfConfigured` | `api.py:993`; a poll wrote a row for the environment's connection, which stays, and cannot be disconnected, when the environment is gone |
| `Namespace.cfg` | `MCJanitor` | `OnlyOwnNamespace` | `src/docs/ARCHITECTURE.md:31-33`; Compose projects of an instance whose prefix starts with ours count as ours |
| `Diagnostics.cfg` | `MCJanitor` | `DiagnosticsFirst` | `src/docs/ARCHITECTURE.md:29`; the janitor removes an exited runner without capturing diagnostics |
| `PrimaryReset.cfg` | `MCGitHubClient` | `PrimaryHonored` | `src/README.md:515`; the answer to another call in flight overwrites the end of the pause with an earlier one |
| `SameLabels.cfg` | `MCPoolSettings` | `NeverIdentical` | `config.py:132`, the refusal of pools that "have identical labels"; two edits it accepts become identical by the migration of the next start, which does not check again |
| `Restart.cfg` | `MCPoolSettings` | `EditsSurviveRestart` | `src/README.md:206`; an edit that saves a pool like a built-in one of an older release is migrated at the next start |

Some promises hold only under a condition, which the passing runs state or keep to:

- `OldestJobsFirst` (`src/README.md:323`) holds when the pool has no idle or starting runner
  (`OldestJobsFirstWhenCold`). With the queue A, B, A, one idle runner of A and one free slot, the
  slot goes to A's younger job. What holds always is `OldestJobServed`.
- `DemandRestored` holds while a repository has at most `RunsPerRepo` queued runs: a poll reads one
  page, and what is behind it is neither found nor kept.
- `replace_pools` refuses to remove pools with runners, but looks before it has the lock. The runner
  a cycle creates meanwhile is an orphan of the removed pool and is reaped - unless the same removal
  ends the run loop, because a job waits for the pool when the cycle is over. Then the orphan stays
  until somebody asks for a cycle or the manager is restarted, and `OrphansReaped` says so: an orphan
  goes, or the loop has ended. Without that alternative TLC finds the sequence in the same instance.
- `OldestJobServed`, `MinimumRestored` and `OrphansReaped` are promised for the time after the last
  crash; the first also after the last early death of a runner, the third after the last error of
  Docker. Each condition is needed: without it the fault may recur in every cycle.
  A step that leads where a step without a fault leads (the end of a cycle that knows of nothing looks
  like a restart) does not count as one (`NoFault`).
- `SparesLive` holds while no other instance's prefix begins with ours.
- `LabelsDistinct` is about edits: none puts two pools with the same labels in place. A start puts in
  place what its migration makes of the saved pools without checking them (`SameLabels.cfg`).
- Of two edits that overlap the later one puts the whole of its pools in place, so a change of the
  first is lost, but never half of it (`SavedIsServed`).
- `PlanCarriedOut` lets creations fall short of the wish of a target when the slots or the names are
  used up, or when its connection did not answer.
- `JobsStayServed` says that a job has a pool after the migration, not that it is the same pool; and
  the aliases of a built-in pool that is dropped as a copy are lost if it had any of its own.

## Fairness

`Reconciler`: weak fairness of the cycle as a whole (`run` comes back after every interval and Docker
and GitHub answer in the end), which begins a cycle only while `running` holds and carries on one that
has begun, of each runner's registering, taking a job, finishing and exiting,
and strong fairness of an idle timer elapsing, since time passes between cycles only in the model.
No error, edit, crash or loss is fair. `DemandTracker`: weak fairness of the run loop, strong
fairness of the full sweep (its interval elapses again and again), and of jobs getting old. Failed
polls and crashes are bounded by `MaxFaults`: with infinitely many nothing could be promised.

`Janitor`: weak fairness of time, of a teardown's and a cleanup's next request; strong fairness of
the loop coming round to a runner that ended and to its maintenance, because a teardown, a crash or
another cleanup disables them for a while, and of the loop getting the cleanup lock, which
`asyncio.Lock` hands to its waiters in turn. `GitHubClient`: weak fairness of time, of each call's
own steps (`httpx` has a timeout) and of the administrator following GitHub's redirect after a
reinstallation; strong fairness of taking the token lock, for the same reason as above.
`Connections` and `PoolSettings` state safety only.

## Proofs

Every theorem holds for all values of the constants that satisfy the module's named assumptions.

`ReconcilerProofs`, for every set of runners, pools, targets, connections and every choice of `Events`,
from `TargetAssumption` and `ReconcilerAssumption`:

- `Invariance`, `TypesHold`: `Spec => []TypeOK`. Its arithmetic part is that deficits and slots are
  natural numbers, which rests on `DeficitType` and `SlotsFit`.
- `CapacityHolds`: `Spec => []CapacityInv`. This is the strengthening the maximum needs. "A creation
  stays under the maximum" is not inductive: it depends on the count of `live` being the count of
  containers, which was established by a listing several steps before. `CapacityInv` says how long
  that lasts: during classification every container is either still listed or in `live`; until a pool
  has been scaled all its containers are in `live` (containers appear only in the pool being scaled,
  and the one a failed creation leaves behind closes that pool's plan); pools are fixed while the
  lock is held; the unused slots fit under the maximum.
- `MaximumHolds`: `Spec => CreateWithinMax`, from the two and from `LaunchFits`.

- `LoopImplementsFleet` is the refinement of `Fleet`, one lemma per action; a creation maps to `Start` by
  `CapacityInv`, the removal of a group to `Stop`, and `Forget` needs that a name being deleted has no
  container, which `ContainersSpared` states by itself: what is deleted was in no list of this cycle,
  and new names are unknown to GitHub.

`ScaleDownProofs`: `WorkersAreKept` and `PlanIsCarriedOut`, from one invariant (`Retention`) of three parts.
`WorkInv` carries what a cycle knows of runners that were busy when it began (`steady`): busy on GitHub,
listed, then known as busy to the cycle when its connection answered. `WishKept` says that what is still
owed to a target and the capacity it has do not exceed its wish as long as anything is owed, and make
it up unless its connection did not answer: that is what makes creations stop at the wish and not before.
`RetireInv` says of the runners about to be retired that they are idle and beyond the wish, which needs
that the counts of starting, idle and busy runners of a target add up to its fleet (`StatesAdd`) and
that the allowance covers the wish (`AllowanceCovers`).

`CreationPlanProofs`, for any number of targets, any queue and any fleet: `Total` is the cardinality of a
set of units, and the lemmas on it (`TotalMonotonic`, `TotalSum`, `TotalBump`, `TotalOccurrences`) replace
induction over targets.

- `PlanCoversReference`: a finished plan grants at least what `calculate_scale` asks for and fits under
  the maximum. The invariant is `Balance`: granted and still owed add up to the deficit of a target,
  granted and still free to the room of the pool. A plan ends with nothing owed or nothing free, and the
  wishes of the targets add up to at least the target of `calculate_scale` (`WishCoversTarget`).
- `PlanAgreesForSoleTarget`: with one target both create the same number of runners and, as long as the
  wish fits under the maximum, retire the same number.
- `PlanServesOldestFirst`: in a pool without idle or starting runners. The invariant is `InOrder`: some
  p oldest jobs are dealt with, every target having been granted as many as it has among them, and no
  more while any job is left. "No younger job first" is not inductive without that p.

`DemandTrackerProofs`: `TypesHold`, `DemandHolds` (`OnTheWay`: events and answers under way were true when
GitHub gave them and jobs never go back), and `LoopGoesOn` (`JobsHavePools`: without removals every
recorded job has a configured pool, so `queued_counts` finds it; of the two exceptions of `status()`
the other one is excluded by `Unreadable = {}`).

`ConnectionsProofs`: one invariant, `Inv == TypeOK /\ Setups /\ Store`, from which every property of the
run follows. `Setups` ties a one-time state to at most one handler and to a connection without a row;
`Store` has the rows' secrets, unique owners, what is gone for good, and how far the migration came.
`RegistryImplemented` is the refinement of `ConnectionRegistry`: the write that makes or ends a connection is
its step, every other write and every crash is a stutter or withdraws setups. It needs besides that a
connection of the environment has its row by the time a validation lists its repositories, and that
such a row never goes (`Checked`, `EnvRowsStay`): so a listing that fails takes an installation back
and does not make a registered connection of nothing.

`GitHubClientProofs`: the shape of a call (attempts, retried, who holds the lock) gives `RetriesAskAnew`;
`BackoffDoubles` and `PausesAreKept` are about the shared numbers.

`JanitorProofs`: the shape of teardown and cleanup; `LiveSpared` from "what is eligible is old enough to
have been there before the list of containers, so its runner was already listed as not running"
(assuming `Prefixed = {}`); `OnePassIsEnough` from the order of removals.

`PoolSettingsProofs`: `VariantsAreKept`, `OriginalIsKept`, `SavedAreServed`, and `JobsAreServed`, which assumes
`BareInputs` (built-in pools left as they were have no aliases of their own). That `match_pool` finds a
first element is proved by counting predecessors, since the order is given by three fields.
`EditsKeepLabelsDistinct`: what a request waits to put in place has passed the check (`Checked`), and
what it puts in place is that, whatever came first.

Only model-checked: liveness (`OldestJobServed`, `MinimumRestored`, `OrphansReaped`, `GhostsPurged`,
`DemandRestored`, `LeftoversReaped`, `CallsEnd`, `ServiceRestored`), since fairness and `ENABLED` are
outside the prover. Every other property of a passing run is a theorem.

## What is abstracted or left out

- Time: an age, a timer or `last_seen` only says whether its deadline has passed; time passes
  between cycles, since `now` is read once per cycle. The order in which the idle runners of a target
  are retired is left open. `Janitor` counts ages in units of the grace period, `GitHubClient` pauses in
  units of the first backoff of 60 s.
- `Reconciler` takes the memory of every pool as a byte size (`DemandTracker` does not). Errors of the
  database or of the files of the connection store, which `status()` and `poll_demand` read too, are
  not modelled anywhere. A job that `Unmatch` drops from a removed pool comes back to another pool, if
  one has its labels, as a job that arrives.
- The idle time of a runner whose connection failed is copied from the previous cycle in the code;
  the model reads the timer, which holds the same value unless the runner was seen busy in between.
- Pools are scaled and containers classified in any order. The requests of one discovery are
  answered at one moment; in `DemandTracker` they are not. A run has one job.
- The adoption of containers without a connection label, the docker ping and the length of a page of
  runners are left out.
- `queue` in `Reconciler` is the tracker seen by the cycle: a job is removed when it is assigned, or
  stays when its webhook was lost (`lag`).
- `Janitor` takes resource cleanup as enabled and gives a runner one resource of a kind.
- `PoolSettings` imports the pools of the configuration file; the YAML of a request may hold any. The
  runners on which a removal is refused are not its state: any edit may be refused.
- `GitHubClient` leaves out the repository cache and the request statistics; one connection is
  modelled, connections share nothing but GitHub.
- `Connections` has the fields of a row that decide something; names and permissions are left out.
  The environment names each owner once (the code keeps the first of several items for one owner,
  `github.py` 178-181), and a setup request has a new id, as the dashboard and the default of
  `models.py` 173 give it; the API would also take the id of a stored connection.

## Not modelled

- Notifications: nothing depends on them. The cooldown is checked before an await and recorded after
  it, so two failures at the same time may send two messages; it is listed as a hazard.
- Sessions, API tokens and the login throttle: each operation is one step without an await.
- The workflow adoption scan: an estimate for the dashboard that changes nothing but its cache.
- Metrics, the command line, the dashboard: presentation.
- Inside modelled parts: environment, image and log pruning of the Docker manager, webhook
  signatures and scope checks, history and the other settings of the database, HTTP middleware.

## What could come next

- One composition of `DemandTracker` and `Reconciler` in place of `queue`.
- `CreationPlan` as the abstraction of one pool's creations in `Reconciler`, so that its theorems speak of the cycle.
- Two instances on one host in a passing run of `Janitor`, once their prefixes cannot overlap.
