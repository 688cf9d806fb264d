---------------------------- MODULE DemandTracker ----------------------------
(***************************************************************************)
(* What the manager believes about workflow jobs: DemandTracker fed by     *)
(* workflow_job webhooks, which GitHub sends once and which may be lost,   *)
(* late or reordered, and by REST polls, whose requests are spread over    *)
(* time and are applied after the last of them has been answered.          *)
(***************************************************************************)
EXTENDS Integers, FiniteSets

CONSTANTS Job,          \* workflow jobs, numbered as GitHub creates them, one per run
          Repo,         \* repositories of the App installations
          RepoOf,       \* [Job -> Repo]
          Pool,         \* pools, numbered by how well they fit (match_pool)
          NoPool,       \* no configured pool has every label
          Suits,        \* [Job -> SUBSET Pool]: the pools that have the job's labels
          InitPools,    \* the pools at first start
          Unreadable,   \* pools whose memory is no byte size, which nothing refuses
          Poller,       \* "loop" is Scheduler.run; others are HTTP requests
          RunsPerRepo,  \* poll_runs_per_repo
          MaxFaults,    \* bound on crashes and failed polls
          Events        \* which of the optional environment events happen

ASSUME DemandTrackerAssumption ==
  /\ Job \subseteq Nat /\ IsFiniteSet(Job)
  /\ RepoOf \in [Job -> Repo]
  /\ Pool \subseteq Nat /\ NoPool \notin Pool
  /\ Suits \in [Job -> SUBSET Pool]
  /\ InitPools \subseteq Pool /\ Unreadable \subseteq Pool
  /\ "loop" \in Poller
  /\ RunsPerRepo \in Nat \ {0} /\ MaxFaults \in Nat

VARIABLES
  github,      \* GitHub: the status of a job
  sent,        \* webhook events GitHub has sent and the network has not lost
  claimed,     \* the webhook_deliveries table
  pools,       \* settings.runner_pools and DemandTracker.pools
  status,      \* DemandTracker._jobs: the recorded status
  jpool,       \* and the recorded pool
  seen,        \* DemandTracker._last_seen against stale_after_seconds
  poll,        \* poll_demand of each poller, between its requests
  loop,        \* where Scheduler.run is
  faults       \* crashes and failed polls so far

tracker == <<status, jpool, seen>>
vars    == <<github, sent, claimed, pools, tracker, poll, loop, faults>>

Action == {"queued", "in_progress", "completed"}
Event  == Job \X Action
NoPoll == [pending |-> {}, answer |-> {}, on |-> FALSE]

\* match_pool: of the configured pools with every label, the best fit.
match_pool(j, configured) ==
  LET candidates == Suits[j] \cap configured
  IN  IF candidates = {} THEN NoPool
      ELSE CHOOSE p \in candidates : \A q \in candidates : p <= q

Init ==
  /\ github = [j \in Job |-> "none"]
  /\ sent = {} /\ claimed = {}
  /\ pools = InitPools
  /\ status = [j \in Job |-> "none"]
  /\ jpool = [j \in Job |-> NoPool]
  /\ seen = [j \in Job |-> "unset"]
  /\ poll = [q \in Poller |-> NoPoll]
  /\ loop = "start" /\ faults = 0

---------------------------------------------------------------------------
(* GitHub *)

Becomes(j, new) ==
  /\ github' = [github EXCEPT ![j] = new]
  /\ sent' = sent \cup {<<j, new>>}
  /\ UNCHANGED <<claimed, pools, tracker, poll, loop, faults>>

JobQueued(j) == /\ github[j] = "none"
                /\ \A i \in Job : i < j => github[i] # "none"
                /\ Becomes(j, "queued")
JobStarts(j) == github[j] = "queued" /\ Becomes(j, "in_progress")
\* Finished, or cancelled while queued.
JobCompletes(j) == github[j] \in {"queued", "in_progress"} /\ Becomes(j, "completed")

\* A delivery that fails is not repeated by GitHub.
Lose(e) ==
  /\ "loss" \in Events /\ e \in sent \ claimed
  /\ sent' = sent \ {e}
  /\ UNCHANGED <<github, claimed, pools, tracker, poll, loop, faults>>

---------------------------------------------------------------------------
(* Webhooks *)

ForgetsJobOnly(j) ==
  /\ status' = [status EXCEPT ![j] = "none"]
  /\ jpool' = [jpool EXCEPT ![j] = NoPool]
  /\ UNCHANGED seen
Forgets(j) ==
  /\ status' = [status EXCEPT ![j] = "none"]
  /\ jpool' = [jpool EXCEPT ![j] = NoPool]
  /\ seen' = [seen EXCEPT ![j] = "unset"]

\* A job whose labels match no pool keeps the pool recorded for it before.
Records(j, new) ==
  /\ status' = [status EXCEPT ![j] = new]
  /\ jpool' = [jpool EXCEPT ![j] =
                 IF match_pool(j, pools) = NoPool THEN @ ELSE match_pool(j, pools)]
  /\ seen' = [seen EXCEPT ![j] = "fresh"]

\* A delivery is claimed before it is handled: one that comes again, in
\* whatever order, is answered as a duplicate and changes nothing.
handle_webhook(e) ==
  /\ e \in sent \ claimed
  /\ claimed' = claimed \cup {e}
  /\ IF e[2] = "completed" THEN Forgets(e[1]) ELSE Records(e[1], e[2])
  /\ UNCHANGED <<github, sent, pools, poll, loop, faults>>

---------------------------------------------------------------------------
(* Polls *)

\* The runs a repository lists as queued: one page, the latest runs first.
Listed(repos) ==
  {j \in Job : /\ github[j] = "queued" /\ RepoOf[j] \in repos
               /\ Cardinality({i \in Job : /\ i > j /\ github[i] = "queued"
                                           /\ RepoOf[i] = RepoOf[j]}) < RunsPerRepo}

KnownRepos == {RepoOf[j] : j \in {i \in Job : status[i] # "none"}}

Asks(q, repos) ==
  /\ ~poll[q].on
  /\ poll' = [poll EXCEPT ![q] = [pending |-> Listed(repos), answer |-> {}, on |-> TRUE]]
  /\ UNCHANGED <<github, sent, claimed, pools, tracker, loop, faults>>

\* Scheduler.run starts with a full sweep; HTTP requests ask for one any time.
SweepKnown == KnownRepos
Sweep == Repo
AskFull(q) == (q = "loop" => loop \in {"start", "poll"}) /\ Asks(q, Sweep)
AskKnown == loop = "poll" /\ KnownRepos # {} /\ Asks("loop", KnownRepos)

\* The jobs of a run are asked for after the runs have been listed.
Read(q, j) ==
  /\ j \in poll[q].pending
  /\ poll' = [poll EXCEPT ![q].pending = @ \ {j},
                          ![q].answer = IF github[j] = "queued" THEN @ \cup {j} ELSE @]
  /\ UNCHANGED <<github, sent, claimed, pools, tracker, loop, faults>>

Fault == faults < MaxFaults /\ faults' = faults + 1

\* A repository whose request fails is left out without an error.
ReadFails(q, r) ==
  /\ "github" \in Events /\ poll[q].on /\ Fault
  /\ LET jobs == {j \in Job : RepoOf[j] = r}
     IN  poll' = [poll EXCEPT ![q].pending = @ \ jobs, ![q].answer = @ \ jobs]
  /\ UNCHANGED <<github, sent, claimed, pools, tracker, loop>>

Returns(q) ==
  /\ poll' = [poll EXCEPT ![q] = NoPoll]
  /\ loop' = IF q = "loop" THEN "reconcile" ELSE loop

\* Every connection failed: nothing is applied.
PollFails(q) ==
  /\ "github" \in Events /\ poll[q].on /\ Fault
  /\ Returns(q)
  /\ UNCHANGED <<github, sent, claimed, pools, tracker>>

\* apply_poll: the answer overwrites what is recorded; then the jobs recorded as
\* queued and not seen for long are dropped.
StaleNever(answer) == {}
Stale(answer) == {j \in Job \ answer : seen[j] = "stale" /\ status[j] = "queued"}

RematchedOnce(answer) ==
  [j \in Job |-> IF j \in answer /\ status[j] = "none" THEN match_pool(j, pools) ELSE jpool[j]]
Rematched(answer) ==
  [j \in Job |-> IF j \in answer THEN match_pool(j, pools) ELSE jpool[j]]

apply_poll(q) ==
  /\ poll[q].on /\ poll[q].pending = {}
  /\ LET answer == poll[q].answer
         stale  == Stale(answer)
     IN  /\ status' = [j \in Job |-> CASE j \in answer -> "queued"
                                       [] j \in stale  -> "none"
                                       [] OTHER        -> status[j]]
         /\ jpool' = [j \in Job |-> IF j \in stale THEN NoPool ELSE Rematched(answer)[j]]
         /\ seen' = [j \in Job |-> CASE j \in answer -> "fresh"
                                     [] j \in stale  -> "unset"
                                     [] OTHER        -> seen[j]]
  /\ Returns(q)
  /\ UNCHANGED <<github, sent, claimed, pools, faults>>

---------------------------------------------------------------------------
(* The run loop, the pools, time and crashes *)

\* status(), outside the try of Scheduler.reconcile, ends Scheduler.run when it
\* raises: queued_counts has no entry for a pool that has been removed, and the
\* memory of each pool is parsed, provided that Docker describes the host.
Unservable(j) == status[j] = "queued" /\ jpool[j] \notin pools \cup {NoPool}

reconcile ==
  /\ loop = "reconcile"
  /\ \/ /\ (\E j \in Job : Unservable(j)) \/ pools \cap Unreadable # {}
        /\ loop' = "dead"
     \/ /\ \A j \in Job : ~Unservable(j)
        /\ loop' = "poll"
  /\ UNCHANGED <<github, sent, claimed, pools, tracker, poll, faults>>

\* No poll is due.
SkipPoll ==
  /\ loop = "poll" /\ ~poll["loop"].on
  /\ loop' = "reconcile"
  /\ UNCHANGED <<github, sent, claimed, pools, tracker, poll, faults>>

\* replace_pools asks whether the pools it removes have runners, not whether
\* they have jobs; recorded jobs keep their pool.
replace_pools(new) ==
  /\ "pools" \in Events /\ new # pools
  /\ pools \subseteq new \/ "removal" \in Events
  /\ pools' = new
  /\ UNCHANGED <<github, sent, claimed, tracker, poll, loop, faults>>

Elapse(j) ==
  /\ seen[j] = "fresh"
  /\ seen' = [seen EXCEPT ![j] = "stale"]
  /\ UNCHANGED <<github, sent, claimed, pools, status, jpool, poll, loop, faults>>

\* claim_delivery keeps a delivery for retention_hours; after that an operator
\* may have GitHub repeat it.
Retention(e) ==
  /\ "retention" \in Events /\ e \in claimed /\ Fault
  /\ claimed' = claimed \ {e}
  /\ UNCHANGED <<github, sent, pools, tracker, poll, loop>>

\* The tracker is memory only.  A crash may come between the claim of a
\* delivery, which is on disk, and its handling.
Crash ==
  /\ "crash" \in Events /\ Fault
  /\ \/ UNCHANGED claimed
     \/ \E e \in sent \ claimed : claimed' = claimed \cup {e}
  /\ status' = [j \in Job |-> "none"]
  /\ jpool' = [j \in Job |-> NoPool]
  /\ seen' = [j \in Job |-> "unset"]
  /\ poll' = [q \in Poller |-> NoPoll]
  /\ loop' = "start"
  /\ UNCHANGED <<github, sent, pools>>

PollStep(q) ==
  \/ apply_poll(q) \/ PollFails(q)
  \/ \E j \in Job : Read(q, j)
  \/ \E r \in Repo : ReadFails(q, r)

LoopStep == reconcile \/ SkipPoll \/ AskKnown \/ AskFull("loop") \/ PollStep("loop")

Next ==
  \/ \E j \in Job : JobQueued(j) \/ JobStarts(j) \/ JobCompletes(j) \/ Elapse(j)
  \/ \E e \in Event : Lose(e) \/ handle_webhook(e) \/ Retention(e)
  \/ LoopStep
  \/ \E q \in Poller \ {"loop"} : AskFull(q) \/ PollStep(q)
  \/ \E new \in SUBSET Pool : new # {} /\ replace_pools(new)
  \/ Crash

Spec == Init /\ [][Next]_vars

\* The loop comes back after every interval, both poll intervals elapse again
\* and again, and a recorded job eventually gets old.
Fairness ==
  /\ WF_vars(LoopStep)
  /\ SF_vars(AskFull("loop"))
  /\ \A j \in Job : WF_vars(Elapse(j))

FairSpec == Spec /\ Fairness

---------------------------------------------------------------------------
(* Properties *)

\* Types; a job is recorded with a time exactly when it is recorded
\* (demand.py 32-33, 91-92, 113-114, 122-123).
TypeOK ==
  /\ github \in [Job -> {"none"} \cup Action]
  /\ claimed \subseteq Event /\ sent \subseteq Event
  /\ pools \subseteq Pool
  /\ status \in [Job -> {"none", "queued", "in_progress"}]
  /\ jpool \in [Job -> Pool \cup {NoPool}]
  /\ seen \in [Job -> {"unset", "fresh", "stale"}]
  /\ \A j \in Job : seen[j] = "unset" <=> status[j] = "none"
  /\ poll \in [Poller -> [pending : SUBSET Job, answer : SUBSET Job, on : BOOLEAN]]
  /\ loop \in {"start", "poll", "reconcile", "dead"}
  /\ faults \in 0..MaxFaults

\* "REST polling repairs missed events and restores demand after restart"
\* (src/README.md:319): a job that GitHub holds in its queue is eventually
\* recorded as queued, for the pool that fits it best at that moment, however
\* many of its webhooks were lost, late or dropped by a crash.
DemandRestored ==
  \A j \in Job : (github[j] = "queued") ~>
    \/ github[j] # "queued"
    \/ status[j] = "queued" /\ jpool[j] = match_pool(j, pools)

\* A job recorded as queued that has left GitHub's queue does not ask for a
\* runner for ever, although late webhooks and answers read before it left
\* record it again (demand.py 111-123).
GhostsPurged ==
  \A j \in Job : (status[j] = "queued" /\ github[j] \in {"in_progress", "completed"})
                   ~> (status[j] # "queued")

\* A demand for runners is never invented: a job recorded as queued has been queued
\* on GitHub, one recorded as in progress has left the queue, in whatever order late
\* and repeated webhooks and the answers of overlapping polls come in
\* (demand.py 76-123).
DemandIsReal ==
  \A j \in Job :
    /\ status[j] = "queued" => github[j] # "none"
    /\ status[j] = "in_progress" => github[j] \in {"in_progress", "completed"}

\* Of the two exceptions of status(), neither ends the run loop while no pool is
\* removed and every pool's memory can be parsed: a job never waits for a pool that
\* has not been there (scheduler.py 107-113, 294, 822-824; docker.py 734-737).
LoopEndsByEdit == "removal" \notin Events /\ Unreadable = {} => loop # "dead"

\* src/README.md:319, the same sentence, for the end of a job: a job that has
\* completed is eventually forgotten, also when that event was missed.
MissedCompletionRepaired ==
  \A j \in Job : (github[j] = "completed") ~> (status[j] = "none")

\* src/README.md:319: "The default full sweep runs every 15 minutes".
FullSweepsKeepRunning == []<><<AskFull("loop")>>_vars
==============================================================================
