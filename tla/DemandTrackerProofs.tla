-------------------------- MODULE DemandTrackerProofs --------------------------
(***************************************************************************)
(* The demand tracker, for every set of jobs, pools, repositories and      *)
(* pollers: its types, that demand is never invented, and what alone ends  *)
(* the run loop.                                                           *)
(***************************************************************************)
EXTENDS DemandTracker, WellFoundedInduction, TLAPS

USE DemandTrackerAssumption

---------------------------------------------------------------------------
(* match_pool *)

\* A nonempty set of natural numbers has a least element.
LEMMA LeastPool ==
  ASSUME NEW T, T \subseteq Nat, T # {}
  PROVE  \E x \in T : \A y \in T : x <= y
<1>1. PICK R : R = OpToRel(<, Nat)
  OBVIOUS
<1>2. IsWellFoundedOn(R, Nat)
  BY <1>1, NatLessThanWellFounded, Zenon
<1>3. \A x, y \in Nat : x < y => <<x, y>> \in R
  BY <1>1 DEF OpToRel
<1>4. PICK x \in T : \A y \in T : <<y, x>> \notin R
  BY <1>2, WFMin
<1>5. \A y \in T : x <= y
  <2> TAKE y \in T
  <2>1. x \in Nat /\ y \in Nat /\ ~ (y < x)
    BY <1>3, <1>4
  <2> QED
    BY <2>1
<1> QED
  BY <1>5

\* A job is matched with a configured pool or with none (models.py, match_pool).
LEMMA Matched ==
  ASSUME NEW j \in Job, NEW C, C \subseteq Pool
  PROVE  match_pool(j, C) \in C \cup {NoPool}
<1> DEFINE candidates == Suits[j] \cap C
<1>1. CASE candidates = {}
  BY <1>1 DEF match_pool
<1>2. CASE candidates # {}
  <2>1. candidates \subseteq Nat
    OBVIOUS
  <2>2. \E p \in candidates : \A q \in candidates : p <= q
    <3> HIDE DEF candidates
    <3> QED
      BY <1>2, <2>1, LeastPool
  <2>3. match_pool(j, C) \in candidates
    BY <1>2, <2>2 DEF match_pool
  <2> QED
    BY <2>3
<1> QED
  BY <1>1, <1>2

---------------------------------------------------------------------------
(* The inductive invariant *)

\* What is on its way to the tracker was true when GitHub said it: events that are
\* under way, and the answers of polls that wait for their last request.
Reported(j, action) ==
  /\ action = "queued" => github[j] # "none"
  /\ action = "in_progress" => github[j] \in {"in_progress", "completed"}
OnTheWay ==
  /\ \A j \in Job, action \in Action : <<j, action>> \in sent => Reported(j, action)
  /\ \A q \in Poller : \A j \in poll[q].pending \cup poll[q].answer : github[j] # "none"

\* Recorded jobs wait for pools that are there.
JobsHavePools == "removal" \notin Events => \A j \in Job : jpool[j] \in pools \cup {NoPool}

Inv == TypeOK /\ OnTheWay /\ DemandIsReal /\ JobsHavePools /\ LoopEndsByEdit

LEMMA InitInv == Init => Inv
BY DEF Init, Inv, TypeOK, OnTheWay, DemandIsReal, JobsHavePools, LoopEndsByEdit, NoPoll

\* Only the status of jobs on GitHub moves, and never backwards.
LEMMA GitHubKeeps ==
  ASSUME Inv, NEW j \in Job, JobQueued(j) \/ JobStarts(j) \/ JobCompletes(j)
  PROVE  Inv'
<1>1. PICK new \in Action :
        /\ Becomes(j, new)
        /\ new = "queued" => github[j] = "none"
        /\ new = "in_progress" => github[j] = "queued"
        /\ new = "completed" => github[j] \in {"queued", "in_progress"}
  BY DEF JobQueued, JobStarts, JobCompletes, Action
<1>2. /\ github' = [github EXCEPT ![j] = new] /\ sent' = sent \cup {<<j, new>>}
      /\ UNCHANGED <<claimed, pools, status, jpool, seen, poll, loop, faults>>
  BY <1>1 DEF Becomes, tracker
<1>3. TypeOK'
  BY <1>2 DEF Inv, TypeOK, Event
<1>4. \A i \in Job : /\ i # j => github'[i] = github[i]
                     /\ i = j => github'[i] = new
  BY <1>2 DEF Inv, TypeOK
<1>5. \A i \in Job, action \in Action : Reported(i, action) => Reported(i, action)'
  BY <1>1, <1>4 DEF Reported, Action
<1>6. \A i \in Job : github[i] # "none" => github'[i] # "none"
  BY <1>1, <1>4 DEF Action
<1>7. OnTheWay'
  <2>1. Reported(j, new)'
    BY <1>4 DEF Reported, Action
  <2>2. ASSUME NEW i \in Job, NEW action \in Action, <<i, action>> \in sent'
        PROVE  Reported(i, action)'
    BY <1>2, <1>5, <2>1, <2>2 DEF Inv, OnTheWay
  <2>3. \A q \in Poller : \A i \in poll'[q].pending \cup poll'[q].answer : github'[i] # "none"
    BY <1>2, <1>6 DEF Inv, OnTheWay, TypeOK
  <2> QED
    BY <2>2, <2>3 DEF OnTheWay
<1>8. DemandIsReal'
  BY <1>1, <1>2, <1>4, <1>6 DEF Inv, DemandIsReal, Action
<1>9. JobsHavePools' /\ LoopEndsByEdit'
  BY <1>2 DEF Inv, JobsHavePools, LoopEndsByEdit
<1> QED
  BY <1>3, <1>7, <1>8, <1>9 DEF Inv

\* Events are lost, and repeated when their delivery is not remembered.
LEMMA NetworkKeeps ==
  ASSUME Inv, NEW e \in Event, Lose(e) \/ Retention(e)
  PROVE  Inv'
<1>1. /\ sent' \subseteq sent /\ claimed' \subseteq claimed \cup sent
      /\ UNCHANGED <<github, pools, status, jpool, seen, poll, loop>>
      /\ faults' = faults \/ (faults < MaxFaults /\ faults' = faults + 1)
  BY DEF Lose, Retention, Fault, tracker
<1>2. TypeOK'
  BY <1>1 DEF Inv, TypeOK
<1>3. OnTheWay'
  BY <1>1 DEF Inv, OnTheWay, Reported
<1>4. DemandIsReal' /\ JobsHavePools' /\ LoopEndsByEdit'
  BY <1>1 DEF Inv, DemandIsReal, JobsHavePools, LoopEndsByEdit
<1> QED
  BY <1>2, <1>3, <1>4 DEF Inv

\* A webhook records what GitHub said, in a pool that is there.
LEMMA WebhookKeeps ==
  ASSUME Inv, NEW e \in Event, handle_webhook(e)
  PROVE  Inv'
<1>0. e[1] \in Job /\ e[2] \in Action /\ e = <<e[1], e[2]>>
  BY DEF Event
<1>1. PICK j \in Job, action \in Action : e = <<j, action>>
  BY <1>0, Zenon
<1>2. /\ e \in sent /\ claimed' = claimed \cup {e}
      /\ UNCHANGED <<github, sent, pools, poll, loop, faults>>
      /\ IF action = "completed" THEN Forgets(j) ELSE Records(j, action)
  BY <1>1 DEF handle_webhook
<1>3. Reported(j, action)
  BY <1>1, <1>2 DEF Inv, OnTheWay
<1>4. pools \subseteq Pool
  BY DEF Inv, TypeOK
<1>5. match_pool(j, pools) \in pools \cup {NoPool}
  BY <1>4, Matched
<1>6. CASE action = "completed"
  <2>1. Forgets(j)
    BY <1>2, <1>6
  <2>2. TypeOK'
    BY <1>2, <2>1 DEF Inv, TypeOK, Forgets
  <2>3. DemandIsReal' /\ JobsHavePools'
    BY <1>2, <2>1 DEF Inv, TypeOK, Forgets, DemandIsReal, JobsHavePools
  <2> QED
    BY <1>2, <2>2, <2>3 DEF Inv, OnTheWay, Reported, LoopEndsByEdit
<1>7. CASE action # "completed"
  <2>1. Records(j, action) /\ action \in {"queued", "in_progress"}
    BY <1>2, <1>7 DEF Action
  <2>2. TypeOK'
    BY <1>2, <1>4, <1>5, <2>1 DEF Inv, TypeOK, Records
  <2>3. DemandIsReal'
    BY <1>2, <1>3, <2>1 DEF Inv, TypeOK, Records, DemandIsReal, Reported
  <2>4. JobsHavePools'
    BY <1>2, <1>5, <2>1 DEF Inv, TypeOK, Records, JobsHavePools
  <2> QED
    BY <1>2, <2>2, <2>3, <2>4 DEF Inv, OnTheWay, Reported, LoopEndsByEdit
<1> QED
  BY <1>6, <1>7

\* A poll asks for what GitHub holds in its queue.
LEMMA AskKeeps ==
  ASSUME Inv, NEW q \in Poller, NEW repos, Asks(q, repos)
  PROVE  Inv'
<1>1. /\ poll' = [poll EXCEPT ![q] = [pending |-> Listed(repos), answer |-> {}, on |-> TRUE]]
      /\ UNCHANGED <<github, sent, claimed, pools, status, jpool, seen, loop, faults>>
  BY DEF Asks, tracker
<1>2. Listed(repos) \subseteq Job /\ \A j \in Listed(repos) : github[j] = "queued"
  BY DEF Listed
<1>3. TypeOK'
  BY <1>1, <1>2 DEF Inv, TypeOK
<1>4. OnTheWay'
  BY <1>1, <1>2 DEF Inv, OnTheWay, Reported, TypeOK
<1> QED
  BY <1>1, <1>3, <1>4 DEF Inv, DemandIsReal, JobsHavePools, LoopEndsByEdit

\* The answers come in or are missing.
LEMMA AnswerKeeps ==
  ASSUME Inv, NEW q \in Poller, (\E j \in Job : Read(q, j)) \/ (\E r \in Repo : ReadFails(q, r))
  PROVE  Inv'
<1> DEFINE Polls == [Poller -> [pending : SUBSET Job, answer : SUBSET Job, on : BOOLEAN]]
<1>1. /\ poll' \in Polls
      /\ \A p \in Poller : poll'[p].pending \cup poll'[p].answer \subseteq poll[p].pending \cup poll[p].answer
  <2>0. poll \in Polls
    BY DEF Inv, TypeOK
  <2>1. ASSUME NEW j \in Job, Read(q, j)
        PROVE  <1>1!:
    <3>1. CASE github[j] = "queued"
      BY <2>0, <2>1, <3>1 DEF Read
    <3>2. CASE github[j] # "queued"
      BY <2>0, <2>1, <3>2 DEF Read
    <3> QED
      BY <3>1, <3>2
  <2>2. ASSUME NEW r \in Repo, ReadFails(q, r)
        PROVE  <1>1!:
    <3> DEFINE jobs == {j \in Job : RepoOf[j] = r}
    <3>1. poll' = [poll EXCEPT ![q].pending = @ \ jobs, ![q].answer = @ \ jobs]
      BY <2>2 DEF ReadFails
    <3> HIDE DEF jobs
    <3> QED
      BY <2>0, <3>1
  <2> QED
    BY <2>1, <2>2
<1>2. /\ UNCHANGED <<github, sent, claimed, pools, status, jpool, seen, loop>>
      /\ faults' = faults \/ (faults < MaxFaults /\ faults' = faults + 1)
  BY DEF Read, ReadFails, Fault, tracker
<1>3. TypeOK'
  BY <1>1, <1>2 DEF Inv, TypeOK
<1>4. OnTheWay'
  BY <1>1, <1>2 DEF Inv, OnTheWay, Reported
<1> QED
  BY <1>2, <1>3, <1>4 DEF Inv, DemandIsReal, JobsHavePools, LoopEndsByEdit

\* A poll that is applied records what was queued; one that failed changes nothing.
LEMMA ReturnKeeps ==
  ASSUME Inv, NEW q \in Poller, apply_poll(q) \/ PollFails(q)
  PROVE  Inv'
<1>1. /\ poll' = [poll EXCEPT ![q] = NoPoll]
      /\ loop' = IF q = "loop" THEN "reconcile" ELSE loop
      /\ UNCHANGED <<github, sent, claimed, pools>>
      /\ faults' = faults \/ (faults < MaxFaults /\ faults' = faults + 1)
  BY DEF apply_poll, PollFails, Returns, Fault
<1>2. /\ poll' \in [Poller -> [pending : SUBSET Job, answer : SUBSET Job, on : BOOLEAN]]
      /\ loop' \in {"start", "poll", "reconcile", "dead"}
      /\ faults' \in 0..MaxFaults
  BY <1>1 DEF Inv, TypeOK, NoPoll
<1>3. OnTheWay' /\ LoopEndsByEdit'
  BY <1>1 DEF Inv, OnTheWay, Reported, TypeOK, NoPoll, LoopEndsByEdit
<1>4. CASE PollFails(q)
  <2>1. UNCHANGED <<status, jpool, seen>>
    BY <1>4 DEF PollFails, tracker
  <2>2. TypeOK'
    BY <1>1, <1>2, <2>1 DEF Inv, TypeOK
  <2> QED
    BY <1>1, <1>3, <2>1, <2>2 DEF Inv, DemandIsReal, JobsHavePools
<1>5. CASE apply_poll(q)
  <2> DEFINE answer == poll[q].answer
             stale  == Stale(answer)
  <2>1. answer \subseteq Job /\ \A j \in answer : github[j] # "none"
    BY DEF Inv, TypeOK, OnTheWay
  <2>2. /\ status' = [j \in Job |-> CASE j \in answer -> "queued"
                                      [] j \in stale  -> "none"
                                      [] OTHER        -> status[j]]
        /\ jpool' = [j \in Job |-> IF j \in stale THEN NoPool ELSE Rematched(answer)[j]]
        /\ seen' = [j \in Job |-> CASE j \in answer -> "fresh"
                                    [] j \in stale  -> "unset"
                                    [] OTHER        -> seen[j]]
    BY <1>5 DEF apply_poll
  <2>3. pools \subseteq Pool
    BY DEF Inv, TypeOK
  <2>4. stale \subseteq Job \ answer
    BY DEF Stale
  <2>5. \A j \in Job : jpool'[j] = NoPool \/ jpool'[j] = jpool[j] \/ jpool'[j] \in pools \cup {NoPool}
    BY <2>2, <2>3, Matched DEF Rematched
  <2>6. jpool' \in [Job -> Pool \cup {NoPool}]
    <3>1. \A j \in Job : jpool'[j] \in Pool \cup {NoPool}
      BY <2>3, <2>5 DEF Inv, TypeOK
    <3> HIDE DEF stale, answer
    <3> QED
      BY <2>2, <3>1
  <2>7. \A j \in Job : \/ status'[j] = "queued" /\ seen'[j] = "fresh" /\ j \in answer
                       \/ status'[j] = "none" /\ seen'[j] = "unset"
                       \/ status'[j] = status[j] /\ seen'[j] = seen[j]
    <3> HIDE DEF stale
    <3> QED
      BY <2>2, <2>4
  <2>8. status' = [j \in Job |-> status'[j]] /\ seen' = [j \in Job |-> seen'[j]]
    <3> HIDE DEF stale, answer
    <3> QED
      BY <2>2
  <2>9. TypeOK'
    <3>1. status' \in [Job -> {"none", "queued", "in_progress"}]
      BY <2>7, <2>8 DEF Inv, TypeOK
    <3>2. seen' \in [Job -> {"unset", "fresh", "stale"}]
      BY <2>7, <2>8 DEF Inv, TypeOK
    <3>3. \A j \in Job : seen'[j] = "unset" <=> status'[j] = "none"
      BY <2>7 DEF Inv, TypeOK
    <3> QED
      BY <1>1, <1>2, <2>6, <3>1, <3>2, <3>3 DEF Inv, TypeOK
  <2>10. DemandIsReal'
    BY <1>1, <2>1, <2>7 DEF Inv, DemandIsReal
  <2>11. JobsHavePools'
    BY <1>1, <2>5 DEF Inv, JobsHavePools
  <2> QED
    BY <1>3, <2>9, <2>10, <2>11 DEF Inv
<1> QED
  BY <1>4, <1>5

\* The loop goes on as long as every recorded job waits for a pool that is there.
LEMMA LoopKeeps ==
  ASSUME Inv, reconcile \/ SkipPoll
  PROVE  Inv'
<1>1. UNCHANGED <<github, sent, claimed, pools, status, jpool, seen, poll, faults>>
  BY DEF reconcile, SkipPoll, tracker
<1>2. loop' \in {"poll", "reconcile", "dead"}
  BY DEF reconcile, SkipPoll
<1>3. LoopEndsByEdit'
  BY DEF Inv, reconcile, SkipPoll, LoopEndsByEdit, JobsHavePools, Unservable
<1>4. TypeOK'
  BY <1>1, <1>2 DEF Inv, TypeOK
<1> QED
  BY <1>1, <1>3, <1>4 DEF Inv, OnTheWay, Reported, DemandIsReal, JobsHavePools

\* Pools are added, or removed; jobs get old.
LEMMA SurroundingsKeep ==
  ASSUME Inv, (\E j \in Job : Elapse(j)) \/ (\E new \in SUBSET Pool : replace_pools(new))
  PROVE  Inv'
<1>1. /\ UNCHANGED <<github, sent, claimed, status, jpool, poll, loop, faults>>
      /\ pools' \subseteq Pool
      /\ "removal" \notin Events => pools \subseteq pools'
  BY DEF Elapse, replace_pools, tracker, Inv, TypeOK
<1>2. /\ seen' \in [Job -> {"unset", "fresh", "stale"}]
      /\ \A j \in Job : seen'[j] = "unset" <=> seen[j] = "unset"
  BY DEF Elapse, replace_pools, tracker, Inv, TypeOK
<1>3. TypeOK'
  BY <1>1, <1>2 DEF Inv, TypeOK
<1> QED
  BY <1>1, <1>3 DEF Inv, OnTheWay, Reported, DemandIsReal, JobsHavePools, LoopEndsByEdit

LEMMA CrashKeeps == Inv /\ Crash => Inv'
<1> SUFFICES ASSUME Inv, Crash PROVE Inv'
  OBVIOUS
<1>1. /\ UNCHANGED <<github, sent, pools>> /\ claimed' \subseteq claimed \cup sent
      /\ status' = [j \in Job |-> "none"] /\ jpool' = [j \in Job |-> NoPool]
      /\ seen' = [j \in Job |-> "unset"] /\ poll' = [q \in Poller |-> NoPoll]
      /\ loop' = "start" /\ faults < MaxFaults /\ faults' = faults + 1
  BY DEF Crash, Fault
<1>2. TypeOK'
  BY <1>1 DEF Inv, TypeOK, NoPoll
<1> QED
  BY <1>1, <1>2 DEF Inv, OnTheWay, Reported, DemandIsReal, JobsHavePools, LoopEndsByEdit, NoPoll

---------------------------------------------------------------------------

\* Every step keeps the invariant.
LEMMA StepKeeps == Inv /\ [Next]_vars => Inv'
<1> SUFFICES ASSUME Inv, [Next]_vars PROVE Inv'
  OBVIOUS
<1>1. CASE \E j \in Job : JobQueued(j) \/ JobStarts(j) \/ JobCompletes(j)
  BY <1>1, GitHubKeeps
<1>2. CASE \E e \in Event : Lose(e) \/ Retention(e)
  BY <1>2, NetworkKeeps
<1>3. CASE \E e \in Event : handle_webhook(e)
  BY <1>3, WebhookKeeps
<1>4. CASE \E q \in Poller : AskFull(q) \/ (q = "loop" /\ AskKnown)
  <2>1. PICK q \in Poller : AskFull(q) \/ (q = "loop" /\ AskKnown)
    BY <1>4
  <2>2. \E repos : Asks(q, repos)
    BY <2>1 DEF AskFull, AskKnown
  <2> QED
    BY <2>2, AskKeeps
<1>5. CASE \E q \in Poller : PollStep(q)
  BY <1>5, AnswerKeeps, ReturnKeeps DEF PollStep
<1>6. CASE reconcile \/ SkipPoll
  BY <1>6, LoopKeeps
<1>7. CASE (\E j \in Job : Elapse(j)) \/ (\E new \in SUBSET Pool : replace_pools(new))
  BY <1>7, SurroundingsKeep
<1>8. CASE Crash
  BY <1>8, CrashKeeps
<1>9. CASE UNCHANGED vars
  BY <1>9 DEF vars, tracker, Inv, TypeOK, OnTheWay, Reported, DemandIsReal, JobsHavePools,
              LoopEndsByEdit
<1> QED
  BY <1>1, <1>2, <1>3, <1>4, <1>5, <1>6, <1>7, <1>8, <1>9 DEF Next, LoopStep

\* Inv is an invariant of the tracker with its run loop.
THEOREM Invariance == Spec => []Inv
BY InitInv, StepKeeps, PTL DEF Spec

\* Every reachable state is type correct; a job has a time exactly when it is
\* recorded (demand.py 32-33).
THEOREM TypesHold == Spec => []TypeOK
BY Invariance, PTL DEF Inv

\* Demand is never invented, however webhooks and overlapping polls are lost,
\* repeated or reordered (demand.py 76-123).
THEOREM DemandHolds == Spec => []DemandIsReal
BY Invariance, PTL DEF Inv

\* status() does not end the run loop as long as no pool is removed and every pool's
\* memory is a byte size (scheduler.py 107-113, 294, 822-824).
THEOREM LoopGoesOn == Spec => []LoopEndsByEdit
BY Invariance, PTL DEF Inv
===============================================================================
