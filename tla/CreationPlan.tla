----------------------------- MODULE CreationPlan -----------------------------
(***************************************************************************)
(* The creation loop of one pool in one cycle, scheduler.py 549-692, for   *)
(* every small fleet and queue: what the per-target plan grants and        *)
(* retires, against calculate_scale, the pool-level decision the scheduler *)
(* module exports and the tests pin down.                                  *)
(***************************************************************************)
EXTENDS PoolScaling

CONSTANTS MaxJobs,    \* queued jobs of the pool
          MaxEach,    \* runners of one target in one state, and a manual floor
          MaxMin,     \* largest pool minimum
          MaxMax      \* largest pool maximum

ASSUME CreationPlanAssumption ==
  /\ MaxJobs \in Nat /\ MaxEach \in Nat
  /\ MaxMin \in Nat /\ MaxMax \in Nat
  /\ Target # {}

VARIABLES pool,       \* the fleet and the demand the cycle has read
          ordered,    \* queued targets still to be looked at
          deficit,    \* deficits
          slots,      \* available_slots not yet used
          granted     \* create_targets so far, counted by target

vars == <<pool, ordered, deficit, slots, granted>>

Small == [Target -> 0..MaxEach]
Pools == [queue : UNION {[1..n -> Target] : n \in 0..MaxJobs},
          busy : Small, starting : Small, idle : Small, floor : Small,
          min : 0..MaxMin, max : 0..MaxMax]

Have(q) == [t \in Target |-> q.busy[t] + q.starting[t] + q.idle[t]]
warm_target == CHOOSE t \in Target : \A u \in Target : t <= u
Wish(q) == Desired(q.queue, q.busy, q.floor, q.min, warm_target)

\* RunnerPoolConfig refuses a minimum above the maximum.
Init ==
  /\ pool \in {q \in Pools : q.min <= q.max}
  /\ ordered = pool.queue
  /\ deficit = Deficit(Wish(pool), Have(pool))
  /\ slots = Slots(pool.max, Total(Have(pool)))
  /\ granted = [t \in Target |-> 0]

\* One entry of create_targets[:available_slots].
Grant(t) ==
  /\ slots > 0 /\ FirstInLine(ordered, deficit, t)
  /\ granted' = [granted EXCEPT ![t] = @ + 1]
  /\ ordered' = Behind(ordered, deficit)
  /\ deficit' = [deficit EXCEPT ![t] = @ - 1]
  /\ slots' = slots - 1
  /\ UNCHANGED pool

Next == \E t \in Target : Grant(t)

Spec == Init /\ [][Next]_vars

---------------------------------------------------------------------------
Finished == slots = 0 \/ NoneInLine(deficit)

PoolTarget ==
  ReferenceTarget(pool.max, pool.min, Len(pool.queue), Total(pool.busy), Total(pool.floor))

RetiredOf(t) == Retired(pool.idle[t], IdleAllowance(Wish(pool)[t], pool.busy[t],
                                                    pool.starting[t] + granted[t]))

\* When the demand and the runners all belong to one target, the per-target plan
\* is calculate_scale: it creates exactly as many and, as long as the wish fits
\* under the maximum, retires exactly as many (scheduler.py 45-58 and 592-687).
SoleTargetAgrees ==
  \A t \in Target :
    /\ Finished
    /\ t = warm_target
    /\ \A i \in DOMAIN pool.queue : pool.queue[i] = t
    /\ \A u \in Target \ {t} : Have(pool)[u] = 0 /\ pool.floor[u] = 0
    => /\ granted[t] = ReferenceCreate(PoolTarget, pool.starting[t], pool.idle[t], pool.busy[t])
       /\ Wish(pool)[t] <= pool.max =>
            RetiredOf(t) = ReferenceExcess(PoolTarget, pool.starting[t],
                                           pool.idle[t], pool.busy[t])

\* With several targets the plan never creates less than calculate_scale asks
\* for, although idle runners of one target do not help another, and never more
\* than the maximum leaves room for.
CoversReference ==
  Finished =>
    /\ Total(granted) >= ReferenceCreate(Smaller(PoolTarget, pool.max), Total(pool.starting),
                                         Total(pool.idle), Total(pool.busy))
    /\ Total(granted) + Total(Have(pool)) <= Larger(pool.max, Total(Have(pool)))

\* Starting and idle runners serve the oldest jobs of their target, the granted
\* ones those behind; busy runners serve none.
Rank(i) == Cardinality({j \in 1..i : pool.queue[j] = pool.queue[i]})
Ready(i) == pool.starting[pool.queue[i]] + pool.idle[pool.queue[i]]
ServedBySlot ==
  {i \in DOMAIN pool.queue : Rank(i) \in (Ready(i) + 1)..(Ready(i) + granted[pool.queue[i]])}
LeftOut == {i \in DOMAIN pool.queue : Rank(i) > Ready(i) + granted[pool.queue[i]]}

\* src/README.md:323: "the oldest queued matching jobs receive available slots
\* first": no job is left without a runner while a slot served a younger one.
OldestJobsFirst ==
  Finished => \A i \in LeftOut, j \in ServedBySlot : j < i

\* So it is as long as the pool has no idle or starting runner when the cycle
\* plans (scheduler.py 612-619).
OldestJobsFirstWhenCold ==
  (\A t \in Target : pool.starting[t] + pool.idle[t] = 0) => OldestJobsFirst
===============================================================================
