----------------------------- MODULE PoolScaling -----------------------------
(***************************************************************************)
(* The arithmetic of one pool's scaling decision, scheduler.py 549-687:    *)
(* how much capacity each registration target is owed, which targets get   *)
(* the free slots and in which order, and how many idle runners of a       *)
(* target may be retired.  A target is a (connection, repository) pair,    *)
(* numbered in the order the code sorts them by.                           *)
(***************************************************************************)
EXTENDS Integers, Sequences, FiniteSets

CONSTANTS Target,    \* the (connection, repository) pairs, as numbers
          NoTarget   \* no connection offers a default target

ASSUME TargetAssumption == Target \subseteq Nat /\ IsFiniteSet(Target) /\ NoTarget \notin Target

Larger(a, b) == IF a >= b THEN a ELSE b
Smaller(a, b) == IF a <= b THEN a ELSE b

\* Queued jobs keep the position they have in the queue: `ordered` is a function
\* from positions to targets, lower positions being older.

\* Counter(...)[t]: how often t occurs among the targets of queued jobs.
Occurrences(ordered, t) == Cardinality({i \in DOMAIN ordered : ordered[i] = t})

\* One unit per runner wanted: f[t] of them for target t.
Units(f) == UNION {{t} \X (1..f[t]) : t \in Target}
Total(f) == Cardinality(Units(f))

\* desired_by_target before the pool minimum: the busy runners and the queued
\* jobs of a target, or the manual floor when that is more.
Demanded(ordered, busy, floor) ==
  [t \in Target |-> Larger(busy[t] + Occurrences(ordered, t), floor[t])]

\* A minimum that the demand does not reach is owed by the default target.
DesiredBlind(ordered, busy, floor, min, warm) == Demanded(ordered, busy, floor)
Desired(ordered, busy, floor, min, warm) ==
  LET asked == Demanded(ordered, busy, floor)
      gap   == Larger(0, min - Total(asked))
  IN  [t \in Target |-> asked[t] + IF t = warm THEN gap ELSE 0]

\* What a target still lacks; starting containers count as capacity.
Deficit(desired, have) == [t \in Target |-> Larger(0, desired[t] - have[t])]

\* available_slots: the room left under the pool's maximum.
SlotsUnclamped(max, count) == max - count
SlotsUncapped(max, count) == max
Slots(max, count) == Larger(0, max - count)

\* create_targets, one entry at a time.  The oldest queued job whose target still
\* lacks a runner comes first, then the targets in sort order.
Pending(ordered, deficit) == {i \in DOMAIN ordered : deficit[ordered[i]] > 0}

FirstInLineBySort(ordered, deficit, t) ==
  deficit[t] > 0 /\ \A u \in Target : deficit[u] > 0 => t <= u
FirstInLine(ordered, deficit, t) ==
  /\ deficit[t] > 0
  /\ LET pending == Pending(ordered, deficit)
     IN  IF pending # {}
         THEN \E i \in pending : ordered[i] = t /\ \A j \in pending : i <= j
         ELSE \A u \in Target : deficit[u] > 0 => t <= u

\* The queued jobs behind the one that has just been dealt with.
Behind(ordered, deficit) ==
  [i \in {k \in DOMAIN ordered : \E j \in Pending(ordered, deficit) : j < k} |-> ordered[i]]

NoneInLine(deficit) == \A t \in Target : deficit[t] = 0

\* idle_allowance: the idle runners of a target that demand still needs.
IdleAllowanceAll(desired, busy, starting) == 0
IdleAllowance(desired, busy, starting) == Larger(0, desired - busy - starting)

\* How many of the `due` idle runners of a target are retired.
Retired(due, allowance) == Larger(0, due - allowance)

\* calculate_scale, lines 45-58: the decision for a pool with one target.
ReferenceTarget(max, min, queued, busy, floor) ==
  Smaller(max, Larger(min, Larger(busy + queued, floor)))
ReferenceCreate(target, starting, idle, busy) ==
  Larger(0, target - (starting + idle + busy))
ReferenceExcess(target, starting, idle, busy) ==
  Larger(0, idle - Larger(0, target - busy - starting))
==============================================================================
