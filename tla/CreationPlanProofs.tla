-------------------------- MODULE CreationPlanProofs --------------------------
(***************************************************************************)
(* For every fleet, queue and set of targets: the creation loop of a pool  *)
(* agrees with calculate_scale when there is one target and covers it when *)
(* there are several, and a pool without idle runners serves its oldest    *)
(* queued jobs first.                                                      *)
(***************************************************************************)
EXTENDS CreationPlan, FiniteSetTheorems, SequenceTheorems, TLAPS

USE TargetAssumption

---------------------------------------------------------------------------
(* Totals over targets *)

LEMMA UnitsMember ==
  ASSUME NEW f, NEW e
  PROVE  e \in Units(f) <=> \E t \in Target, k \in Int : k \in 1..f[t] /\ e = <<t, k>>
BY DEF Units

\* Finitely many are wanted.
LEMMA UnitsFinite ==
  ASSUME NEW f \in [Target -> Nat]
  PROVE  IsFiniteSet(Units(f)) /\ Total(f) \in Nat
<1> DEFINE S == {{t} \X (1..f[t]) : t \in Target}
           U == [t \in Target |-> {t} \X (1..f[t])]
<1>1. ASSUME NEW t \in Target
      PROVE  IsFiniteSet({t} \X (1..f[t]))
  <2>1. IsFiniteSet({t})
    BY FS_Singleton
  <2>2. f[t] \in Int
    OBVIOUS
  <2>3. IsFiniteSet(1..f[t])
    BY <2>2, FS_Interval
  <2> QED
    BY <2>1, <2>3, FS_Product
<1>2. U \in Surjection(Target, S)
  BY DEF Surjection
<1>3. \A T \in S : IsFiniteSet(T)
  BY <1>1
<1> HIDE DEF S, U
<1>4. IsFiniteSet(S)
  BY <1>2, FS_Surjection
<1>5. IsFiniteSet(UNION S)
  BY <1>3, <1>4, FS_UNION
<1> QED
  BY <1>5, FS_CardinalityType DEF Total, Units, S

\* What is wanted of every target at least, is wanted at least in all.
LEMMA TotalMonotonic ==
  ASSUME NEW f \in [Target -> Nat], NEW g \in [Target -> Nat],
         \A t \in Target : f[t] <= g[t]
  PROVE  Total(f) <= Total(g)
<1>1. Units(f) \subseteq Units(g)
  <2> SUFFICES ASSUME NEW t \in Target, NEW k \in 1..f[t]
               PROVE  <<t, k>> \in Units(g)
    BY UnitsMember
  <2>1. k \in 1..g[t]
    OBVIOUS
  <2> QED
    BY <2>1, UnitsMember
<1> QED
  BY <1>1, UnitsFinite, FS_Subset DEF Total

\* Totals add up.
LEMMA TotalSum ==
  ASSUME NEW f \in [Target -> Nat], NEW g \in [Target -> Nat]
  PROVE  Total([t \in Target |-> f[t] + g[t]]) = Total(f) + Total(g)
<1> DEFINE s == [t \in Target |-> f[t] + g[t]]
           R == Units(s) \ Units(f)
           h == [u \in Units(g) |-> <<u[1], f[u[1]] + u[2]>>]
<1>0. s \in [Target -> Nat] /\ \A t \in Target : s[t] = f[t] + g[t] /\ f[t] \in Nat /\ g[t] \in Nat
  OBVIOUS
<1> HIDE DEF s
<1>1. Units(f) \subseteq Units(s)
  <2> SUFFICES ASSUME NEW t \in Target, NEW k \in 1..f[t]
               PROVE  <<t, k>> \in Units(s)
    BY UnitsMember
  <2>1. k \in 1..s[t]
    BY <1>0
  <2> QED
    BY <2>1, UnitsMember
<1>2. ASSUME NEW t \in Target, NEW k \in 1..g[t]
      PROVE  <<t, f[t] + k>> \in R /\ h[<<t, k>>] = <<t, f[t] + k>>
  <2>1. f[t] + k \in 1..s[t] /\ f[t] + k \notin 1..f[t]
    BY <1>0
  <2>2. <<t, f[t] + k>> \in Units(s) /\ <<t, k>> \in Units(g)
    BY <2>1, UnitsMember
  <2>3. <<t, f[t] + k>> \notin Units(f)
    BY <2>1, UnitsMember
  <2> QED
    BY <2>2, <2>3
<1>3. ASSUME NEW e \in R
      PROVE  \E u \in Units(g) : h[u] = e
  <2>2. PICK t \in Target, k \in Int : k \in 1..s[t] /\ e = <<t, k>>
    BY UnitsMember
  <2>3. k \notin 1..f[t]
    BY <2>2, UnitsMember
  <2>4. k - f[t] \in 1..g[t] /\ f[t] + (k - f[t]) = k
    BY <1>0, <2>2, <2>3
  <2>5. <<t, k - f[t]>> \in Units(g)
    BY <2>4, UnitsMember
  <2> QED
    BY <1>2, <2>2, <2>4, <2>5
<1>4. h \in Bijection(Units(g), R)
  <2>1. ASSUME NEW u \in Units(g)
        PROVE  h[u] \in R
    <3>1. PICK t \in Target, k \in Int : k \in 1..g[t] /\ u = <<t, k>>
      BY UnitsMember
    <3> QED
      BY <1>2, <3>1
  <2>2. ASSUME NEW u \in Units(g), NEW v \in Units(g), h[u] = h[v]
        PROVE  u = v
    <3>1. PICK t \in Target, k \in Int : k \in 1..g[t] /\ u = <<t, k>>
      BY UnitsMember
    <3>2. PICK w \in Target, l \in Int : l \in 1..g[w] /\ v = <<w, l>>
      BY UnitsMember
    <3>3. <<t, f[t] + k>> = <<w, f[w] + l>>
      BY <1>2, <2>2, <3>1, <3>2
    <3>4. t = w /\ f[t] + k = f[t] + l
      BY <3>3
    <3>5. k = l
      BY <1>0, <3>4
    <3> QED
      BY <3>1, <3>2, <3>4, <3>5
  <2>3. h = [u \in Units(g) |-> h[u]]
    OBVIOUS
  <2> HIDE DEF h, R
  <2> QED
    BY <1>3, <2>1, <2>2, <2>3 DEF Bijection, Injection, Surjection, IsInjective
<1> HIDE DEF h
<1>5. Cardinality(R) = Cardinality(Units(g))
  <2> HIDE DEF R
  <2> QED
    BY <1>4, UnitsFinite, FS_Bijection DEF ExistsBijection
<1>6. Cardinality(R) = Cardinality(Units(s)) - Cardinality(Units(f))
  <2>1. Units(s) \cap Units(f) = Units(f)
    BY <1>1
  <2> QED
    BY <1>0, <2>1, UnitsFinite, FS_Difference
<1>7. Total(s) \in Nat /\ Total(f) \in Nat /\ Total(g) \in Nat
  BY <1>0, UnitsFinite
<1> QED
  BY <1>5, <1>6, <1>7 DEF Total, s

\* What is wanted of one target only is the total.
LEMMA TotalSole ==
  ASSUME NEW f \in [Target -> Nat], NEW t \in Target,
         \A u \in Target \ {t} : f[u] = 0
  PROVE  Total(f) = f[t]
<1>1. Units(f) = {t} \X (1..f[t])
  <2>1. \A u \in Target : \A k \in 1..f[u] : u = t
    OBVIOUS
  <2> QED
    BY <2>1 DEF Units
<1>2. IsFiniteSet({t}) /\ Cardinality({t}) = 1
  BY FS_Singleton
<1>3. IsFiniteSet(1..f[t]) /\ Cardinality(1..f[t]) = f[t]
  <2>1. f[t] \in Nat
    OBVIOUS
  <2> QED
    BY <2>1, FS_Interval
<1>4. Cardinality({t} \X (1..f[t])) = Cardinality({t}) * Cardinality(1..f[t])
  BY <1>2, <1>3, FS_Product, Zenon
<1>5. 1 * f[t] = f[t]
  <2>1. f[t] \in Nat
    OBVIOUS
  <2> QED
    BY <2>1
<1> QED
  BY <1>1, <1>2, <1>3, <1>4, <1>5 DEF Total

\* Nothing is wanted.
LEMMA TotalZero == Total([t \in Target |-> 0]) = 0
<1>1. Units([t \in Target |-> 0]) = {}
  BY DEF Units
<1> QED
  BY <1>1, FS_EmptySet DEF Total

\* One more is wanted.
LEMMA TotalBump ==
  ASSUME NEW f \in [Target -> Nat], NEW t \in Target
  PROVE  Total([f EXCEPT ![t] = @ + 1]) = Total(f) + 1
<1> DEFINE one == [u \in Target |-> IF u = t THEN 1 ELSE 0]
<1>1. one \in [Target -> Nat] /\ one[t] = 1 /\ \A u \in Target \ {t} : one[u] = 0
  OBVIOUS
<1>2. [f EXCEPT ![t] = @ + 1] = [u \in Target |-> f[u] + one[u]]
  <2>1. \A u \in Target : f[u] \in Nat /\ one[u] = IF u = t THEN 1 ELSE 0
    OBVIOUS
  <2>2. \A u \in Target : [f EXCEPT ![t] = @ + 1][u] = f[u] + one[u]
    BY <2>1
  <2> QED
    BY <2>2
<1> HIDE DEF one
<1>3. Total(one) = 1
  BY <1>1, TotalSole
<1> QED
  BY <1>1, <1>2, <1>3, TotalSum

---------------------------------------------------------------------------
(* Queued jobs and what they make a pool wish for *)

LEMMA OccurrencesType ==
  ASSUME NEW q, IsFiniteSet(DOMAIN q), NEW t
  PROVE  /\ IsFiniteSet({i \in DOMAIN q : q[i] = t})
         /\ Occurrences(q, t) \in Nat
<1> DEFINE S == {i \in DOMAIN q : q[i] = t}
<1>1. IsFiniteSet(S)
  BY FS_Subset
<1> QED
  BY <1>1, FS_CardinalityType DEF Occurrences

\* Counted by target, the queued jobs are as many as there are.
LEMMA TotalOccurrences ==
  ASSUME NEW D, IsFiniteSet(D), NEW q \in [D -> Target]
  PROVE  Total([t \in Target |-> Occurrences(q, t)]) = Cardinality(D)
<1> DEFINE c == [t \in Target |-> Occurrences(q, t)]
           Of(t) == {i \in D : q[i] = t}
           g == [t \in Target |-> CHOOSE b : b \in Bijection(1..c[t], Of(t))]
           h == [u \in Units(c) |-> g[u[1]][u[2]]]
<1>1. ASSUME NEW t \in Target
      PROVE  c[t] \in Nat /\ g[t] \in Bijection(1..c[t], Of(t))
  <2>1. IsFiniteSet(Of(t)) /\ c[t] = Cardinality(Of(t))
    BY OccurrencesType DEF Occurrences
  <2>2. c[t] \in Nat /\ ExistsBijection(1..c[t], Of(t))
    BY <2>1, FS_CardinalityType
  <2>3. \E b : b \in Bijection(1..c[t], Of(t))
    BY <2>2 DEF ExistsBijection
  <2> QED
    BY <2>2, <2>3
<1>2. c \in [Target -> Nat]
  <2>1. c = [t \in Target |-> c[t]]
    OBVIOUS
  <2> HIDE DEF c, g
  <2> QED
    BY <1>1, <2>1
<1>3. h = [u \in Units(c) |-> h[u]]
  OBVIOUS
<1>4. ASSUME NEW t \in Target, NEW k \in 1..c[t]
      PROVE  <<t, k>> \in Units(c) /\ h[<<t, k>>] = g[t][k]
  <2>1. <<t, k>> \in Units(c)
    BY <1>1, UnitsMember
  <2> QED
    BY <2>1
<1> HIDE DEF c, g, h
<1>5. ASSUME NEW u \in Units(c)
      PROVE  \E t \in Target, k \in Int : k \in 1..c[t] /\ u = <<t, k>> /\ h[u] = g[t][k]
  <2>1. PICK t \in Target, k \in Int : k \in 1..c[t] /\ u = <<t, k>>
    BY UnitsMember
  <2> QED
    BY <1>4, <2>1
<1>6. ASSUME NEW t \in Target, NEW k \in 1..c[t]
      PROVE  g[t][k] \in D /\ q[g[t][k]] = t
  BY <1>1 DEF Bijection, Injection
<1>7. ASSUME NEW u \in Units(c)
      PROVE  h[u] \in D
  BY <1>5, <1>6
<1>8. ASSUME NEW u \in Units(c), NEW v \in Units(c), h[u] = h[v]
      PROVE  u = v
  <2>1. PICK t \in Target, k \in Int : k \in 1..c[t] /\ u = <<t, k>> /\ h[u] = g[t][k]
    BY <1>5
  <2>2. PICK w \in Target, l \in Int : l \in 1..c[w] /\ v = <<w, l>> /\ h[v] = g[w][l]
    BY <1>5
  <2>3. t = w
    BY <1>6, <1>8, <2>1, <2>2
  <2>4. k = l
    BY <1>1, <1>8, <2>1, <2>2, <2>3 DEF Bijection, Injection, IsInjective
  <2> QED
    BY <2>1, <2>2, <2>3, <2>4
<1>9. ASSUME NEW i \in D
      PROVE  \E u \in Units(c) : h[u] = i
  <2>1. q[i] \in Target /\ i \in Of(q[i])
    OBVIOUS
  <2>2. g[q[i]] \in Bijection(1..c[q[i]], Of(q[i]))
    BY <1>1, <2>1
  <2>3. PICK k \in 1..c[q[i]] : g[q[i]][k] = i
    BY <2>1, <2>2 DEF Bijection, Surjection
  <2>4. <<q[i], k>> \in Units(c) /\ h[<<q[i], k>>] = i
    BY <1>4, <2>1, <2>3
  <2> QED
    BY <2>4
<1>10. h \in Bijection(Units(c), D)
  BY <1>3, <1>7, <1>8, <1>9 DEF Bijection, Injection, Surjection, IsInjective
<1>11. Cardinality(Units(c)) = Cardinality(D)
  BY <1>2, <1>10, UnitsFinite, FS_Bijection DEF ExistsBijection
<1> QED
  BY <1>11 DEF Total, c

\* A nonempty set of natural numbers has a least element.
LEMMA LeastNatural ==
  ASSUME NEW T, T \subseteq Nat, T # {}
  PROVE  \E x \in T : \A y \in T : x <= y
<1>1. PICK R : R = OpToRel(<, Nat)
  OBVIOUS
<1>2. IsWellFoundedOn(R, Nat)
  BY <1>1, NatLessThanWellFounded, Zenon
<1>3. \A x, y \in Nat : x < y => <<x, y>> \in R
  BY <1>1 DEF OpToRel
<1>4. PICK x \in T : \A y \in T : <<y, x>> \notin R
  BY <1>2, WFMin
<1>5. \A y \in T : x <= y
  <2> TAKE y \in T
  <2>1. x \in Nat /\ y \in Nat /\ ~ (y < x)
    BY <1>3, <1>4
  <2> QED
    BY <2>1
<1> QED
  BY <1>5

LEMMA WarmTarget == warm_target \in Target
<1>1. \E t \in Target : \A u \in Target : t <= u
  BY LeastNatural, CreationPlanAssumption
<1> QED
  BY <1>1 DEF warm_target

\* The wish covers the demand and the minimum, and no more than the larger of them.
LEMMA DesiredTotal ==
  ASSUME NEW D, IsFiniteSet(D), NEW q \in [D -> Target],
         NEW busy \in [Target -> Nat], NEW floor \in [Target -> Nat], NEW min \in Nat,
         NEW warm \in Target
  PROVE  LET asked  == Demanded(q, busy, floor)
             wished == Desired(q, busy, floor, min, warm)
         IN  /\ asked \in [Target -> Nat] /\ wished \in [Target -> Nat]
             /\ \A t \in Target : asked[t] = Larger(busy[t] + Occurrences(q, t), floor[t])
             /\ \A t \in Target : t # warm => wished[t] = asked[t]
             /\ \A t \in Target : wished[t] >= asked[t]
             /\ Total(wished) = Larger(min, Total(asked))
<1> DEFINE asked == Demanded(q, busy, floor)
           gap == Larger(0, min - Total(asked))
           more == [t \in Target |-> IF t = warm THEN gap ELSE 0]
           wished == [t \in Target |-> asked[t] + IF t = warm THEN gap ELSE 0]
<1>1. \A t \in Target : asked[t] = Larger(busy[t] + Occurrences(q, t), floor[t]) /\ asked[t] \in Nat
  <2> TAKE t \in Target
  <2>1. Occurrences(q, t) \in Nat /\ busy[t] \in Nat /\ floor[t] \in Nat
    BY OccurrencesType
  <2> QED
    BY <2>1 DEF Demanded, Larger
<1>2. asked = [t \in Target |-> asked[t]]
  BY DEF Demanded
<1>3. Desired(q, busy, floor, min, warm) = wished
  BY DEF Desired
<1> HIDE DEF asked
<1>4. asked \in [Target -> Nat] /\ Total(asked) \in Nat
  BY <1>1, <1>2, UnitsFinite
<1>5. gap \in Nat /\ Larger(min, Total(asked)) = Total(asked) + gap
  BY <1>4 DEF Larger
<1> HIDE DEF gap
<1>6. more \in [Target -> Nat] /\ Total(more) = gap
  <2>1. more \in [Target -> Nat] /\ more[warm] = gap /\ \A t \in Target \ {warm} : more[t] = 0
    BY <1>5
  <2> HIDE DEF more
  <2> QED
    BY <2>1, TotalSole
<1>7. wished = [t \in Target |-> asked[t] + more[t]]
  OBVIOUS
<1>8. Total(wished) = Total(asked) + gap
  BY <1>4, <1>6, <1>7, TotalSum
<1>9. /\ wished \in [Target -> Nat]
      /\ \A t \in Target : t # warm => wished[t] = asked[t]
      /\ \A t \in Target : wished[t] >= asked[t]
  <2>1. \A t \in Target : wished[t] = asked[t] + IF t = warm THEN gap ELSE 0
    OBVIOUS
  <2>2. wished = [t \in Target |-> wished[t]]
    OBVIOUS
  <2>3. \A t \in Target : wished[t] \in Nat /\ wished[t] >= asked[t] /\ (t # warm => wished[t] = asked[t])
    BY <1>4, <1>5, <2>1
  <2> HIDE DEF wished
  <2> QED
    BY <2>2, <2>3
<1> HIDE DEF wished
<1> QED
  BY <1>1, <1>3, <1>4, <1>5, <1>8, <1>9 DEF asked

---------------------------------------------------------------------------
(* The plan and what it has to hand out *)

Owed == Deficit(Wish(pool), Have(pool))
Room == Slots(pool.max, Total(Have(pool)))

\* What was granted and what is still owed are what was owed at the start, and the
\* slots that are left with those used are the room there was.
Balance ==
  /\ pool \in Pools
  /\ granted \in [Target -> Nat] /\ deficit \in [Target -> Nat] /\ slots \in Nat
  /\ \A t \in Target : granted[t] + deficit[t] = Owed[t]
  /\ Total(granted) + slots = Room

LEMMA PoolTypes ==
  ASSUME pool \in Pools
  PROVE  /\ pool.busy \in [Target -> Nat] /\ pool.starting \in [Target -> Nat]
         /\ pool.idle \in [Target -> Nat] /\ pool.floor \in [Target -> Nat]
         /\ pool.min \in Nat /\ pool.max \in Nat
         /\ Len(pool.queue) \in Nat /\ pool.queue \in [1..Len(pool.queue) -> Target]
         /\ IsFiniteSet(DOMAIN pool.queue) /\ Cardinality(DOMAIN pool.queue) = Len(pool.queue)
<1>1. /\ pool.queue \in UNION {[1..n -> Target] : n \in 0..MaxJobs}
      /\ pool.busy \in Small /\ pool.starting \in Small /\ pool.idle \in Small /\ pool.floor \in Small
      /\ pool.min \in 0..MaxMin /\ pool.max \in 0..MaxMax
  BY DEF Pools
<1>2. Small \subseteq [Target -> Nat]
  BY DEF Small
<1>3. pool.min \in Nat /\ pool.max \in Nat
  BY <1>1, CreationPlanAssumption
<1>4. pool.queue \in Seq(Target)
  <2>1. PICK n \in 0..MaxJobs : pool.queue \in [1..n -> Target]
    BY <1>1
  <2>2. n \in Nat
    BY <2>1, CreationPlanAssumption
  <2> QED
    BY <2>1, <2>2, SeqDef
<1>5. Len(pool.queue) \in Nat /\ pool.queue \in [1..Len(pool.queue) -> Target]
  BY <1>4, LenProperties
<1>6. \A n \in Nat : IsFiniteSet(1..n) /\ Cardinality(1..n) = n
  BY FS_Interval
<1> QED
  BY <1>1, <1>2, <1>3, <1>5, <1>6

LEMMA HaveTypes ==
  ASSUME pool \in Pools
  PROVE  /\ Have(pool) \in [Target -> Nat]
         /\ \A t \in Target : Have(pool)[t] = pool.busy[t] + pool.starting[t] + pool.idle[t]
         /\ Total(Have(pool)) = Total(pool.busy) + Total(pool.starting) + Total(pool.idle)
         /\ Total(Have(pool)) \in Nat
<1> DEFINE both == [t \in Target |-> pool.busy[t] + pool.starting[t]]
<1>1. /\ pool.busy \in [Target -> Nat] /\ pool.starting \in [Target -> Nat]
      /\ pool.idle \in [Target -> Nat]
  BY PoolTypes
<1>2. both \in [Target -> Nat] /\ Total(both) = Total(pool.busy) + Total(pool.starting)
  BY <1>1, TotalSum
<1>3. Have(pool) = [t \in Target |-> both[t] + pool.idle[t]]
  BY DEF Have
<1>4. \A t \in Target : Have(pool)[t] = pool.busy[t] + pool.starting[t] + pool.idle[t]
  BY DEF Have
<1>5. Have(pool) \in [Target -> Nat]
  <2>1. \A t \in Target : pool.busy[t] + pool.starting[t] + pool.idle[t] \in Nat
    BY <1>1
  <2> QED
    BY <2>1 DEF Have
<1> HIDE DEF both
<1>6. Total(Have(pool)) = Total(both) + Total(pool.idle)
  BY <1>1, <1>2, <1>3, TotalSum
<1> QED
  BY <1>2, <1>4, <1>5, <1>6, UnitsFinite

\* The wish of the pool, target by target and in all.
LEMMA WishTypes ==
  ASSUME pool \in Pools
  PROVE  LET asked == Demanded(pool.queue, pool.busy, pool.floor)
         IN  /\ asked \in [Target -> Nat] /\ Wish(pool) \in [Target -> Nat]
             /\ \A t \in Target :
                  asked[t] = Larger(pool.busy[t] + Occurrences(pool.queue, t), pool.floor[t])
             /\ \A t \in Target : t # warm_target => Wish(pool)[t] = asked[t]
             /\ \A t \in Target : Wish(pool)[t] >= asked[t]
             /\ Total(Wish(pool)) = Larger(pool.min, Total(asked))
<1>1. /\ pool.busy \in [Target -> Nat] /\ pool.floor \in [Target -> Nat] /\ pool.min \in Nat
      /\ IsFiniteSet(DOMAIN pool.queue) /\ pool.queue \in [DOMAIN pool.queue -> Target]
  BY PoolTypes
<1> DEFINE q == pool.queue
           D == DOMAIN q
           busy == pool.busy
           floor == pool.floor
           min == pool.min
           warm == warm_target
           asked == Demanded(q, busy, floor)
           wished == Desired(q, busy, floor, min, warm)
<1>2. /\ IsFiniteSet(D) /\ q \in [D -> Target] /\ warm \in Target
      /\ busy \in [Target -> Nat] /\ floor \in [Target -> Nat] /\ min \in Nat
  BY <1>1, WarmTarget
<1>3. Wish(pool) = wished
  BY DEF Wish
<1> HIDE DEF D, q, busy, floor, min, warm
<1>4. /\ asked \in [Target -> Nat] /\ wished \in [Target -> Nat]
      /\ \A t \in Target : asked[t] = Larger(busy[t] + Occurrences(q, t), floor[t])
      /\ \A t \in Target : t # warm => wished[t] = asked[t]
      /\ \A t \in Target : wished[t] >= asked[t]
      /\ Total(wished) = Larger(min, Total(asked))
  BY <1>2, DesiredTotal
<1> HIDE DEF asked, wished
<1>5. asked = Demanded(pool.queue, pool.busy, pool.floor)
  BY DEF asked, q, busy, floor
<1> QED
  BY <1>3, <1>4, <1>5 DEF q, busy, floor, min, warm

LEMMA OwedTypes ==
  ASSUME pool \in Pools
  PROVE  /\ Owed \in [Target -> Nat] /\ Room \in Nat
         /\ \A t \in Target : Owed[t] = Larger(0, Wish(pool)[t] - Have(pool)[t])
         /\ Room = Larger(0, pool.max - Total(Have(pool)))
<1>1. Wish(pool) \in [Target -> Nat] /\ Have(pool) \in [Target -> Nat]
  BY HaveTypes, WishTypes
<1>2. \A t \in Target : Larger(0, Wish(pool)[t] - Have(pool)[t]) \in Nat
  BY <1>1 DEF Larger
<1>3. Owed = [t \in Target |-> Larger(0, Wish(pool)[t] - Have(pool)[t])]
  BY DEF Owed, Deficit
<1>4. Owed \in [Target -> Nat]
  BY <1>2, <1>3
<1>5. Room \in Nat /\ Room = Larger(0, pool.max - Total(Have(pool)))
  BY HaveTypes, PoolTypes DEF Room, Slots, Larger
<1> QED
  BY <1>3, <1>4, <1>5

LEMMA InitBalance == Init => Balance
<1> SUFFICES ASSUME Init PROVE Balance
  OBVIOUS
<1>1. pool \in Pools /\ deficit = Owed /\ slots = Room /\ granted = [t \in Target |-> 0]
  BY DEF Init, Owed, Room
<1>2. Owed \in [Target -> Nat] /\ Room \in Nat
  BY <1>1, OwedTypes
<1>3. Total(granted) = 0
  BY <1>1, TotalZero
<1>4. granted \in [Target -> Nat]
  BY <1>1
<1>5. \A t \in Target : granted[t] + deficit[t] = Owed[t]
  BY <1>1, <1>2
<1> QED
  BY <1>1, <1>2, <1>3, <1>4, <1>5 DEF Balance

LEMMA GrantBalance ==
  ASSUME Balance, NEW t \in Target, Grant(t)
  PROVE  Balance'
<1>1. /\ slots > 0 /\ deficit[t] > 0 /\ pool' = pool /\ slots' = slots - 1
      /\ granted' = [granted EXCEPT ![t] = @ + 1] /\ deficit' = [deficit EXCEPT ![t] = @ - 1]
  BY DEF Grant, FirstInLine
<1>2. granted' \in [Target -> Nat] /\ deficit' \in [Target -> Nat] /\ slots' \in Nat
  BY <1>1 DEF Balance
<1>3. Total(granted') = Total(granted) + 1 /\ Total(granted) \in Nat
  BY <1>1, TotalBump, UnitsFinite DEF Balance
<1>4. Owed' = Owed /\ Room' = Room
  BY <1>1 DEF Owed, Room
<1>5. \A u \in Target : granted'[u] + deficit'[u] = granted[u] + deficit[u]
  BY <1>1 DEF Balance
<1>6. Total(granted') + slots' = Total(granted) + slots
  BY <1>1, <1>3 DEF Balance
<1> QED
  BY <1>1, <1>2, <1>4, <1>5, <1>6 DEF Balance

LEMMA BalanceHolds == Spec => []Balance
<1>1. Balance /\ UNCHANGED vars => Balance'
  BY DEF Balance, Owed, Room, vars
<1>2. Balance /\ [Next]_vars => Balance'
  BY <1>1, GrantBalance DEF Next
<1> QED
  BY <1>2, InitBalance, PTL DEF Spec

---------------------------------------------------------------------------
(* Several targets *)

\* The wishes of the targets add up to at least what calculate_scale aims at, short
\* of the maximum.
LEMMA WishCoversTarget ==
  ASSUME pool \in Pools
  PROVE  /\ Total(Wish(pool)) \in Nat
         /\ Total(Wish(pool)) >= pool.min
         /\ Total(Wish(pool)) >= Total(pool.busy) + Len(pool.queue)
         /\ Total(Wish(pool)) >= Total(pool.floor)
<1> DEFINE asked == Demanded(pool.queue, pool.busy, pool.floor)
           queued == [t \in Target |-> Occurrences(pool.queue, t)]
           working == [t \in Target |-> pool.busy[t] + queued[t]]
<1>1. /\ pool.busy \in [Target -> Nat] /\ pool.floor \in [Target -> Nat] /\ pool.min \in Nat
      /\ IsFiniteSet(DOMAIN pool.queue) /\ Cardinality(DOMAIN pool.queue) = Len(pool.queue)
      /\ pool.queue \in [DOMAIN pool.queue -> Target] /\ Len(pool.queue) \in Nat
  BY PoolTypes
<1>2. queued \in [Target -> Nat] /\ \A t \in Target : queued[t] = Occurrences(pool.queue, t)
  BY <1>1, OccurrencesType
<1>3. Total(queued) = Len(pool.queue)
  BY <1>1, TotalOccurrences
<1>4. /\ asked \in [Target -> Nat]
      /\ \A t \in Target : asked[t] = Larger(pool.busy[t] + queued[t], pool.floor[t])
      /\ Total(Wish(pool)) = Larger(pool.min, Total(asked))
  BY <1>2, WishTypes
<1> HIDE DEF asked, queued
<1>5. working \in [Target -> Nat] /\ \A t \in Target : working[t] = pool.busy[t] + queued[t]
  BY <1>1, <1>2
<1>6. Total(working) = Total(pool.busy) + Total(queued)
  BY <1>1, <1>2, TotalSum
<1> HIDE DEF working
<1>7. \A t \in Target : working[t] <= asked[t] /\ pool.floor[t] <= asked[t]
  BY <1>1, <1>2, <1>4, <1>5 DEF Larger
<1>8. Total(working) <= Total(asked) /\ Total(pool.floor) <= Total(asked)
  BY <1>1, <1>4, <1>5, <1>7, TotalMonotonic
<1>9. Total(asked) \in Nat /\ Total(pool.floor) \in Nat /\ Total(pool.busy) \in Nat
  BY <1>1, <1>4, UnitsFinite
<1> QED
  BY <1>1, <1>3, <1>4, <1>6, <1>8, <1>9 DEF Larger

\* With several targets a finished plan grants at least what calculate_scale asks for
\* and never more than the maximum leaves room for.
THEOREM PlanCoversReference == Spec => []CoversReference
<1>1. ASSUME Balance, Finished
      PROVE  /\ Total(granted) >= ReferenceCreate(Smaller(PoolTarget, pool.max), Total(pool.starting),
                                                  Total(pool.idle), Total(pool.busy))
             /\ Total(granted) + Total(Have(pool)) <= Larger(pool.max, Total(Have(pool)))
  <2> DEFINE have == Total(Have(pool))
             want == Total(Wish(pool))
             made == Total(granted)
             b == Total(pool.busy)
             s == Total(pool.starting)
             i == Total(pool.idle)
             f == Total(pool.floor)
             n == Len(pool.queue)
  <2>1. /\ pool \in Pools /\ granted \in [Target -> Nat] /\ deficit \in [Target -> Nat]
        /\ slots \in Nat /\ made + slots = Room
        /\ \A t \in Target : granted[t] + deficit[t] = Owed[t]
    BY <1>1 DEF Balance
  <2>2. /\ b \in Nat /\ s \in Nat /\ i \in Nat /\ f \in Nat /\ made \in Nat
        /\ pool.max \in Nat /\ pool.min \in Nat /\ n \in Nat
    BY <2>1, PoolTypes, UnitsFinite
  <2>3. have = b + s + i /\ have \in Nat
    BY <2>1, HaveTypes
  <2>4. want \in Nat /\ want >= pool.min /\ want >= b + n /\ want >= f
    BY <2>1, WishCoversTarget
  <2>5. Room = Larger(0, pool.max - have)
    BY <2>1, OwedTypes
  <2>6. made + have >= want \/ slots = 0
    <3> SUFFICES ASSUME NoneInLine(deficit) PROVE made + have >= want
      BY <1>1 DEF Finished
    <3> DEFINE all == [t \in Target |-> granted[t] + Have(pool)[t]]
    <3>1. Have(pool) \in [Target -> Nat] /\ Wish(pool) \in [Target -> Nat]
      BY <2>1, HaveTypes, WishTypes
    <3>2. all \in [Target -> Nat] /\ \A t \in Target : all[t] = granted[t] + Have(pool)[t]
      BY <2>1, <3>1
    <3>3. Total(all) = made + have
      BY <2>1, <3>1, TotalSum
    <3>4. \A t \in Target : granted[t] = Larger(0, Wish(pool)[t] - Have(pool)[t])
      BY <2>1, OwedTypes DEF NoneInLine
    <3> HIDE DEF all
    <3>5. \A t \in Target : Wish(pool)[t] <= all[t]
      BY <3>1, <3>2, <3>4 DEF Larger
    <3> QED
      BY <3>1, <3>2, <3>3, <3>5, TotalMonotonic
  <2>7. PoolTarget = Smaller(pool.max, Larger(pool.min, Larger(b + n, f)))
    BY DEF PoolTarget, ReferenceTarget
  <2> HIDE DEF have, want, made, b, s, i, f, n
  <2>8. PoolTarget \in Nat /\ PoolTarget <= pool.max /\ PoolTarget <= want
    BY <2>2, <2>4, <2>7 DEF Smaller, Larger
  <2>9. made >= ReferenceCreate(Smaller(PoolTarget, pool.max), s, i, b)
    BY <2>1, <2>2, <2>3, <2>4, <2>5, <2>6, <2>8 DEF ReferenceCreate, Smaller, Larger
  <2>10. made + have <= Larger(pool.max, have)
    BY <2>1, <2>2, <2>3, <2>5 DEF Larger
  <2> QED
    BY <2>9, <2>10 DEF have, made, b, s, i
<1>2. Balance => CoversReference
  BY <1>1 DEF CoversReference
<1> QED
  BY <1>2, BalanceHolds, PTL

---------------------------------------------------------------------------
(* One target *)

\* With one target the plan creates and retires exactly as many as calculate_scale.
THEOREM PlanAgreesForSoleTarget == Spec => []SoleTargetAgrees
<1>1. ASSUME Balance, NEW t \in Target, Finished, t = warm_target,
             \A i \in DOMAIN pool.queue : pool.queue[i] = t,
             \A u \in Target \ {t} : Have(pool)[u] = 0 /\ pool.floor[u] = 0
      PROVE  /\ granted[t] = ReferenceCreate(PoolTarget, pool.starting[t], pool.idle[t], pool.busy[t])
             /\ Wish(pool)[t] <= pool.max =>
                  RetiredOf(t) = ReferenceExcess(PoolTarget, pool.starting[t],
                                                 pool.idle[t], pool.busy[t])
  <2> DEFINE asked == Demanded(pool.queue, pool.busy, pool.floor)
             have == Have(pool)[t]
             want == Wish(pool)[t]
             made == granted[t]
             b == pool.busy[t]
             s == pool.starting[t]
             i == pool.idle[t]
             f == pool.floor[t]
             n == Len(pool.queue)
  <2>1. /\ pool \in Pools /\ granted \in [Target -> Nat] /\ deficit \in [Target -> Nat]
        /\ slots \in Nat /\ Total(granted) + slots = Room
        /\ \A u \in Target : granted[u] + deficit[u] = Owed[u]
    BY <1>1 DEF Balance
  <2>2. /\ pool.busy \in [Target -> Nat] /\ pool.starting \in [Target -> Nat]
        /\ pool.idle \in [Target -> Nat] /\ pool.floor \in [Target -> Nat]
        /\ pool.min \in Nat /\ pool.max \in Nat /\ n \in Nat
    BY <2>1, PoolTypes
  <2>3. /\ Have(pool) \in [Target -> Nat]
        /\ \A u \in Target : Have(pool)[u] = pool.busy[u] + pool.starting[u] + pool.idle[u]
    BY <2>1, HaveTypes
  <2>4. /\ asked \in [Target -> Nat] /\ Wish(pool) \in [Target -> Nat]
        /\ \A u \in Target : asked[u] = Larger(pool.busy[u] + Occurrences(pool.queue, u), pool.floor[u])
        /\ \A u \in Target : u # t => Wish(pool)[u] = asked[u]
        /\ Total(Wish(pool)) = Larger(pool.min, Total(asked))
    BY <1>1, <2>1, WishTypes
  <2> HIDE DEF asked
  <2>5. Occurrences(pool.queue, t) = n /\ \A u \in Target \ {t} : Occurrences(pool.queue, u) = 0
    <3>1. {k \in DOMAIN pool.queue : pool.queue[k] = t} = DOMAIN pool.queue
      BY <1>1
    <3>2. \A u \in Target \ {t} : {k \in DOMAIN pool.queue : pool.queue[k] = u} = {}
      BY <1>1
    <3>3. Cardinality(DOMAIN pool.queue) = n
      BY <2>1, PoolTypes
    <3> QED
      BY <3>1, <3>2, <3>3, FS_EmptySet DEF Occurrences
  <2>6. \A u \in Target \ {t} : pool.busy[u] = 0 /\ asked[u] = 0 /\ Wish(pool)[u] = 0
    <3> TAKE u \in Target \ {t}
    <3>0. /\ Have(pool)[u] = 0 /\ pool.floor[u] = 0
          /\ Have(pool)[u] = pool.busy[u] + pool.starting[u] + pool.idle[u]
          /\ pool.busy[u] \in Nat /\ pool.starting[u] \in Nat /\ pool.idle[u] \in Nat
      BY <1>1, <2>2, <2>3
    <3>1. pool.busy[u] = 0 /\ pool.floor[u] = 0
      <4>1. \A x, y, z \in Nat : x + y + z = 0 => x = 0
        OBVIOUS
      <4> QED
        BY <3>0, <4>1
    <3>2. asked[u] = Larger(pool.busy[u] + Occurrences(pool.queue, u), pool.floor[u])
      BY <2>4
    <3>3. asked[u] = 0
      BY <2>5, <3>1, <3>2 DEF Larger
    <3> QED
      BY <2>4, <3>1, <3>3
  <2>7. Total(asked) = asked[t] /\ Total(Wish(pool)) = want /\ Total(Have(pool)) = have
    BY <1>1, <2>3, <2>4, <2>6, TotalSole
  <2>8. Total(pool.busy) = b /\ Total(pool.floor) = f
    BY <1>1, <2>2, <2>6, TotalSole
  <2>9. want = Larger(pool.min, Larger(b + n, f))
    BY <2>4, <2>5, <2>7
  <2>10. /\ Room = Larger(0, pool.max - have)
         /\ \A u \in Target : Owed[u] = Larger(0, Wish(pool)[u] - Have(pool)[u])
    BY <2>1, <2>7, OwedTypes
  <2>11. \A u \in Target \ {t} : granted[u] = 0 /\ deficit[u] = 0
    <3> TAKE u \in Target \ {t}
    <3>0. Owed[u] = Larger(0, Wish(pool)[u] - Have(pool)[u]) /\ Wish(pool)[u] = 0 /\ Have(pool)[u] = 0
      BY <1>1, <2>6, <2>10
    <3>1. Owed[u] = 0
      BY <3>0 DEF Larger
    <3>2. granted[u] \in Nat /\ deficit[u] \in Nat /\ granted[u] + deficit[u] = 0
      BY <2>1, <3>1
    <3> QED
      BY <3>2
  <2>12. Total(granted) = made
    BY <2>1, <2>11, TotalSole
  <2>13. slots = 0 \/ deficit[t] = 0
    BY <1>1 DEF Finished, NoneInLine
  <2>14. PoolTarget = Smaller(pool.max, want)
    BY <2>8, <2>9 DEF PoolTarget, ReferenceTarget
  <2>15. made \in Nat /\ b \in Nat /\ s \in Nat /\ i \in Nat /\ want \in Nat /\ have = b + s + i
    BY <2>1, <2>2, <2>3, <2>4
  <2>16. made + slots = Larger(0, pool.max - have) /\ made + deficit[t] = Larger(0, want - have)
    BY <2>1, <2>10, <2>12
  <2>17. deficit[t] \in Nat
    BY <2>1
  <2>18. RetiredOf(t) = Retired(i, IdleAllowance(want, b, s + made))
    BY DEF RetiredOf
  <2> HIDE DEF have, want, made, b, s, i, f, n
  <2>19. made = Larger(0, Smaller(pool.max, want) - have)
    BY <2>1, <2>2, <2>13, <2>15, <2>16, <2>17 DEF Larger, Smaller
  <2>20. made = ReferenceCreate(PoolTarget, s, i, b)
    BY <2>14, <2>15, <2>19 DEF ReferenceCreate
  <2>21. ASSUME want <= pool.max
         PROVE  Retired(i, IdleAllowance(want, b, s + made)) = ReferenceExcess(PoolTarget, s, i, b)
    <3>1. PoolTarget = want
      BY <2>2, <2>14, <2>15, <2>21 DEF Smaller
    <3>2. made = Larger(0, want - have)
      BY <2>14, <2>19, <3>1
    <3> QED
      BY <2>15, <3>1, <3>2 DEF Retired, IdleAllowance, ReferenceExcess, Larger
  <2> QED
    BY <2>18, <2>20, <2>21 DEF made, want, b, s, i
<1>2. Balance => SoleTargetAgrees
  BY <1>1 DEF SoleTargetAgrees
<1> QED
  BY <1>2, BalanceHolds, PTL

---------------------------------------------------------------------------
(* The order of the queue *)

\* How many of the p oldest queued jobs belong to target t.
Seen(q, t, p) == Cardinality({j \in 1..p : q[j] = t})

LEMMA SeenType ==
  ASSUME NEW q, NEW t, NEW p \in Nat
  PROVE  IsFiniteSet({j \in 1..p : q[j] = t}) /\ Seen(q, t, p) \in Nat
<1> DEFINE S == {j \in 1..p : q[j] = t}
<1>1. IsFiniteSet(1..p)
  BY FS_Interval
<1>2. IsFiniteSet(S)
  BY <1>1, FS_Subset
<1> QED
  BY <1>2, FS_CardinalityType DEF Seen

LEMMA SeenMonotonic ==
  ASSUME NEW q, NEW t, NEW m \in Nat, NEW p \in Nat, m <= p
  PROVE  Seen(q, t, m) <= Seen(q, t, p)
<1> DEFINE S == {j \in 1..m : q[j] = t}
           T == {j \in 1..p : q[j] = t}
<1>1. S \subseteq T
  OBVIOUS
<1>2. IsFiniteSet(T)
  BY SeenType
<1> HIDE DEF S, T
<1>3. Cardinality(S) <= Cardinality(T)
  BY <1>1, <1>2, FS_Subset
<1> QED
  BY <1>3 DEF Seen, S, T

LEMMA SeenNext ==
  ASSUME NEW q, NEW t, NEW p \in Nat
  PROVE  Seen(q, t, p + 1) = Seen(q, t, p) + IF q[p + 1] = t THEN 1 ELSE 0
<1> DEFINE S == {j \in 1..p : q[j] = t}
           T == {j \in 1..(p + 1) : q[j] = t}
<1>1. IsFiniteSet(S)
  BY SeenType
<1>2. p + 1 \notin S
  OBVIOUS
<1>3. T = IF q[p + 1] = t THEN S \cup {p + 1} ELSE S
  OBVIOUS
<1> HIDE DEF S, T
<1>4. Cardinality(S \cup {p + 1}) = Cardinality(S) + 1 /\ Cardinality(S) \in Nat
  BY <1>1, <1>2, FS_AddElement, FS_CardinalityType
<1>5. Cardinality(T) = Cardinality(S) + IF q[p + 1] = t THEN 1 ELSE 0
  BY <1>3, <1>4
<1> QED
  BY <1>5 DEF Seen, S, T

\* The pool has no idle and no starting runner.
Cold == \A t \in Target : pool.starting[t] + pool.idle[t] = 0

\* The p oldest queued jobs have been dealt with, each with a runner of its target,
\* and before the last of them nothing else was granted.
DealtWith(p) ==
  /\ ordered = [i \in (p + 1)..Len(pool.queue) |-> pool.queue[i]]
  /\ \A t \in Target : granted[t] >= Seen(pool.queue, t, p)
  /\ p < Len(pool.queue) => \A t \in Target : granted[t] = Seen(pool.queue, t, p)
InOrder == Cold => \E p \in 0..Len(pool.queue) : DealtWith(p)

\* A cold pool owes every queued job a runner of its target.
LEMMA ColdOwes ==
  ASSUME pool \in Pools, Cold, NEW t \in Target
  PROVE  Owed[t] >= Seen(pool.queue, t, Len(pool.queue))
<1> DEFINE n == Occurrences(pool.queue, t)
           b == pool.busy[t]
           f == pool.floor[t]
           s == pool.starting[t]
           i == pool.idle[t]
           want == Wish(pool)[t]
           have == Have(pool)[t]
<1>1. /\ pool.busy \in [Target -> Nat] /\ pool.starting \in [Target -> Nat]
      /\ pool.idle \in [Target -> Nat] /\ pool.floor \in [Target -> Nat]
      /\ IsFiniteSet(DOMAIN pool.queue) /\ DOMAIN pool.queue = 1..Len(pool.queue)
  BY PoolTypes
<1>2. b \in Nat /\ f \in Nat /\ s \in Nat /\ i \in Nat /\ s + i = 0 /\ n \in Nat
  BY <1>1, OccurrencesType DEF Cold
<1>3. Demanded(pool.queue, pool.busy, pool.floor)[t] = Larger(b + n, f)
  BY WishTypes
<1>4. want >= Larger(b + n, f) /\ want \in Nat
  BY <1>3, WishTypes
<1>5. have = b + s + i
  BY HaveTypes
<1>6. Owed[t] = Larger(0, want - have)
  BY OwedTypes
<1>7. n = Seen(pool.queue, t, Len(pool.queue))
  BY <1>1 DEF Seen, Occurrences
<1> HIDE DEF n, b, f, s, i, want, have
<1>8. have = b
  BY <1>2, <1>5
<1>9. want - have >= n
  BY <1>2, <1>4, <1>8 DEF Larger
<1> QED
  BY <1>2, <1>4, <1>6, <1>7, <1>8, <1>9 DEF Larger

LEMMA InitInOrder == Init => InOrder
<1> SUFFICES ASSUME Init PROVE DealtWith(0) /\ 0 \in 0..Len(pool.queue)
  BY DEF InOrder
<1>1. Len(pool.queue) \in Nat /\ pool.queue \in [1..Len(pool.queue) -> Target]
  BY PoolTypes DEF Init
<1>2. ordered = [i \in (0 + 1)..Len(pool.queue) |-> pool.queue[i]]
  BY <1>1 DEF Init
<1>3. \A t \in Target : Seen(pool.queue, t, 0) = 0
  <2>1. \A t : {j \in 1..0 : pool.queue[j] = t} = {}
    OBVIOUS
  <2> QED
    BY <2>1, FS_EmptySet DEF Seen
<1>4. \A t \in Target : granted[t] = 0
  BY DEF Init
<1> QED
  BY <1>1, <1>2, <1>3, <1>4 DEF DealtWith

\* While queued jobs are left, the oldest of them comes next.
LEMMA NextInOrder ==
  ASSUME Balance, Cold, NEW t \in Target, Grant(t),
         NEW p \in Nat, p < Len(pool.queue), DealtWith(p)
  PROVE  DealtWith(p + 1)'
<1> DEFINE q == pool.queue
           n == Len(pool.queue)
<1>1. /\ pool \in Pools /\ n \in Nat /\ q \in [1..n -> Target]
      /\ granted \in [Target -> Nat] /\ deficit \in [Target -> Nat]
      /\ \A u \in Target : granted[u] + deficit[u] = Owed[u]
  BY PoolTypes DEF Balance
<1>2. q[p + 1] \in Target
  BY <1>1
<1>3. deficit[q[p + 1]] > 0
  <2> DEFINE u == q[p + 1]
  <2>1. granted[u] = Seen(q, u, p) /\ Seen(q, u, p) \in Nat
    BY <1>2, SeenType DEF DealtWith
  <2>2. Seen(q, u, p + 1) = Seen(q, u, p) + 1
    BY SeenNext
  <2>3. Seen(q, u, p + 1) <= Seen(q, u, n)
    BY <1>1, SeenMonotonic
  <2>4. Owed[u] >= Seen(q, u, n) /\ Seen(q, u, n) \in Nat
    BY <1>1, <1>2, ColdOwes, SeenType
  <2>5. granted[u] + deficit[u] = Owed[u] /\ deficit[u] \in Nat
    BY <1>1, <1>2
  <2> HIDE DEF u, q, n
  <2> QED
    BY <2>1, <2>2, <2>3, <2>4, <2>5 DEF u
<1>4. ordered = [i \in (p + 1)..n |-> q[i]]
  BY DEF DealtWith
<1>5. /\ p + 1 \in Pending(ordered, deficit)
      /\ \A k \in Pending(ordered, deficit) : k \in Int /\ p + 1 <= k
  BY <1>1, <1>3, <1>4 DEF Pending
<1>6. t = q[p + 1]
  <2>1. PICK i \in Pending(ordered, deficit) :
          ordered[i] = t /\ \A j \in Pending(ordered, deficit) : i <= j
    BY <1>5 DEF Grant, FirstInLine
  <2>2. i = p + 1
    BY <1>5, <2>1
  <2> QED
    BY <1>1, <1>4, <2>1, <2>2
<1>7. /\ pool' = pool /\ granted' = [granted EXCEPT ![t] = @ + 1]
      /\ ordered' = Behind(ordered, deficit)
  BY DEF Grant
<1>8. ordered' = [i \in (p + 2)..n |-> q[i]]
  <2>0. DOMAIN ordered = (p + 1)..n
    BY <1>4
  <2>1. {k \in DOMAIN ordered : \E j \in Pending(ordered, deficit) : j < k} = (p + 2)..n
    <3>1. \A k \in (p + 1)..n : (\E j \in Pending(ordered, deficit) : j < k) <=> p + 2 <= k
      BY <1>1, <1>5
    <3>2. \A k : k \in (p + 2)..n <=> k \in (p + 1)..n /\ p + 2 <= k
      BY <1>1
    <3> HIDE DEF n
    <3> QED
      BY <2>0, <3>1, <3>2, Zenon
  <2>2. \A i \in (p + 2)..n : ordered[i] = q[i]
    BY <1>1, <1>4
  <2> QED
    BY <1>7, <2>1, <2>2 DEF Behind
<1>9. \A u \in Target : granted'[u] = Seen(q, u, p + 1)
  <2> TAKE u \in Target
  <2>1. granted[u] = Seen(q, u, p) /\ granted[u] \in Nat
    BY <1>1 DEF DealtWith
  <2>2. granted'[u] = granted[u] + IF u = t THEN 1 ELSE 0
    BY <1>1, <1>7
  <2>3. Seen(q, u, p + 1) = Seen(q, u, p) + IF q[p + 1] = u THEN 1 ELSE 0
    BY SeenNext
  <2> QED
    BY <1>6, <2>1, <2>2, <2>3
<1>10. (p + 1) + 1 = p + 2 /\ p + 1 \in Nat
  OBVIOUS
<1>11. \A u \in Target : Seen(q, u, p + 1) \in Nat
  BY <1>10, SeenType
<1>12. \A u \in Target : granted'[u] >= Seen(q, u, p + 1)
  BY <1>9, <1>11
<1>13. ordered' = [i \in ((p + 1) + 1)..n |-> q[i]]
  BY <1>8, <1>10
<1> QED
  BY <1>7, <1>9, <1>12, <1>13 DEF DealtWith

\* When none is left, none comes back.
LEMMA LastInOrder ==
  ASSUME Balance, NEW t \in Target, Grant(t), DealtWith(Len(pool.queue))
  PROVE  DealtWith(Len(pool.queue))'
<1> DEFINE q == pool.queue
           n == Len(pool.queue)
<1>1. n \in Nat /\ granted \in [Target -> Nat]
  BY PoolTypes DEF Balance
<1>2. /\ pool' = pool /\ granted' = [granted EXCEPT ![t] = @ + 1]
      /\ ordered' = Behind(ordered, deficit)
  BY DEF Grant
<1>3. (n + 1)..n = {}
  BY <1>1
<1>4. ordered' = [i \in (n + 1)..n |-> q[i]]
  <2>1. DOMAIN ordered = {}
    BY <1>3 DEF DealtWith
  <2> QED
    BY <1>2, <1>3, <2>1 DEF Behind
<1>5. \A u \in Target : granted'[u] >= Seen(q, u, n)
  <2> TAKE u \in Target
  <2>1. granted[u] >= Seen(q, u, n) /\ granted[u] \in Nat /\ Seen(q, u, n) \in Nat
    BY <1>1, SeenType DEF DealtWith
  <2>2. granted'[u] >= granted[u] /\ granted'[u] \in Nat
    BY <1>1, <1>2
  <2> QED
    BY <2>1, <2>2
<1> QED
  BY <1>1, <1>2, <1>4, <1>5 DEF DealtWith

LEMMA InOrderHolds == Spec => [](Balance /\ InOrder)
<1>1. Balance /\ InOrder /\ [Next]_vars => InOrder'
  <2> SUFFICES ASSUME Balance, InOrder, [Next]_vars, Cold'
               PROVE  (\E p \in 0..Len(pool.queue) : DealtWith(p))'
    BY DEF InOrder
  <2>1. CASE UNCHANGED vars
    BY <2>1 DEF vars, InOrder, Cold, DealtWith
  <2>2. ASSUME NEW t \in Target, Grant(t)
        PROVE  (\E p \in 0..Len(pool.queue) : DealtWith(p))'
    <3>1. pool' = pool /\ Len(pool.queue) \in Nat
      BY <2>2, PoolTypes DEF Grant, Balance
    <3>2. Cold
      BY <3>1 DEF Cold
    <3>3. PICK p \in 0..Len(pool.queue) : DealtWith(p)
      BY <3>2 DEF InOrder
    <3>4. CASE p < Len(pool.queue)
      <4>1. p \in Nat /\ p + 1 \in 0..Len(pool.queue)
        BY <3>1, <3>4
      <4>2. DealtWith(p + 1)'
        BY <2>2, <3>2, <3>3, <3>4, <4>1, NextInOrder
      <4> QED
        BY <3>1, <4>1, <4>2
    <3>5. CASE p = Len(pool.queue)
      <4>1. DealtWith(Len(pool.queue))'
        BY <2>2, <3>3, <3>5, LastInOrder
      <4> QED
        BY <3>1, <4>1
    <3> QED
      BY <3>1, <3>4, <3>5
  <2> QED
    BY <2>1, <2>2 DEF Next
<1> QED
  BY <1>1, BalanceHolds, InitInOrder, PTL DEF Spec

\* A pool without idle and starting runners leaves no job without a runner while a slot
\* serves a younger one.
THEOREM PlanServesOldestFirst == Spec => []OldestJobsFirstWhenCold
<1>1. ASSUME Balance, InOrder, Cold, NEW i \in LeftOut, NEW j \in ServedBySlot
      PROVE  j < i
  <2> DEFINE q == pool.queue
             n == Len(pool.queue)
  <2>1. /\ pool \in Pools /\ n \in Nat /\ q \in [1..n -> Target]
        /\ granted \in [Target -> Nat]
        /\ pool.starting \in [Target -> Nat] /\ pool.idle \in [Target -> Nat]
    BY <1>1, PoolTypes DEF Balance
  <2>2. PICK p \in 0..n : DealtWith(p)
    BY <1>1 DEF InOrder
  <2>3. /\ i \in 1..n /\ j \in 1..n /\ q[i] \in Target /\ q[j] \in Target
    BY <2>1 DEF LeftOut, ServedBySlot
  <2>4. \A k \in 1..n : Rank(k) = Seen(q, q[k], k)
    BY DEF Rank, Seen
  <2>5. Ready(i) = 0 /\ Ready(j) = 0
    BY <1>1, <2>3 DEF Cold, Ready
  <2>6. Seen(q, q[i], i) > granted[q[i]] /\ Seen(q, q[j], j) <= granted[q[j]]
    <3>1. Rank(i) > Ready(i) + granted[q[i]] /\ Rank(j) \in (Ready(j) + 1)..(Ready(j) + granted[q[j]])
      BY DEF LeftOut, ServedBySlot
    <3>2. granted[q[i]] \in Nat /\ granted[q[j]] \in Nat
      BY <2>1, <2>3
    <3> QED
      BY <2>3, <2>4, <2>5, <3>1, <3>2
  <2>7. i > p
    <3> SUFFICES ASSUME i <= p PROVE FALSE
      BY <2>1, <2>2, <2>3
    <3>1. i \in Nat /\ p \in Nat
      BY <2>1, <2>2, <2>3
    <3>2. Seen(q, q[i], i) <= Seen(q, q[i], p)
      BY <3>1, SeenMonotonic
    <3>3. granted[q[i]] >= Seen(q, q[i], p) /\ granted[q[i]] \in Nat
      BY <2>1, <2>2, <2>3 DEF DealtWith
    <3>4. Seen(q, q[i], i) \in Nat /\ Seen(q, q[i], p) \in Nat
      BY <3>1, SeenType
    <3> HIDE DEF q
    <3> QED
      BY <2>6, <3>2, <3>3, <3>4
  <2>8. p < n
    BY <2>1, <2>2, <2>3, <2>7
  <2>9. j <= p
    <3> SUFFICES ASSUME p + 1 <= j PROVE FALSE
      BY <2>1, <2>2, <2>3
    <3> DEFINE u == q[j]
               m == j - 1
    <3>1. m \in Nat /\ p \in Nat /\ p <= m /\ m + 1 = j
      BY <2>1, <2>2, <2>3
    <3>2. Seen(q, u, j) = Seen(q, u, m) + 1
      <4>1. Seen(q, u, m + 1) = Seen(q, u, m) + IF q[m + 1] = u THEN 1 ELSE 0
        BY <3>1, SeenNext
      <4> QED
        BY <3>1, <4>1
    <3>3. Seen(q, u, p) <= Seen(q, u, m)
      BY <3>1, SeenMonotonic
    <3>4. granted[u] = Seen(q, u, p)
      BY <2>2, <2>3, <2>8 DEF DealtWith
    <3>5. Seen(q, u, p) \in Nat /\ Seen(q, u, m) \in Nat
      BY <3>1, SeenType
    <3>6. Seen(q, u, j) <= granted[u]
      BY <2>6
    <3> HIDE DEF q, u, m
    <3> QED
      BY <3>2, <3>3, <3>4, <3>5, <3>6
  <2> QED
    BY <2>2, <2>3, <2>7, <2>9
<1>2. Balance /\ InOrder => OldestJobsFirstWhenCold
  BY <1>1 DEF OldestJobsFirstWhenCold, OldestJobsFirst, Cold
<1> QED
  BY <1>2, InOrderHolds, PTL
===============================================================================
