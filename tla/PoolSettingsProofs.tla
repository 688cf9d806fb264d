-------------------------- MODULE PoolSettingsProofs --------------------------
(***************************************************************************)
(* The saved pools, for every override of an older release and every edit: *)
(* a start loses no variant of a pool, the original override is kept until *)
(* an edit, what is saved is what is served, and jobs stay served.         *)
(***************************************************************************)
EXTENDS PoolSettingsProperties, FiniteSetTheorems, WellFoundedInduction, TLAPS

USE PoolSettingsAssumption

\* The variants among some pools.
Variants(P) == {Signature(P[n]) : n \in Names(P)}

---------------------------------------------------------------------------
(* The migration *)

\* Changing the labels of a pool makes no other variant of it.
LEMMA RelabelledSame ==
  ASSUME NEW p, IsPool(p), NEW L, NEW A
  PROVE  LET q == [p EXCEPT !.labels = L, !.aliases = A]
         IN  IsPool(q) /\ Signature(q) = Signature(p)
BY DEF IsPool, Signature

\* The pool that becomes "standard" is one of the built-in ones, and what goes with
\* it is a copy of it.
LEMMA StandardKeepsVariants ==
  ASSUME NEW P, ArePools(P)
  PROVE  ArePools(ToStandard(P)) /\ Variants(ToStandard(P)) = Variants(P)
<1>1. CASE "standard" \in Names(P) \/ \A n \in BuiltIn : ~IsLegacy(P, n)
  BY <1>1 DEF ToStandard
<1>2. CASE "standard" \notin Names(P) /\ \E n \in BuiltIn : IsLegacy(P, n)
  <2> DEFINE src == Source(P)
             L == (P[src].labels \ BuiltIn) \cup {"standard"}
             A == P[src].aliases \cup AliasBoth(P)
             std == [P[src] EXCEPT !.labels = L, !.aliases = A]
             D == (Names(P) \ (Redundant(P) \cup {src})) \cup {"standard"}
             Q == [n \in D |-> IF n = "standard" THEN std ELSE P[n]]
  <2>1. src \in Names(P) /\ src # "standard"
    BY <1>2 DEF Source, IsLegacy, BuiltIn
  <2>2. IsPool(P[src])
    BY <2>1 DEF ArePools, Names
  <2>3. std = [P[src] EXCEPT !.labels = (@ \ BuiltIn) \cup {"standard"},
                             !.aliases = @ \cup AliasBoth(P)]
    BY <2>2 DEF IsPool
  <2>4. ToStandard(P) = Q
    BY <1>2, <2>3 DEF ToStandard
  <2>5. IsPool(std) /\ Signature(std) = Signature(P[src])
    BY <2>2, RelabelledSame
  <2> HIDE DEF src, std
  <2>6. Names(Q) = D /\ Q["standard"] = std /\ \A n \in D \ {"standard"} : n \in Names(P) /\ Q[n] = P[n]
    BY DEF Names
  <2>7. ArePools(Q)
    BY <2>5, <2>6 DEF ArePools, Names
  <2>8. ASSUME NEW n \in Names(P)
        PROVE  Signature(P[n]) \in Variants(Q)
    <3>1. CASE n \in Redundant(P) \cup {src}
      <4>1. Signature(P[n]) = Signature(Q["standard"])
        BY <2>5, <2>6, <3>1 DEF Redundant, src
      <4> QED
        BY <2>6, <4>1 DEF Variants
    <3>2. CASE n \notin Redundant(P) \cup {src}
      BY <1>2, <2>6, <3>2 DEF Variants
    <3> QED
      BY <3>1, <3>2
  <2>9. ASSUME NEW n \in Names(Q)
        PROVE  Signature(Q[n]) \in Variants(P)
    BY <2>1, <2>5, <2>6 DEF Variants
  <2> HIDE DEF Q
  <2>10. Variants(Q) = Variants(P)
    BY <2>8, <2>9 DEF Variants
  <2> QED
    BY <2>4, <2>7, <2>10
<1> QED
  BY <1>1, <1>2

LEMMA DockerKeepsVariants ==
  ASSUME NEW P, ArePools(P)
  PROVE  ArePools(ToDocker(P)) /\ Variants(ToDocker(P)) = Variants(P)
<1>1. CASE ToDocker(P) = P
  BY <1>1
<1>2. CASE ToDocker(P) # P
  <2> DEFINE Q == [n \in (Names(P) \ {"default"}) \cup {"docker"} |->
                     IF n = "docker" THEN P["default"] ELSE P[n]]
  <2>1. ToDocker(P) = Q /\ "default" \in Names(P) /\ "docker" \notin Names(P)
    BY <1>2 DEF ToDocker
  <2>2. /\ Names(Q) = (Names(P) \ {"default"}) \cup {"docker"} /\ Q["docker"] = P["default"]
        /\ \A n \in Names(P) \ {"default"} : Q[n] = P[n]
    BY <2>1 DEF Names
  <2>3. ArePools(Q)
    BY <2>1, <2>2 DEF ArePools, Names
  <2>4. Variants(Q) = Variants(P)
    BY <2>1, <2>2 DEF Variants
  <2> QED
    BY <2>1, <2>3, <2>4
<1> QED
  BY <1>1, <1>2

LEMMA MigrationKeepsVariants ==
  ASSUME NEW P, ArePools(P)
  PROVE  ArePools(migrate_legacy_pools(P)) /\ Variants(migrate_legacy_pools(P)) = Variants(P)
BY StandardKeepsVariants, DockerKeepsVariants DEF migrate_legacy_pools

---------------------------------------------------------------------------
(* What is saved, served and waiting *)

Shape ==
  /\ saved = None \/ ArePools(saved)
  /\ ArePools(pools)
  /\ \A d \in Editor : edit[d] = None \/ ArePools(edit[d])
  /\ edit = [d \in Editor |-> edit[d]]
  /\ edits \in Nat

LEMMA InitShape == Init => Shape
BY DEF Init, Shape

\* What a request will put in place are pools.
LEMMA RequestShape ==
  ASSUME Shape, NEW d \in Editor, NEW P, ArePools(P), Request(d, P)
  PROVE  Shape'
BY DEF Request, Shape

LEMMA EditShape ==
  ASSUME Shape, NEW d \in Editor,
         PutPool(d) \/ DeletePool(d) \/ ImportPools(d) \/ Apply(d) \/ Refuse(d)
  PROVE  Shape'
<1>1. CASE PutPool(d)
  <2>1. PICK c \in Changes : Request(d, Put(pools, c.name, c.pool))
    BY <1>1 DEF PutPool
  <2>2. ArePools(Put(pools, c.name, c.pool))
    BY DEF Put, ArePools, Names, Shape
  <2> QED
    BY <2>1, <2>2, RequestShape
<1>2. CASE DeletePool(d)
  <2>1. PICK n \in Names(pools) : Request(d, Removed(pools, n))
    BY <1>2 DEF DeletePool
  <2>2. ArePools(Removed(pools, n))
    BY DEF Removed, ArePools, Names, Shape
  <2> QED
    BY <2>1, <2>2, RequestShape
<1>3. CASE ImportPools(d)
  BY <1>3, RequestShape DEF ImportPools
<1>4. CASE Apply(d)
  BY <1>4 DEF Apply, ToPutInPlace, Whole, Shape
<1>5. CASE Refuse(d)
  BY <1>5 DEF Refuse, Shape
<1> QED
  BY <1>1, <1>2, <1>3, <1>4, <1>5

\* A start that ends serves what the migration makes of the override.
LEMMA StartServes ==
  ASSUME Start
  PROVE  /\ saved' \in {saved, migrate_legacy_pools(saved)}
         /\ saved = None => saved' = None
         /\ pools' = pools \/ up'
         /\ up' /\ saved = None => pools' = migrate_legacy_pools(Configured)
         /\ up' /\ saved # None => pools' = migrate_legacy_pools(saved) /\ saved' = pools'
BY DEF Start, Rewritten, BackupFirst

LEMMA ShapeStep == Shape /\ [Next]_vars => Shape'
<1> SUFFICES ASSUME Shape, [Next]_vars PROVE Shape'
  OBVIOUS
<1>1. CASE Start
  <2>1. saved # None => ArePools(migrate_legacy_pools(saved))
    BY MigrationKeepsVariants DEF Shape
  <2>2. ArePools(migrate_legacy_pools(Configured))
    BY MigrationKeepsVariants
  <2>3. edit' = edit /\ edits' = edits
    BY <1>1 DEF Start
  <2>4. (saved' = None \/ ArePools(saved')) /\ ArePools(pools')
    BY <1>1, <2>1, <2>2, StartServes DEF Shape
  <2> QED
    BY <2>3, <2>4 DEF Shape
<1>2. CASE Stop
  BY <1>2 DEF Stop, Shape
<1>3. CASE UNCHANGED vars
  BY <1>3 DEF vars, Shape
<1> QED
  BY <1>1, <1>2, <1>3, EditShape DEF Next

---------------------------------------------------------------------------

\* A start loses no variant of a pool, whatever a user made of the built-in pools.
THEOREM VariantsAreKept == Spec => VariantsKept
<1>1. Spec => []Shape
  BY InitShape, ShapeStep, PTL DEF Spec
<1>2. ASSUME Shape, [Next]_vars, ~up, up', saved # None
      PROVE  {Signature(saved[n]) : n \in Names(saved)}
               = {Signature(pools'[n]) : n \in Names(pools')}
  <2>1. Start
    BY <1>2 DEF Next, vars, Stop, PutPool, DeletePool, ImportPools, Request, Apply, Refuse
  <2>2. pools' = migrate_legacy_pools(saved) /\ ArePools(saved)
    BY <1>2, <2>1, StartServes DEF Shape
  <2> QED
    BY <2>2, MigrationKeepsVariants DEF Variants
<1>3. Shape /\ [Next]_vars =>
        [~up /\ up' /\ saved # None =>
           {Signature(saved[n]) : n \in Names(saved)}
             = {Signature(pools'[n]) : n \in Names(pools')}]_vars
  BY <1>2
<1> QED
  BY <1>1, <1>3, PTL DEF Spec, VariantsKept

\* Until an edit was put in place: no copy is needed yet, or the copy is the original.
Recoverable ==
  /\ edits \in Nat
  /\ edits = 0 => \/ backup = None /\ saved = original
                  \/ backup = original /\ original # None

\* The override of the older release is there until an edit replaces it, however
\* often a start that migrates it is cut short.
THEOREM OriginalIsKept == Spec => []BackupHoldsOriginal
<1>1. Init => Recoverable
  BY DEF Init, Recoverable
<1>2. Recoverable /\ [Next]_vars => Recoverable'
  <2> SUFFICES ASSUME Recoverable, [Next]_vars PROVE Recoverable'
    OBVIOUS
  <2>1. CASE Start
    BY <2>1 DEF Start, Rewritten, BackupFirst, Recoverable
  <2>2. ASSUME NEW d \in Editor, Apply(d) PROVE Recoverable'
    BY <2>2 DEF Apply, Recoverable
  <2>3. CASE UNCHANGED <<saved, backup, edits, original>>
    BY <2>3 DEF Recoverable
  <2> QED
    BY <2>1, <2>2, <2>3
       DEF Next, vars, Stop, PutPool, DeletePool, ImportPools, Request, Refuse
<1>3. Recoverable => BackupHoldsOriginal
  BY DEF Recoverable, BackupHoldsOriginal
<1> QED
  BY <1>1, <1>2, <1>3, PTL DEF Spec

\* What is saved is what is served, whatever edits cross each other.
THEOREM SavedAreServed == Spec => []SavedIsServed
<1>1. Init => SavedIsServed
  BY DEF Init, SavedIsServed
<1>2. SavedIsServed /\ [Next]_vars => SavedIsServed'
  <2> SUFFICES ASSUME SavedIsServed, [Next]_vars PROVE SavedIsServed'
    OBVIOUS
  <2>1. CASE Start
    BY <2>1, StartServes DEF SavedIsServed
  <2>2. CASE Stop
    BY <2>2 DEF Stop, SavedIsServed
  <2>3. ASSUME NEW d \in Editor, Apply(d) PROVE SavedIsServed'
    BY <2>3 DEF Apply, ToPutInPlace, Whole, SavedIsServed
  <2>4. CASE UNCHANGED <<saved, pools, up>>
    BY <2>4 DEF SavedIsServed
  <2> QED
    BY <2>1, <2>2, <2>3, <2>4 DEF Next, vars, PutPool, DeletePool, ImportPools, Request, Refuse
<1> QED
  BY <1>1, <1>2, PTL DEF Spec

---------------------------------------------------------------------------
(* Edits keep the labels distinct *)

\* Pools whose labels are pairwise distinct have as many sets of labels as names.
LEMMA DistinctApart ==
  ASSUME NEW P, IsFiniteSet(Names(P)), Distinct(P)
  PROVE  Apart(P)
<1> DEFINE S == {matching_labels(P[n]) : n \in Names(P)}
           f == [n \in Names(P) |-> matching_labels(P[n])]
<1>1. f \in Bijection(Names(P), S)
  BY DEF Distinct, Bijection, Injection, Surjection, IsInjective
<1>2. ExistsBijection(Names(P), S)
  BY <1>1 DEF ExistsBijection
<1> HIDE DEF S
<1>3. Cardinality(S) = Cardinality(Names(P))
  BY <1>2, FS_Bijection
<1> QED
  BY <1>3 DEF Apart, S

LEMMA MigrationFinite ==
  ASSUME NEW P, IsFiniteSet(Names(P))
  PROVE  IsFiniteSet(Names(migrate_legacy_pools(P)))
<1>1. ASSUME NEW Q, IsFiniteSet(Names(Q))
      PROVE  IsFiniteSet(Names(ToStandard(Q))) /\ IsFiniteSet(Names(ToDocker(Q)))
  <2>1. /\ Names(ToStandard(Q)) \subseteq Names(Q) \cup {"standard"}
        /\ Names(ToDocker(Q)) \subseteq Names(Q) \cup {"docker"}
    BY DEF ToStandard, ToDocker, Names
  <2>2. IsFiniteSet(Names(Q) \cup {"standard"}) /\ IsFiniteSet(Names(Q) \cup {"docker"})
    BY <1>1, FS_AddElement
  <2> QED
    BY <2>1, <2>2, FS_Subset
<1> QED
  BY <1>1 DEF migrate_legacy_pools

\* What waits has passed the check.
Checked ==
  /\ IsFiniteSet(Names(pools))
  /\ saved # None => IsFiniteSet(Names(saved))
  /\ edit = [d \in Editor |-> edit[d]]
  /\ \A d \in Editor : edit[d] # None => IsFiniteSet(Names(edit[d])) /\ Distinct(edit[d])

LEMMA RequestChecked ==
  ASSUME Checked, NEW d \in Editor, NEW P, IsFiniteSet(Names(P)), Request(d, P)
  PROVE  Checked'
BY DEF Request, Checked

LEMMA CheckedStep == Checked /\ [Next]_vars => Checked'
<1> SUFFICES ASSUME Checked, [Next]_vars PROVE Checked'
  OBVIOUS
<1>0. IsFiniteSet(Names(Configured))
  BY RankAssumption DEF AreRanked, Names
<1>1. CASE Start
  <2>1. saved # None => IsFiniteSet(Names(migrate_legacy_pools(saved)))
    BY MigrationFinite DEF Checked
  <2>2. IsFiniteSet(Names(migrate_legacy_pools(Configured)))
    BY <1>0, MigrationFinite
  <2>3. edit' = edit
    BY <1>1 DEF Start
  <2>4. IsFiniteSet(Names(pools')) /\ (saved' # None => IsFiniteSet(Names(saved')))
    BY <1>1, <2>1, <2>2, StartServes DEF Checked
  <2> QED
    BY <2>3, <2>4 DEF Checked
<1>2. ASSUME NEW d \in Editor, PutPool(d)
      PROVE  Checked'
  <2>1. PICK c \in Changes : Request(d, Put(pools, c.name, c.pool))
    BY <1>2 DEF PutPool
  <2>2. IsFiniteSet(Names(pools) \cup {c.name})
    BY FS_AddElement DEF Checked
  <2>3. Names(Put(pools, c.name, c.pool)) = Names(pools) \cup {c.name}
    BY DEF Put, Names
  <2> QED
    BY <2>1, <2>2, <2>3, RequestChecked
<1>3. ASSUME NEW d \in Editor, DeletePool(d)
      PROVE  Checked'
  <2>1. PICK n \in Names(pools) : Request(d, Removed(pools, n))
    BY <1>3 DEF DeletePool
  <2>2. IsFiniteSet(Names(pools) \ {n})
    BY FS_Subset DEF Checked
  <2>3. Names(Removed(pools, n)) = Names(pools) \ {n}
    BY DEF Removed, Names
  <2> QED
    BY <2>1, <2>2, <2>3, RequestChecked
<1>4. ASSUME NEW d \in Editor, ImportPools(d)
      PROVE  Checked'
  BY <1>0, <1>4, RequestChecked DEF ImportPools
<1>5. ASSUME NEW d \in Editor, Apply(d) \/ Refuse(d)
      PROVE  Checked'
  BY <1>5 DEF Apply, Refuse, ToPutInPlace, Whole, Checked
<1>6. CASE Stop \/ UNCHANGED vars
  BY <1>6 DEF Stop, vars, Checked
<1> QED
  BY <1>1, <1>2, <1>3, <1>4, <1>5, <1>6 DEF Next

\* Whatever edits cross each other, none puts in place two pools that serve the same
\* labels: each replaces all pools by those it has checked.
THEOREM EditsKeepLabelsDistinct == Spec => LabelsDistinct
<1>1. Init => Checked
  BY RankAssumption DEF Init, Checked, AreRanked, Names
<1>2. ASSUME Checked, [Next]_vars, up, up', pools' # pools
      PROVE  Apart(pools')
  <2>1. PICK d \in Editor : Apply(d)
    BY <1>2 DEF Next, vars, Start, Stop, PutPool, DeletePool, ImportPools, Request, Refuse
  <2>2. pools' = edit[d] /\ edit[d] # None
    BY <2>1 DEF Apply, ToPutInPlace, Whole
  <2> QED
    BY <1>2, <2>2, DistinctApart DEF Checked
<1>3. Checked /\ [Next]_vars => [up /\ up' /\ pools' # pools => Apart(pools')]_vars
  BY <1>2
<1> QED
  BY <1>1, <1>3, CheckedStep, PTL DEF Spec, LabelsDistinct

---------------------------------------------------------------------------
(* A job that some pool accepts is matched with one *)

\* A nonempty set of natural numbers has a least element.
LEMMA LeastNatural ==
  ASSUME NEW T, T \subseteq Nat, T # {}
  PROVE  \E x \in T : \A y \in T : x <= y
<1>1. PICK R : R = OpToRel(<, Nat)
  OBVIOUS
<1>2. IsWellFoundedOn(R, Nat)
  BY <1>1, NatLessThanWellFounded, Zenon
<1>3. \A x, y \in Nat : x < y => <<x, y>> \in R
  BY <1>1 DEF OpToRel
<1>4. PICK x \in T : \A y \in T : <<y, x>> \notin R
  BY <1>2, WFMin
<1>5. \A y \in T : x <= y
  <2> TAKE y \in T
  <2>1. x \in Nat /\ y \in Nat
    OBVIOUS
  <2>2. ~ (y < x)
    BY <1>3, <1>4, <2>1
  <2> QED
    BY <2>1, <2>2
<1> QED
  BY <1>5

\* A finite set has a first element in every strict total order: the one with the
\* fewest elements before it.
LEMMA FirstExists ==
  ASSUME NEW T, IsFiniteSet(T), T # {}, NEW R,
         \A a \in T : <<a, a>> \notin R,
         \A a, b, c \in T : <<a, b>> \in R /\ <<b, c>> \in R => <<a, c>> \in R,
         \A a, b \in T : a = b \/ <<a, b>> \in R \/ <<b, a>> \in R
  PROVE  \E m \in T : \A n \in T \ {m} : <<m, n>> \in R
<1> DEFINE Before(n) == {k \in T : <<k, n>> \in R}
           Counts == {Cardinality(Before(n)) : n \in T}
<1>1. \A n \in T : IsFiniteSet(Before(n)) /\ Cardinality(Before(n)) \in Nat
  <2> TAKE n \in T
  <2>1. IsFiniteSet(Before(n))
    BY FS_Subset
  <2> QED
    BY <2>1, FS_CardinalityType
<1>2. PICK m \in T : \A n \in T : Cardinality(Before(m)) <= Cardinality(Before(n))
  <2> HIDE DEF Before
  <2>1. Counts \subseteq Nat /\ Counts # {}
    BY <1>1
  <2>2. PICK x \in Counts : \A y \in Counts : x <= y
    <3> HIDE DEF Counts
    <3> QED
      BY <2>1, LeastNatural
  <2>3. PICK m \in T : x = Cardinality(Before(m))
    OBVIOUS
  <2>4. \A n \in T : Cardinality(Before(n)) \in Counts
    OBVIOUS
  <2> HIDE DEF Counts
  <2> QED
    BY <2>2, <2>3, <2>4
<1>3. ASSUME NEW n \in T, <<n, m>> \in R
      PROVE  FALSE
  <2>1. Before(n) \subseteq Before(m) /\ n \in Before(m) /\ n \notin Before(n)
    BY <1>3
  <2>2. Cardinality(Before(n)) <= Cardinality(Before(m))
        /\ Cardinality(Before(n)) # Cardinality(Before(m))
    <3> HIDE DEF Before
    <3>1. IsFiniteSet(Before(m)) /\ Before(n) \in SUBSET Before(m)
      BY <1>1, <2>1
    <3>2. /\ Cardinality(Before(n)) <= Cardinality(Before(m))
          /\ Cardinality(Before(m)) = Cardinality(Before(n)) => Before(m) = Before(n)
      BY <3>1, FS_Subset
    <3>3. Before(m) # Before(n)
      BY <2>1
    <3> QED
      BY Zenon, <3>2, <3>3
  <2> HIDE DEF Before
  <2>3. /\ Cardinality(Before(m)) \in Nat /\ Cardinality(Before(n)) \in Nat
        /\ Cardinality(Before(m)) <= Cardinality(Before(n))
    BY <1>1, <1>2
  <2> QED
    BY <2>2, <2>3
<1> QED
  BY <1>2, <1>3

\* A surplus is a number, and pools are in a strict total order.
LEMMA SurplusType ==
  ASSUME NEW L, NEW p, IsRanked(p)
  PROVE  Surplus(L, p) \in Nat
<1>1. IsFiniteSet(p.labels) /\ IsFiniteSet(matching_labels(p))
  BY FS_Union DEF IsRanked, matching_labels
<1> DEFINE S == IF L \subseteq p.labels THEN p.labels ELSE matching_labels(p)
<1>2. IsFiniteSet(S)
  BY <1>1
<1> HIDE DEF S
<1>3. IsFiniteSet(S \ L)
  BY <1>2, FS_Subset
<1> QED
  BY <1>3, FS_CardinalityType DEF Surplus, S

\* match_pool finds a pool whenever one has the labels of the job.
LEMMA MatchExists ==
  ASSUME NEW P, AreRanked(P), NEW L, Fits(L, P) # {}
  PROVE  match_pool(L, P) \in Fits(L, P)
<1> DEFINE T == Fits(L, P)
           R == {e \in T \X T : Precedes(L, P[e[1]], e[1], P[e[2]], e[2])}
<1>1. IsFiniteSet(T)
  BY FS_Subset DEF AreRanked, Fits, Names
<1>2. \A n \in T : n \in DOMAIN NameRank /\ NameRank[n] \in Int /\ P[n].priority \in Int
                   /\ Surplus(L, P[n]) \in Nat
  <2> TAKE n \in T
  <2>1. n \in DOMAIN NameRank /\ IsRanked(P[n])
    BY DEF AreRanked, Fits, Names
  <2> QED
    BY <2>1, SurplusType, RankAssumption DEF IsRanked
<1>3. \A a, b \in T : <<a, b>> \in R <=> Precedes(L, P[a], a, P[b], b)
  OBVIOUS
<1> HIDE DEF R
<1>4. \A a \in T : <<a, a>> \notin R
  BY <1>2, <1>3 DEF Precedes
<1>5. \A a, b, c \in T : <<a, b>> \in R /\ <<b, c>> \in R => <<a, c>> \in R
  <2> TAKE a, b, c \in T
  <2>1. /\ Surplus(L, P[a]) \in Nat /\ Surplus(L, P[b]) \in Nat /\ Surplus(L, P[c]) \in Nat
        /\ P[a].priority \in Int /\ P[b].priority \in Int /\ P[c].priority \in Int
        /\ NameRank[a] \in Int /\ NameRank[b] \in Int /\ NameRank[c] \in Int
    BY <1>2
  <2> QED
    BY <1>3, <2>1 DEF Precedes
<1>6. \A a, b \in T : a = b \/ <<a, b>> \in R \/ <<b, a>> \in R
  <2> TAKE a, b \in T
  <2>1. /\ Surplus(L, P[a]) \in Nat /\ Surplus(L, P[b]) \in Nat
        /\ P[a].priority \in Int /\ P[b].priority \in Int
        /\ NameRank[a] \in Int /\ NameRank[b] \in Int
        /\ a # b => NameRank[a] # NameRank[b]
    BY <1>2, RankAssumption
  <2> QED
    BY <1>3, <2>1 DEF Precedes
<1>7. \E m \in T : \A n \in T \ {m} : <<m, n>> \in R
  BY <1>1, <1>4, <1>5, <1>6, FirstExists
<1>8. \E m \in T : \A n \in T \ {m} : Precedes(L, P[m], m, P[n], n)
  BY <1>3, <1>7
<1> QED
  BY <1>8 DEF match_pool

---------------------------------------------------------------------------
(* The migration serves the labels it found *)

\* A built-in pool that was left as it was has no alias of its own: one that is
\* dropped as a copy takes its aliases with it.
BareBuiltIns(P) == \A n \in BuiltIn : IsLegacy(P, n) => P[n].aliases \subseteq BuiltIn

BareInputs ==
  /\ BareBuiltIns(Configured) /\ \A P \in Overrides : BareBuiltIns(P)
  /\ \A c \in Changes : BareBuiltIns([n \in {c.name} |-> c.pool])

WellFormed(P) == ArePools(P) /\ AreRanked(P) /\ BareBuiltIns(P)
Serves(Q, P) == \A n \in Names(P) : \E m \in Names(Q) :
                  matching_labels(P[n]) \subseteq matching_labels(Q[m])

LEMMA StandardServes ==
  ASSUME NEW P, WellFormed(P)
  PROVE  WellFormed(ToStandard(P)) /\ Serves(ToStandard(P), P)
<1>1. CASE "standard" \in Names(P) \/ \A n \in BuiltIn : ~IsLegacy(P, n)
  <2>1. ToStandard(P) = P
    BY <1>1 DEF ToStandard
  <2> QED
    BY <2>1 DEF Serves
<1>2. CASE "standard" \notin Names(P) /\ \E n \in BuiltIn : IsLegacy(P, n)
  <2> DEFINE src == Source(P)
             L == (P[src].labels \ BuiltIn) \cup {"standard"}
             A == P[src].aliases \cup AliasBoth(P)
             std == [P[src] EXCEPT !.labels = L, !.aliases = A]
             D == (Names(P) \ (Redundant(P) \cup {src})) \cup {"standard"}
             Q == [n \in D |-> IF n = "standard" THEN std ELSE P[n]]
  <2>1. src \in Names(P) /\ src # "standard" /\ src \in BuiltIn /\ IsLegacy(P, src)
    BY <1>2 DEF Source, IsLegacy, BuiltIn
  <2>2. IsPool(P[src]) /\ IsRanked(P[src]) /\ P[src].labels = {src} /\ P[src].aliases \subseteq BuiltIn
    BY <2>1 DEF ArePools, AreRanked, Names, WellFormed, BareBuiltIns, IsLegacy
  <2>3. std = [P[src] EXCEPT !.labels = (@ \ BuiltIn) \cup {"standard"},
                             !.aliases = @ \cup AliasBoth(P)]
    BY <2>2 DEF IsPool
  <2>4. ToStandard(P) = Q
    BY <1>2, <2>3 DEF ToStandard
  <2>5. std.labels = L /\ std.aliases = A /\ std.priority = P[src].priority
    BY <2>2 DEF IsPool
  <2>6. IsRanked(std)
    <3>1. IsFiniteSet(L)
      <4>1. IsFiniteSet(P[src].labels \ BuiltIn)
        BY <2>2, FS_Subset DEF IsRanked
      <4> QED
        BY <4>1, FS_AddElement
    <3>2. IsFiniteSet(A)
      <4>1. IsFiniteSet(BuiltIn)
        <5>1. BuiltIn = {"ci"} \cup {"rust"}
          BY DEF BuiltIn
        <5> QED
          BY <5>1, FS_Singleton, FS_AddElement
      <4> QED
        BY <2>2, <4>1, FS_Union DEF IsRanked, AliasBoth
    <3> HIDE DEF L, A, std
    <3> QED
      BY <2>2, <2>5, <3>1, <3>2 DEF IsRanked
  <2>7. BuiltIn \subseteq matching_labels(std)
    BY <2>5 DEF matching_labels, AliasBoth
  <2>8. ArePools(Q)
    BY <2>4, StandardKeepsVariants DEF WellFormed
  <2> HIDE DEF std, L, A
  <2>9. Names(Q) = D /\ Q["standard"] = std /\ \A n \in D \ {"standard"} : n \in Names(P) /\ Q[n] = P[n]
    BY DEF Names
  <2>10. AreRanked(Q)
    <3>1. IsFiniteSet(D)
      <4>1. IsFiniteSet(Names(P) \ (Redundant(P) \cup {src}))
        BY FS_Subset DEF WellFormed, AreRanked, Names
      <4> QED
        BY <4>1, FS_AddElement
    <3>2. D \subseteq DOMAIN NameRank
      BY RankAssumption DEF WellFormed, AreRanked, Names
    <3>3. \A n \in D : IsRanked(Q[n])
      BY <2>6, <2>9 DEF WellFormed, AreRanked, Names
    <3> HIDE DEF D, Q
    <3> QED
      BY <2>9, <3>1, <3>2, <3>3 DEF AreRanked, Names
  <2>11. BareBuiltIns(Q)
    BY <2>9 DEF WellFormed, BareBuiltIns, IsLegacy, BuiltIn
  <2>12. ASSUME NEW n \in Names(P)
         PROVE  \E m \in Names(Q) : matching_labels(P[n]) \subseteq matching_labels(Q[m])
    <3>1. CASE n \in Redundant(P) \cup {src}
      <4>1. n \in BuiltIn /\ IsLegacy(P, n)
        BY <2>1, <3>1 DEF Redundant
      <4>2. matching_labels(P[n]) \subseteq BuiltIn
        BY <4>1 DEF matching_labels, IsLegacy, WellFormed, BareBuiltIns
      <4> QED
        BY <2>7, <2>9, <4>2
    <3>2. CASE n \notin Redundant(P) \cup {src}
      BY <1>2, <2>9, <3>2
    <3> QED
      BY <3>1, <3>2
  <2> HIDE DEF Q
  <2> QED
    BY <2>4, <2>8, <2>10, <2>11, <2>12 DEF WellFormed, Serves
<1> QED
  BY <1>1, <1>2

LEMMA DockerServes ==
  ASSUME NEW P, WellFormed(P)
  PROVE  WellFormed(ToDocker(P)) /\ Serves(ToDocker(P), P)
<1>1. CASE ToDocker(P) = P
  BY <1>1 DEF Serves
<1>2. CASE ToDocker(P) # P
  <2> DEFINE Q == [n \in (Names(P) \ {"default"}) \cup {"docker"} |->
                     IF n = "docker" THEN P["default"] ELSE P[n]]
  <2>1. ToDocker(P) = Q /\ "default" \in Names(P) /\ "docker" \notin Names(P)
    BY <1>2 DEF ToDocker
  <2>2. /\ Names(Q) = (Names(P) \ {"default"}) \cup {"docker"} /\ Q["docker"] = P["default"]
        /\ \A n \in Names(P) \ {"default"} : Q[n] = P[n]
    BY <2>1 DEF Names
  <2>3. ArePools(Q)
    BY <2>1, DockerKeepsVariants DEF WellFormed
  <2> HIDE DEF Q
  <2>4. AreRanked(Q)
    <3>1. IsFiniteSet((Names(P) \ {"default"}) \cup {"docker"})
      <4>1. IsFiniteSet(Names(P) \ {"default"})
        BY FS_Subset DEF WellFormed, AreRanked, Names
      <4> QED
        BY <4>1, FS_AddElement
    <3>2. Names(Q) \subseteq DOMAIN NameRank
      BY <2>2, RankAssumption DEF WellFormed, AreRanked, Names
    <3>3. \A n \in Names(Q) : IsRanked(Q[n])
      BY <2>1, <2>2 DEF WellFormed, AreRanked, Names
    <3> QED
      BY <2>2, <3>1, <3>2, <3>3 DEF AreRanked, Names
  <2>5. BareBuiltIns(Q)
    BY <2>2 DEF WellFormed, BareBuiltIns, IsLegacy, BuiltIn
  <2>6. Serves(Q, P)
    BY <2>1, <2>2 DEF Serves
  <2> QED
    BY <2>1, <2>3, <2>4, <2>5, <2>6 DEF WellFormed
<1> QED
  BY <1>1, <1>2

\* Both together.
LEMMA MigrationServes ==
  ASSUME NEW P, WellFormed(P)
  PROVE  WellFormed(migrate_legacy_pools(P)) /\ Serves(migrate_legacy_pools(P), P)
<1>1. WellFormed(ToStandard(P)) /\ Serves(ToStandard(P), P)
  BY StandardServes
<1>2. WellFormed(ToDocker(ToStandard(P))) /\ Serves(ToDocker(ToStandard(P)), ToStandard(P))
  BY <1>1, DockerServes
<1>3. Serves(ToDocker(ToStandard(P)), P)
  <2>1. ASSUME NEW n \in Names(P)
        PROVE  \E m \in Names(ToDocker(ToStandard(P))) :
                 matching_labels(P[n]) \subseteq matching_labels(ToDocker(ToStandard(P))[m])
    <3>1. PICK k \in Names(ToStandard(P)) :
            matching_labels(P[n]) \subseteq matching_labels(ToStandard(P)[k])
      BY <1>1 DEF Serves
    <3>2. PICK m \in Names(ToDocker(ToStandard(P))) :
            matching_labels(ToStandard(P)[k]) \subseteq matching_labels(ToDocker(ToStandard(P))[m])
      BY <1>2 DEF Serves
    <3> QED
      BY <3>1, <3>2
  <2> QED
    BY <2>1 DEF Serves
<1> QED
  BY <1>2, <1>3 DEF migrate_legacy_pools

\* What serves the labels of a pool is found by match_pool.
LEMMA ServedMatch ==
  ASSUME NEW P, NEW Q, WellFormed(Q), Serves(Q, P), NEW n \in Names(P),
         NEW L \in SUBSET matching_labels(P[n])
  PROVE  match_pool(L, Q) # None
<1>1. Fits(L, Q) # {}
  BY DEF Serves, Fits
<1>2. match_pool(L, Q) \in Fits(L, Q)
  BY <1>1, MatchExists DEF WellFormed
<1> QED
  BY <1>2, RankAssumption DEF Fits, WellFormed, AreRanked, Names

\* What is saved, served and waiting is well formed.
AllWellFormed ==
  /\ saved = None \/ WellFormed(saved)
  /\ WellFormed(pools)
  /\ \A d \in Editor : edit[d] = None \/ WellFormed(edit[d])
  /\ edit = [d \in Editor |-> edit[d]]

LEMMA RequestWellFormed ==
  ASSUME AllWellFormed, NEW d \in Editor, NEW P, WellFormed(P), Request(d, P)
  PROVE  AllWellFormed'
BY DEF Request, AllWellFormed

\* Putting a pool in place or taking one away keeps the pools well formed.
LEMMA PutWellFormed ==
  ASSUME BareInputs, NEW P, WellFormed(P), NEW c \in Changes
  PROVE  WellFormed(Put(P, c.name, c.pool))
<1> DEFINE Q == Put(P, c.name, c.pool)
           D == Names(P) \cup {c.name}
<1>1. Names(Q) = D /\ Q[c.name] = c.pool /\ \A n \in Names(P) \ {c.name} : Q[n] = P[n]
  BY DEF Put, Names
<1>2. Q = [n \in D |-> Q[n]] /\ \A n \in D : IsPool(Q[n])
  BY <1>1 DEF Put, Names, WellFormed, ArePools
<1>3. AreRanked(Q)
  <2>1. IsFiniteSet(D)
    BY FS_AddElement DEF WellFormed, AreRanked, Names
  <2>2. D \subseteq DOMAIN NameRank /\ \A n \in D : IsRanked(Q[n])
    BY <1>1, RankAssumption DEF WellFormed, AreRanked, Names
  <2> HIDE DEF Q, D
  <2> QED
    BY <1>1, <2>1, <2>2 DEF AreRanked, Names
<1>4. BareBuiltIns(Q)
  <2> DEFINE C == [n \in {c.name} |-> c.pool]
  <2>1. BareBuiltIns(C) /\ Names(C) = {c.name} /\ C[c.name] = c.pool
    BY DEF BareInputs, Names
  <2> HIDE DEF Q, C
  <2>2. ASSUME NEW n \in BuiltIn, IsLegacy(Q, n)
        PROVE  Q[n].aliases \subseteq BuiltIn
    <3>1. CASE n = c.name
      BY <1>1, <2>1, <2>2, <3>1 DEF BareBuiltIns, IsLegacy
    <3>2. CASE n # c.name
      BY <1>1, <2>2, <3>2 DEF WellFormed, BareBuiltIns, IsLegacy
    <3> QED
      BY <3>1, <3>2
  <2> QED
    BY <2>2 DEF BareBuiltIns
<1> HIDE DEF Q
<1>5. ArePools(Q)
  BY <1>1, <1>2 DEF ArePools, Names
<1> QED
  BY <1>3, <1>4, <1>5 DEF WellFormed, Q

LEMMA RemovedWellFormed ==
  ASSUME NEW P, WellFormed(P), NEW n
  PROVE  WellFormed(Removed(P, n))
<1>1. /\ Names(Removed(P, n)) = Names(P) \ {n}
      /\ \A m \in Names(P) \ {n} : Removed(P, n)[m] = P[m]
  BY DEF Removed, Names
<1>2. ArePools(Removed(P, n))
  BY DEF Removed, Names, WellFormed, ArePools
<1>3. AreRanked(Removed(P, n))
  <2>1. IsFiniteSet(Names(P) \ {n})
    BY FS_Subset DEF WellFormed, AreRanked, Names
  <2> QED
    BY <1>1, <2>1 DEF WellFormed, AreRanked, Names
<1>4. BareBuiltIns(Removed(P, n))
  BY <1>1 DEF WellFormed, BareBuiltIns, IsLegacy
<1> QED
  BY <1>2, <1>3, <1>4 DEF WellFormed

LEMMA WellFormedStep ==
  ASSUME BareInputs, AllWellFormed, [Next]_vars
  PROVE  AllWellFormed'
<1>0. WellFormed(Configured)
  BY RankAssumption DEF BareInputs, WellFormed
<1>1. CASE Start
  <2>1. saved # None => WellFormed(migrate_legacy_pools(saved))
    BY MigrationServes DEF AllWellFormed
  <2>2. WellFormed(migrate_legacy_pools(Configured))
    BY <1>0, MigrationServes
  <2>3. edit' = edit
    BY <1>1 DEF Start
  <2>4. (saved' = None \/ WellFormed(saved')) /\ WellFormed(pools')
    BY <1>1, <2>1, <2>2, StartServes DEF AllWellFormed
  <2> QED
    BY <2>3, <2>4 DEF AllWellFormed
<1>2. ASSUME NEW d \in Editor, PutPool(d)
      PROVE  AllWellFormed'
  BY <1>2, PutWellFormed, RequestWellFormed DEF PutPool, AllWellFormed
<1>3. ASSUME NEW d \in Editor, DeletePool(d)
      PROVE  AllWellFormed'
  BY <1>3, RemovedWellFormed, RequestWellFormed DEF DeletePool, AllWellFormed
<1>4. ASSUME NEW d \in Editor, ImportPools(d)
      PROVE  AllWellFormed'
  BY <1>0, <1>4, RequestWellFormed DEF ImportPools
<1>5. ASSUME NEW d \in Editor, Apply(d) \/ Refuse(d)
      PROVE  AllWellFormed'
  BY <1>5 DEF Apply, Refuse, ToPutInPlace, Whole, AllWellFormed
<1>6. CASE Stop \/ UNCHANGED vars
  BY <1>6 DEF Stop, vars, AllWellFormed
<1> QED
  BY <1>1, <1>2, <1>3, <1>4, <1>5, <1>6 DEF Next

\* Every job that a saved pool accepted is matched with a pool after a start,
\* provided that a built-in pool left as it was had no alias of its own.
THEOREM JobsAreServed ==
  ASSUME BareInputs
  PROVE  Spec => JobsStayServed
<1>1. Init => AllWellFormed
  BY RankAssumption DEF Init, AllWellFormed, BareInputs, WellFormed
<1>2. AllWellFormed /\ [Next]_vars => AllWellFormed'
  BY WellFormedStep
<1>3. ASSUME AllWellFormed, [Next]_vars, ~up, up', saved # None,
             NEW n \in Names(saved), NEW L \in SUBSET matching_labels(saved[n])
      PROVE  match_pool(L, pools') # None
  <2>1. Start
    BY <1>3 DEF Next, vars, Stop, PutPool, DeletePool, ImportPools, Request, Apply, Refuse
  <2>2. pools' = migrate_legacy_pools(saved) /\ WellFormed(saved)
    BY <1>3, <2>1, StartServes DEF AllWellFormed
  <2> QED
    BY <1>3, <2>2, MigrationServes, ServedMatch
<1>4. AllWellFormed /\ [Next]_vars =>
        [~up /\ up' /\ saved # None =>
           \A n \in Names(saved) : \A L \in SUBSET matching_labels(saved[n]) :
             match_pool(L, pools') # None]_vars
  BY <1>3
<1> QED
  BY <1>1, <1>2, <1>4, PTL DEF Spec, JobsStayServed
==============================================================================
