----------------------- MODULE FirewallPolicyOrderProofs -----------------------
(***************************************************************************)
(* The order of the policies of a pair of zones, for every finite set of   *)
(* policies, every list policy_ids may be set to and every run: what was   *)
(* applied undisturbed holds, the answer is the plan, and an order that    *)
(* was written plans nothing.                                              *)
(***************************************************************************)
EXTENDS FirewallPolicyOrder, FunctionTheorems, FiniteSetTheorems, TLAPS

InForce(l) ==
    /\ Elements(config) \subseteq DOMAIN l
    /\ \A i, j \in DOMAIN config : i < j => l[config[i]] <= l[config[j]]

\* The indices are those a reorder has just given.
Numbered(l) ==
    /\ ValidPolicies(l)
    /\ ~Repeats(config) => \A i \in DOMAIN config : l[config[i]] = i

PhaseOK ==
    /\ phase = "plan" => pc = "done"
    /\ phase = "apply" => ~settled
    /\ pc \in {"reorder", "readBack"} => config # Untracked
CacheOK == ~caching => cached = NoList /\ fetched = NoList

\* The policies listed by a reference are wanted, and written before the order.
WantedOK ==
    /\ config # Untracked => Elements(config) \cap Managed \subseteq wanted
    /\ pc \in {"reorder", "readBack"} => Elements(config) \cap (ToCreate \cup ToUpdate) = {}

\* A listed policy that is yet to be updated was not reordered since it was read.
SeenOK ==
    phase = "apply" /\ quiet /\ pc = "done" /\ config # Untracked =>
        \A p \in Elements(config) \cap ToUpdate \cap DOMAIN index : seen[p] = index[p]

OrderOK ==
    /\ phase = "apply" /\ quiet /\ pc = "done" /\ config # Untracked => InForce(index)
    /\ quiet /\ pc = "readBack" => Numbered(index)

\* What was written and read back as planned is read in one way only, and no policy
\* of it is written again.
OneReading(l) ==
    Numbered(l) /\ ~Repeats(config) /\ Elements(config) \cap Predefined = {}
WrittenOK ==
    phase = "apply" /\ written =>
        /\ pc = "done" /\ config # Untracked /\ Elements(config) \cap ToUpdate = {}
        /\ quiet => OneReading(index)

IInv ==
    /\ TypeOK
    /\ PhaseOK /\ CacheOK /\ WantedOK /\ SeenOK /\ OrderOK /\ WrittenOK
    /\ AppliedOrderHolds /\ QuietApplyIsConsistent /\ WrittenOrderPlansNothing

(***************************************************************************)
(* Lists of policies.                                                      *)
(***************************************************************************)

LEMMA PositionIsThere ==
    ASSUME NEW s, NEW p \in Elements(s)
    PROVE  Position(s, p) \in DOMAIN s /\ s[Position(s, p)] = p
BY DEF Position, Elements

\* A sorted list holds each policy of the set once.
LEMMA SortedList ==
    ASSUME NEW l, NEW S \in SUBSET Policy, NEW s \in SortedBy(l, S)
    PROVE  /\ IsFiniteSet(S) /\ Cardinality(S) \in Nat
           /\ s \in [1..Cardinality(S) -> S] /\ s \in Ids
           /\ Elements(s) = S /\ ~Repeats(s)
           /\ \A i, j \in DOMAIN s : i < j => l[s[i]] <= l[s[j]]
<1> DEFINE n == Cardinality(S)
<1>1. IsFiniteSet(Policy) /\ IsFiniteSet(S) /\ n \in Nat /\ Cardinality(Policy) \in Nat
      /\ n <= Cardinality(Policy)
  BY PolicyAssumption, FS_Subset, FS_CardinalityType
<1>2. /\ s \in [1..n -> S] /\ Elements(s) = S
      /\ \A i, j \in DOMAIN s : i < j => l[s[i]] <= l[s[j]]
  BY DEF SortedBy
<1>3. n \in 0..Cardinality(Policy) /\ s \in [1..n -> Policy]
  BY <1>1, <1>2
<1>4. s \in Ids
  BY <1>3 DEF Ids
<1>5. s \in Surjection(1..n, S)
  <2>1. \A x \in S : \E i \in 1..n : s[i] = x
    BY <1>2 DEF Elements
  <2>2. QED
    BY <1>2, <2>1, Fun_IsSurj
<1>6. IsFiniteSet(1..n) /\ Cardinality(1..n) = n
  BY <1>1, FS_Interval
<1>7. s \in Injection(1..n, S)
  BY <1>1, <1>5, <1>6, FS_SurjSameCardinalityImpliesInj
<1>8. ~Repeats(s)
  <2>1. \A i, j \in 1..n : s[i] = s[j] => i = j
    BY <1>7, Fun_InjectionProperties
  <2>2. QED
    BY <1>2, <2>1 DEF Repeats
<1>9. QED
  BY <1>1, <1>2, <1>4, <1>8

\* A list without a repetition is as long as its set.
LEMMA LengthOfList ==
    ASSUME NEW ids \in Seq(Policy), ~Repeats(ids)
    PROVE  /\ ids \in [1..Len(ids) -> Elements(ids)] /\ Elements(ids) \in SUBSET Policy
           /\ Cardinality(Elements(ids)) = Len(ids)
<1> DEFINE n == Len(ids)
           E == Elements(ids)
<1>1. n \in Nat /\ ids \in [1..n -> E] /\ DOMAIN ids = 1..n /\ E \in SUBSET Policy
  BY DEF Elements
<1>2. \A i, j \in 1..n : ids[i] = ids[j] => i = j
  BY <1>1 DEF Repeats
<1>3. \A x \in E : \E i \in 1..n : ids[i] = x
  BY <1>1 DEF Elements
<1> HIDE DEF n, E
<1>4. ids \in Bijection(1..n, E)
  BY <1>1, <1>2, <1>3, Fun_IsBij
<1>5. ExistsBijection(1..n, E)
  BY <1>4 DEF ExistsBijection
<1>6. Cardinality(E) = n
  BY <1>1, <1>5, FS_CountingElements
<1>7. QED
  BY <1>1, <1>6 DEF n, E

\* One list is sorted by the indices a reorder has given.
LEMMA OneSortedList ==
    ASSUME NEW l, NEW ids \in Seq(Policy), ~Repeats(ids),
           \A i \in DOMAIN ids : l[ids[i]] = i,
           NEW s \in SortedBy(l, Elements(ids))
    PROVE  s = ids
<1> DEFINE n == Len(ids)
           E == Elements(ids)
<1>1. n \in Nat /\ ids \in [1..n -> E] /\ DOMAIN ids = 1..n /\ E \in SUBSET Policy
  BY DEF Elements
<1>2. Cardinality(E) = n
  BY LengthOfList
<1>3. /\ s \in [1..n -> E] /\ ~Repeats(s)
      /\ \A i, j \in 1..n : i < j => l[s[i]] <= l[s[j]]
  BY <1>1, <1>2, SortedList
<1> DEFINE f == [i \in 1..n |-> l[s[i]]]
<1>4. \A i \in 1..n : f[i] \in 1..n /\ ids[f[i]] = s[i]
  <2>1. ASSUME NEW i \in 1..n PROVE f[i] \in 1..n /\ ids[f[i]] = s[i]
    <3>1. s[i] \in Elements(ids)
      BY <1>3
    <3>2. PICK k \in 1..n : ids[k] = s[i]
      BY <1>1, <3>1 DEF Elements
    <3>3. f[i] = k
      BY <1>1, <3>2
    <3>4. QED
      BY <3>2, <3>3
  <2>2. QED
    BY <2>1
<1>5. \A i, j \in 1..n : i < j => f[i] <= f[j]
  BY <1>3
<1>6. \A i, j \in 1..n : f[i] = f[j] => i = j
  <2>1. \A i, j \in 1..n : f[i] = f[j] => s[i] = s[j]
    BY <1>4
  <2>2. \A i, j \in 1..n : s[i] = s[j] => i = j
    BY <1>3 DEF Repeats
  <2>3. QED
    BY <2>1, <2>2
<1> HIDE DEF f
<1>7. ASSUME NEW i \in 1..n PROVE s[i] = ids[i]
  <2>1. i <= f[i]
    <3> DEFINE g == [k \in 1..i |-> f[k]]
    <3>1. g \in [1..i -> 1..f[i]]
      BY <1>1, <1>4, <1>5, <1>7
    <3>2. \A j, k \in 1..i : g[j] = g[k] => j = k
      BY <1>1, <1>6, <1>7
    <3> HIDE DEF g
    <3>3. g \in Injection(1..i, 1..f[i])
      BY <3>1, <3>2, Fun_IsInj
    <3>4. i \in Int /\ f[i] \in Int /\ 1 <= i /\ 1 <= f[i]
      BY <1>1, <1>4, <1>7
    <3>5. Cardinality(1..i) = i /\ IsFiniteSet(1..f[i]) /\ Cardinality(1..f[i]) = f[i]
      BY <3>4, FS_Interval
    <3>6. QED
      BY <3>3, <3>5, FS_Injection
  <2>2. f[i] <= i
    <3> DEFINE g == [k \in i..n |-> f[k]]
    <3>1. g \in [i..n -> f[i]..n]
      BY <1>1, <1>4, <1>5, <1>7
    <3>2. \A j, k \in i..n : g[j] = g[k] => j = k
      BY <1>1, <1>6, <1>7
    <3> HIDE DEF g
    <3>3. g \in Injection(i..n, f[i]..n)
      BY <3>1, <3>2, Fun_IsInj
    <3>4. i \in Int /\ f[i] \in Int /\ n \in Int /\ i <= n /\ f[i] <= n
      BY <1>1, <1>4, <1>7
    <3>5. /\ Cardinality(i..n) = n - i + 1
          /\ IsFiniteSet(f[i]..n) /\ Cardinality(f[i]..n) = n - f[i] + 1
      BY <3>4, FS_Interval
    <3>6. Cardinality(i..n) <= Cardinality(f[i]..n)
      BY <3>3, <3>5, FS_Injection
    <3>7. QED
      BY <3>4, <3>5, <3>6
  <2>3. f[i] = i
    BY <1>4, <1>7, <2>1, <2>2
  <2>4. QED
    BY <1>4, <2>3
<1>8. QED
  BY <1>1, <1>3, <1>7

LEMMA WithList ==
    ASSUME NEW l, IsList(l), NEW p \in Policy, NEW i \in Nat
    PROVE  IsList(With(l, p, i))
BY DEF IsList, With

LEMMA WithoutList ==
    ASSUME NEW l, IsList(l), NEW p
    PROVE  IsList(Without(l, p))
BY DEF IsList, Without

LEMMA OrderingIds ==
    ASSUME NEW l, IsList(l), NEW ids, NEW s \in Ordering(l, ids)
    PROVE  /\ s \in Ids /\ ~Repeats(s)
           /\ Elements(s) = PairOf(l) \cap Elements(ids)
           /\ \A i, j \in DOMAIN s : i < j => l[s[i]] <= l[s[j]]
<1>1. PairOf(l) \cap Elements(ids) \in SUBSET Policy
  BY DEF PairOf, IsList
<1>2. QED
  BY <1>1, SortedList DEF Ordering

\* A reorder numbers the ids it was sent, and moves no policy of another pair.
LEMMA ReorderedList ==
    ASSUME IsList(index), NEW ids \in Seq(Policy), NEW l \in Reordered(ids)
    PROVE  /\ IsList(l) /\ DOMAIN l = DOMAIN index
           /\ \A p \in Elements(ids) \cap DOMAIN index : l[p] = Position(ids, p)
<1> DEFINE S == PairOf(index) \ Elements(ids)
<1>1. S \in SUBSET Policy
  BY DEF PairOf, IsList
<1>2. PICK rest \in SortedBy(index, S) :
        l = [p \in DOMAIN index |->
              IF p \in Elements(ids) THEN Position(ids, p)
              ELSE IF p \in PairOf(index) THEN Len(ids) + Position(rest, p) ELSE index[p]]
  BY DEF Reordered
<1>3. DOMAIN rest \subseteq Nat /\ Elements(rest) = S
  BY <1>1, SortedList
<1>4. \A p \in Elements(ids) : Position(ids, p) \in Nat
  BY PositionIsThere
<1>5. \A p \in S : Len(ids) + Position(rest, p) \in Nat
  BY <1>3, PositionIsThere
<1>6. QED
  BY <1>2, <1>4, <1>5 DEF IsList

LEMMA ReorderedIsNumbered ==
    ASSUME IsList(index), config \in Seq(Policy), ValidPolicies(index),
           NEW l \in Reordered(config)
    PROVE  Numbered(l)
<1>1. DOMAIN l = DOMAIN index
  BY ReorderedList
<1>2. ValidPolicies(l)
  BY <1>1 DEF ValidPolicies
<1>3. ASSUME ~Repeats(config), NEW i \in DOMAIN config PROVE l[config[i]] = i
  <2>1. config[i] \in Elements(config) /\ config[i] \in DOMAIN index
    BY DEF Elements, ValidPolicies
  <2>2. l[config[i]] = Position(config, config[i])
    BY <2>1, ReorderedList
  <2>3. QED
    BY <1>3, <2>1, <2>2, PositionIsThere DEF Repeats
<1>4. QED
  BY <1>2, <1>3 DEF Numbered

(***************************************************************************)
(* The steps.                                                              *)
(***************************************************************************)

LEMMA TypeInit == Init => TypeOK
<1> SUFFICES ASSUME Init PROVE TypeOK
  OBVIOUS
<1>1. IsList(index)
  <2>1. DOMAIN index = Policy \ Managed /\ \A p \in Policy \ Managed : index[p] \in Nat
    BY PolicyAssumption DEF Init
  <2>2. index \in [DOMAIN index -> Nat]
    BY <2>1, PolicyAssumption DEF Init
  <2>3. QED
    BY <2>1, <2>2 DEF IsList
<1>2. IsList(seen) /\ DOMAIN seen = {}
  BY DEF Init, IsList
<1>3. 0 \in 0..MaxOutside
  BY PolicyAssumption
<1>4. QED
  BY <1>1, <1>2, <1>3 DEF Init, TypeOK

LEMMA TypeStep == IInv /\ [Next]_vars => TypeOK'
<1> SUFFICES ASSUME IInv, [Next]_vars PROVE TypeOK'
  OBVIOUS
<1> USE DEF TypeOK, policy, order, history
<1>0. TypeOK /\ Managed \subseteq Policy /\ MaxOutside \in Nat
      /\ (config # Untracked => config \in Seq(Policy))
      /\ IsList(Listed)
  BY PolicyAssumption DEF IInv, Listed
<1>1. CASE Configure
  BY <1>0, <1>1 DEF Configure
<1>2. CASE Import
  BY <1>0, <1>2, OrderingIds DEF Import
<1>3. CASE Refresh
  <2>1. IsList(seen') /\ DOMAIN seen' \subseteq Managed
    BY <1>0, <1>3 DEF Refresh, IsList
  <2>2. state' \in Ids \cup {Untracked}
    BY <1>0, <1>3, OrderingIds DEF Refresh
  <2>3. QED
    BY <1>0, <1>3, <2>1, <2>2 DEF Refresh
<1>4. CASE Finish
  BY <1>0, <1>4 DEF Finish, End
<1>5. ASSUME NEW p \in Managed, CreatePolicy(p) PROVE TypeOK'
  <2>1. IsList(index') /\ IsList(seen')
    BY <1>0, <1>5, WithList DEF CreatePolicy
  <2>2. DOMAIN seen' \subseteq Managed
    BY <1>0, <1>5 DEF CreatePolicy, With
  <2>3. QED
    BY <1>0, <1>5, <2>1, <2>2 DEF CreatePolicy
<1>6. ASSUME NEW p \in Managed, UpdatePolicy(p) PROVE TypeOK'
  <2>1. seen[p] \in Nat /\ p \in DOMAIN seen
    BY <1>0, <1>6 DEF UpdatePolicy, ToUpdate, IsList
  <2>2. IsList(index') /\ IsList(seen')
    BY <1>0, <1>6, <2>1, WithList DEF UpdatePolicy, SentIndex
  <2>3. DOMAIN seen' \subseteq Managed
    BY <1>0, <1>6 DEF UpdatePolicy, With
  <2>4. QED
    BY <1>0, <1>6, <2>2, <2>3 DEF UpdatePolicy
<1>7. ASSUME NEW p \in Managed, DeletePolicy(p) PROVE TypeOK'
  <2>1. IsList(index') /\ IsList(seen')
    BY <1>0, <1>7, WithoutList DEF DeletePolicy
  <2>2. DOMAIN seen' \subseteq Managed
    BY <1>0, <1>7 DEF DeletePolicy, Without
  <2>3. QED
    BY <1>0, <1>7, <2>1, <2>2 DEF DeletePolicy
<1>8. CASE Validate
  BY <1>0, <1>8 DEF Validate, CacheList
<1>9. CASE Reorder
  <2>1. config \in Seq(Policy)
    BY <1>0, <1>9 DEF Reorder, IInv, PhaseOK
  <2>2. IsList(index')
    BY <1>0, <1>9, <2>1, ReorderedList DEF Reorder
  <2>3. QED
    BY <1>0, <1>9, <2>2 DEF Reorder
<1>10. CASE ReadBack
  <2>1. state' \in Ids
    BY <1>0, <1>10, OrderingIds DEF ReadBack
  <2>2. QED
    BY <1>0, <1>10, <2>1 DEF ReadBack, CacheList, End
<1>11. CASE DeleteOrder
  BY <1>0, <1>11 DEF DeleteOrder
<1>12. CASE Fails
  <2>1. pc = "reorder" => config \in Seq(Policy)
    BY <1>0 DEF IInv, PhaseOK
  <2>2. IsList(index')
    BY <1>0, <1>12, <2>1, ReorderedList DEF Fails
  <2>3. QED
    BY <1>0, <1>12, <2>2 DEF Fails, End
<1>13. CASE FetchElsewhere
  BY <1>0, <1>13 DEF FetchElsewhere
<1>14. CASE StoreElsewhere
  BY <1>0, <1>14 DEF StoreElsewhere
<1>15. ASSUME NEW p \in Policy, NEW i \in {0, MaxIndex}, MoveOutside(p, i) PROVE TypeOK'
  <2>1. IsList(index')
    BY <1>0, <1>15, WithList, PolicyAssumption DEF MoveOutside
  <2>2. outside' \in 0..MaxOutside
    BY <1>0, <1>15 DEF MoveOutside, OutsideChange
  <2>3. QED
    BY <1>0, <1>15, <2>1, <2>2 DEF MoveOutside, OutsideChange
<1>16. ASSUME NEW p \in Policy, DeleteOutside(p) PROVE TypeOK'
  <2>1. IsList(index')
    BY <1>0, <1>16, WithoutList DEF DeleteOutside
  <2>2. outside' \in 0..MaxOutside
    BY <1>0, <1>16 DEF DeleteOutside, OutsideChange
  <2>3. QED
    BY <1>0, <1>16, <2>1, <2>2 DEF DeleteOutside, OutsideChange
<1>17. CASE UNCHANGED vars
  BY <1>0, <1>17 DEF vars
<1>18. QED
  BY <1>1, <1>2, <1>3, <1>4, <1>5, <1>6, <1>7, <1>8, <1>9, <1>10, <1>11, <1>12, <1>13,
     <1>14, <1>15, <1>16, <1>17 DEF Next

LEMMA PhaseStep == IInv /\ [Next]_vars => PhaseOK' /\ CacheOK'
<1> SUFFICES ASSUME IInv, [Next]_vars PROVE PhaseOK' /\ CacheOK'
  OBVIOUS
<1> USE DEF PhaseOK, CacheOK, policy, order, history
<1>0. TypeOK /\ PhaseOK /\ CacheOK
  BY DEF IInv
<1>1. CASE Configure \/ Import \/ Refresh
  BY <1>0, <1>1 DEF Configure, Import, Refresh
<1>2. CASE Finish \/ Fails
  BY <1>0, <1>2 DEF Finish, Fails, End
<1>3. ASSUME NEW p \in Managed, CreatePolicy(p) \/ UpdatePolicy(p) \/ DeletePolicy(p)
      PROVE  PhaseOK' /\ CacheOK'
  BY <1>0, <1>3 DEF CreatePolicy, UpdatePolicy, DeletePolicy
<1>4. CASE Validate \/ Reorder \/ DeleteOrder
  BY <1>0, <1>4 DEF Validate, Reorder, DeleteOrder, CacheList
<1>5. CASE ReadBack
  BY <1>0, <1>5 DEF ReadBack, CacheList, End
<1>6. CASE FetchElsewhere \/ StoreElsewhere
  BY <1>0, <1>6 DEF FetchElsewhere, StoreElsewhere
<1>7. ASSUME NEW p \in Policy, DeleteOutside(p) \/ \E i \in {0, MaxIndex} : MoveOutside(p, i)
      PROVE  PhaseOK' /\ CacheOK'
  BY <1>0, <1>7 DEF MoveOutside, DeleteOutside, OutsideChange
<1>8. CASE UNCHANGED vars
  BY <1>0, <1>8 DEF vars
<1>9. QED
  BY <1>1, <1>2, <1>3, <1>4, <1>5, <1>6, <1>7, <1>8 DEF Next

\* A policy that the order names is not made, changed or deleted once the order is
\* under way.
LEMMA WantedStep == IInv /\ [Next]_vars => WantedOK'
<1> SUFFICES ASSUME IInv, [Next]_vars PROVE WantedOK'
  OBVIOUS
<1> USE DEF WantedOK, Elements, ToCreate, ToUpdate, policy, order, history
<1>0. TypeOK /\ PhaseOK /\ WantedOK
  BY DEF IInv
<1>1. CASE Configure
  BY <1>0, <1>1 DEF Configure, PhaseOK
<1>2. CASE Import \/ Refresh
  BY <1>0, <1>2 DEF Import, Refresh, PhaseOK
<1>3. CASE Finish \/ Fails
  BY <1>0, <1>3 DEF Finish, Fails, End
<1>4. ASSUME NEW p \in Managed, CreatePolicy(p) PROVE WantedOK'
  BY <1>0, <1>4 DEF CreatePolicy, With
<1>5. ASSUME NEW p \in Managed, UpdatePolicy(p) PROVE WantedOK'
  BY <1>0, <1>5 DEF UpdatePolicy, With
<1>6. ASSUME NEW p \in Managed, DeletePolicy(p) PROVE WantedOK'
  BY <1>0, <1>6 DEF DeletePolicy, Without, ToDelete
<1>7. CASE Validate
  BY <1>0, <1>7 DEF Validate
<1>8. CASE Reorder \/ DeleteOrder
  BY <1>0, <1>8 DEF Reorder, DeleteOrder
<1>9. CASE ReadBack
  BY <1>0, <1>9 DEF ReadBack, End
<1>10. CASE FetchElsewhere \/ StoreElsewhere
  BY <1>0, <1>10 DEF FetchElsewhere, StoreElsewhere
<1>11. ASSUME NEW p \in Policy, DeleteOutside(p) \/ \E i \in {0, MaxIndex} : MoveOutside(p, i)
      PROVE  WantedOK'
  BY <1>0, <1>11 DEF MoveOutside, DeleteOutside, OutsideChange
<1>12. CASE UNCHANGED vars
  BY <1>0, <1>12 DEF vars
<1>13. QED
  BY <1>1, <1>2, <1>3, <1>4, <1>5, <1>6, <1>7, <1>8, <1>9, <1>10, <1>11, <1>12 DEF Next

LEMMA SeenStep == IInv /\ [Next]_vars => SeenOK'
<1> SUFFICES ASSUME IInv, [Next]_vars, (phase = "apply")', quiet', (pc = "done")',
                    (config # Untracked)',
                    NEW p \in (Elements(config) \cap ToUpdate \cap DOMAIN index)'
             PROVE  seen'[p] = index'[p]
  BY DEF SeenOK
<1> USE DEF Elements, ToUpdate, policy, order, history
<1>0. TypeOK /\ PhaseOK /\ WantedOK /\ SeenOK
  BY DEF IInv
<1>1. CASE Configure \/ Import
  BY <1>1 DEF Configure, Import
<1>2. CASE Refresh
  BY <1>2 DEF Refresh
<1>3. CASE Finish \/ Fails
  BY <1>3 DEF Finish, Fails, End
<1>4. ASSUME NEW q \in Managed, CreatePolicy(q) PROVE seen'[p] = index'[p]
  BY <1>0, <1>4 DEF CreatePolicy, With, SeenOK
<1>5. ASSUME NEW q \in Managed, UpdatePolicy(q) PROVE seen'[p] = index'[p]
  BY <1>0, <1>5 DEF UpdatePolicy, With, SentIndex, SeenOK
<1>6. ASSUME NEW q \in Managed, DeletePolicy(q) PROVE seen'[p] = index'[p]
  BY <1>0, <1>6 DEF DeletePolicy, Without, SeenOK
<1>7. CASE Validate \/ Reorder \/ DeleteOrder
  BY <1>7 DEF Validate, Reorder, DeleteOrder
<1>8. CASE ReadBack
  BY <1>0, <1>8 DEF ReadBack, End, WantedOK
<1>9. CASE FetchElsewhere \/ StoreElsewhere
  BY <1>0, <1>9 DEF FetchElsewhere, StoreElsewhere, SeenOK
<1>10. ASSUME NEW q \in Policy, DeleteOutside(q) \/ \E i \in {0, MaxIndex} : MoveOutside(q, i)
       PROVE  seen'[p] = index'[p]
  BY <1>10 DEF MoveOutside, DeleteOutside, OutsideChange
<1>11. CASE UNCHANGED vars
  BY <1>0, <1>11 DEF vars, SeenOK
<1>12. QED
  BY <1>1, <1>2, <1>3, <1>4, <1>5, <1>6, <1>7, <1>8, <1>9, <1>10, <1>11 DEF Next

\* The order depends on the indices of the policies listed only.
LEMMA OrderOfListed ==
    ASSUME NEW l, NEW m,
           \A p \in Elements(config) \cap DOMAIN l : p \in DOMAIN m /\ m[p] = l[p]
    PROVE  (InForce(l) => InForce(m)) /\ (Numbered(l) => Numbered(m))
<1>1. \A i \in DOMAIN config : config[i] \in Elements(config)
  BY DEF Elements
<1>2. ASSUME InForce(l) PROVE InForce(m)
  BY <1>1, <1>2 DEF InForce
<1>3. ASSUME Numbered(l) PROVE Numbered(m)
  BY <1>1, <1>3 DEF Numbered, ValidPolicies
<1>4. QED
  BY <1>2, <1>3

\* What is listed, written and read back without a repetition is in force.
LEMMA NumberedIsInForce ==
    ASSUME config \in Seq(Policy), ~Repeats(config), NEW l, Numbered(l)
    PROVE  InForce(l)
BY DEF Numbered, InForce, ValidPolicies

\* What can be read depends on the indices and the configuration only.
LEMMA SameReading ==
    ASSUME UNCHANGED <<index, config>>
    PROVE  SortedBy(index, PairOf(index) \cap Elements(config))' =
           SortedBy(index, PairOf(index) \cap Elements(config))
<1> DEFINE S == PairOf(index) \cap Elements(config)
<1>1. S' = S
  BY DEF PairOf, Elements
<1>2. SortedBy(index, S)' = SortedBy(index, S)
  BY <1>1 DEF SortedBy, Elements
<1>3. QED
  BY <1>2

\* What is in the order that was sent, and nothing twice, is read in that order only.
LEMMA OneReadingOnly ==
    ASSUME config \in Seq(Policy), NEW l, OneReading(l)
    PROVE  SortedBy(l, PairOf(l) \cap Elements(config)) = {config}
<1>1. PairOf(l) \cap Elements(config) = Elements(config)
  BY DEF OneReading, Numbered, ValidPolicies, PairOf
<1>2. \A i \in DOMAIN config : l[config[i]] = i
  BY DEF OneReading, Numbered
<1>3. config \in SortedBy(l, Elements(config))
  BY <1>2, LengthOfList DEF OneReading, SortedBy
<1>4. \A s \in SortedBy(l, Elements(config)) : s = config
  BY <1>2, OneSortedList DEF OneReading
<1>5. QED
  BY <1>1, <1>3, <1>4

LEMMA OrderStep == IInv /\ [Next]_vars => OrderOK'
<1> SUFFICES ASSUME IInv, [Next]_vars PROVE OrderOK'
  OBVIOUS
<1> USE DEF OrderOK, policy, order, history
<1>0. TypeOK /\ PhaseOK /\ WantedOK /\ SeenOK /\ OrderOK /\ IsList(index) /\ IsList(Listed)
      /\ Managed \subseteq Policy
      /\ (config # Untracked => config \in Seq(Policy))
  BY PolicyAssumption DEF IInv, TypeOK, Listed
<1>1. ASSUME config' = config, pc' = pc, phase' = phase, quiet' = quiet,
             config # Untracked /\ phase = "apply" /\ quiet /\ pc \in {"readBack", "done"} =>
                \A p \in Elements(config) \cap DOMAIN index :
                    p \in DOMAIN index' /\ index'[p] = index[p]
      PROVE  OrderOK'
  <2>1. config # Untracked /\ phase = "apply" /\ quiet /\ pc \in {"readBack", "done"} =>
           (InForce(index) => InForce(index')) /\ (Numbered(index) => Numbered(index'))
    BY <1>1, OrderOfListed
  <2>2. InForce(index)' = InForce(index') /\ Numbered(index)' = Numbered(index')
    BY <1>1 DEF InForce, Numbered, Elements, ValidPolicies, Repeats
  <2>3. pc = "readBack" => config # Untracked /\ phase = "apply"
    BY <1>0 DEF PhaseOK, TypeOK
  <2>4. QED
    BY <1>0, <1>1, <2>1, <2>2, <2>3
<1>2. CASE Configure \/ Import
  BY <1>0, <1>2 DEF Configure, Import, PhaseOK
<1>3. CASE Refresh
  <2>1. SUFFICES ASSUME pc' = "done", config # Untracked PROVE InForce(index)'
    BY <1>3 DEF Refresh
  <2>2. config \in Ordering(index, state)
    BY <1>3, <2>1 DEF Refresh
  <2>3. InForce(index)
    BY <1>0, <2>2, OrderingIds DEF InForce, PairOf
  <2>4. QED
    BY <1>3, <2>3 DEF Refresh, InForce, Elements
<1>4. CASE Finish \/ Fails
  BY <1>4 DEF Finish, Fails, End
<1>5. ASSUME NEW q \in Managed, CreatePolicy(q) PROVE OrderOK'
  <2>1. \A p \in DOMAIN index : p \in DOMAIN index' /\ index'[p] = index[p]
    BY <1>5 DEF CreatePolicy, With
  <2>2. QED
    BY <1>1, <1>5, <2>1 DEF CreatePolicy
<1>6. ASSUME NEW q \in Managed, UpdatePolicy(q) PROVE OrderOK'
  <2>1. \A p \in DOMAIN index : p \in DOMAIN index' /\ (p # q => index'[p] = index[p])
    BY <1>6 DEF UpdatePolicy, With
  <2>2. config # Untracked /\ phase = "apply" /\ quiet /\ pc = "done" /\ q \in Elements(config)
           => index'[q] = index[q]
    BY <1>0, <1>6 DEF UpdatePolicy, With, SentIndex, SeenOK
  <2>3. pc = "readBack" => q \notin Elements(config)
    BY <1>0, <1>6 DEF UpdatePolicy, WantedOK
  <2>4. QED
    BY <1>1, <1>6, <2>1, <2>2, <2>3 DEF UpdatePolicy
<1>7. ASSUME NEW q \in Managed, DeletePolicy(q) PROVE OrderOK'
  <2>1. \A p \in DOMAIN index \ {q} : p \in DOMAIN index' /\ index'[p] = index[p]
    BY <1>7 DEF DeletePolicy, Without
  <2>2. config # Untracked => q \notin Elements(config)
    BY <1>0, <1>7 DEF DeletePolicy, ToDelete, WantedOK
  <2>3. QED
    BY <1>1, <1>7, <2>1, <2>2 DEF DeletePolicy
<1>8. CASE Validate \/ DeleteOrder
  BY <1>8 DEF Validate, DeleteOrder
<1>9. CASE Reorder
  <2>1. config \in Seq(Policy)
    BY <1>0, <1>9 DEF Reorder, PhaseOK
  <2>2. Numbered(index')
    BY <1>0, <1>9, <2>1, ReorderedIsNumbered DEF Reorder
  <2>3. Numbered(index)'
    BY <1>9, <2>2 DEF Reorder, Numbered, ValidPolicies, Elements, Repeats
  <2>4. QED
    BY <1>9, <2>3 DEF Reorder
<1>10. CASE ReadBack
  <2>1. SUFFICES ASSUME state' = config, quiet PROVE InForce(index)'
    BY <1>10 DEF ReadBack, End
  <2>2. ~Repeats(config)
    BY <1>0, <1>10, <2>1, OrderingIds DEF ReadBack
  <2>3. InForce(index)
    BY <1>0, <1>10, <2>1, <2>2, NumberedIsInForce DEF ReadBack, PhaseOK
  <2>4. QED
    BY <1>10, <2>3 DEF ReadBack, InForce, Elements
<1>11. CASE FetchElsewhere \/ StoreElsewhere
  BY <1>1, <1>11 DEF FetchElsewhere, StoreElsewhere
<1>12. ASSUME NEW p \in Policy, DeleteOutside(p) \/ \E i \in {0, MaxIndex} : MoveOutside(p, i)
       PROVE  OrderOK'
  BY <1>12 DEF MoveOutside, DeleteOutside, OutsideChange
<1>13. CASE UNCHANGED vars
  BY <1>1, <1>13 DEF vars
<1>14. QED
  BY <1>2, <1>3, <1>4, <1>5, <1>6, <1>7, <1>8, <1>9, <1>10, <1>11, <1>12, <1>13 DEF Next

LEMMA AppliedStep == IInv /\ [Next]_vars => AppliedOrderHolds'
<1> SUFFICES ASSUME IInv, [Next]_vars PROVE AppliedOrderHolds'
  OBVIOUS
<1> USE DEF AppliedOrderHolds, Elements, policy, order, history
<1>0. TypeOK /\ PhaseOK /\ OrderOK /\ AppliedOrderHolds
  BY DEF IInv
<1>1. CASE Configure \/ Import \/ Refresh
  BY <1>1 DEF Configure, Import, Refresh
<1>2. CASE Finish
  BY <1>0, <1>2 DEF Finish, OrderOK, InForce
<1>3. ASSUME NEW p \in Managed, CreatePolicy(p) \/ UpdatePolicy(p) \/ DeletePolicy(p)
      PROVE  AppliedOrderHolds'
  BY <1>0, <1>3 DEF CreatePolicy, UpdatePolicy, DeletePolicy, PhaseOK
<1>4. CASE Validate \/ Reorder \/ ReadBack \/ DeleteOrder \/ Fails
  BY <1>0, <1>4 DEF Validate, Reorder, ReadBack, DeleteOrder, Fails, PhaseOK
<1>5. CASE FetchElsewhere \/ StoreElsewhere
  BY <1>0, <1>5 DEF FetchElsewhere, StoreElsewhere
<1>6. ASSUME NEW p \in Policy, DeleteOutside(p) \/ \E i \in {0, MaxIndex} : MoveOutside(p, i)
      PROVE  AppliedOrderHolds'
  BY <1>6 DEF MoveOutside, DeleteOutside, OutsideChange
<1>7. CASE UNCHANGED vars
  BY <1>0, <1>7 DEF vars
<1>8. QED
  BY <1>1, <1>2, <1>3, <1>4, <1>5, <1>6, <1>7 DEF Next

LEMMA WrittenStep == IInv /\ [Next]_vars => WrittenOK' /\ WrittenOrderPlansNothing'
<1> SUFFICES ASSUME IInv, [Next]_vars PROVE WrittenOK' /\ WrittenOrderPlansNothing'
  OBVIOUS
<1> DEFINE W == WrittenOK /\ WrittenOrderPlansNothing
<1> USE DEF policy, order, history
<1>0. /\ TypeOK /\ PhaseOK /\ WantedOK /\ OrderOK /\ WrittenOK /\ WrittenOrderPlansNothing
      /\ IsList(index) /\ IsList(Listed) /\ (config # Untracked => config \in Seq(Policy))
  BY PolicyAssumption DEF IInv, TypeOK, Listed
\* The run is under way, and goes on without touching what is listed.
<1>1. ASSUME phase' = phase, phase = "apply", settled' = settled,
             written' = written, config' = config, written => pc' = pc,
             quiet' => quiet, written => ToUpdate' \subseteq ToUpdate,
             written /\ quiet => \A p \in Elements(config) \cap DOMAIN index :
                                 p \in DOMAIN index' /\ index'[p] = index[p]
      PROVE  W'
  <2>1. WrittenOrderPlansNothing'
    BY <1>0, <1>1 DEF WrittenOrderPlansNothing, PhaseOK
  <2>2. WrittenOK'
    <3>1. SUFFICES ASSUME written
                   PROVE  /\ pc' = "done" /\ config # Untracked
                          /\ Elements(config) \cap ToUpdate' = {}
                          /\ quiet' => OneReading(index)'
      BY <1>1 DEF WrittenOK, Elements
    <3>2. quiet' => OneReading(index')
      BY <1>0, <1>1, <3>1, OrderOfListed DEF WrittenOK, OneReading
    <3>3. OneReading(index)' = OneReading(index')
      BY <1>1 DEF OneReading, Numbered, ValidPolicies, Repeats, Elements
    <3>4. QED
      BY <1>0, <1>1, <3>1, <3>2, <3>3 DEF WrittenOK
  <2>3. QED
    BY <2>1, <2>2
\* Nothing was applied to the end, or it was not written.
<1>2. ASSUME phase' = "plan" \/ ~written', ~settled' \/ ~written'
      PROVE  W'
  BY <1>2 DEF WrittenOK, WrittenOrderPlansNothing
<1>3. CASE Configure \/ Import
  BY <1>0, <1>2, <1>3 DEF Configure, Import
<1>4. CASE Refresh
  BY <1>2, <1>4 DEF Refresh
<1>5. CASE Finish
  <2>1. WrittenOK'
    BY <1>5 DEF Finish, End, WrittenOK
  <2>2. SUFFICES ASSUME quiet, written PROVE WrittenOrderPlansNothing'
    BY <1>5, <2>1 DEF Finish, WrittenOrderPlansNothing
  <2>3. SortedBy(index, PairOf(index) \cap Elements(config)) = {config}
    BY <1>0, <1>5, <2>2, OneReadingOnly DEF Finish, WrittenOK
  <2>4. (SortedBy(index, PairOf(index) \cap Elements(config)) = {config})'
    BY <1>5, <2>3, SameReading DEF Finish
  <2>5. QED
    BY <2>1, <2>4 DEF WrittenOrderPlansNothing
<1>6. CASE Fails
  BY <1>0, <1>2, <1>6 DEF Fails, End, PhaseOK
<1>7. ASSUME NEW q \in Managed, CreatePolicy(q) PROVE W'
  <2>1. /\ \A p \in DOMAIN index : p \in DOMAIN index' /\ index'[p] = index[p]
        /\ ToUpdate' \subseteq ToUpdate
    BY <1>7 DEF CreatePolicy, With, ToUpdate
  <2>2. QED
    BY <1>1, <1>7, <2>1 DEF CreatePolicy
<1>8. ASSUME NEW q \in Managed, UpdatePolicy(q) PROVE W'
  <2>1. /\ \A p \in DOMAIN index : p \in DOMAIN index' /\ (p # q => index'[p] = index[p])
        /\ ToUpdate' \subseteq ToUpdate
    BY <1>8 DEF UpdatePolicy, With, ToUpdate
  <2>2. written => q \notin Elements(config)
    BY <1>0, <1>8 DEF UpdatePolicy, WrittenOK
  <2>3. QED
    BY <1>1, <1>8, <2>1, <2>2 DEF UpdatePolicy
<1>9. ASSUME NEW q \in Managed, DeletePolicy(q) PROVE W'
  <2>1. /\ \A p \in DOMAIN index \ {q} : p \in DOMAIN index' /\ index'[p] = index[p]
        /\ ToUpdate' \subseteq ToUpdate
    BY <1>9 DEF DeletePolicy, Without, ToUpdate
  <2>2. config # Untracked => q \notin Elements(config)
    BY <1>0, <1>9 DEF DeletePolicy, ToDelete, WantedOK
  <2>3. written => config # Untracked
    BY <1>0, <1>9 DEF DeletePolicy, WrittenOK
  <2>4. QED
    BY <1>1, <1>9, <2>1, <2>2, <2>3 DEF DeletePolicy
\* The order's own steps find it not yet written.
<1>10. CASE Validate \/ Reorder \/ DeleteOrder
  <2>1. ~written /\ written' = written /\ phase' = phase
    BY <1>0, <1>10 DEF Validate, Reorder, DeleteOrder, WrittenOK
  <2>2. QED
    BY <1>2, <2>1
<1>11. CASE ReadBack
  <2>1. /\ phase = "apply" /\ pc = "readBack" /\ config # Untracked /\ ~settled'
        /\ UNCHANGED <<index, policy, config, quiet>>
    BY <1>0, <1>11 DEF ReadBack, PhaseOK
  <2>2. WrittenOrderPlansNothing'
    BY <2>1 DEF WrittenOrderPlansNothing
  <2>3. SUFFICES ASSUME state' = config PROVE WrittenOK'
    BY <1>11, <2>2 DEF ReadBack, WrittenOK
  <2>4. pc' = "done" /\ Elements(config) \cap ToUpdate = {} /\ ToUpdate' = ToUpdate
    BY <1>0, <1>11, <2>1, <2>3 DEF ReadBack, WantedOK, ToUpdate
  <2>5. ~Repeats(config) /\ Elements(config) \cap Predefined = {}
    BY <1>0, <1>11, <2>3, OrderingIds DEF ReadBack, PairOf
  <2>6. quiet => OneReading(index)
    BY <1>0, <2>1, <2>5 DEF OrderOK, OneReading
  <2>7. OneReading(index)' = OneReading(index)
    BY <2>1 DEF OneReading, Numbered, ValidPolicies, Repeats, Elements
  <2>8. QED
    BY <2>1, <2>4, <2>6, <2>7 DEF WrittenOK, Elements
<1>12. CASE FetchElsewhere
  BY <1>1, <1>12 DEF FetchElsewhere, ToUpdate
<1>13. CASE StoreElsewhere \/ UNCHANGED vars
  <2>1. UNCHANGED <<index, policy, order, phase, pc, history>>
    BY <1>13 DEF StoreElsewhere, vars
  <2>2. WrittenOrderPlansNothing'
    BY <1>0, <2>1, SameReading DEF WrittenOrderPlansNothing
  <2>3. OneReading(index)' = OneReading(index)
    BY <2>1 DEF OneReading, Numbered, ValidPolicies, Repeats, Elements
  <2>4. WrittenOK'
    BY <1>0, <2>1, <2>3 DEF WrittenOK, Elements, ToUpdate
  <2>5. QED
    BY <2>2, <2>4
<1>14. ASSUME NEW p \in Policy, DeleteOutside(p) \/ \E i \in {0, MaxIndex} : MoveOutside(p, i)
       PROVE  W'
  <2>1. ~settled' /\ ~quiet' /\ UNCHANGED <<written, phase, pc, policy, order>>
    BY <1>14 DEF MoveOutside, DeleteOutside, OutsideChange
  <2>2. QED
    BY <1>0, <2>1 DEF WrittenOK, WrittenOrderPlansNothing, Elements, ToUpdate
<1>15. QED
  BY <1>3, <1>4, <1>5, <1>6, <1>7, <1>8, <1>9, <1>10, <1>11, <1>12, <1>13, <1>14 DEF Next

LEMMA ConsistentStep == IInv /\ [Next]_vars => QuietApplyIsConsistent'
<1> SUFFICES ASSUME IInv, [Next]_vars PROVE QuietApplyIsConsistent'
  OBVIOUS
<1> USE DEF QuietApplyIsConsistent, Repeats, Elements, policy, order, history
<1>0. TypeOK /\ PhaseOK /\ CacheOK /\ OrderOK /\ QuietApplyIsConsistent
  BY DEF IInv
<1>1. CASE Configure \/ Refresh
  BY <1>1 DEF Configure, Refresh
<1>2. CASE Import \/ Finish \/ Fails
  BY <1>0, <1>2 DEF Import, Finish, Fails
<1>3. ASSUME NEW p \in Managed, CreatePolicy(p) \/ UpdatePolicy(p) \/ DeletePolicy(p)
      PROVE  QuietApplyIsConsistent'
  BY <1>0, <1>3 DEF CreatePolicy, UpdatePolicy, DeletePolicy
<1>4. CASE Validate \/ Reorder \/ DeleteOrder
  BY <1>0, <1>4 DEF Validate, Reorder, DeleteOrder
<1>5. CASE ReadBack
  <2> USE DEF ReadBack
  <2>1. CASE state' = config
    BY <1>0, <1>5, <2>1
  <2>2. SUFFICES ASSUME quiet, ~caching, ~Repeats(config),
                        Elements(config) \cap Predefined = {}
                 PROVE  state' = config
    BY <1>5, <2>1
  <2> HIDE DEF Repeats, Elements
  <2>3. config \in Seq(Policy) /\ Listed = index /\ Numbered(index)
    BY <1>0, <1>5, <2>2, PolicyAssumption DEF TypeOK, PhaseOK, CacheOK, OrderOK, Listed
  <2>4. PairOf(index) \cap Elements(config) = Elements(config)
    BY <2>2, <2>3 DEF Numbered, ValidPolicies, PairOf
  <2>5. state' \in SortedBy(index, Elements(config))
    BY <1>5, <2>3, <2>4 DEF Ordering
  <2>6. QED
    BY <2>2, <2>3, <2>5, OneSortedList DEF Numbered
<1>6. CASE FetchElsewhere \/ StoreElsewhere
  BY <1>0, <1>6 DEF FetchElsewhere, StoreElsewhere
<1>7. ASSUME NEW p \in Policy, DeleteOutside(p) \/ \E i \in {0, MaxIndex} : MoveOutside(p, i)
      PROVE  QuietApplyIsConsistent'
  BY <1>7 DEF MoveOutside, DeleteOutside, OutsideChange
<1>8. CASE UNCHANGED vars
  BY <1>0, <1>8 DEF vars
<1>9. QED
  BY <1>1, <1>2, <1>3, <1>4, <1>5, <1>6, <1>7, <1>8 DEF Next

LEMMA InvInit == Init => IInv
BY TypeInit DEF Init, IInv, PhaseOK, CacheOK, WantedOK, SeenOK, OrderOK, WrittenOK,
   AppliedOrderHolds, QuietApplyIsConsistent, WrittenOrderPlansNothing

LEMMA InvStep == IInv /\ [Next]_vars => IInv'
BY TypeStep, PhaseStep, WantedStep, SeenStep, OrderStep, AppliedStep, WrittenStep, ConsistentStep
   DEF IInv

(***************************************************************************)
(* Theorems.                                                               *)
(***************************************************************************)

\* The parts of the invariant hold in every reachable state.
THEOREM Invariance == Spec => []IInv
BY InvInit, InvStep, PTL DEF Spec

\* Type correctness: whatever is read, sent and given by the controller, lists name
\* policies and indices are numbers.
THEOREM TypeCorrect == Spec => []TypeOK
<1>1. IInv => TypeOK
  BY DEF IInv
<1>2. QED
  BY <1>1, Invariance, PTL

\* After an undisturbed run that succeeded the listed policies are evaluated in the
\* order of policy_ids, whatever the run created, updated and deleted with them and
\* whether or not it used the cache.  (Create and Update of the order, applyPlanToState)
THEOREM OrderHolds == Spec => []AppliedOrderHolds
<1>1. IInv => AppliedOrderHolds
  BY DEF IInv
<1>2. QED
  BY <1>1, Invariance, PTL

\* Without the cache, what an undisturbed run reads back is what it planned, unless the
\* list repeats a policy or names a predefined one: one list is sorted by the indices
\* that a reorder has given.  (readOrdering after ReorderFirewallPolicies)
THEOREM AnswerIsThePlan == Spec => []QuietApplyIsConsistent
<1>1. IInv => QuietApplyIsConsistent
  BY DEF IInv
<1>2. QED
  BY <1>1, Invariance, PTL

\* The order that an undisturbed run has written, with the cache or without, is the only
\* one a later read can find, so no plan comes back: its policies are numbered, none
\* twice, and nothing the run does afterwards touches them.
\* (GetFirewallPolicyOrdering after ReorderFirewallPolicies)
THEOREM WrittenOrderStays == Spec => []WrittenOrderPlansNothing
<1>1. IInv => WrittenOrderPlansNothing
  BY DEF IInv
<1>2. QED
  BY <1>1, Invariance, PTL
================================================================================
