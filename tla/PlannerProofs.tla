---------------------------- MODULE PlannerProofs ----------------------------
(* What is proved of the rule-based planner, for any number of tasks: the plan
   holds each of Notion's tasks exactly once, in the order of their keys; and
   when no two tasks have the same key, it does not matter in which order Notion
   returns them, so a poll that finds no task changed finds the same token. *)
EXTENDS Planner, Functions, FiniteSetTheorems, TLAPS

(* The tasks of a day: any number, with any tiers, priorities and starts. *)
IsDay(tasks, n) == DOMAIN tasks = 1 .. n /\ \A i \in 1 .. n : tasks[i].start \in Int

Distinct(tasks) ==
    \A i, j \in DOMAIN tasks : i = j \/ KeyBelow(tasks[i], tasks[j]) \/ KeyBelow(tasks[j], tasks[i])

Earlier(tasks, i) == {j \in DOMAIN tasks : Precedes(tasks, j, i)}

LEMMA RanksAreNumbers ==
    ASSUME NEW x PROVE TierRank(x) \in Int /\ PriorityRank(x) \in Int
<1>1. TierRank(x) \in Int
  <2>1. CASE x = "Core"  BY <2>1 DEF TierRank
  <2>2. CASE x = "Flexible"  BY <2>2 DEF TierRank
  <2>3. CASE x = "Optional"  BY <2>3 DEF TierRank
  <2>4. CASE x \notin {"Core", "Flexible", "Optional"}  BY <2>4 DEF TierRank
  <2>5. QED  BY <2>1, <2>2, <2>3, <2>4
<1>2. PriorityRank(x) \in Int
  <2>1. CASE x = "P1"  BY <2>1 DEF PriorityRank
  <2>2. CASE x = "P2"  BY <2>2 DEF PriorityRank
  <2>3. CASE x = "P3"  BY <2>3 DEF PriorityRank
  <2>4. CASE x \notin {"P1", "P2", "P3"}  BY <2>4 DEF PriorityRank
  <2>5. QED  BY <2>1, <2>2, <2>3, <2>4
<1>3. QED  BY <1>1, <1>2

(* Keys are compared like the tuples they are: a strict order in which two that
   are incomparable agree in everything. *)
LEMMA KeysAreOrdered ==
    ASSUME NEW a, NEW b, NEW c, a.start \in Int, b.start \in Int, c.start \in Int
    PROVE  /\ ~ KeyBelow(a, a)
           /\ KeyBelow(a, b) => ~ KeyBelow(b, a)
           /\ KeyBelow(a, b) /\ KeyBelow(b, c) => KeyBelow(a, c)
           /\ ~ KeyBelow(a, b) /\ ~ KeyBelow(b, c) => ~ KeyBelow(a, c)
  BY RanksAreNumbers DEF KeyBelow

(* The stable sort puts any two tasks in one order. *)
LEMMA PrecedesIsTotal ==
    ASSUME NEW n \in Nat, NEW tasks, IsDay(tasks, n),
           NEW i \in 1 .. n, NEW j \in 1 .. n, NEW k \in 1 .. n
    PROVE  /\ ~ Precedes(tasks, i, i)
           /\ i # j => Precedes(tasks, i, j) \/ Precedes(tasks, j, i)
           /\ Precedes(tasks, i, j) /\ Precedes(tasks, j, k) => Precedes(tasks, i, k)
<1>1. tasks[i].start \in Int /\ tasks[j].start \in Int /\ tasks[k].start \in Int
  BY DEF IsDay
<1>2. ~ Precedes(tasks, i, i)
  BY <1>1, KeysAreOrdered DEF Precedes
<1>3. i # j => Precedes(tasks, i, j) \/ Precedes(tasks, j, i)
  BY <1>1, KeysAreOrdered DEF Precedes
<1>4. ASSUME Precedes(tasks, i, j), Precedes(tasks, j, k) PROVE Precedes(tasks, i, k)
  <2>1. ~ KeyBelow(tasks[j], tasks[i]) /\ ~ KeyBelow(tasks[k], tasks[j])
    BY <1>1, <1>4, KeysAreOrdered DEF Precedes
  <2>2. ~ KeyBelow(tasks[k], tasks[i])
    BY <1>1, <2>1, KeysAreOrdered
  <2>3. CASE i < k  BY <2>2, <2>3 DEF Precedes
  <2>4. CASE KeyBelow(tasks[i], tasks[j])
    <3>1. KeyBelow(tasks[i], tasks[k]) \/ ~ KeyBelow(tasks[i], tasks[k])
      OBVIOUS
    <3>2. ASSUME ~ KeyBelow(tasks[i], tasks[k]) PROVE FALSE
      BY <1>1, <2>1, <2>4, <3>2, KeysAreOrdered
    <3>3. QED  BY <3>1, <3>2 DEF Precedes
  <2>5. CASE KeyBelow(tasks[j], tasks[k])
    <3>1. ASSUME ~ KeyBelow(tasks[i], tasks[k]) PROVE FALSE
      BY <1>1, <2>1, <2>5, <3>1, KeysAreOrdered
    <3>2. QED  BY <3>1 DEF Precedes
  <2>6. CASE i < j /\ j < k  BY <2>3, <2>6
  <2>7. QED  BY <1>4, <2>4, <2>5, <2>6 DEF Precedes
<1>5. QED  BY <1>2, <1>3, <1>4

(* Places are those of the plan, and follow the order. *)
LEMMA PlaceFollowsOrder ==
    ASSUME NEW n \in Nat, NEW tasks, IsDay(tasks, n), NEW i \in 1 .. n
    PROVE  /\ Place(tasks, i) \in 1 .. n
           /\ \A j \in 1 .. n : Precedes(tasks, j, i) => Place(tasks, j) < Place(tasks, i)
<1>0. IsFiniteSet(1 .. n) /\ Cardinality(1 .. n) = n
  BY FS_Interval
<1>1. \A j \in 1 .. n : IsFiniteSet(Earlier(tasks, j)) /\ Cardinality(Earlier(tasks, j)) \in Nat
  BY <1>0, FS_Subset, FS_CardinalityType DEF Earlier, IsDay
<1>2. Place(tasks, i) \in 1 .. n
  <2>1. Earlier(tasks, i) \in SUBSET (1 .. n) /\ i \notin Earlier(tasks, i)
    BY PrecedesIsTotal DEF Earlier, IsDay
  <2>2. Cardinality(Earlier(tasks, i)) <= n /\ Cardinality(Earlier(tasks, i)) # n
    BY <1>0, <2>1, FS_Subset
  <2>3. QED  BY <1>1, <2>2 DEF Place, Earlier
<1>3. ASSUME NEW j \in 1 .. n, Precedes(tasks, j, i) PROVE Place(tasks, j) < Place(tasks, i)
  <2>1. j \in Earlier(tasks, i) /\ j \notin Earlier(tasks, j)
    BY <1>3, PrecedesIsTotal DEF Earlier, IsDay
  <2>2. Earlier(tasks, j) \in SUBSET Earlier(tasks, i)
    BY <1>3, PrecedesIsTotal DEF Earlier, IsDay
  <2>3. Cardinality(Earlier(tasks, j)) <= Cardinality(Earlier(tasks, i))
        /\ Cardinality(Earlier(tasks, j)) # Cardinality(Earlier(tasks, i))
    BY <1>1, <2>1, <2>2, FS_Subset
  <2>4. QED  BY <1>1, <2>3 DEF Place, Earlier
<1>4. QED  BY <1>2, <1>3

(* Every place of the plan is taken by exactly one task. *)
LEMMA PlaceIsBijective ==
    ASSUME NEW n \in Nat, NEW tasks, IsDay(tasks, n)
    PROVE  [i \in 1 .. n |-> Place(tasks, i)] \in Bijection(1 .. n, 1 .. n)
<1> DEFINE place == [i \in 1 .. n |-> Place(tasks, i)]
<1>1. place \in [1 .. n -> 1 .. n]
  BY PlaceFollowsOrder
<1>2. \A i, j \in 1 .. n : i # j => place[i] # place[j]
  <2> SUFFICES ASSUME NEW i \in 1 .. n, NEW j \in 1 .. n, i # j PROVE place[i] # place[j]
    OBVIOUS
  <2>1. Precedes(tasks, i, j) \/ Precedes(tasks, j, i)
    BY PrecedesIsTotal
  <2>2. Place(tasks, i) < Place(tasks, j) \/ Place(tasks, j) < Place(tasks, i)
    BY <2>1, PlaceFollowsOrder
  <2>3. Place(tasks, i) \in Int /\ Place(tasks, j) \in Int
    BY PlaceFollowsOrder
  <2>4. QED  BY <2>2, <2>3
<1>3. place \in Injection(1 .. n, 1 .. n)
  BY <1>1, <1>2 DEF Injection, IsInjective
<1>4. IsFiniteSet(1 .. n)
  BY FS_Interval
<1>5. place \in Surjection(1 .. n, 1 .. n)
  BY <1>3, <1>4, FS_Injection
<1>6. QED  BY <1>3, <1>5 DEF Bijection

(* So every place has a task. *)
LEMMA PlaceIsTaken ==
    ASSUME NEW n \in Nat, NEW tasks, IsDay(tasks, n), NEW k \in 1 .. n
    PROVE  \E i \in 1 .. n : Place(tasks, i) = k
<1> DEFINE place == [i \in 1 .. n |-> Place(tasks, i)]
<1>1. place \in Surjection(1 .. n, 1 .. n)
  BY PlaceIsBijective DEF Bijection
<1>2. \E i \in 1 .. n : place[i] = k
  BY <1>1 DEF Surjection
<1>3. QED  BY <1>2

(* The task of a place is the one that has it. *)
LEMMA PlanAtPlace ==
    ASSUME NEW n \in Nat, NEW tasks, IsDay(tasks, n), NEW i \in 1 .. n
    PROVE  BuildDailyPlan(tasks)[Place(tasks, i)] = tasks[i]
<1>1. Place(tasks, i) \in 1 .. n
  BY PlaceFollowsOrder
<1>2. \A j \in 1 .. n : Place(tasks, j) = Place(tasks, i) => j = i
  BY PlaceIsBijective DEF Bijection, Injection, IsInjective
<1>3. (CHOOSE j \in 1 .. n : Place(tasks, j) = Place(tasks, i)) = i
  BY <1>2
<1>4. QED  BY <1>1, <1>3 DEF BuildDailyPlan, IsDay

(* A plan holds each of the day's tasks exactly once, and no task stands behind
   one whose tier, priority and start come later. *)
THEOREM PlanHoldsDay ==
    ASSUME NEW n \in Nat, NEW tasks, IsDay(tasks, n)
    PROVE  /\ \E place \in Bijection(1 .. n, 1 .. n) :
                  \A i \in 1 .. n : BuildDailyPlan(tasks)[place[i]] = tasks[i]
           /\ \A j, k \in 1 .. n :
                  j < k => ~ KeyBelow(BuildDailyPlan(tasks)[k], BuildDailyPlan(tasks)[j])
<1> DEFINE place == [i \in 1 .. n |-> Place(tasks, i)]
<1>1. place \in Bijection(1 .. n, 1 .. n)
  BY PlaceIsBijective
<1>2. \A i \in 1 .. n : BuildDailyPlan(tasks)[place[i]] = tasks[i]
  BY PlanAtPlace
<1>3. ASSUME NEW j \in 1 .. n, NEW k \in 1 .. n, j < k
      PROVE  ~ KeyBelow(BuildDailyPlan(tasks)[k], BuildDailyPlan(tasks)[j])
  <2>1. PICK a \in 1 .. n, b \in 1 .. n : Place(tasks, a) = j /\ Place(tasks, b) = k
    BY PlaceIsTaken
  <2>2. ~ Precedes(tasks, b, a)
    <3>1. Precedes(tasks, b, a) => k < j
      BY <2>1, PlaceFollowsOrder
    <3>2. QED  BY <1>3, <3>1
  <2>3. ~ KeyBelow(tasks[b], tasks[a])
    BY <2>2 DEF Precedes
  <2>4. BuildDailyPlan(tasks)[j] = tasks[a] /\ BuildDailyPlan(tasks)[k] = tasks[b]
    BY <2>1, PlanAtPlace
  <2>5. QED  BY <2>3, <2>4
<1>4. QED  BY <1>1, <1>2, <1>3

(* When no two keys agree, Notion's order is lost in the plan: the same tasks in
   another order give the same items, and with them the same approval token. *)
THEOREM PlanIgnoresOrder ==
    ASSUME NEW n \in Nat, NEW tasks, IsDay(tasks, n), Distinct(tasks),
           NEW moved \in Bijection(1 .. n, 1 .. n)
    PROVE  BuildDailyPlan([i \in 1 .. n |-> tasks[moved[i]]]) = BuildDailyPlan(tasks)
<1> DEFINE other == [i \in 1 .. n |-> tasks[moved[i]]]
<1>0. /\ moved \in [1 .. n -> 1 .. n]
      /\ \A i, j \in 1 .. n : moved[i] = moved[j] => i = j
      /\ \A k \in 1 .. n : \E i \in 1 .. n : moved[i] = k
  BY DEF Bijection, Injection, IsInjective, Surjection
<1>1. IsDay(other, n)
  BY <1>0 DEF IsDay
<1>2. ASSUME NEW i \in 1 .. n, NEW j \in 1 .. n
      PROVE  Precedes(other, j, i) <=> Precedes(tasks, moved[j], moved[i])
  <2>1. moved[i] \in 1 .. n /\ moved[j] \in 1 .. n /\ (i = j <=> moved[i] = moved[j])
    BY <1>0
  <2>2. CASE i = j  BY <1>1, <2>1, <2>2, PrecedesIsTotal
  <2>3. CASE i # j
    <3>1. KeyBelow(tasks[moved[i]], tasks[moved[j]]) \/ KeyBelow(tasks[moved[j]], tasks[moved[i]])
      BY <2>1, <2>3 DEF Distinct, IsDay
    <3>2. KeyBelow(tasks[moved[i]], tasks[moved[j]]) => ~ KeyBelow(tasks[moved[j]], tasks[moved[i]])
      BY <2>1, KeysAreOrdered DEF IsDay
    <3>3. QED  BY <3>1, <3>2 DEF Precedes
  <2>4. QED  BY <2>2, <2>3
<1>3. ASSUME NEW i \in 1 .. n PROVE Place(other, i) = Place(tasks, moved[i])
  <2> DEFINE S == Earlier(other, i)
             T == Earlier(tasks, moved[i])
             g == [j \in S |-> moved[j]]
  <2>0. moved[i] \in 1 .. n
    BY <1>0
  <2>1. S = {j \in 1 .. n : Precedes(tasks, moved[j], moved[i])}
    BY <1>2 DEF Earlier
  <2>2. T = {k \in 1 .. n : Precedes(tasks, k, moved[i])}
    BY DEF Earlier, IsDay
  <2>3. g \in Bijection(S, T)
    <3>1. g \in [S -> T]
      BY <1>0, <2>1, <2>2
    <3>2. \A a, b \in S : g[a] = g[b] => a = b
      BY <1>0, <2>1
    <3>3. \A k \in T : \E a \in S : g[a] = k
      BY <1>0, <2>1, <2>2
    <3>4. QED  BY <3>1, <3>2, <3>3 DEF Bijection, Injection, IsInjective, Surjection
  <2>4. IsFiniteSet(S)
    <3>1. IsFiniteSet(1 .. n)
      BY FS_Interval
    <3>2. S \in SUBSET (1 .. n)
      BY <2>1
    <3>3. QED  BY <3>1, <3>2, FS_Subset
  <2>5. ExistsBijection(S, T)
    BY <2>3 DEF ExistsBijection
  <2>6. Cardinality(S) = Cardinality(T)
    BY <2>4, <2>5, FS_Bijection
  <2>7. QED  BY <2>6 DEF Place, Earlier
<1> HIDE DEF other
<1>4. ASSUME NEW k \in 1 .. n PROVE BuildDailyPlan(other)[k] = BuildDailyPlan(tasks)[k]
  <2>1. PICK i \in 1 .. n : Place(other, i) = k
    BY <1>1, PlaceIsTaken
  <2>2. moved[i] \in 1 .. n /\ Place(tasks, moved[i]) = k
    BY <1>0, <1>3, <2>1
  <2>3. BuildDailyPlan(other)[k] = other[i] /\ BuildDailyPlan(tasks)[k] = tasks[moved[i]]
    BY <1>1, <2>1, <2>2, PlanAtPlace
  <2>4. QED  BY <2>3 DEF other
<1>5. /\ BuildDailyPlan(other) = [k \in 1 .. n |-> BuildDailyPlan(other)[k]]
      /\ BuildDailyPlan(tasks) = [k \in 1 .. n |-> BuildDailyPlan(tasks)[k]]
  BY <1>1 DEF BuildDailyPlan, IsDay
<1>6. BuildDailyPlan(other) = BuildDailyPlan(tasks)
  BY <1>4, <1>5
<1>7. QED  BY <1>6 DEF other
=============================================================================
