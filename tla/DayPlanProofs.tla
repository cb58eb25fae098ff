---------------------------- MODULE DayPlanProofs ----------------------------
(* What is proved of the daily plan with the rule-based provider, when requests
   do not overlap: the stored plan holds the day's tasks in their order, and a
   day whose tasks did not change keeps its token, and so its approval, in
   whatever order Notion returns them. *)
EXTENDS DayPlan, PlanApprovalProofs, PlannerProofs

-----------------------------------------------------------------------------
(* The plan of one page. *)

(* A page's tasks are a day in the sense of PlannerProofs, each task once. *)
LEMMA PageIsDay ==
    ASSUME NEW p \in Pages
    PROVE  \E n \in Nat :
              /\ IsDay(Returned[p], n)
              /\ \A i, j \in 1 .. n : Returned[p][i] = Returned[p][j] => i = j
  <1> DEFINE t == Returned[p]
  <1>1. t \in Seq(Tasks)
    BY ReturnedAssumption
  <1>2. /\ Len(t) \in Nat
        /\ DOMAIN t = 1 .. Len(t)
        /\ \A i \in 1 .. Len(t) : t[i] \in Tasks
    BY <1>1
  <1>3. IsDay(t, Len(t))
    BY <1>2 DEF IsDay, Tasks
  <1>4. \A i, j \in 1 .. Len(t) : t[i] = t[j] => i = j
    BY <1>2, ReturnedAssumption
  <1> QED BY <1>2, <1>3, <1>4

LEMMA NotLaterIfNotBelow ==
    ASSUME NEW a, NEW b, a.start \in Int, b.start \in Int, ~ KeyBelow(b, a)
    PROVE  NotLater(a, b)
  BY RanksAreNumbers DEF KeyBelow, NotLater

(* The plan of a page has the page's tasks, each once, and in order. *)
LEMMA PlanCovers ==
    ASSUME NEW p \in Pages
    PROVE  /\ Range(PlanOf(p)) = Range(Returned[p])
           /\ \A j, k \in DOMAIN PlanOf(p) : j < k =>
                 PlanOf(p)[j] # PlanOf(p)[k] /\ NotLater(PlanOf(p)[j], PlanOf(p)[k])
  <1> DEFINE t == Returned[p]
             b == PlanOf(p)
  <1>1. PICK n \in Nat : IsDay(t, n) /\ \A i, j \in 1 .. n : t[i] = t[j] => i = j
    BY PageIsDay
  <1>2. DOMAIN t = 1 .. n /\ DOMAIN b = 1 .. n
    BY <1>1 DEF IsDay, PlanOf, BuildDailyPlan
  <1>3. /\ \E place \in Bijection(1 .. n, 1 .. n) : \A i \in 1 .. n : b[place[i]] = t[i]
        /\ \A j, k \in 1 .. n : j < k => ~ KeyBelow(b[k], b[j])
    BY <1>1, PlanHoldsDay DEF PlanOf
  <1>4. PICK place \in Bijection(1 .. n, 1 .. n) : \A i \in 1 .. n : b[place[i]] = t[i]
    BY <1>3
  <1>5. /\ \A i \in 1 .. n : place[i] \in 1 .. n
        /\ \A k \in 1 .. n : \E i \in 1 .. n : place[i] = k
    BY <1>4 DEF Bijection, Injection, Surjection
  <1>6. \A k \in 1 .. n : \E i \in 1 .. n : place[i] = k /\ b[k] = t[i]
    <2> HIDE DEF t, b
    <2>1. ASSUME NEW k \in 1 .. n
          PROVE  \E i \in 1 .. n : place[i] = k /\ b[k] = t[i]
      <3>1. PICK i \in 1 .. n : place[i] = k
        BY <1>5
      <3>2. b[place[i]] = t[i]
        BY <1>4
      <3> QED BY <3>1, <3>2
    <2> QED BY <2>1
  <1> HIDE DEF t, b
  <1>7. Range(b) = Range(t)
    <2>1. \A i \in 1 .. n : t[i] \in Range(b)
      BY <1>2, <1>4, <1>5 DEF Range
    <2>2. \A k \in 1 .. n : b[k] \in Range(t)
      BY <1>2, <1>6 DEF Range
    <2> QED BY <1>2, <2>1, <2>2 DEF Range
  <1>8. ASSUME NEW j \in 1 .. n, NEW k \in 1 .. n, j < k
        PROVE  b[j] # b[k] /\ NotLater(b[j], b[k])
    <2>1. PICK x \in 1 .. n : place[x] = j /\ b[j] = t[x]
      BY <1>6
    <2>2. PICK y \in 1 .. n : place[y] = k /\ b[k] = t[y]
      BY <1>6
    <2>3. b[j] # b[k]
      BY <1>1, <1>8, <2>1, <2>2 DEF t
    <2>4. b[j].start \in Int /\ b[k].start \in Int
      BY <1>1, <2>1, <2>2 DEF IsDay, t
    <2>5. NotLater(b[j], b[k])
      BY <1>3, <1>8, <2>4, NotLaterIfNotBelow
    <2> QED BY <2>3, <2>5
  <1> QED BY <1>2, <1>7, <1>8 DEF t, b

(* Two pages of the same tasks are reorderings of each other. *)
LEMMA SameTasksReordered ==
    ASSUME NEW p \in Pages, NEW q \in Pages, Range(Returned[p]) = Range(Returned[q]),
           NEW n \in Nat, IsDay(Returned[p], n)
    PROVE  /\ IsDay(Returned[q], n)
           /\ \E moved \in Bijection(1 .. n, 1 .. n) :
                 Returned[q] = [i \in 1 .. n |-> Returned[p][moved[i]]]
  <1> DEFINE t == Returned[p]
             u == Returned[q]
  <1>1. DOMAIN t = 1 .. n /\ \A i, j \in 1 .. n : t[i] = t[j] => i = j
    BY PageIsDay DEF IsDay
  <1>2. PICK m \in Nat : IsDay(u, m) /\ \A i, j \in 1 .. m : u[i] = u[j] => i = j
    BY PageIsDay
  <1>3. DOMAIN u = 1 .. m
    BY <1>2 DEF IsDay
  <1>4. /\ \A i \in 1 .. m : \E j \in 1 .. n : t[j] = u[i]
        /\ \A j \in 1 .. n : \E i \in 1 .. m : u[i] = t[j]
    <2>1. Range(t) = Range(u)
      OBVIOUS
    <2> HIDE DEF t, u
    <2>2. \A i \in 1 .. m : u[i] \in Range(t)
      BY <1>3, <2>1 DEF Range
    <2>3. \A j \in 1 .. n : t[j] \in Range(u)
      BY <1>1, <2>1 DEF Range
    <2> QED BY <1>1, <1>3, <2>2, <2>3 DEF Range
  <1> DEFINE moved == [i \in 1 .. m |-> CHOOSE j \in 1 .. n : t[j] = u[i]]
  <1>5. \A i \in 1 .. m : moved[i] \in 1 .. n /\ t[moved[i]] = u[i]
    BY <1>4
  <1> HIDE DEF moved, t, u
  <1>6. moved \in [1 .. m -> 1 .. n]
    BY <1>5 DEF moved
  <1>7. \A i, j \in 1 .. m : moved[i] = moved[j] => i = j
    BY <1>2, <1>5 DEF u
  <1>8. ASSUME NEW k \in 1 .. n
        PROVE  \E i \in 1 .. m : moved[i] = k
    <2>1. PICK i \in 1 .. m : u[i] = t[k]
      BY <1>4
    <2>2. moved[i] \in 1 .. n /\ t[moved[i]] = t[k]
      BY <1>5, <2>1
    <2>3. moved[i] = k
      BY <1>1, <2>2
    <2> QED BY <2>3
  <1>9. moved \in Bijection(1 .. m, 1 .. n)
    BY <1>6, <1>7, <1>8 DEF Bijection, Injection, IsInjective, Surjection
  <1>10. m = n
    <2>1. ASSUME NEW k \in Nat
          PROVE  IsFiniteSet(1 .. k) /\ Cardinality(1 .. k) = k
      BY FS_Interval
    <2>2. ExistsBijection(1 .. m, 1 .. n)
      BY <1>9 DEF ExistsBijection
    <2> QED BY <2>1, <2>2, FS_Bijection
  <1>11. u = [i \in 1 .. n |-> t[moved[i]]]
    <2>1. u = [i \in 1 .. n |-> u[i]]
      BY <1>2, <1>3, <1>10, ReturnedAssumption DEF u
    <2> QED BY <1>5, <1>10, <2>1
  <1> QED BY <1>2, <1>9, <1>10, <1>11 DEF t, u

(* Without tied keys the order in which Notion returns the tasks is no matter. *)
LEMMA SameTasksSamePlan ==
    ASSUME NEW p \in Pages, NEW q \in Pages, Distinct(Returned[p]),
           Range(Returned[p]) = Range(Returned[q])
    PROVE  PlanOf(q) = PlanOf(p)
  <1>1. PICK n \in Nat : IsDay(Returned[p], n)
    BY PageIsDay
  <1>2. PICK moved \in Bijection(1 .. n, 1 .. n) :
            Returned[q] = [i \in 1 .. n |-> Returned[p][moved[i]]]
    BY <1>1, SameTasksReordered
  <1> QED BY <1>1, <1>2, PlanIgnoresOrder DEF PlanOf

-----------------------------------------------------------------------------
(* The plan of the day. *)

(* A sync that has not saved yet carries the plan of the page it fetched, and the
   row holds the plan of the page it was saved from. *)
DayKnows ==
    /\ \A h \in Handlers :
          pc[h] \in {"saveRead", "saveWrite"} => target[h] = PlanOf(fetched[h])
    /\ row.status # "absent" => row.token = PlanOf(basis)

LEMMA DayInit == ASSUME Init PROVE DayKnows
  BY DEF Init, DayKnows, NoRow

LEMMA DayStep ==
    ASSUME OneHandler, Inv, DayKnows, [Next]_vars
    PROVE  DayKnows'
  <1> USE DEF Inv, CInv, TInv, TypeOK, request, world
  <1>1. CASE UNCHANGED <<row, basis, pc, target, fetched>>
    BY <1>1 DEF DayKnows
  <1>2. ASSUME EditNotion \/ UNCHANGED vars \/ \E c \in Plans, d \in Decisions : Press(c, d)
        PROVE  DayKnows'
    BY <1>1, <1>2 DEF EditNotion, Press, vars
  <1>3. ASSUME NEW h \in Handlers, StartSync(h)
        PROVE  DayKnows'
    <2>1. target'[h] = PlanOf(page) /\ fetched'[h] = page
      BY <1>3, RuleBasedAssumption DEF StartSync
    <2>2. \A g \in Handlers : g = h
      BY DEF OneHandler
    <2> QED BY <1>3, <2>1, <2>2 DEF StartSync, DayKnows
  <1>4. ASSUME NEW h \in Handlers, SaveRead(h)
        PROVE  DayKnows'
    BY <1>4 DEF SaveRead, ReadThen, Goto, DayKnows
  <1>5. ASSUME NEW h \in Handlers, SaveInsert(h)
        PROVE  DayKnows'
    BY <1>5 DEF SaveInsert, Goto, DayKnows
  <1>6. ASSUME NEW h \in Handlers, SaveUpdate(h)
        PROVE  DayKnows'
    <2>1. row'.token = target[h]
      <3>1. view[h] = row /\ RowKnows
        BY <1>6 DEF SaveUpdate, SInv, SyncKnows
      <3> QED BY <1>6, <3>1, UpdatedAlone DEF CInv
    <2>2. target[h] = PlanOf(fetched[h]) /\ basis' = fetched[h]
      BY <1>6 DEF SaveUpdate, DayKnows
    <2>3. pc'[h] \in {"logCreated", "idle"}
      BY <1>6 DEF SaveUpdate, Goto, Finish
    <2>4. \A g \in Handlers : g = h
      BY DEF OneHandler
    <2> QED BY <2>1, <2>2, <2>3, <2>4 DEF DayKnows
  <1>7. ASSUME NEW h \in Handlers, EmptyWrite(h) \/ StatusWrite(h)
        PROVE  DayKnows'
    <2>1. row.status = "pending" /\ row'.token = row.token
      BY <1>7 DEF EmptyWrite, StatusWrite, SInv, SyncKnows, DecideKnows, Rows
    <2> QED BY <1>7, <2>1 DEF EmptyWrite, StatusWrite, Goto, DayKnows
  <1>8. ASSUME NEW h \in Handlers,
               \/ SaveConflict(h) \/ LogCreated(h) \/ EmptyRead(h) \/ Ask(h) \/ Lookup(h)
               \/ LogDecision(h) \/ StatusRead(h) \/ QueueReply(h) \/ AnswerCallback(h)
               \/ Abort(h) \/ \E c \in Plans, d \in Decisions : StartDecision(h, c, d)
        PROVE  DayKnows'
    <2>1. UNCHANGED <<row, basis>>
      BY <1>8 DEF SaveConflict, LogCreated, EmptyRead, Ask, Lookup, LookupThen, LogDecision,
                  StatusRead, QueueReply, AnswerCallback, Abort, StartDecision
    <2>2. pc'[h] \notin {"saveRead", "saveWrite"}
      BY <1>8 DEF SaveConflict, LogCreated, EmptyRead, Ask, Lookup, LookupThen, LogDecision,
                  StatusRead, QueueReply, AnswerCallback, Abort, StartDecision, Goto, Finish,
                  ReadThen
    <2>3. \A g \in Handlers : g = h
      BY DEF OneHandler
    <2> QED BY <2>1, <2>2, <2>3 DEF DayKnows
  <1> QED BY <1>2, <1>3, <1>4, <1>5, <1>6, <1>7, <1>8 DEF Next, Sync, Decide

LEMMA DayCorrect == ASSUME OneHandler PROVE Spec => [](Inv /\ DayKnows)
  <1>1. Init => Inv /\ DayKnows
    BY TypeInit, CausesInit, AloneInit, DayInit DEF Inv, CInv
  <1>2. Inv /\ DayKnows /\ [Next]_vars => Inv' /\ DayKnows'
    BY TypeStep, CausesStep, AloneStep, DayStep, OneHandler DEF Inv, CInv
  <1> QED BY <1>1, <1>2, PTL DEF Spec

(* When requests do not overlap, the stored plan has each task of the page it was
   saved from once, by tier, priority and start, whatever requests died. *)
THEOREM PlanIsTheDay == ASSUME OneHandler PROVE Spec => []PlanCoversDay
  <1>1. ASSUME Inv, DayKnows, row.status # "absent"
        PROVE  basis \in Pages /\ row.content = PlanOf(basis)
    BY <1>1 DEF Inv, CInv, TInv, TypeOK, SInv, RowKnows, DayKnows
  <1>2. Inv /\ DayKnows => PlanCoversDay
    BY <1>1, PlanCovers DEF PlanCoversDay
  <1> QED BY <1>2, DayCorrect, PTL

(* When requests do not overlap and no two tasks of a page have the same key, the
   token changes only with the tasks: a poll that finds them in another order
   keeps the plan and its approval. *)
THEOREM ReorderedDayKeepsPlan ==
    ASSUME OneHandler, \A p \in Pages : Distinct(Returned[p])
    PROVE  Spec => ReorderingKeepsPlan
  <1> DEFINE Keeps == row.status # "absent" /\ row'.token # row.token
                        => Range(Returned[basis']) # Range(Returned[basis])
  <1>1. ASSUME Inv, DayKnows, Inv', DayKnows', [Next]_vars,
               row.status # "absent", row'.token # row.token
        PROVE  Range(Returned[basis']) # Range(Returned[basis])
    <2>1. basis \in Pages /\ basis' \in Pages
      BY <1>1 DEF Inv, CInv, TInv, TypeOK
    <2>2. row'.status # "absent"
      <3>1. [Register!Next]_(Register!vars)
        BY <1>1, RefineStep
      <3> QED BY <1>1, <3>1
             DEF Register!Next, Register!vars, Register!Adopt, Register!Show, Register!Vote,
                 Register!Settle, Register!Close, Register!Verdicts
    <2>3. PlanOf(basis') # PlanOf(basis)
      BY <1>1, <2>2 DEF DayKnows
    <2> QED BY <2>1, <2>3, SameTasksSamePlan
  <1>2. Inv /\ DayKnows /\ Inv' /\ DayKnows' /\ [Next]_vars => [Keeps]_vars
    BY <1>1
  <1> QED BY <1>2, DayCorrect, PTL DEF Spec, ReorderingKeepsPlan
=============================================================================
