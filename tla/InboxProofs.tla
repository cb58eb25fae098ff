----------------------------- MODULE InboxProofs -----------------------------
(* Proofs about Inbox for any number of events, requests, tries and failures: a
   "completed" row and a "processed" answer always mean that some try worked the
   event to its end and that what such tries called for is in the database,
   whatever requests overlap, raise or are lost in a restart; and Inbox
   implements Ledger.

   The argument: inserts are never undone, a request goes past an insert of its
   list only when it is there, and only a request past the last one writes
   "completed" or answers "processed".

   With one request at a time, a completed event is not claimed again; when
   besides every failure is recorded, no lease outlives its request, so no
   answer misleads the sender however soon it tries again. *)
EXTENDS Inbox, TLAPS

InsertInList == \A h \in Handlers : pc[h] = "insert" => effect[h] <= Len(todo[h])

TInv == TypeOK /\ InsertInList

(* What a request has behind it. *)
PastIsDone ==
    \A h \in Handlers : Working(h) =>
        /\ todo[h] \in Calls[kind[serving[h]]]
        /\ \A i \in 1 .. (effect[h] - 1) : todo[h][i] \in effects[serving[h]]

CompletesAtEnd == \A h \in Handlers : pc[h] = "completeWrite" => AtEnd(h)

IdleIsClean == \A h \in Handlers : pc[h] = "idle" => outcome[h] = "error"

AnswerIsFinished ==
    \A h \in Handlers : outcome[h] = "processed" => finished[serving[h]] # {}

CompletedIsFinished == \A e \in Events : record[e] = "completed" => finished[e] # {}

ProcessedIsFinished == \A e \in Events : "processed" \in answers[e] => finished[e] # {}

FinishedIsMade ==
    \A e \in Events : \A list \in finished[e] : list \in Calls[kind[e]] /\ Made(list, e)

IInv ==
    /\ TInv
    /\ PastIsDone
    /\ CompletesAtEnd
    /\ IdleIsClean
    /\ AnswerIsFinished
    /\ CompletedIsFinished
    /\ ProcessedIsFinished
    /\ FinishedIsMade

-----------------------------------------------------------------------------
(* The lists of the branches are sequences of inserts. *)
LEMMA ListsAreSequences == \A list \in Lists \cup {<<>>} : list \in Seq(Inserts)
<1>1. "event" \in Inserts /\ "message" \in Inserts /\ "episode" \in Inserts /\ "checkin" \in Inserts
  BY DEF Inserts
<1>2. /\ <<>> \in Seq(Inserts) /\ <<"message">> \in Seq(Inserts)
      /\ <<"event", "message">> \in Seq(Inserts) /\ <<"checkin", "message">> \in Seq(Inserts)
      /\ <<"event", "episode", "message">> \in Seq(Inserts)
      /\ <<"checkin", "event", "episode", "message">> \in Seq(Inserts)
  BY <1>1
<1>3. /\ DOMAIN Calls = {"sync", "decision", "monitor", "press", "text"}
      /\ Calls["sync"] = {<<>>, <<"event", "message">>}
      /\ Calls["decision"] = {<<"event", "message">>}
      /\ Calls["monitor"] = {<<>>, <<"message">>}
      /\ Calls["press"] = {<<"event", "episode", "message">>}
      /\ Calls["text"] = {<<"checkin", "message">>, <<"checkin", "event", "episode", "message">>}
  BY DEF Calls
<1>4. \A k \in DOMAIN Calls : \A list \in Calls[k] : list \in Seq(Inserts)
  BY <1>2, <1>3
<1> QED
  BY <1>2, <1>4 DEF Lists

(* The constants every type step needs. *)
LEMMA Typed ==
    /\ LeaseTime \in Leases /\ NoLease \in Leases /\ Unread \in Views
    /\ Len(<<>>) = 0 /\ <<>> \in Lists \cup {<<>>}
    /\ \A list \in Lists \cup {<<>>} : Len(list) \in Nat
BY InboxAssumption, ListsAreSequences DEF Leases, NoLease, Views, Unread, Statuses

LEMMA TypeInit == Init => TInv
<1> SUFFICES ASSUME Init PROVE TInv
  OBVIOUS
<1>1. /\ kind \in [Events -> Kinds] /\ record \in [Events -> Statuses]
      /\ lease \in [Events -> Leases] /\ effects \in [Events -> SUBSET Inserts]
      /\ finished \in [Events -> SUBSET Lists] /\ answers \in [Events -> SUBSET Acks]
      /\ tries \in [Events -> 0 .. MaxTries]
  BY InboxAssumption, Typed DEF Init, Statuses, Acks
<1>2. /\ pc \in [Handlers -> Steps] /\ serving \in [Handlers -> Events]
      /\ view \in [Handlers -> Views] /\ outcome \in [Handlers -> Outcomes]
      /\ todo \in [Handlers -> Lists \cup {<<>>}] /\ effect \in [Handlers -> Nat \ {0}]
      /\ faults \in 0 .. MaxFaults /\ silent \in 0 .. MaxSilent /\ crashes \in 0 .. MaxCrashes
  BY InboxAssumption, Typed DEF Init, Steps, Outcomes
<1>3. \A h \in Handlers : effect[h] <= Len(todo[h]) + 1
  BY Typed DEF Init
<1> QED
  BY <1>1, <1>2, <1>3 DEF TInv, TypeOK, InsertInList, Init

LEMMA RowTyped == TypeOK => \A e \in Events : Row(e) \in Views
BY DEF TypeOK, Row, Views

(* A request's lists and its place in them survive a step that leaves them alone
   and does not bring it to an insert. *)
LEMMA SamePlace ==
    ASSUME TInv, UNCHANGED work, NEW h \in Handlers, NEW step \in Steps \ {"insert"},
           Goto(h, step)
    PROVE  InsertInList'
BY DEF TInv, TypeOK, InsertInList, Goto, work

LEMMA DeliverType == ASSUME TInv, NEW h \in Handlers, NEW e \in Events, Deliver(h, e)
                     PROVE  TInv'
<1>1. InsertInList'
  BY SamePlace DEF Deliver, Steps
<1>2. tries[e] \in 0 .. MaxTries /\ tries[e] < MaxTries
  BY DEF TInv, TypeOK, Deliver
<1>3. tries' \in [Events -> 0 .. MaxTries]
  BY <1>2, InboxAssumption DEF TInv, TypeOK, Deliver
<1> QED
  BY <1>1, <1>3 DEF TInv, TypeOK, Deliver, Goto, Steps, store, work, budget

LEMMA StartType == ASSUME TInv, NEW h \in Handlers, StartWork(h)
                   PROVE  /\ pc' \in [Handlers -> Steps]
                          /\ todo' \in [Handlers -> Lists \cup {<<>>}]
                          /\ effect' \in [Handlers -> Nat \ {0}]
                          /\ \A g \in Handlers : effect'[g] <= Len(todo'[g]) + 1
                          /\ InsertInList'
<1>1. PICK list \in Calls[kind[serving[h]]] : todo' = [todo EXCEPT ![h] = list]
  BY DEF StartWork
<1>2. kind[serving[h]] \in DOMAIN Calls
  BY InboxAssumption DEF TInv, TypeOK
<1>3. list \in Lists /\ Len(list) \in Nat
  BY <1>1, <1>2, Typed DEF Lists
<1>4. todo' \in [Handlers -> Lists \cup {<<>>}] /\ todo'[h] = list
  BY <1>1, <1>3 DEF TInv, TypeOK
<1>5. /\ effect' = [effect EXCEPT ![h] = 1]
      /\ pc' = [pc EXCEPT ![h] = "work"]
  BY DEF StartWork, Goto
<1>6. \A g \in Handlers : g # h => /\ todo'[g] = todo[g] /\ effect'[g] = effect[g]
                                   /\ pc'[g] = pc[g]
  BY <1>1, <1>5 DEF TInv, TypeOK
<1>7. pc'[h] = "work" /\ effect'[h] = 1
  BY <1>5 DEF TInv, TypeOK
<1>8. /\ \A g \in Handlers : effect'[g] <= Len(todo'[g]) + 1
      /\ InsertInList'
  <2>1. 1 <= Len(list) + 1
    BY <1>3
  <2>2. \A g \in Handlers : effect[g] <= Len(todo[g]) + 1
    BY DEF TInv, TypeOK
  <2>3. \A g \in Handlers : effect'[g] <= Len(todo'[g]) + 1
    BY <1>4, <1>6, <1>7, <2>1, <2>2
  <2>4. InsertInList'
    BY <1>6, <1>7 DEF TInv, InsertInList
  <2> QED
    BY <2>3, <2>4
<1> QED
  BY <1>4, <1>5, <1>8 DEF TInv, TypeOK, Steps

LEMMA ClaimType == ASSUME TInv, NEW h \in Handlers,
                          ClaimRead(h) \/ ClaimInsert(h) \/ ClaimConflict(h) \/ ClaimAgain(h)
                   PROVE  TInv'
<1>1. serving[h] \in Events /\ Row(serving[h]) \in Views
  BY RowTyped DEF TInv, TypeOK
<1>2. CASE ClaimRead(h)
  <2>1. InsertInList'
    BY <1>2, SamePlace DEF ClaimRead, ClaimReadWith, Answer, Steps
  <2> QED
    BY <1>1, <1>2, <2>1 DEF TInv, TypeOK, ClaimRead, ClaimReadWith, Answer, Goto, Steps, Outcomes,
       Acks, store, sender, work, budget
<1>3. CASE ClaimInsert(h)
  BY <1>1, <1>3, StartType, Typed DEF TInv, TypeOK, ClaimInsert, Statuses, sender, budget
<1>4. CASE ClaimConflict(h)
  <2>1. InsertInList'
    BY <1>4, SamePlace DEF ClaimConflict, Raise, Steps
  <2> QED
    BY <1>4, <2>1 DEF TInv, TypeOK, ClaimConflict, Raise, Goto, Steps, Outcomes, store, sender,
       work, budget
<1>5. CASE ClaimAgain(h)
  BY <1>1, <1>5, StartType, Typed DEF TInv, TypeOK, ClaimAgain, Statuses, sender, budget
<1> QED
  BY <1>2, <1>3, <1>4, <1>5

LEMMA NextEffectType ==
    ASSUME TInv, NEW h \in Handlers, NextEffect(h), UNCHANGED todo, effect[h] <= Len(todo[h])
    PROVE  /\ pc' \in [Handlers -> Steps]
           /\ effect' \in [Handlers -> Nat \ {0}]
           /\ \A g \in Handlers : effect'[g] <= Len(todo'[g]) + 1
           /\ InsertInList'
<1>1. /\ effect' = [effect EXCEPT ![h] = effect[h] + 1]
      /\ pc' = [pc EXCEPT ![h] = "work"]
  BY DEF NextEffect, Goto
<1>2. effect[h] \in Nat \ {0} /\ Len(todo[h]) \in Nat
  BY Typed DEF TInv, TypeOK
<1>3. \A g \in Handlers : g # h => effect'[g] = effect[g] /\ pc'[g] = pc[g]
  BY <1>1 DEF TInv, TypeOK
<1>4. effect'[h] = effect[h] + 1 /\ pc'[h] = "work"
  BY <1>1 DEF TInv, TypeOK
<1>5. effect' \in [Handlers -> Nat \ {0}]
  BY <1>1, <1>2 DEF TInv, TypeOK
<1>6. \A g \in Handlers : effect'[g] <= Len(todo'[g]) + 1
  <2>1. \A g \in Handlers : effect[g] <= Len(todo[g]) + 1
    BY DEF TInv, TypeOK
  <2>2. effect[h] + 1 <= Len(todo[h]) + 1
    BY <1>2
  <2> QED
    BY <1>3, <1>4, <2>1, <2>2
<1>7. InsertInList'
  BY <1>3, <1>4 DEF TInv, InsertInList
<1> QED
  BY <1>1, <1>5, <1>6, <1>7 DEF TInv, TypeOK, Steps

(* The insert a request is at is one of the inserts. *)
LEMMA NeededTyped ==
    ASSUME TypeOK, NEW h \in Handlers, effect[h] <= Len(todo[h])
    PROVE  Needed(h) \in Inserts /\ effect[h] \in 1 .. Len(todo[h])
<1>1. todo[h] \in Seq(Inserts)
  BY ListsAreSequences DEF TypeOK
<1>2. effect[h] \in 1 .. Len(todo[h])
  BY <1>1 DEF TypeOK
<1> QED
  BY <1>1, <1>2 DEF Needed

LEMMA WorkType == ASSUME TInv, NEW h \in Handlers,
                         Lookup(h) \/ Insert(h) \/ InsertConflict(h)
                  PROVE  TInv'
<1>1. serving[h] \in Events /\ Len(todo[h]) \in Nat /\ effect[h] \in Nat
  BY Typed DEF TInv, TypeOK
<1>2. CASE Lookup(h)
  <2>1. effect[h] <= Len(todo[h])
    BY <1>1, <1>2 DEF Lookup, AtEnd
  <2>2. CASE NextEffect(h)
    BY <1>2, <2>1, <2>2, NextEffectType DEF Lookup, TInv, TypeOK, store, sender, budget
  <2>3. CASE Goto(h, "insert") /\ UNCHANGED effect
    <3>1. InsertInList'
      BY <1>2, <2>1, <2>3 DEF Lookup, Goto, TInv, TypeOK, InsertInList
    <3> QED
      BY <1>2, <2>3, <3>1 DEF Lookup, Goto, TInv, TypeOK, Steps, store, sender, budget
  <2> QED
    BY <1>2, <2>2, <2>3 DEF Lookup
<1>3. CASE Insert(h)
  <2>1. effect[h] <= Len(todo[h])
    BY <1>3 DEF Insert, TInv, InsertInList
  <2>2. effects' \in [Events -> SUBSET Inserts]
    BY <1>3, <2>1, NeededTyped DEF Insert, TInv, TypeOK
  <2> QED
    BY <1>3, <2>1, <2>2, NextEffectType DEF Insert, TInv, TypeOK, sender, budget
<1>4. CASE InsertConflict(h)
  <2>1. InsertInList'
    BY <1>4, SamePlace DEF InsertConflict, Raise, Steps
  <2> QED
    BY <1>4, <2>1 DEF TInv, TypeOK, InsertConflict, Raise, Goto, Steps, Outcomes, store, sender,
       work, budget
<1> QED
  BY <1>2, <1>3, <1>4

(* A request that works has one of the lists of its branch. *)
LEMMA SettleType == ASSUME TInv, PastIsDone, NEW h \in Handlers,
                           SettleRead(h) \/ FailNothing(h) \/ CompleteWrite(h) \/ FailWrite(h)
                             \/ Reply(h)
                    PROVE  TInv'
<1>1. serving[h] \in Events /\ Row(serving[h]) \in Views /\ outcome[h] \in Outcomes
  BY RowTyped DEF TInv, TypeOK
<1>2. CASE SettleRead(h)
  <2>1. InsertInList'
    BY <1>2, SamePlace DEF SettleRead, Steps
  <2> QED
    BY <1>1, <1>2, <2>1 DEF TInv, TypeOK, SettleRead, Goto, Steps, store, sender, work, budget
<1>3. CASE FailNothing(h)
  <2>1. InsertInList'
    BY <1>3, SamePlace DEF FailNothing, Steps
  <2> QED
    BY <1>3, <2>1 DEF TInv, TypeOK, FailNothing, Goto, Steps, store, sender, work, budget
<1>4. CASE CompleteWrite(h)
  <2>1. InsertInList'
    BY <1>4, SamePlace DEF CompleteWrite, Answer, Steps
  <2>2. todo[h] \in Lists
    <3>1. todo[h] \in Calls[kind[serving[h]]]
      BY <1>4 DEF CompleteWrite, PastIsDone, Working
    <3>2. kind[serving[h]] \in DOMAIN Calls
      BY <1>1, InboxAssumption DEF TInv, TypeOK
    <3> QED
      BY <3>1, <3>2 DEF Lists
  <2>3. finished' \in [Events -> SUBSET Lists]
    BY <1>4, <2>2 DEF CompleteWrite, TInv, TypeOK
  <2>4. record' \in [Events -> Statuses] /\ lease' \in [Events -> Leases]
    BY <1>1, <1>4, Typed DEF CompleteWrite, Settle, Statuses, TInv, TypeOK
  <2> QED
    BY <1>4, <2>1, <2>3, <2>4
    DEF TInv, TypeOK, CompleteWrite, Answer, Goto, Steps, Outcomes, Acks, sender, work, budget
<1>5. CASE FailWrite(h)
  <2>1. InsertInList'
    BY <1>5, SamePlace DEF FailWrite, Steps
  <2>2. record' \in [Events -> Statuses] /\ lease' \in [Events -> Leases]
    BY <1>1, <1>5, Typed DEF FailWrite, Settle, Statuses, TInv, TypeOK
  <2> QED
    BY <1>5, <2>1, <2>2 DEF TInv, TypeOK, FailWrite, Goto, Steps, sender, work, budget
<1>6. CASE Reply(h)
  <2>1. /\ pc' = [pc EXCEPT ![h] = "idle"]
        /\ todo' = [todo EXCEPT ![h] = <<>>]
        /\ effect' = [effect EXCEPT ![h] = 1]
    BY <1>6 DEF Reply, Goto
  <2>2. \A g \in Handlers : g # h => /\ pc'[g] = pc[g] /\ todo'[g] = todo[g]
                                     /\ effect'[g] = effect[g]
    BY <2>1 DEF TInv, TypeOK
  <2>3. pc'[h] = "idle" /\ todo'[h] = <<>> /\ effect'[h] = 1
    BY <2>1 DEF TInv, TypeOK
  <2>4. \A g \in Handlers : effect'[g] <= Len(todo'[g]) + 1
    <3>1. \A g \in Handlers : effect[g] <= Len(todo[g]) + 1
      BY DEF TInv, TypeOK
    <3>2. 1 <= Len(<<>>) + 1
      BY Typed
    <3> QED
      BY <2>2, <2>3, <3>1, <3>2
  <2>5. InsertInList'
    BY <2>2, <2>3 DEF TInv, InsertInList
  <2>6. /\ todo' \in [Handlers -> Lists \cup {<<>>}] /\ effect' \in [Handlers -> Nat \ {0}]
        /\ pc' \in [Handlers -> Steps]
    BY <2>1, Typed DEF TInv, TypeOK, Steps
  <2>7. answers' \in [Events -> SUBSET Acks]
    BY <1>1, <1>6 DEF Reply, Outcomes, TInv, TypeOK
  <2> QED
    BY <1>6, <2>4, <2>5, <2>6, <2>7, Typed DEF TInv, TypeOK, Reply, Outcomes, store, budget
<1> QED
  BY <1>2, <1>3, <1>4, <1>5, <1>6

LEMMA FaultType == ASSUME TInv, NEW h \in Handlers, Faulty(h)
                   PROVE  TInv'
<1>1. CASE GraphRaises(h)
  <2>1. InsertInList'
    BY <1>1, SamePlace DEF GraphRaises, Raise, Steps
  <2> QED
    BY <1>1, <2>1, InboxAssumption
    DEF TInv, TypeOK, GraphRaises, Fault, Raise, Goto, Steps, Outcomes, Acks, store, sender, work
<1>2. CASE FailRaises(h)
  <2>1. InsertInList'
    BY <1>2, SamePlace DEF FailRaises, Steps
  <2> QED
    BY <1>2, <2>1, InboxAssumption DEF TInv, TypeOK, FailRaises, Goto, Steps, store, sender, work
<1>3. CASE AnswerLost(h)
  BY <1>3, InboxAssumption
  DEF TInv, TypeOK, InsertInList, AnswerLost, Fault, Outcomes, store, sender, work
<1> QED
  BY <1>1, <1>2, <1>3 DEF Faulty

LEMMA CrashType == TInv /\ Crash => TInv'
<1> SUFFICES ASSUME TInv, Crash PROVE TInv'
  OBVIOUS
<1>1. /\ \A h \in Handlers : effect'[h] <= Len(todo'[h]) + 1
      /\ InsertInList'
  BY Typed DEF Crash, InsertInList
<1>2. /\ pc' \in [Handlers -> Steps] /\ view' \in [Handlers -> Views]
      /\ todo' \in [Handlers -> Lists \cup {<<>>}] /\ effect' \in [Handlers -> Nat \ {0}]
      /\ outcome' \in [Handlers -> Outcomes] /\ crashes' \in 0 .. MaxCrashes
  BY Typed, InboxAssumption DEF Crash, Steps, Outcomes, TInv, TypeOK
<1> QED
  BY <1>1, <1>2 DEF TInv, TypeOK, Crash, store, sender

LEMMA TickType == TInv /\ Tick => TInv'
<1> SUFFICES ASSUME TInv, Tick PROVE TInv'
  OBVIOUS
<1>1. \A e \in Events : lease[e] \in Leases
  BY DEF TInv, TypeOK
<1>2. lease' \in [Events -> Leases]
  BY <1>1, InboxAssumption DEF Tick, Running, Leases, NoLease
<1> QED
  BY <1>2 DEF TInv, TypeOK, InsertInList, Tick, sender, request, work, budget

LEMMA OtherType == ASSUME TInv, NEW e \in Events, OtherEventInserts(e)
                   PROVE  TInv'
<1>1. effects' \in [Events -> SUBSET Inserts]
  BY DEF OtherEventInserts, TInv, TypeOK, Inserts
<1> QED
  BY <1>1 DEF TInv, TypeOK, InsertInList, OtherEventInserts, sender, request, work, budget

LEMMA TypeStep == TInv /\ PastIsDone /\ [Next]_vars => TInv'
<1> SUFFICES ASSUME TInv, PastIsDone, [Next]_vars PROVE TInv'
  OBVIOUS
<1>1. ASSUME NEW h \in Handlers, NEW e \in Events, Deliver(h, e) PROVE TInv'
  BY <1>1, DeliverType
<1>2. ASSUME NEW h \in Handlers, Step(h) PROVE TInv'
  BY <1>2, ClaimType, WorkType, SettleType DEF Step
<1>3. ASSUME NEW h \in Handlers, Faulty(h) PROVE TInv'
  BY <1>3, FaultType
<1>4. ASSUME NEW e \in Events, OtherEventInserts(e) PROVE TInv'
  BY <1>4, OtherType
<1>5. CASE UNCHANGED vars
  BY <1>5 DEF TInv, TypeOK, InsertInList, vars, store, sender, request, work, budget
<1> QED
  BY <1>1, <1>2, <1>3, <1>4, <1>5, CrashType, TickType DEF Next

-----------------------------------------------------------------------------
LEMMA SafeInit == Init => IInv
BY TypeInit
DEF Init, IInv, PastIsDone, CompletesAtEnd, Working, IdleIsClean, AnswerIsFinished,
    CompletedIsFinished, ProcessedIsFinished, FinishedIsMade

(* What a step of one request must show for IInv to survive it: inserts and
   finished lists only grow, and what the step claims of its own event is so. *)
Grows ==
    /\ UNCHANGED <<serving, kind>>
    /\ \A e \in Events : effects[e] \subseteq effects'[e] /\ finished[e] \subseteq finished'[e]

Others(h) ==
    \A g \in Handlers \ {h} : /\ pc'[g] = pc[g] /\ todo'[g] = todo[g] /\ effect'[g] = effect[g]
                              /\ outcome'[g] = outcome[g]

OwnWork(h) ==
    /\ Working(h)' =>
         /\ todo'[h] \in Calls[kind[serving[h]]]
         /\ \A i \in 1 .. (effect'[h] - 1) : todo'[h][i] \in effects'[serving[h]]
    /\ pc'[h] = "completeWrite" => AtEnd(h)'

OwnAnswer(h) ==
    /\ pc'[h] = "idle" => outcome'[h] = "error"
    /\ outcome'[h] = "processed" => finished'[serving[h]] # {}

RowsAreTrue ==
    \A e \in Events :
        /\ record'[e] = "completed" => record[e] = "completed" \/ finished'[e] # {}
        /\ "processed" \in answers'[e] => "processed" \in answers[e] \/ finished'[e] # {}
        /\ \A list \in finished'[e] :
             list \in finished[e] \/ (list \in Calls[kind[e]] /\ Made(list, e)')

HandlerStep(h) == Grows /\ Others(h) /\ OwnWork(h) /\ OwnAnswer(h) /\ RowsAreTrue

LEMMA HandlerStepSafe ==
    ASSUME IInv, TInv', NEW h \in Handlers, HandlerStep(h)
    PROVE  IInv'
<1>1. \A g \in Handlers : serving[g] \in Events /\ serving'[g] = serving[g] /\ kind' = kind
  BY DEF IInv, TInv, TypeOK, HandlerStep, Grows
<1>2. PastIsDone'
  <2> SUFFICES ASSUME NEW g \in Handlers, Working(g)'
               PROVE  /\ todo'[g] \in Calls[kind'[serving'[g]]]
                      /\ \A i \in 1 .. (effect'[g] - 1) : todo'[g][i] \in effects'[serving'[g]]
    BY DEF PastIsDone
  <2>1. CASE g = h
    BY <2>1, <1>1 DEF HandlerStep, OwnWork
  <2>2. CASE g # h
    <3>1. pc'[g] = pc[g] /\ todo'[g] = todo[g] /\ effect'[g] = effect[g]
      BY <2>2 DEF HandlerStep, Others
    <3>2. Working(g)
      BY <3>1 DEF Working
    <3>3. effects[serving[g]] \subseteq effects'[serving[g]]
      BY <1>1 DEF HandlerStep, Grows
    <3> QED
      BY <3>1, <3>2, <3>3, <1>1 DEF IInv, PastIsDone
  <2> QED
    BY <2>1, <2>2
<1>3. CompletesAtEnd'
  BY DEF HandlerStep, Others, OwnWork, IInv, CompletesAtEnd, AtEnd
<1>4. IdleIsClean'
  BY DEF HandlerStep, Others, OwnAnswer, IInv, IdleIsClean
<1>5. AnswerIsFinished'
  <2> SUFFICES ASSUME NEW g \in Handlers, outcome'[g] = "processed"
               PROVE  finished'[serving'[g]] # {}
    BY DEF AnswerIsFinished
  <2>1. CASE g = h
    BY <2>1, <1>1 DEF HandlerStep, OwnAnswer
  <2>2. CASE g # h
    <3>1. outcome[g] = "processed"
      BY <2>2 DEF HandlerStep, Others
    <3>2. finished[serving[g]] # {} /\ finished[serving[g]] \subseteq finished'[serving[g]]
      BY <3>1, <1>1 DEF IInv, AnswerIsFinished, HandlerStep, Grows
    <3> QED
      BY <3>2, <1>1
  <2> QED
    BY <2>1, <2>2
<1>6. CompletedIsFinished' /\ ProcessedIsFinished'
  BY DEF HandlerStep, RowsAreTrue, Grows, IInv, CompletedIsFinished, ProcessedIsFinished
<1>7. FinishedIsMade'
  <2> SUFFICES ASSUME NEW e \in Events, NEW list \in finished'[e]
               PROVE  list \in Calls[kind'[e]] /\ Made(list, e)'
    BY DEF FinishedIsMade
  <2>1. effects[e] \subseteq effects'[e] /\ kind' = kind
    BY DEF HandlerStep, Grows
  <2>2. list \in finished[e] \/ (list \in Calls[kind[e]] /\ Made(list, e)')
    BY DEF HandlerStep, RowsAreTrue
  <2>3. list \in finished[e] => list \in Calls[kind[e]] /\ Made(list, e)
    BY DEF IInv, FinishedIsMade
  <2> QED
    BY <2>1, <2>2, <2>3 DEF Made
<1> QED
  BY <1>2, <1>3, <1>4, <1>5, <1>6, <1>7 DEF IInv

(* The request's own facts, before its step. *)
LEMMA OwnFacts ==
    ASSUME IInv, NEW h \in Handlers
    PROVE  /\ serving[h] \in Events
           /\ effect[h] \in Nat \ {0} /\ Len(todo[h]) \in Nat
           /\ outcome[h] = "processed" => finished[serving[h]] # {}
           /\ pc[h] = "idle" => outcome[h] = "error"
           /\ Working(h) => /\ todo[h] \in Calls[kind[serving[h]]]
                            /\ \A i \in 1 .. (effect[h] - 1) : todo[h][i] \in effects[serving[h]]
BY Typed DEF IInv, TInv, TypeOK, PastIsDone, AnswerIsFinished, IdleIsClean

LEMMA DeliverSafe == ASSUME IInv, TInv', NEW h \in Handlers, NEW e \in Events, Deliver(h, e)
                     PROVE  IInv'
<1>1. /\ UNCHANGED <<record, effects, finished, kind, answers, todo, effect, outcome>>
      /\ pc' = [pc EXCEPT ![h] = "claim"]
      /\ serving' = [serving EXCEPT ![h] = e]
  BY DEF Deliver, Goto, store, work
<1>2. \A g \in Handlers : g # h => pc'[g] = pc[g] /\ serving'[g] = serving[g]
  BY <1>1 DEF IInv, TInv, TypeOK
<1>3. pc'[h] = "claim" /\ outcome[h] = "error"
  BY <1>1 DEF IInv, IdleIsClean, TInv, TypeOK, Deliver
<1>4. PastIsDone' /\ CompletesAtEnd'
  BY <1>1, <1>2, <1>3 DEF IInv, PastIsDone, CompletesAtEnd, Working, AtEnd
<1>5. AnswerIsFinished' /\ IdleIsClean'
  BY <1>1, <1>2, <1>3 DEF IInv, AnswerIsFinished, IdleIsClean
<1>6. CompletedIsFinished' /\ ProcessedIsFinished' /\ FinishedIsMade'
  BY <1>1 DEF IInv, CompletedIsFinished, ProcessedIsFinished, FinishedIsMade, Made
<1> QED
  BY <1>4, <1>5, <1>6 DEF IInv

LEMMA ClaimSafe ==
    ASSUME IInv, TInv', NEW h \in Handlers,
           ClaimRead(h) \/ ClaimInsert(h) \/ ClaimConflict(h) \/ ClaimAgain(h)
    PROVE  IInv'
<1>1. CASE ClaimRead(h)
  <2>1. pc'[h] \in {"reply", "claimWrite"} /\ outcome'[h] \in {"duplicate", outcome[h]}
    BY <1>1 DEF ClaimRead, ClaimReadWith, Answer, Goto, IInv, TInv, TypeOK
  <2>2. Grows /\ Others(h) /\ RowsAreTrue
    BY <1>1 DEF ClaimRead, ClaimReadWith, Answer, Goto, Grows, Others, RowsAreTrue, IInv, TInv,
       TypeOK, store, sender, work
  <2>3. OwnWork(h) /\ OwnAnswer(h)
    BY <2>1, <2>2, OwnFacts DEF OwnWork, OwnAnswer, Working, Grows
  <2> QED
    BY <2>2, <2>3, HandlerStepSafe DEF HandlerStep
<1>2. CASE ClaimInsert(h) \/ ClaimAgain(h)
  <2>1. PICK list \in Calls[kind[serving[h]]] : todo' = [todo EXCEPT ![h] = list]
    BY <1>2 DEF ClaimInsert, ClaimAgain, StartWork
  <2>2. pc'[h] = "work" /\ effect'[h] = 1 /\ todo'[h] = list
    BY <1>2, <2>1 DEF ClaimInsert, ClaimAgain, StartWork, Goto, IInv, TInv, TypeOK
  <2>3. Others(h)
    BY <1>2, <2>1 DEF ClaimInsert, ClaimAgain, StartWork, Goto, Others, IInv, TInv, TypeOK
  <2>4. Grows
    BY <1>2 DEF ClaimInsert, ClaimAgain, Grows, sender
  <2>5. \A e \in Events : record'[e] = "completed" => record[e] = "completed"
    BY <1>2 DEF ClaimInsert, ClaimAgain, IInv, TInv, TypeOK
  <2>6. RowsAreTrue
    BY <1>2, <2>5 DEF ClaimInsert, ClaimAgain, RowsAreTrue, sender
  <2>7. OwnWork(h)
    BY <2>2, OwnFacts DEF OwnWork
  <2>8. OwnAnswer(h)
    BY <1>2, <2>2, <2>4, OwnFacts DEF ClaimInsert, ClaimAgain, OwnAnswer, Grows
  <2> QED
    BY <2>3, <2>4, <2>6, <2>7, <2>8, HandlerStepSafe DEF HandlerStep
<1>3. CASE ClaimConflict(h)
  <2>1. pc'[h] = "fail" /\ outcome'[h] = "error"
    BY <1>3 DEF ClaimConflict, Raise, Goto, IInv, TInv, TypeOK
  <2>2. Grows /\ Others(h) /\ RowsAreTrue
    BY <1>3 DEF ClaimConflict, Raise, Goto, Grows, Others, RowsAreTrue, IInv, TInv, TypeOK, store,
       sender, work
  <2> QED
    BY <2>1, <2>2, HandlerStepSafe DEF HandlerStep, OwnWork, OwnAnswer, Working
<1> QED
  BY <1>1, <1>2, <1>3

(* Moving on past an insert that is there keeps the request's past done. *)
LEMMA NextEffectSafe ==
    ASSUME IInv, TInv', NEW h \in Handlers, NextEffect(h),
           pc[h] \in {"work", "insert"},
           Needed(h) \in effects'[serving[h]],
           \A e \in Events : effects[e] \subseteq effects'[e],
           UNCHANGED <<record, finished, sender, serving, todo, outcome>>
    PROVE  IInv'
<1>1. /\ effect'[h] = effect[h] + 1 /\ pc'[h] = "work"
      /\ \A g \in Handlers \ {h} : pc'[g] = pc[g] /\ effect'[g] = effect[g]
  BY DEF NextEffect, Goto, IInv, TInv, TypeOK
<1>2. Others(h)
  BY <1>1 DEF Others
<1>3. Grows /\ RowsAreTrue
  BY DEF Grows, RowsAreTrue, sender
<1>4. OwnWork(h)
  <2>1. todo'[h] \in Calls[kind[serving[h]]]
    BY OwnFacts DEF Working
  <2>2. ASSUME NEW i \in 1 .. (effect'[h] - 1)
        PROVE  todo'[h][i] \in effects'[serving[h]]
    <3>1. effects[serving[h]] \subseteq effects'[serving[h]] /\ todo'[h] = todo[h]
      BY OwnFacts
    <3>2. CASE i = effect[h]
      BY <3>1, <3>2 DEF Needed
    <3>3. CASE i # effect[h]
      <4>1. i \in 1 .. (effect[h] - 1)
        BY <1>1, <2>2, <3>3, OwnFacts
      <4> QED
        BY <3>1, <4>1, OwnFacts DEF Working
    <3> QED
      BY <3>2, <3>3
  <2> QED
    BY <1>1, <2>1, <2>2 DEF OwnWork
<1>5. OwnAnswer(h)
  BY <1>1, OwnFacts DEF OwnAnswer
<1> QED
  BY <1>2, <1>3, <1>4, <1>5, HandlerStepSafe DEF HandlerStep

LEMMA WorkSafe ==
    ASSUME IInv, TInv', NEW h \in Handlers, Lookup(h) \/ Insert(h) \/ InsertConflict(h)
    PROVE  IInv'
<1>1. CASE Lookup(h)
  <2>1. CASE Needed(h) \in effects[serving[h]] /\ NextEffect(h)
    BY <1>1, <2>1, NextEffectSafe DEF Lookup, store
  <2>2. CASE Goto(h, "insert") /\ UNCHANGED effect
    <3>1. pc'[h] = "insert" /\ UNCHANGED <<todo, effect, effects, outcome>>
      BY <1>1, <2>2 DEF Lookup, Goto, IInv, TInv, TypeOK, store
    <3>2. Grows /\ Others(h) /\ RowsAreTrue
      BY <1>1, <2>2 DEF Lookup, Goto, Grows, Others, RowsAreTrue, IInv, TInv, TypeOK, store, sender
    <3>3. OwnWork(h)
      BY <1>1, <3>1, OwnFacts DEF Lookup, OwnWork, Working
    <3>4. OwnAnswer(h)
      BY <3>1, <3>2, OwnFacts DEF OwnAnswer, Grows
    <3> QED
      BY <3>2, <3>3, <3>4, HandlerStepSafe DEF HandlerStep
  <2> QED
    BY <1>1, <2>1, <2>2 DEF Lookup
<1>2. CASE Insert(h)
  <2>1. /\ \A e \in Events : effects[e] \subseteq effects'[e]
        /\ Needed(h) \in effects'[serving[h]]
    BY <1>2, OwnFacts DEF Insert, IInv, TInv, TypeOK
  <2> QED
    BY <1>2, <2>1, NextEffectSafe DEF Insert
<1>3. CASE InsertConflict(h)
  <2>1. pc'[h] = "fail" /\ outcome'[h] = "error"
    BY <1>3 DEF InsertConflict, Raise, Goto, IInv, TInv, TypeOK
  <2>2. Grows /\ Others(h) /\ RowsAreTrue
    BY <1>3 DEF InsertConflict, Raise, Goto, Grows, Others, RowsAreTrue, IInv, TInv, TypeOK, store,
       sender, work
  <2> QED
    BY <2>1, <2>2, HandlerStepSafe DEF HandlerStep, OwnWork, OwnAnswer, Working
<1> QED
  BY <1>1, <1>2, <1>3

(* A request past the end of its list has all of it in the database. *)
LEMMA EndIsMade ==
    ASSUME IInv, NEW h \in Handlers, pc[h] = "completeWrite"
    PROVE  Made(todo[h], serving[h])
<1>1. effect[h] > Len(todo[h]) /\ effect[h] \in Nat /\ Len(todo[h]) \in Nat
  BY OwnFacts DEF IInv, CompletesAtEnd, AtEnd
<1>2. DOMAIN todo[h] = 1 .. Len(todo[h])
  BY ListsAreSequences DEF IInv, TInv, TypeOK
<1>3. \A i \in 1 .. Len(todo[h]) : i \in 1 .. (effect[h] - 1)
  BY <1>1
<1> QED
  BY <1>2, <1>3, OwnFacts DEF Made, Working

LEMMA SettleSafe ==
    ASSUME IInv, TInv', NEW h \in Handlers,
           SettleRead(h) \/ FailNothing(h) \/ CompleteWrite(h) \/ FailWrite(h) \/ Reply(h)
    PROVE  IInv'
<1>1. CASE SettleRead(h)
  <2>1. /\ \/ pc'[h] = "completeWrite" /\ pc[h] = "work" /\ AtEnd(h)
         \/ pc'[h] = "failWrite"
        /\ UNCHANGED <<todo, effect, outcome, effects>>
    BY <1>1 DEF SettleRead, Goto, IInv, TInv, TypeOK, store, work
  <2>2. Grows /\ Others(h) /\ RowsAreTrue
    BY <1>1 DEF SettleRead, Goto, Grows, Others, RowsAreTrue, IInv, TInv, TypeOK, store, sender,
       work
  <2>3. OwnWork(h)
    BY <2>1, OwnFacts DEF OwnWork, Working, AtEnd
  <2>4. OwnAnswer(h)
    BY <2>1, <2>2, OwnFacts DEF OwnAnswer, Grows
  <2> QED
    BY <2>2, <2>3, <2>4, HandlerStepSafe DEF HandlerStep
<1>2. CASE FailNothing(h) \/ FailWrite(h)
  <2>1. pc'[h] = "reply" /\ UNCHANGED outcome
    BY <1>2 DEF FailNothing, FailWrite, Goto, IInv, TInv, TypeOK
  <2>2. Grows /\ Others(h)
    BY <1>2 DEF FailNothing, FailWrite, Goto, Grows, Others, IInv, TInv, TypeOK, store, sender, work
  <2>3. \A e \in Events : record'[e] = "completed" => record[e] = "completed"
    BY <1>2 DEF FailNothing, FailWrite, Settle, IInv, TInv, TypeOK, store
  <2>4. RowsAreTrue
    BY <1>2, <2>3 DEF FailNothing, FailWrite, RowsAreTrue, store, sender
  <2>5. OwnWork(h) /\ OwnAnswer(h)
    BY <2>1, <2>2, OwnFacts DEF OwnWork, OwnAnswer, Working, Grows
  <2> QED
    BY <2>2, <2>4, <2>5, HandlerStepSafe DEF HandlerStep
<1>3. CASE CompleteWrite(h)
  <2>1. pc'[h] = "reply" /\ todo[h] \in finished'[serving[h]]
    BY <1>3, OwnFacts DEF CompleteWrite, Answer, Goto, IInv, TInv, TypeOK
  <2>2. Grows /\ Others(h)
    BY <1>3 DEF CompleteWrite, Answer, Goto, Grows, Others, IInv, TInv, TypeOK, sender, work
  <2>3. ASSUME NEW e \in Events, NEW list \in finished'[e]
        PROVE  list \in finished[e] \/ (list \in Calls[kind[e]] /\ Made(list, e)')
    <3>1. list \in finished[e] \/ (e = serving[h] /\ list = todo[h])
      BY <1>3, <2>3 DEF CompleteWrite, IInv, TInv, TypeOK
    <3>2. todo[h] \in Calls[kind[serving[h]]] /\ Made(todo[h], serving[h])
      BY <1>3, EndIsMade, OwnFacts DEF CompleteWrite, Working
    <3>3. UNCHANGED effects
      BY <1>3 DEF CompleteWrite
    <3> QED
      BY <3>1, <3>2, <3>3 DEF Made
  <2>4. \A e \in Events : record'[e] = "completed" => record[e] = "completed" \/ e = serving[h]
    BY <1>3 DEF CompleteWrite, Settle, IInv, TInv, TypeOK
  <2>5. RowsAreTrue
    BY <1>3, <2>1, <2>3, <2>4 DEF CompleteWrite, RowsAreTrue, sender
  <2>6. OwnWork(h) /\ OwnAnswer(h)
    BY <2>1 DEF OwnWork, OwnAnswer, Working
  <2> QED
    BY <2>2, <2>5, <2>6, HandlerStepSafe DEF HandlerStep
<1>4. CASE Reply(h)
  <2>1. pc'[h] = "idle" /\ outcome'[h] = "error"
    BY <1>4 DEF Reply, Goto, IInv, TInv, TypeOK
  <2>2. Grows /\ Others(h)
    BY <1>4 DEF Reply, Goto, Grows, Others, IInv, TInv, TypeOK, store
  <2>3. ASSUME NEW e \in Events, "processed" \in answers'[e]
        PROVE  "processed" \in answers[e] \/ finished'[e] # {}
    BY <1>4, <2>3, OwnFacts DEF Reply, IInv, TInv, TypeOK, store
  <2>4. RowsAreTrue
    BY <1>4, <2>3 DEF Reply, RowsAreTrue, store
  <2>5. OwnWork(h) /\ OwnAnswer(h)
    BY <2>1 DEF OwnWork, OwnAnswer, Working
  <2> QED
    BY <2>2, <2>4, <2>5, HandlerStepSafe DEF HandlerStep
<1> QED
  BY <1>1, <1>2, <1>3, <1>4

LEMMA FaultSafe == ASSUME IInv, TInv', NEW h \in Handlers, Faulty(h)
                   PROVE  IInv'
<1>1. /\ pc'[h] \in {"fail", "reply"}
      /\ outcome'[h] \in {"error", "rejected", outcome[h]}
  BY DEF Faulty, GraphRaises, FailRaises, AnswerLost, Raise, Goto, IInv, TInv, TypeOK
<1>2. Grows /\ Others(h) /\ RowsAreTrue
  BY DEF Faulty, GraphRaises, FailRaises, AnswerLost, Raise, Goto, Grows, Others, RowsAreTrue,
     IInv, TInv, TypeOK, store, sender, work
<1>3. OwnWork(h) /\ OwnAnswer(h)
  BY <1>1, <1>2, OwnFacts DEF OwnWork, OwnAnswer, Working, Grows
<1> QED
  BY <1>2, <1>3, HandlerStepSafe DEF HandlerStep

LEMMA CrashSafe == IInv /\ Crash => IInv'
<1> SUFFICES ASSUME IInv, Crash PROVE IInv'
  OBVIOUS
<1>1. TInv'
  BY CrashType DEF IInv
<1>2. \A h \in Handlers : pc'[h] = "idle" /\ outcome'[h] = "error"
  BY DEF Crash
<1>3. UNCHANGED <<record, effects, finished, answers, kind>>
  BY DEF Crash, store, sender
<1> QED
  BY <1>1, <1>2, <1>3 DEF IInv, PastIsDone, CompletesAtEnd, Working, IdleIsClean, AnswerIsFinished,
     CompletedIsFinished, ProcessedIsFinished, FinishedIsMade, Made

LEMMA OtherSafe == ASSUME IInv, TInv', NEW e \in Events, OtherEventInserts(e)
                   PROVE  IInv'
<1>1. \A d \in Events : effects[d] \subseteq effects'[d]
  BY DEF OtherEventInserts, IInv, TInv, TypeOK
<1>2. UNCHANGED <<record, finished, kind, answers, pc, serving, todo, effect, outcome>>
  BY DEF OtherEventInserts, sender, request, work
<1>3. PastIsDone'
  BY <1>1, <1>2 DEF IInv, TInv, TypeOK, PastIsDone, Working
<1>4. FinishedIsMade'
  <2> SUFFICES ASSUME NEW d \in Events, NEW list \in finished[d]
               PROVE  list \in Calls[kind[d]] /\ Made(list, d)'
    BY <1>2 DEF FinishedIsMade
  <2>1. list \in Calls[kind[d]] /\ Made(list, d)
    BY DEF IInv, FinishedIsMade
  <2> QED
    BY <1>1, <2>1 DEF Made
<1> QED
  BY <1>2, <1>3, <1>4 DEF IInv, CompletesAtEnd, AtEnd, IdleIsClean, AnswerIsFinished,
     CompletedIsFinished, ProcessedIsFinished

LEMMA SafeStep == IInv /\ [Next]_vars => IInv'
<1> SUFFICES ASSUME IInv, [Next]_vars PROVE IInv'
  OBVIOUS
<1>1. TInv'
  BY TypeStep DEF IInv
<1>2. ASSUME NEW h \in Handlers, NEW e \in Events, Deliver(h, e) PROVE IInv'
  BY <1>1, <1>2, DeliverSafe
<1>3. ASSUME NEW h \in Handlers, Step(h) PROVE IInv'
  BY <1>1, <1>3, ClaimSafe, WorkSafe, SettleSafe DEF Step
<1>4. ASSUME NEW h \in Handlers, Faulty(h) PROVE IInv'
  BY <1>1, <1>4, FaultSafe
<1>5. ASSUME NEW e \in Events, OtherEventInserts(e) PROVE IInv'
  BY <1>1, <1>5, OtherSafe
<1>6. CASE Tick \/ UNCHANGED vars
  <2>1. UNCHANGED <<record, effects, finished, kind, answers, pc, serving, todo, effect, outcome>>
    BY <1>6 DEF Tick, vars, store, sender, request, work
  <2> QED
    BY <1>1, <2>1 DEF IInv, PastIsDone, CompletesAtEnd, AtEnd, Working, IdleIsClean,
       AnswerIsFinished, CompletedIsFinished, ProcessedIsFinished, FinishedIsMade, Made
<1> QED
  BY <1>2, <1>3, <1>4, <1>5, <1>6, CrashSafe DEF Next

LEMMA SafeAlways == Spec => []IInv
BY SafeInit, SafeStep, PTL DEF Spec

(* Every reachable state has the types TypeOK gives, for any constants. *)
THEOREM TypeCorrect == Spec => []TypeOK
<1>1. IInv => TypeOK
  BY DEF IInv, TInv
<1> QED
  BY <1>1, SafeAlways, PTL

(* A completed row means that some try worked its event to the end, and that
   whatever such tries called for is in the database, for any number of events,
   requests in progress, tries, faults and restarts. *)
THEOREM CompletedMeansDone == Spec => []CompletedIsDone
<1>1. IInv => CompletedIsDone
  BY DEF IInv, CompletedIsFinished, FinishedIsMade, CompletedIsDone, Done
<1> QED
  BY <1>1, SafeAlways, PTL

(* So does the answer "processed". *)
THEOREM ProcessedMeansDone == Spec => []ProcessedIsDone
<1>1. IInv => ProcessedIsDone
  BY DEF IInv, ProcessedIsFinished, FinishedIsMade, ProcessedIsDone, Done
<1> QED
  BY <1>1, SafeAlways, PTL


(* What that means for the branches that call for the same inserts at every
   try, whatever failed in between: a completed press has its domain event,
   episode and feedback, a completed decision its domain event and messages, and
   a completed text its note and its reply. *)
THEOREM CompletedIsWhole ==
    Spec => [](\A e \in Events : record[e] = "completed" =>
                 /\ kind[e] = "press" => {"event", "episode", "message"} \subseteq effects[e]
                 /\ kind[e] = "decision" => {"event", "message"} \subseteq effects[e]
                 /\ kind[e] = "text" => {"checkin", "message"} \subseteq effects[e])
<1>1. ASSUME IInv, NEW e \in Events, record[e] = "completed"
      PROVE  /\ kind[e] = "press" => {"event", "episode", "message"} \subseteq effects[e]
             /\ kind[e] = "decision" => {"event", "message"} \subseteq effects[e]
             /\ kind[e] = "text" => {"checkin", "message"} \subseteq effects[e]
  <2>1. PICK list \in finished[e] : list \in Calls[kind[e]] /\ Made(list, e)
    BY <1>1 DEF IInv, CompletedIsFinished, FinishedIsMade
  <2>2. CASE kind[e] = "press"
    <3>1. list = <<"event", "episode", "message">>
      BY <2>1, <2>2 DEF Calls
    <3>2. 1 \in DOMAIN list /\ 2 \in DOMAIN list /\ 3 \in DOMAIN list
      BY <3>1
    <3>3. list[1] = "event" /\ list[2] = "episode" /\ list[3] = "message"
      BY <3>1
    <3> QED
      BY <2>1, <2>2, <3>2, <3>3 DEF Made
  <2>3. CASE kind[e] = "decision"
    <3>1. list = <<"event", "message">>
      BY <2>1, <2>3 DEF Calls
    <3>2. 1 \in DOMAIN list /\ 2 \in DOMAIN list
      BY <3>1
    <3>3. list[1] = "event" /\ list[2] = "message"
      BY <3>1
    <3> QED
      BY <2>1, <2>3, <3>2, <3>3 DEF Made
  <2>4. CASE kind[e] = "text"
    <3>1. list = <<"checkin", "message">> \/ list = <<"checkin", "event", "episode", "message">>
      BY <2>1, <2>4 DEF Calls
    <3>2. CASE list = <<"checkin", "message">>
      <4>1. 1 \in DOMAIN list /\ 2 \in DOMAIN list /\ list[1] = "checkin" /\ list[2] = "message"
        BY <3>2
      <4> QED
        BY <2>1, <2>4, <4>1 DEF Made
    <3>3. CASE list = <<"checkin", "event", "episode", "message">>
      <4>1. 1 \in DOMAIN list /\ 4 \in DOMAIN list /\ list[1] = "checkin" /\ list[4] = "message"
        BY <3>3
      <4> QED
        BY <2>1, <2>4, <4>1 DEF Made
    <3> QED
      BY <3>1, <3>2, <3>3
  <2> QED
    BY <2>2, <2>3, <2>4
<1>2. IInv => \A e \in Events : record[e] = "completed" =>
                 /\ kind[e] = "press" => {"event", "episode", "message"} \subseteq effects[e]
                 /\ kind[e] = "decision" => {"event", "message"} \subseteq effects[e]
                 /\ kind[e] = "text" => {"checkin", "message"} \subseteq effects[e]
  BY <1>1
<1> QED
  BY <1>2, SafeAlways, PTL

-----------------------------------------------------------------------------
(* The rest needs requests that come one at a time. *)
OneHandler == \A g, h \in Handlers : g = h

(* What a request about to claim knows: nobody works on its event, and a row it
   read is still as it read it. *)
ClaimKnows ==
    \A h \in Handlers : pc[h] = "claimWrite" =>
        view[h].record = record[serving[h]] /\ record[serving[h]] # "completed"

LEMMA ClaimKnowsInit == Init => ClaimKnows
BY DEF Init, ClaimKnows

LEMMA ClaimKnowsStep == OneHandler /\ TypeOK /\ ClaimKnows /\ [Next]_vars => ClaimKnows'
<1> SUFFICES ASSUME OneHandler, TypeOK, ClaimKnows, [Next]_vars,
                    NEW h \in Handlers, pc'[h] = "claimWrite"
             PROVE  view'[h].record = record'[serving'[h]] /\ record'[serving'[h]] # "completed"
  BY DEF ClaimKnows
<1>1. \A g \in Handlers : g = h
  BY DEF OneHandler
<1>2. serving[h] \in Events
  BY DEF TypeOK
<1>3. ASSUME NEW e \in Events, Deliver(h, e) PROVE FALSE
  BY <1>3 DEF Deliver, Goto, TypeOK
<1>4. ASSUME Step(h) PROVE ClaimRead(h) /\ pc[h] = "claim"
  BY <1>4 DEF Step, ClaimRead, ClaimReadWith, ClaimInsert, ClaimConflict, ClaimAgain, StartWork,
     Lookup, Insert, NextEffect, InsertConflict, SettleRead, FailNothing, CompleteWrite, FailWrite,
     Reply, Answer, Raise, Goto, TypeOK
<1>5. ASSUME ClaimRead(h)
      PROVE  view'[h].record = record'[serving'[h]] /\ record'[serving'[h]] # "completed"
  BY <1>2, <1>5 DEF ClaimRead, ClaimReadWith, Answer, Goto, Row, TypeOK, store
<1>6. ASSUME Faulty(h) PROVE FALSE
  BY <1>6 DEF Faulty, GraphRaises, FailRaises, AnswerLost, Working, Raise, Goto, TypeOK
<1>7. ASSUME Crash PROVE FALSE
  BY <1>7 DEF Crash
<1>8. ASSUME Tick \/ UNCHANGED vars \/ \E e \in Events : OtherEventInserts(e)
      PROVE  view'[h].record = record'[serving'[h]] /\ record'[serving'[h]] # "completed"
  BY <1>8 DEF Tick, OtherEventInserts, ClaimKnows, vars, store, request
<1> QED
  BY <1>1, <1>3, <1>4, <1>5, <1>6, <1>7, <1>8 DEF Next

(* A completed event is never claimed again, for any events, faults and
   restarts, when requests come one at a time. *)
THEOREM CompletedIsLeft == ASSUME OneHandler PROVE Spec => CompletedIsNotClaimed
<1>1. ASSUME TypeOK, ClaimKnows, [Next]_vars, NEW e \in Events, record[e] = "completed"
      PROVE  record'[e] # "processing"
  <2>1. ASSUME NEW h \in Handlers, ClaimInsert(h) \/ ClaimAgain(h) PROVE record'[e] = record[e]
    BY <1>1, <2>1 DEF ClaimInsert, ClaimAgain, ClaimKnows, TypeOK
  <2>2. ASSUME NEW h \in Handlers, CompleteWrite(h) \/ FailWrite(h)
        PROVE  record'[e] # "processing"
    BY <1>1, <2>2 DEF CompleteWrite, FailWrite, Settle, TypeOK
  <2> QED
    BY <1>1, <2>1, <2>2
    DEF Next, vars, store, Deliver, Step, ClaimRead, ClaimReadWith, ClaimConflict, Lookup, Insert,
        InsertConflict, SettleRead, FailNothing, Reply, Faulty, GraphRaises, FailRaises,
        AnswerLost, Crash, Tick, OtherEventInserts
<1>2. TypeOK /\ ClaimKnows /\ [Next]_vars
        => [\A e \in Events : record[e] = "completed" => record'[e] # "processing"]_vars
  BY <1>1
<1>3. TypeOK /\ ClaimKnows /\ [Next]_vars => ClaimKnows'
  BY ClaimKnowsStep
<1> QED
  BY <1>2, <1>3, ClaimKnowsInit, TypeCorrect, PTL DEF Spec, CompletedIsNotClaimed

-----------------------------------------------------------------------------
(* When besides every failure is recorded, a lease runs only for an event a
   request is working on, and "duplicate" is answered only of a completed one. *)
Recorded == MaxSilent = 0 /\ MaxCrashes = 0

LeaseIsServed ==
    /\ \A e \in Events : record[e] = "absent" => lease[e] = NoLease
    /\ \A e \in Events : Running(lease[e]) =>
         \E h \in Handlers : serving[h] = e /\ (Working(h) \/ pc[h] \in {"fail", "failWrite"})
    /\ \A h \in Handlers : pc[h] \in {"completeWrite", "failWrite"}
                             => (view[h].lease = NoLease => lease[serving[h]] = NoLease)

DuplicateIsFinished ==
    /\ \A h \in Handlers : outcome[h] = "duplicate" => finished[serving[h]] # {}
    /\ \A e \in Events : "duplicate" \in answers[e] => finished[e] # {}

LEMMA LeaseInit == Init => LeaseIsServed /\ DuplicateIsFinished
BY DEF Init, LeaseIsServed, DuplicateIsFinished, Acks, Running, NoLease

(* With one request at a time, the lease rules read as follows. *)
LEMMA LeaseMeans ==
    ASSUME OneHandler, LeaseIsServed, NEW h \in Handlers, NEW e \in Events, Running(lease[e])
    PROVE  serving[h] = e /\ (Working(h) \/ pc[h] \in {"fail", "failWrite"})
BY DEF OneHandler, LeaseIsServed

LEMMA LeaseStep ==
    OneHandler /\ Recorded /\ TypeOK /\ ClaimKnows /\ LeaseIsServed /\ [Next]_vars
      => LeaseIsServed'
<1> SUFFICES ASSUME OneHandler, Recorded, TypeOK, ClaimKnows, LeaseIsServed, [Next]_vars
             PROVE  LeaseIsServed'
  OBVIOUS
<1>1. ASSUME NEW h \in Handlers, NEW e \in Events, Deliver(h, e) PROVE LeaseIsServed'
  <2>1. UNCHANGED <<record, lease>>
    BY <1>1 DEF Deliver, store
  <2>2. \A d \in Events : ~ Running(lease[d])
    BY <1>1, LeaseMeans DEF Deliver, Working
  <2>3. \A g \in Handlers : pc'[g] = "claim"
    BY <1>1 DEF Deliver, Goto, OneHandler, TypeOK
  <2> QED
    BY <2>1, <2>2, <2>3 DEF LeaseIsServed
<1>2. ASSUME NEW h \in Handlers, UNCHANGED <<record, lease, serving>>,
             Working(h) \/ pc[h] \in {"fail", "failWrite"}
               => Working(h)' \/ pc'[h] \in {"fail", "failWrite"}
                    \/ lease[serving[h]] = NoLease,
             pc'[h] \in {"completeWrite", "failWrite"}
               => (view'[h].lease = NoLease => lease[serving[h]] = NoLease)
      PROVE  LeaseIsServed'
  <2>1. ~ Running(NoLease)
    BY DEF Running, NoLease
  <2>2. ASSUME NEW e \in Events, Running(lease'[e])
        PROVE  serving'[h] = e /\ (Working(h)' \/ pc'[h] \in {"fail", "failWrite"})
    BY <1>2, <2>1, <2>2, LeaseMeans
  <2>3. \A e \in Events : record'[e] = "absent" => lease'[e] = NoLease
    BY <1>2 DEF LeaseIsServed
  <2>4. \A g \in Handlers : pc'[g] \in {"completeWrite", "failWrite"}
                              => (view'[g].lease = NoLease => lease'[serving'[g]] = NoLease)
    BY <1>2 DEF OneHandler
  <2> QED
    BY <2>2, <2>3, <2>4 DEF LeaseIsServed
<1>3. ASSUME NEW h \in Handlers, ClaimRead(h) \/ ClaimConflict(h) PROVE LeaseIsServed'
  <2>1. UNCHANGED <<record, lease, serving>>
    BY <1>3 DEF ClaimRead, ClaimReadWith, ClaimConflict, store
  <2>2. /\ ~ (Working(h) \/ pc[h] \in {"fail", "failWrite"})
        /\ pc'[h] \notin {"completeWrite", "failWrite"}
    BY <1>3 DEF ClaimRead, ClaimReadWith, ClaimConflict, Answer, Raise, Goto, Working, TypeOK
  <2> QED
    BY <1>2, <2>1, <2>2
<1>4. ASSUME NEW h \in Handlers, ClaimInsert(h) \/ ClaimAgain(h) PROVE LeaseIsServed'
  <2>1. serving[h] \in Events /\ serving' = serving /\ pc[h] = "claimWrite" /\ pc'[h] = "work"
    BY <1>4 DEF ClaimInsert, ClaimAgain, StartWork, Goto, TypeOK
  <2>2. \A e \in Events : ~ Running(lease[e])
    BY <2>1, LeaseMeans DEF Working
  <2>3. \A e \in Events : e # serving[h] => lease'[e] = lease[e] /\ record'[e] = record[e]
    BY <1>4 DEF ClaimInsert, ClaimAgain, TypeOK
  <2>4. record'[serving[h]] # "absent"
    <3>1. CASE ClaimInsert(h)
      BY <2>1, <3>1 DEF ClaimInsert, TypeOK
    <3>2. CASE ClaimAgain(h)
      <4>1. view[h].record = "processing" => record' = record
        BY <3>2 DEF ClaimAgain
      <4>2. view[h].record # "processing" => record'[serving[h]] = "processing"
        BY <2>1, <3>2 DEF ClaimAgain, TypeOK
      <4>3. view[h].record = "processing" => record[serving[h]] # "absent"
        BY <3>2, <2>1 DEF ClaimKnows
      <4> QED
        BY <4>1, <4>2, <4>3
    <3> QED
      BY <1>4, <3>1, <3>2
  <2>5. \A g \in Handlers : g = h
    BY DEF OneHandler
  <2> QED
    BY <2>1, <2>2, <2>3, <2>4, <2>5 DEF LeaseIsServed, Working
<1>5. ASSUME NEW h \in Handlers, Lookup(h) \/ Insert(h) \/ InsertConflict(h)
      PROVE  LeaseIsServed'
  <2>1. UNCHANGED <<record, lease, serving>>
    BY <1>5 DEF Lookup, Insert, InsertConflict, store
  <2>2. pc'[h] \in {"work", "insert", "fail"}
    BY <1>5 DEF Lookup, Insert, InsertConflict, NextEffect, Raise, Goto, TypeOK
  <2> QED
    BY <1>2, <2>1, <2>2 DEF Working
<1>6. ASSUME NEW h \in Handlers, SettleRead(h) \/ FailNothing(h) PROVE LeaseIsServed'
  <2>1. UNCHANGED <<record, lease, serving>> /\ serving[h] \in Events
    BY <1>6 DEF SettleRead, FailNothing, store, TypeOK
  <2>2. CASE SettleRead(h)
    <3>1. pc'[h] \in {"completeWrite", "failWrite"} /\ view'[h] = Row(serving[h])
      BY <2>2 DEF SettleRead, Goto, TypeOK
    <3> QED
      BY <1>2, <2>1, <3>1 DEF Working, Row
  <2>3. CASE FailNothing(h)
    <3>1. pc'[h] = "reply" /\ lease[serving[h]] = NoLease
      BY <2>1, <2>3 DEF FailNothing, Goto, TypeOK, LeaseIsServed
    <3> QED
      BY <1>2, <2>1, <3>1
  <2> QED
    BY <1>6, <2>2, <2>3
<1>7. ASSUME NEW h \in Handlers, CompleteWrite(h) \/ FailWrite(h) PROVE LeaseIsServed'
  <2>1. /\ serving[h] \in Events /\ serving' = serving /\ pc'[h] = "reply"
        /\ pc[h] \in {"completeWrite", "failWrite"}
    BY <1>7 DEF CompleteWrite, FailWrite, Answer, Goto, TypeOK
  <2>2. lease'[serving[h]] = NoLease
    BY <1>7, <2>1 DEF CompleteWrite, FailWrite, Settle, LeaseIsServed, TypeOK
  <2>3. \A e \in Events : e # serving[h] => lease'[e] = lease[e] /\ record'[e] = record[e]
    BY <1>7 DEF CompleteWrite, FailWrite, Settle, TypeOK
  <2>4. \A e \in Events : ~ Running(lease'[e])
    <3>1. \A e \in Events : e # serving[h] => ~ Running(lease[e])
      BY LeaseMeans
    <3> QED
      BY <2>2, <2>3, <3>1 DEF Running, NoLease
  <2>5. \A g \in Handlers : g = h
    BY DEF OneHandler
  <2> QED
    BY <2>1, <2>2, <2>3, <2>4, <2>5 DEF LeaseIsServed
<1>8. ASSUME NEW h \in Handlers, Reply(h) PROVE LeaseIsServed'
  <2>1. UNCHANGED <<record, lease, serving>> /\ pc[h] = "reply" /\ pc'[h] = "idle"
    BY <1>8 DEF Reply, Goto, store, TypeOK
  <2> QED
    BY <1>2, <2>1 DEF Working
<1>9. ASSUME NEW h \in Handlers, Faulty(h) PROVE LeaseIsServed'
  <2>1. UNCHANGED <<record, lease, serving>>
    BY <1>9 DEF Faulty, GraphRaises, FailRaises, AnswerLost, store
  <2>2. CASE GraphRaises(h)
    <3>1. pc'[h] = "fail"
      BY <2>2 DEF GraphRaises, Raise, Goto, TypeOK
    <3> QED
      BY <1>2, <2>1, <3>1
  <2>3. CASE AnswerLost(h)
    <3>1. pc[h] = "reply" /\ pc'[h] = "reply"
      BY <2>3 DEF AnswerLost
    <3> QED
      BY <1>2, <2>1, <3>1 DEF Working
  <2>4. CASE FailRaises(h)
    BY <2>4 DEF FailRaises, Recorded, TypeOK
  <2> QED
    BY <1>9, <2>2, <2>3, <2>4 DEF Faulty
<1>10. ASSUME Crash PROVE FALSE
  BY <1>10 DEF Crash, Recorded, TypeOK
<1>11. CASE Tick
  <2>1. \A e \in Events : lease[e] \in Leases
    BY DEF TypeOK
  <2>2. \A e \in Events : /\ Running(lease'[e]) => Running(lease[e])
                          /\ lease[e] = NoLease => lease'[e] = NoLease
    BY <1>11, <2>1, InboxAssumption DEF Tick, Running, Leases, NoLease
  <2> QED
    BY <1>11, <2>2 DEF Tick, LeaseIsServed, Working, request, TypeOK
<1>12. CASE UNCHANGED vars \/ \E e \in Events : OtherEventInserts(e)
  BY <1>12 DEF OtherEventInserts, vars, store, request, LeaseIsServed, Working
<1> QED
  BY <1>1, <1>3, <1>4, <1>5, <1>6, <1>7, <1>8, <1>9, <1>10, <1>11, <1>12 DEF Next, Step

LEMMA DuplicateStep ==
    OneHandler /\ IInv /\ LeaseIsServed /\ DuplicateIsFinished /\ [Next]_vars
      => DuplicateIsFinished'
<1> SUFFICES ASSUME OneHandler, IInv, LeaseIsServed, DuplicateIsFinished, [Next]_vars
             PROVE  DuplicateIsFinished'
  OBVIOUS
<1>1. \A e \in Events : finished[e] # {} => finished'[e] # {}
  <2>1. ASSUME NEW h \in Handlers, CompleteWrite(h)
        PROVE  \A e \in Events : finished[e] # {} => finished'[e] # {}
    BY <2>1 DEF CompleteWrite, IInv, TInv, TypeOK
  <2>2. CASE UNCHANGED finished
    BY <2>2
  <2> QED
    BY <2>1, <2>2
    DEF Next, vars, store, Deliver, Step, ClaimRead, ClaimReadWith, ClaimInsert, ClaimConflict,
       ClaimAgain, Lookup, Insert, InsertConflict, SettleRead, FailNothing, FailWrite,
       Reply, Faulty, GraphRaises, FailRaises, AnswerLost, Crash, Tick, OtherEventInserts
<1>2. \A h \in Handlers : serving[h] \in Events
                            /\ (outcome[h] = "duplicate" => finished[serving[h]] # {})
  BY DEF IInv, TInv, TypeOK, DuplicateIsFinished
<1>3. ASSUME NEW h \in Handlers, NEW e \in Events, Deliver(h, e)
      PROVE  DuplicateIsFinished'
  <2>1. outcome[h] = "error" /\ UNCHANGED <<outcome, answers>>
    BY <1>3 DEF Deliver, IInv, IdleIsClean
  <2>2. \A g \in Handlers : g # h => serving'[g] = serving[g]
    BY <1>3 DEF Deliver, IInv, TInv, TypeOK
  <2> QED
    BY <1>1, <1>2, <2>1, <2>2 DEF DuplicateIsFinished
<1>4. ASSUME NEW h \in Handlers, UNCHANGED serving,
             \A g \in Handlers \ {h} : outcome'[g] = outcome[g],
             outcome'[h] = "duplicate" => outcome[h] = "duplicate" \/ finished[serving[h]] # {},
             \A e \in Events : "duplicate" \in answers'[e]
                                 => "duplicate" \in answers[e] \/ finished[e] # {}
      PROVE  DuplicateIsFinished'
  BY <1>1, <1>2, <1>4 DEF DuplicateIsFinished
<1>5. ASSUME NEW h \in Handlers, ClaimRead(h) PROVE DuplicateIsFinished'
  <2>1. pc[h] = "claim"
    BY <1>5 DEF ClaimRead, ClaimReadWith
  <2>2. ~ Running(lease[serving[h]])
    BY <1>2, <2>1, LeaseMeans DEF Working
  <2>3. outcome'[h] = "duplicate" => outcome[h] = "duplicate" \/ finished[serving[h]] # {}
    BY <1>2, <1>5, <2>2 DEF ClaimRead, ClaimReadWith, Answer, IInv, TInv, TypeOK,
       CompletedIsFinished
  <2>4. /\ UNCHANGED <<serving, answers>>
        /\ \A g \in Handlers \ {h} : outcome'[g] = outcome[g]
    BY <1>5 DEF ClaimRead, ClaimReadWith, Answer, IInv, TInv, TypeOK, sender
  <2> QED
    BY <1>4, <2>3, <2>4
<1>6. ASSUME NEW h \in Handlers, Reply(h) PROVE DuplicateIsFinished'
  <2>1. UNCHANGED serving /\ \A g \in Handlers \ {h} : outcome'[g] = outcome[g]
    BY <1>6 DEF Reply, IInv, TInv, TypeOK
  <2>2. outcome'[h] # "duplicate"
    BY <1>6 DEF Reply, IInv, TInv, TypeOK
  <2>3. \A e \in Events : "duplicate" \in answers'[e] => "duplicate" \in answers[e]
                                                          \/ finished[e] # {}
    BY <1>2, <1>6 DEF Reply, IInv, TInv, TypeOK
  <2> QED
    BY <1>4, <2>1, <2>2, <2>3
<1>7. ASSUME UNCHANGED <<serving, answers>>,
             \A g \in Handlers : outcome'[g] = "duplicate" => outcome[g] = "duplicate"
      PROVE  DuplicateIsFinished'
  BY <1>1, <1>2, <1>7 DEF DuplicateIsFinished
<1>8. ASSUME NEW h \in Handlers, Step(h), ~ ClaimRead(h), ~ Reply(h) PROVE DuplicateIsFinished'
  <2>1. UNCHANGED <<serving, answers>>
    BY <1>8 DEF Step, ClaimInsert, ClaimConflict, ClaimAgain, Lookup, Insert, InsertConflict,
       SettleRead, FailNothing, CompleteWrite, FailWrite, sender
  <2>2. \A g \in Handlers : outcome'[g] = "duplicate" => outcome[g] = "duplicate"
    BY <1>8 DEF Step, ClaimInsert, ClaimConflict, ClaimAgain, Lookup, Insert, InsertConflict,
       SettleRead, FailNothing, CompleteWrite, FailWrite, Answer, Raise, IInv, TInv, TypeOK
  <2> QED
    BY <1>7, <2>1, <2>2
<1>9. ASSUME NEW h \in Handlers, Faulty(h) PROVE DuplicateIsFinished'
  <2>1. UNCHANGED <<serving, answers>>
    BY <1>9 DEF Faulty, GraphRaises, FailRaises, AnswerLost, sender
  <2>2. \A g \in Handlers : outcome'[g] = "duplicate" => outcome[g] = "duplicate"
    BY <1>9 DEF Faulty, GraphRaises, FailRaises, AnswerLost, Raise, IInv, TInv, TypeOK
  <2> QED
    BY <1>7, <2>1, <2>2
<1>10. CASE Crash
  BY <1>7, <1>10 DEF Crash, sender
<1>11. CASE Tick \/ UNCHANGED vars \/ \E e \in Events : OtherEventInserts(e)
  BY <1>7, <1>11 DEF Tick, OtherEventInserts, vars, sender, request
<1> QED
  BY <1>3, <1>5, <1>6, <1>8, <1>9, <1>10, <1>11 DEF Next

(* "Processing does not pretend success", for any events and any number of
   errors and lost answers, when requests come one at a time and every failure
   is recorded, however soon the sender tries again: whoever is told 2xx, and not
   "rejected", was told the truth. *)
THEOREM SuccessIsTrue == ASSUME OneHandler, Recorded PROVE Spec => []NoFalseSuccess
<1>1. IInv /\ DuplicateIsFinished => NoFalseSuccess
  BY DEF IInv, TInv, TypeOK, ProcessedIsFinished, FinishedIsMade, DuplicateIsFinished,
     NoFalseSuccess, Acks, Done
<1>2. IInv /\ ClaimKnows /\ LeaseIsServed /\ [Next]_vars => LeaseIsServed' /\ ClaimKnows'
  BY LeaseStep, ClaimKnowsStep DEF IInv, TInv
<1>3. IInv /\ LeaseIsServed /\ DuplicateIsFinished /\ [Next]_vars => DuplicateIsFinished'
  BY DuplicateStep
<1> QED
  BY <1>1, <1>2, <1>3, SafeAlways, ClaimKnowsInit, LeaseInit, PTL DEF Spec

-----------------------------------------------------------------------------
(* Inbox implements Ledger, again for any number of overlapping requests. *)

(* A request past the claim, and one that answers "duplicate", has met the row
   of its event. *)
MetRow(h) ==
    \/ Working(h) \/ pc[h] = "failWrite" \/ outcome[h] = "duplicate"
    \/ pc[h] = "claimWrite" /\ view[h].record # "absent"

Registered == \A h \in Handlers : MetRow(h) => record[serving[h]] # "absent"

RInv == IInv /\ Registered

(* A row is never deleted. *)
LEMMA RecordStays ==
    ASSUME TypeOK, [Next]_vars, NEW e \in Events, record[e] # "absent"
    PROVE  record'[e] # "absent"
<1>1. ASSUME NEW h \in Handlers,
             ClaimInsert(h) \/ ClaimAgain(h) \/ CompleteWrite(h) \/ FailWrite(h)
      PROVE  record'[e] # "absent"
  BY <1>1 DEF ClaimInsert, ClaimAgain, CompleteWrite, FailWrite, Settle, TypeOK
<1>2. CASE UNCHANGED record
  BY <1>2
<1> QED
  BY <1>1, <1>2
  DEF Next, vars, store, Deliver, Step, ClaimRead, ClaimReadWith, ClaimConflict, Lookup, Insert,
      InsertConflict, SettleRead, FailNothing, Reply, Faulty, GraphRaises, FailRaises,
      AnswerLost, Crash, Tick, OtherEventInserts

LEMMA RegisteredStep == RInv /\ [Next]_vars => Registered'
<1> SUFFICES ASSUME RInv, [Next]_vars, NEW g \in Handlers, MetRow(g)'
             PROVE  record'[serving'[g]] # "absent"
  BY DEF Registered
<1>1. TypeOK /\ \A e \in Events : record[e] # "absent" => record'[e] # "absent"
  BY RecordStays DEF RInv, IInv, TInv
<1>2. serving[g] \in Events /\ (MetRow(g) => record'[serving[g]] # "absent")
  BY <1>1 DEF RInv, TypeOK, Registered
<1>3. CASE serving'[g] = serving[g] /\ MetRow(g)
  BY <1>2, <1>3
<1>4. ASSUME NEW h \in Handlers, NEW e \in Events, Deliver(h, e)
      PROVE  record'[serving'[g]] # "absent"
  <2>1. CASE g = h
    <3>1. pc'[g] = "claim" /\ outcome'[g] = "error"
      BY <1>1, <1>4, <2>1 DEF Deliver, Goto, RInv, IInv, TypeOK, IdleIsClean
    <3> QED
      BY <3>1 DEF MetRow, Working
  <2>2. CASE g # h
    BY <1>1, <1>2, <1>4, <2>2 DEF Deliver, Goto, TypeOK, MetRow, Working
  <2> QED
    BY <2>1, <2>2
<1>5. ASSUME NEW h \in Handlers, Step(h) \/ Faulty(h), g # h
      PROVE  serving'[g] = serving[g] /\ MetRow(g)
  <2>1. /\ serving' = serving
        /\ pc'[g] = pc[g] /\ outcome'[g] = outcome[g] /\ view'[g] = view[g]
    BY <1>1, <1>5 DEF Step, ClaimRead, ClaimReadWith, ClaimInsert, ClaimConflict, ClaimAgain,
       StartWork, Lookup, Insert, NextEffect, InsertConflict, SettleRead, FailNothing,
       CompleteWrite, FailWrite, Reply, Faulty, GraphRaises, FailRaises, AnswerLost, Answer, Raise,
       Goto, TypeOK
  <2> QED
    BY <2>1 DEF MetRow, Working
<1>6. ASSUME ClaimRead(g) \/ ClaimInsert(g) \/ ClaimConflict(g) \/ ClaimAgain(g)
      PROVE  record'[serving'[g]] # "absent"
  <2>1. CASE ClaimRead(g)
    <3>1. UNCHANGED <<record, serving>>
      BY <2>1 DEF ClaimRead, ClaimReadWith, store
    <3>2. record[serving[g]] # "absent"
      BY <1>1, <1>2, <2>1, <3>1
      DEF ClaimRead, ClaimReadWith, Answer, Goto, MetRow, Working, Row, TypeOK
    <3> QED
      BY <3>1, <3>2
  <2>2. CASE ClaimInsert(g)
    BY <1>1, <1>2, <2>2 DEF ClaimInsert, TypeOK
  <2>3. CASE ClaimConflict(g)
    BY <1>1, <2>3 DEF ClaimConflict, Raise, Goto, MetRow, Working, TypeOK
  <2>4. CASE ClaimAgain(g)
    BY <1>3, <2>4 DEF ClaimAgain, MetRow
  <2> QED
    BY <1>6, <2>1, <2>2, <2>3, <2>4
<1>7. ASSUME Lookup(g) \/ Insert(g) \/ InsertConflict(g) \/ SettleRead(g) \/ FailNothing(g)
             \/ CompleteWrite(g) \/ FailWrite(g)
      PROVE  record'[serving'[g]] # "absent"
  <2>1. serving'[g] = serving[g]
    BY <1>7 DEF Lookup, Insert, InsertConflict, SettleRead, FailNothing, CompleteWrite, FailWrite
  <2>2. CASE Lookup(g) \/ Insert(g) \/ InsertConflict(g) \/ CompleteWrite(g) \/ FailWrite(g)
    BY <1>3, <2>1, <2>2 DEF Lookup, Insert, InsertConflict, CompleteWrite, FailWrite,
                           MetRow, Working
  <2>3. CASE SettleRead(g)
    BY <1>2, <1>3, <2>1, <2>3 DEF SettleRead, MetRow, Working, store
  <2>4. CASE FailNothing(g)
    BY <1>1, <1>3, <2>1, <2>4 DEF FailNothing, Goto, MetRow, Working, TypeOK
  <2> QED
    BY <1>7, <2>2, <2>3, <2>4
<1>8. ASSUME Reply(g) \/ Crash PROVE FALSE
  BY <1>1, <1>8 DEF Reply, Crash, Goto, MetRow, Working, TypeOK
<1>9. ASSUME Faulty(g) PROVE record'[serving'[g]] # "absent"
  <2>1. serving'[g] = serving[g]
    BY <1>9 DEF Faulty, GraphRaises, FailRaises, AnswerLost
  <2>2. MetRow(g)
    BY <1>1, <1>9 DEF Faulty, GraphRaises, FailRaises, AnswerLost, Raise, Goto, MetRow, Working,
       TypeOK
  <2> QED
    BY <1>3, <2>1, <2>2
<1>10. CASE Tick \/ UNCHANGED vars \/ \E e \in Events : OtherEventInserts(e)
  BY <1>3, <1>10 DEF Tick, OtherEventInserts, vars, request, MetRow, Working
<1> QED
  BY <1>3, <1>4, <1>5, <1>6, <1>7, <1>8, <1>9, <1>10 DEF Next, Step

LEMMA RInvAlways == Spec => []RInv
<1>1. Init => RInv
  BY SafeInit DEF RInv, Init, Registered, MetRow, Working
<1>2. RInv /\ [Next]_vars => RInv'
  BY SafeStep, RegisteredStep DEF RInv
<1> QED
  BY <1>1, <1>2, PTL DEF Spec

Phases == [e \in Events |-> Phase(record[e])]

(* A row that changes its status moves its event, or leaves it where it was. *)
LEMMA PhaseMoves ==
    ASSUME TypeOK, NEW e \in Events, NEW status \in Statuses,
           record' = [record EXCEPT ![e] = status]
    PROVE  /\ Phases' = [Phases EXCEPT ![e] = Phase(status)]
           /\ Phase(status) = Phase(record[e]) => Phases' = Phases
<1>1. record'[e] = status /\ \A d \in Events \ {e} : record'[d] = record[d]
  BY DEF TypeOK
<1>2. Phases' = [d \in Events |-> Phase(record'[d])]
  BY DEF Phases
<1>3. \A d \in Events : Phase(record'[d]) = IF d = e THEN Phase(status) ELSE Phase(record[d])
  BY <1>1
<1>4. Phases' = [d \in Events |-> IF d = e THEN Phase(status) ELSE Phase(record[d])]
  BY <1>2, <1>3
<1>5. Phases' = [Phases EXCEPT ![e] = Phase(status)]
  BY <1>4 DEF Phases
<1>6. ASSUME Phase(status) = Phase(record[e]) PROVE Phases' = Phases
  BY <1>4, <1>6 DEF Phases
<1> QED
  BY <1>5, <1>6

LEMMA RefineInit == Init => Book!Init
BY InboxAssumption DEF Init, Book!Init, Phase

LEMMA RefineInsert ==
    ASSUME RInv, NEW h \in Handlers, Insert(h)
    PROVE  Book!Next
<1> DEFINE e == serving[h]
           list == todo[h]
           i == effect[h]
<1>1. /\ e \in Events /\ record[e] \in Statuses /\ TypeOK
      /\ i \in Nat \ {0} /\ list \in Calls[kind[e]]
      /\ \A j \in 1 .. (i - 1) : list[j] \in effects[e]
  BY OwnFacts DEF RInv, IInv, TInv, TypeOK, Insert, Working
<1>2. i \in DOMAIN list
  <2>1. i <= Len(list)
    BY DEF Insert, RInv, IInv, TInv, InsertInList
  <2>2. DOMAIN list = 1 .. Len(list)
    BY <1>1, ListsAreSequences DEF TypeOK
  <2> QED
    BY <1>1, <2>1, <2>2, NeededTyped
<1>3. Phase(record[e]) # "new"
  <2>1. record[e] # "absent"
    BY DEF RInv, Registered, MetRow, Working, Insert
  <2> QED
    BY <2>1 DEF Phase
<1>4. /\ effects' = [effects EXCEPT ![e] = @ \cup {list[i]}] /\ list[i] \notin effects[e]
      /\ UNCHANGED <<kind, record, finished, answers>>
  BY DEF Insert, Needed, sender
<1>5. Book!Make(e, list, i)
  BY <1>1, <1>3, <1>4 DEF Book!Make
<1> QED
  BY <1>1, <1>2, <1>5 DEF Book!Next

LEMMA RefineOther ==
    ASSUME NEW e \in Events, OtherEventInserts(e)
    PROVE  Book!Next
<1>1. Book!Receive(e)
  BY DEF OtherEventInserts, Book!Receive, sender
<1> QED
  BY <1>1 DEF Book!Next

LEMMA RefineSettle ==
    ASSUME RInv, NEW h \in Handlers, ClaimInsert(h) \/ ClaimAgain(h) \/ FailWrite(h)
    PROVE  [Book!Next]_(Book!vars)
<1> DEFINE e == serving[h]
<1>1. e \in Events /\ record[e] \in Statuses /\ TypeOK
  BY DEF RInv, IInv, TInv, TypeOK
<1>2. UNCHANGED <<kind, effects, finished, answers>>
  BY DEF ClaimInsert, ClaimAgain, FailWrite, sender
<1>3. CASE UNCHANGED record
  BY <1>2, <1>3 DEF Book!vars
<1>4. CASE ClaimInsert(h)
  <2>1. record[e] = "absent" /\ record' = [record EXCEPT ![e] = "processing"]
    BY <1>4 DEF ClaimInsert
  <2>2. Phases' = [Phases EXCEPT ![e] = "open"] /\ Phases[e] = "new"
    <3>1. Phases' = [Phases EXCEPT ![e] = Phase("processing")]
      BY <1>1, <2>1, PhaseMoves DEF Statuses
    <3> QED
      BY <1>1, <2>1, <3>1 DEF Phase, Phases
  <2>3. Book!Register(e)
    BY <1>2, <2>2 DEF Book!Register, Phases
  <2> QED
    BY <1>1, <2>3 DEF Book!Next
<1>5. CASE ClaimAgain(h) \/ FailWrite(h)
  <2>1. PICK s \in {"processing", "failed"} :
           UNCHANGED record \/ record' = [record EXCEPT ![e] = s]
    BY <1>5 DEF ClaimAgain, FailWrite, Settle
  <2>2. record[e] # "absent"
    BY <1>5 DEF RInv, Registered, MetRow, Working, ClaimAgain, FailWrite
  <2>3. CASE record' = [record EXCEPT ![e] = s] /\ record[e] = "completed"
    <3>1. Phases' = [Phases EXCEPT ![e] = "open"] /\ Phases[e] = "closed"
      BY <1>1, <2>1, <2>3, PhaseMoves DEF Phase, Phases, Statuses
    <3>2. Book!Reopen(e)
      BY <1>2, <3>1 DEF Book!Reopen, Phases
    <3> QED
      BY <1>1, <3>2 DEF Book!Next
  <2>4. CASE record' = [record EXCEPT ![e] = s] /\ record[e] # "completed"
    <3>1. Phase(record[e]) = "open" /\ Phase(s) = "open"
      BY <2>1, <2>2, <2>4 DEF Phase
    <3>2. Phases' = Phases
      BY <1>1, <2>1, <2>4, <3>1, PhaseMoves DEF Statuses
    <3> QED
      BY <1>2, <3>2 DEF Book!vars, Phases
  <2> QED
    BY <1>3, <2>1, <2>3, <2>4
<1> QED
  BY <1>4, <1>5

LEMMA RefineComplete ==
    ASSUME RInv, NEW h \in Handlers, CompleteWrite(h)
    PROVE  Book!Next
<1> DEFINE e == serving[h]
           list == todo[h]
<1>1. e \in Events /\ record[e] # "absent" /\ TypeOK
  BY DEF RInv, IInv, TInv, TypeOK, Registered, MetRow, Working, CompleteWrite
<1>2. list \in Calls[kind[e]] /\ \A i \in DOMAIN list : list[i] \in effects[e]
  BY OwnFacts, EndIsMade DEF CompleteWrite, RInv, Working, Made
<1>3. /\ finished' = [finished EXCEPT ![e] = @ \cup {list}]
      /\ UNCHANGED <<kind, effects, answers>>
  BY DEF CompleteWrite, sender
<1>4. UNCHANGED record \/ record' = [record EXCEPT ![e] = "completed"]
  BY DEF CompleteWrite, Settle
<1>5. Phases' = Phases \/ Phases' = [Phases EXCEPT ![e] = "closed"]
  <2>1. CASE UNCHANGED record
    BY <2>1 DEF Phases
  <2>2. CASE record' = [record EXCEPT ![e] = "completed"]
    <3>1. Phases' = [Phases EXCEPT ![e] = Phase("completed")]
      BY <1>1, <2>2, PhaseMoves DEF Statuses
    <3> QED
      BY <3>1 DEF Phase
  <2> QED
    BY <1>4, <2>1, <2>2
<1>6. Phases[e] # "new"
  BY <1>1 DEF Phases, Phase
<1>7. Book!Close(e, list)
  BY <1>2, <1>3, <1>5, <1>6 DEF Book!Close, Phases
<1> QED
  BY <1>1, <1>2, <1>7 DEF Book!Next

LEMMA RefineReply ==
    ASSUME RInv, NEW h \in Handlers, Reply(h)
    PROVE  [Book!Next]_(Book!vars)
<1> DEFINE e == serving[h]
           what == outcome[h]
<1>1. e \in Events /\ what \in Outcomes /\ UNCHANGED <<kind, record, effects, finished>>
  BY DEF RInv, IInv, TInv, TypeOK, Reply, store
<1>2. CASE what = "error"
  BY <1>1, <1>2 DEF Reply, Book!vars
<1>3. CASE what \in Acks
  <2>1. what = "processed" => finished[e] # {}
    BY OwnFacts DEF RInv
  <2>2. what = "duplicate" => [d \in Events |-> Phase(record[d])][e] # "new"
    BY <1>1 DEF RInv, Registered, MetRow, Phase
  <2>3. answers' = [answers EXCEPT ![e] = @ \cup {what}]
    BY <1>3 DEF Reply, Acks
  <2>4. Book!Tell(e, what)
    BY <1>1, <2>1, <2>2, <2>3 DEF Book!Tell
  <2> QED
    BY <1>1, <1>3, <2>4 DEF Book!Next, Acks
<1> QED
  BY <1>1, <1>2, <1>3 DEF Outcomes

(* Every step is a step of Ledger or leaves its variables alone. *)
LEMMA RefineStep ==
    ASSUME RInv, [Next]_vars
    PROVE  [Book!Next]_(Book!vars)
<1>1. CASE UNCHANGED <<kind, record, effects, finished, answers>>
  BY <1>1 DEF Book!vars
<1>2. ASSUME NEW h \in Handlers,
             Insert(h) \/ Reply(h) \/ ClaimInsert(h) \/ ClaimAgain(h) \/ CompleteWrite(h)
               \/ FailWrite(h)
      PROVE  [Book!Next]_(Book!vars)
  BY <1>2, RefineInsert, RefineReply, RefineSettle, RefineComplete
<1>3. ASSUME NEW e \in Events, OtherEventInserts(e)
      PROVE  [Book!Next]_(Book!vars)
  BY <1>3, RefineOther
<1> QED
  BY <1>1, <1>2, <1>3
  DEF Next, vars, store, sender, Deliver, Step, ClaimRead, ClaimReadWith, ClaimConflict, Lookup,
      InsertConflict, SettleRead, FailNothing, Faulty, GraphRaises, FailRaises, AnswerLost,
      Crash, Tick

(* However many requests for an event overlap, raise, are lost in a restart or
   repeated, ingress is a ledger: a request does work only for an event that has
   a row, each insert once and after those its list names first, and "completed"
   and "processed" mean that a list of the event's branch is there in full. *)
THEOREM InboxImplementsLedger == Spec => ImplementsLedger
<1>1. Init => Book!Init
  BY RefineInit
<1>2. RInv /\ [Next]_vars => [Book!Next]_(Book!vars)
  BY RefineStep
<1> QED
  BY <1>1, <1>2, RInvAlways, PTL DEF Spec, ImplementsLedger, Book!Spec
=============================================================================
