------------------------- MODULE PlanApprovalProofs -------------------------
(* What is proved of PlanApproval, with any number of requests in progress: type
   correctness, and that plan, announcement, press, decision and confirmation come
   in this order.  When requests do not overlap: that an approved plan was
   approved by the user, that the log leads the row, that a decision stands, and
   that the day's row implements Approval.  With overlapping requests the first
   of these fails (run plan_overlap). *)
EXTENDS PlanApproval, TLAPS

(* A decision request carries a decision that was pressed; TypeOK is inductive
   together with this. *)
Pressed ==
    /\ unanswered \subseteq pressed
    /\ \A h \in Handlers : pc[h] \in DecideSteps => <<target[h], decision[h]>> \in pressed

TInv == TypeOK /\ Pressed

(* An upsert leaves a row of the table, in all cases of SaveUpdate. *)
LEMMA UpdatedRow ==
    ASSUME NEW h \in Handlers, SaveUpdate(h)
    PROVE  /\ row'.content \in {target[h], row.content}
           /\ view[h].content # target[h] => row'.content = target[h]
           /\ row'.token = IF view[h].token # target[h] THEN target[h] ELSE row.token
           /\ row'.status = IF view[h].token # target[h] THEN Written(h, "pending")
                            ELSE row.status
           /\ row' = [content |-> row'.content, token |-> row'.token, status |-> row'.status]
  <1> DEFINE c == target[h]
             changed == view[h].token # c
             Row(r) == [content |-> IF r \/ view[h].content # c THEN c ELSE row.content,
                        token   |-> IF changed THEN c ELSE row.token,
                        status  |-> IF changed THEN Written(h, "pending") ELSE row.status]
  <1>1. \E r \in BOOLEAN : row' = Row(r)
    BY DEF SaveUpdate
  <1>2. row' = Row(TRUE) \/ row' = Row(FALSE)
    <2>1. PICK r \in BOOLEAN : row' = Row(r)
      BY <1>1
    <2>2. r = TRUE \/ r = FALSE
      BY Zenon
    <2> QED BY <2>1, <2>2, Zenon
  <1>3. CASE row' = Row(TRUE)
    BY <1>3
  <1>4. CASE row' = Row(FALSE)
    BY <1>4
  <1> QED BY <1>2, <1>3, <1>4

LEMMA TypeInit == ASSUME Init PROVE TInv
  BY PlansAssumption
     DEF Init, TInv, TypeOK, Pressed, NoRow, Rows, Statuses, Decisions, Steps, DecideSteps,
         SyncSteps, Presses, LogTypes

LEMMA TypeStep == ASSUME TInv, [Next]_vars PROVE TInv'
  <1> USE PlansAssumption
          DEF TInv, TypeOK, Pressed, Rows, NoRow, Statuses, Decisions, Steps, DecideSteps,
              SyncSteps, Presses, LogTypes, world, callbacks, request, Goto, ReadThen, Finish
  <1>1. CASE EditNotion
    BY <1>1 DEF EditNotion
  <1>2. ASSUME NEW c \in Plans, NEW d \in Decisions, Press(c, d)
        PROVE  TInv'
    BY <1>2 DEF Press
  <1>3. ASSUME NEW h \in Handlers, StartSync(h)
        PROVE  TInv'
    BY <1>3 DEF StartSync
  <1>4. ASSUME NEW h \in Handlers, SaveRead(h) \/ EmptyRead(h) \/ StatusRead(h)
        PROVE  TInv'
    <2>1. CASE SaveRead(h)
      BY <2>1 DEF SaveRead
    <2>2. CASE EmptyRead(h)
      BY <2>2 DEF EmptyRead
    <2>3. CASE StatusRead(h)
      BY <2>3 DEF StatusRead
    <2> QED BY <1>4, <2>1, <2>2, <2>3
  <1>5. ASSUME NEW h \in Handlers, SaveInsert(h) \/ SaveConflict(h)
        PROVE  TInv'
    <2>1. CASE SaveInsert(h)
      <3>1. row' \in Rows
        BY <2>1 DEF SaveInsert
      <3>2. pc' = [pc EXCEPT ![h] = "logCreated"] /\ basis' \in Pages
        BY <2>1 DEF SaveInsert
      <3> QED BY <2>1, <3>1, <3>2 DEF SaveInsert
    <2>2. CASE SaveConflict(h)
      BY <2>2 DEF SaveConflict
    <2> QED BY <1>5, <2>1, <2>2
  <1>6. ASSUME NEW h \in Handlers, SaveUpdate(h)
        PROVE  TInv'
    <2>1. /\ row'.content \in Plans
          /\ row'.token \in Plans
          /\ row'.status \in Statuses
          /\ row' = [content |-> row'.content, token |-> row'.token, status |-> row'.status]
      BY <1>6, UpdatedRow DEF Written
    <2>2. row' \in Rows
      BY <2>1
    <2>3. CASE Goto(h, "logCreated") /\ UNCHANGED <<target, decision, fetched, view>>
      BY <1>6, <2>2, <2>3 DEF SaveUpdate
    <2>4. CASE Finish(h)
      BY <1>6, <2>2, <2>4 DEF SaveUpdate
    <2> QED BY <1>6, <2>3, <2>4 DEF SaveUpdate
  <1>7. ASSUME NEW h \in Handlers, LogCreated(h) \/ LogDecision(h)
        PROVE  TInv'
    BY <1>7 DEF LogCreated, LogDecision
  <1>8. ASSUME NEW h \in Handlers, EmptyWrite(h) \/ StatusWrite(h)
        PROVE  TInv'
    <2>1. row' \in Rows
      BY <1>8 DEF EmptyWrite, StatusWrite, Written
    <2> QED BY <1>8, <2>1 DEF EmptyWrite, StatusWrite
  <1>9. ASSUME NEW h \in Handlers, Ask(h)
        PROVE  TInv'
    BY <1>9 DEF Ask
  <1>10. ASSUME NEW h \in Handlers, NEW c \in Plans, NEW d \in Decisions, StartDecision(h, c, d)
         PROVE  TInv'
    <2>1. <<c, d>> \in pressed /\ <<c, d>> \in Presses /\ <<c, d>> \in unanswered
      BY <1>10 DEF StartDecision
    <2>2. PICK step \in {"lookup", "answer"} : pc' = [pc EXCEPT ![h] = step]
      BY <1>10 DEF StartDecision
    <2>3. TypeOK'
      BY <1>10, <2>1, <2>2 DEF StartDecision
    <2>4. ASSUME NEW g \in Handlers, pc'[g] \in DecideSteps
          PROVE  <<target'[g], decision'[g]>> \in pressed'
      BY <1>10, <2>1, <2>2, <2>4 DEF StartDecision
    <2>5. unanswered' \subseteq pressed'
      BY <1>10 DEF StartDecision
    <2> QED BY <2>3, <2>4, <2>5
  <1>11. ASSUME NEW h \in Handlers, Lookup(h)
         PROVE  TInv'
    BY <1>11 DEF Lookup, LookupThen
  <1>12. ASSUME NEW h \in Handlers, QueueReply(h)
         PROVE  TInv'
    BY <1>12 DEF QueueReply
  <1>13. ASSUME NEW h \in Handlers, AnswerCallback(h)
         PROVE  TInv'
    BY <1>13 DEF AnswerCallback
  <1>14. ASSUME NEW h \in Handlers, Abort(h)
         PROVE  TInv'
    BY <1>14 DEF Abort
  <1>15. CASE UNCHANGED vars
    BY <1>15 DEF vars
  <1> HIDE DEF TInv, Goto, ReadThen, Finish
  <1> QED BY <1>1, <1>2, <1>3, <1>4, <1>5, <1>6, <1>7, <1>8, <1>9, <1>10, <1>11, <1>12,
             <1>13, <1>14, <1>15 DEF Next, Sync, Decide

(* Every variable keeps its type, however many requests overlap. *)
THEOREM TypeCorrect == Spec => []TypeOK
  <1>1. Spec => []TInv
    BY TypeInit, TypeStep, PTL DEF Spec
  <1>2. TInv => TypeOK
    BY DEF TInv
  <1> QED BY <1>1, <1>2, PTL

-----------------------------------------------------------------------------
(* Any number of requests, overlapping and dying. *)

(* What a request has logged before its later steps; the log only grows. *)
Behind ==
    \A h \in Handlers :
      /\ pc[h] \in {"emptyRead", "emptyWrite", "ask"} => <<"created", target[h]>> \in log
      /\ pc[h] \in {"statusRead", "statusWrite", "reply"} => <<decision[h], target[h]>> \in log

CInv == TInv /\ Behind /\ CausesFirst

LEMMA CausesInit == ASSUME Init PROVE Behind /\ CausesFirst
  BY DEF Init, Behind, CausesFirst, NoRow, Decisions

LEMMA StatusWritten ==
    ASSUME row \in Rows, NEW status, row' = [row EXCEPT !.status = status]
    PROVE  row'.status = status
  BY DEF Rows

LEMMA CausesStep ==
    ASSUME CInv, [Next]_vars
    PROVE  Behind' /\ CausesFirst'
  <1> USE DEF CInv, TInv, TypeOK, Behind, CausesFirst, Rows, Decisions, world, request, Goto
  <1>1. CASE UNCHANGED <<row, notice, pressed, log, replies, pc, target, decision>>
    BY <1>1
  <1>2. CASE EditNotion \/ UNCHANGED vars
    BY <1>1, <1>2 DEF EditNotion, vars
  <1>3. ASSUME NEW c \in Plans, NEW d \in Decisions, Press(c, d)
        PROVE  Behind' /\ CausesFirst'
    <2>1. /\ UNCHANGED <<row, notice, log, replies, pc, target, decision>>
          /\ notice[c] # "unsent"
          /\ pressed' = pressed \cup {<<c, d>>}
      BY <1>3 DEF Press
    <2>2. \A p \in pressed' : notice'[p[1]] # "unsent"
      BY <2>1
    <2> QED BY <2>1, <2>2
  <1>4. ASSUME NEW h \in Handlers,
               \/ StartSync(h) \/ SaveRead(h) \/ Lookup(h)
               \/ \E c \in Plans, d \in Decisions : StartDecision(h, c, d)
        PROVE  Behind' /\ CausesFirst'
    <2>1. UNCHANGED <<row, notice, pressed, log, replies>>
      BY <1>4 DEF StartSync, SaveRead, Lookup, LookupThen, StartDecision
    <2>2. /\ pc'[h] \in {"saveRead", "saveWrite", "lookup", "logDecision", "answer"}
          /\ \A g \in Handlers \ {h} :
                pc'[g] = pc[g] /\ target'[g] = target[g] /\ decision'[g] = decision[g]
      BY <1>4 DEF StartSync, SaveRead, Lookup, LookupThen, StartDecision, ReadThen
    <2> QED BY <2>1, <2>2
  <1>5. ASSUME NEW h \in Handlers, SaveConflict(h) \/ Abort(h)
        PROVE  Behind' /\ CausesFirst'
    BY <1>5 DEF SaveConflict, Abort, Finish
  <1>6. ASSUME NEW h \in Handlers, SaveInsert(h)
        PROVE  Behind' /\ CausesFirst'
    <2>1. /\ row'.status = "pending"
          /\ UNCHANGED <<notice, pressed, log, replies, target, decision>>
          /\ pc'[h] = "logCreated"
          /\ \A g \in Handlers \ {h} : pc'[g] = pc[g]
      BY <1>6 DEF SaveInsert
    <2> QED BY <2>1
  <1>7. ASSUME NEW h \in Handlers, SaveUpdate(h)
        PROVE  Behind' /\ CausesFirst'
    <2>1. row'.status \in {"pending", row.status}
      BY <1>7, UpdatedRow DEF Written
    <2>2. /\ UNCHANGED <<notice, pressed, log, replies>>
          /\ pc'[h] \in {"logCreated", "idle"}
          /\ \A g \in Handlers \ {h} :
                pc'[g] = pc[g] /\ target'[g] = target[g] /\ decision'[g] = decision[g]
      BY <1>7 DEF SaveUpdate, Finish
    <2> QED BY <2>1, <2>2
  <1>8. ASSUME NEW h \in Handlers, LogCreated(h)
        PROVE  Behind' /\ CausesFirst'
    BY <1>8 DEF LogCreated
  <1>9. ASSUME NEW h \in Handlers, EmptyRead(h) \/ StatusRead(h)
        PROVE  Behind' /\ CausesFirst'
    BY <1>9 DEF EmptyRead, StatusRead, ReadThen
  <1>10. ASSUME NEW h \in Handlers, EmptyWrite(h) \/ StatusWrite(h)
         PROVE  Behind' /\ CausesFirst'
    <2>1. \/ row'.status = "empty" \/ row'.status = row.status
          \/ row'.status = decision[h] /\ StatusWrite(h)
      <3>1. CASE EmptyWrite(h)
        <4>1. row'.status = Written(h, "empty")
          BY <3>1, StatusWritten DEF EmptyWrite
        <4>2. Written(h, "empty") = "empty" \/ Written(h, "empty") = row.status
          BY DEF Written
        <4> QED BY <4>1, <4>2, Zenon
      <3>2. CASE StatusWrite(h)
        <4>1. row'.status = Written(h, decision[h])
          BY <3>2, StatusWritten DEF StatusWrite
        <4>2. Written(h, decision[h]) = decision[h] \/ Written(h, decision[h]) = row.status
          BY DEF Written
        <4> QED BY <3>2, <4>1, <4>2, Zenon
      <3> QED BY <1>10, <3>1, <3>2
    <2>2. StatusWrite(h) => <<decision[h], target[h]>> \in log /\ target[h] \in Plans
      BY DEF StatusWrite
    <2>3. row'.status \in Decisions => \E c \in Plans : <<row'.status, c>> \in log
      BY <2>1, <2>2
    <2>4. /\ UNCHANGED <<notice, pressed, log, replies, target, decision>>
          /\ pc'[h] \in {"ask", "reply"}
          /\ pc'[h] = "ask" => pc[h] = "emptyWrite"
          /\ pc'[h] = "reply" => pc[h] = "statusWrite"
          /\ \A g \in Handlers \ {h} : pc'[g] = pc[g]
      BY <1>10 DEF EmptyWrite, StatusWrite
    <2> QED BY <2>3, <2>4
  <1>11. ASSUME NEW h \in Handlers, Ask(h)
         PROVE  Behind' /\ CausesFirst'
    <2>1. <<"created", target[h]>> \in log /\ target[h] \in Plans
      BY <1>11 DEF Ask
    <2>2. /\ UNCHANGED <<row, pressed, log, replies>>
          /\ pc'[h] = "idle"
          /\ \A g \in Handlers \ {h} :
                pc'[g] = pc[g] /\ target'[g] = target[g] /\ decision'[g] = decision[g]
      BY <1>11 DEF Ask, Finish
    <2>3. \A c \in Plans :
            /\ notice'[c] # "unsent" => notice[c] # "unsent" \/ c = target[h]
            /\ notice[c] # "unsent" => notice'[c] # "unsent"
      BY <1>11 DEF Ask
    <2>4. Behind'
      BY <2>2
    <2>5. ASSUME NEW c \in Plans, notice'[c] # "unsent"
          PROVE  <<"created", c>> \in log'
      <3>1. notice[c] # "unsent" => <<"created", c>> \in log
        OBVIOUS
      <3>2. notice[c] # "unsent" \/ c = target[h]
        BY <2>3, <2>5, Zenon
      <3> QED BY <2>1, <2>2, <3>1, <3>2
    <2>6. ASSUME NEW p \in pressed'
          PROVE  notice'[p[1]] # "unsent"
      <3>1. p \in pressed /\ p[1] \in Plans
        BY <2>2 DEF Presses
      <3>2. notice[p[1]] # "unsent"
        BY <3>1
      <3> QED BY <2>3, <3>1, <3>2
    <2> QED BY <2>2, <2>4, <2>5, <2>6
  <1>12. ASSUME NEW h \in Handlers, LogDecision(h)
         PROVE  Behind' /\ CausesFirst'
    <2>1. <<target[h], decision[h]>> \in pressed
      BY <1>12 DEF LogDecision, Pressed, DecideSteps
    <2>2. /\ UNCHANGED <<row, notice, pressed, replies, target, decision>>
          /\ log' = log \cup {<<decision[h], target[h]>>}
          /\ pc'[h] \in {"statusRead", "reply"}
          /\ \A g \in Handlers \ {h} : pc'[g] = pc[g]
      BY <1>12 DEF LogDecision
    <2>3. \A c \in Plans, d \in Decisions : <<d, c>> \in log' => <<c, d>> \in pressed'
      BY <2>1, <2>2
    <2>4. Behind'
      BY <2>2
    <2> QED BY <2>2, <2>3, <2>4
  <1>13. ASSUME NEW h \in Handlers, QueueReply(h)
         PROVE  Behind' /\ CausesFirst'
    <2>1. /\ UNCHANGED <<row, notice, pressed, log, target, decision>>
          /\ <<decision[h], target[h]>> \in log
          /\ replies' = replies \cup {<<target[h], decision[h]>>}
          /\ pc'[h] = "answer"
          /\ \A g \in Handlers \ {h} : pc'[g] = pc[g]
      BY <1>13 DEF QueueReply
    <2>2. ASSUME NEW r \in replies'
          PROVE  <<r[2], r[1]>> \in log'
      <3>1. CASE r \in replies
        BY <2>1, <3>1
      <3>2. CASE r = <<target[h], decision[h]>>
        <4>1. r[2] = decision[h] /\ r[1] = target[h]
          BY <3>2
        <4> QED BY <2>1, <4>1
      <3> QED BY <2>1, <2>2, <3>1, <3>2
    <2> QED BY <2>1, <2>2
  <1>14. ASSUME NEW h \in Handlers, AnswerCallback(h)
         PROVE  Behind' /\ CausesFirst'
    <2>1. notice[target[h]] # "unsent"
      <3>1. <<target[h], decision[h]>> \in pressed
        BY <1>14 DEF AnswerCallback, Pressed, DecideSteps
      <3> QED BY <3>1
    <2>2. \A c \in Plans : notice'[c] = "unsent" <=> notice[c] = "unsent"
      BY <1>14, <2>1 DEF AnswerCallback
    <2>3. /\ UNCHANGED <<row, pressed, log, replies>>
          /\ pc'[h] = "idle"
          /\ \A g \in Handlers \ {h} :
                pc'[g] = pc[g] /\ target'[g] = target[g] /\ decision'[g] = decision[g]
      BY <1>14 DEF AnswerCallback, Finish
    <2> QED BY <2>2, <2>3 DEF Presses
  <1> HIDE DEF Behind, CausesFirst, CInv
  <1> QED BY <1>2, <1>3, <1>4, <1>5, <1>6, <1>7, <1>8, <1>9, <1>10, <1>11, <1>12, <1>13, <1>14
          DEF Next, Sync, Decide

LEMMA CausesAlways == Spec => []CInv
  <1>1. Init => CInv
    BY TypeInit, CausesInit DEF CInv
  <1>2. CInv /\ [Next]_vars => CInv'
    BY TypeStep, CausesStep DEF CInv
  <1> QED BY <1>1, <1>2, PTL DEF Spec

(* Plan, announcement, press, decision and confirmation come in this order for
   every plan, however many requests overlap and whichever of them die. *)
THEOREM CausesComeFirst == Spec => []CausesFirst
  <1>1. CInv => CausesFirst
    BY DEF CInv
  <1> QED BY <1>1, CausesAlways, PTL

-----------------------------------------------------------------------------
(* Requests that overlap and never die. *)

(* A plan that waits for approval and was not announced is being announced. *)
BeingAsked ==
    row.status = "pending" /\ notice[row.token] = "unsent" =>
        \E h \in Handlers : /\ pc[h] \in {"logCreated", "emptyRead", "emptyWrite", "ask"}
                            /\ target[h] = row.token

LEMMA BeingAskedStep ==
    ASSUME MaxAborts = 0, TInv, BeingAsked, [Next]_vars
    PROVE  BeingAsked'
  <1> DEFINE Asking(h) == /\ pc[h] \in {"logCreated", "emptyRead", "emptyWrite", "ask"}
                          /\ target[h] = row.token
  <1> USE DEF TInv, TypeOK, request
  <1> SUFFICES ASSUME row'.status = "pending", notice'[row'.token] = "unsent"
               PROVE  \E h \in Handlers : Asking(h)'
    BY DEF BeingAsked
  <1>1. CASE EditNotion \/ UNCHANGED vars
    BY <1>1 DEF EditNotion, vars, BeingAsked
  <1>2. ASSUME NEW c \in Plans, NEW d \in Decisions, Press(c, d)
        PROVE  \E h \in Handlers : Asking(h)'
    BY <1>2 DEF Press, BeingAsked
  <1>3. ASSUME NEW h \in Handlers,
               \/ StartSync(h) \/ SaveRead(h) \/ LogCreated(h) \/ EmptyRead(h)
               \/ LogDecision(h) \/ StatusRead(h) \/ QueueReply(h) \/ Lookup(h)
               \/ \E c \in Plans, d \in Decisions : StartDecision(h, c, d)
        PROVE  \E g \in Handlers : Asking(g)'
    <2>1. UNCHANGED <<row, notice>>
      BY <1>3 DEF StartSync, SaveRead, LogCreated, EmptyRead, LogDecision, StatusRead,
                  QueueReply, Lookup, LookupThen, StartDecision
    <2>2. PICK g \in Handlers : Asking(g)
      BY <2>1 DEF BeingAsked
    <2>3. Asking(g)'
      BY <1>3, <2>1, <2>2
         DEF StartSync, SaveRead, LogCreated, EmptyRead, LogDecision, StatusRead, QueueReply,
             Lookup, LookupThen, StartDecision, Goto, ReadThen
    <2> QED BY <2>3
  <1>4. ASSUME NEW h \in Handlers, SaveInsert(h)
        PROVE  \E g \in Handlers : Asking(g)'
    <2>1. Asking(h)'
      BY <1>4 DEF SaveInsert, Goto
    <2> QED BY <2>1
  <1>5. ASSUME NEW h \in Handlers, SaveUpdate(h)
        PROVE  \E g \in Handlers : Asking(g)'
    <2>1. CASE view[h].token # target[h]
      <3>1. row'.token = target[h]
        BY <1>5, <2>1, UpdatedRow
      <3>2. pc'[h] = "logCreated" /\ target'[h] = target[h]
        BY <1>5, <2>1 DEF SaveUpdate, Goto
      <3> QED BY <3>1, <3>2
    <2>2. CASE view[h].token = target[h]
      <3>1. row'.token = row.token /\ row'.status = row.status /\ notice' = notice
        BY <1>5, <2>2, UpdatedRow DEF SaveUpdate
      <3>2. PICK g \in Handlers : Asking(g)
        BY <3>1 DEF BeingAsked
      <3>3. g # h
        BY <1>5, <3>2 DEF SaveUpdate
      <3>4. Asking(g)'
        BY <1>5, <2>2, <3>1, <3>2, <3>3 DEF SaveUpdate, Finish, Goto
      <3> QED BY <3>4
    <2> QED BY <2>1, <2>2
  <1>6. ASSUME NEW h \in Handlers, EmptyWrite(h) \/ StatusWrite(h)
        PROVE  \E g \in Handlers : Asking(g)'
    <2>1. row'.token = row.token /\ row.status = "pending" /\ notice' = notice
      BY <1>6 DEF EmptyWrite, StatusWrite, Written, Rows, Decisions
    <2>2. PICK g \in Handlers : Asking(g)
      BY <2>1 DEF BeingAsked
    <2>3. Asking(g)'
      BY <1>6, <2>1, <2>2 DEF EmptyWrite, StatusWrite, Goto
    <2> QED BY <2>3
  <1>7. ASSUME NEW h \in Handlers, SaveConflict(h) \/ Ask(h) \/ AnswerCallback(h)
        PROVE  \E g \in Handlers : Asking(g)'
    <2>1. row' = row /\ notice[row.token] = "unsent"
      BY <1>7 DEF SaveConflict, Ask, AnswerCallback, Rows
    <2>2. PICK g \in Handlers : Asking(g)
      BY <2>1 DEF BeingAsked
    <2>3. g # h
      BY <1>7, <2>1, <2>2 DEF SaveConflict, Ask, AnswerCallback
    <2>4. Asking(g)'
      BY <1>7, <2>1, <2>2, <2>3 DEF SaveConflict, Ask, AnswerCallback, Finish, Goto
    <2> QED BY <2>4
  <1>8. ASSUME NEW h \in Handlers
        PROVE  ~ Abort(h)
    BY DEF Abort
  <1> QED BY <1>1, <1>2, <1>3, <1>4, <1>5, <1>6, <1>7, <1>8 DEF Next, Sync, Decide

(* As long as no request dies, a plan that waits for approval was announced once
   no sync is under way, however requests overlap. *)
THEOREM AskedWithoutAborts == ASSUME MaxAborts = 0 PROVE Spec => []PendingWasAsked
  <1>1. Init => BeingAsked
    BY DEF Init, BeingAsked, NoRow
  <1>2. TInv /\ BeingAsked /\ [Next]_vars => TInv' /\ BeingAsked'
    BY TypeStep, BeingAskedStep
  <1>3. BeingAsked => PendingWasAsked
    BY DEF BeingAsked, PendingWasAsked, Syncing, SyncSteps
  <1> QED BY <1>1, <1>2, <1>3, TypeInit, PTL DEF Spec

-----------------------------------------------------------------------------
(* One request at a time. *)

OneHandler == \A g, h \in Handlers : g = h

(* What a sync has established at its steps: the row is as it was read, then it
   is the plan that was saved. *)
SyncKnows ==
    \A h \in Handlers :
      /\ pc[h] \in {"saveWrite", "emptyWrite"} => view[h] = row
      /\ pc[h] \in {"logCreated", "emptyRead", "emptyWrite"} =>
            row.token = target[h] /\ row.status = "pending"
      /\ pc[h] \in {"emptyRead", "emptyWrite"} => target[h] = Empty
      /\ pc[h] = "ask" => row.token = target[h] /\ row.status # "absent"

(* What a decision request has established at its steps. *)
DecideKnows ==
    \A h \in Handlers :
      /\ pc[h] \in {"logDecision", "statusWrite"} => view[h] = row
      /\ pc[h] = "logDecision" => row.token = target[h] /\ row.status \in {"pending", decision[h]}
      /\ pc[h] \in {"statusRead", "statusWrite"} =>
            row.token = target[h] /\ row.status = "pending"

(* The row as it stands between the steps. *)
RowKnows ==
    /\ row.content = row.token
    /\ row.status = "absent" => row = NoRow
    /\ row.status \in Decisions => <<row.token, row.status>> \in pressed

SInv == SyncKnows /\ DecideKnows /\ RowKnows /\ LoggedFirst

Inv == CInv /\ SInv

(* The upsert of a sync that read the row as it is now. *)
LEMMA UpdatedAlone ==
    ASSUME NEW h \in Handlers, SaveUpdate(h), TInv, RowKnows, view[h] = row
    PROVE  /\ target[h] # row.token =>
                 row' = [content |-> target[h], token |-> target[h], status |-> "pending"]
           /\ target[h] = row.token => row' = row
  <1>1. /\ row \in Rows
        /\ row.content = row.token
    BY DEF TInv, TypeOK, RowKnows
  <1>2. row'.content = target[h]
    BY <1>1, UpdatedRow
  <1>3. CASE target[h] # row.token
    <2>1. row'.token = target[h] /\ row'.status = "pending"
      BY <1>3, UpdatedRow DEF Written
    <2> QED BY <1>2, <1>3, <2>1, UpdatedRow
  <1>4. CASE target[h] = row.token
    <2>1. row'.token = row.token /\ row'.status = row.status /\ row'.content = row.content
      BY <1>1, <1>2, <1>4, UpdatedRow
    <2>2. row = [content |-> row.content, token |-> row.token, status |-> row.status]
      BY <1>1 DEF Rows
    <2> QED BY <1>4, <2>1, <2>2, UpdatedRow
  <1> QED BY <1>3, <1>4

LEMMA AloneInit == ASSUME Init PROVE SInv
  BY DEF Init, SInv, SyncKnows, DecideKnows, RowKnows, LoggedFirst, NoRow, Decisions

(* With one request at a time every step keeps what the requests know. *)
LEMMA AloneStep ==
    ASSUME OneHandler, Inv, [Next]_vars
    PROVE  SInv'
  <1> USE PlansAssumption
          DEF Inv, CInv, TInv, TypeOK, Pressed, Behind, CausesFirst, SInv, SyncKnows,
              DecideKnows, RowKnows, LoggedFirst,
              Rows, NoRow, Statuses, Decisions, Steps, DecideSteps, SyncSteps, Presses,
              LogTypes, world, callbacks, request, Goto, ReadThen, Finish, Written
  <1>1. CASE EditNotion
    BY <1>1 DEF EditNotion
  <1>2. ASSUME NEW c \in Plans, NEW d \in Decisions, Press(c, d)
        PROVE  SInv'
    BY <1>2 DEF Press
  <1>3. ASSUME NEW h \in Handlers, StartSync(h)
      PROVE  SInv'
    <2>1. \A g \in Handlers : g = h
      BY DEF OneHandler
    <2> QED BY <1>3, <2>1 DEF StartSync
  <1>4. ASSUME NEW h \in Handlers, SaveRead(h)
      PROVE  SInv'
    <2>1. \A g \in Handlers : g = h
      BY DEF OneHandler
    <2> QED BY <1>4, <2>1 DEF SaveRead
  <1>5. ASSUME NEW h \in Handlers, SaveInsert(h)
      PROVE  SInv'
    <2>1. \A g \in Handlers : g = h
      BY DEF OneHandler
    <2> QED BY <1>5, <2>1 DEF SaveInsert
  <1>6. ASSUME NEW h \in Handlers, SaveConflict(h)
      PROVE  SInv'
    <2>1. \A g \in Handlers : g = h
      BY DEF OneHandler
    <2> QED BY <1>6, <2>1 DEF SaveConflict
  <1>7. ASSUME NEW h \in Handlers, SaveUpdate(h)
      PROVE  SInv'
    <2>1. \A g \in Handlers : g = h
      BY DEF OneHandler
    <2>2. /\ view[h] = row
          /\ target[h] # row.token =>
                row' = [content |-> target[h], token |-> target[h], status |-> "pending"]
          /\ target[h] = row.token => row' = row
      BY <1>7, UpdatedAlone DEF SaveUpdate
    <2>3. CASE target[h] # row.token
      <3>1. pc' = [pc EXCEPT ![h] = "logCreated"] /\ UNCHANGED <<target, decision, view>>
        BY <1>7, <2>2, <2>3 DEF SaveUpdate
      <3>2. UNCHANGED <<notice, log, replies, pressed>>
        BY <1>7 DEF SaveUpdate
      <3> QED BY <2>1, <2>2, <2>3, <3>1, <3>2
    <2>4. CASE target[h] = row.token
      <3>1. pc' = [pc EXCEPT ![h] = "idle"] /\ row' = row
        BY <1>7, <2>2, <2>4 DEF SaveUpdate
      <3>2. UNCHANGED <<notice, log, replies, pressed>>
        BY <1>7 DEF SaveUpdate
      <3> QED BY <2>1, <3>1, <3>2
    <2> QED BY <2>3, <2>4
  <1>8. ASSUME NEW h \in Handlers, LogCreated(h)
      PROVE  SInv'
    <2>1. \A g \in Handlers : g = h
      BY DEF OneHandler
    <2> QED BY <1>8, <2>1 DEF LogCreated
  <1>9. ASSUME NEW h \in Handlers, EmptyRead(h)
      PROVE  SInv'
    <2>1. \A g \in Handlers : g = h
      BY DEF OneHandler
    <2> QED BY <1>9, <2>1 DEF EmptyRead
  <1>10. ASSUME NEW h \in Handlers, EmptyWrite(h)
       PROVE  SInv'
    <2>1. \A g \in Handlers : g = h
      BY DEF OneHandler
    <2> QED BY <1>10, <2>1 DEF EmptyWrite
  <1>11. ASSUME NEW h \in Handlers, Ask(h)
       PROVE  SInv'
    <2>1. \A g \in Handlers : g = h
      BY DEF OneHandler
    <2> QED BY <1>11, <2>1 DEF Ask
  <1>12. ASSUME NEW h \in Handlers, NEW c \in Plans, NEW d \in Decisions,
               StartDecision(h, c, d)
       PROVE  SInv'
    <2>1. \A g \in Handlers : g = h
      BY DEF OneHandler
    <2> QED BY <1>12, <2>1 DEF StartDecision
  <1>13. ASSUME NEW h \in Handlers, Lookup(h)
       PROVE  SInv'
    <2>1. \A g \in Handlers : g = h
      BY DEF OneHandler
    <2> QED BY <1>13, <2>1 DEF Lookup, LookupThen
  <1>14. ASSUME NEW h \in Handlers, LogDecision(h)
       PROVE  SInv'
    <2>1. \A g \in Handlers : g = h
      BY DEF OneHandler
    <2> QED BY <1>14, <2>1 DEF LogDecision
  <1>15. ASSUME NEW h \in Handlers, StatusRead(h)
       PROVE  SInv'
    <2>1. \A g \in Handlers : g = h
      BY DEF OneHandler
    <2> QED BY <1>15, <2>1 DEF StatusRead
  <1>16. ASSUME NEW h \in Handlers, StatusWrite(h)
       PROVE  SInv'
    <2>1. \A g \in Handlers : g = h
      BY DEF OneHandler
    <2>2. /\ row' = [row EXCEPT !.status = decision[h]]
          /\ <<row.token, decision[h]>> \in pressed
          /\ <<decision[h], row.token>> \in log
      BY <1>16 DEF StatusWrite
    <2>3. /\ row'.content = row.content /\ row'.token = row.token
          /\ row'.status = decision[h] /\ decision[h] \in {"approved", "rejected"}
      BY <2>2
    <2>4. /\ pc' = [pc EXCEPT ![h] = "reply"]
          /\ UNCHANGED <<log, replies, pressed, notice, target, decision>>
      BY <1>16 DEF StatusWrite
    <2>5. pc'[h] = "reply" /\ <<decision'[h], target'[h]>> \in log'
      BY <1>16, <2>4 DEF StatusWrite
    <2>6. SyncKnows' /\ DecideKnows'
      BY <2>1, <2>5
    <2>7. LoggedFirst' /\ RowKnows'
      BY <2>2, <2>3, <2>4
    <2> QED BY <2>6, <2>7
  <1>17. ASSUME NEW h \in Handlers, QueueReply(h)
       PROVE  SInv'
    <2>1. \A g \in Handlers : g = h
      BY DEF OneHandler
    <2> QED BY <1>17, <2>1 DEF QueueReply
  <1>18. ASSUME NEW h \in Handlers, AnswerCallback(h)
       PROVE  SInv'
    <2>1. \A g \in Handlers : g = h
      BY DEF OneHandler
    <2>2. notice[target[h]] # "unsent"
      <3>1. <<target[h], decision[h]>> \in pressed
        BY <1>18 DEF AnswerCallback
      <3> QED BY <3>1
    <2>3. \A c \in Plans : notice'[c] = "unsent" <=> notice[c] = "unsent"
      BY <1>18, <2>2 DEF AnswerCallback
    <2>4. pc' = [pc EXCEPT ![h] = "idle"] /\ UNCHANGED <<row, log, replies, pressed>>
      BY <1>18 DEF AnswerCallback
    <2>5. SyncKnows' /\ DecideKnows'
      BY <2>1, <2>4
    <2>6. LoggedFirst' /\ RowKnows'
      BY <2>3, <2>4
    <2> QED BY <2>5, <2>6
  <1>19. ASSUME NEW h \in Handlers, Abort(h)
       PROVE  SInv'
    <2>1. \A g \in Handlers : g = h
      BY DEF OneHandler
    <2> QED BY <1>19, <2>1 DEF Abort
  <1>20. CASE UNCHANGED vars
    BY <1>20 DEF vars
  <1> HIDE DEF Inv, SInv, Goto, ReadThen, Finish, Written
  <1> QED BY <1>1, <1>2, <1>3, <1>4, <1>5, <1>6, <1>7, <1>8, <1>9, <1>10,
            <1>11, <1>12, <1>13, <1>14, <1>15, <1>16, <1>17, <1>18, <1>19, <1>20
         DEF Next, Sync, Decide

LEMMA AloneCorrect == ASSUME OneHandler PROVE Spec => []Inv
  <1>1. Init => Inv
    BY TypeInit, CausesInit, AloneInit DEF Inv, CInv
  <1>2. Inv /\ [Next]_vars => Inv'
    BY TypeStep, CausesStep, AloneStep, OneHandler DEF Inv, CInv
  <1> QED BY <1>1, <1>2, PTL DEF Spec

(* When requests do not overlap, a plan counts as approved only if the user
   pressed "approve" on its very content. *)
THEOREM ApprovedByUser == ASSUME OneHandler PROVE Spec => []HumanApproved
  <1>1. Inv => HumanApproved
    BY DEF Inv, SInv, RowKnows, HumanApproved, Decisions
  <1> QED BY <1>1, AloneCorrect, PTL

(* When requests do not overlap, the event log leads the row: the row is never in a
   state that the log does not tell. *)
THEOREM LogLeads == ASSUME OneHandler PROVE Spec => []LoggedFirst
  <1>1. Inv => LoggedFirst
    BY DEF Inv, SInv
  <1> QED BY <1>1, AloneCorrect, PTL

-----------------------------------------------------------------------------
(* The refinement, step by step. *)

LEMMA RefineInit == ASSUME Init PROVE Register!Init
  BY DEF Init, Register!Init, NoRow, Shown

LEMMA RefineSave ==
    ASSUME NEW h \in Handlers, SaveInsert(h) \/ SaveUpdate(h), Inv
    PROVE  [Register!Next]_(Register!vars)
  <1>1. Shown' = Shown /\ pressed' = pressed
    BY DEF SaveInsert, SaveUpdate, world, Shown
  <1>2. target[h] \in Plans /\ view[h] = row
    BY DEF Inv, CInv, TInv, TypeOK, SInv, SyncKnows, SaveInsert, SaveUpdate
  <1>3. CASE SaveInsert(h)
    <2>1. Register!Adopt(target[h])
      BY <1>1, <1>3 DEF SaveInsert, Register!Adopt
    <2> QED BY <1>2, <2>1 DEF Register!Next
  <1>4. CASE SaveUpdate(h) /\ target[h] # row.token
    <2>1. row' = [content |-> target[h], token |-> target[h], status |-> "pending"]
      BY <1>2, <1>4, UpdatedAlone DEF Inv, CInv, SInv
    <2>2. Register!Adopt(target[h])
      BY <1>1, <1>4, <2>1 DEF Register!Adopt
    <2> QED BY <1>2, <2>2 DEF Register!Next
  <1>5. CASE SaveUpdate(h) /\ target[h] = row.token
    <2>1. row' = row
      BY <1>2, <1>5, UpdatedAlone DEF Inv, CInv, SInv
    <2> QED BY <1>1, <2>1 DEF Register!vars
  <1> QED BY <1>3, <1>4, <1>5

LEMMA RefineClose ==
    ASSUME NEW h \in Handlers, EmptyWrite(h), Inv
    PROVE  [Register!Next]_(Register!vars)
  <1>1. view[h] = row /\ row.token = Empty /\ row.status = "pending" /\ row \in Rows
    BY DEF Inv, CInv, TInv, TypeOK, SInv, SyncKnows, EmptyWrite
  <1>2. row' = [row EXCEPT !.status = "empty"]
    BY <1>1 DEF EmptyWrite, Written
  <1>3. Shown' = Shown /\ pressed' = pressed
    BY DEF EmptyWrite, world, Shown
  <1>4. Register!Close
    BY <1>1, <1>2, <1>3 DEF Register!Close, Rows
  <1> QED BY <1>4 DEF Register!Next

LEMMA RefineAsk ==
    ASSUME NEW h \in Handlers, Ask(h), Inv
    PROVE  [Register!Next]_(Register!vars)
  <1>1. row.token = target[h] /\ row.status # "absent" /\ target[h] \in Plans
    BY DEF Inv, CInv, TInv, TypeOK, SInv, SyncKnows, Ask
  <1>2. Shown' = Shown \cup {row.token}
    BY <1>1 DEF Ask, Shown, Inv, CInv, TInv, TypeOK
  <1>3. Register!Show
    BY <1>1, <1>2 DEF Ask, Register!Show, world
  <1> QED BY <1>3 DEF Register!Next

LEMMA RefineVote ==
    ASSUME NEW c \in Plans, NEW d \in Decisions, Press(c, d)
    PROVE  [Register!Next]_(Register!vars)
  <1>1. Register!Vote(c, d)
    BY DEF Press, Register!Vote, Shown
  <1> QED BY <1>1 DEF Register!Next, Register!Verdicts, Decisions

LEMMA RefineSettle ==
    ASSUME NEW h \in Handlers, StatusWrite(h), Inv
    PROVE  [Register!Next]_(Register!vars)
  <1>1. /\ view[h] = row /\ row.token = target[h] /\ row.status = "pending" /\ row \in Rows
        /\ decision[h] \in Decisions /\ <<row.token, decision[h]>> \in pressed
    BY DEF Inv, CInv, TInv, TypeOK, Pressed, SInv, DecideKnows, StatusWrite, DecideSteps
  <1>2. row' = [row EXCEPT !.status = decision[h]]
    BY <1>1 DEF StatusWrite, Written, Decisions
  <1>3. Shown' = Shown /\ pressed' = pressed
    BY DEF StatusWrite, world, Shown
  <1>4. Register!Settle(decision[h])
    BY <1>1, <1>2, <1>3 DEF Register!Settle, Rows
  <1> QED BY <1>1, <1>4 DEF Register!Next, Register!Verdicts, Decisions

(* Clearing the keyboard of a message does not take it back. *)
LEMMA RefineAnswer ==
    ASSUME NEW h \in Handlers, AnswerCallback(h), Inv
    PROVE  [Register!Next]_(Register!vars)
  <1>1. notice[target[h]] # "unsent" /\ notice \in [Plans -> {"unsent", "sent", "cleared"}]
    <2>1. <<target[h], decision[h]>> \in pressed
      BY DEF AnswerCallback, Inv, CInv, TInv, Pressed, DecideSteps
    <2> QED BY <2>1 DEF Inv, CInv, TInv, TypeOK, SInv, RowKnows, CausesFirst
  <1>2. Shown' = Shown
    BY <1>1 DEF AnswerCallback, Shown
  <1> QED BY <1>2 DEF AnswerCallback, world, Register!vars

(* Every step is a step of Approval or leaves its variables alone. *)
LEMMA RefineStep ==
    ASSUME Inv, [Next]_vars
    PROVE  [Register!Next]_(Register!vars)
  <1>1. CASE UNCHANGED <<row, notice, pressed>>
    BY <1>1 DEF Register!vars, Shown
  <1>2. CASE UNCHANGED vars
    BY <1>1, <1>2 DEF vars
  <1>3. CASE EditNotion
    BY <1>1, <1>3 DEF EditNotion
  <1>4. ASSUME NEW c \in Plans, NEW d \in Decisions, Press(c, d)
        PROVE  [Register!Next]_(Register!vars)
    BY <1>4, RefineVote
  <1>5. ASSUME NEW h \in Handlers,
               \/ StartSync(h) \/ SaveRead(h) \/ SaveConflict(h) \/ LogCreated(h) \/ EmptyRead(h)
               \/ Lookup(h) \/ LogDecision(h) \/ StatusRead(h) \/ QueueReply(h) \/ Abort(h)
               \/ \E c \in Plans, d \in Decisions : StartDecision(h, c, d)
        PROVE  [Register!Next]_(Register!vars)
    <2>1. UNCHANGED <<row, notice, pressed>>
      BY <1>5 DEF StartSync, SaveRead, SaveConflict, LogCreated, EmptyRead, Lookup, LookupThen,
                  LogDecision, StatusRead, QueueReply, Abort, StartDecision, world
    <2> QED BY <1>1, <2>1
  <1>6. ASSUME NEW h \in Handlers,
               \/ SaveInsert(h) \/ SaveUpdate(h) \/ EmptyWrite(h) \/ Ask(h)
               \/ StatusWrite(h) \/ AnswerCallback(h)
        PROVE  [Register!Next]_(Register!vars)
    BY <1>6, RefineSave, RefineClose, RefineAsk, RefineSettle, RefineAnswer
  <1> QED BY <1>2, <1>3, <1>4, <1>5, <1>6 DEF Next, Sync, Decide

(* When requests do not overlap, the row of the day is an approval register:
   syncs, presses, redeliveries and requests that die half-way included. *)
THEOREM PlanImplementsApproval == ASSUME OneHandler PROVE Spec => ImplementsApproval
  <1>1. Spec => []Inv
    BY AloneCorrect
  <1>2. Init => Register!Init
    BY RefineInit
  <1>3. Inv /\ [Next]_vars => [Register!Next]_(Register!vars)
    BY RefineStep
  <1> QED BY <1>1, <1>2, <1>3, PTL DEF Spec, ImplementsApproval, Register!Spec

(* When requests do not overlap, a decision stands while its plan is in force. *)
THEOREM DecisionsStand == ASSUME OneHandler PROVE Spec => DecisionStands
  <1> DEFINE Stands == row.status \in Decisions /\ row'.token = row.token
                         => row'.status = row.status
  <1>1. [Register!Next]_(Register!vars) => [Stands]_vars
    BY DEF Register!Next, Register!vars, Register!Adopt, Register!Show, Register!Vote,
           Register!Settle, Register!Close, Decisions
  <1>2. Inv /\ [Next]_vars => [Stands]_vars
    BY <1>1, RefineStep
  <1> QED BY <1>2, AloneCorrect, PTL DEF Spec, DecisionStands
=============================================================================
