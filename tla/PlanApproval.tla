---------------------------- MODULE PlanApproval ----------------------------
(* The daily plan of one user and one date: scheduled syncs that rebuild it
   from Notion (workflow.py, load_commitments to queue_plan), the user's
   decisions on it (apply_plan_decision) and the row both work on (storage.py,
   PlanRepository).

   A plan's content is one value of Plans: its items without their rationale.
   The approval token is a hash of thread id and content and the thread id is
   fixed by user and date, so a token is written here as the content it stands
   for.  Notion's state is an element of Pages; PlansOf gives the plans the
   planner may build from a page, one for the rule-based planner and possibly
   several for a language model.

   A handler is one request in progress.  Repository calls are transactions of
   their own, and those that read the row and write it later take two steps. *)
EXTENDS Integers, FiniteSets

CONSTANTS Plans,      \* contents a plan can have
          Empty,      \* the content without items
          Pages,      \* states of the day's Notion pages
          PlansOf,    \* PlansOf[p]: what the planner may build from page p
          Handlers,   \* requests that can be in progress at once
          MaxEdits,   \* bound: edits in Notion
          MaxAborts   \* bound: requests that die half-way

ASSUME PlansAssumption ==
    /\ Empty \in Plans
    /\ Pages # {}
    /\ \A p \in Pages : PlansOf[p] \subseteq Plans /\ PlansOf[p] # {}
    /\ MaxEdits \in Nat
    /\ MaxAborts \in Nat

VARIABLES
    page,        \* what Notion holds now
    row,         \* the DailyPlanRecord: plan, approval_token, status
    basis,       \* the page the row was last saved from
    notice,      \* notice[c]: the message that asks for approval of c
    pressed,     \* decisions the user has pressed, ever
    unanswered,  \* pressed decisions Telegram has no 2xx for
    claimed,     \* those of them the inbox has seen already
    log,         \* domain events on plans
    replies,     \* outbox keys plan-decision:<token>:<status>
    pc,          \* pc[h]: where the request stands
    target,      \* target[h]: the plan built, or the token pressed
    decision,    \* decision[h]: the decision of a decision request
    fetched,     \* fetched[h]: the page a sync request has read
    view,        \* view[h]: the row as the request last read it
    edits,       \* edits in Notion so far
    aborts       \* requests that died so far

world   == <<page, pressed, edits>>
callbacks == <<unanswered, claimed>>
request == <<pc, target, decision, fetched, view>>
vars    == <<page, row, basis, notice, pressed, unanswered, claimed, log, replies,
             request, edits, aborts>>

-----------------------------------------------------------------------------
Decisions == {"approved", "rejected"}
Statuses  == {"absent", "pending", "empty"} \cup Decisions
Rows      == [content : Plans, token : Plans, status : Statuses]
NoRow     == [content |-> Empty, token |-> Empty, status |-> "absent"]
Presses   == (Plans \ {Empty}) \X Decisions
LogTypes  == {"created"} \cup Decisions

SyncSteps   == {"saveRead", "saveWrite", "logCreated", "emptyRead", "emptyWrite", "ask"}
DecideSteps == {"lookup", "logDecision", "statusRead", "statusWrite", "reply", "answer"}
Steps       == {"idle"} \cup SyncSteps \cup DecideSteps

Init ==
    /\ page \in Pages
    /\ row        = NoRow
    /\ basis      = page
    /\ notice     = [c \in Plans |-> "unsent"]
    /\ pressed    = {}
    /\ unanswered = {}
    /\ claimed    = {}
    /\ log        = {}
    /\ replies    = {}
    /\ pc         = [h \in Handlers |-> "idle"]
    /\ target     = [h \in Handlers |-> Empty]
    /\ decision   = [h \in Handlers |-> "approved"]
    /\ fetched    = [h \in Handlers |-> page]
    /\ view       = [h \in Handlers |-> NoRow]
    /\ edits      = 0
    /\ aborts     = 0

Goto(h, step) == pc' = [pc EXCEPT ![h] = step]

(* A SELECT of the row, kept in memory until the UPDATE. *)
ReadThen(h, step) == view' = [view EXCEPT ![h] = row] /\ Goto(h, step)

(* The status an UPDATE leaves: a status equal to the one read is not written. *)
Written(h, status) == IF view[h].status = status THEN row.status ELSE status

(* The request is over; nothing of its memory is used again. *)
Finish(h) ==
    /\ Goto(h, "idle")
    /\ view'     = [view EXCEPT ![h] = NoRow]
    /\ target'   = [target EXCEPT ![h] = Empty]
    /\ decision' = [decision EXCEPT ![h] = "approved"]
    /\ UNCHANGED fetched

-----------------------------------------------------------------------------
(* The user edits the day's tasks in Notion. *)
EditNotion ==
    /\ edits < MaxEdits
    /\ edits' = edits + 1
    /\ page' \in Pages \ {page}
    /\ UNCHANGED <<row, basis, notice, pressed, callbacks, log, replies, request, aborts>>

(* load_commitments and planner_agent: the pages are fetched and planned. *)
StartSync(h) ==
    /\ pc[h] = "idle"
    /\ fetched' = [fetched EXCEPT ![h] = page]
    /\ \E c \in PlansOf[page] : target' = [target EXCEPT ![h] = c]
    /\ Goto(h, "saveRead")
    /\ UNCHANGED <<world, row, basis, notice, callbacks, log, replies, decision, view, aborts>>

SaveRead(h) ==
    /\ pc[h] = "saveRead"
    /\ ReadThen(h, "saveWrite")
    /\ UNCHANGED <<world, row, basis, notice, callbacks, log, replies, target, decision,
                   fetched, aborts>>

(* Mutants of SaveInsert: another first status; a first plan is not a change. *)
MutSaveInsertDraft(h) ==
    /\ pc[h] = "saveWrite"
    /\ view[h].status = "absent" /\ row.status = "absent"
    /\ row'   = [content |-> target[h], token |-> target[h], status |-> "draft"]
    /\ basis' = fetched[h]
    /\ Goto(h, "logCreated")
    /\ UNCHANGED <<world, notice, callbacks, log, replies, target, decision, fetched, view,
                   aborts>>
MutSaveInsertUnchanged(h) ==
    /\ pc[h] = "saveWrite"
    /\ view[h].status = "absent" /\ row.status = "absent"
    /\ row'   = [content |-> target[h], token |-> target[h], status |-> "pending"]
    /\ basis' = fetched[h]
    /\ Finish(h)
    /\ UNCHANGED <<world, notice, callbacks, log, replies, aborts>>

(* PlanRepository.save inserts the first plan of the day. *)
SaveInsert(h) ==
    /\ pc[h] = "saveWrite"
    /\ view[h].status = "absent"
    /\ row.status = "absent"
    /\ row'   = [content |-> target[h], token |-> target[h], status |-> "pending"]
    /\ basis' = fetched[h]
    /\ Goto(h, "logCreated")
    /\ UNCHANGED <<world, notice, callbacks, log, replies, target, decision, fetched, view,
                   aborts>>

(* Another sync inserted the row meanwhile: the unique constraint raises. *)
SaveConflict(h) ==
    /\ pc[h] = "saveWrite"
    /\ view[h].status = "absent"
    /\ row.status # "absent"
    /\ Finish(h)
    /\ UNCHANGED <<world, row, basis, notice, callbacks, log, replies, aborts>>

(* Mutant of SaveUpdate: a changed plan keeps its approval. *)
MutSaveUpdateKeeps(h) ==
    LET c == target[h]
    IN  /\ pc[h] = "saveWrite"
        /\ view[h].status # "absent"
        /\ row'   = [row EXCEPT !.content = c, !.token = c]
        /\ basis' = fetched[h]
        /\ \/ view[h].token # c /\ Goto(h, "logCreated")
                                /\ UNCHANGED <<target, decision, fetched, view>>
           \/ view[h].token = c /\ Finish(h)
        /\ UNCHANGED <<world, notice, callbacks, log, replies, aborts>>

(* Mutant of SaveUpdate: a poll of an unchanged plan asks for approval again. *)
MutSaveUpdateResets(h) ==
    LET c == target[h]
    IN  /\ pc[h] = "saveWrite"
        /\ view[h].status # "absent"
        /\ row'   = [content |-> c, token |-> c, status |-> "pending"]
        /\ basis' = fetched[h]
        /\ Goto(h, "logCreated")
        /\ UNCHANGED <<world, notice, callbacks, log, replies, target, decision, fetched, view,
                       aborts>>

(* PlanRepository.save updates the row.  The token decides whether the plan
   changed; only columns that differ from the row read are written, and a new
   rationale rewrites the plan column of an otherwise equal plan. *)
SaveUpdate(h) ==
    LET c == target[h]
        changed == view[h].token # c
    IN  /\ pc[h] = "saveWrite"
        /\ view[h].status # "absent"
        /\ \E reworded \in BOOLEAN :
             row' = [content |-> IF reworded \/ view[h].content # c THEN c ELSE row.content,
                     token   |-> IF changed THEN c ELSE row.token,
                     status  |-> IF changed THEN Written(h, "pending") ELSE row.status]
        /\ basis' = fetched[h]
        /\ \/ changed /\ Goto(h, "logCreated") /\ UNCHANGED <<target, decision, fetched, view>>
           \/ ~ changed /\ Finish(h)
        /\ UNCHANGED <<world, notice, callbacks, log, replies, aborts>>

(* plan.created is appended for a changed plan. *)
LogCreated(h) ==
    /\ pc[h] = "logCreated"
    /\ log' = log \cup {<<"created", target[h]>>}
    /\ Goto(h, IF target[h] = Empty THEN "emptyRead" ELSE "ask")
    /\ UNCHANGED <<world, row, basis, notice, callbacks, replies, target, decision, fetched,
                   view, aborts>>

(* queue_plan on an empty plan: update_status(user, date, "empty"). *)
EmptyRead(h) ==
    /\ pc[h] = "emptyRead"
    /\ ReadThen(h, "emptyWrite")
    /\ UNCHANGED <<world, row, basis, notice, callbacks, log, replies, target, decision,
                   fetched, aborts>>

EmptyWrite(h) ==
    /\ pc[h] = "emptyWrite"
    /\ row' = [row EXCEPT !.status = Written(h, "empty")]
    /\ Goto(h, "ask")
    /\ UNCHANGED <<world, basis, notice, callbacks, log, replies, target, decision, fetched,
                   view, aborts>>

(* queue_plan enqueues the day's message under a key made of the token: a key
   that is already in the outbox queues nothing. *)
Ask(h) ==
    /\ pc[h] = "ask"
    /\ notice' = IF notice[target[h]] = "unsent" THEN [notice EXCEPT ![target[h]] = "sent"]
                 ELSE notice
    /\ Finish(h)
    /\ UNCHANGED <<world, row, basis, callbacks, log, replies, aborts>>

-----------------------------------------------------------------------------
(* The user presses a button of a message whose keyboard is still there.
   Presses of one button that are not answered yet count as one. *)
Press(c, d) ==
    /\ c # Empty
    /\ notice[c] = "sent"
    /\ pressed'    = pressed \cup {<<c, d>>}
    /\ unanswered' = unanswered \cup {<<c, d>>}
    /\ UNCHANGED <<page, row, basis, notice, claimed, log, replies, request, edits, aborts>>

(* Telegram delivers the callback, again if an earlier request died.  The inbox
   claims the event, or takes a repeated one for a duplicate that is done. *)
StartDecision(h, c, d) ==
    /\ pc[h] = "idle"
    /\ <<c, d>> \in unanswered
    /\ claimed'  = claimed \cup {<<c, d>>}
    /\ target'   = [target EXCEPT ![h] = c]
    /\ decision' = [decision EXCEPT ![h] = d]
    /\ \/ Goto(h, "lookup")
       \/ <<c, d>> \in claimed /\ Goto(h, "answer")
    /\ UNCHANGED <<world, row, basis, notice, unanswered, log, replies, fetched, view, aborts>>

LookupThen(h, accepted, step) ==
    /\ pc[h] = "lookup"
    /\ ReadThen(h, IF accepted THEN step ELSE "answer")
    /\ UNCHANGED <<world, row, basis, notice, callbacks, log, replies, target, decision,
                   fetched, aborts>>

(* Mutants of Lookup: a pending plan cannot be decided; the status changes
   before the event is appended. *)
MutLookupNotPending(h)  == LookupThen(h, row.status = decision[h] /\ row.token = target[h],
                                      "logDecision")
MutLookupStatusFirst(h) == LookupThen(h, row.status \in {"pending", decision[h]}
                                           /\ row.token = target[h], "statusRead")

(* plan_by_approval_token, and the checks on what it found.  A token that is
   not the row's, or a plan already decided otherwise, is rejected. *)
Lookup(h) == LookupThen(h, row.status \in {"pending", decision[h]} /\ row.token = target[h],
                        "logDecision")

(* plan.confirmed or plan.rejected is appended; only a pending plan goes on to
   change its status. *)
LogDecision(h) ==
    /\ pc[h] = "logDecision"
    /\ log' = log \cup {<<decision[h], target[h]>>}
    /\ Goto(h, IF view[h].status = "pending" THEN "statusRead" ELSE "reply")
    /\ UNCHANGED <<world, row, basis, notice, callbacks, replies, target, decision, fetched,
                   view, aborts>>

(* update_status finds the row by user and date, not by token. *)
StatusRead(h) ==
    /\ pc[h] = "statusRead"
    /\ ReadThen(h, "statusWrite")
    /\ UNCHANGED <<world, row, basis, notice, callbacks, log, replies, target, decision,
                   fetched, aborts>>

StatusWrite(h) ==
    /\ pc[h] = "statusWrite"
    /\ row' = [row EXCEPT !.status = Written(h, decision[h])]
    /\ Goto(h, "reply")
    /\ UNCHANGED <<world, basis, notice, callbacks, log, replies, target, decision, fetched,
                   view, aborts>>

(* The confirmation, and the task controls of an approved plan, are enqueued. *)
QueueReply(h) ==
    /\ pc[h] = "reply"
    /\ replies' = replies \cup {<<target[h], decision[h]>>}
    /\ Goto(h, "answer")
    /\ UNCHANGED <<world, row, basis, notice, callbacks, log, target, decision, fetched, view,
                   aborts>>

(* The webhook answers the callback 200 and clears the message's keyboard,
   whatever the outcome was; a failure to clear it is only logged. *)
AnswerCallback(h) ==
    LET c == target[h]
    IN  /\ pc[h] = "answer"
        /\ unanswered' = unanswered \ {<<c, decision[h]>>}
        /\ claimed'    = claimed \ {<<c, decision[h]>>}
        /\ notice' \in {notice, [notice EXCEPT ![c] = "cleared"]}
        /\ Finish(h)
        /\ UNCHANGED <<world, row, basis, log, replies, aborts>>

(* The process dies or a call raises.  An unanswered callback is delivered
   again; a sync is repeated by its sender or by the next scheduled one. *)
Abort(h) ==
    /\ pc[h] # "idle"
    /\ aborts < MaxAborts
    /\ aborts' = aborts + 1
    /\ Finish(h)
    /\ UNCHANGED <<world, row, basis, notice, callbacks, log, replies>>

Sync(h) ==
    \/ SaveRead(h) \/ SaveInsert(h) \/ SaveConflict(h) \/ SaveUpdate(h)
    \/ LogCreated(h) \/ EmptyRead(h) \/ EmptyWrite(h) \/ Ask(h)

Decide(h) ==
    \/ Lookup(h) \/ LogDecision(h) \/ StatusRead(h) \/ StatusWrite(h)
    \/ QueueReply(h) \/ AnswerCallback(h)

Next ==
    \/ EditNotion
    \/ \E c \in Plans, d \in Decisions : Press(c, d)
    \/ \E h \in Handlers :
         \/ StartSync(h) \/ Sync(h)
         \/ \E c \in Plans, d \in Decisions : StartDecision(h, c, d)
         \/ Decide(h)
         \/ Abort(h)

Spec == Init /\ [][Next]_vars

(* A request goes on; the 15-minute job keeps asking for syncs; Telegram keeps
   delivering an unanswered callback, however many syncs run in between. *)
FairSpec ==
    /\ Spec
    /\ \A h \in Handlers : WF_vars(Sync(h) \/ Decide(h))
    /\ SF_vars(\E h \in Handlers : StartSync(h))
    /\ \A c \in Plans, d \in Decisions : SF_vars(\E h \in Handlers : StartDecision(h, c, d))

-----------------------------------------------------------------------------
TypeOK ==
    /\ page       \in Pages
    /\ row        \in Rows
    /\ basis      \in Pages
    /\ notice     \in [Plans -> {"unsent", "sent", "cleared"}]
    /\ pressed    \in SUBSET Presses
    /\ unanswered \in SUBSET Presses
    /\ claimed    \in SUBSET Presses
    /\ log        \in SUBSET (LogTypes \X Plans)
    /\ replies    \in SUBSET Presses
    /\ pc         \in [Handlers -> Steps]
    /\ target     \in [Handlers -> Plans]
    /\ decision   \in [Handlers -> Decisions]
    /\ fetched    \in [Handlers -> Pages]
    /\ view       \in [Handlers -> Rows]
    /\ edits      \in 0 .. MaxEdits
    /\ aborts     \in 0 .. MaxAborts

(* "a new or edited plan remains pending until Telegram approval": a plan that
   counts as approved has the very content the user pressed "approve" on. *)
HumanApproved == row.status = "approved" => <<row.content, "approved">> \in pressed

(* A plan that counts as approved or rejected has the domain event that says so
   of this very plan. *)
LoggedFirst == row.status \in Decisions => <<row.status, row.token>> \in log

(* What happened to a plan happened in order, however requests overlap: it was
   logged before it was announced, announced before a button was pressed, pressed
   before the decision was logged, and logged before the decision was confirmed or
   the row took it.  The row may have taken the decision for another plan. *)
CausesFirst ==
    /\ \A c \in Plans : notice[c] # "unsent" => <<"created", c>> \in log
    /\ \A p \in pressed : notice[p[1]] # "unsent"
    /\ \A c \in Plans, d \in Decisions : <<d, c>> \in log => <<c, d>> \in pressed
    /\ \A r \in replies : <<r[2], r[1]>> \in log
    /\ row.status \in Decisions => \E c \in Plans : <<row.status, c>> \in log

(* A decision stands while the token stands: neither an unchanged poll nor an
   opposite press that arrives later takes it back. *)
DecisionStands ==
    [][row.status \in Decisions /\ row'.token = row.token => row'.status = row.status]_vars

Syncing == \E h \in Handlers : pc[h] \in SyncSteps

(* A plan that waits for approval was announced: the message that asks for it
   is in the outbox once no sync is under way. *)
PendingWasAsked ==
    row.status = "pending" /\ row.token # Empty /\ ~ Syncing => notice[row.token] # "unsent"

(* "A changed plan gets a new token and requires human approval": the user can
   decide a plan that waits for approval, on a message that has its buttons. *)
PendingCanBeDecided ==
    row.status = "pending" /\ row.token # Empty /\ (\A h \in Handlers : pc[h] = "idle")
      => notice[row.token] = "sent"

(* A press on the plan in force is applied, unless the plan is replaced. *)
PressIsApplied ==
    \A c \in Plans : \A d \in Decisions :
        <<c, d>> \in unanswered /\ row.token = c /\ row.status = "pending"
          ~> row.token # c \/ row.status # "pending"

(* The day's row keeps the promises of Approval, the abstract specification, as
   long as requests do not overlap: the token stands for the plan in force, and a
   plan is shown once its message is in the outbox. *)
Shown == {c \in Plans : notice[c] # "unsent"}
Register == INSTANCE Approval WITH plan <- row.token, verdict <- row.status,
                                   shown <- Shown, voted <- pressed
ImplementsApproval == Register!Spec
=============================================================================
