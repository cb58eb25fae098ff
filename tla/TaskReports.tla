----------------------------- MODULE TaskReports -----------------------------
(* The user's reports on the day's tasks, from the claimed event to the reply:
   a button's (workflow.py, record_behavior to queue_feedback) and a text's
   (record_checkin to queue_checkin_response), over the domain events, the
   behavioural memory and the outbox (storage.py).

   A handler is one request that works on an event; every repository call is a
   transaction of its own.  Of the inbox row only the claim is here, in one step,
   with its lease and with the sender that repeats what is not answered; Inbox
   has the claim's races.  The plan approved for the day is an input;
   PlanApproval says how it becomes approved.

   Inserts are guarded by a key of the event, so each table holds at most one
   row per event.  Of two requests that race for a key one raises and changes
   nothing, as in Fail.  A task has fewer than twenty domain events, the limit
   of build_evidence. *)
EXTENDS Intelligence, Sequences, FiniteSets

CONSTANTS Buttons,      \* events that are presses of a task's button
          At,           \* At[e]: when event e happened
          Plans,        \* sequences of items a day's approved plan may have
          Presses,      \* the tasks and actions a button may carry
          Messages,     \* what a text may say: sets of Sayings
          Earlier,      \* Earlier[t]: resolved reports of t on earlier days
          Remembered,   \* episodes of earlier days
          Handlers,     \* requests that can be in progress at once
          MaxTries,     \* requests for an event before its sender gives up
          MaxFaults     \* bound: changes of the approved plan, feedbacks of a language
                        \* model the critic refuses, requests cut short and answers
                        \* lost, together

Texts     == Events \ Buttons
Behaviors == [task : Tasks, action : Reported]
Answers   == {"nothing", "running", "completed"}
Replies   == [task : Tasks \cup {None}, action : Reported \cup {None}]

(* occurred_at: Telegram dates a message, a press is dated when it arrives, anew
   at each delivery. *)
OccurredAt(e) == IF e \in Buttons THEN At[e] .. DayEnd ELSE {At[e]}

(* Items without a time of day have a start after the day's end. *)
ASSUME ReportsAssumption ==
    /\ Buttons \subseteq Events
    /\ IsFiniteSet(Events)
    /\ None \notin Tasks \cup Plans \cup Actions \cup Events
    /\ None \notin Reports /\ None \notin Behaviors
    /\ At \in [Events -> Times]
    /\ Plans \subseteq Seq([id : Tasks, start : Nat])
    /\ Presses \subseteq Behaviors
    /\ Messages \subseteq SUBSET Sayings
    /\ Earlier \in [Tasks -> Nat]
    /\ {Remembered, MaxTries, MaxFaults} \subseteq Nat

VARIABLES
    model,      \* is a language model configured?
    press,      \* press[e]: the task and action of a button
    said,       \* said[e]: what a text says
    approved,   \* the plan approved for the day, or None
    noted,      \* texts with a checkin.received domain event
    recorded,   \* recorded[e]: the task's domain event under the key of e, or None
    episode,    \* episode[e]: the task and action remembered of e, or None
    outbox,     \* outbox[e]: the reply to e, or None
    completed,  \* events whose inbox row is completed
    leased,     \* events whose inbox row has a lease that runs
    told,       \* told[e]: what the sender takes a 200 answer to say of e's row
    tries,      \* tries[e]: requests that worked on e
    pc,         \* pc[h]: where the request stands
    serving,    \* serving[h]: the event it works on, or None
    plan,       \* plan[h]: the plan it loaded, or None
    decision,   \* decision[h]: the task and action it takes a text to report, or None
    evidence,   \* evidence[h]: what it retrieved
    feedback,   \* feedback[h]: the last feedback generated
    attempts,   \* attempts[h]: feedbacks generated
    overtaken,  \* requests since whose read the reports or the plan changed
    repeated,   \* events that more than one request worked on
    faults      \* plan changes, refused feedbacks, cut requests and lost answers so far

world   == <<model, press, said>>
store   == <<noted, recorded, episode, outbox, completed>>
sender  == <<leased, told, tries>>
request == <<pc, serving, plan, decision, evidence, feedback, attempts>>
history == <<overtaken, repeated>>
vars    == <<world, approved, store, sender, request, history, faults>>

-----------------------------------------------------------------------------
ButtonSteps == {"store", "evidence", "similar", "generate"}
TextSteps   == {"note", "loadPlan", "respond", "store"}
Steps       == {"idle", "record", "reply", "complete"} \cup ButtonSteps \cup TextSteps

Items(p)    == IF p = None THEN {} ELSE {p[i].id : i \in DOMAIN p}
NoDecision  == [task |-> None, action |-> None]
NoEvidence  == [events |-> {}, episodes |-> {}, enough |-> FALSE]
NoFeedback  == [events |-> {}, episodes |-> {}, confidence |-> 0, proper |-> FALSE]

(* The day's domain events on tasks, and those of one task. *)
RowsOf(t) == {e \in Events : recorded[e] # None /\ recorded[e].task = t}
Log == {recorded[e] : e \in {x \in Events : recorded[x] # None}}

Init ==
    /\ model     \in BOOLEAN
    /\ press     \in [Buttons -> Presses]
    /\ said      \in [Texts -> Messages]
    /\ approved  \in Plans \cup {None}
    /\ noted     = {}
    /\ recorded  = [e \in Events |-> None]
    /\ episode   = [e \in Events |-> None]
    /\ outbox    = [e \in Events |-> None]
    /\ completed = {}
    /\ leased    = {}
    /\ told      = [e \in Events |-> "nothing"]
    /\ tries     = [e \in Events |-> 0]
    /\ pc        = [h \in Handlers |-> "idle"]
    /\ serving   = [h \in Handlers |-> None]
    /\ plan      = [h \in Handlers |-> None]
    /\ decision  = [h \in Handlers |-> NoDecision]
    /\ evidence  = [h \in Handlers |-> NoEvidence]
    /\ feedback  = [h \in Handlers |-> NoFeedback]
    /\ attempts  = [h \in Handlers |-> 0]
    /\ overtaken = {}
    /\ repeated  = {}
    /\ faults    = 0

Goto(h, step) == pc' = [pc EXCEPT ![h] = step]

(* Mutant of Finish: the count of attempts leaks into the thread's next request. *)
MutFinishLeaks(h) ==
    /\ Goto(h, "idle")
    /\ serving'   = [serving EXCEPT ![h] = None]
    /\ plan'      = [plan EXCEPT ![h] = None]
    /\ decision'  = [decision EXCEPT ![h] = NoDecision]
    /\ evidence'  = [evidence EXCEPT ![h] = NoEvidence]
    /\ feedback'  = [feedback EXCEPT ![h] = NoFeedback]
    /\ attempts'  = attempts
    /\ overtaken' = overtaken \ {h}

(* The request is over; the next one starts from _initial_state. *)
Finish(h) ==
    /\ Goto(h, "idle")
    /\ serving'   = [serving EXCEPT ![h] = None]
    /\ plan'      = [plan EXCEPT ![h] = None]
    /\ decision'  = [decision EXCEPT ![h] = NoDecision]
    /\ evidence'  = [evidence EXCEPT ![h] = NoEvidence]
    /\ feedback'  = [feedback EXCEPT ![h] = NoFeedback]
    /\ attempts'  = [attempts EXCEPT ![h] = 0]
    /\ overtaken' = overtaken \ {h}

(* The task and action the request is about to persist: the button's own, or
   those of the decision on the text (record_conversation_action). *)
Behavior(h) ==
    IF serving[h] \in Buttons THEN press[serving[h]]
    ELSE decision[h]

-----------------------------------------------------------------------------
(* A sync or a decision changes which plan is approved. *)
Replan ==
    /\ faults < MaxFaults
    /\ faults' = faults + 1
    /\ approved' \in (Plans \cup {None}) \ {approved}
    /\ overtaken' = overtaken \cup {h \in Handlers : plan[h] # None}
    /\ UNCHANGED <<world, store, sender, request, repeated>>

(* claim_inbound: a completed event and one whose lease runs are duplicates.  The
   mutant takes any text that was seen for one. *)
MutClaimable(e) == e \notin completed \cup leased \cup noted
Claimable(e)    == e \notin completed \cup leased

(* The sender repeats a request that was not answered 200, while it has tries left
   and without a look at the lease. *)
Sends(e) == told[e] = "nothing" /\ tries[e] < MaxTries

(* claim_event lets the request work on the event, and the route leads it to the
   button's or the text's first node. *)
Start(h, e) ==
    /\ pc[h] = "idle"
    /\ Sends(e)
    /\ Claimable(e)
    /\ serving'  = [serving EXCEPT ![h] = e]
    /\ leased'   = leased \cup {e}
    /\ tries'    = [tries EXCEPT ![e] = @ + 1]
    /\ Goto(h, IF e \in Buttons THEN "record" ELSE "note")
    /\ repeated' = IF e \in noted \/ recorded[e] # None \/ \E g \in Handlers : serving[g] = e
                     THEN repeated \cup {e} ELSE repeated
    /\ UNCHANGED <<world, approved, store, told, plan, decision, evidence, feedback,
                   attempts, overtaken, faults>>

(* claim_event ends the request, which is answered 200 "duplicate": the sender
   stops, though a lease that runs may be that of a request that died. *)
Duplicate(e) ==
    /\ Sends(e)
    /\ ~ Claimable(e)
    /\ told' = [told EXCEPT ![e] = IF e \in leased THEN "running" ELSE "completed"]
    /\ UNCHANGED <<world, approved, store, leased, tries, request, history, faults>>

(* A request may outlive its lease, and a death leaves one to run out.  (Once the
   sender is through nobody looks at the lease.) *)
LeaseEnds(e) ==
    /\ e \in leased
    /\ Sends(e)
    /\ leased' = leased \ {e}
    /\ UNCHANGED <<world, approved, store, told, tries, request, history, faults>>

-----------------------------------------------------------------------------
(* Texts: record_checkin, load_conversation_context, conversation_agent. *)
NoteText(h) ==
    /\ pc[h] = "note"
    /\ noted' = noted \cup {serving[h]}
    /\ Goto(h, "loadPlan")
    /\ UNCHANGED <<world, approved, recorded, episode, outbox, completed, sender, serving, plan,
                   decision, evidence, feedback, attempts, history, faults>>

LoadPlan(h) ==
    /\ pc[h] = "loadPlan"
    /\ plan' = [plan EXCEPT ![h] = approved]
    /\ Goto(h, "respond")
    /\ UNCHANGED <<world, approved, store, sender, serving, decision, evidence, feedback,
                   attempts, history, faults>>

(* Mutant of Focus: settled tasks are not left out. *)
MutFocusSettled(p, found) ==
    IF p = None \/ p = << >> THEN {None} ELSE
    LET before(i, j) == p[i].start < p[j].start \/ (p[i].start = p[j].start /\ i <= j)
    IN  {p[i].id : i \in {k \in DOMAIN p : \A j \in DOMAIN p : before(k, j)}}

(* _conversation_focus, as a set of one: of the tasks that are not settled the one
   reported last, if it was started or blocked; otherwise the one that starts
   first.  (When one is due already, the first to start is due.) *)
Focus(p, found) ==
    IF p = None THEN {None} ELSE
    LET open   == {i \in DOMAIN p : found[p[i].id].latest \notin Terminal}
        active == {i \in open : found[p[i].id].latest \in {"started", "blocked"}}
        at(i)  == found[p[i].id].at
        later(i, j)  == at(i) > at(j) \/ (at(i) = at(j) /\ i <= j)
        before(i, j) == p[i].start < p[j].start \/ (p[i].start = p[j].start /\ i <= j)
    IN  IF open = {} THEN {None}
        ELSE IF active # {} THEN {p[i].id : i \in {k \in active : \A j \in active : later(k, j)}}
        ELSE {p[i].id : i \in {k \in open : \A j \in open : before(k, j)}}

(* record_conversation_action: what is sure enough to be recorded.  The mutant
   asks for more than ValidDecision does. *)
MutRecordable(d) == d.action # None /\ d.task # None /\ d.confidence >= 95
Recordable(d)    == d.action # None /\ d.task # None /\ d.confidence >= 80

(* task_activity_for_period, conversation_agent and the early returns of
   record_conversation_action.  Only the first touches what is shared, so they
   are one step. *)
Respond(h) ==
    /\ pc[h] = "respond"
    /\ \E found \in [Items(plan[h]) -> UNION {ActivityOf(t, Log) : t \in Items(plan[h])}] :
          /\ \A t \in Items(plan[h]) : found[t] \in ActivityOf(t, Log)
          /\ \E focus \in Focus(plan[h], found) :
             \E d \in Responses(model, Items(plan[h]), said[serving[h]], focus) :
                /\ decision' = [decision EXCEPT ![h] = [task |-> d.task, action |-> d.action]]
                /\ Goto(h, IF Recordable(d) THEN "record" ELSE "reply")
    /\ UNCHANGED <<world, approved, store, sender, serving, plan, evidence, feedback,
                   attempts, history, faults>>

-----------------------------------------------------------------------------
(* Both: _persist_behavior, the domain event first and then the episode. *)

(* Mutant of Record: a report whose domain event is there counts as stored. *)
MutRecordStored(h) ==
    LET e == serving[h] IN
    /\ pc[h] = "record"
    /\ IF recorded[e] # None
         THEN recorded' = recorded /\ Goto(h, IF e \in Buttons THEN "evidence" ELSE "reply")
         ELSE /\ \E at \in OccurredAt(e) :
                    recorded' = [recorded EXCEPT ![e] =
                      [task |-> Behavior(h).task, action |-> Behavior(h).action, at |-> at]]
              /\ Goto(h, "store")
    /\ overtaken' = overtaken
    /\ UNCHANGED <<world, approved, noted, episode, outbox, completed, sender, serving, plan,
                   decision, evidence, feedback, attempts, repeated, faults>>

Record(h) ==
    LET e == serving[h] IN
    /\ pc[h] = "record"
    /\ IF recorded[e] # None THEN UNCHANGED <<recorded, overtaken>>
         ELSE /\ \E at \in OccurredAt(e) :
                    recorded' = [recorded EXCEPT ![e] =
                      [task |-> Behavior(h).task, action |-> Behavior(h).action, at |-> at]]
              /\ overtaken' = overtaken \cup {g \in Handlers \ {h} : plan[g] # None}
    /\ Goto(h, "store")
    /\ UNCHANGED <<world, approved, noted, episode, outbox, completed, sender, serving, plan,
                   decision, evidence, feedback, attempts, repeated, faults>>

StoreEpisode(h) ==
    LET e == serving[h] IN
    /\ pc[h] = "store"
    /\ episode' = IF episode[e] = None THEN [episode EXCEPT ![e] = Behavior(h)] ELSE episode
    /\ Goto(h, IF e \in Buttons THEN "evidence" ELSE "reply")
    /\ UNCHANGED <<world, approved, noted, recorded, outbox, completed, sender, serving, plan,
                   decision, evidence, feedback, attempts, history, faults>>

-----------------------------------------------------------------------------
(* Buttons: retrieve_evidence, neuro_behavioral_agent, safety_critic. *)
Resolved(E) == {e \in E : recorded[e].action # "started"}

BuildEvidence(h) ==
    LET t == Behavior(h).task IN
    /\ pc[h] = "evidence"
    /\ evidence' = [evidence EXCEPT ![h] =
         [events |-> RowsOf(t), episodes |-> {},
          enough |-> Cardinality(Resolved(RowsOf(t))) + Earlier[t] >= 3]]
    /\ Goto(h, "similar")
    /\ UNCHANGED <<world, approved, store, sender, serving, plan, decision, feedback,
                   attempts, history, faults>>

(* similar_episodes: the five nearest of all but the event's own. *)
OtherEpisodes(e) == {x \in Events \ {e} : episode[x] # None}
SimilarEpisodes(h) ==
    LET others == OtherEpisodes(serving[h])
        all    == Cardinality(others) + Remembered
        nearest == IF all < 5 THEN all ELSE 5
    IN
    /\ pc[h] = "similar"
    /\ \E shown \in SUBSET others : \E older \in 0 .. Remembered :
          /\ Cardinality(shown) + older = nearest
          /\ evidence' = [evidence EXCEPT ![h] =
               [events |-> @.events, episodes |-> shown, enough |-> @.enough \/ nearest >= 3]]
    /\ Goto(h, "generate")
    /\ UNCHANGED <<world, approved, store, sender, serving, plan, decision, feedback,
                   attempts, history, faults>>

(* A draft of the language model that the critic refuses is counted. *)
Refused(f, task, ev) ==
    IF f = LocalFeedback(task, ev) THEN faults' = faults
    ELSE faults < MaxFaults /\ faults' = faults + 1

(* fail_inbound marks the event failed, whatever it was, and ends the lease. *)
FailInbound(e) ==
    /\ completed' = completed \ {e}
    /\ leased'    = leased \ {e}

(* Mutant of Generate: the revision is sent as it is. *)
MutGenerateLenient(h) ==
    LET task == Behavior(h).task IN
    /\ pc[h] = "generate"
    /\ \E f \in Drafts(model, task, evidence[h]) :
          \/ /\ Passes(f, evidence[h]) \/ attempts[h] = 1
             /\ feedback' = [feedback EXCEPT ![h] = f]
             /\ attempts' = [attempts EXCEPT ![h] = @ + 1]
             /\ Goto(h, "reply")
             /\ UNCHANGED <<serving, plan, decision, evidence, overtaken, completed,
                            leased, faults>>
          \/ /\ ~ Passes(f, evidence[h])
             /\ Refused(f, task, evidence[h])
             /\ attempts[h] + 1 < 2
             /\ attempts' = [attempts EXCEPT ![h] = @ + 1]
             /\ UNCHANGED <<pc, serving, plan, decision, evidence, feedback, overtaken,
                            completed, leased>>
          \/ /\ ~ Passes(f, evidence[h])
             /\ Refused(f, task, evidence[h])
             /\ attempts[h] + 1 >= 2
             /\ Finish(h)
             /\ FailInbound(serving[h])
    /\ UNCHANGED <<world, approved, noted, recorded, episode, outbox, told, tries, repeated>>

(* neuro_behavioral_agent, safety_critic and route_after_critique, which touch
   nothing shared: a draft that passes is kept, one is revised, and after that
   UnsafeFeedbackError ends the request as in Fail. *)
Generate(h) ==
    LET task == Behavior(h).task IN
    /\ pc[h] = "generate"
    /\ \E f \in Drafts(model, task, evidence[h]) :
          \/ /\ Passes(f, evidence[h])
             /\ feedback' = [feedback EXCEPT ![h] = f]
             /\ attempts' = [attempts EXCEPT ![h] = @ + 1]
             /\ Goto(h, "reply")
             /\ UNCHANGED <<serving, plan, decision, evidence, overtaken, completed,
                            leased, faults>>
          \/ /\ ~ Passes(f, evidence[h])
             /\ Refused(f, task, evidence[h])
             /\ attempts[h] + 1 < 2
             /\ attempts' = [attempts EXCEPT ![h] = @ + 1]
             /\ UNCHANGED <<pc, serving, plan, decision, evidence, feedback, overtaken,
                            completed, leased>>
          \/ /\ ~ Passes(f, evidence[h])
             /\ Refused(f, task, evidence[h])
             /\ attempts[h] + 1 >= 2
             /\ Finish(h)
             /\ FailInbound(serving[h])
    /\ UNCHANGED <<world, approved, noted, recorded, episode, outbox, told, tries, repeated>>

-----------------------------------------------------------------------------
(* Both: queue_feedback or queue_checkin_response, complete_event, failures. *)
QueueReply(h) ==
    LET e == serving[h]
        reply == IF e \in Buttons THEN feedback[h] ELSE decision[h]
    IN
    /\ pc[h] = "reply"
    /\ outbox' = IF outbox[e] = None THEN [outbox EXCEPT ![e] = reply] ELSE outbox
    /\ Goto(h, "complete")
    /\ UNCHANGED <<world, approved, noted, recorded, episode, completed, sender, serving, plan,
                   decision, evidence, feedback, attempts, history, faults>>

(* complete_inbound, and the answer 200, unless that is lost. *)
Complete(h) ==
    LET e == serving[h] IN
    /\ pc[h] = "complete"
    /\ completed' = completed \cup {e}
    /\ leased'    = leased \ {e}
    /\ \/ told' = [told EXCEPT ![e] = "completed"] /\ faults' = faults
       \/ told' = told /\ faults < MaxFaults /\ faults' = faults + 1
    /\ Finish(h)
    /\ UNCHANGED <<world, approved, noted, recorded, episode, outbox, tries, repeated>>

CutShort(h) ==
    /\ pc[h] # "idle"
    /\ faults < MaxFaults
    /\ faults' = faults + 1
    /\ Finish(h)
    /\ UNCHANGED <<world, approved, noted, recorded, episode, outbox, told, tries, repeated>>

(* A call raises and the sender is answered 5xx. *)
Fail(h) == CutShort(h) /\ FailInbound(serving[h])

(* The request dies, or fail_inbound raises as well: the lease is left to run. *)
Die(h) == CutShort(h) /\ UNCHANGED <<completed, leased>>

Step(h) ==
    \/ NoteText(h) \/ LoadPlan(h) \/ Respond(h)
    \/ Record(h) \/ StoreEpisode(h)
    \/ BuildEvidence(h) \/ SimilarEpisodes(h) \/ Generate(h)
    \/ QueueReply(h) \/ Complete(h)

Next ==
    \/ Replan
    \/ \E h \in Handlers : Step(h) \/ Fail(h) \/ Die(h) \/ \E e \in Events : Start(h, e)
    \/ \E e \in Events : Duplicate(e) \/ LeaseEnds(e)

Spec == Init /\ [][Next]_vars

(* A request that runs goes on, and a sender uses its tries while it has no 200
   answer, inside a lease too. *)
Fairness ==
    /\ \A h \in Handlers : WF_vars(Step(h))
    /\ \A e \in Events : WF_vars(Duplicate(e) \/ \E h \in Handlers : Start(h, e))

FairSpec == Spec /\ Fairness

-----------------------------------------------------------------------------
(* Every variable is of its type; no request generates a third feedback, and none
   starts from what the thread's last one left behind. *)
TypeOK ==
    /\ model \in BOOLEAN /\ press \in [Buttons -> Presses] /\ said \in [Texts -> Messages]
    /\ approved \in Plans \cup {None}
    /\ noted \subseteq Texts /\ completed \subseteq Events /\ leased \subseteq Events
    /\ told \in [Events -> Answers] /\ tries \in [Events -> 0 .. MaxTries]
    /\ recorded \in [Events -> Reports \cup {None}]
    /\ episode \in [Events -> Behaviors \cup {None}]
    /\ outbox \in [Events -> Feedbacks \cup Replies \cup {None}]
    /\ pc \in [Handlers -> Steps]
    /\ serving \in [Handlers -> Events \cup {None}]
    /\ plan \in [Handlers -> Plans \cup {None}]
    /\ decision \in [Handlers -> Replies]
    /\ evidence \in [Handlers -> Evidence]
    /\ feedback \in [Handlers -> Feedbacks]
    /\ attempts \in [Handlers -> 0 .. 2]
    /\ \A h \in Handlers : pc[h] = "idle" => attempts[h] = 0 /\ serving[h] = None
    /\ overtaken \subseteq Handlers /\ repeated \subseteq Events
    /\ faults \in 0 .. MaxFaults

(* A feedback that reaches the outbox makes no forbidden claim, cites only
   domain events of its task and episodes of other reports that are in the
   database, and is sure of itself only where the database has the history for
   it: whatever the language model wrote, and whatever was recorded between
   retrieval, critique and reply. *)
History(t) == Cardinality(Resolved(RowsOf(t))) + Earlier[t] >= 3
FeedbackIsGrounded ==
    \A e \in Buttons : outbox[e] # None =>
        LET f == outbox[e] IN
        /\ f.proper
        /\ f.events \subseteq RowsOf(press[e].task)
        /\ f.episodes \subseteq OtherEpisodes(e)
        /\ f.confidence > 80 =>
              History(press[e].task) \/ Cardinality(OtherEpisodes(e)) + Remembered >= 3

(* The domain event of e is the report b. *)
SameAs(e, b) == recorded[e] # None /\ b = [task |-> recorded[e].task, action |-> recorded[e].action]

(* The reply to a report leaves only when what it answers is stored, even when an
   earlier request was cut short on the way: of a press the domain event and the
   episode of just its task and action; of a text the text itself and, when the
   reply speaks of an action, a domain event and an episode.  These two may be an
   earlier request's, which read the text differently (ReplyTellsRecord), and a
   text that is read as no action when it is worked again may be answered while
   its episode is missing. *)
AnsweredIsRecorded ==
    \A e \in Events : outbox[e] # None =>
        IF e \in Buttons THEN SameAs(e, press[e]) /\ episode[e] = press[e]
        ELSE /\ e \in noted
             /\ outbox[e].action # None => recorded[e] # None /\ episode[e] # None

(* What is recorded of a text, what is remembered of it and what its reply says
   are one thing, as long as a single request worked on the text.  (A second
   request asks the language model, or looks for the focus, anew.) *)
ReplyTellsRecord ==
    \A e \in Texts \ repeated : outbox[e] # None =>
        IF recorded[e] = None THEN outbox[e].action = None /\ episode[e] = None
        ELSE SameAs(e, outbox[e]) /\ episode[e] = outbox[e]

(* The request that records a text in this step. *)
Records(h) == pc[h] = "record" /\ serving[h] \in Texts /\ recorded' # recorded /\ pc'[h] # pc[h]

(* A text is recorded only for a task of the plan the request loaded, whatever
   the language model answers; unless the plan was replaced meanwhile, that is
   the plan approved now. *)
TextActionIsPlanned ==
    [][\A h \in Handlers : Records(h) =>
          LET t == recorded'[serving[h]].task IN
          /\ t \in Items(plan[h])
          /\ h \notin overtaken => t \in Items(approved)]_vars

(* Without a language model a text is recorded for a task that is still open,
   unless another report or plan came in since the request looked; the action is
   one the text names, and a reluctant text skips and postpones nothing. *)
TextGoesToOpenTask ==
    [][\A h \in Handlers : Records(h) /\ ~ model =>
          LET r == recorded'[serving[h]]
              text == said[serving[h]] IN
          /\ h \notin overtaken => \E a \in ActivityOf(r.task, Log) : a.latest \notin Terminal
          /\ r.action \in text
          /\ r.action \in {"skipped", "rescheduled"} => "reluctance" \notin text]_vars

(* The sender was told "duplicate" because of a lease, and no request serves the
   event any more. *)
Abandoned(e) == told[e] = "running" /\ \A h \in Handlers : serving[h] # e

(* Every report is answered in the end, although requests are cut short and the
   language model is refused now and then, if the sender has more tries than
   there are failures.  A press may go without an answer if its task's title
   itself trips the critic; any report, if its sender was told "duplicate" of a
   request that then failed, or of one that had died. *)
EveryReportAnswered ==
    \A e \in Events :
        (e \in Buttons => press[e].task \notin FormalTitles)
            ~> (outbox[e] # None \/ Abandoned(e))
=============================================================================
