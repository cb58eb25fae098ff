-------------------------------- MODULE Inbox --------------------------------
(* Idempotent ingress: how one inbound event is claimed, worked on and settled
   (storage.py, EventRepository; workflow.py, NeuroAlignmentWorkflow.process;
   api.py, the webhook and the trigger endpoints), and the sender that repeats
   a request until it is answered 2xx or it has no tries left.

   A handler is one HTTP request in progress.  Every repository call is its own
   READ COMMITTED transaction that selects the row, decides, and writes later:
   the read and the write are separate steps.  SQLAlchemy writes only changed
   columns, so a value equal to the one read stays out of the UPDATE.

   What a try of an event writes, besides its own row, is a list of inserts
   guarded by unique keys (domain events, episodes, outbox rows), each a lookup
   and then an insert.  The list is the try's own: a sync that finds the plan
   unchanged calls for none, the language model may read a text differently the
   second time.  Calls gives the lists of every branch of the graph; what makes
   a branch choose one is the concern of the workflow's other modules. *)
EXTENDS Integers, FiniteSets, Sequences

CONSTANTS Events,          \* <<source, source_event_id>> of inbound events
          Handlers,        \* requests that can be in progress at once
          Kinds,           \* branches of the graph the events take
          LeaseTime,       \* lease_seconds of claim_inbound, in Ticks
          MaxTries,        \* deliveries of an event before its sender gives up
          MaxFaults,       \* bound: calls of the graph that raise, or answers lost
          MaxSilent,       \* bound: failures that fail_inbound does not record
          MaxCrashes       \* bound: restarts of the application

(* The inserts a try of each branch may call for, in their order: persist_plan
   and queue_plan, only when the plan changed; apply_plan_decision; the monitor's
   messages, if it has any; record_behavior and queue_feedback; record_checkin,
   perhaps the action it was read as, and the reply.  The messages of a try are one
   enqueue, one insert here; a chat id is configured, without which there are none. *)
Calls ==
    [sync     |-> {<<>>, <<"event", "message">>},
     decision |-> {<<"event", "message">>},
     monitor  |-> {<<>>, <<"message">>},
     press    |-> {<<"event", "episode", "message">>},
     text     |-> {<<"checkin", "message">>, <<"checkin", "event", "episode", "message">>}]

(* The keys of these branches' messages name the plan, not the inbound event:
   another event may have inserted them. *)
KeyedByPlan == {"sync", "decision", "monitor"}

Inserts == {"checkin", "event", "episode", "message"}

ASSUME InboxAssumption ==
    /\ Kinds \subseteq DOMAIN Calls
    /\ LeaseTime \in Nat \ {0}
    /\ MaxTries \in Nat
    /\ MaxFaults \in Nat
    /\ MaxSilent \in Nat
    /\ MaxCrashes \in Nat

VARIABLES
    kind,      \* kind[e]: the branch of the graph that e takes; never changes
    record,    \* record[e]: InboundEventRecord.status, "absent" before the insert
    lease,     \* lease[e]: Ticks until lease_until; NoLease when it is NULL
    effects,   \* effects[e]: the inserts of e whose key is in the database
    finished,  \* finished[e]: history: the lists of the tries that completed e
    answers,   \* answers[e]: the 2xx answers the sender of e has received
    tries,     \* tries[e]: deliveries of e so far
    pc,        \* pc[h]: where the request stands
    serving,   \* serving[h]: the event of the request (any, while idle)
    view,      \* view[h]: the row as the current transaction read it
    todo,      \* todo[h]: the inserts this try calls for
    effect,    \* effect[h]: the place in todo[h] the workflow is at
    outcome,   \* outcome[h]: how the request will be answered
    faults,    \* calls that raised, or answers lost, so far
    silent,    \* unrecorded failures so far
    crashes    \* restarts so far

store   == <<record, lease, effects, finished>>
sender  == <<kind, answers, tries>>
work    == <<todo, effect>>
request == <<pc, serving, view, work, outcome>>
budget  == <<faults, silent, crashes>>
vars    == <<store, sender, request, budget>>

-----------------------------------------------------------------------------
NoLease  == -1
Statuses == {"absent", "processing", "completed", "failed"}
Leases   == NoLease .. LeaseTime
Views    == [record : Statuses, lease : Leases]
Unread   == [record |-> "absent", lease |-> NoLease]
Lists    == UNION {Calls[k] : k \in DOMAIN Calls}

(* "duplicate", "processed" and "rejected" are 200 answers, "error" a 5xx. *)
Acks     == {"duplicate", "processed", "rejected"}
Outcomes == Acks \cup {"error"}

Steps == {"idle", "claim", "claimWrite", "work", "insert", "completeWrite",
          "fail", "failWrite", "reply"}

Working(h) == pc[h] \in {"work", "insert", "completeWrite"}
Running(l) == l > 0
Row(e)     == [record |-> record[e], lease |-> lease[e]]

AtEnd(h)  == effect[h] > Len(todo[h])
Needed(h) == todo[h][effect[h]]

Init ==
    /\ kind \in [Events -> Kinds]
    /\ record   = [e \in Events |-> "absent"]
    /\ lease    = [e \in Events |-> NoLease]
    /\ effects  = [e \in Events |-> {}]
    /\ finished = [e \in Events |-> {}]
    /\ answers  = [e \in Events |-> {}]
    /\ tries    = [e \in Events |-> 0]
    /\ pc       = [h \in Handlers |-> "idle"]
    /\ serving \in [Handlers -> Events]
    /\ view     = [h \in Handlers |-> Unread]
    /\ todo     = [h \in Handlers |-> <<>>]
    /\ effect   = [h \in Handlers |-> 1]
    /\ outcome  = [h \in Handlers |-> "error"]
    /\ faults   = 0
    /\ silent   = 0
    /\ crashes  = 0

Goto(h, step)   == pc' = [pc EXCEPT ![h] = step]
Answer(h, what) == Goto(h, "reply") /\ outcome' = [outcome EXCEPT ![h] = what]

(* Mutant of Raise: the error is not raised again after fail_inbound. *)
MutRaiseSwallowed(h, what) == Goto(h, "fail") /\ outcome' = [outcome EXCEPT ![h] = "processed"]

(* The except branch of process(): fail_inbound first, then the error goes on
   to the endpoint. *)
Raise(h, what)  == Goto(h, "fail") /\ outcome' = [outcome EXCEPT ![h] = what]

-----------------------------------------------------------------------------
(* Telegram or a scheduled job sends the event, and sends it again, possibly
   while an earlier request is still served, until it is answered 2xx or its
   tries are used up (curl --retry 4 --retry-delay 15: within the lease). *)
Deliver(h, e) ==
    /\ pc[h] = "idle"
    /\ answers[e] = {}
    /\ tries[e] < MaxTries
    /\ tries' = [tries EXCEPT ![e] = @ + 1]
    /\ Goto(h, "claim")
    /\ serving' = [serving EXCEPT ![h] = e]
    /\ UNCHANGED <<store, kind, answers, view, work, outcome, budget>>

ClaimReadWith(h, duplicate) ==
    /\ pc[h] = "claim"
    /\ \/ duplicate /\ Answer(h, "duplicate") /\ UNCHANGED view
       \/ /\ ~ duplicate
          /\ Goto(h, "claimWrite")
          /\ view' = [view EXCEPT ![h] = Row(serving[h])]
          /\ UNCHANGED outcome
    /\ UNCHANGED <<store, sender, serving, work, budget>>

(* Mutants of ClaimRead: any known event is a duplicate; a completed event is
   not one. *)
MutClaimReadKnown(h)     == ClaimReadWith(h, record[serving[h]] # "absent")
MutClaimReadCompleted(h) == ClaimReadWith(h, /\ record[serving[h]] = "processing"
                                             /\ Running(lease[serving[h]]))

(* claim_inbound reads the row: a completed event, and one whose lease is
   running, is a duplicate and the graph ends at its first node. *)
ClaimRead(h) ==
    ClaimReadWith(h, \/ record[serving[h]] = "completed"
                     \/ record[serving[h]] = "processing" /\ Running(lease[serving[h]]))

(* The graph takes the event's branch; this try will call for one of its lists. *)
StartWork(h) ==
    /\ Goto(h, "work")
    /\ \E list \in Calls[kind[serving[h]]] : todo' = [todo EXCEPT ![h] = list]
    /\ effect' = [effect EXCEPT ![h] = 1]

(* claim_inbound inserts the row it did not find. *)
ClaimInsert(h) ==
    LET e == serving[h]
    IN  /\ pc[h] = "claimWrite"
        /\ view[h].record = "absent"
        /\ record[e] = "absent"
        /\ record' = [record EXCEPT ![e] = "processing"]
        /\ lease'  = [lease EXCEPT ![e] = LeaseTime]
        /\ StartWork(h)
        /\ UNCHANGED <<effects, finished, sender, serving, view, outcome, budget>>

(* Another request inserted the row meanwhile: the unique constraint raises. *)
ClaimConflict(h) ==
    /\ pc[h] = "claimWrite"
    /\ view[h].record = "absent"
    /\ record[serving[h]] # "absent"
    /\ Raise(h, "error")
    /\ UNCHANGED <<store, sender, serving, view, work, budget>>

(* claim_inbound claims a failed event, or one whose lease has run out, again. *)
ClaimAgain(h) ==
    LET e == serving[h]
    IN  /\ pc[h] = "claimWrite"
        /\ view[h].record # "absent"
        /\ record' = IF view[h].record = "processing" THEN record
                     ELSE [record EXCEPT ![e] = "processing"]
        /\ lease'  = [lease EXCEPT ![e] = LeaseTime]
        /\ StartWork(h)
        /\ UNCHANGED <<effects, finished, sender, serving, view, outcome, budget>>

-----------------------------------------------------------------------------
(* Mutant of NextEffect: the insert after the next one. *)
MutNextEffectSkips(h) == Goto(h, "work") /\ effect' = [effect EXCEPT ![h] = @ + 2]

(* The insert is there; on to the next one this try calls for. *)
NextEffect(h) == Goto(h, "work") /\ effect' = [effect EXCEPT ![h] = @ + 1]

(* Mutants of Lookup: a key that is there is taken for an event that is done;
   the key is not looked up. *)
MutLookupSkipsRest(h) ==
    /\ pc[h] = "work"
    /\ ~ AtEnd(h)
    /\ \/ /\ Needed(h) \in effects[serving[h]]
          /\ Goto(h, "work")
          /\ effect' = [effect EXCEPT ![h] = Len(todo[h]) + 1]
       \/ Needed(h) \notin effects[serving[h]] /\ Goto(h, "insert") /\ UNCHANGED effect
    /\ UNCHANGED <<store, sender, serving, view, todo, outcome, budget>>
MutLookupBlind(h) ==
    /\ pc[h] = "work"
    /\ ~ AtEnd(h)
    /\ Goto(h, "insert")
    /\ UNCHANGED <<store, sender, serving, view, work, outcome, budget>>

(* A repository looks its key up and does nothing when a row is there. *)
Lookup(h) ==
    /\ pc[h] = "work"
    /\ ~ AtEnd(h)
    /\ \/ Needed(h) \in effects[serving[h]] /\ NextEffect(h)
       \/ Needed(h) \notin effects[serving[h]] /\ Goto(h, "insert") /\ UNCHANGED effect
    /\ UNCHANGED <<store, sender, serving, view, todo, outcome, budget>>

Insert(h) ==
    /\ pc[h] = "insert"
    /\ Needed(h) \notin effects[serving[h]]
    /\ effects' = [effects EXCEPT ![serving[h]] = @ \cup {Needed(h)}]
    /\ NextEffect(h)
    /\ UNCHANGED <<record, lease, finished, sender, serving, view, todo, outcome, budget>>

(* Another request inserted the key meanwhile: the unique constraint raises. *)
InsertConflict(h) ==
    /\ pc[h] = "insert"
    /\ Needed(h) \in effects[serving[h]]
    /\ Raise(h, "error")
    /\ UNCHANGED <<store, sender, serving, view, work, budget>>

(* A request for another event of the same plan queues the plan's message. *)
OtherEventInserts(e) ==
    /\ kind[e] \in KeyedByPlan
    /\ "message" \notin effects[e]
    /\ effects' = [effects EXCEPT ![e] = @ \cup {"message"}]
    /\ UNCHANGED <<record, lease, finished, sender, request, budget>>

-----------------------------------------------------------------------------
(* _get_inbound in complete_inbound, past the last insert this try calls for,
   and in fail_inbound when the row exists. *)
SettleRead(h) ==
    /\ \/ pc[h] = "work" /\ AtEnd(h) /\ Goto(h, "completeWrite")
       \/ pc[h] = "fail" /\ record[serving[h]] # "absent" /\ Goto(h, "failWrite")
    /\ view' = [view EXCEPT ![h] = Row(serving[h])]
    /\ UNCHANGED <<store, sender, serving, work, outcome, budget>>

(* fail_inbound finds no row and raises; process() logs that and goes on. *)
FailNothing(h) ==
    /\ pc[h] = "fail"
    /\ record[serving[h]] = "absent"
    /\ Goto(h, "reply")
    /\ UNCHANGED <<store, sender, serving, view, work, outcome, budget>>

(* The UPDATE of complete_inbound or fail_inbound; neither asks whether the
   lease is still this request's. *)
Settle(h, status) ==
    LET e == serving[h]
    IN  /\ record' = IF view[h].record = status THEN record
                     ELSE [record EXCEPT ![e] = status]
        /\ lease'  = IF view[h].lease = NoLease THEN lease
                     ELSE [lease EXCEPT ![e] = NoLease]

CompleteWrite(h) ==
    /\ pc[h] = "completeWrite"
    /\ Settle(h, "completed")
    /\ finished' = [finished EXCEPT ![serving[h]] = @ \cup {todo[h]}]
    /\ Answer(h, "processed")
    /\ UNCHANGED <<effects, sender, serving, view, work, budget>>

FailWrite(h) ==
    /\ pc[h] = "failWrite"
    /\ Settle(h, "failed")
    /\ Goto(h, "reply")
    /\ UNCHANGED <<effects, finished, sender, serving, view, work, outcome, budget>>

(* The answer reaches the sender; a 5xx makes it try again. *)
Reply(h) ==
    LET e == serving[h]
    IN  /\ pc[h] = "reply"
        /\ answers' = IF outcome[h] = "error" THEN answers
                      ELSE [answers EXCEPT ![e] = @ \cup {outcome[h]}]
        /\ Goto(h, "idle")
        /\ outcome' = [outcome EXCEPT ![h] = "error"]
        /\ view'    = [view EXCEPT ![h] = Unread]
        /\ todo'    = [todo EXCEPT ![h] = <<>>]
        /\ effect'  = [effect EXCEPT ![h] = 1]
        /\ UNCHANGED <<store, kind, tries, serving, budget>>

-----------------------------------------------------------------------------
Fault == faults < MaxFaults /\ faults' = faults + 1 /\ UNCHANGED <<silent, crashes>>

(* A call of the graph raises: the database, Notion, a provider, or the
   workflow itself, whose LookupError and WorkflowInputError the webhook
   answers with 200 "rejected". *)
GraphRaises(h) ==
    /\ pc[h] \in {"claim", "claimWrite"} \/ Working(h)
    /\ Fault
    /\ \E what \in {"error", "rejected"} : Raise(h, what)
    /\ UNCHANGED <<store, sender, serving, view, work>>

(* dispatcher.deliver() raises after the event is done, or the answer is lost. *)
AnswerLost(h) ==
    /\ pc[h] = "reply"
    /\ outcome[h] # "error"
    /\ Fault
    /\ outcome' = [outcome EXCEPT ![h] = "error"]
    /\ UNCHANGED <<store, sender, pc, serving, view, work>>

(* fail_inbound raises too; the failure is logged and the row keeps its lease. *)
FailRaises(h) ==
    /\ pc[h] \in {"fail", "failWrite"}
    /\ silent < MaxSilent
    /\ silent' = silent + 1
    /\ Goto(h, "reply")
    /\ UNCHANGED <<store, sender, serving, view, work, outcome, faults, crashes>>

(* The application restarts: every request in progress is gone. *)
Crash ==
    /\ \E h \in Handlers : pc[h] # "idle"
    /\ crashes < MaxCrashes
    /\ crashes' = crashes + 1
    /\ pc'      = [h \in Handlers |-> "idle"]
    /\ view'    = [h \in Handlers |-> Unread]
    /\ todo'    = [h \in Handlers |-> <<>>]
    /\ effect'  = [h \in Handlers |-> 1]
    /\ outcome' = [h \in Handlers |-> "error"]
    /\ UNCHANGED <<store, sender, serving, faults, silent>>

Tick ==
    /\ \E e \in Events : Running(lease[e])
    /\ lease' = [e \in Events |-> IF Running(lease[e]) THEN lease[e] - 1 ELSE lease[e]]
    /\ UNCHANGED <<record, effects, finished, sender, request, budget>>

Step(h) ==
    \/ ClaimRead(h) \/ ClaimInsert(h) \/ ClaimConflict(h) \/ ClaimAgain(h)
    \/ Lookup(h) \/ Insert(h) \/ InsertConflict(h)
    \/ SettleRead(h) \/ FailNothing(h) \/ CompleteWrite(h) \/ FailWrite(h)
    \/ Reply(h)

Faulty(h) == GraphRaises(h) \/ FailRaises(h) \/ AnswerLost(h)

Next ==
    \/ \E h \in Handlers, e \in Events : Deliver(h, e)
    \/ \E h \in Handlers : Step(h) \/ Faulty(h)
    \/ \E e \in Events : OtherEventInserts(e)
    \/ Crash
    \/ Tick

Spec == Init /\ [][Next]_vars

(* A request goes on, and a sender uses its tries while it has no 2xx answer. *)
FairSpec ==
    /\ Spec
    /\ \A h \in Handlers : WF_vars(Step(h))
    /\ \A e \in Events : WF_vars(\E h \in Handlers : Deliver(h, e))

-----------------------------------------------------------------------------
TypeOK ==
    /\ kind     \in [Events -> Kinds]
    /\ record   \in [Events -> Statuses]
    /\ lease    \in [Events -> Leases]
    /\ effects  \in [Events -> SUBSET Inserts]
    /\ finished \in [Events -> SUBSET Lists]
    /\ answers  \in [Events -> SUBSET Acks]
    /\ tries    \in [Events -> 0 .. MaxTries]
    /\ pc       \in [Handlers -> Steps]
    /\ serving  \in [Handlers -> Events]
    /\ view     \in [Handlers -> Views]
    /\ todo     \in [Handlers -> Lists \cup {<<>>}]
    /\ effect   \in [Handlers -> Nat \ {0}]
    /\ \A h \in Handlers : effect[h] <= Len(todo[h]) + 1
    /\ outcome  \in [Handlers -> Outcomes]
    /\ faults   \in 0 .. MaxFaults
    /\ silent   \in 0 .. MaxSilent
    /\ crashes  \in 0 .. MaxCrashes

Made(list, e) == \A i \in DOMAIN list : list[i] \in effects[e]

(* Some try worked the event to its end, and whatever the tries that did called
   for is in the database: every insert of a press, the note and the reply of a
   text and the action it was read as, nothing for a sync that found its plan
   saved already. *)
Done(e) == finished[e] # {} /\ \A list \in finished[e] : Made(list, e)

(* A "completed" row means the work is done, whatever requests raced, failed or
   were lost on the way: claim_inbound may then answer duplicates without looking
   further. *)
CompletedIsDone == \A e \in Events : record[e] = "completed" => Done(e)

(* The answer "processed" is given only for an event whose work is done. *)
ProcessedIsDone == \A e \in Events : "processed" \in answers[e] => Done(e)

(* "Completed duplicates terminate at the graph's first node": a completed
   event is never claimed again.  True when requests come one at a time. *)
CompletedIsNotClaimed ==
    [][\A e \in Events : record[e] = "completed" => record'[e] # "processing"]_vars

Serving(e) == \E h \in Handlers : pc[h] # "idle" /\ serving[h] = e

(* "processing does not pretend success": an event whose sender was told 2xx,
   and which no request serves any more, is done or was rejected.  True when
   requests come one at a time and every failure is recorded: then no lease is
   left behind for a retry to meet. *)
NoFalseSuccess ==
    \A e \in Events : answers[e] # {} /\ "rejected" \notin answers[e] /\ ~ Serving(e)
                        => Done(e)

(* Every event is worked to its end, or its sender is told it was rejected, when
   the sender has more tries than there are failures and all of them are recorded. *)
EventuallyDone == \A e \in Events : <>(Done(e) \/ "rejected" \in answers[e])

(* Ingress keeps the promises of Ledger, the abstract specification, for each
   event, however many requests for it race, raise or are lost: no insert is made
   for an unknown event, before those its list names first, or twice, and no
   answer says more than the row and the inserts do. *)
Phase(status) ==
    CASE status = "absent" -> "new" [] status = "completed" -> "closed" [] OTHER -> "open"
Book == INSTANCE Ledger WITH state <- [e \in Events |-> Phase(record[e])],
                             made <- effects, told <- answers
ImplementsLedger == Book!Spec
=============================================================================
