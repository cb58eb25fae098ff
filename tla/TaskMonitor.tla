----------------------------- MODULE TaskMonitor -----------------------------
(* The monitor of the day (workflow.py, load_approved_plan, load_task_activity
   and queue_monitor_messages) beside the reports of the user that arrive while
   it works and the approvals that replace the plan it works on.

   A monitor request loads the approved plan, then the reports, then enqueues
   its questions, in three transactions; the reports and the plan may change in
   between.  Its clock is occurred_at, stamped when the request arrives, or the
   observed_at of a cycle that is run by hand.  A
   report carries the time it was made (the server's clock for a button, the
   message's date for a text) and reaches the log later, in any order.

   The plan approved for the day is an input here; PlanApproval says how it
   becomes approved.  The outbox is seen as the set of its idempotency keys,
   with what a day message says was left open. *)
EXTENDS Activity, FiniteSets

CONSTANTS Plans,          \* approval tokens
          NoPlan,         \* no plan is approved
          Start,          \* Start[c][t]: scheduled_start of the items of plan c
          Grace,          \* Settings.task_start_grace_minutes
          ProgressTime,   \* estimated_minutes of every item
          BlockedTime,    \* Settings.blocked_follow_up_minutes
          RecoveryTime,   \* Settings.day_recovery_hour
          SummaryTime,    \* Settings.day_summary_hour
          Monitors,       \* monitor requests that can be in progress at once
          MaxReports,     \* bound: reports in a day
          MaxReplans,     \* bound: changes of the approved plan
          MaxManual       \* bound: cycles run by hand with an observed_at

(* Items without a time of day have a start after the day's end. *)
ASSUME MonitorAssumption ==
    /\ NoPlan \notin Plans
    /\ \A c \in Plans : /\ DOMAIN Start[c] \subseteq Tasks /\ DOMAIN Start[c] # {}
                        /\ \A t \in DOMAIN Start[c] : Start[c][t] \in Nat
    /\ {Grace, ProgressTime, BlockedTime} \subseteq Nat
    /\ {RecoveryTime, SummaryTime, MaxReports, MaxReplans, MaxManual} \subseteq Nat

VARIABLES
    now,        \* the time of day
    approved,   \* the token of the approved plan, or NoPlan
    made,       \* reports made that are not in the log yet
    log,        \* reports in domain_events
    outbox,     \* the monitor's messages in the outbox
    pc,         \* pc[m]: where the monitor request stands
    stamp,      \* stamp[m]: its occurred_at
    plan,       \* plan[m]: the plan it loaded
    activity,   \* activity[m]: the activity it loaded
    overtaken,  \* overtaken[m]: tasks completed in the log since (history)
    replans,    \* changes of the approved plan so far
    manual      \* cycles run by hand with an observed_at so far

request == <<pc, stamp, plan, activity, overtaken>>
vars    == <<now, approved, made, log, outbox, request, replans, manual>>

-----------------------------------------------------------------------------
TaskKinds == {"due", "start-check", "progress-check", "blocked-check"}
DayKinds  == {"day-recovery", "day-summary"}
Items(c) == DOMAIN Start[c]

TaskMessages == [kind : TaskKinds, token : Plans, about : {{t} : t \in Tasks}]
DayMessages  == [kind : DayKinds, token : Plans, about : SUBSET Tasks]

Unknown == [t \in Tasks |-> Silent]

Init ==
    /\ now       = 0
    /\ approved  \in Plans \cup {NoPlan}
    /\ made      = {}
    /\ log       = {}
    /\ outbox    = {}
    /\ pc        = [m \in Monitors |-> "idle"]
    /\ stamp     = [m \in Monitors |-> 0]
    /\ plan      = [m \in Monitors |-> NoPlan]
    /\ activity  = [m \in Monitors |-> Unknown]
    /\ overtaken = [m \in Monitors |-> {}]
    /\ replans   = 0
    /\ manual    = 0

Goto(m, step) == pc' = [pc EXCEPT ![m] = step]

Finish(m) ==
    /\ Goto(m, "idle")
    /\ stamp'     = [stamp EXCEPT ![m] = 0]
    /\ plan'      = [plan EXCEPT ![m] = NoPlan]
    /\ activity'  = [activity EXCEPT ![m] = Unknown]
    /\ overtaken' = [overtaken EXCEPT ![m] = {}]

-----------------------------------------------------------------------------
Tick ==
    /\ now < DayEnd
    /\ now' = now + 1
    /\ UNCHANGED <<approved, made, log, outbox, request, replans, manual>>

(* A sync or a decision changes which plan is approved. *)
Replan ==
    /\ replans < MaxReplans
    /\ replans' = replans + 1
    /\ approved' \in (Plans \cup {NoPlan}) \ {approved}
    /\ UNCHANGED <<now, made, log, outbox, request, manual>>

(* The user presses a task's button or writes what was done. *)
Report(t, action) ==
    /\ Cardinality(made \cup log) < MaxReports
    /\ made' = made \cup ({[task |-> t, action |-> action, at |-> now]} \ log)
    /\ UNCHANGED <<now, approved, log, outbox, request, replans, manual>>

(* _persist_behavior appends the report to the domain events. *)
Record(r) ==
    /\ r \in made
    /\ made' = made \ {r}
    /\ log'  = log \cup {r}
    /\ overtaken' = [m \in Monitors |->
                       IF pc[m] = "queue" /\ r.action = "completed"
                         THEN overtaken[m] \cup {r.task} ELSE overtaken[m]]
    /\ UNCHANGED <<now, approved, outbox, pc, stamp, plan, activity, replans, manual>>

-----------------------------------------------------------------------------
(* Mutant of StartMonitor: the time is not converted to the local zone. *)
MutStartMonitorZone(m) ==
    /\ pc[m] = "idle"
    /\ stamp' = [stamp EXCEPT ![m] = now + 1]
    /\ Goto(m, "loadPlan")
    /\ UNCHANGED <<now, approved, made, log, outbox, plan, activity, overtaken, replans, manual>>

(* The 15-minute job asks for a monitor cycle. *)
StartMonitor(m) ==
    /\ pc[m] = "idle"
    /\ stamp' = [stamp EXCEPT ![m] = now]
    /\ Goto(m, "loadPlan")
    /\ UNCHANGED <<now, approved, made, log, outbox, plan, activity, overtaken, replans, manual>>

(* The job is started by hand with an observed_at, any time of the day. *)
RunByHand(m) ==
    /\ pc[m] = "idle"
    /\ manual < MaxManual
    /\ manual' = manual + 1
    /\ \E time \in Times : stamp' = [stamp EXCEPT ![m] = time]
    /\ Goto(m, "loadPlan")
    /\ UNCHANGED <<now, approved, made, log, outbox, plan, activity, overtaken, replans>>

LoadPlan(m) ==
    /\ pc[m] = "loadPlan"
    /\ \/ approved = NoPlan /\ Finish(m)
       \/ /\ approved # NoPlan
          /\ plan' = [plan EXCEPT ![m] = approved]
          /\ Goto(m, "loadActivity")
          /\ UNCHANGED <<stamp, activity, overtaken>>
    /\ UNCHANGED <<now, approved, made, log, outbox, replans, manual>>

LoadActivity(m) ==
    /\ pc[m] = "loadActivity"
    /\ \E found \in [Items(plan[m]) -> UNION {ActivityOf(t, log) : t \in Items(plan[m])}] :
         /\ \A t \in Items(plan[m]) : found[t] \in ActivityOf(t, log)
         /\ activity' = [activity EXCEPT ![m] =
                           [t \in Tasks |-> IF t \in Items(plan[m]) THEN found[t] ELSE Silent]]
    /\ Goto(m, "queue")
    /\ UNCHANGED <<now, approved, made, log, outbox, stamp, plan, overtaken, replans, manual>>

(* Mutants of Asks: the grace period is taken the wrong way round, or only a
   missing start is asked about. *)
MutAsksGrace(kind, start, a, clock) ==
    /\ start <= clock /\ a.latest = "none"
    /\ kind = IF clock >= start + Grace THEN "due" ELSE "start-check"
MutAsksStartOnly(kind, start, a, clock) ==
    /\ start <= clock /\ a.latest = "none"
    /\ kind = IF clock < start + Grace THEN "due" ELSE "start-check"

(* Does the monitor ask the question of this kind, at time clock, about an item
   scheduled at start whose activity is a? *)
Asks(kind, start, a, clock) ==
    /\ start <= clock
    /\ ~ a.done
    /\ a.latest \notin Terminal
    /\ \/ kind = "due"            /\ a.latest = "none" /\ clock < start + Grace
       \/ kind = "start-check"    /\ a.latest = "none" /\ clock >= start + Grace
       \/ kind = "progress-check" /\ a.latest = "started" /\ clock >= a.at + ProgressTime
       \/ kind = "blocked-check"  /\ a.latest = "blocked" /\ clock >= a.at + BlockedTime

OpenItems(m) == {t \in Items(plan[m]) : ~ activity[m][t].done}

(* Mutant of DayKind: the summary is taken for one more evening message. *)
MutDayKind(time) == IF time >= RecoveryTime THEN {"day-recovery"} ELSE {}

DayKind(time) ==
    IF time >= SummaryTime THEN {"day-summary"}
    ELSE IF time >= RecoveryTime THEN {"day-recovery"} ELSE {}

(* One question for each item that needs one, and the evening's message. *)
Questions(m) ==
    {[kind |-> q[1], token |-> plan[m], about |-> {q[2]}] :
        q \in {p \in TaskKinds \X Items(plan[m]) :
                 Asks(p[1], Start[plan[m]][p[2]], activity[m][p[2]], stamp[m])}}
    \cup {[kind |-> k, token |-> plan[m], about |-> OpenItems(m)] : k \in DayKind(stamp[m])}

(* The idempotency key: the kind, the token and, for a question, the task. *)
SameKey(a, b) ==
    a.kind = b.kind /\ a.token = b.token /\ (a.kind \in TaskKinds => a.about = b.about)

QueueMessages(m) ==
    /\ pc[m] = "queue"
    /\ outbox' = outbox \cup {q \in Questions(m) : \A o \in outbox : ~ SameKey(o, q)}
    /\ Finish(m)
    /\ UNCHANGED <<now, approved, made, log, replans, manual>>

(* A transaction raises or the process dies: the job asks again later. *)
Abort(m) ==
    /\ pc[m] # "idle"
    /\ Finish(m)
    /\ UNCHANGED <<now, approved, made, log, outbox, replans, manual>>

Step(m) == LoadPlan(m) \/ LoadActivity(m) \/ QueueMessages(m)

Next ==
    \/ Tick
    \/ Replan
    \/ \E t \in Tasks, action \in Reported : Report(t, action)
    \/ \E r \in made : Record(r)
    \/ \E m \in Monitors : StartMonitor(m) \/ RunByHand(m) \/ Step(m) \/ Abort(m)

Spec == Init /\ [][Next]_vars

(* Time passes, the job comes back every 15 minutes, a request that dies now and
   then gets through in the end, and a report that was made is recorded (Inbox,
   EventuallyDone, says when). *)
FairSpec ==
    /\ Spec
    /\ WF_vars(Tick)
    /\ WF_vars(\E r \in made : Record(r))
    /\ WF_vars(\E m \in Monitors : StartMonitor(m))
    /\ \A m \in Monitors : SF_vars(LoadPlan(m)) /\ SF_vars(LoadActivity(m))
                           /\ SF_vars(QueueMessages(m))

-----------------------------------------------------------------------------
TypeOK ==
    /\ now       \in Times
    /\ approved  \in Plans \cup {NoPlan}
    /\ made      \in SUBSET Reports
    /\ log       \in SUBSET Reports
    /\ outbox    \in SUBSET (TaskMessages \cup DayMessages)
    /\ pc        \in [Monitors -> {"idle", "loadPlan", "loadActivity", "queue"}]
    /\ stamp     \in [Monitors -> Times]
    /\ plan      \in [Monitors -> Plans \cup {NoPlan}]
    /\ activity  \in [Monitors -> [Tasks -> Activities]]
    /\ overtaken \in [Monitors -> SUBSET Tasks]
    /\ replans   \in 0 .. MaxReplans
    /\ manual    \in 0 .. MaxManual

Before == {<<"due", "start-check">>, <<"day-recovery", "day-summary">>}

(* The day's messages come in the order of the day: once the missing start was
   asked about, the same item is not announced as due any more, and the evening
   message never follows the day's summary.  Monitor requests that overlap, and
   cycles run by hand for another time, break it. *)
MessagesInOrder ==
    [][manual = 0 => \A old \in outbox, new \in outbox' \ outbox :
         new.token = old.token /\ (new.kind \in TaskKinds => new.about = old.about)
           => <<new.kind, old.kind>> \notin Before]_vars

(* Is there a report of this action on item t that is wait old? *)
ReportedFor(t, action, wait) ==
    \E r \in log : r.task = t /\ r.action = action /\ r.at + wait <= now

(* A question is never early: its item is due, a missing start was granted its
   grace, and progress or an obstacle goes back to a report old enough to ask. *)
Grounded(o) ==
    /\ o.kind \in TaskKinds =>
         \E t \in Items(o.token) :
            /\ o.about = {t}
            /\ Start[o.token][t] <= now
            /\ o.kind = "start-check"    => Start[o.token][t] + Grace <= now
            /\ o.kind = "progress-check" => ReportedFor(t, "started", ProgressTime)
            /\ o.kind = "blocked-check"  => ReportedFor(t, "blocked", BlockedTime)
    /\ o.kind \in DayKinds     => o.about \subseteq Items(o.token)
    /\ o.kind = "day-recovery" => RecoveryTime <= now
    /\ o.kind = "day-summary"  => SummaryTime <= now

(* However old what a request read and its clock are when it queues, and however
   many requests work on the same plan: no message is kept twice for the same plan,
   and while no cycle was run by hand for another time every one has its ground in
   the log and the time of day. *)
AskedForAReason ==
    /\ manual = 0 => \A o \in outbox : Grounded(o)
    /\ \A o, p \in outbox : SameKey(o, p) => o = p

(* A completed task is left alone: nothing that is queued asks about it or
   names it as open, unless its completion was recorded after the request read
   the reports.  A later "started" of the same task changes nothing. *)
DoneIsLeftAlone ==
    [][\A new \in outbox' \ outbox : \A r \in log :
         r.action = "completed" /\ r.task \in new.about
           => \E m \in Monitors : r.task \in overtaken[m]]_vars

Queued(k, c, t) == \E o \in outbox : o.kind = k /\ o.token = c /\ t \in o.about

(* Since wait ago, and still, the last word on item t is this action; t was
   never completed. *)
LastWord(t, action, wait) ==
    \E r \in log : /\ r.task = t /\ r.action = action /\ r.at + wait <= now
                  /\ \A s \in log : s.task = t /\ s # r => s.at < r.at /\ s.action # "completed"

(* Is the question k about item t, which is due in the approved plan c, called for? *)
Calls(k, c, t) ==
    /\ approved = c
    /\ Start[c][t] <= now
    /\ CASE k = "start-check"    -> /\ Start[c][t] + Grace <= now
                                   /\ \A r \in log : r.task # t
         [] k = "progress-check" -> LastWord(t, "started", ProgressTime)
         [] k = "blocked-check"  -> LastWord(t, "blocked", BlockedTime)

(* "follows up on missing starts, progress, and obstacles": a question that
   stays called for is asked in the end, once for a plan. *)
FollowedUp ==
    \A c \in Plans : \A t \in Items(c) : \A k \in TaskKinds \ {"due"} :
        Calls(k, c, t) ~> Queued(k, c, t) \/ ~ Calls(k, c, t)

(* The day of a plan that stays approved is closed with a summary. *)
DayIsClosed ==
    \A c \in Plans : approved = c ~> approved # c \/ \E o \in outbox :
                                        o.kind = "day-summary" /\ o.token = c
=============================================================================
