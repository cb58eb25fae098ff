-------------------------- MODULE TaskMonitorProofs --------------------------
(* What is proved of TaskMonitor.  With any number of monitor requests: type
   correctness, that a completed task is left alone, and that every message has its
   ground and is kept once.  When monitor requests do not overlap: that the day's
   messages come in order. *)
EXTENDS TaskMonitor, TLAPS

(* A request that works has loaded a plan. *)
Loaded == \A m \in Monitors : pc[m] \in {"loadActivity", "queue"} => plan[m] \in Plans

TInv == TypeOK /\ Loaded

LEMMA ItemsAreTasks ==
    ASSUME NEW c \in Plans
    PROVE  Items(c) \in SUBSET Tasks /\ \A t \in Items(c) : Start[c][t] \in Nat
  BY MonitorAssumption DEF Items

LEMMA ActivityType ==
    ASSUME NEW t, NEW reports \in SUBSET Reports, NEW a \in ActivityOf(t, reports)
    PROVE  /\ a \in Activities
           /\ \A r \in reports : r.task = t /\ r.action = "completed" => a.done
  <1> DEFINE own  == {r \in reports : r.task = t}
             done == \E r \in own : r.action = "completed"
  <1>1. CASE own = {}
    <2>1. a = Silent
      BY <1>1 DEF ActivityOf
    <2>2. 0 \in Times
      BY ActivityAssumption DEF Times
    <2> QED BY <1>1, <2>1, <2>2 DEF Silent, Activities
  <1>2. CASE own # {}
    <2>1. PICK r \in own : a = [latest |-> r.action, at |-> r.at, done |-> done]
      BY <1>2, Zenon DEF ActivityOf
    <2>2. r.action \in Actions /\ r.at \in Times
      BY ActivityAssumption DEF Reports, Actions
    <2>3. done \in BOOLEAN
      BY Zenon
    <2>4. a \in Activities
      <3> HIDE DEF done
      <3> QED BY <2>1, <2>2, <2>3 DEF Activities
    <2>5. done => a.done
      <3> HIDE DEF done
      <3> QED BY <2>1
    <2> QED BY <2>4, <2>5
  <1> QED BY <1>1, <1>2

LEMMA QuestionType ==
    ASSUME TInv, NEW m \in Monitors, pc[m] = "queue", NEW q \in Questions(m)
    PROVE  /\ q \in TaskMessages \cup DayMessages
           /\ q.token = plan[m]
           /\ \A t \in q.about : t \in Items(plan[m]) /\ ~ activity[m][t].done
           /\ \/ \E t \in Items(plan[m]) :
                    /\ q.kind \in TaskKinds /\ q.about = {t}
                    /\ Asks(q.kind, Start[plan[m]][t], activity[m][t], stamp[m])
              \/ q.kind \in DayKind(stamp[m])
  <1>1. plan[m] \in Plans /\ Items(plan[m]) \in SUBSET Tasks
    BY ItemsAreTasks DEF TInv, Loaded
  <1>2. CASE \E k \in TaskKinds, t \in Items(plan[m]) :
               /\ Asks(k, Start[plan[m]][t], activity[m][t], stamp[m])
               /\ q = [kind |-> k, token |-> plan[m], about |-> {t}]
    <2>1. PICK k \in TaskKinds, t \in Items(plan[m]) :
               /\ Asks(k, Start[plan[m]][t], activity[m][t], stamp[m])
               /\ q = [kind |-> k, token |-> plan[m], about |-> {t}]
      BY <1>2
    <2>2. ~ activity[m][t].done
      BY <2>1 DEF Asks
    <2> QED BY <1>1, <2>1, <2>2 DEF TaskMessages
  <1>3. CASE \E k \in DayKind(stamp[m]) :
               q = [kind |-> k, token |-> plan[m], about |-> OpenItems(m)]
    BY <1>1, <1>3 DEF DayMessages, DayKind, DayKinds, OpenItems
  <1>4. \/ \E p \in {x \in TaskKinds \X Items(plan[m]) :
                       Asks(x[1], Start[plan[m]][x[2]], activity[m][x[2]], stamp[m])} :
              q = [kind |-> p[1], token |-> plan[m], about |-> {p[2]}]
        \/ \E k \in DayKind(stamp[m]) :
              q = [kind |-> k, token |-> plan[m], about |-> OpenItems(m)]
    BY DEF Questions
  <1> QED BY <1>2, <1>3, <1>4

LEMMA TypeInit == ASSUME Init PROVE TInv
  <1>1. 0 \in Times /\ Silent \in Activities
    BY ActivityAssumption DEF Times, Silent, Activities
  <1> QED BY <1>1, MonitorAssumption DEF Init, TInv, TypeOK, Loaded, Unknown

LEMMA TypeStep == ASSUME TInv, [Next]_vars PROVE TInv'
  <1> USE MonitorAssumption, ActivityAssumption DEF TInv, TypeOK, Loaded
  <1>1. CASE Tick \/ Replan \/ UNCHANGED vars
    BY <1>1 DEF Tick, Replan, vars, request, Times
  <1>2. ASSUME NEW t \in Tasks, NEW action \in Reported, Report(t, action)
        PROVE  TInv'
    <2>1. [task |-> t, action |-> action, at |-> now] \in Reports
      BY DEF Reports
    <2> QED BY <1>2, <2>1 DEF Report, request
  <1>3. ASSUME NEW r \in made, Record(r)
        PROVE  TInv'
    <2>1. r.task \in Tasks
      BY DEF Reports
    <2>2. overtaken' \in [Monitors -> SUBSET Tasks]
      BY <1>3, <2>1 DEF Record
    <2> QED BY <1>3, <2>2 DEF Record
  <1>4. ASSUME NEW m \in Monitors, StartMonitor(m) \/ RunByHand(m)
        PROVE  TInv'
    <2>1. pc' \in [Monitors -> {"idle", "loadPlan", "loadActivity", "queue"}]
      BY <1>4 DEF StartMonitor, RunByHand, Goto
    <2>2. stamp' \in [Monitors -> Times]
      BY <1>4 DEF StartMonitor, RunByHand
    <2>3. manual' \in 0 .. MaxManual
      BY <1>4 DEF StartMonitor, RunByHand
    <2>4. UNCHANGED <<now, approved, made, log, outbox, plan, activity, overtaken, replans>>
      BY <1>4 DEF StartMonitor, RunByHand
    <2>5. \A n \in Monitors : pc'[n] \in {"loadActivity", "queue"} => pc[n] = pc'[n]
      BY <1>4 DEF StartMonitor, RunByHand, Goto
    <2>6. Loaded'
      BY <2>4, <2>5
    <2> QED BY <2>1, <2>2, <2>3, <2>4, <2>6
  <1>5. ASSUME NEW m \in Monitors, Finish(m),
               UNCHANGED <<now, approved, made, log, replans, manual>>,
               outbox' \in SUBSET (TaskMessages \cup DayMessages)
        PROVE  TInv'
    <2>1. 0 \in Times /\ Unknown \in [Tasks -> Activities]
      BY DEF Times, Unknown, Silent, Activities
    <2> QED BY <1>5, <2>1 DEF Finish, Goto
  <1>6. ASSUME NEW m \in Monitors, LoadPlan(m)
        PROVE  TInv'
    <2>1. CASE Finish(m)
      BY <1>5, <1>6, <2>1 DEF LoadPlan
    <2>2. CASE /\ approved # NoPlan
               /\ plan' = [plan EXCEPT ![m] = approved]
               /\ Goto(m, "loadActivity")
               /\ UNCHANGED <<stamp, activity, overtaken>>
      BY <1>6, <2>2 DEF LoadPlan, Goto
    <2> QED BY <1>6, <2>1, <2>2 DEF LoadPlan
  <1>7. ASSUME NEW m \in Monitors, LoadActivity(m)
        PROVE  TInv'
    <2>1. PICK found :
            /\ \A t \in Items(plan[m]) : found[t] \in ActivityOf(t, log)
            /\ activity' = [activity EXCEPT ![m] =
                 [t \in Tasks |-> IF t \in Items(plan[m]) THEN found[t] ELSE Silent]]
      BY <1>7, Zenon DEF LoadActivity
    <2>2. ASSUME NEW t \in Tasks
          PROVE  (IF t \in Items(plan[m]) THEN found[t] ELSE Silent) \in Activities
      <3>1. Silent \in Activities
        BY DEF Silent, Activities, Times
      <3> QED BY <2>1, <3>1, ActivityType
    <2>3. activity' \in [Monitors -> [Tasks -> Activities]]
      BY <2>1, <2>2
    <2> QED BY <1>7, <2>3 DEF LoadActivity, Goto
  <1>8. ASSUME NEW m \in Monitors, QueueMessages(m)
        PROVE  TInv'
    <2>1. Questions(m) \subseteq TaskMessages \cup DayMessages
      BY <1>8, QuestionType DEF QueueMessages
    <2>2. outbox' \in SUBSET (TaskMessages \cup DayMessages)
      BY <1>8, <2>1 DEF QueueMessages
    <2> QED BY <1>5, <1>8, <2>2 DEF QueueMessages
  <1>9. ASSUME NEW m \in Monitors, Abort(m)
        PROVE  TInv'
    BY <1>5, <1>9 DEF Abort
  <1> HIDE DEF TInv
  <1> QED BY <1>1, <1>2, <1>3, <1>4, <1>6, <1>7, <1>8, <1>9 DEF Next, Step

(* Every variable keeps its type, however many monitor requests overlap. *)
THEOREM TypeCorrect == Spec => []TypeOK
  <1>1. Spec => []TInv
    BY TypeInit, TypeStep, PTL DEF Spec
  <1>2. TInv => TypeOK
    BY DEF TInv
  <1> QED BY <1>1, <1>2, PTL

-----------------------------------------------------------------------------
(* A completed task is left alone. *)

(* What a request read of the completed tasks, or what was completed since. *)
DoneSeen ==
    \A m \in Monitors : pc[m] = "queue" =>
        \A r \in log : r.action = "completed" /\ r.task \in Items(plan[m]) =>
            activity[m][r.task].done \/ r.task \in overtaken[m]

LEMMA DoneSeenStep ==
    ASSUME TInv, DoneSeen, [Next]_vars
    PROVE  DoneSeen'
  <1> USE DEF TInv, TypeOK, Items
  <1>1. CASE Tick \/ Replan \/ UNCHANGED vars
    BY <1>1 DEF Tick, Replan, vars, request, DoneSeen
  <1>2. ASSUME NEW t \in Tasks, NEW action \in Reported, Report(t, action)
        PROVE  DoneSeen'
    BY <1>2 DEF Report, request, DoneSeen
  <1>3. ASSUME NEW r \in made, Record(r)
        PROVE  DoneSeen'
    <2>1. ASSUME NEW m \in Monitors
          PROVE  overtaken'[m] = IF pc[m] = "queue" /\ r.action = "completed"
                                   THEN overtaken[m] \cup {r.task} ELSE overtaken[m]
      BY <1>3 DEF Record
    <2>2. log' = log \cup {r} /\ UNCHANGED <<pc, plan, activity>>
      BY <1>3 DEF Record
    <2> QED BY <2>1, <2>2 DEF DoneSeen
  <1>4. ASSUME NEW m \in Monitors, StartMonitor(m) \/ RunByHand(m) \/ LoadPlan(m)
        PROVE  DoneSeen'
    <2>1. \A n \in Monitors : pc'[n] = "queue" =>
             pc[n] = "queue" /\ UNCHANGED <<plan[n], activity[n], overtaken[n], log>>
      BY <1>4 DEF StartMonitor, RunByHand, LoadPlan, Finish, Goto
    <2> QED BY <2>1 DEF DoneSeen
  <1>5. ASSUME NEW m \in Monitors, LoadActivity(m)
        PROVE  DoneSeen'
    <2>1. PICK found :
            /\ \A t \in Items(plan[m]) : found[t] \in ActivityOf(t, log)
            /\ activity' = [activity EXCEPT ![m] =
                 [t \in Tasks |-> IF t \in Items(plan[m]) THEN found[t] ELSE Silent]]
      BY <1>5, Zenon DEF LoadActivity
    <2>2. UNCHANGED <<plan, overtaken, log>> /\ pc' = [pc EXCEPT ![m] = "queue"]
      BY <1>5 DEF LoadActivity, Goto
    <2>3. ASSUME NEW r \in log, r.action = "completed", r.task \in Items(plan[m])
          PROVE  activity'[m][r.task].done
      <3>1. r.task \in Tasks /\ found[r.task].done
        <4>1. log \in SUBSET Reports /\ r.task \in Tasks
          BY DEF Reports
        <4>2. found[r.task] \in ActivityOf(r.task, log)
          BY <2>1, <2>3
        <4>3. \A s \in log : s.task = r.task /\ s.action = "completed" => found[r.task].done
          BY <4>1, <4>2, ActivityType
        <4> QED BY <2>3, <4>1, <4>3
      <3>2. activity'[m] = [t \in Tasks |-> IF t \in Items(plan[m]) THEN found[t] ELSE Silent]
        BY <2>1
      <3>3. activity'[m][r.task] = found[r.task]
        BY <2>3, <3>1, <3>2
      <3> QED BY <3>1, <3>3
    <2>4. \A n \in Monitors \ {m} : activity'[n] = activity[n] /\ pc'[n] = pc[n]
      BY <2>1, <2>2
    <2> QED BY <2>2, <2>3, <2>4 DEF DoneSeen
  <1>6. ASSUME NEW m \in Monitors, QueueMessages(m) \/ Abort(m)
        PROVE  DoneSeen'
    <2>1. \A n \in Monitors : pc'[n] = "queue" =>
             pc[n] = "queue" /\ UNCHANGED <<plan[n], activity[n], overtaken[n], log>>
      BY <1>6 DEF QueueMessages, Abort, Finish, Goto
    <2> QED BY <2>1 DEF DoneSeen
  <1> QED BY <1>1, <1>2, <1>3, <1>4, <1>5, <1>6 DEF Next, Step

(* Messages are added to the outbox by a monitor request and in no other way. *)
LEMMA OutboxStep ==
    ASSUME [Next]_vars
    PROVE  \/ UNCHANGED outbox
           \/ \E m \in Monitors :
                QueueMessages(m) /\ outbox' \ outbox \subseteq Questions(m)
  BY DEF Next, Step, Tick, Replan, Report, Record, StartMonitor, RunByHand, LoadPlan, LoadActivity,
         QueueMessages, Abort, vars

(* Whatever overlaps: no message asks about a task whose completion was in the log
   when the request read it. *)
THEOREM DoneLeftAlone == Spec => DoneIsLeftAlone
  <1> DEFINE Inv == TInv /\ DoneSeen
             Left == \A new \in outbox' \ outbox : \A r \in log :
                        r.action = "completed" /\ r.task \in new.about
                          => \E m \in Monitors : r.task \in overtaken[m]
  <1>1. Init => Inv
    BY TypeInit DEF Init, DoneSeen
  <1>2. Inv /\ [Next]_vars => Inv'
    BY TypeStep, DoneSeenStep
  <1>3. Inv /\ [Next]_vars => [Left]_vars
    <2> SUFFICES ASSUME Inv, [Next]_vars, NEW new \in outbox' \ outbox, NEW r \in log,
                        r.action = "completed", r.task \in new.about
                 PROVE  \E m \in Monitors : r.task \in overtaken[m]
      OBVIOUS
    <2>1. PICK m \in Monitors : QueueMessages(m) /\ new \in Questions(m)
      BY OutboxStep
    <2>2. r.task \in Items(plan[m]) /\ ~ activity[m][r.task].done
      BY <2>1, QuestionType DEF QueueMessages
    <2> QED BY <2>1, <2>2 DEF DoneSeen, QueueMessages
  <1> HIDE DEF Inv, Left
  <1>4. Spec => []Inv
    BY <1>1, <1>2, PTL DEF Spec
  <1>5. Spec => [][Left]_vars
    BY <1>3, <1>4, PTL DEF Spec
  <1> QED BY <1>5 DEF DoneIsLeftAlone, Left

-----------------------------------------------------------------------------
(* Every message has its ground, whatever overlaps. *)

(* While no cycle was run by hand, a request's clock is not ahead; an action it read
   is one of the log. *)
ReadInLog ==
    \A m \in Monitors :
        /\ manual = 0 => stamp[m] <= now
        /\ pc[m] = "queue" => \A t \in Items(plan[m]) :
              activity[m][t].latest # "none" =>
                \E r \in log : /\ r.task = t
                               /\ r.action = activity[m][t].latest
                               /\ r.at = activity[m][t].at

LEMMA ActivityIsReported ==
    ASSUME NEW t, NEW reports \in SUBSET Reports, NEW a \in ActivityOf(t, reports),
           a.latest # "none"
    PROVE  \E r \in reports : r.task = t /\ r.action = a.latest /\ r.at = a.at
  <1> DEFINE own  == {r \in reports : r.task = t}
             done == \E r \in own : r.action = "completed"
  <1>1. CASE own = {}
    BY <1>1 DEF ActivityOf, Silent
  <1>2. CASE own # {}
    <2>1. PICK r \in own : a = [latest |-> r.action, at |-> r.at, done |-> done]
      BY <1>2, Zenon DEF ActivityOf
    <2> HIDE DEF done
    <2> QED BY <2>1
  <1> QED BY <1>1, <1>2

(* Time does not go back and the log only grows. *)
LEMMA Onward ==
    ASSUME TInv, [Next]_vars
    PROVE  /\ now \in Nat /\ now' \in Nat /\ now <= now'
           /\ log \subseteq log' /\ log' \in SUBSET Reports
  <1>1. now \in Nat /\ now' \in Nat /\ log' \in SUBSET Reports
    BY TypeStep, ActivityAssumption DEF TInv, TypeOK, Times
  <1>2. now' = now \/ now' = now + 1
    BY DEF Next, Step, Tick, Replan, Report, Record, StartMonitor, RunByHand, LoadPlan, LoadActivity,
           QueueMessages, Abort, vars
  <1>3. log \subseteq log'
    BY DEF Next, Step, Tick, Replan, Report, Record, StartMonitor, RunByHand, LoadPlan, LoadActivity,
           QueueMessages, Abort, vars
  <1> QED BY <1>1, <1>2, <1>3

(* A cycle that is run by hand is counted. *)
LEMMA ByTheClock ==
    ASSUME TInv, [Next]_vars, manual' = 0
    PROVE  manual = 0 /\ ~ \E m \in Monitors : RunByHand(m)
  <1>1. manual \in Nat
    BY MonitorAssumption DEF TInv, TypeOK
  <1>2. manual' = manual \/ manual' = manual + 1
    BY DEF Next, Step, Tick, Replan, Report, Record, StartMonitor, RunByHand, LoadPlan,
           LoadActivity, QueueMessages, Abort, vars
  <1>3. ASSUME NEW m \in Monitors, RunByHand(m)
        PROVE  manual' = manual + 1
    BY <1>3 DEF RunByHand
  <1> QED BY <1>1, <1>2, <1>3

LEMMA ReadInLogStep ==
    ASSUME TInv, ReadInLog, [Next]_vars
    PROVE  ReadInLog'
  <1> USE DEF TInv, TypeOK
  <1>1. /\ now \in Nat /\ now' \in Nat /\ now <= now' /\ log \subseteq log'
        /\ \A m \in Monitors : stamp[m] \in Nat
    BY Onward, ActivityAssumption DEF Times
  <1>2. ASSUME NEW m \in Monitors, manual' = 0 => stamp'[m] \in {stamp[m], now, 0},
               pc'[m] = "queue" => pc[m] = "queue" /\ UNCHANGED <<plan[m], activity[m]>>
        PROVE  /\ manual' = 0 => stamp'[m] <= now'
               /\ pc'[m] = "queue" => \A t \in Items(plan'[m]) :
                     activity'[m][t].latest # "none" =>
                       \E r \in log' : /\ r.task = t
                                       /\ r.action = activity'[m][t].latest
                                       /\ r.at = activity'[m][t].at
    <2>1. manual' = 0 => stamp'[m] <= now'
      BY <1>1, <1>2, ByTheClock DEF ReadInLog
    <2>2. ASSUME pc'[m] = "queue", NEW t \in Items(plan'[m]), activity'[m][t].latest # "none"
          PROVE  \E r \in log' : /\ r.task = t
                                 /\ r.action = activity'[m][t].latest
                                 /\ r.at = activity'[m][t].at
      <3>1. pc[m] = "queue" /\ plan'[m] = plan[m] /\ activity'[m] = activity[m]
        BY <1>2, <2>2
      <3>2. \E r \in log : /\ r.task = t
                           /\ r.action = activity[m][t].latest
                           /\ r.at = activity[m][t].at
        BY <2>2, <3>1 DEF ReadInLog
      <3> QED BY <1>1, <3>1, <3>2
    <2> QED BY <2>1, <2>2
  <1>3. CASE ~ \E m \in Monitors : LoadActivity(m)
    <2>1. ASSUME NEW m \in Monitors
          PROVE  /\ \/ stamp'[m] = stamp[m] \/ stamp'[m] = now \/ stamp'[m] = 0
                    \/ \E n \in Monitors : RunByHand(n)
                 /\ pc'[m] = "queue" => pc[m] = "queue" /\ UNCHANGED <<plan[m], activity[m]>>
      BY <1>3 DEF Next, Step, Tick, Replan, Report, Record, StartMonitor, RunByHand, LoadPlan,
                  QueueMessages, Abort, Finish, Goto, vars, request
    <2> QED BY <1>2, <2>1, ByTheClock DEF ReadInLog
  <1>4. ASSUME NEW m \in Monitors, LoadActivity(m)
        PROVE  ReadInLog'
    <2>1. PICK found :
            /\ \A t \in Items(plan[m]) : found[t] \in ActivityOf(t, log)
            /\ activity' = [activity EXCEPT ![m] =
                 [t \in Tasks |-> IF t \in Items(plan[m]) THEN found[t] ELSE Silent]]
      BY <1>4, Zenon DEF LoadActivity
    <2>2. UNCHANGED <<plan, log, stamp, now, manual>> /\ pc' = [pc EXCEPT ![m] = "queue"]
      BY <1>4 DEF LoadActivity, Goto
    <2>3. ASSUME NEW n \in Monitors, n # m
          PROVE  activity'[n] = activity[n] /\ pc'[n] = pc[n]
      <3>1. activity'[n] = activity[n]
        BY <2>1, <2>3
      <3> QED BY <2>2, <2>3, <3>1
    <2>4. ASSUME NEW t \in Items(plan[m]), activity'[m][t].latest # "none"
          PROVE  \E r \in log : /\ r.task = t
                                /\ r.action = activity'[m][t].latest
                                /\ r.at = activity'[m][t].at
      <3>1. t \in Tasks
        BY <1>4, ItemsAreTasks DEF LoadActivity, Loaded
      <3>2. activity'[m][t] = found[t]
        BY <2>1, <3>1
      <3>3. found[t] \in ActivityOf(t, log) /\ found[t].latest # "none"
        BY <2>1, <2>4, <3>2
      <3> QED BY <3>2, <3>3, ActivityIsReported
    <2>5. \A n \in Monitors : manual' = 0 => stamp'[n] <= now'
      BY <2>2 DEF ReadInLog
    <2>6. ASSUME NEW n \in Monitors, pc'[n] = "queue", NEW t \in Items(plan'[n]),
                 activity'[n][t].latest # "none"
          PROVE  \E r \in log' : /\ r.task = t
                                 /\ r.action = activity'[n][t].latest
                                 /\ r.at = activity'[n][t].at
      <3>1. CASE n = m
        BY <2>2, <2>4, <2>6, <3>1
      <3>2. CASE n # m
        <4>1. pc[n] = "queue" /\ activity'[n] = activity[n] /\ plan'[n] = plan[n]
          BY <2>2, <2>3, <2>6, <3>2
        <4> QED BY <2>2, <2>6, <4>1 DEF ReadInLog
      <3> QED BY <3>1, <3>2
    <2> QED BY <2>5, <2>6 DEF ReadInLog
  <1> QED BY <1>3, <1>4

(* A ground stays: time goes on and no report is lost. *)
LEMMA GroundStays ==
    ASSUME TInv, [Next]_vars, NEW o \in TaskMessages \cup DayMessages, Grounded(o)
    PROVE  Grounded(o)'
  <1>1. now \in Nat /\ now' \in Nat /\ now <= now' /\ log \subseteq log'
    BY Onward
  <1>2. o.token \in Plans
    BY DEF TaskMessages, DayMessages
  <1>3. \A t \in Items(o.token) : Start[o.token][t] \in Nat
    BY <1>2, ItemsAreTasks
  <1>4. {Grace, ProgressTime, BlockedTime, RecoveryTime, SummaryTime} \subseteq Nat
    BY MonitorAssumption
  <1>5. ASSUME NEW t, NEW action, NEW wait \in Nat, ReportedFor(t, action, wait)
        PROVE  ReportedFor(t, action, wait)'
    <2>1. PICK r \in log : r.task = t /\ r.action = action /\ r.at + wait <= now
      BY <1>5 DEF ReportedFor
    <2>2. r.at \in Nat
      BY ActivityAssumption DEF TInv, TypeOK, Reports, Times
    <2>3. r.at + wait <= now'
      BY <1>1, <2>1, <2>2
    <2> QED BY <1>1, <2>1, <2>3 DEF ReportedFor
  <1>6. ASSUME o.kind \in TaskKinds
        PROVE  \E t \in Items(o.token) :
                  /\ o.about = {t}
                  /\ Start[o.token][t] <= now'
                  /\ o.kind = "start-check"    => Start[o.token][t] + Grace <= now'
                  /\ o.kind = "progress-check" => ReportedFor(t, "started", ProgressTime)'
                  /\ o.kind = "blocked-check"  => ReportedFor(t, "blocked", BlockedTime)'
    <2>1. PICK t \in Items(o.token) :
                  /\ o.about = {t}
                  /\ Start[o.token][t] <= now
                  /\ o.kind = "start-check"    => Start[o.token][t] + Grace <= now
                  /\ o.kind = "progress-check" => ReportedFor(t, "started", ProgressTime)
                  /\ o.kind = "blocked-check"  => ReportedFor(t, "blocked", BlockedTime)
      BY <1>6, Zenon DEF Grounded
    <2>2. /\ Start[o.token][t] <= now'
          /\ Start[o.token][t] + Grace <= now => Start[o.token][t] + Grace <= now'
      BY <1>1, <1>3, <1>4, <2>1
    <2> QED BY <1>4, <1>5, <2>1, <2>2
  <1>7. /\ RecoveryTime <= now => RecoveryTime <= now'
        /\ SummaryTime <= now => SummaryTime <= now'
    BY <1>1, <1>4
  <1> QED BY <1>6, <1>7, Zenon DEF Grounded, Items

LEMMA QueuedIsGrounded ==
    ASSUME TInv, ReadInLog, manual = 0,
           NEW m \in Monitors, pc[m] = "queue", NEW q \in Questions(m)
    PROVE  Grounded(q)
  <1>1. /\ stamp[m] \in Nat /\ now \in Nat /\ stamp[m] <= now
        /\ {Grace, ProgressTime, BlockedTime, RecoveryTime, SummaryTime} \subseteq Nat
    BY ActivityAssumption, MonitorAssumption DEF Times, TInv, TypeOK, ReadInLog
  <1>2. /\ q.token = plan[m] /\ q.about \subseteq Items(plan[m])
        /\ \A t \in Items(plan[m]) : Start[plan[m]][t] \in Nat
    BY QuestionType, ItemsAreTasks DEF TInv, Loaded
  <1>3. CASE \E t \in Items(plan[m]) :
               /\ q.kind \in TaskKinds /\ q.about = {t}
               /\ Asks(q.kind, Start[plan[m]][t], activity[m][t], stamp[m])
    <2>1. PICK t \in Items(plan[m]) :
               /\ q.kind \in TaskKinds /\ q.about = {t}
               /\ Asks(q.kind, Start[plan[m]][t], activity[m][t], stamp[m])
      BY <1>3
    <2>2. /\ Start[plan[m]][t] <= now
          /\ q.kind = "start-check" => Start[plan[m]][t] + Grace <= now
      BY <1>1, <1>2, <2>1 DEF Asks
    <2>3. ASSUME NEW action, action # "none", NEW wait \in Nat,
                 activity[m][t].latest = action, activity[m][t].at + wait <= stamp[m]
          PROVE  ReportedFor(t, action, wait)
      <3>1. PICK r \in log : r.task = t /\ r.action = action /\ r.at = activity[m][t].at
        BY <2>3 DEF ReadInLog
      <3>2. r.at \in Nat
        BY ActivityAssumption DEF TInv, TypeOK, Reports, Times
      <3>3. r.at + wait <= now
        BY <1>1, <2>3, <3>1, <3>2
      <3> QED BY <3>1, <3>3 DEF ReportedFor
    <2>4. q.kind = "progress-check" => ReportedFor(t, "started", ProgressTime)
      <3>1. q.kind = "progress-check" =>
              activity[m][t].latest = "started" /\ activity[m][t].at + ProgressTime <= stamp[m]
        <4>1. activity[m][t].at \in Nat
          BY <1>1, <2>1, ItemsAreTasks, ActivityAssumption
             DEF TInv, TypeOK, Loaded, Activities, Times
        <4> QED BY <1>1, <2>1, <4>1 DEF Asks
      <3> QED BY <1>1, <2>3, <3>1
    <2>5. q.kind = "blocked-check" => ReportedFor(t, "blocked", BlockedTime)
      <3>1. q.kind = "blocked-check" =>
              activity[m][t].latest = "blocked" /\ activity[m][t].at + BlockedTime <= stamp[m]
        <4>1. activity[m][t].at \in Nat
          BY <1>1, <2>1, ItemsAreTasks, ActivityAssumption
             DEF TInv, TypeOK, Loaded, Activities, Times
        <4> QED BY <1>1, <2>1, <4>1 DEF Asks
      <3> QED BY <1>1, <2>3, <3>1
    <2>6. q.kind \notin DayKinds /\ q.kind # "day-recovery" /\ q.kind # "day-summary"
      BY <2>1 DEF TaskKinds, DayKinds
    <2> QED BY <1>2, <2>1, <2>2, <2>4, <2>5, <2>6 DEF Grounded
  <1>4. CASE q.kind \in DayKind(stamp[m])
    <2>1. /\ q.kind = "day-recovery" \/ q.kind = "day-summary"
          /\ q.kind = "day-recovery" => RecoveryTime <= now
          /\ q.kind = "day-summary" => SummaryTime <= now
      BY <1>1, <1>4 DEF DayKind
    <2> QED BY <1>2, <2>1 DEF Grounded, TaskKinds
  <1> QED BY <1>3, <1>4, QuestionType

(* Of the messages of one request no two have the same key. *)
LEMMA QuestionsDiffer ==
    ASSUME NEW m \in Monitors, NEW p \in Questions(m), NEW q \in Questions(m), SameKey(p, q)
    PROVE  p = q
  <1>1. \A x \in Questions(m) :
           \/ \E t \in Items(plan[m]) : /\ x.kind \in TaskKinds
                                        /\ x = [kind |-> x.kind, token |-> plan[m], about |-> {t}]
           \/ /\ x = [kind |-> x.kind, token |-> plan[m], about |-> OpenItems(m)]
              /\ x.kind \in DayKinds
    BY DEF Questions, DayKind, DayKinds
  <1>2. TaskKinds \cap DayKinds = {}
    BY DEF TaskKinds, DayKinds
  <1> QED BY <1>1, <1>2 DEF SameKey

LEMMA ReasonStep ==
    ASSUME TInv, ReadInLog, AskedForAReason, [Next]_vars
    PROVE  AskedForAReason'
  <1>1. ASSUME NEW o \in outbox, manual' = 0
        PROVE  Grounded(o)'
    BY <1>1, ByTheClock, GroundStays DEF AskedForAReason, TInv, TypeOK
  <1>2. CASE UNCHANGED outbox
    BY <1>1, <1>2 DEF AskedForAReason, SameKey
  <1>3. ASSUME NEW m \in Monitors, QueueMessages(m)
        PROVE  AskedForAReason'
    <2>1. /\ pc[m] = "queue"
          /\ outbox' = outbox \cup {q \in Questions(m) : \A o \in outbox : ~ SameKey(o, q)}
      BY <1>3 DEF QueueMessages
    <2>2. ASSUME NEW q \in Questions(m), manual' = 0
          PROVE  Grounded(q)'
      BY <2>1, <2>2, ByTheClock, QuestionType, QueuedIsGrounded, GroundStays
    <2>3. ASSUME NEW o \in outbox', NEW p \in outbox', SameKey(o, p)
          PROVE  o = p
      <3>1. SameKey(p, o)
        BY <2>3 DEF SameKey
      <3> QED BY <2>1, <2>3, <3>1, QuestionsDiffer DEF AskedForAReason
    <2> QED BY <1>1, <2>1, <2>2, <2>3 DEF AskedForAReason, SameKey
  <1> QED BY <1>2, <1>3, OutboxStep

(* Whatever overlaps: none is kept twice for a plan, and while no cycle was run by
   hand for another time, no message is early and none lacks the report it asks about. *)
THEOREM AskedWithReason == Spec => []AskedForAReason
  <1> DEFINE Inv == TInv /\ ReadInLog /\ AskedForAReason
  <1>1. Init => Inv
    BY TypeInit DEF Init, ReadInLog, AskedForAReason
  <1>2. Inv /\ [Next]_vars => Inv'
    BY TypeStep, ReadInLogStep, ReasonStep
  <1>3. Inv => AskedForAReason
    OBVIOUS
  <1> HIDE DEF Inv
  <1> QED BY <1>1, <1>2, <1>3, PTL DEF Spec

-----------------------------------------------------------------------------
(* One monitor request at a time: the messages come in the order of the day. *)

OneMonitor == \A m, n \in Monitors : m = n

(* The time by which message o can be in the outbox is over. *)
Late(o, time) ==
    /\ o.kind = "start-check" =>
         \A t \in Items(o.token) : o.about = {t} => Start[o.token][t] + Grace <= time
    /\ o.kind = "day-summary" => SummaryTime <= time

(* A request that works was stamped after the messages in the outbox were queued, as
   long as the clock stamps. *)
InOrder ==
    manual = 0 =>
    /\ \A m \in Monitors : stamp[m] <= now
    /\ \A o \in outbox : /\ Late(o, now)
                         /\ \A m \in Monitors : pc[m] # "idle" => Late(o, stamp[m])

LEMMA LateStays ==
    ASSUME NEW o \in TaskMessages \cup DayMessages, NEW time \in Times, NEW later \in Times,
           time <= later, Late(o, time)
    PROVE  Late(o, later)
  <1>1. o.token \in Plans
    BY DEF TaskMessages, DayMessages
  <1>2. \A t \in Items(o.token) : Start[o.token][t] \in Nat
    BY <1>1, ItemsAreTasks
  <1>3. time \in Nat /\ later \in Nat /\ Grace \in Nat /\ SummaryTime \in Nat
    BY ActivityAssumption, MonitorAssumption DEF Times
  <1> QED BY <1>2, <1>3 DEF Late

(* What is queued is late by the stamp of its request. *)
LEMMA QueuedIsLate ==
    ASSUME TInv, NEW m \in Monitors, pc[m] = "queue", NEW q \in Questions(m)
    PROVE  Late(q, stamp[m])
  <1>1. stamp[m] \in Nat /\ Grace \in Nat /\ SummaryTime \in Nat
    BY ActivityAssumption, MonitorAssumption DEF Times, TInv, TypeOK
  <1>2. q.token = plan[m] /\ \A t \in Items(plan[m]) : Start[plan[m]][t] \in Nat
    BY QuestionType, ItemsAreTasks DEF TInv, Loaded
  <1>3. CASE \E t \in Items(plan[m]) :
               /\ q.kind \in TaskKinds /\ q.about = {t}
               /\ Asks(q.kind, Start[plan[m]][t], activity[m][t], stamp[m])
    <2>1. PICK t \in Items(plan[m]) :
               /\ q.kind \in TaskKinds /\ q.about = {t}
               /\ Asks(q.kind, Start[plan[m]][t], activity[m][t], stamp[m])
      BY <1>3
    <2>2. q.kind = "start-check" => Start[plan[m]][t] + Grace <= stamp[m]
      BY <1>1, <1>2, <2>1 DEF Asks
    <2>3. \A u \in Items(plan[m]) : q.about = {u} => u = t
      BY <2>1
    <2>4. q.kind # "day-summary"
      BY <2>1 DEF TaskKinds
    <2> QED BY <1>2, <2>2, <2>3, <2>4 DEF Late
  <1>4. CASE q.kind \in DayKind(stamp[m])
    BY <1>1, <1>4 DEF DayKind, Late
  <1> QED BY <1>3, <1>4, QuestionType

LEMMA InOrderStep ==
    ASSUME OneMonitor, TInv, InOrder, [Next]_vars
    PROVE  InOrder'
  <1> SUFFICES ASSUME manual' = 0 PROVE InOrder'
    BY DEF InOrder
  <1> USE DEF TInv, TypeOK
  <1>0. manual = 0 /\ ~ \E m \in Monitors : RunByHand(m)
    BY ByTheClock
  <1>1. now \in Times /\ now' \in Times /\ now <= now'
    <2>1. now' \in Times
      BY TypeStep DEF TInv, TypeOK
    <2>2. now' = now \/ now' = now + 1
      BY DEF Next, Step, Tick, Replan, Report, Record, StartMonitor, RunByHand, LoadPlan, LoadActivity,
             QueueMessages, Abort, vars
    <2> QED BY <2>1, <2>2, ActivityAssumption DEF Times
  <1>2. CASE UNCHANGED <<stamp, pc, outbox>>
    <2>1. \A m \in Monitors : stamp[m] <= now'
      BY <1>0, <1>1, ActivityAssumption DEF InOrder, Times
    <2>2. \A o \in outbox : Late(o, now')
      BY <1>0, <1>1, LateStays DEF InOrder
    <2> QED BY <1>0, <1>2, <2>1, <2>2 DEF InOrder
  <1>3. CASE \/ Tick \/ Replan \/ UNCHANGED vars
             \/ \E t \in Tasks, action \in Reported : Report(t, action)
             \/ \E r \in made : Record(r)
    <2>1. UNCHANGED <<stamp, pc, outbox>>
      BY <1>3 DEF Tick, Replan, Report, Record, vars, request
    <2> QED BY <1>2, <2>1
  <1>4. ASSUME NEW m \in Monitors, StartMonitor(m)
        PROVE  InOrder'
    <2>1. \A n \in Monitors : n = m
      BY DEF OneMonitor
    <2>2. stamp'[m] = now /\ now' = now /\ outbox' = outbox
      BY <1>4 DEF StartMonitor
    <2>3. now <= now
      BY ActivityAssumption DEF Times
    <2> QED BY <1>0, <2>1, <2>2, <2>3 DEF InOrder
  <1>5. ASSUME NEW m \in Monitors, Finish(m), now' = now,
               \A o \in outbox' : Late(o, now)
        PROVE  InOrder'
    <2>1. \A n \in Monitors : n = m
      BY DEF OneMonitor
    <2>2. stamp'[m] = 0 /\ pc'[m] = "idle" /\ 0 <= now
      BY <1>5, ActivityAssumption DEF Finish, Goto, Times
    <2> QED BY <1>0, <1>5, <2>1, <2>2 DEF InOrder
  <1>6. ASSUME NEW m \in Monitors, LoadPlan(m) \/ LoadActivity(m)
        PROVE  InOrder'
    <2>1. CASE Finish(m)
      <3>1. now' = now /\ outbox' = outbox
        BY <1>6 DEF LoadPlan, LoadActivity
      <3> QED BY <1>0, <1>5, <2>1, <3>1 DEF InOrder
    <2>2. CASE ~ Finish(m)
      <3>1. /\ stamp' = stamp /\ now' = now /\ outbox' = outbox /\ pc[m] # "idle"
            /\ \A n \in Monitors : n # m => pc'[n] = pc[n]
        BY <1>6, <2>2 DEF LoadPlan, LoadActivity, Goto
      <3> QED BY <1>0, <3>1 DEF InOrder
    <2> QED BY <2>1, <2>2
  <1>7. ASSUME NEW m \in Monitors, QueueMessages(m)
        PROVE  InOrder'
    <2>1. now' = now /\ Finish(m) /\ pc[m] = "queue"
      BY <1>7 DEF QueueMessages
    <2>2. ASSUME NEW q \in Questions(m)
          PROVE  Late(q, now)
      BY <1>0, <2>1, QuestionType, QueuedIsLate, LateStays DEF InOrder
    <2>3. \A o \in outbox' : o \in outbox \/ o \in Questions(m)
      BY <1>7 DEF QueueMessages
    <2> QED BY <1>0, <1>5, <2>1, <2>2, <2>3 DEF InOrder
  <1>8. ASSUME NEW m \in Monitors, Abort(m)
        PROVE  InOrder'
    BY <1>0, <1>5, <1>8 DEF Abort, InOrder
  <1> QED BY <1>0, <1>3, <1>4, <1>6, <1>7, <1>8 DEF Next, Step

(* When monitor requests do not overlap and none is run by hand, an item is not announced as due after its
   missing start was asked about, and nothing follows the day's summary. *)
THEOREM OrderWithOneMonitor == ASSUME OneMonitor PROVE Spec => MessagesInOrder
  <1> DEFINE Inv == TInv /\ InOrder
             Ordered == manual = 0 => \A old \in outbox, new \in outbox' \ outbox :
                          new.token = old.token /\ (new.kind \in TaskKinds => new.about = old.about)
                            => <<new.kind, old.kind>> \notin Before
  <1>1. Init => Inv
    BY TypeInit, ActivityAssumption DEF Init, InOrder
  <1>2. Inv /\ [Next]_vars => Inv'
    BY TypeStep, InOrderStep
  <1>3. Inv /\ [Next]_vars => [Ordered]_vars
    <2> SUFFICES ASSUME Inv, [Next]_vars, manual = 0, NEW old \in outbox, NEW new \in outbox' \ outbox,
                        new.token = old.token, new.kind \in TaskKinds => new.about = old.about
                 PROVE  <<new.kind, old.kind>> \notin Before
      OBVIOUS
    <2>1. PICK m \in Monitors : QueueMessages(m) /\ new \in Questions(m)
      BY OutboxStep
    <2>2. pc[m] = "queue" /\ Late(old, stamp[m]) /\ stamp[m] \in Nat /\ plan[m] \in Plans
      BY <2>1, ActivityAssumption DEF QueueMessages, InOrder, TInv, TypeOK, Loaded, Times
    <2>3. new.token = plan[m]
      BY <2>1, <2>2, QuestionType
    <2>4. CASE new.kind = "due" /\ old.kind = "start-check"
      <3>1. PICK t \in Items(plan[m]) :
               new.about = {t} /\ Asks("due", Start[plan[m]][t], activity[m][t], stamp[m])
        BY <2>1, <2>2, <2>4, QuestionType DEF DayKind
      <3>2. old.about = {t}
        BY <2>4, <3>1 DEF TaskKinds
      <3>3. Start[plan[m]][t] + Grace <= stamp[m]
        BY <2>2, <2>3, <2>4, <3>1, <3>2 DEF Late
      <3>4. stamp[m] < Start[plan[m]][t] + Grace
        BY <3>1 DEF Asks
      <3>5. Start[plan[m]][t] \in Nat /\ Grace \in Nat
        BY <2>2, <3>1, ItemsAreTasks, MonitorAssumption
      <3> QED BY <2>2, <3>3, <3>4, <3>5
    <2>5. CASE new.kind = "day-recovery" /\ old.kind = "day-summary"
      <3>1. "day-recovery" \in DayKind(stamp[m])
        BY <2>1, <2>2, <2>5, QuestionType DEF TaskKinds
      <3> QED BY <2>2, <2>5, <3>1, MonitorAssumption DEF Late, DayKind
    <2> QED BY <2>4, <2>5 DEF Before
  <1> HIDE DEF Inv, Ordered
  <1>4. Spec => []Inv
    BY <1>1, <1>2, PTL DEF Spec
  <1>5. Spec => [][Ordered]_vars
    BY <1>3, <1>4, PTL DEF Spec
  <1> QED BY <1>5 DEF MessagesInOrder, Ordered
=============================================================================
