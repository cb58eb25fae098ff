------------------------------ MODULE Activity ------------------------------
(* What the engine makes of the user's reports of one day: the latest report of
   each task and whether the task was ever completed (storage.py,
   task_activity_for_period).  The monitor and the conversation both start from
   it.  Operators only, no state.

   A report is a domain event of a task.  Times are counted from the start of
   the local day, so every report is inside the period the code selects. *)
EXTENDS Integers

CONSTANTS Tasks,          \* task ids of the day's plans
          DayEnd,         \* the last time of the day
          Reported        \* the actions the user reports

ASSUME ActivityAssumption ==
    /\ DayEnd \in Nat
    /\ Reported \subseteq {"started", "completed", "blocked", "skipped", "rescheduled"}

Actions  == {"started", "completed", "blocked", "skipped", "rescheduled"}
Terminal == {"completed", "skipped", "rescheduled"}
Times    == 0 .. DayEnd
Reports  == [task : Tasks, action : Reported, at : Times]

(* TaskDayActivity: the latest action ("none" without a report), when it was
   reported, and counts["task.completed"] > 0. *)
Activities == [latest : Actions \cup {"none"}, at : Times, done : BOOLEAN]
Silent     == [latest |-> "none", at |-> 0, done |-> FALSE]

(* Mutant of ActivityOf: only the latest report is remembered. *)
MutActivityOfLatest(t, log) ==
    LET own    == {r \in log : r.task = t}
        newest == {r \in own : \A s \in own : s.at <= r.at}
    IN  IF own = {} THEN {Silent}
        ELSE {[latest |-> r.action, at |-> r.at, done |-> r.action = "completed"] : r \in newest}

(* The activity of a task, from the reports in log ordered by occurred_at.
   Several answers are possible when the newest reports carry the same time. *)
ActivityOf(t, log) ==
    LET own    == {r \in log : r.task = t}
        newest == {r \in own : \A s \in own : s.at <= r.at}
        done   == \E r \in own : r.action = "completed"
    IN  IF own = {} THEN {Silent}
        ELSE {[latest |-> r.action, at |-> r.at, done |-> done] : r \in newest}
=============================================================================
