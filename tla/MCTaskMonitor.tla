---------------------------- MODULE MCTaskMonitor ----------------------------
(* Instances of TaskMonitor for TLC: two plans that share a task, which moves to
   a later time in plan B; in Schedule plan B has an item without a time too. *)
EXTENDS TaskMonitor, TLC

CONSTANTS t1, t2

Schedule == [c \in {"planA", "planB"} |->
               IF c = "planA" THEN t1 :> 1 ELSE t1 :> 2 @@ t2 :> DayEnd + 1]

OneTask == [c \in {"planA", "planB"} |-> IF c = "planA" THEN t1 :> 1 ELSE t1 :> 2]
=============================================================================
