------------------------------ MODULE MCReports ------------------------------
(* Model values and small inputs for TaskReports: a press and a text on a day
   with two tasks, the title of the second with a formal term. *)
EXTENDS TaskReports, TLC

CONSTANTS t1, t2, press1, text1

AtDef       == (press1 :> 2) @@ (text1 :> 1)
Item(t, s)  == [id |-> t, start |-> s]
PlansDef    == {<<Item(t1, 1), Item(t2, 1)>>, <<Item(t2, 3)>>}
PressesDef  == {[task |-> t1, action |-> "completed"], [task |-> t2, action |-> "started"]}
MessagesDef == {{"completed"}, {"skipped", "reluctance"}}
EarlierDef  == (t1 :> 2) @@ (t2 :> 0)

(* With the language model, only the day whose plan holds both tasks, with a press
   on the first and a reluctant text, is tried; the press on the second, which no
   plan has a part in, only with that plan too. *)
MCInit ==
    /\ Init
    /\ model => press[press1].task = t1 /\ "reluctance" \in said[text1]
    /\ model \/ press[press1].task = t2 => approved # None /\ Items(approved) = Tasks

MCSpec == MCInit /\ [][Next]_vars /\ Fairness
=============================================================================
