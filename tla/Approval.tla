------------------------------ MODULE Approval ------------------------------
(* What the plan of a day promises, without requests, tokens and messages: a
   plan counts as approved or rejected only by a vote of the user on that very
   plan, the user can vote only on a plan that was shown, a verdict stands until
   another plan replaces the plan, and whatever replaces it waits for a vote.
   PlanApproval implements this when requests do not overlap. *)
CONSTANTS Plans, Empty

VARIABLES
    plan,      \* the plan in force
    verdict,   \* "absent" before the first plan, "pending", "empty" or a decision
    shown,     \* the plans the user was asked about
    voted      \* the votes of the user, pairs of a plan and a decision

vars == <<plan, verdict, shown, voted>>

Verdicts == {"approved", "rejected"}

Init == plan = Empty /\ verdict = "absent" /\ shown = {} /\ voted = {}

(* Another plan comes into force and waits for a vote. *)
Adopt(c) ==
    /\ verdict = "absent" \/ c # plan
    /\ plan' = c
    /\ verdict' = "pending"
    /\ UNCHANGED <<shown, voted>>

Show ==
    /\ verdict # "absent"
    /\ shown' = shown \cup {plan}
    /\ UNCHANGED <<plan, verdict, voted>>

Vote(c, d) ==
    /\ c \in shown
    /\ voted' = voted \cup {<<c, d>>}
    /\ UNCHANGED <<plan, verdict, shown>>

Settle(d) ==
    /\ verdict = "pending"
    /\ <<plan, d>> \in voted
    /\ verdict' = d
    /\ UNCHANGED <<plan, shown, voted>>

(* A plan without items needs no vote. *)
Close ==
    /\ verdict = "pending"
    /\ plan = Empty
    /\ verdict' = "empty"
    /\ UNCHANGED <<plan, shown, voted>>

Next ==
    \/ Show \/ Close
    \/ \E c \in Plans : Adopt(c) \/ \E d \in Verdicts : Vote(c, d)
    \/ \E d \in Verdicts : Settle(d)

Spec == Init /\ [][Next]_vars
=============================================================================
