------------------------------ MODULE Mailbox ------------------------------
(* What the outbox promises, without leases, batches and processes: a message
   that was put in is tried a bounded number of times, every try hands over at
   most one copy of it, "sent" is claimed only of a message that was handed
   over and "dead" only of one whose tries are used up.  It does not promise a
   single copy, nor that "sent" is the last word: a try that ends late may still
   settle the message anew.  Outbox implements this. *)
EXTENDS Integers

CONSTANTS Messages, MaxAttempts

VARIABLES
    place,    \* place[m]: "absent", "open", "sent" or "dead"
    tries,    \* tries[m]: tries begun
    handed    \* handed[m]: the tries that handed m over

vars == <<place, tries, handed>>

Init ==
    /\ place  = [m \in Messages |-> "absent"]
    /\ tries  = [m \in Messages |-> 0]
    /\ handed = [m \in Messages |-> {}]

Put(ms) ==
    /\ \A m \in ms : place[m] = "absent"
    /\ place' = [m \in Messages |-> IF m \in ms THEN "open" ELSE place[m]]
    /\ UNCHANGED <<tries, handed>>

(* A try begins for each of ms. *)
Begin(ms) ==
    /\ \A m \in ms : place[m] = "open" /\ tries[m] < MaxAttempts
    /\ tries' = [m \in Messages |-> IF m \in ms THEN tries[m] + 1 ELSE tries[m]]
    /\ UNCHANGED <<place, handed>>

(* Try k of m hands the message over, at any time after it began. *)
HandOver(m, k) ==
    /\ k <= tries[m]
    /\ k \notin handed[m]
    /\ handed' = [handed EXCEPT ![m] = @ \cup {k}]
    /\ UNCHANGED <<place, tries>>

(* A try ends: the message is sent, is to be tried again, or is given up. *)
Settle(m, p) ==
    /\ place[m] # "absent"
    /\ p = "sent" => handed[m] # {}
    /\ p = "dead" => tries[m] = MaxAttempts
    /\ place' = [place EXCEPT ![m] = p]
    /\ UNCHANGED <<tries, handed>>

Next ==
    \/ \E ms \in SUBSET Messages : Put(ms) \/ Begin(ms)
    \/ \E m \in Messages, k \in 1 .. MaxAttempts : HandOver(m, k)
    \/ \E m \in Messages, p \in {"open", "sent", "dead"} : Settle(m, p)

Spec == Init /\ [][Next]_vars
=============================================================================
