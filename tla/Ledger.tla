------------------------------- MODULE Ledger -------------------------------
(* What idempotent ingress promises of each inbound event, without requests,
   leases and retries.  The event is registered before a request does anything
   for it.  Each insert is made once, and not before those that the same list of
   its branch names first.  The event is closed, and its sender told "processed",
   only when some list of its branch is there in full; the sender is told
   "duplicate" only of an event that is registered.  Inbox implements this
   however requests overlap, fail and are repeated.

   What it does not promise: a closed event may be opened again, by a request
   that fails late; a sender may be told "duplicate" of an event whose work is
   not done; and an event whose branch has an empty list may be closed with
   nothing made for it. *)
EXTENDS Integers, Sequences

CONSTANTS Events,
          Calls,        \* Calls[k]: the lists of inserts an event of kind k may call for
          KeyedByPlan   \* the kinds whose message another event may insert

VARIABLES
    kind,      \* kind[e]: the branch e takes
    state,     \* state[e]: "new", "open" or "closed"
    made,      \* made[e]: the inserts made
    finished,  \* finished[e]: the lists for which e was closed
    told       \* told[e]: what the sender of e was told

vars == <<kind, state, made, finished, told>>

Init ==
    /\ kind \in [Events -> DOMAIN Calls]
    /\ state    = [e \in Events |-> "new"]
    /\ made     = [e \in Events |-> {}]
    /\ finished = [e \in Events |-> {}]
    /\ told     = [e \in Events |-> {}]

Register(e) ==
    /\ state[e] = "new"
    /\ state' = [state EXCEPT ![e] = "open"]
    /\ UNCHANGED <<kind, made, finished, told>>

(* The i-th insert of a list, when those before it are made.  A request that was
   overtaken makes it after another one has closed the event. *)
Make(e, list, i) ==
    /\ state[e] # "new"
    /\ list[i] \notin made[e]
    /\ \A j \in 1 .. (i - 1) : list[j] \in made[e]
    /\ made' = [made EXCEPT ![e] = @ \cup {list[i]}]
    /\ UNCHANGED <<kind, state, finished, told>>

(* Another event of the same plan queues the message. *)
Receive(e) ==
    /\ kind[e] \in KeyedByPlan
    /\ "message" \notin made[e]
    /\ made' = [made EXCEPT ![e] = @ \cup {"message"}]
    /\ UNCHANGED <<kind, state, finished, told>>

(* Closed already, or opened again meanwhile, the event may stay as it is. *)
Close(e, list) ==
    /\ state[e] # "new"
    /\ \A i \in DOMAIN list : list[i] \in made[e]
    /\ state' \in {state, [state EXCEPT ![e] = "closed"]}
    /\ finished' = [finished EXCEPT ![e] = @ \cup {list}]
    /\ UNCHANGED <<kind, made, told>>

Reopen(e) ==
    /\ state[e] = "closed"
    /\ state' = [state EXCEPT ![e] = "open"]
    /\ UNCHANGED <<kind, made, finished, told>>

Tell(e, what) ==
    /\ what = "processed" => finished[e] # {}
    /\ what = "duplicate" => state[e] # "new"
    /\ told' = [told EXCEPT ![e] = @ \cup {what}]
    /\ UNCHANGED <<kind, state, made, finished>>

Next ==
    \E e \in Events :
      \/ Register(e) \/ Receive(e) \/ Reopen(e)
      \/ \E list \in Calls[kind[e]] :
           Close(e, list) \/ \E i \in DOMAIN list : Make(e, list, i)
      \/ \E what \in {"processed", "duplicate", "rejected"} : Tell(e, what)

Spec == Init /\ [][Next]_vars
=============================================================================
