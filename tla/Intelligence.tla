----------------------------- MODULE Intelligence -----------------------------
(* What the intelligence providers may answer and what the workflow lets pass
   (intelligence.py; workflow.py, _safety_critic): the interpretation of a text
   message and the feedback on a report, by the local rules and by a language
   model.  Operators only, no state.  A confidence is a percentage.

   Wording is left out but for one thing: a feedback is "proper" when it makes
   none of the forbidden claims and uses none of the formal terms. *)
EXTENDS Activity

CONSTANTS Events,         \* reports of the day, one inbound event each
          None,           \* Python's None
          FormalTitles,   \* tasks whose title holds a formal term
          ModelActions    \* the actions a language model is tried with

ASSUME IntelligenceAssumption == FormalTitles \subseteq Tasks /\ ModelActions \subseteq Reported

Intents   == Actions \cup {"reluctance", "general", "clarification"}
Decisions == [intent : Intents, action : Reported \cup {None}, task : Tasks \cup {None},
              confidence : 0 .. 100]

-----------------------------------------------------------------------------
(* RuleBasedIntelligenceProvider.respond_to_message.  The rules know six lists
   of phrases; a text is the set of the lists it has a phrase of, and the first
   list of the six that is among them decides. *)
Sayings   == Reported \cup {"reluctance"}
ListOrder == <<"completed", "started", "blocked", "reluctance", "skipped", "rescheduled">>
Said(text, s) ==
    \E i \in DOMAIN ListOrder : /\ ListOrder[i] = s /\ s \in text
                                /\ \A j \in 1 .. i - 1 : ListOrder[j] \notin text

Undecided(intent, confidence) ==
    [intent |-> intent, action |-> None, task |-> None, confidence |-> confidence]

(* Mutant of LocalDecision: reluctance is taken for a skipped task. *)
MutLocalDecisionSkips(text, focus) ==
    IF \E s \in Actions : Said(text, s) \/ Said(text, "reluctance") THEN
        IF focus = None THEN Undecided("clarification", 50)
        ELSE LET s == IF Said(text, "reluctance") THEN "skipped"
                      ELSE CHOOSE a \in Actions : Said(text, a)
             IN  [intent |-> s, action |-> s, task |-> focus, confidence |-> 95]
    ELSE IF focus = None THEN Undecided("clarification", 80)
    ELSE Undecided("general", 60)

(* The action the text names goes to the task in focus, if there is one. *)
LocalDecision(text, focus) ==
    IF \E s \in Actions : Said(text, s) THEN
        IF focus = None THEN Undecided("clarification", 50)
        ELSE LET s == CHOOSE a \in Actions : Said(text, a)
             IN  [intent |-> s, action |-> s, task |-> focus, confidence |-> 95]
    ELSE IF Said(text, "reluctance") THEN Undecided("reluctance", 95)
    ELSE IF focus = None THEN Undecided("clarification", 80)
    ELSE Undecided("general", 60)

(* Mutant of ValidDecision: the task is not looked up in the plan. *)
MutValidDecisionAnyTask(d, known) ==
    /\ d.action = None <=> d.task = None
    /\ d.action # None => d.confidence >= 80 /\ d.intent = d.action

(* _validate_conversation_decision; known are the tasks of the plan.  A reply
   with a forbidden claim is refused too. *)
ValidDecision(d, known) ==
    /\ d.action = None <=> d.task = None
    /\ d.action # None => d.confidence >= 80 /\ d.intent = d.action
    /\ d.task # None => d.task \in known

(* The decisions a language model is tried with, and those that can come of a
   call: ResilientIntelligenceProvider falls back to the rules on any error, a
   refused decision included. *)
ModelDecisions == [intent : Reported \cup {"general"}, action : ModelActions \cup {None},
                   task : Tasks \cup {None}, confidence : {60, 90}]
Responses(model, known, text, focus) ==
    {LocalDecision(text, focus)}
        \cup {d \in ModelDecisions : model /\ ValidDecision(d, known)}

-----------------------------------------------------------------------------
(* BehaviorEvidence: the retrieved domain events and episodes of the day, and
   whether the history suffices; what is older is always there to be cited. *)
Evidence  == [events : SUBSET Events, episodes : SUBSET Events, enough : BOOLEAN]
Feedbacks == [events : SUBSET Events, episodes : SUBSET Events, confidence : 0 .. 100,
              proper : BOOLEAN]

(* RuleBasedIntelligenceProvider.generate_feedback quotes the task's title and
   cites the evidence (its first eight references). *)
LocalFeedback(task, ev) ==
    [events |-> ev.events, episodes |-> ev.episodes,
     confidence |-> IF ev.enough THEN 78 ELSE 55,
     proper |-> task \notin FormalTitles]

(* The feedbacks a language model is tried with: very sure, proper or not, citing
   what it was given or more. *)
ModelFeedbacks(ev) ==
    [events : {ev.events, Events}, episodes : {ev.episodes, Events},
     confidence : {90}, proper : BOOLEAN]

Drafts(model, task, ev) ==
    {LocalFeedback(task, ev)} \cup (IF model THEN ModelFeedbacks(ev) ELSE {})

(* _safety_critic: no unknown reference, no confidence above 0.8 on sparse
   history, no forbidden claim or formal term. *)
Passes(f, ev) ==
    /\ f.events \subseteq ev.events /\ f.episodes \subseteq ev.episodes
    /\ ~ ev.enough => f.confidence <= 80
    /\ f.proper
=============================================================================
