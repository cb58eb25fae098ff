-------------------------- MODULE TaskReportsProofs --------------------------
(* What is proved of TaskReports, for any number of reports and requests, any
   plans and any faults; and of the operators it decides by, that a text has one
   task to be about and that the local rules pass the workflow's checks. *)
EXTENDS TaskReports, FiniteSetTheorems, SequenceTheorems, TLAPS

(* The first list of phrases that decides is one the text has a phrase of. *)
LEMMA SaidIsInText ==
    ASSUME NEW text, NEW s, Said(text, s)
    PROVE  s \in text
  BY DEF Said

(* Reluctance comes before skipping and postponing. *)
LEMMA SaidNotReluctant ==
    ASSUME NEW text, NEW s \in {"skipped", "rescheduled"}, Said(text, s)
    PROVE  "reluctance" \notin text
  <1>1. PICK i \in 1 .. 6 : ListOrder[i] = s /\ \A j \in 1 .. i - 1 : ListOrder[j] \notin text
    BY DEF Said, ListOrder
  <1>2. i \in 5 .. 6
    BY <1>1 DEF ListOrder
  <1>3. ListOrder[4] = "reluctance" /\ 4 \in 1 .. i - 1
    BY <1>2 DEF ListOrder
  <1> QED BY <1>1, <1>3

(* What the local rules answer: the action is one the text names, the task is the
   one in focus, and it is sure enough to be recorded. *)
LEMMA LocalDecisionFacts ==
    ASSUME NEW text \in SUBSET Sayings, NEW focus \in Tasks \cup {None}
    PROVE  /\ LocalDecision(text, focus) \in Decisions
           /\ LocalDecision(text, focus).action = None
                \/ /\ Recordable(LocalDecision(text, focus))
                   /\ LocalDecision(text, focus).task = focus
                   /\ Said(text, LocalDecision(text, focus).action)
  <1> DEFINE s == CHOOSE a \in Actions : Said(text, a)
  <1>1. CASE \E a \in Actions : Said(text, a)
    <2>1. s \in Actions /\ Said(text, s)
      BY <1>1
    <2>2. s \in Reported /\ s # None /\ s \in Intents
      BY <2>1, SaidIsInText, ReportsAssumption DEF Sayings, Actions, Intents
    <2>3. CASE focus = None
      BY <1>1, <2>3 DEF LocalDecision, Undecided, Decisions, Intents
    <2>4. CASE focus # None
      <3>1. LocalDecision(text, focus)
              = [intent |-> s, action |-> s, task |-> focus, confidence |-> 95]
        BY <1>1, <2>4 DEF LocalDecision
      <3> HIDE DEF s
      <3> QED BY <2>1, <2>2, <2>4, <3>1 DEF Decisions, Recordable
    <2> QED BY <2>3, <2>4
  <1>2. CASE ~ \E a \in Actions : Said(text, a)
    <2>1. \E i \in {"reluctance", "clarification", "general"}, c \in {60, 80, 95} :
            LocalDecision(text, focus) = Undecided(i, c)
      BY <1>2 DEF LocalDecision
    <2> QED BY <2>1 DEF Undecided, Decisions, Intents
  <1> QED BY <1>1, <1>2

(* What may come of a call: never an action without a task of the plan, nor one
   that is not sure enough to be recorded. *)
LEMMA ResponseFacts ==
    ASSUME NEW m \in BOOLEAN, NEW known \in SUBSET Tasks, NEW text \in SUBSET Sayings,
           NEW focus \in known \cup {None}, NEW d \in Responses(m, known, text, focus)
    PROVE  /\ d \in Decisions
           /\ d.action # None => Recordable(d) /\ d.task \in known
           /\ ~ m => d = LocalDecision(text, focus)
  <1>1. CASE d = LocalDecision(text, focus)
    BY <1>1, LocalDecisionFacts DEF Recordable
  <1>2. CASE m /\ d \in ModelDecisions /\ ValidDecision(d, known)
    <2>1. /\ d \in [intent : Reported \cup {"general"}, action : ModelActions \cup {None},
                     task : Tasks \cup {None}, confidence : {60, 90}]
          /\ Reported \cup {"general"} \subseteq Intents
          /\ ModelActions \cup {None} \subseteq Reported \cup {None}
      BY <1>2, IntelligenceAssumption, ActivityAssumption DEF ModelDecisions, Intents, Actions
    <2>2. d.intent \in Intents /\ d.action \in Reported \cup {None} /\ d.confidence \in 0 .. 100
      BY <2>1
    <2>3. d \in Decisions
      BY <2>1, <2>2 DEF Decisions
    <2> QED BY <1>2, <2>2, <2>3 DEF ValidDecision, Recordable
  <1> QED BY <1>1, <1>2 DEF Responses

LEMMA FocusIsPlanned ==
    ASSUME NEW p \in Plans \cup {None}, NEW found, NEW focus \in Focus(p, found)
    PROVE  /\ Items(p) \in SUBSET Tasks
           /\ focus \in Items(p) \cup {None}
           /\ focus # None => found[focus].latest \notin Terminal
  <1>1. CASE p = None
    BY <1>1 DEF Focus, Items
  <1>2. CASE p # None
    <2>1. p \in Seq([id : Tasks, start : Nat])
      BY <1>2, ReportsAssumption
    <2>2. Items(p) = {p[i].id : i \in DOMAIN p}
      BY <1>2 DEF Items
    <2>3. \/ focus = None
          \/ \E i \in DOMAIN p : focus = p[i].id /\ found[p[i].id].latest \notin Terminal
      BY <1>2 DEF Focus
    <2>4. ASSUME NEW i \in DOMAIN p
          PROVE  p[i].id \in Tasks
      <3>1. p[i] \in [id : Tasks, start : Nat]
        BY <2>1, LenProperties, ElementOfSeq
      <3> QED BY <3>1
    <2> QED BY <2>2, <2>3, <2>4
  <1> QED BY <1>1, <1>2

(* The elements of S that R puts before all of S, and the order that numbers a of
   the elements give, where the place decides between equal numbers. *)
First(S, R)    == {i \in S : \A j \in S : <<i, j>> \in R}
Ordering(S, a) == {ss \in S \X S : \/ a[ss[1]] < a[ss[2]]
                                   \/ a[ss[1]] = a[ss[2]] /\ ss[1] <= ss[2]}

(* In a finite set ordered by R, one element and no other comes before all. *)
LEMMA FirstExists ==
    ASSUME NEW S, IsFiniteSet(S), S # {}, NEW R,
           \A i, j \in S : <<i, j>> \in R \/ <<j, i>> \in R,
           \A i, j \in S : <<i, j>> \in R /\ <<j, i>> \in R => i = j,
           \A i, j, k \in S : <<i, j>> \in R /\ <<j, k>> \in R => <<i, k>> \in R
    PROVE  \E k \in S : First(S, R) = {k}
  <1> DEFINE Upto(i) == {j \in S : <<j, i>> \in R}
             T       == {Upto(i) : i \in S}
  <1>1. T \subseteq FiniteSubsetsOf(S)
    <2>1. ASSUME NEW i \in S
          PROVE  Upto(i) \in FiniteSubsetsOf(S)
      <3>1. Upto(i) \subseteq S
        OBVIOUS
      <3> HIDE DEF Upto
      <3> QED BY <3>1, FS_Subset DEF FiniteSubsetsOf
    <2> QED BY <2>1
  <1>2. PICK U \in T : \A V \in T : <<V, U>> \notin StrictSubsetOrdering(S)
    <2>1. T # {}
      <3>1. PICK i \in S : TRUE
        OBVIOUS
      <3>2. Upto(i) \in T
        OBVIOUS
      <3> QED BY <3>2
    <2> HIDE DEF T
    <2> QED BY <1>1, <2>1, FS_StrictSubsetOrderingWellFounded, WFMin
  <1>3. PICK k \in S : U = Upto(k)
    OBVIOUS
  <1>4. ASSUME NEW j \in S, <<j, k>> \in R
        PROVE  j = k
    <2>1. Upto(j) \subseteq Upto(k) /\ Upto(j) \in T
      BY <1>4
    <2>2. Upto(j) = Upto(k)
      BY <1>2, <1>3, <2>1 DEF StrictSubsetOrdering
    <2>3. k \in Upto(j)
      BY <2>2
    <2> QED BY <1>4, <2>3
  <1>5. \A j \in S : <<k, j>> \in R
    BY <1>4
  <1>6. k \in First(S, R)
    BY <1>5 DEF First
  <1>7. ASSUME NEW i \in First(S, R)
        PROVE  i = k
    <2>1. i \in S /\ <<i, k>> \in R
      BY DEF First
    <2> QED BY <1>4, <2>1
  <1> QED BY <1>6, <1>7

(* The items of a plan in an order that two numbers a and their place give. *)
LEMMA FirstOfItems ==
    ASSUME NEW n \in Nat, NEW S \in SUBSET (1 .. n), S # {},
           NEW a, \A i \in S : a[i] \in Int
    PROVE  \E k \in S : First(S, Ordering(S, a)) = {k}
  <1> DEFINE R == Ordering(S, a)
  <1>1. IsFiniteSet(S)
    <2>1. IsFiniteSet(1 .. n)
      BY FS_Interval
    <2> QED BY <2>1, FS_Subset
  <1>2. \A i, j \in S : <<i, j>> \in R <=> a[i] < a[j] \/ (a[i] = a[j] /\ i <= j)
    BY DEF Ordering
  <1> HIDE DEF R
  <1>3. \A i \in S : i \in Int /\ a[i] \in Int
    OBVIOUS
  <1>4. ASSUME NEW i \in S, NEW j \in S
        PROVE  <<i, j>> \in R \/ <<j, i>> \in R
    <2>1. a[i] < a[j] \/ a[j] < a[i] \/ (a[i] = a[j] /\ (i <= j \/ j <= i))
      BY <1>3
    <2> QED BY <1>2, <2>1
  <1>5. \A i, j \in S : <<i, j>> \in R /\ <<j, i>> \in R => i = j
    BY <1>2, <1>3
  <1>6. \A i, j, k \in S : <<i, j>> \in R /\ <<j, k>> \in R => <<i, k>> \in R
    BY <1>2, <1>3
  <1>7. \E k \in S : First(S, R) = {k}
    BY <1>1, <1>4, <1>5, <1>6, FirstExists
  <1> QED BY <1>7 DEF R

(* There is one focus and only one: a text is never left without a task to be about
   while one of the plan's is open, and never about two. *)
THEOREM FocusIsOne ==
    ASSUME NEW p \in Plans \cup {None}, NEW found,
           \A t \in Items(p) : found[t] \in Activities
    PROVE  /\ \E focus \in Items(p) \cup {None} : Focus(p, found) = {focus}
           /\ (\E t \in Items(p) : found[t].latest \notin Terminal) => None \notin Focus(p, found)
  <1>1. CASE p = None
    BY <1>1 DEF Focus, Items
  <1>2. CASE p # None
    <2> DEFINE open   == {i \in DOMAIN p : found[p[i].id].latest \notin Terminal}
               active == {i \in open : found[p[i].id].latest \in {"started", "blocked"}}
               start  == [i \in DOMAIN p |-> p[i].start]
               since  == [i \in DOMAIN p |-> 0 - found[p[i].id].at]
    <2>1. p \in Seq([id : Tasks, start : Nat]) /\ Len(p) \in Nat /\ DOMAIN p = 1 .. Len(p)
      <3>1. p \in Seq([id : Tasks, start : Nat])
        BY <1>2, ReportsAssumption
      <3> QED BY <3>1, LenProperties
    <2>2. Items(p) = {p[i].id : i \in DOMAIN p}
      BY <1>2 DEF Items
    <2>3. ASSUME NEW i \in DOMAIN p
          PROVE  /\ p[i].id \in Tasks /\ p[i].id # None
                 /\ start[i] \in Int /\ since[i] \in Int /\ found[p[i].id].at \in Int
      <3>1. p[i] \in [id : Tasks, start : Nat]
        BY <2>1, ElementOfSeq
      <3>2. found[p[i].id].at \in Int
        BY <2>2, ActivityAssumption DEF Activities, Times
      <3> QED BY <3>1, <3>2, ReportsAssumption
    <2>4. /\ open \subseteq DOMAIN p /\ active \subseteq open
          /\ (\E t \in Items(p) : found[t].latest \notin Terminal) => open # {}
      BY <2>2
    <2>5. CASE open = {}
      <3>1. Focus(p, found) = {None}
        BY <1>2, <2>5 DEF Focus
      <3> QED BY <2>4, <2>5, <3>1
    <2>6. CASE active # {}
      <3>1. PICK k \in active : First(active, Ordering(active, since)) = {k}
        <4>1. active \in SUBSET (1 .. Len(p)) /\ \A i \in active : since[i] \in Int
          BY <2>1, <2>3, <2>4
        <4> HIDE DEF active, since
        <4> QED BY <2>1, <2>6, <4>1, FirstOfItems
      <3>2. \A i, j \in active :
              <<i, j>> \in Ordering(active, since)
              <=> \/ found[p[i].id].at > found[p[j].id].at
                  \/ found[p[i].id].at = found[p[j].id].at /\ i <= j
        <4>1. \A i \in active : since[i] = 0 - found[p[i].id].at /\ found[p[i].id].at \in Int
          BY <2>3, <2>4
        <4> HIDE DEF active, since
        <4> QED BY <4>1 DEF Ordering
      <3>3. {i \in active : \A j \in active :
                 \/ found[p[i].id].at > found[p[j].id].at
                 \/ found[p[i].id].at = found[p[j].id].at /\ i <= j} = {k}
        <4> HIDE DEF active, since
        <4> QED BY <3>1, <3>2 DEF First
      <3>4. Focus(p, found) = {p[k].id}
        BY <1>2, <2>6, <3>3 DEF Focus
      <3> QED BY <2>2, <2>3, <2>4, <3>4
    <2>7. CASE open # {} /\ active = {}
      <3>1. PICK k \in open : First(open, Ordering(open, start)) = {k}
        <4>1. open \in SUBSET (1 .. Len(p)) /\ \A i \in open : start[i] \in Int
          BY <2>1, <2>3, <2>4
        <4> HIDE DEF open, start
        <4> QED BY <2>1, <2>7, <4>1, FirstOfItems
      <3>2. {i \in open : \A j \in open :
                 \/ p[i].start < p[j].start
                 \/ p[i].start = p[j].start /\ i <= j} = {k}
        <4>1. \A i \in open : start[i] = p[i].start
          BY <2>4
        <4> HIDE DEF open, start
        <4>2. \A i, j \in open :
                <<i, j>> \in Ordering(open, start)
                <=> \/ p[i].start < p[j].start
                    \/ p[i].start = p[j].start /\ i <= j
          BY <4>1 DEF Ordering
        <4> QED BY <3>1, <4>2 DEF First
      <3>3. Focus(p, found) = {p[k].id}
        BY <1>2, <2>7, <3>2 DEF Focus
      <3> QED BY <2>2, <2>3, <2>4, <3>3
    <2> QED BY <2>5, <2>6, <2>7
  <1> QED BY <1>1, <1>2

(* The rules that the resilient provider falls back to never fail the workflow's own
   checks: their decision on a text is a valid one, at most one list of phrases
   decides it, and their feedback passes the critic but for a formal title. *)
THEOREM RulesPassTheChecks ==
    /\ \A text \in SUBSET Sayings, known \in SUBSET Tasks : \A focus \in known \cup {None} :
         ValidDecision(LocalDecision(text, focus), known)
    /\ \A text \in SUBSET Sayings : \A a, b \in Sayings :
         Said(text, a) /\ Said(text, b) => a = b
    /\ \A task \in Tasks, ev \in Evidence :
         Passes(LocalFeedback(task, ev), ev) <=> task \notin FormalTitles
  <1>1. ASSUME NEW text \in SUBSET Sayings, NEW known \in SUBSET Tasks,
               NEW focus \in known \cup {None}
        PROVE  ValidDecision(LocalDecision(text, focus), known)
    <2> DEFINE s == CHOOSE a \in Actions : Said(text, a)
    <2>1. CASE (\E a \in Actions : Said(text, a)) /\ focus # None
      <3>1. s \in Actions /\ Said(text, s)
        BY <2>1
      <3>2. s # None
        BY <3>1, SaidIsInText, ReportsAssumption DEF Sayings
      <3>3. LocalDecision(text, focus)
              = [intent |-> s, action |-> s, task |-> focus, confidence |-> 95]
        BY <2>1 DEF LocalDecision
      <3> HIDE DEF s
      <3> QED BY <2>1, <3>2, <3>3 DEF ValidDecision
    <2>2. CASE ~ ((\E a \in Actions : Said(text, a)) /\ focus # None)
      <3>1. LocalDecision(text, focus).action = None /\ LocalDecision(text, focus).task = None
        BY <2>2 DEF LocalDecision, Undecided
      <3> QED BY <3>1 DEF ValidDecision
    <2> QED BY <2>1, <2>2
  <1>2. ASSUME NEW text \in SUBSET Sayings, NEW a \in Sayings, NEW b \in Sayings,
               Said(text, a), Said(text, b)
        PROVE  a = b
    <2>1. DOMAIN ListOrder = 1 .. 6
      BY DEF ListOrder
    <2>2. PICK i \in 1 .. 6 : /\ ListOrder[i] = a /\ a \in text
                              /\ \A j \in 1 .. i - 1 : ListOrder[j] \notin text
      BY <1>2, <2>1 DEF Said
    <2>3. PICK k \in 1 .. 6 : /\ ListOrder[k] = b /\ b \in text
                              /\ \A j \in 1 .. k - 1 : ListOrder[j] \notin text
      BY <1>2, <2>1 DEF Said
    <2>4. ~ i < k /\ ~ k < i
      BY <2>2, <2>3
    <2> QED BY <2>2, <2>3, <2>4
  <1>3. ASSUME NEW task \in Tasks, NEW ev \in Evidence
        PROVE  Passes(LocalFeedback(task, ev), ev) <=> task \notin FormalTitles
    <2> DEFINE f == LocalFeedback(task, ev)
    <2>1. /\ f.events = ev.events /\ f.episodes = ev.episodes
          /\ f.proper <=> task \notin FormalTitles
          /\ ~ ev.enough => f.confidence = 55
      BY Zenon DEF LocalFeedback
    <2>2. ~ ev.enough => f.confidence <= 80
      BY <2>1
    <2> HIDE DEF f
    <2>3. Passes(f, ev) <=> f.proper
      BY <2>1, <2>2, Zenon DEF Passes
    <2> QED BY <2>1, <2>3 DEF f
  <1> QED BY <1>1, <1>2, <1>3

-----------------------------------------------------------------------------
(* What a request works on at its steps; TypeOK is inductive together with this. *)
Serves ==
    \A h \in Handlers :
      /\ pc[h] # "idle" => serving[h] \in Events
      /\ pc[h] \in {"note", "loadPlan", "respond"} => serving[h] \in Texts
      /\ pc[h] \in {"evidence", "similar", "generate"} => serving[h] \in Buttons
      /\ pc[h] \in {"record", "store"} /\ serving[h] \in Texts => decision[h] \in Behaviors
      /\ pc[h] \notin {"generate", "reply", "complete"} => attempts[h] = 0
      /\ pc[h] = "generate" => attempts[h] \in {0, 1}

TInv == TypeOK /\ Serves

LEMMA TypeInit == ASSUME Init PROVE TInv
  <1> USE ReportsAssumption DEF Init, TInv
  <1>1. [task |-> None, action |-> None] \in Replies
    BY DEF Replies
  <1>2. [events |-> {}, episodes |-> {}, enough |-> FALSE] \in Evidence
    BY DEF Evidence
  <1>3. [events |-> {}, episodes |-> {}, confidence |-> 0, proper |-> FALSE] \in Feedbacks
    BY DEF Feedbacks
  <1>4. TypeOK
    BY <1>1, <1>2, <1>3 DEF TypeOK, NoDecision, NoEvidence, NoFeedback, Steps, Answers
  <1>5. Serves
    BY DEF Serves
  <1> QED BY <1>4, <1>5

(* The end of a request, however it ends. *)
LEMMA TypeFinish ==
    ASSUME TInv, NEW h \in Handlers, Finish(h),
           UNCHANGED <<world, approved, noted, recorded, episode, outbox, tries, repeated>>,
           completed' \subseteq Events, leased' \subseteq Events, told' \in [Events -> Answers],
           faults' \in 0 .. MaxFaults
    PROVE  TInv'
  <1>1. NoDecision \in Replies /\ NoEvidence \in Evidence /\ NoFeedback \in Feedbacks
    BY DEF NoDecision, NoEvidence, NoFeedback, Replies, Evidence, Feedbacks
  <1>2. TypeOK'
    BY <1>1 DEF TInv, TypeOK, Finish, Goto, world, Steps
  <1>3. Serves'
    BY DEF TInv, TypeOK, Serves, Finish, Goto
  <1> QED BY <1>2, <1>3 DEF TInv

(* What is about to be persisted is a task and an action. *)
LEMMA BehaviorType ==
    ASSUME TInv, NEW h \in Handlers,
           pc[h] \in {"record", "store", "evidence", "similar", "generate"}
    PROVE  Behavior(h) \in Behaviors
  BY ReportsAssumption DEF TInv, TypeOK, Serves, Behavior, Texts

LEMMA TypeStep == ASSUME TInv, [Next]_vars PROVE TInv'
  <1> USE DEF TInv
  <1>1. CASE Replan
    <2>1. TypeOK'
      BY <1>1, ReportsAssumption DEF Replan, TypeOK, world, store, sender, request
    <2>2. Serves'
      BY <1>1 DEF Replan, Serves, request
    <2> QED BY <2>1, <2>2
  <1>2. ASSUME NEW h \in Handlers, NEW e \in Events, Start(h, e)
        PROVE  TInv'
    <2>1. tries' \in [Events -> 0 .. MaxTries] /\ leased' \subseteq Events /\ told' = told
      BY <1>2, ReportsAssumption DEF Start, Sends, TypeOK
    <2>2. TypeOK'
      BY <1>2, <2>1 DEF Start, TypeOK, Steps, ButtonSteps, TextSteps, Goto, world, store
    <2>3. Serves'
      BY <1>2 DEF Start, TypeOK, Serves, Goto, Texts
    <2> QED BY <2>2, <2>3
  <1>3. ASSUME NEW h \in Handlers, NoteText(h)
        PROVE  TInv'
    <2>1. TypeOK'
      BY <1>3 DEF NoteText, TypeOK, Serves, Steps, TextSteps, Goto, world, sender, history
    <2>2. Serves'
      BY <1>3 DEF NoteText, TypeOK, Serves, Goto
    <2> QED BY <2>1, <2>2
  <1>4. ASSUME NEW h \in Handlers, LoadPlan(h)
        PROVE  TInv'
    <2>1. TypeOK'
      BY <1>4 DEF LoadPlan, TypeOK, Steps, TextSteps, Goto, world, sender, store, history
    <2>2. Serves'
      BY <1>4 DEF LoadPlan, TypeOK, Serves, Goto
    <2> QED BY <2>1, <2>2
  <1>5. ASSUME NEW h \in Handlers, Respond(h)
        PROVE  TInv'
    <2>1. PICK found, focus, d :
            /\ focus \in Focus(plan[h], found)
            /\ d \in Responses(model, Items(plan[h]), said[serving[h]], focus)
            /\ decision' = [decision EXCEPT ![h] = [task |-> d.task, action |-> d.action]]
            /\ Goto(h, IF Recordable(d) THEN "record" ELSE "reply")
      BY <1>5, Zenon DEF Respond
    <2>2. plan[h] \in Plans \cup {None} /\ said[serving[h]] \in SUBSET Sayings /\ model \in BOOLEAN
      BY <1>5, ReportsAssumption DEF Respond, TypeOK, Serves
    <2>3. Items(plan[h]) \in SUBSET Tasks /\ focus \in Items(plan[h]) \cup {None}
      BY <2>1, <2>2, FocusIsPlanned
    <2>4. d \in Decisions
      BY <2>1, <2>2, <2>3, ResponseFacts
    <2>5. /\ decision'[h] \in Replies
          /\ Recordable(d) => decision'[h] \in Behaviors
      BY <2>1, <2>4 DEF Decisions, Replies, Behaviors, Recordable, TypeOK
    <2>6. TypeOK'
      BY <1>5, <2>1, <2>5 DEF Respond, TypeOK, Steps, Goto, world, sender, store, history, TextSteps
    <2>7. Serves'
      BY <1>5, <2>1, <2>5 DEF Respond, TypeOK, Serves, Goto
    <2> QED BY <2>6, <2>7
  <1>6. ASSUME NEW h \in Handlers, Record(h)
        PROVE  TInv'
    <2>1. Behavior(h) \in Behaviors /\ serving[h] \in Events
      BY <1>6, BehaviorType DEF Record, Serves
    <2>2. \A at \in OccurredAt(serving[h]) :
            [task |-> Behavior(h).task, action |-> Behavior(h).action, at |-> at] \in Reports
      BY <2>1, ReportsAssumption, ActivityAssumption DEF OccurredAt, Behaviors, Reports, Times
    <2>3. recorded' \in [Events -> Reports \cup {None}]
      BY <1>6, <2>1, <2>2 DEF Record, TypeOK
    <2>4. TypeOK'
      BY <1>6, <2>3 DEF Record, TypeOK, Steps, ButtonSteps, Goto, world, sender
    <2>5. Serves'
      BY <1>6 DEF Record, TypeOK, Serves, Goto
    <2> QED BY <2>4, <2>5
  <1>7. ASSUME NEW h \in Handlers, StoreEpisode(h)
        PROVE  TInv'
    <2>1. Behavior(h) \in Behaviors /\ serving[h] \in Events
      BY <1>7, BehaviorType DEF StoreEpisode, Serves
    <2>2. TypeOK'
      BY <1>7, <2>1 DEF StoreEpisode, TypeOK, Steps, ButtonSteps, Goto, world, sender, history
    <2>3. Serves'
      BY <1>7, <2>1 DEF StoreEpisode, TypeOK, Serves, Goto
    <2> QED BY <2>2, <2>3
  <1>8. ASSUME NEW h \in Handlers, BuildEvidence(h)
        PROVE  TInv'
    <2>1. evidence'[h] \in Evidence /\ evidence' = [evidence EXCEPT ![h] = evidence'[h]]
      BY <1>8 DEF BuildEvidence, TypeOK, Evidence, RowsOf
    <2>2. TypeOK'
      BY <1>8, <2>1 DEF BuildEvidence, TypeOK, Steps, ButtonSteps, Goto, world, sender, store, history
    <2>3. Serves'
      BY <1>8 DEF BuildEvidence, TypeOK, Serves, Goto
    <2> QED BY <2>2, <2>3
  <1>9. ASSUME NEW h \in Handlers, SimilarEpisodes(h)
        PROVE  TInv'
    <2>1. evidence'[h] \in Evidence /\ evidence' = [evidence EXCEPT ![h] = evidence'[h]]
      BY <1>9 DEF SimilarEpisodes, TypeOK, Evidence, OtherEpisodes
    <2>2. TypeOK'
      BY <1>9, <2>1 DEF SimilarEpisodes, TypeOK, Steps, ButtonSteps, Goto, world, sender, store, history
    <2>3. Serves'
      BY <1>9 DEF SimilarEpisodes, TypeOK, Serves, Goto
    <2> QED BY <2>2, <2>3
  <1>10. ASSUME NEW h \in Handlers, Generate(h)
         PROVE  TInv'
    <2>1. PICK f \in Drafts(model, Behavior(h).task, evidence[h]) :
            \/ /\ Passes(f, evidence[h])
               /\ feedback' = [feedback EXCEPT ![h] = f]
               /\ attempts' = [attempts EXCEPT ![h] = @ + 1]
               /\ Goto(h, "reply")
               /\ UNCHANGED <<serving, plan, decision, evidence, overtaken, completed,
                              leased, faults>>
            \/ /\ Refused(f, Behavior(h).task, evidence[h])
               /\ attempts[h] + 1 < 2
               /\ attempts' = [attempts EXCEPT ![h] = @ + 1]
               /\ UNCHANGED <<pc, serving, plan, decision, evidence, feedback, overtaken,
                              completed, leased>>
            \/ /\ Refused(f, Behavior(h).task, evidence[h])
               /\ Finish(h)
               /\ FailInbound(serving[h])
      BY <1>10 DEF Generate
    <2>2. /\ UNCHANGED <<world, approved, noted, recorded, episode, outbox, told, tries,
                        repeated>>
          /\ pc[h] = "generate"
      BY <1>10 DEF Generate
    <2>3. f \in Feedbacks
      <3>1. evidence[h] \in Evidence
        BY DEF TypeOK
      <3>2. CASE f = LocalFeedback(Behavior(h).task, evidence[h])
        BY <3>1, <3>2 DEF LocalFeedback, Feedbacks, Evidence
      <3>3. CASE f \in ModelFeedbacks(evidence[h])
        BY <3>1, <3>3 DEF ModelFeedbacks, Feedbacks, Evidence
      <3> QED BY <2>1, <3>2, <3>3 DEF Drafts
    <2>4. Refused(f, Behavior(h).task, evidence[h]) => faults' \in 0 .. MaxFaults
      BY ReportsAssumption DEF Refused, TypeOK
    <2>5. CASE UNCHANGED <<serving, plan, decision, evidence, overtaken, completed, leased>>
                 /\ feedback' = [feedback EXCEPT ![h] = f]
                 /\ Goto(h, "reply") /\ attempts' = [attempts EXCEPT ![h] = @ + 1]
                 /\ faults' = faults
      <3>1. TypeOK'
        BY <2>2, <2>3, <2>5 DEF TypeOK, Serves, Steps, Goto, world
      <3>2. Serves'
        BY <2>2, <2>5 DEF TypeOK, Serves, Goto
      <3> QED BY <3>1, <3>2
    <2>6. CASE UNCHANGED <<pc, serving, plan, decision, evidence, feedback, overtaken, completed,
                            leased>>
                 /\ attempts[h] + 1 < 2 /\ attempts' = [attempts EXCEPT ![h] = @ + 1]
                 /\ Refused(f, Behavior(h).task, evidence[h])
      <3>1. TypeOK'
        BY <2>2, <2>4, <2>6 DEF TypeOK, world
      <3>2. Serves'
        BY <2>2, <2>6 DEF TypeOK, Serves
      <3> QED BY <3>1, <3>2
    <2>7. CASE /\ Refused(f, Behavior(h).task, evidence[h])
               /\ Finish(h)
               /\ FailInbound(serving[h])
      <3>1. completed' \subseteq Events /\ leased' \subseteq Events /\ told' \in [Events -> Answers]
        BY <2>2, <2>7 DEF FailInbound, TypeOK
      <3> QED BY <2>2, <2>4, <2>7, <3>1, TypeFinish
    <2> QED BY <2>1, <2>5, <2>6, <2>7
  <1>11. ASSUME NEW h \in Handlers, QueueReply(h)
         PROVE  TInv'
    <2>1. TypeOK'
      BY <1>11 DEF QueueReply, TypeOK, Serves, Steps, Goto, world, sender, history
    <2>2. Serves'
      BY <1>11 DEF QueueReply, TypeOK, Serves, Goto
    <2> QED BY <2>1, <2>2
  <1>12. ASSUME NEW h \in Handlers, Complete(h)
         PROVE  TInv'
    <2>1. /\ serving[h] \in Events
          /\ completed' = completed \cup {serving[h]}
          /\ leased' = leased \ {serving[h]}
          /\ told' = told \/ told' = [told EXCEPT ![serving[h]] = "completed"]
          /\ faults' = faults \/ (faults < MaxFaults /\ faults' = faults + 1)
      BY <1>12 DEF Complete, Serves
    <2>2. completed' \subseteq Events /\ leased' \subseteq Events /\ told' \in [Events -> Answers]
      BY <2>1 DEF TypeOK, Answers
    <2>3. faults' \in 0 .. MaxFaults
      BY <2>1, ReportsAssumption DEF TypeOK
    <2>4. /\ Finish(h)
          /\ UNCHANGED <<world, approved, noted, recorded, episode, outbox, tries, repeated>>
      BY <1>12 DEF Complete
    <2> QED BY <2>2, <2>3, <2>4, TypeFinish
  <1>13. ASSUME NEW h \in Handlers, Fail(h) \/ Die(h)
         PROVE  TInv'
    <2>1. /\ completed' \subseteq Events /\ leased' \subseteq Events
          /\ told' \in [Events -> Answers]
          /\ faults' \in 0 .. MaxFaults
      BY <1>13, ReportsAssumption DEF Fail, Die, CutShort, FailInbound, TypeOK
    <2> QED BY <1>13, <2>1, TypeFinish DEF Fail, Die, CutShort
  <1>14. ASSUME NEW e \in Events, Duplicate(e) \/ LeaseEnds(e)
         PROVE  TInv'
    BY <1>14 DEF Duplicate, LeaseEnds, Answers, world, store, request, history, TypeOK, Serves
  <1>15. CASE UNCHANGED vars
    BY <1>15 DEF vars, world, store, sender, request, history, TypeOK, Serves
  <1> QED BY <1>1, <1>2, <1>3, <1>4, <1>5, <1>6, <1>7, <1>8, <1>9, <1>10, <1>11, <1>12,
             <1>13, <1>14, <1>15 DEF Next, Step

(* Every variable keeps its type, whatever the language model answers and
   whenever requests are cut short or overlap: in particular no third feedback is
   generated and no request starts from what another left behind. *)
THEOREM TypeCorrect == Spec => []TypeOK
  <1>1. Spec => []TInv
    BY TypeInit, TypeStep, PTL DEF Spec
  <1>2. TInv => TypeOK
    BY DEF TInv
  <1> QED BY <1>1, <1>2, PTL

-----------------------------------------------------------------------------
(* What a step leaves alone. *)

(* Answering a duplicate and the end of a lease touch no request and no row that is
   read by one. *)
Inbound == \E e \in Events : Duplicate(e) \/ LeaseEnds(e)

LEMMA InboundFrame ==
    ASSUME Inbound
    PROVE  UNCHANGED <<world, approved, store, request, history>>
  BY DEF Inbound, Duplicate, LeaseEnds

LEMMA NextCases ==
    ASSUME [Next]_vars
    PROVE  \/ Replan \/ Inbound \/ UNCHANGED vars
           \/ \E h \in Handlers : Step(h) \/ CutShort(h) \/ \E e \in Events : Start(h, e)
  BY DEF Next, Inbound, Fail, Die

(* A request is not touched by the steps of the others. *)
LEMMA Quiet ==
    ASSUME TInv, [Next]_vars, NEW h \in Handlers
    PROVE  \/ Step(h) \/ CutShort(h) \/ \E e \in Events : Start(h, e)
           \/ UNCHANGED <<pc[h], serving[h], plan[h], decision[h], evidence[h], feedback[h],
                          attempts[h]>>
  <1> USE DEF TInv, TypeOK, request
  <1>1. CASE Replan \/ Inbound \/ UNCHANGED vars
    BY <1>1, InboundFrame DEF Replan, vars
  <1>2. ASSUME NEW g \in Handlers, g # h, Step(g)
        PROVE  UNCHANGED <<pc[h], serving[h], plan[h], decision[h], evidence[h], feedback[h],
                           attempts[h]>>
    <2>1. CASE NoteText(g) \/ LoadPlan(g) \/ Respond(g) \/ Record(g) \/ StoreEpisode(g)
      BY <1>2, <2>1 DEF NoteText, LoadPlan, Respond, Record, StoreEpisode, Goto
    <2>2. CASE BuildEvidence(g) \/ SimilarEpisodes(g) \/ QueueReply(g) \/ Complete(g)
      BY <1>2, <2>2 DEF BuildEvidence, SimilarEpisodes, QueueReply, Complete, Goto, Finish
    <2>3. CASE Generate(g)
      BY <1>2, <2>3 DEF Generate, Goto, Finish
    <2> QED BY <1>2, <2>1, <2>2, <2>3 DEF Step
  <1>3. ASSUME NEW g \in Handlers, g # h, CutShort(g) \/ \E e \in Events : Start(g, e)
        PROVE  UNCHANGED <<pc[h], serving[h], plan[h], decision[h], evidence[h], feedback[h],
                           attempts[h]>>
    BY <1>3 DEF CutShort, Start, Goto, Finish
  <1> QED BY <1>1, <1>2, <1>3, NextCases

(* Rows are inserted and never changed. *)
LEMMA Growth ==
    ASSUME TInv, [Next]_vars
    PROVE  /\ noted \subseteq noted' /\ press' = press
           /\ \A e \in Events : recorded[e] # None => recorded'[e] = recorded[e]
           /\ \A e \in Events : episode[e] # None => episode'[e] = episode[e]
  <1> USE DEF TInv, TypeOK, store, world
  <1>1. CASE Replan \/ Inbound \/ UNCHANGED vars
    BY <1>1, InboundFrame DEF Replan, vars
  <1>2. ASSUME NEW h \in Handlers, Step(h) \/ CutShort(h) \/ \E e \in Events : Start(h, e)
        PROVE  /\ noted \subseteq noted' /\ press' = press
               /\ \A e \in Events : recorded[e] # None => recorded'[e] = recorded[e]
               /\ \A e \in Events : episode[e] # None => episode'[e] = episode[e]
    <2>1. CASE Record(h) \/ StoreEpisode(h)
      BY <2>1 DEF Record, StoreEpisode
    <2>2. CASE NoteText(h) \/ LoadPlan(h) \/ Respond(h) \/ QueueReply(h) \/ Complete(h)
      BY <2>2 DEF NoteText, LoadPlan, Respond, QueueReply, Complete
    <2>3. CASE BuildEvidence(h) \/ SimilarEpisodes(h) \/ Generate(h)
      BY <2>3 DEF BuildEvidence, SimilarEpisodes, Generate
    <2>4. CASE CutShort(h) \/ \E e \in Events : Start(h, e)
      BY <2>4 DEF CutShort, Start
    <2> QED BY <1>2, <2>1, <2>2, <2>3, <2>4 DEF Step
  <1> QED BY <1>1, <1>2, NextCases

(* Only the reply of a request that works on an event fills its place in the outbox. *)
LEMMA OutboxStep ==
    ASSUME TInv, [Next]_vars, NEW e \in Events
    PROVE  \/ outbox'[e] = outbox[e]
           \/ \E h \in Handlers :
                 /\ QueueReply(h) /\ serving[h] = e /\ outbox[e] = None
                 /\ outbox'[e] = IF e \in Buttons THEN feedback[h] ELSE decision[h]
  <1> USE DEF TInv, TypeOK, store
  <1>1. CASE Replan \/ Inbound \/ UNCHANGED vars
    BY <1>1, InboundFrame DEF Replan, vars
  <1>2. ASSUME NEW h \in Handlers, Step(h) \/ CutShort(h) \/ \E x \in Events : Start(h, x)
        PROVE  \/ outbox'[e] = outbox[e]
               \/ /\ QueueReply(h) /\ serving[h] = e /\ outbox[e] = None
                  /\ outbox'[e] = IF e \in Buttons THEN feedback[h] ELSE decision[h]
    <2>1. CASE QueueReply(h)
      BY <2>1 DEF QueueReply
    <2>2. CASE NoteText(h) \/ LoadPlan(h) \/ Respond(h) \/ Record(h) \/ StoreEpisode(h)
      BY <2>2 DEF NoteText, LoadPlan, Respond, Record, StoreEpisode
    <2>3. CASE BuildEvidence(h) \/ SimilarEpisodes(h) \/ Generate(h) \/ Complete(h)
      BY <2>3 DEF BuildEvidence, SimilarEpisodes, Generate, Complete
    <2>4. CASE CutShort(h) \/ \E x \in Events : Start(h, x)
      BY <2>4 DEF CutShort, Start
    <2> QED BY <1>2, <2>1, <2>2, <2>3, <2>4 DEF Step
  <1> QED BY <1>1, <1>2, NextCases

-----------------------------------------------------------------------------
(* Nothing is answered before it is stored. *)

(* What is stored of its event when a request is at a step. *)
Stored ==
    \A h \in Handlers, e \in Events : serving[h] = e =>
      /\ e \in Texts /\ pc[h] \in {"loadPlan", "respond", "record", "store", "reply"}
           => e \in noted
      /\ pc[h] = "store" => recorded[e] # None
      /\ pc[h] \in {"evidence", "similar", "generate"}
           => recorded[e] # None /\ episode[e] # None
      /\ pc[h] = "reply" /\ (e \in Buttons \/ decision[h].action # None)
           => recorded[e] # None /\ episode[e] # None

LEMMA StoredStep ==
    ASSUME TInv, Stored, [Next]_vars
    PROVE  Stored'
  <1> SUFFICES ASSUME NEW h \in Handlers, NEW e \in Events, serving'[h] = e
               PROVE  /\ e \in Texts /\ pc'[h] \in {"loadPlan", "respond",
                                                      "record", "store", "reply"}
                           => e \in noted'
                      /\ pc'[h] = "store" => recorded'[e] # None
                      /\ pc'[h] \in {"evidence", "similar", "generate"}
                           => recorded'[e] # None /\ episode'[e] # None
                      /\ pc'[h] = "reply" /\ (e \in Buttons \/ decision'[h].action # None)
                           => recorded'[e] # None /\ episode'[e] # None
    BY DEF Stored
  <1>1. /\ noted \subseteq noted'
        /\ recorded[e] # None => recorded'[e] = recorded[e]
        /\ episode[e] # None => episode'[e] = episode[e]
    BY Growth
  <1>2. CASE UNCHANGED <<pc[h], serving[h], decision[h]>>
    BY <1>1, <1>2 DEF Stored
  <1>3. CASE \E x \in Events : Start(h, x)
    BY <1>3 DEF Start, Goto, TInv, TypeOK, Texts
  <1>4. CASE NoteText(h) \/ LoadPlan(h)
    BY <1>1, <1>4 DEF NoteText, LoadPlan, Goto, TInv, TypeOK, Stored
  <1>5. CASE Respond(h)
    <2>1. PICK found, focus, d :
            /\ focus \in Focus(plan[h], found)
            /\ d \in Responses(model, Items(plan[h]), said[serving[h]], focus)
            /\ decision' = [decision EXCEPT ![h] = [task |-> d.task, action |-> d.action]]
            /\ Goto(h, IF Recordable(d) THEN "record" ELSE "reply")
      BY <1>5, Zenon DEF Respond
    <2>2. plan[h] \in Plans \cup {None} /\ said[serving[h]] \in SUBSET Sayings /\ model \in BOOLEAN
      BY <1>5, ReportsAssumption DEF Respond, TInv, TypeOK, Serves
    <2>3. Items(plan[h]) \in SUBSET Tasks /\ focus \in Items(plan[h]) \cup {None}
      BY <2>1, <2>2, FocusIsPlanned
    <2>4. d.action # None => Recordable(d)
      BY <2>1, <2>2, <2>3, ResponseFacts
    <2>5. e \in Texts /\ serving[h] = e /\ pc[h] = "respond"
      BY <1>5 DEF Respond, TInv, Serves
    <2>6. pc'[h] = IF Recordable(d) THEN "record" ELSE "reply"
      BY <2>1 DEF Goto, TInv, TypeOK
    <2>7. decision'[h].action = d.action
      BY <2>1 DEF TInv, TypeOK
    <2> QED BY <1>1, <2>4, <2>5, <2>6, <2>7 DEF Stored, Texts
  <1>6. CASE Record(h)
    <2>1. Behavior(h) \in Behaviors /\ serving[h] = e
      BY <1>6, BehaviorType DEF Record
    <2>2. recorded'[e] # None
      <3>1. CASE recorded[e] # None
        BY <1>1, <3>1
      <3>2. CASE recorded[e] = None
        <4>1. PICK at \in OccurredAt(e) :
                recorded'[e] = [task |-> Behavior(h).task, action |-> Behavior(h).action, at |-> at]
          BY <1>6, <2>1, <3>2 DEF Record, TInv, TypeOK
        <4>2. at \in Times
          BY ReportsAssumption, ActivityAssumption DEF OccurredAt, Times
        <4>3. recorded'[e] \in Reports
          BY <2>1, <4>1, <4>2 DEF Reports, Behaviors
        <4> QED BY <4>3, ReportsAssumption
      <3> QED BY <3>1, <3>2
    <2> QED BY <1>1, <1>6, <2>1, <2>2 DEF Record, Goto, TInv, TypeOK, Stored
  <1>7. CASE StoreEpisode(h)
    <2>1. Behavior(h) \in Behaviors /\ serving[h] = e
      BY <1>7, BehaviorType DEF StoreEpisode
    <2>2. episode'[e] # None
      BY <1>1, <1>7, <2>1, ReportsAssumption DEF StoreEpisode, TInv, TypeOK
    <2>3. pc'[h] \in {"evidence", "reply"} /\ pc[h] = "store"
      BY <1>7 DEF StoreEpisode, Goto, TInv, TypeOK
    <2> QED BY <1>1, <2>1, <2>2, <2>3 DEF Stored
  <1>8. CASE BuildEvidence(h) \/ SimilarEpisodes(h)
    <2>1. pc[h] \in {"evidence", "similar"} /\ pc'[h] \in {"similar", "generate"} /\ serving[h] = e
      BY <1>8 DEF BuildEvidence, SimilarEpisodes, Goto, TInv, TypeOK
    <2> QED BY <1>1, <2>1, <1>8 DEF Stored, TInv, Serves, Texts
  <1>9. CASE Generate(h)
    <2>1. CASE serving'[h] = None
      BY <2>1, ReportsAssumption
    <2>2. CASE serving'[h] # None
      <3>1. serving[h] = e /\ pc[h] = "generate" /\ pc'[h] \in {"generate", "reply"}
        BY <1>9, <2>2 DEF Generate, Finish, Goto, TInv, TypeOK
      <3>2. e \in Buttons
        BY <3>1 DEF TInv, Serves
      <3>3. recorded[e] # None /\ episode[e] # None
        BY <3>1 DEF Stored
      <3> QED BY <1>1, <3>1, <3>2, <3>3 DEF Texts
    <2> QED BY <2>1, <2>2
  <1>10. CASE QueueReply(h)
    BY <1>10 DEF QueueReply, Goto, TInv, TypeOK
  <1>11. CASE Complete(h) \/ CutShort(h)
    BY <1>11, ReportsAssumption DEF Complete, CutShort, Finish, TInv, TypeOK
  <1> QED BY <1>2, <1>3, <1>4, <1>5, <1>6, <1>7, <1>8, <1>9, <1>10, <1>11, Quiet DEF Step

(* What is stored of a press is its own task and action. *)
PressIsKept ==
    \A e \in Buttons :
      /\ recorded[e] # None => SameAs(e, press[e])
      /\ episode[e] # None => episode[e] = press[e]

LEMMA PressIsKeptStep ==
    ASSUME TInv, PressIsKept, [Next]_vars
    PROVE  PressIsKept'
  <1> SUFFICES ASSUME NEW e \in Buttons
               PROVE  /\ recorded'[e] # None => SameAs(e, press[e])'
                      /\ episode'[e] # None => episode'[e] = press'[e]
    BY Growth DEF PressIsKept, TInv, TypeOK
  <1> USE DEF TInv, TypeOK
  <1>1. e \in Events /\ press[e] \in Behaviors /\ press' = press
    BY Growth, ReportsAssumption
  <1>2. CASE UNCHANGED <<recorded[e], episode[e]>>
    BY <1>1, <1>2 DEF PressIsKept, SameAs
  <1>3. ASSUME NEW h \in Handlers, Record(h), recorded'[e] # recorded[e]
        PROVE  SameAs(e, press[e])' /\ episode'[e] = episode[e]
    <2>1. serving[h] = e /\ Behavior(h) = press[e]
      BY <1>1, <1>3 DEF Record, Behavior
    <2>2. PICK at \in OccurredAt(e) :
            recorded'[e] = [task |-> press[e].task, action |-> press[e].action, at |-> at]
      BY <1>1, <1>3, <2>1 DEF Record
    <2>3. at \in Times
      BY <1>1, ReportsAssumption, ActivityAssumption DEF OccurredAt, Times
    <2>4. recorded'[e] \in Reports
      BY <1>1, <2>2, <2>3 DEF Reports, Behaviors
    <2>5. recorded'[e] # None
      BY <2>4, ReportsAssumption
    <2>6. press[e] = [task |-> recorded'[e].task, action |-> recorded'[e].action]
      BY <1>1, <2>2 DEF Behaviors
    <2> QED BY <1>1, <1>3, <2>5, <2>6 DEF Record, SameAs
  <1>4. ASSUME NEW h \in Handlers, StoreEpisode(h), episode'[e] # episode[e]
        PROVE  episode'[e] = press[e] /\ recorded' = recorded
    BY <1>1, <1>4 DEF StoreEpisode, Behavior
  <1>5. \/ UNCHANGED <<recorded[e], episode[e]>>
        \/ \E h \in Handlers : Record(h) /\ recorded'[e] # recorded[e]
        \/ \E h \in Handlers : StoreEpisode(h) /\ episode'[e] # episode[e]
    <2>1. CASE Replan \/ Inbound \/ UNCHANGED vars
      BY <2>1, InboundFrame DEF Replan, vars, store
    <2>2. ASSUME NEW h \in Handlers, Step(h) \/ CutShort(h) \/ \E x \in Events : Start(h, x)
          PROVE  \/ UNCHANGED <<recorded[e], episode[e]>>
                 \/ Record(h) /\ recorded'[e] # recorded[e]
                 \/ StoreEpisode(h) /\ episode'[e] # episode[e]
      <3>1. CASE Record(h) \/ StoreEpisode(h)
        BY <3>1 DEF Record, StoreEpisode
      <3>2. CASE NoteText(h) \/ LoadPlan(h) \/ Respond(h) \/ QueueReply(h) \/ Complete(h)
        BY <3>2 DEF NoteText, LoadPlan, Respond, QueueReply, Complete, store
      <3>3. CASE BuildEvidence(h) \/ SimilarEpisodes(h) \/ Generate(h)
        BY <3>3 DEF BuildEvidence, SimilarEpisodes, Generate, store
      <3>4. CASE CutShort(h) \/ \E x \in Events : Start(h, x)
        BY <3>4 DEF CutShort, Start, store
      <3> QED BY <2>2, <3>1, <3>2, <3>3, <3>4 DEF Step
    <2> QED BY <2>1, <2>2, NextCases
  <1> QED BY <1>1, <1>2, <1>3, <1>4, <1>5 DEF PressIsKept, SameAs

LEMMA AnsweredStep ==
    ASSUME TInv, Stored, PressIsKept', AnsweredIsRecorded, [Next]_vars
    PROVE  AnsweredIsRecorded'
  <1> SUFFICES ASSUME NEW e \in Events, outbox'[e] # None
               PROVE  /\ e \in Texts => e \in noted'
                      /\ e \in Buttons \/ outbox'[e].action # None =>
                            recorded'[e] # None /\ episode'[e] # None
    BY DEF AnsweredIsRecorded, PressIsKept, Texts
  <1>1. /\ noted \subseteq noted'
        /\ recorded[e] # None => recorded'[e] = recorded[e]
        /\ episode[e] # None => episode'[e] = episode[e]
    BY Growth
  <1>2. CASE outbox'[e] = outbox[e]
    <2>1. e \in Buttons => episode[e] # None
      BY <1>2, ReportsAssumption DEF AnsweredIsRecorded, TInv, TypeOK
    <2> QED BY <1>1, <1>2, <2>1 DEF AnsweredIsRecorded, SameAs, Texts
  <1>3. ASSUME NEW h \in Handlers, QueueReply(h), serving[h] = e,
               outbox'[e] = IF e \in Buttons THEN feedback[h] ELSE decision[h]
        PROVE  /\ e \in Texts => e \in noted
               /\ e \in Buttons \/ outbox'[e].action # None =>
                     recorded[e] # None /\ episode[e] # None
    BY <1>3 DEF QueueReply, Stored
  <1> QED BY <1>1, <1>2, <1>3, OutboxStep

(* Whatever races, whatever is cut short: the feedback on a press is queued only
   when the press's own task and action are logged and remembered, the reply to a
   text only when the text is, and some report if the reply speaks of one. *)
THEOREM AnsweredAfterRecorded == Spec => []AnsweredIsRecorded
  <1> DEFINE Inv == TInv /\ Stored /\ PressIsKept /\ AnsweredIsRecorded
  <1>1. Init => Inv
    BY TypeInit, ReportsAssumption DEF Init, Stored, PressIsKept, AnsweredIsRecorded
  <1>2. Inv /\ [Next]_vars => Inv'
    BY TypeStep, StoredStep, PressIsKeptStep, AnsweredStep
  <1> HIDE DEF Inv
  <1>3. Inv => AnsweredIsRecorded
    BY DEF Inv
  <1> QED BY <1>1, <1>2, <1>3, PTL DEF Spec

-----------------------------------------------------------------------------
(* What is cited is in the database, and stays there. *)

(* The database has the history that a sure feedback on event e needs. *)
Enough(e) == History(press[e].task) \/ Cardinality(OtherEpisodes(e)) + Remembered >= 3

(* The database only grows, and with it what may be cited. *)
LEMMA EvidenceGrows ==
    ASSUME TInv, [Next]_vars, NEW e \in Buttons
    PROVE  /\ RowsOf(press[e].task) \subseteq RowsOf(press[e].task)'
           /\ OtherEpisodes(e) \subseteq OtherEpisodes(e)'
           /\ Enough(e) => Enough(e)'
  <1> DEFINE t == press[e].task
             own == {x \in Events : recorded[x] # None /\ recorded[x].task = t}
             ownNew == {x \in Events : recorded'[x] # None /\ recorded'[x].task = t}
             res == {x \in own : recorded[x].action # "started"}
             resNew == {x \in ownNew : recorded'[x].action # "started"}
             eps == {x \in Events \ {e} : episode[x] # None}
             epsNew == {x \in Events \ {e} : episode'[x] # None}
  <1>1. own \subseteq ownNew /\ res \subseteq resNew /\ eps \subseteq epsNew
    BY Growth
  <1>2. press'[e].task = t /\ t \in Tasks
    BY Growth, ReportsAssumption DEF TInv, TypeOK, Behaviors
  <1>3. IsFiniteSet(Events) /\ Earlier[t] \in Nat /\ Remembered \in Nat
    BY <1>2, ReportsAssumption
  <1>4. Cardinality(res) <= Cardinality(resNew) /\ Cardinality(eps) <= Cardinality(epsNew)
    <2>1. IsFiniteSet(resNew) /\ IsFiniteSet(epsNew)
      BY <1>3, FS_Subset
    <2> QED BY <1>1, <2>1, FS_Subset
  <1>5. /\ Cardinality(res) \in Nat /\ Cardinality(resNew) \in Nat
        /\ Cardinality(eps) \in Nat /\ Cardinality(epsNew) \in Nat
    <2>1. IsFiniteSet(res) /\ IsFiniteSet(resNew) /\ IsFiniteSet(eps) /\ IsFiniteSet(epsNew)
      BY <1>3, FS_Subset
    <2> QED BY <2>1, FS_CardinalityType
  <1>6. /\ Enough(e) <=> (Cardinality(res) + Earlier[t] >= 3 \/ Cardinality(eps) + Remembered >= 3)
        /\ Enough(e)' <=> (Cardinality(resNew) + Earlier[t] >= 3
                            \/ Cardinality(epsNew) + Remembered >= 3)
    BY <1>2, Zenon DEF Enough, History, Resolved, RowsOf, OtherEpisodes
  <1>7. Enough(e) => Enough(e)'
    <2> HIDE DEF res, resNew, eps, epsNew
    <2> QED BY <1>3, <1>4, <1>5, <1>6
  <1> QED BY <1>1, <1>2, <1>7 DEF RowsOf, OtherEpisodes

(* What a request has retrieved is there, and what the critic let pass holds. *)
Retrieved ==
    \A h \in Handlers, e \in Buttons :
      serving[h] = e /\ pc[h] \in {"similar", "generate"} =>
        /\ evidence[h].events \subseteq RowsOf(press[e].task)
        /\ evidence[h].episodes \subseteq OtherEpisodes(e)
        /\ evidence[h].enough => Enough(e)

Criticised ==
    \A h \in Handlers, e \in Buttons :
      serving[h] = e /\ pc[h] = "reply" =>
        /\ feedback[h].proper
        /\ feedback[h].events \subseteq RowsOf(press[e].task)
        /\ feedback[h].episodes \subseteq OtherEpisodes(e)
        /\ feedback[h].confidence > 80 => Enough(e)

LEMMA RetrievedStep ==
    ASSUME TInv, Retrieved, [Next]_vars
    PROVE  Retrieved'
  <1> SUFFICES ASSUME NEW h \in Handlers, NEW e \in Buttons, serving'[h] = e,
                      pc'[h] \in {"similar", "generate"}
               PROVE  /\ evidence'[h].events \subseteq RowsOf(press[e].task)'
                      /\ evidence'[h].episodes \subseteq OtherEpisodes(e)'
                      /\ evidence'[h].enough => Enough(e)'
    BY DEF Retrieved
  <1>1. /\ RowsOf(press[e].task) \subseteq RowsOf(press[e].task)'
        /\ OtherEpisodes(e) \subseteq OtherEpisodes(e)'
        /\ Enough(e) => Enough(e)'
    BY EvidenceGrows
  <1>2. CASE UNCHANGED <<pc[h], serving[h], evidence[h]>>
    BY <1>1, <1>2 DEF Retrieved
  <1>3. CASE BuildEvidence(h)
    <2>1. serving[h] = e /\ Behavior(h).task = press[e].task
      BY <1>3 DEF BuildEvidence, Behavior
    <2>2. /\ evidence'[h].events = RowsOf(press[e].task)
          /\ evidence'[h].episodes = {}
          /\ evidence'[h].enough => History(press[e].task)
      BY <1>3, <2>1 DEF BuildEvidence, TInv, TypeOK, History
    <2> QED BY <1>1, <2>2 DEF Enough
  <1>4. CASE SimilarEpisodes(h)
    <2> DEFINE others  == OtherEpisodes(e)
               all     == Cardinality(others) + Remembered
               nearest == IF all < 5 THEN all ELSE 5
    <2>1. serving[h] = e /\ pc[h] = "similar"
      BY <1>4 DEF SimilarEpisodes
    <2>2. PICK shown \in SUBSET others :
            evidence' = [evidence EXCEPT ![h] =
                          [events |-> @.events, episodes |-> shown,
                           enough |-> @.enough \/ nearest >= 3]]
      BY <1>4, <2>1, Zenon DEF SimilarEpisodes
    <2>3. nearest >= 3 => Enough(e)
      <3>1. Cardinality(others) \in Nat /\ Remembered \in Nat
        <4>1. IsFiniteSet(others)
          BY ReportsAssumption, FS_Subset DEF OtherEpisodes
        <4> QED BY <4>1, FS_CardinalityType, ReportsAssumption
      <3> QED BY <3>1 DEF Enough
    <2>4. evidence[h].events \subseteq RowsOf(press[e].task) /\ (evidence[h].enough => Enough(e))
      BY <2>1 DEF Retrieved
    <2> HIDE DEF nearest, others
    <2>5. /\ evidence'[h].events = evidence[h].events
          /\ evidence'[h].episodes = shown
      BY <2>2 DEF TInv, TypeOK
    <2>6. evidence'[h].enough => evidence[h].enough \/ nearest >= 3
      BY <2>2 DEF TInv, TypeOK
    <2>7. evidence'[h].enough => Enough(e)
      BY <2>3, <2>4, <2>6
    <2> QED BY <1>1, <2>4, <2>5, <2>7 DEF others
  <1>5. CASE \/ \E x \in Events : Start(h, x)
             \/ NoteText(h) \/ LoadPlan(h) \/ Respond(h) \/ Record(h) \/ StoreEpisode(h)
             \/ QueueReply(h) \/ Complete(h) \/ CutShort(h)
    BY <1>5 DEF Start, NoteText, LoadPlan, Respond, Record, StoreEpisode, QueueReply, Complete,
                CutShort, Finish, Goto, TInv, TypeOK
  <1>6. CASE Generate(h)
    <2>1. UNCHANGED <<pc[h], serving[h], evidence[h]>>
      BY <1>6 DEF Generate, Finish, Goto, TInv, TypeOK
    <2> QED BY <1>2, <2>1
  <1> QED BY <1>2, <1>3, <1>4, <1>5, <1>6, Quiet DEF Step

LEMMA CriticisedStep ==
    ASSUME TInv, Retrieved, Criticised, [Next]_vars
    PROVE  Criticised'
  <1> SUFFICES ASSUME NEW h \in Handlers, NEW e \in Buttons, serving'[h] = e, pc'[h] = "reply"
               PROVE  /\ feedback'[h].proper
                      /\ feedback'[h].events \subseteq RowsOf(press[e].task)'
                      /\ feedback'[h].episodes \subseteq OtherEpisodes(e)'
                      /\ feedback'[h].confidence > 80 => Enough(e)'
    BY DEF Criticised
  <1>1. /\ RowsOf(press[e].task) \subseteq RowsOf(press[e].task)'
        /\ OtherEpisodes(e) \subseteq OtherEpisodes(e)'
        /\ Enough(e) => Enough(e)'
    BY EvidenceGrows
  <1>2. CASE UNCHANGED <<pc[h], serving[h], feedback[h]>>
    BY <1>1, <1>2 DEF Criticised
  <1>3. CASE Generate(h)
    <2>1. PICK f \in Drafts(model, Behavior(h).task, evidence[h]) :
            Passes(f, evidence[h]) /\ feedback'[h] = f /\ serving'[h] = serving[h]
      BY <1>3 DEF Generate, Finish, Goto, TInv, TypeOK
    <2>2. pc[h] = "generate"
      BY <1>3 DEF Generate
    <2>3. f.confidence \in Nat
      <3>1. evidence[h] \in Evidence
        BY DEF TInv, TypeOK
      <3> QED BY <2>1, <3>1 DEF Drafts, LocalFeedback, ModelFeedbacks
    <2>4. /\ evidence[h].events \subseteq RowsOf(press[e].task)
          /\ evidence[h].episodes \subseteq OtherEpisodes(e)
          /\ evidence[h].enough => Enough(e)
      BY <2>1, <2>2 DEF Retrieved
    <2> QED BY <1>1, <2>1, <2>3, <2>4 DEF Passes
  <1>4. CASE \/ \E x \in Events : Start(h, x)
             \/ NoteText(h) \/ LoadPlan(h) \/ Record(h)
             \/ BuildEvidence(h) \/ SimilarEpisodes(h) \/ QueueReply(h) \/ Complete(h) \/ CutShort(h)
    BY <1>4 DEF Start, NoteText, LoadPlan, Record, BuildEvidence, SimilarEpisodes, QueueReply,
                Complete, CutShort, Finish, Goto, TInv, TypeOK
  <1>5. CASE Respond(h) \/ StoreEpisode(h)
    BY <1>5 DEF Respond, StoreEpisode, Goto, TInv, TypeOK, Serves, Texts
  <1> QED BY <1>2, <1>3, <1>4, <1>5, Quiet DEF Step

LEMMA GroundedStep ==
    ASSUME TInv, Criticised, FeedbackIsGrounded, [Next]_vars
    PROVE  FeedbackIsGrounded'
  <1> SUFFICES ASSUME NEW e \in Buttons, outbox'[e] # None
               PROVE  /\ outbox'[e].proper
                      /\ outbox'[e].events \subseteq RowsOf(press[e].task)'
                      /\ outbox'[e].episodes \subseteq OtherEpisodes(e)'
                      /\ outbox'[e].confidence > 80 => Enough(e)'
    BY DEF FeedbackIsGrounded, Enough
  <1>1. /\ RowsOf(press[e].task) \subseteq RowsOf(press[e].task)'
        /\ OtherEpisodes(e) \subseteq OtherEpisodes(e)'
        /\ Enough(e) => Enough(e)'
    BY EvidenceGrows
  <1>2. CASE outbox'[e] = outbox[e]
    BY <1>1, <1>2 DEF FeedbackIsGrounded, Enough
  <1>3. ASSUME NEW h \in Handlers, QueueReply(h), serving[h] = e, outbox'[e] = feedback[h]
        PROVE  /\ outbox'[e].proper
               /\ outbox'[e].events \subseteq RowsOf(press[e].task)
               /\ outbox'[e].episodes \subseteq OtherEpisodes(e)
               /\ outbox'[e].confidence > 80 => Enough(e)
    BY <1>3 DEF QueueReply, Criticised
  <1> QED BY <1>1, <1>2, <1>3, OutboxStep, ReportsAssumption

(* A feedback in the outbox makes no forbidden claim, cites what the database
   holds and is sure only where there is the history, whatever the language model
   wrote and whatever was recorded meanwhile. *)
THEOREM FeedbackGrounded == Spec => []FeedbackIsGrounded
  <1> DEFINE Inv == TInv /\ Retrieved /\ Criticised /\ FeedbackIsGrounded
  <1>1. Init => Inv
    BY TypeInit, ReportsAssumption DEF Init, Retrieved, Criticised, FeedbackIsGrounded
  <1>2. Inv /\ [Next]_vars => Inv'
    BY TypeStep, RetrievedStep, CriticisedStep, GroundedStep
  <1> HIDE DEF Inv
  <1>3. Inv => FeedbackIsGrounded
    BY DEF Inv
  <1> QED BY <1>1, <1>2, <1>3, PTL DEF Spec

-----------------------------------------------------------------------------
(* What a text is recorded for. *)

IsOpen(t) == \E a \in ActivityOf(t, Log) : a.latest \notin Terminal

LEMMA OpenFrame ==
    ASSUME UNCHANGED recorded, NEW t
    PROVE  IsOpen(t)' <=> IsOpen(t)
  BY DEF IsOpen, ActivityOf, Log

(* The plan a request loaded is the approved one, and what it is about to record of
   a text is a task of that plan; without a language model the task is open and the
   action one the text names; unless something came in meanwhile. *)
PlanIsApproved ==
    \A h \in Handlers : plan[h] # None /\ h \notin overtaken => plan[h] = approved

Chosen ==
    \A h \in Handlers : serving[h] \in Texts /\ pc[h] = "record" =>
      /\ decision[h].task \in Items(plan[h])
      /\ ~ model =>
           /\ \A t \in Tasks : decision[h].task = t /\ h \notin overtaken => IsOpen(t)
           /\ decision[h].action \in said[serving[h]]
           /\ decision[h].action \in {"skipped", "rescheduled"}
                => "reluctance" \notin said[serving[h]]

(* A request that is not overtaken by a step of the others looks at the same plan
   and the same reports as before it. *)
LEMMA NotOvertaken ==
    ASSUME TInv, [Next]_vars, NEW h \in Handlers, plan[h] # None, h \notin overtaken',
           ~ Step(h), ~ CutShort(h), ~ \E e \in Events : Start(h, e)
    PROVE  h \notin overtaken /\ UNCHANGED <<approved, recorded>>
  <1> USE DEF TInv, TypeOK, store, history
  <1>1. CASE Replan
    BY <1>1 DEF Replan
  <1>2. CASE Inbound \/ UNCHANGED vars
    BY <1>2, InboundFrame DEF vars
  <1>3. ASSUME NEW g \in Handlers, g # h, Step(g)
        PROVE  h \notin overtaken /\ UNCHANGED <<approved, recorded>>
    <2>1. CASE NoteText(g) \/ LoadPlan(g) \/ Respond(g) \/ StoreEpisode(g) \/ QueueReply(g)
      BY <2>1 DEF NoteText, LoadPlan, Respond, StoreEpisode, QueueReply
    <2>2. CASE BuildEvidence(g) \/ SimilarEpisodes(g)
      BY <2>2 DEF BuildEvidence, SimilarEpisodes
    <2>3. CASE Generate(g) \/ Complete(g)
      BY <1>3, <2>3 DEF Generate, Complete, Finish
    <2>4. CASE Record(g)
      BY <1>3, <2>4 DEF Record
    <2> QED BY <1>3, <2>1, <2>2, <2>3, <2>4 DEF Step
  <1>4. ASSUME NEW g \in Handlers, g # h, CutShort(g) \/ \E e \in Events : Start(g, e)
        PROVE  h \notin overtaken /\ UNCHANGED <<approved, recorded>>
    BY <1>4 DEF CutShort, Start, Finish
  <1> QED BY <1>1, <1>2, <1>3, <1>4, NextCases

LEMMA WorldFrame == ASSUME [Next]_vars PROVE UNCHANGED <<model, said, press>>
  <1>1. ASSUME NEW h \in Handlers, Step(h)
        PROVE  UNCHANGED <<model, said, press>>
    BY <1>1 DEF Step, NoteText, LoadPlan, Respond, Record, StoreEpisode, BuildEvidence,
                SimilarEpisodes, Generate, QueueReply, Complete, world
  <1>2. CASE Replan \/ Inbound \/ UNCHANGED vars
    BY <1>2, InboundFrame DEF Replan, vars, world
  <1>3. ASSUME NEW h \in Handlers, CutShort(h) \/ \E e \in Events : Start(h, e)
        PROVE  UNCHANGED <<model, said, press>>
    BY <1>3 DEF CutShort, Start, world
  <1> QED BY <1>1, <1>2, <1>3, NextCases

LEMMA PlanIsApprovedStep ==
    ASSUME TInv, PlanIsApproved, [Next]_vars
    PROVE  PlanIsApproved'
  <1> SUFFICES ASSUME NEW h \in Handlers, plan'[h] # None, h \notin overtaken'
               PROVE  plan'[h] = approved'
    BY DEF PlanIsApproved
  <1> USE DEF TInv, TypeOK, store, history
  <1>1. CASE ~ Step(h) /\ ~ CutShort(h) /\ ~ \E e \in Events : Start(h, e)
    <2>1. plan'[h] = plan[h]
      BY <1>1, Quiet
    <2> QED BY <1>1, <2>1, NotOvertaken DEF PlanIsApproved
  <1>2. CASE LoadPlan(h)
    BY <1>2 DEF LoadPlan
  <1>3. CASE \E e \in Events : Start(h, e)
    BY <1>3 DEF Start, PlanIsApproved
  <1>4. CASE NoteText(h) \/ Respond(h) \/ StoreEpisode(h) \/ QueueReply(h)
    BY <1>4 DEF NoteText, Respond, StoreEpisode, QueueReply, PlanIsApproved
  <1>5. CASE BuildEvidence(h) \/ SimilarEpisodes(h) \/ Record(h)
    BY <1>5 DEF BuildEvidence, SimilarEpisodes, Record, PlanIsApproved
  <1>6. CASE Generate(h)
    BY <1>6 DEF Generate, Finish, PlanIsApproved
  <1>7. CASE Complete(h) \/ CutShort(h)
    BY <1>7 DEF Complete, CutShort, Finish
  <1> QED BY <1>1, <1>2, <1>3, <1>4, <1>5, <1>6, <1>7 DEF Step

LEMMA ChosenStep ==
    ASSUME TInv, Chosen, [Next]_vars
    PROVE  Chosen'
  <1> SUFFICES ASSUME NEW h \in Handlers, serving'[h] \in Texts, pc'[h] = "record"
               PROVE  /\ decision'[h].task \in Items(plan'[h])
                      /\ ~ model =>
                           /\ \A t \in Tasks : decision'[h].task = t /\ h \notin overtaken'
                                => IsOpen(t)'
                           /\ decision'[h].action \in said[serving'[h]]
                           /\ decision'[h].action \in {"skipped", "rescheduled"}
                                => "reluctance" \notin said[serving'[h]]
    BY WorldFrame DEF Chosen, Items
  <1>1. CASE ~ Step(h) /\ ~ CutShort(h) /\ ~ \E e \in Events : Start(h, e)
    <2>1. UNCHANGED <<pc[h], serving[h], plan[h], decision[h]>>
      BY <1>1, Quiet
    <2>2. plan[h] # None
      BY <2>1 DEF Chosen, Items
    <2>3. ASSUME ~ model, h \notin overtaken', NEW t \in Tasks, decision'[h].task = t
          PROVE  IsOpen(t)'
      <3>1. h \notin overtaken /\ UNCHANGED recorded
        BY <1>1, <2>2, <2>3, NotOvertaken
      <3>2. IsOpen(t)
        BY <2>1, <2>3, <3>1 DEF Chosen
      <3> QED BY <3>1, <3>2, OpenFrame
    <2> QED BY <2>1, <2>3 DEF Chosen
  <1>2. CASE Respond(h)
    <2>1. PICK found, focus, d :
            /\ \A t \in Items(plan[h]) : found[t] \in ActivityOf(t, Log)
            /\ focus \in Focus(plan[h], found)
            /\ d \in Responses(model, Items(plan[h]), said[serving[h]], focus)
            /\ decision' = [decision EXCEPT ![h] = [task |-> d.task, action |-> d.action]]
            /\ Goto(h, IF Recordable(d) THEN "record" ELSE "reply")
      BY <1>2, Zenon DEF Respond
    <2>2. /\ plan[h] \in Plans \cup {None} /\ said[serving[h]] \in SUBSET Sayings
          /\ model \in BOOLEAN
      BY <1>2, ReportsAssumption DEF Respond, TInv, TypeOK, Serves
    <2>3. /\ Items(plan[h]) \in SUBSET Tasks /\ focus \in Items(plan[h]) \cup {None}
          /\ focus # None => found[focus].latest \notin Terminal
      BY <2>1, <2>2, FocusIsPlanned
    <2>4. /\ UNCHANGED <<serving, plan, overtaken, recorded>>
          /\ decision'[h].task = d.task /\ decision'[h].action = d.action
          /\ Recordable(d)
      BY <1>2, <2>1 DEF Respond, store, history, Goto, TInv, TypeOK
    <2>5. d.action # None /\ d.task # None /\ d.task \in Items(plan[h])
      BY <2>1, <2>2, <2>3, <2>4, ResponseFacts DEF Recordable
    <2>6. ASSUME ~ model
          PROVE  /\ \A t \in Tasks : d.task = t => IsOpen(t)
                 /\ d.action \in said[serving[h]]
                 /\ d.action \in {"skipped", "rescheduled"} => "reluctance" \notin said[serving[h]]
      <3>1. d = LocalDecision(said[serving[h]], focus)
        BY <2>1, <2>2, <2>3, <2>6, ResponseFacts
      <3>2. d.task = focus /\ Said(said[serving[h]], d.action)
        BY <2>2, <2>3, <2>5, <3>1, LocalDecisionFacts
      <3>3. IsOpen(focus)
        BY <2>1, <2>3, <2>5, <3>2 DEF IsOpen
      <3> QED BY <3>2, <3>3, SaidIsInText, SaidNotReluctant
    <2> QED BY <2>4, <2>5, <2>6, OpenFrame
  <1>3. CASE \E e \in Events : Start(h, e)
    BY <1>3 DEF Start, Goto, Texts, TInv, TypeOK
  <1>4. CASE NoteText(h) \/ LoadPlan(h) \/ StoreEpisode(h) \/ QueueReply(h) \/ Record(h)
    BY <1>4 DEF NoteText, LoadPlan, StoreEpisode, QueueReply, Record, Goto, TInv, TypeOK
  <1>5. CASE BuildEvidence(h) \/ SimilarEpisodes(h)
    BY <1>5 DEF BuildEvidence, SimilarEpisodes, Goto, TInv, TypeOK
  <1>6. CASE Generate(h)
    BY <1>6 DEF Generate, Finish, Goto, TInv, TypeOK
  <1>7. CASE Complete(h) \/ CutShort(h)
    BY <1>7 DEF Complete, CutShort, Finish, Goto, TInv, TypeOK
  <1> QED BY <1>1, <1>2, <1>3, <1>4, <1>5, <1>6, <1>7 DEF Step

(* The step that records a text. *)
LEMMA RecordsFacts ==
    ASSUME TInv, [Next]_vars, NEW h \in Handlers, Records(h)
    PROVE  /\ serving[h] \in Texts /\ pc[h] = "record"
           /\ recorded'[serving[h]].task = decision[h].task
           /\ recorded'[serving[h]].action = decision[h].action
           /\ decision[h] \in Behaviors
  <1>1. Step(h) \/ CutShort(h) \/ \E e \in Events : Start(h, e)
    BY Quiet DEF Records
  <1>2. Record(h)
    BY <1>1 DEF Step, Records, CutShort, Start, NoteText, LoadPlan, Respond, StoreEpisode,
                BuildEvidence, SimilarEpisodes, Generate, QueueReply, Complete, store
  <1>3. serving[h] \in Events /\ Behavior(h) = decision[h] /\ decision[h] \in Behaviors
    BY DEF Records, Texts, Behavior, TInv, Serves
  <1> QED BY <1>2, <1>3 DEF Records, Record, TInv, TypeOK

LEMMA ChosenCorrect == Spec => [](TInv /\ PlanIsApproved /\ Chosen)
  <1> DEFINE Inv == TInv /\ PlanIsApproved /\ Chosen
  <1>1. Init => Inv
    BY TypeInit DEF Init, PlanIsApproved, Chosen
  <1>2. Inv /\ [Next]_vars => Inv'
    BY TypeStep, PlanIsApprovedStep, ChosenStep
  <1> QED BY <1>1, <1>2, PTL DEF Spec

(* A text is recorded only for a task of the loaded plan, whatever the language
   model answers. *)
THEOREM TextsArePlanned == Spec => TextActionIsPlanned
  <1> DEFINE Planned ==
        \A h \in Handlers : Records(h) =>
          LET t == recorded'[serving[h]].task IN
          /\ t \in Items(plan[h])
          /\ h \notin overtaken => t \in Items(approved)
  <1>1. TInv /\ PlanIsApproved /\ Chosen /\ [Next]_vars => [Planned]_vars
    <2> SUFFICES ASSUME TInv, PlanIsApproved, Chosen, [Next]_vars, NEW h \in Handlers, Records(h)
                 PROVE  /\ recorded'[serving[h]].task \in Items(plan[h])
                        /\ h \notin overtaken => recorded'[serving[h]].task \in Items(approved)
      OBVIOUS
    <2>1. recorded'[serving[h]].task \in Items(plan[h])
      BY RecordsFacts DEF Chosen
    <2>2. plan[h] # None
      BY <2>1 DEF Items
    <2> QED BY <2>1, <2>2 DEF PlanIsApproved
  <1> QED BY <1>1, ChosenCorrect, PTL DEF Spec, TextActionIsPlanned

(* Without a language model a text is recorded for an open task and for an action
   it names. *)
THEOREM TextsGoToOpenTasks == Spec => TextGoesToOpenTask
  <1> DEFINE Goes ==
        \A h \in Handlers : Records(h) /\ ~ model =>
          LET r == recorded'[serving[h]]
              text == said[serving[h]] IN
          /\ h \notin overtaken => \E a \in ActivityOf(r.task, Log) : a.latest \notin Terminal
          /\ r.action \in text
          /\ r.action \in {"skipped", "rescheduled"} => "reluctance" \notin text
  <1>1. TInv /\ PlanIsApproved /\ Chosen /\ [Next]_vars => [Goes]_vars
    <2> SUFFICES ASSUME TInv, Chosen, [Next]_vars, NEW h \in Handlers, Records(h), ~ model
                 PROVE  LET r == recorded'[serving[h]]
                            text == said[serving[h]] IN
                        /\ h \notin overtaken =>
                              \E a \in ActivityOf(r.task, Log) : a.latest \notin Terminal
                        /\ r.action \in text
                        /\ r.action \in {"skipped", "rescheduled"} => "reluctance" \notin text
      OBVIOUS
    <2>1. /\ serving[h] \in Texts /\ pc[h] = "record"
          /\ recorded'[serving[h]].task = decision[h].task
          /\ recorded'[serving[h]].action = decision[h].action
          /\ decision[h].task \in Tasks
      BY RecordsFacts DEF Behaviors
    <2>2. h \notin overtaken => IsOpen(decision[h].task)
      BY <2>1 DEF Chosen
    <2> QED BY <2>1, <2>2 DEF Chosen, IsOpen
  <1> QED BY <1>1, ChosenCorrect, PTL DEF Spec, TextGoesToOpenTask

-----------------------------------------------------------------------------
(* A text that one request works on is recorded, remembered and answered alike. *)

(* Nothing is stored of e but the text itself. *)
Blank(e) == recorded[e] = None /\ episode[e] = None /\ outbox[e] = None

(* What is stored of e when the request that works on it, and no other did, is at a
   step; and once it is answered. *)
Alone(e) ==
    /\ \A g, h \in Handlers : serving[g] = e /\ serving[h] = e => g = h
    /\ e \notin noted => Blank(e)
    /\ \A h \in Handlers : serving[h] = e =>
         /\ pc[h] = "note" <=> e \notin noted
         /\ pc[h] \in {"loadPlan", "respond", "record"} => Blank(e)
         /\ pc[h] = "store" =>
              SameAs(e, decision[h]) /\ episode[e] = None /\ outbox[e] = None
         /\ pc[h] = "reply" =>
              /\ outbox[e] = None
              /\ IF recorded[e] = None THEN decision[h].action = None /\ episode[e] = None
                 ELSE SameAs(e, decision[h]) /\ episode[e] = decision[h]
    /\ outbox[e] # None =>
         IF recorded[e] = None THEN outbox[e].action = None /\ episode[e] = None
         ELSE SameAs(e, outbox[e]) /\ episode[e] = outbox[e]

Single == \A e \in Texts \ repeated : Alone(e)

(* What is stored of an event changes only in a step of a request that serves it. *)
LEMMA EventFrame ==
    ASSUME TInv, [Next]_vars, NEW e \in Events,
           \A h \in Handlers : Step(h) => serving[h] # e
    PROVE  /\ UNCHANGED <<recorded[e], episode[e], outbox[e]>>
           /\ e \in noted' <=> e \in noted
  <1> USE DEF TInv, TypeOK, store
  <1>1. CASE Replan \/ Inbound \/ UNCHANGED vars
    BY <1>1, InboundFrame DEF Replan, vars
  <1>2. ASSUME NEW h \in Handlers, Step(h)
        PROVE  /\ UNCHANGED <<recorded[e], episode[e], outbox[e]>>
               /\ e \in noted' <=> e \in noted
    <2>1. serving[h] # e
      BY <1>2
    <2>2. CASE NoteText(h) \/ LoadPlan(h) \/ Respond(h)
      BY <2>1, <2>2 DEF NoteText, LoadPlan, Respond
    <2>3. CASE Record(h) \/ StoreEpisode(h) \/ QueueReply(h)
      BY <2>1, <2>3 DEF Record, StoreEpisode, QueueReply
    <2>4. CASE BuildEvidence(h) \/ SimilarEpisodes(h) \/ Generate(h) \/ Complete(h)
      BY <2>4 DEF BuildEvidence, SimilarEpisodes, Generate, Complete
    <2> QED BY <1>2, <2>2, <2>3, <2>4 DEF Step
  <1>3. ASSUME NEW h \in Handlers, CutShort(h) \/ \E x \in Events : Start(h, x)
        PROVE  /\ UNCHANGED <<recorded[e], episode[e], outbox[e]>>
               /\ e \in noted' <=> e \in noted
    BY <1>3 DEF CutShort, Start
  <1> QED BY <1>1, <1>2, <1>3, NextCases

(* Who serves an event afterwards served it before, or started on it in this step. *)
LEMMA ServesFrame ==
    ASSUME TInv, [Next]_vars, NEW e \in Events, NEW h \in Handlers, serving'[h] = e
    PROVE  serving[h] = e \/ Start(h, e)
  <1> USE DEF TInv, TypeOK
  <1>1. CASE UNCHANGED serving[h]
    BY <1>1
  <1>2. CASE \E x \in Events : Start(h, x)
    BY <1>2 DEF Start
  <1>3. CASE CutShort(h) \/ Complete(h)
    BY <1>3, ReportsAssumption DEF CutShort, Complete, Finish
  <1>4. CASE Generate(h)
    BY <1>4, ReportsAssumption DEF Generate, Finish
  <1>5. CASE NoteText(h) \/ LoadPlan(h) \/ Respond(h) \/ Record(h) \/ StoreEpisode(h)
             \/ BuildEvidence(h) \/ SimilarEpisodes(h) \/ QueueReply(h)
    BY <1>5 DEF NoteText, LoadPlan, Respond, Record, StoreEpisode, BuildEvidence,
                SimilarEpisodes, QueueReply
  <1> QED BY <1>1, <1>2, <1>3, <1>4, <1>5, Quiet DEF Step

(* repeated only grows, and a request that starts on a text that another works on,
   or worked on, is a repetition. *)
LEMMA RepeatedGrows ==
    ASSUME TInv, [Next]_vars
    PROVE  repeated \subseteq repeated'
  <1>1. ASSUME NEW h \in Handlers, Step(h)
        PROVE  repeated' = repeated
    BY <1>1 DEF Step, NoteText, LoadPlan, Respond, Record, StoreEpisode, BuildEvidence,
                SimilarEpisodes, Generate, QueueReply, Complete, history
  <1>2. CASE Replan \/ Inbound \/ UNCHANGED vars
    BY <1>2, InboundFrame DEF Replan, vars, history
  <1>3. ASSUME NEW h \in Handlers, CutShort(h) \/ \E e \in Events : Start(h, e)
        PROVE  repeated \subseteq repeated'
    BY <1>3 DEF CutShort, Start
  <1> QED BY <1>1, <1>2, <1>3, NextCases

(* A step of the request that works on e. *)
LEMMA AloneWorks ==
    ASSUME TInv, [Next]_vars, NEW e \in Texts, e \notin repeated', Alone(e),
           NEW h \in Handlers, Step(h), serving[h] = e
    PROVE  Alone(e)'
  <1> USE DEF Blank, SameAs
  <1>1. e \in Events /\ e \notin Buttons
    BY DEF Texts
  <1>2. ASSUME NEW g \in Handlers, serving'[g] = e
        PROVE  g = h
    <2>1. ~ Start(g, e)
      BY <1>1 DEF Start, TInv, TypeOK
    <2> QED BY <1>1, <1>2, <2>1, ServesFrame DEF Alone
  <1>3. CASE NoteText(h)
    <2>1. /\ pc[h] = "note" /\ pc'[h] = "loadPlan" /\ e \in noted'
          /\ UNCHANGED <<recorded, episode, outbox, serving>>
      BY <1>3 DEF NoteText, Goto, TInv, TypeOK
    <2>2. Blank(e)
      BY <2>1 DEF Alone
    <2> QED BY <1>2, <2>1, <2>2 DEF Alone
  <1>4. CASE LoadPlan(h)
    <2>1. /\ pc[h] = "loadPlan" /\ pc'[h] = "respond"
          /\ UNCHANGED <<noted, recorded, episode, outbox, serving>>
      BY <1>4 DEF LoadPlan, Goto, store, TInv, TypeOK
    <2> QED BY <1>2, <2>1 DEF Alone
  <1>5. CASE Respond(h)
    <2>1. PICK found, focus, d :
            /\ focus \in Focus(plan[h], found)
            /\ d \in Responses(model, Items(plan[h]), said[serving[h]], focus)
            /\ decision' = [decision EXCEPT ![h] = [task |-> d.task, action |-> d.action]]
            /\ Goto(h, IF Recordable(d) THEN "record" ELSE "reply")
      BY <1>5, Zenon DEF Respond
    <2>2. /\ plan[h] \in Plans \cup {None} /\ said[serving[h]] \in SUBSET Sayings
          /\ model \in BOOLEAN
      BY <1>5, ReportsAssumption DEF Respond, TInv, TypeOK, Serves
    <2>3. Items(plan[h]) \in SUBSET Tasks /\ focus \in Items(plan[h]) \cup {None}
      BY <2>1, <2>2, FocusIsPlanned
    <2>4. d.action # None => Recordable(d)
      BY <2>1, <2>2, <2>3, ResponseFacts
    <2>5. /\ pc[h] = "respond" /\ UNCHANGED <<noted, recorded, episode, outbox, serving>>
          /\ decision'[h].action = d.action
          /\ pc'[h] = "record" \/ (pc'[h] = "reply" /\ ~ Recordable(d))
      BY <1>5, <2>1 DEF Respond, Goto, store, TInv, TypeOK
    <2>6. Blank(e)
      BY <2>5 DEF Alone
    <2> QED BY <1>2, <2>4, <2>5, <2>6 DEF Alone
  <1>6. CASE Record(h)
    <2>1. /\ pc[h] = "record" /\ pc'[h] = "store"
          /\ UNCHANGED <<noted, episode, outbox, serving, decision>>
      BY <1>6 DEF Record, Goto, TInv, TypeOK
    <2>2. Blank(e)
      BY <2>1 DEF Alone
    <2>3. Behavior(h) = decision[h] /\ decision[h] \in Behaviors
      BY <1>1, <2>1 DEF Behavior, TInv, Serves
    <2>4. PICK at \in OccurredAt(e) :
            recorded'[e] = [task |-> decision[h].task, action |-> decision[h].action, at |-> at]
      BY <1>1, <1>6, <2>2, <2>3 DEF Record, TInv, TypeOK
    <2>5. at \in Times
      BY <1>1, ReportsAssumption, ActivityAssumption DEF OccurredAt, Times
    <2>6. recorded'[e] \in Reports
      BY <2>3, <2>4, <2>5 DEF Reports, Behaviors
    <2>7. recorded'[e] # None
      BY <2>6, ReportsAssumption
    <2>8. decision[h] = [task |-> recorded'[e].task, action |-> recorded'[e].action]
      BY <2>3, <2>4 DEF Behaviors
    <2> QED BY <1>2, <2>1, <2>2, <2>7, <2>8 DEF Alone
  <1>7. CASE StoreEpisode(h)
    <2>1. /\ pc[h] = "store" /\ pc'[h] = "reply"
          /\ UNCHANGED <<noted, recorded, outbox, serving, decision>>
      BY <1>1, <1>7 DEF StoreEpisode, Goto, TInv, TypeOK
    <2>2. episode[e] = None /\ SameAs(e, decision[h]) /\ outbox[e] = None
      BY <2>1 DEF Alone
    <2>3. episode'[e] = decision[h]
      BY <1>1, <1>7, <2>2 DEF StoreEpisode, Behavior, TInv, TypeOK
    <2> QED BY <1>2, <2>1, <2>2, <2>3 DEF Alone
  <1>8. CASE BuildEvidence(h) \/ SimilarEpisodes(h) \/ Generate(h)
    BY <1>1, <1>8 DEF BuildEvidence, SimilarEpisodes, Generate, TInv, Serves
  <1>9. CASE QueueReply(h)
    <2>1. /\ pc[h] = "reply" /\ pc'[h] = "complete"
          /\ UNCHANGED <<noted, recorded, episode, serving, decision>>
      BY <1>9 DEF QueueReply, Goto, TInv, TypeOK
    <2>2. outbox[e] = None /\ outbox'[e] = decision[h]
      BY <1>1, <1>9, <2>1 DEF QueueReply, Alone, TInv, TypeOK
    <2>3. IF recorded[e] = None THEN decision[h].action = None /\ episode[e] = None
          ELSE SameAs(e, decision[h]) /\ episode[e] = decision[h]
      BY <2>1 DEF Alone
    <2>4. e \in noted
      BY <2>1 DEF Alone
    <2> QED BY <1>2, <2>1, <2>2, <2>3, <2>4 DEF Alone
  <1>10. CASE Complete(h)
    <2>1. /\ serving'[h] = None
          /\ UNCHANGED <<noted, recorded, episode, outbox>>
      BY <1>10 DEF Complete, Finish, TInv, TypeOK
    <2> QED BY <1>1, <1>2, <2>1, ReportsAssumption DEF Alone
  <1> QED BY <1>3, <1>4, <1>5, <1>6, <1>7, <1>8, <1>9, <1>10 DEF Step

(* Any other step: a request starts on e, is cut short, or works on something else. *)
LEMMA AloneRests ==
    ASSUME TInv, [Next]_vars, NEW e \in Texts, e \notin repeated', Alone(e),
           \A h \in Handlers : Step(h) => serving[h] # e
    PROVE  Alone(e)'
  <1> USE DEF Blank, SameAs
  <1>1. e \in Events
    BY DEF Texts
  <1>2. /\ UNCHANGED <<recorded[e], episode[e], outbox[e]>>
        /\ e \in noted' <=> e \in noted
    BY <1>1, EventFrame
  <1>3. ASSUME NEW h \in Handlers, Start(h, e)
        PROVE  Alone(e)'
    <2>1. e \notin noted /\ \A g \in Handlers : serving[g] # e
      BY <1>1, <1>3 DEF Start, TInv, TypeOK
    <2>2. Blank(e)
      BY <2>1 DEF Alone
    <2>3. \A g \in Handlers : serving'[g] = e => g = h
      BY <1>3, <2>1 DEF Start, TInv, TypeOK
    <2>4. pc'[h] = "note"
      BY <1>3 DEF Start, Goto, Texts, TInv, TypeOK
    <2> QED BY <1>2, <2>1, <2>2, <2>3, <2>4 DEF Alone
  <1>4. CASE \A h \in Handlers : ~ Start(h, e)
    <2>1. ASSUME NEW h \in Handlers, serving'[h] = e
          PROVE  serving[h] = e /\ UNCHANGED <<pc[h], decision[h]>>
      <3>1. serving[h] = e
        BY <1>1, <1>4, <2>1, ServesFrame
      <3>2. ~ CutShort(h)
        BY <1>1, <2>1, ReportsAssumption DEF CutShort, Finish, TInv, TypeOK
      <3>3. ~ \E x \in Events : Start(h, x)
        BY <1>4, <2>1 DEF Start, TInv, TypeOK
      <3> QED BY <3>1, <3>2, <3>3, Quiet
    <2> QED BY <1>2, <2>1 DEF Alone
  <1> QED BY <1>3, <1>4

LEMMA SingleStep ==
    ASSUME TInv, Single, [Next]_vars
    PROVE  Single'
  <1> SUFFICES ASSUME NEW e \in Texts, e \notin repeated'
               PROVE  Alone(e)'
    BY DEF Single, Texts
  <1>1. Alone(e)
    BY RepeatedGrows DEF Single
  <1> QED BY <1>1, AloneWorks, AloneRests

(* A text that a single request worked on: what is recorded, what is remembered
   and what is answered are one thing. *)
THEOREM RepliesTellRecords == Spec => []ReplyTellsRecord
  <1> DEFINE Inv == TInv /\ Single
  <1>1. Init => Inv
    BY TypeInit, ReportsAssumption DEF Init, Single, Alone, Blank, Texts
  <1>2. Inv /\ [Next]_vars => Inv'
    BY TypeStep, SingleStep
  <1>3. Inv => ReplyTellsRecord
    BY DEF Single, Alone, SameAs, ReplyTellsRecord
  <1> QED BY <1>1, <1>2, <1>3, PTL DEF Spec
=============================================================================
