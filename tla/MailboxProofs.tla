---------------------------- MODULE MailboxProofs ----------------------------
(* Outbox implements Mailbox for every number of messages, workers and attempts.

   The mapping of a post to HandOver needs two facts more than the inductive
   invariant of OutboxProofs: what Telegram accepted was posted, and a claimed
   row is in the table. *)
EXTENDS OutboxProofs

AcceptedWasPosted == \A m \in Messages : \A k \in accepted[m] : posted[m][k] > 0
ClaimsArePresent  == \A w \in Workers : \A i \in Positions(w) :
                        status[batch[w][i].msg] # "absent"
MailInv == IInv /\ AcceptedWasPosted /\ ClaimsArePresent

LEMMA MailInit == Init => MailInv
<1> SUFFICES ASSUME Init PROVE MailInv
  OBVIOUS
<1>1. IInv
  BY SafeInit
<1>2. AcceptedWasPosted
  BY DEF Init, AcceptedWasPosted
<1>3. \A w \in Workers : Positions(w) = {}
  BY DEF Init, Positions
<1>4. ClaimsArePresent
  BY <1>3 DEF ClaimsArePresent
<1> QED
  BY <1>1, <1>2, <1>4 DEF MailInv

(* A row never leaves the table, and a batch that only loses records keeps to
   the rows it held. *)
LEMMA PresentKept ==
    ASSUME IInv, ClaimsArePresent, NEW w \in Workers,
           \A m \in Messages : status[m] # "absent" => status'[m] # "absent",
           \A v \in Workers : v # w => batch'[v] = batch[v],
           \/ batch'[w] = batch[w]
           \/ batch'[w] = << >>
           \/ batch[w] # << >> /\ batch'[w] = Tail(batch[w])
    PROVE  ClaimsArePresent'
<1> SUFFICES ASSUME NEW v \in Workers, NEW i \in Positions(v)'
             PROVE  status'[batch'[v][i].msg] # "absent"
  BY DEF ClaimsArePresent
<1>1. ASSUME NEW j \in Positions(v) PROVE status'[batch[v][j].msg] # "absent"
  BY ClaimTyped DEF ClaimsArePresent, IInv
<1>2. CASE batch'[v] = batch[v]
  BY <1>1, <1>2 DEF Positions
<1>3. CASE v = w /\ batch'[w] = << >>
  BY <1>3 DEF Positions
<1>4. CASE v = w /\ batch[w] # << >> /\ batch'[w] = Tail(batch[w])
  <2>1. batch[w] \in Seq(Claims)
    BY DEF IInv, TypeOK
  <2>2. i + 1 \in Positions(w) /\ batch'[w][i] = batch[w][i + 1]
    BY <1>4, <2>1, TailPositions DEF Positions
  <2> QED
    BY <1>1, <1>4, <2>2
<1> QED
  BY <1>2, <1>3, <1>4

(* What a claim leases was in the table. *)
LEMMA ClaimPresent ==
    ASSUME IInv, ClaimsArePresent, NEW w \in Workers, ClaimBatch(w)
    PROVE  ClaimsArePresent'
<1>1. PICK n \in Nat \ {0} : \E b : Claim(w, n, b)
  BY ClaimedBatch DEF IInv
<1>2. PICK b : Claim(w, n, b)
  BY <1>1
<1>3. \A i \in 1 .. n : b[i] \in Messages
  BY <1>2 DEF Claim, Eligible
<1>4. \A m \in Messages : status[m] # "absent" => status'[m] # "absent"
  BY <1>2 DEF Claim
<1>5. \A i \in 1 .. n : status'[b[i]] = "sending"
  BY <1>2, <1>3 DEF Claim
<1> SUFFICES ASSUME NEW v \in Workers, NEW i \in Positions(v)'
             PROVE  status'[batch'[v][i].msg] # "absent"
  BY DEF ClaimsArePresent
<1>6. CASE v # w
  <2>1. batch'[v] = batch[v]
    BY <1>2, <1>6 DEF Claim, IInv, TypeOK
  <2>2. i \in Positions(v)
    BY <2>1 DEF Positions
  <2> QED
    BY <1>4, <2>1, <2>2, ClaimTyped DEF ClaimsArePresent, IInv
<1>7. CASE v = w
  <2>1. batch'[w] = [j \in 1 .. n |-> [msg |-> b[j], attempt |-> attempts[b[j]] + 1]]
    BY <1>2 DEF Claim, IInv, TypeOK
  <2>2. i \in 1 .. n
    BY <1>7, <2>1 DEF Positions
  <2> QED
    BY <1>5, <1>7, <2>1, <2>2
<1> QED
  BY <1>6, <1>7

LEMMA MailStep == MailInv /\ [Next]_vars => MailInv'
<1> SUFFICES ASSUME MailInv, [Next]_vars
             PROVE  MailInv'
  OBVIOUS
<1>0. IInv /\ IInv' /\ AcceptedWasPosted /\ ClaimsArePresent
  BY SafeStep DEF MailInv
<1>1. CASE \E ms \in SUBSET Messages : Enqueue(ms)
  <2>1. \A m \in Messages : status[m] # "absent" => status'[m] # "absent"
    BY <1>1 DEF Enqueue
  <2>2. UNCHANGED <<batch, posted, accepted>>
    BY <1>1 DEF Enqueue, channel
  <2>3. ClaimsArePresent'
    BY <1>0, <2>1, <2>2, ClaimTyped DEF ClaimsArePresent, Positions, IInv
  <2> QED
    BY <1>0, <2>2, <2>3 DEF MailInv, AcceptedWasPosted
<1>2. ASSUME NEW w \in Workers, ClaimBatch(w) PROVE MailInv'
  BY <1>0, <1>2, ClaimPresent DEF MailInv, AcceptedWasPosted, ClaimBatch, channel
<1>3. ASSUME NEW w \in Workers, NEW accepts \in BOOLEAN, NEW returns \in BOOLEAN,
             Post(w, accepts, returns)
      PROVE  MailInv'
  <2> DEFINE head == Head(batch[w])
  <2>1. head.msg \in Messages /\ head.attempt \in Attempts
    BY <1>0, <1>3, HeadIsClaim DEF Post, IInv, TypeInv
  <2>2. /\ posted' = [posted EXCEPT ![head.msg][head.attempt] = @ + 1]
        /\ accepted' = IF accepts THEN [accepted EXCEPT ![head.msg] = @ \cup {head.attempt}]
                                  ELSE accepted
        /\ UNCHANGED <<status, batch>>
    BY <1>3 DEF Post, rows
  <2>3. posted \in [Messages -> [Attempts -> Nat]] /\ accepted \in [Messages -> SUBSET Attempts]
    BY <1>0 DEF IInv, TypeOK
  <2> HIDE DEF head
  <2>4. AcceptedWasPosted'
    BY <1>0, <2>1, <2>2, <2>3 DEF AcceptedWasPosted
  <2>5. ClaimsArePresent'
    BY <1>0, <2>2 DEF ClaimsArePresent, Positions
  <2> QED
    BY <1>0, <2>4, <2>5 DEF MailInv
<1>4. ASSUME NEW w \in Workers, ReadRow(w) PROVE MailInv'
  BY <1>0, <1>4 DEF MailInv, ReadRow, rows, channel, AcceptedWasPosted, ClaimsArePresent, Positions
<1>5. ASSUME NEW w \in Workers, NEW new \in {"sent", "dead", "failed"},
             pc[w] # "idle", WriteStatus(w, new), NextRecord(w), UNCHANGED channel
      PROVE  MailInv'
  <2>1. \A m \in Messages : status[m] # "absent" => status'[m] # "absent"
    BY <1>0, <1>5 DEF WriteStatus, IInv, TypeOK
  <2>2. batch[w] # << >> /\ batch' = [batch EXCEPT ![w] = Tail(@)]
    BY <1>0, <1>5 DEF NextRecord, IInv, LoopHasBatch
  <2>3. ClaimsArePresent'
    BY <1>0, <2>1, <2>2, PresentKept DEF IInv, TypeOK
  <2> QED
    BY <1>0, <1>5, <2>3 DEF MailInv, AcceptedWasPosted, channel
<1>6. ASSUME NEW w \in Workers, Abort(w) PROVE MailInv'
  <2>1. ClaimsArePresent'
    BY <1>0, <1>6, PresentKept DEF Abort, rows, IInv, TypeOK
  <2> QED
    BY <1>0, <1>6, <2>1 DEF MailInv, AcceptedWasPosted, Abort, channel
<1>7. CASE Tick \/ UNCHANGED vars
  BY <1>0, <1>7 DEF MailInv, Tick, vars, rows, channel, AcceptedWasPosted, ClaimsArePresent,
                    Positions
<1>8. ASSUME NEW w \in Workers, Worker(w) PROVE MailInv'
  BY <1>2, <1>3, <1>4, <1>5, <1>8 DEF Worker, PostAny, MarkSent, MarkFailed
<1> QED
  BY <1>1, <1>6, <1>7, <1>8 DEF Next

-----------------------------------------------------------------------------
(* Each step of the outbox is a step of the mailbox, or changes nothing there. *)
LEMMA EnqueuePuts ==
    ASSUME NEW ms \in SUBSET Messages, Enqueue(ms)
    PROVE  Mail!Next
<1> DEFINE new == ms \ Rows
<1>1. \A m \in new : Place(m) = "absent"
  BY DEF Rows, Place
<1>2. \A m \in Messages : Place(m)' = IF m \in new THEN "open" ELSE Place(m)
  BY DEF Enqueue, Place
<1>3. UNCHANGED <<attempts, accepted>>
  BY DEF Enqueue, channel
<1>4. Mail!Put(new)
  BY <1>1, <1>2, <1>3 DEF Mail!Put
<1> QED
  BY <1>4 DEF Mail!Next

LEMMA ClaimBegins ==
    ASSUME MailInv, NEW w \in Workers, ClaimBatch(w)
    PROVE  Mail!Next
<1>1. PICK n \in Nat \ {0} : \E b : Claim(w, n, b)
  BY ClaimedBatch DEF MailInv, IInv
<1>2. PICK b : Claim(w, n, b)
  BY <1>1
<1> DEFINE ms == {m \in Messages : \E i \in 1 .. n : m = b[i]}
<1>3. \A m \in ms : Place(m) = "open" /\ attempts[m] < MaxAttempts
  BY <1>2 DEF Claim, Eligible, Expired, Place
<1>4. attempts' = [m \in Messages |-> IF m \in ms THEN attempts[m] + 1 ELSE attempts[m]]
  BY <1>2 DEF Claim
<1>5. \A m \in Messages : Place(m)' = Place(m)
  BY <1>2, <1>3 DEF Claim, Place
<1>6. UNCHANGED accepted
  BY DEF ClaimBatch, channel
<1>7. Mail!Begin(ms)
  BY <1>3, <1>4, <1>5, <1>6 DEF Mail!Begin
<1> QED
  BY <1>7 DEF Mail!Next

LEMMA PostHandsOver ==
    ASSUME MailInv, NEW w \in Workers, NEW accepts \in BOOLEAN, NEW returns \in BOOLEAN,
           Post(w, accepts, returns)
    PROVE  [Mail!Next]_(Mail!vars)
<1>1. /\ batch[w] \in Seq(Claims) /\ batch[w] # << >> /\ Head(batch[w]) = batch[w][1]
      /\ batch[w][1].msg \in Messages /\ batch[w][1].attempt \in Attempts
  BY HeadIsClaim DEF Post, MailInv, IInv, TypeInv
<1>2. 1 \in Positions(w)
  BY <1>1 DEF Positions
<1>3. batch[w][1].attempt <= attempts[batch[w][1].msg]
  BY <1>2 DEF MailInv, IInv, ClaimsCharged
<1>4. batch[w][1].attempt \notin accepted[batch[w][1].msg]
  BY <1>1, <1>2 DEF Post, MailInv, IInv, ClaimsUnposted, AcceptedWasPosted
<1>5. UNCHANGED <<status, attempts>>
  BY DEF Post, rows
<1>6. \A m \in Messages : Place(m)' = Place(m)
  BY <1>5 DEF Place
<1>7. CASE accepts
  <2>1. Mail!HandOver(batch[w][1].msg, batch[w][1].attempt)
    BY <1>1, <1>3, <1>4, <1>5, <1>6, <1>7 DEF Post, Mail!HandOver
  <2> QED
    BY <1>1, <2>1 DEF Mail!Next, Attempts
<1>8. CASE ~ accepts
  BY <1>1, <1>5, <1>6, <1>8 DEF Post, Mail!vars
<1> QED
  BY <1>7, <1>8

(* A mark settles the message at the head of the batch, unless the status it
   writes is the one it read. *)
LEMMA MarkSettles ==
    ASSUME MailInv, NEW w \in Workers, pc[w] # "idle",
           NEW new \in {"sent", "dead", "failed"},
           new = "sent" => accepted[batch[w][1].msg] # {},
           new = "dead" => attempts[batch[w][1].msg] = MaxAttempts,
           WriteStatus(w, new), UNCHANGED <<attempts, accepted>>
    PROVE  [Mail!Next]_(Mail!vars)
<1> DEFINE m == batch[w][1].msg
           p == IF new = "failed" THEN "open" ELSE new
<1>1. batch[w] \in Seq(Claims) /\ batch[w] # << >> /\ Head(batch[w]).msg = m /\ m \in Messages
  BY HeadIsClaim DEF MailInv, IInv, TypeInv
<1>2. status[m] # "absent"
  BY <1>1 DEF MailInv, ClaimsArePresent, Positions
<1>3. status' = status \/ status' = [status EXCEPT ![m] = new]
  BY <1>1 DEF WriteStatus
<1>4. status \in [Messages -> Statuses]
  BY DEF MailInv, IInv, TypeOK
<1> HIDE DEF m
<1>5. CASE status' = status
  <2>1. \A x \in Messages : Place(x)' = Place(x)
    BY <1>5 DEF Place
  <2> QED
    BY <2>1 DEF Mail!vars
<1>6. CASE status' = [status EXCEPT ![m] = new]
  <2>1. \A x \in Messages : Place(x)' = IF x = m THEN p ELSE Place(x)
    BY <1>1, <1>4, <1>6 DEF Place
  <2>2. Place(m) # "absent"
    BY <1>1, <1>2, <1>4 DEF Place, Statuses
  <2>3. p = "sent" => accepted[m] # {}
    BY DEF m
  <2>4. p = "dead" => attempts[m] = MaxAttempts
    BY DEF m
  <2>5. Mail!Settle(m, p)
    <3> HIDE DEF p
    <3>1. [x \in Messages |-> Place(x)]' = [[x \in Messages |-> Place(x)] EXCEPT ![m] = p]
      BY <1>1, <2>1
    <3> QED
      BY <1>1, <2>2, <2>3, <2>4, <3>1 DEF Mail!Settle
  <2>6. p \in {"open", "sent", "dead"}
    OBVIOUS
  <2> HIDE DEF p
  <2> QED
    BY <1>1, <2>5, <2>6 DEF Mail!Next
<1> QED
  BY <1>3, <1>5, <1>6

LEMMA MapStep == MailInv /\ [Next]_vars => [Mail!Next]_(Mail!vars)
<1> SUFFICES ASSUME MailInv, [Next]_vars
             PROVE  [Mail!Next]_(Mail!vars)
  OBVIOUS
<1>1. CASE \E ms \in SUBSET Messages : Enqueue(ms)
  BY <1>1, EnqueuePuts
<1>2. ASSUME UNCHANGED <<status, attempts, accepted>>
      PROVE  [Mail!Next]_(Mail!vars)
  <2>1. \A m \in Messages : Place(m)' = Place(m)
    BY <1>2 DEF Place
  <2> QED
    BY <1>2, <2>1 DEF Mail!vars
<1>3. ASSUME NEW w \in Workers, Worker(w)
      PROVE  [Mail!Next]_(Mail!vars)
  <2>1. CASE ClaimBatch(w)
    BY <2>1, ClaimBegins
  <2>2. CASE PostAny(w)
    BY <2>2, PostHandsOver DEF PostAny
  <2>3. CASE ReadRow(w)
    BY <1>2, <2>3 DEF ReadRow, rows, channel
  <2>4. CASE MarkSent(w)
    <3>1. accepted[batch[w][1].msg] # {}
      BY <2>4 DEF MarkSent, MailInv, IInv, OkWasAccepted
    <3> QED
      BY <2>4, <3>1, MarkSettles DEF MarkSent, channel
  <2>5. CASE MarkFailed(w)
    <3> DEFINE new == IF Exhausted(w) THEN "dead" ELSE "failed"
    <3>1. batch[w][1].msg \in Messages
      BY <2>5, HeadIsClaim DEF MarkFailed, MailInv, IInv, TypeInv
    <3>2. seen[w].attempts <= attempts[batch[w][1].msg] /\ seen[w].attempts \in Nat
      BY <2>5 DEF MarkFailed, MailInv, IInv, SeenIsPast, TypeOK, Views
    <3>3. attempts[batch[w][1].msg] \in 0 .. MaxAttempts
      BY <3>1 DEF MailInv, IInv, TypeOK
    <3>4. new = "dead" => attempts[batch[w][1].msg] = MaxAttempts
      BY <3>2, <3>3, LimitsAssumption DEF Exhausted
    <3>5. new \in {"sent", "dead", "failed"} /\ new # "sent"
      OBVIOUS
    <3>6. WriteStatus(w, new) /\ UNCHANGED <<attempts, accepted>> /\ pc[w] # "idle"
      BY <2>5 DEF MarkFailed, channel
    <3> HIDE DEF new
    <3> QED
      BY <3>4, <3>5, <3>6, MarkSettles
  <2> QED
    BY <1>3, <2>1, <2>2, <2>3, <2>4, <2>5 DEF Worker
<1>4. ASSUME NEW w \in Workers, Abort(w)
      PROVE  [Mail!Next]_(Mail!vars)
  BY <1>2, <1>4 DEF Abort, rows, channel
<1>5. CASE Tick \/ UNCHANGED vars
  BY <1>2, <1>5 DEF Tick, vars, rows, channel
<1> QED
  BY <1>1, <1>3, <1>4, <1>5 DEF Next

(* The outbox implements the mailbox: no lease, crash or overlap of workers
   hands a message over under a try that was not charged, or twice under one. *)
THEOREM OutboxImplementsMailbox == Spec => ImplementsMailbox
<1>1. Init => Mail!Init
  <2> SUFFICES ASSUME Init PROVE Mail!Init
    OBVIOUS
  <2>1. \A m \in Messages : Place(m) = "absent"
    BY DEF Init, Place
  <2> QED
    BY <2>1 DEF Init, Mail!Init
<1>2. MailInv /\ [Next]_vars => [Mail!Next]_(Mail!vars)
  BY MapStep
<1> QED
  BY <1>1, <1>2, MailInit, MailStep, PTL DEF Spec, ImplementsMailbox, Mail!Spec
=============================================================================
