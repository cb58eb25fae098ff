------------------------------- MODULE Outbox -------------------------------
(* The durable outbox of the alignment engine: the rows of the outbox table
   (storage.py, OutboxRepository) and the delivery loops that lease rows, post
   them to Telegram and record the outcome (delivery.py, OutboxDispatcher).

   A worker is one application process.  A process runs at most one delivery
   loop at a time (OutboxDispatcher._local_worker_lock), so a worker needs one
   program counter only.  Claiming is one atomic step: the SELECT locks the
   rows it returns and skips the locked ones (FOR UPDATE SKIP LOCKED), and its
   transaction ends with the claim.  mark_sent and mark_failed read the row
   without a lock and write it later in the same transaction, so they take two
   steps here.

   Time is the age of each lease, counted in Ticks and saturated one past
   LeaseTime: the code only asks whether updated_at is older than the lease. *)
EXTENDS Integers, FiniteSets, Sequences

CONSTANTS Messages,      \* idempotency keys the workflow may enqueue
          Workers,       \* application processes that run a delivery loop
          MaxAttempts,   \* Settings.outbox_max_attempts
          LeaseTime,     \* Settings.outbox_lease_seconds, in Ticks
          BatchLimit,    \* the largest limit deliver() is called with
          MaxAborts      \* bound: delivery loops cut short in a behaviour

ASSUME MessagesAssumption == IsFiniteSet(Messages)
ASSUME LimitsAssumption ==
    /\ MaxAttempts \in Nat \ {0}
    /\ LeaseTime \in Nat \ {0}
    /\ BatchLimit \in Nat \ {0}
    /\ MaxAborts \in Nat

VARIABLES
    status,     \* status[m]: OutboxRecord.status, "absent" before the insert
    attempts,   \* attempts[m]: OutboxRecord.attempts
    created,    \* created[m]: rank of OutboxRecord.created_at
    age,        \* age[m]: Ticks since updated_at, while the row is "sending"
    pc,         \* pc[w]: where the delivery loop of w stands
    batch,      \* batch[w]: the claimed records w has not finished, in order
    seen,       \* seen[w]: the row as mark_sent or mark_failed read it
    posted,     \* posted[m][k]: times attempt k of m was posted to Telegram
    accepted,   \* accepted[m]: the attempts of m Telegram accepted
    aborts      \* delivery loops cut short so far

rows    == <<status, attempts, created, age>>
channel == <<posted, accepted>>
vars    == <<rows, pc, batch, seen, channel, aborts>>

-----------------------------------------------------------------------------
Statuses == {"absent", "pending", "sending", "sent", "failed", "dead"}
Attempts == 1 .. MaxAttempts
Claims   == [msg : Messages, attempt : Attempts]
Views    == [status : Statuses, attempts : 0 .. MaxAttempts]
Unread   == [status |-> "absent", attempts |-> 0]

(* idle: no loop; post: about to send the head of the batch; ok, error: send
   returned or raised; markOk, markError: the row is read, not yet written. *)
Steps == {"idle", "post", "ok", "error", "markOk", "markError"}

Rows == {m \in Messages : status[m] # "absent"}

Expired(m)  == status[m] = "sending" /\ age[m] > LeaseTime

(* Mutants of Eligible: the limit is off by one; sent rows are not left out;
   leases never run out. *)
MutEligibleAtLimit == {m \in Messages : /\ attempts[m] <= MaxAttempts
                                        /\ status[m] \in {"pending", "failed"} \/ Expired(m)}
MutEligibleSent    == {m \in Rows : /\ attempts[m] < MaxAttempts
                                    /\ status[m] # "sending" \/ Expired(m)}
MutEligibleNoLease == {m \in Messages : /\ attempts[m] < MaxAttempts
                                        /\ status[m] \in {"pending", "failed"}}

(* The WHERE clause of claim_delivery_batch. *)
Eligible    == {m \in Messages : /\ attempts[m] < MaxAttempts
                                 /\ status[m] \in {"pending", "failed"} \/ Expired(m)}

(* ORDER BY created_at LIMIT limit: the ways to list the oldest eligible rows.
   Rows of one enqueue call carry timestamps whose order is left open. *)
OldestFirst(limit) ==
    LET n == IF Cardinality(Eligible) < limit THEN Cardinality(Eligible) ELSE limit
    IN  {b \in [1 .. n -> Eligible] :
            /\ \A i, j \in 1 .. n : i < j => b[i] # b[j] /\ created[b[i]] <= created[b[j]]
            /\ \A m \in Eligible : (\A i \in 1 .. n : b[i] # m)
                                     => \A i \in 1 .. n : created[b[i]] <= created[m]}

-----------------------------------------------------------------------------
Init ==
    /\ status   = [m \in Messages |-> "absent"]
    /\ attempts = [m \in Messages |-> 0]
    /\ created  = [m \in Messages |-> 0]
    /\ age      = [m \in Messages |-> 0]
    /\ pc       = [w \in Workers |-> "idle"]
    /\ batch    = [w \in Workers |-> << >>]
    /\ seen     = [w \in Workers |-> Unread]
    /\ posted   = [m \in Messages |-> [k \in Attempts |-> 0]]
    /\ accepted = [m \in Messages |-> {}]
    /\ aborts   = 0

(* OutboxRepository.enqueue: one transaction inserts the messages whose
   idempotency key is new and skips the others. *)
Enqueue(ms) ==
    LET new == ms \ Rows
    IN  /\ new # {}
        /\ status'  = [m \in Messages |-> IF m \in new THEN "pending" ELSE status[m]]
        /\ created' = [m \in Messages |-> IF m \in new THEN 1 + Cardinality(Rows)
                                                       ELSE created[m]]
        /\ UNCHANGED <<attempts, age, pc, batch, seen, channel, aborts>>

(* Mutant of Lease: the attempt is not charged when the row is claimed. *)
MutLeaseUncharged(w, b) ==
    LET claimed == {b[i] : i \in DOMAIN b}
    IN  /\ status' = [m \in Messages |-> IF m \in claimed THEN "sending" ELSE status[m]]
        /\ age'    = [m \in Messages |-> IF m \in claimed THEN 0 ELSE age[m]]
        /\ batch'  = [batch EXCEPT ![w] =
                        [i \in DOMAIN b |-> [msg |-> b[i], attempt |-> attempts[b[i]] + 1]]]
        /\ UNCHANGED attempts

(* The rows of the batch b are leased to w and charged an attempt each, before
   the first of them is sent. *)
Lease(w, b) ==
    LET claimed == {b[i] : i \in DOMAIN b}
    IN  /\ status'   = [m \in Messages |-> IF m \in claimed THEN "sending" ELSE status[m]]
        /\ attempts' = [m \in Messages |-> IF m \in claimed THEN attempts[m] + 1
                                                            ELSE attempts[m]]
        /\ age'      = [m \in Messages |-> IF m \in claimed THEN 0 ELSE age[m]]
        /\ batch'    = [batch EXCEPT ![w] =
                          [i \in DOMAIN b |-> [msg |-> b[i], attempt |-> attempts[b[i]] + 1]]]

(* deliver() takes the local lock and claims a batch.  With nothing to claim it
   returns without a change. *)
ClaimBatch(w) ==
    /\ pc[w] = "idle"
    /\ Eligible # {}
    /\ \E limit \in 1 .. BatchLimit : \E b \in OldestFirst(limit) : Lease(w, b)
    /\ pc' = [pc EXCEPT ![w] = "post"]
    /\ UNCHANGED <<created, seen, channel, aborts>>

(* channel.send(message) for the head of the batch.  Telegram accepts it and
   the call returns, accepts it and the answer is lost, or does not accept it. *)
Post(w, accepts, returns) ==
    /\ pc[w] = "post"
    /\ returns => accepts
    /\ LET head == Head(batch[w])
       IN  /\ posted'   = [posted EXCEPT ![head.msg][head.attempt] = @ + 1]
           /\ accepted' = IF accepts
                            THEN [accepted EXCEPT ![head.msg] = @ \cup {head.attempt}]
                            ELSE accepted
    /\ pc' = [pc EXCEPT ![w] = IF returns THEN "ok" ELSE "error"]
    /\ UNCHANGED <<rows, batch, seen, aborts>>

(* Mutant of ReadRow: a failed send is marked as sent. *)
MutReadRowSent(w) ==
    /\ pc[w] \in {"ok", "error"}
    /\ LET m == Head(batch[w]).msg
       IN  seen' = [seen EXCEPT ![w] = [status |-> status[m], attempts |-> attempts[m]]]
    /\ pc' = [pc EXCEPT ![w] = "markOk"]
    /\ UNCHANGED <<rows, batch, channel, aborts>>

(* session.get(OutboxRecord, record_id) in mark_sent and mark_failed. *)
ReadRow(w) ==
    /\ pc[w] \in {"ok", "error"}
    /\ LET m == Head(batch[w]).msg
       IN  seen' = [seen EXCEPT ![w] = [status |-> status[m], attempts |-> attempts[m]]]
    /\ pc' = [pc EXCEPT ![w] = IF pc[w] = "ok" THEN "markOk" ELSE "markError"]
    /\ UNCHANGED <<rows, batch, channel, aborts>>

(* The UPDATE of mark_sent or mark_failed.  Only a changed column is written,
   so a status equal to the one read stays out of the statement. *)
WriteStatus(w, new) ==
    LET m == Head(batch[w]).msg
    IN  /\ status' = IF seen[w].status = new THEN status ELSE [status EXCEPT ![m] = new]
        /\ age'    = [age EXCEPT ![m] = 0]

(* The loop turns to the next claimed record, or deliver() returns. *)
NextRecord(w) ==
    /\ batch' = [batch EXCEPT ![w] = Tail(@)]
    /\ pc'    = [pc EXCEPT ![w] = IF Tail(batch[w]) = << >> THEN "idle" ELSE "post"]
    /\ seen'  = [seen EXCEPT ![w] = Unread]

MarkSent(w) ==
    /\ pc[w] = "markOk"
    /\ WriteStatus(w, "sent")
    /\ NextRecord(w)
    /\ UNCHANGED <<attempts, created, channel, aborts>>

(* Mutants of Exhausted: one attempt too early, one too late. *)
MutExhaustedEarly(w) == seen[w].attempts >= MaxAttempts - 1
MutExhaustedLate(w)  == seen[w].attempts > MaxAttempts

(* exhausted = record.attempts >= max_attempts in mark_failed. *)
Exhausted(w) == seen[w].attempts >= MaxAttempts

MarkFailed(w) ==
    /\ pc[w] = "markError"
    /\ WriteStatus(w, IF Exhausted(w) THEN "dead" ELSE "failed")
    /\ NextRecord(w)
    /\ UNCHANGED <<attempts, created, channel, aborts>>

(* The process dies, the request is cancelled, or mark_sent or mark_failed
   raises: the loop ends and its rows keep whatever the database holds. *)
Abort(w) ==
    /\ pc[w] # "idle"
    /\ aborts < MaxAborts
    /\ aborts' = aborts + 1
    /\ pc'     = [pc EXCEPT ![w] = "idle"]
    /\ batch'  = [batch EXCEPT ![w] = << >>]
    /\ seen'   = [seen EXCEPT ![w] = Unread]
    /\ UNCHANGED <<rows, channel>>

(* Time passes for the leases that are running. *)
Tick ==
    /\ \E m \in Messages : status[m] = "sending" /\ age[m] <= LeaseTime
    /\ age' = [m \in Messages |-> IF status[m] = "sending" /\ age[m] <= LeaseTime
                                    THEN age[m] + 1 ELSE age[m]]
    /\ UNCHANGED <<status, attempts, created, pc, batch, seen, channel, aborts>>

PostAny(w) == \E accepts, returns \in BOOLEAN : Post(w, accepts, returns)

Worker(w) ==
    \/ ClaimBatch(w)
    \/ PostAny(w)
    \/ ReadRow(w)
    \/ MarkSent(w)
    \/ MarkFailed(w)

Next ==
    \/ \E ms \in SUBSET Messages : Enqueue(ms)
    \/ \E w \in Workers : Worker(w) \/ Abort(w)
    \/ Tick

Spec == Init /\ [][Next]_vars

(* A running loop goes on (the HTTP client times out after 20 s), a process
   with eligible rows is asked to deliver again (every processed event and the
   15-minute monitor job end with deliver()), and time passes. *)
FairSpec ==
    /\ Spec
    /\ \A w \in Workers : WF_vars(Worker(w))
    /\ WF_vars(Tick)

-----------------------------------------------------------------------------
(* The shape of the rows, the loops and the channel's history. *)
TypeOK ==
    /\ status   \in [Messages -> Statuses]
    /\ attempts \in [Messages -> 0 .. MaxAttempts]
    /\ created  \in [Messages -> Nat]
    /\ age      \in [Messages -> 0 .. LeaseTime + 1]
    /\ pc       \in [Workers -> Steps]
    /\ batch    \in [Workers -> Seq(Claims)]
    /\ seen     \in [Workers -> Views]
    /\ posted   \in [Messages -> [Attempts -> Nat]]
    /\ accepted \in [Messages -> SUBSET Attempts]
    /\ aborts   \in 0 .. MaxAborts

(* No attempt of a message is posted twice, whatever leases expire and however
   many loops run: Telegram sees a message at most MaxAttempts times.  This is
   what attempts += 1 inside the claiming transaction buys. *)
PostedOnce == \A m \in Messages : \A k \in Attempts : posted[m][k] <= 1

(* A row is marked "sent" only if Telegram accepted the message, even when the
   mark comes from a worker whose lease ended long ago. *)
SentWasAccepted == \A m \in Messages : status[m] = "sent" => accepted[m] # {}

(* mark_failed dead-letters a row only when every attempt was charged. *)
DeadIsExhausted == \A m \in Messages : status[m] = "dead" => attempts[m] = MaxAttempts

(* A row that waits for a retry can be claimed: "pending" and "failed" rows are
   below the attempt limit.  True of one worker, and of several that are in time
   (below); the unlocked read of mark_failed breaks it when leases overlap. *)
RetryableIsBelowLimit ==
    \A m \in Messages : status[m] \in {"pending", "failed"} => attempts[m] < MaxAttempts

(* No lease ends while its loop still works on the row. *)
InTime == \A w \in Workers : \A i \in DOMAIN batch[w] : age[batch[w][i].msg] <= LeaseTime

(* RetryableIsBelowLimit needs no single process, only loops that are done with
   their rows before the leases end. *)
RetryableInTime == []InTime => []RetryableIsBelowLimit

(* With one worker a row that reached "sent" or "dead" never leaves it. *)
ResolvedIsFinal ==
    [][\A m \in Messages : status[m] \in {"sent", "dead"} => status'[m] = status[m]]_vars

Holds(w, m) == \E i \in DOMAIN batch[w] : batch[w][i].msg = m

(* A row whose loop was cut short on the last attempt: it stays "sending", is
   not eligible any more, and mark_failed never comes to dead-letter it. *)
Stranded(m) ==
    /\ status[m] = "sending"
    /\ attempts[m] = MaxAttempts
    /\ \A w \in Workers : ~ Holds(w, m)

(* "retry leases and dead-letter state handle transient failures": an enqueued
   message ends sent or dead, whatever fails, unless its last attempt is the one
   a loop was cut short on; a row abandoned earlier is claimed again. *)
ResolvedOrStranded ==
    \A m \in Messages :
        status[m] # "absent" ~> status[m] \in {"sent", "dead"} \/ Stranded(m)

(* The outbox keeps the promises of Mailbox, the abstract specification: a row
   that is neither sent nor dead is open, an attempt is a try, and what Telegram
   accepted was handed over.  No lease, crash or overlap of workers hands over a
   message under a try that was not charged, or twice under the same try. *)
Place(m) ==
    IF status[m] \in {"pending", "sending", "failed"} THEN "open" ELSE status[m]
Mail == INSTANCE Mailbox WITH place <- [m \in Messages |-> Place(m)],
                              tries <- attempts, handed <- accepted
ImplementsMailbox == Mail!Spec
=============================================================================
