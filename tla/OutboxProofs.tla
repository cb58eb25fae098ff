----------------------------- MODULE OutboxProofs -----------------------------
(* Proofs about Outbox for every number of messages, workers and attempts.

   PostedOnce, SentWasAccepted and DeadIsExhausted are not inductive: they rest
   on what the loops hold in memory.  IInv adds that every claim in a batch was
   charged to its row, that no two claims of any batches are equal, that only
   the head of a batch may have been posted, and that a loop past a successful
   send saw Telegram accept its head.

   RetryableIsBelowLimit and ResolvedIsFinal hold as long as no row is taken over
   from a loop that still works on it; HeldInv is their invariant. *)
EXTENDS Outbox, FiniteSetTheorems, TLAPS

Positions(w) == 1 .. Len(batch[w])

LoopHasBatch    == \A w \in Workers : pc[w] = "idle" <=> batch[w] = << >>
ClaimsCharged   == \A w \in Workers : \A i \in Positions(w) :
                      batch[w][i].attempt <= attempts[batch[w][i].msg]
ClaimsDistinct  == \A v, w \in Workers : \A i \in Positions(v), j \in Positions(w) :
                      batch[v][i] = batch[w][j] => v = w /\ i = j
ClaimsUnposted  == \A w \in Workers : \A i \in Positions(w) :
                      \/ i = 1 /\ pc[w] # "post"
                      \/ posted[batch[w][i].msg][batch[w][i].attempt] = 0
PostedCharged   == \A m \in Messages : \A k \in Attempts :
                      posted[m][k] > 0 => k <= attempts[m]
OkWasAccepted   == \A w \in Workers :
                      pc[w] \in {"ok", "markOk"} => accepted[batch[w][1].msg] # {}
SeenIsPast      == \A w \in Workers :
                      pc[w] = "markError" => seen[w].attempts <= attempts[batch[w][1].msg]

IInv ==
    /\ TypeOK
    /\ LoopHasBatch
    /\ ClaimsCharged
    /\ ClaimsDistinct
    /\ ClaimsUnposted
    /\ PostedCharged
    /\ PostedOnce
    /\ OkWasAccepted
    /\ SentWasAccepted
    /\ SeenIsPast
    /\ DeadIsExhausted

-----------------------------------------------------------------------------
(* What ClaimBatch finds: a nonempty list of different eligible rows. *)
LEMMA BatchIsList ==
    ASSUME Eligible # {}, NEW limit \in 1 .. BatchLimit, NEW b \in OldestFirst(limit)
    PROVE  \E n \in Nat \ {0} : /\ b \in [1 .. n -> Eligible]
                                /\ \A i, j \in 1 .. n : b[i] = b[j] => i = j
<1> DEFINE n == IF Cardinality(Eligible) < limit THEN Cardinality(Eligible) ELSE limit
<1>1. Cardinality(Eligible) \in Nat \ {0}
  <2>1. Eligible \subseteq Messages
    BY DEF Eligible
  <2>2. IsFiniteSet(Eligible)
    BY <2>1, FS_Subset, MessagesAssumption
  <2> QED
    BY <2>2, FS_CardinalityType, FS_EmptySet
<1>2. n \in Nat \ {0}
  BY <1>1, LimitsAssumption
<1>3. b \in [1 .. n -> Eligible]
  BY DEF OldestFirst
<1>4. \A i, j \in 1 .. n : i < j => b[i] # b[j]
  BY DEF OldestFirst
<1>5. \A i, j \in 1 .. n : b[i] = b[j] => i = j
  BY <1>2, <1>4
<1> QED
  BY <1>2, <1>3, <1>5

(* Taking the head off a batch leaves the rest one place further on. *)
LEMMA TailPositions ==
    ASSUME NEW S, NEW s \in Seq(S), s # << >>
    PROVE  /\ Tail(s) \in Seq(S)
           /\ Head(s) = s[1]
           /\ s[1] \in S
           /\ Len(s) \in Nat \ {0}
           /\ Len(Tail(s)) = Len(s) - 1
           /\ \A i \in 1 .. Len(Tail(s)) : i + 1 \in 1 .. Len(s) /\ Tail(s)[i] = s[i + 1]
  OBVIOUS

LEMMA RankIsNat == Cardinality(Rows) \in Nat
<1>1. Rows \subseteq Messages
  BY DEF Rows
<1> QED
  BY <1>1, FS_Subset, FS_CardinalityType, MessagesAssumption

(* The list b of n rows that a claim leaves in memory and leases. *)
Claim(w, n, b) ==
    /\ b \in [1 .. n -> Eligible]
    /\ \A i, j \in 1 .. n : b[i] = b[j] => i = j
    /\ batch' = [batch EXCEPT ![w] =
                    [i \in 1 .. n |-> [msg |-> b[i], attempt |-> attempts[b[i]] + 1]]]
    /\ status' = [m \in Messages |-> IF \E i \in 1 .. n : m = b[i]
                                        THEN "sending" ELSE status[m]]
    /\ attempts' = [m \in Messages |-> IF \E i \in 1 .. n : m = b[i]
                                          THEN attempts[m] + 1 ELSE attempts[m]]
    /\ age' = [m \in Messages |-> IF \E i \in 1 .. n : m = b[i] THEN 0 ELSE age[m]]

LEMMA ClaimedBatch ==
    ASSUME TypeOK, NEW w \in Workers, ClaimBatch(w)
    PROVE  \E n \in Nat \ {0} : \E b : Claim(w, n, b)
<1>1. PICK limit \in 1 .. BatchLimit : \E b \in OldestFirst(limit) : Lease(w, b)
  BY DEF ClaimBatch
<1>2. PICK b \in OldestFirst(limit) : Lease(w, b)
  BY <1>1
<1>3. PICK n \in Nat \ {0} : /\ b \in [1 .. n -> Eligible]
                             /\ \A i, j \in 1 .. n : b[i] = b[j] => i = j
  BY BatchIsList DEF ClaimBatch
<1>4. DOMAIN b = 1 .. n
  BY <1>3
<1>5. \A m \in Messages : m \in {b[i] : i \in DOMAIN b} <=> \E i \in 1 .. n : m = b[i]
  BY <1>4
<1>6. Claim(w, n, b)
  BY <1>2, <1>3, <1>4, <1>5 DEF Lease, Claim
<1> QED
  BY <1>6

-----------------------------------------------------------------------------
(* Type correctness, with the one fact it leans on: a loop that is not idle
   has a claim at the head of its batch. *)
TypeInv == TypeOK /\ LoopHasBatch

LEMMA TypeInit == Init => TypeInv
BY LimitsAssumption DEF Init, TypeInv, TypeOK, LoopHasBatch, Statuses, Steps, Views, Unread

LEMMA EnqueueType ==
    ASSUME TypeInv, NEW ms \in SUBSET Messages, Enqueue(ms)
    PROVE  TypeInv'
BY RankIsNat DEF TypeInv, TypeOK, LoopHasBatch, Enqueue, channel, Statuses

LEMMA ClaimType ==
    ASSUME TypeInv, NEW w \in Workers, ClaimBatch(w)
    PROVE  TypeInv'
<1>1. PICK n \in Nat \ {0} : \E b : Claim(w, n, b)
  BY ClaimedBatch DEF TypeInv
<1>2. PICK b : Claim(w, n, b)
  BY <1>1
<1> DEFINE nb == [i \in 1 .. n |-> [msg |-> b[i], attempt |-> attempts[b[i]] + 1]]
<1>12. \A i \in 1 .. n : b[i] \in Messages /\ attempts[b[i]] \in Nat /\ attempts[b[i]] < MaxAttempts
  BY <1>2, LimitsAssumption DEF Claim, Eligible, TypeInv, TypeOK
<1>3. nb \in Seq(Claims) /\ nb # << >>
  <2>1. \A i \in 1 .. n : [msg |-> b[i], attempt |-> attempts[b[i]] + 1] \in Claims
    BY <1>12, LimitsAssumption DEF Claims, Attempts
  <2>2. nb \in Seq(Claims) /\ Len(nb) = n
    BY <2>1
  <2> QED
    BY <2>2
<1>4. attempts' \in [Messages -> 0 .. MaxAttempts]
  <2>1. attempts' = [m \in Messages |-> IF \E i \in 1 .. n : m = b[i]
                                          THEN attempts[m] + 1 ELSE attempts[m]]
    BY <1>2 DEF Claim
  <2>2. ASSUME NEW m \in Messages, \E i \in 1 .. n : m = b[i]
        PROVE  attempts[m] + 1 \in 0 .. MaxAttempts
    BY <1>12, <2>2, LimitsAssumption
  <2>3. \A m \in Messages : attempts[m] \in 0 .. MaxAttempts
    BY DEF TypeInv, TypeOK
  <2> HIDE DEF nb
  <2> QED
    BY <2>1, <2>2, <2>3
<1>5. status' \in [Messages -> Statuses] /\ age' \in [Messages -> 0 .. LeaseTime + 1]
  BY <1>2, LimitsAssumption DEF Claim, TypeInv, TypeOK, Statuses
<1>6. batch' = [batch EXCEPT ![w] = nb]
  BY <1>2 DEF Claim
<1>7. batch' \in [Workers -> Seq(Claims)]
  BY <1>3, <1>6 DEF TypeInv, TypeOK
<1>8. pc' = [pc EXCEPT ![w] = "post"] /\ UNCHANGED <<created, seen, posted, accepted, aborts>>
  BY DEF ClaimBatch, channel
<1>9. TypeOK'
  BY <1>4, <1>5, <1>7, <1>8 DEF TypeInv, TypeOK, Steps
<1>10. LoopHasBatch'
  BY <1>3, <1>6, <1>8 DEF TypeInv, TypeOK, LoopHasBatch
<1> QED
  BY <1>9, <1>10 DEF TypeInv

LEMMA HeadIsClaim ==
    ASSUME TypeInv, NEW w \in Workers, pc[w] # "idle"
    PROVE  /\ batch[w] \in Seq(Claims)
           /\ batch[w] # << >>
           /\ Head(batch[w]) = batch[w][1]
           /\ Head(batch[w]).msg \in Messages
           /\ Head(batch[w]).attempt \in Attempts
<1>1. batch[w] \in Seq(Claims) /\ batch[w] # << >>
  BY DEF TypeInv, TypeOK, LoopHasBatch
<1>2. Head(batch[w]) = batch[w][1] /\ batch[w][1] \in Claims
  BY <1>1, TailPositions
<1> QED
  BY <1>1, <1>2 DEF Claims

LEMMA PostType ==
    ASSUME TypeInv, NEW w \in Workers, NEW accepts \in BOOLEAN, NEW returns \in BOOLEAN,
           Post(w, accepts, returns)
    PROVE  TypeInv'
<1>1. Head(batch[w]).msg \in Messages /\ Head(batch[w]).attempt \in Attempts
  BY HeadIsClaim DEF Post
<1>2. posted' \in [Messages -> [Attempts -> Nat]]
  <2> DEFINE m == Head(batch[w]).msg
             k == Head(batch[w]).attempt
  <2>1. posted' = [posted EXCEPT ![m][k] = @ + 1]
    BY DEF Post
  <2>2. posted \in [Messages -> [Attempts -> Nat]] /\ m \in Messages /\ k \in Attempts
    BY <1>1 DEF TypeInv, TypeOK
  <2> HIDE DEF m, k
  <2> QED
    BY <2>1, <2>2
<1>3. accepted' \in [Messages -> SUBSET Attempts]
  BY <1>1 DEF TypeInv, TypeOK, Post
<1> QED
  BY <1>2, <1>3 DEF TypeInv, TypeOK, LoopHasBatch, Post, rows, Steps

LEMMA ReadType ==
    ASSUME TypeInv, NEW w \in Workers, ReadRow(w)
    PROVE  TypeInv'
<1>1. Head(batch[w]).msg \in Messages
  BY HeadIsClaim DEF ReadRow
<1> QED
  BY <1>1 DEF TypeInv, TypeOK, LoopHasBatch, ReadRow, rows, channel, Steps, Views

(* What the two marks share. *)
LEMMA MarkType ==
    ASSUME TypeInv, NEW w \in Workers, pc[w] # "idle", NEW new \in Statuses,
           WriteStatus(w, new), NextRecord(w),
           UNCHANGED <<attempts, created, channel, aborts>>
    PROVE  TypeInv'
<1>1. Head(batch[w]).msg \in Messages /\ batch[w] \in Seq(Claims) /\ batch[w] # << >>
  BY HeadIsClaim
<1>2. Tail(batch[w]) \in Seq(Claims)
  BY <1>1
<1>3. status' \in [Messages -> Statuses] /\ age' \in [Messages -> 0 .. LeaseTime + 1]
  BY <1>1, LimitsAssumption DEF TypeInv, TypeOK, WriteStatus
<1>4. batch' \in [Workers -> Seq(Claims)] /\ pc' \in [Workers -> Steps]
      /\ seen' \in [Workers -> Views]
  BY <1>2, LimitsAssumption DEF TypeInv, TypeOK, NextRecord, Steps, Views, Unread, Statuses
<1>5. LoopHasBatch'
  BY <1>2 DEF TypeInv, TypeOK, LoopHasBatch, NextRecord
<1> QED
  BY <1>3, <1>4, <1>5 DEF TypeInv, TypeOK, channel

LEMMA AbortType ==
    ASSUME TypeInv, NEW w \in Workers, Abort(w)
    PROVE  TypeInv'
BY LimitsAssumption
DEF TypeInv, TypeOK, LoopHasBatch, Abort, rows, channel, Steps, Views, Unread, Statuses

LEMMA TickType == TypeInv /\ Tick => TypeInv'
BY LimitsAssumption DEF TypeInv, TypeOK, LoopHasBatch, Tick, channel

(* Every step keeps the types. *)
LEMMA TypeStep == TypeInv /\ [Next]_vars => TypeInv'
<1> SUFFICES ASSUME TypeInv, [Next]_vars
             PROVE  TypeInv'
  OBVIOUS
<1>1. CASE \E ms \in SUBSET Messages : Enqueue(ms)
  BY <1>1, EnqueueType
<1>2. ASSUME NEW w \in Workers, Worker(w) PROVE TypeInv'
  <2>1. CASE ClaimBatch(w)
    BY <2>1, ClaimType
  <2>2. CASE PostAny(w)
    BY <2>2, PostType DEF PostAny
  <2>3. CASE ReadRow(w)
    BY <2>3, ReadType
  <2>4. CASE MarkSent(w)
    BY <2>4, MarkType DEF MarkSent, Statuses
  <2>5. CASE MarkFailed(w)
    BY <2>5, MarkType DEF MarkFailed, Statuses
  <2> QED
    BY <1>2, <2>1, <2>2, <2>3, <2>4, <2>5 DEF Worker
<1>3. ASSUME NEW w \in Workers, Abort(w) PROVE TypeInv'
  BY <1>3, AbortType
<1>4. CASE Tick
  BY <1>4, TickType
<1>5. CASE UNCHANGED vars
  BY <1>5 DEF TypeInv, TypeOK, LoopHasBatch, vars, rows, channel
<1> QED
  BY <1>1, <1>2, <1>3, <1>4, <1>5 DEF Next

(* Every reachable state has the types TypeOK gives, for any constants. *)
THEOREM TypeCorrect == Spec => []TypeOK
<1>1. TypeInv => TypeOK
  BY DEF TypeInv
<1> QED
  BY <1>1, TypeInit, TypeStep, PTL DEF Spec

-----------------------------------------------------------------------------
(* The other conjuncts of IInv, action by action. *)
LEMMA SafeInit == Init => IInv
<1> SUFFICES ASSUME Init PROVE IInv
  OBVIOUS
<1>1. TypeOK /\ LoopHasBatch
  BY TypeInit DEF TypeInv
<1>2. \A w \in Workers : Positions(w) = {}
  BY DEF Init, Positions
<1>3. ClaimsCharged /\ ClaimsDistinct /\ ClaimsUnposted
  BY <1>2 DEF ClaimsCharged, ClaimsDistinct, ClaimsUnposted
<1>4. PostedCharged /\ PostedOnce /\ SentWasAccepted /\ DeadIsExhausted
  BY LimitsAssumption DEF Init, PostedCharged, PostedOnce, SentWasAccepted, DeadIsExhausted
<1>5. OkWasAccepted /\ SeenIsPast
  BY DEF Init, OkWasAccepted, SeenIsPast
<1> QED
  BY <1>1, <1>3, <1>4, <1>5 DEF IInv

LEMMA ClaimTyped ==
    ASSUME TypeOK, NEW v \in Workers, NEW i \in Positions(v)
    PROVE  /\ batch[v][i].msg \in Messages
           /\ batch[v][i].attempt \in Nat
           /\ batch[v][i].attempt \in Attempts
<1>1. batch[v] \in Seq(Claims)
  BY DEF TypeOK
<1>2. batch[v][i] \in Claims
  BY <1>1 DEF Positions
<1> QED
  BY <1>2, LimitsAssumption DEF Claims, Attempts

LEMMA EnqueueSafe ==
    ASSUME IInv, TypeOK', LoopHasBatch', NEW ms \in SUBSET Messages, Enqueue(ms)
    PROVE  IInv'
<1>1. UNCHANGED <<attempts, pc, batch, seen, posted, accepted>>
  BY DEF Enqueue, channel
<1>2. \A m \in Messages : status'[m] \in {"sent", "dead"} => status[m] = status'[m]
  BY DEF Enqueue, IInv, TypeOK
<1>3. ClaimsCharged' /\ ClaimsDistinct' /\ ClaimsUnposted'
  BY <1>1 DEF IInv, ClaimsCharged, ClaimsDistinct, ClaimsUnposted, Positions
<1>4. PostedCharged' /\ PostedOnce' /\ OkWasAccepted' /\ SeenIsPast'
  BY <1>1 DEF IInv, PostedCharged, PostedOnce, OkWasAccepted, SeenIsPast
<1>5. SentWasAccepted' /\ DeadIsExhausted'
  BY <1>1, <1>2 DEF IInv, SentWasAccepted, DeadIsExhausted
<1> QED
  BY <1>3, <1>4, <1>5 DEF IInv

LEMMA ClaimSafe ==
    ASSUME IInv, TypeOK', LoopHasBatch', NEW w \in Workers, ClaimBatch(w)
    PROVE  IInv'
<1>1. PICK n \in Nat \ {0} : \E b : Claim(w, n, b)
  BY ClaimedBatch DEF IInv
<1>2. PICK b : Claim(w, n, b)
  BY <1>1
<1>3. UNCHANGED <<seen, posted, accepted>> /\ pc' = [pc EXCEPT ![w] = "post"] /\ pc[w] = "idle"
  BY DEF ClaimBatch, channel
<1>4. \A i \in 1 .. n : b[i] \in Messages /\ attempts[b[i]] \in Nat
                        /\ attempts[b[i]] + 1 \in Attempts
  <2> TAKE i \in 1 .. n
  <2>1. b[i] \in Messages /\ attempts[b[i]] < MaxAttempts
    BY <1>2 DEF Claim, Eligible
  <2>2. attempts[b[i]] \in 0 .. MaxAttempts
    BY <2>1 DEF IInv, TypeOK
  <2> QED
    BY <2>1, <2>2, LimitsAssumption DEF Attempts
<1>5. /\ \A m \in Messages : attempts[m] \in Nat /\ attempts'[m] \in Nat
                             /\ attempts[m] <= attempts'[m]
      /\ \A i \in 1 .. n : attempts'[b[i]] = attempts[b[i]] + 1
  <2>1. \A m \in Messages : attempts[m] \in Nat
    BY LimitsAssumption DEF IInv, TypeOK
  <2>2. \A m \in Messages : attempts'[m] = IF \E i \in 1 .. n : m = b[i]
                                              THEN attempts[m] + 1 ELSE attempts[m]
    BY <1>2 DEF Claim
  <2> QED
    BY <1>4, <2>1, <2>2
<1>6. /\ Len(batch'[w]) = n
      /\ \A i \in 1 .. n : /\ batch'[w][i] = [msg |-> b[i], attempt |-> attempts[b[i]] + 1]
                           /\ batch'[w][i].msg = b[i]
                           /\ batch'[w][i].attempt = attempts[b[i]] + 1
      /\ \A v \in Workers : v # w => batch'[v] = batch[v]
  BY <1>2 DEF Claim, IInv, TypeOK
<1>7. \A v \in Workers : \A i \in Positions(v) : batch[v][i].msg \in Messages
                                                  /\ batch[v][i].attempt \in Nat
                                                  /\ batch[v][i].attempt \in Attempts
  BY ClaimTyped DEF IInv
<1>8. ClaimsCharged'
  <2> SUFFICES ASSUME NEW v \in Workers, NEW i \in Positions(v)'
               PROVE  batch'[v][i].attempt <= attempts'[batch'[v][i].msg]
    BY DEF ClaimsCharged
  <2>1. CASE v = w
    <3>1. i \in 1 .. n /\ batch'[v][i].msg = b[i] /\ batch'[v][i].attempt = attempts[b[i]] + 1
      BY <2>1, <1>6 DEF Positions
    <3> QED
      BY <3>1, <1>4, <1>5
  <2>2. CASE v # w
    <3>1. i \in Positions(v) /\ batch'[v] = batch[v]
      BY <2>2, <1>6 DEF Positions
    <3>2. batch[v][i].attempt <= attempts[batch[v][i].msg]
      BY <3>1 DEF IInv, ClaimsCharged
    <3> QED
      BY <3>1, <3>2, <1>5, <1>7
  <2> QED
    BY <2>1, <2>2
<1>9. \A v \in Workers : v # w => \A i \in Positions(v), j \in 1 .. n :
          batch[v][i] # [msg |-> b[j], attempt |-> attempts[b[j]] + 1]
  <2> SUFFICES ASSUME NEW v \in Workers, NEW i \in Positions(v), NEW j \in 1 .. n,
                      batch[v][i] = [msg |-> b[j], attempt |-> attempts[b[j]] + 1]
               PROVE  FALSE
    OBVIOUS
  <2>1. attempts[b[j]] + 1 <= attempts[b[j]]
    BY DEF IInv, ClaimsCharged
  <2> QED
    BY <2>1, <1>4
<1>10. ClaimsDistinct'
  <2> SUFFICES ASSUME NEW u \in Workers, NEW v \in Workers,
                      NEW i \in Positions(u)', NEW j \in Positions(v)',
                      batch'[u][i] = batch'[v][j]
               PROVE  u = v /\ i = j
    BY DEF ClaimsDistinct
  <2>1. CASE u = w /\ v = w
    <3>1. b[i] = b[j] /\ i \in 1 .. n /\ j \in 1 .. n
      BY <2>1, <1>6 DEF Positions
    <3> QED
      BY <2>1, <3>1, <1>2 DEF Claim
  <2>2. CASE u = w /\ v # w
    <3>1. i \in 1 .. n /\ j \in Positions(v) /\ batch'[v] = batch[v]
      BY <2>2, <1>6 DEF Positions
    <3>2. batch[v][j] = [msg |-> b[i], attempt |-> attempts[b[i]] + 1]
      BY <2>2, <3>1, <1>6
    <3> QED
      BY <2>2, <3>1, <3>2, <1>9
  <2>3. CASE u # w /\ v = w
    <3>1. j \in 1 .. n /\ i \in Positions(u) /\ batch'[u] = batch[u]
      BY <2>3, <1>6 DEF Positions
    <3>2. batch[u][i] = [msg |-> b[j], attempt |-> attempts[b[j]] + 1]
      BY <2>3, <3>1, <1>6
    <3> QED
      BY <2>3, <3>1, <3>2, <1>9
  <2>4. CASE u # w /\ v # w
    BY <2>4, <1>6 DEF IInv, ClaimsDistinct, Positions
  <2> QED
    BY <2>1, <2>2, <2>3, <2>4
<1>11. ClaimsUnposted'
  <2> SUFFICES ASSUME NEW v \in Workers, NEW i \in Positions(v)'
               PROVE  \/ i = 1 /\ pc'[v] # "post"
                      \/ posted[batch'[v][i].msg][batch'[v][i].attempt] = 0
    BY <1>3 DEF ClaimsUnposted
  <2>1. CASE v = w
    <3>1. i \in 1 .. n /\ batch'[v][i].msg = b[i] /\ batch'[v][i].attempt = attempts[b[i]] + 1
      BY <2>1, <1>6 DEF Positions
    <3>2. ~ (posted[b[i]][attempts[b[i]] + 1] > 0)
      BY <3>1, <1>4 DEF IInv, PostedCharged
    <3>3. posted[b[i]][attempts[b[i]] + 1] \in Nat
      BY <3>1, <1>4 DEF IInv, TypeOK
    <3> QED
      BY <3>1, <3>2, <3>3
  <2>2. CASE v # w
    <3>1. i \in Positions(v) /\ batch'[v] = batch[v] /\ pc'[v] = pc[v]
      BY <2>2, <1>3, <1>6 DEF Positions, IInv, TypeOK
    <3> QED
      BY <3>1 DEF IInv, ClaimsUnposted
  <2> QED
    BY <2>1, <2>2
<1>12. PostedCharged'
  BY <1>3, <1>5 DEF IInv, PostedCharged, Attempts
<1>13. PostedOnce'
  BY <1>3 DEF IInv, PostedOnce
<1>14. OkWasAccepted'
  <2>1. \A v \in Workers : pc'[v] \in {"ok", "markOk"} => v # w /\ pc'[v] = pc[v]
    BY <1>3 DEF IInv, TypeOK
  <2> QED
    BY <2>1, <1>3, <1>6 DEF IInv, OkWasAccepted
<1>15. SeenIsPast'
  <2> SUFFICES ASSUME NEW v \in Workers, pc'[v] = "markError"
               PROVE  seen[v].attempts <= attempts'[batch'[v][1].msg]
    BY <1>3 DEF SeenIsPast
  <2>1. v # w /\ pc[v] = "markError" /\ batch'[v] = batch[v]
    BY <1>3, <1>6 DEF IInv, TypeOK
  <2>2. 1 \in Positions(v)
    BY <2>1 DEF IInv, TypeOK, LoopHasBatch, Positions
  <2>3. seen[v].attempts <= attempts[batch[v][1].msg] /\ seen[v].attempts \in Nat
    BY <2>1, LimitsAssumption DEF IInv, SeenIsPast, TypeOK, Views
  <2> QED
    BY <2>1, <2>2, <2>3, <1>5, <1>7
<1>16. SentWasAccepted' /\ DeadIsExhausted'
  BY <1>2, <1>3, LimitsAssumption
  DEF Claim, IInv, TypeOK, SentWasAccepted, DeadIsExhausted, Eligible
<1> QED
  BY <1>8, <1>10, <1>11, <1>12, <1>13, <1>14, <1>15, <1>16 DEF IInv

LEMMA PostSafe ==
    ASSUME IInv, TypeOK', LoopHasBatch', NEW w \in Workers, NEW accepts \in BOOLEAN,
           NEW returns \in BOOLEAN, Post(w, accepts, returns)
    PROVE  IInv'
<1> DEFINE msg == batch[w][1].msg
           k   == batch[w][1].attempt
<1>1. /\ Head(batch[w]) = batch[w][1]
      /\ msg \in Messages /\ k \in Attempts
      /\ 1 \in Positions(w)
  <2>1. batch[w] # << >> /\ batch[w] \in Seq(Claims) /\ pc[w] # "idle"
    BY HeadIsClaim DEF Post, IInv, TypeInv
  <2> QED
    BY <2>1, HeadIsClaim DEF IInv, TypeInv, Positions
<1>2. /\ UNCHANGED <<status, attempts, batch, seen>>
      /\ pc[w] = "post"
      /\ pc' = [pc EXCEPT ![w] = IF returns THEN "ok" ELSE "error"]
      /\ returns => accepts
  BY DEF Post, rows
<1>3. posted' = [posted EXCEPT ![msg][k] = @ + 1]
  BY <1>1 DEF Post
<1>4. /\ \A m \in Messages : accepted[m] \subseteq accepted'[m]
      /\ returns => k \in accepted'[msg]
  <2>1. accepted' = IF accepts THEN [accepted EXCEPT ![msg] = @ \cup {k}] ELSE accepted
    BY <1>1 DEF Post
  <2>2. accepted \in [Messages -> SUBSET Attempts]
    BY DEF IInv, TypeOK
  <2> QED
    BY <1>1, <1>2, <2>1, <2>2
<1>5. posted[msg][k] = 0 /\ k <= attempts[msg]
  BY <1>1, <1>2 DEF IInv, ClaimsUnposted, ClaimsCharged
<1>6. \A m \in Messages : \A a \in Attempts :
        posted'[m][a] = IF m = msg /\ a = k THEN 1 ELSE posted[m][a]
  <2>1. posted \in [Messages -> [Attempts -> Nat]]
    BY DEF IInv, TypeOK
  <2>2. posted'[msg] = [posted[msg] EXCEPT ![k] = posted[msg][k] + 1]
    BY <1>1, <1>3, <2>1
  <2>3. \A m \in Messages : m # msg => posted'[m] = posted[m]
    BY <1>3, <2>1
  <2>4. \A a \in Attempts : posted'[msg][a] = IF a = k THEN 1 ELSE posted[msg][a]
    BY <1>1, <1>5, <2>1, <2>2
  <2> QED
    BY <2>3, <2>4
<1>7. ClaimsCharged' /\ ClaimsDistinct'
  BY <1>2 DEF IInv, ClaimsCharged, ClaimsDistinct, Positions
<1>8. ClaimsUnposted'
  <2> SUFFICES ASSUME NEW v \in Workers, NEW i \in Positions(v), ~ (i = 1 /\ pc'[v] # "post")
               PROVE  posted'[batch[v][i].msg][batch[v][i].attempt] = 0
    BY <1>2 DEF ClaimsUnposted, Positions
  <2>1. ~ (i = 1 /\ pc[v] # "post") /\ ~ (v = w /\ i = 1)
    BY <1>2 DEF IInv, TypeOK
  <2>2. posted[batch[v][i].msg][batch[v][i].attempt] = 0
    BY <2>1 DEF IInv, ClaimsUnposted
  <2>3. batch[v][i].msg \in Messages /\ batch[v][i].attempt \in Attempts
    BY ClaimTyped DEF IInv
  <2>4. ~ (batch[v][i].msg = msg /\ batch[v][i].attempt = k)
    <3>1. batch[v][i] # batch[w][1]
      BY <2>1, <1>1 DEF IInv, ClaimsDistinct
    <3>2. batch[v][i] \in Claims /\ batch[w][1] \in Claims
      BY <1>1 DEF IInv, TypeOK, Positions
    <3> QED
      BY <3>1, <3>2 DEF Claims
  <2> QED
    BY <1>6, <2>2, <2>3, <2>4
<1>9. PostedCharged' /\ PostedOnce'
  BY <1>2, <1>5, <1>6 DEF IInv, PostedCharged, PostedOnce
<1>10. OkWasAccepted'
  <2> SUFFICES ASSUME NEW v \in Workers, pc'[v] \in {"ok", "markOk"}
               PROVE  accepted'[batch[v][1].msg] # {}
    BY <1>2 DEF OkWasAccepted
  <2>1. CASE v = w
    BY <2>1, <1>2, <1>4 DEF IInv, TypeOK
  <2>2. CASE v # w
    <3>1. pc[v] \in {"ok", "markOk"}
      BY <2>2, <1>2 DEF IInv, TypeOK
    <3>2. batch[v][1].msg \in Messages
      BY <3>1, HeadIsClaim DEF IInv, TypeInv
    <3> QED
      BY <3>1, <3>2, <1>4 DEF IInv, OkWasAccepted
  <2> QED
    BY <2>1, <2>2
<1>11. SeenIsPast'
  BY <1>2 DEF IInv, TypeOK, SeenIsPast
<1>12. SentWasAccepted' /\ DeadIsExhausted'
  BY <1>2, <1>4 DEF IInv, SentWasAccepted, DeadIsExhausted
<1> QED
  BY <1>7, <1>8, <1>9, <1>10, <1>11, <1>12 DEF IInv

LEMMA ReadSafe ==
    ASSUME IInv, TypeOK', LoopHasBatch', NEW w \in Workers, ReadRow(w)
    PROVE  IInv'
<1>1. /\ UNCHANGED <<status, attempts, batch, posted, accepted>>
      /\ pc[w] \in {"ok", "error"}
      /\ pc' = [pc EXCEPT ![w] = IF pc[w] = "ok" THEN "markOk" ELSE "markError"]
  BY DEF ReadRow, rows, channel
<1>2. Head(batch[w]) = batch[w][1] /\ batch[w][1].msg \in Messages
  BY <1>1, HeadIsClaim DEF IInv, TypeInv
<1>3. \A v \in Workers : pc'[v] = "post" <=> pc[v] = "post"
  BY <1>1 DEF IInv, TypeOK
<1>4. ClaimsCharged' /\ ClaimsDistinct' /\ ClaimsUnposted'
  BY <1>1, <1>3 DEF IInv, ClaimsCharged, ClaimsDistinct, ClaimsUnposted, Positions
<1>5. PostedCharged' /\ PostedOnce' /\ SentWasAccepted' /\ DeadIsExhausted'
  BY <1>1 DEF IInv, PostedCharged, PostedOnce, SentWasAccepted, DeadIsExhausted
<1>6. OkWasAccepted'
  <2>1. \A v \in Workers : pc'[v] \in {"ok", "markOk"} => pc[v] \in {"ok", "markOk"}
    BY <1>1 DEF IInv, TypeOK
  <2> QED
    BY <1>1, <2>1 DEF IInv, OkWasAccepted
<1>7. SeenIsPast'
  <2> SUFFICES ASSUME NEW v \in Workers, pc'[v] = "markError"
               PROVE  seen'[v].attempts <= attempts[batch[v][1].msg]
    BY <1>1 DEF SeenIsPast
  <2>1. CASE v = w
    <3>1. seen'[w].attempts = attempts[batch[w][1].msg]
      BY <1>2 DEF ReadRow, IInv, TypeOK
    <3>2. attempts[batch[w][1].msg] \in Nat
      BY <1>2, LimitsAssumption DEF IInv, TypeOK
    <3> QED
      BY <2>1, <3>1, <3>2
  <2>2. CASE v # w
    <3>1. pc[v] = "markError" /\ seen'[v] = seen[v]
      BY <2>2, <1>1 DEF ReadRow, IInv, TypeOK
    <3> QED
      BY <3>1 DEF IInv, SeenIsPast
  <2> QED
    BY <2>1, <2>2
<1> QED
  BY <1>4, <1>5, <1>6, <1>7 DEF IInv

(* What both marks do to the loops. *)
LEMMA MarkSafe ==
    ASSUME IInv, TypeOK', LoopHasBatch', NEW w \in Workers,
           pc[w] \in {"markOk", "markError"}, NextRecord(w),
           UNCHANGED <<attempts, created, channel, aborts>>,
           SentWasAccepted', DeadIsExhausted'
    PROVE  IInv'
<1>1. /\ UNCHANGED <<attempts, posted, accepted>>
      /\ batch' = [batch EXCEPT ![w] = Tail(batch[w])]
      /\ pc' = [pc EXCEPT ![w] = IF Tail(batch[w]) = << >> THEN "idle" ELSE "post"]
      /\ seen' = [seen EXCEPT ![w] = Unread]
  BY DEF NextRecord, channel
<1>2. \A v \in Workers : v # w => batch'[v] = batch[v] /\ pc'[v] = pc[v] /\ seen'[v] = seen[v]
  BY <1>1 DEF IInv, TypeOK
<1>3. /\ pc'[w] \in {"idle", "post"}
      /\ \A i \in Positions(w)' : i + 1 \in Positions(w) /\ batch'[w][i] = batch[w][i + 1]
                                  /\ i \in Nat \ {0}
  <2>1. batch[w] \in Seq(Claims) /\ batch[w] # << >>
    BY HeadIsClaim DEF IInv, TypeInv
  <2>2. batch'[w] = Tail(batch[w]) /\ pc'[w] \in {"idle", "post"}
    BY <1>1 DEF IInv, TypeOK
  <2> QED
    BY <2>1, <2>2, TailPositions DEF Positions
<1> DEFINE old(v, i) == IF v = w THEN i + 1 ELSE i
<1>4. \A v \in Workers : \A i \in Positions(v)' :
        /\ old(v, i) \in Positions(v)
        /\ batch'[v][i] = batch[v][old(v, i)]
        /\ i \in Nat \ {0}
  BY <1>2, <1>3 DEF Positions
<1>5. ClaimsCharged'
  <2> SUFFICES ASSUME NEW v \in Workers, NEW i \in Positions(v)'
               PROVE  batch'[v][i].attempt <= attempts'[batch'[v][i].msg]
    BY DEF ClaimsCharged
  <2>1. PICK o \in Positions(v) : batch'[v][i] = batch[v][o]
    BY <1>4
  <2>2. batch[v][o].attempt <= attempts[batch[v][o].msg]
    BY DEF IInv, ClaimsCharged
  <2> QED
    BY <2>1, <2>2, <1>1
<1>6. ClaimsDistinct'
  <2> SUFFICES ASSUME NEW u \in Workers, NEW v \in Workers,
                      NEW i \in Positions(u)', NEW j \in Positions(v)',
                      batch'[u][i] = batch'[v][j]
               PROVE  u = v /\ i = j
    BY DEF ClaimsDistinct
  <2>1. u = v /\ old(u, i) = old(v, j)
    BY <1>4 DEF IInv, ClaimsDistinct
  <2> QED
    BY <2>1, <1>4
<1>7. ClaimsUnposted'
  <2> SUFFICES ASSUME NEW v \in Workers, NEW i \in Positions(v)',
                      ~ (i = 1 /\ pc'[v] # "post")
               PROVE  posted[batch'[v][i].msg][batch'[v][i].attempt] = 0
    BY <1>1 DEF ClaimsUnposted
  <2>1. ~ (old(v, i) = 1 /\ pc[v] # "post")
    BY <1>2, <1>4
  <2> QED
    BY <2>1, <1>4 DEF IInv, ClaimsUnposted
<1>8. PostedCharged' /\ PostedOnce'
  BY <1>1 DEF IInv, PostedCharged, PostedOnce
<1>9. OkWasAccepted' /\ SeenIsPast'
  <2>1. \A v \in Workers : pc'[v] \in {"ok", "markOk", "markError"}
          => pc'[v] = pc[v] /\ batch'[v] = batch[v] /\ seen'[v] = seen[v]
    BY <1>2, <1>3
  <2> QED
    BY <1>1, <2>1 DEF IInv, OkWasAccepted, SeenIsPast
<1> QED
  BY <1>5, <1>6, <1>7, <1>8, <1>9 DEF IInv

LEMMA SentSafe ==
    ASSUME IInv, TypeOK', LoopHasBatch', NEW w \in Workers, MarkSent(w)
    PROVE  IInv'
<1>1. /\ pc[w] = "markOk" /\ NextRecord(w) /\ UNCHANGED <<attempts, created, channel, aborts>>
      /\ UNCHANGED <<attempts, accepted>>
  BY DEF MarkSent, channel
<1>2. Head(batch[w]) = batch[w][1] /\ accepted[batch[w][1].msg] # {}
  BY <1>1, HeadIsClaim DEF IInv, TypeInv, OkWasAccepted
<1>3. \A m \in Messages : \/ status'[m] = status[m]
                          \/ m = batch[w][1].msg /\ status'[m] = "sent"
  BY <1>2 DEF MarkSent, WriteStatus, IInv, TypeOK
<1>4. SentWasAccepted' /\ DeadIsExhausted'
  BY <1>1, <1>2, <1>3 DEF IInv, SentWasAccepted, DeadIsExhausted
<1> QED
  BY <1>1, <1>4, MarkSafe

LEMMA FailedSafe ==
    ASSUME IInv, TypeOK', LoopHasBatch', NEW w \in Workers, MarkFailed(w)
    PROVE  IInv'
<1>1. /\ pc[w] = "markError" /\ NextRecord(w) /\ UNCHANGED <<attempts, created, channel, aborts>>
      /\ UNCHANGED <<attempts, accepted>>
  BY DEF MarkFailed, channel
<1>2. Head(batch[w]) = batch[w][1] /\ batch[w][1].msg \in Messages
  BY <1>1, HeadIsClaim DEF IInv, TypeInv
<1>3. \A m \in Messages : \/ status'[m] = status[m]
                          \/ status'[m] = "failed"
                          \/ m = batch[w][1].msg /\ status'[m] = "dead" /\ Exhausted(w)
  BY <1>2 DEF MarkFailed, WriteStatus, IInv, TypeOK
<1>4. Exhausted(w) => attempts[batch[w][1].msg] = MaxAttempts
  <2>1. seen[w].attempts <= attempts[batch[w][1].msg]
    BY <1>1 DEF IInv, SeenIsPast
  <2>2. attempts[batch[w][1].msg] \in 0 .. MaxAttempts /\ seen[w].attempts \in 0 .. MaxAttempts
    BY <1>2 DEF IInv, TypeOK, Views
  <2> QED
    BY <2>1, <2>2, LimitsAssumption DEF Exhausted
<1>5. SentWasAccepted' /\ DeadIsExhausted'
  BY <1>1, <1>3, <1>4 DEF IInv, SentWasAccepted, DeadIsExhausted
<1> QED
  BY <1>1, <1>5, MarkSafe

LEMMA AbortSafe ==
    ASSUME IInv, TypeOK', LoopHasBatch', NEW w \in Workers, Abort(w)
    PROVE  IInv'
<1>1. /\ UNCHANGED <<status, attempts, posted, accepted>>
      /\ pc' = [pc EXCEPT ![w] = "idle"]
      /\ batch' = [batch EXCEPT ![w] = << >>]
      /\ seen' = [seen EXCEPT ![w] = Unread]
  BY DEF Abort, rows, channel
<1>2. /\ \A v \in Workers : v # w => batch'[v] = batch[v] /\ pc'[v] = pc[v] /\ seen'[v] = seen[v]
      /\ pc'[w] = "idle" /\ batch'[w] = << >>
  BY <1>1 DEF IInv, TypeOK
<1>3. \A v \in Workers : \A i \in Positions(v)' : v # w /\ i \in Positions(v)
  BY <1>2 DEF Positions
<1>4. ClaimsCharged' /\ ClaimsDistinct' /\ ClaimsUnposted'
  BY <1>1, <1>2, <1>3 DEF IInv, ClaimsCharged, ClaimsDistinct, ClaimsUnposted
<1>5. PostedCharged' /\ PostedOnce' /\ SentWasAccepted' /\ DeadIsExhausted'
  BY <1>1 DEF IInv, PostedCharged, PostedOnce, SentWasAccepted, DeadIsExhausted
<1>6. OkWasAccepted' /\ SeenIsPast'
  BY <1>1, <1>2 DEF IInv, OkWasAccepted, SeenIsPast
<1> QED
  BY <1>4, <1>5, <1>6 DEF IInv

(* A step that moves only the ages, or nothing. *)
LEMMA IdleSafe ==
    ASSUME IInv, TypeOK', LoopHasBatch',
           UNCHANGED <<status, attempts, pc, batch, seen, posted, accepted>>
    PROVE  IInv'
BY DEF IInv, ClaimsCharged, ClaimsDistinct, ClaimsUnposted, PostedCharged, PostedOnce,
       OkWasAccepted, SentWasAccepted, SeenIsPast, DeadIsExhausted, Positions

LEMMA SafeStep == IInv /\ [Next]_vars => IInv'
<1> SUFFICES ASSUME IInv, [Next]_vars
             PROVE  IInv'
  OBVIOUS
<1> USE TypeStep DEF TypeInv
<1>1. TypeOK' /\ LoopHasBatch'
  BY DEF IInv
<1>2. CASE \E ms \in SUBSET Messages : Enqueue(ms)
  BY <1>1, <1>2, EnqueueSafe
<1>3. ASSUME NEW w \in Workers, Worker(w) PROVE IInv'
  <2>1. CASE ClaimBatch(w)
    BY <1>1, <2>1, ClaimSafe
  <2>2. CASE PostAny(w)
    BY <1>1, <2>2, PostSafe DEF PostAny
  <2>3. CASE ReadRow(w)
    BY <1>1, <2>3, ReadSafe
  <2>4. CASE MarkSent(w)
    BY <1>1, <2>4, SentSafe
  <2>5. CASE MarkFailed(w)
    BY <1>1, <2>5, FailedSafe
  <2> QED
    BY <1>3, <2>1, <2>2, <2>3, <2>4, <2>5 DEF Worker
<1>4. ASSUME NEW w \in Workers, Abort(w) PROVE IInv'
  BY <1>1, <1>4, AbortSafe
<1>5. CASE Tick
  BY <1>1, <1>5, IdleSafe DEF Tick, channel
<1>6. CASE UNCHANGED vars
  BY <1>1, <1>6, IdleSafe DEF vars, rows, channel
<1> QED
  BY <1>2, <1>3, <1>4, <1>5, <1>6 DEF Next

LEMMA SafeAlways == Spec => []IInv
BY SafeInit, SafeStep, PTL DEF Spec

(* No attempt reaches Telegram twice, whatever number of workers overlap. *)
THEOREM AttemptsArePostedOnce == Spec => []PostedOnce
<1>1. IInv => PostedOnce
  BY DEF IInv
<1> QED
  BY <1>1, SafeAlways, PTL

(* A row is "sent" only after Telegram accepted its message. *)
THEOREM SentMeansAccepted == Spec => []SentWasAccepted
<1>1. IInv => SentWasAccepted
  BY DEF IInv
<1> QED
  BY <1>1, SafeAlways, PTL

(* A row is "dead" only when it has used every attempt. *)
THEOREM DeadMeansExhausted == Spec => []DeadIsExhausted
<1>1. IInv => DeadIsExhausted
  BY DEF IInv
<1> QED
  BY <1>1, SafeAlways, PTL

-----------------------------------------------------------------------------
(* No takeover.  As long as a process that is free to claim finds no lease
   ended among the rows another loop still holds, every row is held by one loop
   and is "sending", and what a mark read is still true when it writes.  Two
   conditions give this: every loop is done with its rows before the leases end
   (InTime), or there is only one process. *)
NoTakeover == \A v, w \in Workers : pc[w] = "idle" =>
                \A i \in Positions(v) : age[batch[v][i].msg] <= LeaseTime
OneWorker  == \A u, v \in Workers : u = v

NewIsUncharged == \A m \in Messages : status[m] \in {"absent", "pending"} => attempts[m] = 0
HeldOnce       == \A v, w \in Workers : \A i \in Positions(v), j \in Positions(w) :
                    batch[v][i].msg = batch[w][j].msg => v = w /\ i = j
HeldIsSending  == \A w \in Workers : \A i \in Positions(w) :
                    status[batch[w][i].msg] = "sending"
SeenIsNow      == \A w \in Workers : pc[w] \in {"markOk", "markError"} =>
                    seen[w].attempts = attempts[batch[w][1].msg]

HeldInv ==
    /\ IInv
    /\ NewIsUncharged
    /\ HeldOnce
    /\ HeldIsSending
    /\ SeenIsNow
    /\ RetryableIsBelowLimit

Resolved(m) == status[m] \in {"sent", "dead"}
Final       == \A m \in Messages : Resolved(m) => status'[m] = status[m]

LEMMA InTimeNoTakeover == TypeOK /\ InTime => NoTakeover
<1> SUFFICES ASSUME TypeOK, InTime, NEW v \in Workers, NEW i \in Positions(v)
             PROVE  age[batch[v][i].msg] <= LeaseTime
  BY DEF NoTakeover
<1>1. i \in DOMAIN batch[v]
  BY DEF TypeOK, Positions
<1> QED
  BY <1>1 DEF InTime

LEMMA AloneNoTakeover == LoopHasBatch /\ OneWorker => NoTakeover
<1> SUFFICES ASSUME LoopHasBatch, OneWorker, NEW v \in Workers, NEW w \in Workers,
                    pc[w] = "idle", NEW i \in Positions(v)
             PROVE  FALSE
  BY DEF NoTakeover
<1>1. batch[v] = << >>
  BY DEF OneWorker, LoopHasBatch
<1> QED
  BY <1>1 DEF Positions

LEMMA HeldInit == Init => HeldInv
<1> SUFFICES ASSUME Init PROVE HeldInv
  OBVIOUS
<1>1. IInv
  BY SafeInit
<1>2. \A w \in Workers : Positions(w) = {}
  BY DEF Init, Positions
<1>3. HeldOnce /\ HeldIsSending
  BY <1>2 DEF HeldOnce, HeldIsSending
<1> QED
  BY <1>1, <1>3 DEF HeldInv, Init, NewIsUncharged, SeenIsNow, RetryableIsBelowLimit

LEMMA HeldEnqueue ==
    ASSUME HeldInv, IInv', NEW ms \in SUBSET Messages, Enqueue(ms)
    PROVE  HeldInv'
<1>1. UNCHANGED <<attempts, pc, batch, seen>>
  BY DEF Enqueue, channel
<1>2. \A m \in Messages : \/ status'[m] = status[m]
                          \/ status[m] = "absent" /\ status'[m] = "pending"
  BY DEF Enqueue, Rows
<1>3. NewIsUncharged' /\ RetryableIsBelowLimit'
  BY <1>1, <1>2, LimitsAssumption DEF HeldInv, NewIsUncharged, RetryableIsBelowLimit
<1>4. HeldIsSending'
  BY <1>1, <1>2, ClaimTyped DEF HeldInv, IInv, HeldIsSending, Positions
<1> QED
  BY <1>1, <1>3, <1>4 DEF HeldInv, HeldOnce, SeenIsNow, Positions

(* A row that a loop holds is not eligible to another. *)
LEMMA HeldIsNotEligible ==
    ASSUME HeldInv, NoTakeover, NEW w \in Workers, pc[w] = "idle",
           NEW v \in Workers, NEW i \in Positions(v)
    PROVE  batch[v][i].msg \notin Eligible
<1> DEFINE m == batch[v][i].msg
<1>1. m \in Messages
  BY ClaimTyped DEF HeldInv, IInv
<1>2. status[m] = "sending" /\ age[m] <= LeaseTime
  BY DEF HeldInv, HeldIsSending, NoTakeover
<1>3. age[m] \in Nat /\ LeaseTime \in Nat
  BY <1>1, LimitsAssumption DEF HeldInv, IInv, TypeOK
<1> HIDE DEF m
<1>4. ~ Expired(m)
  BY <1>2, <1>3 DEF Expired
<1>5. m \notin Eligible
  BY <1>2, <1>4 DEF Eligible
<1> QED
  BY <1>5 DEF m

LEMMA HeldClaim ==
    ASSUME HeldInv, NoTakeover, IInv', NEW w \in Workers, ClaimBatch(w)
    PROVE  HeldInv' /\ Final
<1>0. pc[w] = "idle"
  BY DEF ClaimBatch
<1>1. PICK n \in Nat \ {0} : \E b : Claim(w, n, b)
  BY ClaimedBatch DEF HeldInv, IInv
<1>2. PICK b : Claim(w, n, b)
  BY <1>1
<1>3. \A i \in 1 .. n : b[i] \in Messages /\ b[i] \in Eligible
  BY <1>2 DEF Claim, Eligible
<1>4. \A m \in Messages : \/ status'[m] = status[m] /\ attempts'[m] = attempts[m]
                          \/ status'[m] = "sending"
  BY <1>2 DEF Claim
<1>5. NewIsUncharged' /\ RetryableIsBelowLimit'
  BY <1>4 DEF HeldInv, NewIsUncharged, RetryableIsBelowLimit
<1>6. batch'[w] = [j \in 1 .. n |-> [msg |-> b[j], attempt |-> attempts[b[j]] + 1]]
  BY <1>2 DEF Claim, HeldInv, IInv, TypeOK
<1>7. Positions(w)' = 1 .. n /\ \A i \in 1 .. n : batch'[w][i].msg = b[i]
  BY <1>6 DEF Positions
<1>8. \A v \in Workers \ {w} : batch'[v] = batch[v] /\ Positions(v)' = Positions(v)
  BY <1>2 DEF Claim, Positions, HeldInv, IInv, TypeOK
<1>9. ASSUME NEW v \in Workers, NEW i \in Positions(v)
      PROVE  /\ batch[v][i].msg \in Messages
             /\ \A j \in 1 .. n : batch[v][i].msg # b[j]
  BY <1>0, <1>3, <1>9, HeldIsNotEligible, ClaimTyped DEF HeldInv, IInv
<1>10. HeldOnce'
  <2> SUFFICES ASSUME NEW u \in Workers, NEW v \in Workers,
                      NEW i \in Positions(u)', NEW j \in Positions(v)',
                      batch'[u][i].msg = batch'[v][j].msg
               PROVE  u = v /\ i = j
    BY DEF HeldOnce
  <2>1. CASE u = w /\ v = w
    <3>1. i \in 1 .. n /\ j \in 1 .. n /\ b[i] = b[j]
      BY <1>7, <2>1
    <3> QED
      BY <1>2, <2>1, <3>1 DEF Claim
  <2>2. CASE u = w /\ v # w
    BY <1>7, <1>8, <1>9, <2>2
  <2>3. CASE u # w /\ v = w
    BY <1>7, <1>8, <1>9, <2>3
  <2>4. CASE u # w /\ v # w
    BY <1>8, <2>4 DEF HeldInv, HeldOnce
  <2> QED
    BY <2>1, <2>2, <2>3, <2>4
<1>11. HeldIsSending'
  <2> SUFFICES ASSUME NEW v \in Workers, NEW i \in Positions(v)'
               PROVE  status'[batch'[v][i].msg] = "sending"
    BY DEF HeldIsSending
  <2>1. CASE v = w
    BY <1>2, <1>3, <1>7, <2>1 DEF Claim
  <2>2. CASE v # w
    BY <1>4, <1>8, <1>9, <2>2 DEF HeldInv, HeldIsSending
  <2> QED
    BY <2>1, <2>2
<1>12. SeenIsNow'
  <2> SUFFICES ASSUME NEW v \in Workers, pc'[v] \in {"markOk", "markError"}
               PROVE  seen'[v].attempts = attempts'[batch'[v][1].msg]
    BY DEF SeenIsNow
  <2>1. v # w /\ pc[v] \in {"markOk", "markError"} /\ seen' = seen
    BY DEF ClaimBatch, HeldInv, IInv, TypeOK
  <2>2. 1 \in Positions(v)
    <3>1. batch[v] # << >> /\ batch[v] \in Seq(Claims)
      BY <2>1 DEF HeldInv, IInv, LoopHasBatch, TypeOK
    <3> QED
      BY <3>1 DEF Positions
  <2>3. attempts'[batch[v][1].msg] = attempts[batch[v][1].msg]
    BY <1>2, <1>9, <2>2 DEF Claim
  <2> QED
    BY <1>8, <2>1, <2>3 DEF HeldInv, SeenIsNow
<1>13. Final
  BY <1>2 DEF Final, Resolved, Claim, Eligible, Expired
<1> QED
  BY <1>5, <1>10, <1>11, <1>12, <1>13 DEF HeldInv

(* A post, a read or a passing of time leaves the rows as they are. *)
LEMMA HeldRowsKept ==
    ASSUME HeldInv, IInv', UNCHANGED <<status, attempts, batch>>, SeenIsNow'
    PROVE  HeldInv' /\ Final
BY DEF HeldInv, NewIsUncharged, HeldOnce, HeldIsSending, RetryableIsBelowLimit, Positions,
       Final

(* A mark settles the head of the batch, which no other loop holds. *)
LEMMA HeldMark ==
    ASSUME HeldInv, IInv', NEW w \in Workers, pc[w] \in {"markOk", "markError"},
           NEW new \in {"sent", "dead", "failed"},
           new = "failed" => seen[w].attempts < MaxAttempts,
           WriteStatus(w, new), NextRecord(w), UNCHANGED attempts
    PROVE  HeldInv' /\ Final
<1> DEFINE m == batch[w][1].msg
<1>1. /\ batch[w] \in Seq(Claims) /\ batch[w] # << >> /\ Head(batch[w]).msg = m
      /\ m \in Messages
  BY HeadIsClaim DEF HeldInv, IInv, TypeInv
<1>2. 1 \in Positions(w)
  BY <1>1 DEF Positions
<1>3. status[m] = "sending" /\ seen[w].attempts = attempts[m]
  BY <1>2 DEF HeldInv, HeldIsSending, SeenIsNow
<1>4. \A v \in Workers : \A i \in Positions(v) : batch[v][i].msg = m => v = w /\ i = 1
  BY <1>2 DEF HeldInv, HeldOnce
<1> HIDE DEF m
<1>5. \A x \in Messages : x # m => status'[x] = status[x]
  BY <1>1 DEF WriteStatus
<1>6. status'[m] \in {new, "sending"}
  BY <1>1, <1>3 DEF WriteStatus, HeldInv, IInv, TypeOK
<1>7. /\ batch'[w] = Tail(batch[w]) /\ pc'[w] \in {"idle", "post"}
      /\ \A v \in Workers \ {w} : batch'[v] = batch[v] /\ seen'[v] = seen[v] /\ pc'[v] = pc[v]
  BY DEF NextRecord, HeldInv, IInv, TypeOK
<1>8. NewIsUncharged' /\ RetryableIsBelowLimit'
  BY <1>3, <1>5, <1>6 DEF HeldInv, NewIsUncharged, RetryableIsBelowLimit
<1>9. \A i \in Positions(w)' : /\ i \in Nat /\ i + 1 \in Positions(w) /\ i + 1 # 1
                               /\ batch'[w][i] = batch[w][i + 1]
  BY <1>1, <1>7, TailPositions DEF Positions
<1>10. \A v \in Workers \ {w} : Positions(v)' = Positions(v)
  BY <1>7 DEF Positions
<1> DEFINE was(v, i) == IF v = w THEN i + 1 ELSE i
<1>11. ASSUME NEW v \in Workers, NEW i \in Positions(v)'
       PROVE  was(v, i) \in Positions(v) /\ batch'[v][i] = batch[v][was(v, i)]
  <2>1. CASE v = w
    BY <1>9, <2>1
  <2>2. CASE v # w
    BY <1>7, <1>10, <2>2
  <2> QED
    BY <2>1, <2>2
<1>12. HeldOnce'
  <2> SUFFICES ASSUME NEW u \in Workers, NEW v \in Workers,
                      NEW i \in Positions(u)', NEW j \in Positions(v)',
                      batch'[u][i].msg = batch'[v][j].msg
               PROVE  u = v /\ i = j
    BY DEF HeldOnce
  <2>1. u = v /\ was(u, i) = was(v, j)
    <3>1. batch[u][was(u, i)].msg = batch[v][was(v, j)].msg
      BY <1>11
    <3> HIDE DEF was
    <3> QED
      BY <1>11, <3>1 DEF HeldInv, HeldOnce
  <2>2. i \in Nat /\ j \in Nat
    BY DEF Positions
  <2> QED
    BY <2>1, <2>2
<1>13. HeldIsSending'
  <2> SUFFICES ASSUME NEW v \in Workers, NEW i \in Positions(v)'
               PROVE  status'[batch'[v][i].msg] = "sending"
    BY DEF HeldIsSending
  <2> DEFINE k == was(v, i)
  <2>1. k \in Positions(v) /\ batch'[v][i] = batch[v][k]
    BY <1>11
  <2>2. ~ (v = w /\ k = 1)
    BY DEF Positions
  <2> HIDE DEF k
  <2>3. batch[v][k].msg # m /\ batch[v][k].msg \in Messages
    BY <1>4, <2>1, <2>2, ClaimTyped DEF HeldInv, IInv
  <2> QED
    BY <1>5, <2>1, <2>3 DEF HeldInv, HeldIsSending
<1>14. SeenIsNow'
  BY <1>7 DEF HeldInv, SeenIsNow
<1>15. Final
  BY <1>3, <1>5 DEF Final, Resolved
<1> QED
  BY <1>8, <1>12, <1>13, <1>14, <1>15 DEF HeldInv

LEMMA HeldStep ==
    ASSUME HeldInv, NoTakeover, [Next]_vars
    PROVE  HeldInv' /\ Final
<1>0. IInv'
  BY SafeStep DEF HeldInv
<1>1. CASE \E ms \in SUBSET Messages : Enqueue(ms)
  BY <1>0, <1>1, HeldEnqueue DEF Enqueue, Rows, Final, Resolved
<1>2. ASSUME NEW w \in Workers, Worker(w) PROVE HeldInv' /\ Final
  <2>1. CASE ClaimBatch(w)
    BY <1>0, <2>1, HeldClaim
  <2>2. CASE PostAny(w)
    <3>1. pc'[w] \in {"ok", "error"} /\ \A v \in Workers \ {w} : pc'[v] = pc[v]
      BY <2>2 DEF PostAny, Post, HeldInv, IInv, TypeOK
    <3>2. UNCHANGED <<status, attempts, batch, seen>>
      BY <2>2 DEF PostAny, Post, rows
    <3>3. SeenIsNow'
      BY <3>1, <3>2 DEF HeldInv, SeenIsNow
    <3> QED
      BY <1>0, <3>2, <3>3, HeldRowsKept
  <2>3. CASE ReadRow(w)
    <3>1. UNCHANGED <<status, attempts, batch>>
      BY <2>3 DEF ReadRow, rows
    <3>2. Head(batch[w]).msg = batch[w][1].msg
      BY <2>3, HeadIsClaim DEF ReadRow, HeldInv, IInv, TypeInv
    <3>3. /\ seen'[w].attempts = attempts[batch[w][1].msg]
          /\ \A v \in Workers \ {w} : seen'[v] = seen[v] /\ pc'[v] = pc[v]
      BY <2>3, <3>2 DEF ReadRow, HeldInv, IInv, TypeOK
    <3>4. SeenIsNow'
      BY <3>1, <3>3 DEF HeldInv, SeenIsNow
    <3> QED
      BY <1>0, <3>1, <3>4, HeldRowsKept
  <2>4. CASE MarkSent(w)
    BY <1>0, <2>4, HeldMark DEF MarkSent
  <2>5. CASE MarkFailed(w)
    <3> DEFINE new == IF Exhausted(w) THEN "dead" ELSE "failed"
    <3>1. new \in {"sent", "dead", "failed"}
      OBVIOUS
    <3>2. seen[w].attempts \in Nat /\ MaxAttempts \in Nat
      BY LimitsAssumption DEF HeldInv, IInv, TypeOK, Views
    <3>3. new = "failed" => seen[w].attempts < MaxAttempts
      BY <3>2 DEF Exhausted
    <3>4. WriteStatus(w, new) /\ NextRecord(w) /\ UNCHANGED attempts /\ pc[w] = "markError"
      BY <2>5 DEF MarkFailed
    <3> HIDE DEF new
    <3> QED
      BY <1>0, <3>1, <3>3, <3>4, HeldMark
  <2> QED
    BY <1>2, <2>1, <2>2, <2>3, <2>4, <2>5 DEF Worker
<1>3. ASSUME NEW w \in Workers, Abort(w) PROVE HeldInv' /\ Final
  <2>1. /\ UNCHANGED <<status, attempts>> /\ batch'[w] = << >> /\ pc'[w] = "idle"
        /\ \A v \in Workers \ {w} : batch'[v] = batch[v] /\ seen'[v] = seen[v] /\ pc'[v] = pc[v]
    BY <1>3 DEF Abort, rows, HeldInv, IInv, TypeOK
  <2>2. /\ Positions(w)' = {}
        /\ \A v \in Workers \ {w} : Positions(v)' = Positions(v)
    BY <2>1 DEF Positions
  <2>3. HeldOnce' /\ HeldIsSending' /\ SeenIsNow'
    BY <2>1, <2>2 DEF HeldInv, HeldOnce, HeldIsSending, SeenIsNow
  <2> QED
    BY <1>0, <2>1, <2>3 DEF HeldInv, NewIsUncharged, RetryableIsBelowLimit, Final
<1>4. CASE Tick \/ UNCHANGED vars
  <2>1. UNCHANGED <<status, attempts, batch, pc, seen>>
    BY <1>4 DEF Tick, vars, rows
  <2> QED
    BY <1>0, <2>1, HeldRowsKept DEF HeldInv, SeenIsNow
<1> QED
  BY <1>1, <1>2, <1>3, <1>4 DEF Next

(* With any number of processes, a row that waits for a retry is below the
   attempt limit as long as the loops are done with their rows in time. *)
THEOREM RetryableWhenInTime == Spec => RetryableInTime
<1>1. HeldInv /\ InTime /\ [Next]_vars => HeldInv'
  BY HeldStep, InTimeNoTakeover DEF HeldInv, IInv
<1>2. HeldInv => RetryableIsBelowLimit
  BY DEF HeldInv
<1> QED
  BY <1>1, <1>2, HeldInit, PTL DEF Spec, RetryableInTime

(* With any number of processes, no row leaves "sent" or "dead" as long as the
   loops are done with their rows in time. *)
THEOREM ResolvedWhenInTime == Spec => ([]InTime => ResolvedIsFinal)
<1>1. HeldInv /\ InTime /\ [Next]_vars => HeldInv'
  BY HeldStep, InTimeNoTakeover DEF HeldInv, IInv
<1>2. HeldInv /\ InTime /\ [Next]_vars =>
        [\A m \in Messages : status[m] \in {"sent", "dead"} => status'[m] = status[m]]_vars
  BY HeldStep, InTimeNoTakeover DEF HeldInv, IInv, Final, Resolved
<1> QED
  BY <1>1, <1>2, HeldInit, PTL DEF Spec, ResolvedIsFinal

(* With one process a row that waits for a retry is below the attempt limit,
   in time or not. *)
THEOREM RetryableWithOneWorker ==
    ASSUME OneWorker
    PROVE  Spec => []RetryableIsBelowLimit
<1>1. HeldInv /\ [Next]_vars => HeldInv'
  BY HeldStep, AloneNoTakeover DEF HeldInv, IInv
<1>2. HeldInv => RetryableIsBelowLimit
  BY DEF HeldInv
<1> QED
  BY <1>1, <1>2, HeldInit, PTL DEF Spec

(* With one process no row leaves "sent" or "dead", in time or not. *)
THEOREM ResolvedWithOneWorker ==
    ASSUME OneWorker
    PROVE  Spec => ResolvedIsFinal
<1>1. HeldInv /\ [Next]_vars => HeldInv'
  BY HeldStep, AloneNoTakeover DEF HeldInv, IInv
<1>2. HeldInv /\ [Next]_vars =>
        [\A m \in Messages : status[m] \in {"sent", "dead"} => status'[m] = status[m]]_vars
  BY HeldStep, AloneNoTakeover DEF HeldInv, IInv, Final, Resolved
<1> QED
  BY <1>1, <1>2, HeldInit, PTL DEF Spec, ResolvedIsFinal
=============================================================================
