# Verification of the Neuro-Cognitive Alignment Engine

TLA+ models of the engine's persistent state machines, the TLC runs that check
them on small instances, and TLAPS proofs of their most important invariants.
Paths and line numbers refer to `src/src/neuro_alignment/` unless said otherwise.

## The system

A FastAPI application plans one user's day from Notion, asks for approval in
Telegram, follows the day and answers reports. Nothing but the database survives
a request; several requests run at once in one process, and PostgreSQL permits
several processes. Each repository call is one READ COMMITTED transaction of its
own; a request is a chain of such transactions with HTTP calls in between.

| Component | Code | State it keeps | Operations | What makes it correct |
|---|---|---|---|---|
| HTTP ingress | `api.py` | none | webhook, two scheduler triggers, outbox trigger, health | answers 2xx only for work that is done or rejected for good |
| Workflow frame | `workflow.py` 124-272, 953 | graph state, in memory | claim, branch, complete, fail | an event is worked to its end, and what a try calls for is inserted once |
| Daily plan branch | `workflow.py` 274-363 | - | fetch, plan, save, log, announce | only real changes need approval, and every change is announced |
| Decision branch | `workflow.py` 520-591 | - | look up, log, update, reply | the plan in force is the one the user approved |
| Monitor branch | `workflow.py` 365-518 | - | load plan, load reports, enqueue | questions follow the reports, in order |
| Behaviour, conversation | `workflow.py` 646-951 | - | record, retrieve, generate, criticise, reply | bounded revisions, grounded feedback, a text is recorded for an open task of the plan or not at all |
| Event repository | `storage.py` 235-445 | `inbound_events`, `domain_events` | claim, complete, fail, append, fold | keys make every insert happen once |
| Plan repository | `storage.py` 561-710 | `daily_plans` | save, update_status, look-ups | the status belongs to the content |
| Memory repository | `storage.py` 448-558, `memory.py` | `behavioral_memories` | store, nearest episodes | one episode per event |
| Outbox repository | `storage.py` 713-841 | `outbox` | enqueue, claim, mark sent, mark failed | leases and attempts bound the sends |
| Dispatcher | `delivery.py` | a lock | deliver | one loop per process |
| Telegram, Notion | `integrations.py` | none | send, fetch, parse | errors are raised, never swallowed |
| Intelligence | `intelligence.py` | none | plan, feedback, reply, with fallback | validated output or local rules |
| Runtime, checkpoints | `runtime.py`, `checkpointing.py` | resources | start, close | ready only when complete |
| Scheduled jobs | `src/.github/workflows` | none | 07:35 plan, every 15 minutes sync and monitor | retries reuse the request id |

How they meet: ingress calls the workflow, then the dispatcher; the branches
share the plan row, the domain events and the outbox; the outbox key, the
domain-event id and the inbox row are what a retried or a concurrent request
finds of an earlier one. Checkpoints never steer a later event: `_initial_state`
overwrites every field.

Hard behaviour: requests that overlap on one row (read and write are separate
statements, no row lock outside the outbox claim); a request that dies between
two transactions; senders that retry within a lease; a lease that ends while its
holder works on; an answer from Telegram that is lost; reports that are recorded
later and in another order than they were made; a plan that changes while
somebody decides it or reports on it; a language model that may answer anything
and answers differently when asked again. `PROJECT.json` lists each hazard at its line with the
properties aimed at it.

## Modules

| Module | Models |
|---|---|
| `Outbox` | outbox rows, leases, attempts and the delivery loops of several processes |
| `Mailbox` | abstract: what the outbox promises; `Outbox` implements it |
| `Ledger` | abstract: what idempotent ingress promises of an event; `Inbox` implements it |
| `Inbox` | an inbound event from claim to completion, the keyed inserts that its tries call for, failing requests, restarts, the sender's bounded retries |
| `PlanApproval` | the plan row of a day under overlapping syncs and decisions, its announcements, keyboards and domain events |
| `Approval` | abstract: what a day's plan promises; `PlanApproval` implements it when requests do not overlap |
| `Planner` | operators: the rule-based planner's sort |
| `DayPlan` | `PlanApproval` with the plans this planner builds of Notion's pages |
| `Activity` | operators: the fold of reports to a task's activity |
| `TaskMonitor` | monitor requests beside late reports and changes of the approved plan |
| `Intelligence` | operators: what a provider may answer to a text or a report, validation, fallback, critic |
| `TaskReports` | presses and texts from the claimed event to the reply, over domain events, episodes and outbox |
| `OutboxProofs`, `MailboxProofs`, `InboxProofs`, `PlanApprovalProofs`, `PlannerProofs`, `DayPlanProofs`, `TaskMonitorProofs`, `TaskReportsProofs` | theorems |
| `MCOutbox`, `MCInbox`, `MCPlanApproval`, `MCTaskMonitor`, `MCReports` | instances for TLC: constant functions, small inputs, symmetry where only safety is checked and it is sound |

How they meet: `Inbox` treats each try of an event as a list of keyed inserts;
`PlanApproval`, `TaskMonitor` and `TaskReports` are that work for the three kinds
of event, each with its requests and their failures, and what they put into the
outbox is what `Outbox` delivers. `TaskMonitor` and `TaskReports` take the
approved plan as an input that may change at any step; `PlanApproval` says how.

### Outbox

`status`, `attempts`, `created` and `age` are the row (`OutboxRecord`); `age` is
the time since `updated_at`, kept only as far as the lease comparison can tell.
`pc`, `batch` and `seen` are one delivery loop per process (the local lock admits
one). `posted` and `accepted` are history of the channel, per attempt.

`Enqueue` is `enqueue` (a race of two inserts of one key raises and inserts
nothing, so it is no step here). `ClaimBatch` is `claim_delivery_batch`, atomic
because its rows are locked; `Eligible` is its WHERE, `OldestFirst` its ORDER BY
and LIMIT, `Lease` its loop. `Post` has the three outcomes of an HTTP call:
accepted, accepted with a lost answer, refused. `mark_sent` and `mark_failed`
read without a lock, so each is two steps, `ReadRow` and the write, and the
write leaves out a column that did not change, as SQLAlchemy does. `Abort` is a
process that dies, a cancelled request or a mark that raises.

The abstract `Mailbox` forgets leases, batches and processes: a message is put
in, tries begin and are bounded, a try hands over at most one copy, and "sent"
and "dead" are claimed only when true. The refinement maps "pending", "sending"
and "failed" to "open", `attempts` to the tries and `accepted` to the tries that
handed the message over. It is checked with two processes: what `Mailbox` leaves
open (a resolved message settled anew) is what really happens there. It happens
only when a lease ends while its loop still works on the row; `InTime` says that
none does, and `RetryableInTime` is what holds then for any number of processes.

### Inbox

`record` and `lease` are the row of `inbound_events`. What a try of an event
writes besides is a list of inserts, each guarded by a key and done in order: that
is the form of `append_domain_event`, `store_episode` and the outbox's `enqueue`.
The list is the try's own. `Calls` has the lists of the five branches (with a chat
id configured): a sync whose `plans.save` finds the plan unchanged calls for
nothing (`workflow.py` 298, 320), a text calls for a domain event and an episode
only when it is read as a sure action (912-918), a monitor cycle may have no
message. What makes a branch choose is the subject of the other modules; here
every try may choose any list of its branch, so a retry may call for less than the
try before it began. The messages of a plan, a decision and the monitor are keyed
by the plan, so a request for another event may have queued them
(`OtherEventInserts`).

Two requests that race for a key make one of them raise. `Raise` is the except
branch of `process`, which calls `fail_inbound` before the error goes on; only an
error of the graph's own, a `LookupError` or `WorkflowInputError`, becomes a 200
"rejected". The claim, complete and fail transactions are a read and a write each.
A handler is a request; `Deliver` is the sender, which repeats until it is told 2xx
or its `MaxTries` are used up, whatever the lease does. `finished` is history: the
lists of the tries that completed the event. The step `claimWrite` also covers the
commit.

An event is `Done` when some try worked it to its end and everything that such
tries called for is in the database. This is what a completed row and the answer
"processed" mean, and not more: a sync that dies after `plans.save` is completed by
its retry with no log entry and no announcement. For the branches whose tries all
call for the same inserts (press, decision, the note and the reply of a text) it
means the whole of them, which is the theorem `CompletedIsWhole`.

The abstract `Ledger` forgets requests, leases and retries: an event is
registered, the inserts of a list of its branch are made each after the ones
before it, it is closed when some list of its branch is there in full, and
"processed" is told only then, "duplicate" only of a registered event. What it
leaves open is what the code does not promise: a closed event may be opened again
by a request that fails late, "duplicate" may be told of unfinished work
(finding 1), and a branch with an empty list may be closed with nothing made. The
refinement maps "absent" to "new", "completed" to "closed" and the other statuses
to "open".

### PlanApproval

A plan's content is an abstract value; the approval token is a hash of thread and
content, so the token of a content is written as that content. `row` is the plan
row, `notice[c]` the message that announces `c` (with its buttons, or cleared).
The actions follow `_persist_plan`, `_queue_plan` and `_apply_plan_decision`
statement by statement; each repository call that reads and then writes is two
steps, and `Written` keeps a status that the ORM does not write. `update_status`
finds the row by date (`StatusWrite`, `EmptyWrite`), not by token. A callback
that is delivered again may be taken for a duplicate by the inbox (`claimed`);
the keyboard is cleared then too.

`CausesFirst` is what overlap cannot break: the order of log, announcement, press,
logged decision, confirmation and status. Its last part says that the row's
status was decided for some plan, not for its own, which is finding 2.

The abstract `Approval` has a plan, a verdict, what was shown and what was voted.
The refinement takes `row.token` for the plan (equal tokens mean equal items),
`row.status` for the verdict, the announced tokens for what was shown and
`pressed` for the votes.

### Planner

`KeyBelow` compares the sort keys of two tasks (tier, priority, start), `Place`
is the position the stable sort gives a task, `BuildDailyPlan` the sorted items.
`DayPlan` joins the two: a page is the sequence of tasks that Notion returns, and a
plan's content the sequence of tasks that the planner makes of it (`PlanOf`).
`PlanCoversDay` compares the stored plan with the page it was saved from, with the
order of tasks written a second time, not by the sort; `ReorderingKeepsPlan` says
what a change of token means. `MCPlanApproval` gives it four states of Notion, one
of them the same tasks in another order.

### Activity, TaskMonitor

`ActivityOf` is the fold of `task_activity_for_period` and returns a set, since
reports with the same time have no order. `Asks` (in `TaskMonitor`) is the chain
of conditions in `_queue_monitor_messages`. In `TaskMonitor` a report is made at one time and
recorded at another (`made`, `log`); a monitor request loads the plan, loads the
reports and enqueues in three steps with the clock of its arrival (`stamp`). The
outbox is the set of keys; a day message carries the tasks it names as open.
`overtaken` is history: completions recorded after the request read the log.
`AskedForAReason` relates each queued message to the log and the clock of now, not
to what its request had read, and says that no key is queued twice. `StartMonitor`
stamps the clock of the server, `RunByHand` any time of the day: it is the
`observed_at` of a job that is started by hand (`api.py` 347-360). Such a cycle can ask
too early or out of order, so both properties are about a day in which none ran
(`manual = 0`), except for the keys.

### Intelligence, TaskReports

A text is the set of phrase lists it has a phrase of; the first list that matches
decides (`LocalDecision`). A language model may return any decision or feedback
of a small set: right or wrong task, sure or not, with references it was given or
not; `ValidDecision` is what `_validate_conversation_decision` lets pass, and on
any error the local rules answer (`Responses`). A feedback is its references, its
confidence and whether its wording is `proper`; `Passes` is `_safety_critic`.

In `TaskReports` each table has at most one row per event (`noted`, `recorded`,
`episode`, `outbox`), and a request walks through the nodes of its branch, one
step per transaction. `Respond` folds the reports, picks the focus
(`_conversation_focus`) and decides; `Record` and `StoreEpisode` are
`_persist_behavior`; `BuildEvidence` and `SimilarEpisodes` are
`retrieve_evidence`, with any choice for the nearest episodes; `Generate` is the
provider and the critic with its one revision, after which the request fails.
`Start` is the claim: an event that is not completed and whose lease does not run
is worked, also by two requests at once after a lease has ended (`LeaseEnds`, at any
time: a request may outlive its lease). `Duplicate` is the other answer of the
claim: a sender that repeats within a lease is told 200 and stops. A sender has
`MaxTries` requests. `Replan` changes the approved plan, `Fail` cuts a request short
with `fail_inbound`, `Die` without; `Complete` may lose its answer. `overtaken` and
`repeated` are history: requests whose reading is out of date, and events several
requests worked on.

`AnsweredIsRecorded` is exact for presses: the stored domain event and episode are
of the button's own task and action. For texts it says that the text is noted and,
if the reply speaks of an action, that a domain event and an episode of the text
exist; they may stem from an earlier try that read the text differently, and a text
whose later try finds no action is answered though its episode may be missing.
`ReplyTellsRecord` has the agreement of all three for texts that one request worked
on. `EveryReportAnswered` excepts reports that are `Abandoned`: the sender was told
"duplicate" because of a lease, and no request serves the event any more (finding
1 as it shows here).

## Runs

The runs take from a few seconds to under three minutes on two cores; the largest
is `monitor_day` with 5.5 million states.

| Run | Instance | Shows |
|---|---|---|
| `outbox_workers` | 2 processes, 2 messages, 2 attempts, lease 1, batches of 1-2, 1 abort | shape; an attempt is posted once; sent means accepted; dead means every attempt was charged; `Outbox` implements `Mailbox`; rows that wait for a retry can be claimed while leases outlast their loops |
| `outbox_single` | 1 process, 2 aborts, fair | rows that wait for a retry can be claimed; resolved rows stay; every message is resolved, or stranded on its last attempt |
| `inbox_race` | 2 requests for one event of any branch, 3 tries, lease 1, 1 error or lost answer, 1 unrecorded failure, 1 restart | shape; completed means done; "processed" means done; `Inbox` implements `Ledger` |
| `inbox_serial` | 1 request at a time, 5 tries, lease 2, 3 errors or lost answers, no failure unrecorded, fair | no false success; completed events are not worked again; every event is done in the end or rejected |
| `inbox_false_success` | a press, 2 tries, 1 error, 1 unrecorded failure | **violated**: finding 1 |
| `plan_serial` | 1 request, 4 pages (one a reordering), 2 edits, 1 death | shape; approval is the user's; the event log leads the row; decisions stand; the plan holds the day in order; reordering changes nothing; `PlanApproval` implements `Approval` |
| `plan_pair` | 2 requests, 1 page, fair | pending plans were announced; causes come first; a press is applied |
| `plan_overlap` | 2 requests, 1 edit | **violated**: finding 2 |
| `plan_reverted` | 1 request, 2 edits | **violated**: finding 3 |
| `monitor_day` | 2 tasks, 2 plans, 4 times, 2 reports, 1 replacement, 1 cycle by hand | shape; every question is asked once; completed tasks are left alone; without the cycle by hand, questions have a reason and messages are in order |
| `monitor_follow_up` | 1 task, 4 times, 2 reports, 1 cycle by hand, fair | follow-ups are asked; the day is closed |
| `reports` | 2 tasks, a press and a text, 2 requests, 2 tries, with and without a language model, 1 fault, fair | shape; feedbacks are grounded; answers follow the record and agree with it; texts go to planned, open tasks; every report is answered or its sender told "duplicate" for nothing |

Why the bounds are enough. In `Outbox` rows meet only in a batch, so two
messages show the interplay within a batch; two attempts give a first, a last
and a retry; lease time 1 lets a lease end at any point of a loop, and two
workers give every overlap of two holders. Rows of different events never meet in
`Inbox`; two requests are a winner and a loser, and a third delivery meets what the
loser failed; the lists are those of the code, in full length. Five tries in
`inbox_serial` are curl's first and its four retries, and three failures leave one
to spare: an event whose tries all fail is not done, by the code's design. A
restart or a failure that is not recorded leaves a lease behind, and a retry meets it
(finding 1), which is why that run has neither.
Two edits give A, B, A in `PlanApproval`, the shortest way to meet an old token.
In `TaskMonitor` two reports are the shortest history in which order matters;
four times give before, due, late and night. In `TaskReports` a press and a text
on the same task are the shortest way for one report to change what the other
rests on, and two requests let both work at once or two work on one report. One
fault (`MaxFaults` counts plan changes, refused feedbacks, cut requests and lost
answers together) meets every step of a request; a second fault of another request
does not meet the first in a table, since the tables are keyed by event. With the
language model the day is narrowed (`MCInit`: both tasks planned, a press on the
first, a reluctant text) and `ModelActions` has one action, because its answers
multiply the states; without it all texts are tried and all days, except that a
press on the second task is tried only on the day with both tasks. Two tries are a
failed one and its repetition; one fault leaves one to spare.

Fairness. A loop or request that can go on does (asyncio runs it; HTTP calls
time out after 20 s); an event that was not answered 2xx is sent again while its
sender has tries left (Telegram and `curl --retry 4`), with no regard to the lease
and no more often; the 15-minute job keeps asking for a sync, a monitor cycle and
with them a delivery; time passes. A callback that stays unanswered is delivered
in the end however many syncs run in between (strong fairness in `plan_pair`).
A monitor request that dies is repeated until one gets through (strong fairness
on its steps). In `TaskReports` a request that can go on does, and a sender with tries
left makes its next request, which the claim takes or calls a duplicate (weak
fairness on the two together); no lease has to end. Aborts, errors and
restarts are never fair and are bounded, save a monitor's abort, which leaves no
trace. The runs of `Outbox`, `Inbox` and `TaskReports` allow a deadlock, because they stop when all is resolved.

Properties that hold in a serial instance and not with overlap are checked where
they hold, and it is worth knowing where they do not. TLC shows the following (the
fact about presses is read off the code):

- `RetryableIsBelowLimit` and `ResolvedIsFinal` fail with two workers when a lease
  ends while its loop works (not `InTime`): a holder whose lease ended may write
  "failed" over "sent", or at the attempt limit. A batch of 20 messages with a
  timeout of 20 s each may well outlast the 120 s of the default lease.
- A row whose loop is cut short on the last attempt stays "sending" at the limit
  and is never dead-lettered (`Stranded`).
- An event whose sender is told "duplicate" because of a lease is not done if the
  request that holds the lease comes to nothing: `NoFalseSuccess` and
  `EventuallyDone` need requests that do not overlap and failures that are all
  recorded, and more tries than failures.
- A completed event can become "failed" again: a request that loses the insert
  race, or an error while a completed row is read again, calls `fail_inbound`.
- The row's content may differ from the one its token was made of: with overlapping
  syncs, one that read the row before a newer plan was saved takes its own for
  unchanged and writes its content, if only the rationale differs, and no token.
- `DecisionStands` fails when approve and reject are handled at once, and
  `PendingWasAsked` when a sync dies between saving and announcing: the next sync
  finds the plan unchanged, and the retry of the same event completes it.
- `PressIsApplied` needs requests that do not die: a repeated callback within the
  lease is answered as a duplicate and its keyboard cleared.
- `ReorderingKeepsPlan` needs the rule-based planner and tasks with distinct keys:
  tied tasks keep Notion's order, and a language model may plan the same pages
  differently, so a day that was planned once by each provider needs a second
  approval.
- `MessagesInOrder` needs monitor cycles that do not overlap, and neither it nor the
  reasons in `AskedForAReason` survive a cycle that is run by hand for another time.
- `ReplyTellsRecord` fails when two requests work on one text, at once or one after
  the other: the second asks the language model again (or finds another focus),
  its domain event meets the key of the first, and the reply, and an episode not
  stored yet, speak of another action than the one recorded.
  `docs/architecture.md:203` calls logical idempotency guaranteed; here it holds
  for the domain event and not for what is said about it.
- `TextActionIsPlanned` and `TextGoesToOpenTask` fail for a request that was
  overtaken by a report or a new plan while the provider answered.
- A press is not looked up in the approved plan at all: it is recorded for the
  task its button carries, also when the plan has changed since.
- A title with a formal term (`FormalTitles`) is quoted by the local feedback and
  refused by the critic, twice per delivery; unless a language model words it
  otherwise, the report is recorded and never answered. `EveryReportAnswered`
  excepts such tasks.

## Findings

1. `inbox_false_success`. When the work fails and `fail_inbound` fails too, or the
   process dies, the row stays "processing" with a running lease. A retry within
   the 120 s is answered 200 "duplicate" with nothing done, and the sender stops.
   `docs/architecture.md:280` promises that with the database unavailable
   "processing does not pretend success"; the jobs retry after 15 s.
2. `plan_overlap`. The decision is looked up by token and applied by date; a sync
   in between gets its new plan approved, against `README.md:126`.
3. `plan_reverted`. A plan that is edited back gets its old token; the outbox
   key exists, so nothing is sent, and the buttons are gone. The plan stays
   pending, against `docs/architecture.md:191`.

## Proofs

The theorems hold for every value of the constants that satisfies the modules'
named assumptions: any number of processes, requests, messages, events, tasks,
times, faults, and any planner and language model the modules allow. Those about
runs that do not overlap assume so explicitly: `OneWorker`, `OneHandler` and
`OneMonitor` say that any two processes or requests are the same one,
`MaxAborts = 0` that no request dies, `Recorded` that no failure goes unrecorded
(`MaxSilent = 0`, `MaxCrashes = 0`).

| Module | Proved | Assuming |
|---|---|---|
| `OutboxProofs` | `TypeOK`, `PostedOnce`, `SentWasAccepted`, `DeadIsExhausted` | - |
| | `RetryableInTime`; `ResolvedIsFinal` as long as `InTime` | - |
| | `RetryableIsBelowLimit`, `ResolvedIsFinal` | `OneWorker` |
| `MailboxProofs` | `ImplementsMailbox` | - |
| `InboxProofs` | `TypeOK`, `CompletedIsDone`, `ProcessedIsDone`, `ImplementsLedger` | - |
| | `CompletedIsNotClaimed` | `OneHandler` |
| | a completed press, decision or text has the inserts that every try calls for | - |
| | `NoFalseSuccess` | `OneHandler`, `Recorded` |
| `PlanApprovalProofs` | `TypeOK`, `CausesFirst` | - |
| | `PendingWasAsked` | `MaxAborts = 0` |
| | `HumanApproved`, `LoggedFirst`, `DecisionStands`, `ImplementsApproval` | `OneHandler` |
| `PlannerProofs` | the plan is a sorted arrangement of the day; for distinct keys it does not depend on Notion's order | starts are integers |
| `DayPlanProofs` | `PlanCoversDay` | `OneHandler` |
| | `ReorderingKeepsPlan` | `OneHandler`, distinct keys on a page |
| `TaskMonitorProofs` | `TypeOK`, `DoneIsLeftAlone`, `AskedForAReason` (its reasons while `manual = 0`) | - |
| | `MessagesInOrder` | `OneMonitor` |
| `TaskReportsProofs` | `TypeOK`, `AnsweredIsRecorded`, `FeedbackIsGrounded`, `TextActionIsPlanned`, `TextGoesToOpenTask`, `ReplyTellsRecord` | - |
| | a text has exactly one focus; the local rules pass decision validation and, but for formal titles, the critic | - |

*Outbox.* `TypeOK` is inductive together with `LoopHasBatch`. The others follow
from what a worker holds, so `IInv` adds that a claimed attempt was charged to the
row (`ClaimsCharged`), that no two claims name the same attempt of a message
(`ClaimsDistinct`), that a claim yet to be sent was not posted
(`ClaimsUnposted`), that posted attempts were charged (`PostedCharged`), that the
head of a loop whose send returned was accepted (`OkWasAccepted`), and that a row
read earlier has no more attempts than the row has now (`SeenIsPast`). The
distinctness of claims is the heart: `attempts` only grows and a claim takes the
next number in the transaction that counts it. `HeldInv` adds what a row that
waits or is resolved needs: every row in a batch is held by one loop (`HeldOnce`)
and "sending" (`HeldIsSending`), and what a mark read is still true when it writes
(`SeenIsNow`). All of it hangs on one thing, that no process claims a row another
loop still holds (`NoTakeover`); one process gives that, and so does `InTime` for any
number of them, so both pairs of theorems come from the same step lemma. `InTime` is
stated of the behaviour (`[]InTime => ...`), not built into the actions: a history in
which no lease has been outlived yet is covered, as it may stutter from there.

*Mailbox.* The refinement rests on `IInv`, on claimed rows being present
(`ClaimsArePresent`) and on accepted attempts having been posted. `Enqueue` is
`Put`, `ClaimBatch` is `Begin` for the whole batch, an accepted `Post` is
`HandOver`, a mark's write is `Settle`; everything else stutters.

*Inbox.* Inserts are never undone, so a request that is past an insert of its list may
rely on it, even when it is overtaken (`PastIsDone`); only a request past the last
one writes "completed" (`CompletesAtEnd`), and then every insert of its list is there
(`FinishedIsMade`). A row that is completed, an answer on its way and one that was
received each go back to such a request (`CompletedIsFinished`, `AnswerIsFinished`,
`ProcessedIsFinished`); an idle request keeps nothing (`IdleIsClean`). With one
request at a time, a request about to write a claim knows the row (`ClaimKnows`); when
besides every failure is recorded, a lease runs only while its request is served
(`LeaseIsServed`), so a repeated request never meets one, and a duplicate is one of a
completed event (`DuplicateIsFinished`).

*Ledger.* The refinement needs no assumption about overlap. `RInv` adds to the
invariant that a request past the claim, or one that answers "duplicate", has met the
row (`Registered`). A claim's insert is `Register`, its update of a closed row
`Reopen`, as is a late `fail_inbound`; an insert is `Make`, one of another event's
request `Receive`, a completion `Close`, an answer `Tell`; a failed row that is
claimed again, reads, errors and restarts stutter.

*PlanApproval.* `TypeOK` needs that requests carry decisions that were pressed
(`Pressed`). `CausesFirst` is inductive with what a request has logged before its
later steps (`Behind`), since log, presses, replies and announcements only grow. `BeingAsked` is
`PendingWasAsked` with the request that is still to announce. When requests do not overlap, what a request read is still the row
(`SyncKnows`, `DecideKnows`), and the row's token and status fit its content and
what was pressed and logged (`RowKnows`); the properties and each step of the
refinement follow. `DecisionStands` is a consequence of the refinement:
`Approval` changes no verdict of a plan that stays.

*Planner.* The sort puts any two tasks in one order (`PrecedesIsTotal`), so places
are a bijection (`PlaceIsBijective`, by counting); a reordering maps the tasks
before a task one to one.

*DayPlan.* `DayKnows` ties a sync's plan to the page it fetched, and the row's token
to the page it was saved from; with the row's content being its token (`RowKnows`,
when requests do not overlap) the stored plan is the plan of that page, and
`PlannerProofs` says what that plan is. For `ReorderingKeepsPlan` two pages with the
same tasks are rearrangements of each other, so `PlanIgnoresOrder` gives them one
plan. The hypothesis of distinct keys is needed: tied tasks keep Notion's order.

*TaskMonitor.* `DoneSeen`: a request's view of the log holds every completion
recorded before it read. `AskedForAReason` needs no serial monitor: a request's clock
is not ahead and each action it found is that of a report in the log (`ReadInLog`), the
log only grows and time passes, so a message's ground (`Grounded`) stays. A cycle run
by hand is counted and never forgotten (`ByTheClock`), so all this is kept as an
implication from `manual = 0`. With one
monitor, `InOrder` says that the time of every queued
message (`Late`) is over for the request at work, whatever its stamp.

*TaskReports.* `TypeOK` goes with `Serves` (which events a request at each step
serves). `Stored` follows the tables a request has behind it, `PressIsKept` says that
what is stored of a press is the button's own; `Retrieved` and
`Criticised` follow what its evidence and its feedback rest on, and evidence only
grows (`EvidenceGrows`). `PlanIsApproved` and `Chosen` follow the loaded plan and
the decision; `Single` the one request of a text (`Alone`). `FocusIsOne` and
`RulesPassTheChecks` are about the operators: a finite set with a total order has one
least element (`FirstExists`, by well-foundedness of strict subsets), so `Focus`, which
is written as a set, picks one task whenever one is open.

Only model-checked: liveness (`ResolvedOrStranded`, `EventuallyDone`,
`PressIsApplied`, `FollowedUp`, `DayIsClosed`, `EveryReportAnswered`; fairness and
ENABLED are out of the prover's reach), and the three violations. The safety
properties of all passing runs are proved.

## Not modelled

- Authentication and signatures, health pages, settings validation, migrations,
  images and the deployment entry point: no state, or straight-line I/O. The order
  of `start` and `close` in `runtime.py` is straight-line too; a restart appears
  as the loss of every request.
- The wording of messages and prompts. A reply or feedback that is too long for its
  field raises a `ValidationError`; the models have no lengths.
- The vector encoding and which episodes are nearest: numeric. `SimilarEpisodes`
  takes any choice of the right number.
- `build_evidence` cuts at twenty rows and a feedback cites at most eight
  references; the models stay below.
- A language model's daily plan: nothing validates which tasks it keeps, so it is
  any plan for `PlanApproval` (its theorems allow that, `plan_serial` does not try
  it).
- Starts with different UTC offsets, compared as text by the planner.
- A day is 24 hours long, plans of different days and users never meet. `attempts`
  and `last_error` of the inbox are written and never read.

## Plan

Done: the four state machines, the report branches, the planner, the abstract
specifications of outbox, inbox and approval with their refinements, and the proofs
above, which cover every safety property the passing runs check.

Left:

1. A composition: `PlanApproval` and `TaskReports` over `Inbox`'s claim and
   `Outbox`'s keys, so that a retry within the lease and a reply's delivery meet in
   one behaviour.
2. The lifecycle of the runtime: readiness, `close` beside running requests, a
   start that fails half-way.
3. The behaviour vectors as bounded checks, and evidence beyond twenty rows.
4. Violation runs for a sync that dies between saving and announcing its plan and for
   a text whose second interpretation differs from the first, and a planner that
   mixes both providers.
