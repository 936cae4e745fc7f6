# Formal models of the communication backend

TLA+ models, TLC configurations and machine-checked proofs kept beside the backend (Node/TypeScript,
Postgres, Redis) that receives WhatsApp messages, lets an automation attend them and hands cases to
human agents. Paths below are relative to the repository, under `src/core/modules/` unless they start
otherwise.

    tlc -workers 2 -config <run>.cfg <module>     # a run (PROJECT.json names the module of each)
    tlapm <module>Proofs.tla                      # the proofs

## 1. The system

One Node process serves HTTP, webhooks and SSE, and runs the background loops. State lives in Postgres
(rows), in Redis (lists and locks) and in fields of the services (timers, flags). Nothing runs in
parallel inside the process, but every `await` lets another handler run, and most handlers read a row,
await, and write it.

| Component | State | Operations | Hard behaviour | What must hold |
|---|---|---|---|---|
| Debounce buffer (`ingestion`, `receive-inbound-*`) | Redis list per conversation; `timers`, `timerRequestIds`, `processingConversations` | push, touch, reschedule, drain, flush handler | timers, slow settings reads and Redis replies, edits in flight, restart | nothing pushed lost, repeated, reordered or stranded; one flush at a time |
| Escalation and dispatch (`escalation`, hand-over use cases of `cases` and `conversations`) | `case.status/version/assigned_agent_id`, `automation_state`, `escalation`, SSE connections | escalate, auto-assign, drain, claim, take, assign, transfer, complete, cancel, disable, reactivate | four unrelated UPDATEs per hand-over, interleaved with every other handler | no lost update, cap, no idle slot, closed stays closed, no automation beside a person |
| Campaigns (`campaigns`) | `campaign`, `campaign_recipient`, Redis list of ids, `isProcessing` | start, import, suspend, resume, batch, failure webhook, status check | suspend during a batch, crash between send and record, duplicate webhooks | each recipient sent once, counters agree with recipients, no campaign forgotten |
| Message routing (`process-buffered-messages`, `case-arbitration`, `schedule-case`) | the cases of a conversation, `active_case_id`, last message | gate, interpret, arbitrate, pause, resume, open, advance, escalate, fall back, remind | agents act between any two statements; every call may throw | one automated case, the bot quiet beside a person, a promised person exists |
| Workflows (`cases/application/engine`) | `current_state`, `context`, attempts | a handler per state, the policy of the waiting steps, refreshes by agents | long legal sequences, corrected ids, chosen contracts | the contract belongs to the client; every wait can be answered and is bounded |
| n8n gateway (`cases/infrastructure/n8n`, `diagnostic`) | `workflow_execution`, `n8n_workflow_registry`, its cache | look up, call, retry, record; upsert and deactivate | a retry of what was carried out; a stale registry | an action is done once, and only while it is switched on |
| Delivery (`conversations`, webhooks) | `message` rows, their ids and statuses | send and store, echo, receipt, import | duplicated, reordered, early webhooks; two kinds of id | one row per message; "read" means read |
| Senders (`dynamic-whatsapp-sender`, Zernio, Meta) | `resolvedAccountId`, `lastInputAccountId`, `conversationIdCache` | resolve, post, retry, fall back | shared stale caches, fallback after a failure | one copy, and the caller knows |
| Message templates (`message-templates`) | `message_templates`; the templates at WhatsApp | create, submit, review webhook, synchronise, delete | two systems changed in two steps | they agree at rest |
| History import (`conversations/infrastructure/queue`) | job list, progress record, worker | start, run, retry, count | restart with a job in hand, counting by read and write | an import that was begun ends with every conversation counted |
| Quality analysis (`quality`) | `quality_review`; loop of the worker | request, batch, reset, claim, judge a chunk, watchdog | lost wake-ups, errors, restarts, resets in flight | each chunk judged once; every review settled |
| Settings (`settings/application`) | one row, a copy for a minute | read, update with a masked form | stale copy, overlapping updates | an update takes effect and changes nothing else |
| Network topology (`settings.router.ts`) | a microservice's list, one row, a copy | list, create, update, delete, import | read-change-write of a whole list, listing that writes | no router lost or resurrected |
| Media (`local-media-storage.adapter.ts`) | data file, metadata file, memory, `inFlight` | ask, download, save, remember | files written by two, a restart between two files | what is found is the whole file |
| Prompt templates (`ai`) | versions, `active_version_id`, a copy | save, publish, roll back, resolve | transactions at READ COMMITTED | the active version is published; no draft is used |
| Knowledge base (`ai/application/services/rag.service.ts`) | document rows; vectors under a file name | upload, index, delete | statements that commit one by one; namesakes | a search finds the last upload, whole and alone |
| Realtime (`realtime`) | connections | subscribe, publish | presence changes during a dispatch | see dispatch |
| Internal chat (`internal_chat`) | threads, read marks | send, read | a mark is a time | nothing the code promises; see section 7 |
| Departments, auth, customers, tags, quick replies, coverage, analytics, audit, AI adapters, metrics | rows | one statement per operation, or reads, or pure I/O | little | left out; see section 7 |

How they meet: a webhook stores a message and pushes its id (buffer); the flush handler loads the batch
and calls `ProcessBufferedMessages` (routing), which is silent because a person attends the case, or
opens or resumes a case and runs a workflow step (workflows), which asks n8n (gateway); the reply is
posted (senders) and its row follows its receipts (delivery). An outcome `ESCALATED` creates the
escalation row and looks for an agent (dispatch); a completion or a connection of an agent drains the
queue, and a closed case asks for a review (quality).

The models meet where one relies on what another establishes. `MessageRouting` and `GateOpen` of
`CaseDispatch` rely on `SerialFlush` of `InboundBuffer`: one batch of a conversation at a time.
`Workflows` is the inside of the step `Advance` of `MessageRouting`: the outcomes `Advance` chooses among
are those the handlers can end with, and a stored outcome of either is refused when the version moved.
`ActionGateway` is the inside of the calls of `Workflows`. `Delivery` takes from `Senders` that a send
ends with one copy, with none, or with an error after one. `CaseDispatch` treats a case as a version and
a status and follows every statement of the hand-over, which `MessageRouting` takes as one step because
it asks about the conversation and not about the statements.

## 2. Modules

| Module | Models |
|---|---|
| `DebouncedInbox` | abstract: ids are handed over once, in order, and eventually |
| `InboundBuffer` | `InboundBufferService`, its two feeders and the flush handler, one conversation |
| `InboundBufferProofs` | theorems about it |
| `AgentPool` | abstract: a queued case goes to an online agent below the cap, and does not wait while there is one |
| `CaseDispatch` | every handler that moves status, owner, automation flag or escalation row, for one department |
| `CaseDispatchProofs` | its types and the version test |
| `CaseHandoverProofs` | extends it: closing, the cap, automation beside a person |
| `CaseQueueProofs` | extends that: the queue, idle slots, the steps of `AgentPool` |
| `Campaigns` | `CampaignWorkerService`, `ProcessCampaignBatch` and every handler that moves a status of one campaign or of its recipients |
| `CampaignProofs` | theorems about it |
| `MessageRouting` | `ProcessBufferedMessages` for the cases of one conversation, with arbitration, schedules, reminders and what agents do meanwhile |
| `Workflows` | `AdvanceCase`, the engine and every handler of the five workflows, one case |
| `WorkflowsProofs` | theorems about it |
| `ActionGateway` | executions of one action: idempotency record, registry and cache, retries, diagnostics |
| `Delivery` | outgoing messages of one conversation, their rows, echoes and receipts |
| `Senders` | choice of provider, account and conversation caches, retries and fallback |
| `MessageTemplates` | one template name at both ends |
| `HistorySync` | the import of the history of a channel |
| `Quality` | reviews of one agent in one case, and the worker |
| `Settings` | a settings row with its cache and masked forms |
| `NetworkTopology` | the list of routers kept twice |
| `Media` | media on disk and in memory |
| `PromptVersions` | versions of one prompt and the one in use |
| `KnowledgeBase` | documents and their pieces |
| `MCInboundBuffer`, `MCCaseDispatch`, `MCCampaigns` | roles and symmetry sets of the instances |
| `MCCases`, `MCServices` | one instance for six and for seven modules, see below |
| `CasesProofs` | theorems about routing, gateway, delivery, senders, templates, and the types of `MCCases` |
| `ServicesProofs` | theorems about the seven modules of `MCServices` |

The modules of `MCCases` share no state with one another in the code that they model, nor do those of
`MCServices`: an interleaving of two of them shows nothing that they do not show alone. So a behaviour of
these instances picks one module (`focus`) and runs it, and the state spaces add up instead of
multiplying.

Operators whose comment says *Mutant of X* are alternative bodies of `X` with a plausible bug. No
specification uses them; they record, per property, a change of the code the property notices.

### InboundBuffer

One action is what Node runs without yielding. The service's ioredis connection is a pipeline: `cmds`
holds the commands sent and not answered, and the effect of a command is taken with the continuation
of its reply (`RPushReply`, `TakeReply`, `LlenReply`), which no other reader of the list can tell
apart. `reschedule` increments the request id and starts a settings read (`resolving`); `Resolve` is
its continuation. A timer whose map entry was overwritten is an *orphan*: it still fires. `handed`
grows when the drain script answers; a flush is a stretch of `handed` and reads the rows of its batch
in a later step (`Load`), so an edit can fall before or after. `LateEdit` either pushes again or not:
the case it looks at belongs to another module.

### CaseDispatch

A call (`Calls`) is one invocation of a handler; `pc` names the SQL statement it executes next and
`snap` is the aggregate it read. `Transition` is `applyTransition`, with the version test; `SetOwner`
and `SetAutomation` are unchecked UPDATEs, as in the repository. Reads that no other handler can
disturb are merged with the next statement. A drain keeps its roster, loads and fetched rows in
`local`, as the loop does. Completion goes on to `drain_roster`, because the handler calls the drain
without awaiting it.

Abstracted: one department; all priorities equal, so the queue is in order of creation; names do not
break ties (any least-loaded agent may win); authorisation and notifications; `active_case_id`; the
workflow state behind `ACTIVE` and `WAITING_USER`.

### Campaigns

A tick (`Ticks`) is one invocation of `processQueue`, by the two-second poll or by an enqueue; `wpc`
names the awaited statement it executes next, `batch` the fetched recipients still to be served, `cur`
the one being served. A call is one invocation of a router handler or webhook (`pc`). Every statement
of the repositories is a step of its own, because none of them tests what an earlier one read: statuses
are overwritten, counters are incremented. `NONE` is a deleted campaign and `ABSENT` a recipient that
has no row (not imported yet, or deleted by the cascade). The order of a batch is that of random UUIDs,
so any order.

Four variables are history: `sends` and `since` count messages the provider accepted, for a recipient
and since the campaign was suspended; `again` counts, for a recipient, the restarts that reset it and
the failures that left an accepted message unrecorded; `repeats` counts failure reports of a recipient
that was not `SENT` any more.

Abstracted: one campaign (the others share the worker and delay it); the text of the messages, the
opening of a conversation, the parsing of the imported file, `total_recipients` (displayed only) and
the creation of the draft, which is the initial state.

### MessageRouting

A batch (`turn`) goes through the code's order: `Gates` (which case, is it expired, does a person have
it), interpretation, `Arbitrate`, then one of `Clarify`, `RequestHuman`, `Advance`, or `PauseActive` and
`OpenCase` with `PaymentReported` and `PaymentShown`, then `Deliver`; `Throw` and `Fallback` are the catch
block. What interpretation makes of a text is an input, `Interpretations`, after the overrides of the
code. `freshest` is the order of `updated_at`, by which `findActiveByConversation` chooses. A stored
outcome is refused when an agent touched the case after it was read (`touched`). Agents take, give back,
close and schedule cases between any two steps, and write messages.

Abstracted: escalation is one step; the department is there or not; the text of the replies.

### Workflows

The state is the stored case (`saved`: state, data, attempts), the conversation's pointer, what is known
of the customer, and the run in progress (`run`). One action per handler, because each awaits n8n. A
message is what the regular expressions and the interpretation find in it. Ids are of customers with no,
one or two active contracts (`Contracts`); a contract stands for the customer it belongs to, with
"pending" while several are on offer. `Office` are the actions by which agents refresh the data of the
case: synchronise, balance, stored contracts, diagnosis.

### ActionGateway

A call looks up the idempotency record, asks the registry or its cached copy, sends, retries and
records, one step each. The answer of n8n arrives, is an error, or is lost after the action was done.
Administrators change the row and then drop the copy.

### Delivery, Senders

`Delivery`: the program sends and stores the row when the send has answered; echoes, receipts and imports
come in any order, twice or never. A message has a platform id and a provider id, and a row keeps the one
it was stored with: `findRecentOutbound` matches by id or by the start of the text, which `alike` makes
equal or not. `Senders`: one action per awaited request of the Zernio sender; every request may be
refused, or carried out and answered with an error. `resolved`, `lastInput` and `cachedConv` are shared by
the sends in progress.

### MessageTemplates

One name. `stored` is the row, `remote` the template at WhatsApp, `news` the webhooks on their way.
Creation is three steps (row, submission, id), deletion two, a synchronisation a list and what follows
from it. `apart` records why they may differ: what the code does not repair by itself until an undisturbed
synchronisation.

### HistorySync

`start` is a call that lists the conversations, clears the queue and pushes a job for each; `syncing` is
the worker's turn. The worker reads and writes the progress record whole, so its copy is part of the
state. A job that fails is pushed again with its attempt.

### Quality

`drain` is the loop: watchdog, claim, the chunk in hand with the copy of the row it was read as, the wait,
the ending. `reviews` are the rows in order of creation. Scores are counted, not computed: `scores` is
how many chunks the average rests on.

### Settings, NetworkTopology

A request reads (through the copy), merges, writes everything, and drops or replaces the copy, one step
each. A field of a form is absent, a value, or the mask the client was shown. In `NetworkTopology` each
request first calls the microservice, which refuses, answers, or carries out and fails.

### Media

A taker asks memory, disk, and then downloads, shared by `inFlight` or, for the route that shows a medium,
by itself. Data and metadata are written one after the other and neither is atomic: `part` is what a stop
in the middle leaves.

### PromptVersions

Transactions at READ COMMITTED, statement by statement: a statement sees what was committed when it began
(`Outgoing`), waits for rows that another transaction has written (`Locked`) and looks at them again.
`writes` are the uncommitted changes of a transaction. A deadlock is a `FailEdit` (PostgreSQL ends one of
the two).

### KnowledgeBase

Every statement commits by itself. `vectors` holds pieces under the name of a file, `rows` documents under
an id of their own. `indexed` is what the last request about a name that met no other should have left.

## 3. Runs

| Run | Instance | Shows |
|---|---|---|
| `buffer_slow` | 2 messages, 1 edit each, replies and settings of any delay | `Conservation`, `NoStrandedList`, and the buffer implements `DebouncedInbox` with liveness |
| `buffer_faults` | 2 messages, 1 edit each, answers within a debounce; restarts, lost replies, failing flushes | `SerialFlush`, `AtMostOnceInOrder` |
| `dispatch_all` | 2 calls of any handler, 1 case, 2 agents, any statement may fail | `NoLostUpdate` |
| `dispatch_serial` | 3 calls (escalate, advance, drain, complete), 2 cases, 1 agent, one dispatch at a time | `CapRespected`, `NoIdleSlotAtRest`, `QueueAgrees` (rows agree with owners, escalated cases are queued) |
| `dispatch_closing` | 3 calls (drain, claim, assign, transfer, complete, cancel, disable), 1 case, 2 agents | `ClosedStaysClosed`, `HumansWithoutAutomation` |
| `dispatch_pool` | 3 calls (drain, complete), 2 queued cases, 2 agents coming and going | implements `AgentPool` with liveness |
| `campaign_faults` | 3 calls of any handler, 2 recipients, batches of 2, 2 ticks, crashes, failing statements, lost answers | one batch at a time (`TypeOK`), `SentOnce`, `SuspensionStops` |
| `campaign_run` | 4 calls (start, suspend, resume, failure reports), 2 recipients, batches of 1, no failures | `NeverForgotten`, `CompletedMeansDone`, `CountersAgree`, `RunningEnds` |
| `cases` | the six modules of `MCCases`, one at a time | `ContractOfClient`, `WaitsWithinLimits` (workflows); `OnceAndOnlyIfOn` (gateway); `OneAutomatedCase`, `PromisedPersonIsThere`, `QuietWithPerson`, `RemindedOnce` (routing); `OneRowPerMessage`, `ReadMeansRead` (delivery); `OneCopy` (senders); `TemplatesAgree`; their types |
| `services` | the seven modules of `MCServices`, one at a time | `SyncEnds` (import); `JudgedOnce`, `ReviewSettles` (quality); `WholeMedia`; `SettingsTakeEffect`; `RoutersKept`; `ActiveIsPublished` (prompts); `SearchFindsLastUpload` (knowledge base); their types |
| `dispatch_control` | claim against a workflow step | **violation** of `HumanKeepsControl` |
| `routing_receipt` | 2 batches, no agents, nothing throws | **violation** of `ReceiptAcknowledged` |

The types of `InboundBuffer` and of `CaseDispatch` are proved (section 5) and not run again.

### Bounds

Two messages make the overlaps that matter: one batch being flushed, one being pushed, one timer
superseded. `MaxReq` bounds the request id and no run reaches it. In the dispatch runs a call runs
once, so the number of calls bounds the history; a conflict needs two, and reopening or double
assignment needs two with the third (in `dispatch_closing`, `dispatch_pool`) making the queue and the
owner change under them. One case is the whole object of contention except where the queue matters
(`dispatch_serial`, `dispatch_pool`), where two cases and a cap of one make one of them wait. Agents
and calls are interchangeable and are symmetry sets of the safety runs; the runs with liveness use no
symmetry.

Two recipients let one be in hand while the other is in the batch (`campaign_faults`, batches of two) or
waits for the next one (`campaign_run`, batches of one, so that a campaign is queued again). Two ticks
in `campaign_faults` are enough to overlap if they could; that they never do is part of `TypeOK` and
proved, so `campaign_run` has one. Three calls are a start, a suspension and a resumption, a second
start, or reports, in any order; `campaign_run` gives the fourth to the reports.

`cases`. Workflows: three customers, with no, one and two contracts, which are the three branches of the
lookup; the messages of a case are not bounded. Gateway: two calls of one action, one retry each (a first
try, a retry and nothing left), two changes of the registry (off and on again). Routing: four cases, which
two batches can need (each may open one, and one in triage when it throws), one action of an agent, one
throwing call. Delivery: two messages with the same or with different beginnings, two echoes, receipts or
imports. Senders: two sends, one of any kind and the other a text or a file. Templates: two requests at a
time of two in all, two templates at WhatsApp (one deleted, one created again), two decisions.

`services`. Import: two starts, two conversations, two attempts of a job (the code has three: one retry and
the last are both there), one restart. Quality: two rows, two chunks, three requests (so that a row can be
reset and requested again), one restart or error. Media: two media, two takers, memory for one (so that it
is pushed out), one restart. Settings: two administrators, one reader, one failed read; the behaviour
stops where updates have met, as nothing is promised from there. Topology: two routers, two requests at a
time of three in all, one failed read. Prompts: two editors, three versions (the active one, one that is
published meanwhile, a draft). Knowledge base: three documents under two names, two pieces each: two
namesakes and a bystander.

### Switches: what is assumed where

- `Slow = FALSE`: settings and Redis answer before a debounce (seconds) expires. `SerialFlush` needs
  it: `drain` sets `processing` only after the script has answered, so with slower answers two flushes
  of a conversation overlap.
- `Serial = TRUE`: one dispatch runs at a time. `CapRespected` and `NoIdleSlotAtRest` need it: loads
  are counted, and agents chosen, several awaits before the assignment: two drains that overlap fetch the
  same case and both assign it (section 4).
- `CanFail`, `Faults`: statements fail and the process dies anywhere. `NoLostUpdate` and
  `AtMostOnceInOrder` hold with them; the properties that relate two tables do not (there is no
  transaction around a hand-over), and are checked without. `SentOnce` and `SuspensionStops` of `Campaigns` hold with
  all of its failures, `NeverForgotten` and the counters without: a crash after the `LPOP` leaves a
  running campaign without a job.
- `again = 0` in `CompletedMeansDone` and `CountersAgree`: until the campaign is started a second time.
  A suspension that read `RUNNING` may be written over `COMPLETED`, and then a resumption queues a job
  that has nobody left, and a start that read `COMPLETED` before resets the recipients under it.
- History variables of the other modules (`borrowed`, `overlap`, `silent`, `overtaken`, `handedBack`,
  `excused`, `unclear`, `apart`, `mixed`, `syncDied`, `renewed`, `unheard`, `rewritten`, `disturbed`,
  `crossed`, `alone`): each marks a history after which a property does not hold of this code, and the
  property is stated for the others. Section 4 tells these histories one by one.

### Fairness

`InboundBuffer`: weak fairness of every callback and reply: the event loop runs what is due and Redis
answers. Not of `Receive` and `Edit` (customers need not write). `CaseDispatch`: weak fairness of the
next statement of a call that has started. Not of starting a call, connecting or disconnecting.
`Campaigns`: weak fairness of a tick (the poll timer keeps firing) and of the next statement of a tick or
call that has started. Not of starting, suspending or resuming, and nothing is assumed of the provider,
which may refuse every message. `MCServices`: weak fairness of a start of the import that goes on pushing,
of the worker of the import and of the loop of the reviews, which the process runs by itself; not of any
request, error or restart. `MCCases` has no liveness: a customer need not write and an agent need not act.

## 4. Disagreements and known histories

Two runs refute what a comment of the code says.

1. **`dispatch_control`** – `process-buffered-messages.use-case.ts:147` calls the silence of the bot beside a
   person non-negotiable. `AdvanceCase` stores its outcome on whatever it reads when the model has
   answered; a claim made meanwhile is undone while the owner stays.
2. **`routing_receipt`** – `process-buffered-messages.use-case.ts:524` says that an incomplete receipt is
   acknowledged and handed to billing. When a support case was active, the handler pauses it and then
   closes it with the version read before the pause: the conflict ends in the apology of the catch block.

The rest of this section lists histories met while modelling, which the models can produce and which the
properties set apart (by a history variable or by the handlers of a run).

*Buffer.* `touch()` answers for the conversation, not for the message: an edit of a message inside a
running flush is reported as buffered when another message has armed a timer, and nobody reads it.
With answers slower than the debounce two flushes of one conversation overlap. `withConversationLock`
(`shared/queue/redis.ts:67`) lives ten seconds without fencing.

*Dispatch.* The `FOR UPDATE SKIP LOCKED` of `findNextPendingForDepartment` is not inside a transaction, so
two drains assign the same case (`docs/spec/02_STATE_MACHINE.md:229` says it cannot happen).
`tryAutoAssign` and `ReactivateAutomation` look at the status of an earlier read and reopen a closed case.
`ClaimCase` writes the owner before the checked status, so a claim that loses leaves its agent as owner. A
transfer to a department with nobody free leaves `HUMAN_ACTIVE` without an owner and a `PENDING` row no
drain fetches. A reactivated case escalated again finds its old row and stays with the automation. A
version conflict ends a drain round for the rest of its batch. The same document says that cancelling
drains the queue; `CancelCase` does not.

*Routing.* A case given back to the automation may be a second automated one. A paused case that an agent
schedules becomes `WAITING_USER` and is served although the automation is off; scheduled while the bot
answers, it is the freshest, so a change of topic pauses it instead of the case served, and two are
automated. A case that a person takes while the bot answers is paused by a change of topic (`pauseCase`
reads only the version), and resumed later with its owner (`seized` marks both). When the case served turns
out expired, the others are not looked at, a person's included. The reminder writes back the context it
listed, over what changed meanwhile, and a restart before the broadcast loses it.

*Workflows.* Wrong ids are not counted, so a customer may type them for ever; an id corrected while
contracts are on offer keeps the attempts spent on them. Synchronising or diagnosing falls back on
contracts of the conversation, which may be another customer's (`borrowed`). What the customer writes
while a specialist is offered is taken as the answer to the offer.

*Gateway.* An answer that is lost after the action was done leads to a repetition; a failure of one call
erases the recorded success of another that overlapped; a registry query answered after the invalidation
keeps the old row for thirty seconds (`n8n-workflow-registry-cache.service.ts:6-14` says the next call
sees the change).

*Delivery and senders.* A delayed "delivered" overwrites "read". An echo before the insert makes the insert
fail on the unique id; one after a minute, or an import under the other id, makes a second row. Messages
that begin alike exchange their receipts. `getAccountId` notes its input before the lookup succeeds, so a
failed refresh leaves the stale account in use. A request that was carried out and answered with an error is
sent again.

*Templates.* A list that could not be read looks empty, and the synchronisation deletes every row
(`sync-remote-templates.use-case.ts:74`). A review event without a decision sets `APPROVED` back to
`PENDING`; webhooks out of order, or before the id is stored, are lost or win; a synchronisation during a
creation deletes the row that is being created.

*Import.* A start that is still pushing may be declared over by the worker; a restart after the pop of the
last job leaves `IN_PROGRESS` for seven days; two starts at once mix their records.

*Quality.* A reset row keeps its old chunk scores, and the new average includes them; an analysis in flight
overwrites a reset. A request between the last empty claim and `draining = false` is not heard. A database
error ends the loop. `resetReviewsForReanalysis` builds placeholders without `$`, so it always fails.

*Settings and topology.* A failed read answers with the environment (or with an empty list), which the next
update merges into and writes. Overlapping updates lose fields or routers. `GET .../routers` writes.

*Media.* The route that shows a medium does not share downloads: a second save truncates a file that is
found already, and a stop in that window leaves half of it for ever.

*Prompts.* Overlapping publications leave two published versions until the next one that is alone. A
rollback without a target takes the newest version that is not active, also a draft
(`rollback-prompt-version.use-case.ts:8` speaks of the last archived one).

*Knowledge base.* An upload that fails half-way has dropped the old pieces while the old row says
processed; deleting one document deletes the pieces of its namesakes (`rag.router.ts:81` speaks of its own).

*Campaigns.* `DeleteCampaign` reads `DRAFT` and deletes by id, so a start in between is deleted while it
runs; a sending followed by a failing UPDATE marks the recipient `FAILED`, and a later start writes to it
again; every repeated failure report moves the two counters once more; two imports may write
`total_recipients` in the wrong order; an import that read `DRAFT` may add recipients to a campaign that has
been started and completed since; a crash after the `LPOP` leaves a running campaign without a job.

## 5. Proofs

All for every value of the constants, under the assumptions that the modules state about them and those of
the second column. Where no assumption is named, every handler may run, any statement may fail where the
model lets it, and the histories of section 4 are the ones the property itself sets apart.

| Theorem | Assumes | States |
|---|---|---|
| `InboundBufferProofs!TypeCorrect` | | `[]TypeOK`, including that a running flush names a stretch of `handed` |
| `InboundBufferProofs!NeverStranded` | no lost reply, no restart | `[]NoStrandedList` |
| `InboundBufferProofs!NothingIsLost` | no lost reply, no restart | `[]Conservation` |
| `InboundBufferProofs!NeverTwiceNorOutOfOrder` | | `[]AtMostOnceInOrder` |
| `InboundBufferProofs!OneFlushAtATime` | `~Slow` | `[]SerialFlush` |
| `InboundBufferProofs!KeepsPromise` | no lost reply, no restart | `Promise!Safe`: initial states and steps of `DebouncedInbox` |
| `CaseDispatchProofs!TypeCorrect` | | `[]TypeOK` |
| `CaseDispatchProofs!UpdatesAreChecked` | | `NoLostUpdate` |
| `CaseHandoverProofs!ClosedForGood` | nobody escalates, advances or reactivates | `ClosedStaysClosed` |
| `CaseHandoverProofs!CapHolds` | `Serial`; nobody claims, takes, assigns or transfers | `[]CapRespected` |
| `CaseHandoverProofs!AutomationOff` | no call dies; nobody reactivates | `[]HumansWithoutAutomation` |
| `CaseQueueProofs!RowsAgree`, `NobodyIdle` | `Serial`; no call dies; escalations, workflow steps, drains and completions | `[]QueueAgrees`, `[]NoIdleSlotAtRest` |
| `CaseQueueProofs!DispatchFollowsPool` | `Serial`; no call dies; drains and completions | `Pool!Safe`: initial states and steps of `AgentPool` |
| `CampaignProofs!TypeCorrect` | | `[]TypeOK`, including one batch at a time |
| `CampaignProofs!WrittenToOnce` | | `[]SentOnce` |
| `CampaignProofs!SuspensionIsHeeded` | | `[]SuspensionStops` |
| `CampaignProofs!RunningIsServed` | no failures | `[]NeverForgotten` |
| `CampaignProofs!NobodyIsLeft` | no imports | `[]CompletedMeansDone` |
| `CampaignProofs!CountersFollow` | no deletions, crashes or failing statements | `[]CountersAgree` |
| `WorkflowsProofs!ContractIsOfClient` | | `[]ContractOfClient` |
| `WorkflowsProofs!NextMessageIsHandled` | | `[]WaitsWithinLimits` |
| `CasesProofs!OneCaseIsServed`, `PersonIsThere`, `QuietWhilePersonHasIt`, `RemindedAtMostOnce` | | `[]OneAutomatedCase`, `[]PromisedPersonIsThere`, `[]QuietWithPerson`, `[]RemindedOnce` |
| `CasesProofs!DoneOnceIfOn` | | `[]OnceAndOnlyIfOn` |
| `CasesProofs!ReadIsRead`, `StoredOnce` | | `[]ReadMeansRead`, `[]OneRowPerMessage` |
| `CasesProofs!EachIsSentOnce` | | `[]OneCopy` |
| `CasesProofs!TheyAgreeAtRest` | | `[]TemplatesAgree` |
| `CasesProofs!CasesAreTyped` | | `[]CasesTypeOK`, the types of six modules |
| `ServicesProofs!ImportEndsCounted` | | the safety half of `SyncEnds`: a finished import has counted everything |
| `ServicesProofs!ReviewsAreJudgedOnce` | | `[]JudgedOnce` |
| `ServicesProofs!MediaAreWhole` | | `[]WholeMedia` |
| `ServicesProofs!UpdatesTakeEffect` | | `[]SettingsTakeEffect` |
| `ServicesProofs!RoutersAreKept` | | `[]RoutersKept` |
| `ServicesProofs!ActiveVersionIsPublished` | | `[]ActiveIsPublished` |
| `ServicesProofs!LastUploadIsFound` | | `[]SearchFindsLastUpload` |
| `ServicesProofs!ServicesAreTyped` | | `[]ServicesTypeOK`, the types of seven modules |

Every invariant and every action property that a passing run checks is the subject of one of these
theorems. The proofs have one form: what a step leaves alone and what it must see to is stated once
(lemmas named `...Keeps`), each action has a lemma that supplies it, and the invariant follows for `Next`.
The rest of this section says what had to be added to each property to make it inductive.

### Buffer

*Never stranded.* `TypeOK /\ NoStrandedList`: every step that uses up a wake-up source leaves another behind
(`RescheduleTypes`, `DrainTypes`), and a reply to `take` either empties the list or finds it empty.

*Nothing is lost, nothing twice.* What counts is `Kept`: what was handed over, then the list, then the ids
of pushes on their way. A push appends to it, a taking moves the border inside it, and only a restart or a
lost reply shortens it. Without these it is `arrived` itself, in order. With them it stays a subsequence of
`arrived` (`InOrder`, by `Within`: an increasing function between the positions); the filters in
the statements are reduced to such functions by `Nth`, the n-th member of a set of positions.

*One flush at a time.* `SerialInv` adds that at most one `take` is on its way, that none is while a batch
is processed, and that `processing` holds while a flush runs. `~Slow` is used where a timer fires: no
`take` is outstanding then.

*The promise.* The steps of `DebouncedInbox` are read off the same facts: an arrival appends, a reply to
`take` hands over what is oldest, everything else stutters.

### Dispatch

*Updates are checked.* `SnapSound`: at the labels from which a call relies on its snapshot, its
version is not ahead of the row, and if it is the row's version then its status is the row's. Every
change of a status increments the version.

*Closed for good.* `LiveSnap` adds, for calls that cannot reopen, that a call about to write a new status
holds a snapshot that is not closed; with `SnapSound` an accepted version means the row is not closed.

*The cap.* `CapInv`: one call dispatches at a time (`OneDispatcher`, from `Serial`), and at each of its
statements what it counted is an upper bound of the loads, with a slot left for the case it is giving away
(`RoomLeft`). It remains a bound because others only take cases out of hands; nobody by hand
(`OffHands`), since a claim does not look at the cap.

*Automation off.* `SilenceComes`: a case beside a person whose automation is still on has a call that has
still to switch it off. A call that dies or reactivates breaks it.

*Rows and owners.* `QueueInv` says of each call what it relies on (`Called`: an escalation finds no row, a
call that is handing over knows the row of its case and has written the owner, a version it has lost was
lost to a completion), of each row that it is the only one of its case and assigned only when the case is
handed over (`Rowed`), and of each case that it has a row or a call about to insert one (`Queues`).
`OneServes` is the serial flush of the buffer.

*No idle slot.* `IdleInv` is `Waiting \/ Settled`. Until a drain has taken its roster nothing is known
(`Waiting`). From then on a case that waits while an agent has a slot is one that some call will come to:
held, still to be fetched, or in its batch; or the batch is as large as the slots the round has left
(`Attends`), because the counts of the round are lower bounds of the loads (`Counts`).

*The pool.* While only drains and completions run, the assignment of a drain is the one step that moves a
case out of the queue; `CapInv` and `QueueInv` give it an agent below the cap and a queued case.

### Campaigns

*Written to once.* `OnceInv` says where a recipient that is still owed a message (`Fresh`) can be: in a
running batch, being sent to, or in a row that a later batch could fetch (`BatchFresh`, `CurFresh`,
`DueFresh`). The hard case is a row deleted or reset while it is in a batch: `Gone` records that its
campaign is deleted and it cannot be imported again. One batch at a time (`OneBatch` in `TypeOK`) is used
at every step of the worker.

*A suspension stops the sending.* `SuspInv`: nothing has been accepted since the last resumption while the
campaign is `RUNNING`, nor while a tick is at the sending, which it reached from `RUNNING`.

*Running is served.* `NeverForgotten` with `TypeOK` and `OnceInv`: where a batch ends because a row is gone,
so is the campaign.

*Completed means done.* `DoneInv`: in the first round nobody becomes due who was not (`PendingShrinks`), and
who counted nobody pending is right until it writes. Imports are excluded: one that has read `DRAFT`
adds recipients whenever it writes.

*Counters.* `CountInv`: each counter is the number of marked recipients, plus or minus the calls and the
tick that have marked and not yet counted (`Counted`), by the cardinality of the set of those calls. That
a status moves at the mark needs to know from which it moves (`MarksRight`); that a start again
disturbs nothing in the first round needs that it would find somebody to reset (`StartedHasRows`,
`CompletedHasReached`).

### Cases

*Workflows.* `EngineInv` follows one run: what a handler may leave by its outcome (`RunEnds`), how far it can be by
the number of handlers before it (`Near`, which bounds the steps), what the data may hold (`Good`: contracts on
offer only while one is to be chosen, by a known client) and where a customer may wait with how many
attempts (`Asks`).

*Routing.* `RoutingInv`: cases fill the slots in order and a batch that may open one finds room
(`SlotsFill`); what a batch knows of its cases holds unless somebody disturbed it (`TurnKnows`); between the
pause of one case and the opening of the next, none is served (`OneServed`); a paused case is nobody's
(`PausedIsFree`), and neither is the case the bot speaks about (`NobodyHas`). The types need further that
the ranks of `freshest` stay within the number of cases, no two alike (`Ranked`).

*Gateway.* `GatewayInv`: unless calls have overlapped one is going on (`Alone`); once the action has been
done that call has been told so, or it is recorded and none goes on (`DoneIsTold`); while nobody is
changing the registry no copy says that a deactivated action is on (`OffIsOff`). `TriesLimited` bounds the
requests.

*Delivery.* `DeliveryInv` adds what ids a row or a send can bear (`IdsKnow`) and, for each message that no
history excuses, that it has no row while it is still to be stored (`RowStored`); types need that no
provider id is on two rows (`IdsUnique`).

*Senders.* `OneCopy` is inductive with the types: what a send has done is what its next step says.

*Templates.* `TemplatesInv`: unless the two ends have come apart, one request is underway and relies at each
of its steps on what it has seen (`Relies`), and otherwise the ends are in touch (`InTouch`). The status
agrees with the last decision on its way (`LastWord`), which webhooks may overtake.

### Services

*Import.* `HistoryInv`: while neither two starts mixed nor the process died, the conversations of the record
are counted, queued, in the worker's hand or still to be queued (`Balanced`), all of the record's import
(`JobsAreIts`, `CopyIsOurs`), by one start at a time (`OneStart`, `Orderly`), and somebody goes on
(`SomebodyImports`).

*Quality.* `QualityInv`: rows that were not reset count each chunk once; the copy in the hand of the worker
counts as its row does, since nobody else settles that row (`WorkerKnows`).

*Media.* `MediaInv`: a medium that was saved once has one taker at its files (`OneSaves`), who knows what
they hold (`TakersKnow`). A stop leaves a part without metadata, and metadata come after the data.

*Settings.* `SettingsInv`: undisturbed, who has read the settings has them as they are, a request between its
save and the drop of the copy is by itself, and the copy is the row otherwise.

*Prompts.* `PromptInv`: what a transaction has written when it has come so far (`Sound`), that no row is
written by two (`RowLocks`), and that a publication that met no other has found every published version
(`Found`, `AloneIsAlone`).

*Routers.* While nothing has crossed, one request at most holds a list (`OneHolds`), so the list is
the row, except that a listing has merged the microservice into it (`HolderKnows`). That merge brings
nothing back because a router that is gone for good is not at the microservice either, unless an import
is about to save it (`GoneIsGone`); and the copy, when nobody is about to replace it, is the row
(`CopyIsRow`).

*The last upload.* A request that met no other about its name is the only one at work on the name
(`AloneOnName`), the store holds nothing under the name before it inserts and exactly what it inserted
after (`AloneProgresses`), and a name with a request at work promises nothing (`BusyIsUnknown`). The store
is by name, so the step of another name changes nothing here; that `DELETE` erases by name is what
makes the argument work for namesakes too.

### Only model-checked

Liveness, which is out of the prover's reach: `RunningEnds`, `ReviewSettles`, `SyncEnds` but for its safety
half, and that the abstract specifications' fairness is met (`ImplementsInbox`, `ImplementsPool`). The two
violations are traces that TLC finds. `DispatchFollowsPool` excludes escalations because `AgentPool` starts
with its queue and has none. Where the assumptions of a theorem are those of its run, as for the queue,
section 4 tells what goes wrong outside of them.

## 6. Plan

Modelled: everything in the table of section 2. Proved: everything that section 5 lists. Left, in order:

1. Weaker assumptions: `RowsAgree` with claims and cancellations, whose histories (section 4) must be named
   in the property first; `CountersFollow` with deletions.
2. The triage department in `CaseDispatch`.
3. An abstract specification of a conversation that `MessageRouting` implements.

## 7. Not modelled

- Records with one statement per operation (departments, agents, tags, quick replies, FAQs, lists,
  searches): there is nothing between two steps to go wrong.
- Internal chat. Its statements are single, and what could be asked of them, exact unread counts, the code
  does not promise: a mark carries the time of the request while a message committed later may bear an
  earlier time, the sender of a message marks everything before it as read, a later mark may carry an
  earlier time, and two requests may each create the direct thread of two people.
- Read-only analytics; the append-only audit log; authentication, tokens and sessions.
- The geometry of the coverage area (real arithmetic): its answer is an input of `Workflows`.
- Language-model adapters: their answers are arbitrary inputs elsewhere. The texts of replies, the ranking
  of a search, the extraction of text from files.
- Tests of a connection, the preparation of the Zernio account, zones and ports of the network.
- Reactions and calls. (Receipts of Meta are not handled by the program: a row sent through Meta stays `sent`,
  and so it does in `Delivery`.) Metrics, health checks, logging.
