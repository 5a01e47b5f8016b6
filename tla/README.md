# BirthHub 360: verification project

TLA+ models of the parts of BirthHub 360 that carry its own logic, TLC
configurations that check them on small instances, and TLAPS proofs of what
matters most for every instance.

## 1. The system

BirthHub 360 is a multi-tenant platform on which organisations run agents and
workflows and are billed for them. Its canonical parts are `apps/api` (Express),
`apps/worker` (BullMQ consumers), `apps/web` (Next.js) and `packages/database`
(Prisma on Postgres). API and worker share no memory: they meet in Postgres rows
and in Redis (queues, locks, caches).

| Component | State it keeps | Operations | What is hard | What makes it correct |
|---|---|---|---|---|
| Workflow engine, `apps/worker/src/engine/runner.ts` | executions, step results, two queues, the tenant's quota | trigger job, execution job, retries, fallbacks | queues deliver at least once; concurrent branches share an execution row; several writes without a transaction | steps end once; every job is caused; branches exclude; a final status has a reason; work is finished |
| Workflow service, `apps/api/src/modules/workflows` | workflows, steps, transitions | create, update, archive, run now | edits under running handlers; checks in one query, writes in another | a run under way is always carried on; only published workflows start |
| Canvas validation, `packages/workflows-core/src/parser/dagValidator.ts` | none | `validateDag` | a chain of graph algorithms | accepts exactly the single-rooted DAGs, sorts them, reports a real cycle, ends |
| Stripe webhook and billing, `apps/api/src/modules/{webhooks,billing}` | billing events, subscriptions, credits, caches | event handlers, cancellation, snapshot | duplicated, reordered, concurrent events; an expiring lock; two caches | no event is lost or applied twice; no cache is stale for ever |
| Agent execution, `apps/worker/src/worker.ts`, `agents/runtime.ts` | agent executions, artifacts, notifications | `processJob` | failures after success; a job at two runners | the row tells how the job ended; what was delivered was charged |
| Plan executor, `apps/worker/src/executors/planExecutor.ts` | plan lock, stored result, circuit breakers | `execute` | a lock without owner that expires | one runner in a plan; a result is reused |
| Agents API, `apps/api/src/modules/agents` | executions, rate counter, policies | run, policies | the row exists before the job | a refused request never runs; what can leave a row RUNNING for ever |
| Pack installer, `apps/api/src/modules/packs` | agents of a tenant and their configuration | install, uninstall, update | count, then create; whole columns written from old reads | the plan limit, dependencies, policies |
| Budgets, `apps/api/src/modules/budget`, `agents/runtime.ts` | consumption, limit, alert | consume, set limit, block | two programs read, add and write one row | who may pass the limit, and by how much; alerts |
| Members and invites, `apps/api/src/modules/{users,organizations,invites}` | memberships, suspended users, invites | role changes, removal, suspension, acceptance, deletion | roles checked in two reads, written later | who can take the last person in charge away, and how; administrators stay below owners |
| Connectors, `apps/api/src/modules/connectors` | accounts, sessions, credentials | sessions, callback, edit, sync | a status written back from an old read | an active account has its tokens and stays active |
| CRM sync, `apps/worker/src/integrations/hubspot.ts` | the id of a company | synchronize | lost answers; no lock | one company per organisation |
| Outbound webhooks, `apps/worker/src/webhooks/outbound.ts` | deliveries, endpoint status, failure count | enqueue, deliver, disable, retry | counts read, incremented, written by several deliveries | disabled after N failures in a row, and it stays so; deliveries end |

The remaining parts (sessions, step bodies, scheduled jobs, clients, user
interface, legacy applications) are listed with their reasons in section 5 and
in `PROJECT.json`.

## 2. Modules

| Module | Models |
|---|---|
| `WorkflowCanvas` | a stored canvas and the choice of the transitions that a step follows |
| `WorkflowRunner` | both handlers of the engine, both queues, crashes, lost locks |
| `WorkflowProgress` | the abstract specification of the engine |
| `WorkflowService` | `EXTENDS WorkflowRunner`: run-now requests, canvas edits, status changes |
| `WorkflowDag` | `validateDag`, the check a canvas passes before it is stored |
| `StripeBilling` | the webhook, the subscription rows, the caches and their readers |
| `PlanExecutor` | one call of `execute`: result, lock, tools, breaker |
| `AgentExecution` | `EXTENDS PlanExecutor`: `processJob` around the plan, with BullMQ |
| `AgentLifecycle` | the abstract specification of an agent job and its row |
| `AgentRuns` | `EXTENDS AgentLifecycle`: `runInstalledAgent`, next to any worker that `AgentLifecycle` allows |
| `OptimisticLimit` | the abstract specification of a limit read first and charged later |
| `AgentPacks` | pack installer, policies and the workflows that name agents |
| `AgentBudgets` | one budget row under the API and the worker |
| `TenantMembers` | members and invites of one organisation |
| `Connectors`, `CompanySync` | one connector account; the company of one organisation at HubSpot |
| `OutboundWebhooks` | one endpoint, its deliveries and the slots that send them |
| `MCWorkflowRunner`, `MCWorkflowService`, `MCWorkflowDag`, `MCRequests`, `MCEvents` | inputs, bounds and symmetry for TLC |
| `*_proofs` | the proofs, section 4 |

One step of a model is one call the code awaits (or one database transaction;
in `WorkflowDag`, which awaits nothing, one turn of a loop), and what a handler holds across an await is a variable of its
own, so that every interleaving of handlers is a behaviour.

### WorkflowRunner, WorkflowService, WorkflowDag

`pc[w]` is the await at which slot `w` of the execution worker is. The handlers'
local variables are `seenDepth` (`execution.depth` as read), `seenCanvas` (the
workflow as read), `output`, `todo` (transitions still to enqueue) and `caught`
(the handler is in its catch block). Rows and queue are `execStatus`,
`execDepth`, `results`, `canvas`, `quota`, `jobState`, `deliveries`, `stalls`,
`owner`.

| Code | Actions |
|---|---|
| `processTriggerJob` | `ReadPublished`, `CreateExecution`, `DispatchTrigger`; `TriggerLost` when it dies or throws |
| `processExecutionJob`, reads | `TakeJob`, `ReadExecution`, `ReadWorkflow` |
| `consumeSharedAgentBudget` | `ReadQuota`, `Charge` |
| `executeStep` and the try block | `Execute`, `RecordSuccess`, `BumpDepth`, `Succeed`, `EnqueueNext` |
| the catch block | `RecordFailure`, `RetryStep`, `EnqueueNext`, `Abort` |
| BullMQ | `Ack`, `Nack`, `RecoverStalled`, `LoseLock`, and the deduplication of `AddJob` |
| `runWorkflowNow` | `RunNow`, `RunNowCreates`, `RunNowDispatches`; `RequestLost` |
| `updateWorkflow`, `archiveWorkflow` | `ReplaceCanvas` (one transaction; results go by cascade), `ChangeStatus` |

A job id is `execution:step:number`. The number is the attempt for the first
step and for retries, and `Date.now()` for the others; the model keeps both in
`stamp`, attempts being below every clock value. Two adds of one id are one job;
two adds of one step in different milliseconds are two.

A handler that read the old canvas still holds it after an edit; its
`stepResult.create` then fails on the foreign key (`CreateConflicts`), it
throws, and the redelivered job reads the new canvas.

Abstractions: the payloads; `previousResults` and the template context; the
result cache, which no API switches on; `DELAY` steps, whose WAITING row and
delayed successors count as SUCCESS and as jobs taken late; the branch for a
deleted workflow, which no code deletes; the absence of a quota record, which is
the same as a step outside `agents`. The queue never forgets a completed job,
while the code keeps the last 500.

`validateDag` runs without an await and nothing interleaves with it; what can be
wrong is the algorithm. `WorkflowDag` is that algorithm, a step per turn of a
loop, `phase` being the function that runs:

| Code | Actions |
|---|---|
| the checks before the search, `indegreeByNode` | `RefuseGraph`, `PassGraph` |
| `getCyclePath` and the loop that calls it | `CallOn`, `CloseCycle`, `LeaveNode` |
| the number of roots | `RefuseRoots`, `StartAtRoot` |
| `assertConnectedFromRoot` | `TakeFromStack`, `PushTarget`, `EndConnect` |
| `topologicalSort` | `TakeFromQueue`, `CountDown`, `EndSort` |

The order of the lists is kept, since it decides which cycle is found and which
step is sorted first: a transition is its position, and `rest[n]` holds those
from `n` that its loop has still to take. The recursion of `getCyclePath` is
`stack`, with `rest` for what each call has left to do. The reference definition,
`IsRootedDag`, makes no search: a node leads to another if no set of nodes that
no transition leaves has the one and not the other.

### StripeBilling

| Code | Actions |
|---|---|
| `withStripeEventLock`, the event lookups | `Deliver`, `ReadIdempotencyKey`, `FindOrReceive`, `MarkProcessing` |
| the transaction with `processStripeBillingEvent` | `Commit` (with the five event handlers as operators on organisation and subscription), `Rollback` then `MarkFailed` |
| the calls after it | `Remember`, `Invalidate`; `CacheFails` when they throw, which is only logged |
| `getBillingSnapshot`, `resolveBillingLock` | `StartFill`, `Fill`, `EntryExpires` |
| `cancelBillingForOrganization` | `CancelAtStripe`, `CancelSubscription` |
| time | `GraceEnds`, `LockExpires` |

Stripe may deliver any event of a history at any time, in any order, again after
it was acknowledged, and must deliver an unacknowledged one again. The caches of
API and worker never meet, so a behaviour watches one of them (`watched`). A
lock that cannot be had answers 500 and changes nothing; it is the guard of
`Deliver`. The model shows two things that no text contradicts: each
`invoice.payment_failed` starts the grace period again, and
`cancelBillingForOrganization` deletes no cache. The key that the worker caches
under an organisation id, rather than a tenant id, is never deleted by a
webhook; it lives until its TTL, the case of a missed deletion.

### PlanExecutor, AgentExecution, AgentLifecycle, AgentRuns

`run[s]` is the call of `execute` by slot `s`, `slot[s]` its place in
`processJob`. `execute` looks for a stored result (`ReadResult`), takes the lock
(`TakeLock`), runs the tools with retries and breaker (`RunTool`, `ToolFails`,
`Stop` for budget, deadline and open circuits), stores the result
(`StoreResult`) and deletes the lock (`ReleaseLock`), whoever holds it.
Around it `processJob` is `StartExecution`, `CheckBilling`, `EnsureHeadroom`,
`RunPlan`, `EndPlan`, `ConsumeBudget`, `CreateArtifact`, `StoreOutcome`,
`TellOutcome`, and in its catch `StoreFailure`, `TellFailure`. Faults are a
failing call at any of them (`CallFails`), a dying worker (`AgentCrash`), a job
taken from a busy worker (`JobLockLost`) and a plan lock that expires
(`LockTtl`).

`AgentLifecycle` is what remains when only jobs and rows are visible: a job is
completed with an outcome stored, unless a runner that lost the job wrote over
it, and only a runner that has the job, or had it taken from it, writes the
status; a job whose worker died or stalled may be given away or failed with no
write at all (`LoseJob`), and failing calls may leave a failure unwritten
(`Trouble`, `ThrowJob`). `AgentExecution` implements it (`ImplementsLifecycle`),
and `AgentRuns` extends it and lets its worker take all of its steps (`Worker`,
`WorkerTrouble`), so what is checked of the API holds next to a worker that
dies, stalls or fails anywhere. There a request looks for an
execution to reuse (`FindReusable`), creates its row as RUNNING (`CreateRun`),
counts (`CountRate`, `ExpireRate`, `CheckPressure`), adds the job (`AddRun`) and
writes the row again (`UpdateRun`, or `FailRun` in the catch). The runtime
writes its logs over the metadata with the payload hash (`PersistLogs`), after
which an execution is not reused. A crash between INCR and EXPIRE leaves the
rate counter without expiry (`ApiFails` at `expire`).

### OptimisticLimit, AgentPacks

`OptimisticLimit` lets an actor find room (`Check`) and charge later
(`Charge`); releases and atomic charges may come in between. `AgentPacks`
implements it: `CountAgents`, `FindInstalled`, `CreateAgent` are an
installation. All other writes go through `WriteConfig`, which writes the whole
configuration from what the request had read (`ReadConfig`, `FindInstalled`):
`updatePackVersion`, both policy operations, and installing over an installed
agent. `FindPack`, `ReadDependencies`, `DeletePack` are an uninstallation,
`SaveWorkflow` a canvas or status saved next to it.

### AgentBudgets

A consumer is an API consumption (`ReadBudget`, `WriteBudget`), which refuses to
pass the limit it reads, or an execution of the worker (`CheckHeadroom`,
`BlockExecution`, or the plan and then `ReadBudget`, `WriteBudget`), which
charges without looking again. The two compute the alert differently
(`AlertOfTheApi` from the row its update returned, `AlertOfTheWorker` from the
row it read). `charged` is a history variable: the sum of what executions of the
worker have added, so that the bound on the consumption needs no sum over a set.

### TenantMembers, Connectors, CompanySync

`StartManage`, `CheckTarget`, `WriteManaged` are the users route with its two
reads of roles and its write; `StartOwner`, `WriteOwned` the organisations
route, which only asks for an owner; `StartErase`, `EraseMember` the deletion of
one's own account; `CreateInvite`, `StartAccept`, `AcceptInvite`,
`RevokeInvite`, `InviteExpires`, `CleanupInvites` the invites. The users route
also suspends (`SuspendManaged`), which leaves the membership as it is and takes
the right to act from the user in every organisation; a suspended user counts as
nobody in `MayAct`. Roles are all five of the schema. The users route and the
invites take the four of `roleSchema`; the organisations route takes every role,
so an owner may make a `SUPER_ADMIN`, who then manages every member, the owners
too. A request is `late` once another one has written a membership or an invite
it read; that is how the properties tell a race from a wrong check.

Nothing in the code counts owners. `OwnerRemains` says, of all routes together,
how an organisation can lose the last person who is in charge of it (an owner or
super administrator who may act):

* by that person: the organisations route lets an owner demote or remove
  itself, and anybody may delete its own account;
* by an invite accepted for that person, since acceptance writes the role of the
  invite over the one it has;
* by a late request, such as two owners who remove one another.

It cannot be lost through the users route otherwise: who passes the check is not
its target, and is in charge itself when its target is.

`Connectors` has the requests `session`, `callback`, `edit` and `sync`; a
callback leaves the account active, waiting for its code to be exchanged, or
pending when it brought neither token nor code.
`CompanySync` splits a synchronization into its read (`LoadSnapshot`), the call
(`PostCompany`, `PatchCompany`; the answer may be lost) and `StoreCompany`; it
assumes that a HubSpot token is configured.

### OutboundWebhooks

`TakeDelivery` reads the endpoint, `Accepted`, `Refused` and `TimesOut` are the
HTTP call, `RecordSent` and `RecordUnsent` the write. `RecordUnsent` writes
status and count from the count that was read, so a delivery that began before
the endpoint was disabled activates it again (`DisabledStays` says that nothing
else does). `SetStatus` and `RetryDelivery` are the administrator.

### Properties

* `SuccessIsFinal`: of two results of a step a SUCCESS is the last, whatever the
  queue redelivers and however often a join enqueues the step.
* `JobsAreCaused`: no job without the stored results that call for it.
* `BranchesExclude`: both branches of a condition never run in one execution.
* `DepthIsSound`: the depth, written from stale reads, never counts more than the
  results and never passes `max_depth`.
* `OutcomeHasReason`: each final status is justified by the results.
* `QuotaOvershootBounded`: the quota is passed by less than the number of slots.
* `ImplementsProgress`: steps end at most once and only when due.
* `QueueDrains`: jobs leave the queue.
* `NoOrphans`: without faults a RUNNING execution always has a request or a job
  that will move it, across joins, colliding ids, edits and unpublishing.
* `AcceptedRunsSettle`: an accepted run ends, whatever is edited under it.
* `AcceptsRootedDags`, `OrderIsTopological`, `ReportsACycle`: `validateDag`
  accepts exactly the acyclic canvases with one root that leads everywhere,
  sorts them topologically, and accounts for a cycle by a path.
* `AckedWasApplied`, `OneChangeUnderTheLock`: no event is lost, and none applied
  twice while locks outlive their requests.
* `StaleCacheHasReason`, `CachesConverge`, `EventsSettle`: what can leave a cache
  stale; it never stays so; every event is acknowledged in the end.
* `OnePlanRunner`, `ResultIsReused`, `DeliveredWasCharged`, `JobOutcomeStored`,
  `ImplementsLifecycle`, `AgentJobsEnd`: one runner in a plan unless a lock
  expired; tools work again only for a job that was at two runners; whatever was
  delivered was charged, by whichever attempt; the row tells the job's end.
* `RefusedNeverRuns`: without failed calls of the API a refused request leaves no
  job. `RunningIsCarried`, under all faults: a RUNNING row is carried by its
  request or by its job, or was left by one of exactly three failures: the API
  died or failed before it added the job; a runner that had lost the job wrote
  over the outcome of the one that completed it; or BullMQ failed the job while
  calls failed or after its worker died, so that nobody wrote the failure.
* `ImplementsAgentLimit`, `UninstallKeepsDependents`, `PoliciesLostToRacesOnly`:
  the agents pass the limit only as `OptimisticLimit` allows; what is lost to a
  race, and that it is lost to nothing else.
* `OnlyWorkersOvershoot`, `AlertWhileHigh`: the API stays within the limit, the
  worker passes it by what its executions cost; 80% never goes without alert.
* `OwnerRemains`, `AdminsKeepBelowOwners` (an administrator takes nobody in charge
  away, unless overtaken); `SyncKeepsConnection`, `ActiveHasTokens`;
  `OneCompany`; `DisablingHasReason`, `DisabledStays`, `DeliveriesEnd`: as said
  above, each up to the race or fault it names.
* `MCTypeOK`: the type invariants of the components of `MCRequests`; each of them
  is proved of its own component.

Where the code has a race, a property cannot deny it. It says exactly which race
the bad outcome needs, so it catches any other way to that outcome and not the
race itself. These races stay in the code: a plan lock deleted by a runner that
no longer has it (`OnePlanRunner`), a budget charged again by a retry
(`DeliveredWasCharged`), a SUCCESS rewritten as FAILED when its notification
fails (`ImplementsLifecycle`), policies saved between another request's read and
write (`PoliciesLostToRacesOnly`), an agent deleted under a workflow saved since
(`UninstallKeepsDependents`), members written since the check (`OwnerRemains`,
`AdminsKeepBelowOwners`), a connection made since a synchronization read it
(`SyncKeepsConnection`), two synchronizations that overlap (`OneCompany`), and
deliveries that overlap one that disables the endpoint (`DisablingHasReason`,
`DisabledStays`).

## 3. Runs

| Run | Instance | Shows |
|---|---|---|
| `engine` | canvases Branch, Headless, Fallback, Diamond and Shortcut; 1 execution, 2 slots, 2 attempts, 2 deliveries, 1 stall, max depth 3, quota 1, 1 fault | the safety of the engine and its refinement of `WorkflowProgress` |
| `drains` | a chain, fair, 1 fault | jobs leave the queue |
| `edits` | a shortcut replaced by a chain, any status change, 1 request | `NoOrphans` |
| `service_settles` | a chain whose second step an edit drops, fair, a request and a trigger | accepted runs end |
| `requests` | `MCRequests`: canvas validation over lists of transitions, 2 agent runs, 3 pack requests, 3 budget consumers, 2 member requests, 3 connector requests, 3 CRM synchronizations | the components behind the API |
| `events` | `MCEvents`: 6 Stripe events in histories of at most 2, 2 requests, 1 fault; 1 agent execution in 2 runners with 2 tools, 1 fault and 1 expiring lock; 3 deliveries in 2 slots, 1 fault, 2 edits | the components that take events and jobs |
| `settles` | `MCEvents`, fair, 2 Stripe events, 1 tool, 2 deliveries | their liveness |
| `cancel`, `status`, `headless`, `billing_repeat`, `plan_once` | small | the findings below |

`MCRequests` and `MCEvents` are sums: the initial state picks one component
(`part`) whose steps the behaviour takes, while the others stay in one of their
initial states. The components share no state, so each is checked exactly as it
would be alone.

Bounds of the engine: two slots are enough for every race between two handlers
of one execution; two attempts have a retry and an exhaustion; two deliveries
have a redelivery and a final failure; one fault can strike at any await, and
its redelivery runs against the handler that goes on. `MaxClock` gives joins a
same and a later millisecond. `MCBounds` keeps cancellations to the canvas with
a fallback and faults to the canvases without joins, where the state space
allows them. The service's instances have fewer edits than a job has deliveries,
as the code has in practice (5 attempts): each edit can cost one job at most one
delivery.

Bounds of the others: two requests are a race, the third of three packs, budget
consumers, connector requests and synchronizations one that overtakes it.
`AgentLimit` 1, `Backpressure` 1 and `RateMax` 1 are reached by the first request
and passed by the second. A behaviour of the runs has one fault of the API, or
has the job of one execution taken from its runner, any number of times
(`FewDoubled`): a fault of the API strikes one request and a lost job one
execution, and the other request meets either through the row alone. The first
request has the first payload, the second the same or another (`FirstAlike`).
Executions, persons and requests on members are symmetric: `MCInit` alone names
one of them, and no action or property does. Costs 1 and 4 against a limit of 5 meet 80% and 100%
exactly, and a limit lowered to 3 is below what was consumed. Two members and
two requests have the owner and an administrator act on one another. Histories
of two Stripe events have every order of a checkout with a failed payment, a
downgrade, a deletion; the redelivery of each is a further delivery. Two tools
and two attempts each have a plan stopped in its middle, a retry and an
exhaustion; the breaker never opens, since each execution has an executor of its
own whose plan ends with the first tool that fails. Three deliveries at a failure limit of two
have a success between failures and a delivery that overlaps the disabling one.
Four transitions over three steps have parallel transitions and every small
cycle; four steps have diamonds and double joins.

`CHECK_DEADLOCK FALSE`: an instance stops when its triggers, requests, events
or edits are used up.

Fairness. `WorkflowRunner!Fairness`: the worker process serves its queues, so a
handler that can go on does, a waiting job is taken, and BullMQ's periodic check
finds stalled jobs. `FairServiceSpec` adds that the API answers a request it
took up. `StripeBilling!Fairness`: a request that runs goes on, a fill ends, a
cache entry expires (both keys have a TTL), and Stripe, which retries for days
while a lock is held for seconds, in the end delivers an unacknowledged event
when the lock is free (strong fairness). `AgentFairness`, `HookFairness`:
processors go on and idle slots take waiting jobs; of an HTTP call only the
abort timer is fair, nothing makes an endpoint answer. Nothing is assumed about
outcomes, faults, edits or new requests.

`AcceptedRunsSettle` and `NoOrphans` are stated without faults, because a crash
between the writes of a handler does leave an execution RUNNING: its redelivered
job finds its row taken and fails. `RunningIsCarried` is stated with all faults
and names what they leave.

What the code does and a text of the repository denies (`findings`):

* `cancel`, `CancelledStops`: a handler that read the execution before it was
  cancelled goes on to enqueue its next steps.
* `status`, `StartsPublished`: the status is checked in one query and the
  execution created in a later one.
* `headless`, `RunsWithoutTriggerFail`: running a workflow without trigger step
  creates two executions; the one that was returned stays RUNNING
  (`HeadlessNeverEnds` proves that it always does).
* `billing_repeat`, `RepeatedEventGets200`: a downgrade event is delivered again
  after its event lock (10 s) expired under the first request, and finds the row
  not processed yet. The first commits; the second then meets the credit of the
  same event at the unique index on `stripeEventId`. The code swallows the error,
  but PostgreSQL has aborted the transaction: the second answers 500 and marks
  the processed event failed, and later deliveries meet the credit again.
* `plan_once`, `ResultEndsThePlan`: `execute` reads the result before the lock
  and not again after it, so a runner that looked early runs all tools again.

## 4. Proofs

Each theorem holds for all constants that satisfy the `ASSUME`s of its module:
any number of slots, requests, executions, events, attempts and faults.

Every safety property of the components that a passing run checks is stated by
a theorem; `NoOrphans` without edits.

| Module | Components |
|---|---|
| `WorkflowRunner_proofs` | `WorkflowRunner`: types and the inductive invariants; it implements `WorkflowProgress` |
| `WorkflowService_proofs` | `WorkflowService` |
| `WorkflowDag_proofs` | `WorkflowDag` |
| `Requests_proofs` | `AgentRuns`, `AgentBudgets`, `TenantMembers`, `Connectors`, `CompanySync` |
| `Events_proofs` | `OutboundWebhooks`, `StripeBilling` |
| `AgentExecution_proofs` | `PlanExecutor`, `AgentExecution`; it implements `AgentLifecycle` |
| `OptimisticLimit_proofs`, `AgentPacks_proofs` | the limit, and `AgentPacks`, which implements it |

### The engine

`WorkflowRunner_proofs`:

* `TypeCorrect`: `Spec => []Typed`.
* `Invariance`: `Spec => []IInv`. `TypeOK` and the properties are not inductive:
  that a job is caused depends on what the handler that adds it knew. `Holds(w)`
  says that at each await: once past `RecordSuccess` its row is stored and `todo`
  holds transitions that row calls for; in the catch block the FAILED row. `Store`
  says rows are unique and rows and jobs caused, with gapless attempts.
* `SuccessFinal`, `JobsCausedAlways`, `BranchesExcludeAlways` follow.
* `QuotaBounded`. The bound is not inductive by itself: a slot between the check
  and the increment will charge whatever the count is by then. `QuotaInv` counts
  such a slot as charged already.
* `CountInvariance`: `Spec => []CountInv`, relative to `IInv`. Concurrent handlers
  overwrite the depth of their execution from stale reads, so nothing can be said
  of the sequence of its values; but each value read was covered by results when
  it was written, and results are only added. `Counts(w)` carries that from the
  read to the write, and carries the reason for a final status to the await that
  sets it.
* `DepthSound` and `OutcomeJustified` follow.
* `EngineImplementsProgress`: `Spec => ImplementsProgress`. The mapping takes
  SUCCESS rows to ended steps and FAILED rows of the last attempt to exhausted
  ones. What it needs beyond the two invariants: jobs only exist for created
  executions (`Started`); a job whose row is free is for a step that has not
  ended (`NotEnded`, from gapless attempts and unique rows); and the records that
  end steps are as many as their rows (`DoneCounts`, from `SuccessLast`). Every
  other await of a handler, every queue command and every fault is a stutter.

### The engine under the service

The steps of `WorkflowService` are those of the engine and those of requests,
edits and changes of status; the lemmas about the engine's steps are shared.

* `ServiceTyping` and `ServiceQuotaBounded` hold with edits.
* So do two theorems on orphans. `OrphansStay`: an execution that is RUNNING with
  no request, handler or job to move it (`Orphaned`) stays so until an operator
  cancels it, whatever is retried, redelivered, edited or restarted; this is what
  a crash between the creation of an execution and its first job leaves.
  `HeadlessNeverEnds`: the execution that a run-now answer names for a workflow
  without trigger step is such an orphan, in every instance, so the `headless`
  finding is not one of small bounds. Both rest on `Unserves`: no step works on
  an execution nobody serves; and on `HeadlessInv`: nobody serves an execution
  before it is created, and only its request knows the one it created.
* An edit deletes all results, on which `IInv` rests. The remaining theorems are
  therefore stated of behaviours in which no edit replaces the canvas
  (`Unedited`), while requests and changes of status go on: `ServiceInvariance`,
  `ServiceKeepsResults` (the five properties of the engine) and
  `ServiceImplementsProgress`.
* `NoOrphansUnedited`: `ServiceSpec /\ Unedited => []NoOrphans`, of canvases that
  have a trigger and no cycle (`RootedDag`: of any steps, one leads to none of
  them). Acyclic is what `validateDag` grants of every stored canvas
  (`AcceptedHasNoWayRound`, below); the trigger it does not grant, and without it
  the `headless` finding shows the orphan.
  `CarryInv` says, until something fails: jobs are active exactly while a slot
  holds them (`Locked`); a job that ended has its row or an ended execution
  (`JobsSettle`); each row of a running execution is served (`RowsServed`): a
  handler is past it with what is left to do, or its retry was enqueued, or there
  are transitions to follow and all were; and a run begins (`RunsBegin`). Then let
  an execution be RUNNING and carried by nobody. Its trigger was enqueued. Each
  step that was enqueued has a row whose attempt is the greatest, which is not
  retried, so a transition from it leads to a step that was enqueued too
  (`StepWasFollowed`). These steps would lead around in a circle. That joins
  are enqueued once per branch, and their surplus jobs end at a row that is
  already there, is where the argument is needed: `RowsServed` does not ask who
  enqueued the target.

### The check of a canvas

`WorkflowDag_proofs` is about any canvas: any lists of steps and transitions.
The invariant, `DagInv`, has a part for each function of the validator:

* `Searching`. What is `visited` has no cycle (`Unwinds`: of any of its nodes,
  one is entered from none of them) and is left by no transition. The stack is a
  path of nodes that are not visited, and a transition of one of them is still to
  be taken, led to a visited node, or led to the next on the stack (`Followed`).
  A node is left when its transitions all lead to visited ones, so adding it
  makes no cycle, and a target found on the stack closes one. That `visited` is
  shared by the searches from all nodes is harmless for the same reason.
* `Connecting`. Without cycles there is a root, and one root reaches all: of the
  nodes that were not reached, one would be entered from none of them, and be
  entered from a reached one or be a second root.
* `Sorting`. `indegree[n]` is the number of transitions into `n` that were not
  counted down (`Missing(n)`), parallel ones each; the nodes that miss none are
  exactly those in the order or the queue, once. With an empty queue, the nodes
  not in the order would each miss one from another of them: a cycle.

From it follow `DagTyping`, `AcceptsExactlyRootedDags` (also that the checks for
no root, an unreachable step and an unsortable graph never throw after the
search), `SortsTopologically` and `CycleIsReported`. `AcceptedHasNoWayRound`, from
the order that was returned, is the form in which `NoOrphansUnedited` asks that a
canvas have no cycle.

`ComesToAnEnd` proves `Spec => [][Nears]_vars`: each step lowers the phases that
are left, or within a phase a number of turns, both natural numbers.
`NeverWithoutTurn` says that while there is no verdict, the guard of some action
holds (written out, since ENABLED is beyond the prover). Together: the validator
takes finitely many steps on any canvas, and ends with a verdict.

### The agents

`OptimisticLimit_proofs` proves `Overshoot`: the limit is passed by less than one
charge per actor. `ChargesToCome` makes it inductive: what was used and what
those that found room will still charge, together, stay within the bound.

`AgentPacks_proofs` proves `PacksTyping`; `OneAgent` (one agent per pack, from
the unique name); `ImplementsLimit`, the refinement of `OptimisticLimit`, and
from both `AgentOvershoot`, by instantiating the proof module; `UninstallRace`,
whose invariant says that the agent a request is about to delete was not named
by a workflow unless it is in `savedLate`; and `PoliciesRace`.

`AgentExecution_proofs` proves `AgentTyping`; `OneRunner` (a runner in a plan
holds the lock until one expires); `Reused` (with a result stored and a job
never taken from its runner, no runner is past the look at the result);
`DeliveredIsCharged` (what a slot has charged and made at each step of
`processJob`); `OutcomeIsStored` (without faults, each step knows the status it
stored); and `KeepsThePromise`, the refinement of `AgentLifecycle`, which needs
that a slot that does not own its job is one whose job was taken.

### Requests

* `RunsTyping`, `RefusedLeavesNothing`, `RunningCarried`. `CreatedBy(q)` says at
  each step of a request whether its row and its job exist; `LeftBy(q)`, whatever
  fails, which job that ended may have left its row RUNNING, so that both give
  the three reasons; `UndisturbedBy(q)`, until the API fails, that there is no
  job before it is added or after it is refused. The worker enters by
  `AgentLifecycle` and nothing else, with all of its steps.
* `BudgetsTyping`, `ApiStaysWithinLimit`, `HighIsAlerted`. Two writers add and
  write from their own reads, so the row may lose charges and no property of it
  is inductive. `ReadWithRoom(c)` says what a consumer that is about to write
  has read: the API that there was room for it, an execution that the limit was
  passed by no more than `charged`. The alert is a function of the row written, in
  the API's way or the worker's, and both leave one at 80%.
* `MembersTyping`, `LastOwnerStays`, `OwnersAboveAdmins`. `ReadsHold`: for a request
  that nobody overtook (`InTime`), its actor may act still, with the role that was
  read (`Unchanged`), and past `CheckTarget` that role may manage its target.
  Every step that changes who is in charge is then found to end a request, of
  one person, and a request of the users route in time leaves its actor.
* `ConnTyping`, `ActiveWithTokens`, `SyncKeepsActive`. A synchronization writes
  the status back that it read, so tokens must go with the account's status and
  also with every status in flight (`SyncsHaveTokens`); a synchronization that
  is not late holds the status the account has (`SyncsInTime`).
* `CrmTyping`, `OneCompanyUnlessLate`. `LateOnes`: once a company was made, who
  is about to make one is late, and until its id is stored, somebody is about to
  store it or everybody who starts is late.

### Events

* `DisabledForAReason`, `EnabledByOldReads`. `Forewarned`: while the endpoint is
  disabled, each delivery under way had read it before. `CountHolds`, until two
  deliveries overlap or the database fails: the delivery under way is alone, has
  read the count that is in the row, and what it will write is covered by the
  failures in a row.
* `BillingTyping`; `NoEventIsLost`: an event that is acknowledged or stored as
  processed, and the event of a request past its commit, was applied (`AckInv`);
  `AppliedOnce`: until a lock expires one request at most is busy, applied events
  have processed rows, and no request is on its way to apply one of them again
  (`LockInv`); and `StaleHasReason` (`StaleInv`, which also says that the
  committed webhook is one that deletes the cache).

### Only model-checked

* `NoOrphans` across edits, by the run `edits`. It is not a theorem of any number
  of edits: each can make a handler throw and cost a job a delivery, and a job
  without deliveries left is an orphan's; and an edit deletes the rows that
  `CarryInv` rests on, so that a step may run again in the millisecond of its
  first job, whose id it then has.
* `MCTypeOK` as a property of the sum `MCRequests`; its parts are proved.
* Liveness: `QueueDrains`, `AcceptedRunsSettle`, `EventsSettle`, `CachesConverge`,
  `AgentJobsEnd`, `DeliveriesEnd` (fairness and ENABLED are beyond the prover).

## 5. Assumptions and what is not modelled

The models take `Queue.add` to accept any job id. Some BullMQ 5 releases refuse
an id with a colon in it; `agents/queue.ts` and `runnerQueue.ts` build such ids,
and the tests replace the queue, so the repository does not settle it.

Of the engine: payloads, templates, the result cache, the retention of completed
jobs (500) after which an id can be added again. Of the service: the plan limit
of `createWorkflow` (the pattern of `OptimisticLimit`, not a module of its own),
cron schedules, the deduplication of webhook triggers. Of billing: checkout,
portal, invoices, usage listings and the declined-payment counter, which
are calls to Stripe, reads, or counters nobody acts on; and a commit that
PostgreSQL made while its answer was lost, after which the request would mark the
applied event failed and a redelivery apply it again, so `OneChangeUnderTheLock`
assumes that a commit is answered. Of the packs: agents that workflow steps name
by catalog id or in `AGENT_HANDOFF` steps, which the uninstallation does not look
at either. Of the members: sessions, tokens and API keys, except that a suspended
user acts no more, and suspensions of a user by another of its organisations. Of
the agents: the text
of plans, manifests and policies; `/api/v1/tasks`, which charges and then
enqueues in two calls. Of connectors: the calls of the worker to outside
services. `QuotaService` has no callers.

Components without a model, each with its reason in `PROJECT.json`: sessions and
MFA, left out on purpose; step bodies and interpolation, LLM and other clients,
which are I/O; the event bus, outputs, scheduled jobs and the cache store, which
are one call each and are modelled where their callers use them; the web
application, the legacy applications and the Python agents. They are the larger
part of the repository by lines: listings, forms, clients and scripts, in which
no two actors write one state. The map therefore covers a small share of all
implementation lines, and most of the lines at which state is shared.

## 6. What could come next

1. `NoOrphans` with edits: an invariant in which the rows an edit deleted are
   remembered, and a bound of edits below the deliveries of a job.
2. `createWorkflow` as a second refinement of `OptimisticLimit`, with its proof
   by instantiating `OptimisticLimit_proofs` as `AgentPacks_proofs` does.
3. Safety halves of the liveness properties: that every state in which a job or
   event is unsettled has a fair action enabled.
4. Retention: a queue that forgets completed jobs, and the properties that
   survive it; billing's checkout (two customers for one organisation).
