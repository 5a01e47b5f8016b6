--------------------------- MODULE WorkflowRunner ---------------------------
(***************************************************************************)
(* The workflow engine of apps/worker/src/engine/runner.ts: trigger jobs   *)
(* create executions, execution jobs run one step of one execution each,   *)
(* and every job that succeeds enqueues the jobs of the next steps.        *)
(*                                                                         *)
(* A step of this module is one await of the handlers: one query, one      *)
(* write or one queue command.  Between two awaits of a handler the other  *)
(* handlers, the queue and the processes' crashes interleave freely.       *)
(*                                                                         *)
(* What the handlers read into local variables stays in them (seenDepth,   *)
(* seenCanvas), so it may be stale when it is used.  What they learn only  *)
(* to fill a payload (previous results, templates, hashes, sizes, dates)   *)
(* is left out.  A delayed job may be taken at any later time, which is    *)
(* what a job with any delay can do.                                       *)
(***************************************************************************)
EXTENDS WorkflowCanvas

CONSTANTS
  Exec,           \* ids that workflow_executions rows may get
  Worker,         \* concurrent slots of the execution worker
  TriggerJob,     \* jobs that the trigger queue may get
  Canvases,       \* successive definitions of the workflow, 1..n -> canvas
  MaxAttempts,    \* MAX_ATTEMPTS of the runner
  MaxDeliveries,  \* "attempts" of the execution queue
  MaxStalled,     \* maxStalledCount of BullMQ
  MaxDepth,       \* max(1, workflow.maxDepth)
  QuotaLimit,     \* limit of the tenant's AI_PROMPTS quota record
  MaxClock,       \* bound: last value of Date.now()
  MaxFaults,      \* bound: crashes, lost locks and infrastructure errors
  Cancellable,    \* executions an operator may cancel
  NoExec, NoJob, NoWorker

ASSUME RunnerAssumption ==
  /\ MaxAttempts \in Nat \ {0} /\ MaxDeliveries \in Nat \ {0}
  /\ MaxDepth \in Nat \ {0}
  /\ MaxStalled \in Nat /\ QuotaLimit \in Nat /\ MaxFaults \in Nat
  /\ MaxClock \in Nat /\ MaxClock > MaxAttempts
  /\ DOMAIN Canvases \subseteq Nat \ {0}
  /\ \A i \in DOMAIN Canvases : IsCanvas(Canvases[i])
  /\ NoExec \notin Exec /\ NoWorker \notin Worker
  /\ IsFiniteSet(Worker) /\ Worker # {}

(***************************************************************************)
(* A job id ends in a number, the attempt of a retry or of the first step, *)
(* or Date.now() of the enqueue.  The clock never gets as low as the       *)
(* attempts, so the number tells the two apart.                            *)
(***************************************************************************)
JobId == [exec : Exec, key : Key, stamp : 1 .. MaxClock]

ASSUME JobAssumption == NoJob \notin JobId

\* payload.attempt of a job.
AttemptOf(j) == IF j.stamp <= MaxAttempts THEN j.stamp ELSE 1

VARIABLES
  execStatus,  \* workflow_executions.status; "NONE" before the row exists
  execDepth,   \* workflow_executions.depth
  results,     \* rows of step_results of the current canvas
  canvas,      \* the stored workflow: index into Canvases
  wfStatus,    \* workflow.status
  quota,       \* quotaUsage.count
  jobState,    \* the execution queue, jobs by id
  deliveries,  \* attemptsMade of a job
  stalls,      \* times a job was found stalled
  owner,       \* the slot that holds the lock of a job
  trigState,   \* jobs of the trigger queue, with the await they are at
  trigStalls,  \* times a trigger job was found stalled
  trigExec,    \* the execution its handler created
  trigCanvas,  \* the canvas its handler read
  pc,          \* the await at which a slot's handler is
  job,         \* the job of the slot
  seenDepth,   \* execution.depth as the handler read it
  seenCanvas,  \* the workflow as the handler read it
  output,      \* output.result of executeStep
  todo,        \* transitions the handler still has to enqueue
  caught,      \* the handler is in its catch block
  clock,       \* Date.now()
  faults       \* bound: faults so far

execVars == <<execStatus, execDepth, results>>
wfVars == <<canvas, wfStatus>>
queueVars == <<jobState, deliveries, stalls, owner>>
trigVars == <<trigState, trigStalls, trigExec, trigCanvas>>
localVars == <<job, seenDepth, seenCanvas, output, todo, caught>>
vars == <<execVars, wfVars, quota, queueVars, trigVars, pc, localVars, clock, faults>>

Pc == {"idle", "readExecution", "readWorkflow", "readQuota", "charge", "execute",
       "record", "bump", "succeed", "enqueue", "catch", "retry", "abort", "ack", "nack"}

Row == [exec : Exec, key : Key, attempt : 1 .. MaxAttempts,
        status : {"SUCCESS", "FAILED"}, output : BOOLEAN]

TypeOK ==
  /\ execStatus \in [Exec -> {"NONE", "RUNNING", "SUCCESS", "FAILED", "CANCELLED"}]
  /\ execDepth \in [Exec -> Nat]
  /\ results \subseteq Row
  /\ canvas \in DOMAIN Canvases
  /\ wfStatus \in {"DRAFT", "PUBLISHED", "ARCHIVED"}
  /\ quota \in Nat
  /\ jobState \in [JobId -> {"absent", "wait", "active", "completed", "failed"}]
  /\ deliveries \in [JobId -> 0 .. MaxDeliveries]
  /\ stalls \in [JobId -> 0 .. MaxStalled]
  /\ owner \in [JobId -> Worker \cup {NoWorker}]
  /\ trigState \in [TriggerJob -> {"absent", "wait", "create", "dispatch", "completed", "failed"}]
  /\ trigStalls \in [TriggerJob -> 0 .. MaxStalled]
  /\ trigExec \in [TriggerJob -> Exec \cup {NoExec}]
  /\ trigCanvas \in [TriggerJob -> DOMAIN Canvases \cup {0}]
  /\ pc \in [Worker -> Pc]
  /\ job \in [Worker -> JobId \cup {NoJob}]
  /\ seenDepth \in [Worker -> Nat]
  /\ seenCanvas \in [Worker -> DOMAIN Canvases \cup {0}]
  /\ output \in [Worker -> BOOLEAN]
  /\ todo \in [Worker -> SUBSET Edge]
  /\ caught \in [Worker -> BOOLEAN]
  /\ clock \in MaxAttempts + 1 .. MaxClock
  /\ faults \in 0 .. MaxFaults

Init ==
  /\ execStatus = [e \in Exec |-> "NONE"]
  /\ execDepth = [e \in Exec |-> 0]
  /\ results = {}
  /\ canvas \in DOMAIN Canvases
  /\ wfStatus = "PUBLISHED"
  /\ quota = 0
  /\ jobState = [j \in JobId |-> "absent"]
  /\ deliveries = [j \in JobId |-> 0]
  /\ stalls = [j \in JobId |-> 0]
  /\ owner = [j \in JobId |-> NoWorker]
  /\ trigState = [t \in TriggerJob |-> "absent"]
  /\ trigStalls = [t \in TriggerJob |-> 0]
  /\ trigExec = [t \in TriggerJob |-> NoExec]
  /\ trigCanvas = [t \in TriggerJob |-> 0]
  /\ pc = [w \in Worker |-> "idle"]
  /\ job = [w \in Worker |-> NoJob]
  /\ seenDepth = [w \in Worker |-> 0]
  /\ seenCanvas = [w \in Worker |-> 0]
  /\ output = [w \in Worker |-> FALSE]
  /\ todo = [w \in Worker |-> {}]
  /\ caught = [w \in Worker |-> FALSE]
  /\ clock = MaxAttempts + 1
  /\ faults = 0

-----------------------------------------------------------------------------
(***************************************************************************)
(* The helpers of the handlers.                                            *)
(***************************************************************************)

MutantDeeper(depth) == depth > MaxDepth
AtMaxDepth(depth) == depth >= MaxDepth

MutantOneMore == quota > QuotaLimit
QuotaExhausted == quota >= QuotaLimit

MutantNoRetry(j) == FALSE
RetriesLeft(j) == AttemptOf(j) < MaxAttempts

\* The job of the step's next attempt.
RetryOf(j) == [j EXCEPT !.stamp = AttemptOf(j) + 1]

\* BullMQ delivers the job again after this attempt fails.
MutantNoRedelivery(j) == FALSE
DeliveriesLeft(j) == deliveries[j] + 1 < MaxDeliveries

\* The unique index of step_results: executionId, stepId, attempt.
MutantNoIndex(e, k, a) == FALSE
RowExists(e, k, a) == \E r \in results : r.exec = e /\ r.key = k /\ r.attempt = a

\* stepResult.create fails on the unique index, and on the foreign key of a
\* step that a newer canvas has deleted.
CreateConflicts(w) ==
  \/ RowExists(job[w].exec, job[w].key, AttemptOf(job[w]))
  \/ seenCanvas[w] # canvas

RowOf(w, status, out) ==
  [exec |-> job[w].exec, key |-> job[w].key, attempt |-> AttemptOf(job[w]),
   status |-> status, output |-> out]

\* Queue.add: a job whose id the queue still knows is not added again.
AddJob(j) ==
  jobState' = [jobState EXCEPT ![j] = IF @ = "absent" THEN "wait" ELSE @]

\* Date.now() as an enqueue reads it.
ReadClock(now) == now \in {clock, clock + 1} /\ now <= MaxClock /\ clock' = now

Goto(w, label) == pc' = [pc EXCEPT ![w] = label]

\* The handler returns or throws, and its locals are gone.
Release(w) ==
  /\ pc' = [pc EXCEPT ![w] = "idle"]
  /\ job' = [job EXCEPT ![w] = NoJob]
  /\ seenDepth' = [seenDepth EXCEPT ![w] = 0]
  /\ seenCanvas' = [seenCanvas EXCEPT ![w] = 0]
  /\ output' = [output EXCEPT ![w] = FALSE]
  /\ todo' = [todo EXCEPT ![w] = {}]
  /\ caught' = [caught EXCEPT ![w] = FALSE]

\* The transitions left to enqueue after this one.
MutantNotAdvancing(w, edge) == todo[w]
Remaining(w, edge) == todo[w] \ {edge}

SetStatus(e, status) == execStatus' = [execStatus EXCEPT ![e] = status]

(***************************************************************************)
(* processTriggerJob, one job of the trigger queue at a time.              *)
(***************************************************************************)

\* A cron tick, a webhook or the API adds a trigger job.
TriggerFires(t) ==
  /\ trigState[t] = "absent"
  /\ trigState' = [trigState EXCEPT ![t] = "wait"]
  /\ UNCHANGED <<execVars, wfVars, quota, queueVars, trigStalls, trigExec, trigCanvas,
                 pc, localVars, clock, faults>>

\* Reads the workflow; a workflow that is not published drops the trigger.
ReadPublished(t) ==
  /\ trigState[t] = "wait"
  /\ IF wfStatus = "PUBLISHED"
     THEN /\ trigState' = [trigState EXCEPT ![t] = "create"]
          /\ trigCanvas' = [trigCanvas EXCEPT ![t] = canvas]
     ELSE /\ trigState' = [trigState EXCEPT ![t] = "completed"]
          /\ UNCHANGED trigCanvas
  /\ UNCHANGED <<execVars, wfVars, quota, queueVars, trigStalls, trigExec,
                 pc, localVars, clock, faults>>

CreateExecution(t, e) ==
  /\ trigState[t] = "create"
  /\ execStatus[e] = "NONE"
  /\ SetStatus(e, "RUNNING")
  /\ trigExec' = [trigExec EXCEPT ![t] = e]
  /\ trigState' = [trigState EXCEPT ![t] = "dispatch"]
  /\ UNCHANGED <<execDepth, results, wfVars, quota, queueVars, trigStalls, trigCanvas,
                 pc, localVars, clock, faults>>

\* Enqueues the trigger step, or fails the execution when there is none.
DispatchTrigger(t) ==
  LET e == trigExec[t]
      key == Canvases[trigCanvas[t]].trigger IN
  /\ trigState[t] = "dispatch"
  /\ IF key = NoKey
     THEN SetStatus(e, "FAILED") /\ UNCHANGED jobState
     ELSE AddJob([exec |-> e, key |-> key, stamp |-> 1]) /\ UNCHANGED execStatus
  /\ trigState' = [trigState EXCEPT ![t] = "completed"]
  /\ UNCHANGED <<execDepth, results, wfVars, quota, deliveries, stalls, owner, trigStalls,
                 trigExec, trigCanvas, pc, localVars, clock, faults>>

\* The worker process dies, or a query or command of the handler throws.  A
\* stalled job is delivered again up to MaxStalled times; the trigger queue
\* does not retry a job that threw.
TriggerLost(t) ==
  /\ trigState[t] \in {"create", "dispatch"}
  /\ faults < MaxFaults
  /\ faults' = faults + 1
  /\ \/ /\ trigStalls[t] < MaxStalled
        /\ trigState' = [trigState EXCEPT ![t] = "wait"]
        /\ trigStalls' = [trigStalls EXCEPT ![t] = @ + 1]
     \/ /\ trigState' = [trigState EXCEPT ![t] = "failed"]
        /\ UNCHANGED trigStalls
  /\ UNCHANGED <<execVars, wfVars, quota, queueVars, trigExec, trigCanvas, pc, localVars, clock>>

-----------------------------------------------------------------------------
(***************************************************************************)
(* processExecutionJob, in slot w.                                         *)
(***************************************************************************)

\* BullMQ hands a waiting job to a free slot, which locks it.
TakeJob(w, j) ==
  /\ pc[w] = "idle"
  /\ jobState[j] = "wait"
  /\ jobState' = [jobState EXCEPT ![j] = "active"]
  /\ owner' = [owner EXCEPT ![j] = w]
  /\ job' = [job EXCEPT ![w] = j]
  /\ Goto(w, "readExecution")
  /\ UNCHANGED <<execVars, wfVars, quota, deliveries, stalls, trigVars, seenDepth, seenCanvas,
                 output, todo, caught, clock, faults>>

\* Only a cancelled execution stops here; a failed or successful one goes on.
ReadExecution(w) ==
  /\ pc[w] = "readExecution"
  /\ IF execStatus[job[w].exec] = "CANCELLED"
     THEN Goto(w, "ack") /\ UNCHANGED seenDepth
     ELSE /\ Goto(w, "readWorkflow")
          /\ seenDepth' = [seenDepth EXCEPT ![w] = execDepth[job[w].exec]]
  /\ UNCHANGED <<execVars, wfVars, quota, queueVars, trigVars, job, seenCanvas, output, todo,
                 caught, clock, faults>>

\* Reads steps and transitions; too deep or an unknown step fails the execution.
ReadWorkflow(w) ==
  LET c == Canvases[canvas] IN
  /\ pc[w] = "readWorkflow"
  /\ seenCanvas' = [seenCanvas EXCEPT ![w] = canvas]
  /\ Goto(w, IF AtMaxDepth(seenDepth[w]) \/ job[w].key \notin c.steps THEN "abort"
             ELSE IF job[w].key \in c.agents THEN "readQuota"
             ELSE "execute")
  /\ UNCHANGED <<execVars, wfVars, quota, queueVars, trigVars, job, seenDepth, output, todo,
                 caught, clock, faults>>

\* consumeSharedAgentBudget, its read: an exhausted quota throws.
ReadQuota(w) ==
  /\ pc[w] = "readQuota"
  /\ Goto(w, IF QuotaExhausted THEN "catch" ELSE "charge")
  /\ UNCHANGED <<execVars, wfVars, quota, queueVars, trigVars, localVars, clock, faults>>

\* consumeSharedAgentBudget, its increment.
Charge(w) ==
  /\ pc[w] = "charge"
  /\ quota' = quota + 1
  /\ Goto(w, "execute")
  /\ UNCHANGED <<execVars, wfVars, queueVars, trigVars, localVars, clock, faults>>

\* executeStep returns an output or throws.
Execute(w) ==
  /\ pc[w] = "execute"
  /\ \/ \E out \in StepOutputs(Canvases[seenCanvas[w]], job[w].key) :
          /\ output' = [output EXCEPT ![w] = out]
          /\ Goto(w, "record")
     \/ Goto(w, "catch") /\ UNCHANGED output
  /\ UNCHANGED <<execVars, wfVars, quota, queueVars, trigVars, job, seenDepth, seenCanvas,
                 todo, caught, clock, faults>>

RecordSuccess(w) ==
  /\ pc[w] = "record"
  /\ IF CreateConflicts(w)
     THEN Goto(w, "catch") /\ UNCHANGED results
     ELSE /\ results' = results \cup {RowOf(w, "SUCCESS", output[w])}
          /\ Goto(w, "bump")
  /\ UNCHANGED <<execStatus, execDepth, wfVars, quota, queueVars, trigVars, localVars, clock,
                 faults>>

\* Writes the depth it read plus one, then picks the transitions to follow.
BumpDepth(w) ==
  LET next == NextTransitions(Canvases[seenCanvas[w]], job[w].key, output[w], FALSE) IN
  /\ pc[w] = "bump"
  /\ execDepth' = [execDepth EXCEPT ![job[w].exec] = seenDepth[w] + 1]
  /\ todo' = [todo EXCEPT ![w] = next]
  /\ Goto(w, IF next = {} THEN "succeed" ELSE "enqueue")
  /\ UNCHANGED <<execStatus, results, wfVars, quota, queueVars, trigVars, job, seenDepth,
                 seenCanvas, output, caught, clock, faults>>

\* A step with nothing to follow completes the execution.
Succeed(w) ==
  /\ pc[w] = "succeed"
  /\ SetStatus(job[w].exec, "SUCCESS")
  /\ Goto(w, "ack")
  /\ UNCHANGED <<execDepth, results, wfVars, quota, queueVars, trigVars, localVars, clock, faults>>

\* One round of the loop that enqueues the next steps, in the try block or,
\* for fallback transitions, in the catch block.
EnqueueNext(w) ==
  /\ pc[w] = "enqueue"
  /\ \E edge \in todo[w], now \in MaxAttempts + 1 .. MaxClock :
       /\ ReadClock(now)
       /\ AddJob([exec |-> job[w].exec, key |-> edge.target, stamp |-> now])
       /\ todo' = [todo EXCEPT ![w] = Remaining(w, edge)]
       /\ Goto(w, IF Remaining(w, edge) = {} THEN "ack" ELSE "enqueue")
  /\ UNCHANGED <<execVars, wfVars, quota, deliveries, stalls, owner, trigVars, job, seenDepth,
                 seenCanvas, output, caught, faults>>

\* The catch block: a FAILED result, then a retry, a fallback or the end.
RecordFailure(w) ==
  LET fallback == IF job[w].key \in Canvases[seenCanvas[w]].continues
                  THEN NextTransitions(Canvases[seenCanvas[w]], job[w].key, FALSE, TRUE) ELSE {} IN
  /\ pc[w] = "catch"
  /\ caught' = [caught EXCEPT ![w] = TRUE]
  /\ IF CreateConflicts(w)
     THEN Goto(w, "nack") /\ UNCHANGED <<results, todo>>
     ELSE /\ results' = results \cup {RowOf(w, "FAILED", FALSE)}
          /\ IF RetriesLeft(job[w])
             THEN Goto(w, "retry") /\ UNCHANGED todo
             ELSE /\ todo' = [todo EXCEPT ![w] = fallback]
                  /\ Goto(w, IF fallback = {} THEN "abort" ELSE "enqueue")
  /\ UNCHANGED <<execStatus, execDepth, wfVars, quota, queueVars, trigVars, job, seenDepth,
                 seenCanvas, output, clock, faults>>

RetryStep(w) ==
  /\ pc[w] = "retry"
  /\ AddJob(RetryOf(job[w]))
  /\ Goto(w, "ack")
  /\ UNCHANGED <<execVars, wfVars, quota, deliveries, stalls, owner, trigVars, localVars, clock,
                 faults>>

Abort(w) ==
  /\ pc[w] = "abort"
  /\ SetStatus(job[w].exec, "FAILED")
  /\ Goto(w, "ack")
  /\ UNCHANGED <<execDepth, results, wfVars, quota, queueVars, trigVars, localVars, clock, faults>>

-----------------------------------------------------------------------------
(***************************************************************************)
(* The execution queue: what BullMQ does when a handler ends, a process    *)
(* dies or a lock runs out.                                                *)
(***************************************************************************)

\* The handler returned: the job is completed, if the slot still holds it.
Ack(w) ==
  LET j == job[w] IN
  /\ pc[w] = "ack"
  /\ IF owner[j] = w
     THEN /\ jobState' = [jobState EXCEPT ![j] = "completed"]
          /\ owner' = [owner EXCEPT ![j] = NoWorker]
     ELSE UNCHANGED <<jobState, owner>>
  /\ Release(w)
  /\ UNCHANGED <<execVars, wfVars, quota, deliveries, stalls, trigVars, clock, faults>>

\* The handler threw: the job is delivered again until its attempts are used.
Nack(w) ==
  LET j == job[w] IN
  /\ pc[w] = "nack"
  /\ IF owner[j] = w
     THEN /\ deliveries' = [deliveries EXCEPT ![j] = @ + 1]
          /\ jobState' = [jobState EXCEPT ![j] =
                            IF DeliveriesLeft(j) THEN "wait" ELSE "failed"]
          /\ owner' = [owner EXCEPT ![j] = NoWorker]
     ELSE UNCHANGED <<jobState, deliveries, owner>>
  /\ Release(w)
  /\ UNCHANGED <<execVars, wfVars, quota, stalls, trigVars, clock, faults>>

\* A query or command of the handler throws.  In the try block that leads to
\* the catch block, elsewhere out of the handler.
InfraError(w) ==
  /\ pc[w] \notin {"idle", "ack", "nack"}
  /\ faults < MaxFaults
  /\ faults' = faults + 1
  /\ Goto(w, IF pc[w] \in {"readQuota", "charge", "execute", "record", "bump", "succeed", "enqueue"}
                /\ ~caught[w]
             THEN "catch" ELSE "nack")
  /\ todo' = [todo EXCEPT ![w] = {}]
  /\ UNCHANGED <<execVars, wfVars, quota, queueVars, trigVars, job, seenDepth, seenCanvas, output,
                 caught, clock>>

\* The worker process dies; its slot restarts empty, its job stays locked.
Crash(w) ==
  /\ pc[w] # "idle"
  /\ faults < MaxFaults
  /\ faults' = faults + 1
  /\ Release(w)
  /\ UNCHANGED <<execVars, wfVars, quota, queueVars, trigVars, clock>>

\* BullMQ's stalled check puts back a job whose lock was not renewed.
PutBack(j) ==
  /\ jobState[j] = "active"
  /\ jobState' = [jobState EXCEPT ![j] = IF stalls[j] < MaxStalled THEN "wait" ELSE "failed"]
  /\ stalls' = [stalls EXCEPT ![j] = IF stalls[j] < MaxStalled THEN @ + 1 ELSE @]
  /\ owner' = [owner EXCEPT ![j] = NoWorker]
  /\ UNCHANGED <<execVars, wfVars, quota, deliveries, trigVars, pc, localVars, clock>>

Handling(j) == \E w \in Worker : owner[j] = w /\ job[w] = j

RecoverStalled(j) == ~Handling(j) /\ PutBack(j) /\ UNCHANGED faults

\* The lock ran out although its handler is alive and goes on.
LoseLock(j) ==
  /\ Handling(j)
  /\ faults < MaxFaults
  /\ faults' = faults + 1
  /\ PutBack(j)

\* An operator writes CANCELLED; no code of this repository does.
CancelExecution(e) ==
  /\ e \in Cancellable
  /\ execStatus[e] = "RUNNING"
  /\ SetStatus(e, "CANCELLED")
  /\ UNCHANGED <<execDepth, results, wfVars, quota, queueVars, trigVars, pc, localVars, clock, faults>>

-----------------------------------------------------------------------------

HandlerStep(w) ==
  \/ ReadExecution(w) \/ ReadWorkflow(w) \/ ReadQuota(w) \/ Charge(w) \/ Execute(w)
  \/ RecordSuccess(w) \/ BumpDepth(w) \/ Succeed(w) \/ EnqueueNext(w)
  \/ RecordFailure(w) \/ RetryStep(w) \/ Abort(w) \/ Ack(w) \/ Nack(w)

TriggerStep(t) ==
  ReadPublished(t) \/ (\E e \in Exec : CreateExecution(t, e)) \/ DispatchTrigger(t)

RunnerNext ==
  \/ \E t \in TriggerJob : TriggerFires(t) \/ TriggerStep(t) \/ TriggerLost(t)
  \/ \E w \in Worker : HandlerStep(w) \/ InfraError(w) \/ Crash(w)
  \/ \E j \in JobId : RecoverStalled(j) \/ LoseLock(j) \/ \E w \in Worker : TakeJob(w, j)
  \/ \E e \in Exec : CancelExecution(e)

Spec == Init /\ [][RunnerNext]_vars

\* The worker process keeps serving both queues: a slot whose handler can go
\* on goes on, a waiting job is taken, a stalled one is found.
Fairness ==
  /\ \A t \in TriggerJob : WF_vars(TriggerStep(t))
  /\ \A w \in Worker : WF_vars(HandlerStep(w))
  /\ \A j \in JobId : WF_vars(RecoverStalled(j)) /\ WF_vars(\E w \in Worker : TakeJob(w, j))

FairSpec == Spec /\ Fairness

-----------------------------------------------------------------------------
(***************************************************************************)
(* What the engine promises about one execution while its canvas stays.    *)
(***************************************************************************)

Succeeded(e, k) == \E r \in results : r.exec = e /\ r.key = k /\ r.status = "SUCCESS"

\* The step failed its last attempt.
Exhausted(e, k) ==
  \E r \in results : r.exec = e /\ r.key = k /\ r.attempt = MaxAttempts /\ r.status = "FAILED"

FailedAt(e, k, a) ==
  \E r \in results : r.exec = e /\ r.key = k /\ r.attempt = a /\ r.status = "FAILED"

\* The source of the transition has ended in a way that follows it.
Followed(e, edge) ==
  \/ \E r \in results : /\ r.exec = e /\ r.key = edge.source /\ r.status = "SUCCESS"
                        /\ shouldFollowTransition(edge.route, r.output, FALSE)
  \/ /\ edge.source \in Canvases[canvas].continues
     /\ Exhausted(e, edge.source)
     /\ shouldFollowTransition(edge.route, FALSE, TRUE)

Enqueued(e, k) == \E j \in JobId : j.exec = e /\ j.key = k /\ jobState[j] # "absent"

\* A step that succeeded is never attempted again: whatever the queue
\* delivers twice, its success is the last of its results (the unique index
\* of step_results against redelivered jobs and joins).
SuccessIsFinal ==
  \A r, q \in results :
    r.exec = q.exec /\ r.key = q.key /\ r.status = "SUCCESS" => q = r \/ q.attempt < r.attempt

\* No job without a cause: it is the trigger's, the retry of a step all of
\* whose earlier attempts failed, or the target of a transition whose source
\* has its result stored (the order of create and add in the handler).
JobsAreCaused ==
  \A j \in JobId : jobState[j] # "absent" =>
    \/ j.key = Canvases[canvas].trigger /\ j.stamp = 1
    \/ j.stamp \in 2 .. MaxAttempts /\ \A a \in 1 .. j.stamp - 1 : FailedAt(j.exec, j.key, a)
    \/ /\ j.stamp > MaxAttempts
       /\ \E edge \in Canvases[canvas].edges : edge.target = j.key /\ Followed(j.exec, edge)

\* The two branches of a condition exclude each other, also when the step
\* that evaluates the condition is run several times with other outcomes.
OnlyWayIn(edge) ==
  /\ edge.target # Canvases[canvas].trigger
  /\ \A other \in Canvases[canvas].edges : other.target = edge.target => other = edge

BranchesExclude ==
  \A e \in Exec, a, b \in Canvases[canvas].edges :
    /\ a.source = b.source /\ a.route = "IF_TRUE" /\ b.route = "IF_FALSE"
    /\ OnlyWayIn(a) /\ OnlyWayIn(b)
    => ~(Enqueued(e, a.target) /\ Enqueued(e, b.target))

SuccessRows(e) == {r \in results : r.exec = e /\ r.status = "SUCCESS"}

\* Concurrent branches overwrite each other's depth, yet the stored depth
\* never counts a step that has no result, and never passes max_depth.
DepthIsSound ==
  \A e \in Exec : execDepth[e] <= MaxDepth /\ execDepth[e] <= Cardinality(SuccessRows(e))

\* A final status has a reason in the results: a successful step with
\* nothing to follow; a step out of attempts, max_depth or no trigger.
OutcomeHasReason ==
  \A e \in Exec :
    /\ execStatus[e] = "SUCCESS" =>
         \E r \in SuccessRows(e) : NextTransitions(Canvases[canvas], r.key, r.output, FALSE) = {}
    /\ execStatus[e] = "FAILED" =>
         \/ \E k \in Key : Exhausted(e, k)
         \/ Cardinality(SuccessRows(e)) >= MaxDepth
         \/ Canvases[canvas].trigger = NoKey

\* The quota is checked and charged in two queries: it may be passed, but by
\* less than the slots that can be between the two.
QuotaOvershootBounded == quota < QuotaLimit + Cardinality(Worker)

\* Every job leaves the queue, whatever dies on the way.
QueueDrains ==
  \A j \in JobId : jobState[j] = "wait" ~> jobState[j] \in {"completed", "failed"}

\* A cancelled execution gets no further step.
CancelledStops ==
  [][\A j \in JobId : execStatus[j.exec] = "CANCELLED" /\ jobState[j] = "absent"
                        => jobState'[j] = "absent"]_vars

\* The engine implements WorkflowProgress: a step has ended well once its
\* SUCCESS row is stored, and for good once its last FAILED row is.
Progress == INSTANCE WorkflowProgress WITH
  workflow <- Canvases[canvas],
  status <- execStatus,
  done <- {[exec |-> r.exec, key |-> r.key, output |-> r.output] :
             r \in {q \in results : q.status = "SUCCESS"}},
  exhausted <- {[exec |-> r.exec, key |-> r.key] :
                  r \in {q \in results : q.status = "FAILED" /\ q.attempt = MaxAttempts}}

ImplementsProgress == Progress!Spec
====
