----------------------- MODULE WorkflowService_proofs -----------------------
(***************************************************************************)
(* Proofs about WorkflowService: the engine's invariants with the requests *)
(* and edits of the API beside it, and that no execution is orphaned.      *)
(*                                                                         *)
(* An edit deletes the results of the steps it replaces, so what rests on  *)
(* the results is proved of behaviors in which no edit replaces the        *)
(* canvas.  Requests, changes of the workflow's status and everything the  *)
(* engine does stay in them.                                               *)
(***************************************************************************)
EXTENDS WorkflowService, WorkflowRunner_proofs, WellFoundedInduction

-----------------------------------------------------------------------------
(* Type correctness, with edits.                                           *)

RequestsTyped ==
  /\ reqState \in [Request -> {"absent", "create", "dispatch", "accepted", "refused", "lost"}]
  /\ reqCanvas \in [Request -> DOMAIN Canvases \cup {0}]
  /\ reqExec \in [Request -> Exec \cup {NoExec}]
  /\ \A q \in Request :
       /\ reqState[q] \in {"create", "dispatch"} => reqCanvas[q] \in DOMAIN Canvases
       /\ reqState[q] = "dispatch" => reqExec[q] \in Exec

\* The job a request adds.
FirstJob(q) == [exec |-> reqExec[q], key |-> Canvases[reqCanvas[q]].trigger, stamp |-> 1]

LEMMA FirstJobType ==
  ASSUME RequestsTyped, NEW q \in Request, reqState[q] = "dispatch",
         Canvases[reqCanvas[q]].trigger # NoKey
  PROVE  FirstJob(q) \in JobId
  <1>1. IsCanvas(Canvases[reqCanvas[q]]) /\ reqExec[q] \in Exec /\ 1 \in 1 .. MaxClock
    BY RunnerAssumption DEF RequestsTyped
  <1>2. Canvases[reqCanvas[q]].trigger \in Key
    BY <1>1 DEF IsCanvas
  <1>3. QED
    BY <1>1, <1>2 DEF FirstJob, JobId

LEMMA ServiceTypeStep ==
  Typed /\ RequestsTyped /\ [ServiceNext]_serviceVars => Typed' /\ RequestsTyped'
  <1> USE RunnerAssumption, JobAssumption
  <1> SUFFICES ASSUME Typed, RequestsTyped, [ServiceNext]_serviceVars
               PROVE  Typed' /\ RequestsTyped'
    OBVIOUS
  <1>1. CASE RunnerNext /\ UNCHANGED reqVars
    <2>1. Typed'
      BY <1>1, TypeStep
    <2>2. QED
      BY <1>1, <2>1 DEF reqVars, RequestsTyped
  <1>2. ASSUME NEW q \in Request, RunNow(q) PROVE Typed' /\ RequestsTyped'
    <2>1. Typed'
      BY <1>2, TypeStep DEF RunNow
    <2>2. canvas \in DOMAIN Canvases
      BY DEF Typed, TypeOK
    <2>3. QED
      BY <1>2, <2>1, <2>2 DEF RunNow, RequestsTyped
  <1>3. ASSUME NEW q \in Request, NEW e \in Exec, RunNowCreates(q, e) PROVE Typed' /\ RequestsTyped'
    <2>1. Typed'
      BY <1>3 DEF RunNowCreates, SetStatus, Typed, TypeOK, HandlersAreBound, QueueIsSound,
         wfVars, queueVars, trigVars, localVars
    <2>2. QED
      BY <1>3, <2>1 DEF RunNowCreates, RequestsTyped
  <1>4. ASSUME NEW q \in Request, RunNowDispatches(q) PROVE Typed' /\ RequestsTyped'
    <2>1. CASE Canvases[reqCanvas[q]].trigger # NoKey
      <3>1. FirstJob(q) \in JobId /\ AddJob(FirstJob(q)) /\ trigState' = trigState
        BY <1>4, <2>1, FirstJobType DEF RunNowDispatches, FirstJob
      <3>2. jobState' \in [JobId -> {"absent", "wait", "active", "completed", "failed"}]
        BY <3>1, AddJobType DEF Typed, TypeOK
      <3>3. QueueIsSound'
        BY <1>4, <3>1, AddJobQueue DEF RunNowDispatches, Typed
      <3>4. Typed'
        BY <1>4, <3>1, <3>2, <3>3 DEF RunNowDispatches, Typed, TypeOK, HandlersAreBound,
           execVars, wfVars, localVars
      <3>5. QED
        BY <1>4, <3>4 DEF RunNowDispatches, RequestsTyped
    <2>2. CASE Canvases[reqCanvas[q]].trigger = NoKey
      <3>1. /\ jobState' = jobState
            /\ \/ trigState' = trigState
               \/ \E t \in TriggerJob : trigState' = [trigState EXCEPT ![t] = "wait"]
        BY <1>4, <2>2 DEF RunNowDispatches
      <3>2. Typed'
        BY <1>4, <3>1 DEF RunNowDispatches, Typed, TypeOK, HandlersAreBound, QueueIsSound,
           execVars, wfVars, localVars
      <3>3. QED
        BY <1>4, <3>2 DEF RunNowDispatches, RequestsTyped
    <2>3. QED
      BY <2>1, <2>2
  <1>5. ASSUME NEW q \in Request, RequestLost(q) PROVE Typed' /\ RequestsTyped'
    <2>1. Typed'
      BY <1>5 DEF RequestLost, Typed, TypeOK, HandlersAreBound, QueueIsSound,
         execVars, wfVars, queueVars, trigVars, localVars
    <2>2. QED
      BY <1>5, <2>1 DEF RequestLost, RequestsTyped
  <1>6. ASSUME NEW c \in DOMAIN Canvases, ReplaceCanvas(c) PROVE Typed' /\ RequestsTyped'
    <2>1. Typed'
      BY <1>6 DEF ReplaceCanvas, Typed, TypeOK, HandlersAreBound, QueueIsSound,
         queueVars, trigVars, localVars
    <2>2. QED
      BY <1>6, <2>1 DEF ReplaceCanvas, reqVars, RequestsTyped
  <1>7. ASSUME NEW status \in {"DRAFT", "PUBLISHED", "ARCHIVED"}, ChangeStatus(status)
        PROVE  Typed' /\ RequestsTyped'
    <2>1. Typed'
      BY <1>7 DEF ChangeStatus, Typed, TypeOK, HandlersAreBound, QueueIsSound,
         execVars, queueVars, trigVars, localVars
    <2>2. QED
      BY <1>7, <2>1 DEF ChangeStatus, reqVars, RequestsTyped
  <1>8. CASE UNCHANGED serviceVars
    <2>1. Typed'
      BY <1>8, TypeStep DEF serviceVars
    <2>2. QED
      BY <1>8, <2>1 DEF serviceVars, reqVars, RequestsTyped
  <1>9. QED
    BY <1>1, <1>2, <1>3, <1>4, <1>5, <1>6, <1>7, <1>8 DEF ServiceNext, RequestStep

LEMMA ServiceTypeStart == ServiceInit => Typed /\ RequestsTyped
  BY TypeStart DEF ServiceInit, RequestsTyped

\* With requests and edits beside them, the handlers still find what they
\* read before: a canvas, an execution, an attempt left.
THEOREM ServiceTyping == ServiceSpec => [](Typed /\ RequestsTyped)
  BY ServiceTypeStart, ServiceTypeStep, PTL DEF ServiceSpec

-----------------------------------------------------------------------------
(* The quota, with edits: no request and no edit charges it.               *)

LEMMA ServiceQuotaStep ==
  Typed /\ QuotaInv /\ [ServiceNext]_serviceVars => QuotaInv'
  <1> SUFFICES ASSUME Typed, QuotaInv, [ServiceNext]_serviceVars PROVE QuotaInv'
    OBVIOUS
  <1>1. CASE RunnerNext
    BY <1>1, QuotaStep
  <1>2. CASE quota' = quota /\ pc' = pc
    BY <1>2, NoHandlerCharges DEF Typed
  <1>3. ASSUME NEW q \in Request, RequestStep(q) \/ RequestLost(q) PROVE quota' = quota /\ pc' = pc
    BY <1>3 DEF RequestStep, RequestLost, RunNow, RunNowCreates, RunNowDispatches, vars
  <1>4. ASSUME NEW c \in DOMAIN Canvases, ReplaceCanvas(c) PROVE quota' = quota /\ pc' = pc
    BY <1>4 DEF ReplaceCanvas
  <1>5. ASSUME NEW status, ChangeStatus(status) PROVE quota' = quota /\ pc' = pc
    BY <1>5 DEF ChangeStatus
  <1>6. ASSUME UNCHANGED serviceVars PROVE quota' = quota /\ pc' = pc
    BY <1>6 DEF serviceVars, vars
  <1>7. QED
    BY <1>1, <1>2, <1>3, <1>4, <1>5, <1>6 DEF ServiceNext

\* Edits and requests included, the quota is passed by less than the slots.
THEOREM ServiceQuotaBounded == ServiceSpec => []QuotaOvershootBounded
  <1>1. ServiceInit => QuotaInv
    BY QuotaStart DEF ServiceInit
  <1>2. Typed /\ QuotaInv => QuotaOvershootBounded
    BY ChargingCount, RunnerAssumption DEF Typed, TypeOK, QuotaInv, QuotaOvershootBounded
  <1>3. QED
    BY <1>1, <1>2, ServiceQuotaStep, ServiceTyping, PTL DEF ServiceSpec

-----------------------------------------------------------------------------
(***************************************************************************)
(* Without an edit: the engine's invariants, and that a request works on   *)
(* the canvas there is and on an execution that was created.               *)
(***************************************************************************)

Unedited == [][UNCHANGED canvas]_canvas

RequestHolds(q) ==
  /\ reqState[q] \in {"create", "dispatch"} => reqCanvas[q] = canvas
  /\ reqState[q] = "dispatch" => execStatus[reqExec[q]] # "NONE"

ServiceInv ==
  /\ IInv /\ CountInv /\ Started
  /\ RequestsTyped /\ \A q \in Request : RequestHolds(q)

\* No code takes back a status but "NONE".
LEMMA StatusStays ==
  ASSUME Typed, \A w \in Worker : pc[w] # "idle" => job[w] \in JobId,
         [ServiceNext]_serviceVars, NEW x \in Exec, execStatus[x] # "NONE"
  PROVE  /\ execStatus'[x] # "NONE"
         /\ execStatus[x] # "RUNNING" => execStatus'[x] # "RUNNING"
  <1>1. \/ execStatus' = execStatus
        \/ \E e \in Exec, status \in {"SUCCESS", "FAILED", "CANCELLED"} : SetStatus(e, status)
        \/ \E e \in Exec : execStatus[e] = "NONE" /\ SetStatus(e, "RUNNING")
    <2>1. ASSUME NEW w \in Worker, Succeed(w) \/ Abort(w)
          PROVE  \E e \in Exec, status \in {"SUCCESS", "FAILED", "CANCELLED"} : SetStatus(e, status)
      <3>1. job[w].exec \in Exec
        BY <2>1 DEF Succeed, Abort, JobId
      <3>2. QED
        BY <2>1, <3>1 DEF Succeed, Abort
    <2>2. ASSUME NEW t \in TriggerJob, DispatchTrigger(t)
          PROVE  \/ execStatus' = execStatus
                 \/ \E e \in Exec, status \in {"SUCCESS", "FAILED", "CANCELLED"} : SetStatus(e, status)
      <3>1. trigExec[t] \in Exec
        BY <2>2 DEF DispatchTrigger, Typed, HandlersAreBound
      <3>2. QED
        BY <2>2, <3>1 DEF DispatchTrigger
    <2>3. ASSUME NEW w \in Worker,
                 \/ HandlerStep(w) /\ ~Succeed(w) /\ ~Abort(w)
                 \/ InfraError(w) \/ Crash(w) \/ \E j \in JobId : TakeJob(w, j)
          PROVE  execStatus' = execStatus
      BY <2>3 DEF HandlerStep, ReadExecution, ReadWorkflow, ReadQuota, Charge, Execute, RecordSuccess,
         BumpDepth, EnqueueNext, RecordFailure, RetryStep, Ack, Nack, InfraError, Crash, TakeJob, execVars
    <2>4. ASSUME NEW t \in TriggerJob, TriggerFires(t) \/ ReadPublished(t) \/ TriggerLost(t)
          PROVE  execStatus' = execStatus
      BY <2>4 DEF TriggerFires, ReadPublished, TriggerLost, execVars
    <2>5. ASSUME NEW j \in JobId, RecoverStalled(j) \/ LoseLock(j) PROVE execStatus' = execStatus
      BY <2>5 DEF RecoverStalled, LoseLock, PutBack, execVars
    <2>6. ASSUME NEW q \in Request, RunNow(q) \/ RunNowDispatches(q) \/ RequestLost(q)
          PROVE  execStatus' = execStatus
      BY <2>6 DEF RunNow, RunNowDispatches, RequestLost, vars, execVars
    <2>7. ASSUME NEW c, ReplaceCanvas(c) \/ ChangeStatus(c) PROVE execStatus' = execStatus
      BY <2>7 DEF ReplaceCanvas, ChangeStatus, execVars
    <2>8. ASSUME UNCHANGED serviceVars PROVE execStatus' = execStatus
      BY <2>8 DEF serviceVars, vars, execVars
    <2>9. QED
      BY <2>1, <2>2, <2>3, <2>4, <2>5, <2>6, <2>7, <2>8
         DEF ServiceNext, RequestStep, RunnerNext, TriggerStep, CreateExecution, RunNowCreates,
             CancelExecution
  <1>2. QED
    BY <1>1 DEF SetStatus, Typed, TypeOK

\* A step of a request, or of its loss, that leaves the engine's handlers and
\* results alone and adds at most a job that is caused.
LEMMA RequestKeepsEngine ==
  ASSUME ServiceInv, Typed',
         UNCHANGED <<pc, localVars, canvas, results, execDepth, trigCanvas, trigExec>>,
         \/ execStatus' = execStatus
         \/ \E e \in Exec : execStatus[e] = "NONE" /\ SetStatus(e, "RUNNING"),
         \A t \in TriggerJob : trigState'[t] = trigState[t] \/ trigState'[t] = "wait",
         \/ jobState' = jobState
         \/ \E j \in JobId : AddJob(j) /\ Caused(j) /\ execStatus[j.exec] # "NONE"
  PROVE  IInv' /\ CountInv' /\ Started'
  <1>0. TypeOK /\ Typed
    BY DEF ServiceInv, IInv, Typed
  <1>1. /\ \A j \in JobId : jobState[j] # "absent" => jobState'[j] # "absent"
        /\ \A j \in JobId : jobState'[j] # "absent" => jobState[j] # "absent" \/ execStatus[j.exec] # "NONE"
    BY <1>0 DEF AddJob, TypeOK
  <1>2. Store'
    <2>1. CASE jobState' = jobState
      BY <2>1, StoreStays DEF ServiceInv, IInv
    <2>2. ASSUME NEW j \in JobId, AddJob(j), Caused(j) PROVE Store'
      BY <1>0, <2>2, StoreAddsJob DEF ServiceInv, IInv
    <2>3. QED
      BY <2>1, <2>2
  <1>3. \A t \in TriggerJob : TriggerHolds(t)'
    BY DEF ServiceInv, IInv, TriggerHolds
  <1>4. IInv'
    BY <1>1, <1>2, <1>3, NoHandlerMoves DEF ServiceInv
  <1>5. \A e \in Exec : execStatus'[e] = execStatus[e] \/ ExecSound(e)'
    <2>1. CASE execStatus' = execStatus
      BY <2>1
    <2>2. ASSUME NEW e \in Exec, execStatus[e] = "NONE", SetStatus(e, "RUNNING") PROVE ExecSound(e)'
      <3>1. SuccessRows(e)' = SuccessRows(e)
        BY DEF SuccessRows
      <3>2. execStatus'[e] = "RUNNING" /\ execDepth' = execDepth
        BY <1>0, <2>2 DEF SetStatus, TypeOK
      <3>3. QED
        BY <3>1, <3>2 DEF ExecSound, ServiceInv, CountInv
    <2>3. QED
      BY <1>0, <2>1, <2>2 DEF SetStatus, TypeOK
  <1>6. CountInv'
    BY <1>0, <1>5, NoHandlerCounts DEF ServiceInv, localVars
  <1>7. \A e \in Exec : execStatus[e] # "NONE" => execStatus'[e] # "NONE"
    BY <1>0 DEF SetStatus, TypeOK
  <1>8. Started'
    BY <1>0, <1>1, <1>7, StaysStarted DEF ServiceInv, JobId
  <1>9. QED
    BY <1>4, <1>6, <1>8

LEMMA ServiceInvStep ==
  ServiceInv /\ Typed' /\ RequestsTyped' /\ [ServiceNext]_serviceVars /\ [UNCHANGED canvas]_canvas
    => ServiceInv'
  <1> SUFFICES ASSUME ServiceInv, Typed', RequestsTyped', [ServiceNext]_serviceVars, canvas' = canvas
               PROVE  ServiceInv'
    OBVIOUS
  <1>0. Typed /\ TypeOK /\ RequestsTyped /\ canvas \in Nat
    BY RunnerAssumption DEF ServiceInv, IInv, Typed, TypeOK
  <1>a. \A x \in Exec : execStatus[x] # "NONE" => execStatus'[x] # "NONE"
    BY <1>0, StatusStays DEF ServiceInv, IInv, Holds
  <1>b. CASE RunnerNext /\ UNCHANGED reqVars
    <2>1. IInv' /\ CountInv' /\ Started'
      BY <1>b, InvarianceStep, CountStep, StartedStep DEF ServiceInv
    <2>2. \A q \in Request : RequestHolds(q)'
      BY <1>0, <1>a, <1>b DEF ServiceInv, RequestHolds, reqVars, RequestsTyped
    <2>3. QED
      BY <2>1, <2>2 DEF ServiceInv
  <1>1. ASSUME NEW q \in Request, RunNow(q) PROVE ServiceInv'
    <2>1. IInv' /\ CountInv' /\ Started'
      <3>1. UNCHANGED vars
        BY <1>1 DEF RunNow
      <3>2. QED
        BY <3>1, InvarianceStep, CountStep, StartedStep DEF ServiceInv
    <2>2. \A p \in Request : RequestHolds(p)'
      BY <1>0, <1>1 DEF RunNow, ServiceInv, RequestHolds, RequestsTyped, vars, execVars
    <2>3. QED
      BY <2>1, <2>2 DEF ServiceInv
  <1>2. ASSUME NEW q \in Request, NEW e \in Exec, RunNowCreates(q, e) PROVE ServiceInv'
    <2>1. IInv' /\ CountInv' /\ Started'
      BY <1>0, <1>2, RequestKeepsEngine DEF RunNowCreates, wfVars, queueVars, trigVars
    <2>2. \A p \in Request : RequestHolds(p)'
      <3>1. execStatus'[e] # "NONE"
        BY <1>0, <1>2 DEF RunNowCreates, SetStatus, TypeOK
      <3>2. QED
        BY <1>0, <1>a, <1>2, <3>1 DEF RunNowCreates, ServiceInv, RequestHolds, RequestsTyped
    <2>3. QED
      BY <2>1, <2>2 DEF ServiceInv
  <1>3. ASSUME NEW q \in Request, RunNowDispatches(q) PROVE ServiceInv'
    <2>1. /\ UNCHANGED <<pc, localVars, canvas, results, execStatus, execDepth, trigCanvas, trigExec>>
          /\ reqCanvas[q] = canvas /\ execStatus[reqExec[q]] # "NONE" /\ reqState[q] = "dispatch"
      BY <1>3 DEF RunNowDispatches, execVars, wfVars, ServiceInv, RequestHolds
    <2>2. \A t \in TriggerJob : trigState'[t] = trigState[t] \/ trigState'[t] = "wait"
      BY <1>0, <1>3 DEF RunNowDispatches, TypeOK
    <2>3. ASSUME Canvases[reqCanvas[q]].trigger # NoKey PROVE IInv' /\ CountInv' /\ Started'
      <3>1. FirstJob(q) \in JobId /\ AddJob(FirstJob(q))
        BY <1>0, <1>3, <2>1, <2>3, FirstJobType DEF RunNowDispatches, FirstJob
      <3>2. Caused(FirstJob(q)) /\ execStatus[FirstJob(q).exec] # "NONE"
        BY <2>1 DEF Caused, Due, FirstJob
      <3>3. QED
        BY <2>1, <2>2, <3>1, <3>2, RequestKeepsEngine
    <2>4. ASSUME Canvases[reqCanvas[q]].trigger = NoKey PROVE IInv' /\ CountInv' /\ Started'
      <3>1. jobState' = jobState
        BY <1>3, <2>4 DEF RunNowDispatches
      <3>2. QED
        BY <2>1, <2>2, <3>1, RequestKeepsEngine
    <2>5. IInv' /\ CountInv' /\ Started'
      BY <2>3, <2>4
    <2>6. \A p \in Request : RequestHolds(p)'
      BY <1>0, <1>3, <2>1 DEF RunNowDispatches, ServiceInv, RequestHolds, RequestsTyped
    <2>7. QED
      BY <2>5, <2>6 DEF ServiceInv
  <1>4. ASSUME NEW q \in Request, RequestLost(q) PROVE ServiceInv'
    <2>1. IInv' /\ CountInv' /\ Started'
      BY <1>0, <1>4, RequestKeepsEngine DEF RequestLost, execVars, wfVars, queueVars, trigVars
    <2>2. \A p \in Request : RequestHolds(p)'
      BY <1>0, <1>4 DEF RequestLost, ServiceInv, RequestHolds, RequestsTyped, execVars
    <2>3. QED
      BY <2>1, <2>2 DEF ServiceInv
  <1>5. ASSUME NEW c \in DOMAIN Canvases, ReplaceCanvas(c) PROVE ServiceInv'
    BY <1>0, <1>5, RunnerAssumption DEF ReplaceCanvas
  <1>6. ASSUME NEW status, ChangeStatus(status) PROVE ServiceInv'
    <2>1. IInv' /\ CountInv' /\ Started'
      BY <1>0, <1>6, RequestKeepsEngine DEF ChangeStatus, execVars, queueVars, trigVars
    <2>2. \A p \in Request : RequestHolds(p)'
      BY <1>0, <1>6 DEF ChangeStatus, ServiceInv, RequestHolds, reqVars, execVars
    <2>3. QED
      BY <2>1, <2>2 DEF ServiceInv
  <1>7. CASE UNCHANGED serviceVars
    <2>1. IInv' /\ CountInv' /\ Started'
      BY <1>7, InvarianceStep, CountStep, StartedStep DEF ServiceInv, serviceVars
    <2>2. \A p \in Request : RequestHolds(p)'
      BY <1>7 DEF ServiceInv, RequestHolds, serviceVars, reqVars, vars, execVars
    <2>3. QED
      BY <2>1, <2>2 DEF ServiceInv
  <1>8. QED
    BY <1>b, <1>1, <1>2, <1>3, <1>4, <1>5, <1>6, <1>7 DEF ServiceNext, RequestStep

LEMMA ServiceInvStart == ServiceInit => ServiceInv
  <1> SUFFICES ASSUME ServiceInit PROVE ServiceInv
    OBVIOUS
  <1>1. IInv /\ CountInv
    BY InvarianceStart, CountStart DEF ServiceInit
  <1>2. Started
    BY DEF ServiceInit, Init, Started
  <1>3. RequestsTyped /\ \A q \in Request : RequestHolds(q)
    BY DEF ServiceInit, RequestsTyped, RequestHolds
  <1>4. QED
    BY <1>1, <1>2, <1>3 DEF ServiceInv

\* The engine's invariants hold beside the requests and changes of status of
\* the service, and a request dispatches what it read and created.
THEOREM ServiceInvariance == ServiceSpec /\ Unedited => []ServiceInv
  BY ServiceInvStart, ServiceInvStep, ServiceTyping, PTL DEF ServiceSpec, Unedited

\* What the engine promises of results, jobs and statuses, it promises of
\* executions that runWorkflowNow starts, whatever it races with.
THEOREM ServiceKeepsResults ==
  ServiceSpec /\ Unedited =>
    [](SuccessIsFinal /\ JobsAreCaused /\ BranchesExclude /\ DepthIsSound /\ OutcomeHasReason)
  <1>1. ServiceInv => SuccessIsFinal
    BY SuccessLast DEF ServiceInv, IInv, Typed
  <1>2. ServiceInv => JobsAreCaused /\ BranchesExclude
    BY CausesKnown, BranchesApart DEF ServiceInv
  <1>3. ServiceInv => DepthIsSound /\ OutcomeHasReason
    BY DEF ServiceInv, CountInv, ExecSound, Won, Lost, DepthIsSound, OutcomeHasReason
  <1>4. QED
    BY <1>1, <1>2, <1>3, ServiceInvariance, PTL

LEMMA ServiceStepMaps ==
  ASSUME ServiceInv, [ServiceNext]_serviceVars, canvas' = canvas
  PROVE  AbstractStep
  <1>1. CASE [RunnerNext]_vars
    BY <1>1, StepMaps DEF ServiceInv
  <1>2. ASSUME NEW q \in Request, NEW e \in Exec, RunNowCreates(q, e) PROVE AbstractStep
    BY <1>2, StatusMaps DEF RunNowCreates, wfVars
  <1>3. ASSUME NEW q \in Request, RunNow(q) \/ RunNowDispatches(q) \/ RequestLost(q)
        PROVE  AbstractStep
    BY <1>3, Stutters DEF RunNow, RunNowDispatches, RequestLost, vars, execVars, wfVars
  <1>4. ASSUME NEW c \in DOMAIN Canvases, ReplaceCanvas(c) PROVE AbstractStep
    BY <1>4, RunnerAssumption DEF ReplaceCanvas, ServiceInv, IInv, Typed, TypeOK
  <1>5. ASSUME NEW status, ChangeStatus(status) PROVE AbstractStep
    BY <1>5, Stutters DEF ChangeStatus, execVars
  <1>6. QED
    BY <1>1, <1>2, <1>3, <1>4, <1>5 DEF ServiceNext, RequestStep, serviceVars

\* Engine and service together implement the abstract specification of the
\* engine, until an edit replaces the canvas.
THEOREM ServiceImplementsProgress == ServiceSpec /\ Unedited => ImplementsProgress
  <1>1. ServiceInit => Progress!Init
    BY DEF ServiceInit, Init, Progress!Init
  <1>2. ServiceInv /\ [ServiceNext]_serviceVars /\ [UNCHANGED canvas]_canvas
          => [Progress!Next]_(Progress!vars)
    BY ServiceStepMaps DEF AbstractStep
  <1>3. QED
    BY <1>1, <1>2, ServiceInvariance, PTL
       DEF ServiceSpec, Unedited, ImplementsProgress, Progress!Spec

-----------------------------------------------------------------------------
(***************************************************************************)
(* No execution is orphaned.  Until something fails, every job that is     *)
(* active has its handler, every job that left the queue has done what it  *)
(* was for, and every row of an execution that runs is served: its retry,  *)
(* or the steps its transitions lead to, are in the queue or about to be.  *)
(***************************************************************************)

\* The execution has ended; no code takes that back.
Over(e) == execStatus[e] \in {"SUCCESS", "FAILED", "CANCELLED"}

\* What the job was for is done.
Settled(j) == Over(j.exec) \/ RowExists(j.exec, j.key, AttemptOf(j))

\* The handler in slot w wrote the row, or met it.
Minds(w, r) ==
  /\ pc[w] # "idle"
  /\ job[w].exec = r.exec /\ job[w].key = r.key /\ AttemptOf(job[w]) = r.attempt

NextJob(r) == [exec |-> r.exec, key |-> r.key, stamp |-> r.attempt + 1]

\* The transitions that a row that ends its step leads to.
Follow(r) ==
  IF r.status = "SUCCESS" THEN NextTransitions(Canvases[canvas], r.key, r.output, FALSE)
  ELSE IF r.key \in Canvases[canvas].continues
  THEN NextTransitions(Canvases[canvas], r.key, FALSE, TRUE)
  ELSE {}

Reached(r, edges) == \A edge \in edges : Enqueued(r.exec, edge.target)

Enqueues(w, r) ==
  /\ Minds(w, r) /\ pc[w] = "enqueue"
  /\ todo[w] # {} /\ todo[w] \subseteq Follow(r)
  /\ Reached(r, Follow(r) \ todo[w])

WillRetry(r) == r.status = "FAILED" /\ r.attempt < MaxAttempts

\* The handler is about to do what comes after the row.
Serves(w, r) ==
  /\ Minds(w, r)
  /\ IF WillRetry(r) THEN pc[w] = "retry"
     ELSE pc[w] \in {"bump", "succeed", "abort"} \/ Enqueues(w, r)

Served(r) ==
  \/ \E w \in Worker : Serves(w, r)
  \/ WillRetry(r) /\ jobState[NextJob(r)] # "absent"
  \/ ~WillRetry(r) /\ Follow(r) # {} /\ Reached(r, Follow(r))

Locked ==
  /\ \A w \in Worker : pc[w] # "idle" => jobState[job[w]] = "active" /\ owner[job[w]] = w
  /\ \A j \in JobId : jobState[j] = "active" => \E w \in Worker : pc[w] # "idle" /\ job[w] = j

JobsSettle ==
  /\ \A j \in JobId : jobState[j] \in {"completed", "failed"} => Settled(j)
  /\ \A w \in Worker : pc[w] \in {"ack", "nack"} => Settled(job[w])

RowsServed == \A r \in results : Over(r.exec) \/ Served(r)

RunBegins(e) ==
  \/ \E q \in Request : reqState[q] = "dispatch" /\ reqExec[q] = e
  \/ \E t \in TriggerJob : trigState[t] = "dispatch" /\ trigExec[t] = e
  \/ Enqueued(e, Canvases[canvas].trigger)

RunsBegin == \A e \in Exec : execStatus[e] = "RUNNING" => RunBegins(e)

CarryInv == faults = 0 => Locked /\ JobsSettle /\ RowsServed /\ RunsBegin

\* What the proof asks of a canvas: a trigger step, which nothing checks of a
\* canvas, and no cycle, which validateDag refuses before one is stored.  Of
\* any steps of an acyclic canvas, some lead to none of them.
RootedDag(c) ==
  /\ c.trigger # NoKey
  /\ \A S \in SUBSET c.steps :
       S # {} => \E k \in S : \A edge \in c.edges : edge.source = k => edge.target \notin S

-----------------------------------------------------------------------------
(* The argument: an orphan's steps would lead around in a circle.          *)

LEMMA GreatestOf ==
  ASSUME NEW n \in Nat, NEW T \in SUBSET (0 .. n), T # {}
  PROVE  \E x \in T : \A y \in T : y <= x
  <1> DEFINE U == {u \in 0 .. n : n - u \in T}
  <1>1. U \subseteq Nat
    BY SMT
  <1>2. U # {}
    <2>1. PICK x \in T : TRUE
      OBVIOUS
    <2>2. n - x \in U
      BY <2>1
    <2>3. QED
      BY <2>2
  <1>3. PICK u \in U : \A v \in U : ~ (<<v, u>> \in OpToRel(<, Nat))
    BY <1>1, <1>2, NatLessThanWellFounded, WFMin, Zenon
  <1>4. \A v \in U : ~ (v < u)
    BY <1>1, <1>3 DEF OpToRel
  <1>5. n - u \in T /\ u \in 0 .. n
    OBVIOUS
  <1>6. \A y \in T : y <= n - u
    <2>1. TAKE y \in T
    <2>2. n - y \in U
      OBVIOUS
    <2>3. QED
      BY <1>4, <1>5, <2>2
  <1>7. QED
    BY <1>5, <1>6

\* A step of an execution nobody works on has a row that its retries stop at,
\* and a transition from it that was followed.
LEMMA StepWasFollowed ==
  ASSUME ServiceInv, Locked, JobsSettle, RowsServed,
         NEW e \in Exec, execStatus[e] = "RUNNING", ~Carried(e), NEW k, Enqueued(e, k)
  PROVE  \E edge \in Canvases[canvas].edges : edge.source = k /\ Enqueued(e, edge.target)
  <1>0. TypeOK /\ MaxAttempts \in Nat /\ ~Over(e)
    BY RunnerAssumption DEF ServiceInv, IInv, Typed, Over
  <1>1. \A j \in JobId : j.exec = e /\ jobState[j] # "absent" => RowExists(e, j.key, AttemptOf(j))
    BY <1>0 DEF JobsSettle, Settled, Carried, TypeOK
  <1>2. \A w \in Worker : pc[w] # "idle" => job[w].exec # e
    BY ZenonT(40) DEF Locked, Carried, ServiceInv, IInv, Holds
  <1> DEFINE T == {a \in 0 .. MaxAttempts : RowExists(e, k, a)}
  <1>3. T # {}
    <2>1. PICK j \in JobId : j.exec = e /\ j.key = k /\ jobState[j] # "absent"
      BY DEF Enqueued
    <2>2. AttemptOf(j) \in T
      BY <1>0, <1>1, <2>1, AttemptType
    <2>3. QED
      BY <2>2
  <1>4. PICK a \in T : \A b \in T : b <= a
    BY <1>0, <1>3, GreatestOf
  <1>5. PICK r \in results : r.exec = e /\ r.key = k /\ r.attempt = a
    BY DEF RowExists
  <1>6. r \in Row /\ Served(r)
    BY <1>0, <1>5 DEF RowsServed, TypeOK
  <1>7. \A w \in Worker : ~Minds(w, r)
    BY <1>2, <1>5 DEF Minds
  <1>8. ~WillRetry(r)
    <2>1. SUFFICES ASSUME WillRetry(r) PROVE FALSE
      OBVIOUS
    <2>2. NextJob(r) \in JobId /\ AttemptOf(NextJob(r)) = a + 1 /\ a + 1 \in 0 .. MaxAttempts
      BY <1>5, <1>6, <2>1, RunnerAssumption DEF NextJob, JobId, Row, WillRetry, AttemptOf
    <2>3. jobState[NextJob(r)] # "absent"
      BY <1>6, <1>7, <2>1 DEF Served, Serves
    <2>4. RowExists(e, k, a + 1)
      BY <1>1, <1>5, <2>2, <2>3 DEF NextJob
    <2>5. a + 1 \in T
      BY <2>2, <2>4
    <2>6. QED
      BY <1>4, <2>5
  <1>9. PICK edge \in Follow(r) : Enqueued(e, edge.target)
    BY <1>5, <1>6, <1>7, <1>8 DEF Served, Serves, Reached
  <1>10. edge \in Canvases[canvas].edges /\ edge.source = k
    BY <1>5 DEF Follow, NextTransitions
  <1>11. QED
    BY <1>9, <1>10

LEMMA NothingOrphaned ==
  ASSUME ServiceInv, CarryInv, RootedDag(Canvases[canvas])
  PROVE  NoOrphans
  <1> SUFFICES ASSUME faults = 0, NEW e \in Exec, execStatus[e] = "RUNNING", ~Carried(e)
               PROVE  FALSE
    BY DEF NoOrphans
  <1>1. Locked /\ JobsSettle /\ RowsServed /\ RunsBegin
    BY DEF CarryInv
  <1> DEFINE S == {k \in Canvases[canvas].steps : Enqueued(e, k)}
  <1>2. IsCanvas(Canvases[canvas])
    BY RunnerAssumption DEF ServiceInv, IInv, Typed, TypeOK
  <1>3. Canvases[canvas].trigger \in S
    <2>1. Enqueued(e, Canvases[canvas].trigger)
      BY <1>1 DEF RunsBegin, RunBegins, Carried
    <2>2. Canvases[canvas].trigger \in Canvases[canvas].steps
      BY <1>2 DEF RootedDag, IsCanvas
    <2>3. QED
      BY <2>1, <2>2
  <1>4. PICK k \in S : \A edge \in Canvases[canvas].edges : edge.source = k => edge.target \notin S
    BY <1>3 DEF RootedDag
  <1>5. PICK edge \in Canvases[canvas].edges : edge.source = k /\ Enqueued(e, edge.target)
    BY <1>1, StepWasFollowed
  <1>6. edge.target \in Canvases[canvas].steps
    BY <1>2 DEF IsCanvas
  <1>7. QED
    BY <1>4, <1>5, <1>6

-----------------------------------------------------------------------------
(* What no step takes away while the canvas stays.                         *)

Grows ==
  /\ canvas' = canvas /\ results \subseteq results'
  /\ \A j \in JobId : jobState[j] # "absent" => jobState'[j] # "absent"
  /\ \A e \in Exec : Over(e) => Over(e)'

\* The queue only gets jobs.
Adds ==
  \A j \in JobId : jobState'[j] = jobState[j] \/ (jobState[j] = "absent" /\ jobState'[j] = "wait")

Rests(w) == pc'[w] = pc[w] /\ job'[w] = job[w] /\ todo'[w] = todo[w]

\* The awaits at which a handler serves a row.
Serving == {"bump", "succeed", "abort", "enqueue", "retry"}

LEMMA AddJobAdds ==
  ASSUME TypeOK, NEW j \in JobId, AddJob(j)
  PROVE  Adds /\ jobState'[j] # "absent"
  BY DEF TypeOK, AddJob, Adds

LEMMA ServiceGrows ==
  ASSUME ServiceInv, ServiceInv', [ServiceNext]_serviceVars, canvas' = canvas
  PROVE  Grows
  <1>0. /\ TypeOK /\ TypeOK' /\ Typed /\ RequestsTyped
        /\ \A w \in Worker : pc[w] # "idle" => job[w] \in JobId /\ jobState[job[w]] # "absent"
    BY DEF ServiceInv, IInv, Typed, Holds
  <1>1. \A e \in Exec : Over(e) => Over(e)'
    <2>1. \A e \in Exec : execStatus[e] # "NONE" =>
            /\ execStatus'[e] # "NONE"
            /\ execStatus[e] # "RUNNING" => execStatus'[e] # "RUNNING"
      BY <1>0, StatusStays
    <2>2. QED
      BY <1>0, <2>1 DEF Over, TypeOK
  <1> DEFINE More == /\ results \subseteq results'
                     /\ \A j \in JobId : jobState[j] # "absent" => jobState'[j] # "absent"
  <1>2. ASSUME NEW w \in Worker, HandlerStep(w) \/ InfraError(w) \/ Crash(w) PROVE More
    <2>1. CASE EnqueueNext(w)
      BY <1>0, <2>1 DEF EnqueueNext, AddJob, execVars, TypeOK
    <2>2. CASE RetryStep(w)
      BY <1>0, <2>2 DEF RetryStep, AddJob, execVars, TypeOK
    <2>3. CASE Ack(w) \/ Nack(w)
      BY <1>0, <2>3 DEF Ack, Nack, execVars, TypeOK
    <2>4. CASE RecordSuccess(w) \/ RecordFailure(w)
      BY <2>4 DEF RecordSuccess, RecordFailure, queueVars
    <2>5. CASE \/ ReadExecution(w) \/ ReadWorkflow(w) \/ ReadQuota(w) \/ Charge(w) \/ Execute(w)
               \/ BumpDepth(w) \/ Succeed(w) \/ Abort(w) \/ InfraError(w) \/ Crash(w)
      BY <2>5 DEF ReadExecution, ReadWorkflow, ReadQuota, Charge, Execute, BumpDepth, Succeed, Abort,
         InfraError, Crash, execVars, queueVars
    <2>6. QED
      BY <1>2, <2>1, <2>2, <2>3, <2>4, <2>5 DEF HandlerStep
  <1>3. ASSUME NEW j \in JobId, RecoverStalled(j) \/ LoseLock(j) \/ \E w \in Worker : TakeJob(w, j)
        PROVE  More
    BY <1>0, <1>3 DEF RecoverStalled, LoseLock, PutBack, TakeJob, execVars, TypeOK
  <1>4. ASSUME NEW t \in TriggerJob, TriggerFires(t) \/ TriggerStep(t) \/ TriggerLost(t) PROVE More
    BY <1>0, <1>4 DEF TriggerFires, TriggerStep, ReadPublished, CreateExecution, DispatchTrigger,
       TriggerLost, AddJob, execVars, queueVars, TypeOK
  <1>5. ASSUME NEW e \in Exec, CancelExecution(e) PROVE More
    BY <1>5 DEF CancelExecution, queueVars
  <1>6. ASSUME NEW q \in Request, RequestStep(q) \/ RequestLost(q) PROVE More
    BY <1>0, <1>6 DEF RequestStep, RunNow, RunNowCreates, RunNowDispatches, RequestLost, AddJob, vars,
       execVars, queueVars, TypeOK
  <1>7. ASSUME NEW c \in DOMAIN Canvases, ReplaceCanvas(c) PROVE More
    BY <1>0, <1>7, RunnerAssumption DEF ReplaceCanvas, TypeOK
  <1>8. ASSUME NEW status, ChangeStatus(status) PROVE More
    BY <1>8 DEF ChangeStatus, execVars, queueVars
  <1>9. ASSUME UNCHANGED serviceVars PROVE More
    BY <1>9 DEF serviceVars, vars, execVars, queueVars
  <1>10. More
    BY <1>2, <1>3, <1>4, <1>5, <1>6, <1>7, <1>8, <1>9 DEF ServiceNext, RunnerNext
  <1>11. QED
    BY <1>1, <1>10 DEF Grows

LEMMA LastingFacts ==
  ASSUME Grows
  PROVE  /\ \A e, k : Enqueued(e, k) => Enqueued(e, k)'
         /\ \A j \in JobId : Settled(j) => Settled(j)'
         /\ \A r : Follow(r)' = Follow(r)
         /\ \A r, edges : Reached(r, edges) => Reached(r, edges)'
  <1>1. \A e, k : Enqueued(e, k) => Enqueued(e, k)'
    BY DEF Grows, Enqueued
  <1>2. \A j \in JobId : Settled(j) => Settled(j)'
    BY DEF Grows, Settled, RowExists, JobId
  <1>3. \A r : Follow(r)' = Follow(r)
    BY DEF Grows, Follow
  <1>4. QED
    BY <1>1, <1>2, <1>3 DEF Reached

\* A row stays served if the handlers that serve it rest.
LEMMA ServedStays ==
  ASSUME Grows, NEW r \in Row, Served(r), \A w \in Worker : Serves(w, r) => Rests(w)
  PROVE  Served(r)'
  <1>1. WillRetry(r)' <=> WillRetry(r)
    BY DEF WillRetry
  <1>2. ASSUME NEW w \in Worker, Serves(w, r) PROVE Serves(w, r)'
    <2>1. Rests(w)
      BY <1>2
    <2>2. Enqueues(w, r) => Enqueues(w, r)'
      <3>1. (Follow(r) \ todo[w])' = Follow(r) \ todo[w]
        BY <2>1, LastingFacts DEF Rests
      <3>2. Reached(r, Follow(r) \ todo[w]) => Reached(r, Follow(r) \ todo[w])'
        BY <3>1, LastingFacts
      <3>3. QED
        BY <2>1, <3>2, LastingFacts DEF Enqueues, Minds, Rests
    <2>3. QED
      BY <1>1, <1>2, <2>1, <2>2 DEF Serves, Minds, Rests
  <1>3. WillRetry(r) => NextJob(r) \in JobId
    BY RunnerAssumption DEF WillRetry, NextJob, JobId, Row
  <1>4. QED
    BY <1>1, <1>2, <1>3, LastingFacts DEF Served, Grows

LEMMA RowsStay ==
  ASSUME TypeOK, RowsServed, Grows, results' = results,
         \A w \in Worker : pc[w] \in Serving => Rests(w)
  PROVE  RowsServed'
  <1> SUFFICES ASSUME NEW r \in results PROVE Over(r.exec)' \/ Served(r)'
    BY DEF RowsServed
  <1>1. r \in Row /\ r.exec \in Exec
    BY DEF TypeOK, Row
  <1>2. \A w \in Worker : Serves(w, r) => pc[w] \in Serving
    BY DEF Serves, Enqueues, Serving
  <1>3. QED
    BY <1>1, <1>2, ServedStays DEF RowsServed, Grows

\* Handlers go on, the queue at most gets jobs.
LEMMA QueueStays ==
  ASSUME ServiceInv, Locked, JobsSettle, Grows, Adds, UNCHANGED <<job, owner>>,
         \A w \in Worker : pc'[w] = "idle" <=> pc[w] = "idle",
         \A w \in Worker : pc'[w] \in {"ack", "nack"} => pc[w] \in {"ack", "nack"} \/ Settled(job[w])'
  PROVE  Locked' /\ JobsSettle'
  <1>1. \A w \in Worker : pc[w] # "idle" => job[w] \in JobId
    BY DEF ServiceInv, IInv, Holds
  <1>2. Locked'
    BY <1>1 DEF Locked, Adds
  <1>3. JobsSettle'
    <2>1. ASSUME NEW w \in Worker, pc'[w] \in {"ack", "nack"} PROVE Settled(job[w])'
      BY <1>1, <2>1, LastingFacts DEF JobsSettle
    <2>2. ASSUME NEW j \in JobId, jobState'[j] \in {"completed", "failed"} PROVE Settled(j)'
      BY <2>2, LastingFacts DEF JobsSettle, Adds
    <2>3. QED
      BY <2>1, <2>2 DEF JobsSettle
  <1>4. QED
    BY <1>2, <1>3

\* An execution that runs keeps what began it, or has its first job.
LEMMA RunsStay ==
  ASSUME RunsBegin, Grows,
         \A e \in Exec : execStatus'[e] = "RUNNING" => execStatus[e] = "RUNNING" \/ RunBegins(e)',
         \A e \in Exec, q \in Request : reqState[q] = "dispatch" /\ reqExec[q] = e =>
           RunBegins(e)' \/ (reqState'[q] = "dispatch" /\ reqExec'[q] = e),
         \A e \in Exec, t \in TriggerJob : trigState[t] = "dispatch" /\ trigExec[t] = e =>
           RunBegins(e)' \/ (trigState'[t] = "dispatch" /\ trigExec'[t] = e)
  PROVE  RunsBegin'
  <1> SUFFICES ASSUME NEW e \in Exec, execStatus'[e] = "RUNNING", RunBegins(e) PROVE RunBegins(e)'
    BY DEF RunsBegin
  <1>1. Enqueued(e, Canvases[canvas].trigger) => RunBegins(e)'
    BY LastingFacts DEF RunBegins, Grows
  <1>2. QED
    BY <1>1 DEF RunBegins

\* Neither requests nor trigger jobs move, and no execution is created.
LEMMA RunsRest ==
  ASSUME RunsBegin, Grows, UNCHANGED <<reqVars, trigVars>>,
         \A e \in Exec : execStatus'[e] = "RUNNING" => execStatus[e] = "RUNNING"
  PROVE  RunsBegin'
  BY RunsStay DEF reqVars, trigVars

\* A handler goes on with its job, and serves no row before and none after.
LEMMA HandlerGoesOn ==
  ASSUME ServiceInv, Locked, JobsSettle, RowsServed, RunsBegin, Grows, NEW w \in Worker,
         pc[w] # "idle", pc[w] \notin Serving, NEW label, label # "idle",
         label \in {"ack", "nack"} => Settled(job[w])',
         pc' = [pc EXCEPT ![w] = label],
         UNCHANGED <<job, todo, queueVars, results, execStatus, reqVars, trigVars>>
  PROVE  Locked' /\ JobsSettle' /\ RowsServed' /\ RunsBegin'
  <1>0. TypeOK
    BY DEF ServiceInv, IInv, Typed
  <1>1. \A v \in Worker : pc'[v] = IF v = w THEN label ELSE pc[v]
    BY <1>0 DEF TypeOK
  <1>2. RowsServed'
    BY <1>0, <1>1, RowsStay DEF Rests
  <1>3. Adds
    BY DEF Adds, queueVars
  <1>4. Locked' /\ JobsSettle'
    BY <1>1, <1>3, QueueStays DEF queueVars
  <1>5. RunsBegin'
    BY RunsRest
  <1>6. QED
    BY <1>2, <1>4, <1>5

\* The awaits before the result is stored.
LEMMA BeforeTheResult ==
  ASSUME ServiceInv, Locked, JobsSettle, RowsServed, RunsBegin, Grows, UNCHANGED reqVars,
         NEW w \in Worker,
         ReadExecution(w) \/ ReadWorkflow(w) \/ ReadQuota(w) \/ Charge(w) \/ Execute(w)
  PROVE  Locked' /\ JobsSettle' /\ RowsServed' /\ RunsBegin'
  <1>1. PICK label : /\ label \notin {"idle", "nack"} /\ pc' = [pc EXCEPT ![w] = label]
                     /\ label = "ack" => execStatus[job[w].exec] = "CANCELLED"
    BY DEF ReadExecution, ReadWorkflow, ReadQuota, Charge, Execute, Goto
  <1>2. pc[w] # "idle" /\ pc[w] \notin Serving
    BY DEF ReadExecution, ReadWorkflow, ReadQuota, Charge, Execute, Serving
  <1>3. UNCHANGED <<job, todo, queueVars, results, execStatus, trigVars>>
    BY DEF ReadExecution, ReadWorkflow, ReadQuota, Charge, Execute, execVars, localVars
  <1>4. label \in {"ack", "nack"} => Settled(job[w])'
    BY <1>1, <1>3 DEF Settled, Over
  <1>5. QED
    BY <1>1, <1>2, <1>3, <1>4, HandlerGoesOn

Carry == Locked /\ JobsSettle /\ RowsServed /\ RunsBegin

\* A handler stores a row that it serves from then on.
LEMMA RowAdded ==
  ASSUME ServiceInv, Carry, Grows, NEW w \in Worker, pc[w] # "idle", pc[w] \notin Serving,
         NEW label, label \notin {"idle", "ack", "nack"}, pc' = [pc EXCEPT ![w] = label],
         UNCHANGED <<job, queueVars, execStatus, reqVars, trigVars>>,
         \A v \in Worker \ {w} : todo'[v] = todo[v],
         NEW row, results' = results \cup {row}, Served(row)'
  PROVE  Carry'
  <1>0. TypeOK
    BY DEF ServiceInv, IInv, Typed
  <1>1. \A v \in Worker : pc'[v] = IF v = w THEN label ELSE pc[v]
    BY <1>0 DEF TypeOK
  <1>2. RowsServed'
    <2>1. SUFFICES ASSUME NEW r \in results PROVE Over(r.exec)' \/ Served(r)'
      BY DEF RowsServed
    <2>2. r \in Row /\ r.exec \in Exec
      BY <1>0 DEF TypeOK, Row
    <2>3. \A v \in Worker : Serves(v, r) => Rests(v)
      BY <1>1 DEF Serves, Enqueues, Serving, Rests
    <2>4. QED
      BY <2>2, <2>3, ServedStays DEF Carry, RowsServed, Grows
  <1>3. Adds
    BY DEF Adds, queueVars
  <1>4. Locked' /\ JobsSettle'
    BY <1>1, <1>3, QueueStays DEF Carry, queueVars
  <1>5. RunsBegin'
    BY RunsRest DEF Carry
  <1>6. QED
    BY <1>2, <1>4, <1>5 DEF Carry

LEMMA StoresSuccess ==
  ASSUME ServiceInv, Carry, Grows, UNCHANGED reqVars, NEW w \in Worker, RecordSuccess(w)
  PROVE  Carry'
  <1>0. pc[w] = "record" /\ pc[w] # "idle" /\ pc[w] \notin Serving
    BY DEF RecordSuccess, Serving
  <1>1. CASE CreateConflicts(w)
    <2>1. /\ pc' = [pc EXCEPT ![w] = "catch"]
          /\ UNCHANGED <<job, todo, queueVars, results, execStatus, trigVars>>
      BY <1>1 DEF RecordSuccess, Goto, localVars
    <2>2. QED
      BY <1>0, <2>1, HandlerGoesOn DEF Carry
  <1>2. CASE ~CreateConflicts(w)
    <2> DEFINE row == RowOf(w, "SUCCESS", output[w])
    <2>1. /\ pc' = [pc EXCEPT ![w] = "bump"] /\ results' = results \cup {row}
          /\ UNCHANGED <<job, todo, queueVars, execStatus, trigVars>>
      BY <1>2 DEF RecordSuccess, Goto, localVars
    <2>2. row.exec = job[w].exec /\ row.key = job[w].key /\ row.attempt = AttemptOf(job[w])
          /\ row.status = "SUCCESS"
      BY DEF RowOf
    <2> HIDE DEF row
    <2>3. pc'[w] = "bump"
      BY <2>1 DEF ServiceInv, IInv, Typed, TypeOK
    <2>4. \A r : r = row => Served(r)'
      BY <2>1, <2>2, <2>3 DEF Served, Serves, Minds, WillRetry, AttemptOf
    <2>5. PICK r : r = row
      OBVIOUS
    <2>6. QED
      BY <1>0, <2>1, <2>4, <2>5, RowAdded
  <1>3. QED
    BY <1>1, <1>2

LEMMA StoresFailure ==
  ASSUME ServiceInv, Carry, Grows, UNCHANGED reqVars, NEW w \in Worker, RecordFailure(w)
  PROVE  Carry'
  <1>0. /\ pc[w] = "catch" /\ pc[w] # "idle" /\ pc[w] \notin Serving
        /\ seenCanvas[w] = canvas /\ TypeOK /\ job[w] \in JobId
    BY DEF RecordFailure, Serving, ServiceInv, IInv, Holds, Reading, Typed
  <1>1. CASE CreateConflicts(w)
    <2>1. /\ pc' = [pc EXCEPT ![w] = "nack"]
          /\ UNCHANGED <<job, todo, queueVars, results, execStatus, trigVars>>
      BY <1>1 DEF RecordFailure, Goto
    <2>2. Settled(job[w])
      BY <1>0, <1>1 DEF CreateConflicts, Settled
    <2>3. Settled(job[w])'
      BY <1>0, <2>1, <2>2, LastingFacts
    <2>4. QED
      BY <1>0, <2>1, <2>3, HandlerGoesOn DEF Carry
  <1>2. CASE ~CreateConflicts(w)
    <2>1. PICK row : row = RowOf(w, "FAILED", FALSE)
      OBVIOUS
    <2>2. row.exec = job[w].exec /\ row.key = job[w].key /\ row.attempt = AttemptOf(job[w])
          /\ row.status = "FAILED"
      BY <2>1 DEF RowOf
    <2>3. /\ results' = results \cup {row}
          /\ UNCHANGED <<job, queueVars, execStatus, trigVars>>
      BY <1>2, <2>1 DEF RecordFailure
    <2>4. /\ WillRetry(row) <=> RetriesLeft(job[w])
          /\ WillRetry(row)' <=> WillRetry(row)
          /\ Follow(row)' = Follow(row)
      BY <2>2, LastingFacts DEF WillRetry, RetriesLeft
    <2>5. CASE RetriesLeft(job[w])
      <3>1. pc' = [pc EXCEPT ![w] = "retry"] /\ todo' = todo
        BY <1>2, <2>5 DEF RecordFailure, Goto
      <3>2. pc'[w] = "retry"
        BY <1>0, <3>1 DEF TypeOK
      <3>3. Served(row)'
        BY <2>2, <2>3, <2>4, <2>5, <3>2 DEF Served, Serves, Minds, AttemptOf
      <3>4. QED
        BY <1>0, <2>3, <3>1, <3>3, RowAdded
    <2>6. CASE ~RetriesLeft(job[w])
      <3>1. /\ todo' = [todo EXCEPT ![w] = Follow(row)]
            /\ pc' = [pc EXCEPT ![w] = IF Follow(row) = {} THEN "abort" ELSE "enqueue"]
        BY <1>0, <1>2, <2>2, <2>6 DEF RecordFailure, Goto, Follow
      <3>2. /\ pc'[w] = IF Follow(row) = {} THEN "abort" ELSE "enqueue"
            /\ todo'[w] = Follow(row) /\ \A v \in Worker \ {w} : todo'[v] = todo[v]
        BY <1>0, <3>1 DEF TypeOK
      <3>3. Minds(w, row)'
        BY <2>2, <2>3, <3>2 DEF Minds, AttemptOf
      <3>4. Follow(row) # {} => Enqueues(w, row)'
        BY <2>4, <3>2, <3>3 DEF Enqueues, Reached
      <3>5. Serves(w, row)'
        BY <2>4, <2>6, <3>2, <3>3, <3>4 DEF Serves
      <3>6. QED
        BY <1>0, <2>3, <3>1, <3>2, <3>5, RowAdded DEF Served
    <2>7. QED
      BY <2>5, <2>6
  <1>3. QED
    BY <1>1, <1>2

\* A handler that serves rows goes on with its job: each row it serves is
\* served after the step too, or its execution is over.
LEMMA ServingGoesOn ==
  ASSUME ServiceInv, Carry, Grows, Adds, NEW w \in Worker, pc[w] # "idle",
         NEW label, label # "idle", pc' = [pc EXCEPT ![w] = label],
         label \in {"ack", "nack"} => Settled(job[w])',
         UNCHANGED <<job, owner, results, reqVars, trigVars>>,
         \A v \in Worker \ {w} : todo'[v] = todo[v],
         \A e \in Exec : execStatus'[e] = "RUNNING" => execStatus[e] = "RUNNING",
         \A r \in results : Serves(w, r) => Over(r.exec)' \/ Served(r)'
  PROVE  Carry'
  <1>0. TypeOK
    BY DEF ServiceInv, IInv, Typed
  <1>1. \A v \in Worker : pc'[v] = IF v = w THEN label ELSE pc[v]
    BY <1>0 DEF TypeOK
  <1>2. RowsServed'
    <2>1. SUFFICES ASSUME NEW r \in results, ~Serves(w, r) PROVE Over(r.exec)' \/ Served(r)'
      BY DEF RowsServed
    <2>2. r \in Row /\ r.exec \in Exec
      BY <1>0 DEF TypeOK, Row
    <2>3. \A v \in Worker : Serves(v, r) => Rests(v)
      BY <1>1, <2>1 DEF Rests
    <2>4. QED
      BY <2>2, <2>3, ServedStays DEF Carry, RowsServed, Grows
  <1>3. Locked' /\ JobsSettle'
    BY <1>1, QueueStays DEF Carry
  <1>4. RunsBegin'
    BY RunsRest DEF Carry
  <1>5. QED
    BY <1>2, <1>3, <1>4 DEF Carry

\* The rows of one attempt of a step are one row.
LEMMA MindsOneRow ==
  ASSUME ServiceInv, NEW w \in Worker, NEW r \in results, NEW q \in results, Minds(w, r), Minds(w, q)
  PROVE  r = q
  BY DEF Minds, ServiceInv, IInv, Store, UniqueRows

LEMMA Bumps ==
  ASSUME ServiceInv, Carry, Grows, UNCHANGED reqVars, NEW w \in Worker, BumpDepth(w)
  PROVE  Carry'
  <1>0. TypeOK /\ pc[w] = "bump" /\ seenCanvas[w] = canvas
    BY DEF ServiceInv, IInv, Typed, Holds, Reading, BumpDepth
  <1>1. PICK row \in results : row = RowOf(w, "SUCCESS", output[w])
    BY <1>0 DEF ServiceInv, IInv, Holds
  <1>2. Minds(w, row) /\ row.status = "SUCCESS" /\ row.output = output[w] /\ row.key = job[w].key
    BY <1>0, <1>1 DEF Minds, RowOf
  <1>3. PICK label : label = IF Follow(row) = {} THEN "succeed" ELSE "enqueue"
    OBVIOUS
  <1>4. pc' = [pc EXCEPT ![w] = label] /\ todo' = [todo EXCEPT ![w] = Follow(row)]
    BY <1>0, <1>2, <1>3 DEF BumpDepth, Goto, Follow
  <1>5. UNCHANGED <<job, queueVars, results, execStatus, trigVars>>
    BY DEF BumpDepth
  <1>6. /\ pc'[w] = label /\ todo'[w] = Follow(row) /\ Follow(row)' = Follow(row)
        /\ \A v \in Worker \ {w} : todo'[v] = todo[v]
    BY <1>0, <1>4, LastingFacts DEF TypeOK
  <1>7. Minds(w, row)'
    BY <1>2, <1>3, <1>5, <1>6 DEF Minds, AttemptOf
  <1>8. Follow(row) # {} => Enqueues(w, row)'
    BY <1>3, <1>6, <1>7 DEF Enqueues, Reached
  <1>9. Served(row)'
    BY <1>2, <1>3, <1>6, <1>7, <1>8 DEF Served, Serves, WillRetry
  <1>10. \A r \in results : Serves(w, r) => Over(r.exec)' \/ Served(r)'
    BY <1>2, <1>9, MindsOneRow DEF Serves
  <1>11. Adds
    BY <1>5 DEF Adds, queueVars
  <1>12. QED
    BY <1>0, <1>3, <1>4, <1>5, <1>6, <1>10, <1>11, ServingGoesOn DEF queueVars

\* A final status ends what its rows ask for.
LEMMA Ends ==
  ASSUME ServiceInv, Carry, Grows, UNCHANGED reqVars, NEW w \in Worker, Succeed(w) \/ Abort(w)
  PROVE  Carry'
  <1>0. TypeOK /\ pc[w] # "idle" /\ job[w] \in JobId /\ job[w].exec \in Exec
    BY DEF ServiceInv, IInv, Typed, Holds, Succeed, Abort, JobId
  <1>1. PICK status \in {"SUCCESS", "FAILED"} : SetStatus(job[w].exec, status)
    BY DEF Succeed, Abort
  <1>2. /\ pc' = [pc EXCEPT ![w] = "ack"]
        /\ UNCHANGED <<job, todo, queueVars, results, trigVars>>
    BY DEF Succeed, Abort, Goto, localVars
  <1>3. /\ Over(job[w].exec)'
        /\ \A e \in Exec : execStatus'[e] = "RUNNING" => execStatus[e] = "RUNNING"
    BY <1>0, <1>1, <1>2 DEF SetStatus, Over, TypeOK
  <1>4. \A r \in results : Serves(w, r) => Over(r.exec)'
    BY <1>2, <1>3 DEF Serves, Minds, Over
  <1>5. Settled(job[w])'
    BY <1>3 DEF Settled
  <1>6. Adds
    BY <1>2 DEF Adds, queueVars
  <1>7. QED
    BY <1>0, <1>2, <1>3, <1>4, <1>5, <1>6, ServingGoesOn DEF queueVars

LEMMA EnqueuesOne ==
  ASSUME ServiceInv, Carry, Grows, UNCHANGED reqVars, NEW w \in Worker, EnqueueNext(w)
  PROVE  Carry'
  <1>0. TypeOK /\ pc[w] = "enqueue" /\ job[w] \in JobId
    BY DEF ServiceInv, IInv, Typed, Holds, EnqueueNext
  <1>1. PICK edge \in todo[w], now \in MaxAttempts + 1 .. MaxClock :
          /\ AddJob([exec |-> job[w].exec, key |-> edge.target, stamp |-> now])
          /\ todo' = [todo EXCEPT ![w] = Remaining(w, edge)]
          /\ pc' = [pc EXCEPT ![w] = IF Remaining(w, edge) = {} THEN "ack" ELSE "enqueue"]
    BY DEF EnqueueNext, Goto
  <1>2. PICK j : j = [exec |-> job[w].exec, key |-> edge.target, stamp |-> now]
    OBVIOUS
  <1>3. j \in JobId /\ j.exec = job[w].exec /\ j.key = edge.target
    BY <1>0, <1>2, RunnerAssumption DEF JobId, TypeOK, Edge
  <1>4. Adds /\ jobState'[j] # "absent"
    BY <1>0, <1>1, <1>2, <1>3, AddJobAdds
  <1>5. PICK label : label = IF Remaining(w, edge) = {} THEN "ack" ELSE "enqueue"
    OBVIOUS
  <1>6. /\ pc' = [pc EXCEPT ![w] = label] /\ pc'[w] = label
        /\ todo'[w] = todo[w] \ {edge} /\ \A v \in Worker \ {w} : todo'[v] = todo[v]
    BY <1>0, <1>1, <1>5 DEF TypeOK, Remaining
  <1>7. UNCHANGED <<job, owner, results, execStatus, trigVars>>
    BY DEF EnqueueNext, execVars
  <1>8. Settled(job[w])'
    <2>1. CASE ~caught[w]
      <3>1. RowOf(w, "SUCCESS", output[w]) \in results
        BY <1>0, <2>1 DEF ServiceInv, IInv, Holds
      <3>2. RowExists(job[w].exec, job[w].key, AttemptOf(job[w]))
        BY <3>1 DEF RowExists, RowOf
      <3>3. QED
        BY <1>7, <3>2 DEF Settled, RowExists, AttemptOf
    <2>2. CASE caught[w]
      <3>1. PICK r \in results : r.exec = job[w].exec /\ r.key = job[w].key /\ r.attempt = MaxAttempts
        BY <1>0, <2>2 DEF ServiceInv, IInv, Holds, Exhausted
      <3>2. \A a \in 1 .. MaxAttempts - 1 : FailedAt(r.exec, r.key, a)
        BY <3>1 DEF ServiceInv, IInv, Store, RowsCaused
      <3>3. AttemptOf(job[w]) \in 1 .. MaxAttempts
        BY <1>0, AttemptType
      <3>4. RowExists(job[w].exec, job[w].key, AttemptOf(job[w]))
        BY <3>1, <3>2, <3>3, RunnerAssumption DEF RowExists, FailedAt
      <3>5. QED
        BY <1>7, <3>4 DEF Settled, RowExists, AttemptOf
    <2>3. QED
      BY <2>1, <2>2
  <1>9. ASSUME NEW r \in results, Serves(w, r) PROVE Served(r)'
    <2>1. Enqueues(w, r) /\ ~WillRetry(r)
      BY <1>0, <1>9 DEF Serves
    <2>2. /\ Minds(w, r) /\ edge \in Follow(r) /\ todo[w] \subseteq Follow(r)
          /\ Reached(r, Follow(r) \ todo[w]) /\ Follow(r)' = Follow(r)
      BY <2>1, LastingFacts DEF Enqueues
    <2>3. Enqueued(r.exec, edge.target)'
      BY <1>3, <1>4, <2>2 DEF Enqueued, Minds
    <2>4. CASE todo[w] \ {edge} = {}
      <3>1. \A x \in Follow(r) : Enqueued(r.exec, x.target)'
        BY <2>2, <2>3, <2>4, LastingFacts DEF Reached
      <3>2. Reached(r, Follow(r))'
        BY <2>2, <3>1 DEF Reached
      <3>3. QED
        BY <2>1, <2>2, <3>2 DEF Served, WillRetry
    <2>5. CASE todo[w] \ {edge} # {}
      <3>1. Minds(w, r)' /\ pc'[w] = "enqueue"
        BY <1>1, <1>5, <1>6, <1>7, <2>2, <2>5 DEF Minds, AttemptOf, Remaining
      <3>2. \A x \in (Follow(r) \ todo[w])' : Enqueued(r.exec, x.target)'
        BY <1>6, <2>2, <2>3, LastingFacts DEF Reached
      <3>3. Reached(r, Follow(r) \ todo[w])'
        BY <3>2 DEF Reached
      <3>4. Enqueues(w, r)'
        BY <1>6, <2>2, <2>5, <3>1, <3>3 DEF Enqueues
      <3>5. QED
        BY <2>1, <3>1, <3>4 DEF Served, Serves, WillRetry
    <2>6. QED
      BY <2>4, <2>5
  <1>10. QED
    BY <1>0, <1>4, <1>5, <1>6, <1>7, <1>8, <1>9, ServingGoesOn

LEMMA Retries ==
  ASSUME ServiceInv, Carry, Grows, UNCHANGED reqVars, NEW w \in Worker, RetryStep(w)
  PROVE  Carry'
  <1>0. /\ TypeOK /\ pc[w] = "retry" /\ job[w] \in JobId /\ AttemptOf(job[w]) < MaxAttempts
        /\ FailedAt(job[w].exec, job[w].key, AttemptOf(job[w]))
    BY DEF ServiceInv, IInv, Typed, HandlersAreBound, Holds, RetryStep
  <1>1. PICK j : j = RetryOf(job[w])
    OBVIOUS
  <1>2. /\ j = [exec |-> job[w].exec, key |-> job[w].key, stamp |-> AttemptOf(job[w]) + 1]
        /\ j \in JobId
    BY <1>0, <1>1, AttemptType, RunnerAssumption DEF JobId, RetryOf
  <1>3. AddJob(j)
    BY <1>1 DEF RetryStep
  <1>4. Adds /\ jobState'[j] # "absent"
    BY <1>0, <1>2, <1>3, AddJobAdds
  <1>5. /\ pc' = [pc EXCEPT ![w] = "ack"]
        /\ UNCHANGED <<job, todo, owner, results, execStatus, trigVars>>
    BY DEF RetryStep, Goto, localVars, execVars
  <1>6. Settled(job[w])'
    BY <1>0, <1>5 DEF Settled, RowExists, FailedAt, AttemptOf
  <1>7. ASSUME NEW r \in results, Serves(w, r) PROVE Served(r)'
    <2>1. WillRetry(r) /\ NextJob(r) = j
      BY <1>0, <1>2, <1>7 DEF Serves, Enqueues, Minds, NextJob
    <2>2. QED
      BY <1>4, <2>1 DEF Served, WillRetry
  <1>8. QED
    BY <1>0, <1>4, <1>5, <1>6, <1>7, ServingGoesOn

\* A slot takes a job, or ends one and is idle.
LEMMA TakesOrEnds ==
  ASSUME ServiceInv, Carry, Grows, UNCHANGED reqVars, NEW w \in Worker,
         Ack(w) \/ Nack(w) \/ \E j \in JobId : TakeJob(w, j)
  PROVE  Carry'
  <1>0. /\ TypeOK /\ \A v \in Worker : pc[v] # "idle" => job[v] \in JobId
        /\ Locked /\ JobsSettle
    BY DEF ServiceInv, IInv, Typed, Holds, Carry
  <1>1. /\ UNCHANGED <<results, execStatus, trigVars, reqVars>>
        /\ \A v \in Worker \ {w} : Rests(v)
        /\ pc[w] \notin Serving
    BY <1>0 DEF Ack, Nack, TakeJob, Release, Goto, execVars, Serving, Rests, TypeOK
  <1>2. RowsServed'
    BY <1>0, <1>1, RowsStay DEF Carry
  <1>3. RunsBegin'
    BY <1>1, RunsRest DEF Carry
  <1>4. ASSUME Ack(w) \/ Nack(w) PROVE Locked' /\ JobsSettle'
    <2>1. PICK j \in JobId : j = job[w] /\ pc[w] \in {"ack", "nack"}
      BY <1>0, <1>4 DEF Ack, Nack
    <2>2. jobState[j] = "active" /\ owner[j] = w /\ Settled(j)
      BY <1>0, <2>1 DEF Locked, JobsSettle
    <2>3. /\ pc'[w] = "idle" /\ owner' = [owner EXCEPT ![j] = NoWorker]
          /\ \E state \in {"completed", "wait", "failed"} : jobState' = [jobState EXCEPT ![j] = state]
      BY <1>0, <1>4, <2>1, <2>2 DEF Ack, Nack, Release, TypeOK
    <2>4. \A v \in Worker \ {w} : pc[v] # "idle" => job[v] # j
      BY <1>0, <2>2 DEF Locked
    <2>5. Locked'
      BY <1>0, <1>1, <2>1, <2>3, <2>4 DEF Locked, Rests, TypeOK
    <2>6. JobsSettle'
      <3>1. \A i \in JobId : jobState'[i] \in {"completed", "failed"} => Settled(i)
        BY <1>0, <2>2, <2>3 DEF JobsSettle, TypeOK
      <3>2. ASSUME NEW v \in Worker, pc'[v] \in {"ack", "nack"} PROVE Settled(job[v])'
        <4>1. v # w /\ Rests(v) /\ pc[v] = pc'[v] /\ job[v] \in JobId
          BY <1>0, <1>1, <2>3, <3>2 DEF Rests
        <4>2. PICK i \in JobId : i = job[v] /\ Settled(i)
          BY <1>0, <3>2, <4>1 DEF JobsSettle
        <4>3. Settled(i)' /\ job'[v] = i
          BY <4>1, <4>2, LastingFacts DEF Rests
        <4>4. QED
          BY <4>3
      <3>3. QED
        BY <3>1, <3>2, LastingFacts DEF JobsSettle
    <2>7. QED
      BY <2>5, <2>6
  <1>5. ASSUME NEW j \in JobId, TakeJob(w, j) PROVE Locked' /\ JobsSettle'
    <2>1. /\ jobState[j] = "wait" /\ jobState' = [jobState EXCEPT ![j] = "active"]
          /\ pc'[w] = "readExecution" /\ job'[w] = j /\ owner' = [owner EXCEPT ![j] = w]
      BY <1>0, <1>5 DEF TakeJob, Goto, TypeOK
    <2>2. \A v \in Worker : pc[v] # "idle" => job[v] # j
      BY <1>0, <2>1 DEF Locked
    <2>3. pc[w] = "idle"
      BY <1>5 DEF TakeJob
    <2>4. Locked'
      BY <1>0, <1>1, <2>1, <2>2, <2>3 DEF Locked, Rests, TypeOK
    <2>5. JobsSettle'
      <3>1. \A i \in JobId : jobState'[i] \in {"completed", "failed"} => Settled(i)
        BY <1>0, <2>1 DEF JobsSettle, TypeOK
      <3>2. ASSUME NEW v \in Worker, pc'[v] \in {"ack", "nack"} PROVE Settled(job[v])'
        <4>1. v # w /\ Rests(v) /\ pc[v] = pc'[v] /\ job[v] \in JobId
          BY <1>0, <1>1, <2>1, <3>2 DEF Rests
        <4>2. PICK i \in JobId : i = job[v] /\ Settled(i)
          BY <1>0, <3>2, <4>1 DEF JobsSettle
        <4>3. Settled(i)' /\ job'[v] = i
          BY <4>1, <4>2, LastingFacts DEF Rests
        <4>4. QED
          BY <4>3
      <3>3. QED
        BY <3>1, <3>2, LastingFacts DEF JobsSettle
    <2>6. QED
      BY <2>4, <2>5
  <1>6. QED
    BY <1>2, <1>3, <1>4, <1>5 DEF Carry

\* No handler moves: a request, a trigger job or an operator does.
LEMMA HandlersRest ==
  ASSUME ServiceInv, Carry, Grows, UNCHANGED <<pc, job, todo, owner, results>>, Adds, RunsBegin'
  PROVE  Carry'
  <1>1. RowsServed'
    BY RowsStay DEF ServiceInv, IInv, Typed, Carry, Rests
  <1>2. Locked' /\ JobsSettle'
    BY QueueStays DEF Carry
  <1>3. QED
    BY <1>1, <1>2 DEF Carry

\* The first job of an execution takes over from whoever created it.
LEMMA FirstJobBegins ==
  ASSUME TypeOK, Grows, NEW e \in Exec, NEW j \in JobId, AddJob(j), j.exec = e,
         j.key = Canvases[canvas].trigger
  PROVE  RunBegins(e)'
  <1>1. jobState'[j] # "absent"
    BY AddJobAdds
  <1>2. QED
    BY <1>1 DEF RunBegins, Enqueued, Grows

LEMMA TriggersCarry ==
  ASSUME ServiceInv, ServiceInv', Carry, Grows, UNCHANGED reqVars, RootedDag(Canvases[canvas]),
         NEW t \in TriggerJob, TriggerFires(t) \/ TriggerStep(t)
  PROVE  Carry'
  <1>0. TypeOK /\ HandlersAreBound /\ RunsBegin
    BY DEF ServiceInv, IInv, Typed, Carry
  <1>1. UNCHANGED <<pc, job, todo, owner, results>>
    BY DEF TriggerFires, TriggerStep, ReadPublished, CreateExecution, DispatchTrigger,
       localVars, queueVars, execVars
  <1>2. ASSUME TriggerFires(t) \/ ReadPublished(t) PROVE Adds /\ RunsBegin'
    <2>1. /\ UNCHANGED <<execStatus, jobState, trigExec>>
          /\ \A s \in TriggerJob : trigState[s] = "dispatch" => trigState'[s] = "dispatch"
      BY <1>0, <1>2 DEF TriggerFires, ReadPublished, queueVars, execVars, TypeOK
    <2>2. QED
      BY <1>0, <2>1, RunsStay DEF Adds, reqVars
  <1>3. ASSUME NEW e \in Exec, CreateExecution(t, e) PROVE Adds /\ RunsBegin'
    <2>1. /\ jobState' = jobState
          /\ trigExec' = [trigExec EXCEPT ![t] = e] /\ trigState' = [trigState EXCEPT ![t] = "dispatch"]
          /\ execStatus' = [execStatus EXCEPT ![e] = "RUNNING"] /\ trigState[t] = "create"
      BY <1>3 DEF CreateExecution, queueVars, SetStatus
    <2>2. trigState'[t] = "dispatch" /\ trigExec'[t] = e
      BY <1>0, <2>1 DEF TypeOK
    <2>3. \A x \in Exec : execStatus'[x] = "RUNNING" => execStatus[x] = "RUNNING" \/ RunBegins(x)'
      BY <1>0, <2>1, <2>2 DEF TypeOK, RunBegins
    <2>4. \A s \in TriggerJob : trigState[s] = "dispatch" =>
            trigState'[s] = "dispatch" /\ trigExec'[s] = trigExec[s]
      BY <1>0, <2>1 DEF TypeOK
    <2>5. QED
      BY <1>0, <2>1, <2>3, <2>4, RunsStay DEF Adds, reqVars
  <1>4. ASSUME DispatchTrigger(t) PROVE Adds /\ RunsBegin'
    <2>1. /\ trigState[t] = "dispatch" /\ trigExec[t] \in Exec /\ trigCanvas[t] = canvas
          /\ Canvases[canvas].trigger \in Key
      <3>1. IsCanvas(Canvases[canvas]) /\ Canvases[canvas].trigger # NoKey
        BY <1>0, RunnerAssumption DEF TypeOK, RootedDag
      <3>2. QED
        BY <1>0, <1>4, <3>1 DEF DispatchTrigger, HandlersAreBound, ServiceInv, IInv, TriggerHolds, IsCanvas
    <2>2. PICK j : j = [exec |-> trigExec[t], key |-> Canvases[canvas].trigger, stamp |-> 1]
      OBVIOUS
    <2>3. /\ j \in JobId /\ j.exec = trigExec[t] /\ j.key = Canvases[canvas].trigger
      BY <2>1, <2>2, RunnerAssumption DEF JobId
    <2>4. AddJob(j) /\ UNCHANGED <<execStatus, trigExec>>
          /\ \A s \in TriggerJob \ {t} : trigState'[s] = trigState[s]
      BY <1>0, <1>4, <2>1, <2>2, KeyAssumption DEF DispatchTrigger, TypeOK
    <2>5. Adds
      BY <1>0, <2>3, <2>4, AddJobAdds
    <2>6. \A e \in Exec : trigExec[t] = e => RunBegins(e)'
      BY <1>0, <2>3, <2>4, FirstJobBegins
    <2>7. RunsBegin'
      BY <1>0, <2>4, <2>6, RunsStay DEF reqVars
    <2>8. QED
      BY <2>5, <2>7
  <1>5. QED
    BY <1>1, <1>2, <1>3, <1>4, HandlersRest DEF TriggerStep

LEMMA RequestsCarry ==
  ASSUME ServiceInv, ServiceInv', Carry, Grows, RootedDag(Canvases[canvas]),
         NEW q \in Request, RequestStep(q)
  PROVE  Carry'
  <1>0. TypeOK /\ RequestsTyped /\ RunsBegin
    BY DEF ServiceInv, IInv, Typed, Carry
  <1>1. UNCHANGED <<pc, job, todo, owner, results>>
    BY DEF RequestStep, RunNow, RunNowCreates, RunNowDispatches, vars, localVars, queueVars, execVars
  <1>2. ASSUME RunNow(q) PROVE Adds /\ RunsBegin'
    <2>1. /\ UNCHANGED <<execStatus, jobState, trigExec, trigState, reqExec>>
          /\ \A p \in Request : reqState[p] = "dispatch" => reqState'[p] = "dispatch"
      BY <1>0, <1>2 DEF RunNow, vars, queueVars, execVars, trigVars, RequestsTyped
    <2>2. QED
      BY <1>0, <2>1, RunsStay DEF Adds
  <1>3. ASSUME NEW e \in Exec, RunNowCreates(q, e) PROVE Adds /\ RunsBegin'
    <2>1. /\ UNCHANGED <<jobState, trigState, trigExec>>
          /\ reqExec' = [reqExec EXCEPT ![q] = e] /\ reqState' = [reqState EXCEPT ![q] = "dispatch"]
          /\ execStatus' = [execStatus EXCEPT ![e] = "RUNNING"] /\ reqState[q] = "create"
      BY <1>3 DEF RunNowCreates, queueVars, trigVars, SetStatus
    <2>2. reqState'[q] = "dispatch" /\ reqExec'[q] = e
      BY <1>0, <2>1 DEF RequestsTyped
    <2>3. \A x \in Exec : execStatus'[x] = "RUNNING" => execStatus[x] = "RUNNING" \/ RunBegins(x)'
      BY <1>0, <2>1, <2>2 DEF TypeOK, RunBegins
    <2>4. \A p \in Request : reqState[p] = "dispatch" =>
            reqState'[p] = "dispatch" /\ reqExec'[p] = reqExec[p]
      BY <1>0, <2>1 DEF RequestsTyped
    <2>5. QED
      BY <1>0, <2>1, <2>3, <2>4, RunsStay DEF Adds
  <1>4. ASSUME RunNowDispatches(q) PROVE Adds /\ RunsBegin'
    <2>1. /\ reqState[q] = "dispatch" /\ reqExec[q] \in Exec /\ reqCanvas[q] = canvas
          /\ Canvases[canvas].trigger # NoKey
      BY <1>0, <1>4 DEF RunNowDispatches, RequestsTyped, ServiceInv, RequestHolds, RootedDag
    <2>2. FirstJob(q) \in JobId
      BY <1>0, <2>1, FirstJobType
    <2>3. PICK j \in JobId : j = FirstJob(q)
      BY <2>2
    <2>4. j.exec = reqExec[q] /\ j.key = Canvases[canvas].trigger
      BY <2>1, <2>3 DEF FirstJob
    <2>5. /\ AddJob(j) /\ UNCHANGED <<execStatus, trigState, trigExec, reqExec>>
          /\ \A p \in Request \ {q} : reqState'[p] = reqState[p]
      BY <1>0, <1>4, <2>1, <2>3 DEF RunNowDispatches, FirstJob, RequestsTyped, execVars
    <2>6. Adds
      BY <1>0, <2>5, AddJobAdds
    <2>7. \A e \in Exec : reqExec[q] = e => RunBegins(e)'
      BY <1>0, <2>4, <2>5, FirstJobBegins
    <2>8. RunsBegin'
      BY <1>0, <2>5, <2>7, RunsStay
    <2>9. QED
      BY <2>6, <2>8
  <1>5. QED
    BY <1>1, <1>2, <1>3, <1>4, HandlersRest DEF RequestStep

\* Only a fault makes a job stall while no other fault has happened.
LEMMA NothingStalls ==
  ASSUME ServiceInv, Carry, NEW j \in JobId, RecoverStalled(j)
  PROVE  FALSE
  <1>1. PICK w \in Worker : pc[w] # "idle" /\ job[w] = j
    BY DEF RecoverStalled, PutBack, Carry, Locked
  <1>2. owner[j] = w
    BY <1>1 DEF Carry, Locked
  <1>3. QED
    BY <1>1, <1>2 DEF RecoverStalled, Handling

LEMMA CarryStep ==
  ServiceInv /\ ServiceInv' /\ CarryInv /\ RootedDag(Canvases[canvas])
    /\ [ServiceNext]_serviceVars /\ [UNCHANGED canvas]_canvas => CarryInv'
  <1> SUFFICES ASSUME ServiceInv, ServiceInv', CarryInv, RootedDag(Canvases[canvas]),
                      [ServiceNext]_serviceVars, canvas' = canvas, faults' = 0
               PROVE  Carry'
    BY DEF CarryInv, Carry
  <1>0. Grows /\ TypeOK
    BY ServiceGrows DEF ServiceInv, IInv, Typed
  <1>1. ASSUME faults' = faults PROVE Carry
    BY <1>1 DEF CarryInv, Carry
  <1>2. ASSUME faults' = faults + 1 PROVE FALSE
    BY <1>0, <1>2, RunnerAssumption DEF TypeOK
  <1>3. ASSUME NEW w \in Worker, HandlerStep(w), UNCHANGED reqVars PROVE Carry'
    <2>1. Carry
      BY <1>1, <1>3 DEF HandlerStep, ReadExecution, ReadWorkflow, ReadQuota, Charge, Execute, RecordSuccess,
         BumpDepth, Succeed, EnqueueNext, RecordFailure, RetryStep, Abort, Ack, Nack
    <2>2. CASE ReadExecution(w) \/ ReadWorkflow(w) \/ ReadQuota(w) \/ Charge(w) \/ Execute(w)
      BY <1>0, <1>3, <2>1, <2>2, BeforeTheResult DEF Carry
    <2>3. QED
      BY <1>0, <1>3, <2>1, <2>2, StoresSuccess, StoresFailure, Bumps, Ends, EnqueuesOne, Retries,
         TakesOrEnds DEF HandlerStep
  <1>4. ASSUME NEW w \in Worker, NEW j \in JobId, TakeJob(w, j), UNCHANGED reqVars PROVE Carry'
    <2>1. Carry
      BY <1>1, <1>4 DEF TakeJob
    <2>2. QED
      BY <1>0, <1>4, <2>1, TakesOrEnds
  <1>5. ASSUME NEW t \in TriggerJob, TriggerFires(t) \/ TriggerStep(t), UNCHANGED reqVars PROVE Carry'
    <2>1. Carry
      BY <1>1, <1>5 DEF TriggerFires, TriggerStep, ReadPublished, CreateExecution, DispatchTrigger
    <2>2. QED
      BY <1>0, <1>5, <2>1, TriggersCarry
  <1>6. ASSUME NEW e \in Exec, CancelExecution(e), UNCHANGED reqVars PROVE Carry'
    <2>1. Carry /\ UNCHANGED <<pc, job, todo, queueVars, results, trigVars>>
      BY <1>1, <1>6 DEF CancelExecution, localVars
    <2>2. \A x \in Exec : execStatus'[x] = "RUNNING" => execStatus[x] = "RUNNING"
      BY <1>0, <1>6 DEF CancelExecution, SetStatus, TypeOK
    <2>3. RunsBegin' /\ Adds
      BY <1>0, <1>6, <2>1, <2>2, RunsRest DEF Carry, Adds, queueVars
    <2>4. QED
      BY <1>0, <2>1, <2>3, HandlersRest DEF queueVars
  <1>7. ASSUME NEW q \in Request, RequestStep(q) PROVE Carry'
    <2>1. Carry
      BY <1>1, <1>7 DEF RequestStep, RunNow, RunNowCreates, RunNowDispatches, vars
    <2>2. QED
      BY <1>0, <1>7, <2>1, RequestsCarry
  <1>8. ASSUME (\E status : ChangeStatus(status)) \/ UNCHANGED serviceVars PROVE Carry'
    <2>1. UNCHANGED <<pc, job, todo, queueVars, results, execStatus, trigVars, reqVars, faults>>
      BY <1>8 DEF ChangeStatus, serviceVars, vars, execVars, localVars
    <2>2. RunsBegin' /\ Adds
      BY <1>0, <1>1, <2>1, RunsRest DEF Carry, Adds, queueVars
    <2>3. QED
      BY <1>0, <1>1, <2>1, <2>2, HandlersRest DEF queueVars
  <1>9. ASSUME \/ \E w \in Worker : InfraError(w) \/ Crash(w)
               \/ \E t \in TriggerJob : TriggerLost(t)
               \/ \E j \in JobId : LoseLock(j)
               \/ \E q \in Request : RequestLost(q)
        PROVE  FALSE
    BY <1>2, <1>9 DEF InfraError, Crash, TriggerLost, LoseLock, RequestLost
  <1>10. ASSUME NEW j \in JobId, RecoverStalled(j) PROVE FALSE
    BY <1>1, <1>10, NothingStalls DEF RecoverStalled
  <1>11. ASSUME NEW c \in DOMAIN Canvases, ReplaceCanvas(c) PROVE FALSE
    BY <1>0, <1>11, RunnerAssumption DEF ReplaceCanvas, TypeOK
  <1>12. QED
    BY <1>3, <1>4, <1>5, <1>6, <1>7, <1>8, <1>9, <1>10, <1>11 DEF ServiceNext, RunnerNext

LEMMA CarryStart == ServiceInit => CarryInv
  <1> SUFFICES ASSUME ServiceInit PROVE CarryInv
    OBVIOUS
  <1>1. Locked /\ JobsSettle
    BY DEF ServiceInit, Init, Locked, JobsSettle
  <1>2. RowsServed /\ RunsBegin
    BY DEF ServiceInit, Init, RowsServed, RunsBegin
  <1>3. QED
    BY <1>1, <1>2 DEF CarryInv

\* As long as nothing fails and no edit replaces the canvas, an execution of
\* a rooted acyclic canvas that is RUNNING has somebody to move it on: its
\* request or trigger job, or a job in the queue.  Acyclicity is what makes
\* joins harmless: a branch that finds the row of a join already written
\* leaves its part to the job that wrote it, and around a cycle all could.
THEOREM NoOrphansUnedited ==
  ASSUME \A c \in DOMAIN Canvases : RootedDag(Canvases[c])
  PROVE  ServiceSpec /\ Unedited => []NoOrphans
  <1>1. ServiceInv => RootedDag(Canvases[canvas])
    BY DEF ServiceInv, IInv, Typed, TypeOK
  <1>2. ServiceInv /\ CarryInv => NoOrphans
    BY <1>1, NothingOrphaned
  <1>3. ServiceInv /\ ServiceInv' /\ CarryInv /\ [ServiceNext]_serviceVars /\ [UNCHANGED canvas]_canvas
          => CarryInv'
    BY <1>1, CarryStep
  <1>4. QED
    BY <1>2, <1>3, CarryStart, ServiceInvariance, PTL DEF ServiceSpec, Unedited


-----------------------------------------------------------------------------
(***************************************************************************)
(* What an orphan becomes, with edits and faults: nothing resumes it.      *)
(***************************************************************************)

\* No handler, of the execution or the trigger queue, works on the execution and
\* no job of it is left; a handler that lost its lock works without its job.
Unserved(e) ==
  /\ \A w \in Worker : pc[w] # "idle" => job[w].exec # e
  /\ \A t \in TriggerJob : trigState[t] = "dispatch" => trigExec[t] # e
  /\ \A j \in JobId : j.exec = e => jobState[j] \notin {"wait", "active"}

Orphaned(e) == execStatus[e] = "RUNNING" /\ ~Carried(e) /\ Unserved(e)

StatusKept(e) == execStatus'[e] \in {execStatus[e], "CANCELLED"}

Begins(e) == execStatus[e] = "NONE" /\ execStatus'[e] = "RUNNING"

LEMMA StaysUnserved ==
  ASSUME NEW e \in Exec, Unserved(e),
         \A w \in Worker : pc'[w] # "idle" =>
           (pc[w] # "idle" /\ job'[w] = job[w]) \/ job'[w].exec # e,
         \A t \in TriggerJob : trigState'[t] = "dispatch" =>
           (trigState[t] = "dispatch" /\ trigExec'[t] = trigExec[t]) \/ trigExec'[t] # e,
         \A j \in JobId : j.exec = e =>
           jobState'[j] = jobState[j] \/ jobState'[j] \notin {"wait", "active"}
  PROVE  Unserved(e)'
  BY DEF Unserved

\* A step of a handler concerns the execution of its job.
LEMMA HandlersPass ==
  ASSUME Typed, NEW e \in Exec, Unserved(e),
         NEW w \in Worker, HandlerStep(w) \/ InfraError(w) \/ Crash(w)
  PROVE  Unserved(e)' /\ StatusKept(e)
  <1>1. pc[w] # "idle" /\ job[w] \in JobId /\ job[w].exec # e
    BY DEF Unserved, Typed, HandlersAreBound, HandlerStep, ReadExecution, ReadWorkflow, ReadQuota, Charge,
       Execute, RecordSuccess, BumpDepth, Succeed, EnqueueNext, RecordFailure, RetryStep, Abort, Ack, Nack,
       InfraError, Crash
  <1>2. trigState' = trigState /\ trigExec' = trigExec
    BY DEF HandlerStep, ReadExecution, ReadWorkflow, ReadQuota, Charge,
       Execute, RecordSuccess, BumpDepth, Succeed, EnqueueNext, RecordFailure, RetryStep, Abort, Ack, Nack,
       InfraError, Crash, trigVars
  <1>3. \A v \in Worker : pc'[v] # "idle" => pc[v] # "idle" /\ job'[v] = job[v]
    <2>1. CASE Ack(w) \/ Nack(w) \/ Crash(w)
      <3>1. Release(w)
        BY <2>1 DEF Ack, Nack, Crash
      <3>2. QED
        BY <3>1 DEF Release, Typed, TypeOK
    <2>2. CASE (HandlerStep(w) /\ ~Ack(w) /\ ~Nack(w)) \/ InfraError(w)
      <3>1. job' = job /\ \E label : Goto(w, label)
        BY <2>2 DEF HandlerStep, ReadExecution, ReadWorkflow, ReadQuota, Charge, Execute, RecordSuccess,
           BumpDepth, Succeed, EnqueueNext, RecordFailure, RetryStep, Abort, InfraError, localVars
      <3>2. QED
        BY <1>1, <3>1 DEF Goto, Typed, TypeOK
    <2>3. QED
      BY <2>1, <2>2
  <1>4. \A j \in JobId : j.exec = e => jobState'[j] = jobState[j]
    <2>1. CASE Ack(w) \/ Nack(w)
      <3>1. \/ jobState' = jobState
            \/ \E state : jobState' = [jobState EXCEPT ![job[w]] = state]
        BY <2>1 DEF Ack, Nack
      <3>2. QED
        BY <1>1, <3>1 DEF Typed, TypeOK
    <2>2. CASE EnqueueNext(w)
      <3>1. PICK edge, now : AddJob([exec |-> job[w].exec, key |-> edge.target, stamp |-> now])
        BY <2>2 DEF EnqueueNext
      <3>2. QED
        BY <1>1, <3>1 DEF AddJob, Typed, TypeOK
    <2>3. CASE RetryStep(w)
      <3>1. AddJob(RetryOf(job[w])) /\ RetryOf(job[w]).exec = job[w].exec
        BY <1>1, <2>3 DEF RetryStep, RetryOf, JobId
      <3>2. QED
        BY <1>1, <3>1 DEF AddJob, Typed, TypeOK
    <2>4. CASE ~Ack(w) /\ ~Nack(w) /\ ~EnqueueNext(w) /\ ~RetryStep(w)
      BY <2>4 DEF HandlerStep, ReadExecution, ReadWorkflow, ReadQuota, Charge, Execute, RecordSuccess,
         BumpDepth, Succeed, RecordFailure, Abort, InfraError, Crash, queueVars
    <2>5. QED
      BY <2>1, <2>2, <2>3, <2>4
  <1>5. StatusKept(e)
    <2>1. CASE Succeed(w) \/ Abort(w)
      BY <1>1, <2>1 DEF Succeed, Abort, SetStatus, StatusKept, Typed, TypeOK
    <2>2. CASE ~Succeed(w) /\ ~Abort(w)
      BY <2>2 DEF HandlerStep, ReadExecution, ReadWorkflow, ReadQuota, Charge, Execute, RecordSuccess,
         BumpDepth, EnqueueNext, RecordFailure, RetryStep, Ack, Nack, InfraError, Crash, execVars, StatusKept
    <2>3. QED
      BY <2>1, <2>2
  <1>6. QED
    BY <1>2, <1>3, <1>4, <1>5, StaysUnserved

\* Nothing moves an execution nobody serves, unless a trigger handler has just
\* created it or its request still has a trigger step to enqueue.
LEMMA Unserves ==
  ASSUME Typed, RequestsTyped, [ServiceNext]_serviceVars, NEW e \in Exec, Unserved(e),
         \A q \in Request : reqState[q] = "dispatch" /\ reqExec[q] = e =>
           Canvases[reqCanvas[q]].trigger = NoKey
  PROVE  \/ Begins(e) /\ UNCHANGED reqVars
         \/ Unserved(e)' /\ (StatusKept(e) \/ Begins(e))
  <1> DEFINE Kept == Unserved(e)' /\ (StatusKept(e) \/ Begins(e))
  <1>1. ASSUME NEW w \in Worker, HandlerStep(w) \/ InfraError(w) \/ Crash(w) PROVE Kept
    BY <1>1, HandlersPass
  <1>2. ASSUME NEW w \in Worker, NEW j \in JobId, TakeJob(w, j) PROVE Kept
    <2>1. jobState[j] = "wait" /\ j.exec # e
      BY <1>2 DEF TakeJob, Unserved
    <2>2. \A v \in Worker : pc'[v] # "idle" =>
            (pc[v] # "idle" /\ job'[v] = job[v]) \/ job'[v].exec # e
      BY <1>2, <2>1 DEF TakeJob, Goto, Typed, TypeOK
    <2>3. \A i \in JobId : i.exec = e => jobState'[i] = jobState[i]
      BY <1>2, <2>1 DEF TakeJob, Typed, TypeOK
    <2>4. trigState' = trigState /\ trigExec' = trigExec /\ execStatus' = execStatus
      BY <1>2 DEF TakeJob, trigVars, execVars
    <2>5. QED
      BY <2>2, <2>3, <2>4, StaysUnserved DEF StatusKept
  <1>3. ASSUME NEW j \in JobId, RecoverStalled(j) \/ LoseLock(j) PROVE Kept
    <2>1. PutBack(j) /\ jobState[j] = "active" /\ j.exec # e
      BY <1>3 DEF RecoverStalled, LoseLock, PutBack, Unserved
    <2>2. \A i \in JobId : i.exec = e => jobState'[i] = jobState[i]
      BY <2>1 DEF PutBack, Typed, TypeOK
    <2>3. UNCHANGED <<trigState, trigExec, execStatus, pc, job>>
      BY <2>1 DEF PutBack, trigVars, execVars, localVars
    <2>4. QED
      BY <2>2, <2>3, StaysUnserved DEF StatusKept
  <1>4. ASSUME NEW x \in Exec, CancelExecution(x) PROVE Kept
    <2>1. UNCHANGED <<trigState, trigExec, jobState, pc, job>>
      BY <1>4 DEF CancelExecution, trigVars, queueVars, localVars
    <2>2. StatusKept(e)
      BY <1>4 DEF CancelExecution, SetStatus, StatusKept, Typed, TypeOK
    <2>3. QED
      BY <2>1, <2>2, StaysUnserved
  <1>5. ASSUME NEW t \in TriggerJob, TriggerFires(t) \/ ReadPublished(t) \/ TriggerLost(t) PROVE Kept
    <2>1. UNCHANGED <<trigExec, execStatus, jobState, pc, job>>
      BY <1>5 DEF TriggerFires, ReadPublished, TriggerLost, execVars, queueVars, localVars
    <2>2. \A u \in TriggerJob : trigState'[u] = "dispatch" => trigState[u] = "dispatch"
      BY <1>5 DEF TriggerFires, ReadPublished, TriggerLost, Typed, TypeOK
    <2>3. QED
      BY <2>1, <2>2, StaysUnserved DEF StatusKept
  <1>6. ASSUME NEW t \in TriggerJob, NEW x \in Exec, CreateExecution(t, x), UNCHANGED reqVars
        PROVE  (Begins(e) /\ UNCHANGED reqVars) \/ Kept
    <2>1. CASE x = e
      BY <1>6, <2>1 DEF CreateExecution, SetStatus, Begins, Typed, TypeOK
    <2>2. CASE x # e
      <3>1. UNCHANGED <<jobState, pc, job>>
        BY <1>6 DEF CreateExecution, queueVars, localVars
      <3>2. \A u \in TriggerJob : trigState'[u] = "dispatch" =>
              (trigState[u] = "dispatch" /\ trigExec'[u] = trigExec[u]) \/ trigExec'[u] # e
        BY <1>6, <2>2 DEF CreateExecution, Typed, TypeOK
      <3>3. StatusKept(e)
        BY <1>6, <2>2 DEF CreateExecution, SetStatus, StatusKept, Typed, TypeOK
      <3>4. QED
        BY <3>1, <3>2, <3>3, StaysUnserved
    <2>3. QED
      BY <2>1, <2>2
  <1>7. ASSUME NEW t \in TriggerJob, DispatchTrigger(t) PROVE Kept
    <2>1. trigExec[t] \in Exec /\ trigExec[t] # e
      BY <1>7 DEF DispatchTrigger, Unserved, Typed, HandlersAreBound
    <2>2. UNCHANGED <<trigExec, pc, job>>
      BY <1>7 DEF DispatchTrigger, localVars
    <2>3. \A u \in TriggerJob : trigState'[u] = "dispatch" => trigState[u] = "dispatch"
      BY <1>7 DEF DispatchTrigger, Typed, TypeOK
    <2>4. \A j \in JobId : j.exec = e => jobState'[j] = jobState[j]
      <3>1. \/ jobState' = jobState
            \/ \E key : AddJob([exec |-> trigExec[t], key |-> key, stamp |-> 1])
        BY <1>7 DEF DispatchTrigger
      <3>2. ASSUME NEW key, AddJob([exec |-> trigExec[t], key |-> key, stamp |-> 1])
            PROVE  \A j \in JobId : j.exec = e => jobState'[j] = jobState[j]
        BY <2>1, <3>2 DEF AddJob, Typed, TypeOK
      <3>3. QED
        BY <3>1, <3>2
    <2>5. StatusKept(e)
      BY <1>7, <2>1 DEF DispatchTrigger, SetStatus, StatusKept, Typed, TypeOK
    <2>6. QED
      BY <2>2, <2>3, <2>4, <2>5, StaysUnserved
  <1>8. ASSUME NEW q \in Request, NEW x \in Exec, RunNowCreates(q, x) PROVE Kept
    <2>1. UNCHANGED <<trigState, trigExec, jobState, pc, job>>
      BY <1>8 DEF RunNowCreates, trigVars, queueVars, localVars
    <2>2. StatusKept(e) \/ Begins(e)
      BY <1>8 DEF RunNowCreates, SetStatus, StatusKept, Begins, Typed, TypeOK
    <2>3. QED
      BY <2>1, <2>2, StaysUnserved
  <1>9. ASSUME NEW q \in Request, RunNowDispatches(q) PROVE Kept
    <2>1. UNCHANGED <<trigExec, execStatus, pc, job>> /\ reqState[q] = "dispatch"
      BY <1>9 DEF RunNowDispatches, execVars, localVars
    <2>2. \A u \in TriggerJob : trigState'[u] = "dispatch" => trigState[u] = "dispatch"
      BY <1>9 DEF RunNowDispatches, Typed, TypeOK
    <2>3. \A j \in JobId : j.exec = e => jobState'[j] = jobState[j]
      <3>1. CASE reqExec[q] = e
        BY <1>9, <2>1, <3>1 DEF RunNowDispatches
      <3>2. CASE reqExec[q] # e
        <4>1. jobState' = jobState \/ AddJob(FirstJob(q))
          BY <1>9 DEF RunNowDispatches, FirstJob
        <4>2. QED
          BY <3>2, <4>1 DEF AddJob, FirstJob, Typed, TypeOK
      <3>3. QED
        BY <3>1, <3>2
    <2>4. QED
      BY <2>1, <2>2, <2>3, StaysUnserved DEF StatusKept
  <1>10. ASSUME UNCHANGED <<trigState, trigExec, jobState, pc, job, execStatus>> PROVE Kept
    BY <1>10, StaysUnserved DEF StatusKept
  <1>11. ASSUME NEW q \in Request, RunNow(q) \/ RequestLost(q) PROVE Kept
    BY <1>10, <1>11 DEF RunNow, RequestLost, vars, trigVars, queueVars, localVars, execVars
  <1>12. ASSUME NEW c, ReplaceCanvas(c) \/ ChangeStatus(c) PROVE Kept
    BY <1>10, <1>12 DEF ReplaceCanvas, ChangeStatus, trigVars, queueVars, localVars, execVars
  <1>13. ASSUME UNCHANGED serviceVars PROVE Kept
    BY <1>10, <1>13 DEF serviceVars, vars, trigVars, queueVars, localVars, execVars
  <1>14. QED
    BY <1>1, <1>2, <1>3, <1>4, <1>5, <1>6, <1>7, <1>8, <1>9, <1>11, <1>12, <1>13
    DEF ServiceNext, RequestStep, RunnerNext, TriggerStep

\* Who was not about to enqueue the first job of an execution that exists will
\* not come to be.
LEMMA RequestsGoOn ==
  ASSUME Typed, RequestsTyped, [ServiceNext]_serviceVars, NEW q \in Request
  PROVE  \/ /\ reqExec'[q] = reqExec[q]
            /\ reqState'[q] = "dispatch" => reqState[q] = "dispatch"
            /\ reqState'[q] = reqState[q] \/ reqState'[q] # "accepted" \/ reqState[q] = "dispatch"
            /\ reqState[q] \in {"dispatch", "accepted", "lost"}
                 => reqState'[q] \in {"dispatch", "accepted", "lost"}
            /\ reqState[q] # "absent" => reqCanvas'[q] = reqCanvas[q]
         \/ \E e \in Exec : RunNowCreates(q, e)
  <1>1. CASE UNCHANGED reqVars
    BY <1>1 DEF reqVars
  <1>2. ASSUME NEW p \in Request, RunNow(p) \/ RunNowDispatches(p) \/ RequestLost(p)
        PROVE  /\ reqExec'[q] = reqExec[q]
               /\ reqState'[q] = "dispatch" => reqState[q] = "dispatch"
               /\ reqState'[q] = reqState[q] \/ reqState'[q] # "accepted" \/ reqState[q] = "dispatch"
               /\ reqState[q] \in {"dispatch", "accepted", "lost"}
                    => reqState'[q] \in {"dispatch", "accepted", "lost"}
               /\ reqState[q] # "absent" => reqCanvas'[q] = reqCanvas[q]
    BY <1>2 DEF RunNow, RunNowDispatches, RequestLost, RequestsTyped
  <1>3. ASSUME NEW p \in Request, p # q, NEW e \in Exec, RunNowCreates(p, e)
        PROVE  reqExec'[q] = reqExec[q] /\ reqState'[q] = reqState[q] /\ reqCanvas' = reqCanvas
    BY <1>3 DEF RunNowCreates, RequestsTyped
  <1>4. ASSUME NEW c, ReplaceCanvas(c) \/ ChangeStatus(c) PROVE UNCHANGED reqVars
    BY <1>4 DEF ReplaceCanvas, ChangeStatus
  <1>5. QED
    BY <1>1, <1>2, <1>3, <1>4 DEF ServiceNext, RequestStep, serviceVars

\* An execution that is RUNNING with no request, handler or job to move it stays
\* so until an operator cancels it, whatever is retried, redelivered, restarted,
\* edited or triggered: what the crash between creating an execution and
\* enqueueing its first step leaves, no code finds again.
THEOREM OrphansStay ==
  ServiceSpec => [][\A e \in Exec : Orphaned(e) => Orphaned(e)' \/ execStatus'[e] = "CANCELLED"]_serviceVars
  <1>1. Typed /\ RequestsTyped /\ [ServiceNext]_serviceVars =>
          [\A e \in Exec : Orphaned(e) => Orphaned(e)' \/ execStatus'[e] = "CANCELLED"]_serviceVars
    <2>1. SUFFICES ASSUME Typed, RequestsTyped, [ServiceNext]_serviceVars, NEW e \in Exec, Orphaned(e)
                   PROVE  Orphaned(e)' \/ execStatus'[e] = "CANCELLED"
      OBVIOUS
    <2>2. /\ execStatus[e] = "RUNNING" /\ Unserved(e)
          /\ \A q \in Request : ~(reqState[q] = "dispatch" /\ reqExec[q] = e)
      BY <2>1 DEF Orphaned, Carried
    <2>3. Unserved(e)' /\ execStatus'[e] \in {"RUNNING", "CANCELLED"}
      BY <2>1, <2>2, Unserves DEF Begins, StatusKept
    <2>4. \A q \in Request : ~(reqState'[q] = "dispatch" /\ reqExec'[q] = e)
      <3>1. SUFFICES ASSUME NEW q \in Request, reqState'[q] = "dispatch", reqExec'[q] = e PROVE FALSE
        OBVIOUS
      <3>2. PICK x \in Exec : RunNowCreates(q, x)
        BY <2>1, <2>2, <3>1, RequestsGoOn
      <3>3. execStatus[x] = "NONE" /\ reqExec'[q] = x
        BY <2>1, <3>2 DEF RunNowCreates, RequestsTyped
      <3>4. QED
        BY <2>2, <3>1, <3>3
    <2>5. ~Carried(e)'
      BY <2>3, <2>4 DEF Carried, Unserved
    <2>6. QED
      BY <2>3, <2>5 DEF Orphaned
  <1>2. QED
    BY <1>1, ServiceTyping, PTL DEF ServiceSpec

-----------------------------------------------------------------------------
(* A run that was accepted for a workflow without a trigger step.          *)

HeadlessRun(q) == reqExec[q] \in Exec /\ Canvases[reqCanvas[q]].trigger = NoKey

\* Nobody serves an execution before it is created, and nobody but its request
\* knows of the one that a request has created.
HeadlessInv ==
  /\ \A e \in Exec : execStatus[e] = "NONE" =>
       Unserved(e) /\ \A q \in Request : reqExec[q] # e
  /\ \A q \in Request : reqState[q] = "accepted" => reqExec[q] \in Exec
  /\ \A q \in Request : reqExec[q] \in Exec => reqState[q] \in {"dispatch", "accepted", "lost"}
  /\ \A q \in Request : HeadlessRun(q) =>
       /\ Unserved(reqExec[q]) /\ execStatus[reqExec[q]] \in {"RUNNING", "CANCELLED"}
       /\ \A p \in Request : p # q => reqExec[p] # reqExec[q]

LEMMA HeadlessStart == ServiceInit => HeadlessInv
  BY RunnerAssumption DEF ServiceInit, Init, HeadlessInv, HeadlessRun, Unserved

LEMMA HeadlessStep ==
  ASSUME Typed, RequestsTyped, HeadlessInv, [ServiceNext]_serviceVars
  PROVE  HeadlessInv'
  <1>1. ASSUME NEW q \in Request, NEW e \in Exec, RunNowCreates(q, e)
        PROVE  /\ reqState[q] = "create" /\ execStatus[e] = "NONE" /\ execStatus'[e] = "RUNNING"
               /\ reqExec'[q] = e /\ reqState'[q] = "dispatch" /\ reqCanvas' = reqCanvas
               /\ \A p \in Request : p # q => reqExec'[p] = reqExec[p]
    BY <1>1 DEF RunNowCreates, SetStatus, Typed, TypeOK, RequestsTyped
  <1>2. ASSUME NEW e \in Exec, execStatus'[e] = "NONE"
        PROVE  Unserved(e)' /\ \A q \in Request : reqExec'[q] # e
    <2>1. execStatus[e] = "NONE"
      BY <1>2, StatusStays DEF Typed, HandlersAreBound
    <2>2. Unserved(e) /\ \A q \in Request : reqExec[q] # e
      BY <2>1 DEF HeadlessInv
    <2>3. Unserved(e)'
      BY <1>2, <2>2, Unserves DEF Begins
    <2>4. \A q \in Request : reqExec'[q] # e
      BY <1>1, <1>2, <2>2, RequestsGoOn
    <2>5. QED
      BY <2>3, <2>4
  <1>3. ASSUME NEW q \in Request PROVE reqState'[q] = "accepted" => reqExec'[q] \in Exec
    BY <1>1, RequestsGoOn DEF HeadlessInv, RequestsTyped
  <1>4. ASSUME NEW q \in Request
        PROVE  reqExec'[q] \in Exec => reqState'[q] \in {"dispatch", "accepted", "lost"}
    BY <1>1, RequestsGoOn DEF HeadlessInv
  <1>5. ASSUME NEW q \in Request, HeadlessRun(q)'
        PROVE  /\ Unserved(reqExec[q])' /\ execStatus'[reqExec'[q]] \in {"RUNNING", "CANCELLED"}
               /\ \A p \in Request : p # q => reqExec'[p] # reqExec'[q]
    <2>0. PICK e \in Exec : reqExec'[q] = e /\ Canvases[reqCanvas'[q]].trigger = NoKey
      BY <1>5 DEF HeadlessRun
    <2>1. CASE \E x \in Exec : RunNowCreates(q, x)
      <3>1. /\ reqState[q] = "create" /\ execStatus[e] = "NONE" /\ execStatus'[e] = "RUNNING"
            /\ \A p \in Request : p # q => reqExec'[p] = reqExec[p]
        BY <1>1, <2>0, <2>1
      <3>2. Unserved(e) /\ \A p \in Request : reqExec[p] # e
        BY <2>0, <3>1 DEF HeadlessInv
      <3>3. ~UNCHANGED reqVars
        BY <2>0, <3>2 DEF reqVars
      <3>4. Unserved(e)'
        BY <2>0, <3>2, <3>3, Unserves
      <3>5. QED
        BY <2>0, <3>1, <3>2, <3>4 DEF Unserved
    <2>2. CASE ~\E x \in Exec : RunNowCreates(q, x)
      <3>1. reqExec[q] = e /\ reqState[q] # "absent" /\ reqCanvas'[q] = reqCanvas[q]
        BY <2>0, <2>2, RequestsGoOn DEF HeadlessInv
      <3>2. HeadlessRun(q)
        BY <2>0, <3>1 DEF HeadlessRun
      <3>3. /\ Unserved(e) /\ execStatus[e] \in {"RUNNING", "CANCELLED"}
            /\ \A p \in Request : p # q => reqExec[p] # e
        BY <3>1, <3>2 DEF HeadlessInv
      <3>4. \A p \in Request : reqState[p] = "dispatch" /\ reqExec[p] = e =>
              Canvases[reqCanvas[p]].trigger = NoKey
        BY <3>2, <3>3 DEF HeadlessRun
      <3>5. Unserved(e)' /\ execStatus'[e] \in {"RUNNING", "CANCELLED"}
        BY <2>0, <3>3, <3>4, Unserves DEF Begins, StatusKept
      <3>6. ASSUME NEW p \in Request, p # q PROVE reqExec'[p] # e
        <4>1. CASE reqExec'[p] = reqExec[p]
          BY <3>3, <3>6, <4>1
        <4>2. CASE \E x \in Exec : RunNowCreates(p, x)
          BY <1>1, <3>3, <4>2
        <4>3. QED
          BY <4>1, <4>2, RequestsGoOn
      <3>7. QED
        BY <2>0, <3>5, <3>6 DEF Unserved
    <2>3. QED
      BY <2>1, <2>2
  <1>6. QED
    BY <1>2, <1>3, <1>4, <1>5 DEF HeadlessInv

\* Running a workflow without a trigger step is accepted, and the execution that
\* the answer names neither succeeds nor fails, with any number of slots, retries
\* and edits: nobody serves it, and by the theorem above nobody ever will.
THEOREM HeadlessNeverEnds ==
  ServiceSpec => [](\A q \in Request :
    reqState[q] = "accepted" /\ Canvases[reqCanvas[q]].trigger = NoKey =>
      \E e \in Exec : reqExec[q] = e /\ (Orphaned(e) \/ execStatus[e] = "CANCELLED"))
  <1>1. HeadlessInv =>
          \A q \in Request : reqState[q] = "accepted" /\ Canvases[reqCanvas[q]].trigger = NoKey =>
            \E e \in Exec : reqExec[q] = e /\ (Orphaned(e) \/ execStatus[e] = "CANCELLED")
    <2>1. SUFFICES ASSUME HeadlessInv, NEW q \in Request, reqState[q] = "accepted",
                          Canvases[reqCanvas[q]].trigger = NoKey
                   PROVE  /\ reqExec[q] \in Exec
                          /\ Orphaned(reqExec[q]) \/ execStatus[reqExec[q]] = "CANCELLED"
      OBVIOUS
    <2>2. /\ reqExec[q] \in Exec /\ Unserved(reqExec[q])
          /\ execStatus[reqExec[q]] \in {"RUNNING", "CANCELLED"}
          /\ \A p \in Request : p # q => reqExec[p] # reqExec[q]
      BY <2>1 DEF HeadlessInv, HeadlessRun
    <2>3. ~Carried(reqExec[q])
      BY <2>1, <2>2 DEF Carried, Unserved
    <2>4. QED
      BY <2>2, <2>3 DEF Orphaned
  <1>2. QED
    BY <1>1, HeadlessStart, HeadlessStep, ServiceTyping, PTL DEF ServiceSpec
=============================================================================
