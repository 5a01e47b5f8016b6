--------------------------- MODULE WorkflowService ---------------------------
(***************************************************************************)
(* The API side of the workflow engine, apps/api/src/modules/workflows/    *)
(* service.ts, composed with the engine: requests that run a workflow now, *)
(* and edits of the workflow while executions of it are under way.         *)
(*                                                                         *)
(* A request of runWorkflowNow is cut at its awaits.  updateWorkflow does  *)
(* its writes in one transaction, so it is one step; deleting the steps of *)
(* the old canvas deletes their results with them.  An edit moves to a     *)
(* later entry of Canvases, which bounds the number of edits.              *)
(***************************************************************************)
EXTENDS WorkflowRunner

CONSTANTS
  Request  \* calls of runWorkflowNow

VARIABLES
  reqState,   \* the await a request is at, or how it ended
  reqCanvas,  \* the workflow as the request read it
  reqExec     \* the execution the request created

reqVars == <<reqState, reqCanvas, reqExec>>
serviceVars == <<vars, reqVars>>

ServiceInit ==
  /\ Init
  /\ reqState = [q \in Request |-> "absent"]
  /\ reqCanvas = [q \in Request |-> 0]
  /\ reqExec = [q \in Request |-> NoExec]

-----------------------------------------------------------------------------

IsPublished == wfStatus = "PUBLISHED"

\* runWorkflowNow reads the workflow and refuses one that is not published.
RunNow(q) ==
  /\ reqState[q] = "absent"
  /\ IF IsPublished
     THEN /\ reqState' = [reqState EXCEPT ![q] = "create"]
          /\ reqCanvas' = [reqCanvas EXCEPT ![q] = canvas]
     ELSE /\ reqState' = [reqState EXCEPT ![q] = "refused"]
          /\ UNCHANGED reqCanvas
  /\ UNCHANGED <<vars, reqExec>>

RunNowCreates(q, e) ==
  /\ reqState[q] = "create"
  /\ execStatus[e] = "NONE"
  /\ SetStatus(e, "RUNNING")
  /\ reqExec' = [reqExec EXCEPT ![q] = e]
  /\ reqState' = [reqState EXCEPT ![q] = "dispatch"]
  /\ UNCHANGED <<execDepth, results, wfVars, quota, queueVars, trigVars, pc, localVars, clock,
                 faults, reqCanvas>>

\* Enqueues the trigger step.  Without one it adds a trigger job, which will
\* create an execution of its own; one of the same millisecond swallows it.
RunNowDispatches(q) ==
  LET key == Canvases[reqCanvas[q]].trigger IN
  /\ reqState[q] = "dispatch"
  /\ \/ /\ key # NoKey
        /\ AddJob([exec |-> reqExec[q], key |-> key, stamp |-> 1])
        /\ UNCHANGED trigState
     \/ /\ key = NoKey
        /\ \/ \E t \in TriggerJob : /\ trigState[t] = "absent"
                                    /\ trigState' = [trigState EXCEPT ![t] = "wait"]
           \/ (\E t \in TriggerJob : trigState[t] # "absent") /\ UNCHANGED trigState
        /\ UNCHANGED jobState
  /\ reqState' = [reqState EXCEPT ![q] = "accepted"]
  /\ UNCHANGED <<execVars, wfVars, quota, deliveries, stalls, owner, trigStalls, trigExec,
                 trigCanvas, pc, localVars, clock, faults, reqCanvas, reqExec>>

\* The API process dies, or a query or command of the request throws.
RequestLost(q) ==
  /\ reqState[q] \in {"create", "dispatch"}
  /\ faults < MaxFaults
  /\ faults' = faults + 1
  /\ reqState' = [reqState EXCEPT ![q] = "lost"]
  /\ UNCHANGED <<execVars, wfVars, quota, queueVars, trigVars, pc, localVars, clock,
                 reqCanvas, reqExec>>

\* updateWorkflow with a new canvas, which replaces every step and transition.
ReplaceCanvas(c) ==
  /\ c \in DOMAIN Canvases /\ c > canvas
  /\ canvas' = c
  /\ results' = {}
  /\ UNCHANGED <<execStatus, execDepth, wfStatus, quota, queueVars, trigVars, pc, localVars, clock,
                 faults, reqVars>>

\* updateWorkflow with another status, or archiveWorkflow.
ChangeStatus(status) ==
  /\ wfStatus # status
  /\ wfStatus' = status
  /\ UNCHANGED <<execVars, canvas, quota, queueVars, trigVars, pc, localVars, clock, faults, reqVars>>

RequestStep(q) ==
  RunNow(q) \/ (\E e \in Exec : RunNowCreates(q, e)) \/ RunNowDispatches(q)

ServiceNext ==
  \/ RunnerNext /\ UNCHANGED reqVars
  \/ \E q \in Request : RequestStep(q) \/ RequestLost(q)
  \/ \E c \in DOMAIN Canvases : ReplaceCanvas(c)
  \/ \E status \in {"DRAFT", "PUBLISHED", "ARCHIVED"} : ChangeStatus(status)

ServiceSpec == ServiceInit /\ [][ServiceNext]_serviceVars

\* The API answers the requests it took up; the worker is fair as before.
FairServiceSpec ==
  /\ ServiceSpec
  /\ \A t \in TriggerJob : WF_serviceVars(TriggerStep(t) /\ UNCHANGED reqVars)
  /\ \A w \in Worker : WF_serviceVars(HandlerStep(w) /\ UNCHANGED reqVars)
  /\ \A j \in JobId : /\ WF_serviceVars(RecoverStalled(j) /\ UNCHANGED reqVars)
                      /\ WF_serviceVars((\E w \in Worker : TakeJob(w, j)) /\ UNCHANGED reqVars)
  /\ \A q \in Request : WF_serviceVars(reqState[q] # "absent" /\ RequestStep(q))

-----------------------------------------------------------------------------

\* Something that will still move the execution: the request or trigger job
\* that has to enqueue its first step, or a job of it.
Carried(e) ==
  \/ \E q \in Request : reqState[q] = "dispatch" /\ reqExec[q] = e
  \/ \E t \in TriggerJob : trigState[t] = "dispatch" /\ trigExec[t] = e
  \/ \E j \in JobId : j.exec = e /\ jobState[j] \in {"wait", "active"}

\* Until something fails no execution is orphaned: whatever edits, joins and
\* duplicate jobs interleave, a RUNNING execution is always carried by a
\* request or a job (ids that collide, rows that conflict and canvases that
\* are replaced each drop one carrier).
NoOrphans == faults = 0 => \A e \in Exec : execStatus[e] = "RUNNING" => Carried(e)

\* An execution of a workflow that has no trigger step ends FAILED with
\* "Workflow has no trigger step configured." (runner.ts:211), however it was
\* started.
RunsWithoutTriggerFail ==
  \A q \in Request : reqState[q] = "accepted" /\ Canvases[reqCanvas[q]].trigger = NoKey ~>
    \E e \in Exec : reqExec[q] = e /\ execStatus[e] = "FAILED"

\* A run that was accepted comes to an end, also when the workflow is edited,
\* unpublished or archived under it, unless a call or a worker fails.
AcceptedRunsSettle ==
  \A q \in Request : reqState[q] = "accepted" ~>
    faults > 0 \/ \E e \in Exec : reqExec[q] = e /\ execStatus[e] # "RUNNING"

\* CHECKLIST_MASTER.md:139, "bloqueio de execucao fora de PUBLISHED": an
\* execution starts only while the workflow is published.
StartsPublished ==
  [][\A e \in Exec : execStatus[e] = "NONE" /\ execStatus'[e] # "NONE" => IsPublished]_serviceVars
=============================================================================
