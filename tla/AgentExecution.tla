--------------------------- MODULE AgentExecution ---------------------------
(***************************************************************************)
(* processJob of apps/worker: agent executions taken from their BullMQ     *)
(* queue, run by executeManifestAgentRuntime through the plan executor,    *)
(* charged to the budget of the agent, stored and told to the user.        *)
(*                                                                         *)
(* One agent of one tenant.  A job is delivered again when its processor   *)
(* throws, when its worker dies and when the worker lets its lock run out, *)
(* in which case two runners have the execution at once.                   *)
(***************************************************************************)
EXTENDS PlanExecutor, Integers

CONSTANTS
  Modes,          \* what the jobs may ask for: subset of [Exec -> Mode]
  MaxDeliveries,  \* attempts
  MaxStalled,     \* maxStalledCount
  MaxAgentFaults  \* bound: failed calls

\* live, and live with governance that asks for an approval; dry runs and
\* jobs that wait for an approval run nothing.
Mode == {"live", "governed", "dry", "approval"}
Terminal == {"SUCCESS", "WAITING_APPROVAL", "FAILED"}

ASSUME AgentConstants ==
  /\ Modes \subseteq [Exec -> Mode]
  /\ MaxDeliveries \in Nat \ {0} /\ {MaxStalled, MaxAgentFaults} \subseteq Nat

VARIABLES
  mode,
  agentJob,    \* [Exec -> the BullMQ job]
  status,      \* [Exec -> {"absent", "RUNNING"} \cup Terminal]
  slot,        \* [Runner -> where it is in processJob]
  charges,     \* [Exec -> 0..2]: CONSUME events (2: or more)
  artifacts,   \* [Exec -> 0..2]
  told,        \* [Exec -> SUBSET Terminal]: outcomes fanned out
  agentFaults

jobVars == <<agentJob, status, slot>>
runtimeVars == <<charges, artifacts, told>>
agentVars == <<planVars, mode, jobVars, runtimeVars, agentFaults>>

Job == [state: {"none", "waiting", "active", "completed", "failed"},
        attempts: 0..MaxDeliveries, stalls: 0..(MaxStalled + 1),
        owner: Runner \cup {Free}]
SlotStep == {"idle", "start", "billing", "headroom", "plan", "charge", "artifact",
             "finish", "tell", "tellBlocked", "error", "tellError"}
Slot == [at: SlotStep, exec: Exec \cup {NoExec}]
Idle == [at |-> "idle", exec |-> NoExec]

AgentInit ==
  /\ PlanInit
  /\ mode \in Modes
  /\ agentJob = [e \in Exec |->
       [state |-> "none", attempts |-> 0, stalls |-> 0, owner |-> Free]]
  /\ status = [e \in Exec |-> "absent"]
  /\ slot = [s \in Runner |-> Idle]
  /\ charges = [e \in Exec |-> 0] /\ artifacts = [e \in Exec |-> 0]
  /\ told = [e \in Exec |-> {}]
  /\ agentFaults = 0

Bump(f, e) == [f EXCEPT ![e] = IF @ = 2 THEN 2 ELSE @ + 1]
StepTo(s, step) == slot' = [slot EXCEPT ![s].at = step]
Fails(s) == slot' = [slot EXCEPT ![s].at = "error"]
Live(e) == mode[e] \in {"live", "governed"}

Enqueue(e) ==
  /\ agentJob[e].state = "none"
  /\ agentJob' = [agentJob EXCEPT ![e].state = "waiting"]

-----------------------------------------------------------------------------
(* The job *)

TakeAgentJob(s, e) ==
  /\ agentJob[e].state = "waiting" /\ slot[s] = Idle
  /\ agentJob' = [agentJob EXCEPT ![e].state = "active", ![e].owner = s]
  /\ slot' = [slot EXCEPT ![s] = [at |-> "start", exec |-> e]]
  /\ UNCHANGED <<planVars, mode, status, runtimeVars, agentFaults>>

\* BullMQ takes the result of a job from the owner of its lock only.
Owns(s) == agentJob[slot[s].exec].owner = s
Leaves(s, e, state) ==
  /\ agentJob' = IF Owns(s)
       THEN [agentJob EXCEPT ![e].state = state, ![e].owner = Free] ELSE agentJob
  /\ slot' = [slot EXCEPT ![s] = Idle]
Returns(s) == Leaves(s, slot[s].exec, "completed")
Throws(s) ==
  LET e == slot[s].exec tries == agentJob[e].attempts + 1 IN
  /\ agentJob' = IF Owns(s)
       THEN [agentJob EXCEPT ![e].state = IF tries < MaxDeliveries THEN "waiting" ELSE "failed",
                             ![e].owner = Free, ![e].attempts = tries]
       ELSE agentJob
  /\ slot' = [slot EXCEPT ![s] = Idle]

Store(s, outcome) == status' = [status EXCEPT ![slot[s].exec] = outcome]

\* persistExecutionStarted: RUNNING, whatever the status was.
StartExecution(s) ==
  /\ slot[s].at = "start"
  /\ Store(s, "RUNNING") /\ StepTo(s, "billing")
  /\ UNCHANGED <<planVars, mode, agentJob, runtimeVars, agentFaults>>

\* resolveBillingLock: the execution of a locked tenant fails, is told and
\* not retried.  A dry run and a job to be approved store an outcome, untold.
CheckBilling(s) ==
  LET e == slot[s].exec IN
  /\ slot[s].at = "billing"
  /\ \/ Store(s, "FAILED") /\ StepTo(s, "tellBlocked") /\ UNCHANGED agentJob
     \/ Live(e) /\ StepTo(s, "headroom") /\ UNCHANGED <<agentJob, status>>
     \/ mode[e] = "dry" /\ Store(s, "SUCCESS") /\ Returns(s)
     \/ mode[e] = "approval" /\ Store(s, "WAITING_APPROVAL") /\ Returns(s)
  /\ UNCHANGED <<planVars, mode, runtimeVars, agentFaults>>

-----------------------------------------------------------------------------
(* executeManifestAgentRuntime *)

\* ensureBudgetHeadroom: what others consumed is not in this module.
EnsureHeadroom(s) ==
  /\ slot[s].at = "headroom"
  /\ \/ BeginPlan(s, slot[s].exec) /\ StepTo(s, "plan")
     \/ Fails(s) /\ UNCHANGED planVars
  /\ UNCHANGED <<mode, agentJob, status, runtimeVars, agentFaults>>

RunPlan(s) ==
  /\ slot[s].at = "plan"
  /\ PlanStep(s)
  /\ UNCHANGED <<mode, jobVars, runtimeVars, agentFaults>>

EndPlan(s) ==
  /\ slot[s].at = "plan" /\ run[s].at = "out"
  /\ IF run[s].outcome = "done" THEN StepTo(s, "charge") ELSE Fails(s)
  /\ UNCHANGED <<planVars, mode, agentJob, status, runtimeVars, agentFaults>>

\* Mutant: a retry that found the result is not charged.
MutantChargeOnce(s) ==
  /\ slot[s].at = "charge"
  /\ charges' = IF agentJob[slot[s].exec].attempts = 0
                THEN Bump(charges, slot[s].exec) ELSE charges
  /\ StepTo(s, "artifact")
  /\ UNCHANGED <<planVars, mode, agentJob, status, artifacts, told, agentFaults>>

\* consumeBudget commits its CONSUME event, for a result found in Redis too.
ConsumeBudget(s) ==
  /\ slot[s].at = "charge"
  /\ charges' = Bump(charges, slot[s].exec)
  /\ StepTo(s, "artifact")
  /\ UNCHANGED <<planVars, mode, agentJob, status, artifacts, told, agentFaults>>

\* The output artifact, then the learning record.
CreateArtifact(s) ==
  /\ slot[s].at = "artifact"
  /\ artifacts' = Bump(artifacts, slot[s].exec)
  /\ StepTo(s, "finish")
  /\ UNCHANGED <<planVars, mode, agentJob, status, charges, told, agentFaults>>

Outcome(e) ==
  CASE mode[e] = "governed" -> "WAITING_APPROVAL" [] OTHER -> "SUCCESS"

\* Mutant: the outcome is told without being stored.
MutantUnstored(s) ==
  /\ slot[s].at = "finish"
  /\ StepTo(s, "tell")
  /\ UNCHANGED <<planVars, mode, agentJob, status, runtimeVars, agentFaults>>

StoreOutcome(s) ==
  /\ slot[s].at = "finish"
  /\ Store(s, Outcome(slot[s].exec)) /\ StepTo(s, "tell")
  /\ UNCHANGED <<planVars, mode, agentJob, runtimeVars, agentFaults>>

-----------------------------------------------------------------------------
(* The outcome *)

Tells(s, outcome) == told' = [told EXCEPT ![slot[s].exec] = @ \cup {outcome}]

\* fanOutExecutionOutcome, after which the job has been processed.
TellOutcome(s) ==
  /\ \/ slot[s].at = "tell" /\ Tells(s, Outcome(slot[s].exec))
     \/ slot[s].at = "tellBlocked" /\ Tells(s, "FAILED")
  /\ Returns(s)
  /\ UNCHANGED <<planVars, mode, status, charges, artifacts, agentFaults>>

\* Mutant: only the last attempt stores its failure, counted one too far.
MutantLastAttempt(s) ==
  /\ slot[s].at = "error"
  /\ IF agentJob[slot[s].exec].attempts = MaxDeliveries
     THEN Store(s, "FAILED") ELSE UNCHANGED status
  /\ StepTo(s, "tellError")
  /\ UNCHANGED <<planVars, mode, agentJob, runtimeVars, agentFaults>>

\* The catch: the failure of an attempt is stored,
StoreFailure(s) ==
  /\ slot[s].at = "error"
  /\ Store(s, "FAILED") /\ StepTo(s, "tellError")
  /\ UNCHANGED <<planVars, mode, agentJob, runtimeVars, agentFaults>>

\* told, whether or not BullMQ will try again, and rethrown.
TellFailure(s) ==
  /\ slot[s].at = "tellError"
  /\ Tells(s, "FAILED") /\ Throws(s)
  /\ UNCHANGED <<planVars, mode, status, charges, artifacts, agentFaults>>

-----------------------------------------------------------------------------
(* Faults *)

\* A call fails: before the try and in the catch the job just throws.  What
\* the fan-out enqueued and the artifact written before a failing learning
\* record stay.
CallFails(s) ==
  LET e == slot[s].exec IN
  /\ agentFaults < MaxAgentFaults /\ agentFaults' = agentFaults + 1
  /\ \/ slot[s].at \in {"start", "error", "tellError"} /\ Throws(s) /\ UNCHANGED <<planVars, runtimeVars>>
     \/ /\ slot[s].at \in {"billing", "headroom", "charge", "artifact", "finish", "tell", "tellBlocked"}
        /\ Fails(s) /\ UNCHANGED <<planVars, agentJob, charges>>
        /\ \/ UNCHANGED <<artifacts, told>>
           \/ slot[s].at = "artifact" /\ artifacts' = Bump(artifacts, e) /\ UNCHANGED told
           \/ slot[s].at = "tell" /\ Tells(s, Outcome(e)) /\ UNCHANGED artifacts
     \/ slot[s].at = "plan" /\ RedisFails(s) /\ UNCHANGED <<jobVars, runtimeVars>>
  /\ UNCHANGED <<mode, status>>

\* The stalled check of BullMQ: once more than allowed, the job has failed.
Stalls(s) ==
  LET e == slot[s].exec n == agentJob[e].stalls + 1 IN
  agentJob' = [agentJob EXCEPT ![e].stalls = n, ![e].owner = Free,
    ![e].state = IF n > MaxStalled THEN "failed" ELSE "waiting"]

AgentCrash(s) ==
  /\ slot[s] # Idle /\ agentFaults < MaxAgentFaults
  /\ agentFaults' = agentFaults + 1
  /\ Die(s)
  /\ IF Owns(s) THEN Stalls(s) ELSE UNCHANGED agentJob
  /\ slot' = [slot EXCEPT ![s] = Idle]
  /\ UNCHANGED <<mode, status, runtimeVars>>

\* A busy worker does not renew its lock: the job goes to another while the
\* first goes on.
JobLockLost(s) ==
  /\ slot[s] # Idle /\ Owns(s) /\ agentFaults < MaxAgentFaults
  /\ agentFaults' = agentFaults + 1
  /\ Stalls(s)
  /\ UNCHANGED <<planVars, mode, status, slot, runtimeVars>>

LockTtl ==
  /\ \E e \in Exec : ExecLockExpires(e)
  /\ UNCHANGED <<mode, jobVars, runtimeVars, agentFaults>>

\* The API, or any other producer, adds the job of an execution.
Produce(e) ==
  /\ Enqueue(e)
  /\ UNCHANGED <<planVars, mode, status, slot, runtimeVars, agentFaults>>

AgentStep(s) ==
  \/ StartExecution(s) \/ CheckBilling(s) \/ EnsureHeadroom(s) \/ RunPlan(s) \/ EndPlan(s)
  \/ ConsumeBudget(s) \/ CreateArtifact(s) \/ StoreOutcome(s) \/ TellOutcome(s)
  \/ StoreFailure(s) \/ TellFailure(s)
AgentFault(s) == CallFails(s) \/ AgentCrash(s) \/ JobLockLost(s)

AgentNext ==
  \/ \E s \in Runner : AgentStep(s) \/ AgentFault(s)
  \/ \E s \in Runner, e \in Exec : TakeAgentJob(s, e)
  \/ \E e \in Exec : Produce(e)
  \/ LockTtl

AgentSpec == AgentInit /\ [][AgentNext]_agentVars

\* A processor goes on, and idle slots take the jobs that wait.
AgentFairness ==
  \A s \in Runner :
    /\ WF_agentVars(AgentStep(s))
    /\ WF_agentVars(\E e \in Exec : TakeAgentJob(s, e))

-----------------------------------------------------------------------------
(* Properties *)

AgentTypeOK ==
  /\ PlanTypeOK
  /\ mode \in Modes
  /\ agentJob \in [Exec -> Job]
  /\ status \in [Exec -> {"absent", "RUNNING"} \cup Terminal]
  /\ slot \in [Runner -> Slot]
  /\ \A s \in Runner : slot[s].at # "plan" => run[s].at = "out"
  /\ charges \in [Exec -> 0..2] /\ artifacts \in [Exec -> 0..2]
  /\ told \in [Exec -> SUBSET Terminal]
  /\ agentFaults \in 0..MaxAgentFaults

\* An execution that delivered was charged for its plan and has its artifact,
\* whichever attempt ran the tools.
DeliveredWasCharged ==
  \A e \in Exec :
    Live(e) /\ {"SUCCESS", "WAITING_APPROVAL"} \cap (told[e] \cup {status[e]}) # {} =>
      charges[e] > 0 /\ artifacts[e] > 0

\* A completed job has left an outcome, the one of its last attempt, and a job
\* whose attempts are spent has left FAILED, unless a call or a worker failed.
JobOutcomeStored ==
  \A e \in Exec :
    agentFaults = 0 =>
      /\ agentJob[e].state = "completed" => status[e] \in Terminal \cap told[e] \/ ~Live(e)
      /\ agentJob[e].state = "failed" => status[e] = "FAILED" /\ "FAILED" \in told[e]

\* A retry finds the result of an attempt that failed after its plan: tools work
\* again only if the job was delivered to two runners at once.
ResultIsReused ==
  [][\A e \in Exec :
       execResult[e] /\ ran'[e] # ran[e] => agentJob[e].stalls > 0]_agentVars

\* What the worker promises, for the jobs and the rows alone.
Lifecycle == INSTANCE AgentLifecycle WITH
  Execution <- Exec, stored <- status,
  queued <- [e \in Exec |-> agentJob[e].state],
  doubled <- [e \in Exec |-> agentJob[e].stalls > 0],
  trouble <- agentFaults > 0

\* The two handlers of a job, whatever fails, keep to the promise: a job is
\* completed with an outcome stored, and only a runner that has the job, or a
\* job that was taken from its runner, changes the status.
ImplementsLifecycle == Lifecycle!LifeSpec

\* Every accepted job ends, and none of them as RUNNING unless a call or a
\* worker failed.
AgentJobsEnd ==
  \A e \in Exec :
    agentJob[e].state = "waiting" ~>
      /\ agentJob[e].state \in {"completed", "failed"}
      /\ status[e] \in Terminal \/ agentFaults > 0
=============================================================================
