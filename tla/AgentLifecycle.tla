--------------------------- MODULE AgentLifecycle ---------------------------
(***************************************************************************)
(* What the worker promises of an agent execution, to the API that queued  *)
(* it and to whoever reads its row: the states of the job, and who may     *)
(* write the status when.                                                  *)
(***************************************************************************)
EXTENDS Naturals

CONSTANT Execution

VARIABLES
  queued,   \* [Execution -> the state of its BullMQ job]
  stored,   \* [Execution -> AgentExecution.status]
  doubled,  \* [Execution -> BOOLEAN]: BullMQ took the job from a runner that had it
  trouble   \* BOOLEAN: a call failed, a worker died or lost a job

lifeVars == <<queued, stored, doubled, trouble>>

JobState == {"none", "waiting", "active", "completed", "failed"}
Outcomes == {"SUCCESS", "WAITING_APPROVAL", "FAILED"}
StatusOf == {"absent", "RUNNING"} \cup Outcomes

LifeInit ==
  /\ queued = [e \in Execution |-> "none"]
  /\ stored = [e \in Execution |-> "absent"]
  /\ doubled = [e \in Execution |-> FALSE] /\ trouble = FALSE

MoveJob(e, from, to) == queued[e] = from /\ queued' = [queued EXCEPT ![e] = to]

AddJob(e) == MoveJob(e, "none", "waiting") /\ UNCHANGED <<stored, doubled, trouble>>
TakeJob(e) == MoveJob(e, "waiting", "active") /\ UNCHANGED <<stored, doubled, trouble>>

\* A runner writes the status while it has the job; one that lost it may, later.
WriteStatus(e) ==
  /\ queued[e] = "active" \/ doubled[e]
  /\ \E new \in {"RUNNING"} \cup Outcomes : stored' = [stored EXCEPT ![e] = new]
  /\ UNCHANGED <<queued, doubled, trouble>>

\* A job is completed as its outcome is stored, or later: a runner that lost the
\* job may have written over it meanwhile.
Complete(e) ==
  /\ MoveJob(e, "active", "completed")
  /\ \/ \E new \in Outcomes : stored' = [stored EXCEPT ![e] = new]
     \/ UNCHANGED stored /\ (stored[e] \in Outcomes \/ doubled[e])
  /\ UNCHANGED <<doubled, trouble>>

\* An attempt that throws has stored its failure, or failed at that too.
ThrowJob(e) ==
  /\ MoveJob(e, "active", "waiting") \/ MoveJob(e, "active", "failed")
  /\ trouble' \in {trouble, TRUE}
  /\ stored[e] = "FAILED" \/ trouble'
  /\ UNCHANGED <<stored, doubled>>

LoseJob(e) ==
  /\ MoveJob(e, "active", "waiting") \/ MoveJob(e, "active", "failed")
  /\ doubled' = [doubled EXCEPT ![e] = TRUE] /\ trouble' = TRUE
  /\ UNCHANGED stored

Trouble == trouble' = TRUE /\ UNCHANGED <<queued, stored, doubled>>

LifeNext ==
  \/ Trouble
  \/ \E e \in Execution :
       AddJob(e) \/ TakeJob(e) \/ WriteStatus(e) \/ Complete(e) \/ ThrowJob(e) \/ LoseJob(e)

LifeSpec == LifeInit /\ [][LifeNext]_lifeVars
=============================================================================
