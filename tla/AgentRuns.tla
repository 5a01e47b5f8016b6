------------------------------ MODULE AgentRuns ------------------------------
(***************************************************************************)
(* runInstalledAgent of apps/api: requests to run one installed agent.  A  *)
(* request reuses a running execution of the same payload, or creates its  *)
(* row, passes the rate limit and the back pressure of the queue, and adds *)
(* the job.  The worker is all that AgentLifecycle allows: it may fail,    *)
(* die, or lose a job that BullMQ then gives to another or fails.          *)
(***************************************************************************)
EXTENDS AgentLifecycle, Sequences, SequencesExt, FiniteSets

CONSTANTS
  Payload,
  RateMax,       \* TENANT_QUEUE_RATE_LIMIT_MAX
  Backpressure,  \* QUEUE_BACKPRESSURE_THRESHOLD
  MaxApiFaults,  \* bound: failed calls and crashes of the API
  NoRun

\* A request that creates an execution creates the one of its own name.
Asking == Execution

ASSUME RunsConstants ==
  /\ {RateMax, MaxApiFaults, Backpressure} \subseteq Nat
  /\ NoRun \notin Execution

VARIABLES
  payload,   \* [Asking -> Payload]
  asking,    \* [Asking -> where the request is]
  answer,    \* [Asking -> Execution \cup {NoRun}]: the execution a request was told
  created,   \* the executions in the order of startedAt
  hashed,    \* executions whose metadata holds the payload hash
  rate,      \* [count, ttl]: the counter of the tenant in Redis
  apiFaults

apiVars == <<payload, asking, answer, created, hashed, rate, apiFaults>>
runsVars == <<lifeVars, apiVars>>

AskStep == {"find", "create", "rate", "expire", "pressure", "add", "update",
            "fail", "accepted", "reused", "refused", "lost"}

RunsInit ==
  /\ LifeInit
  /\ payload \in [Asking -> Payload]
  /\ asking = [q \in Asking |-> "find"]
  /\ answer = [q \in Asking |-> NoRun]
  /\ created = <<>> /\ hashed = {}
  /\ rate = [count |-> 0, ttl |-> FALSE]
  /\ apiFaults = 0

AskTo(q, step) == asking' = [asking EXCEPT ![q] = step]

\* The latest RUNNING execution of the agent, if it has the payload.
Running == SelectSeq(created, LAMBDA e : stored[e] = "RUNNING")
Reusable(q) ==
  IF Running = <<>> THEN {} ELSE {e \in {Last(Running)} \cap hashed : payload[e] = payload[q]}

FindReusable(q) ==
  /\ asking[q] = "find"
  /\ \/ Reusable(q) = {} /\ AskTo(q, "create") /\ UNCHANGED answer
     \/ \E e \in Reusable(q) : answer' = [answer EXCEPT ![q] = e] /\ AskTo(q, "reused")
  /\ UNCHANGED <<lifeVars, payload, created, hashed, rate, apiFaults>>

\* The row is RUNNING before there is a job.
CreateRun(q) ==
  /\ asking[q] = "create"
  /\ stored' = [stored EXCEPT ![q] = "RUNNING"]
  /\ created' = Append(created, q) /\ hashed' = hashed \cup {q}
  /\ AskTo(q, "rate")
  /\ UNCHANGED <<queued, doubled, trouble, payload, answer, rate, apiFaults>>

\* INCR; the first of a window goes on to set its expiry.
CountRate(q) ==
  /\ asking[q] = "rate"
  /\ rate' = [rate EXCEPT !.count = IF @ > RateMax THEN @ ELSE @ + 1]
  /\ AskTo(q, IF rate.count = 0 THEN "expire"
              ELSE IF rate.count + 1 > RateMax THEN "fail" ELSE "pressure")
  /\ UNCHANGED <<lifeVars, payload, answer, created, hashed, apiFaults>>

ExpireRate(q) ==
  /\ asking[q] = "expire"
  /\ rate' = [rate EXCEPT !.ttl = TRUE]
  /\ AskTo(q, IF RateMax = 0 THEN "fail" ELSE "pressure")
  /\ UNCHANGED <<lifeVars, payload, answer, created, hashed, apiFaults>>

Pending == {e \in Execution : queued[e] = "waiting"}

\* Mutant: the job is added before the pending ones are counted.
MutantAddsFirst(q) ==
  /\ asking[q] = "pressure"
  /\ AddJob(q)
  /\ AskTo(q, IF Cardinality(Pending) >= Backpressure THEN "fail" ELSE "update")
  /\ UNCHANGED <<payload, answer, created, hashed, rate, apiFaults>>

CheckPressure(q) ==
  /\ asking[q] = "pressure"
  /\ AskTo(q, IF Cardinality(Pending) >= Backpressure THEN "fail" ELSE "add")
  /\ UNCHANGED <<lifeVars, payload, answer, created, hashed, rate, apiFaults>>

AddRun(q) ==
  /\ asking[q] = "add"
  /\ AddJob(q) /\ AskTo(q, "update")
  /\ UNCHANGED <<payload, answer, created, hashed, rate, apiFaults>>

\* The metadata is written whole, over what the worker may have written.
UpdateRun(q) ==
  /\ asking[q] = "update"
  /\ hashed' = hashed \cup {q}
  /\ answer' = [answer EXCEPT ![q] = q] /\ AskTo(q, "accepted")
  /\ UNCHANGED <<lifeVars, payload, created, rate, apiFaults>>

\* Mutant: the row is left as it is.
MutantLeavesRow(q) ==
  /\ asking[q] = "fail"
  /\ AskTo(q, "refused")
  /\ UNCHANGED <<lifeVars, payload, answer, created, hashed, rate, apiFaults>>

\* The catch: FAILED, even if the job is in the queue.
FailRun(q) ==
  /\ asking[q] = "fail"
  /\ stored' = [stored EXCEPT ![q] = "FAILED"]
  /\ hashed' = hashed \cup {q}
  /\ AskTo(q, "refused")
  /\ UNCHANGED <<queued, doubled, trouble, payload, answer, created, rate, apiFaults>>

\* A call of Redis, the queue or the database fails, or the API dies.
ApiFails(q) ==
  /\ apiFaults < MaxApiFaults /\ apiFaults' = apiFaults + 1
  /\ \/ asking[q] \in {"rate", "expire", "pressure", "add", "update"} /\ AskTo(q, "fail")
     \/ asking[q] \notin {"accepted", "reused", "refused", "lost"} /\ AskTo(q, "lost")
  /\ UNCHANGED <<lifeVars, payload, answer, created, hashed, rate>>

\* TENANT_QUEUE_RATE_LIMIT_WINDOW_SECONDS
WindowEnds ==
  /\ rate.ttl
  /\ rate' = [count |-> 0, ttl |-> FALSE]
  /\ UNCHANGED <<lifeVars, payload, asking, answer, created, hashed, apiFaults>>

\* The runtime writes its logs over the metadata, the hash included.
PersistLogs(e) ==
  /\ queued[e] = "active" \/ doubled[e]
  /\ e \in hashed
  /\ hashed' = hashed \ {e}
  /\ UNCHANGED <<lifeVars, payload, asking, answer, created, rate, apiFaults>>

Worker(e) ==
  /\ TakeJob(e) \/ WriteStatus(e) \/ Complete(e) \/ ThrowJob(e) \/ LoseJob(e)
  /\ UNCHANGED apiVars

WorkerTrouble == Trouble /\ UNCHANGED apiVars

AskingStep(q) ==
  \/ FindReusable(q) \/ CreateRun(q) \/ CountRate(q) \/ ExpireRate(q) \/ CheckPressure(q)
  \/ AddRun(q) \/ UpdateRun(q) \/ FailRun(q)

RunsNext ==
  \/ \E q \in Asking : AskingStep(q) \/ ApiFails(q)
  \/ WindowEnds \/ WorkerTrouble
  \/ \E e \in Execution : PersistLogs(e) \/ Worker(e)

RunsSpec == RunsInit /\ [][RunsNext]_runsVars

-----------------------------------------------------------------------------
RunsTypeOK ==
  /\ queued \in [Execution -> JobState] /\ stored \in [Execution -> StatusOf]
  /\ doubled \in [Execution -> BOOLEAN] /\ trouble \in BOOLEAN
  /\ payload \in [Asking -> Payload] /\ asking \in [Asking -> AskStep]
  /\ answer \in [Asking -> Execution \cup {NoRun}]
  /\ ToSet(created) = {e \in Execution : stored[e] # "absent"} /\ IsInjective(created)
  /\ hashed \subseteq Execution
  /\ rate \in [count: 0..(RateMax + 1), ttl: BOOLEAN]
  /\ apiFaults \in 0..MaxApiFaults

\* A request that was refused left nothing in the queue and a FAILED row,
\* unless a call failed after the job was added.
RefusedNeverRuns ==
  \A q \in Asking :
    asking[q] = "refused" => (queued[q] = "none" /\ stored[q] = "FAILED") \/ apiFaults > 0

\* An execution stays RUNNING, to be reused by others, only while something may
\* still end it (its request is on its way, its job is in the queue or with a
\* worker) or for one of three reasons: the API failed or died before it added
\* the job; a runner that had lost the job wrote over the outcome of the one
\* that completed it; or the job failed while calls failed or its worker died,
\* so that no one wrote the failure.
RunningIsCarried ==
  \A e \in Execution : stored[e] = "RUNNING" =>
    \/ asking[e] \in {"rate", "expire", "pressure", "add", "fail"}
    \/ queued[e] \in {"waiting", "active"}
    \/ queued[e] = "none" /\ asking[e] = "lost"
    \/ queued[e] = "completed" /\ doubled[e]
    \/ queued[e] = "failed" /\ trouble
=============================================================================
