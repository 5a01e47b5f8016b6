---------------------------- MODULE Requests_proofs ----------------------------
(***************************************************************************)
(* Proofs about the components behind the routes of apps/api that share no *)
(* state with one another: agent runs, budgets, members, connectors and    *)
(* the CRM synchronization.                                                *)
(***************************************************************************)
EXTENDS AgentRuns, AgentBudgets, TenantMembers, Connectors, CompanySync, FiniteSetTheorems, TLAPS

-----------------------------------------------------------------------------
(***************************************************************************)
(* Requests to run an agent (AgentRuns).                                   *)
(***************************************************************************)

\* What a request knows of its own execution at each step, whatever failed.
CreatedBy(q) ==
  /\ asking[q] \in {"find", "create", "reused"} => stored[q] = "absent" /\ queued[q] = "none"
  /\ asking[q] \in {"rate", "expire", "pressure", "add", "update", "fail"} => stored[q] # "absent"
  /\ asking[q] \in {"update", "accepted"} => queued[q] # "none"
  /\ asking[q] = "refused" /\ queued[q] = "none" => stored[q] = "FAILED"
  /\ queued[q] # "none" => stored[q] # "absent"

\* And how the worker leaves it: only a job that was there was taken from its
\* runner, and only then, or in trouble, does its end leave the row RUNNING.
LeftBy(q) ==
  /\ doubled[q] => queued[q] # "none" /\ trouble
  /\ queued[q] = "completed" /\ stored[q] = "RUNNING" => doubled[q]
  /\ queued[q] = "failed" /\ stored[q] = "RUNNING" => trouble

\* As long as no call of the API failed, there is no job before it was added.
UndisturbedBy(q) ==
  asking[q] \in {"rate", "expire", "pressure", "add", "fail", "refused"} => queued[q] = "none"

RunsTyped ==
  /\ queued \in [Execution -> JobState] /\ stored \in [Execution -> StatusOf]
  /\ doubled \in [Execution -> BOOLEAN] /\ trouble \in BOOLEAN
  /\ payload \in [Asking -> Payload] /\ asking \in [Asking -> AskStep]
  /\ answer \in [Asking -> Execution \cup {NoRun}]
  /\ created \in Seq(Execution) /\ hashed \subseteq Execution
  /\ rate \in [count: 0..(RateMax + 1), ttl: BOOLEAN]
  /\ apiFaults \in 0..MaxApiFaults

CreatedInOrder ==
  /\ \A e \in Execution : stored[e] # "absent" <=> \E i \in 1..Len(created) : created[i] = e
  /\ \A i, k \in 1..Len(created) : created[i] = created[k] => i = k

RunsInv ==
  /\ RunsTyped
  /\ CreatedInOrder
  /\ \A q \in Asking : CreatedBy(q) /\ LeftBy(q)
  /\ apiFaults = 0 => \A q \in Asking : UndisturbedBy(q)

-----------------------------------------------------------------------------
LEMMA RunsStart == RunsInit => RunsInv
<1> SUFFICES ASSUME RunsInit PROVE RunsInv
  OBVIOUS
<1> USE DEF RunsInit, LifeInit
<1>1. RunsTyped
  <2>1. trouble \in BOOLEAN
    BY Zenon
  <2>2. doubled \in [Execution -> BOOLEAN]
    BY Zenon
  <2> QED
    BY RunsConstants, <2>1, <2>2 DEF RunsTyped, Asking, JobState, StatusOf, AskStep
<1>2. CreatedInOrder
  BY DEF CreatedInOrder
<1>3. \A q \in Asking : CreatedBy(q) /\ LeftBy(q) /\ UndisturbedBy(q)
  BY DEF CreatedBy, LeftBy, UndisturbedBy, Asking
<1> QED
  BY <1>1, <1>2, <1>3 DEF RunsInv

LEMMA RunsStepTyped ==
  ASSUME RunsInv, RunsNext
  PROVE  RunsTyped'
<1> USE RunsConstants DEF RunsInv, RunsTyped, Asking
<1>1. ASSUME NEW q \in Asking, AskingStep(q) PROVE RunsTyped'
  <2>1. CASE FindReusable(q)
    BY <2>1 DEF FindReusable, Reusable, AskTo, lifeVars, AskStep
  <2>2. CASE CreateRun(q)
    BY <2>2 DEF CreateRun, AskTo, AskStep, StatusOf
  <2>3. CASE CountRate(q)
    BY <2>3 DEF CountRate, AskTo, AskStep, lifeVars
  <2>4. CASE ExpireRate(q)
    BY <2>4 DEF ExpireRate, AskTo, AskStep, lifeVars
  <2>5. CASE CheckPressure(q)
    BY <2>5 DEF CheckPressure, AskTo, AskStep, lifeVars
  <2>6. CASE AddRun(q)
    BY <2>6 DEF AddRun, AddJob, MoveJob, AskTo, AskStep, JobState
  <2>7. CASE UpdateRun(q)
    BY <2>7 DEF UpdateRun, AskTo, AskStep, lifeVars
  <2>8. CASE FailRun(q)
    BY <2>8 DEF FailRun, AskTo, AskStep, StatusOf, Outcomes
  <2> QED
    BY <1>1, <2>1, <2>2, <2>3, <2>4, <2>5, <2>6, <2>7, <2>8 DEF AskingStep
<1>2. ASSUME NEW q \in Asking, ApiFails(q) PROVE RunsTyped'
  BY <1>2 DEF ApiFails, AskTo, AskStep, lifeVars
<1>3. CASE WindowEnds
  BY <1>3 DEF WindowEnds, lifeVars
<1>4. ASSUME NEW e \in Execution, PersistLogs(e) PROVE RunsTyped'
  BY <1>4 DEF PersistLogs, lifeVars
<1>5. ASSUME NEW e \in Execution, Worker(e) PROVE RunsTyped'
  <2>1. UNCHANGED apiVars
    BY <1>5 DEF Worker
  <2>2. doubled' \in [Execution -> BOOLEAN] /\ trouble' \in BOOLEAN
    BY <1>5 DEF Worker, TakeJob, WriteStatus, Complete, ThrowJob, LoseJob
  <2>3. queued' \in [Execution -> JobState]
    BY <1>5 DEF Worker, TakeJob, WriteStatus, Complete, ThrowJob, LoseJob, MoveJob, JobState
  <2>4. stored' \in [Execution -> StatusOf]
    BY <1>5 DEF Worker, TakeJob, WriteStatus, Complete, ThrowJob, LoseJob, StatusOf, Outcomes
  <2> QED
    BY <2>1, <2>2, <2>3, <2>4 DEF apiVars
<1>6. CASE WorkerTrouble
  BY <1>6 DEF WorkerTrouble, Trouble, apiVars
<1> QED
  BY <1>1, <1>2, <1>3, <1>4, <1>5, <1>6 DEF RunsNext

\* A step leaves a request and its execution alone, or is one of the request
\* itself, or of the worker that has its job.
RunUnchanged(q) ==
  /\ asking'[q] = asking[q] /\ stored'[q] = stored[q] /\ queued'[q] = queued[q]
  /\ doubled'[q] = doubled[q] /\ (trouble => trouble')

LEMMA OthersUnchanged ==
  ASSUME RunsInv, RunsNext, NEW q \in Asking
  PROVE  RunUnchanged(q) \/ AskingStep(q) \/ ApiFails(q) \/ Worker(q)
<1> USE DEF RunsInv, RunsTyped, Asking, RunUnchanged
<1>1. ASSUME NEW r \in Asking, AskingStep(r), r # q PROVE RunUnchanged(q)
  BY <1>1 DEF AskingStep, FindReusable, CreateRun, CountRate, ExpireRate, CheckPressure, AddRun,
     AddJob, MoveJob, UpdateRun, FailRun, AskTo, lifeVars
<1>2. ASSUME NEW r \in Asking, ApiFails(r), r # q PROVE RunUnchanged(q)
  BY <1>2 DEF ApiFails, AskTo, lifeVars
<1>3. CASE WindowEnds \/ \E e \in Execution : PersistLogs(e)
  BY <1>3 DEF WindowEnds, PersistLogs, lifeVars
<1>4. ASSUME NEW e \in Execution, Worker(e), e # q PROVE RunUnchanged(q)
  <2>1. CASE TakeJob(e) \/ WriteStatus(e) \/ Complete(e)
    BY <1>4, <2>1 DEF Worker, apiVars, TakeJob, WriteStatus, Complete, MoveJob
  <2>2. CASE ThrowJob(e)
    <3>1. trouble => trouble'
      BY <2>2, Zenon DEF ThrowJob
    <3>2. /\ UNCHANGED <<stored, doubled, asking>>
          /\ \E to \in {"waiting", "failed"} : queued' = [queued EXCEPT ![e] = to]
      BY <1>4, <2>2 DEF Worker, apiVars, ThrowJob, MoveJob
    <3> QED
      BY <1>4, <3>1, <3>2
  <2>3. CASE LoseJob(e)
    BY <1>4, <2>3 DEF Worker, apiVars, LoseJob, MoveJob
  <2> QED
    BY <1>4, <2>1, <2>2, <2>3 DEF Worker
<1>5. CASE WorkerTrouble
  BY <1>5 DEF WorkerTrouble, Trouble, apiVars
<1> QED
  BY <1>1, <1>2, <1>3, <1>4, <1>5 DEF RunsNext

LEMMA OwnStepKnows ==
  ASSUME RunsInv, RunsNext, NEW q \in Asking
  PROVE  CreatedBy(q)' /\ LeftBy(q)' /\ (apiFaults' = 0 => UndisturbedBy(q)')
<1>0. RunsTyped' /\ (apiFaults' = 0 => apiFaults = 0)
  <2>1. apiFaults' = apiFaults \/ apiFaults' = apiFaults + 1
    BY DEF RunsNext, AskingStep, FindReusable, CreateRun, CountRate, ExpireRate, CheckPressure,
       AddRun, UpdateRun, FailRun, ApiFails, WindowEnds, PersistLogs, Worker, WorkerTrouble, apiVars
  <2>2. apiFaults \in Nat
    BY RunsConstants DEF RunsInv, RunsTyped
  <2> QED
    BY <2>1, <2>2, RunsStepTyped
<1> USE DEF RunsInv, RunsTyped, Asking, CreatedBy, LeftBy, UndisturbedBy
<1>1. CASE RunUnchanged(q)
  BY <1>0, <1>1 DEF RunUnchanged
<1>2. CASE AskingStep(q)
  BY <1>0, <1>2 DEF AskingStep, FindReusable, CreateRun, CountRate, ExpireRate, CheckPressure,
     AddRun, AddJob, MoveJob, UpdateRun, FailRun, AskTo, lifeVars, AskStep
<1>3. CASE ApiFails(q)
  BY <1>0, <1>3 DEF ApiFails, AskTo, lifeVars
<1>4. CASE Worker(q)
  BY <1>0, <1>4 DEF Worker, apiVars, TakeJob, WriteStatus, Complete, ThrowJob, LoseJob, MoveJob, Outcomes
<1> QED
  BY <1>1, <1>2, <1>3, <1>4, OthersUnchanged

\* Only CreateRun makes a row, and no step removes one.
LEMMA RowsAreKept ==
  ASSUME RunsInv, RunsNext
  PROVE  \/ /\ created' = created
            /\ \A e \in Execution : stored'[e] # "absent" <=> stored[e] # "absent"
         \/ \E q \in Asking : CreateRun(q)
<1> USE DEF RunsInv, RunsTyped, Asking, CreatedBy
<1>1. ASSUME NEW q \in Asking, AskingStep(q), ~CreateRun(q)
      PROVE  created' = created /\ \A e \in Execution : stored'[e] # "absent" <=> stored[e] # "absent"
  BY <1>1 DEF AskingStep, FindReusable, CountRate, ExpireRate, CheckPressure,
     AddRun, AddJob, UpdateRun, FailRun, lifeVars
<1>2. ASSUME NEW q \in Asking, ApiFails(q) PROVE UNCHANGED <<created, stored>>
  BY <1>2 DEF ApiFails, lifeVars
<1>3. CASE WindowEnds \/ \E e \in Execution : PersistLogs(e)
  BY <1>3 DEF WindowEnds, PersistLogs, lifeVars
<1>4. ASSUME NEW x \in Execution, Worker(x)
      PROVE  created' = created /\ \A e \in Execution : stored'[e] # "absent" <=> stored[e] # "absent"
  <2>1. CASE WriteStatus(x) \/ Complete(x)
    BY <1>4, <2>1 DEF Worker, apiVars, WriteStatus, Complete, MoveJob, Outcomes, LeftBy
  <2>2. CASE TakeJob(x) \/ ThrowJob(x) \/ LoseJob(x)
    BY <1>4, <2>2 DEF Worker, apiVars, TakeJob, ThrowJob, LoseJob
  <2> QED
    BY <1>4, <2>1, <2>2 DEF Worker
<1>5. CASE WorkerTrouble
  BY <1>5 DEF WorkerTrouble, Trouble, apiVars
<1> QED
  BY <1>1, <1>2, <1>3, <1>4, <1>5 DEF RunsNext

LEMMA RowsStayInOrder ==
  ASSUME RunsInv, RunsNext
  PROVE  CreatedInOrder'
<1>1. ASSUME created' = created,
             \A e \in Execution : stored'[e] # "absent" <=> stored[e] # "absent"
      PROVE  CreatedInOrder'
  BY <1>1 DEF RunsInv, CreatedInOrder
<1>2. ASSUME NEW q \in Asking, CreateRun(q) PROVE CreatedInOrder'
  <2>1. /\ created \in Seq(Execution) /\ q \in Execution /\ created' = Append(created, q)
        /\ Len(created') = Len(created) + 1 /\ created'[Len(created) + 1] = q
        /\ \A i \in 1..Len(created) : created'[i] = created[i]
    BY <1>2 DEF CreateRun, RunsInv, RunsTyped, Asking
  <2>2. \A i \in 1..Len(created) : created[i] # q
    BY <1>2 DEF CreateRun, RunsInv, CreatedBy, CreatedInOrder, Asking
  <2>3. \A e \in Execution : stored'[e] # "absent" <=> stored[e] # "absent" \/ e = q
    BY <1>2 DEF CreateRun, RunsInv, RunsTyped, Asking
  <2> QED
    BY <2>1, <2>2, <2>3 DEF RunsInv, CreatedInOrder
<1> QED
  BY <1>1, <1>2, RowsAreKept

LEMMA RunsInvariance == RunsSpec => []RunsInv
<1>1. RunsInv /\ [RunsNext]_runsVars => RunsInv'
  <2>1. ASSUME RunsInv, RunsNext PROVE RunsInv'
    BY <2>1, RunsStepTyped, OwnStepKnows, RowsStayInOrder DEF RunsInv, Asking
  <2>2. ASSUME RunsInv, UNCHANGED runsVars PROVE RunsInv'
    BY <2>2 DEF RunsInv, RunsTyped, CreatedInOrder, CreatedBy, LeftBy, UndisturbedBy, runsVars, lifeVars, apiVars
  <2> QED
    BY <2>1, <2>2
<1> QED
  BY <1>1, RunsStart, PTL DEF RunsSpec

\* The rows of executions are created once each, and requests keep to the steps
\* of runInstalledAgent (agents/service.ts).
THEOREM RunsTyping == RunsSpec => []RunsTypeOK
<1>1. ASSUME RunsInv PROVE RunsTypeOK
  <2>1. created \in Seq(Execution) /\ CreatedInOrder
    BY <1>1 DEF RunsInv, RunsTyped
  <2>2. ToSet(created) = {e \in Execution : stored[e] # "absent"}
    BY <2>1 DEF ToSet, CreatedInOrder
  <2>3. IsInjective(created)
    BY <2>1 DEF IsInjective, CreatedInOrder
  <2> QED
    BY <1>1, <2>2, <2>3 DEF RunsInv, RunsTyped, RunsTypeOK
<1> QED
  BY <1>1, RunsInvariance, PTL

\* A refused request leaves a FAILED row and no job (the catch of
\* runInstalledAgent), unless a call failed.
THEOREM RefusedLeavesNothing == RunsSpec => []RefusedNeverRuns
<1>1. RunsInv => RefusedNeverRuns
  BY RunsConstants DEF RunsInv, RunsTyped, CreatedBy, UndisturbedBy, RefusedNeverRuns, Asking
<1> QED
  BY <1>1, RunsInvariance, PTL

\* A RUNNING row is carried by its request or its job, or was left by an API
\* that failed before the add (runInstalledAgent), by a runner that had lost the
\* job, or by a job that failed in trouble (the stalled jobs of worker.ts).
THEOREM RunningCarried == RunsSpec => []RunningIsCarried
<1>1. RunsInv => RunningIsCarried
  BY DEF RunsInv, RunsTyped, CreatedBy, LeftBy, RunningIsCarried, Asking, AskStep, JobState
<1> QED
  BY <1>1, RunsInvariance, PTL

-----------------------------------------------------------------------------
(***************************************************************************)
(* The budget of an agent (AgentBudgets).                                  *)
(***************************************************************************)

\* What a consumer that is about to write read of the row: the API that there
\* was room, and an execution that no more than it will add was over the limit.
ReadWithRoom(c) ==
  consumer[c].at = "write" =>
    /\ consumer[c].row.limit = DefaultLimit
    /\ consumer[c].who = "api" => Total(c) <= DefaultLimit
    /\ consumer[c].who = "worker" => consumer[c].row.consumed <= DefaultLimit + charged

\* Until the limit is edited.
WithinTheLimit ==
  /\ budget.limit = DefaultLimit
  /\ OnlyWorkersOvershoot
  /\ AlertWhileHigh
  /\ \A c \in Consumer : ReadWithRoom(c)

BudgetsInv == BudgetsTypeOK /\ (~edited => WithinTheLimit)

-----------------------------------------------------------------------------
LEMMA BudgetsStart == BudgetsInit => BudgetsInv
<1> SUFFICES ASSUME BudgetsInit PROVE BudgetsInv
  OBVIOUS
<1>1. NewBudget \in Budget /\ NewBudget.consumed = 0 /\ NewBudget.limit = DefaultLimit
      /\ NewBudget.limit \in Nat \ {0}
  BY BudgetConstants DEF NewBudget, Budget, Alert
<1>2. \A x \in NewConsumer : /\ x \in [at: ConsumerStep, who: {"worker", "api"}, cost: Cost, row: Budget]
                             /\ x.at # "write"
  BY <1>1 DEF NewConsumer, ConsumerStep
<1>3. /\ \A c \in Consumer : consumer[c].at # "write"
      /\ consumer \in [Consumer -> [at: ConsumerStep, who: {"worker", "api"}, cost: Cost, row: Budget]]
  BY <1>2 DEF BudgetsInit
<1>4. budget = NewBudget /\ charged = 0 /\ edited = FALSE
  BY DEF BudgetsInit
<1>5. OnlyWorkersOvershoot /\ AlertWhileHigh
  BY <1>1, <1>4 DEF OnlyWorkersOvershoot, AlertWhileHigh, Reaches
<1>6. NewBudget.limit = DefaultLimit
  BY DEF NewBudget
<1> QED
  BY <1>1, <1>3, <1>4, <1>5, <1>6 DEF BudgetsInv, BudgetsTypeOK, WithinTheLimit, ReadWithRoom

LEMMA ConsumerType ==
  ASSUME BudgetsTypeOK, NEW c \in Consumer
  PROVE  /\ consumer[c] \in [at: ConsumerStep, who: {"worker", "api"}, cost: Cost, row: Budget]
         /\ consumer[c].cost \in Nat
         /\ consumer[c].row.consumed \in Nat /\ consumer[c].row.limit \in Nat
         /\ consumer[c].row.alert \in Alert
         /\ budget.consumed \in Nat /\ budget.limit \in Nat /\ budget.alert \in Alert
         /\ charged \in Nat /\ Total(c) \in Nat
<1>1. consumer[c] \in [at: ConsumerStep, who: {"worker", "api"}, cost: Cost, row: Budget]
  BY DEF BudgetsTypeOK
<1>2. consumer[c].cost \in Nat /\ consumer[c].row \in Budget
  BY <1>1, BudgetConstants
<1>3. \A row \in Budget : row.consumed \in Nat /\ row.limit \in Nat /\ row.alert \in Alert
  BY DEF Budget
<1> QED
  BY <1>1, <1>2, <1>3 DEF BudgetsTypeOK, Total

\* A step of c that leaves the row alone; if it comes to write, as it should.
LEMMA ConsumerMoves ==
  ASSUME BudgetsInv, NEW c \in Consumer, UNCHANGED <<budget, charged, edited>>,
         NEW x \in [at: ConsumerStep, who: {"worker", "api"}, cost: Cost, row: Budget],
         consumer' = [consumer EXCEPT ![c] = x],
         ~edited => ReadWithRoom(c)'
  PROVE  BudgetsInv'
<1>1. BudgetsTypeOK'
  BY DEF BudgetsInv, BudgetsTypeOK
<1>2. ASSUME NEW d \in Consumer, ~edited PROVE ReadWithRoom(d)'
  <2>1. CASE d = c
    BY <1>2, <2>1
  <2>2. CASE d # c
    BY <1>2, <2>2 DEF BudgetsInv, BudgetsTypeOK, WithinTheLimit, ReadWithRoom, Total
  <2> QED
    BY <2>1, <2>2
<1> QED
  BY <1>1, <1>2 DEF BudgetsInv, WithinTheLimit, OnlyWorkersOvershoot, AlertWhileHigh, Reaches

LEMMA ReadKeeps ==
  ASSUME BudgetsInv, NEW c \in Consumer, ReadBudget(c)
  PROVE  BudgetsInv'
<1> DEFINE to == IF At(c, "api", "read") /\ ~Fits(c, budget) THEN "refused" ELSE "write"
           x == [consumer[c] EXCEPT !.row = budget, !.at = to]
<1>1. x \in [at: ConsumerStep, who: {"worker", "api"}, cost: Cost, row: Budget]
  BY ConsumerType DEF BudgetsInv, BudgetsTypeOK, ConsumerStep
<1>2. /\ consumer' = [consumer EXCEPT ![c] = x] /\ UNCHANGED <<budget, charged, edited>>
      /\ consumer[c].at = "read"
  BY DEF ReadBudget
<1>3. /\ consumer'[c].row = budget /\ consumer'[c].who = consumer[c].who
      /\ consumer'[c].cost = consumer[c].cost /\ consumer'[c].at = to
  BY <1>2, ConsumerType DEF BudgetsInv, BudgetsTypeOK
<1>4. ASSUME ~edited PROVE ReadWithRoom(c)'
  <2> USE <1>2, <1>3, <1>4, ConsumerType DEF BudgetsInv, WithinTheLimit
  <2>1. consumer'[c].row.limit = DefaultLimit
    OBVIOUS
  <2>2. consumer'[c].who = "api" /\ consumer'[c].at = "write" => Total(c)' <= DefaultLimit
    BY DEF At, Fits, Total
  <2>3. consumer'[c].row.consumed <= DefaultLimit + charged'
    BY DEF OnlyWorkersOvershoot
  <2> QED
    BY <2>1, <2>2, <2>3 DEF ReadWithRoom
<1> QED
  BY <1>1, <1>2, <1>4, ConsumerMoves

LEMMA WriteKeeps ==
  ASSUME BudgetsInv, NEW c \in Consumer, WriteBudget(c)
  PROVE  BudgetsInv'
<1> DEFINE alert == IF consumer[c].who = "api" THEN AlertOfTheApi(c) ELSE AlertOfTheWorker(c)
           due == IF consumer[c].who = "worker" THEN charged + consumer[c].cost ELSE charged
<1>1. /\ budget \in Budget /\ consumer[c].at = "write" /\ consumer[c].who \in {"worker", "api"}
      /\ budget' = [budget EXCEPT !.consumed = Total(c), !.alert = alert]
      /\ charged' = due /\ edited' = edited /\ charged' \in Nat /\ charged' >= charged
  BY ConsumerType DEF WriteBudget, BudgetsInv, BudgetsTypeOK
<1>2. budget'.consumed = Total(c) /\ budget'.limit = budget.limit /\ budget'.alert = alert
  BY <1>1 DEF Budget
<1>3. alert \in Alert
  BY ConsumerType DEF AlertOfTheApi, AlertOfTheWorker, Alert, BudgetsInv
<1>4. budget' \in Budget
  BY <1>1, <1>2, <1>3, ConsumerType DEF Budget, BudgetsInv
<1>5. consumer' = [consumer EXCEPT ![c].at = "charged"]
  BY DEF WriteBudget, ConsumerTo
<1>6. BudgetsTypeOK'
  BY <1>1, <1>4, <1>5 DEF BudgetsInv, BudgetsTypeOK, ConsumerStep
<1>7. ASSUME ~edited, NEW d \in Consumer PROVE ReadWithRoom(d)'
  <2>1. ReadWithRoom(d) /\ charged' >= charged /\ charged \in Nat /\ charged' \in Nat
    BY <1>1, <1>7, ConsumerType DEF BudgetsInv, WithinTheLimit
  <2>2. CASE d = c
    BY <1>5, <1>6, <2>2 DEF ReadWithRoom, BudgetsInv, BudgetsTypeOK
  <2>3. CASE d # c
    <3>1. consumer'[d] = consumer[d] /\ consumer[d].row.consumed \in Nat
      BY <1>5, <2>3, ConsumerType DEF BudgetsInv, BudgetsTypeOK
    <3> QED
      BY <2>1, <3>1, BudgetConstants DEF ReadWithRoom, Total
  <2> QED
    BY <2>2, <2>3
<1>8. ASSUME ~edited PROVE /\ budget'.limit = DefaultLimit
                           /\ budget'.consumed <= DefaultLimit + charged'
                           /\ Reaches(budget'.consumed, 80, budget'.limit) => budget'.alert # "none"
  <2>1. /\ budget.limit = DefaultLimit /\ DefaultLimit \in Nat \ {0} /\ consumer[c].row.limit = DefaultLimit
        /\ consumer[c].who = "api" => Total(c) <= DefaultLimit
        /\ consumer[c].who = "worker" => consumer[c].row.consumed <= DefaultLimit + charged
    BY <1>1, <1>8, BudgetConstants DEF BudgetsInv, WithinTheLimit, ReadWithRoom
  <2>2. Total(c) <= DefaultLimit + charged'
    BY <1>1, <2>1, ConsumerType DEF Total, BudgetsInv
  <2>3. Reaches(Total(c), 80, DefaultLimit) => alert # "none"
    BY <2>1 DEF AlertOfTheApi, AlertOfTheWorker
  <2> QED
    BY <1>2, <2>1, <2>2, <2>3
<1> QED
  BY <1>1, <1>6, <1>7, <1>8 DEF BudgetsInv, WithinTheLimit, OnlyWorkersOvershoot, AlertWhileHigh

LEMMA BudgetsInvariance == BudgetsSpec => []BudgetsInv
<1>1. ASSUME BudgetsInv, BudgetsNext PROVE BudgetsInv'
  <2>1. ASSUME NEW c \in Consumer, CheckHeadroom(c) \/ FailExecution(c) PROVE BudgetsInv'
    <3>1. PICK step \in {"read", "block", "refused"} :
            consumer' = [consumer EXCEPT ![c] = [consumer[c] EXCEPT !.at = step]]
      BY <2>1 DEF CheckHeadroom, FailExecution, ConsumerTo
    <3>2. [consumer[c] EXCEPT !.at = step] \in
            [at: ConsumerStep, who: {"worker", "api"}, cost: Cost, row: Budget]
      BY <1>1, ConsumerType DEF BudgetsInv, ConsumerStep
    <3>3. ReadWithRoom(c)'
      BY <1>1, <3>1, <3>2 DEF ReadWithRoom, BudgetsInv, BudgetsTypeOK
    <3> QED
      BY <1>1, <2>1, <3>1, <3>2, <3>3, ConsumerMoves DEF CheckHeadroom, FailExecution
  <2>2. ASSUME NEW c \in Consumer, BlockExecution(c) PROVE BudgetsInv'
    <3>1. /\ budget' = [budget EXCEPT !.alert = "BLOCK_100"] /\ UNCHANGED <<charged, edited>>
          /\ consumer' = [consumer EXCEPT ![c].at = "refused"]
      BY <2>2 DEF BlockExecution, ConsumerTo
    <3>2. BudgetsTypeOK'
      BY <1>1, <3>1 DEF BudgetsInv, BudgetsTypeOK, Budget, Alert, ConsumerStep
    <3>3. \A d \in Consumer : ReadWithRoom(d) => ReadWithRoom(d)'
      BY <1>1, <3>1 DEF BudgetsInv, BudgetsTypeOK, ReadWithRoom, Total
    <3>4. budget'.consumed = budget.consumed /\ budget'.limit = budget.limit /\ budget'.alert = "BLOCK_100"
      BY <1>1, <3>1 DEF BudgetsInv, BudgetsTypeOK, Budget
    <3> QED
      BY <1>1, <3>1, <3>2, <3>3, <3>4 DEF BudgetsInv, WithinTheLimit, OnlyWorkersOvershoot, AlertWhileHigh
  <2>3. ASSUME NEW limit \in Limits, SetLimit(limit) PROVE BudgetsInv'
    BY <1>1, <2>3, BudgetConstants DEF SetLimit, BudgetsInv, BudgetsTypeOK, Budget
  <2> QED
    BY <1>1, <2>1, <2>2, <2>3, ReadKeeps, WriteKeeps DEF BudgetsNext
<1>2. ASSUME BudgetsInv, UNCHANGED budgetVars PROVE BudgetsInv'
  BY <1>2 DEF budgetVars, BudgetsInv, BudgetsTypeOK, WithinTheLimit, OnlyWorkersOvershoot,
     AlertWhileHigh, ReadWithRoom, Total
<1> QED
  BY <1>1, <1>2, BudgetsStart, PTL DEF BudgetsSpec

\* The row and what consumers read of it keep the shape of AgentBudget
\* (schema.prisma), whatever is charged.
THEOREM BudgetsTyping == BudgetsSpec => []BudgetsTypeOK
  BY BudgetsInvariance, PTL DEF BudgetsInv

\* API consumptions never pass the limit, and executions by no more than they
\* charge (BudgetService.consumeBudget and consumeBudget of the runtime).
THEOREM ApiStaysWithinLimit == BudgetsSpec => []OnlyWorkersOvershoot
<1>1. BudgetsInv => OnlyWorkersOvershoot
  BY DEF BudgetsInv, WithinTheLimit, OnlyWorkersOvershoot
<1> QED
  BY <1>1, BudgetsInvariance, PTL

\* 80% of the limit is never consumed without an alert in the row, whichever
\* service wrote it last.
THEOREM HighIsAlerted == BudgetsSpec => []AlertWhileHigh
<1>1. BudgetsInv => AlertWhileHigh
  BY DEF BudgetsInv, WithinTheLimit, AlertWhileHigh
<1> QED
  BY <1>1, BudgetsInvariance, PTL

-----------------------------------------------------------------------------
(***************************************************************************)
(* Members and invites (TenantMembers): what the checks of the two routes   *)
(* keep true until they write, if nobody writes the rows of the actor and  *)
(* the target meanwhile.                                                   *)
(***************************************************************************)

\* A request, as it is started; the last two kinds are of a person on itself.
Ask ==
  {op \in [at: {"target", "write", "accept"}, kind: ManageKind \cup OwnerKind \cup {"erase", "accept"},
           actor: Person, target: Person, role: MemberRole, as: MemberRole \cup {"none"},
           invite: Invite \cup {"none"}, late: BOOLEAN] :
     /\ op.kind \in {"erase", "accept"} => op.actor = op.target
     /\ op.at = "accept" => op.kind = "accept"}

OpsOK ==
  /\ member \in [Person -> [role: MemberRole, status: MemberStatus]]
  /\ suspended \subseteq Person
  /\ memberOp \in [MemberOp -> Ask \cup {[at |-> "done"]}]

InTime(o) == memberOp[o].at # "done" /\ ~memberOp[o].late

\* A request that nobody overtook.  Of the users route: its actor still is what
\* it was read as, and is not its target, whose role was checked before the
\* request comes to write.  Of the organizations route: its actor still is in
\* charge.
Unchanged(o) ==
  InTime(o) =>
    /\ memberOp[o].kind \in ManageKind =>
         /\ memberOp[o].as \in AtLeastAdmin /\ MayAct(memberOp[o].actor, {memberOp[o].as})
         /\ memberOp[o].actor # memberOp[o].target
         /\ memberOp[o].at = "write" => CanManageRole(memberOp[o].as, RoleOf(memberOp[o].target))
    /\ memberOp[o].kind \in OwnerKind => MayAct(memberOp[o].actor, AtLeastOwner)

ReadsHold == \A o \in MemberOp : Unchanged(o)

MembersInv == OpsOK /\ ReadsHold

LEMMA DoneOrAsk ==
  ASSUME OpsOK, NEW o \in MemberOp
  PROVE  /\ memberOp[o].at # "done" => memberOp[o] \in Ask
         /\ memberOp[o].at = "done" => memberOp[o] = [at |-> "done"]
<1>1. memberOp[o] \in Ask \cup {[at |-> "done"]}
  BY DEF OpsOK
<1>2. ASSUME memberOp[o] \in Ask PROVE memberOp[o].at # "done"
  BY <1>2 DEF Ask
<1> QED
  BY <1>1, <1>2

-----------------------------------------------------------------------------
\* A step that writes no member and at most marks requests as late or ends them.
LEMMA QuietStep ==
  ASSUME ReadsHold, UNCHANGED <<member, suspended>>,
         \A r \in MemberOp :
           \/ memberOp'[r] = memberOp[r] \/ memberOp'[r].at = "done"
           \/ memberOp'[r].late
  PROVE  ReadsHold'
<1> SUFFICES ASSUME NEW r \in MemberOp PROVE Unchanged(r)'
  BY DEF ReadsHold
<1>1. CASE memberOp'[r] = memberOp[r]
  BY <1>1 DEF ReadsHold, Unchanged, InTime, MayAct, RoleOf, CanManageRole
<1>2. CASE memberOp'[r].at = "done" \/ memberOp'[r].late
  BY <1>2 DEF Unchanged, InTime
<1> QED
  BY <1>1, <1>2

\* One that starts the request o, or moves it on.
LEMMA OwnStep ==
  ASSUME ReadsHold, UNCHANGED <<member, suspended>>, NEW o \in MemberOp, Unchanged(o)',
         \A r \in MemberOp \ {o} : memberOp'[r] = memberOp[r]
  PROVE  ReadsHold'
<1> SUFFICES ASSUME NEW r \in MemberOp, r # o PROVE Unchanged(r)'
  BY DEF ReadsHold
<1> QED
  BY DEF ReadsHold, Unchanged, InTime, MayAct, RoleOf, CanManageRole

\* One that writes the rows of p: the requests about p become late.
StaysAsItIs(q) == member'[q] = member[q] /\ (q \in suspended' <=> q \in suspended)

LEMMA WritingStep ==
  ASSUME MembersInv, NEW o \in MemberOp, NEW p \in Person, OpEndsWriting(o, p),
         \A q \in Person \ {p} : StaysAsItIs(q)
  PROVE  ReadsHold'
<1> SUFFICES ASSUME NEW r \in MemberOp, InTime(r)' PROVE Unchanged(r)'
  BY DEF ReadsHold, Unchanged
<1>1. memberOp'[r] = IF r = o THEN [at |-> "done"]
                     ELSE IF p \in Concerns(memberOp[r]) THEN [memberOp[r] EXCEPT !.late = TRUE]
                     ELSE memberOp[r]
  BY DEF OpEndsWriting
<1>2. r # o
  BY <1>1 DEF InTime
<1>3. p \notin Concerns(memberOp[r])
  <2>1. ASSUME p \in Concerns(memberOp[r]) PROVE FALSE
    <3>1. memberOp[r] \in Ask
      BY <2>1, DoneOrAsk DEF Concerns, MembersInv
    <3>2. memberOp'[r] = [memberOp[r] EXCEPT !.late = TRUE]
      BY <1>1, <1>2, <2>1
    <3> QED
      BY <3>1, <3>2 DEF InTime, Ask
  <2> QED
    BY <2>1
<1>4. memberOp'[r] = memberOp[r] /\ InTime(r)
  BY <1>1, <1>2, <1>3 DEF InTime
<1>5. memberOp[r] \in Ask /\ p # memberOp[r].actor /\ p # memberOp[r].target
  BY <1>3, <1>4, DoneOrAsk DEF InTime, Concerns, MembersInv
<1>6. StaysAsItIs(memberOp[r].actor) /\ StaysAsItIs(memberOp[r].target)
  BY <1>5 DEF Ask
<1> QED
  BY <1>4, <1>6 DEF MembersInv, ReadsHold, Unchanged, StaysAsItIs, MayAct, RoleOf, CanManageRole

-----------------------------------------------------------------------------
LEMMA ManageStarts ==
  ASSUME MembersInv, NEW o \in MemberOp, NEW actor \in Person, NEW target \in Person,
         NEW role \in MemberRole, NEW kind \in ManageKind,
         StartManage(o, kind, actor, target, role)
  PROVE  MembersInv'
<1> DEFINE asked == [at |-> "target", kind |-> kind, actor |-> actor, target |-> target,
                     role |-> role, as |-> RoleOf(actor), invite |-> "none", late |-> FALSE]
<1>1. /\ asked \in Ask /\ OpStarts(o, asked) /\ actor # target
      /\ asked.as \in AtLeastAdmin /\ MayAct(actor, {asked.as})
  BY DEF StartManage, MayManage, MayAct, AtLeastAdmin, AtLeastOwner, Ask, MemberRole, ManageKind
<1>2. UNCHANGED <<member, suspended>> /\ memberOp' = [memberOp EXCEPT ![o] = asked]
  BY <1>1 DEF OpStarts
<1>3. OpsOK'
  BY <1>1, <1>2 DEF MembersInv, OpsOK
<1>4. memberOp'[o] = asked /\ \A r \in MemberOp \ {o} : memberOp'[r] = memberOp[r]
  BY <1>2 DEF MembersInv, OpsOK
<1>5. Unchanged(o)'
  BY <1>1, <1>2, <1>4 DEF Unchanged, InTime, MayAct, RoleOf, ManageKind, OwnerKind
<1> QED
  BY <1>2, <1>3, <1>4, <1>5, OwnStep DEF MembersInv

\* The others start a request of which nothing is to be kept but its own check.
LEMMA OthersStart ==
  ASSUME MembersInv, NEW o \in MemberOp, NEW op \in Ask, OpStarts(o, op),
         op.kind \notin ManageKind, op.kind \in OwnerKind => MayAct(op.actor, AtLeastOwner)
  PROVE  MembersInv'
<1>1. UNCHANGED <<member, suspended>> /\ memberOp' = [memberOp EXCEPT ![o] = op]
  BY DEF OpStarts
<1>2. memberOp'[o] = op /\ \A r \in MemberOp \ {o} : memberOp'[r] = memberOp[r]
  BY <1>1 DEF MembersInv, OpsOK
<1>3. Unchanged(o)'
  BY <1>1, <1>2 DEF Unchanged, MayAct, RoleOf
<1> QED
  BY <1>1, <1>2, <1>3, OwnStep DEF MembersInv, OpsOK

LEMMA OwnerStarts ==
  ASSUME MembersInv, NEW o \in MemberOp, NEW actor \in Person, NEW target \in Person,
         NEW role \in MemberRole, NEW kind \in OwnerKind,
         StartOwner(o, kind, actor, target, role)
  PROVE  MembersInv'
<1> DEFINE asked == [at |-> "write", kind |-> kind, actor |-> actor, target |-> target,
                     role |-> role, as |-> RoleOf(actor), invite |-> "none", late |-> FALSE]
<1>1. /\ asked \in Ask /\ OpStarts(o, asked) /\ asked.kind \notin ManageKind
      /\ MayAct(asked.actor, AtLeastOwner)
  BY DEF StartOwner, MayAct, AtLeastOwner, Ask, MemberRole, OwnerKind, ManageKind
<1> QED
  BY <1>1, OthersStart

LEMMA EndsKeep ==
  ASSUME MembersInv, NEW o \in MemberOp, OpEnds(o), UNCHANGED <<member, suspended>>
  PROVE  MembersInv'
<1>1. memberOp' = [memberOp EXCEPT ![o] = [at |-> "done"]]
  BY DEF OpEnds
<1>2. OpsOK'
  BY <1>1 DEF MembersInv, OpsOK
<1>3. \A r \in MemberOp : memberOp'[r] = memberOp[r] \/ memberOp'[r].at = "done"
  BY <1>1 DEF MembersInv, OpsOK
<1> QED
  BY <1>2, <1>3, QuietStep DEF MembersInv

\* Marking requests as late leaves them requests.
LEMMA LateIsAsk ==
  ASSUME MembersInv, NEW r \in MemberOp, NEW x, x \in Concerns(memberOp[r])
  PROVE  [memberOp[r] EXCEPT !.late = TRUE] \in Ask
<1>1. memberOp[r] \in Ask
  BY DoneOrAsk DEF Concerns, MembersInv
<1> QED
  BY <1>1 DEF Ask

LEMMA WritesKeep ==
  ASSUME MembersInv, NEW o \in MemberOp, NEW p \in Person, OpEndsWriting(o, p),
         NEW row \in [role: MemberRole, status: MemberStatus],
         member' = [member EXCEPT ![p] = row], suspended' \in {suspended, suspended \cup {p}}
  PROVE  MembersInv'
<1>1. \A q \in Person \ {p} : StaysAsItIs(q)
  BY DEF MembersInv, OpsOK, StaysAsItIs
<1>2. \A r \in MemberOp : memberOp'[r] \in Ask \cup {[at |-> "done"]}
  BY LateIsAsk DEF OpEndsWriting, MembersInv, OpsOK
<1>3. memberOp' = [r \in MemberOp |-> memberOp'[r]]
  BY DEF OpEndsWriting
<1>4. OpsOK'
  BY <1>2, <1>3 DEF MembersInv, OpsOK
<1> QED
  BY <1>1, <1>4, WritingStep DEF MembersInv

LEMMA CheckKeeps ==
  ASSUME MembersInv, NEW o \in MemberOp, CheckTarget(o)
  PROVE  MembersInv'
<1>1. memberOp[o].at = "target" /\ UNCHANGED <<member, suspended>> /\ memberOp[o] \in Ask
  BY DoneOrAsk DEF CheckTarget, MembersInv
<1>2. ASSUME OpMoves(o, "write"), CanManageRole(memberOp[o].as, RoleOf(memberOp[o].target))
      PROVE  MembersInv'
  <2> DEFINE moved == [memberOp[o] EXCEPT !.at = "write"]
  <2>1. moved \in Ask
    BY <1>1 DEF Ask
  <2>2. memberOp' = [memberOp EXCEPT ![o] = moved]
    BY <1>2 DEF OpMoves
  <2>3. memberOp'[o] = moved /\ (\A r \in MemberOp \ {o} : memberOp'[r] = memberOp[r]) /\ OpsOK'
    BY <1>1, <2>1, <2>2 DEF MembersInv, OpsOK
  <2>4. /\ moved.kind = memberOp[o].kind /\ moved.late = memberOp[o].late /\ moved.as = memberOp[o].as
        /\ moved.actor = memberOp[o].actor /\ moved.target = memberOp[o].target
    BY <1>1 DEF Ask
  <2>5. Unchanged(o)'
    BY <1>1, <1>2, <2>3, <2>4
       DEF MembersInv, ReadsHold, Unchanged, InTime, MayAct, RoleOf, CanManageRole
  <2> QED
    BY <1>1, <2>3, <2>5, OwnStep DEF MembersInv
<1>3. CASE OpEnds(o)
  BY <1>1, <1>3, EndsKeep
<1> QED
  BY <1>2, <1>3 DEF CheckTarget

\* The actions that write a person do so as the end of a request about it.
Writes(o) ==
  WriteManaged(o) \/ SuspendManaged(o) \/ WriteOwned(o) \/ EraseMember(o) \/ AcceptInvite(o)

LEMMA WriteRoutesKeep ==
  ASSUME MembersInv, NEW o \in MemberOp, Writes(o)
  PROVE  MembersInv'
<1> DEFINE p == memberOp[o].target
<1>1. memberOp[o] \in Ask /\ p \in Person
  BY DoneOrAsk DEF Writes, WriteManaged, SuspendManaged, WriteOwned, EraseMember, AcceptInvite,
     MembersInv, Ask
<1>2. member[p] \in [role: MemberRole, status: MemberStatus] /\ memberOp[o].role \in MemberRole
  BY <1>1 DEF MembersInv, OpsOK, Ask
<1>3. ASSUME OpEnds(o), UNCHANGED <<member, suspended>> PROVE MembersInv'
  BY <1>3, EndsKeep
<1>4. ASSUME OpEndsWriting(o, p), NEW row \in [role: MemberRole, status: MemberStatus],
             member' = [member EXCEPT ![p] = row], suspended' \in {suspended, suspended \cup {p}}
      PROVE  MembersInv'
  BY <1>1, <1>4, WritesKeep
<1>5. /\ [member[p] EXCEPT !.role = memberOp[o].role] \in [role: MemberRole, status: MemberStatus]
      /\ [member[p] EXCEPT !.status = "REVOKED"] \in [role: MemberRole, status: MemberStatus]
      /\ [member[p] EXCEPT !.status = IF @ = "none" THEN @ ELSE "REVOKED"]
           \in [role: MemberRole, status: MemberStatus]
      /\ NoMember \in [role: MemberRole, status: MemberStatus]
      /\ [role |-> memberOp[o].role, status |-> "ACTIVE"] \in [role: MemberRole, status: MemberStatus]
  BY <1>2 DEF NoMember, MemberRole, MemberStatus
<1>6. CASE WriteManaged(o)
  <2>1. CASE member' = [member EXCEPT ![p] = [member[p] EXCEPT !.role = memberOp[o].role]]
    BY <1>3, <1>4, <1>5, <1>6, <2>1 DEF WriteManaged
  <2>2. CASE member' = [member EXCEPT ![p] = [member[p] EXCEPT !.status = "REVOKED"]]
    BY <1>3, <1>4, <1>5, <1>6, <2>2 DEF WriteManaged
  <2> QED
    BY <1>3, <1>6, <2>1, <2>2 DEF WriteManaged
<1>7. CASE SuspendManaged(o)
  <2>1. member' = [member EXCEPT ![p] = member[p]]
    BY <1>1, <1>7 DEF SuspendManaged, MembersInv, OpsOK
  <2> QED
    BY <1>2, <1>4, <1>7, <2>1 DEF SuspendManaged
<1>8. CASE WriteOwned(o)
  <2>1. CASE member' = [member EXCEPT ![p] = [member[p] EXCEPT !.role = memberOp[o].role]]
    BY <1>3, <1>4, <1>5, <1>8, <2>1 DEF WriteOwned
  <2>2. CASE member' = [member EXCEPT ![p] = NoMember]
    BY <1>3, <1>4, <1>5, <1>8, <2>2 DEF WriteOwned
  <2> QED
    BY <1>3, <1>8, <2>1, <2>2 DEF WriteOwned
<1>9. CASE EraseMember(o)
  <2>1. member' = [member EXCEPT ![p] =
                     [member[p] EXCEPT !.status = IF @ = "none" THEN @ ELSE "REVOKED"]]
    BY <1>9 DEF EraseMember
  <2> QED
    BY <1>4, <1>5, <1>9, <2>1 DEF EraseMember
<1>10. CASE AcceptInvite(o)
  BY <1>3, <1>4, <1>5, <1>10 DEF AcceptInvite
<1> QED
  BY <1>6, <1>7, <1>8, <1>9, <1>10 DEF Writes

LEMMA RevokeKeeps ==
  ASSUME MembersInv, NEW i \in Invite, RevokeInvite(i)
  PROVE  MembersInv'
<1>1. /\ UNCHANGED <<member, suspended>>
      /\ memberOp' = [o \in MemberOp |->
           IF i \in Concerns(memberOp[o]) THEN [memberOp[o] EXCEPT !.late = TRUE] ELSE memberOp[o]]
  BY DEF RevokeInvite
<1>2. \A r \in MemberOp : memberOp'[r] \in Ask \cup {[at |-> "done"]}
  BY <1>1, LateIsAsk DEF MembersInv, OpsOK
<1>3. \A r \in MemberOp : memberOp'[r] = memberOp[r] \/ memberOp'[r].late
  <2> SUFFICES ASSUME NEW r \in MemberOp, i \in Concerns(memberOp[r]) PROVE memberOp'[r].late
    BY <1>1
  <2>1. memberOp[r] \in Ask /\ memberOp'[r] = [memberOp[r] EXCEPT !.late = TRUE]
    BY <1>1, DoneOrAsk DEF Concerns, MembersInv
  <2> QED
    BY <2>1 DEF Ask
<1>4. OpsOK'
  BY <1>1, <1>2 DEF MembersInv, OpsOK
<1> QED
  BY <1>1, <1>3, <1>4, QuietStep DEF MembersInv

-----------------------------------------------------------------------------
(* The invariant *)

LEMMA MembersInitInv == MembersInit => MembersInv
<1> SUFFICES ASSUME MembersInit PROVE MembersInv
  OBVIOUS
<1>1. OpsOK
  BY DEF MembersInit, OpsOK, NoMember, MemberRole, MemberStatus
<1>2. ReadsHold
  BY DEF MembersInit, ReadsHold, Unchanged, InTime
<1> QED
  BY <1>1, <1>2 DEF MembersInv

LEMMA AcceptStarts ==
  ASSUME MembersInv, invite \in [Invite -> [role: RoleSchema, status: StatusOfInvite, expired: BOOLEAN]],
         NEW o \in MemberOp, NEW i \in Invite, NEW p \in Person, StartAccept(o, i, p)
  PROVE  MembersInv'
<1> DEFINE asked == [at |-> "accept", kind |-> "accept", actor |-> p, target |-> p,
                     role |-> invite[i].role, as |-> "none", invite |-> i, late |-> FALSE]
<1>1. asked \in Ask /\ OpStarts(o, asked) /\ asked.kind \notin ManageKind \cup OwnerKind
  BY DEF StartAccept, Ask, ManageKind, OwnerKind, RoleSchema
<1> QED
  BY <1>1, OthersStart

LEMMA EraseStarts ==
  ASSUME MembersInv, NEW o \in MemberOp, NEW p \in Person, StartErase(o, p)
  PROVE  MembersInv'
<1> DEFINE asked == [at |-> "write", kind |-> "erase", actor |-> p, target |-> p,
                     role |-> "MEMBER", as |-> RoleOf(p), invite |-> "none", late |-> FALSE]
<1>1. asked \in Ask /\ OpStarts(o, asked) /\ asked.kind \notin ManageKind \cup OwnerKind
  BY DEF StartErase, Ask, ManageKind, OwnerKind, MemberRole, RoleOf, MembersInv, OpsOK
<1> QED
  BY <1>1, OthersStart

InvitesOK ==
  /\ invite \in [Invite -> [role: RoleSchema, status: StatusOfInvite, expired: BOOLEAN]]
  /\ opsLeft \in 0..MaxOps

AllInv == MembersInv /\ InvitesOK

LEMMA StepKeepsReads == MembersInv /\ InvitesOK /\ [MembersNext]_memberVars => MembersInv'
<1> SUFFICES ASSUME MembersInv, InvitesOK, [MembersNext]_memberVars PROVE MembersInv'
  OBVIOUS
<1>1. ASSUME NEW o \in MemberOp, CheckTarget(o) PROVE MembersInv'
  BY <1>1, CheckKeeps
<1>2. ASSUME NEW o \in MemberOp, Writes(o) PROVE MembersInv'
  BY <1>2, WriteRoutesKeep
<1>3. ASSUME NEW o \in MemberOp, NEW p \in Person, StartErase(o, p) PROVE MembersInv'
  BY <1>3, EraseStarts
<1>4. ASSUME NEW o \in MemberOp, NEW p \in Person, NEW i \in Invite, StartAccept(o, i, p)
      PROVE  MembersInv'
  BY <1>4, AcceptStarts DEF InvitesOK
<1>5. ASSUME NEW o \in MemberOp, NEW actor \in Person, NEW target \in Person,
             NEW role \in MemberRole, NEW kind \in ManageKind,
             StartManage(o, kind, actor, target, role)
      PROVE  MembersInv'
  BY <1>5, ManageStarts
<1>6. ASSUME NEW o \in MemberOp, NEW actor \in Person, NEW target \in Person,
             NEW role \in MemberRole, NEW kind \in OwnerKind,
             StartOwner(o, kind, actor, target, role)
      PROVE  MembersInv'
  BY <1>6, OwnerStarts
<1>7. ASSUME NEW i \in Invite, RevokeInvite(i) PROVE MembersInv'
  BY <1>7, RevokeKeeps
<1>8. ASSUME UNCHANGED <<member, suspended, memberOp>> PROVE MembersInv'
  <2>1. OpsOK'
    BY <1>8 DEF MembersInv, OpsOK
  <2> QED
    BY <1>8, <2>1, QuietStep DEF MembersInv
<1>9. ASSUME CleanupInvites \/ UNCHANGED memberVars \/
             \E i \in Invite : InviteExpires(i) \/ \E role \in RoleSchema : CreateInvite(i, role)
      PROVE  MembersInv'
  <2>1. UNCHANGED <<member, suspended, memberOp>>
    BY <1>9 DEF CleanupInvites, InviteExpires, CreateInvite, memberVars
  <2> QED
    BY <1>8, <2>1
<1>10. /\ RoleSchema \subseteq MemberRole /\ "MEMBER" \in MemberRole
       /\ {"role", "remove", "suspend"} \subseteq ManageKind
       /\ {"ownerRole", "ownerRemove"} \subseteq OwnerKind
  BY DEF RoleSchema, MemberRole, ManageKind, OwnerKind
<1> QED
  BY <1>1, <1>2, <1>3, <1>4, <1>5, <1>6, <1>7, <1>9, <1>10 DEF MembersNext, Writes

LEMMA StepKeepsInvites == InvitesOK /\ [MembersNext]_memberVars => InvitesOK'
<1> SUFFICES ASSUME InvitesOK, [MembersNext]_memberVars PROVE InvitesOK'
  OBVIOUS
<1>1. ASSUME NEW o \in MemberOp, NEW op, OpStarts(o, op), invite' = invite PROVE InvitesOK'
  BY <1>1, MembersConstants DEF OpStarts, InvitesOK
<1>2. ASSUME NEW o \in MemberOp, CheckTarget(o) \/ WriteManaged(o) \/ SuspendManaged(o)
             \/ WriteOwned(o) \/ EraseMember(o)
      PROVE  InvitesOK'
  BY <1>2 DEF CheckTarget, WriteManaged, SuspendManaged, WriteOwned, EraseMember, InvitesOK
<1>3. ASSUME NEW o \in MemberOp, AcceptInvite(o) PROVE InvitesOK'
  BY <1>3 DEF AcceptInvite, InvitesOK, StatusOfInvite
<1>4. ASSUME NEW o \in MemberOp, NEW p \in Person, StartErase(o, p) PROVE InvitesOK'
  BY <1>4, MembersConstants DEF StartErase, OpStarts, InvitesOK
<1>5. ASSUME NEW o \in MemberOp, NEW p \in Person, NEW i \in Invite, StartAccept(o, i, p)
      PROVE  InvitesOK'
  BY <1>5, MembersConstants DEF StartAccept, OpStarts, InvitesOK
<1>6. ASSUME NEW o \in MemberOp, NEW actor \in Person, NEW target \in Person, NEW role, NEW kind,
             StartManage(o, kind, actor, target, role) \/ StartOwner(o, kind, actor, target, role)
      PROVE  InvitesOK'
  BY <1>6, MembersConstants DEF StartManage, StartOwner, OpStarts, InvitesOK
<1>7. ASSUME NEW i \in Invite, RevokeInvite(i) \/ InviteExpires(i) PROVE InvitesOK'
  BY <1>7 DEF RevokeInvite, InviteExpires, InvitesOK, StatusOfInvite
<1>8. ASSUME NEW i \in Invite, NEW role \in RoleSchema, CreateInvite(i, role) PROVE InvitesOK'
  BY <1>8 DEF CreateInvite, InvitesOK, StatusOfInvite
<1>9. CASE CleanupInvites
  BY <1>9 DEF CleanupInvites, InvitesOK, NoInvite, RoleSchema, MemberRole, StatusOfInvite
<1>10. CASE UNCHANGED memberVars
  BY <1>10 DEF memberVars, InvitesOK
<1> QED
  BY <1>2, <1>3, <1>4, <1>5, <1>6, <1>7, <1>8, <1>9, <1>10 DEF MembersNext

LEMMA MembersInvariance == MembersSpec => []AllInv
<1>1. MembersInit => AllInv
  BY MembersInitInv, MembersConstants
     DEF AllInv, InvitesOK, MembersInit, NoInvite, RoleSchema, MemberRole, StatusOfInvite
<1>2. AllInv /\ [MembersNext]_memberVars => AllInv'
  BY StepKeepsReads, StepKeepsInvites DEF AllInv
<1> QED
  BY <1>1, <1>2, PTL DEF MembersSpec

\* Every row and every request keeps to its shape (schema.prisma, Membership and
\* Invite).
THEOREM MembersTyping == MembersSpec => []MembersTypeOK
<1>1. AllInv => MembersTypeOK
  BY DEF AllInv, MembersInv, OpsOK, InvitesOK, MembersTypeOK, Ask
<1> QED
  BY <1>1, MembersInvariance, PTL

-----------------------------------------------------------------------------
(* How an organization loses those in charge of it *)

LEMMA WritesOne ==
  ASSUME MembersInv, NEW o \in MemberOp, Writes(o)
  PROVE  /\ memberOp[o] \in Ask /\ memberOp[o].at \in {"write", "accept"}
         /\ memberOp'[o].at = "done"
         /\ \A q \in Person \ {memberOp[o].target} : StaysAsItIs(q)
<1>1. memberOp[o].at \in {"write", "accept"} /\ memberOp[o] \in Ask
  BY DoneOrAsk DEF Writes, WriteManaged, SuspendManaged, WriteOwned, EraseMember, AcceptInvite, MembersInv
<1>2. memberOp'[o].at = "done"
  BY DEF Writes, WriteManaged, SuspendManaged, WriteOwned, EraseMember, AcceptInvite, OpEnds,
     OpEndsWriting, MembersInv, OpsOK
<1>3. \A q \in Person \ {memberOp[o].target} : StaysAsItIs(q)
  BY DEF Writes, WriteManaged, SuspendManaged, WriteOwned, EraseMember, AcceptInvite, StaysAsItIs,
     MembersInv, OpsOK
<1> QED
  BY <1>1, <1>2, <1>3

LEMMA WhoWrites ==
  ASSUME [MembersNext]_memberVars
  PROVE  UNCHANGED <<member, suspended>> \/ \E o \in MemberOp : Writes(o)
BY DEF MembersNext, memberVars, Writes, CheckTarget, StartErase, StartAccept, StartManage, StartOwner,
   OpStarts, RevokeInvite, InviteExpires, CreateInvite, CleanupInvites

\* The last person in charge goes by its own request or invite, outside of the
\* users route, or by a request whose actor or target was written after it was
\* checked (users/router.ts, assertManageableTarget and the writes after it;
\* organizations/router.ts, RequireRole and the write after it).
THEOREM LastOwnerStays == MembersSpec => OwnerRemains
<1>1. ASSUME AllInv, [MembersNext]_memberVars, InCharge # {}, InCharge' = {}
      PROVE  \E o \in MemberOp :
               /\ memberOp[o].at \in {"write", "accept"} /\ memberOp'[o].at = "done"
               /\ \/ memberOp[o].kind \notin ManageKind /\ InCharge = {memberOp[o].actor}
                  \/ memberOp[o].late
  <2>1. \A p \in InCharge : ~StaysAsItIs(p)
    BY <1>1 DEF InCharge, MayAct, RoleOf, StaysAsItIs
  <2>2. PICK o \in MemberOp : Writes(o)
    BY <1>1, <2>1, WhoWrites DEF StaysAsItIs
  <2> DEFINE op == memberOp[o]
  <2>3. /\ op \in Ask /\ op.at \in {"write", "accept"} /\ memberOp'[o].at = "done"
        /\ \A q \in Person \ {op.target} : StaysAsItIs(q)
    BY <1>1, <2>2, WritesOne DEF AllInv
  <2>4. InCharge = {op.target}
    BY <1>1, <2>1, <2>3 DEF InCharge
  <2>5. ASSUME ~op.late PROVE op.kind \notin ManageKind /\ op.actor = op.target
    <3>1. /\ op.kind \in ManageKind =>
               /\ op.as \in AtLeastAdmin /\ MayAct(op.actor, {op.as}) /\ op.actor # op.target
               /\ op.at = "write" => CanManageRole(op.as, RoleOf(op.target))
          /\ op.kind \in OwnerKind => MayAct(op.actor, AtLeastOwner)
      BY <1>1, <2>3, <2>5 DEF AllInv, MembersInv, ReadsHold, Unchanged, InTime
    <3>2. op.actor \in Person /\ op.kind \in ManageKind \cup OwnerKind \cup {"erase", "accept"}
          /\ (op.kind \in {"erase", "accept"} => op.actor = op.target)
      BY <2>3 DEF Ask
    <3>3. ASSUME op.kind \in ManageKind PROVE FALSE
      <4>1. op.at = "write"
        BY <2>3, <3>3 DEF Ask, ManageKind
      <4>2. op.as \notin AtLeastOwner
        BY <2>4, <3>1, <3>2, <3>3 DEF InCharge, MayAct
      <4>3. RoleOf(op.target) \in {"MEMBER", "READONLY"}
        BY <3>1, <3>3, <4>1, <4>2 DEF CanManageRole
      <4> QED
        BY <2>4, <4>3 DEF InCharge, MayAct, AtLeastOwner
    <3>4. op.kind \in OwnerKind => op.actor = op.target
      BY <2>4, <3>1, <3>2 DEF InCharge
    <3> QED
      BY <3>2, <3>3, <3>4
  <2> QED
    BY <2>3, <2>4, <2>5
<1>2. AllInv /\ [MembersNext]_memberVars =>
        [InCharge # {} /\ InCharge' = {} =>
           \E o \in MemberOp :
             /\ memberOp[o].at \in {"write", "accept"} /\ memberOp'[o].at = "done"
             /\ \/ memberOp[o].kind \notin ManageKind /\ InCharge = {memberOp[o].actor}
                \/ memberOp[o].late]_memberVars
  BY <1>1
<1> QED
  BY <1>2, MembersInvariance, PTL DEF OwnerRemains, MembersSpec

\* An administrator takes charge away from a person only by a request that was
\* overtaken (auth.service.ts, canManageRole).
THEOREM OwnersAboveAdmins == MembersSpec => AdminsKeepBelowOwners
<1>1. ASSUME AllInv, NEW o \in MemberOp, WriteManaged(o) \/ SuspendManaged(o),
             memberOp[o].as = "ADMIN", memberOp[o].target \in InCharge \ InCharge'
      PROVE  memberOp[o].late
  <2>1. memberOp[o] \in Ask /\ memberOp[o].at = "write" /\ memberOp[o].kind \in ManageKind
    BY <1>1, WritesOne DEF AllInv, Writes, WriteManaged, SuspendManaged, ManageKind
  <2>2. ASSUME ~memberOp[o].late PROVE FALSE
    <3>1. CanManageRole(memberOp[o].as, RoleOf(memberOp[o].target))
      BY <1>1, <2>1, <2>2 DEF AllInv, MembersInv, ReadsHold, Unchanged, InTime
    <3> QED
      BY <1>1, <3>1 DEF CanManageRole, InCharge, MayAct, AtLeastOwner
  <2> QED
    BY <2>2
<1>2. AllInv /\ [MembersNext]_memberVars =>
        [\A o \in MemberOp :
           /\ WriteManaged(o) \/ SuspendManaged(o)
           /\ memberOp[o].as = "ADMIN" /\ memberOp[o].target \in InCharge \ InCharge'
           => memberOp[o].late]_memberVars
  BY <1>1
<1> QED
  BY <1>2, MembersInvariance, PTL DEF AdminsKeepBelowOwners, MembersSpec

-----------------------------------------------------------------------------
(***************************************************************************)
(* A connector account (Connectors).                                       *)
(***************************************************************************)

ConnRequest ==
  [at: {"new", "write", "credentials", "done", "failed"}, kind: ConnKind, tokens: BOOLEAN,
   session: ConnOp \cup {NoSession}, status: ConnStatus, late: BOOLEAN]

ConnTyped ==
  /\ account \in [status: ConnStatus, session: ConnOp \cup {NoSession}]
  /\ credentials \in BOOLEAN /\ cursor \in BOOLEAN
  /\ connOp \in [ConnOp -> ConnRequest]

Unedited == \A o \in ConnOp : connOp[o].kind = "edit" => connOp[o].at = "new"
Tokens == credentials \/ \E o \in ConnOp : connOp[o].at \in {"credentials", "failed"}
Syncing(o) == connOp[o].kind = "sync" /\ connOp[o].at = "write"

\* What a synchronization will write back is what it should be.
SyncsHaveTokens ==
  Unedited /\ (account.status = "active" \/ \E o \in ConnOp : Syncing(o) /\ connOp[o].status = "active")
    => Tokens
SyncsInTime == \A o \in ConnOp : Syncing(o) /\ ~connOp[o].late => connOp[o].status = account.status

ConnInv == ConnTyped /\ SyncsHaveTokens /\ SyncsInTime

-----------------------------------------------------------------------------
LEMMA ConnStart == ConnInit => ConnInv
<1> SUFFICES ASSUME ConnInit PROVE ConnInv
  OBVIOUS
<1>1. \A x \in NewConnRequest : x \in ConnRequest /\ x.at = "new"
  BY DEF NewConnRequest, ConnRequest, ConnStatus
<1>2. connOp \in [ConnOp -> ConnRequest] /\ \A o \in ConnOp : connOp[o].at = "new"
  BY <1>1 DEF ConnInit
<1> QED
  BY <1>2 DEF ConnInit, ConnInv, ConnTyped, SyncsHaveTokens, SyncsInTime, Syncing, ConnStatus

\* Every step is one of a request o, which leaves the data of the others alone
\* but for their lateness, goes on, and keeps what stands for tokens.
ConnAction(o) ==
  \/ CreateSession(o) \/ EditConnector(o) \/ ReadSession(o) \/ FinalizeSession(o)
  \/ UpsertCredentials(o) \/ ReadForSync(o) \/ WriteSync(o)

OthersGoOn(o) ==
  \A r \in ConnOp \ {o} :
    /\ connOp'[r].at = connOp[r].at /\ connOp'[r].kind = connOp[r].kind
    /\ connOp'[r].status = connOp[r].status
    /\ connOp[r].late => connOp'[r].late

GoesTo(o, step) ==
  /\ connOp' \in [ConnOp -> ConnRequest] /\ OthersGoOn(o)
  /\ connOp'[o].kind = connOp[o].kind /\ connOp'[o].at = step

LEMMA WritingGoes ==
  ASSUME ConnTyped, NEW o \in ConnOp, NEW step \in {"write", "credentials", "done", "failed"},
         GoesWriting(o, step)
  PROVE  /\ GoesTo(o, step)
         /\ \A r \in ConnOp \ {o} : connOp[r].at = "write" => connOp'[r].late
<1> DEFINE was(r) == connOp[r].late \/ connOp[r].at = "write"
<1>1. \A r \in ConnOp : connOp[r] \in ConnRequest
  BY DEF ConnTyped
<1>2. /\ DOMAIN connOp' = ConnOp /\ connOp' = [r \in ConnOp |-> connOp'[r]]
      /\ connOp'[o] = [connOp[o] EXCEPT !.at = step]
      /\ \A r \in ConnOp \ {o} : connOp'[r] = [connOp[r] EXCEPT !.late = was(r)]
  BY DEF GoesWriting
<1>3. connOp'[o] \in ConnRequest /\ connOp'[o].kind = connOp[o].kind /\ connOp'[o].at = step
  BY <1>1, <1>2 DEF ConnRequest
<1>4. ASSUME NEW r \in ConnOp \ {o}
      PROVE  /\ connOp'[r] \in ConnRequest
             /\ connOp'[r].at = connOp[r].at /\ connOp'[r].kind = connOp[r].kind
             /\ connOp'[r].status = connOp[r].status /\ connOp'[r].late = was(r)
  <2>1. \A x \in ConnRequest : \A l \in BOOLEAN :
          /\ [x EXCEPT !.late = l] \in ConnRequest
          /\ [x EXCEPT !.late = l].at = x.at /\ [x EXCEPT !.late = l].kind = x.kind
          /\ [x EXCEPT !.late = l].status = x.status /\ [x EXCEPT !.late = l].late = l
    BY DEF ConnRequest
  <2>2. was(r) \in BOOLEAN
    OBVIOUS
  <2>3. PICK l \in BOOLEAN : l = was(r)
    BY <2>2
  <2>4. connOp'[r] = [connOp[r] EXCEPT !.late = l]
    BY <1>2, <2>3
  <2> HIDE DEF was
  <2> QED
    BY <1>1, <2>1, <2>3, <2>4
<1>5. \A r \in ConnOp \ {o} : was(r) => connOp'[r].late
  BY <1>4
<1> QED
  BY <1>2, <1>3, <1>4, <1>5 DEF GoesTo, OthersGoOn

LEMMA ReadingGoes ==
  ASSUME ConnTyped, NEW o \in ConnOp, NEW step \in {"write", "credentials", "done", "failed"},
         NEW session \in ConnOp \cup {NoSession},
         Goes(o, step) \/ GoesReading(o, step, session)
  PROVE  /\ GoesTo(o, step)
         /\ GoesReading(o, step, session) => connOp'[o].status = account.status
<1>1. \A r \in ConnOp : connOp[r] \in ConnRequest
  BY DEF ConnTyped
<1>2. ASSUME Goes(o, step) PROVE GoesTo(o, step)
  BY <1>1, <1>2 DEF Goes, GoesTo, OthersGoOn, ConnTyped, ConnRequest
<1>3. ASSUME GoesReading(o, step, session)
      PROVE  GoesTo(o, step) /\ connOp'[o].status = account.status
  <2> DEFINE x == [connOp[o] EXCEPT !.at = step, !.session = session, !.status = account.status]
  <2>1. x \in ConnRequest /\ x.at = step /\ x.kind = connOp[o].kind /\ x.status = account.status
    BY <1>1 DEF ConnTyped, ConnRequest
  <2>2. connOp' = [connOp EXCEPT ![o] = x]
    BY <1>3 DEF GoesReading
  <2> QED
    BY <2>1, <2>2 DEF GoesTo, OthersGoOn, ConnTyped
<1> QED
  BY <1>2, <1>3

LEMMA ConnStepOf ==
  ASSUME ConnTyped, NEW o \in ConnOp, ConnAction(o)
  PROVE  /\ ConnTyped'
         /\ \E step \in {"write", "credentials", "done", "failed"} : GoesTo(o, step)
         /\ connOp[o].at \in {"new", "write", "credentials"}
         /\ connOp[o].at = "credentials" => UpsertCredentials(o)
<1> USE DEF ConnOn
<1>1. CASE CreateSession(o)
  BY <1>1, WritingGoes DEF CreateSession, ConnTyped, ConnStatus, GoesTo
<1>2. CASE EditConnector(o)
  BY <1>2, WritingGoes DEF EditConnector, ConnTyped, ConnStatus, GoesTo
<1>3. CASE ReadSession(o)
  BY <1>3, ReadingGoes DEF ReadSession, ConnTyped, GoesTo
<1>4. CASE FinalizeSession(o)
  BY <1>4, WritingGoes DEF FinalizeSession, ConnTyped, ConnStatus, GoesTo
<1>5. CASE UpsertCredentials(o)
  BY <1>5, ReadingGoes DEF UpsertCredentials, ConnTyped, GoesTo
<1>6. CASE ReadForSync(o)
  BY <1>6, ReadingGoes DEF ReadForSync, ConnTyped, GoesTo
<1>7. CASE WriteSync(o)
  <2>1. StatusAfterSync(o) \in ConnStatus
    BY DEF StatusAfterSync, ConnTyped, ConnRequest, ConnStatus
  <2> QED
    BY <1>7, <2>1, WritingGoes DEF WriteSync, ConnTyped, GoesTo
<1> QED
  BY <1>1, <1>2, <1>3, <1>4, <1>5, <1>6, <1>7 DEF ConnAction

\* Tokens that are stored, on their way or lost stay so.
LEMMA TokensStay ==
  ASSUME ConnTyped, NEW o \in ConnOp, ConnAction(o)
  PROVE  /\ Tokens => Tokens'
         /\ Unedited' => Unedited /\ ~EditConnector(o)
<1>1. OthersGoOn(o) /\ connOp'[o].kind = connOp[o].kind /\ connOp'[o].at # "new"
      /\ connOp[o].at \in {"new", "write", "credentials"}
      /\ (connOp[o].at = "credentials" => UpsertCredentials(o))
  BY ConnStepOf DEF GoesTo
<1>2. credentials => credentials'
  BY DEF ConnAction, CreateSession, EditConnector, ReadSession, FinalizeSession,
     UpsertCredentials, ReadForSync, WriteSync
<1>3. UpsertCredentials(o) => credentials' \/ connOp'[o].at = "failed"
  BY DEF UpsertCredentials, Goes, ConnTyped, ConnRequest
<1>4. Tokens => Tokens'
  BY <1>1, <1>2, <1>3 DEF Tokens, OthersGoOn
<1>5. Unedited' => Unedited /\ ~EditConnector(o)
  BY <1>1 DEF Unedited, OthersGoOn, EditConnector, ConnOn
<1> QED
  BY <1>4, <1>5

\* A request is about to write back the status it has just read.
LEMMA SyncStarts ==
  ASSUME ConnTyped, NEW o \in ConnOp, ConnAction(o), Syncing(o)'
  PROVE  GoesReading(o, "write", NoSession) /\ UNCHANGED account
<1>1. connOp'[o].kind = connOp[o].kind
  BY ConnStepOf DEF GoesTo
<1>2. connOp[o].kind = "sync" /\ connOp'[o].at = "write"
  BY <1>1 DEF Syncing
<1>3. ReadForSync(o) \/ UpsertCredentials(o) \/ WriteSync(o)
  BY <1>2 DEF ConnAction, CreateSession, EditConnector, ReadSession, FinalizeSession, ConnOn
<1>4. ~UpsertCredentials(o)
  BY <1>2, ReadingGoes DEF UpsertCredentials, GoesTo
<1>5. ~WriteSync(o)
  BY <1>2, WritingGoes DEF WriteSync, GoesTo
<1>6. ~Goes(o, "done")
  BY <1>2, ReadingGoes DEF GoesTo
<1> QED
  BY <1>3, <1>4, <1>5, <1>6 DEF ReadForSync

LEMMA SyncsKeepTokens ==
  ASSUME ConnInv, NEW o \in ConnOp, ConnAction(o)
  PROVE  SyncsHaveTokens'
<1> DEFINE Active == account.status = "active"
                     \/ \E r \in ConnOp : Syncing(r) /\ connOp[r].status = "active"
<1>1. ConnTyped /\ OthersGoOn(o) /\ (Tokens => Tokens')
      /\ (Unedited' => Unedited /\ ~EditConnector(o)) /\ connOp'[o].kind = connOp[o].kind
  BY ConnStepOf, TokensStay DEF ConnInv, GoesTo
<1>2. ASSUME ~EditConnector(o), account'.status = "active" PROVE Active \/ Tokens'
  <2>1. CASE FinalizeSession(o)
    BY <1>1, <1>2, <2>1, WritingGoes DEF FinalizeSession, Tokens, GoesTo
  <2>2. CASE WriteSync(o)
    <3>1. connOp[o].status = "active" /\ Syncing(o)
      BY <1>1, <1>2, <2>2 DEF WriteSync, StatusAfterSync, Syncing, ConnOn, ConnTyped
    <3> QED
      BY <3>1
  <2> QED
    BY <1>1, <1>2, <2>1, <2>2 DEF ConnAction, CreateSession, ReadSession, UpsertCredentials, ReadForSync
<1>3. ASSUME NEW r \in ConnOp, Syncing(r)', connOp'[r].status = "active", r # o PROVE Active
  BY <1>1, <1>3 DEF OthersGoOn, Syncing
<1>4. ASSUME Syncing(o)', connOp'[o].status = "active" PROVE Active
  <2>1. GoesReading(o, "write", NoSession) /\ UNCHANGED account
    BY <1>1, <1>4, SyncStarts DEF ConnInv
  <2> QED
    BY <1>1, <1>4, <2>1, ReadingGoes
<1> QED
  BY <1>1, <1>2, <1>3, <1>4 DEF ConnInv, SyncsHaveTokens

LEMMA SyncsStayInTime ==
  ASSUME ConnInv, NEW o \in ConnOp, ConnAction(o)
  PROVE  SyncsInTime'
<1> SUFFICES ASSUME NEW r \in ConnOp, Syncing(r)', ~connOp'[r].late
             PROVE  connOp'[r].status = account'.status
  BY DEF SyncsInTime
<1>1. ConnTyped /\ OthersGoOn(o)
  BY ConnStepOf DEF ConnInv, GoesTo
<1>2. CASE r = o
  BY <1>1, <1>2, SyncStarts, ReadingGoes
<1>3. CASE r # o
  <2>1. Syncing(r) /\ ~connOp[r].late /\ connOp'[r].status = connOp[r].status
    BY <1>1, <1>3 DEF OthersGoOn, Syncing
  <2>2. \/ UNCHANGED account
        \/ \E step \in {"write", "credentials", "done", "failed"} : GoesWriting(o, step)
    BY DEF ConnAction, CreateSession, EditConnector, ReadSession, FinalizeSession, UpsertCredentials,
       ReadForSync, WriteSync
  <2>3. ASSUME NEW step \in {"write", "credentials", "done", "failed"}, GoesWriting(o, step)
        PROVE  connOp'[r].late
    BY <1>1, <1>3, <2>1, <2>3, WritingGoes DEF Syncing
  <2> QED
    BY <2>1, <2>2, <2>3 DEF ConnInv, SyncsInTime
<1> QED
  BY <1>2, <1>3

LEMMA ConnInvariance == ConnSpec => []ConnInv
<1>1. ASSUME ConnInv, ConnNext PROVE ConnInv'
  BY <1>1, ConnStepOf, SyncsKeepTokens, SyncsStayInTime DEF ConnNext, ConnAction, ConnInv
<1>2. ASSUME ConnInv, UNCHANGED connVars PROVE ConnInv'
  BY <1>2 DEF connVars, ConnInv, ConnTyped, SyncsHaveTokens, SyncsInTime, Syncing, Tokens, Unedited
<1> QED
  BY <1>1, <1>2, ConnStart, PTL DEF ConnSpec

\* The account and its requests keep to their shapes (schema.prisma,
\* ConnectorAccount).
THEOREM ConnTyping == ConnSpec => []ConnTypeOK
<1>1. ConnInv => ConnTypeOK
  BY DEF ConnInv, ConnTyped, ConnRequest, ConnTypeOK
<1> QED
  BY <1>1, ConnInvariance, PTL

\* An account that was not edited is active only with tokens
\* (finalizeConnectSession activates before it stores them), also when
\* synchronizations write back what they read.
THEOREM ActiveWithTokens == ConnSpec => []ActiveHasTokens
<1>1. ConnInv => ActiveHasTokens
  BY DEF ConnInv, SyncsHaveTokens, Unedited, Tokens, ActiveHasTokens
<1> QED
  BY <1>1, ConnInvariance, PTL

\* triggerSync takes an account out of active only if the account was written
\* between its read and its write.
THEOREM SyncKeepsActive == ConnSpec => SyncKeepsConnection
<1>1. ASSUME ConnInv, NEW o \in ConnOp, WriteSync(o), account.status = "active",
             account'.status # "active"
      PROVE  connOp[o].late
  BY <1>1 DEF ConnInv, ConnTyped, ConnRequest, SyncsInTime, Syncing, WriteSync, ConnOn, StatusAfterSync
<1>2. ConnInv /\ [ConnNext]_connVars =>
        [\A o \in ConnOp :
           WriteSync(o) /\ account.status = "active" /\ account'.status # "active" =>
             connOp[o].late]_connVars
  BY <1>1
<1> QED
  BY <1>2, ConnInvariance, PTL DEF SyncKeepsConnection, ConnSpec

-----------------------------------------------------------------------------
(***************************************************************************)
(* The company of an organization (CompanySync).                           *)
(***************************************************************************)

\* Synchronizations that may have made a company.
Posted == {c \in CrmSync : crm[c] \in {"store", "done"}}

CrmTyped ==
  /\ company \in [made: Nat, known: BOOLEAN] /\ company.made <= Cardinality(Posted)
  /\ crm \in [CrmSync -> CrmStep] /\ crmLate \subseteq CrmSync

\* Once there is a company, a synchronization is about to make another only if
\* it is late, and one that starts is, until the id of the company is stored.
LateOnes ==
  company.made > 0 =>
    /\ \A c \in CrmSync : crm[c] = "post" => c \in crmLate
    /\ company.known \/ crmLate = CrmSync \/ \E d \in CrmSync : crm[d] = "store"

CrmInv == CrmTyped /\ LateOnes

-----------------------------------------------------------------------------
LEMMA PostedFinite ==
  ASSUME NEW S \in SUBSET CrmSync
  PROVE  IsFiniteSet(S) /\ Cardinality(S) \in Nat /\ Cardinality(S) <= Cardinality(CrmSync)
  BY CrmConstants, FS_Subset, FS_CardinalityType DEF CrmConstants

LEMMA CrmStart == CrmInit => CrmInv
  BY PostedFinite, FS_EmptySet DEF CrmInit, CrmInv, CrmTyped, LateOnes, CrmStep, Posted

LEMMA CrmStepTyped ==
  ASSUME CrmInv, NEW c \in CrmSync,
         LoadSnapshot(c) \/ PostCompany(c) \/ PatchCompany(c) \/ StoreCompany(c)
  PROVE  CrmTyped'
<1> USE DEF CrmInv, CrmTyped
<1>1. company' \in [made: Nat, known: BOOLEAN] /\ crm' \in [CrmSync -> CrmStep]
      /\ crmLate' \subseteq CrmSync
  <2>1. CASE LoadSnapshot(c)
    BY <2>1 DEF LoadSnapshot, CrmStep
  <2>2. CASE PostCompany(c)
    BY <2>2 DEF PostCompany, CrmStep
  <2>3. CASE PatchCompany(c)
    BY <2>3 DEF PatchCompany, CrmStep
  <2>4. CASE StoreCompany(c)
    BY <2>4 DEF StoreCompany, CrmStep
  <2> QED
    BY <2>1, <2>2, <2>3, <2>4
<1>2. Posted \subseteq Posted' /\ Posted' \subseteq CrmSync
  BY DEF LoadSnapshot, PostCompany, PatchCompany, StoreCompany, Posted
<1>3. Cardinality(Posted) <= Cardinality(Posted') /\ IsFiniteSet(Posted)
      /\ Cardinality(Posted) \in Nat /\ Cardinality(Posted') \in Nat
  <2>1. Posted' \in SUBSET CrmSync /\ Posted \in SUBSET CrmSync
    BY <1>2
  <2>2. IsFiniteSet(Posted) /\ IsFiniteSet(Posted')
        /\ Cardinality(Posted) \in Nat /\ Cardinality(Posted') \in Nat
    BY <2>1, PostedFinite
  <2> QED
    BY <1>2, <2>2, FS_Subset
<1>4. CASE company'.made = company.made
  BY <1>1, <1>3, <1>4
<1>5. CASE company'.made # company.made
  <2>1. PostCompany(c) /\ company'.made = company.made + 1 /\ crm[c] = "post"
        /\ crm'[c] \in {"store", "done"}
    BY <1>5 DEF LoadSnapshot, PostCompany, PatchCompany, StoreCompany
  <2>2. c \notin Posted /\ Posted \cup {c} \subseteq Posted'
    BY <1>2, <2>1 DEF Posted
  <2>3. Cardinality(Posted \cup {c}) = Cardinality(Posted) + 1
    BY <1>3, <2>2, FS_AddElement
  <2>4. IsFiniteSet(Posted') /\ Cardinality(Posted \cup {c}) <= Cardinality(Posted')
    <3>1. Posted' \in SUBSET CrmSync
      BY <1>2
    <3>2. IsFiniteSet(Posted')
      BY <3>1, PostedFinite
    <3> QED
      BY <2>2, <3>2, FS_Subset
  <2> QED
    BY <1>1, <1>3, <2>1, <2>3, <2>4
<1> QED
  BY <1>4, <1>5

LEMMA LateStay ==
  ASSUME CrmInv, NEW c \in CrmSync,
         LoadSnapshot(c) \/ PostCompany(c) \/ PatchCompany(c) \/ StoreCompany(c)
  PROVE  LateOnes'
<1> USE DEF CrmInv, CrmTyped, LateOnes
<1>1. CASE LoadSnapshot(c)
  BY <1>1 DEF LoadSnapshot
<1>2. CASE PostCompany(c)
  BY <1>2 DEF PostCompany
<1>3. CASE PatchCompany(c)
  BY <1>3 DEF PatchCompany
<1>4. CASE StoreCompany(c)
  BY <1>4 DEF StoreCompany
<1> QED
  BY <1>1, <1>2, <1>3, <1>4

LEMMA CrmInvariance == CrmSpec => []CrmInv
<1>1. ASSUME CrmInv, CrmNext PROVE CrmInv'
  BY <1>1, CrmStepTyped, LateStay DEF CrmNext, CrmInv
<1>2. ASSUME CrmInv, UNCHANGED crmVars PROVE CrmInv'
  BY <1>2 DEF crmVars, CrmInv, CrmTyped, LateOnes, Posted
<1> QED
  BY <1>1, <1>2, CrmStart, PTL DEF CrmSpec

\* No more companies are made than there are synchronizations, each of which
\* posts once.
THEOREM CrmTyping == CrmSpec => []CrmTypeOK
<1>1. ASSUME CrmInv PROVE CrmTypeOK
  <2>1. Posted \in SUBSET CrmSync
    BY DEF Posted
  <2>2. Cardinality(Posted) \in Nat /\ Cardinality(Posted) <= Cardinality(CrmSync)
        /\ Cardinality(CrmSync) \in Nat
    BY <2>1, PostedFinite
  <2> QED
    BY <1>1, <2>2 DEF CrmInv, CrmTyped, CrmTypeOK
<1> QED
  BY <1>1, CrmInvariance, PTL

\* syncOrganizationToHubspot makes a second company only when it overlapped one
\* that made the first, or when the first could not be told or stored.
THEOREM OneCompanyUnlessLate == CrmSpec => OneCompany
<1>1. ASSUME CrmInv, NEW c \in CrmSync, PostCompany(c), company.made > 0 PROVE c \in crmLate
  BY <1>1 DEF CrmInv, LateOnes, PostCompany
<1>2. CrmInv /\ [CrmNext]_crmVars =>
        [\A c \in CrmSync :
           PostCompany(c) /\ company.made > 0 /\ company'.made > company.made => c \in crmLate]_crmVars
  BY <1>1
<1> QED
  BY <1>2, CrmInvariance, PTL DEF OneCompany, CrmSpec
=============================================================================
