------------------------ MODULE WorkflowRunner_proofs ------------------------
(***************************************************************************)
(* Proofs about WorkflowRunner, for every canvas, number of slots,         *)
(* executions and attempts, and any number of crashes and redeliveries:    *)
(* types, the invariant of rows, jobs and handlers, and what rests on it:  *)
(* the quota, which several slots pass together, the depth, which they     *)
(* write from stale reads, the reasons of final statuses, which rest on    *)
(* both, and that the engine implements WorkflowProgress.                  *)
(***************************************************************************)
EXTENDS WorkflowRunner, FiniteSetTheorems, TLAPS

-----------------------------------------------------------------------------
(* The values the helpers return.                                          *)

LEMMA AttemptType == ASSUME NEW j \in JobId PROVE AttemptOf(j) \in 1 .. MaxAttempts
  BY RunnerAssumption DEF AttemptOf, JobId

LEMMA NextType ==
  ASSUME NEW i \in DOMAIN Canvases, NEW key, NEW out, NEW failed
  PROVE  NextTransitions(Canvases[i], key, out, failed) \subseteq Edge
  <1>1. Canvases[i].edges \subseteq Edge
    BY RunnerAssumption DEF IsCanvas, Edge
  <1>2. QED
    BY <1>1 DEF NextTransitions

LEMMA RowType ==
  ASSUME NEW w \in Worker, job[w] \in JobId, NEW status \in {"SUCCESS", "FAILED"},
         NEW out \in BOOLEAN
  PROVE  RowOf(w, status, out) \in Row
  BY AttemptType DEF RowOf, Row, JobId

\* Queue.add keeps the queue's type.
LEMMA AddJobType ==
  ASSUME NEW j \in JobId, AddJob(j),
         jobState \in [JobId -> {"absent", "wait", "active", "completed", "failed"}]
  PROVE  jobState' \in [JobId -> {"absent", "wait", "active", "completed", "failed"}]
  BY DEF AddJob

\* The end of a handler clears its locals.
LEMMA ReleaseType ==
  ASSUME NEW w \in Worker, Release(w), TypeOK
  PROVE  /\ pc' \in [Worker -> Pc]
         /\ job' \in [Worker -> JobId \cup {NoJob}]
         /\ seenDepth' \in [Worker -> Nat]
         /\ seenCanvas' \in [Worker -> DOMAIN Canvases \cup {0}]
         /\ output' \in [Worker -> BOOLEAN]
         /\ todo' \in [Worker -> SUBSET Edge]
         /\ caught' \in [Worker -> BOOLEAN]
  BY DEF Release, TypeOK, Pc

-----------------------------------------------------------------------------
(* Type correctness.  What a handler read before it goes on must be there: *)
(* its job, the workflow, and for a trigger the execution it created.      *)

Reading == {"idle", "readExecution", "readWorkflow", "abort", "ack", "nack"}

HandlersAreBound ==
  /\ \A w \in Worker :
       /\ pc[w] # "idle" => job[w] \in JobId
       /\ pc[w] \notin Reading => seenCanvas[w] \in DOMAIN Canvases
       /\ pc[w] = "retry" => AttemptOf(job[w]) < MaxAttempts
  /\ \A t \in TriggerJob :
       /\ trigState[t] \in {"create", "dispatch"} => trigCanvas[t] \in DOMAIN Canvases
       /\ trigState[t] = "dispatch" => trigExec[t] \in Exec

\* A lock is held on active jobs only, and a job that can still be delivered
\* has attempts left.
QueueIsSound ==
  \A j \in JobId :
    /\ owner[j] # NoWorker => jobState[j] = "active"
    /\ jobState[j] \in {"absent", "wait", "active"} => deliveries[j] < MaxDeliveries

Typed == TypeOK /\ HandlersAreBound /\ QueueIsSound

LEMMA AddJobQueue ==
  ASSUME NEW j \in JobId, AddJob(j), TypeOK, QueueIsSound, UNCHANGED <<deliveries, owner>>
  PROVE  QueueIsSound'
  BY DEF AddJob, TypeOK, QueueIsSound

LEMMA TypeStep ==
  Typed /\ [RunnerNext]_vars => Typed'
  <1> USE RunnerAssumption, JobAssumption
  <1> SUFFICES ASSUME Typed, [RunnerNext]_vars
               PROVE  Typed'
    OBVIOUS
  <1> USE DEF Typed
  <1>1. ASSUME NEW t \in TriggerJob, TriggerFires(t) PROVE Typed'
    BY <1>1 DEF TriggerFires, TypeOK, HandlersAreBound, QueueIsSound, Reading, execVars, wfVars, queueVars, localVars
  <1>2. ASSUME NEW t \in TriggerJob, ReadPublished(t) PROVE Typed'
    BY <1>2 DEF ReadPublished, TypeOK, HandlersAreBound, QueueIsSound, Reading, execVars, wfVars, queueVars, localVars
  <1>3. ASSUME NEW t \in TriggerJob, TriggerLost(t) PROVE Typed'
    BY <1>3 DEF TriggerLost, TypeOK, HandlersAreBound, QueueIsSound, Reading, execVars, wfVars, queueVars, localVars
  <1>4. ASSUME NEW t \in TriggerJob, NEW e \in Exec, CreateExecution(t, e) PROVE Typed'
    BY <1>4 DEF CreateExecution, SetStatus, TypeOK, HandlersAreBound, QueueIsSound, Reading, wfVars, queueVars, localVars
  <1>5. ASSUME NEW t \in TriggerJob, DispatchTrigger(t) PROVE Typed'
    <2>1. CASE Canvases[trigCanvas[t]].trigger = NoKey
      BY <1>5, <2>1 DEF DispatchTrigger, SetStatus, TypeOK, HandlersAreBound, QueueIsSound, Reading,
         wfVars, localVars
    <2>2. CASE Canvases[trigCanvas[t]].trigger # NoKey
      <3> DEFINE j == [exec |-> trigExec[t], key |-> Canvases[trigCanvas[t]].trigger, stamp |-> 1]
      <3>1. j \in JobId
        <4>1. IsCanvas(Canvases[trigCanvas[t]]) /\ trigExec[t] \in Exec
          BY <1>5 DEF DispatchTrigger, HandlersAreBound
        <4>2. Canvases[trigCanvas[t]].trigger \in Key
          BY <2>2, <4>1 DEF IsCanvas
        <4>3. QED
          BY <4>1, <4>2 DEF JobId
      <3>2. AddJob(j)
        BY <1>5, <2>2 DEF DispatchTrigger
      <3>3. jobState' \in [JobId -> {"absent", "wait", "active", "completed", "failed"}]
        BY <3>1, <3>2, AddJobType DEF TypeOK
      <3>4. QueueIsSound'
        BY <1>5, <3>1, <3>2, AddJobQueue DEF DispatchTrigger
      <3>5. QED
        BY <1>5, <2>2, <3>3, <3>4 DEF DispatchTrigger, TypeOK, HandlersAreBound, Reading,
           wfVars, localVars
    <2>3. QED
      BY <2>1, <2>2
  <1>6. ASSUME NEW w \in Worker, ReadExecution(w) PROVE Typed'
    BY <1>6 DEF ReadExecution, JobId, TypeOK, HandlersAreBound, QueueIsSound, Reading, Pc, Goto,
       execVars, wfVars, queueVars, trigVars
  <1>7. ASSUME NEW w \in Worker, ReadWorkflow(w) PROVE Typed'
    BY <1>7 DEF ReadWorkflow, TypeOK, HandlersAreBound, QueueIsSound, Reading, Pc, Goto, SetStatus,
       execVars, wfVars, queueVars, trigVars, localVars
  <1>8. ASSUME NEW w \in Worker, ReadQuota(w) PROVE Typed'
    BY <1>8 DEF ReadQuota, TypeOK, HandlersAreBound, QueueIsSound, Reading, Pc, Goto, SetStatus,
       execVars, wfVars, queueVars, trigVars, localVars
  <1>9. ASSUME NEW w \in Worker, Charge(w) PROVE Typed'
    BY <1>9 DEF Charge, TypeOK, HandlersAreBound, QueueIsSound, Reading, Pc, Goto, SetStatus,
       execVars, wfVars, queueVars, trigVars, localVars
  <1>10. ASSUME NEW w \in Worker, Succeed(w) PROVE Typed'
    BY <1>10 DEF Succeed, TypeOK, HandlersAreBound, QueueIsSound, Reading, Pc, Goto, SetStatus,
       execVars, wfVars, queueVars, trigVars, localVars
  <1>11. ASSUME NEW w \in Worker, Abort(w) PROVE Typed'
    BY <1>11 DEF Abort, TypeOK, HandlersAreBound, QueueIsSound, Reading, Pc, Goto, SetStatus,
       execVars, wfVars, queueVars, trigVars, localVars
  <1>12. ASSUME NEW w \in Worker, InfraError(w) PROVE Typed'
    BY <1>12 DEF InfraError, TypeOK, HandlersAreBound, QueueIsSound, Reading, Pc, Goto, SetStatus,
       execVars, wfVars, queueVars, trigVars, localVars
  <1>13. ASSUME NEW w \in Worker, Execute(w) PROVE Typed'
    <2>1. StepOutputs(Canvases[seenCanvas[w]], job[w].key) \subseteq BOOLEAN
      BY Zenon DEF StepOutputs
    <2>2. output' \in [Worker -> BOOLEAN]
      BY <1>13, <2>1 DEF Execute, TypeOK
    <2>3. pc' = [pc EXCEPT ![w] = "record"] \/ pc' = [pc EXCEPT ![w] = "catch"]
      BY <1>13 DEF Execute, Goto
    <2>4. QED
      BY <1>13, <2>2, <2>3 DEF Execute, TypeOK, HandlersAreBound, QueueIsSound, Reading, Pc,
         execVars, wfVars, queueVars, trigVars
  <1>14. ASSUME NEW w \in Worker, RecordSuccess(w) PROVE Typed'
    <2>1. RowOf(w, "SUCCESS", output[w]) \in Row
      BY <1>14, RowType DEF RecordSuccess, TypeOK, HandlersAreBound
    <2>2. results' \subseteq Row
      BY <1>14, <2>1 DEF RecordSuccess, TypeOK
    <2>3. QED
      BY <1>14, <2>2 DEF RecordSuccess, TypeOK, HandlersAreBound, QueueIsSound, Reading, Pc, Goto,
         wfVars, queueVars, trigVars, localVars
  <1>15. ASSUME NEW w \in Worker, BumpDepth(w) PROVE Typed'
    <2> DEFINE next == NextTransitions(Canvases[seenCanvas[w]], job[w].key, output[w], FALSE)
    <2>1. next \subseteq Edge
      BY <1>15, NextType DEF BumpDepth, HandlersAreBound, Reading
    <2>2. todo' = [todo EXCEPT ![w] = next] /\ pc' = [pc EXCEPT ![w] = IF next = {} THEN "succeed" ELSE "enqueue"]
      BY <1>15 DEF BumpDepth, Goto
    <2> HIDE DEF next
    <2>3. execDepth' \in [Exec -> Nat]
      BY <1>15 DEF BumpDepth, TypeOK, HandlersAreBound, JobId
    <2>4. todo' \in [Worker -> SUBSET Edge]
      BY <2>1, <2>2 DEF TypeOK
    <2>5. pc' \in [Worker -> Pc] /\ HandlersAreBound' /\ QueueIsSound'
      BY <1>15, <2>2 DEF BumpDepth, TypeOK, HandlersAreBound, QueueIsSound, Reading, Pc, queueVars, trigVars
    <2>6. QED
      BY <1>15, <2>3, <2>4, <2>5 DEF BumpDepth, TypeOK, wfVars, queueVars, trigVars
  <1>16. ASSUME NEW w \in Worker, EnqueueNext(w) PROVE Typed'
    <2>1. PICK edge \in todo[w], now \in MaxAttempts + 1 .. MaxClock :
            /\ ReadClock(now)
            /\ AddJob([exec |-> job[w].exec, key |-> edge.target, stamp |-> now])
            /\ todo' = [todo EXCEPT ![w] = Remaining(w, edge)]
            /\ Goto(w, IF Remaining(w, edge) = {} THEN "ack" ELSE "enqueue")
      BY <1>16 DEF EnqueueNext
    <2>2. [exec |-> job[w].exec, key |-> edge.target, stamp |-> now] \in JobId
      BY <1>16 DEF EnqueueNext, TypeOK, HandlersAreBound, JobId, Edge
    <2>3. jobState' \in [JobId -> {"absent", "wait", "active", "completed", "failed"}]
      BY <2>1, <2>2, AddJobType DEF TypeOK
    <2>4. QueueIsSound'
      BY <1>16, <2>1, <2>2, AddJobQueue DEF EnqueueNext
    <2>5. QED
      BY <1>16, <2>1, <2>3, <2>4 DEF EnqueueNext, Remaining, ReadClock, TypeOK, HandlersAreBound, Reading, Pc,
         Goto, execVars, wfVars, trigVars
  <1>17. ASSUME NEW w \in Worker, RecordFailure(w) PROVE Typed'
    <2> DEFINE fallback == IF job[w].key \in Canvases[seenCanvas[w]].continues
                           THEN NextTransitions(Canvases[seenCanvas[w]], job[w].key, FALSE, TRUE)
                           ELSE {}
    <2>1. fallback \subseteq Edge
      BY <1>17, NextType DEF RecordFailure, RetriesLeft, HandlersAreBound, Reading
    <2>2. RowOf(w, "FAILED", FALSE) \in Row
      BY <1>17, RowType DEF RecordFailure, RetriesLeft, HandlersAreBound
    <2>3. results' = results \/ results' = results \cup {RowOf(w, "FAILED", FALSE)}
      BY <1>17 DEF RecordFailure, RetriesLeft
    <2>4. \/ todo' = todo /\ pc' = [pc EXCEPT ![w] = "nack"]
          \/ todo' = todo /\ pc' = [pc EXCEPT ![w] = "retry"] /\ AttemptOf(job[w]) < MaxAttempts
          \/ /\ todo' = [todo EXCEPT ![w] = fallback]
             /\ pc' = [pc EXCEPT ![w] = IF fallback = {} THEN "abort" ELSE "enqueue"]
      BY <1>17 DEF RecordFailure, RetriesLeft, Goto
    <2> HIDE DEF fallback
    <2>5. seenCanvas[w] \in DOMAIN Canvases /\ job[w] \in JobId
      BY <1>17 DEF RecordFailure, RetriesLeft, HandlersAreBound, Reading
    <2>6. HandlersAreBound' /\ QueueIsSound'
      BY <1>17, <2>4, <2>5 DEF RecordFailure, RetriesLeft, TypeOK, HandlersAreBound, QueueIsSound, Reading, trigVars, queueVars
    <2>7. todo' \in [Worker -> SUBSET Edge] /\ pc' \in [Worker -> Pc]
      BY <2>1, <2>4 DEF TypeOK, Pc
    <2>8. QED
      BY <1>17, <2>2, <2>3, <2>6, <2>7 DEF RecordFailure, RetriesLeft, TypeOK, wfVars, queueVars, trigVars
  <1>18. ASSUME NEW w \in Worker, RetryStep(w) PROVE Typed'
    <2> DEFINE j == RetryOf(job[w])
    <2>1. j \in JobId
      <3>1. job[w] \in JobId /\ AttemptOf(job[w]) < MaxAttempts
        BY <1>18 DEF RetryStep, HandlersAreBound
      <3>2. AttemptOf(job[w]) + 1 \in 1 .. MaxClock
        BY <3>1, AttemptType
      <3>3. QED
        BY <3>1, <3>2 DEF JobId, RetryOf
    <2>2. jobState' \in [JobId -> {"absent", "wait", "active", "completed", "failed"}]
      BY <1>18, <2>1, AddJobType DEF RetryStep, TypeOK
    <2>3. QueueIsSound'
      BY <1>18, <2>1, AddJobQueue DEF RetryStep
    <2>4. QED
      BY <1>18, <2>2, <2>3 DEF RetryStep, TypeOK, HandlersAreBound, Reading, Pc, Goto,
         execVars, wfVars, trigVars, localVars
  <1>19. ASSUME NEW w \in Worker, Ack(w) PROVE Typed'
    <2>1. Release(w) /\ TypeOK
      BY <1>19 DEF Ack
    <2>2. HandlersAreBound'
      BY <1>19, <2>1 DEF Ack, Release, TypeOK, HandlersAreBound, QueueIsSound, Reading, trigVars
    <2>3. /\ jobState' \in [JobId -> {"absent", "wait", "active", "completed", "failed"}]
          /\ deliveries' \in [JobId -> 0 .. MaxDeliveries]
          /\ owner' \in [JobId -> Worker \cup {NoWorker}]
          /\ QueueIsSound'
      BY <1>19 DEF Ack, TypeOK, HandlersAreBound, QueueIsSound, queueVars
    <2>4. QED
      BY <1>19, <2>1, <2>2, <2>3, ReleaseType DEF Ack, TypeOK, execVars, wfVars, queueVars, trigVars
  <1>20. ASSUME NEW w \in Worker, Nack(w) PROVE Typed'
    <2>1. Release(w) /\ TypeOK
      BY <1>20 DEF Nack
    <2>2. HandlersAreBound'
      BY <1>20, <2>1 DEF Nack, DeliveriesLeft, Release, TypeOK, HandlersAreBound, QueueIsSound, Reading, trigVars
    <2>3. /\ jobState' \in [JobId -> {"absent", "wait", "active", "completed", "failed"}]
          /\ deliveries' \in [JobId -> 0 .. MaxDeliveries]
          /\ owner' \in [JobId -> Worker \cup {NoWorker}]
          /\ QueueIsSound'
      BY <1>20 DEF Nack, DeliveriesLeft, TypeOK, HandlersAreBound, QueueIsSound, queueVars
    <2>4. QED
      BY <1>20, <2>1, <2>2, <2>3, ReleaseType DEF Nack, DeliveriesLeft, TypeOK, execVars, wfVars, queueVars, trigVars
  <1>21. ASSUME NEW w \in Worker, Crash(w) PROVE Typed'
    <2>1. Release(w) /\ TypeOK
      BY <1>21 DEF Crash
    <2>2. HandlersAreBound'
      BY <1>21, <2>1 DEF Crash, Release, TypeOK, HandlersAreBound, QueueIsSound, Reading, trigVars
    <2>3. /\ jobState' \in [JobId -> {"absent", "wait", "active", "completed", "failed"}]
          /\ deliveries' \in [JobId -> 0 .. MaxDeliveries]
          /\ owner' \in [JobId -> Worker \cup {NoWorker}]
          /\ QueueIsSound'
      BY <1>21 DEF Crash, TypeOK, HandlersAreBound, QueueIsSound, queueVars
    <2>4. QED
      BY <1>21, <2>1, <2>2, <2>3, ReleaseType DEF Crash, TypeOK, execVars, wfVars, queueVars, trigVars
  <1>22. ASSUME NEW j \in JobId, RecoverStalled(j) PROVE Typed'
    BY <1>22 DEF RecoverStalled, PutBack, TypeOK, HandlersAreBound, QueueIsSound, Reading, execVars, wfVars, trigVars, localVars
  <1>23. ASSUME NEW j \in JobId, LoseLock(j) PROVE Typed'
    BY <1>23 DEF LoseLock, PutBack, TypeOK, HandlersAreBound, QueueIsSound, Reading, execVars, wfVars, trigVars, localVars
  <1>24. ASSUME NEW w \in Worker, NEW j \in JobId, TakeJob(w, j) PROVE Typed'
    BY <1>24 DEF TakeJob, TypeOK, HandlersAreBound, QueueIsSound, Reading, Pc, Goto, execVars, wfVars, trigVars
  <1>25. ASSUME NEW e \in Exec, CancelExecution(e) PROVE Typed'
    BY <1>25 DEF CancelExecution, SetStatus, TypeOK, HandlersAreBound, QueueIsSound, Reading, wfVars, queueVars, trigVars, localVars
  <1>26. CASE UNCHANGED vars
    BY <1>26 DEF vars, TypeOK, HandlersAreBound, QueueIsSound, Reading, execVars, wfVars, queueVars, trigVars, localVars
  <1>27. QED
    BY <1>1, <1>2, <1>3, <1>4, <1>5, <1>6, <1>7, <1>8, <1>9, <1>10, <1>11, <1>12, <1>13, <1>14, <1>15, <1>16, <1>17, <1>18, <1>19, <1>20, <1>21, <1>22, <1>23, <1>24, <1>25, <1>26
       DEF RunnerNext, HandlerStep, TriggerStep

LEMMA TypeStart ==
  Init => Typed
  BY RunnerAssumption, JobAssumption DEF Init, Typed, TypeOK, HandlersAreBound, QueueIsSound, Pc, Reading

\* No query, command or handler step gives a variable a value outside its
\* type, whatever it read before.
THEOREM TypeCorrect == Spec => []Typed
  <1> USE RunnerAssumption, JobAssumption
  <1>1. Init => Typed
    BY TypeStart
  <1>2. Typed /\ [RunnerNext]_vars => Typed'
    BY TypeStep
  <1>3. QED
    BY <1>1, <1>2, PTL DEF Spec

-----------------------------------------------------------------------------
(***************************************************************************)
(* The inductive invariant.  Store is about the two stores, results and    *)
(* queue: rows are unique per attempt, and every job and every row has its *)
(* cause in the rows.  Holds(w) ties the locals of a handler to the stores *)
(* at each of its awaits: what it goes on to enqueue is already caused.    *)
(***************************************************************************)

Due(e, k) ==
  \/ k = Canvases[canvas].trigger
  \/ \E edge \in Canvases[canvas].edges : edge.target = k /\ Followed(e, edge)

Caused(j) ==
  /\ Due(j.exec, j.key)
  /\ \/ j.key = Canvases[canvas].trigger /\ j.stamp = 1
     \/ j.stamp \in 2 .. MaxAttempts /\ \A a \in 1 .. j.stamp - 1 : FailedAt(j.exec, j.key, a)
     \/ /\ j.stamp > MaxAttempts
        /\ \E edge \in Canvases[canvas].edges : edge.target = j.key /\ Followed(j.exec, edge)

UniqueRows ==
  \A r, q \in results : r.exec = q.exec /\ r.key = q.key /\ r.attempt = q.attempt => r = q

RowsCaused ==
  \A r \in results :
    Due(r.exec, r.key) /\ \A a \in 1 .. r.attempt - 1 : FailedAt(r.exec, r.key, a)

JobsCaused == \A j \in JobId : jobState[j] # "absent" => Caused(j)

Store == UniqueRows /\ RowsCaused /\ JobsCaused

Holds(w) ==
  /\ pc[w] # "idle" => job[w] \in JobId /\ jobState[job[w]] # "absent"
  /\ pc[w] \notin Reading => seenCanvas[w] = canvas
  /\ pc[w] \notin {"enqueue", "retry", "abort", "ack", "nack"} => ~caught[w]
  /\ pc[w] \in {"bump", "succeed"} \/ (pc[w] = "enqueue" /\ ~caught[w]) =>
       RowOf(w, "SUCCESS", output[w]) \in results
  /\ pc[w] = "enqueue" /\ ~caught[w] =>
       todo[w] \subseteq NextTransitions(Canvases[canvas], job[w].key, output[w], FALSE)
  /\ pc[w] = "enqueue" /\ caught[w] =>
       /\ job[w].key \in Canvases[canvas].continues
       /\ Exhausted(job[w].exec, job[w].key)
       /\ todo[w] \subseteq NextTransitions(Canvases[canvas], job[w].key, FALSE, TRUE)
  /\ pc[w] = "retry" => FailedAt(job[w].exec, job[w].key, AttemptOf(job[w]))

TriggerHolds(t) == trigState[t] \in {"create", "dispatch"} => trigCanvas[t] = canvas

IInv ==
  /\ Typed
  /\ Store
  /\ \A w \in Worker : Holds(w)
  /\ \A t \in TriggerJob : TriggerHolds(t)

\* Results are only added, so what they cause stays caused.
LEMMA CausesStay ==
  ASSUME results \subseteq results', canvas' = canvas
  PROVE  /\ \A e, k, a : FailedAt(e, k, a) => FailedAt(e, k, a)'
         /\ \A e, k : Exhausted(e, k) => Exhausted(e, k)'
         /\ \A e, edge : Followed(e, edge) => Followed(e, edge)'
         /\ \A e, k : Due(e, k) => Due(e, k)'
         /\ \A j : Caused(j) => Caused(j)'
  <1>1. \A e, k, a : FailedAt(e, k, a) => FailedAt(e, k, a)'
    BY DEF FailedAt
  <1>2. \A e, k : Exhausted(e, k) => Exhausted(e, k)'
    BY DEF Exhausted
  <1>3. \A e, edge : Followed(e, edge) => Followed(e, edge)'
    BY <1>2 DEF Followed
  <1>4. \A e, k : Due(e, k) => Due(e, k)'
    BY <1>3 DEF Due
  <1>5. \A j : Caused(j) => Caused(j)'
    BY <1>1, <1>3, <1>4 DEF Caused
  <1>6. QED
    BY <1>1, <1>2, <1>3, <1>4, <1>5

\* A step that adds neither a row nor a job keeps the stores.
LEMMA StoreStays ==
  ASSUME Store, results' = results, canvas' = canvas,
         \A j \in JobId : jobState'[j] # "absent" => jobState[j] # "absent"
  PROVE  Store'
  <1>1. UniqueRows' /\ RowsCaused'
    BY CausesStay DEF Store, UniqueRows, RowsCaused
  <1>2. JobsCaused'
    BY CausesStay DEF Store, JobsCaused
  <1>3. QED
    BY <1>1, <1>2 DEF Store

\* Adding a caused job keeps the stores.
LEMMA StoreAddsJob ==
  ASSUME Store, TypeOK, NEW j \in JobId, Caused(j), AddJob(j), results' = results, canvas' = canvas
  PROVE  Store'
  <1>1. UniqueRows' /\ RowsCaused'
    BY CausesStay DEF Store, UniqueRows, RowsCaused
  <1>2. JobsCaused'
    BY CausesStay DEF Store, JobsCaused, AddJob, TypeOK
  <1>3. QED
    BY <1>1, <1>2 DEF Store

\* Adding the row of a job in the queue keeps them, if the index is free.
LEMMA StoreAddsRow ==
  ASSUME Store, NEW w \in Worker, job[w] \in JobId, jobState[job[w]] # "absent",
         NEW status, NEW out,
         ~RowExists(job[w].exec, job[w].key, AttemptOf(job[w])),
         results' = results \cup {RowOf(w, status, out)},
         canvas' = canvas, jobState' = jobState
  PROVE  Store'
  <1> DEFINE row == RowOf(w, status, out)
  <1>1. /\ row.exec = job[w].exec /\ row.key = job[w].key /\ row.attempt = AttemptOf(job[w])
        /\ results' = results \cup {row}
    BY DEF RowOf
  <1> HIDE DEF row
  <1>2. UniqueRows'
    BY <1>1 DEF Store, UniqueRows, RowExists
  <1>3. Caused(job[w])
    BY DEF Store, JobsCaused
  <1>4. Due(row.exec, row.key) /\ \A a \in 1 .. row.attempt - 1 : FailedAt(row.exec, row.key, a)
    <2>1. job[w].stamp \in Nat /\ MaxAttempts \in Nat
      BY RunnerAssumption DEF JobId
    <2>2. \A a \in 1 .. AttemptOf(job[w]) - 1 : FailedAt(job[w].exec, job[w].key, a)
      BY <1>3, <2>1 DEF Caused, AttemptOf
    <2>3. QED
      BY <1>1, <1>3, <2>2 DEF Caused
  <1>5. RowsCaused'
    BY <1>1, <1>4, CausesStay DEF Store, RowsCaused
  <1>6. JobsCaused'
    BY <1>1, CausesStay DEF Store, JobsCaused
  <1>7. QED
    BY <1>2, <1>5, <1>6 DEF Store

\* A handler is not disturbed by what others add.
LEMMA OthersHold ==
  ASSUME NEW w \in Worker, Holds(w),
         pc'[w] = pc[w], job'[w] = job[w], seenCanvas'[w] = seenCanvas[w],
         output'[w] = output[w], todo'[w] = todo[w], caught'[w] = caught[w],
         canvas' = canvas, results \subseteq results',
         \A j \in JobId : jobState[j] # "absent" => jobState'[j] # "absent"
  PROVE  Holds(w)'
  BY CausesStay DEF Holds, RowOf

\* A step that only concerns one handler and adds at most jobs and rows.
LEMMA OneHandlerMoves ==
  ASSUME IInv, NEW w \in Worker,
         \A v \in Worker \ {w} :
           /\ pc'[v] = pc[v] /\ job'[v] = job[v] /\ seenCanvas'[v] = seenCanvas[v]
           /\ output'[v] = output[v] /\ todo'[v] = todo[v] /\ caught'[v] = caught[v],
         canvas' = canvas, results \subseteq results',
         \A j \in JobId : jobState[j] # "absent" => jobState'[j] # "absent",
         UNCHANGED <<trigState, trigCanvas>>,
         Typed', Store', Holds(w)'
  PROVE  IInv'
  <1>1. \A v \in Worker : Holds(v)'
    BY OthersHold DEF IInv
  <1>2. \A t \in TriggerJob : TriggerHolds(t)'
    BY DEF IInv, TriggerHolds
  <1>3. QED
    BY <1>1, <1>2 DEF IInv

\* No handler moves, and at most jobs are added.
LEMMA NoHandlerMoves ==
  ASSUME IInv, UNCHANGED <<pc, localVars, canvas, results>>,
         \A j \in JobId : jobState[j] # "absent" => jobState'[j] # "absent",
         \A t \in TriggerJob : TriggerHolds(t)',
         Typed', Store'
  PROVE  IInv'
  <1>1. \A v \in Worker : Holds(v)'
    BY OthersHold DEF IInv, localVars
  <1>2. QED
    BY <1>1 DEF IInv

\* A handler that goes on to an await before its result is stored, or to
\* its end, has little to keep.
LEMMA Advances ==
  ASSUME NEW w \in Worker, job'[w] \in JobId, jobState'[job'[w]] # "absent",
         pc'[w] \in Reading \cup {"readQuota", "charge", "execute", "record", "catch"},
         pc'[w] \notin Reading => seenCanvas'[w] = canvas',
         pc'[w] \notin {"abort", "ack", "nack"} => ~caught'[w]
  PROVE  Holds(w)'
  BY DEF Holds, Reading

\* Every step of the engine keeps it.
LEMMA InvarianceStep ==
  IInv /\ Typed' /\ [RunnerNext]_vars => IInv'
  <1> USE RunnerAssumption, JobAssumption
  <1> SUFFICES ASSUME IInv, Typed', [RunnerNext]_vars
               PROVE  IInv'
    OBVIOUS
  <1> USE DEF IInv, Typed
  <1>1. ASSUME NEW t \in TriggerJob, TriggerFires(t) PROVE IInv'
    <2>1. Store'
      BY <1>1, StoreStays DEF TriggerFires, execVars, wfVars, queueVars
    <2>2. \A u \in TriggerJob : TriggerHolds(u)'
      BY <1>1 DEF TriggerFires, TriggerHolds, TypeOK, wfVars
    <2>3. QED
      BY <1>1, <2>1, <2>2, NoHandlerMoves DEF TriggerFires, execVars, wfVars, queueVars
  <1>2. ASSUME NEW t \in TriggerJob, ReadPublished(t) PROVE IInv'
    <2>1. Store'
      BY <1>2, StoreStays DEF ReadPublished, execVars, wfVars, queueVars
    <2>2. \A u \in TriggerJob : TriggerHolds(u)'
      BY <1>2 DEF ReadPublished, TriggerHolds, TypeOK, wfVars
    <2>3. QED
      BY <1>2, <2>1, <2>2, NoHandlerMoves DEF ReadPublished, execVars, wfVars, queueVars
  <1>3. ASSUME NEW t \in TriggerJob, TriggerLost(t) PROVE IInv'
    <2>1. Store'
      BY <1>3, StoreStays DEF TriggerLost, execVars, wfVars, queueVars
    <2>2. \A u \in TriggerJob : TriggerHolds(u)'
      BY <1>3 DEF TriggerLost, TriggerHolds, TypeOK, wfVars
    <2>3. QED
      BY <1>3, <2>1, <2>2, NoHandlerMoves DEF TriggerLost, execVars, wfVars, queueVars
  <1>4. ASSUME NEW t \in TriggerJob, NEW e \in Exec, CreateExecution(t, e) PROVE IInv'
    <2>1. Store'
      BY <1>4, StoreStays DEF CreateExecution, wfVars, queueVars
    <2>2. \A u \in TriggerJob : TriggerHolds(u)'
      BY <1>4 DEF CreateExecution, TriggerHolds, TypeOK, wfVars
    <2>3. QED
      BY <1>4, <2>1, <2>2, NoHandlerMoves DEF CreateExecution, wfVars, queueVars
  <1>5. ASSUME NEW t \in TriggerJob, DispatchTrigger(t) PROVE IInv'
    <2>1. \A u \in TriggerJob : TriggerHolds(u)'
      BY <1>5 DEF DispatchTrigger, TriggerHolds, TypeOK, wfVars
    <2>2. CASE Canvases[trigCanvas[t]].trigger = NoKey
      <3>1. Store'
        BY <1>5, <2>2, StoreStays DEF DispatchTrigger, wfVars
      <3>2. QED
        BY <1>5, <2>1, <2>2, <3>1, NoHandlerMoves DEF DispatchTrigger, wfVars
    <2>3. CASE Canvases[trigCanvas[t]].trigger # NoKey
      <3> DEFINE j == [exec |-> trigExec[t], key |-> Canvases[trigCanvas[t]].trigger, stamp |-> 1]
      <3>1. trigCanvas[t] = canvas /\ trigExec[t] \in Exec /\ canvas \in DOMAIN Canvases
        BY <1>5 DEF DispatchTrigger, TriggerHolds, HandlersAreBound, TypeOK
      <3>2. j \in JobId /\ Caused(j)
        BY <2>3, <3>1 DEF IsCanvas, JobId, Caused, Due
      <3>3. AddJob(j)
        BY <1>5, <2>3 DEF DispatchTrigger
      <3>4. Store'
        BY <1>5, <3>2, <3>3, StoreAddsJob DEF DispatchTrigger, wfVars
      <3>5. \A i \in JobId : jobState[i] # "absent" => jobState'[i] # "absent"
        BY <3>3 DEF AddJob, TypeOK
      <3>6. QED
        BY <1>5, <2>1, <3>4, <3>5, NoHandlerMoves DEF DispatchTrigger, wfVars
    <2>4. QED
      BY <2>2, <2>3
  <1>6. ASSUME NEW w \in Worker, ReadExecution(w) PROVE IInv'
    <2>1. Store'
      BY <1>6, StoreStays DEF ReadExecution, SetStatus, execVars, wfVars, queueVars
    <2>2. Holds(w)'
      <3>1. Holds(w) /\ pc[w] = "readExecution"
        BY <1>6 DEF ReadExecution
      <3>2. UNCHANGED <<job, jobState, canvas, caught>> /\ seenCanvas' = seenCanvas
        BY <1>6 DEF ReadExecution, wfVars, queueVars, localVars
      <3>3. pc'[w] \in {"ack", "readWorkflow"}
        BY <1>6 DEF ReadExecution, Goto, TypeOK
      <3>4. QED
        BY <3>1, <3>2, <3>3, Advances DEF Holds, Reading, TypeOK
    <2>3. QED
      BY <1>6, <2>1, <2>2, OneHandlerMoves DEF ReadExecution, Goto, TypeOK, execVars, wfVars, queueVars,
         trigVars, localVars
  <1>7. ASSUME NEW w \in Worker, ReadWorkflow(w) PROVE IInv'
    <2>1. Store'
      BY <1>7, StoreStays DEF ReadWorkflow, SetStatus, execVars, wfVars, queueVars
    <2>2. Holds(w)'
      <3>1. Holds(w) /\ pc[w] = "readWorkflow"
        BY <1>7 DEF ReadWorkflow
      <3>2. UNCHANGED <<job, jobState, canvas, caught>> /\ seenCanvas'[w] = canvas
        BY <1>7 DEF ReadWorkflow, TypeOK, wfVars, queueVars, localVars
      <3>3. pc'[w] \in {"abort", "readQuota", "execute"}
        BY <1>7 DEF ReadWorkflow, Goto, TypeOK
      <3>4. QED
        BY <3>1, <3>2, <3>3, Advances DEF Holds, Reading, TypeOK
    <2>3. QED
      BY <1>7, <2>1, <2>2, OneHandlerMoves DEF ReadWorkflow, Goto, TypeOK, execVars, wfVars, queueVars,
         trigVars, localVars
  <1>8. ASSUME NEW w \in Worker, ReadQuota(w) PROVE IInv'
    <2>1. Store'
      BY <1>8, StoreStays DEF ReadQuota, SetStatus, execVars, wfVars, queueVars
    <2>2. Holds(w)'
      <3>1. Holds(w) /\ pc[w] = "readQuota"
        BY <1>8 DEF ReadQuota
      <3>2. UNCHANGED <<job, jobState, canvas, caught>> /\ seenCanvas' = seenCanvas
        BY <1>8 DEF ReadQuota, wfVars, queueVars, localVars
      <3>3. pc'[w] \in {"catch", "charge"}
        BY <1>8 DEF ReadQuota, Goto, TypeOK
      <3>4. QED
        BY <3>1, <3>2, <3>3, Advances DEF Holds, Reading, TypeOK
    <2>3. QED
      BY <1>8, <2>1, <2>2, OneHandlerMoves DEF ReadQuota, Goto, TypeOK, execVars, wfVars, queueVars,
         trigVars, localVars
  <1>9. ASSUME NEW w \in Worker, Charge(w) PROVE IInv'
    <2>1. Store'
      BY <1>9, StoreStays DEF Charge, SetStatus, execVars, wfVars, queueVars
    <2>2. Holds(w)'
      <3>1. Holds(w) /\ pc[w] = "charge"
        BY <1>9 DEF Charge
      <3>2. UNCHANGED <<job, jobState, canvas, caught>> /\ seenCanvas' = seenCanvas
        BY <1>9 DEF Charge, wfVars, queueVars, localVars
      <3>3. pc'[w] \in {"execute"}
        BY <1>9 DEF Charge, Goto, TypeOK
      <3>4. QED
        BY <3>1, <3>2, <3>3, Advances DEF Holds, Reading, TypeOK
    <2>3. QED
      BY <1>9, <2>1, <2>2, OneHandlerMoves DEF Charge, Goto, TypeOK, execVars, wfVars, queueVars,
         trigVars, localVars
  <1>10. ASSUME NEW w \in Worker, Execute(w) PROVE IInv'
    <2>1. Store'
      BY <1>10, StoreStays DEF Execute, SetStatus, execVars, wfVars, queueVars
    <2>2. Holds(w)'
      <3>1. Holds(w) /\ pc[w] = "execute"
        BY <1>10 DEF Execute
      <3>2. UNCHANGED <<job, jobState, canvas, caught>> /\ seenCanvas' = seenCanvas
        BY <1>10 DEF Execute, wfVars, queueVars, localVars
      <3>3. pc'[w] \in {"record", "catch"}
        BY <1>10 DEF Execute, Goto, TypeOK
      <3>4. QED
        BY <3>1, <3>2, <3>3, Advances DEF Holds, Reading, TypeOK
    <2>3. QED
      BY <1>10, <2>1, <2>2, OneHandlerMoves DEF Execute, Goto, TypeOK, execVars, wfVars, queueVars,
         trigVars, localVars
  <1>11. ASSUME NEW w \in Worker, BumpDepth(w) PROVE IInv'
    <2>1. Store'
      BY <1>11, StoreStays DEF BumpDepth, SetStatus, execVars, wfVars, queueVars
    <2>2. Holds(w)'
      <3> DEFINE next == NextTransitions(Canvases[canvas], job[w].key, output[w], FALSE)
      <3>1. /\ job[w] \in JobId /\ jobState[job[w]] # "absent" /\ seenCanvas[w] = canvas
            /\ ~caught[w] /\ RowOf(w, "SUCCESS", output[w]) \in results
        BY <1>11 DEF BumpDepth, Holds, Reading
      <3>2. UNCHANGED <<job, jobState, canvas, caught, seenCanvas, output, results>>
        BY <1>11 DEF BumpDepth, wfVars, queueVars
      <3>3. todo'[w] = next /\ pc'[w] \in {"succeed", "enqueue"}
        BY <1>11, <3>1 DEF BumpDepth, Goto, TypeOK
      <3>4. RowOf(w, "SUCCESS", output[w])' = RowOf(w, "SUCCESS", output[w])
        BY <3>2 DEF RowOf, AttemptOf
      <3>5. next' = next
        BY <3>2
      <3> HIDE DEF next
      <3>6. todo'[w] \subseteq NextTransitions(Canvases[canvas], job[w].key, output[w], FALSE)'
        BY <3>3, <3>5 DEF next
      <3>7. QED
        BY <3>1, <3>2, <3>3, <3>4, <3>6 DEF Holds, Reading
    <2>3. QED
      BY <1>11, <2>1, <2>2, OneHandlerMoves DEF BumpDepth, Goto, TypeOK, execVars, wfVars, queueVars,
         trigVars, localVars
  <1>12. ASSUME NEW w \in Worker, Succeed(w) PROVE IInv'
    <2>1. Store'
      BY <1>12, StoreStays DEF Succeed, SetStatus, execVars, wfVars, queueVars
    <2>2. Holds(w)'
      <3>1. Holds(w) /\ pc[w] = "succeed"
        BY <1>12 DEF Succeed
      <3>2. UNCHANGED <<job, jobState, canvas, caught>> /\ seenCanvas' = seenCanvas
        BY <1>12 DEF Succeed, wfVars, queueVars, localVars
      <3>3. pc'[w] \in {"ack"}
        BY <1>12 DEF Succeed, Goto, TypeOK
      <3>4. QED
        BY <3>1, <3>2, <3>3, Advances DEF Holds, Reading, TypeOK
    <2>3. QED
      BY <1>12, <2>1, <2>2, OneHandlerMoves DEF Succeed, Goto, TypeOK, execVars, wfVars, queueVars,
         trigVars, localVars
  <1>13. ASSUME NEW w \in Worker, Abort(w) PROVE IInv'
    <2>1. Store'
      BY <1>13, StoreStays DEF Abort, SetStatus, execVars, wfVars, queueVars
    <2>2. Holds(w)'
      <3>1. Holds(w) /\ pc[w] = "abort"
        BY <1>13 DEF Abort
      <3>2. UNCHANGED <<job, jobState, canvas, caught>> /\ seenCanvas' = seenCanvas
        BY <1>13 DEF Abort, wfVars, queueVars, localVars
      <3>3. pc'[w] \in {"ack"}
        BY <1>13 DEF Abort, Goto, TypeOK
      <3>4. QED
        BY <3>1, <3>2, <3>3, Advances DEF Holds, Reading, TypeOK
    <2>3. QED
      BY <1>13, <2>1, <2>2, OneHandlerMoves DEF Abort, Goto, TypeOK, execVars, wfVars, queueVars,
         trigVars, localVars
  <1>14. ASSUME NEW w \in Worker, InfraError(w) PROVE IInv'
    <2>1. Store'
      BY <1>14, StoreStays DEF InfraError, SetStatus, execVars, wfVars, queueVars
    <2>2. Holds(w)'
      <3>1. Holds(w) /\ pc[w] # "idle"
        BY <1>14 DEF InfraError
      <3>2. UNCHANGED <<job, jobState, canvas, caught, seenCanvas>>
        BY <1>14 DEF InfraError, wfVars, queueVars
      <3>3. \/ pc'[w] = "catch" /\ ~caught[w] /\ pc[w] \notin Reading
            \/ pc'[w] = "nack"
        BY <1>14 DEF InfraError, Goto, TypeOK, Reading
      <3>4. QED
        BY <3>1, <3>2, <3>3, Advances DEF Holds, Reading
    <2>3. QED
      BY <1>14, <2>1, <2>2, OneHandlerMoves DEF InfraError, Goto, TypeOK, execVars, wfVars, queueVars,
         trigVars, localVars
  <1>15. ASSUME NEW w \in Worker, Ack(w) PROVE IInv'
    <2>1. \A j \in JobId : jobState'[j] # "absent" <=> jobState[j] # "absent"
      <3>1. job[w] \in JobId /\ jobState[job[w]] # "absent"
        BY <1>15 DEF Ack, Holds
      <3>2. \/ jobState' = jobState
            \/ \E x \in {"completed", "wait", "failed"} : jobState' = [jobState EXCEPT ![job[w]] = x]
        BY <1>15 DEF Ack
      <3>3. QED
        BY <3>1, <3>2 DEF TypeOK
    <2>2. Store'
      BY <1>15, <2>1, StoreStays DEF Ack, execVars, wfVars
    <2>3. Holds(w)'
      BY <1>15 DEF Ack, Release, Holds, Reading, TypeOK
    <2>4. QED
      BY <1>15, <2>1, <2>2, <2>3, OneHandlerMoves DEF Ack, Release, TypeOK, execVars, wfVars, trigVars
  <1>16. ASSUME NEW w \in Worker, Nack(w) PROVE IInv'
    <2>1. \A j \in JobId : jobState'[j] # "absent" <=> jobState[j] # "absent"
      <3>1. job[w] \in JobId /\ jobState[job[w]] # "absent"
        BY <1>16 DEF Nack, DeliveriesLeft, Holds
      <3>2. \/ jobState' = jobState
            \/ \E x \in {"completed", "wait", "failed"} : jobState' = [jobState EXCEPT ![job[w]] = x]
        BY <1>16 DEF Nack
      <3>3. QED
        BY <3>1, <3>2 DEF TypeOK
    <2>2. Store'
      BY <1>16, <2>1, StoreStays DEF Nack, DeliveriesLeft, execVars, wfVars
    <2>3. Holds(w)'
      BY <1>16 DEF Nack, DeliveriesLeft, Release, Holds, Reading, TypeOK
    <2>4. QED
      BY <1>16, <2>1, <2>2, <2>3, OneHandlerMoves DEF Nack, DeliveriesLeft, Release, TypeOK, execVars, wfVars, trigVars
  <1>17. ASSUME NEW w \in Worker, Crash(w) PROVE IInv'
    <2>1. \A j \in JobId : jobState'[j] # "absent" <=> jobState[j] # "absent"
      BY <1>17 DEF Crash, Holds, TypeOK, queueVars
    <2>2. Store'
      BY <1>17, <2>1, StoreStays DEF Crash, execVars, wfVars
    <2>3. Holds(w)'
      BY <1>17 DEF Crash, Release, Holds, Reading, TypeOK
    <2>4. QED
      BY <1>17, <2>1, <2>2, <2>3, OneHandlerMoves DEF Crash, Release, TypeOK, execVars, wfVars, trigVars
  <1>18. ASSUME NEW j \in JobId, RecoverStalled(j) PROVE IInv'
    <2>1. \A i \in JobId : jobState'[i] # "absent" <=> jobState[i] # "absent"
      BY <1>18 DEF RecoverStalled, PutBack, TypeOK
    <2>2. Store'
      BY <1>18, <2>1, StoreStays DEF RecoverStalled, PutBack, execVars, wfVars
    <2>3. \A t \in TriggerJob : TriggerHolds(t)'
      BY <1>18 DEF RecoverStalled, PutBack, TriggerHolds, wfVars, trigVars
    <2>4. QED
      BY <1>18, <2>1, <2>2, <2>3, NoHandlerMoves DEF RecoverStalled, PutBack, execVars, wfVars
  <1>19. ASSUME NEW j \in JobId, LoseLock(j) PROVE IInv'
    <2>1. \A i \in JobId : jobState'[i] # "absent" <=> jobState[i] # "absent"
      BY <1>19 DEF LoseLock, PutBack, TypeOK
    <2>2. Store'
      BY <1>19, <2>1, StoreStays DEF LoseLock, PutBack, execVars, wfVars
    <2>3. \A t \in TriggerJob : TriggerHolds(t)'
      BY <1>19 DEF LoseLock, PutBack, TriggerHolds, wfVars, trigVars
    <2>4. QED
      BY <1>19, <2>1, <2>2, <2>3, NoHandlerMoves DEF LoseLock, PutBack, execVars, wfVars
  <1>20. ASSUME NEW w \in Worker, NEW j \in JobId, TakeJob(w, j) PROVE IInv'
    <2>1. \A i \in JobId : jobState'[i] # "absent" <=> jobState[i] # "absent"
      BY <1>20 DEF TakeJob, TypeOK
    <2>2. Store'
      BY <1>20, <2>1, StoreStays DEF TakeJob, execVars, wfVars
    <2>3. Holds(w)'
      <3>1. Holds(w) /\ pc[w] = "idle"
        BY <1>20 DEF TakeJob
      <3>2. job'[w] = j /\ jobState'[j] # "absent" /\ pc'[w] = "readExecution" /\ caught' = caught
        BY <1>20 DEF TakeJob, Goto, TypeOK
      <3>3. QED
        BY <3>1, <3>2, Advances DEF Holds, Reading
    <2>4. QED
      BY <1>20, <2>1, <2>2, <2>3, OneHandlerMoves DEF TakeJob, Goto, TypeOK, execVars, wfVars, trigVars
  <1>21. ASSUME NEW e \in Exec, CancelExecution(e) PROVE IInv'
    <2>1. Store'
      BY <1>21, StoreStays DEF CancelExecution, wfVars, queueVars
    <2>2. QED
      BY <1>21, <2>1, NoHandlerMoves DEF CancelExecution, TriggerHolds, wfVars, queueVars, trigVars
  <1>22. ASSUME NEW w \in Worker, RecordSuccess(w) PROVE IInv'
    <2> DEFINE row == RowOf(w, "SUCCESS", output[w])
    <2>1. CASE CreateConflicts(w)
      <3>1. Store'
        BY <1>22, <2>1, StoreStays DEF RecordSuccess, wfVars, queueVars
      <3>2. Holds(w)'
        <4>1. job[w] \in JobId /\ jobState[job[w]] # "absent" /\ seenCanvas[w] = canvas /\ ~caught[w]
          BY <1>22 DEF RecordSuccess, Holds, Reading
        <4>2. UNCHANGED <<job, jobState, canvas, seenCanvas>> /\ caught' = caught
          BY <1>22, <2>1 DEF RecordSuccess, wfVars, queueVars, localVars
        <4>3. pc'[w] = "catch"
          BY <1>22, <2>1 DEF RecordSuccess, Goto, TypeOK
        <4>4. QED
          BY <4>1, <4>2, <4>3, Advances DEF Reading
      <3>3. QED
        BY <1>22, <2>1, <3>1, <3>2, OneHandlerMoves DEF RecordSuccess, Goto, TypeOK, wfVars, queueVars,
           trigVars, localVars
    <2>2. CASE ~CreateConflicts(w)
      <3>1. results' = results \cup {row} /\ pc' = [pc EXCEPT ![w] = "bump"]
        BY <1>22, <2>2 DEF RecordSuccess, Goto
      <3>2. /\ job[w] \in JobId /\ jobState[job[w]] # "absent"
            /\ ~RowExists(job[w].exec, job[w].key, AttemptOf(job[w]))
        BY <1>22, <2>2 DEF RecordSuccess, Holds, CreateConflicts
      <3>3. Store'
        BY <1>22, <3>1, <3>2, StoreAddsRow DEF RecordSuccess, wfVars, queueVars
      <3>4. Holds(w)'
        BY ZenonT(40), <1>22, <3>1 DEF RecordSuccess, Holds, RowOf, Reading, TypeOK, Pc, wfVars, queueVars, localVars
      <3>5. QED
        BY <1>22, <3>1, <3>3, <3>4, OneHandlerMoves DEF RecordSuccess, TypeOK, wfVars, queueVars,
           trigVars, localVars
    <2>3. QED
      BY <2>1, <2>2
  <1>23. ASSUME NEW w \in Worker, RecordFailure(w) PROVE IInv'
    <2> DEFINE row == RowOf(w, "FAILED", FALSE)
               next == NextTransitions(Canvases[canvas], job[w].key, FALSE, TRUE)
               fallback == IF job[w].key \in Canvases[seenCanvas[w]].continues
                           THEN NextTransitions(Canvases[seenCanvas[w]], job[w].key, FALSE, TRUE)
                           ELSE {}
    <2>1. CASE CreateConflicts(w)
      <3>1. Store'
        BY <1>23, <2>1, StoreStays DEF RecordFailure, RetriesLeft, wfVars, queueVars
      <3>2. Holds(w)'
        <4>1. job[w] \in JobId /\ jobState[job[w]] # "absent" /\ seenCanvas[w] = canvas
          BY <1>23 DEF RecordFailure, RetriesLeft, Holds, Reading
        <4>2. UNCHANGED <<job, jobState, canvas, seenCanvas>>
          BY <1>23, <2>1 DEF RecordFailure, RetriesLeft, wfVars, queueVars, localVars
        <4>3. pc'[w] = "nack"
          BY <1>23, <2>1 DEF RecordFailure, RetriesLeft, Goto, TypeOK
        <4>4. QED
          BY <4>1, <4>2, <4>3, Advances DEF Reading
      <3>3. QED
        BY ZenonT(40), <1>23, <2>1, <3>1, <3>2, OneHandlerMoves DEF RecordFailure, RetriesLeft, Goto, TypeOK, wfVars, queueVars,
           trigVars
    <2>2. CASE ~CreateConflicts(w)
      <3>1. results' = results \cup {row}
        BY <1>23, <2>2 DEF RecordFailure, RetriesLeft
      <3>2. /\ job[w] \in JobId /\ jobState[job[w]] # "absent" /\ seenCanvas[w] = canvas
            /\ ~RowExists(job[w].exec, job[w].key, AttemptOf(job[w]))
        BY <1>23, <2>2 DEF RecordFailure, RetriesLeft, Holds, CreateConflicts, Reading
      <3>3. Store'
        BY <1>23, <3>1, <3>2, StoreAddsRow DEF RecordFailure, RetriesLeft, wfVars, queueVars
      <3>4. FailedAt(job[w].exec, job[w].key, AttemptOf(job[w]))'
        <4>1. row \in results' /\ row.exec = job[w].exec /\ row.key = job[w].key
              /\ row.attempt = AttemptOf(job[w]) /\ row.status = "FAILED"
          BY <3>1 DEF RowOf
        <4>2. job' = job
          BY <1>23 DEF RecordFailure, RetriesLeft
        <4>3. QED
          BY <4>1, <4>2 DEF FailedAt, AttemptOf
      <3>5. /\ UNCHANGED <<canvas, job, seenCanvas, output, jobState>>
            /\ caught' = [caught EXCEPT ![w] = TRUE]
        BY <1>23 DEF RecordFailure, RetriesLeft, wfVars, queueVars
      <3>6. \/ pc' = [pc EXCEPT ![w] = "retry"] /\ todo' = todo
            \/ pc' = [pc EXCEPT ![w] = "abort"] /\ todo' = [todo EXCEPT ![w] = {}]
            \/ /\ pc' = [pc EXCEPT ![w] = "enqueue"] /\ todo' = [todo EXCEPT ![w] = fallback]
               /\ fallback # {}
               /\ ~(AttemptOf(job[w]) < MaxAttempts)
        BY <1>23, <2>2 DEF RecordFailure, RetriesLeft, Goto
      <3>7. Holds(w)'
        <4>1. pc[w] = "catch" /\ w \in DOMAIN pc /\ w \in DOMAIN todo /\ w \in DOMAIN caught
          BY <1>23 DEF RecordFailure, RetriesLeft, TypeOK
        <4>2. CASE pc' = [pc EXCEPT ![w] = "retry"]
          BY <3>2, <3>4, <3>5, <4>1, <4>2 DEF Holds, Reading
        <4>3. CASE pc' = [pc EXCEPT ![w] = "abort"]
          BY <3>2, <3>5, <4>1, <4>3 DEF Holds, Reading
        <4>4. CASE /\ pc' = [pc EXCEPT ![w] = "enqueue"] /\ todo' = [todo EXCEPT ![w] = fallback]
                   /\ fallback # {} /\ ~(AttemptOf(job[w]) < MaxAttempts)
          <5>1. AttemptOf(job[w]) = MaxAttempts
            BY <3>2, <4>4, AttemptType
          <5>2. Exhausted(job[w].exec, job[w].key)'
            BY <3>4, <3>5, <5>1 DEF FailedAt, Exhausted, AttemptOf
          <5>3. fallback = next /\ job[w].key \in Canvases[canvas].continues
            BY <3>2, <4>4
          <5> HIDE DEF fallback
          <5>4. todo'[w] = next /\ pc'[w] = "enqueue" /\ caught'[w]
            BY <3>5, <4>1, <4>4, <5>3
          <5> HIDE DEF next
          <5>5. next = NextTransitions(Canvases[canvas], job[w].key, FALSE, TRUE)
            BY DEF next
          <5>6. QED
            BY <3>2, <3>5, <5>2, <5>3, <5>4, <5>5 DEF Holds, Reading
        <4>5. QED
          BY <3>6, <4>2, <4>3, <4>4
      <3>8. \A v \in Worker \ {w} :
              pc'[v] = pc[v] /\ todo'[v] = todo[v] /\ caught'[v] = caught[v]
        <4> HIDE DEF fallback
        <4>1. \E x, y : pc' = [pc EXCEPT ![w] = x] /\ todo' \in {todo, [todo EXCEPT ![w] = y]}
          BY <3>6
        <4>2. pc \in [Worker -> Pc] /\ todo \in [Worker -> SUBSET Edge] /\ caught \in [Worker -> BOOLEAN]
          BY DEF TypeOK
        <4>3. QED
          BY <3>5, <4>1, <4>2
      <3>9. UNCHANGED <<trigState, trigCanvas>> /\ results \subseteq results'
        BY <1>23, <3>1 DEF RecordFailure, trigVars
      <3>10. QED
        BY <3>3, <3>5, <3>7, <3>8, <3>9, OneHandlerMoves
    <2>3. QED
      BY <2>1, <2>2
  <1>24. ASSUME NEW w \in Worker, EnqueueNext(w) PROVE IInv'
    <2>1. PICK edge \in todo[w], now \in MaxAttempts + 1 .. MaxClock :
            /\ ReadClock(now)
            /\ AddJob([exec |-> job[w].exec, key |-> edge.target, stamp |-> now])
            /\ todo' = [todo EXCEPT ![w] = Remaining(w, edge)]
            /\ Goto(w, IF Remaining(w, edge) = {} THEN "ack" ELSE "enqueue")
      BY <1>24 DEF EnqueueNext
    <2> DEFINE j == [exec |-> job[w].exec, key |-> edge.target, stamp |-> now]
    <2>2. edge \in Canvases[canvas].edges /\ Followed(job[w].exec, edge)
      <3>1. CASE ~caught[w]
        <4>1. /\ RowOf(w, "SUCCESS", output[w]) \in results
              /\ edge \in NextTransitions(Canvases[canvas], job[w].key, output[w], FALSE)
          BY <1>24, <3>1 DEF EnqueueNext, Holds
        <4>2. QED
          BY <4>1 DEF NextTransitions, Followed, RowOf
      <3>2. CASE caught[w]
        <4>1. /\ job[w].key \in Canvases[canvas].continues
              /\ Exhausted(job[w].exec, job[w].key)
              /\ edge \in NextTransitions(Canvases[canvas], job[w].key, FALSE, TRUE)
          BY <1>24, <3>2 DEF EnqueueNext, Holds
        <4>2. QED
          BY <4>1 DEF NextTransitions, Followed
      <3>3. QED
        BY <3>1, <3>2
    <2>3. j \in JobId
      BY <1>24 DEF EnqueueNext, TypeOK, HandlersAreBound, JobId, Edge
    <2>4. Caused(j)
      BY <2>2 DEF Caused, Due
    <2>5. AddJob(j) /\ UNCHANGED <<canvas, results>>
      BY <1>24, <2>1 DEF EnqueueNext, execVars, wfVars
    <2> HIDE DEF j
    <2>6. Store'
      BY <2>3, <2>4, <2>5, StoreAddsJob
    <2>7. \A i \in JobId : jobState[i] # "absent" => jobState'[i] # "absent"
      BY <2>3, <2>5 DEF AddJob, TypeOK
    <2>8. Holds(w)'
      BY ZenonT(40), <1>24, <2>1, <2>5, <2>7, CausesStay DEF EnqueueNext, Remaining, Holds, RowOf, Reading, Goto, TypeOK, Pc
    <2>9. QED
      BY <1>24, <2>1, <2>5, <2>6, <2>7, <2>8, OneHandlerMoves
         DEF EnqueueNext, Goto, TypeOK, trigVars
  <1>25. ASSUME NEW w \in Worker, RetryStep(w) PROVE IInv'
    <2> DEFINE j == RetryOf(job[w])
    <2>1. /\ job[w] \in JobId /\ AttemptOf(job[w]) < MaxAttempts /\ Caused(job[w])
          /\ FailedAt(job[w].exec, job[w].key, AttemptOf(job[w]))
      BY <1>25 DEF RetryStep, HandlersAreBound, Holds, Store, JobsCaused
    <2>2. AttemptOf(job[w]) \in 1 .. MaxAttempts
      BY <2>1, AttemptType
    <2>3. /\ j.exec = job[w].exec /\ j.key = job[w].key /\ j.stamp = AttemptOf(job[w]) + 1
          /\ j \in JobId
      BY <2>1, <2>2 DEF JobId, RetryOf
    <2>4. AddJob(j) /\ UNCHANGED <<canvas, results>>
      BY <1>25 DEF RetryStep, execVars, wfVars
    <2> HIDE DEF j
    <2>5. Caused(j)
      <3>1. \A a \in 1 .. AttemptOf(job[w]) - 1 : FailedAt(job[w].exec, job[w].key, a)
        BY <2>1 DEF Caused, AttemptOf, JobId
      <3>2. \A a \in 1 .. j.stamp - 1 : FailedAt(j.exec, j.key, a)
        BY <2>1, <2>2, <2>3, <3>1
      <3>3. QED
        BY <2>1, <2>2, <2>3, <3>2 DEF Caused
    <2>6. Store'
      BY <2>3, <2>4, <2>5, StoreAddsJob
    <2>7. \A i \in JobId : jobState[i] # "absent" => jobState'[i] # "absent"
      BY <2>3, <2>4 DEF AddJob, TypeOK
    <2>8. Holds(w)'
      BY ZenonT(40), <1>25, <2>4, <2>7 DEF RetryStep, Holds, Reading, Goto, TypeOK, Pc, localVars
    <2>9. QED
      BY <1>25, <2>4, <2>6, <2>7, <2>8, OneHandlerMoves DEF RetryStep, Goto, TypeOK, trigVars, localVars
  <1>26. CASE UNCHANGED vars
    <2>1. Store'
      BY <1>26, StoreStays DEF vars, execVars, wfVars, queueVars
    <2>2. QED
      BY <1>26, <2>1, NoHandlerMoves DEF vars, execVars, wfVars, queueVars, trigVars, TriggerHolds
  <1>27. QED
    BY <1>1, <1>2, <1>3, <1>4, <1>5, <1>6, <1>7, <1>8, <1>9, <1>10, <1>11, <1>12, <1>13, <1>14, <1>15, <1>16, <1>17, <1>18, <1>19, <1>20, <1>21, <1>22, <1>23, <1>24, <1>25, <1>26
       DEF RunnerNext, HandlerStep, TriggerStep

LEMMA InvarianceStart ==
  Init => IInv
  <1> USE RunnerAssumption, JobAssumption
  <1> SUFFICES ASSUME Init PROVE IInv
    OBVIOUS
  <1>1. Typed
    BY DEF Init, Typed, TypeOK, HandlersAreBound, QueueIsSound, Pc, Reading
  <1>2. Store
    BY DEF Init, Store, UniqueRows, RowsCaused, JobsCaused
  <1>3. (\A w \in Worker : Holds(w)) /\ \A t \in TriggerJob : TriggerHolds(t)
    BY DEF Init, Holds, TriggerHolds, Reading
  <1>4. QED
    BY <1>1, <1>2, <1>3 DEF IInv

\* The invariant that the safety properties rest on.
THEOREM Invariance == Spec => []IInv
  <1> USE RunnerAssumption, JobAssumption
  <1>1. Init => IInv
    BY InvarianceStart
  <1>2. IInv /\ Typed' /\ [RunnerNext]_vars => IInv'
    BY InvarianceStep
  <1>3. QED
    BY <1>1, <1>2, TypeCorrect, PTL DEF Spec
-----------------------------------------------------------------------------
(***************************************************************************)
(* What follows from the invariant.                                        *)
(***************************************************************************)

\* Whatever the queue delivers again, a row after a SUCCESS row would need a
\* job whose attempt all earlier attempts of failed.
LEMMA SuccessLast == Store /\ TypeOK => SuccessIsFinal
  <1> SUFFICES ASSUME Store, TypeOK, NEW r \in results, NEW q \in results,
                      r.exec = q.exec, r.key = q.key, r.status = "SUCCESS", q # r
               PROVE  q.attempt < r.attempt
    BY DEF SuccessIsFinal
  <1>1. r.attempt \in 1 .. MaxAttempts /\ q.attempt \in 1 .. MaxAttempts /\ MaxAttempts \in Nat
    BY RunnerAssumption DEF TypeOK, Row
  <1>2. q.attempt # r.attempt
    BY DEF Store, UniqueRows
  <1>3. ASSUME r.attempt < q.attempt PROVE FALSE
    <2>1. PICK f \in results : /\ f.exec = q.exec /\ f.key = q.key /\ f.attempt = r.attempt
                               /\ f.status = "FAILED"
      BY <1>1, <1>3 DEF Store, RowsCaused, FailedAt
    <2>2. f = r
      BY <2>1 DEF Store, UniqueRows
    <2>3. QED
      BY <2>1, <2>2
  <1>4. QED
    BY <1>1, <1>2, <1>3

\* A step that succeeded is never attempted again.
THEOREM SuccessFinal == Spec => []SuccessIsFinal
  <1>1. IInv => SuccessIsFinal
    BY SuccessLast DEF IInv, Typed
  <1>2. QED
    BY <1>1, Invariance, PTL

LEMMA CausesKnown == IInv => JobsAreCaused
  BY DEF IInv, Store, JobsCaused, Caused, JobsAreCaused

\* Every job in the queue has its cause in the stored results.
THEOREM JobsCausedAlways == Spec => []JobsAreCaused
  BY CausesKnown, Invariance, PTL

\* Two branches that were both followed would need two successes of a step
\* with different outputs.
LEMMA BranchesApart == IInv => BranchesExclude
  <1> SUFFICES ASSUME IInv, NEW e \in Exec,
                      NEW a \in Canvases[canvas].edges, NEW b \in Canvases[canvas].edges,
                      a.source = b.source, a.route = "IF_TRUE", b.route = "IF_FALSE",
                      OnlyWayIn(a), OnlyWayIn(b),
                      Enqueued(e, a.target), Enqueued(e, b.target)
               PROVE  FALSE
    BY DEF BranchesExclude
  <1>1. \A edge \in Canvases[canvas].edges :
          OnlyWayIn(edge) /\ Enqueued(e, edge.target) => Followed(e, edge)
    BY DEF IInv, Store, JobsCaused, Caused, Due, Enqueued, OnlyWayIn
  <1>2. PICK r \in results : r.exec = e /\ r.key = a.source /\ r.status = "SUCCESS" /\ r.output
    BY <1>1 DEF Followed, shouldFollowTransition
  <1>3. PICK q \in results : q.exec = e /\ q.key = a.source /\ q.status = "SUCCESS" /\ ~q.output
    BY <1>1 DEF Followed, shouldFollowTransition
  <1>4. SuccessIsFinal /\ r.attempt \in Int /\ q.attempt \in Int
    BY SuccessLast DEF IInv, Typed, TypeOK, Row
  <1>5. QED
    BY <1>2, <1>3, <1>4 DEF SuccessIsFinal

\* The two branches of a condition are never both enqueued.
THEOREM BranchesExcludeAlways == Spec => []BranchesExclude
  BY BranchesApart, Invariance, PTL

-----------------------------------------------------------------------------
(***************************************************************************)
(* The quota.  A slot that has passed the check and not yet charged counts *)
(* as charged; every such slot read a count below the limit.               *)
(***************************************************************************)

Charging == {w \in Worker : pc[w] = "charge"}

QuotaInv == quota + Cardinality(Charging) < QuotaLimit + Cardinality(Worker)

LEMMA ChargingCount ==
  /\ Cardinality(Worker) \in Nat
  /\ IsFiniteSet(Charging) /\ Cardinality(Charging) \in Nat
  /\ Cardinality(Charging) <= Cardinality(Worker)
  <1>1. Charging \subseteq Worker /\ IsFiniteSet(Worker)
    BY RunnerAssumption DEF Charging
  <1>2. QED
    BY <1>1, FS_Subset, FS_CardinalityType

\* A step after which no further slot is charging.
LEMMA FewerCharging ==
  ASSUME QuotaInv, quota \in Nat, quota' = quota, Charging' \subseteq Charging
  PROVE  QuotaInv'
  <1>1. Cardinality(Charging') <= Cardinality(Charging) /\ Cardinality(Charging') \in Nat
    BY ChargingCount, FS_Subset, FS_CardinalityType
  <1>2. QED
    BY <1>1, ChargingCount, RunnerAssumption DEF QuotaInv

\* A handler that goes anywhere but to its charge.
LEMMA GoesElsewhere ==
  ASSUME TypeOK, QuotaInv, NEW w \in Worker, NEW label, label # "charge", quota' = quota,
         pc' = [pc EXCEPT ![w] = label]
  PROVE  QuotaInv'
  <1>1. Charging' \subseteq Charging
    BY DEF Charging, TypeOK
  <1>2. QED
    BY <1>1, FewerCharging DEF TypeOK

LEMMA NoHandlerCharges ==
  ASSUME TypeOK, QuotaInv, quota' = quota, pc' = pc
  PROVE  QuotaInv'
  <1>1. Charging' \subseteq Charging
    BY DEF Charging
  <1>2. QED
    BY <1>1, FewerCharging DEF TypeOK

LEMMA QuotaStart ==
  Init => QuotaInv
  <1> SUFFICES ASSUME Init PROVE QuotaInv
    OBVIOUS
  <1>1. quota = 0 /\ Charging = {}
    BY DEF Init, Charging
  <1>2. Cardinality(Charging) = 0
    BY <1>1, FS_EmptySet
  <1>3. Cardinality(Worker) # 0
    BY FS_EmptySet, RunnerAssumption
  <1>4. QED
    BY <1>1, <1>2, <1>3, ChargingCount, RunnerAssumption DEF QuotaInv

LEMMA QuotaStep ==
  Typed /\ QuotaInv /\ [RunnerNext]_vars => QuotaInv'
  <1> SUFFICES ASSUME Typed, QuotaInv, [RunnerNext]_vars PROVE QuotaInv'
    OBVIOUS
  <1> USE DEF Typed
  <1>1. ASSUME NEW w \in Worker, ReadQuota(w) PROVE QuotaInv'
    <2>1. CASE QuotaExhausted
      BY <1>1, <2>1, GoesElsewhere DEF ReadQuota, Goto
    <2>2. CASE ~QuotaExhausted
      <3>1. quota' = quota /\ quota < QuotaLimit /\ quota \in Nat
        BY <1>1, <2>2, RunnerAssumption DEF ReadQuota, QuotaExhausted, TypeOK
      <3>2. /\ Cardinality(Worker) \in Nat /\ Cardinality(Charging)' \in Nat
            /\ Cardinality(Charging)' <= Cardinality(Worker)
        <4>1. Charging' \subseteq Worker /\ IsFiniteSet(Worker)
          BY RunnerAssumption DEF Charging
        <4>2. QED
          BY <4>1, FS_Subset, FS_CardinalityType
      <3>3. QED
        BY <3>1, <3>2, RunnerAssumption DEF QuotaInv
    <2>3. QED
      BY <2>1, <2>2
  <1>2. ASSUME NEW w \in Worker, Charge(w) PROVE QuotaInv'
    <2>1. quota' = quota + 1 /\ w \in Charging /\ Charging' = Charging \ {w}
      BY <1>2 DEF Charge, Charging, Goto, TypeOK
    <2>2. Cardinality(Charging') = Cardinality(Charging) - 1
      BY <2>1, ChargingCount, FS_RemoveElement
    <2>3. QED
      BY <2>1, <2>2, ChargingCount, RunnerAssumption DEF QuotaInv, TypeOK
  <1>3. ASSUME NEW w \in Worker,
               \/ ReadExecution(w) \/ ReadWorkflow(w) \/ Execute(w) \/ RecordSuccess(w)
               \/ BumpDepth(w) \/ Succeed(w) \/ EnqueueNext(w)
        PROVE  QuotaInv'
    <2>1. quota' = quota
      BY <1>3 DEF ReadExecution, ReadWorkflow, Execute, RecordSuccess, BumpDepth, Succeed, EnqueueNext
    <2>2. PICK label : label # "charge" /\ pc' = [pc EXCEPT ![w] = label]
      BY <1>3 DEF ReadExecution, ReadWorkflow, Execute, RecordSuccess, BumpDepth, Succeed,
         EnqueueNext, Goto
    <2>3. QED
      BY <2>1, <2>2, GoesElsewhere
  <1>4. ASSUME NEW w \in Worker,
               \/ RecordFailure(w) \/ RetryStep(w) \/ Abort(w) \/ Ack(w) \/ Nack(w)
               \/ InfraError(w) \/ Crash(w) \/ \E j \in JobId : TakeJob(w, j)
        PROVE  QuotaInv'
    <2>1. quota' = quota
      BY <1>4 DEF RecordFailure, RetryStep, Abort, Ack, Nack, InfraError, Crash, TakeJob
    <2>2. PICK label : label # "charge" /\ pc' = [pc EXCEPT ![w] = label]
      BY <1>4 DEF RecordFailure, RetryStep, Abort, Ack, Nack, InfraError, Crash, TakeJob, Release, Goto
    <2>3. QED
      BY <2>1, <2>2, GoesElsewhere
  <1>5. ASSUME NEW t \in TriggerJob, TriggerFires(t) \/ TriggerStep(t) \/ TriggerLost(t)
        PROVE  QuotaInv'
    BY <1>5, NoHandlerCharges DEF TriggerFires, TriggerStep, ReadPublished, CreateExecution,
       DispatchTrigger, TriggerLost
  <1>6. ASSUME NEW j \in JobId, RecoverStalled(j) \/ LoseLock(j) PROVE QuotaInv'
    BY <1>6, NoHandlerCharges DEF RecoverStalled, LoseLock, PutBack
  <1>7. ASSUME NEW e \in Exec, CancelExecution(e) PROVE QuotaInv'
    BY <1>7, NoHandlerCharges DEF CancelExecution
  <1>8. CASE UNCHANGED vars
    BY <1>8, NoHandlerCharges DEF vars
  <1>9. QED
    BY <1>1, <1>2, <1>3, <1>4, <1>5, <1>6, <1>7, <1>8 DEF RunnerNext, HandlerStep

\* The quota is passed by less than the slots that can be between the check
\* and the increment of consumeSharedAgentBudget.
THEOREM QuotaBounded == Spec => []QuotaOvershootBounded
  <1>1. Init => QuotaInv
    BY QuotaStart
  <1>2. Typed /\ QuotaInv /\ [RunnerNext]_vars => QuotaInv'
    BY QuotaStep
  <1>3. Typed /\ QuotaInv => QuotaOvershootBounded
    BY ChargingCount, RunnerAssumption DEF Typed, TypeOK, QuotaInv, QuotaOvershootBounded
  <1>4. QED
    BY <1>1, <1>2, <1>3, TypeCorrect, PTL DEF Spec

-----------------------------------------------------------------------------
(***************************************************************************)
(* Depth and outcome.  What a handler read of the depth is covered by      *)
(* results that were there when it was written, and results only grow; a   *)
(* handler about to write a final status already has the reason for it.    *)
(***************************************************************************)

Won(e) == \E r \in SuccessRows(e) : NextTransitions(Canvases[canvas], r.key, r.output, FALSE) = {}

Lost(e) ==
  \/ \E k \in Key : Exhausted(e, k)
  \/ Cardinality(SuccessRows(e)) >= MaxDepth
  \/ Canvases[canvas].trigger = NoKey

Counts(w) ==
  \A e \in Exec : pc[w] # "idle" /\ job[w].exec = e =>
    /\ pc[w] \in {"readWorkflow", "readQuota", "charge", "execute", "record"} =>
         seenDepth[w] <= Cardinality(SuccessRows(e))
    /\ pc[w] = "bump" => seenDepth[w] < Cardinality(SuccessRows(e))
    /\ pc[w] \in {"readQuota", "charge", "execute", "record", "bump"} => seenDepth[w] < MaxDepth
    /\ pc[w] = "succeed" => Won(e)
    /\ pc[w] = "abort" => Lost(e)

ExecSound(e) ==
  /\ execDepth[e] <= MaxDepth
  /\ execDepth[e] <= Cardinality(SuccessRows(e))
  /\ execStatus[e] = "SUCCESS" => Won(e)
  /\ execStatus[e] = "FAILED" => Lost(e)

CountInv ==
  /\ IsFiniteSet(results)
  /\ \A w \in Worker : Counts(w)
  /\ \A e \in Exec : ExecSound(e)

\* Results that are added take away neither a count nor a reason.
LEMMA ReasonsStay ==
  ASSUME IsFiniteSet(results'), results \subseteq results', canvas' = canvas, NEW e
  PROVE  /\ Cardinality(SuccessRows(e)) \in Nat /\ Cardinality(SuccessRows(e))' \in Nat
         /\ Cardinality(SuccessRows(e)) <= Cardinality(SuccessRows(e))'
         /\ Won(e) => Won(e)'
         /\ Lost(e) => Lost(e)'
  <1>1. SuccessRows(e) \subseteq SuccessRows(e)' /\ SuccessRows(e)' \subseteq results'
    BY DEF SuccessRows
  <1>2. IsFiniteSet(SuccessRows(e)') /\ IsFiniteSet(SuccessRows(e))
    BY <1>1, FS_Subset
  <1>3. /\ Cardinality(SuccessRows(e)) \in Nat /\ Cardinality(SuccessRows(e)') \in Nat
        /\ Cardinality(SuccessRows(e)) <= Cardinality(SuccessRows(e)')
    BY <1>1, <1>2, FS_Subset, FS_CardinalityType
  <1>4. Won(e) => Won(e)'
    BY <1>1 DEF Won
  <1>5. Lost(e) => Lost(e)'
    BY <1>3, CausesStay, RunnerAssumption DEF Lost
  <1>6. QED
    BY <1>3, <1>4, <1>5

\* A handler that stays where it is.
LEMMA OthersCount ==
  ASSUME TypeOK, IsFiniteSet(results'), results \subseteq results', canvas' = canvas,
         NEW w \in Worker, Counts(w),
         pc'[w] = pc[w], job'[w] = job[w], seenDepth'[w] = seenDepth[w]
  PROVE  Counts(w)'
  <1>1. seenDepth[w] \in Nat
    BY DEF TypeOK
  <1>2. \A e \in Exec :
          /\ Cardinality(SuccessRows(e)) \in Nat /\ Cardinality(SuccessRows(e))' \in Nat
          /\ Cardinality(SuccessRows(e)) <= Cardinality(SuccessRows(e))'
          /\ Won(e) => Won(e)'
          /\ Lost(e) => Lost(e)'
    BY ReasonsStay
  <1>3. SUFFICES ASSUME NEW e \in Exec, pc'[w] # "idle", job'[w].exec = e
                 PROVE  /\ pc'[w] \in {"readWorkflow", "readQuota", "charge", "execute", "record"} =>
                             seenDepth'[w] <= Cardinality(SuccessRows(e))'
                        /\ pc'[w] = "bump" => seenDepth'[w] < Cardinality(SuccessRows(e))'
                        /\ pc'[w] \in {"readQuota", "charge", "execute", "record", "bump"} =>
                             seenDepth'[w] < MaxDepth
                        /\ pc'[w] = "succeed" => Won(e)'
                        /\ pc'[w] = "abort" => Lost(e)'
    BY DEF Counts
  <1>4. /\ pc[w] \in {"readWorkflow", "readQuota", "charge", "execute", "record"} =>
             seenDepth[w] <= Cardinality(SuccessRows(e))
        /\ pc[w] = "bump" => seenDepth[w] < Cardinality(SuccessRows(e))
        /\ pc[w] \in {"readQuota", "charge", "execute", "record", "bump"} => seenDepth[w] < MaxDepth
        /\ pc[w] = "succeed" => Won(e)
        /\ pc[w] = "abort" => Lost(e)
    BY <1>3 DEF Counts
  <1>5. /\ Cardinality(SuccessRows(e)) \in Nat /\ Cardinality(SuccessRows(e))' \in Nat
        /\ Cardinality(SuccessRows(e)) <= Cardinality(SuccessRows(e))'
        /\ Won(e) => Won(e)'
        /\ Lost(e) => Lost(e)'
    BY <1>2
  <1>6. QED
    BY <1>1, <1>4, <1>5

\* An execution whose row is not written.
LEMMA ExecStays ==
  ASSUME TypeOK, IsFiniteSet(results'), results \subseteq results', canvas' = canvas,
         NEW e \in Exec, ExecSound(e), execDepth'[e] = execDepth[e], execStatus'[e] = execStatus[e]
  PROVE  ExecSound(e)'
  <1>1. execDepth[e] \in Nat
    BY DEF TypeOK
  <1>2. QED
    BY <1>1, ReasonsStay DEF ExecSound

\* A step of one handler that writes at most the row of its execution.
LEMMA OneHandlerCounts ==
  ASSUME TypeOK, CountInv, NEW w \in Worker,
         \A v \in Worker \ {w} : pc'[v] = pc[v] /\ job'[v] = job[v] /\ seenDepth'[v] = seenDepth[v],
         IsFiniteSet(results'), results \subseteq results', canvas' = canvas,
         \A e \in Exec : \/ execDepth'[e] = execDepth[e] /\ execStatus'[e] = execStatus[e]
                         \/ ExecSound(e)',
         Counts(w)'
  PROVE  CountInv'
  <1>1. \A v \in Worker : Counts(v)'
    BY OthersCount DEF CountInv
  <1>2. \A e \in Exec : ExecSound(e)'
    BY ExecStays DEF CountInv
  <1>3. QED
    BY <1>1, <1>2 DEF CountInv

\* A handler at an await where it counts on nothing.
LEMMA CountsNothing ==
  ASSUME NEW w \in Worker,
         pc'[w] \in {"idle", "readExecution", "catch", "enqueue", "retry", "ack", "nack"}
  PROVE  Counts(w)'
  BY DEF Counts

\* No handler moves, and at most one execution gets a status.
LEMMA NoHandlerCounts ==
  ASSUME TypeOK, CountInv, UNCHANGED <<pc, job, seenDepth, results, canvas, execDepth>>,
         \A e \in Exec : execStatus'[e] = execStatus[e] \/ ExecSound(e)'
  PROVE  CountInv'
  <1>1. IsFiniteSet(results') /\ results \subseteq results'
    BY DEF CountInv
  <1>2. \A v \in Worker : Counts(v)'
    BY <1>1, OthersCount DEF CountInv
  <1>3. \A e \in Exec : ExecSound(e)'
    BY <1>1, ExecStays DEF CountInv
  <1>4. QED
    BY <1>1, <1>2, <1>3 DEF CountInv

LEMMA CountStart ==
  Init => CountInv
  <1> USE RunnerAssumption, JobAssumption
  <1> SUFFICES ASSUME Init PROVE CountInv
    OBVIOUS
  <1>1. IsFiniteSet(results) /\ \A e : SuccessRows(e) = {}
    BY FS_EmptySet DEF Init, SuccessRows
  <1>2. \A w \in Worker : Counts(w)
    BY DEF Init, Counts
  <1>3. \A e \in Exec : ExecSound(e)
    <2>1. \A e \in Exec : Cardinality(SuccessRows(e)) = 0
      BY <1>1, FS_EmptySet
    <2>2. \A e \in Exec : execDepth[e] = 0 /\ execStatus[e] = "NONE"
      BY DEF Init
    <2>3. QED
      BY <2>1, <2>2 DEF ExecSound
  <1>4. QED
    BY <1>1, <1>2, <1>3 DEF CountInv

LEMMA CountStep ==
  IInv /\ IInv' /\ CountInv /\ [RunnerNext]_vars => CountInv'
  <1> USE RunnerAssumption, JobAssumption
  <1> SUFFICES ASSUME IInv, IInv', CountInv, [RunnerNext]_vars PROVE CountInv'
    OBVIOUS
  <1>0. TypeOK /\ IsFiniteSet(results) /\ \A w \in Worker : pc[w] # "idle" => job[w].exec \in Exec
    BY DEF IInv, Typed, HandlersAreBound, JobId, CountInv
  <1>1. ASSUME NEW w \in Worker, ReadExecution(w) PROVE CountInv'
    <2>0. PICK e \in Exec : e = job[w].exec
      BY <1>0, <1>1 DEF ReadExecution
    <2>1. /\ UNCHANGED <<results, canvas, execStatus, execDepth, job>>
          /\ \/ pc'[w] = "ack"
             \/ pc'[w] = "readWorkflow" /\ seenDepth'[w] = execDepth[e]
      BY <1>0, <1>1, <2>0 DEF ReadExecution, Goto, TypeOK, execVars, wfVars
    <2>2. execDepth[e] <= Cardinality(SuccessRows(e))
      BY <1>0, <1>1, <2>0 DEF ReadExecution, CountInv, ExecSound
    <2>3. SuccessRows(e)' = SuccessRows(e)
      BY <2>1 DEF SuccessRows
    <2>4. Counts(w)'
      BY <2>0, <2>1, <2>2, <2>3 DEF Counts
    <2>5. QED
      BY <1>0, <1>1, <2>1, <2>4, OneHandlerCounts DEF ReadExecution, Goto, TypeOK
  <1>2. ASSUME NEW w \in Worker, ReadWorkflow(w) PROVE CountInv'
    <2>0. PICK e \in Exec : e = job[w].exec
      BY <1>0, <1>2 DEF ReadWorkflow
    <2>1. /\ UNCHANGED <<results, canvas, execStatus, execDepth, job, seenDepth>>
          /\ seenDepth[w] <= Cardinality(SuccessRows(e)) /\ seenDepth[w] \in Nat
      BY <1>0, <1>2, <2>0 DEF ReadWorkflow, TypeOK, CountInv, Counts, execVars, wfVars
    <2>2. job[w].key \in Canvases[canvas].steps
      <3>1. Due(e, job[w].key)
        BY <1>0, <1>2, <2>0 DEF ReadWorkflow, IInv, Holds, Store, JobsCaused, Caused
      <3>2. IsCanvas(Canvases[canvas]) /\ job[w].key \in Key
        BY <1>0, <1>2, <2>0 DEF ReadWorkflow, TypeOK, IInv, Holds, JobId
      <3>3. QED
        BY <3>1, <3>2, KeyAssumption DEF Due, IsCanvas
    <2>3. \/ pc'[w] = "abort" /\ seenDepth[w] >= MaxDepth
          \/ pc'[w] \in {"readQuota", "execute"} /\ seenDepth[w] < MaxDepth
      <3>1. pc'[w] = IF AtMaxDepth(seenDepth[w]) \/ job[w].key \notin Canvases[canvas].steps THEN "abort"
                     ELSE IF job[w].key \in Canvases[canvas].agents THEN "readQuota" ELSE "execute"
        BY <1>0, <1>2 DEF ReadWorkflow, Goto, TypeOK
      <3>2. CASE seenDepth[w] >= MaxDepth
        BY <3>1, <3>2 DEF AtMaxDepth
      <3>3. CASE ~(seenDepth[w] >= MaxDepth)
        <4>1. seenDepth[w] < MaxDepth
          BY <2>1, <3>3
        <4>2. QED
          BY <2>2, <3>1, <3>3, <4>1 DEF AtMaxDepth
      <3>4. QED
        BY <3>2, <3>3
    <2>4. SuccessRows(e)' = SuccessRows(e) /\ Cardinality(SuccessRows(e)) \in Nat
      BY <1>0, <2>1, ReasonsStay DEF SuccessRows
    <2>5. Counts(w)'
      BY <2>0, <2>1, <2>3, <2>4 DEF Counts, Lost
    <2>6. QED
      BY <1>0, <1>2, <2>1, <2>5, OneHandlerCounts DEF ReadWorkflow, Goto, TypeOK
  <1>3. ASSUME NEW w \in Worker, ReadQuota(w) \/ Charge(w) \/ Execute(w) PROVE CountInv'
    <2>1. UNCHANGED <<results, canvas, execStatus, execDepth, job, seenDepth>>
      BY <1>3 DEF ReadQuota, Charge, Execute, execVars, wfVars, localVars
    <2>2. /\ pc[w] \in {"readQuota", "charge", "execute"}
          /\ pc'[w] \in {"charge", "execute", "record", "catch"}
      BY <1>0, <1>3 DEF ReadQuota, Charge, Execute, Goto, TypeOK
    <2>3. \A e : SuccessRows(e)' = SuccessRows(e)
      BY <2>1 DEF SuccessRows
    <2>4. Counts(w)'
      BY <2>1, <2>2, <2>3 DEF CountInv, Counts
    <2>5. \A v \in Worker \ {w} : pc'[v] = pc[v]
      BY <1>0, <1>3 DEF ReadQuota, Charge, Execute, Goto, TypeOK
    <2>6. QED
      BY <1>0, <2>1, <2>4, <2>5, OneHandlerCounts
  <1>4. ASSUME NEW w \in Worker, RecordSuccess(w) PROVE CountInv'
    <2>0. PICK e \in Exec : e = job[w].exec
      BY <1>0, <1>4 DEF RecordSuccess
    <2> DEFINE row == RowOf(w, "SUCCESS", output[w])
    <2>1. UNCHANGED <<canvas, execStatus, execDepth, job, seenDepth>>
      BY <1>4 DEF RecordSuccess, wfVars, localVars
    <2>2. \A v \in Worker \ {w} : pc'[v] = pc[v]
      BY <1>0, <1>4, <2>0 DEF RecordSuccess, Goto, TypeOK
    <2>3. CASE CreateConflicts(w)
      <3>1. pc'[w] = "catch" /\ results' = results
        BY <1>0, <1>4, <2>3 DEF RecordSuccess, Goto, TypeOK
      <3>2. QED
        BY <1>0, <2>1, <2>2, <3>1, CountsNothing, OneHandlerCounts
    <2>4. CASE ~CreateConflicts(w)
      <3>1. pc'[w] = "bump" /\ results' = results \cup {row} /\ row \notin results
        BY <1>0, <1>4, <2>4 DEF RecordSuccess, Goto, TypeOK, CreateConflicts, RowExists, RowOf
      <3>2. IsFiniteSet(results') /\ results \subseteq results'
        BY <1>0, <3>1, FS_AddElement
      <3>3. SuccessRows(e)' = SuccessRows(e) \cup {row} /\ row \notin SuccessRows(e)
        BY <2>0, <3>1 DEF SuccessRows, RowOf
      <3>4. Cardinality(SuccessRows(e)') = Cardinality(SuccessRows(e)) + 1
        <4>1. IsFiniteSet(SuccessRows(e))
          BY <1>0, FS_Subset DEF SuccessRows
        <4>2. QED
          BY <3>3, <4>1, FS_AddElement
      <3>5. seenDepth[w] <= Cardinality(SuccessRows(e)) /\ seenDepth[w] < MaxDepth
        BY <1>4, <2>0 DEF RecordSuccess, CountInv, Counts
      <3>6. Cardinality(SuccessRows(e)) \in Nat /\ seenDepth[w] \in Nat
        BY <1>0, <2>1, <3>2, ReasonsStay DEF TypeOK
      <3>7. Counts(w)'
        BY <2>0, <2>1, <3>1, <3>4, <3>5, <3>6 DEF Counts
      <3>8. QED
        BY <1>0, <2>1, <2>2, <3>2, <3>7, OneHandlerCounts
    <2>5. QED
      BY <2>3, <2>4
  <1>5. ASSUME NEW w \in Worker, BumpDepth(w) PROVE CountInv'
    <2>0. PICK e \in Exec : e = job[w].exec
      BY <1>0, <1>5 DEF BumpDepth
    <2>1. /\ UNCHANGED <<results, canvas, execStatus, job, seenDepth>> /\ e \in Exec
          /\ execDepth' = [execDepth EXCEPT ![e] = seenDepth[w] + 1]
      BY <1>0, <1>5, <2>0 DEF BumpDepth, wfVars
    <2>2. /\ seenDepth[w] \in Nat /\ Cardinality(SuccessRows(e)) \in Nat
          /\ seenDepth[w] < Cardinality(SuccessRows(e)) /\ seenDepth[w] < MaxDepth
      BY <1>0, <1>5, <2>0, <2>1, ReasonsStay DEF BumpDepth, CountInv, Counts, TypeOK
    <2>3. /\ SuccessRows(e)' = SuccessRows(e) /\ Won(e)' = Won(e) /\ Lost(e)' = Lost(e)
      BY <2>1 DEF SuccessRows, Won, Lost, Exhausted
    <2>4. ExecSound(e)'
      BY <1>0, <2>1, <2>2, <2>3 DEF ExecSound, CountInv, TypeOK
    <2>5. Counts(w)'
      <3> DEFINE row == RowOf(w, "SUCCESS", output[w])
      <3>1. seenCanvas[w] = canvas /\ row \in results
        BY <1>5 DEF BumpDepth, IInv, Holds, Reading
      <3>2. row \in SuccessRows(e) /\ row.key = job[w].key /\ row.output = output[w]
        BY <2>0, <3>1 DEF SuccessRows, RowOf
      <3> DEFINE next == NextTransitions(Canvases[canvas], row.key, row.output, FALSE)
      <3> HIDE DEF row, next
      <3>3. \/ pc'[w] = "enqueue"
            \/ pc'[w] = "succeed" /\ next = {}
        <4>1. pc'[w] = IF next = {} THEN "succeed" ELSE "enqueue"
          BY <1>0, <1>5, <3>1, <3>2 DEF BumpDepth, Goto, TypeOK, next
        <4>2. QED
          BY <4>1
      <3>4. pc'[w] = "succeed" => Won(e)
        BY <3>2, <3>3 DEF Won, next
      <3>5. QED
        BY <2>0, <2>1, <2>3, <3>3, <3>4 DEF Counts
    <2>6. QED
      BY <1>0, <1>5, <2>1, <2>4, <2>5, OneHandlerCounts DEF BumpDepth, Goto, TypeOK
  <1>6. ASSUME NEW w \in Worker, Succeed(w) \/ Abort(w) PROVE CountInv'
    <2>0. PICK e \in Exec : e = job[w].exec
      BY <1>0, <1>6 DEF Succeed, Abort
    <2>1. UNCHANGED <<results, canvas, execDepth, job, seenDepth>> /\ e \in Exec /\ pc'[w] = "ack"
      BY <1>0, <1>6, <2>0 DEF Succeed, Abort, Goto, TypeOK, wfVars, localVars
    <2>2. \/ execStatus' = [execStatus EXCEPT ![e] = "SUCCESS"] /\ Won(e)
          \/ execStatus' = [execStatus EXCEPT ![e] = "FAILED"] /\ Lost(e)
      BY <1>6, <2>0 DEF Succeed, Abort, SetStatus, CountInv, Counts
    <2>3. /\ SuccessRows(e)' = SuccessRows(e) /\ Won(e)' = Won(e) /\ Lost(e)' = Lost(e)
      BY <2>1 DEF SuccessRows, Won, Lost, Exhausted
    <2>4. ExecSound(e)'
      BY <1>0, <2>1, <2>2, <2>3 DEF ExecSound, CountInv, TypeOK
    <2>5. QED
      BY <1>0, <1>6, <2>1, <2>2, <2>4, CountsNothing, OneHandlerCounts
         DEF Succeed, Abort, Goto, TypeOK
  <1>7. ASSUME NEW w \in Worker, RecordFailure(w) PROVE CountInv'
    <2>0. PICK e \in Exec : e = job[w].exec
      BY <1>0, <1>7 DEF RecordFailure
    <2> DEFINE row == RowOf(w, "FAILED", FALSE)
    <2>1. UNCHANGED <<canvas, execStatus, execDepth, job, seenDepth>>
      BY <1>7 DEF RecordFailure, wfVars
    <2>2. \A v \in Worker \ {w} : pc'[v] = pc[v]
      BY <1>0, <1>7, <2>0 DEF RecordFailure, Goto, TypeOK
    <2>3. CASE CreateConflicts(w)
      <3>1. pc'[w] = "nack" /\ results' = results
        BY <1>0, <1>7, <2>3 DEF RecordFailure, Goto, TypeOK
      <3>2. QED
        BY <1>0, <2>1, <2>2, <3>1, CountsNothing, OneHandlerCounts
    <2>4. CASE ~CreateConflicts(w)
      <3>1. /\ results' = results \cup {row}
            /\ \/ pc'[w] \in {"retry", "enqueue"}
               \/ pc'[w] = "abort" /\ ~RetriesLeft(job[w])
        BY <1>0, <1>7, <2>4 DEF RecordFailure, Goto, TypeOK
      <3>2. IsFiniteSet(results') /\ results \subseteq results'
        BY <1>0, <3>1, FS_AddElement
      <3>3. pc'[w] = "abort" => Lost(e)'
        <4>1. job[w] \in JobId /\ job[w].key \in Key
          BY <1>7 DEF RecordFailure, IInv, Holds, JobId
        <4>2. ~RetriesLeft(job[w]) => AttemptOf(job[w]) = MaxAttempts
          BY <4>1, AttemptType DEF RetriesLeft
        <4>3. pc'[w] = "abort" => row.attempt = MaxAttempts
          BY <3>1, <4>2 DEF RowOf
        <4>4. row.exec = job[w].exec /\ row.key = job[w].key /\ row.status = "FAILED"
          BY DEF RowOf
        <4>5. PICK k \in Key : k = job[w].key
          BY <4>1
        <4>6. pc'[w] = "abort" => Exhausted(e, k)'
          BY <2>0, <3>1, <4>3, <4>4, <4>5 DEF Exhausted
        <4>7. QED
          BY <4>6 DEF Lost
      <3>4. Counts(w)'
        BY <2>0, <2>1, <3>1, <3>3 DEF Counts
      <3>5. QED
        BY <1>0, <2>1, <2>2, <3>2, <3>4, OneHandlerCounts
    <2>5. QED
      BY <2>3, <2>4
  <1>8. ASSUME NEW w \in Worker,
               \/ EnqueueNext(w) \/ RetryStep(w) \/ Ack(w) \/ Nack(w) \/ InfraError(w) \/ Crash(w)
               \/ \E j \in JobId : TakeJob(w, j)
        PROVE  CountInv'
    <2>1. UNCHANGED <<results, canvas, execStatus, execDepth>>
      BY <1>8 DEF EnqueueNext, RetryStep, Ack, Nack, InfraError, Crash, TakeJob, execVars, wfVars
    <2>2. PICK label \in {"idle", "readExecution", "catch", "enqueue", "ack", "nack"} :
            pc' = [pc EXCEPT ![w] = label]
      BY <1>8 DEF EnqueueNext, RetryStep, Ack, Nack, InfraError, Crash, TakeJob, Release, Goto
    <2>3. \A v \in Worker \ {w} : pc'[v] = pc[v] /\ job'[v] = job[v] /\ seenDepth'[v] = seenDepth[v]
      <3>1. \/ UNCHANGED <<job, seenDepth>>
            \/ job' = [job EXCEPT ![w] = NoJob] /\ seenDepth' = [seenDepth EXCEPT ![w] = 0]
            \/ (\E j \in JobId : job' = [job EXCEPT ![w] = j]) /\ seenDepth' = seenDepth
        BY <1>8 DEF EnqueueNext, RetryStep, Ack, Nack, InfraError, Crash, TakeJob, Release, localVars
      <3>2. QED
        BY <1>0, <2>2, <3>1 DEF TypeOK
    <2>4. pc'[w] \in {"idle", "readExecution", "catch", "enqueue", "retry", "ack", "nack"}
      BY <1>0, <2>2 DEF TypeOK
    <2>5. QED
      BY <1>0, <2>1, <2>3, <2>4, CountsNothing, OneHandlerCounts
  <1>9. ASSUME NEW t \in TriggerJob, TriggerFires(t) \/ ReadPublished(t) \/ TriggerLost(t)
        PROVE  CountInv'
    <2>1. UNCHANGED <<pc, job, seenDepth, results, canvas, execDepth, execStatus>>
      BY <1>9 DEF TriggerFires, ReadPublished, TriggerLost, execVars, wfVars, localVars
    <2>2. QED
      BY <1>0, <2>1, NoHandlerCounts
  <1>10. ASSUME NEW t \in TriggerJob, NEW e \in Exec, CreateExecution(t, e) PROVE CountInv'
    <2>1. /\ UNCHANGED <<pc, job, seenDepth, results, canvas, execDepth>>
          /\ execStatus' = [execStatus EXCEPT ![e] = "RUNNING"]
      BY <1>10 DEF CreateExecution, SetStatus, wfVars, localVars
    <2>2. SuccessRows(e)' = SuccessRows(e)
      BY <2>1 DEF SuccessRows
    <2>3. ExecSound(e)'
      BY <1>0, <2>1, <2>2 DEF ExecSound, CountInv, TypeOK
    <2>4. QED
      BY <1>0, <2>1, <2>3, NoHandlerCounts DEF TypeOK
  <1>11. ASSUME NEW t \in TriggerJob, DispatchTrigger(t) PROVE CountInv'
    <2>0. PICK e \in Exec : e = trigExec[t]
      BY <1>11 DEF DispatchTrigger, IInv, Typed, HandlersAreBound
    <2>1. /\ UNCHANGED <<pc, job, seenDepth, results, canvas, execDepth>>
          /\ trigCanvas[t] = canvas
      BY <1>11 DEF DispatchTrigger, wfVars, localVars, IInv, Typed, HandlersAreBound, TriggerHolds
    <2>2. CASE Canvases[canvas].trigger = NoKey
      <3>1. execStatus' = [execStatus EXCEPT ![e] = "FAILED"]
        BY <1>11, <2>0, <2>1, <2>2 DEF DispatchTrigger, SetStatus
      <3>2. SuccessRows(e)' = SuccessRows(e) /\ Lost(e)'
        BY <2>1, <2>2 DEF SuccessRows, Lost
      <3>3. ExecSound(e)'
        BY <1>0, <2>1, <3>1, <3>2 DEF ExecSound, CountInv, TypeOK
      <3>4. QED
        BY <1>0, <2>1, <3>1, <3>3, NoHandlerCounts DEF TypeOK
    <2>3. CASE Canvases[canvas].trigger # NoKey
      <3>1. execStatus' = execStatus
        BY <1>11, <2>1, <2>3 DEF DispatchTrigger
      <3>2. QED
        BY <1>0, <2>1, <3>1, NoHandlerCounts
    <2>4. QED
      BY <2>2, <2>3
  <1>12. ASSUME NEW j \in JobId, RecoverStalled(j) \/ LoseLock(j) PROVE CountInv'
    BY <1>0, <1>12, NoHandlerCounts DEF RecoverStalled, LoseLock, PutBack, execVars, wfVars, localVars
  <1>13. ASSUME NEW e \in Exec, CancelExecution(e) PROVE CountInv'
    <2>1. /\ UNCHANGED <<pc, job, seenDepth, results, canvas, execDepth>>
          /\ execStatus' = [execStatus EXCEPT ![e] = "CANCELLED"]
      BY <1>13 DEF CancelExecution, SetStatus, wfVars, localVars
    <2>2. SuccessRows(e)' = SuccessRows(e)
      BY <2>1 DEF SuccessRows
    <2>3. ExecSound(e)'
      BY <1>0, <2>1, <2>2 DEF ExecSound, CountInv, TypeOK
    <2>4. QED
      BY <1>0, <2>1, <2>3, NoHandlerCounts DEF TypeOK
  <1>14. CASE UNCHANGED vars
    BY <1>0, <1>14, NoHandlerCounts DEF vars, execVars, wfVars, localVars
  <1>15. QED
    BY <1>1, <1>2, <1>3, <1>4, <1>5, <1>6, <1>7, <1>8, <1>9, <1>10, <1>11, <1>12, <1>13, <1>14
       DEF RunnerNext, HandlerStep, TriggerStep

\* The invariant about depth and outcome.
THEOREM CountInvariance == Spec => []CountInv
  <1> USE RunnerAssumption, JobAssumption
  <1>1. Init => CountInv
    BY CountStart
  <1>2. IInv /\ IInv' /\ CountInv /\ [RunnerNext]_vars => CountInv'
    BY CountStep
  <1>3. QED
    BY <1>1, <1>2, Invariance, PTL DEF Spec

\* Branches that write the depth from stale reads never make it count a step
\* without a result, nor pass max_depth.
THEOREM DepthSound == Spec => []DepthIsSound
  <1>1. CountInv => DepthIsSound
    BY DEF CountInv, ExecSound, DepthIsSound
  <1>2. QED
    BY <1>1, CountInvariance, PTL

\* Every SUCCESS and every FAILED that is stored has its reason in the rows.
THEOREM OutcomeJustified == Spec => []OutcomeHasReason
  <1>1. CountInv => OutcomeHasReason
    BY DEF CountInv, ExecSound, Won, Lost, OutcomeHasReason
  <1>2. QED
    BY <1>1, CountInvariance, PTL

-----------------------------------------------------------------------------
(***************************************************************************)
(* Jobs and trigger handlers only concern executions that were created.    *)
(***************************************************************************)

Started ==
  /\ \A j \in JobId : jobState[j] # "absent" => execStatus[j.exec] # "NONE"
  /\ \A t \in TriggerJob : trigState[t] = "dispatch" => execStatus[trigExec[t]] # "NONE"

LEMMA StaysStarted ==
  ASSUME Typed, Started,
         \A e \in Exec : execStatus[e] # "NONE" => execStatus'[e] # "NONE",
         \A j \in JobId : jobState'[j] # "absent" =>
           jobState[j] # "absent" \/ execStatus'[j.exec] # "NONE",
         \A t \in TriggerJob : trigState'[t] = "dispatch" =>
           \/ trigState[t] = "dispatch" /\ trigExec'[t] = trigExec[t]
           \/ execStatus'[trigExec'[t]] # "NONE"
  PROVE  Started'
  BY DEF Started, Typed, HandlersAreBound, JobId

\* A status that is written is not "NONE".
LEMMA StatusStarts ==
  ASSUME TypeOK, NEW e \in Exec, NEW status, status # "NONE", SetStatus(e, status)
  PROVE  /\ execStatus'[e] # "NONE"
         /\ \A x \in Exec : execStatus[x] # "NONE" => execStatus'[x] # "NONE"
  BY DEF SetStatus, TypeOK

LEMMA StartedStep ==
  IInv /\ Started /\ [RunnerNext]_vars => Started'
  <1> USE RunnerAssumption, JobAssumption
  <1> SUFFICES ASSUME IInv, Started, [RunnerNext]_vars PROVE Started'
    OBVIOUS
  <1>0. Typed /\ TypeOK /\ \A w \in Worker : pc[w] # "idle" =>
          job[w] \in JobId /\ job[w].exec \in Exec /\ jobState[job[w]] # "absent"
    BY DEF IInv, Typed, Holds, JobId
  <1>1. ASSUME NEW w \in Worker,
               \/ ReadExecution(w) \/ ReadWorkflow(w) \/ ReadQuota(w) \/ Charge(w) \/ Execute(w)
               \/ RecordSuccess(w) \/ BumpDepth(w) \/ RecordFailure(w) \/ InfraError(w) \/ Crash(w)
        PROVE  Started'
    <2>1. UNCHANGED <<execStatus, jobState, trigState, trigExec>>
      BY <1>1 DEF ReadExecution, ReadWorkflow, ReadQuota, Charge, Execute, RecordSuccess, BumpDepth,
         RecordFailure, InfraError, Crash, execVars, queueVars, trigVars
    <2>2. QED
      BY <1>0, <2>1, StaysStarted
  <1>2. ASSUME NEW w \in Worker, Ack(w) \/ Nack(w) PROVE Started'
    <2>1. /\ UNCHANGED <<execStatus, trigState, trigExec>>
          /\ \A j \in JobId : jobState'[j] # "absent" => jobState[j] # "absent"
      BY <1>0, <1>2 DEF Ack, Nack, TypeOK, execVars, trigVars
    <2>2. QED
      BY <1>0, <2>1, StaysStarted
  <1>3. ASSUME NEW j \in JobId, RecoverStalled(j) \/ LoseLock(j) \/ \E w \in Worker : TakeJob(w, j)
        PROVE  Started'
    <2>1. /\ UNCHANGED <<execStatus, trigState, trigExec>>
          /\ \A i \in JobId : jobState'[i] # "absent" => jobState[i] # "absent"
      BY <1>0, <1>3 DEF RecoverStalled, LoseLock, PutBack, TakeJob, TypeOK, execVars, trigVars
    <2>2. QED
      BY <1>0, <2>1, StaysStarted
  <1>4. ASSUME NEW w \in Worker, EnqueueNext(w) \/ RetryStep(w) PROVE Started'
    <2>1. execStatus[job[w].exec] # "NONE"
      BY <1>0, <1>4 DEF EnqueueNext, RetryStep, Started
    <2>2. PICK j : j.exec = job[w].exec /\ AddJob(j)
      <3>1. CASE EnqueueNext(w)
        <4>1. PICK edge \in todo[w], now \in MaxAttempts + 1 .. MaxClock :
                AddJob([exec |-> job[w].exec, key |-> edge.target, stamp |-> now])
          BY <3>1 DEF EnqueueNext
        <4>2. QED
          BY <4>1
      <3>2. CASE RetryStep(w)
        <4>1. job[w] \in JobId
          BY <1>0, <3>2 DEF RetryStep
        <4>2. RetryOf(job[w]).exec = job[w].exec
          BY <4>1 DEF RetryOf, JobId
        <4>3. QED
          BY <3>2, <4>2 DEF RetryStep
      <3>3. QED
        BY <1>4, <3>1, <3>2
    <2>3. UNCHANGED <<execStatus, trigState, trigExec>>
      BY <1>4 DEF EnqueueNext, RetryStep, execVars, trigVars
    <2>4. \A i \in JobId : jobState'[i] # "absent" => jobState[i] # "absent" \/ i = j
      BY <1>0, <2>2 DEF AddJob, TypeOK
    <2>5. QED
      BY <1>0, <2>1, <2>2, <2>3, <2>4, StaysStarted
  <1>5. ASSUME NEW w \in Worker, Succeed(w) \/ Abort(w) PROVE Started'
    <2>1. /\ UNCHANGED <<jobState, trigState, trigExec>> /\ job[w].exec \in Exec
          /\ SetStatus(job[w].exec, "SUCCESS") \/ SetStatus(job[w].exec, "FAILED")
      BY <1>0, <1>5 DEF Succeed, Abort, queueVars, trigVars
    <2>2. QED
      BY <1>0, <2>1, StatusStarts, StaysStarted
  <1>6. ASSUME NEW e \in Exec, CancelExecution(e) PROVE Started'
    <2>1. UNCHANGED <<jobState, trigState, trigExec>> /\ SetStatus(e, "CANCELLED")
      BY <1>6 DEF CancelExecution, queueVars, trigVars
    <2>2. QED
      BY <1>0, <2>1, StatusStarts, StaysStarted
  <1>7. ASSUME NEW t \in TriggerJob, TriggerFires(t) \/ ReadPublished(t) \/ TriggerLost(t)
        PROVE  Started'
    <2>1. UNCHANGED <<execStatus, jobState, trigExec>>
      BY <1>7 DEF TriggerFires, ReadPublished, TriggerLost, execVars, queueVars
    <2>2. \A s \in TriggerJob : trigState'[s] = "dispatch" => trigState[s] = "dispatch"
      BY <1>0, <1>7 DEF TriggerFires, ReadPublished, TriggerLost, TypeOK
    <2>3. QED
      BY <1>0, <2>1, <2>2, StaysStarted
  <1>8. ASSUME NEW t \in TriggerJob, NEW e \in Exec, CreateExecution(t, e) PROVE Started'
    <2>1. SetStatus(e, "RUNNING") /\ UNCHANGED jobState
      BY <1>8 DEF CreateExecution, queueVars
    <2>2. /\ execStatus'[e] # "NONE"
          /\ \A x \in Exec : execStatus[x] # "NONE" => execStatus'[x] # "NONE"
      BY <1>0, <2>1, StatusStarts
    <2>3. \A s \in TriggerJob : trigState'[s] = "dispatch" =>
            \/ trigState[s] = "dispatch" /\ trigExec'[s] = trigExec[s]
            \/ trigExec'[s] = e
      BY <1>0, <1>8 DEF CreateExecution, TypeOK
    <2>4. QED
      BY <1>0, <2>1, <2>2, <2>3, StaysStarted
  <1>9. ASSUME NEW t \in TriggerJob, DispatchTrigger(t) PROVE Started'
    <2>0. PICK e \in Exec : e = trigExec[t] /\ execStatus[e] # "NONE"
      BY <1>0, <1>9 DEF DispatchTrigger, Typed, HandlersAreBound, Started
    <2>1. /\ \A x \in Exec : execStatus[x] # "NONE" => execStatus'[x] # "NONE"
          /\ \A j \in JobId : jobState'[j] # "absent" => jobState[j] # "absent" \/ j.exec = e
      <3>1. CASE Canvases[trigCanvas[t]].trigger = NoKey
        <4>1. SetStatus(e, "FAILED") /\ UNCHANGED jobState
          BY <1>9, <2>0, <3>1 DEF DispatchTrigger
        <4>2. QED
          BY <1>0, <4>1, StatusStarts
      <3>2. CASE Canvases[trigCanvas[t]].trigger # NoKey
        <4>1. PICK j : j.exec = e /\ AddJob(j) /\ UNCHANGED execStatus
          BY <1>9, <2>0, <3>2 DEF DispatchTrigger
        <4>2. QED
          BY <1>0, <4>1 DEF AddJob, TypeOK
      <3>3. QED
        BY <3>1, <3>2
    <2>2. \A s \in TriggerJob : trigState'[s] = "dispatch" =>
            trigState[s] = "dispatch" /\ trigExec'[s] = trigExec[s]
      BY <1>0, <1>9 DEF DispatchTrigger, TypeOK
    <2>3. QED
      BY <1>0, <2>0, <2>1, <2>2, StaysStarted
  <1>10. CASE UNCHANGED vars
    BY <1>10 DEF vars, Started, execVars, queueVars, trigVars
  <1>11. QED
    BY <1>1, <1>2, <1>3, <1>4, <1>5, <1>6, <1>7, <1>8, <1>9, <1>10
       DEF RunnerNext, HandlerStep, TriggerStep

\* The queue never holds a job, nor a trigger handler the id, of an execution
\* that was not created.
THEOREM StartedAlways == Spec => []Started
  <1> USE RunnerAssumption, JobAssumption
  <1>1. Init => Started
    BY DEF Init, Started
  <1>2. IInv /\ Started /\ [RunnerNext]_vars => Started'
    BY StartedStep
  <1>3. QED
    BY <1>1, <1>2, Invariance, PTL DEF Spec

-----------------------------------------------------------------------------
(***************************************************************************)
(* The refinement mapping: the final results of the steps, as records.     *)
(***************************************************************************)

Done == {[exec |-> r.exec, key |-> r.key, output |-> r.output] :
           r \in {q \in results : q.status = "SUCCESS"}}

Gone == {[exec |-> r.exec, key |-> r.key] :
           r \in {q \in results : q.status = "FAILED" /\ q.attempt = MaxAttempts}}

\* A transition that the engine follows, the abstract specification follows.
LEMMA FollowedMaps ==
  ASSUME NEW e, NEW edge, Followed(e, edge)
  PROVE  Progress!Followed(e, edge)
  <1>1. CASE \E r \in results : /\ r.exec = e /\ r.key = edge.source /\ r.status = "SUCCESS"
                                /\ shouldFollowTransition(edge.route, r.output, FALSE)
    <2>1. PICK r \in results : /\ r.exec = e /\ r.key = edge.source /\ r.status = "SUCCESS"
                               /\ shouldFollowTransition(edge.route, r.output, FALSE)
      BY <1>1
    <2> DEFINE d == [exec |-> r.exec, key |-> r.key, output |-> r.output]
    <2>2. d \in Done /\ d.exec = r.exec /\ d.key = r.key /\ d.output = r.output
      BY <2>1 DEF Done
    <2> HIDE DEF d
    <2>3. QED
      BY <2>1, <2>2 DEF Progress!Followed, Progress!shouldFollowTransition, shouldFollowTransition, Done
  <1>2. CASE /\ edge.source \in Canvases[canvas].continues
             /\ Exhausted(e, edge.source)
             /\ shouldFollowTransition(edge.route, FALSE, TRUE)
    <2>1. [exec |-> e, key |-> edge.source] \in Gone
      BY <1>2 DEF Gone, Exhausted
    <2>2. QED
      BY <1>2, <2>1 DEF Progress!Followed, Progress!shouldFollowTransition, shouldFollowTransition, Gone
  <1>3. QED
    BY <1>1, <1>2 DEF Followed

LEMMA DueMaps ==
  ASSUME NEW e, NEW k, Due(e, k)
  PROVE  Progress!Due(e, k)
  BY FollowedMaps DEF Due, Progress!Due

\* A job whose row is not stored yet is for a step that has not ended: the
\* attempts before its own have failed and no later one has been made.
LEMMA NotEnded ==
  ASSUME IInv, NEW j \in JobId, jobState[j] # "absent", ~RowExists(j.exec, j.key, AttemptOf(j))
  PROVE  ~Progress!Ended(j.exec, j.key)
  <1> DEFINE a == AttemptOf(j)
  <1>1. a \in 1 .. MaxAttempts /\ MaxAttempts \in Nat
    BY AttemptType, RunnerAssumption
  <1>2. Caused(j) /\ j.stamp \in Nat
    BY RunnerAssumption DEF IInv, Store, JobsCaused, JobId
  <1>3. \A b \in 1 .. a - 1 : FailedAt(j.exec, j.key, b)
    BY <1>2, RunnerAssumption DEF Caused, AttemptOf
  <1> HIDE DEF a
  <1>4. ASSUME NEW r \in results, r.exec = j.exec, r.key = j.key PROVE r.attempt < a /\ r.status = "FAILED"
    <2>1. r.attempt \in 1 .. MaxAttempts
      BY DEF IInv, Typed, TypeOK, Row
    <2>2. r.attempt # a
      BY <1>4 DEF RowExists, a
    <2>3. CASE r.attempt > a
      <3>1. FailedAt(r.exec, r.key, a)
        BY <1>1, <2>1, <2>3 DEF IInv, Store, RowsCaused
      <3>2. QED
        BY <1>4, <3>1 DEF FailedAt, RowExists, a
    <2>4. CASE r.attempt < a
      <3>1. FailedAt(r.exec, r.key, r.attempt)
        BY <1>1, <1>3, <1>4, <2>1, <2>4
      <3>2. QED
        BY <2>4, <3>1 DEF FailedAt, IInv, Store, UniqueRows
    <2>5. QED
      BY <1>1, <2>1, <2>2, <2>3, <2>4
  <1>5. ~ \E d \in Done : d.exec = j.exec /\ d.key = j.key
    BY <1>4 DEF Done
  <1>6. [exec |-> j.exec, key |-> j.key] \notin Gone
    <2>1. SUFFICES ASSUME NEW r \in results, r.status = "FAILED", r.attempt = MaxAttempts,
                          [exec |-> j.exec, key |-> j.key] = [exec |-> r.exec, key |-> r.key]
                   PROVE  FALSE
      BY DEF Gone
    <2>2. r.exec = j.exec /\ r.key = j.key
      BY <2>1
    <2>3. QED
      BY <1>1, <1>4, <2>1, <2>2
  <1>7. QED
    BY <1>5, <1>6 DEF Progress!Ended, Done, Gone

\* The steps that ended well are as many as the rows that say so.
LEMMA DoneCounts ==
  ASSUME IInv, CountInv, NEW e \in Exec
  PROVE  Cardinality({d \in Done : d.exec = e}) = Cardinality(SuccessRows(e))
  <1> DEFINE f == [r \in SuccessRows(e) |-> [exec |-> r.exec, key |-> r.key, output |-> r.output]]
             D == {d \in Done : d.exec = e}
  <1>1. \A r \in SuccessRows(e) : f[r] = [exec |-> r.exec, key |-> r.key, output |-> r.output]
    OBVIOUS
  <1>2. \A r \in SuccessRows(e) : f[r] \in D
    BY <1>1 DEF Done, SuccessRows
  <1>3. \A d \in D : \E r \in SuccessRows(e) : f[r] = d
    <2>1. SUFFICES ASSUME NEW d \in D PROVE \E r \in SuccessRows(e) : f[r] = d
      OBVIOUS
    <2>2. PICK r \in results : r.status = "SUCCESS" /\ d = [exec |-> r.exec, key |-> r.key, output |-> r.output]
      BY DEF Done
    <2>3. r \in SuccessRows(e)
      BY <2>2 DEF SuccessRows
    <2>4. QED
      BY <1>1, <2>2, <2>3
  <1>4. \A r, q \in SuccessRows(e) : f[r] = f[q] => r = q
    <2>1. SUFFICES ASSUME NEW r \in SuccessRows(e), NEW q \in SuccessRows(e), f[r] = f[q] PROVE r = q
      OBVIOUS
    <2>2. r.exec = q.exec /\ r.key = q.key
      BY <1>1, <2>1
    <2>3. SuccessIsFinal /\ r \in Row /\ q \in Row
      BY SuccessLast DEF IInv, Typed, TypeOK, SuccessRows
    <2>4. r.attempt \in Nat /\ q.attempt \in Nat
      BY <2>3 DEF Row
    <2>5. QED
      BY <2>2, <2>3, <2>4 DEF SuccessIsFinal, SuccessRows
  <1>5. IsFiniteSet(SuccessRows(e))
    BY FS_Subset DEF CountInv, SuccessRows
  <1> HIDE DEF D
  <1>6. f \in Bijection(SuccessRows(e), D)
    <2>1. f \in [SuccessRows(e) -> D]
      BY <1>2
    <2> HIDE DEF f
    <2>2. QED
      BY <1>3, <1>4, <2>1 DEF Bijection, Injection, Surjection, IsInjective
  <1>7. QED
    BY <1>5, <1>6, FS_Bijection DEF ExistsBijection, D

\* The reasons for a final status are those of the abstract specification.
LEMMA ReasonsMap ==
  ASSUME IInv, CountInv, NEW e \in Exec
  PROVE  /\ Won(e) => \E d \in Done : d.exec = e /\ NextTransitions(Canvases[canvas], d.key, d.output, FALSE) = {}
         /\ Lost(e) => \/ \E x \in Gone : x.exec = e
                       \/ Cardinality({d \in Done : d.exec = e}) >= MaxDepth
                       \/ Canvases[canvas].trigger = NoKey
  <1>1. ASSUME Won(e)
        PROVE  \E d \in Done : d.exec = e /\ NextTransitions(Canvases[canvas], d.key, d.output, FALSE) = {}
    <2>1. PICK r \in SuccessRows(e) : NextTransitions(Canvases[canvas], r.key, r.output, FALSE) = {}
      BY <1>1 DEF Won
    <2> DEFINE d == [exec |-> r.exec, key |-> r.key, output |-> r.output]
    <2>2. d \in Done /\ d.exec = e /\ d.key = r.key /\ d.output = r.output
      BY DEF Done, SuccessRows
    <2> HIDE DEF d
    <2>3. QED
      BY <2>1, <2>2
  <1>2. ASSUME NEW k \in Key, Exhausted(e, k) PROVE \E x \in Gone : x.exec = e
    <2>1. PICK r \in results : r.exec = e /\ r.attempt = MaxAttempts /\ r.status = "FAILED"
      BY <1>2 DEF Exhausted
    <2> DEFINE x == [exec |-> r.exec, key |-> r.key]
    <2>2. x \in Gone /\ x.exec = e
      BY <2>1 DEF Gone
    <2> HIDE DEF x
    <2>3. QED
      BY <2>2
  <1>3. QED
    BY <1>1, <1>2, DoneCounts DEF Lost

-----------------------------------------------------------------------------

\* The two instances of the library's module count alike.
LEMMA CountsAlike == ASSUME NEW S PROVE Progress!Cardinality(S) = Cardinality(S)
  BY DEF Progress!Cardinality, Cardinality

AbstractStep == Progress!Next \/ UNCHANGED Progress!vars

LEMMA Stutters ==
  ASSUME UNCHANGED <<results, canvas, execStatus>>
  PROVE  AbstractStep
  BY DEF AbstractStep, Progress!vars

\* The first status of an execution, and CANCELLED.
LEMMA StatusMaps ==
  ASSUME NEW e \in Exec, UNCHANGED <<results, canvas>>,
         \/ execStatus[e] = "NONE" /\ SetStatus(e, "RUNNING")
         \/ execStatus[e] = "RUNNING" /\ SetStatus(e, "CANCELLED")
  PROVE  AbstractStep
  BY DEF SetStatus, AbstractStep, Progress!Next, Progress!Start, Progress!Cancel

\* A final status with its reason.
LEMMA OutcomeMaps ==
  ASSUME IInv, CountInv, NEW e \in Exec, UNCHANGED <<results, canvas>>, execStatus[e] # "NONE",
         \/ Won(e) /\ SetStatus(e, "SUCCESS")
         \/ Lost(e) /\ SetStatus(e, "FAILED")
  PROVE  AbstractStep
  <1>1. CASE Won(e) /\ SetStatus(e, "SUCCESS")
    <2>1. \E d \in Done : d.exec = e /\ NextTransitions(Canvases[canvas], d.key, d.output, FALSE) = {}
      BY <1>1, ReasonsMap
    <2>2. Progress!Succeed(e)
      BY <1>1, <2>1 DEF SetStatus, Done, Progress!Succeed, Progress!NextTransitions, NextTransitions,
         Progress!shouldFollowTransition, shouldFollowTransition
    <2>3. QED
      BY <2>2 DEF AbstractStep, Progress!Next
  <1>2. CASE Lost(e) /\ SetStatus(e, "FAILED")
    <2>1. \/ \E x \in Gone : x.exec = e
          \/ Cardinality({d \in Done : d.exec = e}) >= MaxDepth
          \/ Canvases[canvas].trigger = NoKey
      BY <1>2, ReasonsMap
    <2>2. /\ UNCHANGED <<Canvases[canvas], Done, Gone>>
          /\ execStatus' = [execStatus EXCEPT ![e] = "FAILED"]
      BY <1>2 DEF SetStatus, Done, Gone
    <2>3. Progress!Fail(e)
      BY <2>1, <2>2, CountsAlike DEF Done, Gone, Progress!Fail
    <2>4. QED
      BY <2>3 DEF AbstractStep, Progress!Next
  <1>3. QED
    BY <1>1, <1>2

\* A row that is stored for a job of the queue ends its step, or is a failure
\* that will be retried.
LEMMA RowMaps ==
  ASSUME IInv, Started, NEW w \in Worker, pc[w] # "idle", NEW out \in BOOLEAN,
         ~RowExists(job[w].exec, job[w].key, AttemptOf(job[w])),
         UNCHANGED <<canvas, execStatus>>,
         \/ results' = results \cup {RowOf(w, "SUCCESS", out)}
         \/ results' = results \cup {RowOf(w, "FAILED", out)}
  PROVE  AbstractStep
  <1>1. PICK j \in JobId : j = job[w]
    BY DEF IInv, Holds
  <1>2. jobState[j] # "absent" /\ j.exec \in Exec /\ j.key \in Key
    BY <1>1 DEF IInv, Holds, JobId
  <1>3. execStatus[j.exec] # "NONE" /\ Progress!Due(j.exec, j.key) /\ ~Progress!Ended(j.exec, j.key)
    BY <1>1, <1>2, NotEnded, DueMaps DEF Started, IInv, Store, JobsCaused, Caused
  <1> DEFINE good == RowOf(w, "SUCCESS", out)
             bad == RowOf(w, "FAILED", out)
  <1>3a. /\ good.exec = j.exec /\ good.key = j.key /\ good.output = out /\ good.status = "SUCCESS"
        /\ bad.exec = j.exec /\ bad.key = j.key /\ bad.status = "FAILED" /\ bad.attempt = AttemptOf(j)
    BY <1>1 DEF RowOf
  <1> HIDE DEF good, bad
  <1>4. CASE results' = results \cup {good}
    <2>1. /\ Done' = Done \cup {[exec |-> j.exec, key |-> j.key, output |-> out]}
          /\ Gone' = Gone
      <3>1. /\ {q \in results' : q.status = "SUCCESS"} = {q \in results : q.status = "SUCCESS"} \cup {good}
            /\ {q \in results' : q.status = "FAILED" /\ q.attempt = MaxAttempts}
                 = {q \in results : q.status = "FAILED" /\ q.attempt = MaxAttempts}
        BY <1>4, <1>3a
      <3>2. QED
        BY <1>3a, <3>1 DEF Done, Gone
    <2>2. Progress!Complete(j.exec, j.key, out)
      BY <1>3, <2>1 DEF Progress!Complete, Done, Gone
    <2>3. QED
      BY <1>2, <2>2 DEF AbstractStep, Progress!Next
  <1>5. CASE results' = results \cup {bad} /\ AttemptOf(j) = MaxAttempts
    <2>1. /\ Gone' = Gone \cup {[exec |-> j.exec, key |-> j.key]}
          /\ Done' = Done
      <3>1. /\ {q \in results' : q.status = "SUCCESS"} = {q \in results : q.status = "SUCCESS"}
            /\ {q \in results' : q.status = "FAILED" /\ q.attempt = MaxAttempts}
                 = {q \in results : q.status = "FAILED" /\ q.attempt = MaxAttempts} \cup {bad}
        BY <1>5, <1>3a
      <3>2. QED
        BY <1>3a, <3>1 DEF Done, Gone
    <2>2. Progress!Exhaust(j.exec, j.key)
      BY <1>3, <2>1 DEF Progress!Exhaust, Done, Gone
    <2>3. QED
      BY <1>2, <2>2 DEF AbstractStep, Progress!Next
  <1>6. CASE results' = results \cup {bad} /\ AttemptOf(j) # MaxAttempts
    <2>1. Gone' = Gone /\ Done' = Done
      <3>1. /\ {q \in results' : q.status = "SUCCESS"} = {q \in results : q.status = "SUCCESS"}
            /\ {q \in results' : q.status = "FAILED" /\ q.attempt = MaxAttempts}
                 = {q \in results : q.status = "FAILED" /\ q.attempt = MaxAttempts}
        BY <1>6, <1>3a
      <3>2. QED
        BY <3>1 DEF Done, Gone
    <2>2. QED
      BY <2>1 DEF AbstractStep, Progress!vars, Done, Gone
  <1>7. QED
    BY <1>4, <1>5, <1>6 DEF good, bad

\* Every step of the engine is a step of the abstract specification or
\* changes nothing that it sees.
LEMMA StepMaps ==
  ASSUME IInv, CountInv, Started, [RunnerNext]_vars
  PROVE  AbstractStep
  <1>0. Typed /\ TypeOK /\ \A w \in Worker : pc[w] # "idle" =>
          /\ job[w] \in JobId /\ job[w].exec \in Exec
          /\ execStatus[job[w].exec] # "NONE"
    BY DEF IInv, Typed, Holds, JobId, Started
  <1>1. ASSUME NEW w \in Worker,
               \/ ReadExecution(w) \/ ReadWorkflow(w) \/ ReadQuota(w) \/ Charge(w) \/ Execute(w)
               \/ BumpDepth(w) \/ EnqueueNext(w) \/ RetryStep(w) \/ Ack(w) \/ Nack(w)
               \/ InfraError(w) \/ Crash(w) \/ \E j \in JobId : TakeJob(w, j)
        PROVE  AbstractStep
    <2>1. UNCHANGED <<results, canvas, execStatus>>
      BY <1>1 DEF ReadExecution, ReadWorkflow, ReadQuota, Charge, Execute, BumpDepth, EnqueueNext,
         RetryStep, Ack, Nack, InfraError, Crash, TakeJob, execVars, wfVars
    <2>2. QED
      BY <2>1, Stutters
  <1>2. ASSUME NEW w \in Worker, RecordSuccess(w) PROVE AbstractStep
    <2>1. UNCHANGED <<canvas, execStatus>> /\ pc[w] # "idle" /\ output[w] \in BOOLEAN
      BY <1>0, <1>2 DEF RecordSuccess, TypeOK, wfVars
    <2>2. \/ results' = results
          \/ /\ ~RowExists(job[w].exec, job[w].key, AttemptOf(job[w]))
             /\ results' = results \cup {RowOf(w, "SUCCESS", output[w])}
      BY <1>2 DEF RecordSuccess, CreateConflicts
    <2>3. QED
      BY <2>1, <2>2, RowMaps, Stutters
  <1>3. ASSUME NEW w \in Worker, RecordFailure(w) PROVE AbstractStep
    <2>1. UNCHANGED <<canvas, execStatus>> /\ pc[w] # "idle"
      BY <1>3 DEF RecordFailure, wfVars
    <2>2. \/ results' = results
          \/ /\ ~RowExists(job[w].exec, job[w].key, AttemptOf(job[w]))
             /\ results' = results \cup {RowOf(w, "FAILED", FALSE)}
      BY <1>3 DEF RecordFailure, CreateConflicts
    <2>3. QED
      BY <2>1, <2>2, RowMaps, Stutters
  <1>4. ASSUME NEW w \in Worker, Succeed(w) \/ Abort(w) PROVE AbstractStep
    <2>1. PICK e \in Exec : e = job[w].exec /\ execStatus[e] # "NONE"
      BY <1>0, <1>4 DEF Succeed, Abort
    <2>2. /\ UNCHANGED <<results, canvas>>
          /\ \/ Won(e) /\ SetStatus(e, "SUCCESS")
             \/ Lost(e) /\ SetStatus(e, "FAILED")
      BY <1>4, <2>1 DEF Succeed, Abort, CountInv, Counts, wfVars
    <2>3. QED
      BY <2>1, <2>2, OutcomeMaps
  <1>5. ASSUME NEW t \in TriggerJob, TriggerFires(t) \/ ReadPublished(t) \/ TriggerLost(t)
        PROVE  AbstractStep
    BY <1>5, Stutters DEF TriggerFires, ReadPublished, TriggerLost, execVars, wfVars
  <1>6. ASSUME NEW t \in TriggerJob, NEW e \in Exec, CreateExecution(t, e) PROVE AbstractStep
    BY <1>6, StatusMaps DEF CreateExecution, wfVars
  <1>7. ASSUME NEW t \in TriggerJob, DispatchTrigger(t) PROVE AbstractStep
    <2>1. PICK e \in Exec : e = trigExec[t] /\ execStatus[e] # "NONE"
      BY <1>0, <1>7 DEF DispatchTrigger, Typed, HandlersAreBound, Started
    <2>2. UNCHANGED <<results, canvas>> /\ trigCanvas[t] = canvas
      BY <1>7 DEF DispatchTrigger, IInv, TriggerHolds, wfVars
    <2>3. \/ UNCHANGED execStatus
          \/ Canvases[canvas].trigger = NoKey /\ SetStatus(e, "FAILED")
      BY <1>7, <2>1, <2>2 DEF DispatchTrigger
    <2>4. Canvases[canvas].trigger = NoKey => Lost(e)
      BY DEF Lost
    <2>5. QED
      BY <2>1, <2>2, <2>3, <2>4, OutcomeMaps, Stutters
  <1>8. ASSUME NEW j \in JobId, RecoverStalled(j) \/ LoseLock(j) PROVE AbstractStep
    BY <1>8, Stutters DEF RecoverStalled, LoseLock, PutBack, execVars, wfVars
  <1>9. ASSUME NEW e \in Exec, CancelExecution(e) PROVE AbstractStep
    BY <1>9, StatusMaps DEF CancelExecution, wfVars
  <1>10. CASE UNCHANGED vars
    BY <1>10, Stutters DEF vars, execVars, wfVars
  <1>11. QED
    BY <1>1, <1>2, <1>3, <1>4, <1>5, <1>6, <1>7, <1>8, <1>9, <1>10
       DEF RunnerNext, HandlerStep, TriggerStep

\* The engine implements its abstract specification: whatever is redelivered,
\* retried or lost, each step ends at most once, when it is due, and statuses
\* have their reasons.
THEOREM EngineImplementsProgress == Spec => ImplementsProgress
  <1>1. Init => Progress!Init
    BY DEF Init, Progress!Init
  <1>2. IInv /\ CountInv /\ Started /\ [RunnerNext]_vars => [Progress!Next]_(Progress!vars)
    BY StepMaps DEF AbstractStep
  <1>3. QED
    BY <1>1, <1>2, Invariance, CountInvariance, StartedAlways, PTL
       DEF Spec, ImplementsProgress, Progress!Spec
=============================================================================
