----------------------- MODULE AgentExecution_proofs -----------------------
(* AgentExecution: what holds of the jobs, their outcomes and their plans,  *)
(* for any number of executions and runners and whatever fails.             *)
EXTENDS AgentExecution, TLAPS

\* A job is with a runner while it is active, and has attempts and stalls left
\* until it is over.
JobSound(e) ==
  /\ agentJob[e].state = "active" <=> agentJob[e].owner # Free
  /\ agentJob[e].state \notin {"completed", "failed"} =>
       agentJob[e].attempts < MaxDeliveries /\ agentJob[e].stalls <= MaxStalled
  /\ agentJob[e].stalls > 0 => agentFaults > 0

\* A busy runner is in the plan of its own execution or in none, and has the job
\* unless BullMQ took it away.
SlotSound(s) ==
  /\ slot[s].at = "idle" <=> slot[s].exec = NoExec
  /\ run[s].at # "out" => slot[s].at = "plan" /\ run[s].exec = slot[s].exec
  /\ slot[s].at # "idle" /\ agentJob[slot[s].exec].stalls = 0 =>
       agentJob[slot[s].exec].owner = s

JobsOK ==
  /\ agentJob \in [Exec -> Job] /\ slot \in [Runner -> Slot] /\ agentFaults \in 0..MaxAgentFaults
  /\ \A e \in Exec : JobSound(e)
  /\ \A s \in Runner : SlotSound(s)

DataOK ==
  /\ mode \in Modes
  /\ status \in [Exec -> {"absent", "RUNNING"} \cup Terminal]
  /\ charges \in [Exec -> 0..2] /\ artifacts \in [Exec -> 0..2]
  /\ told \in [Exec -> SUBSET Terminal]

TypeInv == PlanTypeOK /\ JobsOK /\ DataOK

USE PlanConstants, AgentConstants

\* What a move of a runner changes in its call, and nowhere else.
MovesOnly(s, at, outcome) ==
  /\ run' \in [Runner -> Run]
  /\ \A t \in Runner \ {s} : run'[t] = run[t]
  /\ run'[s].exec = run[s].exec /\ run'[s].at = at /\ run'[s].outcome = outcome

LEMMA GoToMoves ==
  ASSUME run \in [Runner -> Run], NEW s \in Runner,
         NEW step \in {"out", "read", "lock", "tool", "store", "release"}, PlanGoTo(s, step)
  PROVE  MovesOnly(s, step, run[s].outcome)
<1> DEFINE r == [run[s] EXCEPT !.at = step]
<1>1. run' = [run EXCEPT ![s] = r]
  BY DEF PlanGoTo
<1>2. r \in Run /\ r.exec = run[s].exec /\ r.at = step /\ r.outcome = run[s].outcome
  BY DEF Run
<1> HIDE DEF r
<1> QED
  BY <1>1, <1>2 DEF MovesOnly

LEMMA EndMoves ==
  ASSUME run \in [Runner -> Run], NEW s \in Runner,
         NEW at \in {"out", "read", "lock", "tool", "store", "release"},
         NEW outcome \in {"none", "done", "error"},
         run' = [run EXCEPT ![s].at = at, ![s].outcome = outcome]
  PROVE  MovesOnly(s, at, outcome)
<1> DEFINE r == [run[s] EXCEPT !.at = at, !.outcome = outcome]
<1>1. run' = [run EXCEPT ![s] = r]
  BY DEF Run
<1>2. r \in Run /\ r.exec = run[s].exec /\ r.at = at /\ r.outcome = outcome
  BY ZenonT(40) DEF Run
<1> HIDE DEF r
<1> QED
  BY ZenonT(40), <1>1, <1>2 DEF MovesOnly

LEMMA ToolMoves ==
  ASSUME run \in [Runner -> Run], NEW s \in Runner, RunTool(s) \/ ToolFails(s)
  PROVE  \E at \in {"tool", "store", "release"}, outcome \in {"none", "done", "error"} :
           MovesOnly(s, at, outcome) /\ (at = "store" => RunTool(s))
<1>0. run[s] \in Run
  OBVIOUS
<1>1. CASE RunTool(s)
  <2> DEFINE at == IF run[s].call = PlanSize THEN "store" ELSE "tool"
             call == IF run[s].call = PlanSize THEN run[s].call ELSE run[s].call + 1
             r == [run[s] EXCEPT !.failures = 0, !.attempt = 1, !.at = at, !.call = call]
  <2>1. at \in {"tool", "store"} /\ call \in Call
    BY <1>0 DEF Run, Call
  <2>2. run' = [run EXCEPT ![s].failures = 0, ![s].attempt = 1, ![s].at = at, ![s].call = call]
    BY <1>1 DEF RunTool
  <2> HIDE DEF at, call
  <2>3. run' = [run EXCEPT ![s] = r]
    <3> DEFINE p == [run[s] EXCEPT !.failures = 0, !.attempt = 1]
               f == [run EXCEPT ![s].failures = 0, ![s].attempt = 1]
    <3>1. f = [run EXCEPT ![s] = p] /\ p \in Run
      BY <1>0, 1 \in 1..RetryAttempts DEF Run
    <3>2. run' = [f EXCEPT ![s].at = at, ![s].call = call]
      BY <2>2
    <3>3. r = [p EXCEPT !.at = at, !.call = call]
      BY <1>0 DEF Run
    <3> HIDE DEF p, f, r
    <3>4. f \in [Runner -> Run] /\ f[s] = p
      BY <3>1
    <3>5. run' = [f EXCEPT ![s] = r]
      BY <3>2, <3>3, <3>4 DEF Run
    <3> QED
      BY <3>1, <3>5
  <2>4. r \in Run /\ r.exec = run[s].exec /\ r.at = at /\ r.outcome = run[s].outcome
    BY <1>0, <2>1, 1 \in 1..RetryAttempts DEF Run
  <2> HIDE DEF r
  <2>5. MovesOnly(s, at, run[s].outcome)
    BY <2>3, <2>4 DEF MovesOnly
  <2> QED
    BY <1>0, <1>1, <2>1, <2>5 DEF Run
<1>2. CASE ToolFails(s) /\ run[s].attempt < RetryAttempts
  <2> DEFINE r == [run[s] EXCEPT !.attempt = @ + 1]
  <2>1. run' = [run EXCEPT ![s] = r] /\ run[s].at = "tool"
    BY <1>2 DEF ToolFails
  <2>2. r \in Run /\ r.exec = run[s].exec /\ r.at = run[s].at /\ r.outcome = run[s].outcome
    BY <1>0, <1>2 DEF Run
  <2> HIDE DEF r
  <2>3. MovesOnly(s, "tool", run[s].outcome)
    BY <2>1, <2>2 DEF MovesOnly
  <2> QED
    BY <1>0, <2>3 DEF Run
<1>3. CASE ToolFails(s) /\ ~(run[s].attempt < RetryAttempts)
  <2> DEFINE n == run[s].failures + 1
             r == [run[s] EXCEPT !.failures = n, !.at = "release", !.outcome = "error"]
  <2>1. run' = [run EXCEPT ![s].failures = n, ![s].at = "release", ![s].outcome = "error"]
    BY <1>3 DEF ToolFails
  <2>2. n \in Nat
    BY <1>0 DEF Run
  <2> HIDE DEF n
  <2>3. run' = [run EXCEPT ![s] = r]
    BY <1>0, <2>1 DEF Run
  <2>4. r \in Run /\ r.exec = run[s].exec /\ r.at = "release" /\ r.outcome = "error"
    BY <1>0, <2>2 DEF Run
  <2> HIDE DEF r
  <2>5. MovesOnly(s, "release", "error")
    BY <2>3, <2>4 DEF MovesOnly
  <2> QED
    BY <2>5
<1> QED
  BY <1>1, <1>2, <1>3

\* What a step of the plan does to the four things that others see.
LEMMA PlanSteps ==
  ASSUME PlanTypeOK, NEW s \in Runner, PlanStep(s), run[s].exec \in Exec
  PROVE  /\ PlanTypeOK' /\ run[s].at # "out"
         /\ \E at \in {"out", "lock", "tool", "store", "release"}, outcome \in {"none", "done", "error"} :
              MovesOnly(s, at, outcome)
<1>0. run \in [Runner -> Run] /\ run[s] \in Run
  BY DEF PlanTypeOK
<1>1. CASE ReadResult(s)
  <2>1. Leave(s, "done") \/ PlanGoTo(s, "lock")
    BY <1>1 DEF ReadResult
  <2>2. MovesOnly(s, "out", "done") \/ MovesOnly(s, "lock", run[s].outcome)
    BY <1>0, <2>1, GoToMoves, EndMoves DEF Leave
  <2> QED
    BY <1>0, <1>1, <2>2 DEF ReadResult, PlanTypeOK, MovesOnly, Run
<1>2. CASE TakeLock(s)
  <2>1. Leave(s, "error") \/ PlanGoTo(s, "tool")
    BY <1>2 DEF TakeLock
  <2>2. MovesOnly(s, "out", "error") \/ MovesOnly(s, "tool", run[s].outcome)
    BY <1>0, <2>1, GoToMoves, EndMoves DEF Leave
  <2>3. execLock' \in [Exec -> Runner \cup {Free, Orphan}]
    BY <1>2 DEF TakeLock, PlanTypeOK
  <2> QED
    BY <1>0, <1>2, <2>2, <2>3 DEF TakeLock, PlanTypeOK, MovesOnly, Run
<1>3. CASE RunTool(s) \/ ToolFails(s)
  <2>1. run[s].call \in Call
    BY <1>0 DEF Run
  <2>2. ran' \in [Exec -> [Call -> 0..2]]
    <3> DEFINE e == run[s].exec
               row == [ran[e] EXCEPT ![run[s].call] = IF @ = 2 THEN 2 ELSE @ + 1]
    <3>1. ran' = [ran EXCEPT ![e] = row] \/ ran' = ran
      BY <1>3 DEF RunTool, ToolFails, Works
    <3>2. row \in [Call -> 0..2] /\ ran \in [Exec -> [Call -> 0..2]]
      BY <2>1 DEF PlanTypeOK
    <3> HIDE DEF row
    <3> QED
      BY <3>1, <3>2
  <2>3. run[s].at = "tool" /\ UNCHANGED <<execLock, execResult, lockLosses>>
    BY <1>3 DEF RunTool, ToolFails
  <2> QED
    BY <1>0, <1>3, <2>2, <2>3, ToolMoves DEF PlanTypeOK, MovesOnly
<1>4. CASE Stop(s)
  <2>1. MovesOnly(s, "release", "error")
    BY <1>0, <1>4, EndMoves DEF Stop, GiveUp
  <2> QED
    BY <1>4, <2>1 DEF Stop, PlanTypeOK, MovesOnly
<1>5. CASE StoreResult(s)
  <2>1. MovesOnly(s, "release", "done")
    BY <1>0, <1>5, EndMoves DEF StoreResult
  <2> QED
    BY <1>5, <2>1 DEF StoreResult, PlanTypeOK, MovesOnly
<1>6. CASE ReleaseLock(s)
  <2>1. MovesOnly(s, "out", run[s].outcome) /\ run[s].outcome \in {"none", "done", "error"}
    BY ZenonT(40), <1>0, <1>6, EndMoves DEF ReleaseLock, Leave, Run
  <2> QED
    BY <1>6, <2>1 DEF ReleaseLock, PlanTypeOK, MovesOnly
<1> QED
  BY <1>1, <1>2, <1>3, <1>4, <1>5, <1>6 DEF PlanStep

LEMMA PlanFaults ==
  ASSUME PlanTypeOK, NEW s \in Runner, RedisFails(s) \/ Die(s)
  PROVE  /\ PlanTypeOK' /\ UNCHANGED <<execResult, ran, lockLosses>>
         /\ \/ RedisFails(s) /\ run[s].at # "out" /\ MovesOnly(s, "out", "error")
            \/ RedisFails(s) /\ run[s].at = "store" /\ MovesOnly(s, "release", "error")
            \/ Die(s) /\ MovesOnly(s, "out", "none")
<1>0. run \in [Runner -> Run]
  BY DEF PlanTypeOK
<1>1. execLock' \in [Exec -> Runner \cup {Free, Orphan}]
  BY DEF RedisFails, Die, PlanTypeOK
<1>2. UNCHANGED <<execResult, ran, lockLosses>>
  BY DEF RedisFails, Die
<1>3. CASE Die(s)
  BY <1>0, <1>1, <1>2, <1>3, EndMoves DEF Die, Leave, PlanTypeOK, MovesOnly
<1>4. CASE RedisFails(s)
  <2>1. \/ run[s].at # "out" /\ Leave(s, "error")
        \/ run[s].at = "store" /\ GiveUp(s)
    BY <1>4 DEF RedisFails
  <2> QED
    BY <1>0, <1>1, <1>2, <1>4, <2>1, EndMoves DEF Leave, GiveUp, PlanTypeOK, MovesOnly
<1> QED
  BY <1>3, <1>4

-----------------------------------------------------------------------------
(* The jobs and the runners that have them *)

LEMMA BusyHasExec ==
  ASSUME JobsOK, NEW s \in Runner, slot[s].at # "idle"
  PROVE  slot[s] \in Slot /\ slot[s].exec \in Exec /\ agentJob[slot[s].exec] \in Job
  BY DEF JobsOK, SlotSound, Slot

LEMMA StepFacts ==
  ASSUME slot \in [Runner -> Slot], NEW s \in Runner, NEW x \in SlotStep, StepTo(s, x)
  PROVE  /\ slot' \in [Runner -> Slot] /\ slot'[s].at = x /\ slot'[s].exec = slot[s].exec
         /\ \A t \in Runner \ {s} : slot'[t] = slot[t]
  BY DEF StepTo, Slot

\* A busy runner that goes on keeps its job.
LEMMA GoingOn ==
  ASSUME JobsOK, NEW s \in Runner, slot[s].at # "idle",
         NEW x \in SlotStep, x # "idle", StepTo(s, x), UNCHANGED agentJob,
         agentFaults' \in {agentFaults, agentFaults + 1}, agentFaults' <= MaxAgentFaults,
         \A t \in Runner \ {s} : run'[t] = run[t],
         run'[s].at # "out" => x = "plan" /\ run'[s].exec = slot[s].exec
  PROVE  JobsOK'
<1>1. /\ slot' \in [Runner -> Slot] /\ slot'[s].at = x /\ slot'[s].exec = slot[s].exec
      /\ \A t \in Runner \ {s} : slot'[t] = slot[t]
  BY StepFacts DEF JobsOK
<1>2. agentFaults' \in 0..MaxAgentFaults /\ (agentFaults > 0 => agentFaults' > 0)
  BY DEF JobsOK
<1>3. ASSUME NEW e \in Exec PROVE JobSound(e)'
  BY <1>2 DEF JobsOK, JobSound
<1>4. ASSUME NEW t \in Runner PROVE SlotSound(t)'
  <2>1. CASE t = s
    BY <1>1, <2>1, BusyHasExec DEF JobsOK, SlotSound
  <2>2. CASE t # s
    BY <1>1, <2>2 DEF JobsOK, SlotSound
  <2> QED
    BY <2>1, <2>2
<1> QED
  BY <1>1, <1>2, <1>3, <1>4 DEF JobsOK

\* The job j that a runner leaves behind, or that is taken from it.
LeftJob(j, e) ==
  /\ j \in Job /\ j.owner = Free /\ j.state \in {"waiting", "completed", "failed"}
  /\ j.state = "waiting" => j.attempts < MaxDeliveries /\ j.stalls <= MaxStalled
  /\ j.stalls > 0 => agentFaults' > 0
  /\ j.stalls >= agentJob[e].stalls

\* A runner that ends leaves its job, if it still has it, and no other.
LEMMA Ending ==
  ASSUME JobsOK, NEW s \in Runner, slot[s].at # "idle", NEW j, LeftJob(j, slot[s].exec),
         slot' = [slot EXCEPT ![s] = Idle],
         agentJob' = IF Owns(s) THEN [agentJob EXCEPT ![slot[s].exec] = j] ELSE agentJob,
         agentFaults' \in {agentFaults, agentFaults + 1}, agentFaults' <= MaxAgentFaults,
         \A t \in Runner \ {s} : run'[t] = run[t], run'[s].at = "out"
  PROVE  JobsOK'
<1> DEFINE e == slot[s].exec
<1>0. e \in Exec /\ agentJob[e] \in Job /\ Idle \in Slot /\ Idle.at = "idle" /\ Idle.exec = NoExec
  BY BusyHasExec DEF Idle, Slot, SlotStep
<1>1. slot' \in [Runner -> Slot] /\ slot'[s] = Idle /\ \A t \in Runner \ {s} : slot'[t] = slot[t]
  BY <1>0 DEF JobsOK
<1>2. agentFaults' \in 0..MaxAgentFaults /\ (agentFaults > 0 => agentFaults' > 0)
  BY DEF JobsOK
<1>3. /\ agentJob' \in [Exec -> Job]
      /\ \A d \in Exec : agentJob'[d] = IF d = e /\ Owns(s) THEN j ELSE agentJob[d]
  BY <1>0 DEF JobsOK, LeftJob
<1>4. ASSUME NEW d \in Exec PROVE JobSound(d)'
  BY <1>2, <1>3 DEF JobsOK, JobSound, LeftJob
<1>5. ASSUME NEW t \in Runner PROVE SlotSound(t)'
  <2>1. CASE t = s
    BY <1>0, <1>1, <2>1 DEF SlotSound
  <2>2. CASE t # s
    <3>1. slot'[t] = slot[t] /\ run'[t] = run[t]
      BY <1>1, <2>2
    <3>2. CASE slot[t].at # "idle" /\ agentJob'[slot[t].exec].stalls = 0
      <4>1. slot[t].exec \in Exec /\ agentJob[slot[t].exec] \in Job
        BY <3>2, BusyHasExec
      <4>2. agentJob[slot[t].exec].stalls = 0
        BY <1>3, <3>2, <4>1 DEF LeftJob, Job
      <4>3. agentJob[slot[t].exec].owner = t
        BY <3>2, <4>2 DEF JobsOK, SlotSound
      <4>4. agentJob'[slot[t].exec] = agentJob[slot[t].exec]
        BY <1>3, <2>2, <4>1, <4>3 DEF Owns
      <4> QED
        BY <3>1, <4>3, <4>4 DEF JobsOK, SlotSound
    <3> QED
      BY <3>1, <3>2 DEF JobsOK, SlotSound
  <2> QED
    BY <2>1, <2>2
<1> QED
  BY <1>1, <1>2, <1>3, <1>4, <1>5 DEF JobsOK

LEMMA ReturnLeaves ==
  ASSUME JobsOK, NEW s \in Runner, slot[s].at # "idle", Returns(s),
         agentFaults' \in {agentFaults, agentFaults + 1}
  PROVE  \E j : /\ LeftJob(j, slot[s].exec) /\ j.state = "completed"
                /\ j.stalls = agentJob[slot[s].exec].stalls
                /\ slot' = [slot EXCEPT ![s] = Idle]
                /\ agentJob' = IF Owns(s) THEN [agentJob EXCEPT ![slot[s].exec] = j] ELSE agentJob
<1> DEFINE e == slot[s].exec
           j == [agentJob[e] EXCEPT !.state = "completed", !.owner = Free]
<1>1. e \in Exec /\ agentJob[e] \in Job /\ agentJob \in [Exec -> Job] /\ JobSound(e)
  BY BusyHasExec DEF JobsOK
<1>2. [agentJob EXCEPT ![e].state = "completed", ![e].owner = Free] = [agentJob EXCEPT ![e] = j]
  BY <1>1 DEF Job
<1>3. j \in Job /\ j.owner = Free /\ j.state = "completed" /\ j.stalls = agentJob[e].stalls
  BY <1>1 DEF Job
<1>4. LeftJob(j, e)
  BY <1>1, <1>3 DEF LeftJob, JobSound, Job, JobsOK
<1>5. slot' = [slot EXCEPT ![s] = Idle] /\ agentJob' = IF Owns(s) THEN [agentJob EXCEPT ![e] = j] ELSE agentJob
  BY <1>2, Zenon DEF Returns, Leaves
<1> QED
  BY <1>3, <1>4, <1>5

LEMMA ThrowLeaves ==
  ASSUME JobsOK, NEW s \in Runner, slot[s].at # "idle", Throws(s),
         agentFaults' \in {agentFaults, agentFaults + 1}
  PROVE  \E j : /\ LeftJob(j, slot[s].exec) /\ j.state \in {"waiting", "failed"}
                /\ j.stalls = agentJob[slot[s].exec].stalls
                /\ slot' = [slot EXCEPT ![s] = Idle]
                /\ agentJob' = IF Owns(s) THEN [agentJob EXCEPT ![slot[s].exec] = j] ELSE agentJob
<1> DEFINE e == slot[s].exec
           tries == agentJob[e].attempts + 1
           next == IF tries < MaxDeliveries THEN "waiting" ELSE "failed"
           j == [agentJob[e] EXCEPT !.state = next, !.owner = Free, !.attempts = tries]
<1>1. e \in Exec /\ agentJob[e] \in Job /\ agentJob \in [Exec -> Job] /\ JobSound(e)
  BY BusyHasExec DEF JobsOK
<1>3. CASE ~Owns(s)
  <2> DEFINE k == [agentJob[e] EXCEPT !.state = "failed", !.owner = Free]
  <2>1. k \in Job /\ k.owner = Free /\ k.state = "failed" /\ k.stalls = agentJob[e].stalls
    BY <1>1 DEF Job
  <2>2. LeftJob(k, e)
    BY <1>1, <2>1 DEF LeftJob, JobSound, Job, JobsOK
  <2>3. slot' = [slot EXCEPT ![s] = Idle] /\ agentJob' = agentJob
    BY <1>3 DEF Throws
  <2> QED
    BY <1>3, <2>1, <2>2, <2>3
<1>4. CASE Owns(s)
  <2>1. agentJob[e].owner = s /\ s # Free
    BY <1>4 DEF Owns
  <2>2. agentJob[e].state = "active" /\ agentJob[e].attempts < MaxDeliveries /\ agentJob[e].stalls <= MaxStalled
    BY <1>1, <2>1 DEF JobSound
  <2>3. tries \in 0..MaxDeliveries /\ next \in {"waiting", "failed"} /\ (next = "waiting" => tries < MaxDeliveries)
    BY <1>1, <2>2 DEF Job
  <2>4. agentJob' = [agentJob EXCEPT ![e].state = next, ![e].owner = Free, ![e].attempts = tries]
    BY <1>4 DEF Throws
  <2>5. slot' = [slot EXCEPT ![s] = Idle]
    BY DEF Throws
  <2> HIDE DEF next, tries
  <2>6. agentJob' = [agentJob EXCEPT ![e] = j]
    BY <1>1, <2>4 DEF Job
  <2>7. /\ j \in Job /\ j.owner = Free /\ j.state = next /\ j.stalls = agentJob[e].stalls
        /\ j.attempts = tries
    BY <1>1, <2>3 DEF Job
  <2> HIDE DEF j
  <2>8. LeftJob(j, e)
    BY <1>1, <2>2, <2>3, <2>7 DEF LeftJob, JobSound, Job, JobsOK
  <2> QED
    BY <1>4, <2>3, <2>5, <2>6, <2>7, <2>8
<1> QED
  BY <1>3, <1>4

LEMMA StallLeaves ==
  ASSUME JobsOK, NEW s \in Runner, slot[s].at # "idle", Owns(s), Stalls(s),
         agentFaults' = agentFaults + 1
  PROVE  \E j : /\ LeftJob(j, slot[s].exec) /\ j.state \in {"waiting", "failed"}
                /\ j.stalls > 0
                /\ agentJob' = [agentJob EXCEPT ![slot[s].exec] = j]
<1> DEFINE e == slot[s].exec
           n == agentJob[e].stalls + 1
           next == IF n > MaxStalled THEN "failed" ELSE "waiting"
           j == [agentJob[e] EXCEPT !.stalls = n, !.owner = Free, !.state = next]
<1>1. e \in Exec /\ agentJob[e] \in Job /\ agentJob \in [Exec -> Job] /\ JobSound(e)
  BY BusyHasExec DEF JobsOK
<1>2. agentJob[e].state = "active" /\ agentJob[e].attempts < MaxDeliveries /\ agentJob[e].stalls <= MaxStalled
  BY <1>1 DEF JobSound, Owns
<1>3. n \in 0..(MaxStalled + 1) /\ n > 0 /\ next \in {"waiting", "failed"} /\ (next = "waiting" => n <= MaxStalled)
      /\ n >= agentJob[e].stalls
  BY <1>1, <1>2 DEF Job
<1>4. agentJob' = [agentJob EXCEPT ![e].stalls = n, ![e].owner = Free, ![e].state = next]
  BY DEF Stalls
<1> HIDE DEF next, n
<1>5. agentJob' = [agentJob EXCEPT ![e] = j]
  BY <1>1, <1>4 DEF Job
<1>6. j \in Job /\ j.owner = Free /\ j.state = next /\ j.stalls = n /\ j.attempts = agentJob[e].attempts
  BY <1>1, <1>3 DEF Job
<1> HIDE DEF j
<1>7. LeftJob(j, e)
  BY <1>1, <1>2, <1>3, <1>6 DEF LeftJob, JobSound, Job, JobsOK
<1> QED
  BY <1>3, <1>5, <1>6, <1>7

\* The actions in which a runner goes on with its job,
Going(s, x) ==
  /\ slot[s].at # "idle" /\ x \in SlotStep \ {"idle"} /\ StepTo(s, x) /\ UNCHANGED agentJob
  /\ \A t \in Runner \ {s} : run'[t] = run[t]
  /\ run'[s].at # "out" => x = "plan" /\ run'[s].exec = slot[s].exec
\* and those in which it ends.
Ended(s) ==
  /\ slot[s].at # "idle"
  /\ Returns(s) \/ Throws(s)
  /\ \A t \in Runner \ {s} : run'[t] = run[t]
  /\ run'[s].at = "out"

LEMMA GoingKeeps ==
  ASSUME JobsOK, NEW s \in Runner, NEW x, Going(s, x),
         agentFaults' \in {agentFaults, agentFaults + 1}, agentFaults' <= MaxAgentFaults
  PROVE  JobsOK'
  BY GoingOn DEF Going

LEMMA EndedKeeps ==
  ASSUME JobsOK, NEW s \in Runner, Ended(s),
         agentFaults' \in {agentFaults, agentFaults + 1}, agentFaults' <= MaxAgentFaults
  PROVE  JobsOK'
<1>1. PICK j : /\ LeftJob(j, slot[s].exec)
               /\ slot' = [slot EXCEPT ![s] = Idle]
               /\ agentJob' = IF Owns(s) THEN [agentJob EXCEPT ![slot[s].exec] = j] ELSE agentJob
  BY ReturnLeaves, ThrowLeaves DEF Ended
<1> QED
  BY <1>1, Ending DEF Ended

LEMMA RunnerSteps ==
  ASSUME TypeInv, NEW s \in Runner, AgentStep(s)
  PROVE  /\ agentFaults' = agentFaults /\ PlanTypeOK'
         /\ \/ \E x \in SlotStep : Going(s, x)
            \/ Ended(s)
            \/ /\ slot[s].at = "plan" /\ UNCHANGED <<agentJob, slot>>
               /\ \A t \in Runner \ {s} : run'[t] = run[t]
               /\ run'[s].exec = run[s].exec /\ run[s].at # "out"
<1>0. /\ PlanTypeOK /\ JobsOK /\ run \in [Runner -> Run]
      /\ slot[s].at # "plan" => run[s].at = "out"
  BY DEF TypeInv, JobsOK, SlotSound, PlanTypeOK
<1>1. ASSUME UNCHANGED planVars
      PROVE  PlanTypeOK' /\ (\A t \in Runner : run'[t] = run[t])
  BY <1>0, <1>1 DEF planVars, PlanTypeOK
<1>2. CASE StartExecution(s)
  <2>1. Going(s, "billing")
    BY <1>0, <1>1, <1>2 DEF StartExecution, Going, SlotStep
  <2> QED
    BY <1>1, <1>2, <2>1 DEF StartExecution, SlotStep
<1>3. CASE CheckBilling(s)
  <2>1. Going(s, "tellBlocked") \/ Going(s, "headroom") \/ Ended(s)
    BY <1>0, <1>1, <1>3 DEF CheckBilling, Going, Ended, SlotStep
  <2> QED
    BY <1>1, <1>3, <2>1 DEF CheckBilling, SlotStep
<1>4. CASE EnsureHeadroom(s)
  <2>1. CASE Fails(s) /\ UNCHANGED planVars
    <3>1. Going(s, "error")
      BY <1>0, <1>1, <1>4, <2>1 DEF EnsureHeadroom, Fails, StepTo, Going, SlotStep
    <3> QED
      BY <1>1, <1>4, <2>1, <3>1 DEF EnsureHeadroom, SlotStep
  <2>2. CASE BeginPlan(s, slot[s].exec) /\ StepTo(s, "plan")
    <3> DEFINE r == NewRun(s, slot[s].exec)
    <3>1. slot[s].exec \in Exec /\ run' = [run EXCEPT ![s] = r]
      BY <1>0, <1>4, <2>2, BusyHasExec DEF EnsureHeadroom, BeginPlan
    <3>2. r \in Run /\ r.exec = slot[s].exec
      BY <3>1, 1 \in Call, 1 \in 1..RetryAttempts DEF NewRun, Run, Call
    <3> HIDE DEF r
    <3>3. run' \in [Runner -> Run] /\ run'[s] = r /\ \A t \in Runner \ {s} : run'[t] = run[t]
      BY <1>0, <3>1, <3>2
    <3>4. Going(s, "plan") /\ PlanTypeOK'
      BY <1>0, <1>4, <2>2, <3>2, <3>3 DEF EnsureHeadroom, BeginPlan, Going, SlotStep, PlanTypeOK
    <3> QED
      BY <1>4, <3>4 DEF EnsureHeadroom, SlotStep
  <2> QED
    BY <1>4, <2>1, <2>2 DEF EnsureHeadroom
<1>5. CASE RunPlan(s)
  <2>1. run[s].at # "out" => run[s].exec \in Exec
    BY <1>0, BusyHasExec DEF JobsOK, SlotSound
  <2>2. run[s].at # "out"
    BY <1>5 DEF RunPlan, PlanStep, ReadResult, TakeLock, RunTool, ToolFails, Stop, StoreResult, ReleaseLock
  <2>3. PlanTypeOK' /\ run'[s].exec = run[s].exec /\ \A t \in Runner \ {s} : run'[t] = run[t]
    BY <1>0, <1>5, <2>1, <2>2, PlanSteps DEF RunPlan, MovesOnly
  <2> QED
    BY <1>5, <2>2, <2>3 DEF RunPlan, jobVars
<1>6. CASE EndPlan(s)
  <2>1. Going(s, "charge") \/ Going(s, "error")
    BY <1>0, <1>1, <1>6 DEF EndPlan, Fails, StepTo, Going, SlotStep
  <2> QED
    BY <1>1, <1>6, <2>1 DEF EndPlan, SlotStep
<1>7. CASE ConsumeBudget(s) \/ CreateArtifact(s) \/ StoreOutcome(s) \/ StoreFailure(s)
  <2>1. Going(s, "artifact") \/ Going(s, "finish") \/ Going(s, "tell") \/ Going(s, "tellError")
    BY <1>0, <1>1, <1>7 DEF ConsumeBudget, CreateArtifact, StoreOutcome, StoreFailure, Going, SlotStep
  <2> QED
    BY <1>1, <1>7, <2>1 DEF ConsumeBudget, CreateArtifact, StoreOutcome, StoreFailure, SlotStep
<1>8. CASE TellOutcome(s) \/ TellFailure(s)
  <2>1. Ended(s)
    BY <1>0, <1>1, <1>8 DEF TellOutcome, TellFailure, Ended
  <2> QED
    BY <1>1, <1>8, <2>1 DEF TellOutcome, TellFailure
<1> QED
  BY <1>2, <1>3, <1>4, <1>5, <1>6, <1>7, <1>8 DEF AgentStep

LEMMA RunnerFaults ==
  ASSUME TypeInv, NEW s \in Runner, CallFails(s) \/ AgentCrash(s)
  PROVE  /\ agentFaults' = agentFaults + 1 /\ agentFaults' <= MaxAgentFaults /\ PlanTypeOK'
         /\ \/ Going(s, "error")
            \/ Ended(s)
            \/ /\ slot[s].at = "plan" /\ UNCHANGED <<agentJob, slot>>
               /\ \A t \in Runner \ {s} : run'[t] = run[t]
               /\ run'[s].exec = run[s].exec /\ run[s].at # "out"
            \/ /\ slot[s].at # "idle" /\ Owns(s) /\ Stalls(s) /\ slot' = [slot EXCEPT ![s] = Idle]
               /\ \A t \in Runner \ {s} : run'[t] = run[t]
               /\ run'[s].at = "out"
            \/ /\ slot[s].at # "idle" /\ ~Owns(s) /\ UNCHANGED agentJob
               /\ slot' = [slot EXCEPT ![s] = Idle]
               /\ \A t \in Runner \ {s} : run'[t] = run[t]
               /\ run'[s].at = "out"
<1>0. /\ PlanTypeOK /\ JobsOK /\ run \in [Runner -> Run]
      /\ slot[s].at # "plan" => run[s].at = "out"
      /\ agentFaults \in Nat /\ MaxAgentFaults \in Nat
  BY DEF TypeInv, JobsOK, SlotSound, PlanTypeOK
<1>1. agentFaults' = agentFaults + 1 /\ agentFaults' <= MaxAgentFaults
  BY <1>0 DEF CallFails, AgentCrash
<1>2. ASSUME UNCHANGED planVars
      PROVE  PlanTypeOK' /\ (\A t \in Runner : run'[t] = run[t])
  BY <1>0, <1>2 DEF planVars, PlanTypeOK
<1>3. CASE CallFails(s)
  <2>1. CASE slot[s].at \in {"start", "error", "tellError"} /\ Throws(s) /\ UNCHANGED planVars
    BY <1>0, <1>1, <1>2, <2>1 DEF Ended
  <2>2. CASE /\ slot[s].at \in {"billing", "headroom", "charge", "artifact", "finish", "tell", "tellBlocked"}
             /\ Fails(s) /\ UNCHANGED <<planVars, agentJob>>
    BY <1>0, <1>1, <1>2, <2>2 DEF Going, Fails, StepTo, SlotStep
  <2>3. CASE slot[s].at = "plan" /\ RedisFails(s) /\ UNCHANGED jobVars
    <3>1. run[s].at # "out"
      BY <2>3 DEF RedisFails
    <3>2. PlanTypeOK' /\ run'[s].exec = run[s].exec /\ \A t \in Runner \ {s} : run'[t] = run[t]
      BY <1>0, <2>3, PlanFaults DEF MovesOnly
    <3> QED
      BY <1>1, <2>3, <3>1, <3>2 DEF jobVars
  <2> QED
    BY <1>3, <2>1, <2>2, <2>3 DEF CallFails
<1>4. CASE AgentCrash(s)
  <2>1. /\ slot[s].at # "idle" /\ Die(s) /\ slot' = [slot EXCEPT ![s] = Idle]
        /\ IF Owns(s) THEN Stalls(s) ELSE UNCHANGED agentJob
    <3>1. slot[s] \in Slot /\ (slot[s].at = "idle" => slot[s].exec = NoExec)
      BY <1>0 DEF JobsOK, SlotSound
    <3>2. slot[s].at = "idle" => slot[s] = Idle
      BY <3>1 DEF Slot, Idle
    <3> QED
      BY <1>4, <3>2 DEF AgentCrash
  <2>2. PlanTypeOK' /\ run'[s].at = "out" /\ \A t \in Runner \ {s} : run'[t] = run[t]
    BY <1>0, <2>1, PlanFaults, EndMoves DEF MovesOnly, Die, Leave
  <2> QED
    BY <1>1, <2>1, <2>2
<1> QED
  BY <1>3, <1>4

\* A lost job is nobody's; whoever has it goes on without.
LEMMA LostKeeps ==
  ASSUME JobsOK, NEW s \in Runner, JobLockLost(s)
  PROVE  JobsOK'
<1> DEFINE e == slot[s].exec
<1>1. slot[s].at # "idle" /\ Owns(s) /\ Stalls(s) /\ agentFaults' = agentFaults + 1
      /\ agentFaults' \in 0..MaxAgentFaults /\ UNCHANGED <<planVars, slot>>
  <2>1. slot[s] \in Slot /\ (slot[s].at = "idle" => slot[s].exec = NoExec)
    BY DEF JobsOK, SlotSound
  <2>2. slot[s].at = "idle" => slot[s] = Idle
    BY <2>1 DEF Slot, Idle
  <2> QED
    BY <2>2 DEF JobLockLost, JobsOK
<1>2. PICK j : /\ LeftJob(j, e) /\ j.stalls > 0 /\ agentJob' = [agentJob EXCEPT ![e] = j]
  BY <1>1, StallLeaves
<1>3. e \in Exec /\ agentJob' \in [Exec -> Job] /\ \A d \in Exec : agentJob'[d] = IF d = e THEN j ELSE agentJob[d]
  BY <1>1, <1>2, BusyHasExec DEF JobsOK, LeftJob
<1>4. ASSUME NEW d \in Exec PROVE JobSound(d)'
  BY <1>1, <1>2, <1>3 DEF JobsOK, JobSound, LeftJob
<1>5. ASSUME NEW t \in Runner PROVE SlotSound(t)'
  <2>1. slot'[t] = slot[t] /\ run'[t] = run[t]
    BY <1>1 DEF planVars
  <2>2. CASE slot[t].at # "idle" /\ agentJob'[slot[t].exec].stalls = 0
    <3>1. slot[t].exec \in Exec
      BY <2>2, BusyHasExec
    <3>2. slot[t].exec # e
      BY <1>2, <1>3, <2>2
    <3> QED
      BY <1>3, <2>1, <2>2, <3>1, <3>2 DEF JobsOK, SlotSound
  <2> QED
    BY <2>1, <2>2 DEF JobsOK, SlotSound
<1> QED
  BY <1>1, <1>3, <1>4, <1>5 DEF JobsOK

\* What the producer and a taker do with a waiting job.
LEMMA TakenKeeps ==
  ASSUME TypeInv, NEW e \in Exec, NEW s \in Runner, TakeAgentJob(s, e) \/ Produce(e)
  PROVE  JobsOK'
<1>0. /\ agentJob \in [Exec -> Job] /\ slot \in [Runner -> Slot] /\ JobSound(e) /\ e # NoExec
      /\ agentFaults' = agentFaults /\ run' = run
  BY DEF TypeInv, JobsOK, TakeAgentJob, Produce, planVars
<1>1. agentJob[e] \in Job /\ agentJob[e].owner = Free /\ agentJob[e].state \in {"none", "waiting"}
  BY <1>0 DEF TakeAgentJob, Produce, Enqueue, JobSound
<1>2. ASSUME NEW t \in Runner, slot[t].at # "idle"
      PROVE  slot[t].exec \in Exec /\ (slot[t].exec = e => agentJob[e].stalls # 0)
  BY <1>1, <1>2, BusyHasExec DEF TypeInv, JobsOK, SlotSound
<1>3. CASE Produce(e)
  <2> DEFINE j == [agentJob[e] EXCEPT !.state = "waiting"]
  <2>1. agentJob' = [agentJob EXCEPT ![e] = j] /\ slot' = slot
    BY <1>3 DEF Produce, Enqueue
  <2>2. j \in Job /\ j.owner = Free /\ j.state = "waiting" /\ j.stalls = agentJob[e].stalls
        /\ j.attempts = agentJob[e].attempts
    BY <1>1 DEF Job
  <2> HIDE DEF j
  <2>3. agentJob' \in [Exec -> Job] /\ \A d \in Exec : agentJob'[d] = IF d = e THEN j ELSE agentJob[d]
    BY <1>0, <2>1, <2>2
  <2>4. \A d \in Exec : JobSound(d)'
    BY <1>0, <1>1, <2>2, <2>3 DEF TypeInv, JobsOK, JobSound
  <2>5. \A t \in Runner : SlotSound(t)'
    BY <1>0, <1>2, <2>1, <2>2, <2>3 DEF TypeInv, JobsOK, SlotSound
  <2> QED
    BY <1>0, <2>1, <2>3, <2>4, <2>5 DEF TypeInv, JobsOK
<1>4. CASE TakeAgentJob(s, e)
  <2> DEFINE j == [agentJob[e] EXCEPT !.state = "active", !.owner = s]
             p == [at |-> "start", exec |-> e]
  <2>1. agentJob' = [agentJob EXCEPT ![e] = j]
    BY <1>0, <1>4 DEF TakeAgentJob, Job
  <2>2. slot' = [slot EXCEPT ![s] = p] /\ slot[s] = Idle
    BY <1>4 DEF TakeAgentJob
  <2>3. j \in Job /\ j.owner = s /\ j.state = "active" /\ j.stalls = agentJob[e].stalls
        /\ j.attempts = agentJob[e].attempts
    BY <1>1 DEF Job
  <2>4. p \in Slot /\ p.at = "start" /\ p.exec = e
    BY DEF Slot, SlotStep
  <2> HIDE DEF j, p
  <2>5. agentJob' \in [Exec -> Job] /\ \A d \in Exec : agentJob'[d] = IF d = e THEN j ELSE agentJob[d]
    BY <1>0, <2>1, <2>3
  <2>6. slot' \in [Runner -> Slot] /\ \A t \in Runner : slot'[t] = IF t = s THEN p ELSE slot[t]
    BY <1>0, <2>2, <2>4
  <2>7. \A d \in Exec : JobSound(d)'
    BY <1>0, <1>1, <1>4, <2>3, <2>5 DEF TypeInv, JobsOK, JobSound, TakeAgentJob
  <2>8. run[s].at = "out"
    BY <2>2 DEF TypeInv, JobsOK, SlotSound, Idle
  <2>9. \A t \in Runner : SlotSound(t)'
    BY <1>0, <1>2, <2>3, <2>4, <2>5, <2>6, <2>8 DEF TypeInv, JobsOK, SlotSound
  <2> QED
    BY <1>0, <2>5, <2>6, <2>7, <2>9 DEF TypeInv, JobsOK
<1> QED
  BY <1>3, <1>4

LEMMA DataKept ==
  ASSUME TypeInv, [AgentNext]_agentVars
  PROVE  DataOK'
<1>0. /\ \A s \in Runner : slot[s].at # "idle" => slot[s].exec \in Exec
      /\ mode \in [Exec -> Mode]
  BY BusyHasExec DEF TypeInv, DataOK
<1>1. \A e \in Exec : Outcome(e) \in Terminal
  BY DEF Outcome, Terminal
<1>2. \A f \in [Exec -> 0..2], e \in Exec : Bump(f, e) \in [Exec -> 0..2]
  <2> SUFFICES ASSUME NEW f \in [Exec -> 0..2], NEW e \in Exec
               PROVE  Bump(f, e) \in [Exec -> 0..2]
    OBVIOUS
  <2>1. (IF f[e] = 2 THEN 2 ELSE f[e] + 1) \in 0..2
    OBVIOUS
  <2> QED
    BY <2>1 DEF Bump
<1>3. ASSUME NEW s \in Runner, StartExecution(s) \/ CheckBilling(s) \/ StoreOutcome(s) \/ StoreFailure(s)
      PROVE  DataOK'
  BY <1>0, <1>1, <1>3 DEF StartExecution, CheckBilling, StoreOutcome, StoreFailure, Store, TypeInv,
     DataOK, runtimeVars, Terminal
<1>4. ASSUME NEW s \in Runner, ConsumeBudget(s) \/ CreateArtifact(s) PROVE DataOK'
  BY <1>0, <1>2, <1>4 DEF ConsumeBudget, CreateArtifact, TypeInv, DataOK
<1>5. ASSUME NEW s \in Runner, EnsureHeadroom(s) \/ RunPlan(s) \/ EndPlan(s) PROVE DataOK'
  BY <1>5 DEF EnsureHeadroom, RunPlan, EndPlan, TypeInv, DataOK, jobVars, runtimeVars
<1>6. ASSUME NEW s \in Runner, TellOutcome(s) \/ TellFailure(s) PROVE DataOK'
  BY <1>0, <1>1, <1>6 DEF TellOutcome, TellFailure, Tells, TypeInv, DataOK, Terminal
<1>7. ASSUME NEW s \in Runner, CallFails(s) PROVE DataOK'
  <2> DEFINE e == slot[s].exec
  <2>1. UNCHANGED <<mode, status, charges>>
    BY <1>7 DEF CallFails, runtimeVars, jobVars
  <2>2. \/ artifacts' = artifacts /\ told' = told
        \/ slot[s].at = "artifact" /\ artifacts' = Bump(artifacts, e) /\ told' = told
        \/ slot[s].at = "tell" /\ Tells(s, Outcome(e)) /\ artifacts' = artifacts
    BY <1>7 DEF CallFails, runtimeVars
  <2>3. artifacts' \in [Exec -> 0..2]
    BY <1>0, <1>2, <2>2 DEF TypeInv, DataOK
  <2>4. told' \in [Exec -> SUBSET Terminal]
    BY <1>0, <1>1, <2>2 DEF Tells, TypeInv, DataOK
  <2> QED
    BY <2>1, <2>3, <2>4 DEF TypeInv, DataOK
<1>8. ASSUME NEW s \in Runner, AgentCrash(s) \/ JobLockLost(s) \/ \E e \in Exec : TakeAgentJob(s, e)
      PROVE  DataOK'
  BY <1>8 DEF AgentCrash, JobLockLost, TakeAgentJob, TypeInv, DataOK, runtimeVars
<1>9. CASE UNCHANGED agentVars
  BY <1>9 DEF agentVars, jobVars, runtimeVars, TypeInv, DataOK
<1>10. CASE LockTtl
  BY <1>10 DEF LockTtl, TypeInv, DataOK, jobVars, runtimeVars
<1>11. ASSUME NEW e \in Exec, Produce(e) PROVE DataOK'
  BY <1>11 DEF Produce, TypeInv, DataOK, runtimeVars
<1> QED
  BY <1>3, <1>4, <1>5, <1>6, <1>7, <1>8, <1>9, <1>10, <1>11 DEF AgentNext, AgentStep, AgentFault

LEMMA TypeStep ==
  ASSUME TypeInv, [AgentNext]_agentVars
  PROVE  TypeInv'
<1>0. DataOK'
  BY DataKept
<1>1. PlanTypeOK /\ JobsOK /\ agentFaults \in 0..MaxAgentFaults
      /\ MaxAgentFaults \in Nat
  BY DEF TypeInv, JobsOK
<1>2. ASSUME NEW s \in Runner, UNCHANGED <<agentJob, slot>>, slot[s].at = "plan",
             agentFaults' \in {agentFaults, agentFaults + 1}, agentFaults' <= MaxAgentFaults,
             \A t \in Runner \ {s} : run'[t] = run[t],
             run'[s].exec = run[s].exec, run[s].at # "out"
      PROVE  JobsOK'
  <2>1. \A e \in Exec : JobSound(e)'
    BY <1>1, <1>2 DEF JobsOK, JobSound
  <2>2. ASSUME NEW t \in Runner PROVE SlotSound(t)'
    BY <1>1, <1>2 DEF JobsOK, SlotSound
  <2> QED
    BY <1>1, <1>2, <2>1, <2>2 DEF JobsOK
<1>3. ASSUME NEW s \in Runner, AgentStep(s) PROVE TypeInv'
  <2>1. PlanTypeOK' /\ agentFaults' = agentFaults
    BY <1>3, RunnerSteps
  <2>2. JobsOK'
    BY <1>1, <1>2, <1>3, RunnerSteps, GoingKeeps, EndedKeeps
  <2> QED
    BY <1>0, <2>1, <2>2 DEF TypeInv
<1>4. ASSUME NEW s \in Runner, CallFails(s) \/ AgentCrash(s) PROVE TypeInv'
  <2>1. agentFaults' = agentFaults + 1 /\ agentFaults' <= MaxAgentFaults /\ PlanTypeOK'
    BY <1>4, RunnerFaults
  <2>2. ASSUME slot[s].at # "idle", Owns(s), Stalls(s), slot' = [slot EXCEPT ![s] = Idle],
               run'[s].at = "out", \A t \in Runner \ {s} : run'[t] = run[t]
        PROVE  JobsOK'
    <3>1. PICK j : LeftJob(j, slot[s].exec) /\ agentJob' = [agentJob EXCEPT ![slot[s].exec] = j]
      BY <1>1, <2>1, <2>2, StallLeaves
    <3>2. agentJob' = IF Owns(s) THEN [agentJob EXCEPT ![slot[s].exec] = j] ELSE agentJob
      BY <2>2, <3>1
    <3>3. agentFaults' \in {agentFaults, agentFaults + 1}
      BY <2>1
    <3> QED
      BY <1>1, <2>1, <2>2, <3>1, <3>2, <3>3, Ending
  <2>3. ASSUME slot[s].at # "idle", ~Owns(s), UNCHANGED agentJob,
               slot' = [slot EXCEPT ![s] = Idle],
               run'[s].at = "out", \A t \in Runner \ {s} : run'[t] = run[t]
        PROVE  JobsOK'
    <3> DEFINE e == slot[s].exec
               k == [agentJob[e] EXCEPT !.state = "failed", !.owner = Free]
    <3>1. agentJob[e] \in Job /\ JobSound(e)
      BY <1>1, <2>3, BusyHasExec DEF JobsOK
    <3>2. k \in Job /\ k.owner = Free /\ k.state = "failed" /\ k.stalls = agentJob[e].stalls
      BY <3>1 DEF Job
    <3>3. LeftJob(k, e)
      BY <1>1, <2>1, <3>1, <3>2 DEF LeftJob, JobSound, Job
    <3> HIDE DEF k
    <3>4. agentJob' = IF Owns(s) THEN [agentJob EXCEPT ![slot[s].exec] = k] ELSE agentJob
      BY <2>3
    <3>5. agentFaults' \in {agentFaults, agentFaults + 1}
      BY <2>1
    <3> QED
      BY <1>1, <2>1, <2>3, <3>3, <3>4, <3>5, Ending
  <2>4. JobsOK'
    BY <1>1, <1>2, <1>4, <2>1, <2>2, <2>3, RunnerFaults, GoingKeeps, EndedKeeps
  <2> QED
    BY <1>0, <2>1, <2>4 DEF TypeInv
<1>5. ASSUME NEW s \in Runner, JobLockLost(s) PROVE TypeInv'
  <2>1. PlanTypeOK'
    BY <1>1, <1>5 DEF JobLockLost, PlanTypeOK, planVars
  <2> QED
    BY <1>0, <1>1, <1>5, <2>1, LostKeeps DEF TypeInv
<1>6. ASSUME NEW e \in Exec, NEW s \in Runner, TakeAgentJob(s, e) PROVE TypeInv'
  <2>1. PlanTypeOK'
    BY <1>1, <1>6 DEF TakeAgentJob, PlanTypeOK, planVars
  <2> QED
    BY <1>0, <1>6, <2>1, TakenKeeps DEF TypeInv
<1>7. ASSUME NEW e \in Exec, Produce(e) PROVE TypeInv'
  <2>1. PlanTypeOK'
    BY <1>1, <1>7 DEF Produce, PlanTypeOK, planVars
  <2>2. JobsOK'
    <3>1. CASE Runner = {}
      BY SMTT(30), <1>1, <1>7, <3>1 DEF Produce, Enqueue, JobsOK, JobSound, Job
    <3> QED
      BY <1>7, <3>1, TakenKeeps
  <2> QED
    BY <1>0, <2>1, <2>2 DEF TypeInv
<1>8. CASE LockTtl
  <2>1. PlanTypeOK' /\ run' = run
    BY <1>1, <1>8 DEF LockTtl, ExecLockExpires, PlanTypeOK
  <2>2. JobsOK'
    BY <1>1, <1>8, <2>1 DEF LockTtl, jobVars, JobsOK, JobSound, SlotSound
  <2> QED
    BY <1>0, <2>1, <2>2 DEF TypeInv
<1>9. CASE UNCHANGED agentVars
  <2>1. PlanTypeOK' /\ run' = run
    BY <1>1, <1>9 DEF agentVars, planVars, PlanTypeOK
  <2>2. JobsOK'
    BY <1>1, <1>9, <2>1 DEF agentVars, jobVars, JobsOK, JobSound, SlotSound
  <2> QED
    BY <1>0, <2>1, <2>2 DEF TypeInv
<1> QED
  BY <1>3, <1>4, <1>5, <1>6, <1>7, <1>8, <1>9 DEF AgentNext, AgentFault

LEMMA TypeInvariance == AgentSpec => []TypeInv
<1>1. AgentInit => TypeInv
  <2> SUFFICES ASSUME AgentInit PROVE TypeInv
    OBVIOUS
  <2>1. PlanTypeOK
    BY 1 \in Call, 1 \in 1..RetryAttempts DEF AgentInit, PlanInit, PlanTypeOK, Run, Call
  <2>2. \A s \in Runner : slot[s] = Idle /\ run[s].at = "out"
    BY DEF AgentInit, PlanInit
  <2>3. agentJob \in [Exec -> Job] /\ slot \in [Runner -> Slot] /\ agentFaults \in 0..MaxAgentFaults
    BY DEF AgentInit, Job, Slot, SlotStep, Idle
  <2>4. \A e \in Exec : JobSound(e)
    BY DEF AgentInit, JobSound
  <2>5. \A s \in Runner : SlotSound(s)
    BY <2>2 DEF SlotSound, Idle
  <2>6. DataOK
    BY DEF AgentInit, DataOK
  <2> QED
    BY <2>1, <2>3, <2>4, <2>5, <2>6 DEF TypeInv, JobsOK
<1>2. TypeInv /\ [AgentNext]_agentVars => TypeInv'
  BY TypeStep
<1> QED
  BY <1>1, <1>2, PTL DEF AgentSpec

\* The jobs, the rows of the executions and the runners keep their types, and a
\* runner that is not in the plan has no call of execute open.
THEOREM AgentTyping == AgentSpec => []AgentTypeOK
<1>1. TypeInv => AgentTypeOK
  BY DEF TypeInv, JobsOK, DataOK, SlotSound, AgentTypeOK
<1> QED
  BY <1>1, TypeInvariance, PTL

\* Two runners have one execution only after BullMQ took its job from one.
LEMMA OneHasIt ==
  ASSUME TypeInv, NEW s \in Runner, NEW t \in Runner, slot[s].at # "idle", slot[t].at # "idle",
         slot[s].exec = slot[t].exec, agentJob[slot[s].exec].stalls = 0
  PROVE  s = t
  BY DEF TypeInv, JobsOK, SlotSound

\* What the steps do to the stalls of a job.
LEMMA StallsGrow ==
  ASSUME TypeInv, [AgentNext]_agentVars, NEW e \in Exec, agentJob'[e].stalls = 0
  PROVE  agentJob[e].stalls = 0
<1>0. agentJob \in [Exec -> Job] /\ agentJob[e] \in Job /\ JobsOK
  BY DEF TypeInv, JobsOK
<1>1. CASE agentJob' = agentJob
  BY <1>1
<1>2. ASSUME NEW s \in Runner, slot[s].at # "idle", NEW j, j.stalls >= agentJob[slot[s].exec].stalls,
             agentJob' = [agentJob EXCEPT ![slot[s].exec] = j]
      PROVE  agentJob[e].stalls = 0
  BY <1>0, <1>2 DEF Job
<1>3. ASSUME NEW s \in Runner, Going(s, "error") \/ (\E x \in SlotStep : Going(s, x)) \/ Ended(s),
             agentFaults' \in {agentFaults, agentFaults + 1}
      PROVE  agentJob[e].stalls = 0
  <2>1. CASE Ended(s)
    <3>1. PICK j : /\ LeftJob(j, slot[s].exec)
                   /\ agentJob' = IF Owns(s) THEN [agentJob EXCEPT ![slot[s].exec] = j] ELSE agentJob
      BY <1>0, <1>3, <2>1, ReturnLeaves, ThrowLeaves DEF Ended
    <3> QED
      BY <1>1, <1>2, <2>1, <3>1 DEF LeftJob, Ended
  <2> QED
    BY <1>1, <1>3, <2>1 DEF Going
<1>4. ASSUME NEW s \in Runner, slot[s].at # "idle", Owns(s), Stalls(s), agentFaults' = agentFaults + 1
      PROVE  agentJob[e].stalls = 0
  <2>1. PICK j : LeftJob(j, slot[s].exec) /\ agentJob' = [agentJob EXCEPT ![slot[s].exec] = j]
    BY <1>0, <1>4, StallLeaves
  <2> QED
    BY <1>2, <1>4, <2>1 DEF LeftJob
<1>5. ASSUME NEW s \in Runner, AgentStep(s) PROVE agentJob[e].stalls = 0
  BY <1>1, <1>3, <1>5, RunnerSteps
<1>6. ASSUME NEW s \in Runner, CallFails(s) \/ AgentCrash(s) PROVE agentJob[e].stalls = 0
  BY <1>1, <1>3, <1>4, <1>6, RunnerFaults
<1>7. ASSUME NEW s \in Runner, JobLockLost(s) PROVE agentJob[e].stalls = 0
  <2>1. slot[s] \in Slot /\ (slot[s].at = "idle" => slot[s].exec = NoExec) /\ slot[s] # Idle
    BY <1>0, <1>7 DEF JobLockLost, JobsOK, SlotSound
  <2>2. slot[s].at # "idle"
    BY <2>1 DEF Slot, Idle
  <2> QED
    BY <1>4, <1>7, <2>2 DEF JobLockLost
<1>8. ASSUME NEW s \in Runner, NEW d \in Exec, TakeAgentJob(s, d) PROVE agentJob[e].stalls = 0
  BY <1>0, <1>8 DEF TakeAgentJob, Job
<1>9. ASSUME NEW d \in Exec, Produce(d) PROVE agentJob[e].stalls = 0
  BY <1>0, <1>9 DEF Produce, Enqueue, Job
<1>10. CASE LockTtl \/ UNCHANGED agentVars
  BY <1>1, <1>10 DEF LockTtl, agentVars, jobVars
<1> QED
  BY <1>5, <1>6, <1>7, <1>8, <1>9, <1>10 DEF AgentNext, AgentFault

-----------------------------------------------------------------------------
(* The lock and the result of a plan *)

\* A runner in a plan holds its lock, if no lock ever ran out; and before it has
\* stored the result there is none, if nobody else has had its job.
LockHeld(s) == InPlan(s) => execLock[run[s].exec] = s \/ lockLosses > 0
NoResultYet(s) ==
  run[s].at \in {"lock", "tool", "store"} /\ agentJob[run[s].exec].stalls = 0 =>
    ~execResult[run[s].exec]
PlanInv == \A s \in Runner : LockHeld(s) /\ NoResultYet(s)

\* What a plan step of s does to the locks.
LEMMA LockStep ==
  ASSUME TypeInv, PlanInv, NEW s \in Runner, PlanStep(s) \/ RedisFails(s) \/ Die(s)
  PROVE  \A t \in Runner : LockHeld(t)'
<1>0. /\ PlanTypeOK /\ run \in [Runner -> Run] /\ execLock \in [Exec -> Runner \cup {Free, Orphan}]
      /\ \A t \in Runner : InPlan(t) => run[t].exec \in Exec
      /\ lockLosses \in Nat /\ \A t \in Runner : t # Free /\ t # Orphan
  BY BusyHasExec DEF TypeInv, PlanTypeOK, InPlan, JobsOK, SlotSound
<1>1. ASSUME NEW t \in Runner, run[s].at # "out" PROVE run[s].exec \in Exec
  BY <1>1, BusyHasExec DEF TypeInv, JobsOK, SlotSound
<1>2. ASSUME NEW at, NEW outcome, MovesOnly(s, at, outcome), UNCHANGED lockLosses,
             at \in {"tool", "store", "release"} => execLock'[run[s].exec] = s \/ lockLosses > 0,
             \A t \in Runner \ {s} : InPlan(t) /\ execLock[run[t].exec] = t =>
               execLock'[run[t].exec] = t
      PROVE  \A t \in Runner : LockHeld(t)'
  BY <1>2 DEF MovesOnly, LockHeld, InPlan, PlanInv
<1>3. CASE ReadResult(s)
  <2>1. MovesOnly(s, "out", "done") \/ MovesOnly(s, "lock", run[s].outcome)
    BY <1>0, <1>3, GoToMoves, EndMoves DEF ReadResult, Leave
  <2> QED
    BY <1>2, <1>3, <2>1 DEF ReadResult
<1>4. CASE TakeLock(s)
  <2>1. run[s].exec \in Exec
    BY <1>1, <1>4 DEF TakeLock
  <2>2. CASE execLock[run[s].exec] = Free
    <3>1. MovesOnly(s, "tool", run[s].outcome) /\ execLock' = [execLock EXCEPT ![run[s].exec] = s]
      BY <1>0, <1>4, <2>2, GoToMoves DEF TakeLock
    <3> QED
      BY <1>0, <1>2, <1>4, <2>1, <2>2, <3>1 DEF TakeLock
  <2>3. CASE execLock[run[s].exec] # Free
    <3>1. MovesOnly(s, "out", "error") /\ execLock' = execLock
      BY <1>0, <1>4, <2>3, EndMoves DEF TakeLock, Leave
    <3> QED
      BY <1>2, <1>4, <3>1 DEF TakeLock
  <2> QED
    BY <2>2, <2>3
<1>5. CASE RunTool(s) \/ ToolFails(s) \/ Stop(s) \/ StoreResult(s)
  <2>1. InPlan(s) /\ UNCHANGED <<execLock, lockLosses>>
    BY <1>5 DEF RunTool, ToolFails, Stop, StoreResult, InPlan
  <2>2. \E at, outcome : MovesOnly(s, at, outcome)
    BY <1>0, <1>5, ToolMoves, EndMoves DEF Stop, StoreResult, GiveUp
  <2> QED
    BY <1>2, <2>1, <2>2 DEF PlanInv, LockHeld
<1>6. CASE ReleaseLock(s)
  <2>1. InPlan(s) /\ run[s].exec \in Exec /\ execLock' = [execLock EXCEPT ![run[s].exec] = Free]
    BY <1>1, <1>6 DEF ReleaseLock, InPlan
  <2>2. MovesOnly(s, "out", run[s].outcome)
    BY ZenonT(40), <1>0, <1>6, EndMoves DEF ReleaseLock, Leave, Run
  <2>3. CASE lockLosses > 0
    BY <1>6, <2>3 DEF ReleaseLock, LockHeld
  <2>4. CASE execLock[run[s].exec] = s
    BY <1>0, <1>2, <1>6, <2>1, <2>2, <2>4 DEF ReleaseLock
  <2> QED
    BY <2>1, <2>3, <2>4 DEF PlanInv, LockHeld
<1>7. CASE RedisFails(s) \/ Die(s)
  <2>1. UNCHANGED lockLosses
    BY <1>7 DEF RedisFails, Die
  <2>2. \A t \in Runner \ {s}, e \in Exec : execLock[e] = t => execLock'[e] = t
    BY <1>0, <1>7 DEF RedisFails, Die
  <2>3. CASE MovesOnly(s, "out", "error") \/ MovesOnly(s, "out", "none")
    BY <1>0, <1>2, <2>1, <2>2, <2>3
  <2>4. CASE RedisFails(s) /\ run[s].at = "store" /\ MovesOnly(s, "release", "error")
    <3>1. execLock' = execLock /\ InPlan(s)
      BY <2>4 DEF RedisFails, InPlan
    <3> QED
      BY <1>2, <2>1, <2>4, <3>1 DEF PlanInv, LockHeld
  <2> QED
    BY <1>0, <1>7, <2>3, <2>4, PlanFaults
<1> QED
  BY <1>3, <1>4, <1>5, <1>6, <1>7 DEF PlanStep

\* The result of an execution whose job was with one runner only is stored by
\* that runner, at the end of its plan.
LEMMA ResultStep ==
  ASSUME TypeInv, PlanInv, [AgentNext]_agentVars, NEW s \in Runner, slot[s].at = "plan",
         PlanStep(s) \/ RedisFails(s)
  PROVE  \A t \in Runner : NoResultYet(t)'
<1>0. /\ PlanTypeOK /\ run \in [Runner -> Run] /\ execResult \in [Exec -> BOOLEAN]
      /\ slot[s].exec \in Exec /\ run[s].at # "out" /\ run[s].exec = slot[s].exec
  <2>1. run[s].at # "out"
    BY DEF PlanStep, RedisFails, ReadResult, TakeLock, RunTool, ToolFails, Stop, StoreResult, ReleaseLock
  <2> QED
    BY <2>1, BusyHasExec DEF TypeInv, PlanTypeOK, JobsOK, SlotSound
<1>1. \A e \in Exec : agentJob'[e].stalls = 0 => agentJob[e].stalls = 0
  BY StallsGrow
<1>2. \A t \in Runner : run[t].at # "out" => run[t].exec \in Exec /\ run[t].exec = slot[t].exec /\ slot[t].at # "idle"
  BY BusyHasExec DEF TypeInv, JobsOK, SlotSound
<1>3. ASSUME NEW at, NEW outcome, MovesOnly(s, at, outcome),
             at \in {"lock", "tool", "store"} =>
               run[s].at \in {"lock", "tool", "store"} \/ ~execResult[run[s].exec],
             execResult' = execResult
      PROVE  \A t \in Runner : NoResultYet(t)'
  BY <1>0, <1>1, <1>2, <1>3 DEF MovesOnly, NoResultYet, PlanInv
<1>4. CASE StoreResult(s)
  <2>1. MovesOnly(s, "release", "done") /\ execResult' = [execResult EXCEPT ![run[s].exec] = TRUE]
    BY <1>0, <1>4, EndMoves DEF StoreResult
  <2>2. ASSUME NEW t \in Runner, t # s PROVE NoResultYet(t)'
    <3>1. run'[t] = run[t]
      BY <2>1, <2>2 DEF MovesOnly
    <3>2. CASE run[t].at # "out" /\ agentJob'[run[t].exec].stalls = 0
      <4>1. run[t].exec \in Exec /\ agentJob[run[t].exec].stalls = 0
        BY <1>1, <1>2, <3>2
      <4>2. run[t].exec # run[s].exec
        BY <1>0, <1>2, <2>2, <3>2, <4>1, OneHasIt
      <4> QED
        BY <1>0, <2>1, <3>1, <4>1, <4>2 DEF NoResultYet, PlanInv
    <3> QED
      BY <3>1, <3>2 DEF NoResultYet
  <2> QED
    BY <2>1, <2>2 DEF NoResultYet, MovesOnly
<1>5. CASE ReadResult(s)
  <2>1. MovesOnly(s, "out", "done") \/ (MovesOnly(s, "lock", run[s].outcome) /\ ~execResult[run[s].exec])
    BY <1>0, <1>5, GoToMoves, EndMoves DEF ReadResult, Leave
  <2> QED
    BY <1>3, <1>5, <2>1 DEF ReadResult
<1>6. CASE TakeLock(s)
  <2>1. MovesOnly(s, "out", "error") \/ MovesOnly(s, "tool", run[s].outcome)
    BY <1>0, <1>6, GoToMoves, EndMoves DEF TakeLock, Leave
  <2> QED
    BY <1>3, <1>6, <2>1 DEF TakeLock
<1>7. CASE RunTool(s) \/ ToolFails(s)
  <2>1. \E at, outcome : MovesOnly(s, at, outcome)
    BY <1>0, <1>7, ToolMoves
  <2> QED
    BY <1>3, <1>7, <2>1 DEF RunTool, ToolFails
<1>8. CASE Stop(s) \/ ReleaseLock(s)
  <2>1. MovesOnly(s, "release", "error") \/ MovesOnly(s, "out", run[s].outcome)
    BY ZenonT(40), <1>0, <1>8, EndMoves DEF Stop, GiveUp, ReleaseLock, Leave, Run
  <2> QED
    BY <1>3, <1>8, <2>1 DEF Stop, ReleaseLock
<1>9. CASE RedisFails(s)
  <2>1. execResult' = execResult /\ \E at \in {"out", "release"} : \E outcome : MovesOnly(s, at, outcome)
    BY <1>0, <1>9, EndMoves DEF RedisFails, Leave, GiveUp
  <2> QED
    BY <1>3, <2>1
<1> QED
  BY <1>4, <1>5, <1>6, <1>7, <1>8, <1>9 DEF PlanStep

LEMMA PlanInvStep ==
  ASSUME TypeInv, PlanInv, [AgentNext]_agentVars
  PROVE  PlanInv'
<1>0. /\ PlanTypeOK /\ run \in [Runner -> Run] /\ execLock \in [Exec -> Runner \cup {Free, Orphan}]
      /\ lockLosses \in Nat /\ \A t \in Runner : t # Free /\ t # Orphan
      /\ \A t \in Runner : run[t].at # "out" => run[t].exec \in Exec
  BY BusyHasExec DEF TypeInv, PlanTypeOK, JobsOK, SlotSound
<1>1. \A e \in Exec : agentJob'[e].stalls = 0 => agentJob[e].stalls = 0
  BY StallsGrow
<1>2. ASSUME UNCHANGED planVars PROVE PlanInv'
  BY <1>0, <1>1, <1>2 DEF planVars, PlanInv, LockHeld, NoResultYet, InPlan
<1>3. ASSUME NEW s \in Runner, RunPlan(s) PROVE PlanInv'
  BY <1>3, LockStep, ResultStep DEF RunPlan, PlanInv
<1>4. ASSUME NEW s \in Runner, CallFails(s) PROVE PlanInv'
  <2>1. UNCHANGED planVars \/ (slot[s].at = "plan" /\ RedisFails(s))
    BY <1>4 DEF CallFails
  <2> QED
    BY <1>2, <2>1, LockStep, ResultStep DEF PlanInv
<1>5. ASSUME NEW s \in Runner, AgentCrash(s) PROVE PlanInv'
  <2>1. Die(s)
    BY <1>5 DEF AgentCrash
  <2>2. MovesOnly(s, "out", "none") /\ execResult' = execResult
    BY <1>0, <2>1, EndMoves DEF Die, Leave
  <2>3. \A t \in Runner : NoResultYet(t)'
    BY <1>0, <1>1, <2>2 DEF MovesOnly, NoResultYet, PlanInv
  <2> QED
    BY <2>1, <2>3, LockStep DEF PlanInv
<1>6. ASSUME NEW s \in Runner, EnsureHeadroom(s) PROVE PlanInv'
  <2>1. CASE BeginPlan(s, slot[s].exec)
    <3>1. /\ UNCHANGED <<execLock, execResult, lockLosses>>
          /\ run'[s].at = "read" /\ \A t \in Runner \ {s} : run'[t] = run[t]
      BY <1>0, <2>1 DEF BeginPlan, NewRun
    <3> QED
      BY <1>0, <1>1, <3>1 DEF PlanInv, LockHeld, NoResultYet, InPlan
  <2> QED
    BY <1>2, <1>6, <2>1 DEF EnsureHeadroom
<1>7. CASE LockTtl
  <2>1. PICK e \in Exec : ExecLockExpires(e)
    BY <1>7 DEF LockTtl
  <2>2. /\ UNCHANGED <<run, execResult>> /\ execLock' = [execLock EXCEPT ![e] = Free]
        /\ execLock[e] = Orphan \/ lockLosses' = lockLosses + 1
        /\ lockLosses' \in {lockLosses, lockLosses + 1}
    BY <2>1 DEF ExecLockExpires
  <2>3. \A t \in Runner : LockHeld(t)'
    BY <1>0, <2>2 DEF PlanInv, LockHeld, InPlan
  <2>4. \A t \in Runner : NoResultYet(t)'
    BY <1>0, <1>1, <2>2 DEF PlanInv, NoResultYet
  <2> QED
    BY <2>3, <2>4 DEF PlanInv
<1>8. ASSUME NEW s \in Runner, AgentStep(s), ~RunPlan(s), ~EnsureHeadroom(s) PROVE UNCHANGED planVars
  BY <1>8 DEF AgentStep, StartExecution, CheckBilling, EndPlan, ConsumeBudget, CreateArtifact,
     StoreOutcome, TellOutcome, StoreFailure, TellFailure
<1>9. ASSUME NEW s \in Runner, JobLockLost(s) \/ \E e \in Exec : TakeAgentJob(s, e)
      PROVE  UNCHANGED planVars
  BY <1>9 DEF JobLockLost, TakeAgentJob
<1>10. ASSUME NEW e \in Exec, Produce(e) PROVE UNCHANGED planVars
  BY <1>10 DEF Produce
<1>11. CASE UNCHANGED agentVars
  BY <1>2, <1>11 DEF agentVars
<1> QED
  BY <1>2, <1>3, <1>4, <1>5, <1>6, <1>7, <1>8, <1>9, <1>10, <1>11 DEF AgentNext, AgentFault

LEMMA PlanInvariance == AgentSpec => []PlanInv
<1>1. AgentInit => PlanInv
  BY DEF AgentInit, PlanInit, PlanInv, LockHeld, NoResultYet, InPlan
<1>2. TypeInv /\ PlanInv /\ [AgentNext]_agentVars => PlanInv'
  BY PlanInvStep
<1> QED
  BY <1>1, <1>2, TypeInvariance, PTL DEF AgentSpec

\* Two runners run the plan of one execution together only if the lock of one ran
\* out: a runner that found it taken never deletes it, and one that died never does.
THEOREM OneRunner == AgentSpec => []OnePlanRunner
<1>1. ASSUME TypeInv, PlanInv PROVE OnePlanRunner
  BY <1>1 DEF TypeInv, PlanTypeOK, PlanInv, LockHeld, OnePlanRunner
<1> QED
  BY <1>1, TypeInvariance, PlanInvariance, PTL

\* A retry whose first attempt stored the result runs no tool again.
THEOREM Reused == AgentSpec => ResultIsReused
<1>1. ASSUME TypeInv, PlanInv, [AgentNext]_agentVars, NEW e \in Exec,
             execResult[e], ran'[e] # ran[e]
      PROVE  agentJob[e].stalls > 0
  <2>1. agentJob[e] \in Job
    BY <1>1 DEF TypeInv, JobsOK
  <2>2. PICK s \in Runner : RunPlan(s)
    BY <1>1 DEF AgentNext, AgentStep, AgentFault, StartExecution, CheckBilling, EnsureHeadroom,
       BeginPlan, EndPlan, ConsumeBudget, CreateArtifact, StoreOutcome, TellOutcome, StoreFailure,
       TellFailure, CallFails, RedisFails, AgentCrash, Die, JobLockLost, TakeAgentJob, Produce, LockTtl,
       ExecLockExpires, agentVars, planVars
  <2>3. RunTool(s) \/ ToolFails(s)
    BY <1>1, <2>2 DEF RunPlan, PlanStep, ReadResult, TakeLock, Stop, StoreResult, ReleaseLock
  <2>4. run[s].at = "tool" /\ run[s].exec = e
    BY <1>1, <2>3 DEF RunTool, ToolFails, Works, TypeInv, PlanTypeOK
  <2>5. agentJob[e].stalls # 0
    BY <1>1, <2>4 DEF PlanInv, NoResultYet
  <2> QED
    BY <2>1, <2>5 DEF Job
<1>2. TypeInv /\ PlanInv /\ [AgentNext]_agentVars =>
        [\A e \in Exec : execResult[e] /\ ran'[e] # ran[e] => agentJob[e].stalls > 0]_agentVars
  BY <1>1
<1> QED
  BY <1>2, TypeInvariance, PlanInvariance, PTL DEF AgentSpec, ResultIsReused

-----------------------------------------------------------------------------
(* Outcomes *)

\* What a runner has behind it when it comes to the outcome, if nobody else has
\* had the job.
SlotStory(s) ==
  LET e == slot[s].exec IN
  /\ slot[s].at \in {"artifact", "finish", "tell"} => charges[e] > 0
  /\ slot[s].at \in {"finish", "tell"} => artifacts[e] > 0
  /\ slot[s].at = "tell" /\ agentJob[e].stalls = 0 => status[e] = Outcome(e)
  /\ slot[s].at \in {"tellBlocked", "tellError"} /\ agentJob[e].stalls = 0 => status[e] = "FAILED"

\* An execution that delivered was charged and has its artifact.
Charged(e) ==
  Live(e) /\ {"SUCCESS", "WAITING_APPROVAL"} \cap (told[e] \cup {status[e]}) # {} =>
    charges[e] > 0 /\ artifacts[e] > 0

\* A job that is over has left its outcome, unless something failed.
Settled(e) ==
  agentFaults = 0 =>
    /\ agentJob[e].state = "completed" => status[e] \in Terminal \cap told[e] \/ ~Live(e)
    /\ agentJob[e].state = "failed" => status[e] = "FAILED" /\ "FAILED" \in told[e]

StoryInv ==
  /\ \A s \in Runner : SlotStory(s)
  /\ \A e \in Exec : Charged(e) /\ Settled(e)

\* What holds of every step, for the other runners and the other executions.
LEMMA StepOfOne ==
  ASSUME TypeInv, NEW s \in Runner, slot[s].at # "idle",
         AgentStep(s) \/ CallFails(s) \/ AgentCrash(s)
  PROVE  LET e == slot[s].exec IN
         /\ e \in Exec /\ mode' = mode
         /\ \A t \in Runner \ {s} : slot'[t] = slot[t]
         /\ \A d \in Exec \ {e} : /\ agentJob'[d] = agentJob[d] /\ status'[d] = status[d]
                                  /\ charges'[d] = charges[d] /\ artifacts'[d] = artifacts[d]
                                  /\ told'[d] = told[d]
         /\ charges'[e] >= charges[e] /\ artifacts'[e] >= artifacts[e] /\ told[e] \subseteq told'[e]
<1> DEFINE e == slot[s].exec
<1>0. /\ e \in Exec /\ agentJob \in [Exec -> Job] /\ slot \in [Runner -> Slot]
      /\ status \in [Exec -> {"absent", "RUNNING"} \cup Terminal]
      /\ charges \in [Exec -> 0..2] /\ artifacts \in [Exec -> 0..2] /\ told \in [Exec -> SUBSET Terminal]
  BY BusyHasExec DEF TypeInv, JobsOK, DataOK
<1>1. ASSUME NEW f \in [Exec -> 0..2], NEW g, g = Bump(f, e) \/ g = f
      PROVE  g[e] >= f[e] /\ \A d \in Exec \ {e} : g[d] = f[d]
  <2>1. (IF f[e] = 2 THEN 2 ELSE f[e] + 1) >= f[e] /\ f[e] >= f[e]
    BY <1>0
  <2> QED
    BY <1>0, <1>1, <2>1 DEF Bump
<1>2. mode' = mode
  BY DEF AgentStep, StartExecution, CheckBilling, EnsureHeadroom, RunPlan, EndPlan, ConsumeBudget,
     CreateArtifact, StoreOutcome, TellOutcome, StoreFailure, TellFailure, CallFails, AgentCrash
<1>3. charges' = charges \/ charges' = Bump(charges, e)
  BY DEF AgentStep, StartExecution, CheckBilling, EnsureHeadroom, RunPlan, EndPlan, ConsumeBudget,
     CreateArtifact, StoreOutcome, TellOutcome, StoreFailure, TellFailure, CallFails, AgentCrash, runtimeVars
<1>4. artifacts' = artifacts \/ artifacts' = Bump(artifacts, e)
  BY DEF AgentStep, StartExecution, CheckBilling, EnsureHeadroom, RunPlan, EndPlan, ConsumeBudget,
     CreateArtifact, StoreOutcome, TellOutcome, StoreFailure, TellFailure, CallFails, AgentCrash, runtimeVars
<1>5. told' = told \/ \E x : told' = [told EXCEPT ![e] = @ \cup {x}]
  BY DEF AgentStep, StartExecution, CheckBilling, EnsureHeadroom, RunPlan, EndPlan, ConsumeBudget,
     CreateArtifact, StoreOutcome, TellOutcome, StoreFailure, TellFailure, CallFails, AgentCrash, runtimeVars, Tells
<1>6. status' = status \/ \E x : status' = [status EXCEPT ![e] = x]
  BY DEF AgentStep, StartExecution, CheckBilling, EnsureHeadroom, RunPlan, EndPlan, ConsumeBudget,
     CreateArtifact, StoreOutcome, TellOutcome, StoreFailure, TellFailure, CallFails, AgentCrash, jobVars, Store
<1>7. \A t \in Runner \ {s} : slot'[t] = slot[t]
  <2>1. \/ \E x : StepTo(s, x)
        \/ slot' = [slot EXCEPT ![s] = Idle] \/ slot' = slot
    BY RunnerSteps, RunnerFaults DEF Going, Ended, Returns, Leaves, Throws
  <2> QED
    BY <1>0, <2>1 DEF StepTo
<1>8. \A d \in Exec \ {e} : agentJob'[d] = agentJob[d]
  <2>1. agentJob' = agentJob \/ Returns(s) \/ Throws(s) \/ Stalls(s)
    BY RunnerSteps, RunnerFaults DEF Going, Ended
  <2> QED
    BY <1>0, <2>1 DEF Returns, Leaves, Throws, Stalls
<1> QED
  BY <1>0, <1>1, <1>2, <1>3, <1>4, <1>5, <1>6, <1>7, <1>8

\* A step need only be looked at where it happens.
LEMMA StoryOfOne ==
  ASSUME TypeInv, TypeInv', StoryInv, [AgentNext]_agentVars, NEW s \in Runner, slot[s].at # "idle",
         AgentStep(s) \/ CallFails(s) \/ AgentCrash(s),
         NEW e \in Exec, slot[s].exec = e, SlotStory(s)', Charged(e)', Settled(e)'
  PROVE  StoryInv'
<1>0. /\ e \in Exec /\ mode' = mode
      /\ \A t \in Runner \ {s} : slot'[t] = slot[t]
      /\ \A d \in Exec \ {e} : /\ agentJob'[d] = agentJob[d] /\ status'[d] = status[d]
                               /\ charges'[d] = charges[d] /\ artifacts'[d] = artifacts[d]
                               /\ told'[d] = told[d]
      /\ charges'[e] >= charges[e] /\ artifacts'[e] >= artifacts[e]
  BY StepOfOne
<1>1. \A d \in Exec : Outcome(d)' = Outcome(d) /\ Live(d)' = Live(d)
  BY <1>0 DEF Outcome, Live
<1>2. \A d \in Exec : agentJob'[d].stalls = 0 => agentJob[d].stalls = 0
  BY StallsGrow
<1>3. \A d \in Exec : /\ charges[d] \in Nat /\ charges'[d] \in Nat
                      /\ artifacts[d] \in Nat /\ artifacts'[d] \in Nat
  BY DEF TypeInv, DataOK
<1>4. agentFaults' = 0 => agentFaults = 0
  BY RunnerSteps, RunnerFaults DEF TypeInv, JobsOK
<1>5. ASSUME NEW t \in Runner, t # s PROVE SlotStory(t)'
  <2> DEFINE d == slot[t].exec
  <2>1. slot'[t] = slot[t] /\ SlotStory(t)
    BY <1>0, <1>5 DEF StoryInv
  <2>2. CASE slot[t].at # "idle"
    <3>1. d \in Exec
      BY <2>2, BusyHasExec DEF TypeInv
    <3>2. charges[d] > 0 => charges'[d] > 0
      BY <1>0, <1>3, <3>1
    <3>3. artifacts[d] > 0 => artifacts'[d] > 0
      BY <1>0, <1>3, <3>1
    <3>4. agentJob'[d].stalls = 0 => agentJob[d].stalls = 0 /\ status'[d] = status[d]
      BY <1>0, <1>2, <1>5, <2>2, <3>1, OneHasIt
    <3> QED
      BY <1>1, <2>1, <3>1, <3>2, <3>3, <3>4 DEF SlotStory
  <2> QED
    BY <2>1, <2>2 DEF SlotStory
<1>6. ASSUME NEW d \in Exec, d # e PROVE Charged(d)' /\ Settled(d)'
  BY ZenonT(40), <1>0, <1>1, <1>4, <1>6 DEF StoryInv, Charged, Settled
<1> QED
  BY <1>5, <1>6 DEF StoryInv

\* A busy runner of an untroubled job is the one that has it.
LEMMA BusyOwns ==
  ASSUME TypeInv, NEW s \in Runner, slot[s].at # "idle", agentFaults = 0
  PROVE  Owns(s) /\ agentJob[slot[s].exec].state = "active" /\ agentJob[slot[s].exec].stalls = 0
<1>1. slot[s].exec \in Exec /\ agentJob[slot[s].exec] \in Job /\ agentFaults \in Nat
  BY BusyHasExec DEF TypeInv, JobsOK
<1>2. agentJob[slot[s].exec].stalls = 0
  BY <1>1 DEF TypeInv, JobsOK, JobSound, Job
<1> QED
  BY <1>1, <1>2 DEF TypeInv, JobsOK, JobSound, SlotSound, Owns

LEMMA SettledGoing ==
  ASSUME TypeInv, NEW s \in Runner, slot[s].at # "idle", NEW e \in Exec, slot[s].exec = e,
         UNCHANGED agentJob, agentFaults' = agentFaults
  PROVE  Settled(e)'
  BY BusyOwns DEF Settled

LEMMA StoryGoing ==
  ASSUME TypeInv, TypeInv', StoryInv, [AgentNext]_agentVars, NEW s \in Runner, slot[s].at # "idle",
         StartExecution(s) \/ EnsureHeadroom(s) \/ RunPlan(s) \/ EndPlan(s) \/ ConsumeBudget(s)
           \/ CreateArtifact(s) \/ StoreOutcome(s) \/ StoreFailure(s),
         NEW e \in Exec, slot[s].exec = e
  PROVE  StoryInv'
<1>0. /\ e \in Exec /\ slot \in [Runner -> Slot] /\ mode' = mode
      /\ status \in [Exec -> {"absent", "RUNNING"} \cup Terminal]
      /\ charges \in [Exec -> 0..2] /\ artifacts \in [Exec -> 0..2] /\ told \in [Exec -> SUBSET Terminal]
      /\ charges'[e] >= charges[e] /\ artifacts'[e] >= artifacts[e]
      /\ charges'[e] \in Nat /\ artifacts'[e] \in Nat
      /\ SlotStory(s) /\ Charged(e)
  BY StepOfOne, BusyHasExec DEF TypeInv, JobsOK, DataOK, AgentStep, StoryInv
<1>1. agentJob' = agentJob /\ agentFaults' = agentFaults
  BY DEF StartExecution, EnsureHeadroom, RunPlan, EndPlan, ConsumeBudget, CreateArtifact,
     StoreOutcome, StoreFailure, jobVars
<1>2. Settled(e)'
  BY <1>1, SettledGoing
<1>3. Outcome(e)' = Outcome(e) /\ Live(e)' = Live(e)
  BY <1>0 DEF Outcome, Live
<1>4. SUFFICES SlotStory(s)' /\ Charged(e)'
  BY <1>2, StoryOfOne DEF AgentStep
<1>5. ASSUME NEW x \in SlotStep, StepTo(s, x)
      PROVE  slot'[s].at = x /\ slot'[s].exec = e
  BY <1>0, <1>5, StepFacts
<1>6. CASE StartExecution(s)
  <2>1. slot'[s].at = "billing" /\ status'[e] = "RUNNING" /\ UNCHANGED runtimeVars
    BY <1>0, <1>5, <1>6 DEF StartExecution, Store, SlotStep
  <2> QED
    BY <1>0, <1>3, <2>1 DEF SlotStory, Charged, runtimeVars
<1>7. CASE EnsureHeadroom(s) \/ EndPlan(s) \/ RunPlan(s)
  <2>1. slot'[s].at \in {"plan", "error", "charge"} /\ status' = status /\ UNCHANGED runtimeVars
    BY <1>0, <1>5, <1>7 DEF EnsureHeadroom, EndPlan, RunPlan, Fails, StepTo, SlotStep, jobVars
  <2> QED
    BY <1>0, <1>3, <2>1 DEF SlotStory, Charged, runtimeVars
<1>8. CASE ConsumeBudget(s)
  <2>1. slot'[s].at = "artifact" /\ slot'[s].exec = e /\ UNCHANGED <<status, told, artifacts>>
    BY <1>5, <1>8 DEF ConsumeBudget, SlotStep
  <2>2. charges' = [charges EXCEPT ![e] = IF @ = 2 THEN 2 ELSE @ + 1] /\ charges[e] \in 0..2
    BY <1>0, <1>8 DEF ConsumeBudget, Bump
  <2>3. charges'[e] > 0
    BY <1>0, <2>2
  <2> QED
    BY <1>0, <1>3, <2>1, <2>3 DEF SlotStory, Charged
<1>9. CASE CreateArtifact(s)
  <2>1. /\ slot'[s].at = "finish" /\ slot'[s].exec = e /\ UNCHANGED <<status, told, charges>>
        /\ charges[e] > 0
    BY <1>0, <1>5, <1>9 DEF CreateArtifact, SlotStep, SlotStory
  <2>2. artifacts' = [artifacts EXCEPT ![e] = IF @ = 2 THEN 2 ELSE @ + 1] /\ artifacts[e] \in 0..2
    BY <1>0, <1>9 DEF CreateArtifact, Bump
  <2>3. artifacts'[e] > 0
    BY <1>0, <2>2
  <2> QED
    BY <1>0, <1>3, <2>1, <2>3 DEF SlotStory, Charged
<1>10. CASE StoreOutcome(s)
  <2>1. /\ slot'[s].at = "tell" /\ slot'[s].exec = e /\ UNCHANGED runtimeVars
        /\ status'[e] = Outcome(e) /\ charges[e] > 0 /\ artifacts[e] > 0
    BY <1>0, <1>5, <1>10 DEF StoreOutcome, Store, SlotStep, SlotStory
  <2> QED
    BY <1>0, <1>3, <2>1 DEF SlotStory, Charged, runtimeVars
<1>11. CASE StoreFailure(s)
  <2>1. /\ slot'[s].at = "tellError" /\ slot'[s].exec = e /\ UNCHANGED runtimeVars
        /\ status'[e] = "FAILED"
    BY <1>0, <1>5, <1>11 DEF StoreFailure, Store, SlotStep
  <2> QED
    BY <1>0, <1>3, <2>1 DEF SlotStory, Charged, runtimeVars
<1> QED
  BY <1>6, <1>7, <1>8, <1>9, <1>10, <1>11

\* An ended runner has no story.
LEMMA NoStory ==
  ASSUME NEW s \in Runner, slot[s] = Idle
  PROVE  SlotStory(s)
  BY DEF SlotStory, Idle

\* The job that an untroubled runner returns is completed.
LEMMA ReturnedJob ==
  ASSUME TypeInv, NEW s \in Runner, slot[s].at # "idle", NEW e \in Exec, slot[s].exec = e,
         Returns(s), agentFaults' = agentFaults, agentFaults = 0
  PROVE  agentJob'[e].state = "completed"
<1>1. PICK j : /\ LeftJob(j, e) /\ j.state = "completed"
               /\ agentJob' = IF Owns(s) THEN [agentJob EXCEPT ![e] = j] ELSE agentJob
  BY ReturnLeaves DEF TypeInv
<1> QED
  BY <1>1, BusyOwns DEF TypeInv, JobsOK

LEMMA ThrownJob ==
  ASSUME TypeInv, NEW s \in Runner, slot[s].at # "idle", NEW e \in Exec, slot[s].exec = e,
         Throws(s), agentFaults' = agentFaults, agentFaults = 0
  PROVE  agentJob'[e].state \in {"waiting", "failed"}
<1>1. PICK j : /\ LeftJob(j, e) /\ j.state \in {"waiting", "failed"}
               /\ agentJob' = IF Owns(s) THEN [agentJob EXCEPT ![e] = j] ELSE agentJob
  BY ThrowLeaves DEF TypeInv
<1> QED
  BY <1>1, BusyOwns DEF TypeInv, JobsOK

LEMMA StoryEnding ==
  ASSUME TypeInv, TypeInv', StoryInv, [AgentNext]_agentVars, NEW s \in Runner, slot[s].at # "idle",
         CheckBilling(s) \/ TellOutcome(s) \/ TellFailure(s),
         NEW e \in Exec, slot[s].exec = e
  PROVE  StoryInv'
<1>0. /\ slot \in [Runner -> Slot] /\ mode' = mode /\ agentFaults' = agentFaults
      /\ status \in [Exec -> {"absent", "RUNNING"} \cup Terminal]
      /\ charges \in [Exec -> 0..2] /\ artifacts \in [Exec -> 0..2] /\ told \in [Exec -> SUBSET Terminal]
      /\ charges' = charges /\ artifacts' = artifacts /\ agentFaults \in Nat
      /\ SlotStory(s) /\ Charged(e) /\ Settled(e) /\ mode[e] \in Mode
  BY DEF TypeInv, JobsOK, DataOK, StoryInv, CheckBilling, TellOutcome, TellFailure, runtimeVars
<1>1. Outcome(e)' = Outcome(e) /\ Live(e)' = Live(e) /\ Outcome(e) \in {"SUCCESS", "WAITING_APPROVAL"}
  BY <1>0 DEF Outcome, Live
<1>2. SUFFICES SlotStory(s)' /\ Charged(e)' /\ Settled(e)'
  BY StoryOfOne DEF AgentStep
<1>3. ASSUME NEW x \in SlotStep, StepTo(s, x)
      PROVE  slot'[s].at = x /\ slot'[s].exec = e
  BY <1>0, <1>3, StepFacts
<1>4. ASSUME Returns(s) \/ Throws(s) PROVE SlotStory(s)'
  BY <1>0, <1>4, NoStory DEF Returns, Leaves, Throws, SlotStory, Idle
<1>5. CASE CheckBilling(s)
  <2>0. told' = told
    BY <1>5 DEF CheckBilling, runtimeVars
  <2>1. CASE Store(s, "FAILED") /\ StepTo(s, "tellBlocked") /\ UNCHANGED agentJob
    <3>1. slot'[s].at = "tellBlocked" /\ slot'[s].exec = e /\ status'[e] = "FAILED"
      BY <1>0, <1>3, <2>1 DEF Store, SlotStep
    <3> QED
      BY <1>0, <1>1, <2>0, <2>1, <3>1, SettledGoing DEF SlotStory, Charged
  <2>2. CASE StepTo(s, "headroom") /\ UNCHANGED <<agentJob, status>>
    <3>1. slot'[s].at = "headroom"
      BY <1>3, <2>2 DEF SlotStep
    <3> QED
      BY <1>0, <1>1, <2>0, <2>2, <3>1, SettledGoing DEF SlotStory, Charged
  <2>3. CASE ~Live(e) /\ Returns(s)
    <3>1. agentFaults = 0 => agentJob'[e].state = "completed"
      BY <1>0, <2>3, ReturnedJob
    <3> QED
      BY <1>0, <1>1, <1>4, <2>3, <3>1 DEF Charged, Settled
  <2> QED
    BY <1>5, <2>1, <2>2, <2>3 DEF CheckBilling, Live
<1>6. CASE TellOutcome(s)
  <2>1. agentFaults = 0 => agentJob'[e].state = "completed" /\ agentJob[e].stalls = 0
    BY <1>0, <1>6, ReturnedJob, BusyOwns DEF TellOutcome
  <2>2. Returns(s) /\ status' = status
    BY <1>6 DEF TellOutcome
  <2>3. CASE slot[s].at = "tell" /\ Tells(s, Outcome(e))
    <3>1. told'[e] = told[e] \cup {Outcome(e)} /\ charges[e] > 0 /\ artifacts[e] > 0
      BY <1>0, <2>3 DEF Tells, SlotStory
    <3>2. agentJob[e].stalls = 0 => status[e] = Outcome(e)
      BY <1>0, <2>3 DEF SlotStory
    <3> QED
      BY <1>0, <1>1, <1>4, <2>1, <2>2, <3>1, <3>2 DEF Charged, Settled, Terminal
  <2>4. CASE slot[s].at = "tellBlocked" /\ Tells(s, "FAILED")
    <3>1. told'[e] = told[e] \cup {"FAILED"}
      BY <1>0, <2>4 DEF Tells
    <3>2. agentJob[e].stalls = 0 => status[e] = "FAILED"
      BY <1>0, <2>4 DEF SlotStory
    <3> QED
      BY <1>0, <1>1, <1>4, <2>1, <2>2, <3>1, <3>2 DEF Charged, Settled, Terminal
  <2> QED
    BY <1>6, <2>3, <2>4 DEF TellOutcome
<1>7. CASE TellFailure(s)
  <2>1. agentFaults = 0 => agentJob'[e].state \in {"waiting", "failed"} /\ agentJob[e].stalls = 0
    BY <1>0, <1>7, ThrownJob, BusyOwns DEF TellFailure
  <2>2. /\ Throws(s) /\ status' = status /\ told'[e] = told[e] \cup {"FAILED"}
        /\ slot[s].at = "tellError"
    BY <1>0, <1>7 DEF TellFailure, Tells
  <2>3. agentJob[e].stalls = 0 => status[e] = "FAILED"
    BY <1>0, <2>2 DEF SlotStory
  <2> QED
    BY <1>0, <1>1, <1>4, <2>1, <2>2, <2>3 DEF Charged, Settled
<1> QED
  BY <1>5, <1>6, <1>7

LEMMA StoryFaults ==
  ASSUME TypeInv, TypeInv', StoryInv, [AgentNext]_agentVars, NEW s \in Runner, slot[s].at # "idle",
         CallFails(s) \/ AgentCrash(s), NEW e \in Exec, slot[s].exec = e
  PROVE  StoryInv'
<1>0. /\ slot \in [Runner -> Slot] /\ mode' = mode /\ status' = status /\ charges' = charges
      /\ artifacts[e] \in Nat /\ artifacts'[e] \in Nat /\ artifacts'[e] >= artifacts[e]
      /\ told \in [Exec -> SUBSET Terminal]
      /\ SlotStory(s) /\ Charged(e) /\ mode[e] \in Mode
  BY StepOfOne DEF TypeInv, JobsOK, DataOK, StoryInv, CallFails, AgentCrash, runtimeVars, jobVars
<1>1. Outcome(e)' = Outcome(e) /\ Live(e)' = Live(e)
  BY <1>0 DEF Outcome, Live
<1>2. agentFaults' # 0
  BY RunnerFaults DEF TypeInv, JobsOK
<1>3. SUFFICES SlotStory(s)' /\ Charged(e)'
  BY <1>2, StoryOfOne DEF Settled
<1>4. SlotStory(s)'
  <2>1. CASE Going(s, "error")
    BY <1>0, <2>1, StepFacts DEF Going, SlotStory
  <2>2. CASE slot' = [slot EXCEPT ![s] = Idle]
    BY <1>0, <2>2 DEF SlotStory, Idle
  <2>3. CASE slot[s].at = "plan" /\ UNCHANGED slot
    BY <2>3 DEF SlotStory
  <2> QED
    BY <2>1, <2>2, <2>3, RunnerFaults DEF Ended, Returns, Leaves, Throws
<1>5. Charged(e)'
  <2>1. CASE told' = told
    BY <1>0, <1>1, <2>1 DEF Charged
  <2>2. CASE slot[s].at = "tell" /\ Tells(s, Outcome(e))
    <3>1. charges[e] > 0 /\ artifacts[e] > 0
      BY <1>0, <2>2 DEF SlotStory
    <3> QED
      BY <1>0, <3>1 DEF Charged
  <2> QED
    BY <2>1, <2>2 DEF CallFails, AgentCrash, runtimeVars
<1> QED
  BY <1>4, <1>5

LEMMA AgentBusy ==
  ASSUME TypeInv, NEW s \in Runner, AgentStep(s) \/ CallFails(s) \/ AgentCrash(s)
  PROVE  slot[s].at # "idle"
<1>1. slot[s] \in Slot /\ (slot[s].at = "idle" => slot[s].exec = NoExec)
  BY DEF TypeInv, JobsOK, SlotSound
<1>2. slot[s].at = "idle" => slot[s] = Idle
  BY <1>1 DEF Slot, Idle
<1>3. CASE AgentCrash(s)
  BY <1>2, <1>3 DEF AgentCrash
<1>4. CASE CallFails(s)
  BY <1>4 DEF CallFails
<1>5. CASE AgentStep(s)
  BY <1>5, RunnerSteps DEF Going, Ended
<1> QED
  BY <1>3, <1>4, <1>5

\* Neither a taken nor a lost job changes the rows.
LEMMA StoryOfJobs ==
  ASSUME TypeInv, TypeInv', StoryInv, [AgentNext]_agentVars, UNCHANGED <<mode, status, runtimeVars>>,
         \A t \in Runner : slot'[t] = slot[t] \/ slot'[t].at = "start",
         \A e \in Exec : Settled(e)'
  PROVE  StoryInv'
<1>1. \A e \in Exec : agentJob'[e].stalls = 0 => agentJob[e].stalls = 0
  BY StallsGrow
<1>2. \A e : Outcome(e)' = Outcome(e) /\ Live(e)' = Live(e)
  BY DEF Outcome, Live
<1>3. ASSUME NEW t \in Runner PROVE SlotStory(t)'
  <2>1. CASE slot'[t].at \notin {"idle", "start"}
    <3>1. slot'[t] = slot[t] /\ slot[t].exec \in Exec /\ SlotStory(t)
      BY <2>1, BusyHasExec DEF TypeInv, StoryInv
    <3> QED
      BY <1>1, <1>2, <3>1 DEF SlotStory, runtimeVars
  <2> QED
    BY <2>1 DEF SlotStory
<1> QED
  BY <1>2, <1>3 DEF StoryInv, Charged, runtimeVars

LEMMA StoryStep ==
  ASSUME TypeInv, TypeInv', StoryInv, [AgentNext]_agentVars
  PROVE  StoryInv'
<1>0. agentJob \in [Exec -> Job] /\ slot \in [Runner -> Slot] /\ agentFaults \in Nat /\ agentFaults' \in Nat
  BY DEF TypeInv, JobsOK
<1>1. ASSUME NEW s \in Runner, AgentStep(s) \/ CallFails(s) \/ AgentCrash(s) PROVE StoryInv'
  <2>1. slot[s].at # "idle" /\ slot[s].exec \in Exec
    BY <1>1, AgentBusy, BusyHasExec DEF TypeInv
  <2> QED
    BY <1>1, <2>1, StoryGoing, StoryEnding, StoryFaults DEF AgentStep
<1>2. ASSUME NEW s \in Runner, JobLockLost(s) PROVE StoryInv'
  <2>1. agentFaults' # 0 /\ UNCHANGED <<mode, status, slot, runtimeVars>>
    BY <1>0, <1>2 DEF JobLockLost
  <2> QED
    BY <2>1, StoryOfJobs DEF Settled
<1>3. ASSUME NEW e \in Exec, NEW s \in Runner, TakeAgentJob(s, e) PROVE StoryInv'
  <2>1. /\ UNCHANGED <<mode, status, runtimeVars, agentFaults>>
        /\ agentJob'[e].state = "active"
        /\ \A d \in Exec \ {e} : agentJob'[d] = agentJob[d]
        /\ \A t \in Runner : slot'[t] = slot[t] \/ slot'[t].at = "start"
    BY <1>0, <1>3 DEF TakeAgentJob, Job
  <2>2. \A d \in Exec : Settled(d)'
    BY <2>1 DEF Settled, StoryInv, Live, runtimeVars
  <2> QED
    BY <2>1, <2>2, StoryOfJobs
<1>4. ASSUME NEW e \in Exec, Produce(e) PROVE StoryInv'
  <2>1. /\ UNCHANGED <<mode, status, slot, runtimeVars, agentFaults>>
        /\ agentJob'[e].state = "waiting"
        /\ \A d \in Exec \ {e} : agentJob'[d] = agentJob[d]
    BY <1>0, <1>4 DEF Produce, Enqueue, Job
  <2>2. \A d \in Exec : Settled(d)'
    BY <2>1 DEF Settled, StoryInv, Live, runtimeVars
  <2> QED
    BY <2>1, <2>2, StoryOfJobs
<1>5. CASE LockTtl \/ UNCHANGED agentVars
  <2>1. UNCHANGED <<mode, status, slot, agentJob, runtimeVars, agentFaults>>
    BY <1>5 DEF LockTtl, agentVars, jobVars
  <2>2. \A d \in Exec : Settled(d)'
    BY <2>1 DEF Settled, StoryInv, Live, runtimeVars
  <2> QED
    BY <2>1, <2>2, StoryOfJobs
<1> QED
  BY <1>1, <1>2, <1>3, <1>4, <1>5 DEF AgentNext, AgentFault

LEMMA StoryInvariance == AgentSpec => []StoryInv
<1>1. AgentInit => StoryInv
  BY DEF AgentInit, StoryInv, SlotStory, Charged, Settled, Idle
<1>2. TypeInv /\ TypeInv' /\ StoryInv /\ [AgentNext]_agentVars => StoryInv'
  BY StoryStep
<1> QED
  BY <1>1, <1>2, TypeInvariance, PTL DEF AgentSpec

\* No outcome of a live execution is stored or told before its plan was charged
\* and its artifact written, whichever runner of it comes first.
THEOREM DeliveredIsCharged == AgentSpec => []DeliveredWasCharged
<1>1. StoryInv => DeliveredWasCharged
  BY DEF StoryInv, Charged, DeliveredWasCharged
<1> QED
  BY <1>1, StoryInvariance, PTL

\* A job is never over with another outcome than the one stored and told, if
\* nothing failed.
THEOREM OutcomeIsStored == AgentSpec => []JobOutcomeStored
<1>1. StoryInv => JobOutcomeStored
  BY DEF StoryInv, Settled, JobOutcomeStored
<1> QED
  BY <1>1, StoryInvariance, PTL

-----------------------------------------------------------------------------
(* The promise of the worker *)

Promised == [Lifecycle!LifeNext]_(Lifecycle!lifeVars)

LEMMA Keeps ==
  ASSUME NEW e \in Exec, Lifecycle!Complete(e) \/ Lifecycle!ThrowJob(e) \/ Lifecycle!LoseJob(e)
  PROVE  Promised
  BY Zenon DEF Promised, Lifecycle!LifeNext

\* The job and the trouble as the promise sees them.
Queued == [e \in Exec |-> agentJob[e].state]
Doubled == [e \in Exec |-> agentJob[e].stalls > 0]

LEMMA JobSeen ==
  ASSUME agentJob \in [Exec -> Job], NEW e \in Exec, NEW j,
         agentJob' = [agentJob EXCEPT ![e] = j]
  PROVE  /\ Queued' = [Queued EXCEPT ![e] = j.state]
         /\ Doubled' = [Doubled EXCEPT ![e] = j.stalls > 0]
         /\ j.stalls = agentJob[e].stalls => Doubled' = Doubled
  BY DEF Queued, Doubled

\* A step that leaves the job alone and writes at most the status.
LEMMA RowSeen ==
  ASSUME TypeInv, NEW s \in Runner, slot[s].at # "idle", UNCHANGED agentJob,
         agentFaults' = agentFaults,
         UNCHANGED status \/ \E new \in {"RUNNING"} \cup Terminal : Store(s, new)
  PROVE  Promised
<1> DEFINE e == slot[s].exec
<1>0. e \in Exec /\ agentJob[e] \in Job
  BY BusyHasExec DEF TypeInv
<1>1. Queued' = Queued /\ Doubled' = Doubled /\ (agentFaults > 0)' = (agentFaults > 0)
  BY DEF Queued, Doubled
<1>2. CASE UNCHANGED status
  BY <1>1, <1>2 DEF Promised, Lifecycle!lifeVars, Queued, Doubled
<1>3. CASE \E new \in {"RUNNING"} \cup Terminal : Store(s, new)
  <2>1. agentJob[e].state = "active" \/ agentJob[e].stalls > 0
    BY <1>0 DEF TypeInv, JobsOK, SlotSound, JobSound, Job
  <2>2. Queued[e] = "active" \/ Doubled[e]
    BY <1>0, <2>1 DEF Queued, Doubled
  <2>3. \E new \in {"RUNNING"} \cup Lifecycle!Outcomes : status' = [status EXCEPT ![e] = new]
    BY <1>3 DEF Store, Terminal, Lifecycle!Outcomes
  <2>4. Lifecycle!WriteStatus(e)
    BY <1>1, <2>2, <2>3 DEF Lifecycle!WriteStatus, Queued, Doubled
  <2> QED
    BY <1>0, <2>4 DEF Promised, Lifecycle!LifeNext
<1> QED
  BY <1>2, <1>3

\* A failed call that leaves the job alone.
LEMMA TroubleSeen ==
  ASSUME agentFaults' > 0, UNCHANGED <<agentJob, status>>
  PROVE  Promised
<1>1. Lifecycle!Trouble
  BY DEF Lifecycle!Trouble
<1> QED
  BY <1>1 DEF Promised, Lifecycle!LifeNext

LEMMA ReturnSeen ==
  ASSUME TypeInv, NEW s \in Runner, slot[s].at # "idle", Returns(s), agentFaults' = agentFaults,
         \/ UNCHANGED status /\ (agentJob[slot[s].exec].stalls = 0 => status[slot[s].exec] \in Terminal)
         \/ \E new \in Terminal : Store(s, new)
  PROVE  Promised
<1>e. PICK e : e = slot[s].exec
  OBVIOUS
<1>0. e \in Exec /\ agentJob[e] \in Job /\ agentJob \in [Exec -> Job] /\ JobsOK
      /\ status \in [Exec -> {"absent", "RUNNING"} \cup Terminal]
  BY <1>e, BusyHasExec DEF TypeInv, JobsOK, DataOK
<1>1. PICK j : /\ j.state = "completed" /\ j.stalls = agentJob[e].stalls
               /\ agentJob' = IF Owns(s) THEN [agentJob EXCEPT ![e] = j] ELSE agentJob
  BY <1>e, <1>0, ReturnLeaves
<1>2. CASE ~Owns(s)
  BY <1>1, <1>2, RowSeen
<1>3. CASE Owns(s)
  <2>1. agentJob[e].state = "active"
    BY <1>e, <1>0, <1>3 DEF JobsOK, JobSound, Owns
  <2>2. Queued' = [Queued EXCEPT ![e] = "completed"] /\ Queued[e] = "active" /\ Doubled' = Doubled
    BY <1>e, <1>0, <1>1, <1>3, <2>1, JobSeen DEF Queued
  <2>3. \/ \E new \in Lifecycle!Outcomes : status' = [status EXCEPT ![e] = new]
        \/ UNCHANGED status /\ (status[e] \in Lifecycle!Outcomes \/ Doubled[e])
    <3>1. CASE \E new \in Terminal : Store(s, new)
      BY <1>e, <3>1 DEF Store, Terminal, Lifecycle!Outcomes
    <3>2. CASE UNCHANGED status /\ (agentJob[e].stalls = 0 => status[e] \in Terminal)
      <4>1. status[e] \in Lifecycle!Outcomes \/ agentJob[e].stalls > 0
        BY <1>e, <1>0, <3>2 DEF Terminal, Lifecycle!Outcomes, Job
      <4>2. status[e] \in Lifecycle!Outcomes \/ Doubled[e]
        BY <1>e, <1>0, <4>1 DEF Doubled
      <4> QED
        BY <3>2, <4>2
    <3> QED
      BY <1>e, <3>1, <3>2
  <2>4. Lifecycle!Complete(e)
    BY <2>2, <2>3 DEF Lifecycle!Complete, Lifecycle!MoveJob, Queued, Doubled
  <2> QED
    BY <1>e, <1>0, <2>4, Keeps
<1> QED
  BY <1>2, <1>3

LEMMA ThrowSeen ==
  ASSUME TypeInv, NEW s \in Runner, slot[s].at # "idle", Throws(s), UNCHANGED status,
         agentFaults' \in {agentFaults, agentFaults + 1},
         status[slot[s].exec] = "FAILED" \/ agentFaults' > 0
  PROVE  Promised
<1>e. PICK e : e = slot[s].exec
  OBVIOUS
<1>0. e \in Exec /\ agentJob[e] \in Job /\ agentJob \in [Exec -> Job] /\ JobsOK /\ agentFaults \in Nat
  BY <1>e, BusyHasExec DEF TypeInv, JobsOK
<1>1. PICK j : /\ j.state \in {"waiting", "failed"} /\ j.stalls = agentJob[e].stalls
               /\ agentJob' = IF Owns(s) THEN [agentJob EXCEPT ![e] = j] ELSE agentJob
  BY <1>e, <1>0, ThrowLeaves
<1>2. CASE ~Owns(s)
  <2>1. agentJob' = agentJob
    BY <1>1, <1>2
  <2>2. CASE agentFaults' = agentFaults
    BY <2>1, <2>2, RowSeen
  <2>3. CASE agentFaults' = agentFaults + 1
    BY <1>e, <1>0, <2>1, <2>3, TroubleSeen
  <2> QED
    BY <2>2, <2>3
<1>3. CASE Owns(s)
  <2>1. agentJob[e].state = "active"
    BY <1>e, <1>0, <1>3 DEF JobsOK, JobSound, Owns
  <2>2. Queued' = [Queued EXCEPT ![e] = j.state] /\ Queued[e] = "active" /\ Doubled' = Doubled
    BY <1>e, <1>0, <1>1, <1>3, <2>1, JobSeen DEF Queued
  <2>3. /\ agentFaults' = agentFaults \/ agentFaults' > 0
        /\ status[e] = "FAILED" \/ agentFaults' > 0
    BY <1>e, <1>0
  <2>4. Lifecycle!ThrowJob(e)
    BY <1>1, <2>2, <2>3 DEF Lifecycle!ThrowJob, Lifecycle!MoveJob, Queued, Doubled
  <2> QED
    BY <1>e, <1>0, <2>4, Keeps
<1> QED
  BY <1>2, <1>3

LEMMA StallSeen ==
  ASSUME TypeInv, NEW s \in Runner, slot[s].at # "idle", Owns(s), Stalls(s), UNCHANGED status,
         agentFaults' = agentFaults + 1
  PROVE  Promised
<1>e. PICK e : e = slot[s].exec
  OBVIOUS
<1>0. e \in Exec /\ agentJob[e] \in Job /\ agentJob \in [Exec -> Job] /\ JobsOK /\ agentFaults \in Nat
  BY <1>e, BusyHasExec DEF TypeInv, JobsOK
<1>1. PICK j : /\ j.state \in {"waiting", "failed"} /\ j.stalls > 0
               /\ agentJob' = [agentJob EXCEPT ![e] = j]
  BY <1>e, <1>0, StallLeaves
<1>2. agentJob[e].state = "active"
  BY <1>e, <1>0 DEF JobsOK, JobSound, Owns
<1>3. /\ Queued' = [Queued EXCEPT ![e] = j.state] /\ Queued[e] = "active"
      /\ Doubled' = [Doubled EXCEPT ![e] = TRUE]
  BY <1>e, <1>0, <1>1, <1>2, JobSeen DEF Queued
<1>4. agentFaults' > 0
  BY <1>e, <1>0
<1>5. Lifecycle!LoseJob(e)
  BY <1>1, <1>3, <1>4 DEF Lifecycle!LoseJob, Lifecycle!MoveJob, Queued, Doubled
<1> QED
  BY <1>e, <1>0, <1>5, Keeps

LEMMA PromiseStep ==
  ASSUME TypeInv, TypeInv', StoryInv, [AgentNext]_agentVars
  PROVE  Promised
<1>0. agentJob \in [Exec -> Job] /\ agentFaults \in Nat
  BY DEF TypeInv, JobsOK
<1>1. ASSUME NEW s \in Runner, AgentStep(s) PROVE Promised
  <2> DEFINE e == slot[s].exec
  <2>0. /\ slot[s].at # "idle" /\ agentFaults' = agentFaults /\ e \in Exec /\ SlotStory(s)
        /\ Outcome(e) \in Terminal
    BY <1>1, AgentBusy, RunnerSteps, BusyHasExec DEF TypeInv, StoryInv, Outcome, Terminal
  <2>1. CASE StartExecution(s) \/ StoreOutcome(s) \/ StoreFailure(s)
    BY <2>0, <2>1, RowSeen DEF StartExecution, StoreOutcome, StoreFailure, Terminal
  <2>2. CASE EnsureHeadroom(s) \/ RunPlan(s) \/ EndPlan(s) \/ ConsumeBudget(s) \/ CreateArtifact(s)
    BY <2>0, <2>2, RowSeen DEF EnsureHeadroom, RunPlan, EndPlan, ConsumeBudget, CreateArtifact, jobVars
  <2>3. CASE CheckBilling(s)
    <3>1. CASE Returns(s) /\ \E new \in Terminal : Store(s, new)
      BY <2>0, <3>1, ReturnSeen
    <3>2. CASE UNCHANGED agentJob
      BY <2>0, <2>3, <3>2, RowSeen DEF CheckBilling, Terminal
    <3> QED
      BY <2>3, <3>1, <3>2 DEF CheckBilling, Terminal
  <2>4. CASE TellOutcome(s)
    <3>1. agentJob[e].stalls = 0 => status[e] \in Terminal
      BY <2>0, <2>4 DEF TellOutcome, SlotStory, Terminal
    <3> QED
      BY <2>0, <2>4, <3>1, ReturnSeen DEF TellOutcome
  <2>5. CASE TellFailure(s)
    <3>1. status[e] = "FAILED" \/ agentFaults > 0
      BY <1>0, <2>0, <2>5 DEF TellFailure, SlotStory, TypeInv, JobsOK, JobSound, Job
    <3> QED
      BY <2>0, <2>5, <3>1, ThrowSeen DEF TellFailure
  <2> QED
    BY <1>1, <2>1, <2>2, <2>3, <2>4, <2>5 DEF AgentStep
<1>2. ASSUME NEW s \in Runner, CallFails(s) PROVE Promised
  <2>1. slot[s].at # "idle" /\ agentFaults' = agentFaults + 1 /\ agentFaults' > 0 /\ status' = status
    BY <1>0, <1>2 DEF CallFails
  <2>2. Throws(s) \/ UNCHANGED agentJob
    BY <1>2 DEF CallFails, jobVars
  <2> QED
    BY <2>1, <2>2, ThrowSeen, TroubleSeen
<1>3. ASSUME NEW s \in Runner, AgentCrash(s) PROVE Promised
  <2>1. slot[s].at # "idle" /\ agentFaults' = agentFaults + 1 /\ agentFaults' > 0
    BY <1>0, <1>3, AgentBusy, RunnerFaults
  <2>2. status' = status /\ ((Owns(s) /\ Stalls(s)) \/ UNCHANGED agentJob)
    BY <1>3 DEF AgentCrash
  <2> QED
    BY <2>1, <2>2, StallSeen, TroubleSeen
<1>4. ASSUME NEW s \in Runner, JobLockLost(s) PROVE Promised
  <2>1. slot[s] \in Slot /\ (slot[s].at = "idle" => slot[s].exec = NoExec) /\ slot[s] # Idle
    BY <1>4 DEF JobLockLost, TypeInv, JobsOK, SlotSound
  <2>2. slot[s].at # "idle"
    BY <2>1 DEF Slot, Idle
  <2> QED
    BY <1>4, <2>2, StallSeen DEF JobLockLost
<1>5. ASSUME NEW e \in Exec, NEW s \in Runner, TakeAgentJob(s, e) PROVE Promised
  <2> DEFINE j == [agentJob[e] EXCEPT !.state = "active", !.owner = s]
  <2>1. agentJob' = [agentJob EXCEPT ![e] = j] /\ j.state = "active" /\ j.stalls = agentJob[e].stalls
    BY <1>0, <1>5 DEF TakeAgentJob, Job
  <2>2. Queued' = [Queued EXCEPT ![e] = "active"] /\ Queued[e] = "waiting" /\ Doubled' = Doubled
    BY <1>0, <1>5, <2>1, JobSeen DEF TakeAgentJob, Queued
  <2>3. status' = status /\ (agentFaults > 0)' = (agentFaults > 0)
    BY <1>5 DEF TakeAgentJob
  <2>4. Lifecycle!TakeJob(e)
    BY <2>2, <2>3 DEF Lifecycle!TakeJob, Lifecycle!MoveJob, Queued, Doubled
  <2> QED
    BY <2>4 DEF Promised, Lifecycle!LifeNext
<1>6. ASSUME NEW e \in Exec, Produce(e) PROVE Promised
  <2> DEFINE j == [agentJob[e] EXCEPT !.state = "waiting"]
  <2>1. agentJob' = [agentJob EXCEPT ![e] = j] /\ j.state = "waiting" /\ j.stalls = agentJob[e].stalls
    BY <1>0, <1>6 DEF Produce, Enqueue, Job
  <2>2. Queued' = [Queued EXCEPT ![e] = "waiting"] /\ Queued[e] = "none" /\ Doubled' = Doubled
    BY <1>0, <1>6, <2>1, JobSeen DEF Produce, Enqueue, Queued
  <2>3. status' = status /\ (agentFaults > 0)' = (agentFaults > 0)
    BY <1>6 DEF Produce
  <2>4. Lifecycle!AddJob(e)
    BY <2>2, <2>3 DEF Lifecycle!AddJob, Lifecycle!MoveJob, Queued, Doubled
  <2> QED
    BY <2>4 DEF Promised, Lifecycle!LifeNext
<1>7. CASE LockTtl \/ UNCHANGED agentVars
  <2>1. UNCHANGED <<agentJob, status, agentFaults>>
    BY <1>7 DEF LockTtl, agentVars, jobVars
  <2> QED
    BY <2>1 DEF Promised, Lifecycle!lifeVars
<1> QED
  BY <1>1, <1>2, <1>3, <1>4, <1>5, <1>6, <1>7 DEF AgentNext, AgentFault

\* The worker keeps to what it promises of a job and its row, whatever fails and
\* however many runners a job is given to.
THEOREM KeepsThePromise == AgentSpec => ImplementsLifecycle
<1>1. AgentInit => Lifecycle!LifeInit
  <2> SUFFICES ASSUME AgentInit PROVE Lifecycle!LifeInit
    OBVIOUS
  <2>1. Queued = [e \in Exec |-> "none"] /\ status = [e \in Exec |-> "absent"]
    BY DEF AgentInit, Queued
  <2>2. agentFaults = 0 /\ \A e \in Exec : agentJob[e].stalls = 0
    BY DEF AgentInit
  <2>3. Doubled = [e \in Exec |-> FALSE]
    <3>1. \A e \in Exec : (agentJob[e].stalls > 0) = FALSE
      BY <2>2
    <3> QED
      BY <3>1, Zenon DEF Doubled
  <2>4. (agentFaults > 0) = FALSE
    BY <2>2
  <2> QED
    BY <2>1, <2>3, <2>4 DEF Lifecycle!LifeInit, Queued, Doubled
<1>2. TypeInv /\ TypeInv' /\ StoryInv /\ [AgentNext]_agentVars
        => [Lifecycle!LifeNext]_(Lifecycle!lifeVars)
  BY PromiseStep DEF Promised
<1> QED
  BY <1>1, <1>2, TypeInvariance, StoryInvariance, PTL DEF AgentSpec, ImplementsLifecycle, Lifecycle!LifeSpec
=============================================================================
