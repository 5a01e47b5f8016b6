---------------------------- MODULE PlanExecutor ----------------------------
(***************************************************************************)
(* PlanExecutor.execute of apps/worker: the tool calls of one execution,   *)
(* behind a Redis lock and a Redis copy of the result.                     *)
(*                                                                         *)
(* A runner is one call of execute.  The lock has no owner in Redis: the   *)
(* model remembers who took it, or that the runner is gone (Orphan).  The  *)
(* result outlives the retries of its job (1 h against seconds).           *)
(***************************************************************************)
EXTENDS Naturals, FiniteSets

CONSTANTS
  Exec,              \* agent executions
  Runner,            \* processor slots of the worker
  PlanSize,          \* tool calls of a plan, at a cost of one unit each
  CostCeiling,       \* maxCostBrl
  RetryAttempts,     \* retryAttempts
  FailureThreshold,  \* circuitBreaker.failureThreshold
  MaxLockLosses,     \* bound: locks that expire before their runner ends
  NoExec, Free, Orphan

ASSUME PlanConstants ==
  /\ {PlanSize, RetryAttempts, FailureThreshold} \subseteq Nat \ {0}
  /\ {CostCeiling, MaxLockLosses} \subseteq Nat
  /\ NoExec \notin Exec /\ {Free, Orphan} \cap Runner = {} /\ Free # Orphan

VARIABLES
  run,         \* [Runner -> a call of execute]
  execLock,    \* [Exec -> Runner \cup {Free, Orphan}]
  execResult,  \* [Exec -> BOOLEAN]: the result is stored
  ran,         \* [Exec -> [call -> 0..2]]: how often a tool did its work (2: or more)
  lockLosses

planVars == <<run, execLock, execResult, ran, lockLosses>>

Call == 1..PlanSize
Run == [at: {"out", "read", "lock", "tool", "store", "release"},
        exec: Exec \cup {NoExec}, call: Call, attempt: 1..RetryAttempts,
        failures: Nat, outcome: {"none", "done", "error"}]

\* A new executor: its circuit breakers have counted nothing.
NewRun(s, e) ==
  [at |-> "read", exec |-> e, call |-> 1, attempt |-> 1,
   failures |-> 0, outcome |-> "none"]

PlanInit ==
  /\ run = [s \in Runner |->
       [at |-> "out", exec |-> NoExec, call |-> 1, attempt |-> 1,
        failures |-> 0, outcome |-> "none"]]
  /\ execLock = [e \in Exec |-> Free]
  /\ execResult = [e \in Exec |-> FALSE]
  /\ ran = [e \in Exec |-> [i \in Call |-> 0]]
  /\ lockLosses = 0

PlanGoTo(s, step) == run' = [run EXCEPT ![s].at = step]
Leave(s, outcome) == run' = [run EXCEPT ![s].at = "out", ![s].outcome = outcome]
GiveUp(s) == run' = [run EXCEPT ![s].at = "release", ![s].outcome = "error"]

BeginPlan(s, e) ==
  /\ run' = [run EXCEPT ![s] = NewRun(s, e)]
  /\ UNCHANGED <<execLock, execResult, ran, lockLosses>>

\* Mutant: the stored result is not looked at.
MutantNoCache(s) ==
  /\ run[s].at = "read" /\ PlanGoTo(s, "lock")
  /\ UNCHANGED <<execLock, execResult, ran, lockLosses>>

ReadResult(s) ==
  /\ run[s].at = "read"
  /\ IF execResult[run[s].exec] THEN Leave(s, "done") ELSE PlanGoTo(s, "lock")
  /\ UNCHANGED <<execLock, execResult, ran, lockLosses>>

\* Mutant: SET without NX.
MutantNoNx(s) ==
  /\ run[s].at = "lock"
  /\ execLock' = [execLock EXCEPT ![run[s].exec] = s]
  /\ PlanGoTo(s, "tool")
  /\ UNCHANGED <<execResult, ran, lockLosses>>

\* SET NX: a taken lock fails the call, which does not wait for it.
TakeLock(s) ==
  /\ run[s].at = "lock"
  /\ IF execLock[run[s].exec] = Free
     THEN execLock' = [execLock EXCEPT ![run[s].exec] = s] /\ PlanGoTo(s, "tool")
     ELSE UNCHANGED execLock /\ Leave(s, "error")
  /\ UNCHANGED <<execResult, ran, lockLosses>>

CircuitOpen(s) == run[s].failures >= FailureThreshold
Affordable(s) == run[s].call <= CostCeiling
Works(s) ==
  LET e == run[s].exec i == run[s].call IN
  ran' = [ran EXCEPT ![e][i] = IF @ = 2 THEN 2 ELSE @ + 1]

RunTool(s) ==
  /\ run[s].at = "tool" /\ Affordable(s) /\ ~CircuitOpen(s)
  /\ Works(s)
  /\ run' = [run EXCEPT ![s].failures = 0, ![s].attempt = 1,
                        ![s].at = IF run[s].call = PlanSize THEN "store" ELSE "tool",
                        ![s].call = IF @ = PlanSize THEN @ ELSE @ + 1]
  /\ UNCHANGED <<execLock, execResult, lockLosses>>

\* A failing or timed out tool may have done its work.
ToolFails(s) ==
  /\ run[s].at = "tool" /\ Affordable(s) /\ ~CircuitOpen(s)
  /\ Works(s) \/ UNCHANGED ran
  /\ IF run[s].attempt < RetryAttempts
     THEN run' = [run EXCEPT ![s].attempt = @ + 1]
     ELSE run' = [run EXCEPT ![s].failures = @ + 1, ![s].at = "release",
                             ![s].outcome = "error"]
  /\ UNCHANGED <<execLock, execResult, lockLosses>>

\* The cost ceiling, found in the middle of the plan, an open circuit, or the
\* deadline, which may pass at any time.
Stop(s) ==
  /\ run[s].at = "tool"
  /\ GiveUp(s)
  /\ UNCHANGED <<execLock, execResult, ran, lockLosses>>

StoreResult(s) ==
  /\ run[s].at = "store"
  /\ execResult' = [execResult EXCEPT ![run[s].exec] = TRUE]
  /\ run' = [run EXCEPT ![s].at = "release", ![s].outcome = "done"]
  /\ UNCHANGED <<execLock, ran, lockLosses>>

\* DEL, whoever holds the lock by now.
ReleaseLock(s) ==
  /\ run[s].at = "release"
  /\ execLock' = [execLock EXCEPT ![run[s].exec] = Free]
  /\ Leave(s, run[s].outcome)
  /\ UNCHANGED <<execResult, ran, lockLosses>>

\* A call of Redis fails; a SET that fails may have set the lock, and a DEL
\* that fails leaves it.
RedisFails(s) ==
  /\ \/ run[s].at \in {"read", "lock"} /\ Leave(s, "error") /\ UNCHANGED execLock
     \/ /\ run[s].at = "lock" /\ Leave(s, "error") /\ execLock[run[s].exec] = Free
        /\ execLock' = [execLock EXCEPT ![run[s].exec] = Orphan]
     \/ run[s].at = "store" /\ GiveUp(s) /\ UNCHANGED execLock
     \/ /\ run[s].at = "release" /\ Leave(s, "error")
        /\ execLock' = [e \in Exec |-> IF execLock[e] = s THEN Orphan ELSE execLock[e]]
  /\ UNCHANGED <<execResult, ran, lockLosses>>

\* The runner dies wherever it is; its lock stays.
Die(s) ==
  /\ Leave(s, "none")
  /\ execLock' = [e \in Exec |-> IF execLock[e] = s THEN Orphan ELSE execLock[e]]
  /\ UNCHANGED <<execResult, ran, lockLosses>>

\* EXEC_LOCK_TTL_SECONDS
ExecLockExpires(e) ==
  /\ execLock[e] # Free
  /\ execLock' = [execLock EXCEPT ![e] = Free]
  /\ \/ execLock[e] = Orphan /\ UNCHANGED lockLosses
     \/ execLock[e] \in Runner /\ lockLosses < MaxLockLosses /\ lockLosses' = lockLosses + 1
  /\ UNCHANGED <<run, execResult, ran>>

PlanStep(s) ==
  \/ ReadResult(s) \/ TakeLock(s) \/ RunTool(s) \/ ToolFails(s) \/ Stop(s)
  \/ StoreResult(s) \/ ReleaseLock(s)

-----------------------------------------------------------------------------
InPlan(s) == run[s].at \in {"tool", "store", "release"}

PlanTypeOK ==
  /\ run \in [Runner -> Run]
  /\ execLock \in [Exec -> Runner \cup {Free, Orphan}]
  /\ execResult \in [Exec -> BOOLEAN]
  /\ ran \in [Exec -> [Call -> 0..2]]
  /\ lockLosses \in 0..MaxLockLosses

\* Two runners are in the plan of one execution only if a lock ran out under
\* its runner: a runner that found the lock taken does not delete it.
OnePlanRunner ==
  \A s, t \in Runner :
    s # t /\ InPlan(s) /\ InPlan(t) /\ run[s].exec = run[t].exec => lockLosses > 0

\* Processing at least once, the executor demands idempotency with a lock
\* (docs/architecture/Agent-Registry-Execution.md, 2): no tool works for an
\* execution that has its result.
ResultEndsThePlan ==
  [][\A e \in Exec : execResult[e] => ran'[e] = ran[e]]_planVars
=============================================================================
