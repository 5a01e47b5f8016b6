---------------------------- MODULE AgentBudgets ----------------------------
(***************************************************************************)
(* The budget of one agent: a row that BudgetService of apps/api and the   *)
(* runtime of apps/worker read, add to and write back whole.  The upsert   *)
(* that reads it updates nothing, so it locks nothing: of two charges that *)
(* overlap the later write wins.                                           *)
(*                                                                         *)
(* A consumer is a LIVE consumption of the API, or an execution of the     *)
(* worker, which looks for head room before its plan and charges after it. *)
(***************************************************************************)
EXTENDS Integers

CONSTANTS
  Consumer,
  Cost,          \* the amounts a consumer may add
  DefaultLimit,  \* limitBrl of a new row
  Limits         \* the limits an administrator sets

ASSUME BudgetConstants ==
  /\ Cost \subseteq Nat /\ DefaultLimit \in Nat \ {0} /\ Limits \subseteq Nat

VARIABLES
  budget,    \* [consumed, limit, alert]: the AgentBudget row
  consumer,  \* [Consumer -> who it is, where it is and the row it read]
  charged,   \* what executions of the worker have added
  edited     \* the limit was set

budgetVars == <<budget, consumer, charged, edited>>

Alert == {"none", "WARN_80", "BLOCK_100"}
Budget == [consumed: Nat, limit: Nat, alert: Alert]
NewBudget == [consumed |-> 0, limit |-> DefaultLimit, alert |-> "none"]
ConsumerStep == {"check", "block", "read", "write", "charged", "refused"}

\* An execution, or a request to consume.
NewConsumer ==
  [at: {"check"}, who: {"worker"}, cost: Cost, row: {NewBudget}] \cup
  [at: {"read"}, who: {"api"}, cost: Cost, row: {NewBudget}]

BudgetsInit ==
  /\ budget = NewBudget
  /\ consumer \in [Consumer -> NewConsumer]
  /\ charged = 0 /\ edited = FALSE

ConsumerTo(c, step) == consumer' = [consumer EXCEPT ![c].at = step]
At(c, who, step) == consumer[c].who = who /\ consumer[c].at = step
Total(c) == consumer[c].row.consumed + consumer[c].cost
Fits(c, row) == row.consumed + consumer[c].cost <= row.limit
Reaches(consumed, percent, limit) == 100 * consumed >= percent * limit

\* ensureBudgetHeadroom
CheckHeadroom(c) ==
  /\ At(c, "worker", "check")
  /\ ConsumerTo(c, IF Fits(c, budget) THEN "read" ELSE "block")
  /\ UNCHANGED <<budget, charged, edited>>

\* The block is an update of its own, after which the execution fails.
BlockExecution(c) ==
  /\ At(c, "worker", "block")
  /\ budget' = [budget EXCEPT !.alert = "BLOCK_100"]
  /\ ConsumerTo(c, "refused")
  /\ UNCHANGED <<charged, edited>>

\* An execution may fail before it is charged.
FailExecution(c) ==
  /\ At(c, "worker", "read") /\ ConsumerTo(c, "refused")
  /\ UNCHANGED <<budget, charged, edited>>

\* Mutant: the API looks at what was consumed before.
MutantNoCost(c) ==
  /\ consumer[c].at = "read"
  /\ consumer' = [consumer EXCEPT ![c].row = budget,
       ![c].at = IF At(c, "api", "read") /\ budget.consumed > budget.limit
                 THEN "refused" ELSE "write"]
  /\ UNCHANGED <<budget, charged, edited>>

\* The row as the transaction of the charge reads it.  The API refuses to pass
\* the limit; what it writes about that is rolled back with its exception.
ReadBudget(c) ==
  /\ consumer[c].at = "read"
  /\ consumer' = [consumer EXCEPT ![c].row = budget,
       ![c].at = IF At(c, "api", "read") /\ ~Fits(c, budget) THEN "refused" ELSE "write"]
  /\ UNCHANGED <<budget, charged, edited>>

\* Mutant: the alert that was read is looked at.
MutantReadAlert(c) ==
  LET ratio(percent) == Reaches(Total(c), percent, budget.limit) IN
  IF ~ratio(80) \/ consumer[c].row.alert = "WARN_80" THEN budget.alert
  ELSE IF ratio(100) THEN "BLOCK_100" ELSE "WARN_80"

\* The API looks at the alert and the limit that its update returned: it does
\* not raise a warning twice, nor a warning to a block.
AlertOfTheApi(c) ==
  LET ratio(percent) == Reaches(Total(c), percent, budget.limit) IN
  IF ~ratio(80) \/ budget.alert = "WARN_80" THEN budget.alert
  ELSE IF ratio(100) THEN "BLOCK_100" ELSE "WARN_80"

\* The worker computes the alert from the row it read.
AlertOfTheWorker(c) ==
  LET row == consumer[c].row IN
  IF Total(c) >= row.limit THEN "BLOCK_100"
  ELSE IF Reaches(Total(c), 80, row.limit) THEN "WARN_80" ELSE row.alert

WriteBudget(c) ==
  /\ consumer[c].at = "write"
  /\ budget' = [budget EXCEPT !.consumed = Total(c),
       !.alert = IF consumer[c].who = "api" THEN AlertOfTheApi(c) ELSE AlertOfTheWorker(c)]
  /\ charged' = IF consumer[c].who = "worker" THEN charged + consumer[c].cost ELSE charged
  /\ ConsumerTo(c, "charged")
  /\ UNCHANGED edited

SetLimit(limit) ==
  /\ budget' = [budget EXCEPT !.limit = limit] /\ edited' = TRUE
  /\ UNCHANGED <<consumer, charged>>

BudgetsNext ==
  \/ \E c \in Consumer :
       CheckHeadroom(c) \/ BlockExecution(c) \/ FailExecution(c) \/ ReadBudget(c) \/ WriteBudget(c)
  \/ \E limit \in Limits : SetLimit(limit)

BudgetsSpec == BudgetsInit /\ [][BudgetsNext]_budgetVars

-----------------------------------------------------------------------------
BudgetsTypeOK ==
  /\ budget \in Budget
  /\ consumer \in [Consumer ->
       [at: ConsumerStep, who: {"worker", "api"}, cost: Cost, row: Budget]]
  /\ charged \in Nat /\ edited \in BOOLEAN

\* Only executions pass the limit, which charge without looking again, and by
\* no more than they cost: API consumptions stay within it even on an old read.
OnlyWorkersOvershoot == ~edited => budget.consumed <= budget.limit + charged

\* However the alerts of the two services overwrite each other, consumption
\* is not at 80% of the limit without an alert.
AlertWhileHigh ==
  ~edited /\ Reaches(budget.consumed, 80, budget.limit) => budget.alert # "none"
=============================================================================
