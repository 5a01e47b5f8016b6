-------------------------- MODULE WorkflowProgress --------------------------
(***************************************************************************)
(* What the workflow engine promises of its executions, without queue,     *)
(* workers, retries or crashes: steps end at most once and only when they  *)
(* are due, and a final status has a reason.                               *)
(*                                                                         *)
(* The engine makes no promise about WHEN a status is set: branches that   *)
(* still run may end steps, and set the status again, after it is final.   *)
(***************************************************************************)
EXTENDS WorkflowCanvas

CONSTANTS Exec, MaxDepth

VARIABLES
  workflow,   \* the canvas; it does not change
  status,     \* status of an execution
  done,       \* steps that ended well, with their output
  exhausted   \* steps that used up their attempts

vars == <<workflow, status, done, exhausted>>

Ended(e, k) ==
  (\E d \in done : d.exec = e /\ d.key = k) \/ [exec |-> e, key |-> k] \in exhausted

\* The transition is followed: its source ended well with such an output, or
\* failed for good and continues on error.
Followed(e, edge) ==
  \/ \E d \in done : /\ d.exec = e /\ d.key = edge.source
                     /\ shouldFollowTransition(edge.route, d.output, FALSE)
  \/ /\ edge.source \in workflow.continues
     /\ [exec |-> e, key |-> edge.source] \in exhausted
     /\ shouldFollowTransition(edge.route, FALSE, TRUE)

Due(e, k) ==
  \/ k = workflow.trigger
  \/ \E edge \in workflow.edges : edge.target = k /\ Followed(e, edge)

Init ==
  /\ status = [e \in Exec |-> "NONE"]
  /\ done = {}
  /\ exhausted = {}

Start(e) ==
  /\ status[e] = "NONE"
  /\ status' = [status EXCEPT ![e] = "RUNNING"]
  /\ UNCHANGED <<workflow, done, exhausted>>

Complete(e, k, out) ==
  /\ status[e] # "NONE" /\ Due(e, k) /\ ~Ended(e, k)
  /\ done' = done \cup {[exec |-> e, key |-> k, output |-> out]}
  /\ UNCHANGED <<workflow, status, exhausted>>

Exhaust(e, k) ==
  /\ status[e] # "NONE" /\ Due(e, k) /\ ~Ended(e, k)
  /\ exhausted' = exhausted \cup {[exec |-> e, key |-> k]}
  /\ UNCHANGED <<workflow, status, done>>

\* A step ended well and has nothing to follow.
Succeed(e) ==
  /\ status[e] # "NONE"
  /\ \E d \in done : d.exec = e /\ NextTransitions(workflow, d.key, d.output, FALSE) = {}
  /\ status' = [status EXCEPT ![e] = "SUCCESS"]
  /\ UNCHANGED <<workflow, done, exhausted>>

\* A step failed for good, the execution is too long, or cannot begin.
Fail(e) ==
  /\ status[e] # "NONE"
  /\ \/ \E x \in exhausted : x.exec = e
     \/ Cardinality({d \in done : d.exec = e}) >= MaxDepth
     \/ workflow.trigger = NoKey
  /\ status' = [status EXCEPT ![e] = "FAILED"]
  /\ UNCHANGED <<workflow, done, exhausted>>

Cancel(e) ==
  /\ status[e] = "RUNNING"
  /\ status' = [status EXCEPT ![e] = "CANCELLED"]
  /\ UNCHANGED <<workflow, done, exhausted>>

Next ==
  \E e \in Exec :
    \/ Start(e) \/ Succeed(e) \/ Fail(e) \/ Cancel(e)
    \/ \E k \in Key : Exhaust(e, k) \/ \E out \in BOOLEAN : Complete(e, k, out)

Spec == Init /\ [][Next]_vars
=============================================================================
