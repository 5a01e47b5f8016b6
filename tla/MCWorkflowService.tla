-------------------------- MODULE MCWorkflowService --------------------------
(* Instances of WorkflowService for TLC. *)
EXTENDS WorkflowService, TLC

Edges(es) == {[source |-> t[1], route |-> t[2], target |-> t[3]] : t \in es}

\* A step and a shortcut around it, which join.
Shortcut ==
  [steps |-> {"t", "l", "j"}, trigger |-> "t", agents |-> {}, continues |-> {},
   edges |-> Edges({<<"t", "ALWAYS", "l">>, <<"t", "ON_SUCCESS", "j">>, <<"l", "ALWAYS", "j">>})]

\* The same without the step in between.
Direct ==
  [steps |-> {"t", "j"}, trigger |-> "t", agents |-> {}, continues |-> {},
   edges |-> Edges({<<"t", "ALWAYS", "j">>})]

\* A canvas without a trigger step.
Headless ==
  [steps |-> {"j"}, trigger |-> NoKey, agents |-> {}, continues |-> {}, edges |-> {}]

MCKeys == {"t", "l", "j"}
MCPair == {"t", "j"}
\* Only the trigger is left.
Alone == [steps |-> {"t"}, trigger |-> "t", agents |-> {}, continues |-> {}, edges |-> {}]

MCEdits == <<Shortcut, Direct>>
MCDrops == <<Direct, Alone>>
MCHeadless == <<Headless>>
MCDirect == <<Direct>>

Slots == Permutations(Worker)
=============================================================================
