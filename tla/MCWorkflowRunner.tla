-------------------------- MODULE MCWorkflowRunner --------------------------
(* Instances of WorkflowRunner for TLC. *)
EXTENDS WorkflowRunner, TLC, Sequences

Edges(es) == {[source |-> t[1], route |-> t[2], target |-> t[3]] : t \in es}

\* A condition whose branches rejoin nowhere; the left one is an agent step.
Branch ==
  [steps |-> {"t", "c", "l", "r"}, trigger |-> "t", agents |-> {"l"}, continues |-> {},
   edges |-> Edges({<<"t", "ALWAYS", "c">>, <<"c", "IF_TRUE", "l">>, <<"c", "IF_FALSE", "r">>})]

\* A step and a shortcut around it, which join.
Shortcut ==
  [steps |-> {"t", "l", "j"}, trigger |-> "t", agents |-> {}, continues |-> {},
   edges |-> Edges({<<"t", "ALWAYS", "l">>, <<"t", "ON_SUCCESS", "j">>, <<"l", "ALWAYS", "j">>})]

\* Two parallel steps that join, one of them an agent step.
Diamond ==
  [steps |-> {"t", "l", "r", "j"}, trigger |-> "t", agents |-> {"l"}, continues |-> {},
   edges |-> Edges({<<"t", "ALWAYS", "l">>, <<"t", "ALWAYS", "r">>,
                    <<"l", "ALWAYS", "j">>, <<"r", "ALWAYS", "j">>})]

\* A step that continues on error, with a fallback.
Fallback ==
  [steps |-> {"t", "l", "r"}, trigger |-> "t", agents |-> {}, continues |-> {"l"},
   edges |-> Edges({<<"t", "ALWAYS", "l">>, <<"l", "FALLBACK", "r">>, <<"l", "ON_SUCCESS", "r">>})]

\* A canvas without a trigger step.
Headless ==
  [steps |-> {"l"}, trigger |-> NoKey, agents |-> {}, continues |-> {}, edges |-> {}]

MCKeys == {"t", "c", "l", "r", "j"}
MCAll == <<Branch, Headless, Fallback, Diamond, Shortcut>>

\* Bounds of the exploration: cancellations only with the fallback, faults only
\* without a join.
MCBounds ==
  /\ canvas # 3 => \A e \in Exec : execStatus[e] # "CANCELLED"
  /\ canvas \in {4, 5} => faults = 0

MCFallbacks == <<Fallback>>

Slots == Permutations(Worker)
=============================================================================
