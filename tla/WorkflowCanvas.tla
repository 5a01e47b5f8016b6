--------------------------- MODULE WorkflowCanvas ---------------------------
(***************************************************************************)
(* A stored workflow definition, the canvas, and how the runner reads it.  *)
(* Steps are the rows of workflow_steps, edges those of                    *)
(* workflow_transitions with their steps' keys in place of the row ids.    *)
(***************************************************************************)
EXTENDS Naturals, FiniteSets

CONSTANTS Key,  \* step keys that a canvas may use
          NoKey

ASSUME KeyAssumption == NoKey \notin Key

Route == {"ALWAYS", "ON_SUCCESS", "ON_FAILURE", "IF_TRUE", "IF_FALSE", "FALLBACK"}
Edge == [source : Key, route : Route, target : Key]

\* The steps, the one found as trigger, the AGENT_EXECUTE ones, those whose
\* onError column is CONTINUE, and transitions between the steps.
IsCanvas(c) ==
  /\ c.steps \subseteq Key
  /\ c.trigger \in c.steps \cup {NoKey}
  /\ c.agents \subseteq c.steps
  /\ c.continues \subseteq c.steps
  /\ c.edges \subseteq [source : c.steps, route : Route, target : c.steps]

MutantFalseToo(route, out, failed) ==
  IF failed
  THEN route \in {"ON_FAILURE", "FALLBACK"}
  ELSE route \in {"ALWAYS", "ON_SUCCESS", "IF_FALSE"} \/ (route = "IF_TRUE" /\ out)

shouldFollowTransition(route, out, failed) ==
  IF failed
  THEN route \in {"ON_FAILURE", "FALLBACK"}
  ELSE \/ route \in {"ALWAYS", "ON_SUCCESS"}
       \/ route = "IF_TRUE" /\ out
       \/ route = "IF_FALSE" /\ ~out

MutantEveryRoute(c, key, out, failed) == {edge \in c.edges : edge.source = key}

\* The transitions a step of canvas c follows.
NextTransitions(c, key, out, failed) ==
  {edge \in c.edges : edge.source = key /\ shouldFollowTransition(edge.route, out, failed)}

\* executeStep returns an output; only its "result" decides anything, and
\* only for a step with a conditional transition.
StepOutputs(c, key) ==
  IF \E edge \in c.edges : edge.source = key /\ edge.route \in {"IF_TRUE", "IF_FALSE"}
  THEN BOOLEAN ELSE {FALSE}
=============================================================================
