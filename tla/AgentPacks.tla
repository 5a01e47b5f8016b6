----------------------------- MODULE AgentPacks -----------------------------
(***************************************************************************)
(* PackInstallerService and the managed policies of apps/api: the agents   *)
(* of a tenant, installed from packs of the catalog up to the limit of the *)
(* plan, named by workflow steps, and configured in one JSON column that   *)
(* every operation writes whole from what it read before.                  *)
(***************************************************************************)
EXTENDS Integers, FiniteSets

CONSTANTS
  Pack,
  PackOp,      \* requests; the agent a request creates has its name
  AgentLimit,  \* agents of the plan
  MaxSaves,    \* bound: edits of workflows
  NoAgent, NoPack

ASSUME PackConstants ==
  /\ IsFiniteSet(PackOp) /\ PackOp # {}
  /\ {AgentLimit, MaxSaves} \subseteq Nat
  /\ NoAgent \notin PackOp /\ NoPack \notin Pack

PackOpKind == {"install", "uninstall", "version", "policy", "template"}
NoRow == [pack |-> NoPack, policies |-> {}, latest |-> 1]

VARIABLES
  agents,     \* [PackOp -> the row of the agent it created, or NoRow]
  stepOf,     \* [PackOp -> the status of the workflow that names the agent]
  packOp,     \* [PackOp -> where the request is and what it read]
  savedLate,  \* [PackOp -> agents a workflow came to name since it looked]
  saves

packVars == <<agents, stepOf, packOp, savedLate, saves>>

PackAgent == [pack: Pack, policies: SUBSET PackOp, latest: {1, 2}] \cup {NoRow}
PackRequest == [at: {"new", "find", "write", "depends", "delete", "done"}, kind: PackOpKind, pack: Pack,
            agent: PackOp \cup {NoAgent}, seen: PackAgent, room: BOOLEAN]

PackAgents == {a \in PackOp : agents[a] # NoRow}
InPack(p) == {a \in PackAgents : agents[a].pack = p}

NewPackRequest ==
  [at: {"new"}, kind: PackOpKind, pack: Pack, agent: {NoAgent}, seen: {NoRow}, room: {FALSE}]

PacksInit ==
  /\ agents = [a \in PackOp |-> NoRow]
  /\ stepOf = [a \in PackOp |-> "none"]
  /\ packOp \in [PackOp -> NewPackRequest]
  /\ savedLate = [o \in PackOp |-> {}]
  /\ saves = 0

On(o, kind, step) == packOp[o].kind = kind /\ packOp[o].at = step
OpTo(o, step) == packOp' = [packOp EXCEPT ![o].at = step]
OpFound(o, step, a) ==
  packOp' = [packOp EXCEPT ![o].at = step, ![o].agent = a,
             ![o].seen = IF a = NoAgent THEN NoRow ELSE agents[a]]
Finds(o, step, none) ==
  IF InPack(packOp[o].pack) = {} THEN OpFound(o, none, NoAgent)
  ELSE \E a \in InPack(packOp[o].pack) : OpFound(o, step, a)

-----------------------------------------------------------------------------
(* Install *)

\* Mutant: the new agent is not counted.
MutantCountsLess == Cardinality(PackAgents) <= AgentLimit

RoomForOne == Cardinality(PackAgents) + 1 <= AgentLimit

CountAgents(o) ==
  /\ On(o, "install", "new")
  /\ packOp' = [packOp EXCEPT ![o].room = RoomForOne,
                ![o].at = IF Cardinality(PackAgents) <= AgentLimit THEN "find" ELSE "done"]
  /\ UNCHANGED <<agents, stepOf, savedLate, saves>>

\* An agent that is there already needs no room.
FindInstalled(o) ==
  /\ On(o, "install", "find")
  /\ Finds(o, "write", IF packOp[o].room THEN "write" ELSE "done")
  /\ UNCHANGED <<agents, stepOf, savedLate, saves>>

\* Agents of a pack have its name, which is unique in a tenant.
NameTaken(o) == InPack(packOp[o].pack) # {}

CreateAgent(o) ==
  /\ On(o, "install", "write") /\ packOp[o].agent = NoAgent
  /\ IF NameTaken(o) THEN UNCHANGED agents
     ELSE agents' = [agents EXCEPT ![o] = [NoRow EXCEPT !.pack = packOp[o].pack]]
  /\ OpTo(o, "done")
  /\ UNCHANGED <<stepOf, savedLate, saves>>

\* Mutant: the configuration that was read is not spread into the new one.
MutantFreshConfig(o) ==
  CASE packOp[o].kind = "install" -> [packOp[o].seen EXCEPT !.latest = 1, !.policies = {}]
    [] packOp[o].kind = "version" -> [packOp[o].seen EXCEPT !.latest = 2]
    [] packOp[o].kind = "policy" -> [packOp[o].seen EXCEPT !.policies = @ \cup {o}]
    [] packOp[o].kind = "template" -> [packOp[o].seen EXCEPT !.policies = {o}]

\* The configuration as it was read, with what the operation sets.
NewConfig(o) ==
  CASE packOp[o].kind = "install" -> [packOp[o].seen EXCEPT !.latest = 1]
    [] packOp[o].kind = "version" -> [packOp[o].seen EXCEPT !.latest = 2]
    [] packOp[o].kind = "policy" -> [packOp[o].seen EXCEPT !.policies = @ \cup {o}]
    [] packOp[o].kind = "template" -> [packOp[o].seen EXCEPT !.policies = {o}]

\* The update of an agent that was deleted meanwhile fails.
WriteConfig(o) ==
  LET a == packOp[o].agent IN
  /\ packOp[o].at = "write" /\ a # NoAgent
  /\ agents' = IF a \in PackAgents THEN [agents EXCEPT ![a] = NewConfig(o)] ELSE agents
  /\ OpTo(o, "done")
  /\ UNCHANGED <<stepOf, savedLate, saves>>

\* updatePackVersion reads again inside its transaction, which locks nothing;
\* the policies are edited from what resolveInstalledAgent read.
ReadConfig(o) ==
  /\ packOp[o].kind \in {"version", "policy", "template"} /\ packOp[o].at = "new"
  /\ Finds(o, "write", "done")
  /\ UNCHANGED <<agents, stepOf, savedLate, saves>>

-----------------------------------------------------------------------------
(* Uninstall *)

FindPack(o) ==
  /\ On(o, "uninstall", "new")
  /\ Finds(o, "depends", "done")
  /\ UNCHANGED <<agents, stepOf, savedLate, saves>>

\* Mutant: steps of drafts are not looked for.
MutantPublishedOnly(a) == stepOf[a] = "PUBLISHED"

DependedOn(a) == stepOf[a] \in {"PUBLISHED", "DRAFT"}

ReadDependencies(o) ==
  /\ On(o, "uninstall", "depends")
  /\ OpTo(o, IF DependedOn(packOp[o].agent) THEN "done" ELSE "delete")
  /\ savedLate' = [savedLate EXCEPT ![o] = {}]
  /\ UNCHANGED <<agents, stepOf, saves>>

DeletePack(o) ==
  /\ On(o, "uninstall", "delete")
  /\ agents' = [agents EXCEPT ![packOp[o].agent] = NoRow]
  /\ OpTo(o, "done")
  /\ UNCHANGED <<stepOf, savedLate, saves>>

\* A workflow that names an agent of the tenant is saved or archived.
SaveWorkflow(a, status) ==
  /\ a \in PackAgents /\ stepOf[a] # status /\ saves < MaxSaves
  /\ stepOf' = [stepOf EXCEPT ![a] = status] /\ saves' = saves + 1
  /\ savedLate' = IF status = "ARCHIVED" THEN savedLate
                  ELSE [o \in PackOp |-> savedLate[o] \cup {a}]
  /\ UNCHANGED <<agents, packOp>>

PackOpStep(o) ==
  \/ CountAgents(o) \/ FindInstalled(o) \/ CreateAgent(o) \/ WriteConfig(o) \/ ReadConfig(o)
  \/ FindPack(o) \/ ReadDependencies(o) \/ DeletePack(o)

PacksNext ==
  \/ \E o \in PackOp : PackOpStep(o)
  \/ \E a \in PackOp, status \in {"DRAFT", "PUBLISHED", "ARCHIVED"} : SaveWorkflow(a, status)

PacksSpec == PacksInit /\ [][PacksNext]_packVars

-----------------------------------------------------------------------------
PacksTypeOK ==
  /\ agents \in [PackOp -> PackAgent]
  /\ stepOf \in [PackOp -> {"none", "DRAFT", "PUBLISHED", "ARCHIVED"}]
  /\ packOp \in [PackOp -> PackRequest]
  /\ savedLate \in [PackOp -> SUBSET PackOp] /\ saves \in 0..MaxSaves

\* Two installations of a pack that both found none leave one agent.
OneAgentPerPack == \A p \in Pack : Cardinality(InPack(p)) <= 1

\* The agents are counted before they are created: installations that counted
\* together pass the limit of the plan by less than their number.
PlanLimit == INSTANCE OptimisticLimit WITH
  Actor <- PackOp, Amount <- 1, Limit <- AgentLimit, used <- Cardinality(PackAgents),
  passed <- {o \in PackOp : packOp[o].kind = "install" /\ packOp[o].agent = NoAgent /\
               (packOp[o].at = "write" \/ (packOp[o].at = "find" /\ packOp[o].room))}
ImplementsAgentLimit == PlanLimit!LimitSpec

\* A pack is uninstalled from under a workflow only if the workflow came to
\* name its agent after the dependencies were read.
UninstallKeepsDependents ==
  [][\A o \in PackOp :
       DeletePack(o) /\ packOp[o].agent \in PackAgents /\
       stepOf[packOp[o].agent] \in {"PUBLISHED", "DRAFT"} =>
         packOp[o].agent \in savedLate[o]]_packVars

\* A policy is lost only to a template, or to a write that had read the agent
\* before the policy was there.
PoliciesLostToRacesOnly ==
  [][\A o \in PackOp, a \in PackAgents, p \in PackOp :
       /\ WriteConfig(o) /\ packOp[o].agent = a /\ packOp[o].kind # "template"
       /\ p \in agents[a].policies \ agents'[a].policies
       => p \notin packOp[o].seen.policies]_packVars
=============================================================================
