-------------------------- MODULE AgentPacks_proofs --------------------------
(* AgentPacks: one agent for a pack, and how far the limit is passed. *)
EXTENDS AgentPacks, FiniteSetTheorems, TLAPS

\* A request finds an agent of its pack, or creates the one of its name, once.
OpSound(o) ==
  /\ packOp[o].at \in {"new", "find"} => packOp[o].agent = NoAgent
  /\ packOp[o].at \in {"depends", "delete"} => packOp[o].agent # NoAgent
  /\ packOp[o].at = "write" => packOp[o].kind # "uninstall"
  /\ packOp[o].agent # NoAgent =>
       /\ packOp[o].seen # NoRow
       /\ packOp[o].seen.pack = packOp[packOp[o].agent].pack
  /\ agents[o] # NoRow =>
       packOp[o].at = "done" /\ agents[o].pack = packOp[o].pack

\* Agents of one pack are one agent.
OnePerPack == \A a, b \in PackAgents : agents[a].pack = agents[b].pack => a = b

PacksInv == PacksTypeOK /\ OnePerPack /\ \A o \in PackOp : OpSound(o)

PackRow == [pack: Pack, policies: SUBSET PackOp, latest: {1, 2}]

USE PackConstants

LEMMA NoRowFacts ==
  /\ PackAgent = PackRow \cup {NoRow} /\ NoRow.pack = NoPack /\ NoRow \notin PackRow
  /\ NoRow = [pack |-> NoPack, policies |-> {}, latest |-> 1]
  BY DEF NoRow, PackAgent, PackRow

LEMMA PackFacts ==
  ASSUME PacksInv, NEW o \in PackOp
  PROVE  /\ packOp[o].kind \in PackOpKind /\ packOp[o].pack \in Pack
         /\ packOp[o].agent \in PackOp \cup {NoAgent}
         /\ packOp[o].seen \in PackAgent
         /\ agents[o] \in PackAgent
  BY DEF PacksInv, PacksTypeOK, PackRequest

\* What an operation writes over a row is a row of the same pack.
LEMMA NewConfigIsRow ==
  ASSUME PacksInv, NEW o \in PackOp, packOp[o].agent # NoAgent, packOp[o].at = "write"
  PROVE  NewConfig(o) \in PackRow /\ NewConfig(o).pack = packOp[o].seen.pack
<1> DEFINE seen == packOp[o].seen
<1>1. seen \in PackRow
  BY PackFacts, NoRowFacts DEF PacksInv, OpSound
<1>2. packOp[o].kind \in {"install", "version", "policy", "template"}
  BY PackFacts DEF PacksInv, OpSound, PackOpKind
<1>3. /\ [seen EXCEPT !.latest = 1] \in PackRow /\ [seen EXCEPT !.latest = 1].pack = seen.pack
      /\ [seen EXCEPT !.latest = 2] \in PackRow /\ [seen EXCEPT !.latest = 2].pack = seen.pack
      /\ [seen EXCEPT !.policies = @ \cup {o}] \in PackRow
      /\ [seen EXCEPT !.policies = @ \cup {o}].pack = seen.pack
      /\ [seen EXCEPT !.policies = {o}] \in PackRow /\ [seen EXCEPT !.policies = {o}].pack = seen.pack
  BY <1>1 DEF PackRow
<1>4. CASE packOp[o].kind = "install"
  <2>1. NewConfig(o) = [seen EXCEPT !.latest = 1]
    BY <1>4 DEF NewConfig
  <2> QED
    BY <2>1, <1>3
<1>5. CASE packOp[o].kind = "version"
  <2>1. NewConfig(o) = [seen EXCEPT !.latest = 2]
    BY <1>5 DEF NewConfig
  <2> QED
    BY <2>1, <1>3
<1>6. CASE packOp[o].kind = "policy"
  <2>1. NewConfig(o) = [seen EXCEPT !.policies = @ \cup {o}]
    BY <1>6 DEF NewConfig
  <2> QED
    BY <2>1, <1>3
<1>7. CASE packOp[o].kind = "template"
  <2>1. NewConfig(o) = [seen EXCEPT !.policies = {o}]
    BY <1>7 DEF NewConfig
  <2> QED
    BY <2>1, <1>3
<1> QED
  BY <1>2, <1>4, <1>5, <1>6, <1>7

\* A request moves on alone, keeps what was asked, and writes the row of one
\* agent, or none.
Moves(o, r) ==
  /\ packOp' = [packOp EXCEPT ![o] = r]
  /\ r \in PackRequest /\ r.kind = packOp[o].kind /\ r.pack = packOp[o].pack

\* A request that only moves on keeps the invariant.
LEMMA MoveKeeps ==
  ASSUME PacksInv, NEW o \in PackOp, NEW r, Moves(o, r), UNCHANGED <<agents, stepOf, saves>>,
         savedLate' \in [PackOp -> SUBSET PackOp],
         r.at \in {"new", "find"} => r.agent = NoAgent,
         r.at \in {"depends", "delete"} => r.agent # NoAgent,
         r.at = "write" => r.kind # "uninstall",
         r.agent # NoAgent => r.seen # NoRow /\ r.seen.pack = packOp[r.agent].pack,
         agents[o] # NoRow => r.at = "done"
  PROVE  PacksInv'
<1>1. PacksTypeOK'
  BY DEF PacksInv, PacksTypeOK, Moves
<1>2. OnePerPack'
  BY DEF PacksInv, OnePerPack, PackAgents
<1>3. \A q \in PackOp : packOp'[q] = IF q = o THEN r ELSE packOp[q]
  BY DEF Moves, PacksInv, PacksTypeOK
<1>4. \A q \in PackOp : packOp'[q].pack = packOp[q].pack
  BY <1>3 DEF Moves
<1>5. ASSUME NEW q \in PackOp PROVE OpSound(q)'
  <2>1. packOp'[q].agent # NoAgent => packOp'[q].agent \in PackOp
    BY <1>1 DEF PacksTypeOK, PackRequest
  <2>2. CASE q = o
    BY <1>3, <1>4, <2>1, <2>2 DEF OpSound, PacksInv, Moves
  <2>3. CASE q # o
    BY <1>3, <1>4, <2>1, <2>3 DEF OpSound, PacksInv
  <2> QED
    BY <2>2, <2>3
<1> QED
  BY <1>1, <1>2, <1>5 DEF PacksInv

\* So does a request that ends when it has written a row of the pack of its name,
\* if no other agent has that pack, or deleted a row.
LEMMA WriteKeeps ==
  ASSUME PacksInv, NEW o \in PackOp, NEW a \in PackOp, NEW row \in PackAgent,
         packOp' = [packOp EXCEPT ![o].at = "done"],
         agents' = [agents EXCEPT ![a] = row],
         UNCHANGED <<stepOf, savedLate, saves>>,
         row # NoRow =>
           /\ a = o \/ agents[a] # NoRow
           /\ row.pack = packOp[a].pack
           /\ \A b \in PackAgents : agents[b].pack = row.pack => b = a
  PROVE  PacksInv'
<1>1. /\ \A q \in PackOp : packOp'[q] = IF q = o THEN [packOp[o] EXCEPT !.at = "done"] ELSE packOp[q]
      /\ \A q \in PackOp : agents'[q] = IF q = a THEN row ELSE agents[q]
  BY DEF PacksInv, PacksTypeOK
<1>2. packOp[o] \in PackRequest
  BY DEF PacksInv, PacksTypeOK
<1>3. /\ packOp'[o].at = "done" /\ packOp'[o].kind = packOp[o].kind
      /\ packOp'[o].pack = packOp[o].pack /\ packOp'[o].agent = packOp[o].agent
      /\ packOp'[o].seen = packOp[o].seen /\ packOp'[o] \in PackRequest
  BY <1>1, <1>2 DEF PackRequest
<1>4. PacksTypeOK'
  BY <1>1, <1>3 DEF PacksInv, PacksTypeOK
<1>5. OnePerPack'
  BY <1>1 DEF PacksInv, OnePerPack, PackAgents
<1>6. \A q \in PackOp : packOp'[q].pack = packOp[q].pack
  BY <1>1, <1>3
<1>7. ASSUME NEW q \in PackOp PROVE OpSound(q)'
  <2>1. packOp'[q].agent # NoAgent => packOp'[q].agent \in PackOp
    BY <1>4 DEF PacksTypeOK, PackRequest
  <2>2. CASE q = o
    BY <1>1, <1>3, <1>6, <2>1, <2>2 DEF OpSound, PacksInv
  <2>3. CASE q # o
    BY <1>1, <1>6, <2>1, <2>3 DEF OpSound, PacksInv
  <2> QED
    BY <2>2, <2>3
<1> QED
  BY <1>4, <1>5, <1>7 DEF PacksInv

\* The row of an agent of the pack of a request carries that pack.
LEMMA FoundRow ==
  ASSUME PacksInv, NEW o \in PackOp, NEW a \in InPack(packOp[o].pack)
  PROVE  /\ a \in PackOp /\ a # NoAgent
         /\ agents[a] # NoRow /\ agents[a] \in PackAgent
         /\ agents[a].pack = packOp[o].pack /\ agents[a].pack = packOp[a].pack
<1>1. a \in PackOp /\ agents[a] # NoRow /\ agents[a].pack = packOp[o].pack
  BY DEF InPack, PackAgents
<1> QED
  BY <1>1, PackFacts DEF PacksInv, OpSound

LEMMA FindKeeps ==
  ASSUME PacksInv, NEW o \in PackOp, NEW step, NEW none, Finds(o, step, none),
         UNCHANGED <<agents, stepOf, savedLate, saves>>,
         packOp[o].at \in {"new", "find"}, none \in {"write", "done"},
         none = "write" => packOp[o].kind # "uninstall",
         step = "depends" \/ (step = "write" /\ packOp[o].kind # "uninstall")
  PROVE  PacksInv'
<1>1. agents[o] = NoRow
  BY DEF PacksInv, OpSound
<1>2. packOp[o] \in PackRequest /\ savedLate' \in [PackOp -> SUBSET PackOp]
  BY DEF PacksInv, PacksTypeOK
<1>3. CASE OpFound(o, none, NoAgent)
  <2> DEFINE r == [packOp[o] EXCEPT !.at = none, !.agent = NoAgent, !.seen = NoRow]
  <2>1. Moves(o, r) /\ r.at = none /\ r.kind = packOp[o].kind /\ r.agent = NoAgent
    BY <1>2, <1>3, NoRowFacts DEF OpFound, Moves, PackRequest
  <2> HIDE DEF r
  <2> QED
    BY <1>1, <1>2, <2>1, MoveKeeps
<1>4. ASSUME NEW a \in InPack(packOp[o].pack), OpFound(o, step, a)
      PROVE  PacksInv'
  <2> DEFINE r == [packOp[o] EXCEPT !.at = step, !.agent = a, !.seen = agents[a]]
  <2>1. /\ r \in PackRequest /\ r.kind = packOp[o].kind /\ r.pack = packOp[o].pack
        /\ r.at = step /\ r.agent = a /\ r.seen = agents[a]
    BY <1>2, FoundRow DEF PackRequest
  <2>2. packOp' = [packOp EXCEPT ![o].at = step, ![o].agent = a, ![o].seen = agents[a]]
    BY <1>4, FoundRow DEF OpFound
  <2>3. packOp' = [packOp EXCEPT ![o] = r]
    BY <1>2, <2>2 DEF PacksInv, PacksTypeOK, PackRequest
  <2> HIDE DEF r
  <2>4. r.agent # NoAgent /\ r.seen # NoRow /\ r.seen.pack = packOp[r.agent].pack
    BY <2>1, FoundRow
  <2> QED
    BY <1>1, <1>2, <2>1, <2>3, <2>4, MoveKeeps DEF Moves
<1> QED
  BY <1>3, <1>4 DEF Finds

LEMMA PacksStep ==
  ASSUME PacksInv, [PacksNext]_packVars
  PROVE  PacksInv'
<1>0. \A o \in PackOp : packOp[o] \in PackRequest /\ savedLate \in [PackOp -> SUBSET PackOp]
  BY DEF PacksInv, PacksTypeOK
<1>1. ASSUME NEW o \in PackOp, CountAgents(o) PROVE PacksInv'
  <2>1. packOp[o].at = "new" /\ packOp[o].agent = NoAgent /\ agents[o] = NoRow
    BY <1>1 DEF CountAgents, On, PacksInv, OpSound
  <2>2. RoomForOne \in BOOLEAN
    BY DEF RoomForOne
  <2> DEFINE next == IF Cardinality(PackAgents) <= AgentLimit THEN "find" ELSE "done"
  <2>3. next \in {"find", "done"}
    OBVIOUS
  <2>4. packOp' = [packOp EXCEPT ![o].room = RoomForOne, ![o].at = next]
    BY <1>1 DEF CountAgents
  <2> HIDE DEF next
  <2> DEFINE r == [packOp[o] EXCEPT !.room = RoomForOne, !.at = next]
  <2>5. /\ r \in PackRequest /\ r.kind = packOp[o].kind /\ r.pack = packOp[o].pack
        /\ r.agent = NoAgent /\ r.at \in {"find", "done"}
    BY <1>0, <2>1, <2>2, <2>3 DEF PackRequest
  <2>6. packOp' = [packOp EXCEPT ![o] = r]
    BY <1>0, <2>4 DEF PacksInv, PacksTypeOK, PackRequest
  <2> HIDE DEF r
  <2> QED
    BY <1>0, <1>1, <2>1, <2>5, <2>6, MoveKeeps DEF CountAgents, Moves
<1>2. ASSUME NEW o \in PackOp, FindInstalled(o) PROVE PacksInv'
  BY <1>2, FindKeeps DEF FindInstalled, On
<1>3. ASSUME NEW o \in PackOp, CreateAgent(o) PROVE PacksInv'
  <2>1. /\ packOp[o].at = "write" /\ packOp[o].agent = NoAgent /\ agents[o] = NoRow
        /\ packOp' = [packOp EXCEPT ![o].at = "done"]
        /\ UNCHANGED <<stepOf, savedLate, saves>>
    BY <1>3 DEF CreateAgent, On, OpTo, PacksInv, OpSound
  <2>2. CASE NameTaken(o)
    <3>1. agents' = [agents EXCEPT ![o] = NoRow]
      BY <1>3, <2>1, <2>2 DEF CreateAgent, PacksInv, PacksTypeOK
    <3> QED
      BY <2>1, <3>1, WriteKeeps, NoRowFacts
  <2>3. CASE ~NameTaken(o)
    <3> DEFINE row == [NoRow EXCEPT !.pack = packOp[o].pack]
    <3>1. agents' = [agents EXCEPT ![o] = row]
      BY <1>3, <2>3 DEF CreateAgent
    <3>2. row \in PackRow /\ row.pack = packOp[o].pack
      BY PackFacts, NoRowFacts DEF PackRow
    <3> HIDE DEF row
    <3>3. row \in PackAgent /\ \A b \in PackAgents : agents[b].pack # row.pack
      BY <2>3, <3>2, NoRowFacts DEF NameTaken, InPack
    <3> QED
      BY <2>1, <3>1, <3>2, <3>3, WriteKeeps
  <2> QED
    BY <2>2, <2>3
<1>4. ASSUME NEW o \in PackOp, WriteConfig(o) PROVE PacksInv'
  <2> DEFINE a == packOp[o].agent
  <2>1. /\ packOp[o].at = "write" /\ a # NoAgent
        /\ agents' = IF a \in PackAgents THEN [agents EXCEPT ![a] = NewConfig(o)] ELSE agents
        /\ packOp' = [packOp EXCEPT ![o].at = "done"]
        /\ UNCHANGED <<stepOf, savedLate, saves>>
    BY <1>4 DEF WriteConfig, OpTo
  <2>2. a \in PackOp /\ packOp[o].seen.pack = packOp[a].pack
    BY <2>1, PackFacts DEF PacksInv, OpSound
  <2>3. CASE a \in PackAgents
    <3>1. NewConfig(o) \in PackAgent /\ NewConfig(o).pack = packOp[a].pack
      BY <2>1, <2>2, NewConfigIsRow, NoRowFacts
    <3>2. agents[a] # NoRow /\ agents[a].pack = packOp[a].pack
      BY <2>2, <2>3 DEF PackAgents, PacksInv, OpSound
    <3>3. \A b \in PackAgents : agents[b].pack = NewConfig(o).pack => b = a
      BY <2>3, <3>1, <3>2 DEF PacksInv, OnePerPack
    <3>4. agents' = [agents EXCEPT ![a] = NewConfig(o)]
      BY <2>1, <2>3
    <3> HIDE DEF a
    <3> QED
      BY <2>1, <2>2, <3>1, <3>2, <3>3, <3>4, WriteKeeps
  <2>4. CASE a \notin PackAgents
    <3>1. agents[a] = NoRow /\ agents' = [agents EXCEPT ![a] = NoRow]
      BY <2>1, <2>2, <2>4 DEF PackAgents, PacksInv, PacksTypeOK
    <3> HIDE DEF a
    <3> QED
      BY ZenonT(40), <2>1, <2>2, <3>1, NoRowFacts, WriteKeeps
  <2> QED
    BY <2>3, <2>4
<1>5. ASSUME NEW o \in PackOp, ReadConfig(o) PROVE PacksInv'
  <2>1. Finds(o, "write", "done") /\ packOp[o].at = "new" /\ packOp[o].kind # "uninstall"
    BY <1>5 DEF ReadConfig
  <2> QED
    BY <1>5, <2>1, FindKeeps DEF ReadConfig
<1>6. ASSUME NEW o \in PackOp, FindPack(o) PROVE PacksInv'
  BY <1>6, FindKeeps DEF FindPack, On
<1>7. ASSUME NEW o \in PackOp, ReadDependencies(o) PROVE PacksInv'
  <2> DEFINE r == [packOp[o] EXCEPT !.at = IF DependedOn(packOp[o].agent) THEN "done" ELSE "delete"]
  <2>1. packOp[o].at = "depends" /\ packOp[o].agent # NoAgent /\ agents[o] = NoRow
    BY <1>7 DEF ReadDependencies, On, PacksInv, OpSound
  <2>2. /\ Moves(o, r) /\ r.agent = packOp[o].agent /\ r.seen = packOp[o].seen
        /\ r.at \in {"done", "delete"}
    BY <1>0, <1>7, <2>1 DEF ReadDependencies, OpTo, Moves, PackRequest
  <2>3. savedLate' \in [PackOp -> SUBSET PackOp]
    BY <1>0, <1>7 DEF ReadDependencies
  <2> HIDE DEF r
  <2>4. r.seen # NoRow /\ r.seen.pack = packOp[r.agent].pack
    BY <2>1, <2>2 DEF PacksInv, OpSound
  <2> QED
    BY <1>7, <2>1, <2>2, <2>3, <2>4, MoveKeeps DEF ReadDependencies
<1>8. ASSUME NEW o \in PackOp, DeletePack(o) PROVE PacksInv'
  <2>1. /\ packOp[o].agent \in PackOp
        /\ packOp' = [packOp EXCEPT ![o].at = "done"]
        /\ agents' = [agents EXCEPT ![packOp[o].agent] = NoRow]
        /\ UNCHANGED <<stepOf, savedLate, saves>>
    BY <1>8, PackFacts DEF DeletePack, On, OpTo, PacksInv, OpSound
  <2> QED
    BY <2>1, NoRowFacts, WriteKeeps
<1>9. ASSUME NEW a \in PackOp, NEW status \in {"DRAFT", "PUBLISHED", "ARCHIVED"},
             SaveWorkflow(a, status)
      PROVE  PacksInv'
  <2>1. PacksTypeOK'
    BY <1>9 DEF SaveWorkflow, PacksInv, PacksTypeOK
  <2>2. UNCHANGED <<agents, packOp>>
    BY <1>9 DEF SaveWorkflow
  <2> QED
    BY <2>1, <2>2 DEF PacksInv, OnePerPack, PackAgents, OpSound
<1>10. CASE UNCHANGED packVars
  BY <1>10 DEF packVars, PacksInv, PacksTypeOK, OnePerPack, PackAgents, OpSound
<1> QED
  BY <1>1, <1>2, <1>3, <1>4, <1>5, <1>6, <1>7, <1>8, <1>9, <1>10 DEF PacksNext, PackOpStep

LEMMA PacksInvariance == PacksSpec => []PacksInv
<1>1. PacksInit => PacksInv
  <2> SUFFICES ASSUME PacksInit PROVE PacksInv
    OBVIOUS
  <2>1. PackAgents = {}
    BY DEF PacksInit, PackAgents
  <2>2. \A o \in PackOp : /\ packOp[o].at = "new" /\ packOp[o].agent = NoAgent
                          /\ packOp[o] \in PackRequest /\ agents[o] = NoRow
    BY NoRowFacts DEF PacksInit, NewPackRequest, PackRequest
  <2>3. PacksTypeOK
    BY <2>2, NoRowFacts DEF PacksInit, PacksTypeOK, NewPackRequest
  <2> QED
    BY <2>1, <2>2, <2>3 DEF PacksInv, OnePerPack, OpSound
<1>2. PacksInv /\ [PacksNext]_packVars => PacksInv'
  BY PacksStep
<1> QED
  BY <1>1, <1>2, PTL DEF PacksSpec

\* The agents, requests and workflows of a tenant keep their types.
THEOREM PacksTyping == PacksSpec => []PacksTypeOK
<1>1. PacksInv => PacksTypeOK
  BY DEF PacksInv
<1> QED
  BY <1>1, PacksInvariance, PTL

\* Two requests that install a pack and both find none leave one agent: the
\* unique name of an agent in its tenant stands between them.
THEOREM OneAgent == PacksSpec => []OneAgentPerPack
<1>1. ASSUME PacksInv PROVE OneAgentPerPack
  <2> SUFFICES ASSUME NEW p \in Pack PROVE Cardinality(InPack(p)) <= 1
    BY DEF OneAgentPerPack
  <2>1. CASE InPack(p) = {}
    BY <2>1, FS_EmptySet
  <2>2. ASSUME NEW a \in InPack(p) PROVE Cardinality(InPack(p)) <= 1
    <3>1. InPack(p) = {a}
      BY <1>1 DEF InPack, PacksInv, OnePerPack
    <3> QED
      BY <3>1, FS_Singleton
  <2> QED
    BY <2>1, <2>2
<1> QED
  BY <1>1, PacksInvariance, PTL

-----------------------------------------------------------------------------
(* The limit of the plan *)

Waiting == {o \in PackOp : packOp[o].kind = "install" /\ packOp[o].agent = NoAgent /\
              (packOp[o].at = "write" \/ (packOp[o].at = "find" /\ packOp[o].room))}

LEMMA AgentsFinite ==
  /\ IsFiniteSet(PackAgents) /\ Cardinality(PackAgents) \in Nat
  /\ Cardinality({}) = 0
<1>1. IsFiniteSet(PackAgents)
  BY FS_Subset DEF PackAgents
<1> QED
  BY <1>1, FS_CardinalityType, FS_EmptySet

\* The next-state relation of the limit, over the agents that are counted.
Refines == [PlanLimit!LimitNext]_(PlanLimit!limitVars)

LEMMA LimitStutters ==
  ASSUME PackAgents' = PackAgents, Waiting' = Waiting
  PROVE  Refines
  BY DEF Refines, PlanLimit!limitVars, Waiting

LEMMA LimitAbandons ==
  ASSUME PackAgents' = PackAgents, NEW o \in PackOp, Waiting' = Waiting \ {o}
  PROVE  Refines
  BY DEF Refines, PlanLimit!LimitNext, PlanLimit!Abandon, Waiting

\* A request that moves alone changes nobody else's place in the waiting room.
LEMMA WaitingOf ==
  ASSUME PacksInv, NEW o \in PackOp, \A q \in PackOp \ {o} : packOp'[q] = packOp[q],
         NEW in \in BOOLEAN, (o \in Waiting)' = in
  PROVE  Waiting' = IF in THEN Waiting \cup {o} ELSE Waiting \ {o}
  BY DEF Waiting

LEMMA LimitRefinement ==
  ASSUME PacksInv, PacksInv', [PacksNext]_packVars
  PROVE  Refines
<1>0. /\ \A q \in PackOp : packOp[q] \in PackRequest /\ packOp'[q] \in PackRequest
      /\ packOp \in [PackOp -> PackRequest] /\ agents \in [PackOp -> PackAgent]
      /\ AgentLimit \in Nat
  BY DEF PacksInv, PacksTypeOK
<1>1. ASSUME NEW o \in PackOp, CountAgents(o) PROVE Refines
  <2> DEFINE next == IF Cardinality(PackAgents) <= AgentLimit THEN "find" ELSE "done"
  <2>1. /\ packOp[o].at = "new" /\ packOp[o].kind = "install" /\ packOp[o].agent = NoAgent
        /\ PackAgents' = PackAgents
        /\ packOp' = [packOp EXCEPT ![o].room = RoomForOne, ![o].at = next]
    BY <1>1 DEF CountAgents, On, PacksInv, OpSound, PackAgents
  <2>2. RoomForOne \in BOOLEAN /\ next \in {"find", "done"}
    BY DEF RoomForOne
  <2>3. o \notin Waiting
    BY <2>1 DEF Waiting
  <2> HIDE DEF next
  <2>4. /\ packOp'[o].room = RoomForOne /\ packOp'[o].at = next
        /\ packOp'[o].kind = "install" /\ packOp'[o].agent = NoAgent
        /\ \A q \in PackOp \ {o} : packOp'[q] = packOp[q]
    BY <1>0, <2>1 DEF PackRequest
  <2>5. CASE next = "find" /\ RoomForOne
    <3>1. Waiting' = Waiting \cup {o}
      BY <2>4, <2>5, WaitingOf DEF Waiting
    <3>2. Cardinality(PackAgents) + 1 <= AgentLimit
      BY <2>5 DEF RoomForOne
    <3> QED
      BY <2>1, <2>3, <3>1, <3>2
         DEF Refines, PlanLimit!LimitNext, PlanLimit!Check, Waiting
  <2>6. CASE ~(next = "find" /\ RoomForOne)
    <3>1. Waiting' = Waiting \ {o}
      BY <2>2, <2>4, <2>6, WaitingOf DEF Waiting
    <3> QED
      BY <2>1, <3>1, LimitAbandons
  <2> QED
    BY <2>5, <2>6
<1>2. ASSUME NEW o \in PackOp, FindInstalled(o) PROVE Refines
  <2>1. /\ packOp[o].at = "find" /\ packOp[o].kind = "install" /\ packOp[o].agent = NoAgent
        /\ PackAgents' = PackAgents
        /\ Finds(o, "write", IF packOp[o].room THEN "write" ELSE "done")
    BY <1>2 DEF FindInstalled, On, PacksInv, OpSound, PackAgents
  <2>2. CASE OpFound(o, IF packOp[o].room THEN "write" ELSE "done", NoAgent)
    <3>1. /\ packOp'[o].at = IF packOp[o].room THEN "write" ELSE "done"
          /\ packOp'[o].kind = "install" /\ packOp'[o].agent = NoAgent
          /\ packOp'[o].room = packOp[o].room
          /\ \A q \in PackOp \ {o} : packOp'[q] = packOp[q]
      BY <1>0, <2>1, <2>2 DEF OpFound, PackRequest
    <3>2. CASE packOp[o].room
      <4>1. (o \in Waiting)' /\ o \in Waiting
        BY <2>1, <3>1, <3>2 DEF Waiting
      <4>2. Waiting' = Waiting
        BY <3>1, <4>1 DEF Waiting
      <4> QED
        BY <2>1, <4>2, LimitStutters
    <3>3. CASE ~packOp[o].room
      <4>1. ~(o \in Waiting)'
        BY <3>1, <3>3 DEF Waiting
      <4>2. Waiting' = Waiting \ {o}
        BY <3>1, <4>1 DEF Waiting
      <4> QED
        BY <2>1, <4>2, LimitAbandons
    <3> QED
      BY <3>2, <3>3
  <2>3. ASSUME NEW a \in InPack(packOp[o].pack), OpFound(o, "write", a) PROVE Refines
    <3>1. packOp'[o].agent # NoAgent /\ \A q \in PackOp \ {o} : packOp'[q] = packOp[q]
      BY <1>0, <2>3, FoundRow DEF OpFound, PackRequest
    <3>2. Waiting' = Waiting \ {o}
      BY <3>1 DEF Waiting
    <3> QED
      BY <2>1, <3>2, LimitAbandons
  <2> QED
    BY <2>1, <2>2, <2>3 DEF Finds
<1>3. ASSUME NEW o \in PackOp, CreateAgent(o) PROVE Refines
  <2>1. /\ packOp[o].at = "write" /\ packOp[o].kind = "install" /\ packOp[o].agent = NoAgent
        /\ packOp' = [packOp EXCEPT ![o].at = "done"]
        /\ agents[o] = NoRow
    BY <1>3 DEF CreateAgent, On, OpTo, PacksInv, OpSound
  <2>2. packOp'[o].at = "done" /\ \A q \in PackOp \ {o} : packOp'[q] = packOp[q]
    BY <1>0, <2>1 DEF PackRequest
  <2>3. Waiting' = Waiting \ {o} /\ o \in Waiting
    BY <2>1, <2>2 DEF Waiting
  <2>4. CASE NameTaken(o)
    <3>1. PackAgents' = PackAgents
      BY <1>3, <2>4 DEF CreateAgent, PackAgents
    <3> QED
      BY <2>3, <3>1, LimitAbandons
  <2>5. CASE ~NameTaken(o)
    <3>1. agents' = [agents EXCEPT ![o] = [NoRow EXCEPT !.pack = packOp[o].pack]]
      BY <1>3, <2>5 DEF CreateAgent
    <3>2. [NoRow EXCEPT !.pack = packOp[o].pack].pack \in Pack
      BY NoRowFacts, PackFacts DEF PackRow
    <3>3. agents'[o] # NoRow /\ \A q \in PackOp \ {o} : agents'[q] = agents[q]
      BY <1>0, <3>1, <3>2, NoRowFacts
    <3>4. PackAgents' = PackAgents \cup {o} /\ o \notin PackAgents
      BY <2>1, <3>3 DEF PackAgents
    <3>5. Cardinality(PackAgents') = Cardinality(PackAgents) + 1
      BY <3>4, AgentsFinite, FS_AddElement
    <3> QED
      BY <2>3, <3>5 DEF Refines, PlanLimit!LimitNext, PlanLimit!Charge, Waiting
  <2> QED
    BY <2>4, <2>5
<1>4. ASSUME NEW o \in PackOp, WriteConfig(o) PROVE Refines
  <2> DEFINE a == packOp[o].agent
  <2>1. /\ packOp[o].at = "write" /\ a # NoAgent
        /\ agents' = IF a \in PackAgents THEN [agents EXCEPT ![a] = NewConfig(o)] ELSE agents
        /\ packOp' = [packOp EXCEPT ![o].at = "done"]
    BY <1>4 DEF WriteConfig, OpTo
  <2>2. packOp'[o].agent # NoAgent /\ \A q \in PackOp \ {o} : packOp'[q] = packOp[q]
    BY <1>0, <2>1 DEF PackRequest
  <2>3. Waiting' = Waiting
    BY <2>1, <2>2 DEF Waiting
  <2>4. NewConfig(o) # NoRow
    BY <2>1, NewConfigIsRow, NoRowFacts
  <2>5. PackAgents' = PackAgents
    BY <1>0, <2>1, <2>4 DEF PackAgents
  <2> QED
    BY <2>3, <2>5, LimitStutters
<1>5. ASSUME NEW o \in PackOp,
             packOp[o].kind # "install", packOp[o].kind = packOp'[o].kind,
             \A q \in PackOp \ {o} : packOp'[q] = packOp[q]
      PROVE  Waiting' = Waiting
  BY <1>5 DEF Waiting
<1>6. ASSUME NEW o \in PackOp, ReadConfig(o) \/ FindPack(o) \/ ReadDependencies(o) PROVE Refines
  <2>1. packOp[o].kind # "install" /\ PackAgents' = PackAgents
    BY <1>6 DEF ReadConfig, FindPack, ReadDependencies, On, PackAgents
  <2>2. CASE ReadDependencies(o)
    <3>1. OpTo(o, "done") \/ OpTo(o, "delete")
      BY <2>2 DEF ReadDependencies
    <3> QED
      BY <1>0, <1>5, <2>1, <3>1, LimitStutters DEF OpTo, PackRequest
  <2>3. CASE ReadConfig(o) \/ FindPack(o)
    <3>1. \/ OpFound(o, "done", NoAgent)
          \/ \E a \in PackOp : OpFound(o, "write", a) \/ OpFound(o, "depends", a)
      BY <2>3 DEF ReadConfig, FindPack, Finds, InPack, PackAgents
    <3>2. ASSUME NEW step, NEW a, OpFound(o, step, a)
          PROVE  packOp'[o].kind = packOp[o].kind /\ \A q \in PackOp \ {o} : packOp'[q] = packOp[q]
      BY <1>0, <3>2 DEF OpFound, PackRequest
    <3>3. packOp'[o].kind = packOp[o].kind /\ \A q \in PackOp \ {o} : packOp'[q] = packOp[q]
      BY <3>1, <3>2
    <3> QED
      BY <1>5, <2>1, <3>3, LimitStutters
  <2> QED
    BY <1>6, <2>2, <2>3
<1>7. ASSUME NEW o \in PackOp, DeletePack(o) PROVE Refines
  <2> DEFINE a == packOp[o].agent
  <2>1. /\ packOp[o].kind = "uninstall" /\ a \in PackOp
        /\ packOp' = [packOp EXCEPT ![o].at = "done"]
        /\ agents' = [agents EXCEPT ![a] = NoRow]
    BY <1>7, PackFacts DEF DeletePack, On, OpTo, PacksInv, OpSound
  <2>2. packOp[o].kind = packOp'[o].kind /\ \A q \in PackOp \ {o} : packOp'[q] = packOp[q]
    BY <1>0, <2>1 DEF PackRequest
  <2>3. Waiting' = Waiting
    BY <1>5, <2>1, <2>2
  <2> HIDE DEF a
  <2>4. PackAgents' = PackAgents \ {a}
    BY <1>0, <2>1 DEF PackAgents
  <2>5. Cardinality(PackAgents') =
          IF a \in PackAgents THEN Cardinality(PackAgents) - 1 ELSE Cardinality(PackAgents)
    BY <2>4, AgentsFinite, FS_RemoveElement
  <2>6. CASE a \notin PackAgents
    BY <2>3, <2>4, <2>6, LimitStutters, PackAgents \ {a} = PackAgents
  <2>7. CASE a \in PackAgents
    <3>1. Cardinality(PackAgents) # 0 /\ Cardinality(PackAgents) \in Nat
      BY <2>7, AgentsFinite, FS_EmptySet
    <3>2. 1 \in 1..Cardinality(PackAgents)
      BY <3>1
    <3>3. PlanLimit!Release
      BY <2>3, <2>5, <2>7, <3>2 DEF PlanLimit!Release, Waiting
    <3> QED
      BY <3>3 DEF Refines, PlanLimit!LimitNext
  <2> QED
    BY <2>6, <2>7
<1>8. ASSUME NEW a \in PackOp, NEW status \in {"DRAFT", "PUBLISHED", "ARCHIVED"},
             SaveWorkflow(a, status)
      PROVE  Refines
  BY <1>8, LimitStutters DEF SaveWorkflow, PackAgents, Waiting
<1>9. CASE UNCHANGED packVars
  BY <1>9, LimitStutters DEF packVars, PackAgents, Waiting
<1> QED
  BY <1>1, <1>2, <1>3, <1>4, <1>6, <1>7, <1>8, <1>9 DEF PacksNext, PackOpStep

\* Agents are counted and created like any limit that is read before it is
\* charged: what OptimisticLimit promises holds of the agents of a plan.
THEOREM ImplementsLimit == PacksSpec => ImplementsAgentLimit
<1>1. PacksInit => PlanLimit!LimitInit
  <2> SUFFICES ASSUME PacksInit PROVE PlanLimit!LimitInit
    OBVIOUS
  <2>1. PackAgents = {} /\ Waiting = {}
    BY DEF PacksInit, NewPackRequest, PackAgents, Waiting
  <2> QED
    BY <2>1, AgentsFinite DEF PlanLimit!LimitInit, Waiting
<1>2. PacksInv /\ PacksInv' /\ [PacksNext]_packVars
        => [PlanLimit!LimitNext]_(PlanLimit!limitVars)
  BY LimitRefinement DEF Refines
<1> QED
  BY <1>1, <1>2, PacksInvariance, PTL DEF PacksSpec, ImplementsAgentLimit, PlanLimit!LimitSpec

LimitProofs == INSTANCE OptimisticLimit_proofs WITH
  Actor <- PackOp, Amount <- 1, Limit <- AgentLimit, used <- Cardinality(PackAgents),
  passed <- Waiting

\* The tenant has fewer agents too many than it had requests at once.
AgentsBounded == Cardinality(PackAgents) <= AgentLimit + Cardinality(PackOp) - 1

THEOREM AgentOvershoot == PacksSpec => []AgentsBounded
<1>1. LimitProofs!LimitConstants
  BY DEF LimitProofs!LimitConstants, LimitProofs!IsFiniteSet, IsFiniteSet
<1>2. LimitProofs!LimitSpec => []LimitProofs!OvershootBounded
  BY <1>1, LimitProofs!Overshoot
<1>3. PacksSpec => LimitProofs!LimitSpec
  BY ImplementsLimit, PTL DEF ImplementsAgentLimit, PlanLimit!LimitSpec, LimitProofs!LimitSpec,
     PlanLimit!LimitInit, LimitProofs!LimitInit, PlanLimit!LimitNext, LimitProofs!LimitNext,
     PlanLimit!limitVars, LimitProofs!limitVars, PlanLimit!Check, LimitProofs!Check,
     PlanLimit!Charge, LimitProofs!Charge, PlanLimit!Abandon, LimitProofs!Abandon,
     PlanLimit!CheckAndCharge, LimitProofs!CheckAndCharge, PlanLimit!Release, LimitProofs!Release, Waiting
<1>4. LimitProofs!Cardinality(PackOp) = Cardinality(PackOp)
  BY Zenon DEF LimitProofs!Cardinality, Cardinality
<1>5. LimitProofs!OvershootBounded => AgentsBounded
  BY <1>4, AgentsFinite, FS_CardinalityType DEF LimitProofs!OvershootBounded, AgentsBounded
<1> QED
  BY <1>2, <1>3, <1>5, PTL

-----------------------------------------------------------------------------
(* Dependencies and policies *)

\* A request about to delete an agent knows of the workflows that name it, or
\* one came to name it since.
LateIsKnown ==
  \A o \in PackOp :
    packOp[o].at = "delete" /\ stepOf[packOp[o].agent] \in {"PUBLISHED", "DRAFT"} =>
      packOp[o].agent \in savedLate[o]

LEMMA LateStep ==
  ASSUME PacksInv, PacksInv', LateIsKnown, [PacksNext]_packVars
  PROVE  LateIsKnown'
<1>0. /\ packOp \in [PackOp -> PackRequest] /\ \A q \in PackOp : packOp[q] \in PackRequest
      /\ savedLate \in [PackOp -> SUBSET PackOp]
      /\ stepOf \in [PackOp -> {"none", "DRAFT", "PUBLISHED", "ARCHIVED"}]
  BY DEF PacksInv, PacksTypeOK
<1>1. ASSUME NEW o \in PackOp, UNCHANGED <<stepOf, savedLate>>,
             packOp'[o].at # "delete", \A q \in PackOp \ {o} : packOp'[q] = packOp[q]
      PROVE  LateIsKnown'
  BY <1>1 DEF LateIsKnown
<1>2. ASSUME NEW o \in PackOp, CountAgents(o) PROVE LateIsKnown'
  <2> DEFINE next == IF Cardinality(PackAgents) <= AgentLimit THEN "find" ELSE "done"
  <2>1. /\ packOp' = [packOp EXCEPT ![o].room = RoomForOne, ![o].at = next]
        /\ UNCHANGED <<stepOf, savedLate>>
    BY <1>2 DEF CountAgents
  <2>2. next # "delete"
    OBVIOUS
  <2> HIDE DEF next
  <2>3. packOp'[o].at = next /\ \A q \in PackOp \ {o} : packOp'[q] = packOp[q]
    BY <1>0, <2>1 DEF PackRequest
  <2> QED
    BY <1>1, <2>1, <2>2, <2>3
<1>3. ASSUME NEW o \in PackOp, FindInstalled(o) \/ ReadConfig(o) \/ FindPack(o) PROVE LateIsKnown'
  <2>1. ASSUME NEW step, NEW a, OpFound(o, step, a)
        PROVE  packOp'[o].at = step /\ \A q \in PackOp \ {o} : packOp'[q] = packOp[q]
    BY <1>0, <2>1 DEF OpFound, PackRequest
  <2>2. \E step \in {"find", "write", "done", "depends"}, a \in PackOp \cup {NoAgent} :
          OpFound(o, step, a)
    BY <1>3 DEF FindInstalled, ReadConfig, FindPack, Finds, InPack, PackAgents
  <2>3. UNCHANGED <<stepOf, savedLate>>
    BY <1>3 DEF FindInstalled, ReadConfig, FindPack
  <2> QED
    BY <1>1, <2>1, <2>2, <2>3
<1>4. ASSUME NEW o \in PackOp, CreateAgent(o) \/ WriteConfig(o) \/ DeletePack(o) PROVE LateIsKnown'
  <2>1. OpTo(o, "done") /\ UNCHANGED <<stepOf, savedLate>>
    BY <1>4 DEF CreateAgent, WriteConfig, DeletePack
  <2>2. packOp'[o].at = "done" /\ \A q \in PackOp \ {o} : packOp'[q] = packOp[q]
    BY <1>0, <2>1 DEF OpTo, PackRequest
  <2> QED
    BY <1>1, <2>1, <2>2
<1>5. ASSUME NEW o \in PackOp, ReadDependencies(o) PROVE LateIsKnown'
  <2> DEFINE next == IF DependedOn(packOp[o].agent) THEN "done" ELSE "delete"
  <2>1. OpTo(o, next) /\ UNCHANGED stepOf /\ savedLate' = [savedLate EXCEPT ![o] = {}]
    BY <1>5 DEF ReadDependencies
  <2>2. next = "delete" => stepOf[packOp[o].agent] \notin {"PUBLISHED", "DRAFT"}
    BY DEF DependedOn
  <2> HIDE DEF next
  <2>3. packOp'[o].at = next /\ packOp'[o].agent = packOp[o].agent
    BY <1>0, <2>1 DEF OpTo, PackRequest
  <2>4. \A q \in PackOp \ {o} : packOp'[q] = packOp[q] /\ savedLate'[q] = savedLate[q]
    BY <1>0, <2>1 DEF OpTo
  <2> QED
    BY <2>1, <2>2, <2>3, <2>4 DEF LateIsKnown
<1>6. ASSUME NEW a \in PackOp, NEW status \in {"DRAFT", "PUBLISHED", "ARCHIVED"},
             SaveWorkflow(a, status)
      PROVE  LateIsKnown'
  <2>1. packOp' = packOp /\ stepOf' = [stepOf EXCEPT ![a] = status]
    BY <1>6 DEF SaveWorkflow
  <2>2. CASE status = "ARCHIVED"
    <3>1. savedLate' = savedLate
      BY <1>6, <2>2 DEF SaveWorkflow
    <3>2. ASSUME NEW b, stepOf'[b] \in {"PUBLISHED", "DRAFT"}, b \in PackOp
          PROVE  stepOf[b] \in {"PUBLISHED", "DRAFT"}
      BY <1>0, <2>1, <2>2, <3>2
    <3>3. \A q \in PackOp : packOp[q].at = "delete" => packOp[q].agent \in PackOp
      BY <1>0 DEF PackRequest, PacksInv, OpSound
    <3> QED
      BY <2>1, <3>1, <3>2, <3>3 DEF LateIsKnown
  <2>3. CASE status # "ARCHIVED"
    <3>1. \A q \in PackOp : savedLate'[q] = savedLate[q] \cup {a}
      BY <1>6, <2>3 DEF SaveWorkflow
    <3>2. \A b \in PackOp : b # a => stepOf'[b] = stepOf[b]
      BY <1>0, <2>1
    <3>3. \A q \in PackOp : packOp[q].at = "delete" => packOp[q].agent \in PackOp
      BY <1>0 DEF PackRequest, PacksInv, OpSound
    <3> QED
      BY <2>1, <3>1, <3>2, <3>3 DEF LateIsKnown
  <2> QED
    BY <2>2, <2>3
<1>7. CASE UNCHANGED packVars
  BY <1>7 DEF packVars, LateIsKnown
<1> QED
  BY <1>2, <1>3, <1>4, <1>5, <1>6, <1>7 DEF PacksNext, PackOpStep

\* A pack is uninstalled under a workflow only if that workflow came to name its
\* agent after uninstallPackAtomic had looked, however long the pause between.
THEOREM UninstallRace == PacksSpec => UninstallKeepsDependents
<1>1. PacksInit => LateIsKnown
  BY DEF PacksInit, NewPackRequest, LateIsKnown
<1>2. PacksInv /\ PacksInv' /\ LateIsKnown /\ [PacksNext]_packVars => LateIsKnown'
  BY LateStep
<1>3. PacksSpec => []LateIsKnown
  BY <1>1, <1>2, PacksInvariance, PTL DEF PacksSpec
<1>4. LateIsKnown => [\A o \in PackOp :
         DeletePack(o) /\ packOp[o].agent \in PackAgents /\
         stepOf[packOp[o].agent] \in {"PUBLISHED", "DRAFT"} =>
           packOp[o].agent \in savedLate[o]]_packVars
  BY DEF LateIsKnown, DeletePack, On
<1> QED
  BY <1>3, <1>4, PTL DEF UninstallKeepsDependents

\* A write other than a template drops no policy that its request had read: what
\* is lost was written between its read and its write.
THEOREM PoliciesRace == PacksSpec => PoliciesLostToRacesOnly
<1>1. ASSUME PacksInv, [PacksNext]_packVars,
             NEW o \in PackOp, NEW a \in PackAgents, NEW p \in PackOp,
             WriteConfig(o), packOp[o].agent = a, packOp[o].kind # "template",
             p \in packOp[o].seen.policies
      PROVE  p \in agents'[a].policies
  <2> DEFINE seen == packOp[o].seen
  <2>1. /\ packOp[o].at = "write" /\ a # NoAgent /\ a \in PackOp
        /\ agents' = [agents EXCEPT ![a] = NewConfig(o)]
    BY <1>1 DEF WriteConfig, PackAgents
  <2>2. agents'[a] = NewConfig(o)
    BY <1>1, <2>1 DEF PacksInv, PacksTypeOK
  <2>3. packOp[o].kind \in {"install", "version", "policy"}
    BY <1>1, <2>1, PackFacts DEF PacksInv, OpSound, PackOpKind
  <2>4. seen \in PackRow
    BY <1>1, <2>1, PackFacts, NoRowFacts DEF PacksInv, OpSound
  <2>5. /\ p \in [seen EXCEPT !.latest = 1].policies
        /\ p \in [seen EXCEPT !.latest = 2].policies
        /\ p \in [seen EXCEPT !.policies = @ \cup {o}].policies
    BY <1>1, <2>4 DEF PackRow
  <2>6. \/ NewConfig(o) = [seen EXCEPT !.latest = 1]
        \/ NewConfig(o) = [seen EXCEPT !.latest = 2]
        \/ NewConfig(o) = [seen EXCEPT !.policies = @ \cup {o}]
    <3>1. CASE packOp[o].kind = "install"
      BY <3>1 DEF NewConfig
    <3>2. CASE packOp[o].kind = "version"
      BY <3>2 DEF NewConfig
    <3>3. CASE packOp[o].kind = "policy"
      BY <3>3 DEF NewConfig
    <3> QED
      BY <2>3, <3>1, <3>2, <3>3
  <2> QED
    BY <2>2, <2>5, <2>6
<1>2. PacksInv /\ [PacksNext]_packVars => [\A o \in PackOp, a \in PackAgents, p \in PackOp :
       /\ WriteConfig(o) /\ packOp[o].agent = a /\ packOp[o].kind # "template"
       /\ p \in agents[a].policies \ agents'[a].policies
       => p \notin packOp[o].seen.policies]_packVars
  BY <1>1
<1> QED
  BY <1>2, PacksInvariance, PTL DEF PacksSpec, PoliciesLostToRacesOnly
=============================================================================
