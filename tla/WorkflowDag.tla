----------------------------- MODULE WorkflowDag -----------------------------
(***************************************************************************)
(* The check a canvas passes before it is stored: ensureCanvasIsDag of the *)
(* workflow service, which calls validateDag of                            *)
(* packages/workflows-core/src/parser/dagValidator.ts.                     *)
(*                                                                         *)
(* A step is one turn of a loop of the validator.  Nodes and transitions   *)
(* are gone through in the order of their lists: a transition is its       *)
(* position in input.edges, adjacency.get(n) the positions of those from   *)
(* n.  The canvas schema has already refused empty keys.                   *)
(***************************************************************************)
EXTENDS Integers, SequencesExt

CONSTANTS
  Input  \* families of canvases:
         \* [nodes : Seq(id), edges : Seq([source, target])]

ASSUME InputAssumption ==
  \A family \in DOMAIN Input : \A c \in Input[family] :
    c.nodes \in Seq(ToSet(c.nodes)) /\ c.edges \in Seq(ToSet(c.edges))

VARIABLES
  input,      \* the canvas of the request
  phase,      \* the function that runs, "done" once one returned or threw
  begun,      \* nodes from which the search was begun
  stack,      \* of getCyclePath, then of assertConnectedFromRoot
  visited,    \* of getCyclePath
  reachable,  \* of assertConnectedFromRoot
  indegree,   \* indegreeByNode
  queue,      \* of topologicalSort
  rest,       \* per node: transitions that its loop has still to take
  order,      \* topologicalOrder of the result
  verdict,    \* "pending", "accepted" or the check that threw
  cycle       \* path of the CyclicDependencyError

searchVars == <<input, begun, visited>>
loopVars == <<stack, reachable, indegree, queue, rest>>
resultVars == <<phase, order, verdict, cycle>>
vars == <<searchVars, loopVars, resultVars>>

Id == ToSet(input.nodes)

TypeOK ==
  /\ phase \in {"check", "search", "connect", "sort", "done"}
  /\ verdict \in {"pending", "accepted", "empty", "duplicateNode", "missingEndpoint", "isolated",
                  "cycle", "noRoot", "manyRoots", "unreachable", "unsortable"}
  /\ begun \in 0 .. Len(input.nodes)
  /\ visited \subseteq Id /\ reachable \subseteq Id
  /\ stack \in Seq(Id) /\ queue \in Seq(Id) /\ order \in Seq(Id) /\ cycle \in Seq(Id)
  /\ rest \in [Id -> SUBSET (DOMAIN input.edges)]
  /\ indegree \in [Id -> Int]

Init ==
  /\ \E family \in DOMAIN Input : input \in Input[family]
  /\ phase = "check" /\ verdict = "pending" /\ begun = 0
  /\ stack = <<>> /\ queue = <<>> /\ order = <<>> /\ cycle = <<>>
  /\ visited = {} /\ reachable = {}
  /\ rest = [n \in Id |-> {}] /\ indegree = [n \in Id |-> 0]

-----------------------------------------------------------------------------

Source(i) == input.edges[i].source
Target(i) == input.edges[i].target
Outgoing(n) == {i \in DOMAIN input.edges : Source(i) = n}
Incoming(n) == {i \in DOMAIN input.edges : Target(i) = n}

\* Parallel transitions count each.
MutantDistinctSources(n) == Cardinality({Source(i) : i \in Incoming(n)})
Indegree(n) == Cardinality(Incoming(n))

Throw(check, path) == phase' = "done" /\ verdict' = check /\ cycle' = path /\ order' = <<>>
GoTo(next) == phase' = next /\ UNCHANGED <<order, verdict, cycle>>

NodesAreFine == input.nodes # <<>> /\ IsInjective(input.nodes)

MutantSelfLoopsOnly == {i \in DOMAIN input.edges : Source(i) = Target(i)}
BadEdges == {i \in DOMAIN input.edges : {Source(i), Target(i)} \ Id # {} \/ Source(i) = Target(i)}

HasIsolated ==
  Len(input.nodes) > 1 /\ \E n \in Id : Outgoing(n) = {} /\ Incoming(n) = {}

\* Of the bad edges the first throws, its endpoints before its loop.
ThrowForEdge(i) ==
  IF {Source(i), Target(i)} \subseteq Id THEN Throw("cycle", <<Source(i), Target(i)>>)
  ELSE Throw("missingEndpoint", <<>>)

RefuseGraph ==
  /\ phase = "check"
  /\ \/ input.nodes = <<>> /\ Throw("empty", <<>>)
     \/ input.nodes # <<>> /\ ~NodesAreFine /\ Throw("duplicateNode", <<>>)
     \/ NodesAreFine /\ BadEdges # {} /\ ThrowForEdge(Min(BadEdges))
     \/ NodesAreFine /\ BadEdges = {} /\ HasIsolated /\ Throw("isolated", <<>>)
  /\ UNCHANGED <<searchVars, loopVars>>

PassGraph ==
  /\ phase = "check" /\ NodesAreFine /\ BadEdges = {} /\ ~HasIsolated
  /\ indegree' = [n \in Id |-> Indegree(n)]
  /\ GoTo("search")
  /\ UNCHANGED <<searchVars, stack, reachable, queue, rest>>

-----------------------------------------------------------------------------
(* getCyclePath *)

\* visiting and stack gain and lose a node together.
MutantNeverLeft(n) == n \in visited \/ Contains(stack, n)
OnPath(n) == Contains(stack, n)

MutantWholeStack(n) == Append(stack, n)
CycleFrom(n) ==
  IF ~Contains(stack, n) THEN <<n, n>>
  ELSE LET start == CHOOSE k \in DOMAIN stack : stack[k] = n
       IN Append(SubSeq(stack, start, Len(stack)), n)

\* The next call: validateDag's for a node, or for a target of the last on the stack.
Calls ==
  /\ phase = "search"
  /\ IF stack = <<>> THEN begun < Len(input.nodes) ELSE rest[Last(stack)] # {}
Callee == IF stack = <<>> THEN input.nodes[begun + 1] ELSE Target(Min(rest[Last(stack)]))

CloseCycle ==
  /\ Calls /\ OnPath(Callee)
  /\ Throw("cycle", CycleFrom(Callee))
  /\ UNCHANGED <<searchVars, loopVars>>

CallOn ==
  /\ Calls /\ ~OnPath(Callee)
  /\ begun' = IF stack = <<>> THEN begun + 1 ELSE begun
  /\ LET left == IF stack = <<>> THEN rest ELSE [rest EXCEPT ![Last(stack)] = @ \ {Min(@)}]
     IN IF Callee \in visited THEN rest' = left /\ stack' = stack
        ELSE /\ rest' = [left EXCEPT ![Callee] = Outgoing(Callee)]
             /\ stack' = Append(stack, Callee)
  /\ UNCHANGED <<input, visited, reachable, indegree, queue, resultVars>>

LeaveNode ==
  /\ phase = "search" /\ stack # <<>> /\ rest[Last(stack)] = {}
  /\ stack' = Front(stack)
  /\ visited' = visited \cup {Last(stack)}
  /\ UNCHANGED <<input, begun, reachable, indegree, queue, rest, resultVars>>

-----------------------------------------------------------------------------
(* The roots and assertConnectedFromRoot *)

SearchIsOver == phase = "search" /\ stack = <<>> /\ begun = Len(input.nodes)
Roots == {n \in Id : indegree[n] = 0}

RefuseRoots ==
  /\ SearchIsOver /\ Cardinality(Roots) # 1
  /\ Throw(IF Roots = {} THEN "noRoot" ELSE "manyRoots", <<>>)
  /\ UNCHANGED <<searchVars, loopVars>>

\* topologicalSort starts with the same node, which it finds by itself.
StartAtRoot ==
  /\ SearchIsOver
  /\ \E root \in Id : Roots = {root} /\ stack' = <<root>> /\ queue' = <<root>>
  /\ GoTo("connect")
  /\ UNCHANGED <<searchVars, reachable, indegree, rest>>

NoneInHand == \A n \in Id : rest[n] = {}

TakeFromStack ==
  /\ phase = "connect" /\ NoneInHand /\ stack # <<>>
  /\ LET n == Last(stack) IN
     /\ stack' = Front(stack)
     /\ reachable' = reachable \cup {n}
     /\ rest' = IF n \in reachable THEN rest ELSE [rest EXCEPT ![n] = Outgoing(n)]
  /\ UNCHANGED <<searchVars, indegree, queue, resultVars>>

PushTarget(n) ==
  /\ phase = "connect" /\ rest[n] # {}
  /\ rest' = [rest EXCEPT ![n] = @ \ {Min(@)}]
  /\ LET t == Target(Min(rest[n])) IN
     stack' = IF t \in reachable THEN stack ELSE Append(stack, t)
  /\ UNCHANGED <<searchVars, reachable, indegree, queue, resultVars>>

EndConnect ==
  /\ phase = "connect" /\ NoneInHand /\ stack = <<>>
  /\ IF Cardinality(reachable) = Len(input.nodes) THEN GoTo("sort") ELSE Throw("unreachable", <<>>)
  /\ UNCHANGED <<searchVars, loopVars>>

-----------------------------------------------------------------------------
(* topologicalSort *)

TakeFromQueue ==
  /\ phase = "sort" /\ NoneInHand /\ queue # <<>>
  /\ queue' = Tail(queue)
  /\ order' = Append(order, Head(queue))
  /\ rest' = [rest EXCEPT ![Head(queue)] = Outgoing(Head(queue))]
  /\ UNCHANGED <<searchVars, stack, reachable, indegree, phase, verdict, cycle>>

CountDown(n) ==
  /\ phase = "sort" /\ rest[n] # {}
  /\ rest' = [rest EXCEPT ![n] = @ \ {Min(@)}]
  /\ LET t == Target(Min(rest[n])) IN
     /\ indegree' = [indegree EXCEPT ![t] = @ - 1]
     /\ queue' = IF indegree[t] - 1 = 0 THEN Append(queue, t) ELSE queue
  /\ UNCHANGED <<searchVars, stack, reachable, resultVars>>

EndSort ==
  /\ phase = "sort" /\ NoneInHand /\ queue = <<>>
  /\ IF Len(order) = Len(input.nodes)
     THEN phase' = "done" /\ verdict' = "accepted" /\ UNCHANGED <<order, cycle>>
     ELSE Throw("unsortable", <<>>)
  /\ UNCHANGED <<searchVars, loopVars>>

ensureCanvasIsDag ==
  \/ RefuseGraph \/ PassGraph
  \/ CloseCycle \/ CallOn \/ LeaveNode \/ RefuseRoots \/ StartAtRoot
  \/ TakeFromStack \/ (\E n \in Id : PushTarget(n)) \/ EndConnect
  \/ TakeFromQueue \/ (\E n \in Id : CountDown(n)) \/ EndSort

Spec == Init /\ [][ensureCanvasIsDag]_vars

-----------------------------------------------------------------------------
(***************************************************************************)
(* What the canvas editor and the engine take from the check, said without *)
(* a search: a node leads to whatever no closed set keeps it from.         *)
(***************************************************************************)

Closed(S) == \A i \in DOMAIN input.edges : Source(i) \in S => Target(i) \in S
LeadsTo(m, n) == \A S \in SUBSET Id : m \in S /\ Closed(S) => n \in S

IsRootedDag ==
  /\ Id # {} /\ IsInjective(input.nodes)
  /\ \A i \in DOMAIN input.edges : Source(i) \in Id /\ Target(i) \in Id
  /\ \A i \in DOMAIN input.edges : ~LeadsTo(Target(i), Source(i))
  /\ \E root \in Id : \A n \in Id : LeadsTo(root, n)

\* Accepted are exactly the acyclic graphs with one node that leads to all
\* others, whatever the order in which steps and transitions are listed
\* (visited and visiting shared by the searches of getCyclePath).  Three of
\* the checks only guard the algorithm: an acyclic graph has a root, a single
\* root leads everywhere, and the sort then gets to every node.
AcceptsRootedDags ==
  verdict # "pending" =>
    /\ verdict = "accepted" <=> IsRootedDag
    /\ verdict \notin {"noRoot", "unreachable", "unsortable"}

\* The order lists every step once, each after all its predecessors, also
\* with parallel transitions (the indegrees topologicalSort counts down).
OrderIsTopological ==
  verdict = "accepted" =>
    /\ IsInjective(order) /\ ToSet(order) = Id
    /\ \A i, j \in DOMAIN order : LeadsTo(order[i], order[j]) => i <= j

\* The path of a CyclicDependencyError is a shortest account of a cycle: it
\* follows transitions back to its first step and meets no other step twice.
ReportsACycle ==
  verdict = "cycle" =>
    /\ Len(cycle) > 1 /\ cycle[1] = Last(cycle) /\ IsInjective(Tail(cycle))
    /\ \A k \in 1 .. Len(cycle) - 1 :
         \E i \in DOMAIN input.edges : Source(i) = cycle[k] /\ Target(i) = cycle[k + 1]
=============================================================================
