------------------------- MODULE WorkflowDag_proofs -------------------------
(***************************************************************************)
(* Proofs about WorkflowDag: for every canvas validateDag accepts exactly  *)
(* the rooted acyclic ones, sorts them, and accounts for a cycle by a path *)
(* along it.                                                               *)
(***************************************************************************)
EXTENDS WorkflowDag, FiniteSetTheorems, SequenceTheorems, TLAPS

-----------------------------------------------------------------------------
(* The invariant *)

Edges == DOMAIN input.edges
IsGiven == input.nodes \in Seq(Id) /\ input.edges \in Seq(ToSet(input.edges))

\* Of any nodes of V, one is entered from none of them: V has no cycle.
Unwinds(V) ==
  \A S \in SUBSET V : S # {} => \E n \in S : \A i \in Edges : Target(i) = n => Source(i) \notin S

OneRoot == \E root \in Id : \A n \in Id : Incoming(n) = {} <=> n = root

Checked == NodesAreFine /\ BadEdges = {} /\ ~HasIsolated
Counted == indegree = [n \in Id |-> Indegree(n)]
RestIsOutgoing == \A n \in Id : rest[n] \subseteq Outgoing(n)

\* A transition of the k-th on the stack is still to take, is done with, or led
\* to the next on the stack.
Followed(k) ==
  \A i \in Outgoing(stack[k]) :
    \/ i \in rest[stack[k]] \/ Target(i) \in visited
    \/ k < Len(stack) /\ Target(i) = stack[k + 1]

\* What is visited has no cycle and is left by no transition, so that a cycle
\* can only be closed on the stack, which is a path.
Searching ==
  /\ Checked /\ Counted /\ RestIsOutgoing
  /\ Unwinds(visited) /\ Closed(visited)
  /\ IsInjective(stack) /\ \A k \in DOMAIN stack : stack[k] \notin visited
  /\ \A k \in DOMAIN stack : Followed(k)
  /\ \A k \in 1 .. Len(stack) - 1 :
       \E i \in Edges : Source(i) = stack[k] /\ Target(i) = stack[k + 1]
  /\ \A n \in Id : n \in ToSet(stack) \/ rest[n] = {}
  /\ \A k \in 1 .. begun : input.nodes[k] \in visited \cup ToSet(stack)
  /\ reachable = {} /\ order = <<>> /\ cycle = <<>>

\* Transitions of what was reached lead to what was reached or is on the stack.
Connecting ==
  /\ Checked /\ Counted /\ RestIsOutgoing /\ Unwinds(Id) /\ OneRoot
  /\ \A n \in Id : Incoming(n) = {} => n \in reachable \cup ToSet(stack) /\ queue = <<n>>
  /\ \A n \in reachable : \A i \in Outgoing(n) :
       i \in rest[n] \/ Target(i) \in reachable \cup ToSet(stack)
  /\ \A n \in Id : n \in reachable \/ rest[n] = {}
  /\ order = <<>>

\* Transitions into n that topologicalSort did not count down yet.
Missing(n) ==
  {i \in Incoming(n) : Source(i) \notin ToSet(order) \/ i \in rest[Source(i)]}

\* The counts are of what is missing, and whoever misses nothing was queued once.
Sorting ==
  /\ Checked /\ RestIsOutgoing /\ Unwinds(Id) /\ OneRoot
  /\ \A n \in Id : indegree[n] = Cardinality(Missing(n))
  /\ \A n \in Id : n \in ToSet(order) \/ rest[n] = {}
  /\ IsInjective(order) /\ IsInjective(queue) /\ ToSet(order) \cap ToSet(queue) = {}
  /\ ToSet(order) \cup ToSet(queue) = {n \in Id : Missing(n) = {}}
  /\ \A i \in Edges : \A b \in DOMAIN order :
       Target(i) = order[b] => \E a \in DOMAIN order : a < b /\ order[a] = Source(i)

Ended ==
  /\ verdict # "pending"
  /\ AcceptsRootedDags /\ OrderIsTopological /\ ReportsACycle

DagInv ==
  /\ IsGiven /\ TypeOK
  /\ phase # "done" => verdict = "pending"
  /\ phase = "check" => stack = <<>> /\ queue = <<>> /\ order = <<>> /\ begun = 0 /\ visited = {}
                        /\ reachable = {} /\ cycle = <<>> /\ rest = [n \in Id |-> {}]
  /\ phase = "search" => Searching
  /\ phase = "connect" => Connecting
  /\ phase = "sort" => Sorting
  /\ phase = "done" => Ended

-----------------------------------------------------------------------------
(* Sets of numbers and lists                                               *)

LEMMA LeastOf ==
  ASSUME NEW S \in SUBSET Nat, S # {}
  PROVE  Min(S) \in S /\ \A y \in S : Min(S) <= y
  <1>1. S \subseteq Nat /\ S # {}
    OBVIOUS
  <1>2. PICK x \in S : \A y \in S : ~ (<<y, x>> \in OpToRel(<, Nat))
    BY <1>1, NatLessThanWellFounded, WFMin, Zenon
  <1>3. \A y \in S : x <= y
    <2>1. \A y \in S : ~(y < x)
      BY <1>1, <1>2 DEF OpToRel
    <2>2. QED
      BY <1>1, <2>1
  <1>4. QED
    BY <1>3 DEF Min

\* A list lists what it contains, finitely many.
LEMMA Listed ==
  ASSUME NEW T, NEW s \in Seq(T)
  PROVE  /\ Len(s) \in Nat /\ DOMAIN s = 1 .. Len(s)
         /\ \A k \in 1 .. Len(s) : s[k] \in T /\ s[k] \in ToSet(s)
         /\ \A x \in ToSet(s) : x \in T /\ \E k \in 1 .. Len(s) : s[k] = x
         /\ s = <<>> <=> Len(s) = 0
         /\ s = <<>> <=> ToSet(s) = {}
  <1>1. Len(s) \in Nat /\ DOMAIN s = 1 .. Len(s) /\ s \in [1 .. Len(s) -> T]
    BY LenProperties
  <1>2. s = <<>> <=> Len(s) = 0
    BY EmptySeq, SMT
  <1>3. /\ \A k \in 1 .. Len(s) : s[k] \in T /\ s[k] \in ToSet(s)
        /\ \A x \in ToSet(s) : x \in T /\ \E k \in 1 .. Len(s) : s[k] = x
    BY <1>1 DEF ToSet
  <1>4. s = <<>> <=> ToSet(s) = {}
    <2>1. ASSUME Len(s) # 0 PROVE 1 \in 1 .. Len(s)
      BY <1>1, <2>1
    <2>2. ASSUME Len(s) = 0 PROVE 1 .. Len(s) = {}
      BY <2>2
    <2>3. QED
      BY <1>1, <1>2, <1>3, <2>1, <2>2
  <1>5. QED
    BY <1>1, <1>2, <1>3, <1>4

\* A list that repeats nothing is as long as the set it lists.
LEMMA ListedCount ==
  ASSUME NEW T, NEW s \in Seq(T)
  PROVE  /\ IsFiniteSet(ToSet(s)) /\ Cardinality(ToSet(s)) \in Nat
         /\ Cardinality(ToSet(s)) = Len(s) <=> IsInjective(s)
  <1> DEFINE D == 1 .. Len(s)
  <1>1. Len(s) \in Nat /\ DOMAIN s = D /\ s \in [D -> T]
    BY LenProperties
  <1>2. IsFiniteSet(D) /\ Cardinality(D) = Len(s)
    <2>1. 1 \in Int /\ Len(s) \in Int
      BY <1>1
    <2>2. /\ IsFiniteSet(1 .. Len(s))
          /\ Cardinality(1 .. Len(s)) = IF 1 > Len(s) THEN 0 ELSE Len(s) - 1 + 1
      BY <2>1, FS_Interval, Zenon
    <2>3. QED
      BY <1>1, <2>2
  <1>3. s \in Surjection(D, ToSet(s))
    BY <1>1 DEF Surjection, ToSet
  <1>4. /\ IsFiniteSet(ToSet(s))
        /\ Cardinality(ToSet(s)) = Cardinality(D) <=> s \in Injection(D, ToSet(s))
    BY <1>2, <1>3, FS_Surjection, Zenon
  <1>5. s \in Injection(D, ToSet(s)) <=> IsInjective(s)
    BY <1>1, <1>3 DEF Injection, IsInjective, ToSet
  <1>6. QED
    BY <1>2, <1>4, <1>5, FS_CardinalityType, Zenon

LEMMA WithoutLast ==
  ASSUME NEW T, NEW s \in Seq(T), s # <<>>
  PROVE  /\ Len(s) \in Nat \ {0} /\ Len(s) \in 1 .. Len(s) /\ Len(s) \in DOMAIN s
         /\ Last(s) = s[Len(s)] /\ Last(s) \in T
         /\ Front(s) \in Seq(T) /\ Len(Front(s)) = Len(s) - 1
         /\ \A k \in 1 .. Len(s) - 1 : Front(s)[k] = s[k]
         /\ ToSet(s) = ToSet(Front(s)) \cup {Last(s)}
         /\ IsInjective(s) => Last(s) \notin ToSet(Front(s)) /\ IsInjective(Front(s))
  <1>1. Len(s) \in Nat \ {0} /\ s \in [1 .. Len(s) -> T] /\ DOMAIN s = 1 .. Len(s)
    BY EmptySeq, LenProperties
  <1>2. Len(s) \in 1 .. Len(s)
    BY <1>1
  <1>3. Last(s) = s[Len(s)] /\ Last(s) \in T
    BY <1>1, <1>2 DEF Last
  <1>4. \A k \in 1 .. Len(s) - 1 : s[k] \in T
    BY <1>1
  <1>5. /\ Front(s) \in Seq(T) /\ Len(Front(s)) = Len(s) - 1
        /\ \A k \in 1 .. Len(s) - 1 : Front(s)[k] = s[k]
    <2>1. /\ SubSeq(s, 1, Len(s) - 1) \in Seq(T)
          /\ Len(SubSeq(s, 1, Len(s) - 1)) = IF 1 <= Len(s) - 1 THEN Len(s) - 1 - 1 + 1 ELSE 0
          /\ \A k \in 1 .. Len(s) - 1 - 1 + 1 : SubSeq(s, 1, Len(s) - 1)[k] = s[1 + k - 1]
      <3>1. 1 \in Int /\ Len(s) - 1 \in Int
        BY <1>1
      <3>2. QED
        BY <1>4, <3>1, SubSeqProperties
    <2>2. QED
      BY <1>1, <2>1 DEF Front
  <1>6. DOMAIN Front(s) = 1 .. Len(s) - 1
    BY <1>5, LenProperties
  <1>7. ToSet(s) = ToSet(Front(s)) \cup {Last(s)}
    <2>1. 1 .. Len(s) = (1 .. Len(s) - 1) \cup {Len(s)}
      BY <1>1
    <2>2. QED
      BY <1>1, <1>3, <1>5, <1>6, <2>1 DEF ToSet
  <1>8. ASSUME IsInjective(s) PROVE Last(s) \notin ToSet(Front(s)) /\ IsInjective(Front(s))
    <2>1. ASSUME NEW k \in 1 .. Len(s) - 1 PROVE k \in 1 .. Len(s) /\ k # Len(s)
      <3>1. Len(s) \in Nat /\ k \in Int /\ 1 <= k /\ k <= Len(s) - 1
        BY <1>1
      <3>2. QED
        BY <3>1
    <2>2. \A a, b \in 1 .. Len(s) : s[a] = s[b] => a = b
      BY <1>1, <1>8 DEF IsInjective
    <2>3. Last(s) \notin ToSet(Front(s))
      <3>1. ASSUME NEW k \in 1 .. Len(s) - 1 PROVE Front(s)[k] # Last(s)
        BY <1>2, <1>3, <1>5, <2>1, <2>2
      <3>2. QED
        BY <1>6, <3>1 DEF ToSet
    <2>4. IsInjective(Front(s))
      BY <1>5, <1>6, <2>1, <2>2 DEF IsInjective
    <2>5. QED
      BY <2>3, <2>4
  <1>9. QED
    BY <1>1, <1>2, <1>3, <1>5, <1>7, <1>8

LEMMA WithoutFirst ==
  ASSUME NEW T, NEW s \in Seq(T), s # <<>>
  PROVE  /\ Head(s) \in T /\ Tail(s) \in Seq(T) /\ Len(Tail(s)) = Len(s) - 1
         /\ \A k \in 1 .. Len(s) - 1 : Tail(s)[k] = s[k + 1]
         /\ ToSet(s) = ToSet(Tail(s)) \cup {Head(s)}
         /\ IsInjective(s) => Head(s) \notin ToSet(Tail(s)) /\ IsInjective(Tail(s))
  <1>1. Len(s) \in Nat \ {0} /\ s \in [1 .. Len(s) -> T] /\ DOMAIN s = 1 .. Len(s)
    BY EmptySeq, LenProperties
  <1>2. /\ Head(s) \in T /\ Tail(s) \in Seq(T) /\ Len(Tail(s)) = Len(s) - 1
        /\ \A k \in 1 .. Len(s) - 1 : Tail(s)[k] = s[k + 1]
    BY HeadTailProperties
  <1>3. Head(s) = s[1] /\ 1 \in 1 .. Len(s)
    BY <1>1
  <1>4. DOMAIN Tail(s) = 1 .. Len(s) - 1
    BY <1>2, LenProperties
  <1>5. ToSet(s) = ToSet(Tail(s)) \cup {Head(s)}
    <2>1. ASSUME NEW k \in 1 .. Len(s) PROVE k = 1 \/ (k - 1 \in 1 .. Len(s) - 1 /\ k = (k - 1) + 1)
      BY <1>1
    <2>2. ASSUME NEW k \in 1 .. Len(s) - 1 PROVE k + 1 \in 1 .. Len(s)
      BY <1>1
    <2>3. ToSet(s) \subseteq ToSet(Tail(s)) \cup {Head(s)}
      <3>1. SUFFICES ASSUME NEW k \in 1 .. Len(s) PROVE s[k] \in ToSet(Tail(s)) \cup {Head(s)}
        BY <1>1 DEF ToSet
      <3>2. CASE k = 1
        BY <1>3, <3>2
      <3>3. CASE k # 1
        <4>1. k - 1 \in DOMAIN Tail(s) /\ Tail(s)[k - 1] = s[k]
          BY <1>2, <1>4, <2>1, <3>3
        <4>2. QED
          BY <4>1 DEF ToSet
      <3>4. QED
        BY <3>2, <3>3
    <2>4. ToSet(Tail(s)) \cup {Head(s)} \subseteq ToSet(s)
      BY <1>1, <1>2, <1>3, <1>4, <2>2 DEF ToSet
    <2>5. QED
      BY <2>3, <2>4
  <1>6. ASSUME IsInjective(s) PROVE Head(s) \notin ToSet(Tail(s)) /\ IsInjective(Tail(s))
    <2>1. \A a, b \in 1 .. Len(s) : s[a] = s[b] => a = b
      BY <1>1, <1>6 DEF IsInjective
    <2>2. ASSUME NEW k \in 1 .. Len(s) - 1 PROVE k + 1 \in 1 .. Len(s) /\ k + 1 # 1 /\ Tail(s)[k] = s[k + 1]
      BY <1>1, <1>2
    <2>3. Head(s) \notin ToSet(Tail(s))
      BY <1>3, <1>4, <2>1, <2>2 DEF ToSet
    <2>4. ASSUME NEW a \in 1 .. Len(s) - 1, NEW b \in 1 .. Len(s) - 1, Tail(s)[a] = Tail(s)[b]
          PROVE  a = b
      <3>1. a + 1 = b + 1
        BY <2>1, <2>2, <2>4
      <3>2. QED
        BY <3>1
    <2>5. QED
      BY <1>4, <2>3, <2>4 DEF IsInjective
  <1>7. QED
    BY <1>2, <1>5, <1>6

LEMMA WithAnother ==
  ASSUME NEW T, NEW s \in Seq(T), NEW x \in T
  PROVE  /\ Append(s, x) \in Seq(T) /\ Len(Append(s, x)) = Len(s) + 1 /\ Append(s, x) # <<>>
         /\ Len(s) \in Nat /\ DOMAIN Append(s, x) = 1 .. Len(s) + 1
         /\ \A k \in 1 .. Len(s) : Append(s, x)[k] = s[k]
         /\ Append(s, x)[Len(s) + 1] = x
         /\ ToSet(Append(s, x)) = ToSet(s) \cup {x}
         /\ IsInjective(s) /\ x \notin ToSet(s) => IsInjective(Append(s, x))
  <1>1. Len(s) \in Nat /\ DOMAIN s = 1 .. Len(s)
    BY LenProperties
  <1>2. /\ Append(s, x) \in Seq(T) /\ Len(Append(s, x)) = Len(s) + 1 /\ Append(s, x) # <<>>
        /\ \A k \in 1 .. Len(s) : Append(s, x)[k] = s[k]
        /\ Append(s, x)[Len(s) + 1] = x
    BY AppendProperties
  <1>3. DOMAIN Append(s, x) = 1 .. Len(s) + 1
    BY <1>2, LenProperties
  <1>4. 1 .. Len(s) + 1 = (1 .. Len(s)) \cup {Len(s) + 1}
    BY <1>1
  <1>5. ToSet(Append(s, x)) = ToSet(s) \cup {x}
    BY <1>1, <1>2, <1>3, <1>4 DEF ToSet
  <1>6. ASSUME IsInjective(s), x \notin ToSet(s) PROVE IsInjective(Append(s, x))
    <2>1. \A a, b \in 1 .. Len(s) : s[a] = s[b] => a = b
      BY <1>1, <1>6 DEF IsInjective
    <2>2. \A a \in 1 .. Len(s) : s[a] # x
      BY <1>1, <1>6 DEF ToSet
    <2>3. QED
      BY <1>2, <1>3, <1>4, <2>1, <2>2 DEF IsInjective
  <1>7. QED
    BY <1>1, <1>2, <1>3, <1>5, <1>6

-----------------------------------------------------------------------------
(* The canvas *)

LEMMA Given ==
  ASSUME IsGiven
  PROVE  /\ Len(input.nodes) \in Nat
         /\ DOMAIN input.nodes = 1 .. Len(input.nodes)
         /\ \A k \in 1 .. Len(input.nodes) : input.nodes[k] \in Id
         /\ \A x \in Id : \E k \in 1 .. Len(input.nodes) : input.nodes[k] = x
         /\ input.nodes = <<>> <=> Id = {}
         /\ IsFiniteSet(Id) /\ Cardinality(Id) \in Nat
         /\ Cardinality(Id) = Len(input.nodes) <=> IsInjective(input.nodes)
         /\ Edges \subseteq Nat /\ IsFiniteSet(Edges)
  <1>1. input.nodes \in Seq(Id) /\ Id = ToSet(input.nodes)
    BY DEF IsGiven, Id
  <1>2. /\ Len(input.nodes) \in Nat
        /\ DOMAIN input.nodes = 1 .. Len(input.nodes)
        /\ \A k \in 1 .. Len(input.nodes) : input.nodes[k] \in Id
        /\ \A x \in Id : \E k \in 1 .. Len(input.nodes) : input.nodes[k] = x
        /\ input.nodes = <<>> <=> Id = {}
    <2>1. input.nodes \in Seq(Id)
      BY <1>1
    <2>2. ASSUME NEW s \in Seq(Id), Id = ToSet(s)
          PROVE  /\ Len(s) \in Nat /\ DOMAIN s = 1 .. Len(s)
                 /\ \A k \in 1 .. Len(s) : s[k] \in Id
                 /\ \A x \in Id : \E k \in 1 .. Len(s) : s[k] = x
                 /\ s = <<>> <=> Id = {}
      BY <2>2, Listed
    <2>3. QED
      BY <1>1, <2>1, <2>2
  <1>3. /\ IsFiniteSet(Id) /\ Cardinality(Id) \in Nat
        /\ Cardinality(Id) = Len(input.nodes) <=> IsInjective(input.nodes)
    BY <1>1, ListedCount
  <1>4. Len(input.edges) \in Nat /\ Edges = 1 .. Len(input.edges)
    <2>1. input.edges \in Seq(ToSet(input.edges))
      BY DEF IsGiven
    <2>2. QED
      BY <2>1, LenProperties DEF Edges
  <1>5. Edges \subseteq Nat /\ IsFiniteSet(Edges)
    BY <1>4, FS_Interval
  <1>6. QED
    BY <1>2, <1>3, <1>5

LEMMA SameCanvas ==
  ASSUME input' = input
  PROVE  /\ Id' = Id /\ Edges' = Edges /\ (IsGiven' <=> IsGiven) /\ (Checked' <=> Checked)
         /\ (OneRoot' <=> OneRoot)
         /\ \A i : Source(i)' = Source(i) /\ Target(i)' = Target(i)
         /\ \A n : Outgoing(n)' = Outgoing(n) /\ Incoming(n)' = Incoming(n)
         /\ \A n : Indegree(n)' = Indegree(n)
         /\ (Unwinds(Id)' <=> Unwinds(Id))
         /\ (IsRootedDag' <=> IsRootedDag)
  <1>1. Id' = Id /\ Edges' = Edges
    BY DEF Id, Edges
  <1>2. \A i : Source(i)' = Source(i) /\ Target(i)' = Target(i)
    BY DEF Source, Target
  <1>3. \A n : Outgoing(n)' = Outgoing(n) /\ Incoming(n)' = Incoming(n)
    BY DEF Outgoing, Incoming, Source, Target
  <1>4. \A n : Indegree(n)' = Indegree(n)
    BY DEF Indegree, Incoming, Target
  <1>5. Unwinds(Id)' <=> Unwinds(Id)
    BY DEF Unwinds, Edges, Source, Target, Id
  <1>6. IsGiven' <=> IsGiven
    BY DEF IsGiven, Id
  <1>7. Checked' <=> Checked
    BY DEF Checked, NodesAreFine, BadEdges, HasIsolated, Outgoing, Incoming, Source, Target, Id
  <1>8. OneRoot' <=> OneRoot
    BY DEF OneRoot, Incoming, Target, Id
  <1>9. IsRootedDag' <=> IsRootedDag
    BY DEF IsRootedDag, LeadsTo, Closed, Source, Target, Id
  <1>10. QED
    BY <1>1, <1>2, <1>3, <1>4, <1>5, <1>6, <1>7, <1>8, <1>9

LEMMA Ends ==
  ASSUME BadEdges = {}, NEW i \in Edges
  PROVE  Source(i) \in Id /\ Target(i) \in Id /\ Source(i) # Target(i)
  BY DEF BadEdges, Edges

LEMMA IndegreeIsCount ==
  ASSUME IsGiven, NEW n \in Id
  PROVE  /\ IsFiniteSet(Incoming(n)) /\ Indegree(n) \in Nat
         /\ Indegree(n) = 0 <=> Incoming(n) = {}
  <1>1. IsFiniteSet(Incoming(n))
    <2>1. Incoming(n) \subseteq Edges
      BY DEF Incoming, Edges
    <2>2. QED
      BY <2>1, Given, FS_Subset
  <1>2. QED
    BY <1>1, FS_CardinalityType, FS_EmptySet DEF Indegree

\* A step is lost to a search that keeps to a closed set.
LEMMA NotLed ==
  ASSUME NEW S \in SUBSET Id, Closed(S), NEW m \in S, NEW n \in Id, n \notin S
  PROVE  ~LeadsTo(m, n)
  BY DEF LeadsTo

\* Nothing but the root of a rooted graph is entered by no transition.
LEMMA RootedFrom ==
  ASSUME \A i \in Edges : Target(i) \in Id,
         NEW root \in Id, \A n \in Id : LeadsTo(root, n),
         NEW n \in Id, Incoming(n) = {}
  PROVE  n = root
  <1>1. Closed(Id \ {n})
    BY DEF Closed, Incoming, Edges
  <1>2. QED
    BY <1>1, NotLed

\* What leads from one step to the next, and the next to a third, leads there.
LEMMA LeadsOn ==
  ASSUME NEW i \in Edges, NEW x
  PROVE  /\ LeadsTo(x, Source(i)) => LeadsTo(x, Target(i))
         /\ LeadsTo(Target(i), x) => LeadsTo(Source(i), x)
  BY DEF LeadsTo, Closed, Edges

\* A closed path of transitions: the first of them can be gone back.
LEMMA CycleIsNoDag ==
  ASSUME NEW c \in Seq(Id), Len(c) > 1, c[1] = Last(c),
         \A k \in 1 .. Len(c) - 1 : \E i \in Edges : Source(i) = c[k] /\ Target(i) = c[k + 1]
  PROVE  ~IsRootedDag
  <1>1. Len(c) \in Nat /\ c[1] = c[Len(c)]
    BY LenProperties DEF Last
  <1>2. PICK i \in Edges : Source(i) = c[1] /\ Target(i) = c[2]
    <2>1. 1 \in 1 .. Len(c) - 1 /\ 1 + 1 = 2
      BY <1>1
    <2>2. QED
      BY <2>1
  <1>3. ASSUME NEW S \in SUBSET Id, c[2] \in S, Closed(S), c[1] \notin S
        PROVE  FALSE
    <2> DEFINE Out == {k \in 2 .. Len(c) : c[k] \notin S}
    <2>1. Out \in SUBSET Nat /\ Len(c) \in Out
      BY <1>1, <1>3
    <2>2. PICK k \in Out : \A l \in Out : k <= l
      <3>1. Out # {}
        BY <2>1
      <3>2. Min(Out) \in Out /\ \A l \in Out : Min(Out) <= l
        BY <2>1, <3>1, LeastOf
      <3>3. QED
        BY <3>2
    <2>3. k \in 3 .. Len(c)
      BY <1>1, <1>3
    <2>4. k - 1 \in 2 .. Len(c) /\ k - 1 \in 1 .. Len(c) - 1 /\ (k - 1) + 1 = k /\ ~(k <= k - 1)
      BY <1>1, <2>3
    <2>5. c[k - 1] \in S
      BY <2>2, <2>4
    <2>6. PICK j \in Edges : Source(j) = c[k - 1] /\ Target(j) = c[k]
      BY <2>4
    <2>7. QED
      BY <1>3, <2>5, <2>6 DEF Closed, Edges
  <1>4. LeadsTo(Target(i), Source(i))
    BY <1>2, <1>3 DEF LeadsTo
  <1>5. QED
    BY <1>4 DEF IsRootedDag, Edges

\* A single step that nothing enters leads to all steps, if no steps are all
\* entered from each other; and then nothing leads back.
LEMMA UnwoundIsDag ==
  ASSUME IsGiven, Checked, Unwinds(Id), OneRoot
  PROVE  IsRootedDag
  <1>1. /\ Id # {} /\ IsInjective(input.nodes)
        /\ \A i \in Edges : Source(i) \in Id /\ Target(i) \in Id
    BY Given, Ends DEF Checked, NodesAreFine
  <1>2. PICK root \in Id : \A n \in Id : Incoming(n) = {} <=> n = root
    BY DEF OneRoot
  <1>3. ASSUME NEW n \in Id PROVE LeadsTo(root, n)
    <2>1. SUFFICES ASSUME NEW S \in SUBSET Id, root \in S, Closed(S), n \notin S PROVE FALSE
      BY DEF LeadsTo
    <2>2. PICK m \in Id \ S : \A i \in Edges : Target(i) = m => Source(i) \notin Id \ S
      BY <2>1 DEF Unwinds
    <2>3. PICK i \in Incoming(m) : TRUE
      BY <1>2, <2>1, <2>2
    <2>4. i \in Edges /\ Target(i) = m /\ Source(i) \in S
      BY <1>1, <2>2, <2>3 DEF Incoming, Edges
    <2>5. QED
      BY <2>1, <2>2, <2>4 DEF Closed, Edges
  <1>4. ASSUME NEW i \in Edges, LeadsTo(Target(i), Source(i)) PROVE FALSE
    <2> DEFINE t == Target(i)
               D == {n \in Id : LeadsTo(t, n) /\ LeadsTo(n, t)}
    <2>1. t \in D /\ Source(i) \in D
      BY <1>1, <1>4, LeadsOn DEF LeadsTo
    <2>2. PICK n \in D : \A j \in Edges : Target(j) = n => Source(j) \notin D
      <3>1. D \in SUBSET Id /\ D # {}
        BY <2>1
      <3>2. QED
        BY <3>1 DEF Unwinds
    <2>3. n # t
      BY <1>4, <2>1, <2>2
    <2>4. ASSUME NEW j \in Edges, Target(j) = n PROVE ~LeadsTo(t, Source(j))
      BY <1>1, <2>2, <2>4, LeadsOn
    <2> DEFINE S == {m \in Id : LeadsTo(t, m)} \ {n}
    <2>5. Closed(S)
      <3>1. SUFFICES ASSUME NEW j \in Edges, Source(j) \in S PROVE Target(j) \in S
        BY DEF Closed, Edges
      <3>2. LeadsTo(t, Target(j)) /\ Target(j) \in Id
        BY <1>1, <3>1, LeadsOn
      <3>3. Target(j) # n
        BY <2>4, <3>1
      <3>4. QED
        BY <3>2, <3>3
    <2>6. t \in S /\ n \notin S /\ S \in SUBSET Id /\ n \in Id
      BY <2>1, <2>3
    <2>7. ~LeadsTo(t, n)
      BY <2>5, <2>6, NotLed
    <2>8. QED
      BY <2>7
  <1>5. QED
    BY <1>1, <1>2, <1>3, <1>4 DEF IsRootedDag, Edges

\* A closed set of steps that no transition of a step leaves gains the step.
LEMMA UnwindsAnother ==
  ASSUME BadEdges = {}, NEW V \in SUBSET Id, NEW x \in Id, x \notin V,
         Unwinds(V), Closed(V), \A i \in Outgoing(x) : Target(i) \in V
  PROVE  Unwinds(V \cup {x}) /\ Closed(V \cup {x})
  <1>1. Closed(V \cup {x})
    BY DEF Closed, Outgoing, Edges
  <1>2. ASSUME NEW S \in SUBSET (V \cup {x}), S # {}
        PROVE  \E n \in S : \A i \in Edges : Target(i) = n => Source(i) \notin S
    <2>1. CASE x \in S
      <3>1. ASSUME NEW i \in Edges, Target(i) = x PROVE Source(i) \notin S
        BY <3>1, Ends DEF Closed, Edges
      <3>2. QED
        BY <2>1, <3>1
    <2>2. CASE x \notin S
      BY <1>2, <2>2 DEF Unwinds
    <2>3. QED
      BY <2>1, <2>2
  <1>3. QED
    BY <1>1, <1>2 DEF Unwinds

-----------------------------------------------------------------------------
(* One lemma for each action: it keeps the invariant *)

Refusals == {"empty", "duplicateNode", "missingEndpoint", "isolated", "cycle", "manyRoots"}

IsCycle(c) ==
  /\ Len(c) > 1 /\ c[1] = Last(c) /\ IsInjective(Tail(c))
  /\ \A k \in 1 .. Len(c) - 1 : \E i \in Edges : Source(i) = c[k] /\ Target(i) = c[k + 1]

LEMMA Thrown ==
  ASSUME DagInv, ~IsRootedDag, NEW check \in Refusals, NEW path \in Seq(Id),
         Throw(check, path), UNCHANGED <<searchVars, loopVars>>,
         check = "cycle" => IsCycle(path)
  PROVE  DagInv'
  <1>1. /\ input' = input /\ begun' = begun /\ visited' = visited
        /\ stack' = stack /\ reachable' = reachable /\ indegree' = indegree /\ queue' = queue /\ rest' = rest
        /\ phase' = "done" /\ verdict' = check /\ cycle' = path /\ order' = <<>>
    BY DEF searchVars, loopVars, Throw
  <1>2. <<>> \in Seq(Id)
    BY EmptySeq
  <1>3. Id' = Id
    BY <1>1, SameCanvas
  <1>4. TypeOK'
    BY <1>1, <1>2, <1>3 DEF DagInv, TypeOK, Refusals
  <1>5. IsGiven'
    BY <1>1, SameCanvas DEF DagInv
  <1>6. verdict' # "pending" /\ verdict' # "accepted" /\ verdict' \notin {"noRoot", "unreachable", "unsortable"}
    BY <1>1 DEF Refusals
  <1>7. AcceptsRootedDags'
    <2>1. ~IsRootedDag'
      BY <1>1, SameCanvas
    <2>2. QED
      BY <1>6, <2>1 DEF AcceptsRootedDags
  <1>8. OrderIsTopological'
    BY <1>6 DEF OrderIsTopological
  <1>9. ReportsACycle'
    BY <1>1 DEF ReportsACycle, IsCycle, Edges, Source, Target
  <1>10. Ended'
    BY <1>6, <1>7, <1>8, <1>9 DEF Ended
  <1>11. QED
    BY <1>1, <1>4, <1>5, <1>10 DEF DagInv

LEMMA DagInit ==
  ASSUME Init
  PROVE  DagInv
  <1>1. IsGiven
    BY InputAssumption DEF Init, IsGiven, Id
  <1>2. <<>> \in Seq(Id)
    BY EmptySeq
  <1>3. begun \in 0 .. Len(input.nodes)
    BY <1>1, Given DEF Init
  <1>4. TypeOK
    BY <1>1, <1>2, <1>3 DEF Init, TypeOK
  <1>5. QED
    BY <1>1, <1>4 DEF Init, DagInv

LEMMA StepRefuseGraph ==
  ASSUME DagInv, RefuseGraph
  PROVE  DagInv'
  <1>0. IsGiven /\ <<>> \in Seq(Id)
    BY EmptySeq DEF DagInv
  <1>1. UNCHANGED <<searchVars, loopVars>>
    BY DEF RefuseGraph
  <1>2. CASE input.nodes = <<>> /\ Throw("empty", <<>>)
    <2>1. ~IsRootedDag
      BY <1>0, <1>2, Given DEF IsRootedDag
    <2>2. QED
      BY <1>0, <1>1, <1>2, <2>1, Thrown DEF Refusals
  <1>3. CASE input.nodes # <<>> /\ ~NodesAreFine /\ Throw("duplicateNode", <<>>)
    <2>1. ~IsRootedDag
      BY <1>3 DEF IsRootedDag, NodesAreFine
    <2>2. QED
      BY <1>0, <1>1, <1>3, <2>1, Thrown DEF Refusals
  <1>4. CASE BadEdges # {} /\ ThrowForEdge(Min(BadEdges))
    <2> DEFINE i == Min(BadEdges)
    <2>1. i \in BadEdges
      <3>1. BadEdges \in SUBSET Nat
        BY <1>0, Given DEF BadEdges, Edges
      <3>2. QED
        BY <1>4, <3>1, LeastOf
    <2>2. i \in Edges /\ ({Source(i), Target(i)} \subseteq Id => Source(i) = Target(i))
      BY <2>1 DEF BadEdges, Edges
    <2>3. CASE {Source(i), Target(i)} \subseteq Id
      <3> DEFINE c == <<Source(i), Target(i)>>
      <3>1. Source(i) \in Id /\ Target(i) \in Id /\ Source(i) = Target(i)
        BY <2>2, <2>3
      <3>2. /\ c \in Seq(Id) /\ Len(c) = 2 /\ c[1] = Source(i) /\ c[2] = Target(i) /\ Last(c) = c[2]
            /\ Len(Tail(c)) = 1 /\ Tail(c) \in Seq(Id)
        BY <3>1 DEF Last
      <3>3. IsInjective(Tail(c))
        <4>1. DOMAIN Tail(c) = 1 .. 1
          BY <3>2, LenProperties
        <4>2. QED
          BY <4>1 DEF IsInjective
      <3>4. IsCycle(c)
        <4>1. \A k \in 1 .. Len(c) - 1 : Source(i) = c[k] /\ Target(i) = c[k + 1]
          BY <3>2
        <4>2. QED
          BY <2>2, <3>1, <3>2, <3>3, <4>1 DEF IsCycle
      <3>5. ~IsRootedDag
        BY <3>2, <3>4, CycleIsNoDag DEF IsCycle
      <3>6. Throw("cycle", c)
        BY <1>4, <2>3 DEF ThrowForEdge
      <3>7. "cycle" \in Refusals
        BY DEF Refusals
      <3>8. QED
        BY <1>1, <3>2, <3>4, <3>5, <3>6, <3>7, Thrown, Zenon
    <2>4. CASE ~({Source(i), Target(i)} \subseteq Id)
      <3>1. ~IsRootedDag
        BY <2>2, <2>4 DEF IsRootedDag, Edges
      <3>2. Throw("missingEndpoint", <<>>)
        BY <1>4, <2>4 DEF ThrowForEdge
      <3>3. QED
        BY <1>0, <1>1, <3>1, <3>2, Thrown DEF Refusals
    <2>5. QED
      BY <2>3, <2>4
  <1>5. CASE NodesAreFine /\ BadEdges = {} /\ HasIsolated /\ Throw("isolated", <<>>)
    <2>1. ASSUME IsRootedDag PROVE FALSE
      <3>1. PICK n \in Id : Outgoing(n) = {} /\ Incoming(n) = {}
        BY <1>5 DEF HasIsolated
      <3>2. PICK m \in Id : m # n
        <4>1. Len(input.nodes) > 1 /\ IsInjective(input.nodes)
          BY <1>5 DEF HasIsolated, NodesAreFine
        <4>2. 1 \in DOMAIN input.nodes /\ 2 \in DOMAIN input.nodes /\ 1 # 2
          BY <1>0, <4>1, Given
        <4>3. input.nodes[1] # input.nodes[2] /\ input.nodes[1] \in Id /\ input.nodes[2] \in Id
          BY <4>1, <4>2 DEF IsInjective, Id, ToSet
        <4>4. QED
          BY <4>3
      <3>3. PICK root \in Id : \A k \in Id : LeadsTo(root, k)
        BY <2>1 DEF IsRootedDag
      <3>4. n = root
        BY <1>5, <3>1, <3>3, Ends, RootedFrom
      <3>5. Closed({n})
        BY <3>1 DEF Closed, Outgoing
      <3>6. ~LeadsTo(n, m)
        BY <3>2, <3>5, NotLed
      <3>7. QED
        BY <3>2, <3>3, <3>4, <3>6
    <2>2. QED
      BY <1>0, <1>1, <1>5, <2>1, Thrown DEF Refusals
  <1>6. QED
    BY <1>2, <1>3, <1>4, <1>5 DEF RefuseGraph

LEMMA StepPassGraph ==
  ASSUME DagInv, PassGraph
  PROVE  DagInv'
  <1>1. /\ input' = input /\ begun' = begun /\ visited' = visited /\ stack' = stack
        /\ reachable' = reachable /\ queue' = queue /\ rest' = rest
        /\ phase' = "search" /\ order' = order /\ verdict' = verdict /\ cycle' = cycle
        /\ indegree' = [n \in Id |-> Indegree(n)] /\ phase = "check" /\ Checked
    BY DEF PassGraph, searchVars, GoTo, Checked
  <1>2. /\ stack = <<>> /\ queue = <<>> /\ order = <<>> /\ begun = 0 /\ visited = {}
        /\ reachable = {} /\ cycle = <<>> /\ rest = [n \in Id |-> {}]
    BY <1>1 DEF DagInv
  <1>3. Id' = Id /\ IsGiven' /\ Checked' /\ IsGiven
    BY <1>1, SameCanvas DEF DagInv
  <1>4. TypeOK'
    <2>1. [n \in Id |-> Indegree(n)] \in [Id -> Int]
      BY <1>3, IndegreeIsCount
    <2>2. QED
      BY <1>1, <1>3, <2>1 DEF DagInv, TypeOK
  <1>5. Counted'
    BY <1>1, <1>3, SameCanvas DEF Counted
  <1>6. RestIsOutgoing' /\ \A n \in Id' : rest'[n] = {}
    BY <1>1, <1>2, <1>3 DEF RestIsOutgoing
  <1>7. Unwinds(visited)' /\ Closed(visited)'
    BY <1>1, <1>2 DEF Unwinds, Closed
  <1>8. DOMAIN stack' = {} /\ Len(stack') = 0
    BY <1>1, <1>2
  <1>9. IsInjective(stack')
    BY <1>8 DEF IsInjective
  <1>10. Searching'
    BY <1>1, <1>2, <1>3, <1>5, <1>6, <1>7, <1>8, <1>9 DEF Searching
  <1>11. QED
    BY <1>1, <1>3, <1>4, <1>10 DEF DagInv

\* What is called is a step; of a step on the stack, over a transition of it.
LEMMA Called ==
  ASSUME DagInv, Calls
  PROVE  /\ Callee \in Id
         /\ stack = <<>> => begun + 1 \in 1 .. Len(input.nodes) /\ Callee = input.nodes[begun + 1]
         /\ stack # <<>> =>
              /\ Last(stack) \in Id /\ Last(stack) \in ToSet(stack)
              /\ Min(rest[Last(stack)]) \in rest[Last(stack)]
              /\ Min(rest[Last(stack)]) \in Edges /\ Source(Min(rest[Last(stack)])) = Last(stack)
              /\ Callee = Target(Min(rest[Last(stack)]))
  <1>1. IsGiven /\ TypeOK /\ Searching
    BY DEF DagInv, Calls
  <1>2. CASE stack = <<>>
    <2>1. begun + 1 \in 1 .. Len(input.nodes)
      BY <1>1, <1>2, Given DEF TypeOK, Calls
    <2>2. QED
      BY <1>1, <1>2, <2>1, Given DEF Callee
  <1>3. CASE stack # <<>>
    <2> DEFINE last == Last(stack)
    <2>1. last \in Id /\ last \in ToSet(stack)
      <3>1. stack \in Seq(Id)
        BY <1>1 DEF TypeOK
      <3>2. last \in Id /\ ToSet(stack) = ToSet(Front(stack)) \cup {last}
        BY <1>3, <3>1, WithoutLast, Zenon
      <3>3. QED
        BY <3>2
    <2>2. rest[last] # {} /\ rest[last] \subseteq Outgoing(last) /\ rest[last] \in SUBSET Nat
      BY <1>1, <1>3, <2>1, Given DEF Calls, Searching, RestIsOutgoing, Outgoing, Edges
    <2>3. Min(rest[last]) \in rest[last]
      BY <2>2, LeastOf
    <2>4. Min(rest[last]) \in Edges /\ Source(Min(rest[last])) = last
      BY <2>2, <2>3 DEF Outgoing, Edges
    <2>5. Target(Min(rest[last])) \in Id
      BY <1>1, <2>4, Ends DEF Searching, Checked
    <2>6. Callee = Target(Min(rest[last]))
      BY <1>3 DEF Callee
    <2>7. QED
      BY <1>3, <2>1, <2>3, <2>4, <2>5, <2>6
  <1>4. QED
    BY <1>2, <1>3

LEMMA StepCloseCycle ==
  ASSUME DagInv, CloseCycle
  PROVE  DagInv'
  <1> DEFINE n == Callee
             last == Last(stack)
             i == Min(rest[last])
  <1>1. IsGiven /\ TypeOK /\ Searching /\ Calls /\ Contains(stack, n) /\ stack \in Seq(Id)
    BY DEF DagInv, CloseCycle, Calls, OnPath, TypeOK
  <1>2. Len(stack) \in Nat /\ DOMAIN stack = 1 .. Len(stack)
    BY <1>1, LenProperties
  <1>3. stack # <<>>
    BY <1>1, <1>2, EmptySeq DEF Contains
  <1>4. n \in Id /\ i \in Edges /\ Source(i) = last /\ Target(i) = n
    BY <1>1, <1>3, Called
  <1> DEFINE start == CHOOSE k \in DOMAIN stack : stack[k] = n
             sub == SubSeq(stack, start, Len(stack))
             c == Append(sub, n)
  <1>5. start \in 1 .. Len(stack) /\ stack[start] = n
    BY <1>1, <1>2 DEF Contains
  <1> HIDE DEF start
  <1> DEFINE len == Len(stack) - start + 1
  <1>6. len \in Nat \ {0} /\ start + len - 1 = Len(stack) /\ len \in 1 .. len
    BY <1>2, <1>5
  <1>7. /\ sub \in Seq(Id) /\ Len(sub) = len
        /\ \A k \in 1 .. len : sub[k] = stack[start + k - 1]
    <2>1. \A k \in start .. Len(stack) : stack[k] \in Id
      BY <1>1, <1>2, <1>5
    <2>2. start \in Int /\ Len(stack) \in Int /\ start <= Len(stack)
      BY <1>2, <1>5
    <2>3. QED
      BY <2>1, <2>2, SubSeqProperties
  <1> HIDE DEF sub
  <1>8. /\ c \in Seq(Id) /\ Len(c) = len + 1 /\ DOMAIN c = 1 .. len + 1
        /\ \A k \in 1 .. len : c[k] = stack[start + k - 1]
        /\ c[len + 1] = n
    BY <1>4, <1>7, WithAnother
  <1> HIDE DEF c
  <1>9. \A a, b \in 1 .. Len(stack) : stack[a] = stack[b] => a = b
    BY <1>1, <1>2 DEF Searching, IsInjective
  <1>10. ASSUME NEW k \in 1 .. len
         PROVE  start + k - 1 \in 1 .. Len(stack) /\ k + 1 \in 1 .. len + 1
    BY <1>2, <1>5
  <1> HIDE DEF len
  <1>11. c # <<>> /\ c[1] = n /\ Last(c) = n
    <2>1. 1 \in 1 .. len /\ start + 1 - 1 = start
      BY <1>5, <1>6
    <2>2. c[1] = stack[start]
      BY <1>8, <2>1
    <2>3. Last(c) = c[len + 1] /\ c # <<>>
      BY <1>6, <1>8, EmptySeq DEF Last
    <2>4. QED
      BY <1>5, <1>8, <2>2, <2>3
  <1>12. IsInjective(Tail(c))
    <2>1. Tail(c) \in Seq(Id) /\ Len(Tail(c)) = len /\ \A k \in 1 .. len : Tail(c)[k] = c[k + 1]
      <3>1. Len(c) - 1 = len
        BY <1>6, <1>8
      <3>2. QED
        BY <1>8, <1>11, <3>1, WithoutFirst
    <2>2. DOMAIN Tail(c) = 1 .. len
      BY <2>1, LenProperties
    <2>3. ASSUME NEW k \in 1 .. len, k # len
          PROVE  Tail(c)[k] = stack[start + k] /\ start + k \in 1 .. Len(stack) /\ start + k # start
      <3>1. k + 1 \in 1 .. len /\ start + (k + 1) - 1 = start + k /\ start + k # start
        BY <1>5, <1>6, <2>3
      <3>2. QED
        BY <1>8, <1>10, <2>1, <3>1
    <2>4. Tail(c)[len] = stack[start]
      BY <1>5, <1>6, <1>8, <2>1
    <2>5. ASSUME NEW a \in 1 .. len, NEW b \in 1 .. len, Tail(c)[a] = Tail(c)[b] PROVE a = b
      <3>1. CASE a # len /\ b # len
        <4>1. start + a = start + b
          BY <1>9, <2>3, <2>5, <3>1
        <4>2. QED
          BY <1>5, <4>1
      <3>2. CASE a = len /\ b # len
        <4>1. start + b = start
          BY <1>5, <1>9, <2>3, <2>4, <2>5, <3>2
        <4>2. QED
          BY <2>3, <3>2, <4>1
      <3>3. CASE a # len /\ b = len
        <4>1. start + a = start
          BY <1>5, <1>9, <2>3, <2>4, <2>5, <3>3
        <4>2. QED
          BY <2>3, <3>3, <4>1
      <3>4. QED
        BY <3>1, <3>2, <3>3
    <2>6. QED
      BY <2>2, <2>5 DEF IsInjective
  <1>13. ASSUME NEW k \in 1 .. len
         PROVE  \E j \in Edges : Source(j) = c[k] /\ Target(j) = c[k + 1]
    <2>1. CASE k = len
      <3>1. c[k] = last /\ c[k + 1] = n
        BY <1>6, <1>8, <2>1 DEF Last
      <3>2. QED
        BY <1>4, <3>1
    <2>2. CASE k # len
      <3> DEFINE m == start + k - 1
      <3>1. k + 1 \in 1 .. len /\ m \in 1 .. Len(stack) - 1 /\ start + (k + 1) - 1 = m + 1
        BY <1>2, <1>5, <1>6, <2>2
      <3>2. c[k] = stack[m] /\ c[k + 1] = stack[m + 1]
        BY <1>8, <3>1
      <3>3. \E j \in Edges : Source(j) = stack[m] /\ Target(j) = stack[m + 1]
        BY <1>1, <3>1 DEF Searching
      <3>4. QED
        BY <3>2, <3>3
    <2>3. QED
      BY <2>1, <2>2
  <1>14. Len(c) > 1 /\ Len(c) - 1 = len
    BY <1>6, <1>8
  <1>15. IsCycle(c)
    BY <1>11, <1>12, <1>13, <1>14 DEF IsCycle
  <1>16. ~IsRootedDag
    BY <1>8, <1>15, CycleIsNoDag DEF IsCycle
  <1>17. Throw("cycle", c) /\ UNCHANGED <<searchVars, loopVars>>
    BY <1>1 DEF CloseCycle, CycleFrom, c, sub, start
  <1>18. "cycle" \in Refusals
    BY DEF Refusals
  <1>19. QED
    BY <1>8, <1>15, <1>16, <1>17, <1>18, Thrown, Zenon

\* The transitions left in hand, once the one of the call was taken.
LEMMA StepCallOn ==
  ASSUME DagInv, CallOn
  PROVE  DagInv'
  <1> DEFINE n == Callee
             last == Last(stack)
             i == Min(rest[last])
             left == IF stack = <<>> THEN rest ELSE [rest EXCEPT ![last] = @ \ {i}]
  <1>1. IsGiven /\ TypeOK /\ Searching /\ Calls /\ ~Contains(stack, n) /\ stack \in Seq(Id) /\ phase = "search"
    BY DEF DagInv, CallOn, Calls, OnPath, TypeOK
  <1>2. /\ input' = input /\ visited' = visited /\ reachable' = reachable /\ indegree' = indegree
        /\ queue' = queue /\ phase' = phase /\ order' = order /\ verdict' = verdict /\ cycle' = cycle
    BY DEF CallOn, resultVars
  <1>3. begun' = IF stack = <<>> THEN begun + 1 ELSE begun
    BY DEF CallOn
  <1>4. /\ n \in visited => rest' = left /\ stack' = stack
        /\ n \notin visited => rest' = [left EXCEPT ![n] = Outgoing(n)] /\ stack' = Append(stack, n)
    BY DEF CallOn
  <1>5. n \in Id /\ n \notin ToSet(stack)
    <2>1. n \in Id
      BY <1>1, Called
    <2>2. DOMAIN stack = 1 .. Len(stack)
      BY <1>1, LenProperties
    <2>3. QED
      BY <1>1, <2>1, <2>2 DEF Contains, ToSet
  <1>6. stack # <<>> =>
          /\ last \in Id /\ last \in ToSet(stack) /\ i \in rest[last] /\ i \in Edges
          /\ Source(i) = last /\ n = Target(i)
    BY <1>1, Called
  <1> HIDE DEF n, i
  <1>7. /\ Len(stack) \in Nat /\ DOMAIN stack = 1 .. Len(stack)
        /\ \A k \in 1 .. Len(stack) : stack[k] \in Id /\ stack[k] \in ToSet(stack)
        /\ stack = <<>> <=> Len(stack) = 0
    BY <1>1, Listed
  <1>8. /\ left \in [Id -> SUBSET Edges]
        /\ \A m \in Id : left[m] \subseteq rest[m]
        /\ \A m \in Id : m \notin ToSet(stack) => left[m] = {}
        /\ \A m \in Id : \A j \in rest[m] : j \notin left[m] => stack # <<>> /\ m = last /\ j = i
    <2>1. rest \in [Id -> SUBSET Edges] /\ \A m \in Id : m \notin ToSet(stack) => rest[m] = {}
      BY <1>1 DEF TypeOK, Edges, Searching
    <2>2. CASE stack = <<>>
      BY <2>1, <2>2
    <2>3. CASE stack # <<>>
      BY <1>6, <2>1, <2>3
    <2>4. QED
      BY <2>2, <2>3
  <1> HIDE DEF left
  <1>9. Id' = Id /\ IsGiven' /\ Checked' /\ Edges' = Edges
    BY <1>1, <1>2, SameCanvas DEF Searching
  <1>10. /\ stack' \in Seq(Id) /\ Len(stack) \in Nat
         /\ Len(stack') = (IF n \in visited THEN Len(stack) ELSE Len(stack) + 1)
         /\ DOMAIN stack' = 1 .. Len(stack')
         /\ \A k \in 1 .. Len(stack) : stack'[k] = stack[k]
         /\ n \notin visited => stack'[Len(stack) + 1] = n /\ ToSet(stack') = ToSet(stack) \cup {n}
         /\ IsInjective(stack')
    <2>1. IsInjective(stack)
      BY <1>1 DEF Searching
    <2>2. CASE n \in visited
      BY <1>1, <1>4, <1>7, <2>1, <2>2
    <2>3. CASE n \notin visited
      <3> DEFINE more == Append(stack, n)
      <3>1. /\ more \in Seq(Id) /\ Len(more) = Len(stack) + 1 /\ DOMAIN more = 1 .. Len(stack) + 1
            /\ \A k \in 1 .. Len(stack) : more[k] = stack[k]
            /\ more[Len(stack) + 1] = n
            /\ ToSet(more) = ToSet(stack) \cup {n} /\ IsInjective(more)
        BY <1>1, <1>5, <2>1, WithAnother
      <3>2. stack' = more
        BY <1>4, <2>3
      <3> HIDE DEF more
      <3>3. QED
        BY <1>7, <2>3, <3>1, <3>2
    <2>4. QED
      BY <2>2, <2>3
  <1>11. /\ rest' \in [Id -> SUBSET Edges]
         /\ \A m \in Id : m # n \/ n \in visited => rest'[m] = left[m]
         /\ n \notin visited => rest'[n] = Outgoing(n)
    <2>1. Outgoing(n) \in SUBSET Edges
      BY DEF Outgoing, Edges
    <2>2. CASE n \in visited
      BY <1>4, <1>8, <2>2
    <2>3. CASE n \notin visited
      BY <1>4, <1>5, <1>8, <2>1, <2>3
    <2>4. QED
      BY <2>2, <2>3
  <1>12. begun' \in 0 .. Len(input.nodes)
    <2>1. CASE stack = <<>>
      BY <1>1, <1>3, <2>1, Called
    <2>2. CASE stack # <<>>
      BY <1>1, <1>3, <2>2 DEF TypeOK
    <2>3. QED
      BY <2>1, <2>2
  <1>13. TypeOK'
    BY <1>1, <1>2, <1>9, <1>10, <1>11, <1>12 DEF TypeOK, Edges
  <1>14. Counted' /\ Unwinds(visited)' /\ Closed(visited)' /\ reachable' = {} /\ order' = <<>> /\ cycle' = <<>>
    <2>1. Counted'
      BY <1>1, <1>2, <1>9, SameCanvas DEF Searching, Counted
    <2>2. Unwinds(visited)' /\ Closed(visited)'
      BY <1>1, <1>2 DEF Searching, Unwinds, Closed, Edges, Source, Target
    <2>3. QED
      BY <1>1, <1>2, <2>1, <2>2 DEF Searching
  <1>15. RestIsOutgoing'
    <2>1. \A m \in Id : rest'[m] \subseteq Outgoing(m)
      <3>1. \A m \in Id : rest[m] \subseteq Outgoing(m)
        BY <1>1 DEF Searching, RestIsOutgoing
      <3>2. QED
        BY <1>8, <1>11, <3>1
    <2>2. QED
      BY <1>2, <1>9, <2>1, SameCanvas DEF RestIsOutgoing
  <1>16. \A k \in DOMAIN stack' : stack'[k] \notin visited'
    <2>1. \A k \in 1 .. Len(stack) : stack[k] \notin visited
      BY <1>1, <1>7 DEF Searching
    <2>2. QED
      BY <1>2, <1>10, <2>1
  <1>17. ASSUME NEW k \in 1 .. Len(stack'), NEW j \in Outgoing(stack'[k])
         PROVE  \/ j \in rest'[stack'[k]] \/ Target(j) \in visited
                \/ k < Len(stack') /\ Target(j) = stack'[k + 1]
    <2>1. CASE k = Len(stack) + 1
      BY <1>10, <1>11, <2>1
    <2>2. CASE k \in 1 .. Len(stack)
      <3>1. stack'[k] = stack[k] /\ stack[k] \in Id /\ stack[k] # n
        BY <1>5, <1>7, <1>10, <2>2
      <3>2. rest'[stack[k]] = left[stack[k]]
        BY <1>11, <3>1
      <3>3. \/ j \in rest[stack[k]] \/ Target(j) \in visited
            \/ k < Len(stack) /\ Target(j) = stack[k + 1]
        BY <1>1, <1>7, <1>17, <2>2, <3>1 DEF Searching, Followed
      <3>4. CASE j \in rest[stack[k]] /\ j \notin left[stack[k]]
        <4>1. stack # <<>> /\ stack[k] = stack[Len(stack)] /\ j = i
          BY <1>8, <3>1, <3>4 DEF Last
        <4>2. Len(stack) \in 1 .. Len(stack)
          BY <1>7, <4>1
        <4>3. k = Len(stack)
          BY <1>1, <1>7, <2>2, <4>1, <4>2 DEF Searching, IsInjective
        <4>4. Target(j) = n
          BY <1>6, <4>1
        <4>5. QED
          BY <1>10, <4>3, <4>4
      <3>5. CASE k < Len(stack) /\ Target(j) = stack[k + 1]
        <4>1. k + 1 \in 1 .. Len(stack) /\ k < Len(stack')
          BY <1>10, <2>2, <3>5
        <4>2. QED
          BY <1>10, <3>5, <4>1
      <3>6. QED
        BY <3>1, <3>2, <3>3, <3>4, <3>5
    <2>3. QED
      BY <1>10, <2>1, <2>2
  <1>18. \A k \in DOMAIN stack' : Followed(k)'
    <2>1. \A m : Outgoing(m)' = Outgoing(m) /\ \A j : Target(j)' = Target(j)
      BY <1>2, SameCanvas
    <2>2. QED
      BY <1>2, <1>10, <1>17, <2>1 DEF Followed
  <1>19. ASSUME NEW k \in 1 .. Len(stack') - 1
         PROVE  \E j \in Edges : Source(j) = stack'[k] /\ Target(j) = stack'[k + 1]
    <2>1. CASE k \in 1 .. Len(stack) - 1
      <3>1. k \in 1 .. Len(stack) /\ k + 1 \in 1 .. Len(stack)
        BY <1>10, <2>1
      <3>2. stack'[k] = stack[k] /\ stack'[k + 1] = stack[k + 1]
        BY <1>10, <3>1
      <3>3. QED
        BY <1>1, <2>1, <3>2 DEF Searching
    <2>2. CASE k = Len(stack) /\ n \notin visited
      <3>1. stack # <<>> /\ k \in 1 .. Len(stack)
        BY <1>7, <1>10, <1>19, <2>2
      <3>2. Source(i) = stack'[k] /\ Target(i) = stack'[k + 1] /\ i \in Edges
        BY <1>6, <1>10, <2>2, <3>1 DEF Last
      <3>3. QED
        BY <3>2
    <2>3. QED
      BY <1>10, <2>1, <2>2
  <1>20. \A k \in 1 .. Len(stack') - 1 :
           \E j \in Edges' : Source(j)' = stack'[k] /\ Target(j)' = stack'[k + 1]
    <2>1. \A j : Source(j)' = Source(j) /\ Target(j)' = Target(j)
      BY <1>2, SameCanvas
    <2>2. QED
      BY <1>9, <1>19, <2>1
  <1>21. ToSet(stack)' = IF n \in visited THEN ToSet(stack) ELSE ToSet(stack) \cup {n}
    BY <1>4, <1>10
  <1>22. \A m \in Id' : m \in ToSet(stack)' \/ rest'[m] = {}
    BY <1>8, <1>9, <1>11, <1>21
  <1>23. \A k \in 1 .. begun' : input'.nodes[k] \in visited' \cup ToSet(stack)'
    <2>1. \A k \in 1 .. begun : input.nodes[k] \in visited \cup ToSet(stack)
      BY <1>1 DEF Searching
    <2>2. CASE stack = <<>>
      <3>1. n = input.nodes[begun + 1] /\ begun \in Nat /\ begun' = begun + 1
        BY <1>1, <1>3, <2>2, Called, Given DEF n, TypeOK
      <3>2. 1 .. begun' = (1 .. begun) \cup {begun + 1}
        BY <3>1
      <3>3. QED
        BY <1>2, <1>21, <2>1, <3>1, <3>2
    <2>3. CASE stack # <<>>
      BY <1>2, <1>3, <1>21, <2>1, <2>3
    <2>4. QED
      BY <2>2, <2>3
  <1>24. Searching'
    BY <1>9, <1>10, <1>14, <1>15, <1>16, <1>18, <1>20, <1>22, <1>23 DEF Searching
  <1>25. QED
    BY <1>1, <1>2, <1>9, <1>13, <1>24 DEF DagInv

LEMMA StepLeaveNode ==
  ASSUME DagInv, LeaveNode
  PROVE  DagInv'
  <1> DEFINE last == Last(stack)
  <1>1. /\ IsGiven /\ TypeOK /\ Searching /\ phase = "search" /\ stack # <<>> /\ rest[last] = {}
        /\ stack \in Seq(Id) /\ visited \subseteq Id
    BY DEF DagInv, LeaveNode, TypeOK
  <1>2. /\ input' = input /\ begun' = begun /\ reachable' = reachable /\ indegree' = indegree
        /\ queue' = queue /\ rest' = rest
        /\ phase' = phase /\ order' = order /\ verdict' = verdict /\ cycle' = cycle
        /\ stack' = Front(stack) /\ visited' = visited \cup {last}
    BY DEF LeaveNode, resultVars
  <1>3. /\ Len(stack) \in Nat \ {0} /\ Len(stack) \in 1 .. Len(stack) /\ DOMAIN stack = 1 .. Len(stack)
        /\ last = stack[Len(stack)] /\ last \in Id
        /\ stack' \in Seq(Id) /\ Len(stack') = Len(stack) - 1
        /\ \A k \in 1 .. Len(stack) - 1 : stack'[k] = stack[k]
        /\ ToSet(stack) = ToSet(stack') \cup {last}
        /\ last \notin ToSet(stack') /\ IsInjective(stack')
    <2>1. IsInjective(stack)
      BY <1>1 DEF Searching
    <2>2. QED
      BY <1>1, <1>2, <2>1, WithoutLast, LenProperties
  <1> HIDE DEF last
  <1>4. DOMAIN stack' = 1 .. Len(stack) - 1
    BY <1>3, LenProperties
  <1>5. ToSet(stack)' = ToSet(stack')
    OBVIOUS
  <1>6. Id' = Id /\ IsGiven' /\ Checked' /\ Edges' = Edges
    BY <1>1, <1>2, SameCanvas DEF Searching
  <1>7. TypeOK'
    BY <1>1, <1>2, <1>3, <1>6 DEF TypeOK, Edges
  <1>8. last \notin visited /\ \A j \in Outgoing(last) : Target(j) \in visited
    BY <1>1, <1>3 DEF Searching, Followed
  <1>9. Unwinds(visited \cup {last}) /\ Closed(visited \cup {last})
    <2>1. BadEdges = {} /\ Unwinds(visited) /\ Closed(visited)
      BY <1>1 DEF Searching, Checked
    <2>2. QED
      BY <1>1, <1>3, <1>8, <2>1, UnwindsAnother
  <1>10. Unwinds(visited)' /\ Closed(visited)'
    BY <1>2, <1>9 DEF Unwinds, Closed, Edges, Source, Target
  <1>11. Counted' /\ RestIsOutgoing' /\ reachable' = {} /\ order' = <<>> /\ cycle' = <<>>
    <2>1. Counted'
      BY <1>1, <1>2, <1>6, SameCanvas DEF Searching, Counted
    <2>2. RestIsOutgoing'
      BY <1>1, <1>2, <1>6, SameCanvas DEF Searching, RestIsOutgoing
    <2>3. QED
      BY <1>1, <1>2, <2>1, <2>2 DEF Searching
  <1>12. ASSUME NEW k \in 1 .. Len(stack) - 1
         PROVE  /\ k \in 1 .. Len(stack) /\ k # Len(stack) /\ k + 1 \in 1 .. Len(stack)
                /\ stack'[k] = stack[k] /\ stack[k] \in ToSet(stack')
    <2>1. stack'[k] \in ToSet(stack')
      BY <1>4 DEF ToSet
    <2>2. stack'[k] = stack[k]
      BY <1>3
    <2>3. k \in 1 .. Len(stack) /\ k # Len(stack) /\ k + 1 \in 1 .. Len(stack)
      <3>1. Len(stack) \in Nat
        BY <1>3
      <3>2. QED
        BY <3>1
    <2>4. QED
      BY <2>1, <2>2, <2>3
  <1>13. \A k \in DOMAIN stack' : stack'[k] \notin visited'
    BY <1>1, <1>2, <1>3, <1>4, <1>12 DEF Searching
  <1>14. ASSUME NEW k \in 1 .. Len(stack) - 1, NEW j \in Outgoing(stack[k])
         PROVE  \/ j \in rest[stack[k]] \/ Target(j) \in visited'
                \/ k < Len(stack') /\ Target(j) = stack'[k + 1]
    <2>1. \/ j \in rest[stack[k]] \/ Target(j) \in visited
          \/ k < Len(stack) /\ Target(j) = stack[k + 1]
      BY <1>1, <1>3, <1>12 DEF Searching, Followed
    <2>2. CASE Target(j) = stack[k + 1] /\ k + 1 = Len(stack)
      BY <1>2, <1>3, <2>2
    <2>3. CASE Target(j) = stack[k + 1] /\ k + 1 # Len(stack)
      <3>1. k + 1 \in 1 .. Len(stack) - 1 /\ k < Len(stack')
        <4>1. Len(stack) \in Nat /\ Len(stack') = Len(stack) - 1
          BY <1>3
        <4>2. QED
          BY <2>3, <4>1
      <3>2. stack'[k + 1] = stack[k + 1]
        BY <1>3, <3>1
      <3>3. QED
        BY <2>3, <3>1, <3>2
    <2>4. QED
      BY <1>2, <2>1, <2>2, <2>3
  <1>15. \A k \in DOMAIN stack' : Followed(k)'
    <2>1. \A m : Outgoing(m)' = Outgoing(m) /\ \A j : Target(j)' = Target(j)
      BY <1>2, SameCanvas
    <2>2. QED
      BY <1>2, <1>3, <1>4, <1>14, <2>1 DEF Followed
  <1>16. \A k \in 1 .. Len(stack') - 1 :
           \E j \in Edges' : Source(j)' = stack'[k] /\ Target(j)' = stack'[k + 1]
    <2>1. \A j : Source(j)' = Source(j) /\ Target(j)' = Target(j)
      BY <1>2, SameCanvas
    <2>2. ASSUME NEW k \in 1 .. Len(stack') - 1
          PROVE  k \in 1 .. Len(stack) - 1 /\ k + 1 \in 1 .. Len(stack) - 1
      <3>1. Len(stack) \in Nat /\ Len(stack') = Len(stack) - 1
        BY <1>3
      <3>2. QED
        BY <3>1
    <2>3. QED
      BY <1>1, <1>3, <1>6, <2>1, <2>2 DEF Searching
  <1>17. \A m \in Id' : m \in ToSet(stack)' \/ rest'[m] = {}
    BY <1>1, <1>2, <1>3, <1>6 DEF Searching
  <1>18. \A k \in 1 .. begun' : input'.nodes[k] \in visited' \cup ToSet(stack)'
    BY <1>1, <1>2, <1>3 DEF Searching
  <1>19. Searching'
    BY <1>3, <1>6, <1>10, <1>11, <1>13, <1>15, <1>16, <1>17, <1>18 DEF Searching
  <1>20. QED
    BY <1>1, <1>2, <1>6, <1>7, <1>19 DEF DagInv

\* A search that is over has left every step: no cycle, and so a root.
LEMMA Searched ==
  ASSUME DagInv, SearchIsOver
  PROVE  /\ IsGiven /\ TypeOK /\ Searching /\ Unwinds(Id) /\ \A n \in Id : rest[n] = {}
         /\ \A n \in Id : indegree[n] = 0 <=> Incoming(n) = {}
         /\ IsFiniteSet(Roots) /\ Roots # {}
  <1>1. IsGiven /\ TypeOK /\ Searching /\ stack = <<>> /\ begun = Len(input.nodes)
    BY DEF DagInv, SearchIsOver
  <1>2. ToSet(stack) = {}
    BY <1>1 DEF ToSet
  <1>3. \A n \in Id : rest[n] = {}
    BY <1>1, <1>2 DEF Searching
  <1>4. visited = Id
    <2>1. \A k \in 1 .. Len(input.nodes) : input.nodes[k] \in visited
      BY <1>1, <1>2 DEF Searching
    <2>2. Id \subseteq visited
      BY <1>1, <2>1, Given
    <2>3. QED
      BY <1>1, <2>2 DEF TypeOK
  <1>5. Unwinds(Id)
    BY <1>1, <1>4 DEF Searching
  <1>6. \A n \in Id : indegree[n] = 0 <=> Incoming(n) = {}
    BY <1>1, IndegreeIsCount DEF Searching, Counted
  <1>7. PICK n \in Id : \A i \in Edges : Target(i) = n => Source(i) \notin Id
    <2>1. Id # {}
      BY <1>1, Given DEF Searching, Checked, NodesAreFine
    <2>2. QED
      BY <1>5, <2>1 DEF Unwinds
  <1>8. Incoming(n) = {}
    BY <1>1, <1>7, Ends DEF Searching, Checked, Incoming, Edges
  <1>9. n \in Roots
    BY <1>6, <1>8 DEF Roots
  <1>10. IsFiniteSet(Roots)
    <2>1. Roots \subseteq Id
      BY DEF Roots
    <2>2. QED
      BY <1>1, <2>1, Given, FS_Subset
  <1>11. QED
    BY <1>1, <1>3, <1>5, <1>6, <1>9, <1>10

LEMMA StepRefuseRoots ==
  ASSUME DagInv, RefuseRoots
  PROVE  DagInv'
  <1>1. SearchIsOver /\ Cardinality(Roots) # 1 /\ UNCHANGED <<searchVars, loopVars>>
        /\ Throw(IF Roots = {} THEN "noRoot" ELSE "manyRoots", <<>>)
    BY DEF RefuseRoots
  <1>2. IsGiven /\ Searching /\ Roots # {} /\ IsFiniteSet(Roots)
        /\ \A n \in Id : indegree[n] = 0 <=> Incoming(n) = {}
    BY <1>1, Searched
  <1>3. Throw("manyRoots", <<>>)
    BY <1>1, <1>2
  <1>4. ASSUME IsRootedDag PROVE FALSE
    <2>1. PICK root \in Id : \A n \in Id : LeadsTo(root, n)
      BY <1>4 DEF IsRootedDag
    <2>2. ASSUME NEW n \in Roots PROVE n = root
      <3>1. n \in Id /\ Incoming(n) = {}
        BY <1>2 DEF Roots
      <3>2. \A i \in Edges : Target(i) \in Id
        BY <1>2, Ends DEF Searching, Checked
      <3>3. QED
        BY <2>1, <3>1, <3>2, RootedFrom
    <2>3. Roots = {root}
      BY <1>2, <2>2
    <2>4. QED
      BY <1>1, <2>3, FS_Singleton
  <1>5. <<>> \in Seq(Id) /\ "manyRoots" \in Refusals /\ "manyRoots" # "cycle"
    BY EmptySeq DEF Refusals
  <1>6. QED
    BY <1>1, <1>3, <1>4, <1>5, Thrown, Zenon

LEMMA StepStartAtRoot ==
  ASSUME DagInv, StartAtRoot
  PROVE  DagInv'
  <1>1. SearchIsOver
    BY DEF StartAtRoot
  <1>2. /\ IsGiven /\ TypeOK /\ Searching /\ Unwinds(Id) /\ \A n \in Id : rest[n] = {}
        /\ \A n \in Id : indegree[n] = 0 <=> Incoming(n) = {}
    BY <1>1, Searched
  <1>3. PICK root \in Id : Roots = {root} /\ stack' = <<root>> /\ queue' = <<root>>
    BY DEF StartAtRoot
  <1>4. /\ input' = input /\ begun' = begun /\ visited' = visited /\ reachable' = reachable
        /\ indegree' = indegree /\ rest' = rest
        /\ phase' = "connect" /\ order' = order /\ verdict' = verdict /\ cycle' = cycle
        /\ phase = "search" /\ verdict = "pending"
    BY <1>1 DEF StartAtRoot, searchVars, GoTo, SearchIsOver, DagInv
  <1>5. Id' = Id /\ IsGiven' /\ Checked' /\ Edges' = Edges
    BY <1>2, <1>4, SameCanvas DEF Searching
  <1>6. /\ <<root>> \in Seq(Id) /\ ToSet(<<root>>) = {root}
    BY DEF ToSet
  <1>7. TypeOK'
    BY <1>2, <1>3, <1>4, <1>5, <1>6 DEF TypeOK, Edges
  <1>8. \A n \in Id : Incoming(n) = {} <=> n = root
    BY <1>2, <1>3 DEF Roots
  <1>9. OneRoot' /\ Unwinds(Id)'
    <2>1. OneRoot
      BY <1>8 DEF OneRoot
    <2>2. QED
      BY <1>2, <1>4, <2>1, SameCanvas
  <1>10. Counted' /\ RestIsOutgoing'
    BY <1>2, <1>4, <1>5, SameCanvas DEF Searching, Counted, RestIsOutgoing
  <1>11. reachable' = {} /\ order' = <<>>
    BY <1>2, <1>4 DEF Searching
  <1>12. \A n \in Id' : Incoming(n)' = {} => n \in reachable' \cup ToSet(stack') /\ queue' = <<n>>
    <2>1. \A n : Incoming(n)' = Incoming(n)
      BY <1>4, SameCanvas
    <2>2. QED
      BY <1>3, <1>5, <1>6, <1>8, <2>1
  <1>13. Connecting'
    <2>1. \A n \in Id' : n \in reachable' \/ rest'[n] = {}
      BY <1>2, <1>4, <1>5
    <2>2. QED
      BY <1>5, <1>9, <1>10, <1>11, <1>12, <2>1 DEF Connecting
  <1>14. QED
    BY <1>4, <1>5, <1>7, <1>13 DEF DagInv

LEMMA StepTakeFromStack ==
  ASSUME DagInv, TakeFromStack
  PROVE  DagInv'
  <1> DEFINE n == Last(stack)
  <1>1. /\ IsGiven /\ TypeOK /\ Connecting /\ phase = "connect" /\ stack # <<>>
        /\ stack \in Seq(Id) /\ \A m \in Id : rest[m] = {}
    BY DEF DagInv, TakeFromStack, TypeOK, NoneInHand
  <1>2. /\ input' = input /\ begun' = begun /\ visited' = visited /\ indegree' = indegree
        /\ queue' = queue /\ phase' = phase /\ order' = order /\ verdict' = verdict /\ cycle' = cycle
        /\ stack' = Front(stack) /\ reachable' = reachable \cup {n}
        /\ rest' = IF n \in reachable THEN rest ELSE [rest EXCEPT ![n] = Outgoing(n)]
    BY DEF TakeFromStack, searchVars, resultVars
  <1>3. /\ n \in Id /\ stack' \in Seq(Id) /\ ToSet(stack) = ToSet(stack') \cup {n}
    BY <1>1, <1>2, WithoutLast
  <1> HIDE DEF n
  <1>4. Id' = Id /\ IsGiven' /\ Checked' /\ Edges' = Edges /\ OneRoot'
    BY <1>1, <1>2, SameCanvas DEF Connecting
  <1>5. /\ rest' \in [Id -> SUBSET Edges]
        /\ \A m \in Id : rest'[m] = IF m = n /\ n \notin reachable THEN Outgoing(n) ELSE {}
    <2>1. rest \in [Id -> SUBSET Edges] /\ Outgoing(n) \in SUBSET Edges
      BY <1>1 DEF TypeOK, Outgoing, Edges
    <2>2. CASE n \in reachable
      BY <1>1, <1>2, <2>1, <2>2
    <2>3. CASE n \notin reachable
      BY <1>1, <1>2, <1>3, <2>1, <2>3
    <2>4. QED
      BY <2>2, <2>3
  <1>6. TypeOK'
    BY <1>1, <1>2, <1>3, <1>4, <1>5 DEF TypeOK, Edges
  <1>7. Counted' /\ Unwinds(Id)' /\ order' = <<>>
    <2>1. Counted'
      BY <1>1, <1>2, <1>4, SameCanvas DEF Connecting, Counted
    <2>2. Unwinds(Id)'
      BY <1>1, <1>2, SameCanvas DEF Connecting
    <2>3. QED
      BY <1>1, <1>2, <2>1, <2>2 DEF Connecting
  <1>8. /\ \A m : Incoming(m)' = Incoming(m) /\ Outgoing(m)' = Outgoing(m)
        /\ \A i : Target(i)' = Target(i)
    BY <1>2, SameCanvas
  <1>9. RestIsOutgoing'
    BY <1>4, <1>5, <1>8 DEF RestIsOutgoing
  <1>10. \A m \in Id' : Incoming(m)' = {} => m \in reachable' \cup ToSet(stack)' /\ queue' = <<m>>
    BY <1>1, <1>2, <1>3, <1>4, <1>8 DEF Connecting
  <1>11. \A m \in reachable' : \A i \in Outgoing(m)' :
           i \in rest'[m] \/ Target(i)' \in reachable' \cup ToSet(stack)'
    <2>1. ASSUME NEW m \in reachable', NEW i \in Outgoing(m)
          PROVE  i \in rest'[m] \/ Target(i) \in reachable' \cup ToSet(stack')
      <3>1. CASE m \in reachable
        <4>1. m \in Id
          BY <1>1, <3>1 DEF TypeOK
        <4>2. Target(i) \in reachable \cup ToSet(stack)
          BY <1>1, <2>1, <3>1, <4>1 DEF Connecting
        <4>3. QED
          BY <1>2, <1>3, <4>2
      <3>2. CASE m \notin reachable
        BY <1>2, <1>3, <1>5, <2>1, <3>2
      <3>3. QED
        BY <3>1, <3>2
    <2>2. QED
      BY <1>8, <2>1
  <1>12. Connecting'
    <2>1. \A m \in Id' : m \in reachable' \/ rest'[m] = {}
      BY <1>2, <1>4, <1>5
    <2>2. QED
      BY <1>4, <1>7, <1>9, <1>10, <1>11, <2>1 DEF Connecting
  <1>13. QED
    BY <1>1, <1>2, <1>4, <1>6, <1>12 DEF DagInv

\* A transition taken from those of a step.
LEMMA Taken ==
  ASSUME IsGiven, TypeOK, RestIsOutgoing, BadEdges = {}, NEW n \in Id, rest[n] # {}
  PROVE  /\ Min(rest[n]) \in rest[n] /\ Min(rest[n]) \in Edges
         /\ Source(Min(rest[n])) = n /\ Target(Min(rest[n])) \in Id
  <1>1. rest[n] \subseteq Outgoing(n) /\ rest[n] \subseteq Edges
    BY DEF RestIsOutgoing, Outgoing, Edges
  <1>2. rest[n] \in SUBSET Nat
    BY <1>1, Given
  <1>3. Min(rest[n]) \in rest[n]
    BY <1>2, LeastOf
  <1>4. Min(rest[n]) \in Edges /\ Source(Min(rest[n])) = n
    BY <1>1, <1>3 DEF Outgoing, Edges
  <1>5. QED
    BY <1>3, <1>4, Ends

LEMMA StepPushTarget ==
  ASSUME DagInv, NEW n \in Id, PushTarget(n)
  PROVE  DagInv'
  <1> DEFINE i == Min(rest[n])
             t == Target(i)
  <1>1. IsGiven /\ TypeOK /\ Connecting /\ phase = "connect" /\ stack \in Seq(Id) /\ rest[n] # {}
    BY DEF DagInv, PushTarget, TypeOK
  <1>2. /\ input' = input /\ begun' = begun /\ visited' = visited /\ indegree' = indegree
        /\ queue' = queue /\ phase' = phase /\ order' = order /\ verdict' = verdict /\ cycle' = cycle
        /\ reachable' = reachable /\ rest' = [rest EXCEPT ![n] = @ \ {i}]
        /\ stack' = IF t \in reachable THEN stack ELSE Append(stack, t)
    BY DEF PushTarget, searchVars, resultVars
  <1>3. i \in rest[n] /\ i \in Edges /\ Source(i) = n /\ t \in Id
    BY <1>1, Taken DEF Connecting, Checked
  <1>4. stack' \in Seq(Id) /\ ToSet(stack) \subseteq ToSet(stack') /\ t \in reachable \cup ToSet(stack')
    <2>1. CASE t \in reachable
      BY <1>1, <1>2, <2>1
    <2>2. CASE t \notin reachable
      BY <1>1, <1>2, <1>3, <2>2, WithAnother
    <2>3. QED
      BY <2>1, <2>2
  <1> HIDE DEF i
  <1>5. Id' = Id /\ IsGiven' /\ Checked' /\ Edges' = Edges /\ OneRoot'
    BY <1>1, <1>2, SameCanvas DEF Connecting
  <1>6. /\ rest' \in [Id -> SUBSET Edges]
        /\ \A m \in Id : rest'[m] = IF m = n THEN rest[n] \ {i} ELSE rest[m]
    <2>1. rest \in [Id -> SUBSET Edges]
      BY <1>1 DEF TypeOK, Edges
    <2>2. QED
      BY <1>2, <2>1
  <1>7. TypeOK'
    BY <1>1, <1>2, <1>4, <1>5, <1>6 DEF TypeOK, Edges
  <1>8. Counted' /\ Unwinds(Id)' /\ order' = <<>>
    <2>1. Counted'
      BY <1>1, <1>2, <1>5, SameCanvas DEF Connecting, Counted
    <2>2. Unwinds(Id)'
      BY <1>1, <1>2, SameCanvas DEF Connecting
    <2>3. QED
      BY <1>1, <1>2, <2>1, <2>2 DEF Connecting
  <1>9. /\ \A m : Incoming(m)' = Incoming(m) /\ Outgoing(m)' = Outgoing(m)
        /\ \A j : Target(j)' = Target(j)
    BY <1>2, SameCanvas
  <1>10. RestIsOutgoing'
    BY <1>1, <1>5, <1>6, <1>9 DEF Connecting, RestIsOutgoing
  <1>11. \A m \in Id' : Incoming(m)' = {} => m \in reachable' \cup ToSet(stack)' /\ queue' = <<m>>
    BY <1>1, <1>2, <1>4, <1>5, <1>9 DEF Connecting
  <1>12. \A m \in reachable' : \A j \in Outgoing(m)' :
           j \in rest'[m] \/ Target(j)' \in reachable' \cup ToSet(stack)'
    <2>1. ASSUME NEW m \in reachable, NEW j \in Outgoing(m)
          PROVE  j \in rest'[m] \/ Target(j) \in reachable \cup ToSet(stack')
      <3>1. m \in Id
        BY <1>1 DEF TypeOK
      <3>2. j \in rest[m] \/ Target(j) \in reachable \cup ToSet(stack)
        BY <1>1, <2>1 DEF Connecting
      <3>3. CASE j = i
        BY <1>4, <3>3
      <3>4. CASE j # i
        BY <1>4, <1>6, <3>1, <3>2, <3>4
      <3>5. QED
        BY <3>3, <3>4
    <2>2. QED
      BY <1>2, <1>9, <2>1
  <1>13. Connecting'
    <2>1. \A m \in Id' : m \in reachable' \/ rest'[m] = {}
      BY <1>1, <1>2, <1>5, <1>6 DEF Connecting
    <2>2. QED
      BY <1>5, <1>8, <1>10, <1>11, <1>12, <2>1 DEF Connecting
  <1>14. QED
    BY <1>1, <1>2, <1>5, <1>7, <1>13 DEF DagInv

LEMMA StepEndConnect ==
  ASSUME DagInv, EndConnect
  PROVE  DagInv'
  <1>1. /\ IsGiven /\ TypeOK /\ Connecting /\ phase = "connect" /\ stack = <<>>
        /\ \A n \in Id : rest[n] = {}
    BY DEF DagInv, EndConnect, NoneInHand
  <1>2. ToSet(stack) = {}
    BY <1>1 DEF ToSet
  <1>3. reachable = Id
    <2>1. SUFFICES ASSUME Id \ reachable # {} PROVE FALSE
      BY <1>1 DEF TypeOK
    <2>2. PICK n \in Id \ reachable : \A i \in Edges : Target(i) = n => Source(i) \notin Id \ reachable
      BY <1>1, <2>1 DEF Connecting, Unwinds
    <2>3. Incoming(n) # {}
      BY <1>1, <1>2, <2>2 DEF Connecting
    <2>4. PICK i \in Edges : Target(i) = n
      BY <2>3 DEF Incoming, Edges
    <2>5. Source(i) \in reachable
      BY <1>1, <2>2, <2>4, Ends DEF Connecting, Checked
    <2>6. i \in Outgoing(Source(i))
      BY DEF Outgoing, Edges
    <2>7. Target(i) \in reachable
      BY <1>1, <1>2, <2>5, <2>6 DEF Connecting, TypeOK
    <2>8. QED
      BY <2>2, <2>4, <2>7
  <1>4. Cardinality(reachable) = Len(input.nodes)
    BY <1>1, <1>3, Given DEF Connecting, Checked, NodesAreFine
  <1>5. /\ input' = input /\ begun' = begun /\ visited' = visited /\ indegree' = indegree
        /\ queue' = queue /\ stack' = stack /\ reachable' = reachable /\ rest' = rest
        /\ phase' = "sort" /\ order' = order /\ verdict' = verdict /\ cycle' = cycle
        /\ verdict = "pending"
    BY <1>4 DEF EndConnect, searchVars, loopVars, GoTo, DagInv
  <1>6. Id' = Id /\ IsGiven' /\ Checked' /\ OneRoot' /\ Unwinds(Id)'
    BY <1>1, <1>5, SameCanvas DEF Connecting
  <1>7. TypeOK'
    BY <1>1, <1>5, <1>6 DEF TypeOK
  <1>8. /\ \A n : Incoming(n)' = Incoming(n) /\ Outgoing(n)' = Outgoing(n)
        /\ \A i : Source(i)' = Source(i) /\ Target(i)' = Target(i)
    BY <1>5, SameCanvas
  <1>9. RestIsOutgoing'
    BY <1>1, <1>5, <1>6, <1>8 DEF Connecting, RestIsOutgoing
  <1>10. order' = <<>> /\ ToSet(order') = {} /\ DOMAIN order' = {} /\ IsInjective(order')
    <2>1. order' = <<>>
      BY <1>1, <1>5 DEF Connecting
    <2>2. QED
      BY <2>1 DEF ToSet, IsInjective
  <1>11. \A n \in Id : Missing(n)' = Incoming(n)
    <2>1. \A n : Missing(n)' = {i \in Incoming(n) : Source(i) \notin ToSet(order') \/ i \in rest'[Source(i)]}
      BY <1>5, <1>8 DEF Missing
    <2>2. QED
      BY <1>10, <2>1
  <1>12. \A n \in Id' : indegree'[n] = Cardinality(Missing(n)')
    BY <1>1, <1>5, <1>6, <1>11 DEF Connecting, Counted, Indegree
  <1>13. PICK root \in Id : \A n \in Id : Incoming(n) = {} <=> n = root
    BY <1>1 DEF Connecting, OneRoot
  <1>14. queue' = <<root>>
    BY <1>1, <1>5, <1>13 DEF Connecting
  <1>15. ToSet(queue') = {root} /\ IsInjective(queue')
    BY <1>14 DEF ToSet, IsInjective
  <1>16. ToSet(order') \cap ToSet(queue') = {}
         /\ ToSet(order') \cup ToSet(queue') = {n \in Id : Missing(n)' = {}}
    BY <1>10, <1>11, <1>13, <1>15
  <1>17. Sorting'
    <2>1. \A n \in Id' : n \in ToSet(order)' \/ rest'[n] = {}
      BY <1>1, <1>5, <1>6
    <2>2. \A i \in Edges' : \A b \in DOMAIN order' :
            Target(i)' = order'[b] => \E a \in DOMAIN order' : a < b /\ order'[a] = Source(i)'
      BY <1>10
    <2>3. QED
      BY <1>6, <1>9, <1>10, <1>12, <1>15, <1>16, <2>1, <2>2 DEF Sorting
  <1>18. QED
    BY <1>5, <1>6, <1>7, <1>17 DEF DagInv

\* A step taken from the queue misses nothing; its own transitions do not count
\* as made before the loop over them.
LEMMA StepTakeFromQueue ==
  ASSUME DagInv, TakeFromQueue
  PROVE  DagInv'
  <1> DEFINE h == Head(queue)
  <1>1. /\ IsGiven /\ TypeOK /\ Sorting /\ phase = "sort" /\ queue # <<>>
        /\ queue \in Seq(Id) /\ order \in Seq(Id) /\ \A n \in Id : rest[n] = {}
    BY DEF DagInv, TakeFromQueue, NoneInHand, TypeOK
  <1>2. /\ input' = input /\ begun' = begun /\ visited' = visited /\ indegree' = indegree
        /\ stack' = stack /\ reachable' = reachable
        /\ phase' = phase /\ verdict' = verdict /\ cycle' = cycle
        /\ queue' = Tail(queue) /\ order' = Append(order, h)
        /\ rest' = [rest EXCEPT ![h] = Outgoing(h)]
    BY DEF TakeFromQueue, searchVars
  <1>3. IsInjective(queue) /\ IsInjective(order) /\ ToSet(order) \cap ToSet(queue) = {}
        /\ ToSet(order) \cup ToSet(queue) = {n \in Id : Missing(n) = {}}
    BY <1>1 DEF Sorting
  <1>4. /\ h \in Id /\ queue' \in Seq(Id) /\ ToSet(queue) = ToSet(queue') \cup {h}
        /\ h \notin ToSet(queue') /\ IsInjective(queue')
    BY <1>1, <1>2, <1>3, WithoutFirst
  <1> HIDE DEF h
  <1>5. h \notin ToSet(order) /\ Missing(h) = {}
    BY <1>3, <1>4
  <1>6. /\ order' \in Seq(Id) /\ Len(order) \in Nat /\ DOMAIN order' = 1 .. Len(order) + 1
        /\ \A k \in 1 .. Len(order) : order'[k] = order[k]
        /\ order'[Len(order) + 1] = h
        /\ ToSet(order') = ToSet(order) \cup {h} /\ IsInjective(order')
    <2>1. order' = Append(order, h)
      BY <1>2
    <2>2. QED
      BY <1>1, <1>3, <1>4, <1>5, <2>1, WithAnother
  <1>7. Id' = Id /\ IsGiven' /\ Checked' /\ OneRoot' /\ Unwinds(Id)' /\ Edges' = Edges
    BY <1>1, <1>2, SameCanvas DEF Sorting
  <1>8. /\ rest' \in [Id -> SUBSET Edges]
        /\ \A n \in Id : rest'[n] = IF n = h THEN Outgoing(h) ELSE {}
    <2>1. rest \in [Id -> SUBSET Edges] /\ Outgoing(h) \in SUBSET Edges
      BY <1>1 DEF TypeOK, Outgoing, Edges
    <2>2. QED
      BY <1>1, <1>2, <1>4, <2>1
  <1>9. TypeOK'
    BY <1>1, <1>2, <1>4, <1>6, <1>7, <1>8 DEF TypeOK, Edges
  <1>10. /\ \A n : Incoming(n)' = Incoming(n) /\ Outgoing(n)' = Outgoing(n)
         /\ \A i : Source(i)' = Source(i) /\ Target(i)' = Target(i)
    BY <1>2, SameCanvas
  <1>11. RestIsOutgoing'
    BY <1>7, <1>8, <1>10 DEF RestIsOutgoing
  <1>12. ASSUME NEW n \in Id PROVE Missing(n)' = Missing(n)
    <2>1. Missing(n)' = {i \in Incoming(n) : Source(i) \notin ToSet(order') \/ i \in rest'[Source(i)]}
      BY <1>2, <1>10 DEF Missing
    <2>2. ASSUME NEW i \in Incoming(n)
          PROVE  (Source(i) \notin ToSet(order') \/ i \in rest'[Source(i)])
                 <=> (Source(i) \notin ToSet(order) \/ i \in rest[Source(i)])
      <3>1. i \in Edges /\ Source(i) \in Id /\ i \in Outgoing(Source(i))
        BY <1>1, <2>2, Ends DEF Sorting, Checked, Incoming, Outgoing, Edges
      <3>2. QED
        BY <1>1, <1>5, <1>6, <1>8, <3>1
    <2>3. QED
      BY <2>1, <2>2 DEF Missing
  <1>13. \A n \in Id' : indegree'[n] = Cardinality(Missing(n)')
    BY <1>1, <1>2, <1>7, <1>12 DEF Sorting
  <1>14. /\ ToSet(order') \cap ToSet(queue') = {}
         /\ ToSet(order') \cup ToSet(queue') = {n \in Id : Missing(n)' = {}}
    BY <1>3, <1>4, <1>5, <1>6, <1>12
  <1>15. \A n \in Id' : n \in ToSet(order)' \/ rest'[n] = {}
    BY <1>6, <1>7, <1>8
  <1>16. ASSUME NEW i \in Edges, NEW b \in DOMAIN order', Target(i) = order'[b]
         PROVE  \E a \in DOMAIN order' : a < b /\ order'[a] = Source(i)
    <2>1. DOMAIN order = 1 .. Len(order)
      BY <1>1, LenProperties
    <2>2. CASE b \in 1 .. Len(order)
      <3>1. PICK a \in DOMAIN order : a < b /\ order[a] = Source(i)
        BY <1>1, <1>6, <1>16, <2>1, <2>2 DEF Sorting
      <3>2. a \in DOMAIN order' /\ order'[a] = order[a]
        BY <1>6, <2>1, <3>1
      <3>3. QED
        BY <3>1, <3>2
    <2>3. CASE b = Len(order) + 1
      <3>1. Target(i) = h /\ i \in Incoming(h)
        BY <1>6, <1>16, <2>3 DEF Incoming, Edges
      <3>2. Source(i) \in ToSet(order)
        BY <1>5, <3>1 DEF Missing
      <3>3. PICK a \in 1 .. Len(order) : order[a] = Source(i)
        BY <2>1, <3>2 DEF ToSet
      <3>4. a \in DOMAIN order' /\ a < b /\ order'[a] = order[a]
        BY <1>6, <2>3
      <3>5. QED
        BY <3>3, <3>4
    <2>4. QED
      BY <1>6, <2>2, <2>3
  <1>17. \A i \in Edges' : \A b \in DOMAIN order' :
           Target(i)' = order'[b] => \E a \in DOMAIN order' : a < b /\ order'[a] = Source(i)'
    BY <1>7, <1>10, <1>16
  <1>18. Sorting'
    BY <1>4, <1>6, <1>7, <1>11, <1>13, <1>14, <1>15, <1>17 DEF Sorting
  <1>19. QED
    BY <1>1, <1>2, <1>7, <1>9, <1>18 DEF DagInv

LEMMA MissingIsFinite ==
  ASSUME IsGiven, NEW n \in Id
  PROVE  IsFiniteSet(Missing(n)) /\ (Cardinality(Missing(n)) = 0 <=> Missing(n) = {})
  <1>1. Missing(n) \subseteq Incoming(n) /\ IsFiniteSet(Incoming(n))
    BY IndegreeIsCount DEF Missing
  <1>2. IsFiniteSet(Missing(n))
    BY <1>1, FS_Subset
  <1>3. QED
    BY <1>2, FS_EmptySet

LEMMA StepCountDown ==
  ASSUME DagInv, NEW n \in Id, CountDown(n)
  PROVE  DagInv'
  <1> DEFINE i == Min(rest[n])
  <1>0. PICK t : t = Target(i)
    OBVIOUS
  <1>1. /\ IsGiven /\ TypeOK /\ Sorting /\ phase = "sort" /\ rest[n] # {}
        /\ queue \in Seq(Id) /\ order \in Seq(Id)
    BY DEF DagInv, CountDown, TypeOK
  <1>2. /\ input' = input /\ begun' = begun /\ visited' = visited /\ order' = order
        /\ stack' = stack /\ reachable' = reachable
        /\ phase' = phase /\ verdict' = verdict /\ cycle' = cycle
        /\ rest' = [rest EXCEPT ![n] = @ \ {i}]
        /\ indegree' = [indegree EXCEPT ![t] = @ - 1]
        /\ queue' = IF indegree[t] - 1 = 0 THEN Append(queue, t) ELSE queue
    BY <1>0 DEF CountDown, searchVars, resultVars
  <1>3. i \in rest[n] /\ i \in Edges /\ Source(i) = n /\ t \in Id
    BY <1>0, <1>1, Taken DEF Sorting, Checked
  <1> HIDE DEF i
  <1>4. n \in ToSet(order)
    BY <1>1 DEF Sorting
  <1>5. Id' = Id /\ IsGiven' /\ Checked' /\ OneRoot' /\ Unwinds(Id)' /\ Edges' = Edges
    BY <1>1, <1>2, SameCanvas DEF Sorting
  <1>6. /\ rest' \in [Id -> SUBSET Edges]
        /\ \A m \in Id : rest'[m] = IF m = n THEN rest[n] \ {i} ELSE rest[m]
    <2>1. rest \in [Id -> SUBSET Edges]
      BY <1>1 DEF TypeOK, Edges
    <2>2. QED
      BY <1>2, <2>1
  <1>7. /\ indegree' \in [Id -> Int] /\ \A m \in Id : m # t => indegree'[m] = indegree[m]
        /\ indegree'[t] = indegree[t] - 1
    BY <1>1, <1>2, <1>3 DEF TypeOK
  <1>8. /\ \A m : Incoming(m)' = Incoming(m) /\ Outgoing(m)' = Outgoing(m)
        /\ \A j : Source(j)' = Source(j) /\ Target(j)' = Target(j)
    BY <1>2, SameCanvas
  <1>9. RestIsOutgoing'
    BY <1>1, <1>5, <1>6, <1>8 DEF Sorting, RestIsOutgoing
  <1>10. ASSUME NEW m \in Id PROVE Missing(m)' = Missing(m) \ {i}
    <2>1. Missing(m)' = {j \in Incoming(m) : Source(j) \notin ToSet(order) \/ j \in rest'[Source(j)]}
      BY <1>2, <1>8 DEF Missing
    <2>2. ASSUME NEW j \in Incoming(m)
          PROVE  (Source(j) \notin ToSet(order) \/ j \in rest'[Source(j)])
                 <=> (Source(j) \notin ToSet(order) \/ j \in rest[Source(j)]) /\ j # i
      <3>1. j \in Edges /\ Source(j) \in Id
        BY <1>1, <2>2, Ends DEF Sorting, Checked, Incoming, Edges
      <3>2. CASE Source(j) = n
        BY <1>3, <1>4, <1>6, <3>2
      <3>3. CASE Source(j) # n
        BY <1>3, <1>6, <3>1, <3>3
      <3>4. QED
        BY <3>2, <3>3
    <2>3. QED
      BY <2>1, <2>2 DEF Missing
  <1>11. i \in Missing(t) /\ \A m \in Id : m # t => i \notin Missing(m)
    BY <1>0, <1>3, <1>4 DEF Missing, Incoming, Edges
  <1>12. \A m \in Id : m # t => Missing(m)' = Missing(m)
    BY <1>10, <1>11
  <1>13. /\ \A m \in Id : indegree[m] = Cardinality(Missing(m))
         /\ ToSet(order) \cup ToSet(queue) = {m \in Id : Missing(m) = {}}
         /\ ToSet(order) \cap ToSet(queue) = {} /\ IsInjective(order) /\ IsInjective(queue)
    BY <1>1 DEF Sorting
  <1>14. /\ Cardinality(Missing(t) \ {i}) = Cardinality(Missing(t)) - 1
         /\ IsFiniteSet(Missing(t) \ {i})
    BY <1>1, <1>3, <1>11, MissingIsFinite, FS_RemoveElement
  <1>15. \A m \in Id : indegree'[m] = Cardinality(Missing(m)')
    <2>1. indegree'[t] = Cardinality(Missing(t)')
      BY <1>3, <1>7, <1>10, <1>13, <1>14
    <2>2. QED
      BY <1>7, <1>12, <1>13, <2>1
  <1>16. indegree[t] - 1 = 0 <=> Missing(t)' = {}
    <2>1. Cardinality(Missing(t) \ {i}) = 0 <=> Missing(t) \ {i} = {}
      BY <1>14, FS_EmptySet
    <2>2. QED
      BY <1>3, <1>10, <1>13, <1>14, <2>1
  <1>17. t \notin ToSet(order) \cup ToSet(queue)
    BY <1>11, <1>13
  <1>18. /\ queue' \in Seq(Id) /\ IsInjective(queue')
         /\ ToSet(queue') = IF Missing(t)' = {} THEN ToSet(queue) \cup {t} ELSE ToSet(queue)
    <2>1. CASE Missing(t)' = {}
      <3>1. queue' = Append(queue, t)
        BY <1>2, <1>16, <2>1
      <3>2. QED
        BY <1>1, <1>3, <1>13, <1>17, <2>1, <3>1, WithAnother
    <2>2. CASE Missing(t)' # {}
      BY <1>1, <1>2, <1>13, <1>16, <2>2
    <2>3. QED
      BY <2>1, <2>2
  <1>19. TypeOK'
    BY <1>1, <1>2, <1>5, <1>6, <1>7, <1>18 DEF TypeOK, Edges
  <1>20. /\ ToSet(order) \cap ToSet(queue') = {}
         /\ ToSet(order) \cup ToSet(queue') = {m \in Id : Missing(m)' = {}}
    <2>1. {m \in Id : Missing(m)' = {}} =
            IF Missing(t)' = {} THEN {m \in Id : Missing(m) = {}} \cup {t} ELSE {m \in Id : Missing(m) = {}}
      BY <1>3, <1>11, <1>12
    <2>2. QED
      BY <1>13, <1>17, <1>18, <2>1
  <1>21. \A m \in Id' : m \in ToSet(order)' \/ rest'[m] = {}
    BY <1>1, <1>2, <1>4, <1>5, <1>6 DEF Sorting
  <1>22. \A j \in Edges' : \A b \in DOMAIN order' :
           Target(j)' = order'[b] => \E a \in DOMAIN order' : a < b /\ order'[a] = Source(j)'
    BY <1>1, <1>2, <1>5, <1>8 DEF Sorting
  <1>23. Sorting'
    BY <1>2, <1>5, <1>9, <1>13, <1>15, <1>18, <1>20, <1>21, <1>22 DEF Sorting
  <1>24. QED
    BY <1>1, <1>2, <1>5, <1>19, <1>23 DEF DagInv

LEMMA StepEndSort ==
  ASSUME DagInv, EndSort
  PROVE  DagInv'
  <1>1. /\ IsGiven /\ TypeOK /\ Sorting /\ phase = "sort" /\ queue = <<>> /\ order \in Seq(Id)
        /\ \A n \in Id : rest[n] = {}
    BY DEF DagInv, EndSort, NoneInHand, TypeOK
  <1>2. /\ IsInjective(order) /\ ToSet(order) = {n \in Id : Missing(n) = {}}
        /\ Checked /\ BadEdges = {} /\ Unwinds(Id) /\ OneRoot
    BY <1>1 DEF Sorting, ToSet, Checked
  <1>3. ToSet(order) = Id
    <2>1. SUFFICES ASSUME Id \ ToSet(order) # {} PROVE FALSE
      BY <1>2
    <2>2. PICK n \in Id \ ToSet(order) :
            \A i \in Edges : Target(i) = n => Source(i) \notin Id \ ToSet(order)
      BY <1>2, <2>1 DEF Unwinds
    <2>3. ASSUME NEW i \in Missing(n) PROVE FALSE
      <3>1. i \in Edges /\ Target(i) = n /\ Source(i) \in Id
            /\ (Source(i) \notin ToSet(order) \/ i \in rest[Source(i)])
        BY <1>2, <2>3, Ends DEF Missing, Incoming, Edges
      <3>2. QED
        BY <1>1, <2>2, <3>1
    <2>4. QED
      BY <1>2, <2>2, <2>3
  <1>4. Len(order) = Len(input.nodes)
    <2>1. Cardinality(Id) = Len(order)
      BY <1>1, <1>2, <1>3, ListedCount
    <2>2. Cardinality(Id) = Len(input.nodes)
      BY <1>1, <1>2, Given DEF Checked, NodesAreFine
    <2>3. QED
      BY <2>1, <2>2
  <1>5. /\ input' = input /\ begun' = begun /\ visited' = visited /\ indegree' = indegree
        /\ queue' = queue /\ stack' = stack /\ reachable' = reachable /\ rest' = rest
        /\ phase' = "done" /\ verdict' = "accepted" /\ order' = order /\ cycle' = cycle
    BY <1>4 DEF EndSort, searchVars, loopVars
  <1>6. IsRootedDag
    BY <1>1, <1>2, UnwoundIsDag
  <1>7. Id' = Id /\ IsGiven' /\ IsRootedDag'
    BY <1>1, <1>5, <1>6, SameCanvas
  <1>8. TypeOK'
    BY <1>1, <1>5, <1>7 DEF TypeOK
  <1>9. ASSUME NEW i \in DOMAIN order, NEW j \in DOMAIN order, LeadsTo(order[i], order[j])
        PROVE  i <= j
    <2> DEFINE S == {order[k] : k \in {l \in DOMAIN order : i <= l}}
    <2>1. DOMAIN order = 1 .. Len(order) /\ Len(order) \in Nat
      BY <1>1, LenProperties
    <2>2. S \in SUBSET Id
      BY <1>3 DEF ToSet
    <2>3. order[i] \in S
      BY <2>1
    <2>4. Closed(S)
      <3>1. SUFFICES ASSUME NEW e \in Edges, Source(e) \in S PROVE Target(e) \in S
        BY DEF Closed, Edges
      <3>2. PICK a \in DOMAIN order : i <= a /\ order[a] = Source(e)
        BY <3>1
      <3>3. PICK b \in DOMAIN order : order[b] = Target(e)
        BY <1>2, <1>3, Ends DEF ToSet
      <3>4. PICK c \in DOMAIN order : c < b /\ order[c] = Source(e)
        BY <1>1, <3>3 DEF Sorting
      <3>5. c = a
        BY <1>2, <3>2, <3>4 DEF IsInjective
      <3>6. i <= b
        BY <2>1, <3>2, <3>4, <3>5
      <3>7. QED
        BY <3>3, <3>6
    <2>5. order[j] \in S
      BY <1>9, <2>2, <2>3, <2>4 DEF LeadsTo
    <2>6. PICK k \in DOMAIN order : i <= k /\ order[k] = order[j]
      BY <2>5
    <2>7. k = j
      BY <1>2, <2>6 DEF IsInjective
    <2>8. QED
      BY <2>6, <2>7
  <1>10. OrderIsTopological'
    <2>1. \A i, j \in DOMAIN order' : LeadsTo(order[i], order[j])' => i <= j
      BY <1>5, <1>7, <1>9 DEF LeadsTo, Closed, Source, Target
    <2>2. IsInjective(order') /\ ToSet(order') = Id'
      BY <1>2, <1>3, <1>5, <1>7
    <2>3. QED
      BY <2>1, <2>2 DEF OrderIsTopological
  <1>11. AcceptsRootedDags' /\ ReportsACycle'
    BY <1>5, <1>7 DEF AcceptsRootedDags, ReportsACycle
  <1>12. QED
    BY <1>5, <1>7, <1>8, <1>10, <1>11 DEF DagInv, Ended

LEMMA DagStep ==
  ASSUME DagInv, [ensureCanvasIsDag]_vars
  PROVE  DagInv'
  <1>1. CASE UNCHANGED vars
    <2>1. /\ input' = input /\ begun' = begun /\ visited' = visited /\ indegree' = indegree
          /\ queue' = queue /\ stack' = stack /\ reachable' = reachable /\ rest' = rest
          /\ phase' = phase /\ verdict' = verdict /\ order' = order /\ cycle' = cycle
      BY <1>1 DEF vars, searchVars, loopVars, resultVars
    <2>2. (IsGiven' <=> IsGiven) /\ (TypeOK' <=> TypeOK)
      BY <2>1 DEF IsGiven, TypeOK, Id
    <2>3. Searching' <=> Searching
      BY <2>1, SameCanvas
      DEF Searching, Checked, NodesAreFine, BadEdges, HasIsolated, Counted, RestIsOutgoing, Unwinds, Followed,
          Indegree, Incoming, Outgoing, Source, Target, Edges, Closed, Id
    <2>4. Connecting' <=> Connecting
      BY <2>1, SameCanvas DEF Connecting, Counted, RestIsOutgoing
    <2>5. Sorting' <=> Sorting
      BY <2>1, SameCanvas DEF Sorting, Missing, RestIsOutgoing
    <2>6. Ended' <=> Ended
      BY <2>1, SameCanvas
      DEF Ended, AcceptsRootedDags, OrderIsTopological, ReportsACycle, LeadsTo, Closed, Source, Target, Id
    <2>7. IsGiven' /\ TypeOK'
      BY <2>2 DEF DagInv
    <2>8. Id' = Id
      BY <2>1 DEF Id
    <2>9. QED
      BY <2>1, <2>3, <2>4, <2>5, <2>6, <2>7, <2>8 DEF DagInv
  <1>2. CASE ensureCanvasIsDag
    BY <1>2, StepRefuseGraph, StepPassGraph, StepCloseCycle, StepCallOn, StepLeaveNode,
       StepRefuseRoots, StepStartAtRoot, StepTakeFromStack, StepPushTarget, StepEndConnect,
       StepTakeFromQueue, StepCountDown, StepEndSort DEF ensureCanvasIsDag
  <1>3. QED
    BY <1>1, <1>2

-----------------------------------------------------------------------------
(* What validateDag returns *)

LEMMA DagInvariance == Spec => []DagInv
  <1>1. Init => DagInv
    BY DagInit
  <1>2. DagInv /\ [ensureCanvasIsDag]_vars => DagInv'
    BY DagStep
  <1>3. QED
    BY <1>1, <1>2, PTL DEF Spec

\* Whatever the canvas, the loops of validateDag keep to its nodes, their
\* positions and its transitions.
THEOREM DagTyping == Spec => []TypeOK
  <1>1. DagInv => TypeOK
    BY DEF DagInv
  <1>2. QED
    BY <1>1, DagInvariance, PTL

\* validateDag accepts a canvas if and only if it is an acyclic graph with one
\* node that leads to all others, and never throws the "no root", "unreachable"
\* or "unsortable" of the checks that only guard its own algorithm.
THEOREM AcceptsExactlyRootedDags == Spec => []AcceptsRootedDags
  <1>1. DagInv => AcceptsRootedDags
    BY DEF DagInv, Ended, AcceptsRootedDags
  <1>2. QED
    BY <1>1, DagInvariance, PTL

\* topologicalSort lists each step of an accepted canvas once, after every step
\* that leads to it, parallel transitions or not.
THEOREM SortsTopologically == Spec => []OrderIsTopological
  <1>1. DagInv => OrderIsTopological
    BY DEF DagInv, Ended, OrderIsTopological
  <1>2. QED
    BY <1>1, DagInvariance, PTL

\* The path getCyclePath hands to the CyclicDependencyError is a cycle of the
\* canvas that meets no step twice, wherever on the stack it was closed.
THEOREM CycleIsReported == Spec => []ReportsACycle
  <1>1. DagInv => ReportsACycle
    BY DEF DagInv, Ended, ReportsACycle
  <1>2. QED
    BY <1>1, DagInvariance, PTL

-----------------------------------------------------------------------------
(* The loops come to an end *)

\* Steps whose transitions the running search has begun to go through.
Begun ==
  CASE phase = "search" -> visited \cup ToSet(stack)
    [] phase = "connect" -> reachable
    [] OTHER -> ToSet(order)

ToFollow == {i \in Edges : Source(i) \notin Begun \/ i \in rest[Source(i)]}

PhasesLeft ==
  CASE phase = "check" -> 4 [] phase = "search" -> 3 [] phase = "connect" -> 2
    [] phase = "sort" -> 1 [] phase = "done" -> 0

\* assertConnectedFromRoot may push a step once for every transition into it.
TurnsLeft ==
  CASE phase = "search" ->
         Cardinality(ToFollow) + (Len(input.nodes) - begun) + Cardinality(Id \ visited)
    [] phase = "connect" -> Cardinality(ToFollow) + Cardinality(ToFollow) + Len(stack)
    [] phase = "sort" -> Cardinality(ToFollow) + Cardinality(Id \ ToSet(order))
    [] OTHER -> 0

Nears ==
  /\ TurnsLeft \in Nat
  /\ \/ PhasesLeft' < PhasesLeft
     \/ PhasesLeft' = PhasesLeft /\ TurnsLeft' < TurnsLeft

LEMMA FewerOf ==
  ASSUME NEW S, IsFiniteSet(S), NEW T \in SUBSET S
  PROVE  /\ Cardinality(S) \in Nat /\ Cardinality(T) \in Nat /\ Cardinality(T) <= Cardinality(S)
         /\ T # S => Cardinality(T) < Cardinality(S)
  <1>1. IsFiniteSet(T) /\ Cardinality(T) <= Cardinality(S) /\ (Cardinality(S) = Cardinality(T) => S = T)
    BY FS_Subset
  <1>2. Cardinality(S) \in Nat /\ Cardinality(T) \in Nat
    BY <1>1, FS_CardinalityType
  <1>3. QED
    BY <1>1, <1>2

LEMMA TurnsAreCounted ==
  ASSUME DagInv
  PROVE  /\ TurnsLeft \in Nat /\ IsFiniteSet(ToFollow) /\ Cardinality(ToFollow) \in Nat
         /\ Cardinality(Id \ visited) \in Nat /\ Cardinality(Id \ ToSet(order)) \in Nat
         /\ Len(input.nodes) \in Nat /\ begun \in Nat /\ begun <= Len(input.nodes) /\ Len(stack) \in Nat
  <1>1. IsGiven /\ TypeOK
    BY DEF DagInv
  <1>2. IsFiniteSet(Id) /\ IsFiniteSet(Edges) /\ Len(input.nodes) \in Nat
    BY <1>1, Given
  <1>3. IsFiniteSet(ToFollow) /\ Cardinality(ToFollow) \in Nat
    <2>1. ToFollow \in SUBSET Edges
      BY DEF ToFollow
    <2>2. QED
      BY <1>2, <2>1, FewerOf, FS_Subset
  <1>4. Cardinality(Id \ visited) \in Nat /\ Cardinality(Id \ ToSet(order)) \in Nat
    BY <1>2, FewerOf
  <1>5. begun \in Nat /\ begun <= Len(input.nodes) /\ Len(stack) \in Nat
    <2>1. begun \in 0 .. Len(input.nodes) /\ stack \in Seq(Id)
      BY <1>1 DEF TypeOK
    <2>2. QED
      BY <1>2, <2>1, LenProperties
  <1>6. TurnsLeft \in Nat
    <2>1. Len(input.nodes) - begun \in Nat
      BY <1>2, <1>5
    <2> DEFINE a == Cardinality(ToFollow)
               b == Len(input.nodes) - begun
               c == Cardinality(Id \ visited)
               d == Cardinality(Id \ ToSet(order))
               e == Len(stack)
    <2>2. a \in Nat /\ b \in Nat /\ c \in Nat /\ d \in Nat /\ e \in Nat
      BY <1>3, <1>4, <1>5, <2>1
    <2> HIDE DEF a, b, c, d, e
    <2>3. a + b + c \in Nat /\ a + a + e \in Nat /\ a + d \in Nat
      BY <2>2
    <2>4. QED
      BY <2>3 DEF TurnsLeft, a, b, c, d, e
  <1>7. QED
    BY <1>2, <1>3, <1>4, <1>5, <1>6

\* A function that returned, or threw, is left behind.
LEMMA PhaseNears ==
  ASSUME DagInv,
         \/ phase = "check" /\ phase' \in {"search", "done"}
         \/ phase = "search" /\ phase' \in {"connect", "done"}
         \/ phase = "connect" /\ phase' \in {"sort", "done"}
         \/ phase = "sort" /\ phase' = "done"
  PROVE  Nears
  BY TurnsAreCounted DEF Nears, PhasesLeft

LEMMA CallOnNears ==
  ASSUME DagInv, CallOn
  PROVE  Nears
  <1> DEFINE n == Callee
             last == Last(stack)
             i == Min(rest[last])
             left == IF stack = <<>> THEN rest ELSE [rest EXCEPT ![last] = @ \ {i}]
  <1>1. /\ IsGiven /\ TypeOK /\ Searching /\ Calls /\ stack \in Seq(Id) /\ phase = "search"
        /\ rest \in [Id -> SUBSET Edges] /\ BadEdges = {}
    BY DEF DagInv, CallOn, Calls, TypeOK, Edges, Searching, Checked
  <1>2. /\ input' = input /\ visited' = visited /\ phase' = phase
        /\ begun' = IF stack = <<>> THEN begun + 1 ELSE begun
        /\ n \in visited => rest' = left /\ stack' = stack
        /\ n \notin visited => rest' = [left EXCEPT ![n] = Outgoing(n)] /\ stack' = Append(stack, n)
    BY DEF CallOn, resultVars
  <1>3. /\ n \in Id /\ begun' <= Len(input.nodes)
        /\ stack # <<>> =>
             last \in Id /\ last \in ToSet(stack) /\ i \in rest[last] /\ i \in Edges /\ Source(i) = last
    <2>1. /\ n \in Id
          /\ stack = <<>> => begun + 1 \in 1 .. Len(input.nodes)
          /\ stack # <<>> =>
               last \in Id /\ last \in ToSet(stack) /\ i \in rest[last] /\ i \in Edges /\ Source(i) = last
      BY <1>1, Called
    <2>2. QED
      BY <1>2, <2>1, TurnsAreCounted
  <1>4. n \notin ToSet(stack)
    <2>1. DOMAIN stack = 1 .. Len(stack)
      BY <1>1, LenProperties
    <2>2. QED
      BY <2>1 DEF CallOn, OnPath, Contains, ToSet
  <1> HIDE DEF n, i
  <1>5. /\ left \in [Id -> SUBSET Edges]
        /\ \A m \in Id : left[m] = IF stack # <<>> /\ m = last THEN rest[m] \ {i} ELSE rest[m]
    <2>1. CASE stack = <<>>
      BY <1>1, <2>1
    <2>2. CASE stack # <<>>
      BY <1>1, <1>3, <2>2
    <2>3. QED
      BY <2>1, <2>2
  <1> HIDE DEF left
  <1>6. ToSet(stack') = IF n \in visited THEN ToSet(stack) ELSE ToSet(stack) \cup {n}
    <2>1. CASE n \in visited
      BY <1>2, <2>1
    <2>2. CASE n \notin visited
      <3>1. ToSet(Append(stack, n)) = ToSet(stack) \cup {n}
        BY <1>1, <1>3, WithAnother
      <3>2. QED
        BY <1>2, <2>2, <3>1
    <2>3. QED
      BY <2>1, <2>2
  <1>7. \A m \in Id : rest'[m] = IF m = n /\ n \notin visited THEN Outgoing(n) ELSE left[m]
    <2>1. CASE n \in visited
      BY <1>2, <1>5, <2>1
    <2>2. CASE n \notin visited
      BY <1>2, <1>3, <1>5, <2>2
    <2>3. QED
      BY <2>1, <2>2
  <1>8. ToFollow' = {j \in Edges : Source(j) \notin visited \cup ToSet(stack') \/ j \in rest'[Source(j)]}
    <2>1. Edges' = Edges /\ \A j : Source(j)' = Source(j)
      BY <1>2, SameCanvas
    <2>2. Begun' = visited \cup ToSet(stack')
      BY <1>1, <1>2 DEF Begun
    <2>3. QED
      BY <2>1, <2>2 DEF ToFollow
  <1>9. ToFollow = {j \in Edges : Source(j) \notin visited \cup ToSet(stack) \/ j \in rest[Source(j)]}
    BY <1>1 DEF ToFollow, Begun
  <1>10. ToFollow' \in SUBSET ToFollow
    <2>1. SUFFICES ASSUME NEW j \in Edges, Source(j) \in visited \cup ToSet(stack), j \notin rest[Source(j)]
                   PROVE  Source(j) \in visited \cup ToSet(stack') /\ j \notin rest'[Source(j)]
      BY <1>8, <1>9
    <2>2. Source(j) \in Id /\ (Source(j) = n => n \in visited)
      BY <1>1, <1>4, <2>1, Ends
    <2>3. QED
      BY <1>5, <1>6, <1>7, <2>1, <2>2
  <1>11. ASSUME stack # <<>> PROVE ToFollow' # ToFollow
    <2>1. i \in ToFollow
      BY <1>3, <1>9, <1>11
    <2>2. i \notin rest'[last] /\ last \in ToSet(stack')
      BY <1>3, <1>4, <1>5, <1>6, <1>7, <1>11
    <2>3. QED
      BY <1>3, <1>8, <1>11, <2>1, <2>2
  <1>12. /\ Cardinality(ToFollow') \in Nat /\ Cardinality(ToFollow') <= Cardinality(ToFollow)
         /\ stack # <<>> => Cardinality(ToFollow') < Cardinality(ToFollow)
    BY <1>10, <1>11, TurnsAreCounted, FewerOf
  <1>13. TurnsLeft = Cardinality(ToFollow) + (Len(input.nodes) - begun) + Cardinality(Id \ visited)
    BY <1>1 DEF TurnsLeft
  <1>14. TurnsLeft' = Cardinality(ToFollow') + (Len(input.nodes) - begun') + Cardinality(Id \ visited)
    BY <1>1, <1>2, SameCanvas DEF TurnsLeft
  <1>15. TurnsLeft' < TurnsLeft
    <2> DEFINE a == Cardinality(ToFollow)
               c == Cardinality(Id \ visited)
               len == Len(input.nodes)
    <2>1. a \in Nat /\ c \in Nat /\ len \in Nat /\ begun \in Nat
      BY TurnsAreCounted
    <2> HIDE DEF a, c, len
    <2>2. CASE stack = <<>>
      <3>1. begun' = begun + 1 /\ Cardinality(ToFollow') <= a
        BY <1>2, <1>12, <2>2 DEF a
      <3>2. QED
        BY <1>12, <1>13, <1>14, <2>1, <3>1 DEF a, c, len
    <2>3. CASE stack # <<>>
      <3>1. begun' = begun /\ Cardinality(ToFollow') < a
        BY <1>2, <1>12, <2>3 DEF a
      <3>2. QED
        BY <1>12, <1>13, <1>14, <2>1, <3>1 DEF a, c, len
    <2>4. QED
      BY <2>2, <2>3
  <1>16. QED
    BY <1>1, <1>2, <1>15, TurnsAreCounted DEF Nears, PhasesLeft

LEMMA LeaveNodeNears ==
  ASSUME DagInv, LeaveNode
  PROVE  Nears
  <1> DEFINE last == Last(stack)
  <1>1. IsGiven /\ Searching /\ phase = "search" /\ stack # <<>> /\ stack \in Seq(Id)
    BY DEF DagInv, LeaveNode, TypeOK
  <1>2. /\ input' = input /\ begun' = begun /\ rest' = rest /\ phase' = phase
        /\ stack' = Front(stack) /\ visited' = visited \cup {last}
    BY DEF LeaveNode, resultVars
  <1>3. last \in Id /\ ToSet(stack) = ToSet(stack') \cup {last}
    BY <1>1, <1>2, WithoutLast
  <1>4. last \notin visited
    <2>1. Len(stack) \in DOMAIN stack /\ last = stack[Len(stack)]
      BY <1>1, WithoutLast
    <2>2. QED
      BY <1>1, <2>1 DEF Searching
  <1> HIDE DEF last
  <1>5. ToFollow' = ToFollow
    <2>1. Edges' = Edges /\ \A j : Source(j)' = Source(j)
      BY <1>2, SameCanvas
    <2>2. Begun' = visited' \cup ToSet(stack') /\ Begun = visited \cup ToSet(stack)
      BY <1>1, <1>2 DEF Begun
    <2>3. Begun' = Begun
      BY <1>2, <1>3, <2>2
    <2>4. QED
      BY <1>2, <2>1, <2>3 DEF ToFollow
  <1>6. Cardinality(Id \ visited') \in Nat /\ Cardinality(Id \ visited') < Cardinality(Id \ visited)
    <2>1. Id \ visited' \in SUBSET (Id \ visited) /\ Id \ visited' # Id \ visited
      BY <1>2, <1>3, <1>4
    <2>2. IsFiniteSet(Id \ visited)
      BY <1>1, Given, FS_Subset
    <2>3. QED
      BY <2>1, <2>2, FewerOf
  <1>7. TurnsLeft = Cardinality(ToFollow) + (Len(input.nodes) - begun) + Cardinality(Id \ visited)
    BY <1>1 DEF TurnsLeft
  <1>8. TurnsLeft' = Cardinality(ToFollow) + (Len(input.nodes) - begun) + Cardinality(Id \ visited')
    BY <1>1, <1>2, <1>5, SameCanvas DEF TurnsLeft
  <1>9. TurnsLeft' < TurnsLeft
    <2> DEFINE other == Cardinality(ToFollow) + (Len(input.nodes) - begun)
    <2>1. other \in Int /\ Cardinality(Id \ visited) \in Nat
      BY TurnsAreCounted
    <2>2. TurnsLeft = other + Cardinality(Id \ visited) /\ TurnsLeft' = other + Cardinality(Id \ visited')
      BY <1>7, <1>8
    <2> HIDE DEF other
    <2>3. QED
      BY <1>6, <2>1, <2>2
  <1>10. QED
    BY <1>1, <1>2, <1>9, TurnsAreCounted DEF Nears, PhasesLeft

LEMMA TakeFromStackNears ==
  ASSUME DagInv, TakeFromStack
  PROVE  Nears
  <1> DEFINE n == Last(stack)
  <1>1. /\ IsGiven /\ TypeOK /\ Connecting /\ phase = "connect" /\ stack # <<>> /\ stack \in Seq(Id)
        /\ rest \in [Id -> SUBSET Edges] /\ BadEdges = {} /\ \A m \in Id : rest[m] = {}
    BY DEF DagInv, TakeFromStack, TypeOK, Edges, Connecting, Checked, NoneInHand
  <1>2. /\ input' = input /\ phase' = phase /\ stack' = Front(stack) /\ reachable' = reachable \cup {n}
        /\ rest' = IF n \in reachable THEN rest ELSE [rest EXCEPT ![n] = Outgoing(n)]
    BY DEF TakeFromStack, searchVars, resultVars
  <1>3. n \in Id /\ Len(stack') = Len(stack) - 1
    BY <1>1, <1>2, WithoutLast
  <1> HIDE DEF n
  <1>4. \A m \in Id : rest'[m] = IF m = n /\ n \notin reachable THEN Outgoing(n) ELSE rest[m]
    <2>1. CASE n \in reachable
      BY <1>2, <2>1
    <2>2. CASE n \notin reachable
      BY <1>1, <1>2, <1>3, <2>2
    <2>3. QED
      BY <2>1, <2>2
  <1>5. ToFollow' = ToFollow
    <2>1. Edges' = Edges /\ \A j : Source(j)' = Source(j)
      BY <1>2, SameCanvas
    <2>2. Begun' = reachable \cup {n} /\ Begun = reachable
      BY <1>1, <1>2 DEF Begun
    <2>3. ToFollow' = {j \in Edges : Source(j) \notin reachable \cup {n} \/ j \in rest'[Source(j)]}
      BY <2>1, <2>2 DEF ToFollow
    <2>4. ASSUME NEW j \in Edges
          PROVE  (Source(j) \notin reachable \cup {n} \/ j \in rest'[Source(j)])
                 <=> (Source(j) \notin reachable \/ j \in rest[Source(j)])
      <3>1. Source(j) \in Id /\ j \in Outgoing(Source(j))
        BY <1>1, <2>4, Ends DEF Outgoing, Edges
      <3>2. CASE Source(j) = n /\ n \notin reachable
        BY <1>4, <3>1, <3>2
      <3>3. CASE Source(j) # n \/ n \in reachable
        BY <1>4, <3>1, <3>3
      <3>4. QED
        BY <3>2, <3>3
    <2>5. QED
      BY <2>2, <2>3, <2>4 DEF ToFollow
  <1>6. TurnsLeft = Cardinality(ToFollow) + Cardinality(ToFollow) + Len(stack)
    BY <1>1 DEF TurnsLeft
  <1>7. TurnsLeft' = Cardinality(ToFollow) + Cardinality(ToFollow) + Len(stack')
    BY <1>1, <1>2, <1>5 DEF TurnsLeft
  <1>8. TurnsLeft' < TurnsLeft
    BY <1>3, <1>6, <1>7, TurnsAreCounted
  <1>9. QED
    BY <1>1, <1>2, <1>8, TurnsAreCounted DEF Nears, PhasesLeft

\* A transition that is taken is not taken again.
LEMMA TakenOnce ==
  ASSUME DagInv, phase \in {"connect", "sort"}, BadEdges = {}, NEW n \in Id, n \in Begun,
         NEW i \in rest[n], i \in Edges, Source(i) = n,
         input' = input, phase' = phase, Begun' = Begun, rest' = [rest EXCEPT ![n] = @ \ {i}]
  PROVE  Cardinality(ToFollow') \in Nat /\ Cardinality(ToFollow') < Cardinality(ToFollow)
  <1>1. rest \in [Id -> SUBSET Edges]
    BY DEF DagInv, TypeOK, Edges
  <1>2. \A m \in Id : rest'[m] = IF m = n THEN rest[n] \ {i} ELSE rest[m]
    BY <1>1
  <1>3. ToFollow' = {j \in Edges : Source(j) \notin Begun \/ j \in rest'[Source(j)]}
    BY SameCanvas DEF ToFollow
  <1>4. ToFollow' \in SUBSET ToFollow
    <2>1. SUFFICES ASSUME NEW j \in Edges, j \in rest'[Source(j)] PROVE j \in rest[Source(j)]
      BY <1>3 DEF ToFollow
    <2>2. Source(j) \in Id
      BY Ends
    <2>3. QED
      BY <1>2, <2>1, <2>2
  <1>5. i \in ToFollow /\ i \notin ToFollow'
    BY <1>2, <1>3 DEF ToFollow
  <1>6. QED
    BY <1>4, <1>5, TurnsAreCounted, FewerOf

LEMMA PushTargetNears ==
  ASSUME DagInv, NEW n \in Id, PushTarget(n)
  PROVE  Nears
  <1>0. PICK i : i = Min(rest[n])
    OBVIOUS
  <1>1. /\ IsGiven /\ TypeOK /\ Connecting /\ phase = "connect" /\ stack \in Seq(Id) /\ rest[n] # {}
        /\ BadEdges = {}
    BY DEF DagInv, PushTarget, TypeOK, Connecting, Checked
  <1>2. /\ input' = input /\ phase' = phase /\ reachable' = reachable /\ rest' = [rest EXCEPT ![n] = @ \ {i}]
        /\ stack' = IF Target(i) \in reachable THEN stack ELSE Append(stack, Target(i))
    BY <1>0 DEF PushTarget, searchVars, resultVars
  <1>3. i \in rest[n] /\ i \in Edges /\ Source(i) = n /\ Target(i) \in Id
    BY <1>0, <1>1, Taken DEF Connecting
  <1>4. Len(stack') \in Nat /\ Len(stack') <= Len(stack) + 1
    <2>1. CASE Target(i) \in reachable
      BY <1>2, <2>1, TurnsAreCounted
    <2>2. CASE Target(i) \notin reachable
      <3>1. Len(Append(stack, Target(i))) = Len(stack) + 1
        BY <1>1, <1>3, AppendProperties
      <3>2. QED
        BY <1>2, <2>2, <3>1, TurnsAreCounted
    <2>3. QED
      BY <2>1, <2>2
  <1>5. Begun' = Begun /\ Begun = reachable
    BY <1>1, <1>2 DEF Begun
  <1>6. n \in reachable
    BY <1>1 DEF Connecting
  <1>7. Cardinality(ToFollow') \in Nat /\ Cardinality(ToFollow') < Cardinality(ToFollow)
    BY <1>1, <1>2, <1>3, <1>5, <1>6, TakenOnce
  <1>8. TurnsLeft = Cardinality(ToFollow) + Cardinality(ToFollow) + Len(stack)
    BY <1>1 DEF TurnsLeft
  <1>9. TurnsLeft' = Cardinality(ToFollow') + Cardinality(ToFollow') + Len(stack')
    BY <1>1, <1>2 DEF TurnsLeft
  <1>10. TurnsLeft' < TurnsLeft
    BY <1>4, <1>7, <1>8, <1>9, TurnsAreCounted
  <1>11. QED
    BY <1>1, <1>2, <1>10, TurnsAreCounted DEF Nears, PhasesLeft

LEMMA CountDownNears ==
  ASSUME DagInv, NEW n \in Id, CountDown(n)
  PROVE  Nears
  <1>0. PICK i : i = Min(rest[n])
    OBVIOUS
  <1>1. IsGiven /\ TypeOK /\ Sorting /\ phase = "sort" /\ rest[n] # {} /\ BadEdges = {}
    BY DEF DagInv, CountDown, Sorting, Checked
  <1>2. input' = input /\ phase' = phase /\ order' = order /\ rest' = [rest EXCEPT ![n] = @ \ {i}]
    BY <1>0 DEF CountDown, searchVars, resultVars
  <1>3. i \in rest[n] /\ i \in Edges /\ Source(i) = n
    BY <1>0, <1>1, Taken DEF Sorting
  <1>4. Begun' = Begun /\ Begun = ToSet(order)
    BY <1>1, <1>2 DEF Begun
  <1>5. n \in ToSet(order)
    BY <1>1 DEF Sorting
  <1>6. Cardinality(ToFollow') \in Nat /\ Cardinality(ToFollow') < Cardinality(ToFollow)
    BY <1>1, <1>2, <1>3, <1>4, <1>5, TakenOnce
  <1>7. TurnsLeft = Cardinality(ToFollow) + Cardinality(Id \ ToSet(order))
    BY <1>1 DEF TurnsLeft
  <1>8. TurnsLeft' = Cardinality(ToFollow') + Cardinality(Id \ ToSet(order))
    BY <1>1, <1>2, SameCanvas DEF TurnsLeft
  <1>9. TurnsLeft' < TurnsLeft
    BY <1>6, <1>7, <1>8, TurnsAreCounted
  <1>10. QED
    BY <1>1, <1>2, <1>9, TurnsAreCounted DEF Nears, PhasesLeft

LEMMA TakeFromQueueNears ==
  ASSUME DagInv, TakeFromQueue
  PROVE  Nears
  <1> DEFINE h == Head(queue)
  <1>1. /\ IsGiven /\ TypeOK /\ Sorting /\ phase = "sort" /\ queue # <<>> /\ queue \in Seq(Id)
        /\ order \in Seq(Id) /\ rest \in [Id -> SUBSET Edges] /\ BadEdges = {}
    BY DEF DagInv, TakeFromQueue, TypeOK, Edges, Sorting, Checked
  <1>2. /\ input' = input /\ phase' = phase /\ order' = Append(order, h)
        /\ rest' = [rest EXCEPT ![h] = Outgoing(h)]
    BY DEF TakeFromQueue, searchVars
  <1>3. h \in Id /\ h \in ToSet(queue)
    BY <1>1, WithoutFirst
  <1> HIDE DEF h
  <1>4. h \notin ToSet(order) /\ ToSet(order') = ToSet(order) \cup {h}
    <2>1. ToSet(Append(order, h)) = ToSet(order) \cup {h}
      BY <1>1, <1>3, WithAnother
    <2>2. QED
      BY <1>1, <1>2, <1>3, <2>1 DEF Sorting
  <1>5. ToFollow' = ToFollow
    <2>1. Edges' = Edges /\ \A j : Source(j)' = Source(j)
      BY <1>2, SameCanvas
    <2>2. Begun' = ToSet(order') /\ Begun = ToSet(order)
      BY <1>1, <1>2 DEF Begun
    <2>3. ToFollow' = {j \in Edges : Source(j) \notin ToSet(order') \/ j \in rest'[Source(j)]}
      BY <2>1, <2>2 DEF ToFollow
    <2>4. ASSUME NEW j \in Edges
          PROVE  (Source(j) \notin ToSet(order') \/ j \in rest'[Source(j)])
                 <=> (Source(j) \notin ToSet(order) \/ j \in rest[Source(j)])
      <3>1. Source(j) \in Id /\ j \in Outgoing(Source(j))
        BY <1>1, <2>4, Ends DEF Outgoing, Edges
      <3>2. CASE Source(j) = h
        BY <1>1, <1>2, <1>3, <1>4, <3>1, <3>2
      <3>3. CASE Source(j) # h
        BY <1>1, <1>2, <1>4, <3>1, <3>3
      <3>4. QED
        BY <3>2, <3>3
    <2>5. QED
      BY <2>2, <2>3, <2>4 DEF ToFollow
  <1>6. /\ Cardinality(Id \ ToSet(order')) \in Nat
        /\ Cardinality(Id \ ToSet(order')) < Cardinality(Id \ ToSet(order))
    <2>1. Id \ ToSet(order') \in SUBSET (Id \ ToSet(order)) /\ Id \ ToSet(order') # Id \ ToSet(order)
      BY <1>3, <1>4
    <2>2. IsFiniteSet(Id \ ToSet(order))
      BY <1>1, Given, FS_Subset
    <2>3. QED
      BY <2>1, <2>2, FewerOf
  <1>7. TurnsLeft = Cardinality(ToFollow) + Cardinality(Id \ ToSet(order))
    BY <1>1 DEF TurnsLeft
  <1>8. TurnsLeft' = Cardinality(ToFollow) + Cardinality(Id \ ToSet(order'))
    BY <1>1, <1>2, <1>5, SameCanvas DEF TurnsLeft
  <1>9. TurnsLeft' < TurnsLeft
    BY <1>6, <1>7, <1>8, TurnsAreCounted
  <1>10. QED
    BY <1>1, <1>2, <1>9, TurnsAreCounted DEF Nears, PhasesLeft

\* validateDag returns or throws, whatever the canvas: each turn of a loop, of
\* the recursive getCyclePath too, leaves fewer turns to the function that runs,
\* a natural number of them, or leaves that function for a later one.
THEOREM ComesToAnEnd == Spec => [][Nears]_vars
  <1>1. DagInv /\ [ensureCanvasIsDag]_vars => [Nears]_vars
    <2>1. SUFFICES ASSUME DagInv, ensureCanvasIsDag PROVE Nears
      OBVIOUS
    <2>2. ASSUME RefuseGraph \/ PassGraph \/ CloseCycle \/ RefuseRoots \/ StartAtRoot \/ EndConnect \/ EndSort
          PROVE  Nears
      <3>1. \/ phase = "check" /\ phase' \in {"search", "done"}
            \/ phase = "search" /\ phase' \in {"connect", "done"}
            \/ phase = "connect" /\ phase' \in {"sort", "done"}
            \/ phase = "sort" /\ phase' = "done"
        BY <2>2 DEF RefuseGraph, ThrowForEdge, PassGraph, CloseCycle, Calls, RefuseRoots, StartAtRoot,
           SearchIsOver, EndConnect, EndSort, Throw, GoTo
      <3>2. QED
        BY <2>1, <3>1, PhaseNears
    <2>3. QED
      BY <2>1, <2>2, CallOnNears, LeaveNodeNears, TakeFromStackNears, PushTargetNears,
         TakeFromQueueNears, CountDownNears DEF ensureCanvasIsDag
  <1>2. QED
    BY <1>1, DagInvariance, PTL DEF Spec

\* What the actions ask before they take a turn.
HasTurn ==
  \/ /\ phase = "check"
     /\ \/ input.nodes = <<>> \/ ~NodesAreFine \/ BadEdges # {} \/ HasIsolated
        \/ NodesAreFine /\ BadEdges = {} /\ ~HasIsolated
  \/ Calls
  \/ phase = "search" /\ stack # <<>> /\ rest[Last(stack)] = {}
  \/ SearchIsOver /\ (Cardinality(Roots) # 1 \/ \E root \in Id : Roots = {root})
  \/ phase = "connect" /\ (NoneInHand \/ \E n \in Id : rest[n] # {})
  \/ phase = "sort" /\ (NoneInHand \/ \E n \in Id : rest[n] # {})

\* Until validateDag has returned or thrown there is a turn for it to take, so
\* that its loops, which come to an end, end with a verdict.
THEOREM NeverWithoutTurn == Spec => [](HasTurn \/ verdict # "pending")
  <1>1. DagInv => HasTurn \/ verdict # "pending"
    <2>1. SUFFICES ASSUME DagInv, verdict = "pending" PROVE HasTurn
      OBVIOUS
    <2>2. phase \in {"check", "search", "connect", "sort", "done"} /\ phase # "done"
      BY <2>1 DEF DagInv, TypeOK, Ended
    <2>3. CASE phase = "check"
      BY <2>3 DEF HasTurn
    <2>4. CASE phase = "search"
      <3>1. begun \in Nat /\ Len(input.nodes) \in Nat /\ begun <= Len(input.nodes)
        <4>1. begun \in 0 .. Len(input.nodes) /\ input.nodes \in Seq(Id)
          BY <2>1 DEF DagInv, TypeOK, IsGiven
        <4>2. QED
          BY <4>1, LenProperties
      <3>2. CASE stack # <<>>
        BY <2>4, <3>2 DEF HasTurn, Calls
      <3>3. CASE stack = <<>> /\ begun # Len(input.nodes)
        BY <2>4, <3>1, <3>3 DEF HasTurn, Calls
      <3>4. CASE stack = <<>> /\ begun = Len(input.nodes)
        <4>1. SearchIsOver
          BY <2>4, <3>4 DEF SearchIsOver
        <4>2. IsFiniteSet(Roots) /\ Roots \subseteq Id
          BY <2>1, <4>1, Searched DEF Roots
        <4>3. Cardinality(Roots) # 1 \/ \E root : Roots = {root}
          BY <4>2, FS_Singleton
        <4>4. QED
          BY <4>1, <4>2, <4>3 DEF HasTurn
      <3>5. QED
        BY <3>2, <3>3, <3>4
    <2>5. CASE phase \in {"connect", "sort"}
      BY <2>5 DEF HasTurn, NoneInHand
    <2>6. QED
      BY <2>2, <2>3, <2>4, <2>5
  <1>2. QED
    BY <1>1, DagInvariance, PTL

-----------------------------------------------------------------------------
(* What the engine takes from an accepted canvas *)

\* Of any steps, some lead to none of them.
NoWayRound == \A S \in SUBSET Id : S # {} => \E n \in S : \A i \in Outgoing(n) : Target(i) \notin S

LEMMA SortedLeavesNoWayRound ==
  ASSUME TypeOK, OrderIsTopological, IsRootedDag, verdict = "accepted"
  PROVE  NoWayRound
  <1> SUFFICES ASSUME NEW S \in SUBSET Id, S # {}
               PROVE  \E n \in S : \A i \in Outgoing(n) : Target(i) \notin S
    BY DEF NoWayRound
  <1> DEFINE Places == {k \in 1 .. Len(order) : order[k] \in S}
             FromEnd == {Len(order) - k : k \in Places}
  <1>1. /\ order \in Seq(Id) /\ Len(order) \in Nat /\ DOMAIN order = 1 .. Len(order)
        /\ \A n \in Id : \E k \in 1 .. Len(order) : order[k] = n
    <2>1. order \in Seq(Id) /\ ToSet(order) = Id
      BY DEF TypeOK, OrderIsTopological
    <2>2. QED
      BY <2>1, Listed
  <1>2. PICK k \in Places : \A j \in Places : j <= k
    <2>1. FromEnd \in SUBSET Nat
      BY <1>1
    <2>2. PICK n \in S : TRUE
      OBVIOUS
    <2>3. FromEnd # {}
      BY <1>1, <2>2
    <2>4. Min(FromEnd) \in FromEnd /\ \A y \in FromEnd : Min(FromEnd) <= y
      BY <2>1, <2>3, LeastOf
    <2>5. PICK k \in Places : Min(FromEnd) = Len(order) - k
      BY <2>4
    <2>6. ASSUME NEW j \in Places PROVE j <= k
      <3>1. Len(order) - j \in FromEnd
        OBVIOUS
      <3>2. Len(order) - k <= Len(order) - j
        BY <2>4, <2>5, <3>1
      <3>3. QED
        BY <1>1, <3>2
    <2>7. QED
      BY <2>6
  <1>3. ASSUME NEW i \in Outgoing(order[k]), Target(i) \in S PROVE FALSE
    <2>1. i \in DOMAIN input.edges /\ Source(i) = order[k]
      BY <1>3 DEF Outgoing
    <2>2. PICK j \in Places : order[j] = Target(i)
      BY <1>1, <1>3
    <2>3. LeadsTo(order[k], order[j])
      BY <2>1, <2>2 DEF LeadsTo, Closed
    <2>4. k <= j /\ j <= k
      BY <1>1, <1>2, <2>2, <2>3 DEF OrderIsTopological
    <2>5. Target(i) = Source(i)
      BY <2>1, <2>2, <2>4
    <2>6. LeadsTo(Target(i), Source(i))
      BY <2>5 DEF LeadsTo
    <2>7. QED
      BY <2>1, <2>6 DEF IsRootedDag
  <1>4. QED
    BY <1>2, <1>3

\* An accepted canvas cannot carry a run around in a circle: this is what the
\* theorem on orphans asks of the transitions of a stored canvas.
THEOREM AcceptedHasNoWayRound == Spec => [](verdict = "accepted" => NoWayRound)
  <1>1. DagInv => (verdict = "accepted" => NoWayRound)
    <2>1. SUFFICES ASSUME DagInv, verdict = "accepted" PROVE NoWayRound
      OBVIOUS
    <2>2. TypeOK /\ Ended
      BY <2>1 DEF DagInv, TypeOK
    <2>3. OrderIsTopological /\ IsRootedDag
      BY <2>1, <2>2 DEF Ended, AcceptsRootedDags
    <2>4. QED
      BY <2>1, <2>2, <2>3, SortedLeavesNoWayRound
  <1>2. QED
    BY <1>1, DagInvariance, PTL
=============================================================================
