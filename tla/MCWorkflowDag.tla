---------------------------- MODULE MCWorkflowDag ----------------------------
(* Instances of WorkflowDag for TLC. *)
EXTENDS WorkflowDag

Edge(es) == [i \in DOMAIN es |-> [source |-> es[i][1], target |-> es[i][2]]]
Canvas(nodes, es) == [nodes |-> nodes, edges |-> Edge(es)]

\* Few nodes, every list of up to three transitions, some to an unknown step.
Lists == {Canvas(n, es) :
  n \in {<<>>, <<"a">>, <<"a", "a">>, <<"b", "a">>, <<"a", "b", "c">>},
  es \in UNION {[1 .. k -> {"a", "b", "c"} \X {"a", "b", "x"}] : k \in 0 .. 3}}

\* Three nodes in two orders, every list of four transitions between them.
Parallel == {Canvas(n, es) :
  n \in {<<"a", "b", "c">>, <<"c", "a", "b">>},
  es \in [1 .. 4 -> {p \in {"a", "b", "c"} \X {"a", "b", "c"} : p[1] # p[2]}]}

\* Four nodes, every set of three to five transitions, listed in one order:
\* diamonds, joins, cycles.
Four == <<"a", "b", "c", "d">>
Pairs == [i \in 1 .. 16 |-> <<Four[((i - 1) \div 4) + 1], Four[((i - 1) % 4) + 1]>>]
Wide == {Canvas(Four, SelectSeq(Pairs, LAMBDA p : p \in s)) :
  s \in {t \in SUBSET {p \in ToSet(Pairs) : p[1] # p[2]} : Cardinality(t) \in 3 .. 5}}

MCInput == <<Lists, Parallel, Wide>>
=============================================================================
