----------------------------- MODULE MCRequests -----------------------------
(* Instances for TLC of the components behind the API routes, of a tenant  *)
(* each.  They share no state: each behaviour is one of the component that *)
(* Init picks, while the others keep one of their initial states.          *)
EXTENDS MCWorkflowDag, AgentRuns, AgentPacks, AgentBudgets, TenantMembers, Connectors, CompanySync

VARIABLE part

One(S) == CHOOSE x \in S : TRUE
AllOne(S, T) == [x \in S |-> One(T)]

\* Bound: a behaviour has faults of the API, or BullMQ takes the job of one of
\* its executions from a runner, any number of times.  No payload is special, so
\* that the first request has the first.
FewDoubled ==
  \A e, f \in Execution : doubled[e] => apiFaults = 0 /\ (doubled[f] => e = f)
FirstAlike == {f \in [Asking -> Payload] : f[One(Asking)] = One(Payload)}

\* Only Init tells executions or persons apart, and nothing the names of requests.
Alike == Permutations(Execution) \cup Permutations(Person) \cup Permutations(MemberOp)

MCInit ==
  /\ part \in {"canvas", "runs", "packs", "budgets", "members", "connectors", "crm"}
  /\ part # "canvas" => input = Canvas(<<"a">>, <<>>)
  /\ payload \in IF part = "runs" THEN FirstAlike ELSE {AllOne(Asking, Payload)}
  /\ part # "packs" => packOp = AllOne(PackOp, NewPackRequest)
  /\ part # "budgets" => consumer = AllOne(Consumer, NewConsumer)
  /\ part # "members" => member = AllOne(Person, {[role |-> "OWNER", status |-> "ACTIVE"]})
  /\ part # "connectors" => connOp = AllOne(ConnOp, NewConnRequest)
  /\ Init /\ RunsInit /\ PacksInit /\ BudgetsInit /\ MembersInit /\ ConnInit /\ CrmInit

MCNext ==
  /\ UNCHANGED part
  /\ \/ part = "canvas" /\ ensureCanvasIsDag
        /\ UNCHANGED <<runsVars, packVars, budgetVars, memberVars, connVars, crmVars>>
     \/ part = "runs" /\ RunsNext /\ FewDoubled'
        /\ UNCHANGED <<vars, packVars, budgetVars, memberVars, connVars, crmVars>>
     \/ part = "packs" /\ PacksNext
        /\ UNCHANGED <<vars, runsVars, budgetVars, memberVars, connVars, crmVars>>
     \/ part = "budgets" /\ BudgetsNext
        /\ UNCHANGED <<vars, runsVars, packVars, memberVars, connVars, crmVars>>
     \/ part = "members" /\ MembersNext
        /\ UNCHANGED <<vars, runsVars, packVars, budgetVars, connVars, crmVars>>
     \/ part = "connectors" /\ ConnNext
        /\ UNCHANGED <<vars, runsVars, packVars, budgetVars, memberVars, crmVars>>
     \/ part = "crm" /\ CrmNext
        /\ UNCHANGED <<vars, runsVars, packVars, budgetVars, memberVars, connVars>>

MCSpec ==
  MCInit /\ [][MCNext]_<<part, vars, runsVars, packVars, budgetVars, memberVars, connVars, crmVars>>

\* The type invariants of the components: service.ts, queue.ts and the other
\* sources leave their rows and requests in the states they declare.
MCTypeOK ==
  TypeOK /\ RunsTypeOK /\ PacksTypeOK /\ BudgetsTypeOK /\ MembersTypeOK /\ ConnTypeOK /\ CrmTypeOK
=============================================================================
