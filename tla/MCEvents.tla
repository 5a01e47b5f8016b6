------------------------------ MODULE MCEvents ------------------------------
(* Instances for TLC of the three components that take events and jobs     *)
(* which are delivered again.  They share no state: each behaviour is one  *)
(* of the component that Init picks, while the others stay in initial      *)
(* states, where nothing is owed to them by their fairness.                *)
EXTENDS StripeBilling, AgentExecution, OutboundWebhooks

VARIABLE part

\* A failed and a late payment; a downgrade; the end of a subscription.
MCEvent == {"checkout", "unpaid", "paid", "deleted", "downgrade", "other"}
Data(events) == [e \in events |->
  [type |-> IF e = "downgrade" THEN "updated" ELSE e, plan |-> "pro",
   status |-> "past_due", downgrade |-> e = "downgrade"]]
MCEventData == Data(MCEvent)
MCHistories == {{}, {"unpaid", "checkout"}, {"checkout", "downgrade"},
                {"checkout", "deleted"}, {"checkout", "paid"}, {"other"}}

MCSmallEvent == {"checkout", "downgrade"}
MCSmallData == Data(MCSmallEvent)
MCSmallHistories == {{}, MCSmallEvent}

MCModes == {[e \in Exec |-> kind] : kind \in Mode}

MCInit ==
  /\ part \in {"billing", "agents", "hooks"}
  /\ Init /\ (part = "billing" <=> stripe # {}) /\ (part # "billing" => watched = "lock")
  /\ AgentInit /\ (part # "agents" => mode = [e \in Exec |-> "live"])
  /\ HookInit

MCNext ==
  /\ UNCHANGED part
  /\ \/ part = "billing" /\ Next /\ UNCHANGED <<agentVars, hookVars>>
     \/ part = "agents" /\ AgentNext /\ UNCHANGED <<vars, hookVars>>
     \/ part = "hooks" /\ HookNext /\ UNCHANGED <<vars, agentVars>>

MCSpec == MCInit /\ [][MCNext]_<<part, vars, agentVars, hookVars>>

\* Of the two caches, which behave alike, the one of the worker.
FairMCInit == MCInit /\ watched = "lock"
FairMCSpec ==
  /\ FairMCInit /\ [][MCNext]_<<part, vars, agentVars, hookVars>>
  /\ Fairness /\ AgentFairness /\ HookFairness
=============================================================================
