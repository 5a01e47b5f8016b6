--------------------------- MODULE OptimisticLimit ---------------------------
(***************************************************************************)
(* What a limit promises that is read in one query and charged in another, *)
(* the way the platform limits the agents and workflows of a plan: an actor *)
(* that found room charges later, whatever others did meanwhile.            *)
(***************************************************************************)
EXTENDS Integers, FiniteSets

CONSTANTS
  Actor,   \* who may be between the check and the charge
  Amount,  \* the most that one charge adds
  Limit

\* Assumed of the constants wherever the module is instantiated.
LimitConstants ==
  /\ IsFiniteSet(Actor) /\ Actor # {}
  /\ {Amount, Limit} \subseteq Nat

VARIABLES
  used,
  passed   \* the actors that found room and have not charged

limitVars == <<used, passed>>

LimitInit == used \in 0..Limit /\ passed = {}

Check(a) ==
  /\ a \notin passed /\ used + Amount <= Limit
  /\ passed' = passed \cup {a}
  /\ UNCHANGED used

Charge(a) ==
  /\ a \in passed
  /\ used' = used + Amount
  /\ passed' = passed \ {a}

Abandon(a) == passed' = passed \ {a} /\ UNCHANGED used

\* One transaction that reads and charges under the lock of its row.
CheckAndCharge(a) ==
  /\ a \notin passed
  /\ \E n \in 1..Amount : used + n <= Limit /\ used' = used + n
  /\ UNCHANGED passed

Release ==
  /\ \E n \in 1..used : used' = used - n
  /\ UNCHANGED passed

LimitNext ==
  \/ Release
  \/ \E a \in Actor : Check(a) \/ Charge(a) \/ Abandon(a) \/ CheckAndCharge(a)

LimitSpec == LimitInit /\ [][LimitNext]_limitVars

-----------------------------------------------------------------------------
LimitTypeOK == used \in Nat /\ passed \subseteq Actor

\* The limit is passed by less than a charge for each actor: one of those that
\* passed the check together was within it.
OvershootBounded == used <= Limit + (Cardinality(Actor) - 1) * Amount

\* What makes it inductive: the charges still to come are part of the overshoot.
ChargesToCome ==
  used + Cardinality(passed) * Amount <= Limit + (Cardinality(Actor) - 1) * Amount
=============================================================================
