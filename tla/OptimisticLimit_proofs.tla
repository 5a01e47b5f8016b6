----------------------- MODULE OptimisticLimit_proofs -----------------------
(* OptimisticLimit: how far a limit that is checked first is passed. *)
EXTENDS OptimisticLimit, FiniteSetTheorems, TLAPS

USE DEF LimitTypeOK

LEMMA LimitFacts ==
  ASSUME LimitConstants
  PROVE  /\ IsFiniteSet(Actor) /\ Cardinality(Actor) \in Nat /\ Cardinality(Actor) >= 1
         /\ Amount \in Nat /\ Limit \in Nat
<1>1. IsFiniteSet(Actor) /\ Actor # {} /\ Amount \in Nat /\ Limit \in Nat
  BY DEF LimitConstants
<1>2. Cardinality(Actor) \in Nat
  BY <1>1, FS_CardinalityType
<1>3. Cardinality(Actor) # 0
  BY <1>1, FS_EmptySet
<1> QED
  BY <1>1, <1>2, <1>3

\* Charges in flight are as many as the actors that passed.
LEMMA PassedCount ==
  ASSUME LimitConstants, passed \subseteq Actor
  PROVE  /\ IsFiniteSet(passed)
         /\ Cardinality(passed) \in 0..Cardinality(Actor)
<1>1. IsFiniteSet(passed) /\ Cardinality(passed) <= Cardinality(Actor)
  BY LimitFacts, FS_Subset
<1>2. Cardinality(passed) \in Nat
  BY <1>1, FS_CardinalityType
<1> QED
  BY <1>1, <1>2, LimitFacts

LEMMA Spread ==
  ASSUME LimitConstants, NEW m \in Nat, NEW n \in Nat, m <= n
  PROVE  m * Amount <= n * Amount
  BY LimitFacts

\* An actor outside of passed leaves one charge less than there are actors.
LEMMA PassedWithout ==
  ASSUME LimitConstants, passed \subseteq Actor, NEW a \in Actor, a \notin passed
  PROVE  /\ Cardinality(passed \cup {a}) = Cardinality(passed) + 1
         /\ Cardinality(passed) * Amount <= (Cardinality(Actor) - 1) * Amount
<1>1. Cardinality(passed \cup {a}) = Cardinality(passed) + 1
  BY PassedCount, FS_AddElement
<1>2. Cardinality(passed \cup {a}) <= Cardinality(Actor)
  BY LimitFacts, FS_Subset, passed \cup {a} \subseteq Actor
<1>3. Cardinality(passed) <= Cardinality(Actor) - 1
  BY <1>1, <1>2, PassedCount, LimitFacts
<1>4. Cardinality(passed) \in Nat /\ Cardinality(Actor) - 1 \in Nat
  BY PassedCount, LimitFacts
<1> QED
  BY <1>1, <1>3, <1>4, Spread

\* Dropping a passed actor takes one charge away.
LEMMA PassedLess ==
  ASSUME LimitConstants, passed \subseteq Actor, NEW a \in passed
  PROVE  /\ Cardinality(passed) * Amount = Cardinality(passed \ {a}) * Amount + Amount
         /\ Cardinality(passed \ {a}) * Amount \in Int
<1>1. Cardinality(passed \ {a}) = Cardinality(passed) - 1
  BY PassedCount, FS_RemoveElement
<1>2. Cardinality(passed) \in Nat /\ Amount \in Nat
  BY PassedCount, LimitFacts
<1>3. (Cardinality(passed) - 1) * Amount \in Int
  BY <1>2
<1>4. Cardinality(passed) * Amount = (Cardinality(passed) - 1) * Amount + Amount
  BY <1>2
<1> QED
  BY <1>1, <1>3, <1>4

LEMMA LimitTyping ==
  ASSUME LimitConstants
  PROVE  LimitSpec => []LimitTypeOK
<1>1. LimitInit => LimitTypeOK
  BY LimitFacts DEF LimitInit
<1>2. LimitTypeOK /\ [LimitNext]_limitVars => LimitTypeOK'
  BY LimitFacts DEF LimitNext, limitVars, Check, Charge, Abandon, CheckAndCharge, Release
<1> QED
  BY <1>1, <1>2, PTL DEF LimitSpec

LEMMA LimitStep ==
  ASSUME LimitConstants, LimitTypeOK, ChargesToCome, [LimitNext]_limitVars
  PROVE  ChargesToCome'
<1> DEFINE Room == Limit + (Cardinality(Actor) - 1) * Amount
<1>0. Cardinality(passed) * Amount \in Nat /\ Room \in Int /\ Amount \in Nat /\ Limit \in Nat
      /\ (Cardinality(Actor) - 1) * Amount \in Int
  BY PassedCount, LimitFacts
<1>1. used + Cardinality(passed) * Amount <= Room
  BY DEF ChargesToCome
<1> SUFFICES used' + Cardinality(passed') * Amount <= Room
  BY DEF ChargesToCome
<1>2. CASE UNCHANGED limitVars
  BY <1>1, <1>2 DEF limitVars
<1>3. CASE Release
  BY <1>0, <1>1, <1>3 DEF Release
<1>4. ASSUME NEW a \in Actor, Check(a)
      PROVE  used' + Cardinality(passed') * Amount <= Room
  <2>1. /\ Cardinality(passed \cup {a}) = Cardinality(passed) + 1
        /\ Cardinality(passed) * Amount <= (Cardinality(Actor) - 1) * Amount
    BY <1>4, PassedWithout DEF Check
  <2>2. (Cardinality(passed) + 1) * Amount = Cardinality(passed) * Amount + Amount
    BY PassedCount, LimitFacts
  <2>3. used' = used /\ passed' = passed \cup {a} /\ used + Amount <= Limit
    BY <1>4 DEF Check
  <2>4. Cardinality(passed') * Amount = Cardinality(passed) * Amount + Amount
    BY <2>1, <2>2, <2>3
  <2> HIDE DEF Room
  <2>5. Room = Limit + (Cardinality(Actor) - 1) * Amount
    BY DEF Room
  <2> QED
    BY <1>0, <2>1, <2>3, <2>4, <2>5
<1>5. ASSUME NEW a \in Actor, Charge(a)
      PROVE  used' + Cardinality(passed') * Amount <= Room
  <2>1. a \in passed /\ used' = used + Amount /\ passed' = passed \ {a}
    BY <1>5 DEF Charge
  <2>2. /\ Cardinality(passed) * Amount = Cardinality(passed \ {a}) * Amount + Amount
        /\ Cardinality(passed \ {a}) * Amount \in Int
    BY <2>1, PassedLess
  <2> HIDE DEF Room
  <2> QED
    BY <1>0, <1>1, <2>1, <2>2
<1>6. ASSUME NEW a \in Actor, Abandon(a)
      PROVE  used' + Cardinality(passed') * Amount <= Room
  <2>1. used' = used /\ passed' = passed \ {a}
    BY <1>6 DEF Abandon
  <2>2. CASE a \notin passed
    BY <1>1, <2>1, <2>2, passed \ {a} = passed
  <2>3. CASE a \in passed
    <3>1. /\ Cardinality(passed) * Amount = Cardinality(passed \ {a}) * Amount + Amount
          /\ Cardinality(passed \ {a}) * Amount \in Int
      BY <2>3, PassedLess
    <3> HIDE DEF Room
    <3> QED
      BY <1>0, <1>1, <2>1, <3>1
  <2> QED
    BY <2>2, <2>3
<1>7. ASSUME NEW a \in Actor, CheckAndCharge(a)
      PROVE  used' + Cardinality(passed') * Amount <= Room
  <2>1. Cardinality(passed) * Amount <= (Cardinality(Actor) - 1) * Amount
    BY <1>7, PassedWithout DEF CheckAndCharge
  <2>2. used' \in Int /\ used' <= Limit /\ passed' = passed
    BY <1>7, LimitFacts DEF CheckAndCharge
  <2> HIDE DEF Room
  <2>3. Room = Limit + (Cardinality(Actor) - 1) * Amount
    BY DEF Room
  <2> QED
    BY <1>0, <2>1, <2>2, <2>3
<1> QED
  BY <1>2, <1>3, <1>4, <1>5, <1>6, <1>7 DEF LimitNext

LEMMA ComingBounds ==
  ASSUME LimitConstants, LimitTypeOK, ChargesToCome
  PROVE  OvershootBounded
<1>1. Cardinality(passed) * Amount \in Nat /\ (Cardinality(Actor) - 1) * Amount \in Int
  BY PassedCount, LimitFacts
<1> QED
  BY <1>1, LimitFacts DEF ChargesToCome, OvershootBounded

\* Whatever the number of actors and the size of a charge, the limit is passed
\* by less than a charge for each actor.
THEOREM Overshoot ==
  ASSUME LimitConstants
  PROVE  LimitSpec => []OvershootBounded
<1>1. LimitInit => ChargesToCome
  <2> SUFFICES ASSUME LimitInit PROVE ChargesToCome
    OBVIOUS
  <2>1. passed = {} /\ Cardinality(passed) = 0 /\ used <= Limit /\ used \in Nat
    BY FS_EmptySet, LimitFacts DEF LimitInit
  <2>2. 0 * Amount = 0 /\ (Cardinality(Actor) - 1) * Amount \in Nat
    BY LimitFacts
  <2> QED
    BY <2>1, <2>2, LimitFacts DEF ChargesToCome
<1>2. LimitTypeOK /\ ChargesToCome /\ [LimitNext]_limitVars => ChargesToCome'
  BY LimitStep
<1>3. LimitTypeOK /\ ChargesToCome => OvershootBounded
  BY ComingBounds
<1> QED
  BY <1>1, <1>2, <1>3, LimitTyping, PTL DEF LimitSpec
=============================================================================
