------------------------ MODULE ReplenishmentProofs ------------------------
(******************************************************************************)
(* Theorems about the replenishment planner, for every product table, every   *)
(* threshold and every length of the plan.                                    *)
(******************************************************************************)
EXTENDS Replenishment, FiniteSetTheorems, TLAPS

-----------------------------------------------------------------------------
(******************************************************************************)
(* Arithmetic.                                                                *)
(******************************************************************************)

\* The integer quotient is the greatest multiple that fits.
LEMMA QuotientFits ==
    ASSUME NEW a \in Nat, NEW m \in Nat \ {0}
    PROVE  /\ a \div m \in Nat /\ a % m \in 0..(m - 1)
           /\ a = (a \div m) * m + (a % m)
OBVIOUS

\* Rounding up covers the demand of 45 days, by multiples of the minimum order
\* and without one to spare.
LEMMA QuantityCovers ==
    ASSUME NEW velocity \in Nat, NEW stock \in Nat, NEW moq \in Nat \ {0}
    PROVE  LET q == OrderQuantity(velocity, stock, moq)
           IN  /\ \E k \in 1..q : q = k * moq
               /\ stock + q >= TargetStock(velocity)
               /\ q = moq \/ stock + q < TargetStock(velocity) + moq
<1> DEFINE target == TargetStock(velocity)
           wanted == AtLeast(target - stock, moq)
           n == wanted \div moq
           q == OrderQuantity(velocity, stock, moq)
<1>1. target \in Nat
  BY QuotientFits DEF TargetStock
<1>2. /\ wanted \in Nat \ {0} /\ wanted >= moq /\ wanted >= target - stock
      /\ wanted = moq \/ wanted = target - stock
  BY <1>1 DEF AtLeast
<1> HIDE DEF target, wanted
<1>3. /\ n \in Nat /\ wanted % moq \in 0..(moq - 1)
      /\ wanted = n * moq + (wanted % moq)
  BY <1>2, QuotientFits
<1>4. q = IF wanted % moq # 0 THEN (n + 1) * moq ELSE wanted
  BY DEF OrderQuantity, target, wanted
<1>5. PICK r \in 0..(moq - 1) : r = wanted % moq
  BY <1>3
<1> HIDE DEF n, q
<1>6. (n + 1) * moq = n * moq + moq /\ n * moq \in Nat
  BY <1>3
<1>7. PICK k \in Nat : k * moq = q /\ q \in Nat
  <2>1. CASE r # 0
    <3>1. q = (n + 1) * moq /\ n + 1 \in Nat
      BY <1>3, <1>4, <1>5, <2>1
    <3>2. QED
      BY <1>6, <3>1
  <2>2. CASE r = 0
    <3>1. q = n * moq
      BY <1>2, <1>3, <1>4, <1>5, <1>6, <2>2
    <3>2. QED
      BY <1>3, <1>6, <3>1
  <2>3. QED
    BY <1>5, <2>1, <2>2
<1>8. q >= wanted /\ (q = wanted \/ q < wanted + moq)
  BY <1>2, <1>3, <1>4, <1>5, <1>6
<1>9. k \in 1..q
  <2>1. k # 0
    BY <1>2, <1>7, <1>8
  <2>2. k * moq >= k
    BY <1>7
  <2>3. QED
    BY <1>7, <2>1, <2>2
<1>10. stock + q >= target
  BY <1>1, <1>2, <1>7, <1>8
<1>11. q = moq \/ stock + q < target + moq
  <2>1. CASE wanted = target - stock
    BY <1>1, <1>2, <1>7, <1>8, <2>1
  <2>2. CASE wanted = moq
    <3>1. q = wanted
      <4>1. moq \div moq = 1 /\ moq % moq = 0
        OBVIOUS
      <4>2. QED
        BY <1>4, <2>2, <4>1
    <3>2. QED
      BY <2>2, <3>1
  <2>3. QED
    BY <1>2, <2>1, <2>2
<1>12. QED
  BY <1>7, <1>9, <1>10, <1>11 DEF q, target

\* More days never mean more urgency.
LEMMA UrgencyMonotone ==
    ASSUME NEW a \in Nat, NEW b \in Nat, a <= b
    PROVE  Urgency(a) \in 0..3 /\ Urgency(a) <= Urgency(b)
BY DEF Urgency

-----------------------------------------------------------------------------
(******************************************************************************)
(* The plan.                                                                  *)
(******************************************************************************)

PlanInv ==
    /\ catalogue \in Seq(Product)
    /\ \A i \in DOMAIN plan : \E p \in Product : plan[i] = Recommendation(p)
    /\ \A i, j \in DOMAIN plan : i < j =>
           MoreUrgent(plan[i], plan[j]) \/ ~MoreUrgent(plan[j], plan[i])

\* The planner looks at products of the table only.
LEMMA LowStockProducts ==
    ASSUME catalogue \in Seq(Product), NEW low \in LowStock
    PROVE  \A i \in DOMAIN low : low[i] \in Product
<1> DEFINE I == {i \in DOMAIN catalogue :
                    0 < catalogue[i].stock /\ catalogue[i].stock <= Threshold}
           n == Cardinality(I)
<1>1. n \in Nat
  <2>1. IsFiniteSet(1..Len(catalogue))
    BY FS_Interval
  <2>2. IsFiniteSet(I)
    BY <2>1, FS_Subset
  <2>3. QED
    BY <2>2, FS_CardinalityType
<1>2. PICK s \in SortedBy(catalogue, I, LessStock) :
          low = SubSeq(s, 1, IF Len(s) < TakeLimit THEN Len(s) ELSE TakeLimit)
  BY DEF LowStock
<1> HIDE DEF n
<1>3. PICK f \in [1..n -> I] : s = [i \in 1..n |-> catalogue[f[i]]]
  BY <1>2 DEF SortedBy, n
<1>4. \A i \in 1..n : s[i] \in Product
  BY <1>3
<1>5. s \in Seq(Product) /\ Len(s) = n
  BY <1>1, <1>3, <1>4
<1> HIDE DEF I
<1>6. PICK m \in Nat : m <= n /\ low = SubSeq(s, 1, m)
  <2>1. CASE Len(s) < TakeLimit
    BY <1>1, <1>2, <1>5, <2>1
  <2>2. CASE ~(Len(s) < TakeLimit)
    BY <1>1, <1>2, <1>5, <2>2, PlannerAssumption
  <2>3. QED
    BY <2>1, <2>2
<1>7. DOMAIN low = 1..m /\ \A i \in 1..m : low[i] = s[i]
  BY <1>1, <1>5, <1>6
<1>8. QED
  BY <1>1, <1>4, <1>6, <1>7

LEMMA PlanStep == PlanInv /\ [GeneratePlan]_vars => PlanInv'
<1> SUFFICES ASSUME PlanInv, [GeneratePlan]_vars
             PROVE  PlanInv'
  OBVIOUS
<1>1. CASE UNCHANGED vars
  BY <1>1 DEF PlanInv, vars
<1>2. CASE GeneratePlan
  <2>1. UNCHANGED catalogue
    BY <1>2 DEF GeneratePlan
  <2>2. PICK low \in LowStock :
            plan' \in SortedBy([i \in DOMAIN low |-> Recommendation(low[i])],
                               DOMAIN low, MoreUrgent)
    BY <1>2 DEF GeneratePlan
  <2> DEFINE recs == [i \in DOMAIN low |-> Recommendation(low[i])]
             n == Cardinality(DOMAIN low)
  <2>3. PICK f \in [1..n -> DOMAIN low] :
            /\ plan' = [i \in 1..n |-> recs[f[i]]]
            /\ InOrder(recs, f, MoreUrgent)
    BY <2>2 DEF SortedBy
  <2>4. \A i \in DOMAIN low : low[i] \in Product
    BY LowStockProducts DEF PlanInv
  <2> HIDE DEF n
  <2>5. \A i \in DOMAIN plan' : \E p \in Product : plan'[i] = Recommendation(p)
    BY <2>3, <2>4
  <2>6. \A i, j \in DOMAIN plan' : i < j =>
            MoreUrgent(plan'[i], plan'[j]) \/ ~MoreUrgent(plan'[j], plan'[i])
    BY <2>3 DEF InOrder
  <2>7. QED
    BY <2>1, <2>5, <2>6 DEF PlanInv, MoreUrgent
<1>3. QED
  BY <1>1, <1>2

LEMMA PlanInvariant == Spec => []PlanInv
<1>1. Init => PlanInv
  BY PlannerAssumption DEF Init, PlanInv
<1>2. QED
  BY <1>1, PlanStep, PTL DEF Spec

\* Every recommended quantity is a whole multiple of the minimum order that
\* covers the demand of 45 days and does not exceed it by a multiple.
THEOREM PlanCoversDemand == Spec => []CoversDemand
<1>1. ASSUME PlanInv
      PROVE  CoversDemand
  <2> SUFFICES ASSUME NEW i \in DOMAIN plan
               PROVE  LET p == plan[i].product
                          q == plan[i].quantity
                      IN  /\ \E k \in 1..q : q = k * p.moq
                          /\ p.stock + q >= TargetStock(p.velocity)
                          /\ \/ q = p.moq
                             \/ p.stock + q < TargetStock(p.velocity) + p.moq
    BY DEF CoversDemand
  <2>1. PICK p \in Product : plan[i] = Recommendation(p)
    BY <1>1 DEF PlanInv
  <2>2. /\ plan[i].product = p
        /\ plan[i].quantity = OrderQuantity(p.velocity, p.stock, p.moq)
    BY <2>1 DEF Recommendation
  <2>3. p.velocity \in Nat /\ p.stock \in Nat /\ p.moq \in Nat \ {0}
    BY DEF Product
  <2>4. QED
    BY <2>2, <2>3, QuantityCovers
<1>2. QED
  BY <1>1, PlanInvariant, PTL

\* What runs out first is ordered first: a product that is more urgent never
\* has more days left.
THEOREM PlanOrder == Spec => []RunsOutFirst
<1>1. ASSUME PlanInv
      PROVE  RunsOutFirst
  <2> SUFFICES ASSUME NEW i \in DOMAIN plan, NEW j \in DOMAIN plan, i < j
               PROVE  plan[i].days <= plan[j].days
    BY DEF RunsOutFirst
  <2>1. PICK p \in Product, q \in Product :
            plan[i] = Recommendation(p) /\ plan[j] = Recommendation(q)
    BY <1>1 DEF PlanInv
  <2>2. /\ DaysUntilStockout(p.stock, p.velocity) \in Nat
        /\ DaysUntilStockout(q.stock, q.velocity) \in Nat
    <3>1. /\ p.stock * 100 \in Nat /\ p.velocity \in Nat \ {0}
          /\ q.stock * 100 \in Nat /\ q.velocity \in Nat \ {0}
      BY DEF Product
    <3>2. QED
      BY <3>1, QuotientFits DEF DaysUntilStockout
  <2>3. MoreUrgent(plan[i], plan[j]) \/ ~MoreUrgent(plan[j], plan[i])
    BY <1>1 DEF PlanInv
  <2>4. PICK a \in Nat, b \in Nat :
            /\ plan[i].days = a /\ plan[i].urgency = Urgency(a)
            /\ plan[j].days = b /\ plan[j].urgency = Urgency(b)
    BY <2>1, <2>2 DEF Recommendation
  <2>5. a <= b
    <3>1. SUFFICES ASSUME b < a PROVE FALSE
      OBVIOUS
    <3>2. Urgency(a) \in 0..3 /\ Urgency(b) \in 0..3 /\ Urgency(b) <= Urgency(a)
      BY <3>1, UrgencyMonotone
    <3>3. QED
      BY <2>3, <2>4, <3>1, <3>2 DEF MoreUrgent
  <2>6. QED
    BY <2>4, <2>5
<1>2. QED
  BY <1>1, PlanInvariant, PTL
=============================================================================
