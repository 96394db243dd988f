---------------------------- MODULE Replenishment ----------------------------
(******************************************************************************)
(* The replenishment planner                                                  *)
(* (cloud/agentcore_agents/replenishment_planner/agent.py): one pass over     *)
(* the product table that says what to order, how much and how urgently.      *)
(*                                                                            *)
(* Quantities are integers.  A sales velocity, units per day rounded to two   *)
(* decimals, is held in hundredths; the code's int() of a product or a        *)
(* quotient is then an integer division (the error of a float, which may put  *)
(* an integral result just below itself, is left out).                        *)
(******************************************************************************)
EXTENDS Integers, Sequences, FiniteSets

CONSTANTS
    Catalogues, \* what a scan of the product table may return
    Threshold,  \* "low stock" is at most this
    TakeLimit   \* the most products in one plan

Product == [stock : Nat, velocity : Nat \ {0}, lead_time : Nat, moq : Nat \ {0}]

ASSUME PlannerAssumption ==
    /\ Catalogues \subseteq Seq(Product)
    /\ Threshold \in Nat
    /\ TakeLimit \in Nat

VARIABLES
    catalogue,  \* the scan of this plan
    plan        \* the recommendations, <<>> until they are made

vars == <<catalogue, plan>>

-----------------------------------------------------------------------------
AtLeast(a, b) == IF a >= b THEN a ELSE b

\* calculate_reorder_point: the demand of the lead time and three days more.
ReorderPoint(velocity, lead_time) ==
    AtLeast((velocity * (lead_time + 3)) \div 100, 10)

\* The demand of 45 days.
TargetStock(velocity) == (velocity * 45) \div 100

\* Faulty variant, for mutation checks: rounded down to the order unit.
OrderQuantityRoundedDown(velocity, stock, moq) ==
    LET wanted == AtLeast(TargetStock(velocity) - stock, moq)
    IN  (wanted \div moq) * moq

\* calculate_order_quantity: what is missing to that, in multiples of the
\* vendor's minimum order quantity.
OrderQuantity(velocity, stock, moq) ==
    LET wanted == AtLeast(TargetStock(velocity) - stock, moq)
    IN  IF wanted % moq # 0 THEN (wanted \div moq + 1) * moq ELSE wanted

DaysUntilStockout(stock, velocity) == (stock * 100) \div velocity

\* CRITICAL, HIGH, MEDIUM, LOW, as urgency_order numbers them.
Urgency(days) ==
    CASE days <= 3                -> 0
      [] days > 3  /\ days <= 7   -> 1
      [] days > 7  /\ days <= 14  -> 2
      [] days > 14                -> 3

-----------------------------------------------------------------------------
(******************************************************************************)
(* list.sort is stable: the elements of s with an index in I, in the order    *)
(* of Precedes, and by index where it does not tell them apart.  There is one *)
(* such sequence; it is given as the set of those that fit the description.   *)
(******************************************************************************)
InOrder(s, f, Precedes(_, _)) ==
    \A i, j \in DOMAIN f : i < j =>
        \/ Precedes(s[f[i]], s[f[j]])
        \/ ~Precedes(s[f[j]], s[f[i]]) /\ f[i] < f[j]

SortedBy(s, I, Precedes(_, _)) ==
    {[i \in 1..Cardinality(I) |-> s[f[i]]] :
        f \in {g \in [1..Cardinality(I) -> I] : InOrder(s, g, Precedes)}}

\* get_low_stock_products: the products that have little stock, but some, the
\* least first.
LessStock(p, q) == p.stock < q.stock

LowStock ==
    LET low == {i \in DOMAIN catalogue :
                   0 < catalogue[i].stock /\ catalogue[i].stock <= Threshold}
    IN  {SubSeq(s, 1, IF Len(s) < TakeLimit THEN Len(s) ELSE TakeLimit) :
            s \in SortedBy(catalogue, low, LessStock)}

Recommendation(p) ==
    [product  |-> p,
     days     |-> DaysUntilStockout(p.stock, p.velocity),
     urgency  |-> Urgency(DaysUntilStockout(p.stock, p.velocity)),
     quantity |-> OrderQuantity(p.velocity, p.stock, p.moq)]

\* Faulty variant, for mutation checks: the second key is forgotten.
MoreUrgentOnly(r, s) == r.urgency < s.urgency

\* The key (urgency, days_until_stockout).
MoreUrgent(r, s) ==
    \/ r.urgency < s.urgency
    \/ r.urgency = s.urgency /\ r.days < s.days

\* generate_replenishment_plan.
GeneratePlan ==
    /\ plan = <<>>
    /\ \E low \in LowStock \ {<<>>} :
          plan' \in SortedBy([i \in DOMAIN low |-> Recommendation(low[i])],
                             DOMAIN low, MoreUrgent)
    /\ UNCHANGED catalogue

Init == catalogue \in Catalogues /\ plan = <<>>

Spec == Init /\ [][GeneratePlan]_vars

-----------------------------------------------------------------------------
Planned == {plan[i].product : i \in DOMAIN plan}

\* An order comes in whole multiples of the minimum quantity, brings the stock
\* up to the demand of 45 days, and not one multiple beyond that (design.md,
\* property 6).
CoversDemand ==
    \A i \in DOMAIN plan :
        LET p == plan[i].product
            q == plan[i].quantity
        IN  /\ \E k \in 1..q : q = k * p.moq
            /\ p.stock + q >= TargetStock(p.velocity)
            /\ q = p.moq \/ p.stock + q < TargetStock(p.velocity) + p.moq

\* What runs out first is ordered first: the two sort keys never disagree, and
\* the list is cut only by the stock that is left.
RunsOutFirst ==
    \A i, j \in DOMAIN plan : i < j => plan[i].days <= plan[j].days

\* design.md, property 5: every product below its reorder point is in the
\* plan, as far as the plan has room for it.
LowIsPlanned ==
    plan # <<>> /\ Len(plan) < TakeLimit =>
        \A i \in DOMAIN catalogue :
            LET p == catalogue[i]
            IN  p.stock < ReorderPoint(p.velocity, p.lead_time) => p \in Planned
=============================================================================
