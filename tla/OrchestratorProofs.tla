------------------------- MODULE OrchestratorProofs -------------------------
(******************************************************************************)
(* Theorems about Orchestrator, for every value of the constants: whatever    *)
(* the database lists, the dashboard prefers and the vendors answer, and      *)
(* whichever wait runs out.                                                   *)
(******************************************************************************)
EXTENDS Orchestrator, LocalBackendProofs, SequenceTheorems, WellFoundedInduction

-----------------------------------------------------------------------------
(******************************************************************************)
(* The list of the vendors to call.                                           *)
(******************************************************************************)

\* Every set of natural numbers has a least member.
LEMMA LeastMember ==
    ASSUME NEW S, S \subseteq Nat, S # {}
    PROVE  \E m \in S : \A n \in S : m <= n
<1> DEFINE R == {p \in Nat \X Nat : p[1] < p[2]}
<1>1. IsWellFoundedOn(R, Nat)
  BY NatLessThanWellFounded, Zenon DEF OpToRel
<1> HIDE DEF R
<1>2. PICK m \in S : \A n \in S : ~ <<n, m>> \in R
  BY <1>1, WFMin
<1>3. \A n \in S : ~ n < m
  BY <1>2 DEF R
<1>4. QED
  BY <1>3

UpTo(S, i) == {j \in S : j <= i}

\* The rank of a position among some of the positions of a sequence: it grows
\* from one of them to the next.
LEMMA RanksGrow ==
    ASSUME NEW n \in Nat, NEW S \in SUBSET (1..n), NEW i \in S, NEW j \in S, i < j
    PROVE  /\ Cardinality(UpTo(S, i)) \in Nat
           /\ Cardinality(UpTo(S, j)) \in Nat
           /\ Cardinality(UpTo(S, i)) < Cardinality(UpTo(S, j))
<1>1. IsFiniteSet(1..n)
  BY FS_Interval
<1>2. IsFiniteSet(S)
  BY <1>1, FS_Subset
<1>3. IsFiniteSet(UpTo(S, i)) /\ IsFiniteSet(UpTo(S, j))
  <2>1. UpTo(S, i) \in SUBSET S /\ UpTo(S, j) \in SUBSET S
    BY DEF UpTo
  <2>2. QED
    BY <1>2, <2>1, FS_Subset
<1>4. j \notin UpTo(S, i) /\ UpTo(S, i) \cup {j} \in SUBSET UpTo(S, j)
  <2>1. /\ ~ j <= i /\ j <= j
        /\ \A l \in S : l <= i => l <= j
    OBVIOUS
  <2>2. QED
    BY <2>1 DEF UpTo
<1>5. Cardinality(UpTo(S, i) \cup {j}) = Cardinality(UpTo(S, i)) + 1
  BY <1>3, <1>4, FS_AddElement
<1>6. Cardinality(UpTo(S, i) \cup {j}) <= Cardinality(UpTo(S, j))
  BY <1>3, <1>4, FS_Subset
<1>7. Cardinality(UpTo(S, i)) \in Nat /\ Cardinality(UpTo(S, j)) \in Nat
  BY <1>3, FS_CardinalityType
<1>8. QED
  BY <1>5, <1>6, <1>7

\* There is a member of each rank.
LEMMA RanksReached ==
    ASSUME NEW n \in Nat, NEW S \in SUBSET (1..n), NEW k \in 1..Cardinality(S)
    PROVE  \E i \in S : Cardinality(UpTo(S, i)) = k
<1>0. IsFiniteSet(S) /\ Cardinality(S) \in Nat
  <2>1. IsFiniteSet(1..n)
    BY FS_Interval
  <2>2. IsFiniteSet(S)
    BY <2>1, FS_Subset
  <2>3. QED
    BY <2>2, FS_CardinalityType
<1>1. ASSUME NEW m
      PROVE  IsFiniteSet(UpTo(S, m)) /\ Cardinality(UpTo(S, m)) \in Nat
  <2>1. UpTo(S, m) \in SUBSET S
    BY DEF UpTo
  <2>2. IsFiniteSet(UpTo(S, m))
    BY <1>0, <2>1, FS_Subset
  <2>3. QED
    BY <2>2, FS_CardinalityType
<1> DEFINE Enough == {m \in Nat : Cardinality(UpTo(S, m)) >= k}
<1>2. n \in Enough
  <2>0. \A j \in S : j <= n
    OBVIOUS
  <2>1. UpTo(S, n) = S
    BY <2>0 DEF UpTo
  <2>2. QED
    BY <1>0, <2>1
<1>3. PICK m \in Enough : \A l \in Enough : m <= l
  <2>1. Enough \subseteq Nat /\ Enough # {}
    BY <1>2
  <2> HIDE DEF Enough
  <2>2. QED
    BY <2>1, LeastMember
<1>4. m # 0
  <2>0. \A j \in S : ~ j <= 0
    OBVIOUS
  <2>1. UpTo(S, 0) = {}
    BY <2>0 DEF UpTo
  <2>2. 0 \notin Enough
    BY <2>1, FS_EmptySet
  <2>3. QED
    BY <2>2
<1>5. Cardinality(UpTo(S, m - 1)) < k
  <2>1. m - 1 \in Nat /\ m - 1 \notin Enough
    BY <1>3, <1>4
  <2>2. QED
    BY <1>1, <2>1
<1>6. Cardinality(UpTo(S, m)) >= k /\ m \in Nat
  BY <1>3
<1> HIDE DEF Enough
<1>7. /\ \A j \in S : j <= m <=> j <= m - 1 \/ j = m
      /\ ~ m <= m - 1
  BY <1>6
<1>8. m \in S
  <2>1. m \notin S => UpTo(S, m) = UpTo(S, m - 1)
    BY <1>7 DEF UpTo
  <2>2. QED
    BY <1>1, <1>5, <1>6, <2>1
<1>9. UpTo(S, m) = UpTo(S, m - 1) \cup {m} /\ m \notin UpTo(S, m - 1)
  BY <1>7, <1>8 DEF UpTo
<1>10. Cardinality(UpTo(S, m)) = Cardinality(UpTo(S, m - 1)) + 1
  BY <1>1, <1>9, FS_AddElement
<1>11. QED
  BY <1>1, <1>5, <1>6, <1>8, <1>10

\* A member of the positions is picked at its rank.
LEMMA PickedAtRank ==
    ASSUME NEW n \in Nat, NEW S \in SUBSET (1..n), NEW seq, NEW i \in S
    PROVE  /\ Cardinality(UpTo(S, i)) \in 1..Cardinality(S)
           /\ Pick(S, seq)[Cardinality(UpTo(S, i))] = seq[i]
<1> DEFINE At(k) == CHOOSE j \in S : Cardinality({l \in S : l <= j}) = k
<1>1. PICK k : k = Cardinality(UpTo(S, i))
  OBVIOUS
<1>2. k \in 1..Cardinality(S)
  <2>1. IsFiniteSet(1..n)
    BY FS_Interval
  <2>2. IsFiniteSet(S)
    BY <2>1, FS_Subset
  <2>3. i <= i
    OBVIOUS
  <2>4. UpTo(S, i) \in SUBSET S /\ i \in UpTo(S, i)
    BY <2>3 DEF UpTo
  <2>5. IsFiniteSet(UpTo(S, i)) /\ k <= Cardinality(S)
    BY <1>1, <2>2, <2>4, FS_Subset
  <2>6. k \in Nat /\ k # 0 /\ Cardinality(S) \in Nat
    BY <1>1, <2>2, <2>4, <2>5, FS_CardinalityType, FS_EmptySet
  <2>7. QED
    BY <2>5, <2>6
<1>3. At(k) \in S /\ Cardinality(UpTo(S, At(k))) = k
  <2>1. \E j \in S : Cardinality({l \in S : l <= j}) = k
    BY <1>1 DEF UpTo
  <2>2. QED
    BY <2>1 DEF UpTo
<1>4. Pick(S, seq)[k] = seq[At(k)]
  BY <1>2 DEF Pick
<1> HIDE DEF At
<1>5. PICK j \in S : j = At(k)
  BY <1>3
<1>6. j = i
  <2>1. ASSUME j < i
        PROVE  FALSE
    <3>1. /\ Cardinality(UpTo(S, j)) < Cardinality(UpTo(S, i))
          /\ Cardinality(UpTo(S, i)) \in Nat
      BY <2>1, RanksGrow
    <3>2. QED
      BY <1>1, <1>3, <1>5, <3>1
  <2>2. ASSUME i < j
        PROVE  FALSE
    <3>1. /\ Cardinality(UpTo(S, i)) < Cardinality(UpTo(S, j))
          /\ Cardinality(UpTo(S, i)) \in Nat
      BY <2>2, RanksGrow
    <3>2. QED
      BY <1>1, <1>3, <1>5, <3>1
  <2>3. QED
    BY <2>1, <2>2
<1>7. QED
  BY <1>1, <1>2, <1>4, <1>5, <1>6

LEMMA PickIsSeq ==
    ASSUME NEW V, NEW seq \in Seq(V), NEW S \in SUBSET (1..Len(seq))
    PROVE  /\ Pick(S, seq) \in Seq(V)
           /\ Len(Pick(S, seq)) = Cardinality(S)
           /\ Cardinality(S) \in Nat /\ Cardinality(S) <= Len(seq)
<1>1. Len(seq) \in Nat
  BY LenProperties
<1>2. IsFiniteSet(1..Len(seq)) /\ Cardinality(1..Len(seq)) = Len(seq)
  <2>1. PICK n \in Nat : n = Len(seq)
    BY <1>1
  <2>2. IsFiniteSet(1..n) /\ Cardinality(1..n) = n
    BY FS_Interval
  <2>3. QED
    BY <2>1, <2>2
<1>3. IsFiniteSet(S) /\ Cardinality(S) <= Len(seq)
  BY <1>2, FS_Subset
<1>4. Cardinality(S) \in Nat
  BY <1>3, FS_CardinalityType
<1>5. ASSUME NEW k \in 1..Cardinality(S)
      PROVE  Pick(S, seq)[k] \in V
  <2>1. PICK i \in S : Cardinality(UpTo(S, i)) = k
    BY <1>1, RanksReached
  <2>2. Pick(S, seq)[k] = seq[i]
    BY <1>1, <2>1, PickedAtRank
  <2>3. QED
    BY <2>2, ElementOfSeq
<1>6. Pick(S, seq) \in [1..Cardinality(S) -> V]
  <2>1. PICK f : f = Pick(S, seq)
    OBVIOUS
  <2>2. DOMAIN f = 1..Cardinality(S) /\ f = [k \in DOMAIN f |-> f[k]]
    BY <2>1 DEF Pick
  <2>3. \A k \in 1..Cardinality(S) : f[k] \in V
    BY <1>5, <2>1
  <2>4. QED
    BY <2>1, <2>2, <2>3
<1>7. QED
  BY <1>3, <1>4, <1>6

\* The loop that removes repeated names keeps the first vendor of each name, in
\* the order of the list: no name is lost and none is left twice.
THEOREM UniqueNamesKeepFirsts ==
    ASSUME NEW vs \in Seq(Vendors)
    PROVE  LET u == UniqueNames(vs)
           IN  /\ u \in Seq(Vendors)
               /\ \A i, j \in 1..Len(u) : Stripped[u[i]] = Stripped[u[j]] => i = j
               /\ \A i \in 1..Len(vs) : \E j \in 1..Len(u) :
                     Stripped[u[j]] = Stripped[vs[i]]
               /\ vs # <<>> => u # <<>> /\ u[1] = vs[1]
<1> DEFINE F == FirstMet(vs)
           m == Cardinality(F)
           u == UniqueNames(vs)
<1>1. /\ Len(vs) \in Nat /\ F \in SUBSET (1..Len(vs))
      /\ \A i \in 1..Len(vs) : vs[i] \in Vendors
      /\ DOMAIN vs = 1..Len(vs)
  BY LenProperties DEF FirstMet
<1>2. u = Pick(F, vs)
  BY DEF UniqueNames
<1> HIDE DEF u, F
<1>3. u \in Seq(Vendors) /\ Len(u) = m /\ m \in Nat
  BY <1>1, <1>2, PickIsSeq
<1> HIDE DEF m
<1>4. ASSUME NEW k \in 1..m
      PROVE  \E i \in F : Cardinality(UpTo(F, i)) = k /\ u[k] = vs[i]
  <2>1. k \in 1..Cardinality(F)
    BY DEF m
  <2>2. PICK i \in F : Cardinality(UpTo(F, i)) = k
    BY <1>1, <2>1, RanksReached
  <2>3. Pick(F, vs)[k] = vs[i]
    BY <1>1, <2>2, PickedAtRank
  <2>4. QED
    BY <1>2, <2>2, <2>3
<1>5. ASSUME NEW i \in F
      PROVE  /\ Cardinality(UpTo(F, i)) \in 1..m
             /\ u[Cardinality(UpTo(F, i))] = vs[i]
  BY <1>1, <1>2, PickedAtRank DEF m
<1>7. ASSUME NEW i \in F, NEW j \in F, Stripped[vs[i]] = Stripped[vs[j]]
      PROVE  i = j
  <2>1. ~ i < j /\ ~ j < i
    BY <1>7 DEF F, FirstMet
  <2>2. QED
    BY <1>1, <2>1
<1>8. ASSUME NEW i \in 1..m, NEW j \in 1..m, Stripped[u[i]] = Stripped[u[j]]
      PROVE  i = j
  <2>1. PICK x \in F : Cardinality(UpTo(F, x)) = i /\ u[i] = vs[x]
    BY <1>4
  <2>2. PICK y \in F : Cardinality(UpTo(F, y)) = j /\ u[j] = vs[y]
    BY <1>4
  <2>3. x = y
    BY <1>7, <1>8, <2>1, <2>2
  <2>4. QED
    BY <2>1, <2>2, <2>3
<1>9. ASSUME NEW i \in 1..Len(vs)
      PROVE  \E j \in 1..m : Stripped[u[j]] = Stripped[vs[i]]
  <2> DEFINE Same == {l \in 1..Len(vs) : Stripped[vs[l]] = Stripped[vs[i]]}
  <2>1. Same \subseteq Nat /\ i \in Same
    BY <1>1
  <2>2. PICK l \in Same : \A n \in Same : l <= n
    <3> HIDE DEF Same
    <3>1. QED
      BY <2>1, LeastMember
  <2>3. l \in F
    BY <1>1, <2>2 DEF F, FirstMet
  <2>4. QED
    BY <1>5, <2>2, <2>3
<1>10. ASSUME vs # <<>>
       PROVE  u # <<>> /\ u[1] = vs[1]
  <2>1. 1 \in 1..Len(vs)
    BY <1>10, EmptySeq
  <2>2. 1 \in F
    BY <1>1, <2>1 DEF F, FirstMet
  <2>3. UpTo(F, 1) = {1}
    <3>1. \A l \in F : l <= 1 <=> l = 1
      BY <1>1
    <3>2. QED
      BY <2>2, <3>1 DEF UpTo
  <2>4. Cardinality(UpTo(F, 1)) = 1
    BY <2>3, FS_Singleton
  <2>5. 1 \in 1..m /\ u[1] = vs[1]
    BY <1>5, <2>2, <2>4
  <2>6. QED
    BY <1>3, <2>5, EmptySeq
<1>11. QED
  BY <1>3, <1>8, <1>9, <1>10 DEF u

LEMMA OneFirst ==
    ASSUME NEW v \in Vendors, NEW s \in Seq(Vendors)
    PROVE  <<v>> \o s \in Seq(Vendors) /\ <<v>> \o s # <<>> /\ (<<v>> \o s)[1] = v
<1>1. <<v>> \in Seq(Vendors) /\ Len(<<v>>) = 1 /\ <<v>>[1] = v
  OBVIOUS
<1>2. Len(s) \in Nat
  BY LenProperties
<1>3. /\ <<v>> \o s \in Seq(Vendors)
      /\ Len(<<v>> \o s) = 1 + Len(s)
      /\ \A i \in 1..1 + Len(s) : (<<v>> \o s)[i] =
             IF i <= 1 THEN <<v>>[i] ELSE s[i - 1]
  BY <1>1, ConcatProperties
<1>4. 1 \in 1..1 + Len(s)
  BY <1>2
<1>5. (<<v>> \o s)[1] = v
  BY <1>1, <1>3, <1>4
<1>6. <<v>> \o s # <<>>
  BY <1>2, <1>3, EmptySeq
<1>7. QED
  BY <1>3, <1>5, <1>6

LEMMA OneRemoved ==
    ASSUME NEW s \in Seq(Vendors), NEW i \in 1..Len(s)
    PROVE  RemoveAt(s, i) \in Seq(Vendors)
<1>1. /\ Len(s) \in Nat
      /\ \A j \in 1..Len(s) : s[j] \in Vendors
  BY LenProperties
<1>2. /\ i - 1 \in Int /\ i + 1 \in Int /\ Len(s) \in Int
      /\ \A j \in 1..i - 1 : s[j] \in Vendors
      /\ \A j \in i + 1..Len(s) : s[j] \in Vendors
  BY <1>1
<1>3. SubSeq(s, 1, i - 1) \in Seq(Vendors)
  BY <1>2, SubSeqProperties
<1>4. SubSeq(s, i + 1, Len(s)) \in Seq(Vendors)
  BY <1>2, SubSeqProperties
<1>5. QED
  BY <1>3, <1>4, ConcatProperties DEF RemoveAt

\* The preferred vendor is put first, whether the list has it or not.
LEMMA PreferredPutFirst ==
    ASSUME NEW vs \in Seq(Vendors), vs # <<>>, NEW p \in Vendors \cup {NoVendor}
    PROVE  LET s == Prioritized(vs, p)
           IN  /\ s \in Seq(Vendors)
               /\ s # <<>>
               /\ p # NoVendor => Lowered[s[1]] = Lowered[p]
<1> DEFINE matches == {i \in DOMAIN vs : Lowered[vs[i]] = Lowered[p]}
           at      == CHOOSE i \in matches : \A j \in matches : i <= j
<1>1. Len(vs) \in Nat /\ DOMAIN vs = 1..Len(vs)
      /\ \A i \in 1..Len(vs) : vs[i] \in Vendors
  BY LenProperties
<1>2. CASE p = NoVendor
  BY <1>2 DEF Prioritized
<1>3. CASE p # NoVendor /\ matches = {}
  <2>1. Prioritized(vs, p) = <<p>> \o vs
    BY <1>3 DEF Prioritized
  <2>2. QED
    BY <1>3, <2>1, OneFirst
<1>4. CASE p # NoVendor /\ matches # {}
  <2>1. at \in matches
    <3>1. matches \subseteq Nat
      BY <1>1
    <3>2. \E i \in matches : \A j \in matches : i <= j
      <4> HIDE DEF matches
      <4>1. QED
        BY <1>4, <3>1, LeastMember
    <3>3. QED
      BY <3>2
  <2>2. Prioritized(vs, p) = <<vs[at]>> \o RemoveAt(vs, at)
    BY <1>4 DEF Prioritized
  <2> HIDE DEF at
  <2>3. at \in 1..Len(vs) /\ vs[at] \in Vendors /\ Lowered[vs[at]] = Lowered[p]
    BY <1>1, <2>1
  <2>4. RemoveAt(vs, at) \in Seq(Vendors)
    BY <2>3, OneRemoved
  <2>5. QED
    BY <2>2, <2>3, <2>4, OneFirst
<1>5. QED
  BY <1>2, <1>3, <1>4

\* A list of vendors to call: some, not more than the limit, no two of one name,
\* the preferred one first.
GoodPlan(l, p) ==
    /\ l \in Seq(Vendors)
    /\ l # <<>>
    /\ Len(l) <= MaxVendors
    /\ \A i, j \in 1..Len(l) : Stripped[l[i]] = Stripped[l[j]] => i = j
    /\ p # NoVendor => Lowered[l[1]] = Lowered[p]

\* Whatever the database lists and the dashboard prefers, the plan is good.
THEOREM PlansAreGood ==
    ASSUME NEW vs \in VendorLists, NEW p \in Preferences
    PROVE  GoodPlan(Plan(vs, p), p)
<1> DEFINE known == IF vs = <<>> THEN DefaultVendors ELSE vs
           s     == Prioritized(known, p)
           u     == UniqueNames(s)
<1>1. known \in Seq(Vendors) /\ known # <<>> /\ p \in Vendors \cup {NoVendor}
  BY OrchestratorAssumption
<1> HIDE DEF known
<1>2. s \in Seq(Vendors) /\ s # <<>> /\ (p # NoVendor => Lowered[s[1]] = Lowered[p])
  BY <1>1, PreferredPutFirst
<1> HIDE DEF s
<1>3. /\ u \in Seq(Vendors)
      /\ \A i, j \in 1..Len(u) : Stripped[u[i]] = Stripped[u[j]] => i = j
      /\ u # <<>> /\ u[1] = s[1]
  BY <1>2, UniqueNamesKeepFirsts
<1>4. Plan(vs, p) = IF Len(u) > MaxVendors THEN SubSeq(u, 1, MaxVendors) ELSE u
  BY DEF Plan, known, s
<1> HIDE DEF u
<1>5. Len(u) \in Nat \ {0} /\ \A i \in 1..Len(u) : u[i] \in Vendors
  BY <1>3, EmptySeq, LenProperties
<1>6. CASE Len(u) > MaxVendors
  <2> DEFINE l == SubSeq(u, 1, MaxVendors)
  <2>1. \A i \in 1..MaxVendors : i \in 1..Len(u) /\ u[i] \in Vendors
    BY <1>5, <1>6, OrchestratorAssumption
  <2>2. /\ 1 \in Int /\ MaxVendors \in Int /\ 1 <= MaxVendors
        /\ MaxVendors - 1 + 1 = MaxVendors
        /\ \A i \in 1..MaxVendors : 1 + i - 1 = i
    BY OrchestratorAssumption
  <2>3. /\ l \in Seq(Vendors)
        /\ Len(l) = MaxVendors
        /\ \A i \in 1..MaxVendors : l[i] = u[i]
    BY <2>1, <2>2, SubSeqProperties
  <2> HIDE DEF l
  <2>4. l # <<>> /\ l[1] = u[1] /\ Len(l) <= MaxVendors
    BY <2>2, <2>3, EmptySeq
  <2>5. \A i, j \in 1..Len(l) : Stripped[l[i]] = Stripped[l[j]] => i = j
    BY <1>3, <2>1, <2>3
  <2>6. Plan(vs, p) = l
    BY <1>4, <1>6 DEF l
  <2>7. QED
    BY <1>2, <1>3, <2>3, <2>4, <2>5, <2>6 DEF GoodPlan
<1>7. CASE ~ Len(u) > MaxVendors
  <2>1. Len(u) <= MaxVendors
    BY <1>5, <1>7, OrchestratorAssumption
  <2>2. QED
    BY <1>2, <1>3, <1>4, <1>7, <2>1 DEF GoodPlan
<1>8. QED
  BY <1>6, <1>7

-----------------------------------------------------------------------------
(******************************************************************************)
(* The inductive invariant.  A NO makes the backend look for the next vendor  *)
(* itself; that the purchase is bounded nevertheless rests on a chain of      *)
(* facts far apart: the orchestrator names no category, so every chain has    *)
(* none, the thread of the backend finds nobody, and no call is placed that   *)
(* the orchestrator does not count.                                           *)
(******************************************************************************)

\* No thread of the backend ever comes to call a vendor.
NobodyElseCalls ==
    /\ \A o \in Orders : order_chains[o].category = NoCategory
    /\ \A s \in Sids, k \in Reports :
          jobs[<<s, k>>].at \notin {"calling"} \cup Holding

\* The attempts follow the plan.
FollowsPlan ==
    /\ step = "start" =>
          plan = <<>> /\ attempts = <<>> /\ preferred \in Preferences
    /\ step # "start" => GoodPlan(plan, preferred)
    /\ Len(attempts) <= Len(plan)
    /\ \A i \in 1..Len(attempts) : attempts[i].vendor = plan[i]
    /\ step = "dial" => Len(attempts) < Len(plan)
    /\ step \in {"dialling", "watch", "read"} =>
          attempts # <<>> /\ Current.sid \in Sids
    /\ step # "end" => outcome = "none"

\* Every call placed belongs to an attempt.
CallsAttempted ==
    /\ IsFiniteSet(PlacedCalls)
    /\ Cardinality(PlacedCalls) <= Len(attempts)
    /\ \A s \in PlacedCalls : \E i \in 1..Len(attempts) : attempts[i].sid = s

\* A conversation without text has no decision.
AnswersHeard ==
    \A s \in Sids : answer[s].decision \in {"YES", "NO"} => answer[s].text

\* The vendor of an attempt is off the phone and has not accepted.
Passed(i) ==
    attempts[i].sid # NoCall =>
        /\ line[attempts[i].sid] \in {"over", "missed"}
        /\ answer[attempts[i].sid].decision # "YES"

\* While no wait has run out, the orchestrator goes on from an attempt only
\* when its vendor is done with, and reads a transcript only of a call that is
\* over.
GoesOnAfterAnswers ==
    ~late =>
        /\ \A i \in 1..Len(attempts) :
              i < Len(attempts) \/ step = "dial" \/ outcome = "declined"
              => Passed(i)
        /\ step = "read" => line[Current.sid] = "over"

OrchInv ==
    /\ LocalInv
    /\ OrchTypeOK
    /\ NobodyElseCalls
    /\ FollowsPlan
    /\ CallsAttempted
    /\ AnswersHeard
    /\ GoesOnAfterAnswers

-----------------------------------------------------------------------------
(******************************************************************************)
(* The steps of the backend.                                                  *)
(******************************************************************************)

\* A chain without a category has no alternatives, so a fallback thread ends
\* without a call.
LEMMA NobodyFound ==
    ASSUME OrchInv, NEW s \in Sids, NEW k \in Reports, FindAlternative(s, k)
    PROVE  Moves(s, k, Finished)
<1>1. call_metadata_store[s].order \in Orders
  BY DEF OrchInv, LocalInv, ThreadsInv, HasChain, Working, FindAlternative
<1>2. Alternatives(call_metadata_store[s].order) = {}
  BY <1>1 DEF OrchInv, NobodyElseCalls, Alternatives
<1>3. QED
  BY <1>2 DEF FindAlternative

\* The backend ends calls and files reports; it places no call, and what was
\* said in a call that is over stays.
LEMMA BackendIsQuiet ==
    ASSUME OrchInv, BackendStep
    PROVE  /\ LocalInv' /\ NobodyElseCalls' /\ AnswersHeard'
           /\ UNCHANGED <<call_metadata_store, orch_vars>>
           /\ PlacedCalls' = PlacedCalls
           /\ \A t \in Sids : line[t] \in {"over", "missed"} =>
                 line'[t] = line[t] /\ answer'[t] = answer[t]
<1> DEFINE Quiet ==
        /\ LocalInv' /\ NobodyElseCalls' /\ AnswersHeard'
        /\ UNCHANGED call_metadata_store
        /\ PlacedCalls' = PlacedCalls
        /\ \A t \in Sids : line[t] \in {"over", "missed"} =>
              line'[t] = line[t] /\ answer'[t] = answer[t]
<1>0. /\ LocalInv
      /\ line \in [Sids -> {"unused", "ringing", "over", "missed"}]
      /\ answer \in [Sids -> Transcripts \cup {NoTranscript}]
      /\ jobs \in [Sids \X Reports -> Job]
  <2>1. LocalInv
    BY DEF OrchInv
  <2>2. QED
    BY <2>1, Types
<1>1. ASSUME NEW s \in Sids, Ends(s)
      PROVE  Quiet
  <2>1. LocalInv'
    BY <1>0, <1>1, EndsStep
  <2>2. /\ line[s] = "ringing"
        /\ UNCHANGED <<call_metadata_store, order_chains, jobs>>
        /\ \/ line' = [line EXCEPT ![s] = "missed"] /\ UNCHANGED answer
           \/ \E a \in Transcripts :
                 /\ a.text \/ a.decision = "UNKNOWN"
                 /\ line' = [line EXCEPT ![s] = "over"]
                 /\ answer' = [answer EXCEPT ![s] = a]
    BY <1>1 DEF Ends, NoAnswer, CallEnds
  <2>3. \A t \in Sids : line[t] \in {"over", "missed"} =>
            line'[t] = line[t] /\ answer'[t] = answer[t]
    BY <1>0, <2>2
  <2>4. AnswersHeard'
    BY <1>0, <2>2 DEF OrchInv, AnswersHeard
  <2>5. NobodyElseCalls'
    BY <2>2 DEF OrchInv, NobodyElseCalls
  <2>6. PlacedCalls' = PlacedCalls
    BY <1>0, <2>2 DEF PlacedCalls
  <2>7. QED
    BY <2>1, <2>2, <2>3, <2>4, <2>5, <2>6
<1>2. ASSUME NEW s \in Sids, NEW k \in Reports, NEW job \in Job,
             jobs' = [jobs EXCEPT ![<<s, k>>] = job],
             job.at \notin {"calling"} \cup Holding,
             UNCHANGED <<call_metadata_store, order_chains, line, answer>>,
             LocalInv'
      PROVE  Quiet
  <2>1. \A t \in Sids, l \in Reports :
            jobs'[<<t, l>>] = IF t = s /\ l = k THEN job ELSE jobs[<<t, l>>]
    BY <1>0, <1>2
  <2>2. NobodyElseCalls'
    BY <1>2, <2>1 DEF OrchInv, NobodyElseCalls
  <2>3. QED
    BY <1>2, <2>2 DEF OrchInv, AnswersHeard, PlacedCalls
<1>3. ASSUME NEW s \in Sids, NEW k \in Reports, StoreTranscript(s, k)
      PROVE  Quiet
  <2>1. LocalInv'
    BY <1>0, <1>3, ReportStep
  <2>2. PICK job : job = [jobs[<<s, k>>] EXCEPT !.at = "filed"]
    OBVIOUS
  <2>3. jobs' = [jobs EXCEPT ![<<s, k>>] = job] /\ job \in Job
        /\ job.at = "filed"
    BY <1>0, <1>3, <2>2 DEF StoreTranscript, Job
  <2>4. job.at \notin {"calling"} \cup Holding
    BY <2>3 DEF Holding, Entering
  <2>5. QED
    BY <1>2, <1>3, <2>1, <2>3, <2>4 DEF StoreTranscript
<1>4. ASSUME NEW s \in Sids, NEW k \in Reports, HandleDecision(s, k)
      PROVE  Quiet
  <2>1. LocalInv'
    BY <1>0, <1>4, ReportStep
  <2>2. PICK at \in {"pausing", "done"} :
            jobs' = [jobs EXCEPT ![<<s, k>>].at = at]
    BY <1>4 DEF HandleDecision
  <2>3. PICK job : job = [jobs[<<s, k>>] EXCEPT !.at = at]
    OBVIOUS
  <2>4. jobs' = [jobs EXCEPT ![<<s, k>>] = job] /\ job \in Job
        /\ job.at = at
    BY <1>0, <2>2, <2>3 DEF Job
  <2>5. job.at \notin {"calling"} \cup Holding
    BY <2>4 DEF Holding, Entering
  <2>6. UNCHANGED <<call_metadata_store, order_chains, line, answer>>
    BY <1>4 DEF HandleDecision
  <2>7. QED
    BY <1>2, <2>1, <2>4, <2>5, <2>6
<1>5. ASSUME NEW s \in Sids, NEW k \in Reports,
             CheckAttempts(s, k) \/ FindAlternative(s, k)
      PROVE  Quiet
  <2>1. LocalInv'
    BY <1>0, <1>5, ProceedsStep DEF Proceeds
  <2>2. PICK job : /\ job \in {Finished, [NoJob EXCEPT !.at = "looking"]}
                   /\ Moves(s, k, job)
    BY <1>5, NobodyFound DEF CheckAttempts
  <2>3. job \in Job /\ job.at \in {"done", "looking"}
    BY <2>2 DEF Finished, NoJob, Job
  <2>4. job.at \notin {"calling"} \cup Holding
    BY <2>3 DEF Holding, Entering
  <2>5. UNCHANGED <<call_metadata_store, order_chains, line>>
    BY <1>5 DEF CheckAttempts, FindAlternative
  <2>6. QED
    BY <1>2, <2>1, <2>2, <2>3, <2>4, <2>5 DEF Moves
<1>7. ASSUME NEW s \in Sids, NEW k \in Reports,
             \/ \E n \in Sids : CallNext(s, k, n)
             \/ CountAttempt(s, k) \/ ListVendor(s, k)
             \/ PointAtCall(s, k) \/ RecordCall(s, k)
      PROVE  FALSE
  <2>1. jobs[<<s, k>>].at \in {"calling"} \cup Holding
    BY <1>7 DEF CallNext, CountAttempt, ListVendor, PointAtCall, RecordCall,
        Holding, Entering
  <2>2. QED
    BY <2>1 DEF OrchInv, NobodyElseCalls
<1>6. QED
  BY <1>1, <1>3, <1>4, <1>5, <1>7 DEF BackendStep, Proceeds

LEMMA BackendKeeps ==
    ASSUME OrchInv, BackendStep
    PROVE  OrchInv'
<1>1. /\ LocalInv' /\ NobodyElseCalls' /\ AnswersHeard'
      /\ UNCHANGED <<call_metadata_store, orch_vars>>
      /\ PlacedCalls' = PlacedCalls
      /\ \A t \in Sids : line[t] \in {"over", "missed"} =>
            line'[t] = line[t] /\ answer'[t] = answer[t]
  BY BackendIsQuiet
<1>2. OrchTypeOK' /\ FollowsPlan' /\ CallsAttempted'
  BY <1>1 DEF OrchInv, OrchTypeOK, FollowsPlan, Current, CallsAttempted,
      orch_vars
<1>3. GoesOnAfterAnswers'
  <2>1. ASSUME NEW i \in 1..Len(attempts)
        PROVE  attempts[i].sid \in Sids \cup {NoCall}
    <3>1. attempts[i] \in Attempt
      BY ElementOfSeq DEF OrchInv, OrchTypeOK
    <3>2. QED
      BY <3>1 DEF Attempt
  <2>2. \A i \in 1..Len(attempts) : Passed(i) => Passed(i)'
    BY <1>1, <2>1 DEF Passed, orch_vars
  <2>3. step = "read" => Current.sid \in Sids
    BY DEF OrchInv, FollowsPlan
  <2>4. QED
    BY <1>1, <2>2, <2>3 DEF OrchInv, GoesOnAfterAnswers, Current, orch_vars
<1>4. QED
  BY <1>1, <1>2, <1>3 DEF OrchInv

-----------------------------------------------------------------------------
(******************************************************************************)
(* The steps of the orchestrator.                                             *)
(******************************************************************************)

\* Noting what became of the last attempt changes nothing else of it.
LEMMA NotedIsSame ==
    ASSUME OrchTypeOK, attempts # <<>>, NEW d \in Heard,
           attempts' = [attempts EXCEPT ![Len(attempts)].decision = d]
    PROVE  /\ attempts' \in Seq(Attempt)
           /\ Len(attempts') = Len(attempts)
           /\ Len(attempts) \in Nat \ {0}
           /\ \A i \in 1..Len(attempts) :
                 /\ attempts'[i].vendor = attempts[i].vendor
                 /\ attempts'[i].sid = attempts[i].sid
<1> DEFINE n == Len(attempts)
<1>1. attempts \in Seq(Attempt) /\ n \in Nat \ {0} /\ n \in 1..n
  BY EmptySeq DEF OrchTypeOK
<1>2. attempts[n] \in Attempt
  BY <1>1, ElementOfSeq
<1>3. PICK r : r = [attempts[n] EXCEPT !.decision = d]
  OBVIOUS
<1>4. r \in Attempt /\ r.vendor = attempts[n].vendor /\ r.sid = attempts[n].sid
  BY <1>2, <1>3 DEF Attempt
<1>5. attempts' = [attempts EXCEPT ![n] = r]
  BY <1>1, <1>3
<1> HIDE DEF n
<1>6. /\ attempts' \in Seq(Attempt)
      /\ Len(attempts') = Len(attempts)
      /\ \A i \in 1..Len(attempts) :
            attempts'[i] = IF i = n THEN r ELSE attempts[i]
  BY <1>1, <1>4, <1>5, ExceptSeq DEF n
<1>7. QED
  BY <1>1, <1>4, <1>6 DEF n

\* The orchestrator goes on from its last attempt: it is done with the
\* purchase, or goes on to the next vendor after one that does not count as
\* having accepted.
LEMMA NotedKeeps ==
    ASSUME OrchInv, step \in {"dialling", "watch", "read"},
           NEW d \in Heard,
           attempts' = [attempts EXCEPT ![Len(attempts)].decision = d],
           UNCHANGED <<preferred, plan, call_metadata_store, line, answer>>,
           late' \in BOOLEAN, late => late',
           \/ step' = "end" /\ outcome' \in {"success", "incomplete"}
           \/ NextOrDone /\ (late' \/ Passed(Len(attempts)))
    PROVE  OrchTypeOK' /\ FollowsPlan' /\ CallsAttempted' /\ GoesOnAfterAnswers'
<1>1. OrchTypeOK /\ attempts # <<>> /\ GoodPlan(plan, preferred)
      /\ outcome = "none"
  BY DEF OrchInv, FollowsPlan
<1>2. /\ attempts' \in Seq(Attempt)
      /\ Len(attempts') = Len(attempts)
      /\ Len(attempts) \in Nat \ {0}
      /\ \A i \in 1..Len(attempts) :
            /\ attempts'[i].vendor = attempts[i].vendor
            /\ attempts'[i].sid = attempts[i].sid
  BY <1>1, NotedIsSame
<1>3. PICK m \in Nat \ {0} : m = Len(attempts)
  BY <1>2
<1>4. \/ step' = "end" /\ outcome' \in {"success", "incomplete"}
      \/ step' = "dial" /\ outcome' = "none" /\ m < Len(plan)
         /\ (late' \/ Passed(m))
      \/ step' = "end" /\ outcome' = "declined" /\ (late' \/ Passed(m))
  BY <1>1, <1>2, <1>3 DEF NextOrDone
<1>5. OrchTypeOK'
  BY <1>1, <1>2, <1>4 DEF OrchTypeOK
<1>6. FollowsPlan'
  <2>1. /\ Len(attempts) <= Len(plan)
        /\ \A i \in 1..Len(attempts) : attempts[i].vendor = plan[i]
    BY DEF OrchInv, FollowsPlan
  <2>2. QED
    BY <1>1, <1>2, <1>3, <1>4, <2>1 DEF FollowsPlan, GoodPlan
<1>7. CallsAttempted'
  BY <1>2 DEF OrchInv, CallsAttempted, PlacedCalls
<1>8. GoesOnAfterAnswers'
  <2> SUFFICES ASSUME ~late'
               PROVE  /\ \A i \in 1..m : i < m \/ step' = "dial"
                               \/ outcome' = "declined" => Passed(i)'
                      /\ step' # "read"
    BY <1>2, <1>3, <1>4 DEF GoesOnAfterAnswers
  <2>1. \A i \in 1..m : i < m => Passed(i)
    BY <1>3 DEF OrchInv, GoesOnAfterAnswers
  <2>2. \A i \in 1..m : Passed(i) => Passed(i)'
    BY <1>2, <1>3 DEF Passed
  <2>3. \A i \in 1..m : i < m \/ i = m
    OBVIOUS
  <2>4. QED
    BY <1>4, <2>1, <2>2, <2>3
<1>9. QED
  BY <1>5, <1>6, <1>7, <1>8

LEMMA AddedIsNext ==
    ASSUME OrchInv, step = "dial", NEW s \in Sids \cup {NoCall},
           NEW d \in Heard \cup {"NONE"},
           attempts' = Append(attempts, [vendor |-> plan[Len(attempts) + 1],
                                         sid |-> s, decision |-> d])
    PROVE  /\ plan[Len(attempts) + 1] \in Vendors
           /\ attempts' \in Seq(Attempt)
           /\ Len(attempts) \in Nat
           /\ Len(attempts') = Len(attempts) + 1
           /\ \A i \in 1..Len(attempts) : attempts'[i] = attempts[i]
           /\ attempts'[Len(attempts) + 1].vendor = plan[Len(attempts) + 1]
           /\ attempts'[Len(attempts) + 1].sid = s
<1>1. attempts \in Seq(Attempt) /\ plan \in Seq(Vendors)
      /\ Len(attempts) < Len(plan)
  BY DEF OrchInv, OrchTypeOK, FollowsPlan
<1>2. Len(attempts) \in Nat /\ Len(plan) \in Nat
  BY <1>1, LenProperties
<1>3. PICK v : v = plan[Len(attempts) + 1]
  OBVIOUS
<1>4. v \in Vendors
  BY <1>1, <1>2, <1>3, ElementOfSeq
<1>5. PICK a : a = [vendor |-> v, sid |-> s, decision |-> d]
  OBVIOUS
<1>6. a \in Attempt /\ a.vendor = v /\ a.sid = s
  BY <1>4, <1>5 DEF Attempt
<1>7. attempts' = Append(attempts, a)
  BY <1>3, <1>5
<1>8. /\ attempts' \in Seq(Attempt)
      /\ Len(attempts') = Len(attempts) + 1
      /\ \A i \in 1..Len(attempts) : attempts'[i] = attempts[i]
      /\ attempts'[Len(attempts) + 1] = a
  BY <1>1, <1>6, <1>7, AppendProperties
<1>9. QED
  BY <1>2, <1>3, <1>4, <1>6, <1>8

\* The backend refuses the call: the attempt has no call.
LEMMA DialRefusedKeeps ==
    ASSUME OrchInv, DialRefused
    PROVE  OrchTypeOK' /\ FollowsPlan' /\ CallsAttempted' /\ GoesOnAfterAnswers'
<1> DEFINE n == Len(attempts)
<1>1. /\ step = "dial" /\ NextOrDone
      /\ UNCHANGED <<call_metadata_store, line, answer, preferred, plan, late>>
      /\ "NO" \in Heard \cup {"NONE"}
  BY DEF DialRefused, vars, Heard, Decisions
<1>2. /\ attempts' \in Seq(Attempt)
      /\ n \in Nat
      /\ Len(attempts') = n + 1
      /\ \A i \in 1..n : attempts'[i] = attempts[i]
      /\ attempts'[n + 1].vendor = plan[n + 1]
      /\ attempts'[n + 1].sid = NoCall
  BY <1>1, AddedIsNext DEF DialRefused
<1>3. /\ OrchTypeOK /\ GoodPlan(plan, preferred) /\ n < Len(plan)
      /\ Len(plan) \in Nat
      /\ outcome = "none"
      /\ \A i \in 1..n : attempts[i].vendor = plan[i]
  BY <1>1, LenProperties DEF OrchInv, FollowsPlan, GoodPlan
<1> HIDE DEF n
<1>4. \/ step' = "dial" /\ outcome' = "none" /\ n + 1 < Len(plan)
      \/ step' = "end" /\ outcome' = "declined"
  BY <1>1, <1>2, <1>3 DEF NextOrDone
<1>5. \A i \in 1..n + 1 : i \in 1..n \/ i = n + 1
  BY <1>2
<1>6. OrchTypeOK'
  BY <1>1, <1>2, <1>3, <1>4 DEF OrchTypeOK
<1>7. FollowsPlan'
  <2>1. \A i \in 1..n + 1 : attempts'[i].vendor = plan[i]
    BY <1>2, <1>3, <1>5
  <2>2. n + 1 <= Len(plan)
    BY <1>2, <1>3
  <2>3. QED
    BY <1>1, <1>2, <1>3, <1>4, <2>1, <2>2 DEF FollowsPlan, GoodPlan
<1>8. CallsAttempted'
  <2>1. /\ PlacedCalls' = PlacedCalls
        /\ IsFiniteSet(PlacedCalls)
        /\ Cardinality(PlacedCalls) <= n
        /\ \A s \in PlacedCalls : \E i \in 1..n : attempts[i].sid = s
    BY <1>1 DEF OrchInv, CallsAttempted, PlacedCalls, n
  <2>2. Cardinality(PlacedCalls) <= n + 1
    BY <1>2, <2>1, FS_CardinalityType
  <2>3. \A i \in 1..n : i \in 1..n + 1
    BY <1>2
  <2>4. QED
    BY <1>2, <2>1, <2>2, <2>3 DEF CallsAttempted
<1>9. GoesOnAfterAnswers'
  <2> SUFFICES ASSUME ~late
               PROVE  /\ \A i \in 1..n + 1 : Passed(i)'
                      /\ step' # "read"
    BY <1>1, <1>2, <1>4 DEF GoesOnAfterAnswers
  <2>1. \A i \in 1..n : Passed(i)
    BY <1>1 DEF OrchInv, GoesOnAfterAnswers, n
  <2>2. \A i \in 1..n : Passed(i)'
    BY <1>1, <1>2, <2>1 DEF Passed
  <2>3. ASSUME NEW i, i = n + 1
        PROVE  Passed(i)'
    BY <1>2, <2>3 DEF Passed
  <2>4. QED
    BY <1>4, <1>5, <2>2, <2>3
<1>10. QED
  BY <1>6, <1>7, <1>8, <1>9

\* A call is placed: no other is under way.
LEMMA DialKeeps ==
    ASSUME OrchInv, NEW o \in Orders, NEW s \in Sids, Dial(o, s)
    PROVE  OrchInv'
<1> DEFINE n == Len(attempts)
           v == plan[n + 1]
<1>1. PICK c \in Categories : CallVendor(o, v, c, s)
  BY DEF Dial
<1>2. /\ step = "dial" /\ step' = "dialling"
      /\ UNCHANGED <<preferred, plan, outcome, late>>
      /\ "NONE" \in Heard \cup {"NONE"}
  BY DEF Dial
<1>3. /\ v \in Vendors
      /\ attempts' \in Seq(Attempt)
      /\ n \in Nat
      /\ Len(attempts') = n + 1
      /\ \A i \in 1..n : attempts'[i] = attempts[i]
      /\ attempts'[n + 1].vendor = v
      /\ attempts'[n + 1].sid = s
  BY <1>2, AddedIsNext DEF Dial
<1>4. /\ OrchTypeOK /\ GoodPlan(plan, preferred) /\ n < Len(plan)
      /\ Len(plan) \in Nat
      /\ outcome = "none"
      /\ \A i \in 1..n : attempts[i].vendor = plan[i]
  BY <1>2, LenProperties DEF OrchInv, FollowsPlan, GoodPlan
<1> HIDE DEF n, v
<1>5. \A i \in 1..n + 1 : i \in 1..n \/ i = n + 1
  BY <1>3
<1>6. /\ LocalInv
      /\ line \in [Sids -> {"unused", "ringing", "over", "missed"}]
      /\ call_metadata_store \in
            [Sids -> [order : Orders \cup {NoOrder},
                      vendor : Vendors \cup {NoVendor}]]
  <2>1. LocalInv
    BY DEF OrchInv
  <2>2. QED
    BY <2>1, Types
<1>7. LocalInv'
  BY <1>1, <1>3, <1>6, CallVendorStep
<1>8. /\ line[s] = "unused" /\ UNCHANGED <<jobs, answer>>
      /\ line' = [line EXCEPT ![s] = "ringing"]
      /\ call_metadata_store' =
            [call_metadata_store EXCEPT ![s] = [order |-> o, vendor |-> v]]
  BY <1>1 DEF CallVendor
<1>9. NobodyElseCalls'
  <2>0. PICK ch : ch = [attempt |-> 1, tried |-> <<v>>, current |-> s,
                        category |-> IF SendsCategory THEN c ELSE NoCategory]
    OBVIOUS
  <2>1. /\ order_chains' = [order_chains EXCEPT ![o] = ch]
        /\ ch.category = NoCategory
    BY <1>1, <2>0, OrchestratorAssumption DEF CallVendor
  <2>2. order_chains \in
          [Orders -> [attempt : Nat, tried : Seq(Vendors),
                      current : Sids \cup {NoCall},
                      category : Categories \cup {NoCategory}]]
    BY <1>6 DEF LocalInv, TypeOK
  <2>3. \A p \in Orders : order_chains'[p].category = NoCategory
    BY <2>1, <2>2 DEF OrchInv, NobodyElseCalls
  <2>4. QED
    BY <1>8, <2>3 DEF OrchInv, NobodyElseCalls
<1>10. OrchTypeOK'
  BY <1>2, <1>3, <1>4 DEF OrchTypeOK
<1>11. FollowsPlan'
  <2>1. \A i \in 1..n + 1 : attempts'[i].vendor = plan[i]
    BY <1>3, <1>4, <1>5 DEF v
  <2>2. n + 1 <= Len(plan)
    BY <1>3, <1>4
  <2>3. attempts' # <<>> /\ Current' = attempts'[n + 1]
    BY <1>3, EmptySeq DEF Current
  <2>4. QED
    BY <1>2, <1>3, <1>4, <2>1, <2>2, <2>3 DEF FollowsPlan, GoodPlan
<1>12. CallsAttempted'
  <2>1. /\ IsFiniteSet(PlacedCalls)
        /\ Cardinality(PlacedCalls) <= n
        /\ \A t \in PlacedCalls : \E i \in 1..n : attempts[i].sid = t
    BY DEF OrchInv, CallsAttempted, n
  <2>2. s \notin PlacedCalls
    BY <1>6, <1>8 DEF LocalInv, CallsInv, PlacedCalls
  <2>3. [order |-> o, vendor |-> v] # NoMeta
    BY LocalAssumption DEF NoMeta
  <2>4. PlacedCalls' = PlacedCalls \cup {s}
    BY <1>6, <1>8, <2>3 DEF PlacedCalls
  <2>5. /\ IsFiniteSet(PlacedCalls \cup {s})
        /\ Cardinality(PlacedCalls \cup {s}) = Cardinality(PlacedCalls) + 1
    BY <2>1, <2>2, FS_AddElement
  <2>6. Cardinality(PlacedCalls \cup {s}) <= n + 1
    BY <1>3, <2>1, <2>5, FS_CardinalityType
  <2>7. \A i \in 1..n : i \in 1..n + 1
    BY <1>3
  <2>8. n + 1 \in 1..n + 1
    BY <1>3
  <2>9. \A t \in PlacedCalls \cup {s} :
            \E i \in 1..n + 1 : attempts'[i].sid = t
    BY <1>3, <2>1, <2>7, <2>8
  <2>10. QED
    BY <1>3, <2>4, <2>5, <2>6, <2>9 DEF CallsAttempted
<1>13. AnswersHeard'
  BY <1>8 DEF OrchInv, AnswersHeard
<1>14. GoesOnAfterAnswers'
  <2> SUFFICES ASSUME ~late
               PROVE  \A i \in 1..n : Passed(i)'
    BY <1>2, <1>3, <1>4, <1>5 DEF GoesOnAfterAnswers
  <2> SUFFICES ASSUME NEW i \in 1..n
               PROVE  Passed(i)'
    OBVIOUS
  <2>1. Passed(i)
    BY <1>2 DEF OrchInv, GoesOnAfterAnswers, n
  <2>2. attempts[i] \in Attempt
    BY <1>4, ElementOfSeq DEF OrchTypeOK, n
  <2>3. attempts[i].sid \in Sids \cup {NoCall}
    BY <2>2 DEF Attempt
  <2>4. QED
    BY <1>3, <1>6, <1>8, <2>1, <2>3 DEF Passed
<1>15. QED
  BY <1>7, <1>9, <1>10, <1>11, <1>12, <1>13, <1>14 DEF OrchInv

LEMMA BackendUntouched ==
    ASSUME OrchInv, UNCHANGED vars
    PROVE  /\ LocalInv' /\ NobodyElseCalls' /\ AnswersHeard'
           /\ UNCHANGED <<call_metadata_store, line, answer>>
<1>1. LocalInv'
  BY LocalStep DEF OrchInv
<1>2. UNCHANGED <<call_metadata_store, line, answer, order_chains, jobs>>
  BY DEF vars
<1>3. QED
  BY <1>1, <1>2 DEF OrchInv, NobodyElseCalls, AnswersHeard

LEMMA MakePlanKeeps ==
    ASSUME OrchInv, MakePlan
    PROVE  OrchInv'
<1>1. PICK vs \in VendorLists : plan' = Plan(vs, preferred)
  BY DEF MakePlan
<1>2. PICK p \in Preferences : p = preferred
  BY DEF MakePlan, OrchInv, FollowsPlan
<1>3. PICK l : l = Plan(vs, p)
  OBVIOUS
<1>4. GoodPlan(l, p)
  BY <1>3, PlansAreGood
<1>5. /\ plan' = l /\ preferred' = p /\ attempts = <<>> /\ UNCHANGED attempts
      /\ step' = "dial" /\ outcome' = "none" /\ UNCHANGED <<vars, late>>
  BY <1>1, <1>2, <1>3 DEF MakePlan, OrchInv, FollowsPlan
<1>6. Len(l) \in Nat \ {0} /\ Len(attempts) = 0 /\ l \in Seq(Vendors)
  BY <1>4, <1>5, EmptySeq DEF GoodPlan
<1>7. OrchTypeOK'
  BY <1>2, <1>5, <1>6 DEF OrchInv, OrchTypeOK
<1>8. FollowsPlan'
  BY <1>4, <1>5, <1>6 DEF FollowsPlan
<1>9. /\ LocalInv' /\ NobodyElseCalls' /\ AnswersHeard'
      /\ UNCHANGED <<call_metadata_store, line, answer>>
  BY <1>5, BackendUntouched
<1>10. CallsAttempted'
  BY <1>5, <1>9 DEF OrchInv, CallsAttempted, PlacedCalls
<1>11. GoesOnAfterAnswers'
  <2>1. 1..Len(attempts') = {}
    BY <1>5, <1>6
  <2>2. QED
    BY <1>5, <2>1 DEF GoesOnAfterAnswers
<1>12. QED
  BY <1>7, <1>8, <1>9, <1>10, <1>11 DEF OrchInv

\* Waiting for the call, and the end of that wait.
LEMMA WaitKeeps ==
    ASSUME OrchInv, Called \/ CallEnded
    PROVE  OrchInv'
<1>1. /\ UNCHANGED <<vars, preferred, plan, attempts, outcome>>
      /\ step \in {"dialling", "watch"} /\ step' \in {"watch", "read"}
      /\ late' \in BOOLEAN /\ (late => late')
      /\ step' = "read" /\ ~late' => line[Current.sid] = "over"
  BY DEF Called, CallEnded, WaitRunsOut, OrchInv, OrchTypeOK
<1>2. /\ LocalInv' /\ NobodyElseCalls' /\ AnswersHeard'
      /\ UNCHANGED <<call_metadata_store, line, answer>>
  BY <1>1, BackendUntouched
<1>3. OrchTypeOK' /\ FollowsPlan' /\ CallsAttempted'
  BY <1>1, <1>2 DEF OrchInv, OrchTypeOK, FollowsPlan, Current, CallsAttempted,
      PlacedCalls
<1>4. GoesOnAfterAnswers'
  BY <1>1, <1>2 DEF OrchInv, GoesOnAfterAnswers, Current, Passed, FollowsPlan
<1>5. QED
  BY <1>2, <1>3, <1>4 DEF OrchInv

\* A wait runs out, or nobody picked up.
LEMMA GivesUpKeeps ==
    ASSUME OrchInv, DialTimeout \/ CallIncomplete
    PROVE  OrchInv'
<1>1. /\ step \in {"dialling", "watch"}
      /\ attempts' = [attempts EXCEPT ![Len(attempts)].decision = "NO"]
      /\ UNCHANGED <<vars, preferred, plan>>
      /\ late' \in BOOLEAN /\ (late => late')
      /\ \/ step' = "end" /\ outcome' \in {"success", "incomplete"}
         \/ NextOrDone /\ late'
      /\ "NO" \in Heard
  BY DEF DialTimeout, CallIncomplete, WaitRunsOut, OrchInv, OrchTypeOK, Heard,
      Decisions
<1>2. /\ LocalInv' /\ NobodyElseCalls' /\ AnswersHeard'
      /\ UNCHANGED <<call_metadata_store, line, answer>>
  BY <1>1, BackendUntouched
<1>3. OrchTypeOK' /\ FollowsPlan' /\ CallsAttempted' /\ GoesOnAfterAnswers'
  BY <1>1, <1>2, NotedKeeps
<1>4. QED
  BY <1>2, <1>3 DEF OrchInv

\* A transcript is read, or none is there.  When the call is over and its
\* report is filed, what does not count as a YES was none.
LEMMA DecideKeeps ==
    ASSUME OrchInv, ReadDecision \/ AnalyseLocally \/ AssumeNo
    PROVE  OrchInv'
<1> DEFINE m == Len(attempts)
<1>1. PICK s : s = Current.sid
  OBVIOUS
<1>2. PICK t : t = call_transcripts_store[s]
  OBVIOUS
<1>3. step = "read" /\ s \in Sids /\ attempts[m].sid = s /\ late \in BOOLEAN
  BY <1>1 DEF ReadDecision, AnalyseLocally, AssumeNo, OrchInv, FollowsPlan,
      Current, OrchTypeOK
<1>4. t \in {NoTranscript, answer[s]}
  BY <1>2, <1>3 DEF OrchInv, LocalInv, CallsInv
<1>5. PICK d \in Heard :
        /\ Decide(d)
        /\ \/ late' = TRUE
           \/ /\ late' = late /\ t # NoTranscript
              /\ d = t.decision \/ t.decision = "UNKNOWN"
           \/ d = "NO" /\ late' = late /\ t # NoTranscript /\ ~t.text
  <2>0. t \in Transcripts \cup {NoTranscript}
    BY <1>2, <1>3, Types DEF OrchInv, LocalInv, TypeOK
  <2>1. CASE ReadDecision
    <3>1. t.text /\ late' = late
          /\ \E d \in IF t.decision = "UNKNOWN" THEN Heard ELSE {t.decision} :
                Decide(d)
      BY <1>1, <1>2, <2>1 DEF ReadDecision
    <3>2. t # NoTranscript
      BY <3>1 DEF NoTranscript
    <3>3. t.decision \in Heard
      BY <2>0, <3>2 DEF Transcripts, Heard
    <3>4. QED
      BY <3>1, <3>2, <3>3
  <2>2. CASE AssumeNo
    <3>1. /\ Decide("NO")
          /\ \/ t # NoTranscript /\ ~t.text /\ late' = late
             \/ late' = TRUE
      BY <1>1, <1>2, <2>2 DEF AssumeNo, WaitRunsOut
    <3>2. QED
      BY <3>1 DEF Heard, Decisions
  <2>3. CASE AnalyseLocally
    BY <2>3 DEF AnalyseLocally, WaitRunsOut
  <2>4. QED
    BY <2>1, <2>2, <2>3
<1>6. /\ attempts' = [attempts EXCEPT ![Len(attempts)].decision = d]
      /\ UNCHANGED <<preferred, plan>>
      /\ late' \in BOOLEAN /\ (late => late')
      /\ \/ d = "YES" /\ step' = "end" /\ outcome' = "success"
         \/ d # "YES" /\ NextOrDone
  <2>1. /\ attempts' = [attempts EXCEPT ![Len(attempts)].decision = d]
        /\ UNCHANGED <<preferred, plan>>
        /\ d = "YES" => step' = "end" /\ outcome' = "success"
        /\ d # "YES" => NextOrDone
    BY <1>5 DEF Decide
  <2>2. late' \in BOOLEAN /\ (late => late')
    <3>1. late' = late \/ late' = TRUE
      BY <1>5
    <3>2. QED
      BY <1>3, <3>1
  <2>3. QED
    BY <2>1, <2>2
<1>7. /\ LocalInv' /\ NobodyElseCalls' /\ AnswersHeard'
      /\ UNCHANGED <<call_metadata_store, line, answer>>
  <2>1. CASE UNCHANGED vars
    BY <2>1, BackendUntouched
  <2>2. CASE GetTranscript(s)
    <3>1. LocalInv'
      BY <1>3, <2>2, PollStep DEF OrchInv
    <3>2. UNCHANGED <<call_metadata_store, line, answer, order_chains, jobs>>
      BY <2>2 DEF GetTranscript
    <3>3. QED
      BY <3>1, <3>2 DEF OrchInv, NobodyElseCalls, AnswersHeard
  <2>3. QED
    BY <1>1, <2>1, <2>2 DEF ReadDecision, AnalyseLocally, AssumeNo
<1>8. d # "YES" /\ ~late' => Passed(m)
  <2> SUFFICES ASSUME d # "YES", ~late'
               PROVE  line[s] = "over" /\ answer[s].decision # "YES"
    BY <1>3 DEF Passed
  <2>1. line[s] = "over"
    BY <1>1, <1>3, <1>6 DEF OrchInv, GoesOnAfterAnswers
  <2>2. t = answer[s] /\ (t.decision # "YES" \/ ~t.text)
    BY <1>4, <1>5
  <2>3. answer[s].decision # "YES"
    BY <1>3, <2>2 DEF OrchInv, AnswersHeard
  <2>4. QED
    BY <2>1, <2>3
<1>9. OrchTypeOK' /\ FollowsPlan' /\ CallsAttempted' /\ GoesOnAfterAnswers'
  BY <1>3, <1>6, <1>7, <1>8, NotedKeeps
<1>10. QED
  BY <1>7, <1>9 DEF OrchInv

LEMMA PurchaseInit ==
    ASSUME OrchInit
    PROVE  OrchInv
<1>1. LocalInv
  BY LocalInit DEF OrchInit
<1>2. /\ step = "start" /\ plan = <<>> /\ attempts = <<>> /\ outcome = "none"
      /\ late = FALSE /\ preferred \in Preferences
      /\ Len(plan) = 0 /\ Len(attempts) = 0
  BY DEF OrchInit
<1>3. OrchTypeOK
  BY <1>2, EmptySeq, OrchestratorAssumption DEF OrchTypeOK
<1>4. NobodyElseCalls /\ AnswersHeard
  BY DEF OrchInit, Init, NobodyElseCalls, AnswersHeard, NoChain, NoJob,
      NoTranscript, Holding, Entering
<1>5. FollowsPlan
  BY <1>2 DEF FollowsPlan
<1>6. CallsAttempted
  <2>1. PlacedCalls = {}
    BY DEF OrchInit, Init, PlacedCalls
  <2>2. QED
    BY <1>2, <2>1, FS_EmptySet DEF CallsAttempted
<1>7. GoesOnAfterAnswers
  <2>1. 1..Len(attempts) = {}
    BY <1>2
  <2>2. QED
    BY <1>2, <2>1 DEF GoesOnAfterAnswers
<1>8. QED
  BY <1>1, <1>3, <1>4, <1>5, <1>6, <1>7 DEF OrchInv

\* The inductive invariant holds in every reachable state, whichever wait runs
\* out and whatever the backend does meanwhile.
THEOREM PurchaseInvariant == OrchSpec => []OrchInv
<1>1. OrchInv /\ [OrchStep \/ BackendStep]_all_vars => OrchInv'
  <2> SUFFICES ASSUME OrchInv, [OrchStep \/ BackendStep]_all_vars
               PROVE  OrchInv'
    OBVIOUS
  <2>1. CASE OrchStep
    <3>1. CASE \E o \in Orders, n \in Sids : Dial(o, n)
      BY <3>1, DialKeeps
    <3>2. CASE DialRefused
      <4>1. UNCHANGED vars
        BY <3>2 DEF DialRefused
      <4>2. LocalInv' /\ NobodyElseCalls' /\ AnswersHeard'
        BY <4>1, BackendUntouched
      <4>3. QED
        BY <3>2, <4>2, DialRefusedKeeps DEF OrchInv
    <3>3. QED
      BY <2>1, <3>1, <3>2, MakePlanKeeps, WaitKeeps, GivesUpKeeps, DecideKeeps
      DEF OrchStep
  <2>2. CASE BackendStep
    BY <2>2, BackendKeeps
  <2>3. CASE UNCHANGED all_vars
    <3>1. UNCHANGED <<vars, orch_vars>>
      BY <2>3 DEF all_vars
    <3>2. /\ LocalInv' /\ NobodyElseCalls' /\ AnswersHeard'
          /\ UNCHANGED <<call_metadata_store, line, answer>>
      BY <3>1, BackendUntouched
    <3>3. QED
      BY <3>1, <3>2 DEF OrchInv, OrchTypeOK, FollowsPlan, Current,
          CallsAttempted, PlacedCalls, GoesOnAfterAnswers, Passed, orch_vars
  <2>4. QED
    BY <2>1, <2>2, <2>3
<1>2. QED
  BY <1>1, PurchaseInit, PTL DEF OrchSpec

\* The plan, the attempts and the outcome of a purchase have their types.
THEOREM PurchaseTyped == OrchSpec => []OrchTypeOK
<1>1. OrchInv => OrchTypeOK
  BY DEF OrchInv
<1>2. QED
  BY <1>1, PurchaseInvariant, PTL

\* No more vendors are called for a purchase than the limit, although the
\* backend starts a fallback of its own for each NO.
THEOREM PurchaseBounded == OrchSpec => []HardCap
<1>1. OrchInv => HardCap
  <2> SUFFICES ASSUME OrchInv
               PROVE  Cardinality(PlacedCalls) <= MaxVendors
    BY DEF HardCap
  <2>1. /\ attempts \in Seq(Attempt) /\ plan \in Seq(Vendors)
        /\ IsFiniteSet(PlacedCalls) /\ Cardinality(PlacedCalls) <= Len(attempts)
        /\ Len(attempts) <= Len(plan)
        /\ step = "start" => plan = <<>>
        /\ step # "start" => Len(plan) <= MaxVendors
    BY DEF OrchInv, OrchTypeOK, CallsAttempted, FollowsPlan, GoodPlan
  <2>2. Len(plan) \in Nat /\ Len(attempts) \in Nat /\ Len(<<>>) = 0
    BY <2>1, LenProperties
  <2>3. Cardinality(PlacedCalls) \in Nat
    BY <2>1, FS_CardinalityType
  <2>4. Len(plan) <= MaxVendors
    BY <2>1, <2>2, OrchestratorAssumption
  <2>5. QED
    BY <2>1, <2>2, <2>3, <2>4, OrchestratorAssumption
<1>2. QED
  BY <1>1, PurchaseInvariant, PTL

\* The vendor that the dashboard prefers is the first to be called, whether the
\* database lists it, in whatever spelling, or not.
THEOREM PreferredCalledFirst == OrchSpec => []PreferredFirst
<1>1. OrchInv => PreferredFirst
  <2> SUFFICES ASSUME OrchInv, preferred # NoVendor, attempts # <<>>
               PROVE  Lowered[attempts[1].vendor] = Lowered[preferred]
    BY DEF PreferredFirst
  <2>1. 1 \in 1..Len(attempts)
    BY EmptySeq DEF OrchInv, OrchTypeOK
  <2>2. attempts[1].vendor = plan[1] /\ GoodPlan(plan, preferred)
    BY <2>1 DEF OrchInv, FollowsPlan
  <2>3. QED
    BY <2>2 DEF GoodPlan
<1>2. QED
  BY <1>1, PurchaseInvariant, PTL

NamesDiffer ==
    \A i, j \in 1..Len(attempts) :
        Stripped[attempts[i].vendor] = Stripped[attempts[j].vendor] => i = j

\* No two attempts of a purchase go to vendors of one name.
THEOREM NobodyCalledTwice == OrchSpec => []NamesDiffer
<1>1. ASSUME OrchInv, NEW i \in 1..Len(attempts), NEW j \in 1..Len(attempts),
             Stripped[attempts[i].vendor] = Stripped[attempts[j].vendor]
      PROVE  i = j
  <2>1. /\ attempts[i].vendor = plan[i] /\ attempts[j].vendor = plan[j]
        /\ Len(attempts) <= Len(plan) /\ attempts # <<>>
    BY <1>1, EmptySeq DEF OrchInv, FollowsPlan
  <2>2. GoodPlan(plan, preferred)
    BY <1>1, <2>1 DEF OrchInv, FollowsPlan
  <2>3. Len(attempts) \in Nat /\ Len(plan) \in Nat
    BY <1>1, LenProperties DEF OrchInv, OrchTypeOK
  <2>4. i \in 1..Len(plan) /\ j \in 1..Len(plan)
    BY <2>1, <2>3
  <2>5. QED
    BY <1>1, <2>1, <2>2, <2>4 DEF GoodPlan
<1>2. OrchInv => NamesDiffer
  BY <1>1 DEF NamesDiffer
<1>3. QED
  BY <1>2, PurchaseInvariant, PTL

\* Of the calls placed only that of the last attempt may be under way, or may
\* have been accepted.
LEMMA OnlyLastMatters ==
    ASSUME OrchInv, ~late, NEW s \in PlacedCalls,
           line[s] = "ringing" \/ answer[s].decision = "YES"
    PROVE  attempts # <<>> /\ s = Current.sid /\ outcome # "declined"
<1>1. PICK i \in 1..Len(attempts) : attempts[i].sid = s
  BY DEF OrchInv, CallsAttempted
<1>2. s # NoCall
  BY LocalAssumption DEF PlacedCalls
<1>3. ~ Passed(i)
  BY <1>1, <1>2 DEF Passed
<1>4. ~ i < Len(attempts) /\ outcome # "declined"
  BY <1>3 DEF OrchInv, GoesOnAfterAnswers
<1>5. Len(attempts) \in Nat
  BY LenProperties DEF OrchInv, OrchTypeOK
<1>6. i = Len(attempts) /\ attempts # <<>>
  BY <1>4, <1>5
<1>7. QED
  BY <1>1, <1>4, <1>6 DEF Current

LEMMA AtMostOne ==
    ASSUME NEW S, NEW x, S \subseteq {x}
    PROVE  Cardinality(S) <= 1
<1>1. IsFiniteSet({x}) /\ Cardinality({x}) = 1
  BY FS_Singleton
<1>2. Cardinality(S) <= Cardinality({x})
  BY <1>1, FS_Subset
<1>3. QED
  BY <1>1, <1>2

\* While no wait runs out and no request for the status, the transcript or the
\* decision of a call fails, one vendor is on the phone at a time, nobody is
\* asked after a YES, and a purchase reported as declined has no YES.
THEOREM PurchaseFollowsAnswers == OrchSpec => []AttemptsFollowAnswers
<1>1. OrchInv => AttemptsFollowAnswers
  <2> SUFFICES ASSUME OrchInv, ~late
               PROVE  OneOnThePhone /\ OneAcceptance /\ DeclinedMeansDeclined
    BY DEF AttemptsFollowAnswers
  <2>1. OneOnThePhone
    <3>1. {s \in PlacedCalls : line[s] = "ringing"} \subseteq {Current.sid}
      BY OnlyLastMatters
    <3>2. QED
      BY <3>1, AtMostOne DEF OneOnThePhone
  <2>2. OneAcceptance
    <3>1. {s \in PlacedCalls : answer[s].decision = "YES"} \subseteq {Current.sid}
      BY OnlyLastMatters
    <3>2. QED
      BY <3>1, AtMostOne DEF OneAcceptance
  <2>3. DeclinedMeansDeclined
    BY OnlyLastMatters DEF DeclinedMeansDeclined
  <2>4. QED
    BY <2>1, <2>2, <2>3
<1>2. QED
  BY <1>1, PurchaseInvariant, PTL

-----------------------------------------------------------------------------
(******************************************************************************)
(* Refinement: a purchase implements OrderOffer.                              *)
(******************************************************************************)

\* An element added to the sequence is picked last, if it is picked at all.
LEMMA PickExtended ==
    ASSUME NEW V, NEW seq \in Seq(V), NEW e \in V, NEW S \in SUBSET (1..Len(seq))
    PROVE  /\ Pick(S, Append(seq, e)) = Pick(S, seq)
           /\ Pick(S \cup {Len(seq) + 1}, Append(seq, e)) =
                 Append(Pick(S, seq), e)
<1> DEFINE T == S \cup {Len(seq) + 1}
           m == Cardinality(S)
<1>0. PICK n \in Nat : n = Len(seq)
  BY LenProperties
<1>1. PICK l \in Nat : l = n + 1
  OBVIOUS
<1>2. PICK s : s = Append(seq, e)
  OBVIOUS
<1>3. /\ s \in Seq(V) /\ Len(s) = l /\ s[l] = e
      /\ \A i \in 1..n : s[i] = seq[i]
  BY <1>0, <1>1, <1>2, AppendProperties
<1>4. /\ S \in SUBSET (1..n) /\ S \in SUBSET (1..l)
      /\ T = S \cup {l} /\ T \in SUBSET (1..l)
  <2>1. S \in SUBSET (1..n) /\ T = S \cup {l}
    BY <1>0, <1>1
  <2>2. \A i \in 1..n : i \in 1..l
    BY <1>1
  <2>3. l \in 1..l
    BY <1>1
  <2>4. QED
    BY <2>1, <2>2, <2>3
<1> HIDE DEF T
<1>5. /\ Pick(S, seq) \in Seq(V) /\ Len(Pick(S, seq)) = m /\ m \in Nat
  BY PickIsSeq
<1>6. Pick(S, s) \in Seq(V) /\ Len(Pick(S, s)) = m
  <2>1. S \in SUBSET (1..Len(s))
    BY <1>3, <1>4
  <2>2. QED
    BY <1>3, <2>1, PickIsSeq
<1>7. Pick(T, s) \in Seq(V) /\ Len(Pick(T, s)) = Cardinality(T)
  <2>1. T \in SUBSET (1..Len(s))
    BY <1>3, <1>4
  <2>2. QED
    BY <1>3, <2>1, PickIsSeq
<1>8. Cardinality(T) = m + 1
  <2>1. IsFiniteSet(1..n)
    BY FS_Interval
  <2>2. IsFiniteSet(S)
    BY <1>4, <2>1, FS_Subset
  <2>3. l \notin S
    BY <1>1, <1>4
  <2>4. QED
    BY <1>4, <2>2, <2>3, FS_AddElement
<1>9. ASSUME NEW k \in 1..m
      PROVE  Pick(S, s)[k] = Pick(S, seq)[k] /\ Pick(T, s)[k] = Pick(S, seq)[k]
  <2>1. PICK i \in S : Cardinality(UpTo(S, i)) = k
    BY <1>4, RanksReached
  <2>2. Pick(S, seq)[k] = seq[i]
    BY <1>4, <2>1, PickedAtRank
  <2>3. Pick(S, s)[k] = s[i]
    BY <1>4, <2>1, PickedAtRank
  <2>4. UpTo(T, i) = UpTo(S, i)
    <3>1. ~ l <= i
      BY <1>1, <1>4
    <3>2. QED
      BY <1>4, <3>1 DEF UpTo
  <2>5. i \in T
    BY <1>4
  <2>6. /\ Cardinality(UpTo(T, i)) \in 1..Cardinality(T)
        /\ Pick(T, s)[Cardinality(UpTo(T, i))] = s[i]
    <3>1. T \in SUBSET (1..l)
      BY <1>4
    <3>2. QED
      BY <2>5, <3>1, PickedAtRank
  <2>7. s[i] = seq[i]
    BY <1>3, <1>4
  <2>8. QED
    BY <2>1, <2>2, <2>3, <2>4, <2>6, <2>7
<1>10. Pick(T, s)[m + 1] = e
  <2>1. \A j \in T : j <= l
    BY <1>4
  <2>2. UpTo(T, l) = T
    BY <2>1 DEF UpTo
  <2>3. l \in T
    BY <1>4
  <2>4. /\ Cardinality(UpTo(T, l)) \in 1..Cardinality(T)
        /\ Pick(T, s)[Cardinality(UpTo(T, l))] = s[l]
    <3>1. T \in SUBSET (1..l)
      BY <1>4
    <3>2. QED
      BY <2>3, <3>1, PickedAtRank
  <2>5. QED
    BY <1>3, <1>8, <2>2, <2>4
<1> HIDE DEF m
<1>11. Pick(S, s) = Pick(S, seq)
  BY <1>5, <1>6, <1>9, SeqEqual
<1>12. Pick(T, s) = Append(Pick(S, seq), e)
  <2>1. PICK a : a = Append(Pick(S, seq), e)
    OBVIOUS
  <2>2. /\ a \in Seq(V) /\ Len(a) = m + 1 /\ a[m + 1] = e
        /\ \A k \in 1..m : a[k] = Pick(S, seq)[k]
    BY <1>5, <2>1, AppendProperties
  <2>3. \A k \in 1..m + 1 : k \in 1..m \/ k = m + 1
    BY <1>5
  <2>4. \A k \in 1..m + 1 : Pick(T, s)[k] = a[k]
    BY <1>9, <1>10, <2>2, <2>3
  <2>5. QED
    BY <1>7, <1>8, <2>1, <2>2, <2>4, SeqEqual
<1>13. QED
  BY <1>2, <1>11, <1>12 DEF T

ReachedIn(seq) == {i \in DOMAIN seq : seq[i].sid # NoCall}

\* The names of the vendors that were called, as the refinement shows them.
NamesIn(seq) ==
    [k \in 1..Cardinality(ReachedIn(seq)) |->
        Stripped[Pick(ReachedIn(seq), seq)[k].vendor]]

LEMMA NamesShape ==
    ASSUME NEW seq \in Seq(Attempt)
    PROVE  LET S == ReachedIn(seq)
           IN  /\ Len(seq) \in Nat
               /\ S \in SUBSET (1..Len(seq))
               /\ Pick(S, seq) \in Seq(Attempt)
               /\ Len(Pick(S, seq)) = Cardinality(S)
               /\ Cardinality(S) \in Nat /\ Cardinality(S) <= Len(seq)
               /\ S # {} => Cardinality(S) # 0
               /\ NamesIn(seq) \in Seq(Vendors)
               /\ Len(NamesIn(seq)) = Cardinality(S)
               /\ \A k \in 1..Cardinality(S) : \E i \in 1..Len(seq) :
                     NamesIn(seq)[k] = Stripped[seq[i].vendor]
<1> DEFINE S == ReachedIn(seq)
           P == Pick(S, seq)
           m == Cardinality(S)
<1>1. Len(seq) \in Nat /\ S \in SUBSET (1..Len(seq))
  BY LenProperties DEF ReachedIn
<1> HIDE DEF S
<1>2. P \in Seq(Attempt) /\ Len(P) = m /\ m \in Nat /\ m <= Len(seq)
  BY <1>1, PickIsSeq
<1>3. S # {} => m # 0
  <2>1. IsFiniteSet(1..Len(seq))
    BY <1>1, FS_Interval
  <2>2. IsFiniteSet(S)
    BY <1>1, <2>1, FS_Subset
  <2>3. QED
    BY <2>2, FS_EmptySet
<1>4. NamesIn(seq) = [k \in 1..m |-> Stripped[P[k].vendor]]
  BY DEF NamesIn, S
<1>5. ASSUME NEW k \in 1..m
      PROVE  Stripped[P[k].vendor] \in Vendors
  <2>1. P[k] \in Attempt
    BY <1>2, ElementOfSeq
  <2>2. QED
    BY <2>1, OrchestratorAssumption DEF Attempt
<1>6. ASSUME NEW k \in 1..m
      PROVE  \E i \in 1..Len(seq) : P[k] = seq[i]
  <2>1. PICK i \in S : Cardinality(UpTo(S, i)) = k
    BY <1>1, RanksReached
  <2>2. P[k] = seq[i]
    BY <1>1, <2>1, PickedAtRank
  <2>3. QED
    BY <1>1, <2>2
<1> HIDE DEF P, m
<1>7. NamesIn(seq) \in [1..m -> Vendors]
  BY <1>4, <1>5
<1>8. NamesIn(seq) \in Seq(Vendors) /\ Len(NamesIn(seq)) = m
  BY <1>2, <1>7
<1>9. \A k \in 1..m : \E i \in 1..Len(seq) :
          NamesIn(seq)[k] = Stripped[seq[i].vendor]
  BY <1>4, <1>6
<1>10. QED
  BY <1>1, <1>2, <1>3, <1>8, <1>9 DEF P, m, S

\* What is noted of an attempt besides its vendor and its call is not shown.
LEMMA NamesKept ==
    ASSUME NEW seq \in Seq(Attempt), NEW t \in Seq(Attempt), Len(t) = Len(seq),
           \A i \in 1..Len(seq) :
              t[i].vendor = seq[i].vendor /\ t[i].sid = seq[i].sid
    PROVE  ReachedIn(t) = ReachedIn(seq) /\ NamesIn(t) = NamesIn(seq)
<1>1. DOMAIN t = 1..Len(seq) /\ DOMAIN seq = 1..Len(seq)
  BY LenProperties
<1>2. ReachedIn(t) = ReachedIn(seq)
  BY <1>1 DEF ReachedIn
<1>3. PICK S : S = ReachedIn(seq)
  OBVIOUS
<1>4. Len(seq) \in Nat /\ S \in SUBSET (1..Len(seq))
  BY <1>3, NamesShape
<1>5. ASSUME NEW k \in 1..Cardinality(S)
      PROVE  Pick(S, t)[k].vendor = Pick(S, seq)[k].vendor
  <2>1. PICK i \in S : Cardinality(UpTo(S, i)) = k
    BY <1>4, RanksReached
  <2>2. Pick(S, seq)[k] = seq[i]
    BY <1>4, <2>1, PickedAtRank
  <2>3. Pick(S, t)[k] = t[i]
    BY <1>4, <2>1, PickedAtRank
  <2>4. QED
    BY <1>4, <2>2, <2>3
<1>6. QED
  BY <1>2, <1>3, <1>5 DEF NamesIn

\* An attempt without a call is not shown.
LEMMA NamesSkipped ==
    ASSUME NEW seq \in Seq(Attempt), NEW a \in Attempt, a.sid = NoCall
    PROVE  NamesIn(Append(seq, a)) = NamesIn(seq)
<1>1. PICK S : S = ReachedIn(seq)
  OBVIOUS
<1>2. Len(seq) \in Nat /\ S \in SUBSET (1..Len(seq)) /\ DOMAIN seq = 1..Len(seq)
  BY <1>1, NamesShape, LenProperties
<1>3. PICK t : t = Append(seq, a)
  OBVIOUS
<1>4. /\ t \in Seq(Attempt) /\ Len(t) = Len(seq) + 1 /\ t[Len(seq) + 1] = a
      /\ \A i \in 1..Len(seq) : t[i] = seq[i]
      /\ DOMAIN t = 1..Len(seq) + 1
  BY <1>3, AppendProperties, LenProperties
<1>5. \A i : i \in 1..Len(seq) + 1 <=> i \in 1..Len(seq) \/ i = Len(seq) + 1
  BY <1>2
<1>6. ReachedIn(t) = S
  BY <1>1, <1>2, <1>4, <1>5 DEF ReachedIn
<1>7. Pick(S, t) = Pick(S, seq)
  BY <1>2, <1>3, PickExtended
<1>8. QED
  BY <1>1, <1>3, <1>6, <1>7 DEF NamesIn

\* A call placed is shown after the calls placed before.
LEMMA NamesAdded ==
    ASSUME NEW seq \in Seq(Attempt), NEW a \in Attempt, a.sid # NoCall
    PROVE  NamesIn(Append(seq, a)) = Append(NamesIn(seq), Stripped[a.vendor])
<1>1. PICK S : S = ReachedIn(seq)
  OBVIOUS
<1>2. PICK t : t = Append(seq, a)
  OBVIOUS
<1>3. PICK l : l = Len(seq) + 1
  OBVIOUS
<1>4. /\ Len(seq) \in Nat /\ S \in SUBSET (1..Len(seq))
      /\ DOMAIN seq = 1..Len(seq)
      /\ Cardinality(S) \in Nat
      /\ Pick(S, seq) \in Seq(Attempt) /\ Len(Pick(S, seq)) = Cardinality(S)
      /\ NamesIn(seq) \in Seq(Vendors) /\ Len(NamesIn(seq)) = Cardinality(S)
  BY <1>1, NamesShape, LenProperties
<1>5. /\ t \in Seq(Attempt) /\ Len(t) = l /\ t[l] = a
      /\ \A i \in 1..Len(seq) : t[i] = seq[i]
      /\ DOMAIN t = 1..l
  BY <1>2, <1>3, AppendProperties, LenProperties
<1>6. \A i : i \in 1..l <=> i \in 1..Len(seq) \/ i = l
  BY <1>3, <1>4
<1>7. ReachedIn(t) = S \cup {l}
  BY <1>1, <1>4, <1>5, <1>6 DEF ReachedIn
<1>8. PICK p : p = Pick(S \cup {l}, t)
  OBVIOUS
<1>9. p = Append(Pick(S, seq), a)
  BY <1>2, <1>3, <1>4, <1>8, PickExtended
<1>10. PICK m \in Nat : m = Cardinality(S)
  BY <1>4
<1>11. /\ Len(p) = m + 1 /\ p[m + 1] = a
       /\ \A k \in 1..m : p[k] = Pick(S, seq)[k]
  BY <1>4, <1>9, <1>10, AppendProperties
<1>12. Len(p) = Cardinality(S \cup {l})
  <2>1. S \cup {l} \in SUBSET (1..Len(t))
    BY <1>4, <1>5, <1>6
  <2>2. QED
    BY <1>5, <1>8, <2>1, PickIsSeq
<1>13. /\ NamesIn(t) \in Seq(Vendors) /\ Len(NamesIn(t)) = m + 1
       /\ \A k \in 1..m + 1 : NamesIn(t)[k] = Stripped[p[k].vendor]
  <2>1. NamesIn(t) \in Seq(Vendors)
    BY <1>5, NamesShape
  <2>2. Len(NamesIn(t)) = Cardinality(ReachedIn(t))
    BY <1>5, NamesShape
  <2>3. QED
    BY <1>7, <1>8, <1>11, <1>12, <2>1, <2>2 DEF NamesIn
<1>14. PICK v \in Vendors : v = Stripped[a.vendor]
  BY OrchestratorAssumption DEF Attempt
<1>15. PICK q : q = Append(NamesIn(seq), v)
  OBVIOUS
<1>16. /\ q \in Seq(Vendors) /\ Len(q) = m + 1 /\ q[m + 1] = v
       /\ \A k \in 1..m : q[k] = NamesIn(seq)[k]
  BY <1>4, <1>10, <1>15, AppendProperties
<1>17. \A k \in 1..m : NamesIn(seq)[k] = Stripped[Pick(S, seq)[k].vendor]
  BY <1>1, <1>10 DEF NamesIn
<1>18. \A k \in 1..m + 1 : k \in 1..m \/ k = m + 1
  OBVIOUS
<1>19. \A k \in 1..m + 1 : NamesIn(t)[k] = q[k]
  BY <1>11, <1>13, <1>14, <1>16, <1>17, <1>18
<1>20. NamesIn(t) = q
  BY <1>13, <1>16, <1>19, SeqEqual
<1>21. QED
  BY <1>2, <1>14, <1>15, <1>20

\* The mapping of Orchestrator in terms of the attempts.
LEMMA OfferedIsShown ==
    ASSUME NEW seq \in Seq(Attempt), NEW p, p = Pick(ReachedIn(seq), seq)
    PROVE  /\ [i \in DOMAIN p |-> Stripped[p[i].vendor]] = NamesIn(seq)
           /\ p = <<>> <=> NamesIn(seq) = <<>>
<1>1. /\ p \in Seq(Attempt) /\ Len(p) = Cardinality(ReachedIn(seq))
      /\ NamesIn(seq) \in Seq(Vendors) /\ Len(NamesIn(seq)) = Len(p)
  BY NamesShape
<1>2. DOMAIN p = 1..Cardinality(ReachedIn(seq))
  BY <1>1, LenProperties
<1>3. QED
  BY <1>1, <1>2, EmptySeq DEF NamesIn

\* What a step of a purchase shows of itself: nothing, an outcome, or one more
\* vendor called.
ShowsNothing == NamesIn(attempts') = NamesIn(attempts) /\ outcome' = outcome

ShowsOutcome ==
    /\ NamesIn(attempts') = NamesIn(attempts)
    /\ outcome = "none"
    /\ outcome' \in {"success", "declined", "incomplete"}

ShowsCall(v) ==
    /\ outcome = "none" /\ outcome' = "none"
    /\ Len(NamesIn(attempts)) < MaxVendors
    /\ \A i \in 1..Len(NamesIn(attempts)) : NamesIn(attempts)[i] # v
    /\ NamesIn(attempts') = Append(NamesIn(attempts), v)

LEMMA GoingOnShows ==
    ASSUME OrchInv, step \in {"dialling", "watch", "read"}, NEW d \in Heard,
           attempts' = [attempts EXCEPT ![Len(attempts)].decision = d],
           outcome' \in {"none", "success", "declined", "incomplete"}
    PROVE  ShowsNothing \/ ShowsOutcome
<1>1. OrchTypeOK /\ attempts # <<>> /\ outcome = "none"
  BY DEF OrchInv, FollowsPlan
<1>2. /\ attempts' \in Seq(Attempt)
      /\ Len(attempts') = Len(attempts)
      /\ \A i \in 1..Len(attempts) :
            /\ attempts'[i].vendor = attempts[i].vendor
            /\ attempts'[i].sid = attempts[i].sid
  BY <1>1, NotedIsSame
<1>3. PICK s \in Seq(Attempt) : s = attempts
  BY <1>1 DEF OrchTypeOK
<1>4. PICK t \in Seq(Attempt) : t = attempts'
  BY <1>2
<1>5. NamesIn(t) = NamesIn(s)
  BY <1>2, <1>3, <1>4, NamesKept
<1>6. QED
  BY <1>1, <1>3, <1>4, <1>5 DEF ShowsNothing, ShowsOutcome

\* A vendor that is dialled is one more, and its name is new.
LEMMA DialShows ==
    ASSUME OrchInv, NEW o \in Orders, NEW n \in Sids, Dial(o, n)
    PROVE  \E v \in Vendors : ShowsCall(v)
<1>1. PICK s \in Seq(Attempt) : s = attempts
  BY DEF OrchInv, OrchTypeOK
<1>2. PICK l \in Seq(Vendors) : l = plan
  BY DEF OrchInv, OrchTypeOK
<1>3. PICK m \in Nat : m = Len(s)
  BY LenProperties
<1>4. /\ GoodPlan(l, preferred) /\ m < Len(l) /\ outcome = "none"
      /\ \A i \in 1..m : s[i].vendor = l[i]
  BY <1>1, <1>2, <1>3 DEF Dial, OrchInv, FollowsPlan
<1>5. Len(l) \in Nat
  BY LenProperties
<1>6. m + 1 \in 1..Len(l) /\ \A i \in 1..m : i \in 1..Len(l) /\ i # m + 1
  BY <1>4, <1>5
<1>7. PICK w \in Vendors : w = l[m + 1]
  BY <1>6, ElementOfSeq
<1>8. PICK a : a = [vendor |-> w, sid |-> n, decision |-> "NONE"]
  OBVIOUS
<1>9. a \in Attempt /\ a.sid # NoCall /\ a.vendor = w
  BY <1>8, LocalAssumption DEF Attempt
<1>10. attempts' = Append(s, a) /\ outcome' = "none"
  BY <1>1, <1>2, <1>3, <1>4, <1>7, <1>8 DEF Dial
<1>11. PICK v \in Vendors : v = Stripped[w]
  BY OrchestratorAssumption
<1>12. NamesIn(Append(s, a)) = Append(NamesIn(s), v)
  BY <1>9, <1>11, NamesAdded
<1>13. PICK c \in Nat : c = Cardinality(ReachedIn(s))
  BY NamesShape
<1>14. /\ Len(NamesIn(s)) = c /\ c <= m
       /\ \A k \in 1..c : \E i \in 1..m : NamesIn(s)[k] = Stripped[s[i].vendor]
  BY <1>3, <1>13, NamesShape
<1>15. Len(NamesIn(s)) < MaxVendors
  BY <1>4, <1>5, <1>14, OrchestratorAssumption DEF GoodPlan
<1>16. ASSUME NEW k \in 1..c, NamesIn(s)[k] = v
       PROVE  FALSE
  <2>1. PICK i \in 1..m : NamesIn(s)[k] = Stripped[s[i].vendor]
    BY <1>14
  <2>2. Stripped[l[i]] = Stripped[l[m + 1]]
    BY <1>4, <1>7, <1>11, <1>16, <2>1
  <2>3. i = m + 1
    BY <1>4, <1>6, <2>2 DEF GoodPlan
  <2>4. QED
    BY <1>6, <2>3
<1>17. PICK t : t = attempts'
  OBVIOUS
<1>18. NamesIn(t) = Append(NamesIn(s), v)
  BY <1>10, <1>12, <1>17
<1>19. ShowsCall(v)
  BY <1>1, <1>4, <1>10, <1>14, <1>15, <1>16, <1>17, <1>18 DEF ShowsCall
<1>20. QED
  BY <1>19

LEMMA StepsShow ==
    ASSUME OrchInv, [OrchStep \/ BackendStep]_all_vars
    PROVE  ShowsNothing \/ ShowsOutcome \/ \E v \in Vendors : ShowsCall(v)
<1>1. CASE UNCHANGED <<attempts, outcome>>
  BY <1>1 DEF ShowsNothing
<1>2. CASE DialRefused
  <2>1. PICK s \in Seq(Attempt) : s = attempts
    BY DEF OrchInv, OrchTypeOK
  <2>2. plan[Len(attempts) + 1] \in Vendors /\ outcome = "none"
    <3>1. Len(attempts) < Len(plan) /\ plan \in Seq(Vendors) /\ outcome = "none"
      BY <1>2 DEF DialRefused, OrchInv, FollowsPlan, OrchTypeOK
    <3>2. Len(attempts) \in Nat /\ Len(plan) \in Nat
      BY <2>1, <3>1, LenProperties
    <3>3. Len(attempts) + 1 \in 1..Len(plan)
      BY <3>1, <3>2
    <3>4. QED
      BY <3>1, <3>3, ElementOfSeq
  <2>3. PICK a : a = [vendor |-> plan[Len(attempts) + 1], sid |-> NoCall,
                      decision |-> "NO"]
    OBVIOUS
  <2>4. a \in Attempt /\ a.sid = NoCall
    BY <2>2, <2>3 DEF Attempt, Heard, Decisions
  <2>5. attempts' = Append(s, a) /\ outcome' \in {"none", "declined"}
    BY <1>2, <2>1, <2>2, <2>3 DEF DialRefused, NextOrDone
  <2>6. PICK t : t = attempts'
    OBVIOUS
  <2>7. NamesIn(t) = NamesIn(s)
    BY <2>4, <2>5, <2>6, NamesSkipped
  <2>8. QED
    BY <2>1, <2>2, <2>5, <2>6, <2>7 DEF ShowsNothing, ShowsOutcome
<1>3. ASSUME \/ DialTimeout \/ CallIncomplete \/ AssumeNo \/ ReadDecision
             \/ AnalyseLocally
      PROVE  ShowsNothing \/ ShowsOutcome
  <2>1. step \in {"dialling", "watch", "read"}
    BY <1>3
    DEF DialTimeout, CallIncomplete, AssumeNo, ReadDecision, AnalyseLocally
  <2>2. outcome = "none"
    BY <2>1 DEF OrchInv, FollowsPlan
  <2>3. PICK d \in Heard :
            attempts' = [attempts EXCEPT ![Len(attempts)].decision = d]
    <3>1. CASE ReadDecision
      <4>1. PICK t : t = call_transcripts_store[Current.sid]
        OBVIOUS
      <4>2. /\ t.text
            /\ \E d \in IF t.decision = "UNKNOWN" THEN Heard ELSE {t.decision} :
                  Decide(d)
        BY <3>1, <4>1 DEF ReadDecision
      <4>3. t \in Transcripts \cup {NoTranscript}
        BY <2>1, <4>1, Types DEF OrchInv, FollowsPlan, LocalInv, TypeOK
      <4>4. t.decision \in Heard
        BY <4>2, <4>3 DEF NoTranscript, Transcripts, Heard
      <4>5. QED
        BY <4>2, <4>4 DEF Decide
    <3>2. QED
      BY <1>3, <3>1 DEF DialTimeout, CallIncomplete, AssumeNo, AnalyseLocally,
          Decide, Heard, Decisions
  <2>4. outcome' \in {"none", "success", "declined", "incomplete"}
    BY <1>3, <2>2 DEF DialTimeout, CallIncomplete, AssumeNo, ReadDecision,
        AnalyseLocally, Decide, NextOrDone
  <2>5. QED
    BY <2>1, <2>3, <2>4, GoingOnShows
<1>4. CASE MakePlan \/ Called \/ CallEnded
  BY <1>1, <1>4 DEF MakePlan, Called, CallEnded
<1>5. CASE BackendStep \/ UNCHANGED all_vars
  BY <1>1, <1>5 DEF BackendStep, all_vars, orch_vars
<1>6. QED
  BY <1>2, <1>3, <1>4, <1>5, DialShows DEF OrchStep

\* A purchase implements the abstract fallback, whichever wait runs out and
\* whatever is dialled, refused, heard or missed: the calls it placed are the
\* offers, and once it has returned nothing is offered any more.
THEOREM PurchaseRefines == OrchSpec => ImplementsOffer
<1> DEFINE shown(names, out) ==
               IF names = <<>> THEN "none"
               ELSE CASE out = "success"    -> "accepted"
                      [] out = "declined"   -> "declined"
                      [] out = "incomplete" -> "unclear"
                      [] OTHER              -> "open"
<1>1. ASSUME OrchTypeOK
      PROVE  /\ OfferedNames = NamesIn(attempts)
             /\ OfferedOutcome = shown(NamesIn(attempts), outcome)
  <2>1. PICK s \in Seq(Attempt) : s = attempts
    BY <1>1 DEF OrchTypeOK
  <2>2. PICK p : p = Pick(ReachedIn(s), s)
    OBVIOUS
  <2>3. Offered = p
    BY <2>1, <2>2 DEF Offered, Reached, ReachedIn
  <2>4. /\ [i \in DOMAIN p |-> Stripped[p[i].vendor]] = NamesIn(s)
        /\ p = <<>> <=> NamesIn(s) = <<>>
    BY <2>2, OfferedIsShown
  <2>5. outcome \in {"none", "success", "declined", "incomplete"}
    BY <1>1 DEF OrchTypeOK
  <2>6. OfferedNames = NamesIn(s)
    BY <2>3, <2>4 DEF OfferedNames
  <2>7. OfferedOutcome = shown(NamesIn(s), outcome)
    <3>1. CASE p = <<>>
      BY <2>3, <2>4, <3>1 DEF OfferedOutcome
    <3>2. CASE p # <<>>
      BY <2>3, <2>4, <2>5, <3>2 DEF OfferedOutcome
    <3>3. QED
      BY <3>1, <3>2
  <2>8. QED
    BY <2>1, <2>6, <2>7
<1>2. ASSUME OrchTypeOK'
      PROVE  /\ OfferedNames' = NamesIn(attempts')
             /\ OfferedOutcome' = shown(NamesIn(attempts'), outcome')
  <2>1. PICK s \in Seq(Attempt) : s = attempts'
    BY <1>2 DEF OrchTypeOK
  <2>2. PICK p : p = Pick(ReachedIn(s), s)
    OBVIOUS
  <2>3. Offered' = p
    BY <2>1, <2>2 DEF Offered, Reached, ReachedIn
  <2>4. /\ [i \in DOMAIN p |-> Stripped[p[i].vendor]] = NamesIn(s)
        /\ p = <<>> <=> NamesIn(s) = <<>>
    BY <2>2, OfferedIsShown
  <2>5. outcome' \in {"none", "success", "declined", "incomplete"}
    BY <1>2 DEF OrchTypeOK
  <2>6. OfferedNames' = NamesIn(s)
    BY <2>3, <2>4 DEF OfferedNames
  <2>7. OfferedOutcome' = shown(NamesIn(s), outcome')
    <3>1. CASE p = <<>>
      BY <2>3, <2>4, <3>1 DEF OfferedOutcome
    <3>2. CASE p # <<>>
      BY <2>3, <2>4, <2>5, <3>2 DEF OfferedOutcome
    <3>3. QED
      BY <3>1, <3>2
  <2>8. QED
    BY <2>1, <2>6, <2>7
<1>3. OrchInit => Offer!Init
  <2> SUFFICES ASSUME OrchInit
               PROVE  Offer!Init
    OBVIOUS
  <2>1. OrchTypeOK /\ attempts = <<>>
    BY PurchaseInit DEF OrchInv, OrchInit
  <2>2. PICK s \in Seq(Attempt) : s = attempts
    BY <2>1 DEF OrchTypeOK
  <2>3. PICK c \in Nat : c = Cardinality(ReachedIn(s))
    BY NamesShape
  <2>4. NamesIn(s) \in Seq(Vendors) /\ Len(NamesIn(s)) = c /\ c <= Len(s)
    BY <2>3, NamesShape
  <2>5. NamesIn(s) = <<>>
    BY <2>1, <2>2, <2>3, <2>4, EmptySeq
  <2>6. QED
    BY <1>1, <2>1, <2>2, <2>5 DEF Offer!Init
<1>4. OrchInv /\ OrchInv' /\ [OrchStep \/ BackendStep]_all_vars
        => [Offer!Next]_(Offer!offer_vars)
  <2> SUFFICES ASSUME OrchInv, OrchInv', [OrchStep \/ BackendStep]_all_vars
               PROVE  Offer!Next \/ UNCHANGED Offer!offer_vars
    OBVIOUS
  <2> DEFINE offers == [o \in {Purchase} |-> OfferedNames]
             result == [o \in {Purchase} |-> OfferedOutcome]
  <2>0. OrchTypeOK /\ OrchTypeOK'
    BY DEF OrchInv
  <2>1. PICK s \in Seq(Attempt) : s = attempts
    BY <2>0 DEF OrchTypeOK
  <2>2. PICK t \in Seq(Attempt) : t = attempts'
    BY <2>0 DEF OrchTypeOK
  <2>3. PICK m \in Seq(Vendors) : m = NamesIn(s)
    BY NamesShape
  <2>4. PICK n \in Seq(Vendors) : n = NamesIn(t)
    BY NamesShape
  <2>5. OfferedNames = m /\ OfferedOutcome = shown(m, outcome)
    BY <1>1, <2>0, <2>1, <2>3
  <2>6. OfferedNames' = n /\ OfferedOutcome' = shown(n, outcome')
    BY <1>2, <2>0, <2>2, <2>4
  <2>7. CASE ShowsNothing
    <3>1. n = m /\ outcome' = outcome
      BY <2>1, <2>2, <2>3, <2>4, <2>7 DEF ShowsNothing
    <3>2. UNCHANGED <<OfferedNames, OfferedOutcome>>
      BY <2>5, <2>6, <3>1
    <3>3. QED
      BY <3>2 DEF Offer!offer_vars
  <2>8. CASE ShowsOutcome
    <3>1. /\ n = m /\ outcome = "none"
          /\ outcome' \in {"success", "declined", "incomplete"}
      BY <2>1, <2>2, <2>3, <2>4, <2>8 DEF ShowsOutcome
    <3>2. CASE m = <<>>
      <4>1. UNCHANGED <<OfferedNames, OfferedOutcome>>
        BY <2>5, <2>6, <3>1, <3>2
      <4>2. QED
        BY <4>1 DEF Offer!offer_vars
    <3>3. CASE m # <<>>
      <4>1. /\ OfferedNames' = OfferedNames /\ OfferedOutcome = "open"
            /\ OfferedOutcome' \in Offer!Outcomes
        BY <2>5, <2>6, <3>1, <3>3 DEF Offer!Outcomes
      <4>2. PICK r \in Offer!Outcomes : r = OfferedOutcome'
        BY <4>1
      <4>3. Offer!Settle(Purchase, r)
        BY <4>1, <4>2 DEF Offer!Settle
      <4>4. QED
        BY <4>3 DEF Offer!Next
    <3>4. QED
      BY <3>2, <3>3
  <2>9. ASSUME NEW v \in Vendors, ShowsCall(v)
        PROVE  Offer!Next
    <3>1. /\ outcome = "none" /\ outcome' = "none"
          /\ Len(m) < MaxVendors
          /\ \A i \in 1..Len(m) : m[i] # v
          /\ n = Append(m, v)
      BY <2>1, <2>2, <2>3, <2>4, <2>9 DEF ShowsCall
    <3>2. n # <<>>
      BY <3>1, AppendProperties, EmptySeq
    <3>3. OfferedOutcome' = "open"
      BY <2>6, <3>1, <3>2
    <3>4. CASE m = <<>>
      <4>1. n = <<v>> /\ OfferedOutcome = "none"
        BY <2>5, <3>1, <3>4
      <4>2. Offer!Open(Purchase, v)
        BY <2>6, <3>3, <4>1 DEF Offer!Open
      <4>3. QED
        BY <4>2 DEF Offer!Next
    <3>5. CASE m # <<>>
      <4>1. OfferedOutcome = "open" /\ DOMAIN m = 1..Len(m)
        BY <2>5, <3>1, <3>5, LenProperties
      <4>2. offers[Purchase] = m /\ result[Purchase] = "open"
        BY <2>5, <4>1
      <4>3. offers' = [offers EXCEPT ![Purchase] = Append(@, v)]
        BY <2>6, <3>1, <4>2
      <4>4. result' = result
        BY <3>3, <4>1
      <4> HIDE DEF offers, result
      <4>5. \A i \in DOMAIN offers[Purchase] : offers[Purchase][i] # v
        BY <3>1, <4>1, <4>2
      <4> USE DEF offers, result
      <4>6. Offer!OfferNext(Purchase, v)
        BY <3>1, <4>2, <4>3, <4>4, <4>5 DEF Offer!OfferNext
      <4>7. QED
        BY <4>6 DEF Offer!Next
    <3>6. QED
      BY <3>4, <3>5
  <2>10. QED
    BY <2>7, <2>8, <2>9, StepsShow
<1>5. QED
  BY <1>3, <1>4, PurchaseInvariant, PTL DEF OrchSpec, ImplementsOffer, Offer!Spec
==============================================================================
