--------------------------- MODULE FallbackProofs ---------------------------
(******************************************************************************)
(* The discipline of the vendor fallback, for every value of the constants    *)
(* with which the server draws every order id itself (~ClientOrderIds), and   *)
(* what the dashboard and the voice agent are told of an order.               *)
(******************************************************************************)
EXTENDS VendorCallerOffer, VendorCallerProofs

-----------------------------------------------------------------------------
(******************************************************************************)
(* The inductive invariant.  A chain is sound when its attempts are           *)
(* bounded, its vendors distinct and its status earned; that alone is not     *)
(* inductive, because the decision that is handled next could come from       *)
(* any call.  It comes from the last call of the chain, since a call with     *)
(* metadata is in the chain that its metadata names, the earlier calls        *)
(* have verdicts, and only a call that is over has one.                       *)
(******************************************************************************)
DistinctVendors(c) ==
    \A i, j \in 1..Len(c.tried) : Lower[c.tried[i]] = Lower[c.tried[j]] => i = j

Sound(o) ==
    LET c == order_chains[o]
    IN  /\ o \in issued
        /\ c.attempt <= MaxAttempts
        /\ DistinctVendors(c)
        /\ \A i \in 1..(Len(c.sids) - 1) : verdict[c.sids[i]] = "NO"
        /\ verdict[c.sids[Len(c.sids)]] = AnswerFor(c.status)

ChainsSound ==
    \A o \in Orders : IF HasChain(o) THEN Sound(o) ELSE order_chains[o] = NoChain

InChain(o, s) ==
    /\ HasChain(o)
    /\ \E i \in 1..Len(order_chains[o].sids) : order_chains[o].sids[i] = s

CallsInChains ==
    \A s \in Sids : call_metadata_store[s] # NoMeta =>
        InChain(call_metadata_store[s].order, s)

FallbackInv == AlignInv /\ ChainsSound /\ CallsInChains

\* The call s was placed for the order o.
PlacedFor(s, o) == call_metadata_store[s].order = o

\* The shape of a chain, unfolded once for the lemmas below.
LEMMA StoredShape ==
    ASSUME StoresInv, NEW o \in Orders, HasChain(o)
    PROVE  LET c == order_chains[o]
           IN  /\ c \in Chain
               /\ c.tried \in Seq(Vendors) /\ c.sids \in Seq(Sids)
               /\ Len(c.tried) \in Nat \ {0} /\ Len(c.sids) = Len(c.tried)
               /\ c.attempt = Len(c.tried)
               /\ \A i \in 1..Len(c.sids) :
                     /\ c.sids[i] \in Sids
                     /\ line[c.sids[i]] # "unused"
                     /\ call_metadata_store[c.sids[i]].order = o
               /\ \A i, j \in 1..Len(c.sids) : c.sids[i] = c.sids[j] => i = j
<1> DEFINE c == order_chains[o]
<1>1. c \in Chain /\ c.tried \in Seq(Vendors) /\ c.sids \in Seq(Sids)
  BY DEF StoresInv, TypeOK, Chain
<1>2. AlignedChain(o)
  BY DEF StoresInv, ChainAligned
<1>3. /\ c.attempt = Len(c.tried) /\ c.attempt = Len(c.sids) /\ c.attempt > 0
      /\ \A i, j \in 1..Len(c.sids) : c.sids[i] = c.sids[j] => i = j
  BY <1>2 DEF AlignedChain
<1>7. ASSUME NEW i \in 1..Len(c.sids)
      PROVE  call_metadata_store[c.sids[i]].order = o
  <2>1. call_metadata_store[c.sids[i]] = [order |-> o, vendor |-> c.tried[i]]
    BY <1>2 DEF AlignedChain
  <2>2. QED
    BY <2>1
<1>4. \A i \in 1..Len(c.sids) : c.sids[i] \in Sids /\ line[c.sids[i]] # "unused"
  BY ChainSidsUsed
<1>5. Len(c.tried) \in Nat \ {0} /\ Len(c.sids) = Len(c.tried)
  BY <1>1, <1>3
<1>6. QED
  BY <1>1, <1>3, <1>4, <1>5, <1>7

\* The same of the server that bridges its calls itself.
LEMMA ChainShape ==
    ASSUME AlignInv, NEW o \in Orders, HasChain(o)
    PROVE  LET c == order_chains[o]
           IN  /\ c \in Chain
               /\ c.tried \in Seq(Vendors) /\ c.sids \in Seq(Sids)
               /\ Len(c.tried) \in Nat \ {0} /\ Len(c.sids) = Len(c.tried)
               /\ c.attempt = Len(c.tried)
               /\ \A i \in 1..Len(c.sids) :
                     /\ c.sids[i] \in Sids
                     /\ line[c.sids[i]] # "unused"
                     /\ call_metadata_store[c.sids[i]].order = o
               /\ \A i, j \in 1..Len(c.sids) : c.sids[i] = c.sids[j] => i = j
BY AlignGivesStores, StoredShape

\* The decision that is being handled comes from the last call of its chain,
\* and nothing has settled the chain meanwhile.
LEMMA StoppingIsLast ==
    ASSUME FallbackInv, NEW s \in Sids, handler[s] = "stopping",
           NEW o \in Orders, PlacedFor(s, o), HasChain(o)
    PROVE  /\ verdict[s] = "NONE"
           /\ s = order_chains[o].sids[Len(order_chains[o].sids)]
           /\ order_chains[o].status = "CALLING"
<1> DEFINE c == order_chains[o]
<1>1. verdict[s] = "NONE"
  BY DEF FallbackInv, AlignInv, CallsInv, TypeOK, VerdictAtEnd
<1>3. call_metadata_store[s] # NoMeta
  BY ConstantsAssumption DEF NoMeta, PlacedFor
<1>2. InChain(o, s)
  BY <1>3 DEF FallbackInv, CallsInChains, PlacedFor
<1>4. PICK i \in 1..Len(c.sids) : c.sids[i] = s
  BY <1>2 DEF InChain
<1>5. Sound(o)
  BY DEF FallbackInv, ChainsSound
<1>6. /\ \A k \in 1..(Len(c.sids) - 1) : verdict[c.sids[k]] = "NO"
      /\ verdict[c.sids[Len(c.sids)]] = AnswerFor(c.status)
  BY <1>5 DEF Sound
<1>7. Len(c.sids) \in Nat \ {0}
  BY ChainShape DEF FallbackInv
<1>8. i = Len(c.sids)
  BY <1>1, <1>4, <1>6, <1>7
<1>9. AnswerFor(c.status) = "NONE"
  BY <1>1, <1>4, <1>6, <1>8
<1>10. c.status \in Statuses \ {"NONE"}
  BY ChainShape DEF FallbackInv, HasChain, Chain
<1>11. c.status = "CALLING"
  BY <1>9, <1>10 DEF AnswerFor, Statuses, Settled
<1>12. QED
  BY <1>1, <1>4, <1>8, <1>11

-----------------------------------------------------------------------------
(******************************************************************************)
(* Preservation.                                                              *)
(******************************************************************************)
SoundOrNone(o) == IF HasChain(o) THEN Sound(o) ELSE order_chains[o] = NoChain

\* A step that does not touch a chain nor its calls' verdicts keeps it sound.
LEMMA OthersSound ==
    ASSUME FallbackInv, NEW p \in Orders, order_chains'[p] = order_chains[p],
           issued \subseteq issued',
           HasChain(p) => \A i \in 1..Len(order_chains[p].sids) :
               verdict'[order_chains[p].sids[i]] = verdict[order_chains[p].sids[i]]
    PROVE  SoundOrNone(p)'
<1>1. CASE ~HasChain(p)
  BY <1>1 DEF FallbackInv, ChainsSound, SoundOrNone, HasChain
<1>2. CASE HasChain(p)
  <2> DEFINE c == order_chains[p]
  <2>1. Sound(p)
    BY <1>2 DEF FallbackInv, ChainsSound
  <2>2. Len(c.sids) \in Nat \ {0}
    BY <1>2, ChainShape DEF FallbackInv
  <2>3. /\ \A i \in 1..(Len(c.sids) - 1) : verdict'[c.sids[i]] = "NO"
        /\ verdict'[c.sids[Len(c.sids)]] = AnswerFor(c.status)
    <3>1. /\ \A i \in 1..(Len(c.sids) - 1) : verdict[c.sids[i]] = "NO"
          /\ verdict[c.sids[Len(c.sids)]] = AnswerFor(c.status)
      BY <2>1 DEF Sound
    <3>2. /\ \A i \in 1..(Len(c.sids) - 1) : i \in 1..Len(c.sids)
          /\ Len(c.sids) \in 1..Len(c.sids)
      BY <2>2
    <3>3. QED
      BY <1>2, <3>1, <3>2
  <2>4. Sound(p)'
    BY <2>1, <2>3 DEF Sound
  <2>5. QED
    BY <1>2, <2>4 DEF SoundOrNone, HasChain
<1>3. QED
  BY <1>1, <1>2

\* A step that keeps the metadata and every chain's calls keeps CallsInChains.
LEMMA CallsStayInChains ==
    ASSUME CallsInChains, UNCHANGED call_metadata_store,
           \A o \in Orders : /\ order_chains'[o].sids = order_chains[o].sids
                             /\ HasChain(o) => HasChain(o)'
    PROVE  CallsInChains'
<1>1. ASSUME NEW p \in Orders, NEW s \in Sids, InChain(p, s)
      PROVE  InChain(p, s)'
  BY <1>1 DEF InChain
<1>2. \A p, s : InChain(p, s) => p \in Orders
  BY DEF InChain, HasChain
<1>3. QED
  BY <1>1, <1>2 DEF CallsInChains, InChain

\* A decision that settles an order, or leaves it between two vendors because
\* Twilio refused the next call, is the last vendor's answer.
LEMMA SetStatusSound ==
    ASSUME FallbackInv, NEW s \in Sids, NEW d \in Decisions,
           StopFinished(s, d), NEW o \in Orders, PlacedFor(s, o), HasChain(o),
           NEW status \in Settled \cup {"FALLBACK_IN_PROGRESS"},
           AnswerFor(status) = d, SetStatus(o, d, status)
    PROVE  ChainsSound' /\ CallsInChains'
<1> DEFINE c == order_chains[o]
           e == order_chains'[o]
<1>0. handler[s] = "stopping"
  BY DEF StopFinished
<1>1. /\ verdict[s] = "NONE" /\ o \in Orders
      /\ s = c.sids[Len(c.sids)] /\ c.status = "CALLING"
  BY <1>0, StoppingIsLast
<1>2. order_chains \in [Orders -> Chain] /\ AlignInv
  BY DEF FallbackInv, AlignInv, CallsInv, TypeOK
<1>9. /\ verdict'[s] = d
      /\ \A t \in Sids \ {s} : verdict'[t] = verdict[t]
      /\ UNCHANGED issued
  BY DEF FallbackInv, AlignInv, CallsInv, TypeOK, StopFinished
<1>3. /\ e.tried = c.tried /\ e.sids = c.sids /\ e.attempt = c.attempt
      /\ e.status = status
      /\ \A p \in Orders : p # o => order_chains'[p] = order_chains[p]
      /\ UNCHANGED call_metadata_store
  BY <1>1, <1>2 DEF SetStatus, Chain
<1>4. ASSUME NEW p \in Orders, p # o
      PROVE  SoundOrNone(p)'
  <2>1. HasChain(p) => \A i \in 1..Len(order_chains[p].sids) :
                          order_chains[p].sids[i] \in Sids \ {s}
    BY <1>2, <1>4, ChainShape DEF PlacedFor
  <2>2. QED
    BY <1>3, <1>4, <1>9, <2>1, OthersSound
<1>5. SoundOrNone(o)'
  <2>1. Sound(o)
    BY <1>1 DEF FallbackInv, ChainsSound
  <2>2. /\ Len(c.sids) \in Nat \ {0}
        /\ \A i \in 1..Len(c.sids) : c.sids[i] \in Sids
        /\ \A i, j \in 1..Len(c.sids) : c.sids[i] = c.sids[j] => i = j
    BY <1>1, <1>2, ChainShape
  <2>3. ASSUME NEW i \in 1..(Len(c.sids) - 1)
        PROVE  verdict'[c.sids[i]] = "NO"
    <3>1. verdict[c.sids[i]] = "NO"
      BY <2>1 DEF Sound
    <3>2. c.sids[i] \in Sids \ {s}
      <4>1. i \in 1..Len(c.sids) /\ Len(c.sids) \in 1..Len(c.sids)
            /\ i # Len(c.sids)
        BY <2>2
      <4>2. QED
        BY <1>1, <2>2, <4>1
    <3>3. QED
      BY <1>9, <3>1, <3>2
  <2>4. verdict'[c.sids[Len(c.sids)]] = AnswerFor(status)
    BY <1>1, <1>9
  <2>5. DistinctVendors(e) /\ o \in issued' /\ e.attempt <= MaxAttempts
    <3>1. DistinctVendors(c) /\ o \in issued /\ c.attempt <= MaxAttempts
      BY <2>1 DEF Sound
    <3>2. QED
      BY <1>3, <1>9, <3>1 DEF DistinctVendors
  <2>6. HasChain(o)'
    BY <1>1, <1>3 DEF HasChain, Settled
  <2>7. QED
    BY <1>3, <2>3, <2>4, <2>5, <2>6 DEF SoundOrNone, Sound
<1>6. CallsInChains'
  <2>1. \A p \in Orders : /\ order_chains'[p].sids = order_chains[p].sids
                          /\ HasChain(p) => HasChain(p)'
    BY <1>3 DEF HasChain, Settled
  <2>2. QED
    BY <1>3, <2>1, CallsStayInChains DEF FallbackInv
<1>7. ChainsSound'
  BY <1>4, <1>5 DEF ChainsSound, SoundOrNone
<1>8. QED
  BY <1>6, <1>7

\* A call that is placed joins the chain that its metadata names.
LEMMA PlaceCallInChains ==
    ASSUME StoresInv, CallsInChains, NEW o \in Orders, NEW v \in Vendors, NEW n \in Sids,
           NEW cat \in Categories \cup {NoCategory}, PlaceCall(o, v, cat, n)
    PROVE  CallsInChains'
<1> DEFINE e == order_chains'[o]
<1>0. /\ order_chains \in [Orders -> Chain]
      /\ call_metadata_store \in [Sids -> Meta]
  BY DEF StoresInv, TypeOK
<1>1. /\ call_metadata_store'[n] = [order |-> o, vendor |-> v]
      /\ \A s \in Sids : s # n =>
            call_metadata_store'[s] = call_metadata_store[s]
      /\ \A q \in Orders : q # o => order_chains'[q] = order_chains[q]
      /\ e = IF HasChain(o) THEN NextAttempt(order_chains[o], v, n)
             ELSE NewChain(v, n, cat)
  BY <1>0 DEF PlaceCall
<1>2. HasChain(o)'
  BY <1>1 DEF HasChain, NextAttempt, NewChain
<1>3. \E i \in 1..Len(e.sids) : e.sids[i] = n
  <2>1. CASE HasChain(o)
    <3> DEFINE c == order_chains[o]
    <3>1. c.sids \in Seq(Sids)
      BY <2>1, StoredShape
    <3>2. e.sids = Append(c.sids, n)
      BY <1>1, <2>1, NextAttemptFields
    <3>3. Len(c.sids) + 1 \in 1..Len(e.sids) /\ e.sids[Len(c.sids) + 1] = n
      BY <3>1, <3>2, AppendShape
    <3>4. QED
      BY <3>3
  <2>2. CASE ~HasChain(o)
    <3>1. e.sids = <<n>>
      BY <1>1, <2>2 DEF NewChain
    <3>2. 1 \in 1..Len(e.sids) /\ e.sids[1] = n
      BY <3>1
    <3>3. QED
      BY <3>2
  <2>3. QED
    BY <2>1, <2>2
<1>4. InChain(o, n)'
  BY <1>2, <1>3 DEF InChain
<1>5. ASSUME NEW p \in Orders, NEW s \in Sids, InChain(p, s)
      PROVE  InChain(p, s)'
  <2>1. PICK i \in 1..Len(order_chains[p].sids) : order_chains[p].sids[i] = s
    BY <1>5 DEF InChain
  <2>2. CASE p = o
    <3> DEFINE c == order_chains[o]
    <3>1. HasChain(o) /\ c.sids \in Seq(Sids)
      BY <1>5, <2>2, StoredShape DEF InChain
    <3>2. e.sids = Append(c.sids, n)
      BY <1>1, <3>1, NextAttemptFields
    <3>3. i \in 1..Len(e.sids) /\ e.sids[i] = s
      BY <2>1, <2>2, <3>1, <3>2, AppendShape
    <3>4. QED
      BY <1>2, <2>2, <3>3 DEF InChain
  <2>3. CASE p # o
    BY <1>1, <1>5, <2>3 DEF InChain, HasChain
  <2>4. QED
    BY <2>2, <2>3
<1>6. ASSUME NEW s \in Sids, call_metadata_store'[s] # NoMeta
      PROVE  InChain(call_metadata_store[s].order, s)' 
  <2>1. CASE s = n
    BY <1>1, <1>4, <2>1 DEF InChain
  <2>2. CASE s # n
    <3>1. call_metadata_store'[s] = call_metadata_store[s]
      BY <1>1, <2>2
    <3>2. InChain(call_metadata_store[s].order, s)
      BY <1>6, <3>1 DEF CallsInChains
    <3>3. call_metadata_store[s].order \in Orders
      BY <3>2 DEF InChain, HasChain
    <3>4. PICK p \in Orders : p = call_metadata_store[s].order
      BY <3>3
    <3>5. InChain(p, s)
      BY <3>2, <3>4 DEF InChain
    <3>6. InChain(p, s)'
      BY <1>5, <3>5
    <3>7. QED
      BY <3>1, <3>4, <3>6 DEF InChain
  <2>3. QED
    BY <2>1, <2>2
<1>7. QED
  BY <1>6 DEF CallsInChains

\* The call to an alternative vendor, after a NO, stays within the bounds, asks
\* a new vendor, and leaves the vendor who declined behind it.
LEMMA PlaceNextSound ==
    ASSUME FallbackInv, NEW s \in Sids, StopFinished(s, "NO"),
           NEW o \in Orders, PlacedFor(s, o), HasChain(o),
           ~Exhausted(o), NEW v \in Alternatives(o), NEW n \in Sids,
           PlaceCall(o, v, NoCategory, n)
    PROVE  ChainsSound'
<1> DEFINE c == order_chains[o]
           e == order_chains'[o]
<1>0. handler[s] = "stopping"
  BY DEF StopFinished
<1>1. /\ verdict[s] = "NONE" /\ o \in Orders
      /\ s = c.sids[Len(c.sids)] /\ c.status = "CALLING"
  BY <1>0, StoppingIsLast
<1>2. order_chains \in [Orders -> Chain] /\ AlignInv
  BY DEF FallbackInv, AlignInv, CallsInv, TypeOK
<1>9. /\ verdict'[s] = "NO"
      /\ \A t \in Sids \ {s} : verdict'[t] = verdict[t]
      /\ UNCHANGED issued
  BY DEF FallbackInv, AlignInv, CallsInv, TypeOK, StopFinished
<1>3. /\ e = NextAttempt(c, v, n)
      /\ \A p \in Orders : p # o => order_chains'[p] = order_chains[p]
      /\ line[n] = "unused"
  BY <1>1, <1>2 DEF PlaceCall
<1>4. ASSUME NEW p \in Orders, p # o
      PROVE  SoundOrNone(p)'
  <2>1. HasChain(p) => \A i \in 1..Len(order_chains[p].sids) :
                          order_chains[p].sids[i] \in Sids \ {s}
    BY <1>2, <1>4, ChainShape DEF PlacedFor
  <2>2. QED
    BY <1>3, <1>4, <1>9, <2>1, OthersSound
<1>5. SoundOrNone(o)'
  <2>1. Sound(o)
    BY <1>1 DEF FallbackInv, ChainsSound
  <2>2. /\ Len(c.sids) \in Nat \ {0} /\ Len(c.sids) = Len(c.tried)
        /\ c.attempt = Len(c.tried)
        /\ c.tried \in Seq(Vendors) /\ c.sids \in Seq(Sids)
        /\ \A i \in 1..Len(c.sids) : c.sids[i] \in Sids
        /\ \A i, j \in 1..Len(c.sids) : c.sids[i] = c.sids[j] => i = j
    BY <1>1, <1>2, ChainShape
  <2>3. /\ e.tried = Append(c.tried, v) /\ e.sids = Append(c.sids, n)
        /\ e.attempt = Len(c.tried) + 1 /\ e.status = "CALLING"
    <3>1. e = NextAttempt(c, v, n)
      BY <1>3
    <3> HIDE DEF c, e
    <3>2. e.tried = Append(c.tried, v) /\ e.sids = Append(c.sids, n)
          /\ e.status = "CALLING"
      BY <3>1, NextAttemptFields
    <3>3. e.attempt = Len(c.tried) + 1
      BY <3>1, <2>2 DEF NextAttempt
    <3>4. QED
      BY <3>2, <3>3
  <2>4. v \in Vendors /\ v \in Untried(o)
    BY AlternativesUntried
  <2>5. e.attempt <= MaxAttempts
    BY <2>2, <2>3, ConstantsAssumption DEF Exhausted
  <2>6. DistinctVendors(e)
    <3>1. \A i \in 1..Len(c.tried) : Lower[c.tried[i]] # Lower[v]
      BY <2>2, <2>4 DEF Untried, TriedBy
    <3>2. /\ Len(e.tried) = Len(c.tried) + 1
          /\ e.tried[Len(c.tried) + 1] = v
          /\ \A i \in 1..Len(c.tried) : e.tried[i] = c.tried[i]
          /\ \A i \in 1..Len(e.tried) : i \in 1..Len(c.tried)
                                         \/ i = Len(c.tried) + 1
      <4> HIDE DEF c, e
      <4>1. c.tried \in Seq(Vendors) /\ v \in Vendors
            /\ e.tried = Append(c.tried, v)
        BY <2>2, <2>3, <2>4
      <4>2. QED
        BY <4>1, AppendShape
    <3>3. DistinctVendors(c)
      BY <2>1 DEF Sound
    <3>4. QED
      <4> SUFFICES ASSUME NEW i \in 1..Len(e.tried), NEW j \in 1..Len(e.tried),
                          Lower[e.tried[i]] = Lower[e.tried[j]]
                   PROVE  i = j
        BY DEF DistinctVendors
      <4>1. CASE i \in 1..Len(c.tried) /\ j \in 1..Len(c.tried)
        BY <3>2, <3>3, <4>1 DEF DistinctVendors
      <4>2. CASE i = Len(c.tried) + 1 /\ j \in 1..Len(c.tried)
        BY <3>1, <3>2, <4>2
      <4>3. CASE j = Len(c.tried) + 1 /\ i \in 1..Len(c.tried)
        BY <3>1, <3>2, <4>3
      <4>4. QED
        BY <3>2, <4>1, <4>2, <4>3
  <2>7. /\ Len(e.sids) = Len(c.sids) + 1 /\ e.sids[Len(e.sids)] = n
        /\ \A i \in 1..Len(c.sids) : e.sids[i] = c.sids[i]
    <3> HIDE DEF c, e
    <3>1. c.sids \in Seq(Sids) /\ e.sids = Append(c.sids, n)
      BY <2>2, <2>3
    <3>2. QED
      BY <3>1, AppendShape
  <2>8. ASSUME NEW i \in 1..(Len(e.sids) - 1)
        PROVE  verdict'[e.sids[i]] = "NO"
    <3>1. i \in 1..Len(c.sids)
      BY <2>2, <2>7
    <3>2. CASE i = Len(c.sids)
      <4>1. e.sids[i] = s
        BY <1>1, <2>7, <3>1, <3>2
      <4>2. QED
        BY <1>9, <4>1
    <3>3. CASE i # Len(c.sids)
      <4>1. i \in 1..(Len(c.sids) - 1)
        BY <2>2, <3>1, <3>3
      <4>2. verdict[c.sids[i]] = "NO"
        BY <2>1, <4>1 DEF Sound
      <4>3. c.sids[i] \in Sids \ {s} /\ e.sids[i] = c.sids[i]
        BY <1>1, <2>2, <2>7, <3>1, <4>2
      <4>4. QED
        BY <1>9, <4>2, <4>3
    <3>4. QED
      BY <3>2, <3>3
  <2>9. verdict'[e.sids[Len(e.sids)]] = AnswerFor("CALLING")
    <3>1. verdict[n] = "NONE" /\ handler[n] = "idle"
      BY <1>3 DEF FallbackInv, AlignInv, CallsInv, UnusedIsFresh
    <3>2. n # s
      BY <1>0, <3>1
    <3>3. QED
      BY <1>9, <2>7, <3>1, <3>2 DEF AnswerFor
  <2>10. HasChain(o)'
    BY <1>1, <2>3 DEF HasChain
  <2>11. o \in issued'
    BY <1>9, <2>1 DEF Sound
  <2>12. QED
    BY <2>3, <2>5, <2>6, <2>8, <2>9, <2>10, <2>11 DEF SoundOrNone, Sound
<1>6. QED
  BY <1>4, <1>5 DEF ChainsSound, SoundOrNone

\* The first call of an order starts a sound chain.
LEMMA FirstCallSound ==
    ASSUME FallbackInv, NEW o \in Orders, o \notin issued, NEW v \in Vendors,
           NEW n \in Sids, NEW cat \in Categories \cup {NoCategory},
           PlaceCall(o, v, cat, n), issued' = issued \cup {o},
           UNCHANGED verdict
    PROVE  ChainsSound' /\ ~HasChain(o)
<1> DEFINE e == order_chains'[o]
<1>1. ~HasChain(o)
  BY DEF FallbackInv, ChainsSound, Sound
<1>2. order_chains \in [Orders -> Chain]
  BY DEF FallbackInv, AlignInv, CallsInv, TypeOK
<1>3. e = NewChain(v, n, cat) /\ line[n] = "unused"
  BY <1>1, <1>2 DEF PlaceCall
<1>4. ASSUME NEW p \in Orders, p # o
      PROVE  SoundOrNone(p)'
  <2>1. order_chains'[p] = order_chains[p]
    BY <1>2, <1>4 DEF PlaceCall
  <2>2. QED
    BY <2>1, OthersSound
<1>5. SoundOrNone(o)'
  <2>1. /\ e.status = "CALLING" /\ e.attempt = 1
        /\ e.tried = <<v>> /\ e.sids = <<n>>
    BY <1>3 DEF NewChain
  <2> HIDE DEF e
  <2>2. e.attempt <= MaxAttempts
    BY <2>1, ConstantsAssumption
  <2>3. DistinctVendors(e)
    BY <2>1 DEF DistinctVendors
  <2>4. verdict'[n] = AnswerFor("CALLING")
    BY <1>3 DEF FallbackInv, AlignInv, CallsInv, UnusedIsFresh, AnswerFor
  <2>5. /\ Len(e.sids) = 1 /\ e.sids[Len(e.sids)] = n
        /\ 1..(Len(e.sids) - 1) = {}
    BY <2>1
  <2> USE DEF e
  <2>6. Sound(o)'
    BY <2>1, <2>2, <2>3, <2>4, <2>5 DEF Sound
  <2>7. QED
    BY <2>1, <2>6 DEF SoundOrNone, HasChain
<1>6. QED
  BY <1>1, <1>4, <1>5 DEF ChainsSound, SoundOrNone

\* Every step keeps the chains sound and the calls in their chains.
LEMMA FallbackStep ==
    ASSUME ~ClientOrderIds, FallbackInv, [Next]_vars
    PROVE  ChainsSound' /\ CallsInChains'
<1>0. \A o \in Orders : SoundOrNone(o)' => (IF HasChain(o) THEN Sound(o)
                                     ELSE order_chains[o] = NoChain)'
  BY DEF SoundOrNone
<1>1. ASSUME NEW o \in Orders, NEW v \in Vendors, NEW n \in Sids,
             NEW cat \in Categories \cup {NoCategory},
             InitiateCall(o, v, cat, n)
      PROVE  ChainsSound' /\ CallsInChains'
  BY <1>1, AlignGivesStores, FirstCallSound, PlaceCallInChains
  DEF InitiateCall, FallbackInv
<1>2. ASSUME NEW s \in Sids, NEW d \in Decisions, StopFinished(s, d)
      PROVE  ChainsSound' /\ CallsInChains'
  <2> DEFINE o == call_metadata_store[s].order
  <2>1. /\ handler[s] = "stopping" /\ HandleVendorDecision(s, d)
        /\ verdict' = [verdict EXCEPT ![s] = d] /\ UNCHANGED issued
    BY <1>2 DEF StopFinished
  <2>2. CASE ~HasChain(o)
    <3>1. UNCHANGED <<order_chains, call_metadata_store>>
      BY <2>1, <2>2 DEF HandleVendorDecision
    <3>2. ASSUME NEW p \in Orders
          PROVE  SoundOrNone(p)'
      <4>1. HasChain(p) => \A i \in 1..Len(order_chains[p].sids) :
                              order_chains[p].sids[i] # s
        BY <2>2, ChainShape DEF FallbackInv
      <4>2. HasChain(p) => \A i \in 1..Len(order_chains[p].sids) :
                              order_chains[p].sids[i] \in Sids
        BY ChainShape DEF FallbackInv
      <4>3. verdict \in [Sids -> Decisions \cup {"NONE"}]
        BY DEF FallbackInv, AlignInv, CallsInv, TypeOK
      <4>4. QED
        BY <2>1, <3>1, <4>1, <4>2, <4>3, OthersSound
    <3>3. CallsInChains'
      BY <3>1, CallsStayInChains DEF FallbackInv, HasChain
    <3>4. QED
      BY <3>2, <3>3 DEF ChainsSound, SoundOrNone
  <2>3. CASE HasChain(o)
    <3>1. o \in Orders /\ PlacedFor(s, o)
      BY <2>3 DEF HasChain, PlacedFor
    <3>2. ASSUME NEW status \in Settled \cup {"FALLBACK_IN_PROGRESS"},
                 AnswerFor(status) = d, SetStatus(o, d, status)
          PROVE  ChainsSound' /\ CallsInChains'
      BY <1>2, <2>3, <3>1, <3>2, SetStatusSound
    <3>3. ASSUME d = "NO", ~Exhausted(o), NEW v \in Alternatives(o),
                 NEW n \in Sids, PlaceCall(o, v, NoCategory, n)
          PROVE  ChainsSound' /\ CallsInChains'
      <4>1. v \in Vendors
        BY <3>3, AlternativesUntried
      <4>2. CallsInChains'
        BY <3>1, <3>3, <4>1, AlignGivesStores, PlaceCallInChains
        DEF FallbackInv
      <4>3. ChainsSound'
        BY <1>2, <2>3, <3>1, <3>3, PlaceNextSound
      <4>4. QED
        BY <4>2, <4>3
    <3>4. QED
      BY <2>1, <2>3, <3>2, <3>3, HandleCases
  <2>4. QED
    BY <2>2, <2>3
<1>3. ASSUME UNCHANGED <<order_chains, call_metadata_store, verdict, issued>>
      PROVE  ChainsSound' /\ CallsInChains'
  <2>1. CallsInChains'
    BY <1>3, CallsStayInChains DEF FallbackInv, HasChain
  <2>2. QED
    BY <1>0, <1>3, <2>1, OthersSound DEF ChainsSound
<1>4. ASSUME NEW s \in Sids, CallStep(s)
      PROVE  ChainsSound' /\ CallsInChains'
  <2>1. CASE ~\E d \in Decisions : StopFinished(s, d)
    BY <1>3, <1>4, <2>1
    DEF CallStep, NoAnswer, StartStream, SessionReady, SessionFails,
        StreamDrops, StopReceived, stores
  <2>2. QED
    BY <1>2, <2>1
<1>5. CASE Restart
  BY <1>5 DEF Restart, ChainsSound, CallsInChains, HasChain, NoChain
<1>6. CASE UNCHANGED vars
  BY <1>3, <1>6 DEF vars
<1>7. QED
  BY <1>1, <1>4, <1>5, <1>6 DEF Next

-----------------------------------------------------------------------------
(******************************************************************************)
(* The theorems.                                                              *)
(******************************************************************************)

LEMMA InitFallback == Init => FallbackInv
<1> SUFFICES ASSUME Init
             PROVE  FallbackInv
  OBVIOUS
<1>1. TypeOK
  BY ConstantsAssumption
  DEF Init, TypeOK, NoMeta, Meta, NoTranscript, Transcript, NoChain, Chain,
      Statuses, Settled
<1>2. \A o \in Orders : order_chains[o] = NoChain /\ ~HasChain(o)
  BY DEF Init, HasChain, NoChain
<1>3. CallsInv /\ ChainAligned
  BY <1>1, <1>2
  DEF Init, CallsInv, UnusedIsFresh, VerdictAtEnd, RingingIsIdle, ChainAligned
<1>4. ChainsSound /\ CallsInChains
  BY <1>2 DEF Init, ChainsSound, CallsInChains
<1>5. QED
  BY <1>3, <1>4 DEF FallbackInv, AlignInv

\* The inductive invariant holds in every reachable state.
THEOREM FallbackInvariant ==
    ASSUME ~ClientOrderIds
    PROVE  Spec => []FallbackInv
<1>1. FallbackInv /\ TypeOK' /\ [Next]_vars => FallbackInv'
  BY CallsStep, AlignStep, FallbackStep DEF FallbackInv, AlignInv
<1>2. QED
  BY <1>1, InitFallback, TypeCorrect, PTL DEF Spec

\* No order is offered more than max_attempts times, whichever calls end when.
THEOREM OffersBounded ==
    ASSUME ~ClientOrderIds
    PROVE  Spec => []AttemptsBounded
<1>1. FallbackInv => AttemptsBounded
  <2> SUFFICES ASSUME FallbackInv, NEW o \in Orders
               PROVE  order_chains[o].attempt <= MaxAttempts
    BY DEF AttemptsBounded
  <2>1. CASE HasChain(o)
    BY <2>1 DEF FallbackInv, ChainsSound, Sound
  <2>2. CASE ~HasChain(o)
    <3>1. order_chains[o].attempt = 0
      BY <2>2 DEF FallbackInv, ChainsSound, NoChain
    <3>2. QED
      BY <3>1, ConstantsAssumption
  <2>3. QED
    BY <2>1, <2>2
<1>2. QED
  BY <1>1, FallbackInvariant, PTL

\* No vendor is asked twice for the same order, however its name is spelled.
THEOREM NoVendorAskedTwice ==
    ASSUME ~ClientOrderIds
    PROVE  Spec => []NoVendorTwice
<1>1. FallbackInv => NoVendorTwice
  <2> SUFFICES ASSUME FallbackInv, NEW o \in Orders,
                      NEW i \in DOMAIN order_chains[o].tried,
                      NEW j \in DOMAIN order_chains[o].tried,
                      Lower[order_chains[o].tried[i]] =
                          Lower[order_chains[o].tried[j]]
               PROVE  i = j
    BY DEF NoVendorTwice
  <2>1. DOMAIN order_chains[o].tried = 1..Len(order_chains[o].tried)
    BY DEF FallbackInv, AlignInv, CallsInv, TypeOK, Chain
  <2>2. CASE HasChain(o)
    <3>1. Sound(o)
      BY <2>2 DEF FallbackInv, ChainsSound
    <3>2. DistinctVendors(order_chains[o])
      BY <3>1 DEF Sound
    <3>3. QED
      BY <2>1, <3>2 DEF DistinctVendors
  <2>3. CASE ~HasChain(o)
    <3>1. order_chains[o].tried = <<>>
      BY <2>3 DEF FallbackInv, ChainsSound, NoChain
    <3>2. QED
      BY <3>1
  <2>4. QED
    BY <2>2, <2>3
<1>2. QED
  BY <1>1, FallbackInvariant, PTL

\* What a chain's status says about the vendors' answers is what they answered.
THEOREM StatusEarned ==
    ASSUME ~ClientOrderIds
    PROVE  Spec => []StatusIsEarned
<1>1. FallbackInv => StatusIsEarned
  BY DEF FallbackInv, ChainsSound, Sound, StatusIsEarned, LastSid
<1>2. QED
  BY <1>1, FallbackInvariant, PTL

\* Of an order's calls only the last can still be under way.
THEOREM OneOfferOpen ==
    ASSUME ~ClientOrderIds
    PROVE  Spec => []OneOfferAtATime
<1>1. FallbackInv => OneOfferAtATime
  <2> SUFFICES ASSUME FallbackInv, NEW o \in Orders, HasChain(o),
                      NEW s \in SidsOf(o), verdict[s] = "NONE"
               PROVE  s = LastSid(o)
    BY DEF OneOfferAtATime, Unfinished
  <2> DEFINE c == order_chains[o]
  <2>1. c.sids \in Seq(Sids) /\ Len(c.sids) \in Nat \ {0}
    BY ChainShape DEF FallbackInv
  <2>2. PICK i \in 1..Len(c.sids) : s = c.sids[i]
    BY <2>1 DEF SidsOf
  <2>3. \A k \in 1..(Len(c.sids) - 1) : verdict[c.sids[k]] = "NO"
    BY DEF FallbackInv, ChainsSound, Sound
  <2>4. i = Len(c.sids)
    BY <2>1, <2>2, <2>3
  <2>5. QED
    BY <2>2, <2>4 DEF LastSid
<1>2. QED
  BY <1>1, FallbackInvariant, PTL

\* What a step can do to the chains: nothing, forget all of them, open one, move
\* one on to another vendor, or write a status to one.
ChainStep ==
    \/ UNCHANGED order_chains
    \/ /\ order_chains' = [o \in Orders |-> NoChain]
       /\ restarts' # restarts
    \/ \E o \in Orders, v \in Vendors, n \in Sids,
          cat \in Categories \cup {NoCategory} :
          /\ order_chains[o] = NoChain
          /\ order_chains' = [order_chains EXCEPT ![o] = NewChain(v, n, cat)]
    \/ \E o \in Orders, v \in Vendors, n \in Sids :
          /\ HasChain(o) /\ order_chains[o].status = "CALLING"
          /\ ~Exhausted(o) /\ v \in Alternatives(o)
          /\ order_chains' = [order_chains EXCEPT
                                 ![o] = NextAttempt(order_chains[o], v, n)]
    \/ \E o \in Orders, d \in Decisions,
          status \in Settled \cup {"FALLBACK_IN_PROGRESS"} :
          /\ HasChain(o) /\ order_chains[o].status = "CALLING"
          /\ order_chains' = [order_chains EXCEPT ![o].decision = d,
                                                 ![o].status = status]

LEMMA ChainSteps ==
    ASSUME ~ClientOrderIds, FallbackInv, [Next]_vars
    PROVE  ChainStep
<1>1. ASSUME NEW o \in Orders, NEW v \in Vendors, NEW n \in Sids,
             NEW cat \in Categories \cup {NoCategory},
             InitiateCall(o, v, cat, n)
      PROVE  ChainStep
  <2>1. ~HasChain(o)
    BY <1>1, FirstCallSound DEF InitiateCall
  <2>2. order_chains' = [order_chains EXCEPT ![o] = NewChain(v, n, cat)]
    BY <1>1, <2>1 DEF InitiateCall, PlaceCall
  <2>3. order_chains[o] = NoChain
    BY <2>1 DEF FallbackInv, ChainsSound
  <2>4. QED
    BY <2>2, <2>3 DEF ChainStep
<1>2. ASSUME NEW s \in Sids, NEW d \in Decisions, StopFinished(s, d)
      PROVE  ChainStep
  <2>1. PICK o : o = call_metadata_store[s].order
    OBVIOUS
  <2>2. handler[s] = "stopping" /\ HandleVendorDecision(s, d)
    BY <1>2 DEF StopFinished
  <2>3. CASE ~HasChain(o)
    BY <2>1, <2>2, <2>3 DEF HandleVendorDecision, ChainStep
  <2>4. CASE HasChain(o)
    <3>1. o \in Orders /\ order_chains[o].status = "CALLING"
      BY <2>1, <2>2, <2>4, StoppingIsLast DEF HasChain, PlacedFor
    <3>2. ASSUME NEW status \in Settled \cup {"FALLBACK_IN_PROGRESS"},
                 SetStatus(o, d, status)
          PROVE  ChainStep
      BY <2>4, <3>1, <3>2 DEF SetStatus, ChainStep
    <3>3. ASSUME ~Exhausted(o), NEW v \in Alternatives(o), NEW n \in Sids,
                 PlaceCall(o, v, NoCategory, n)
          PROVE  ChainStep
      <4>1. order_chains' =
              [order_chains EXCEPT ![o] = NextAttempt(order_chains[o], v, n)]
        BY <2>4, <3>3 DEF PlaceCall
      <4>2. v \in Vendors
        BY <3>3, AlternativesUntried
      <4>3. QED
        BY <2>4, <3>1, <3>3, <4>1, <4>2 DEF ChainStep
    <3>4. QED
      BY <2>1, <2>2, <2>4, <3>2, <3>3, HandleCases
  <2>5. QED
    BY <2>3, <2>4
<1>3. ASSUME NEW s \in Sids, CallStep(s)
      PROVE  ChainStep
  <2>1. CASE ~\E d \in Decisions : StopFinished(s, d)
    BY <1>3, <2>1
    DEF CallStep, NoAnswer, StartStream, SessionReady, SessionFails,
        StreamDrops, StopReceived, stores, ChainStep
  <2>2. QED
    BY <1>2, <2>1
<1>4. CASE Restart
  <2>1. restarts' # restarts
    BY <1>4 DEF Restart, FallbackInv, AlignInv, CallsInv, TypeOK
  <2>2. QED
    BY <1>4, <2>1 DEF Restart, ChainStep
<1>5. CASE UNCHANGED vars
  BY <1>5 DEF vars, ChainStep
<1>6. QED
  BY <1>1, <1>3, <1>4, <1>5 DEF Next

\* No step changes an order that is settled, except a restart.
THEOREM SettledStaysSettled ==
    ASSUME ~ClientOrderIds
    PROVE  Spec => SettledIsFinal
<1>1. ASSUME FallbackInv, [Next]_vars, NEW o \in Orders,
             order_chains[o].status \in Settled
      PROVE  order_chains'[o] = order_chains[o] \/ restarts' # restarts
  <2>1. order_chains \in [Orders -> Chain]
    BY <1>1 DEF FallbackInv, AlignInv, CallsInv, TypeOK
  <2>2. order_chains[o].status \notin {"NONE", "CALLING"}
    BY <1>1 DEF Settled
  <2>3. order_chains[o] # NoChain
    BY <2>2 DEF NoChain
  <2>4. QED
    BY <1>1, <2>1, <2>2, <2>3, ChainSteps DEF ChainStep
<1>2. FallbackInv /\ [Next]_vars =>
        [\A o \in Orders :
            order_chains[o].status \in Settled =>
                order_chains'[o] = order_chains[o] \/ restarts' # restarts]_vars
  BY <1>1
<1>3. QED
  BY <1>2, FallbackInvariant, PTL DEF Spec, SettledIsFinal

\* The decision of a call changes no chain but that of the call's order.
LEMMA ReportTouchesOwn ==
    ASSUME FallbackInv, NEW s \in Sids, NEW d \in Decisions, StopFinished(s, d),
           NEW p \in Orders, ~PlacedFor(s, p)
    PROVE  order_chains'[p] = order_chains[p]
<1>0. order_chains \in [Orders -> Chain]
  BY DEF FallbackInv, AlignInv, CallsInv, TypeOK
<1>1. HandleVendorDecision(s, d)
  BY DEF StopFinished
<1>2. CASE ~HasChain(call_metadata_store[s].order)
  BY <1>1, <1>2 DEF HandleVendorDecision
<1>3. CASE HasChain(call_metadata_store[s].order)
  <2>1. PICK o \in Orders : o = call_metadata_store[s].order
    BY <1>3 DEF HasChain
  <2>2. p # o
    BY <2>1 DEF PlacedFor
  <2>3. ASSUME NEW status, SetStatus(o, d, status)
        PROVE  order_chains'[p] = order_chains[p]
    BY <1>0, <2>2, <2>3 DEF SetStatus
  <2>4. ASSUME NEW v, NEW n, PlaceCall(o, v, NoCategory, n)
        PROVE  order_chains'[p] = order_chains[p]
    BY <1>0, <2>2, <2>4 DEF PlaceCall
  <2>5. QED
    BY <1>1, <1>3, <2>1, <2>3, <2>4, HandleCases
<1>4. QED
  BY <1>2, <1>3

\* An order becomes FAILED only in handle_vendor_decision, after one of the
\* checks that precede the next call.
GaveUp(o) ==
    Exhausted(o) \/ Untried(o) = {} \/ "catalogue_error" \in Faults

LEMMA FailedCause ==
    ASSUME ~ClientOrderIds, FallbackInv, [Next]_vars, NEW o \in Orders,
           order_chains'[o].status = "FAILED"
    PROVE  \/ order_chains'[o] = order_chains[o]
           \/ /\ HasChain(o) /\ GaveUp(o)
              /\ order_chains'[o].tried = order_chains[o].tried
              /\ order_chains'[o].attempt = order_chains[o].attempt
<1>0. order_chains \in [Orders -> Chain]
  BY DEF FallbackInv, AlignInv, CallsInv, TypeOK
<1>1. ASSUME NEW p \in Orders, NEW v \in Vendors, NEW n \in Sids,
             NEW cat \in Categories \cup {NoCategory},
             PlaceCall(p, v, cat, n)
      PROVE  order_chains'[o] = order_chains[o]
  <2>1. order_chains'[p].status = "CALLING"
    BY <1>0, <1>1 DEF PlaceCall, NextAttempt, NewChain
  <2>2. o # p
    BY <2>1
  <2>3. QED
    BY <1>0, <1>1, <2>2 DEF PlaceCall
<1>2. ASSUME NEW s \in Sids, NEW d \in Decisions, StopFinished(s, d)
      PROVE  \/ order_chains'[o] = order_chains[o]
             \/ /\ HasChain(o) /\ GaveUp(o)
                /\ order_chains'[o].tried = order_chains[o].tried
                /\ order_chains'[o].attempt = order_chains[o].attempt
  <2>1. HandleVendorDecision(s, d)
    BY <1>2 DEF StopFinished
  <2>2. CASE ~PlacedFor(s, o)
    BY <1>2, <2>2, ReportTouchesOwn
  <2>3. CASE PlacedFor(s, o) /\ ~HasChain(o)
    BY <2>1, <2>3 DEF HandleVendorDecision, PlacedFor
  <2>4. CASE PlacedFor(s, o) /\ HasChain(o)
    <3>1. ASSUME NEW status, SetStatus(o, d, status)
          PROVE  /\ order_chains'[o].status = status
                 /\ order_chains'[o].tried = order_chains[o].tried
                 /\ order_chains'[o].attempt = order_chains[o].attempt
      BY <1>0, <3>1 DEF SetStatus, Chain
    <3>2. CASE d = "NO"
      <4>1. DeclineOrder(o)
        BY <2>1, <2>4, <3>2 DEF HandleVendorDecision, PlacedFor
      <4>2. \/ GaveUp(o) /\ SetStatus(o, d, "FAILED")
            \/ \E v \in Alternatives(o), n \in Sids :
                   PlaceCall(o, v, NoCategory, n)
            \/ SetStatus(o, d, "FALLBACK_IN_PROGRESS")
        BY <3>2, <4>1 DEF DeclineOrder, GaveUp
      <4>3. QED
        BY <1>1, <2>4, <3>1, <4>2, AlternativesUntried
    <3>3. CASE d # "NO"
      <4>1. SetStatus(o, d, "FULFILLED") \/ SetStatus(o, d, "UNKNOWN")
        BY <2>1, <2>4, <3>3 DEF HandleVendorDecision, PlacedFor
      <4>2. QED
        BY <3>1, <4>1
    <3>4. QED
      BY <3>2, <3>3
  <2>5. QED
    BY <2>2, <2>3, <2>4
<1>3. ASSUME NEW p \in Orders, NEW v \in Vendors, NEW n \in Sids,
             NEW cat \in Categories \cup {NoCategory},
             InitiateCall(p, v, cat, n)
      PROVE  order_chains'[o] = order_chains[o]
  BY <1>1, <1>3 DEF InitiateCall
<1>4. ASSUME NEW s \in Sids, CallStep(s),
             ~\E d \in Decisions : StopFinished(s, d)
      PROVE  UNCHANGED order_chains
  BY <1>4
  DEF CallStep, NoAnswer, StartStream, SessionReady, SessionFails,
      StreamDrops, StopReceived, stores
<1>5. CASE Restart
  BY <1>5 DEF Restart, NoChain
<1>6. CASE UNCHANGED vars
  BY <1>6 DEF vars
<1>7. QED
  BY <1>2, <1>3, <1>4, <1>5, <1>6 DEF Next

\* An order is given up only when its attempts are used up or no vendor is left
\* to ask, unless the vendor lookup itself failed.
THEOREM FailedIsExhausted ==
    ASSUME ~ClientOrderIds
    PROVE  Spec => []FailedMeansExhausted
<1>1. Init => FailedMeansExhausted
  BY DEF Init, FailedMeansExhausted, NoChain
<1>2. ASSUME FallbackInv, FailedMeansExhausted, [Next]_vars
      PROVE  FailedMeansExhausted'
  <2> SUFFICES ASSUME NEW o \in Orders, order_chains'[o].status = "FAILED"
               PROVE  \/ order_chains'[o].attempt = MaxAttempts
                      \/ Untried(o)' = {}
                      \/ "catalogue_error" \in Faults
    BY DEF FailedMeansExhausted
  <2>1. CASE order_chains'[o] = order_chains[o]
    BY <1>2, <2>1 DEF FailedMeansExhausted, Untried, TriedBy
  <2>2. CASE /\ HasChain(o) /\ GaveUp(o)
             /\ order_chains'[o].tried = order_chains[o].tried
             /\ order_chains'[o].attempt = order_chains[o].attempt
    <3>1. order_chains[o].attempt <= MaxAttempts
      BY <1>2, <2>2 DEF FallbackInv, ChainsSound, Sound
    <3>2. order_chains[o].attempt \in Nat
      BY <1>2 DEF FallbackInv, AlignInv, CallsInv, TypeOK, Chain
    <3>3. \/ order_chains[o].attempt = MaxAttempts
          \/ Untried(o) = {} \/ "catalogue_error" \in Faults
      BY <2>2, <3>1, <3>2, ConstantsAssumption DEF GaveUp, Exhausted
    <3>4. QED
      BY <2>2, <3>3 DEF Untried, TriedBy
  <2>3. QED
    BY <1>2, <2>1, <2>2, FailedCause
<1>3. QED
  BY <1>1, <1>2, FallbackInvariant, PTL DEF Spec

\* A vendor outside the order's category is called only when no vendor of the
\* category is left to try.
THEOREM CategoryComesFirst ==
    ASSUME ~ClientOrderIds
    PROVE  Spec => CategoryFirst
<1> DEFINE Longer(o) ==
               /\ HasChain(o)
               /\ Len(order_chains'[o].tried) > Len(order_chains[o].tried)
           Next1(o) == order_chains'[o].tried[Len(order_chains[o].tried) + 1]
           InCategoryFirst(o) ==
               \/ order_chains[o].category \in Sells[Next1(o)]
               \/ \A w \in Untried(o) : order_chains[o].category \notin Sells[w]
<1>1. ASSUME FallbackInv, [Next]_vars, NEW o \in Orders, Longer(o)
      PROVE  InCategoryFirst(o)
  <2>1. order_chains \in [Orders -> Chain] /\ HasChain(o)
    BY <1>1 DEF FallbackInv, AlignInv, CallsInv, TypeOK
  <2>2. order_chains[o].tried \in Seq(Vendors)
    BY <2>1 DEF Chain
  <2>3. order_chains[o] # NoChain
    BY <2>1 DEF HasChain, NoChain
  <2>4. ASSUME order_chains' = [p \in Orders |-> NoChain]
        PROVE  FALSE
    BY <1>1, <2>2, <2>4 DEF NoChain
  <2>5. ASSUME NEW p \in Orders, NEW d \in Decisions, NEW status,
               order_chains' = [order_chains EXCEPT ![p].decision = d,
                                                    ![p].status = status]
        PROVE  FALSE
    BY <1>1, <2>1, <2>2, <2>5 DEF Chain
  <2>6. ASSUME NEW p \in Orders, NEW c, order_chains[p] = NoChain,
               order_chains' = [order_chains EXCEPT ![p] = c]
        PROVE  FALSE
    BY <1>1, <2>1, <2>2, <2>3, <2>6
  <2>7. ASSUME NEW p \in Orders, NEW v \in Vendors, NEW n \in Sids,
               v \in Alternatives(p),
               order_chains' = [order_chains EXCEPT
                                   ![p] = NextAttempt(order_chains[p], v, n)]
        PROVE  InCategoryFirst(o)
    <3>1. p = o
      BY <1>1, <2>1, <2>2, <2>7
    <3>2. order_chains'[o].tried = Append(order_chains[o].tried, v)
      BY <2>1, <2>7, <3>1, NextAttemptFields
    <3>3. Next1(o) = v
      BY <2>2, <3>2, AppendShape
    <3>4. \/ order_chains[o].category \in Sells[v]
          \/ \A w \in Untried(o) : order_chains[o].category \notin Sells[w]
      BY <2>7, <3>1 DEF Alternatives
    <3>5. QED
      BY <3>3, <3>4
  <2>8. UNCHANGED order_chains => FALSE
    BY <1>1, <2>2
  <2>9. QED
    BY <1>1, <2>4, <2>5, <2>6, <2>7, <2>8, ChainSteps DEF ChainStep
<1>2. FallbackInv /\ [Next]_vars =>
        [\A o \in Orders :
            /\ HasChain(o)
            /\ Len(order_chains'[o].tried) > Len(order_chains[o].tried)
            => LET c == order_chains[o]
                   v == order_chains'[o].tried[Len(c.tried) + 1]
               IN  c.category \in Sells[v]
                   \/ \A w \in Untried(o) : c.category \notin Sells[w]]_vars
  BY <1>1
<1>3. QED
  BY <1>2, FallbackInvariant, PTL DEF Spec, CategoryFirst

-----------------------------------------------------------------------------
(******************************************************************************)
(* Refinement: the chains implement OrderOffer.                               *)
(******************************************************************************)

\* The calling server implements the abstract fallback, with every fault.
THEOREM Refines ==
    ASSUME ~ClientOrderIds
    PROVE  Spec => ImplementsOffer
<1> DEFINE offers  == [o \in Orders |-> OffersOf(order_chains[o])]
           outcome == [o \in Orders |-> OutcomeOf(order_chains[o])]
<1>1. OffersOf(NoChain) = <<>> /\ OutcomeOf(NoChain) = "none"
  BY DEF OffersOf, OutcomeOf, NoChain
<1>2. Init => Offer!Init
  BY <1>1 DEF Init, Offer!Init
<1>3. FallbackInv /\ [Next]_vars => [Offer!Next]_(Offer!offer_vars)
  <2> SUFFICES ASSUME FallbackInv, [Next]_vars
               PROVE  Offer!Next \/ UNCHANGED Offer!offer_vars
    OBVIOUS
  <2>0. order_chains \in [Orders -> Chain]
    BY DEF FallbackInv, AlignInv, CallsInv, TypeOK
  <2>1. CASE UNCHANGED order_chains
    BY <2>1 DEF Offer!offer_vars
  <2>2. CASE order_chains' = [o \in Orders |-> NoChain]
    BY <1>1, <2>2 DEF Offer!Next, Offer!ForgetAll
  <2>3. ASSUME NEW o \in Orders, NEW v \in Vendors, NEW n \in Sids,
               NEW cat \in Categories \cup {NoCategory},
               order_chains[o] = NoChain,
               order_chains' = [order_chains EXCEPT ![o] = NewChain(v, n, cat)]
        PROVE  Offer!Next
    <3>1. /\ OffersOf(NewChain(v, n, cat)) = <<Lower[v]>>
          /\ OutcomeOf(NewChain(v, n, cat)) = "open"
      BY DEF OffersOf, OutcomeOf, NewChain
    <3>2. outcome[o] = "none"
      BY <1>1, <2>3
    <3>3. offers' = [offers EXCEPT ![o] = <<Lower[v]>>]
      BY <2>0, <2>3, <3>1
    <3>4. outcome' = [outcome EXCEPT ![o] = "open"]
      BY <2>0, <2>3, <3>1
    <3>5. Offer!Open(o, Lower[v])
      BY <3>2, <3>3, <3>4 DEF Offer!Open
    <3>6. QED
      BY <3>5, ConstantsAssumption DEF Offer!Next
  <2>4. ASSUME NEW o \in Orders, NEW v \in Vendors, NEW n \in Sids,
               HasChain(o), order_chains[o].status = "CALLING",
               ~Exhausted(o), v \in Untried(o),
               order_chains' = [order_chains EXCEPT
                                  ![o] = NextAttempt(order_chains[o], v, n)]
        PROVE  Offer!Next
    <3> DEFINE c == order_chains[o]
               e == NextAttempt(c, v, n)
    <3>1. /\ c.tried \in Seq(Vendors) /\ Len(c.tried) \in Nat
          /\ c.attempt = Len(c.tried)
      BY <2>4, ChainShape DEF FallbackInv
    <3>2. e.tried = Append(c.tried, v) /\ e.status = "CALLING"
      BY NextAttemptFields
    <3> HIDE DEF c, e
    <3>3. OffersOf(c) \in Seq(Vendors) /\ Len(OffersOf(c)) = Len(c.tried)
      <4>1. DOMAIN c.tried = 1..Len(c.tried)
            /\ \A i \in 1..Len(c.tried) : Lower[c.tried[i]] \in Vendors
        BY <3>1, ConstantsAssumption
      <4>2. OffersOf(c) = [i \in 1..Len(c.tried) |-> Lower[c.tried[i]]]
        BY <4>1 DEF OffersOf
      <4>3. OffersOf(c) \in Seq(Vendors)
        BY <3>1, <4>1, <4>2, SMTT(30)
      <4>4. QED
        BY <3>1, <4>2, <4>3
    <3>4. OffersOf(e) = Append(OffersOf(c), Lower[v])
      BY <3>1, <3>2, <3>3 DEF OffersOf
    <3>5. \A i \in DOMAIN OffersOf(c) : OffersOf(c)[i] # Lower[v]
      BY <2>4 DEF OffersOf, Untried, TriedBy, c
    <3>6. Len(OffersOf(c)) < MaxAttempts
      BY <2>4, <3>1, <3>3, ConstantsAssumption DEF Exhausted, c
    <3>7. OutcomeOf(c) = "open" /\ OutcomeOf(e) = "open"
      BY <2>4, <3>2 DEF OutcomeOf, c
    <3>8. offers' = [offers EXCEPT ![o] = Append(offers[o], Lower[v])]
      BY <2>0, <2>4, <3>4 DEF c, e
    <3>9. outcome' = outcome
      BY <2>0, <2>4, <3>7 DEF c, e
    <3>10. outcome[o] = "open" /\ offers[o] = OffersOf(c)
      BY <3>7 DEF c
    <3>11. Offer!OfferNext(o, Lower[v])
      BY <3>5, <3>6, <3>8, <3>9, <3>10 DEF Offer!OfferNext
    <3>12. QED
      BY <3>11, ConstantsAssumption DEF Offer!Next
  <2>5. ASSUME NEW o \in Orders, NEW d \in Decisions,
               NEW status \in Settled \cup {"FALLBACK_IN_PROGRESS"},
               HasChain(o), order_chains[o].status = "CALLING",
               order_chains' = [order_chains EXCEPT ![o].decision = d,
                                                    ![o].status = status]
        PROVE  Offer!Next \/ UNCHANGED Offer!offer_vars
    <3>1. /\ order_chains'[o].tried = order_chains[o].tried
          /\ order_chains'[o].status = status
          /\ \A p \in Orders : p # o => order_chains'[p] = order_chains[p]
      BY <2>0, <2>5 DEF Chain
    <3>2. offers' = offers
      BY <3>1 DEF OffersOf
    <3>3. outcome[o] = "open"
      BY <2>5 DEF OutcomeOf
    <3>4. CASE status = "FALLBACK_IN_PROGRESS"
      <4>1. OutcomeOf(order_chains'[o]) = "open"
        BY <3>1, <3>4 DEF OutcomeOf
      <4>2. outcome' = outcome
        BY <3>1, <3>3, <4>1
      <4>3. QED
        BY <3>2, <4>2 DEF Offer!offer_vars
    <3>5. CASE status \in Settled
      <4>1. OutcomeOf(order_chains'[o]) \in Offer!Outcomes
        BY <3>1, <3>5 DEF OutcomeOf, Settled, Offer!Outcomes
      <4>2. PICK r \in Offer!Outcomes : r = OutcomeOf(order_chains'[o])
        BY <4>1
      <4>3. outcome' = [outcome EXCEPT ![o] = r]
        BY <3>1, <4>2
      <4>4. Offer!Settle(o, r)
        BY <3>2, <3>3, <4>3 DEF Offer!Settle
      <4>5. QED
        BY <4>4 DEF Offer!Next
    <3>6. QED
      BY <3>4, <3>5
  <2>6. ChainStep
    BY ChainSteps
  <2>7. QED
    BY <2>1, <2>2, <2>3, <2>4, <2>5, <2>6, AlternativesUntried DEF ChainStep
<1>4. QED
  BY <1>2, <1>3, FallbackInvariant, PTL DEF Spec, ImplementsOffer, Offer!Spec
-----------------------------------------------------------------------------
(******************************************************************************)
(* What the dashboard and the agent are told of an order: the transcripts     *)
(* filed under the SIDs of its calls, and the vendor that the agent           *)
(* introduces itself to.                                                      *)
(******************************************************************************)

(******************************************************************************)
(* The agent's vendor.  Metadata is written for a SID that was just handed    *)
(* out and has no handler yet, and the handler reads it once; so the facts    *)
(* about calls are all that is needed, and clients may reuse order ids.       *)
(******************************************************************************)

\* The agent introduces itself to the vendor that its call was placed to, with
\* every fault and whatever order ids clients send.
THEOREM AgentGreetsItsVendor == Spec => []AgentKnowsItsVendor
<1>1. Init => CallsInv /\ AgentKnowsItsVendor
  BY InitFallback DEF FallbackInv, AlignInv, Init, AgentKnowsItsVendor
<1>2. CallsInv /\ TypeOK' /\ AgentKnowsItsVendor /\ [Next]_vars
        => AgentKnowsItsVendor'
  <2> SUFFICES ASSUME CallsInv, AgentKnowsItsVendor, [Next]_vars
               PROVE  AgentKnowsItsVendor'
    OBVIOUS
  <2> USE DEF AgentKnowsItsVendor
  <2>0. /\ call_metadata_store \in [Sids -> Meta]
        /\ line \in [Sids -> {"unused", "ringing", "answered", "missed"}]
        /\ \A s \in Sids : handler[s] # "idle" => line[s] = "answered"
        /\ handler \in [Sids -> {"idle", "starting", "talking", "stopping",
                                 "ended", "failed", "dropped"}]
        /\ vendor_context \in [Sids -> Vendors \cup {NoVendor, Generic}]
    BY DEF CallsInv, TypeOK, RingingIsIdle
  <2>1. ASSUME NEW o \in Orders, NEW v \in Vendors, NEW n \in Sids,
               NEW cat \in Categories \cup {NoCategory},
               PlaceCall(o, v, cat, n)
        PROVE  \A s \in Sids : handler[s] # "idle" =>
                   call_metadata_store'[s] = call_metadata_store[s]
    BY <2>0, <2>1 DEF PlaceCall
  <2>2. ASSUME NEW o \in Orders, NEW v \in Vendors, NEW n \in Sids,
               NEW cat \in Categories \cup {NoCategory},
               InitiateCall(o, v, cat, n)
        PROVE  AgentKnowsItsVendor'
    BY <2>1, <2>2 DEF InitiateCall
  <2>3. ASSUME NEW s \in Sids, NEW d \in Decisions, StopFinished(s, d)
        PROVE  AgentKnowsItsVendor'
    <3>1. /\ handler[s] = "stopping" /\ HandleVendorDecision(s, d)
          /\ handler' = [handler EXCEPT ![s] = "ended"]
          /\ UNCHANGED vendor_context
      BY <2>3 DEF StopFinished
    <3>2. \A t \in Sids : handler[t] # "idle" =>
              call_metadata_store'[t] = call_metadata_store[t]
      <4>1. CASE ~HasChain(call_metadata_store[s].order)
        BY <3>1, <4>1 DEF HandleVendorDecision
      <4>2. CASE HasChain(call_metadata_store[s].order)
        <5>1. PICK o \in Orders : o = call_metadata_store[s].order
          BY <4>2 DEF HasChain
        <5>2. ASSUME NEW status, SetStatus(o, d, status)
              PROVE  UNCHANGED call_metadata_store
          BY <5>2 DEF SetStatus
        <5>3. QED
          BY <2>1, <3>1, <4>2, <5>1, <5>2, HandleCases, AlternativesUntried
      <4>3. QED
        BY <4>1, <4>2
    <3>3. QED
      BY <2>0, <3>1, <3>2
  <2>4. ASSUME NEW s \in Sids, StartStream(s)
        PROVE  AgentKnowsItsVendor'
    BY <2>0, <2>4 DEF StartStream, stores
  <2>5. ASSUME NEW s \in Sids,
               \/ NoAnswer(s) \/ SessionReady(s) \/ SessionFails(s)
               \/ StreamDrops(s) \/ StopReceived(s)
        PROVE  AgentKnowsItsVendor'
    BY <2>0, <2>5
    DEF NoAnswer, SessionReady, SessionFails, StreamDrops, StopReceived, stores
  <2>6. CASE Restart
    BY <2>6 DEF Restart
  <2>7. CASE UNCHANGED vars
    BY <2>7 DEF vars
  <2>8. QED
    BY <2>2, <2>3, <2>4, <2>5, <2>6, <2>7 DEF Next, CallStep
<1>3. QED
  BY <1>1, <1>2, TypeCorrect, CallsStep, PTL DEF Spec

-----------------------------------------------------------------------------
(******************************************************************************)
(* The transcripts of an order.  FirstSidShowsLatest and OwnTranscriptKept    *)
(* by position in the chain: only the last call of an order can report        *)
(* (StoppingIsLast), and a call is in one chain only, so a report touches     *)
(* the transcripts of its own order.                                          *)
(******************************************************************************)
Filed(o, t, i) ==
    call_transcripts_store[t] =
        [by |-> order_chains[o].sids[i],
         decision |-> verdict[order_chains[o].sids[i]]]

OrderFiled(o) ==
    LET q == order_chains[o].sids
        k == Len(q)
    IN  /\ \A i \in 2..k : verdict[q[i]] # "NONE" => Filed(o, q[i], i)
        /\ verdict[q[k]] # "NONE" => Filed(o, q[1], k)
        /\ verdict[q[k]] = "NONE" /\ k > 1 => Filed(o, q[1], k - 1)

TranscriptsFiled == \A o \in Orders : HasChain(o) => OrderFiled(o)

\* A step that leaves an order and the records of its calls alone keeps it filed.
LEMMA UntouchedStaysFiled ==
    ASSUME FallbackInv, NEW o \in Orders, HasChain(o), OrderFiled(o),
           order_chains'[o] = order_chains[o],
           \A i \in 1..Len(order_chains[o].sids) :
               /\ verdict'[order_chains[o].sids[i]] =
                      verdict[order_chains[o].sids[i]]
               /\ call_transcripts_store'[order_chains[o].sids[i]] =
                      call_transcripts_store[order_chains[o].sids[i]]
    PROVE  OrderFiled(o)'
<1>1. Len(order_chains[o].sids) \in Nat \ {0}
  BY ChainShape DEF FallbackInv
<1>2. QED
  BY <1>1 DEF OrderFiled, Filed

\* A call whose handler is at work is in no chain but that of its order.
LEMMA NotInOtherChains ==
    ASSUME FallbackInv, NEW s \in Sids, NEW o \in Orders, HasChain(o),
           ~PlacedFor(s, o)
    PROVE  \A i \in 1..Len(order_chains[o].sids) : order_chains[o].sids[i] # s
BY ChainShape DEF FallbackInv, PlacedFor

\* What StopFinished files, seen from the call's order.
LEMMA ReportFiles ==
    ASSUME FallbackInv, NEW s \in Sids, NEW d \in Decisions, StopFinished(s, d),
           NEW o \in Orders, PlacedFor(s, o), HasChain(o)
    PROVE  /\ verdict' = [verdict EXCEPT ![s] = d]
           /\ call_transcripts_store'[s] = [by |-> s, decision |-> d]
           /\ call_transcripts_store'[order_chains[o].sids[1]] =
                  [by |-> s, decision |-> d]
           /\ \A t \in Sids : t # s /\ t # order_chains[o].sids[1] =>
                  call_transcripts_store'[t] = call_transcripts_store[t]
<1>1. call_transcripts_store \in [Sids -> Transcript]
  BY DEF FallbackInv, AlignInv, CallsInv, TypeOK
<1>2. order_chains[o].sids[1] \in Sids
  BY ChainShape DEF FallbackInv
<1>3. call_metadata_store[s].order = o
  BY DEF PlacedFor
<1>4. QED
  BY <1>1, <1>2, <1>3 DEF StopFinished, FirstSid

\* The report of the last call, filed; the chain keeps its calls or gains one.
LEMMA ReportKeepsFiled ==
    ASSUME FallbackInv, TranscriptsFiled,
           NEW s \in Sids, NEW d \in Decisions, StopFinished(s, d),
           NEW o \in Orders, PlacedFor(s, o), HasChain(o)
    PROVE  OrderFiled(o)'
<1> DEFINE q == order_chains[o].sids
           k == Len(q)
           rec == [by |-> s, decision |-> d]
<1>1. /\ q \in Seq(Sids) /\ k \in Nat \ {0}
      /\ \A i \in 1..k : q[i] \in Sids /\ line[q[i]] # "unused"
      /\ \A i, j \in 1..k : q[i] = q[j] => i = j
  BY ChainShape DEF FallbackInv
<1>2. s = q[k] /\ verdict[s] = "NONE"
  <2>1. handler[s] = "stopping"
    BY DEF StopFinished
  <2>2. QED
    BY <2>1, StoppingIsLast
<1>3. /\ verdict' = [verdict EXCEPT ![s] = d]
      /\ call_transcripts_store'[s] = rec /\ call_transcripts_store'[q[1]] = rec
      /\ \A t \in Sids : t # s /\ t # q[1] =>
            call_transcripts_store'[t] = call_transcripts_store[t]
  BY ReportFiles
<1>4. /\ verdict \in [Sids -> Decisions \cup {"NONE"}]
      /\ order_chains \in [Orders -> Chain]
  BY DEF FallbackInv, AlignInv, CallsInv, TypeOK
<1>5. verdict'[q[k]] = d /\ d # "NONE"
  BY <1>1, <1>2, <1>3, <1>4 DEF Decisions
<1>6. ASSUME NEW i \in 2..k, verdict'[q[i]] # "NONE"
      PROVE  call_transcripts_store'[q[i]] =
                 [by |-> q[i], decision |-> verdict'[q[i]]]
  <2>1. CASE i = k
    BY <1>2, <1>3, <1>5, <2>1
  <2>2. CASE i # k
    <3>1. q[i] \in Sids /\ q[i] # s /\ q[i] # q[1]
      BY <1>1, <1>2, <2>2
    <3>2. /\ verdict'[q[i]] = verdict[q[i]]
          /\ call_transcripts_store'[q[i]] = call_transcripts_store[q[i]]
      BY <1>3, <1>4, <3>1
    <3>3. verdict[q[i]] # "NONE" =>
              call_transcripts_store[q[i]] = [by |-> q[i], decision |-> verdict[q[i]]]
      BY DEF TranscriptsFiled, OrderFiled, Filed
    <3>4. QED
      BY <1>6, <3>2, <3>3
  <2>3. QED
    BY <2>1, <2>2
<1>7. ASSUME NEW status, SetStatus(o, d, status)
      PROVE  OrderFiled(o)'
  <2>1. order_chains'[o].sids = q
    BY <1>4, <1>7 DEF SetStatus, Chain
  <2>2. QED
    BY <1>2, <1>3, <1>5, <1>6, <2>1 DEF OrderFiled, Filed
<1>8. ASSUME NEW v \in Vendors, NEW n \in Sids, PlaceCall(o, v, NoCategory, n)
      PROVE  OrderFiled(o)'
  <2> DEFINE r == order_chains'[o].sids
  <2>1. r = Append(q, n)
    BY <1>4, <1>8, NextAttemptFields DEF PlaceCall
  <2>2. /\ Len(r) = k + 1 /\ r[k + 1] = n
        /\ \A i \in 1..k : r[i] = q[i]
    BY <1>1, <2>1, AppendShape
  <2>3. verdict'[n] = "NONE"
    <3>1. line[n] = "unused"
      BY <1>8 DEF PlaceCall
    <3>2. verdict[n] = "NONE" /\ n # s
      BY <1>1, <1>2, <3>1 DEF FallbackInv, AlignInv, CallsInv, UnusedIsFresh
    <3>3. QED
      BY <1>3, <1>4, <3>2
  <2>4. r[1] = q[1] /\ r[k] = q[k] /\ r[Len(r)] = n
    BY <1>1, <2>2
  <2>5. ASSUME NEW i \in 2..Len(r), verdict'[r[i]] # "NONE"
        PROVE  call_transcripts_store'[r[i]] =
                   [by |-> r[i], decision |-> verdict'[r[i]]]
    <3>1. i \in 2..k /\ r[i] = q[i]
      BY <1>1, <2>2, <2>3, <2>5
    <3>2. QED
      BY <1>6, <2>5, <3>1
  <2>6. call_transcripts_store'[r[1]] =
            [by |-> r[Len(r) - 1], decision |-> verdict'[r[Len(r) - 1]]]
    BY <1>1, <1>2, <1>3, <1>5, <2>2, <2>4
  <2>7. QED
    BY <2>3, <2>4, <2>5, <2>6 DEF OrderFiled, Filed
<1>9. HandleVendorDecision(s, d) /\ call_metadata_store[s].order = o
  BY DEF StopFinished, PlacedFor
<1>10. QED
  BY <1>7, <1>8, <1>9, HandleCases, AlternativesUntried

\* A report does not touch what is filed for the calls of another order.
LEMMA ReportSparesOthers ==
    ASSUME FallbackInv, NEW s \in Sids, NEW d \in Decisions, StopFinished(s, d),
           NEW p \in Orders, HasChain(p), ~PlacedFor(s, p)
    PROVE  \A i \in 1..Len(order_chains[p].sids) :
               /\ verdict'[order_chains[p].sids[i]] =
                      verdict[order_chains[p].sids[i]]
               /\ call_transcripts_store'[order_chains[p].sids[i]] =
                      call_transcripts_store[order_chains[p].sids[i]]
<1> SUFFICES ASSUME NEW i \in 1..Len(order_chains[p].sids)
             PROVE  /\ verdict'[order_chains[p].sids[i]] =
                           verdict[order_chains[p].sids[i]]
                    /\ call_transcripts_store'[order_chains[p].sids[i]] =
                           call_transcripts_store[order_chains[p].sids[i]]
  OBVIOUS
<1>1. PICK t \in Sids : t = order_chains[p].sids[i]
  BY ChainShape DEF FallbackInv
<1>2. t # s /\ PlacedFor(t, p)
  BY <1>1, NotInOtherChains, ChainShape DEF FallbackInv, PlacedFor
<1>3. /\ verdict \in [Sids -> Decisions \cup {"NONE"}]
      /\ call_transcripts_store \in [Sids -> Transcript]
  BY DEF FallbackInv, AlignInv, CallsInv, TypeOK
<1>4. verdict'[t] = verdict[t]
  BY <1>2, <1>3 DEF StopFinished
<1>5. CASE ~HasChain(call_metadata_store[s].order)
  <2>1. call_transcripts_store' =
            [call_transcripts_store EXCEPT ![s] = [by |-> s, decision |-> d],
                                           ![s] = [by |-> s, decision |-> d]]
    BY <1>5, Zenon DEF StopFinished
  <2>2. call_transcripts_store'[t] = call_transcripts_store[t]
    BY <1>2, <1>3, <2>1
  <2>3. QED
    BY <1>1, <1>4, <2>2
<1>6. CASE HasChain(call_metadata_store[s].order)
  <2>1. PICK o \in Orders : o = call_metadata_store[s].order
    BY <1>6 DEF HasChain
  <2>2. ~PlacedFor(t, o) /\ PlacedFor(s, o) /\ HasChain(o)
    BY <1>2, <1>6, <2>1 DEF PlacedFor
  <2>3. t # order_chains[o].sids[1]
    BY <2>2, NotInOtherChains, ChainShape DEF FallbackInv
  <2>4. \A u \in Sids : u # s /\ u # order_chains[o].sids[1] =>
            call_transcripts_store'[u] = call_transcripts_store[u]
    BY <2>2, ReportFiles
  <2>5. QED
    BY <1>1, <1>2, <1>4, <2>3, <2>4
<1>7. QED
  BY <1>5, <1>6

\* Every step keeps the transcripts filed.
LEMMA FiledStep ==
    ASSUME ~ClientOrderIds, FallbackInv, TranscriptsFiled, [Next]_vars
    PROVE  TranscriptsFiled'
<1>0. /\ order_chains \in [Orders -> Chain]
      /\ verdict \in [Sids -> Decisions \cup {"NONE"}]
      /\ call_transcripts_store \in [Sids -> Transcript]
  BY DEF FallbackInv, AlignInv, CallsInv, TypeOK
<1>1. ASSUME UNCHANGED <<order_chains, call_transcripts_store, verdict>>
      PROVE  TranscriptsFiled'
  BY <1>1 DEF TranscriptsFiled, OrderFiled, Filed, HasChain
<1>2. ASSUME NEW o \in Orders, NEW v \in Vendors, NEW n \in Sids,
             NEW cat \in Categories \cup {NoCategory},
             InitiateCall(o, v, cat, n)
      PROVE  TranscriptsFiled'
  <2>1. ~HasChain(o)
    BY <1>2, FirstCallSound DEF InitiateCall
  <2>2. /\ order_chains' = [order_chains EXCEPT ![o] = NewChain(v, n, cat)]
        /\ UNCHANGED <<call_transcripts_store, verdict>>
        /\ line[n] = "unused"
    BY <1>2, <2>1 DEF InitiateCall, PlaceCall
  <2>3. OrderFiled(o)'
    <3>1. order_chains'[o].sids = <<n>>
      BY <1>0, <2>2 DEF NewChain
    <3>2. verdict'[n] = "NONE"
      BY <2>2 DEF FallbackInv, AlignInv, CallsInv, UnusedIsFresh
    <3>3. QED
      BY <3>1, <3>2 DEF OrderFiled
  <2>4. ASSUME NEW p \in Orders, p # o, HasChain(p)'
        PROVE  OrderFiled(p)'
    <3>1. order_chains'[p] = order_chains[p] /\ HasChain(p)
      BY <1>0, <2>2, <2>4 DEF HasChain
    <3>2. QED
      BY <2>2, <3>1, UntouchedStaysFiled DEF TranscriptsFiled
  <2>5. QED
    BY <2>3, <2>4 DEF TranscriptsFiled
<1>3. ASSUME NEW s \in Sids, NEW d \in Decisions, StopFinished(s, d)
      PROVE  TranscriptsFiled'
  <2> SUFFICES ASSUME NEW p \in Orders, HasChain(p)'
               PROVE  OrderFiled(p)'
    BY DEF TranscriptsFiled
  <2>1. CASE PlacedFor(s, p) /\ HasChain(p)
    BY <1>3, <2>1, ReportKeepsFiled
  <2>2. CASE ~PlacedFor(s, p)
    <3>1. order_chains'[p] = order_chains[p]
      BY <1>0, <1>3, <2>2, ReportTouchesOwn
    <3>2. HasChain(p)
      BY <3>1 DEF HasChain
    <3>3. QED
      BY <1>3, <2>2, <3>1, <3>2, ReportSparesOthers, UntouchedStaysFiled
      DEF TranscriptsFiled
  <2>3. CASE PlacedFor(s, p) /\ ~HasChain(p)
    <3>1. UNCHANGED order_chains
      BY <1>3, <2>3 DEF StopFinished, HandleVendorDecision, PlacedFor
    <3>2. QED
      BY <2>3, <3>1 DEF HasChain
  <2>4. QED
    BY <2>1, <2>2, <2>3
<1>4. ASSUME NEW s \in Sids, CallStep(s)
      PROVE  TranscriptsFiled'
  <2>1. CASE ~\E d \in Decisions : StopFinished(s, d)
    BY <1>1, <1>4, <2>1
    DEF CallStep, NoAnswer, StartStream, SessionReady, SessionFails,
        StreamDrops, StopReceived, stores
  <2>2. QED
    BY <1>3, <2>1
<1>5. CASE Restart
  BY <1>5 DEF Restart, TranscriptsFiled, HasChain, NoChain
<1>6. CASE UNCHANGED vars
  BY <1>1, <1>6 DEF vars
<1>7. QED
  BY <1>2, <1>4, <1>5, <1>6 DEF Next

LEMMA AlwaysFiled ==
    ASSUME ~ClientOrderIds
    PROVE  Spec => [](FallbackInv /\ TranscriptsFiled)
<1>1. Init => TranscriptsFiled
  BY DEF Init, TranscriptsFiled, HasChain, NoChain
<1>2. FallbackInv /\ TranscriptsFiled /\ [Next]_vars => TranscriptsFiled'
  BY FiledStep
<1>3. QED
  BY <1>1, <1>2, FallbackInvariant, PTL DEF Spec

\* Each later call of an order keeps its own transcript under its own SID.
THEOREM TranscriptsKept ==
    ASSUME ~ClientOrderIds
    PROVE  Spec => []OwnTranscriptKept
<1>1. ASSUME FallbackInv, TranscriptsFiled
      PROVE  OwnTranscriptKept
  <2> SUFFICES ASSUME NEW o \in Orders, HasChain(o),
                      NEW s \in SidsOf(o) \ {FirstSid(o)}, verdict[s] # "NONE"
               PROVE  call_transcripts_store[s] =
                          [by |-> s, decision |-> verdict[s]]
    BY DEF OwnTranscriptKept
  <2> DEFINE q == order_chains[o].sids
  <2>1. q \in Seq(Sids) /\ Len(q) \in Nat \ {0}
    BY <1>1, ChainShape DEF FallbackInv
  <2>2. PICK i \in 1..Len(q) : s = q[i] /\ i # 1
    BY <2>1 DEF SidsOf, FirstSid
  <2>3. i \in 2..Len(q)
    BY <2>1, <2>2
  <2>4. QED
    BY <1>1, <2>2, <2>3 DEF TranscriptsFiled, OrderFiled, Filed
<1>2. QED
  BY <1>1, AlwaysFiled, PTL

\* Under the SID that the dashboard polls, the first of the order, is the
\* conversation of the latest call that was reported.
THEOREM DashboardSeesLatest ==
    ASSUME ~ClientOrderIds
    PROVE  Spec => []FirstSidShowsLatest
<1>1. ASSUME FallbackInv, TranscriptsFiled
      PROVE  FirstSidShowsLatest
  <2> SUFFICES ASSUME NEW o \in Orders, HasChain(o), Reported(o) # {}
               PROVE  LET c      == order_chains[o]
                          latest == c.sids[Len(c.sids) -
                                       (IF verdict[LastSid(o)] = "NONE" THEN 1
                                        ELSE 0)]
                      IN  call_transcripts_store[FirstSid(o)] =
                              [by |-> latest, decision |-> verdict[latest]]
    BY DEF FirstSidShowsLatest
  <2> DEFINE q == order_chains[o].sids
             k == Len(q)
  <2>1. q \in Seq(Sids) /\ k \in Nat \ {0}
    BY <1>1, ChainShape DEF FallbackInv
  <2>2. OrderFiled(o)
    BY <1>1 DEF TranscriptsFiled
  <2>3. CASE verdict[q[k]] # "NONE"
    BY <2>1, <2>2, <2>3 DEF OrderFiled, Filed, FirstSid, LastSid
  <2>4. CASE verdict[q[k]] = "NONE"
    <3>1. PICK i \in 1..k : verdict[q[i]] # "NONE"
      BY <2>1 DEF Reported, SidsOf
    <3>2. k > 1
      BY <2>1, <2>4, <3>1
    <3>3. QED
      BY <2>1, <2>2, <2>4, <3>2 DEF OrderFiled, Filed, FirstSid, LastSid
  <2>5. QED
    BY <2>3, <2>4
<1>2. QED
  BY <1>1, AlwaysFiled, PTL
=============================================================================
