------------------------- MODULE RemoteBridgeProofs -------------------------
(******************************************************************************)
(* Theorems about RemoteBridge: what is left of the vendor fallback when      *)
(* another process reports the calls, late, repeatedly or not at all, for     *)
(* every value of the constants and every combination of faults.              *)
(******************************************************************************)
EXTENDS RemoteBridge, FallbackProofs

-----------------------------------------------------------------------------
(******************************************************************************)
(* The inductive invariant.  A report may be handled after its call is over   *)
(* and its order has moved on, so a chain is no longer sound in the sense of  *)
(* FallbackProofs: its status says what some vendor answered and not what     *)
(* the last one did.  What is left rests on the retry loop of the bridge: a   *)
(* report exists only for a call that was placed, it carries the decision of  *)
(* the first round, and no more of them are under way or gone than were sent. *)
(******************************************************************************)
PostSound(s) ==
    /\ line[s] = "unused" => posts[s] = NoPost
    /\ posts[s].inflight + posts[s].gone <= posts[s].tries
    /\ posts[s].waiting => posts[s].tries > 0
    /\ IF posts[s].tries = 0
       THEN posts[s].decision = "NONE" /\ verdict[s] = "NONE"
       ELSE posts[s].decision \in Decisions

PostsSound == \A s \in Sids : PostSound(s)

BridgeInv ==
    /\ BridgeTypeOK
    /\ StoresInv
    /\ CallsInChains
    /\ PostsSound
    /\ OutcomeHasCause
    /\ ReportsAgree

-----------------------------------------------------------------------------
(******************************************************************************)
(* Steps that leave the orders alone.                                         *)
(******************************************************************************)
PostType == [decision : Decisions \cup {"NONE"}, tries : 0..MaxTries,
             inflight : 0..MaxTries, gone : 0..MaxTries, waiting : BOOLEAN]

\* A phone that has not rung has no report; a sound report is kept sound by
\* whatever leaves the verdict of its call alone.
LEMMA PostReplaced ==
    ASSUME BridgeInv, NEW s \in Sids, NEW q \in PostType, line[s] # "unused",
           posts' = [posts EXCEPT ![s] = q],
           q.inflight + q.gone <= q.tries, q.tries > 0,
           q.decision \in Decisions,
           UNCHANGED verdict,
           \A t \in Sids : line'[t] = "unused" => line[t] = "unused"
    PROVE  /\ posts' \in [Sids -> PostType]
           /\ PostsSound'
<1>1. posts \in [Sids -> PostType]
  BY DEF BridgeInv, BridgeTypeOK, PostType
<1>2. posts' \in [Sids -> PostType] /\ posts'[s] = q
      /\ \A t \in Sids : t # s => posts'[t] = posts[t]
  BY <1>1
<1>3. line'[s] # "unused"
  OBVIOUS
<1>4. q.tries # 0
  BY DEF PostType
<1>5. ASSUME NEW t \in Sids
      PROVE  PostSound(t)'
  <2>1. CASE t = s
    BY <1>2, <1>3, <1>4, <2>1 DEF PostSound
  <2>2. CASE t # s
    <3>1. PostSound(t)
      BY DEF BridgeInv, PostsSound
    <3>2. posts'[t] = posts[t] /\ verdict'[t] = verdict[t]
      BY <1>2, <2>2
    <3>3. QED
      BY <3>1, <3>2 DEF PostSound
  <2>3. QED
    BY <2>1, <2>2
<1>6. QED
  BY <1>2, <1>5 DEF PostsSound

\* A step that leaves the orders and what is known of them alone.
LEMMA QuietKeeps ==
    ASSUME BridgeInv, UNCHANGED <<stores, issued, verdict>>,
           BridgeTypeOK', PostsSound',
           \A t \in Sids : line'[t] = "unused" =>
               line[t] = "unused" /\ handler'[t] = handler[t],
           \A t \in Sids : verdict[t] # "NONE" =>
               posts'[t].decision = posts[t].decision
    PROVE  BridgeInv'
<1>1. TypeOK'
  BY DEF BridgeTypeOK
<1>2. UnusedIsFresh'
  BY DEF BridgeInv, StoresInv, UnusedIsFresh, stores
<1>3. ChainAligned'
  BY DEF BridgeInv, StoresInv, ChainAligned, AlignedChain, HasChain, stores
<1>4. CallsInChains'
  BY CallsStayInChains DEF BridgeInv, HasChain, stores
<1>5. OutcomeHasCause'
  BY DEF BridgeInv, OutcomeHasCause, SidsOf, Exhausted, Untried, TriedBy, stores
<1>6. ReportsAgree'
  BY DEF BridgeInv, ReportsAgree, stores
<1>7. QED
  BY <1>1, <1>2, <1>3, <1>4, <1>5, <1>6 DEF BridgeInv, StoresInv

\* The bridge picks up a call, sets up its session or loses it.
LEMMA BridgeQuiet ==
    ASSUME BridgeInv, NEW s \in Sids, UNCHANGED posts,
           \/ BridgeStart(s) \/ NoAnswer(s) \/ SessionReady(s)
           \/ SessionFails(s) \/ StreamDrops(s) \/ StopReceived(s)
    PROVE  BridgeInv'
<1>1. TypeOK
  BY DEF BridgeInv, StoresInv
<1>2. TypeOK'
  <2>1. CASE \/ StartStream(s) \/ NoAnswer(s) \/ SessionReady(s)
             \/ SessionFails(s) \/ StreamDrops(s) \/ StopReceived(s)
    BY <1>1, <2>1, TypeStep DEF Next, CallStep
  <2>2. CASE /\ line' = [line EXCEPT ![s] = "answered"]
             /\ handler' = [handler EXCEPT ![s] = "starting"]
             /\ vendor_context' = [vendor_context EXCEPT ![s] = Generic]
             /\ UNCHANGED <<stores, active_calls, issued, restarts, verdict>>
    BY <1>1, <2>2 DEF TypeOK, stores
  <2>3. QED
    BY <2>1, <2>2 DEF BridgeStart
<1>3. UNCHANGED <<stores, issued, verdict>>
  BY DEF BridgeStart, StartStream, NoAnswer, SessionReady, SessionFails,
         StreamDrops, StopReceived, stores
<1>4. ASSUME NEW t \in Sids, line'[t] = "unused"
      PROVE  line[t] = "unused" /\ handler'[t] = handler[t]
  <2>1. line \in [Sids -> {"unused", "ringing", "answered", "missed"}]
        /\ handler \in [Sids -> {"idle", "starting", "talking", "stopping",
                                 "ended", "failed", "dropped"}]
    BY <1>1 DEF TypeOK
  <2>2. line[t] = "unused" => handler[t] = "idle"
    BY DEF BridgeInv, StoresInv, UnusedIsFresh
  <2>3. QED
    BY <1>4, <2>1, <2>2
    DEF BridgeStart, StartStream, NoAnswer, SessionReady, SessionFails,
        StreamDrops, StopReceived
<1>5. BridgeTypeOK'
  BY <1>2 DEF BridgeTypeOK, BridgeInv
<1>6. PostsSound'
  BY <1>3, <1>4 DEF BridgeInv, PostsSound, PostSound
<1>7. QED
  BY <1>3, <1>4, <1>5, <1>6, QuietKeeps

\* What the reports of a call that was placed look like.
LEMMA PostShape ==
    ASSUME BridgeInv, NEW s \in Sids
    PROVE  /\ posts[s] \in PostType
           /\ PostSound(s)
           /\ posts[s].tries > 0 =>
                 /\ line[s] # "unused"
                 /\ posts[s].decision \in Decisions
           /\ posts[s].inflight > 0 \/ posts[s].waiting => posts[s].tries > 0
           /\ handler[s] # "idle" => line[s] # "unused"
<1>1. posts[s] \in PostType /\ PostSound(s)
  BY DEF BridgeInv, BridgeTypeOK, PostType, PostsSound
<1>2. posts[s].tries > 0 =>
          line[s] # "unused" /\ posts[s].decision \in Decisions
  BY <1>1 DEF PostSound, NoPost, PostType
<1>3. posts[s].inflight > 0 \/ posts[s].waiting => posts[s].tries > 0
  BY <1>1 DEF PostSound, PostType
<1>4. handler[s] # "idle" => line[s] # "unused"
  BY DEF BridgeInv, StoresInv, UnusedIsFresh
<1>5. QED
  BY <1>1, <1>2, <1>3, <1>4

\* A round of the retry loop keeps the invariant, whatever becomes of its
\* request, as long as it repeats the decision of the first.
LEMMA RoundKeeps ==
    ASSUME BridgeInv, NEW s \in Sids, NEW q \in PostType, line[s] # "unused",
           posts' = [posts EXCEPT ![s] = q],
           q.inflight + q.gone <= q.tries, q.tries > 0,
           q.decision \in Decisions,
           posts[s].tries > 0 => q.decision = posts[s].decision,
           UNCHANGED <<stores, vendor_context, line, issued, restarts, verdict>>,
           UNCHANGED <<handler, active_calls>> \/ BridgeDone(s)
    PROVE  BridgeInv'
<1>1. posts' \in [Sids -> PostType] /\ PostsSound'
  BY PostReplaced
<1>2. TypeOK'
  BY DEF BridgeInv, StoresInv, TypeOK, stores, BridgeDone
<1>3. BridgeTypeOK'
  BY <1>1, <1>2 DEF BridgeTypeOK, PostType
<1>4. \A t \in Sids : line'[t] = "unused" =>
          line[t] = "unused" /\ handler'[t] = handler[t]
  BY DEF BridgeInv, StoresInv, TypeOK, BridgeDone
<1>5. ASSUME NEW t \in Sids, verdict[t] # "NONE"
      PROVE  posts'[t].decision = posts[t].decision
  <2>1. posts \in [Sids -> PostType]
    BY DEF BridgeInv, BridgeTypeOK, PostType
  <2>2. posts[t].tries > 0
    BY <1>5, PostShape DEF PostSound, PostType
  <2>3. QED
    BY <2>1, <2>2
<1>6. QED
  BY <1>1, <1>3, <1>4, <1>5, QuietKeeps

\* Sending a report, losing it, failing to forward it and giving up waiting.
LEMMA RoundSteps ==
    ASSUME BridgeInv, NEW s \in Sids,
           \/ \E d \in Decisions : SendPost(s, d)
           \/ Lost(s) \/ ForwardFails(s) \/ TimesOut(s)
    PROVE  BridgeInv'
<1>0. PICK p \in PostType : p = posts[s]
  BY PostShape
<1>1. /\ p.inflight + p.gone <= p.tries
      /\ p.tries > 0 => line[s] # "unused" /\ p.decision \in Decisions
      /\ p.inflight > 0 \/ p.waiting => p.tries > 0
      /\ posts \in [Sids -> PostType]
      /\ MaxTries \in Nat
  BY <1>0, PostShape, BridgeAssumption
  DEF PostSound, BridgeInv, BridgeTypeOK, PostType
<1>2. ASSUME NEW d \in Decisions, SendPost(s, d)
      PROVE  BridgeInv'
  <2>1. PICK q : q = [decision |-> d, tries |-> p.tries + 1,
                      inflight |-> p.inflight + 1, gone |-> p.gone,
                      waiting |-> TRUE]
    OBVIOUS
  <2>2. posts' = [posts EXCEPT ![s] = q]
    BY <1>0, <1>2, <2>1 DEF SendPost
  <2>3. line[s] # "unused" /\ p.tries < MaxTries
        /\ (p.tries > 0 => d = p.decision)
    BY <1>0, <1>2, PostShape DEF SendPost
  <2>4. q \in PostType
    BY <1>1, <2>1, <2>3 DEF PostType
  <2>5. /\ q.inflight + q.gone <= q.tries /\ q.tries > 0
        /\ q.decision \in Decisions /\ q.decision = d
    BY <1>1, <2>1 DEF PostType
  <2>6. UNCHANGED vars
    BY <1>2 DEF SendPost
  <2>7. QED
    BY <1>0, <2>2, <2>3, <2>4, <2>5, <2>6, RoundKeeps DEF vars, stores
<1>3. CASE Lost(s) \/ ForwardFails(s)
  <2>0. p.inflight > 0
    BY <1>0, <1>3 DEF Lost, ForwardFails
  <2>1. PICK w \in BOOLEAN :
            posts' = [posts EXCEPT ![s].inflight = @ - 1, ![s].gone = @ + 1,
                                   ![s].waiting = w]
    <3>1. CASE Lost(s)
      <4>1. posts' = [posts EXCEPT ![s].inflight = @ - 1, ![s].gone = @ + 1,
                                   ![s].waiting = p.waiting]
        BY <1>0, <1>1, <3>1 DEF Lost, PostType
      <4>2. p.waiting \in BOOLEAN
        BY DEF PostType
      <4>3. QED
        BY <4>1, <4>2
    <3>2. CASE ForwardFails(s)
      BY <3>2 DEF ForwardFails
    <3>3. QED
      BY <1>3, <3>1, <3>2
  <2>2. PICK q : q = [p EXCEPT !.inflight = @ - 1, !.gone = @ + 1,
                               !.waiting = w]
    OBVIOUS
  <2>3. posts' = [posts EXCEPT ![s] = q]
    BY <1>0, <1>1, <2>1, <2>2
  <2>4. /\ q.inflight = p.inflight - 1 /\ q.gone = p.gone + 1
        /\ q.tries = p.tries /\ q.decision = p.decision /\ q.waiting = w
        /\ q = [decision |-> p.decision, tries |-> p.tries,
                inflight |-> p.inflight - 1, gone |-> p.gone + 1,
                waiting |-> w]
    BY <2>2 DEF PostType
  <2>5. q \in PostType /\ q.inflight + q.gone <= q.tries
    BY <1>1, <2>0, <2>1, <2>4 DEF PostType
  <2>6. /\ UNCHANGED <<stores, vendor_context, line, issued, restarts, verdict>>
        /\ UNCHANGED <<handler, active_calls>> \/ BridgeDone(s)
    BY <1>3 DEF Lost, ForwardFails, vars, stores
  <2>7. QED
    BY <1>0, <1>1, <2>0, <2>3, <2>4, <2>5, <2>6, RoundKeeps
<1>4. CASE TimesOut(s)
  <2>1. PICK q : q = [p EXCEPT !.waiting = FALSE]
    OBVIOUS
  <2>2. posts' = [posts EXCEPT ![s] = q] /\ p.waiting
    BY <1>0, <1>1, <1>4, <2>1 DEF TimesOut
  <2>3. /\ q.inflight = p.inflight /\ q.gone = p.gone
        /\ q.tries = p.tries /\ q.decision = p.decision /\ q \in PostType
    BY <2>1 DEF PostType
  <2>4. /\ UNCHANGED <<stores, vendor_context, line, issued, restarts, verdict>>
        /\ UNCHANGED <<handler, active_calls>> \/ BridgeDone(s)
    BY <1>4 DEF TimesOut
  <2>5. QED
    BY <1>0, <1>1, <2>2, <2>3, <2>4, RoundKeeps
<1>5. QED
  BY <1>2, <1>3, <1>4

-----------------------------------------------------------------------------
(******************************************************************************)
(* Steps that change an order: a client places one, or a report is handled.   *)
(******************************************************************************)

\* Some vendor of the order gave this answer.
Answered(o, a) == \E x \in SidsOf(o) : verdict[x] = a

\* Nobody is left to ask, or nobody can be found.
UsedUp(o) ==
    Exhausted(o) \/ Untried(o) = {} \/ "catalogue_error" \in Faults

Caused(o) ==
    /\ order_chains[o].status = "FULFILLED" => Answered(o, "YES")
    /\ order_chains[o].status \in {"FAILED", "FALLBACK_IN_PROGRESS"} =>
          Answered(o, "NO")
    /\ order_chains[o].status = "FAILED" => UsedUp(o)

LEMMA CauseOfOutcome == OutcomeHasCause <=> \A o \in Orders : Caused(o)
BY DEF OutcomeHasCause, Caused, Answered, UsedUp

\* What a vendor answered is never taken back.
AnswersKept ==
    \A s \in Sids : verdict[s] # "NONE" => verdict'[s] = verdict[s]

\* An order that keeps its chain keeps its cause.
LEMMA CauseKept ==
    ASSUME BridgeInv, AnswersKept, NEW o \in Orders,
           order_chains'[o] = order_chains[o]
    PROVE  Caused(o)'
<1>1. SidsOf(o) \subseteq Sids
  BY DEF BridgeInv, StoresInv, TypeOK, Chain, SidsOf
<1>2. Caused(o)
  BY CauseOfOutcome DEF BridgeInv
<1>3. SidsOf(o)' = SidsOf(o)
  BY DEF SidsOf
<1>4. \A x \in SidsOf(o) : verdict[x] # "NONE" => verdict'[x] = verdict[x]
  BY <1>1 DEF AnswersKept
<1>5. QED
  <2>1. UsedUp(o)' <=> UsedUp(o)
    BY DEF UsedUp, Exhausted, Untried, TriedBy
  <2>2. QED
    BY <1>2, <1>3, <1>4, <2>1 DEF Caused, Answered

\* A report that fails an order found nobody left to ask.
LEMMA FailedIsUsedUp ==
    ASSUME NEW s \in Sids, NEW d \in Decisions, NEW o \in Orders,
           order_chains \in [Orders -> Chain],
           o = call_metadata_store[s].order,
           HasChain(o), HandleVendorDecision(s, d),
           order_chains'[o].status = "FAILED"
    PROVE  UsedUp(o)
<1>1. ASSUME NEW status, SetStatus(o, d, status)
      PROVE  status = "FAILED"
  BY <1>1 DEF SetStatus, Chain
<1>2. ASSUME NEW v, NEW n, PlaceCall(o, v, NoCategory, n)
      PROVE  FALSE
  BY <1>2 DEF PlaceCall, NextAttempt, NewChain, Chain
<1>3. CASE d = "NO"
  <2>1. DeclineOrder(o)
    BY <1>3 DEF HandleVendorDecision
  <2>2. CASE SetStatus(o, "NO", "FALLBACK_IN_PROGRESS")
    BY <1>1, <1>3, <2>2
  <2>3. QED
    BY <1>2, <2>1, <2>2 DEF DeclineOrder, UsedUp
<1>4. CASE d # "NO"
  <2>1. SetStatus(o, d, "FULFILLED") \/ SetStatus(o, d, "UNKNOWN")
    BY <1>4 DEF HandleVendorDecision
  <2>2. QED
    BY <1>1, <2>1
<1>5. QED
  BY <1>3, <1>4

\* A call that is placed leaves the outcomes of all orders caused: its own order
\* is open (again), and the others are not touched.
LEMMA PlaceKeeps ==
    ASSUME BridgeInv, NEW o \in Orders, NEW v \in Vendors, NEW n \in Sids,
           NEW cat \in Categories \cup {NoCategory}, PlaceCall(o, v, cat, n),
           AnswersKept
    PROVE  ChainAligned' /\ CallsInChains' /\ OutcomeHasCause'
<1>1. order_chains \in [Orders -> Chain] /\ StoresInv /\ CallsInChains
  BY DEF BridgeInv, StoresInv, TypeOK
<1>2. ChainAligned' /\ CallsInChains'
  BY <1>1, PlaceCallAligned, PlaceCallInChains
<1>3. /\ \A p \in Orders : p # o => order_chains'[p] = order_chains[p]
      /\ order_chains'[o].status = "CALLING"
  BY <1>1 DEF PlaceCall, NextAttempt, NewChain
<1>4. ASSUME NEW p \in Orders
      PROVE  Caused(p)'
  <2>1. CASE p = o
    BY <1>3, <2>1 DEF Caused
  <2>2. CASE p # o
    BY <1>3, <2>2, CauseKept
  <2>3. QED
    BY <2>1, <2>2
<1>5. OutcomeHasCause'
  BY <1>4 DEF OutcomeHasCause, Caused, Answered, UsedUp
<1>6. QED
  BY <1>2, <1>5

\* A client's order.
LEMMA OrderKeeps ==
    ASSUME BridgeInv, NEW o \in Orders, NEW v \in Vendors, NEW n \in Sids,
           NEW cat \in Categories \cup {NoCategory},
           InitiateCall(o, v, cat, n), UNCHANGED posts
    PROVE  BridgeInv'
<1>1. /\ PlaceCall(o, v, cat, n)
      /\ UNCHANGED <<call_transcripts_store, handler, verdict>>
  BY DEF InitiateCall
<1>2. /\ line[n] = "unused"
      /\ \A t \in Sids : line'[t] = "unused" =>
            line[t] = "unused" /\ t # n
      /\ \A t \in Sids : t # n =>
            call_metadata_store'[t] = call_metadata_store[t]
  BY <1>1 DEF PlaceCall, BridgeInv, StoresInv, TypeOK
<1>3. ChainAligned' /\ CallsInChains' /\ OutcomeHasCause'
  BY <1>1, PlaceKeeps DEF AnswersKept
<1>4. TypeOK'
  <2>1. Next
    BY DEF Next
  <2>2. QED
    BY <2>1, TypeStep DEF BridgeInv, StoresInv
<1>5. BridgeTypeOK'
  BY <1>4 DEF BridgeTypeOK, BridgeInv
<1>6. UnusedIsFresh'
  BY <1>1, <1>2 DEF BridgeInv, StoresInv, UnusedIsFresh
<1>7. PostsSound'
  BY <1>1, <1>2 DEF BridgeInv, PostsSound, PostSound
<1>8. ReportsAgree'
  BY <1>1 DEF BridgeInv, ReportsAgree
<1>9. QED
  BY <1>3, <1>4, <1>5, <1>6, <1>7, <1>8 DEF BridgeInv, StoresInv

\* What a report does to the orders: its decision is written to its own order,
\* one of whose vendors gave it, or moves that order on to another vendor.
LEMMA ReportKeepsOrders ==
    ASSUME BridgeInv, NEW s \in Sids, NEW d \in Decisions,
           HandleVendorDecision(s, d),
           verdict' = [verdict EXCEPT ![s] = d], AnswersKept
    PROVE  ChainAligned' /\ CallsInChains' /\ OutcomeHasCause'
<1>1. /\ order_chains \in [Orders -> Chain] /\ StoresInv /\ CallsInChains
      /\ verdict \in [Sids -> Decisions \cup {"NONE"}]
  BY DEF BridgeInv, StoresInv, TypeOK
<1>2. ChainAligned'
  BY <1>1, HandleAligned
<1>3. PICK o : o = call_metadata_store[s].order
  OBVIOUS
<1>4. CASE ~HasChain(o)
  <2>1. UNCHANGED <<order_chains, call_metadata_store>>
    BY <1>3, <1>4 DEF HandleVendorDecision
  <2>2. CallsInChains'
    BY <2>1, CallsStayInChains DEF BridgeInv, HasChain
  <2>3. \A p \in Orders : Caused(p)'
    BY <2>1, CauseKept
  <2>4. OutcomeHasCause'
    BY <2>3 DEF OutcomeHasCause, Caused, Answered, UsedUp
  <2>5. QED
    BY <1>2, <2>2, <2>4
<1>5. CASE HasChain(o)
  <2>1. o \in Orders
    BY <1>5 DEF HasChain
  <2>2. ASSUME NEW status \in Settled \cup {"FALLBACK_IN_PROGRESS"},
               AnswerFor(status) = d, SetStatus(o, d, status)
        PROVE  CallsInChains' /\ OutcomeHasCause'
    <3>1. /\ order_chains'[o].status = status
          /\ order_chains'[o].sids = order_chains[o].sids
          /\ \A p \in Orders : p # o => order_chains'[p] = order_chains[p]
          /\ UNCHANGED call_metadata_store
      BY <1>1, <2>1, <2>2 DEF SetStatus, Chain
    <3>2. HasChain(o)'
      BY <2>1, <3>1 DEF HasChain, Settled
    <3>3. CallsInChains'
      <4>1. \A p \in Orders : /\ order_chains'[p].sids = order_chains[p].sids
                              /\ HasChain(p) => HasChain(p)'
        BY <3>1, <3>2 DEF HasChain
      <4>2. QED
        BY <1>1, <3>1, <4>1, CallsStayInChains
    <3>4. Answered(o, d)'
      <4>1. call_metadata_store[s] # NoMeta
        BY <1>3, <2>1, ConstantsAssumption DEF NoMeta
      <4>2. InChain(o, s)
        BY <1>1, <1>3, <4>1 DEF CallsInChains
      <4>3. s \in SidsOf(o)
        BY <1>1, <2>1, <4>2 DEF InChain, SidsOf, Chain
      <4>4. s \in SidsOf(o)'
        BY <3>1, <4>3 DEF SidsOf
      <4>5. verdict'[s] = d
        BY <1>1
      <4>6. QED
        BY <4>4, <4>5 DEF Answered
    <3>5. Caused(o)'
      <4>1. /\ status = "FULFILLED" => d = "YES"
            /\ status \in {"FAILED", "FALLBACK_IN_PROGRESS"} => d = "NO"
        BY <2>2 DEF AnswerFor
      <4>2. order_chains'[o].status = "FAILED" => UsedUp(o)
        BY <1>1, <1>3, <1>5, <2>1, FailedIsUsedUp
      <4>3. UsedUp(o)' <=> UsedUp(o)
        <5>1. /\ order_chains'[o].attempt = order_chains[o].attempt
              /\ order_chains'[o].tried = order_chains[o].tried
          BY <1>1, <2>1, <2>2 DEF SetStatus, Chain
        <5>2. QED
          BY <5>1 DEF UsedUp, Exhausted, Untried, TriedBy
      <4>4. QED
        BY <3>1, <3>4, <4>1, <4>2, <4>3 DEF Caused
    <3>6. ASSUME NEW p \in Orders
          PROVE  Caused(p)'
      <4>1. CASE p = o
        BY <3>5, <4>1
      <4>2. CASE p # o
        BY <3>1, <4>2, CauseKept
      <4>3. QED
        BY <4>1, <4>2
    <3>7. OutcomeHasCause'
      BY <3>6 DEF OutcomeHasCause, Caused, Answered, UsedUp
    <3>8. QED
      BY <3>3, <3>7
  <2>3. ASSUME NEW v \in Alternatives(o), NEW n \in Sids,
               PlaceCall(o, v, NoCategory, n)
        PROVE  CallsInChains' /\ OutcomeHasCause'
    BY <2>1, <2>3, AlternativesUntried, PlaceKeeps
  <2>4. QED
    BY <1>2, <1>3, <1>5, <2>2, <2>3, HandleCases
<1>6. QED
  BY <1>4, <1>5

\* A report that the server handles, in time or late, once or again.
LEMMA DeliveryKeeps ==
    ASSUME BridgeInv, NEW s \in Sids, Delivered(s)
    PROVE  BridgeInv'
<1>0. PICK p \in PostType : p = posts[s]
  BY PostShape
<1>1. /\ p.inflight > 0 /\ p.tries > 0 /\ line[s] # "unused"
      /\ p.inflight + p.gone <= p.tries
      /\ posts \in [Sids -> PostType]
  BY <1>0, PostShape
  DEF Delivered, PostSound, BridgeInv, BridgeTypeOK, PostType
<1>2. PICK d \in Decisions : d = p.decision
  BY <1>0, <1>1, PostShape
<1>3. /\ HandleVendorDecision(s, d)
      /\ call_transcripts_store' =
            [call_transcripts_store EXCEPT ![s] = [by |-> s, decision |-> d]]
      /\ verdict' = [verdict EXCEPT ![s] = d]
      /\ UNCHANGED <<vendor_context, issued, restarts>>
      /\ UNCHANGED <<handler, active_calls>> \/ BridgeDone(s)
  BY <1>0, <1>2 DEF Delivered, StoreTranscript
<1>4. /\ TypeOK /\ StoresInv
      /\ verdict \in [Sids -> Decisions \cup {"NONE"}]
      /\ call_transcripts_store \in [Sids -> Transcript]
      /\ handler \in [Sids -> {"idle", "starting", "talking", "stopping",
                               "ended", "failed", "dropped"}]
  BY DEF BridgeInv, StoresInv, TypeOK
<1>5. verdict[s] # "NONE" => verdict[s] = d
  BY <1>0, <1>2 DEF BridgeInv, ReportsAgree
<1>6. AnswersKept
  BY <1>3, <1>4, <1>5 DEF AnswersKept
<1>7. ChainAligned' /\ CallsInChains' /\ OutcomeHasCause'
  BY <1>3, <1>6, ReportKeepsOrders
<1>8. PICK w \in BOOLEAN :
          posts' = [posts EXCEPT ![s].inflight = @ - 1, ![s].waiting = w]
  <2>1. \/ posts' = [posts EXCEPT ![s].inflight = @ - 1, ![s].waiting = FALSE]
        \/ posts' = [posts EXCEPT ![s].inflight = @ - 1]
    BY DEF Delivered
  <2>2. CASE posts' = [posts EXCEPT ![s].inflight = @ - 1]
    <3>1. posts' = [posts EXCEPT ![s].inflight = @ - 1,
                                 ![s].waiting = p.waiting]
      BY <1>0, <1>1, <2>2 DEF PostType
    <3>2. p.waiting \in BOOLEAN
      BY DEF PostType
    <3>3. QED
      BY <3>1, <3>2
  <2>3. QED
    BY <2>1, <2>2
<1>9. PICK q : q = [p EXCEPT !.inflight = @ - 1, !.waiting = w]
  OBVIOUS
<1>10. /\ q.inflight = p.inflight - 1 /\ q.gone = p.gone
       /\ q.tries = p.tries /\ q.decision = d
       /\ q = [decision |-> d, tries |-> p.tries, inflight |-> p.inflight - 1,
               gone |-> p.gone, waiting |-> w]
  BY <1>2, <1>9 DEF PostType
<1>11. /\ q \in PostType /\ q.inflight + q.gone <= q.tries /\ q.tries # 0
  BY <1>1, <1>8, <1>10, BridgeAssumption DEF PostType
<1>12. posts' = [posts EXCEPT ![s] = q]
  BY <1>0, <1>1, <1>8, <1>9
<1>13. /\ posts' \in [Sids -> PostType] /\ posts'[s] = q
       /\ \A t \in Sids : t # s => posts'[t] = posts[t]
       /\ verdict'[s] = d
       /\ \A t \in Sids : t # s => verdict'[t] = verdict[t]
  BY <1>1, <1>3, <1>4, <1>11, <1>12
<1>14. \A t \in Sids : line'[t] = "unused" =>
          /\ line[t] = "unused" /\ t # s
          /\ call_metadata_store'[t] = call_metadata_store[t]
          /\ handler'[t] = handler[t]
  <2>1. ASSUME NEW t \in Sids, line'[t] = "unused"
        PROVE  /\ line[t] = "unused" /\ t # s
               /\ call_metadata_store'[t] = call_metadata_store[t]
    BY <1>1, <1>3, <1>4, <2>1, HandleLines
  <2>2. QED
    BY <1>3, <1>4, <2>1 DEF BridgeDone
<1>15. TypeOK'
  <2>1. [by |-> s, decision |-> d] \in Transcript
    BY DEF Transcript
  <2>2. /\ call_transcripts_store' \in [Sids -> Transcript]
        /\ verdict' \in [Sids -> Decisions \cup {"NONE"}]
    BY <1>3, <1>4, <2>1
  <2>3. /\ active_calls' \subseteq Sids
        /\ handler' \in [Sids -> {"idle", "starting", "talking", "stopping",
                                  "ended", "failed", "dropped"}]
    BY <1>3, <1>4 DEF TypeOK, BridgeDone
  <2>4. QED
    BY <1>3, <1>4, <2>2, <2>3, HandleType DEF TypeOK
<1>16. BridgeTypeOK'
  BY <1>13, <1>15 DEF BridgeTypeOK, PostType
<1>17. UnusedIsFresh'
  BY <1>4, <1>13, <1>14 DEF StoresInv, UnusedIsFresh
<1>18. PostsSound'
  <2>1. ASSUME NEW t \in Sids
        PROVE  PostSound(t)'
    <3>1. CASE t = s
      <4>1. line'[s] # "unused"
        BY <1>14
      <4>2. q.tries > 0
        BY <1>1, <1>10
      <4>3. PostSound(s)'
        BY <1>10, <1>11, <1>13, <4>1, <4>2 DEF PostSound
      <4>4. QED
        BY <3>1, <4>3
    <3>2. CASE t # s
      <4>1. PostSound(t)
        BY DEF BridgeInv, PostsSound
      <4>2. /\ posts'[t] = posts[t] /\ verdict'[t] = verdict[t]
            /\ line'[t] = "unused" => line[t] = "unused"
        BY <1>13, <1>14, <3>2
      <4>3. QED
        BY <4>1, <4>2 DEF PostSound
    <3>3. QED
      BY <3>1, <3>2
  <2>2. QED
    BY <2>1 DEF PostsSound
<1>19. ReportsAgree'
  <2>1. ASSUME NEW t \in Sids, verdict'[t] # "NONE"
        PROVE  /\ verdict'[t] = posts'[t].decision
               /\ call_transcripts_store'[t] = [by |-> t, decision |-> verdict'[t]]
    <3>1. CASE t = s
      BY <1>3, <1>4, <1>10, <1>13, <3>1
    <3>2. CASE t # s
      BY <1>3, <1>4, <1>13, <2>1, <3>2 DEF BridgeInv, ReportsAgree
    <3>3. QED
      BY <3>1, <3>2
  <2>2. QED
    BY <2>1 DEF ReportsAgree
<1>20. QED
  BY <1>7, <1>15, <1>16, <1>17, <1>18, <1>19 DEF BridgeInv, StoresInv

-----------------------------------------------------------------------------
(******************************************************************************)
(* The theorems.                                                              *)
(******************************************************************************)

LEMMA InitBridge == BridgeInit => BridgeInv
<1> SUFFICES ASSUME BridgeInit
             PROVE  BridgeInv
  OBVIOUS
<1>1. FallbackInv /\ Init
  BY InitFallback DEF BridgeInit
<1>2. StoresInv /\ CallsInChains /\ TypeOK
  BY <1>1, AlignGivesStores DEF FallbackInv, StoresInv
<1>3. \A s \in Sids : posts[s] = NoPost /\ NoPost \in PostType
  BY BridgeAssumption DEF BridgeInit, NoPost, PostType
<1>4. BridgeTypeOK
  BY <1>2, <1>3 DEF BridgeInit, BridgeTypeOK, PostType
<1>5. OutcomeHasCause
  BY <1>1 DEF Init, NoChain, OutcomeHasCause
<1>6. PostsSound /\ ReportsAgree
  BY <1>1, <1>3 DEF Init, PostsSound, PostSound, NoPost, ReportsAgree
<1>7. QED
  BY <1>2, <1>4, <1>5, <1>6 DEF BridgeInv

LEMMA BridgeSteps ==
    ASSUME BridgeInv, [BridgeNext]_bridge_vars
    PROVE  BridgeInv'
<1>1. ASSUME NEW s \in Sids, BridgeStep(s)
      PROVE  BridgeInv'
  <2>1. CASE \/ BridgeStart(s)
             \/ /\ UNCHANGED posts
                /\ \/ NoAnswer(s) \/ SessionReady(s) \/ SessionFails(s)
                   \/ StreamDrops(s) \/ StopReceived(s)
    BY <2>1, BridgeQuiet DEF BridgeStart
  <2>2. CASE \/ \E d \in Decisions : SendPost(s, d)
             \/ Lost(s) \/ ForwardFails(s) \/ TimesOut(s)
    BY <2>2, RoundSteps
  <2>3. CASE Delivered(s)
    BY <2>3, DeliveryKeeps
  <2>4. QED
    BY <1>1, <2>1, <2>2, <2>3 DEF BridgeStep, Progress
<1>2. CASE UNCHANGED bridge_vars
  <2>1. UNCHANGED vars /\ UNCHANGED posts
    BY <1>2 DEF bridge_vars
  <2>2. TypeOK'
    BY <2>1, TypeStep DEF BridgeInv, StoresInv
  <2>3. BridgeTypeOK'
    BY <2>1, <2>2 DEF BridgeInv, BridgeTypeOK
  <2>4. PostsSound'
    BY <2>1 DEF BridgeInv, PostsSound, PostSound, vars
  <2>5. QED
    BY <2>1, <2>3, <2>4, QuietKeeps DEF vars, stores
<1>3. QED
  BY <1>1, <1>2, OrderKeeps DEF BridgeNext

\* The inductive invariant holds in every reachable state, whichever of the
\* requests between the two processes are slow, lost or swallowed.
THEOREM BridgeInvariant == BridgeSpec => []BridgeInv
<1>1. BridgeInv /\ [BridgeNext]_bridge_vars => BridgeInv'
  BY BridgeSteps
<1>2. QED
  BY <1>1, InitBridge, PTL DEF BridgeSpec

\* The server and the reports of the bridge hold values of their types; in
\* particular no call is reported in more rounds than max_retries.
THEOREM BridgeTyped == BridgeSpec => []BridgeTypeOK
<1>1. BridgeInv => BridgeTypeOK
  BY DEF BridgeInv
<1>2. QED
  BY <1>1, BridgeInvariant, PTL

\* What the server holds for a call is what the bridge decided in the first
\* round, however often and however late it was delivered.
THEOREM OneDecisionPerCall == BridgeSpec => []ReportsAgree
<1>1. BridgeInv => ReportsAgree
  BY DEF BridgeInv
<1>2. QED
  BY <1>1, BridgeInvariant, PTL

\* Late and repeated reports never give an order an outcome that none of its
\* vendors gave.
THEOREM OutcomesCaused == BridgeSpec => []OutcomeHasCause
<1>1. BridgeInv => OutcomeHasCause
  BY DEF BridgeInv
<1>2. QED
  BY <1>1, BridgeInvariant, PTL

\* The records of a chain stay aligned: a report that is handled again adds a
\* whole attempt or none.
THEOREM BridgeChainsAligned == BridgeSpec => []ChainAligned
<1>1. BridgeInv => ChainAligned
  BY DEF BridgeInv, StoresInv
<1>2. QED
  BY <1>1, BridgeInvariant, PTL

-----------------------------------------------------------------------------
(******************************************************************************)
(* The bound on the attempts.  It needs that a client's order is new, so here *)
(* the server draws every order id itself: only handle_vendor_decision adds   *)
(* to a chain, and it compares the count and the names first, whatever it is  *)
(* handling.                                                                  *)
(******************************************************************************)
ChainIssued(o) ==
    IF HasChain(o)
    THEN /\ o \in issued
         /\ order_chains[o].attempt <= MaxAttempts
         /\ DistinctVendors(order_chains[o])
    ELSE order_chains[o] = NoChain

ChainsIssued == \A o \in Orders : ChainIssued(o)

\* A call for a new order, or to a new vendor and in time for an old one, stays
\* within the bound.
LEMMA PlaceKeepsBound ==
    ASSUME BridgeInv, ChainsIssued, NEW o \in Orders, NEW v \in Vendors,
           NEW n \in Sids, NEW cat \in Categories \cup {NoCategory},
           PlaceCall(o, v, cat, n),
           HasChain(o) => ~Exhausted(o) /\ v \in Untried(o),
           issued \subseteq issued', o \in issued'
    PROVE  ChainsIssued'
<1> DEFINE c == order_chains[o]
           e == order_chains'[o]
<1>1. order_chains \in [Orders -> Chain] /\ StoresInv
  BY DEF BridgeInv, StoresInv, TypeOK
<1>2. /\ \A p \in Orders : p # o => order_chains'[p] = order_chains[p]
      /\ e = IF HasChain(o) THEN NextAttempt(c, v, n) ELSE NewChain(v, n, cat)
  BY <1>1 DEF PlaceCall
<1>3. e.status = "CALLING"
  BY <1>2 DEF NextAttempt, NewChain
<1>4. e.attempt <= MaxAttempts
  <2>1. CASE HasChain(o)
    <3>1. c.attempt = Len(c.tried) /\ Len(c.tried) \in Nat
      BY <1>1, <2>1, StoredShape
    <3>2. e.attempt = Len(c.tried) + 1
      BY <1>2, <2>1 DEF NextAttempt
    <3>3. c.attempt < MaxAttempts
      BY <2>1, <3>1, ConstantsAssumption DEF Exhausted
    <3>4. QED
      BY <3>1, <3>2, <3>3, ConstantsAssumption
  <2>2. CASE ~HasChain(o)
    <3>1. e.attempt = 1
      BY <1>2, <2>2 DEF NewChain
    <3>2. QED
      BY <3>1, ConstantsAssumption
  <2>3. QED
    BY <2>1, <2>2
<1>5. DistinctVendors(e)
  <2>1. CASE HasChain(o)
    <3>1. c.tried \in Seq(Vendors) /\ DOMAIN c.tried = 1..Len(c.tried)
      BY <1>1, <2>1, StoredShape
    <3>2. DistinctVendors(c)
      BY <2>1 DEF ChainsIssued, ChainIssued
    <3>3. \A i \in 1..Len(c.tried) : Lower[c.tried[i]] # Lower[v]
      BY <2>1, <3>1 DEF Untried, TriedBy
    <3>4. e.tried = Append(c.tried, v)
      BY <1>2, <2>1, NextAttemptFields
    <3> HIDE DEF c, e
    <3>5. /\ e.tried[Len(c.tried) + 1] = v
          /\ \A i \in 1..Len(c.tried) : e.tried[i] = c.tried[i]
          /\ \A i \in 1..Len(e.tried) : i \in 1..Len(c.tried)
                                         \/ i = Len(c.tried) + 1
      BY <3>1, <3>4, AppendShape
    <3>6. QED
      BY <3>2, <3>3, <3>5 DEF DistinctVendors
  <2>2. CASE ~HasChain(o)
    <3>1. e.tried = <<v>>
      BY <1>2, <2>2 DEF NewChain
    <3>2. \A i \in 1..Len(<<v>>) : i = 1
      OBVIOUS
    <3>3. QED
      BY <3>1, <3>2 DEF DistinctVendors
  <2>3. QED
    BY <2>1, <2>2
<1>6. ASSUME NEW p \in Orders
      PROVE  ChainIssued(p)'
  <2>1. CASE p = o
    BY <1>3, <1>4, <1>5, <2>1 DEF ChainIssued, HasChain, DistinctVendors
  <2>2. CASE p # o
    BY <1>2, <2>2 DEF ChainsIssued, ChainIssued, HasChain
  <2>3. QED
    BY <2>1, <2>2
<1>7. QED
  BY <1>6 DEF ChainsIssued

\* Every step keeps the bound; the report of any call at any time included.
LEMMA IssuedSteps ==
    ASSUME ~ClientOrderIds, BridgeInv, ChainsIssued, [BridgeNext]_bridge_vars
    PROVE  ChainsIssued'
<1>1. ASSUME NEW o \in Orders, NEW v \in Vendors, NEW n \in Sids,
             NEW cat \in Categories \cup {NoCategory},
             InitiateCall(o, v, cat, n)
      PROVE  ChainsIssued'
  <2>1. o \notin issued /\ issued' = issued \cup {o} /\ PlaceCall(o, v, cat, n)
    BY <1>1 DEF InitiateCall
  <2>2. ~HasChain(o)
    BY <2>1 DEF ChainsIssued, ChainIssued
  <2>3. QED
    BY <2>1, <2>2, PlaceKeepsBound
<1>2. ASSUME UNCHANGED <<order_chains, issued>>
      PROVE  ChainsIssued'
  BY <1>2 DEF ChainsIssued, ChainIssued, HasChain, DistinctVendors
<1>3. ASSUME NEW s \in Sids, Delivered(s)
      PROVE  ChainsIssued'
  <2>1. PICK d \in Decisions : d = posts[s].decision
    BY <1>3, PostShape DEF Delivered
  <2>2. HandleVendorDecision(s, d) /\ UNCHANGED issued
    BY <1>3, <2>1 DEF Delivered, StoreTranscript
  <2>3. PICK o : o = call_metadata_store[s].order
    OBVIOUS
  <2>4. CASE ~HasChain(o)
    BY <1>2, <2>2, <2>3, <2>4 DEF HandleVendorDecision
  <2>5. CASE HasChain(o)
    <3>1. o \in Orders /\ o \in issued
      BY <2>5 DEF HasChain, ChainsIssued, ChainIssued
    <3>2. ASSUME NEW status \in Settled \cup {"FALLBACK_IN_PROGRESS"},
                 SetStatus(o, d, status)
          PROVE  ChainsIssued'
      <4>1. order_chains \in [Orders -> Chain]
        BY DEF BridgeInv, StoresInv, TypeOK
      <4>2. /\ order_chains'[o].status = status
            /\ order_chains'[o].attempt = order_chains[o].attempt
            /\ order_chains'[o].tried = order_chains[o].tried
            /\ \A p \in Orders : p # o => order_chains'[p] = order_chains[p]
        BY <3>1, <3>2, <4>1 DEF SetStatus, Chain
      <4>3. status # "NONE"
        BY DEF Settled
      <4>4. ASSUME NEW p \in Orders
            PROVE  ChainIssued(p)'
        <5>1. CASE p = o
          BY <2>2, <2>5, <3>1, <4>2, <4>3, <5>1
          DEF ChainsIssued, ChainIssued, HasChain, DistinctVendors
        <5>2. CASE p # o
          BY <2>2, <4>2, <5>2
          DEF ChainsIssued, ChainIssued, HasChain, DistinctVendors
        <5>3. QED
          BY <5>1, <5>2
      <4>5. QED
        BY <4>4 DEF ChainsIssued
    <3>3. ASSUME ~Exhausted(o), NEW v \in Alternatives(o), NEW n \in Sids,
                 PlaceCall(o, v, NoCategory, n)
          PROVE  ChainsIssued'
      BY <2>2, <3>1, <3>3, AlternativesUntried, PlaceKeepsBound
    <3>4. QED
      BY <2>2, <2>3, <2>5, <3>2, <3>3, HandleCases
  <2>6. QED
    BY <2>4, <2>5
<1>4. ASSUME NEW s \in Sids, BridgeStep(s), ~Delivered(s)
      PROVE  ChainsIssued'
  BY <1>2, <1>4
  DEF BridgeStep, Progress, BridgeStart, NoAnswer, StartStream, SessionReady,
      SessionFails, StreamDrops, StopReceived, SendPost, Lost, ForwardFails,
      TimesOut, stores, vars
<1>5. CASE UNCHANGED bridge_vars
  BY <1>2, <1>5 DEF bridge_vars, vars
<1>6. QED
  BY <1>1, <1>3, <1>4, <1>5 DEF BridgeNext

\* A report that is handled again can move its order on again, but never past
\* max_attempts.
THEOREM BridgeOffersBounded ==
    ASSUME ~ClientOrderIds
    PROVE  BridgeSpec => []AttemptsBounded
<1>1. BridgeInit => ChainsIssued
  BY DEF BridgeInit, Init, ChainsIssued, ChainIssued, HasChain, NoChain
<1>2. BridgeInv /\ ChainsIssued /\ [BridgeNext]_bridge_vars => ChainsIssued'
  BY IssuedSteps
<1>3. ChainsIssued => AttemptsBounded
  <2> SUFFICES ASSUME ChainsIssued, NEW o \in Orders
               PROVE  order_chains[o].attempt <= MaxAttempts
    BY DEF AttemptsBounded
  <2>1. ChainIssued(o)
    BY DEF ChainsIssued
  <2>2. NoChain.attempt = 0
    BY DEF NoChain
  <2>3. QED
    BY <2>1, <2>2, ConstantsAssumption DEF ChainIssued
<1>4. QED
  BY <1>1, <1>2, <1>3, BridgeInvariant, PTL DEF BridgeSpec

\* Nor does it ever make the server call a vendor that the order was offered to
\* before, in whatever spelling its name came.
THEOREM BridgeAsksNobodyTwice ==
    ASSUME ~ClientOrderIds
    PROVE  BridgeSpec => []NoVendorTwice
<1>1. BridgeInit => ChainsIssued
  BY DEF BridgeInit, Init, ChainsIssued, ChainIssued, HasChain, NoChain
<1>2. BridgeInv /\ ChainsIssued /\ [BridgeNext]_bridge_vars => ChainsIssued'
  BY IssuedSteps
<1>3. BridgeInv /\ ChainsIssued => NoVendorTwice
  <2> SUFFICES ASSUME BridgeInv, ChainsIssued, NEW o \in Orders,
                      NEW i \in DOMAIN order_chains[o].tried,
                      NEW j \in DOMAIN order_chains[o].tried,
                      Lower[order_chains[o].tried[i]] =
                          Lower[order_chains[o].tried[j]]
               PROVE  i = j
    BY DEF NoVendorTwice
  <2>1. ChainIssued(o)
    BY DEF ChainsIssued
  <2>2. DOMAIN NoChain.tried = {}
    BY DEF NoChain
  <2>3. order_chains[o].tried \in Seq(Vendors)
    BY DEF BridgeInv, StoresInv, TypeOK, Chain
  <2>4. QED
    BY <2>1, <2>2, <2>3 DEF ChainIssued, DistinctVendors
<1>4. QED
  BY <1>1, <1>2, <1>3, BridgeInvariant, PTL DEF BridgeSpec
==============================================================================
