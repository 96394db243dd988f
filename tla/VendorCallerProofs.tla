------------------------- MODULE VendorCallerProofs -------------------------
(******************************************************************************)
(* Theorems about VendorCaller, for every set of orders, calls and vendors,   *)
(* every number of attempts and every combination of faults.                  *)
(******************************************************************************)
EXTENDS VendorCaller, TLAPS

-----------------------------------------------------------------------------
(******************************************************************************)
(* Type correctness.                                                          *)
(******************************************************************************)

\* initiate_twilio_call keeps the types of what it writes.
LEMMA PlaceCallType ==
    ASSUME TypeOK, NEW o \in Orders, NEW v \in Vendors, NEW n \in Sids,
           NEW cat \in Categories \cup {NoCategory}, PlaceCall(o, v, cat, n)
    PROVE  /\ line' \in [Sids -> {"unused", "ringing", "answered", "missed"}]
           /\ call_metadata_store' \in [Sids -> Meta]
           /\ order_chains' \in [Orders -> Chain]
<1>1. [order |-> o, vendor |-> v] \in Meta
  BY DEF Meta
<1>2. NewChain(v, n, cat) \in Chain
  BY DEF NewChain, Chain, Statuses, Settled, Decisions
<1>3. NextAttempt(order_chains[o], v, n) \in Chain
  <2>1. order_chains[o] \in Chain
    BY DEF TypeOK
  <2>2. QED
    BY <2>1 DEF NextAttempt, Chain, Statuses, Settled, Decisions
<1>4. QED
  BY <1>1, <1>2, <1>3 DEF PlaceCall, TypeOK

\* handle_vendor_decision keeps the types of what it writes.
LEMMA SetStatusType ==
    ASSUME TypeOK, NEW o \in Orders, NEW d \in Decisions,
           NEW status \in Statuses, SetStatus(o, d, status)
    PROVE  /\ order_chains' \in [Orders -> Chain]
           /\ UNCHANGED <<line, call_metadata_store>>
<1> DEFINE e == [order_chains[o] EXCEPT !.decision = d, !.status = status]
<1>1. order_chains \in [Orders -> Chain]
  BY DEF TypeOK
<1>2. e \in Chain
  <2>1. order_chains[o] \in Chain
    BY <1>1
  <2>2. QED
    BY <2>1 DEF Chain
<1>3. order_chains' = [order_chains EXCEPT ![o] = e]
  BY <1>1 DEF SetStatus
<1>4. QED
  BY <1>1, <1>2, <1>3 DEF SetStatus

\* What handle_vendor_decision does to an order it knows: it writes the status
\* that the decision stands for, or places the call to an alternative vendor.
LEMMA HandleCases ==
    ASSUME NEW s \in Sids, NEW d \in Decisions, NEW o,
           o = call_metadata_store[s].order,
           HasChain(o), HandleVendorDecision(s, d)
    PROVE  \/ \E status \in Settled \cup {"FALLBACK_IN_PROGRESS"} :
                 AnswerFor(status) = d /\ SetStatus(o, d, status)
           \/ /\ d = "NO" /\ ~Exhausted(o)
              /\ \E v \in Alternatives(o), n \in Sids :
                    PlaceCall(o, v, NoCategory, n)
<1>1. CASE d = "NO"
  <2>1. DeclineOrder(o)
    BY <1>1 DEF HandleVendorDecision
  <2>2. AnswerFor("FAILED") = "NO" /\ AnswerFor("FALLBACK_IN_PROGRESS") = "NO"
    BY DEF AnswerFor
  <2>3. QED
    BY <1>1, <2>1, <2>2 DEF DeclineOrder, Settled
<1>2. CASE d = "YES"
  <2>1. SetStatus(o, d, "FULFILLED")
    BY <1>2 DEF HandleVendorDecision
  <2>2. QED
    BY <1>2, <2>1 DEF AnswerFor, Settled
<1>3. CASE d = "UNKNOWN"
  <2>1. SetStatus(o, d, "UNKNOWN")
    BY <1>3 DEF HandleVendorDecision
  <2>2. QED
    BY <1>3, <2>1 DEF AnswerFor, Settled
<1>4. QED
  BY <1>1, <1>2, <1>3 DEF Decisions

\* The alternatives are vendors of the catalogue that were not tried.
LEMMA AlternativesUntried ==
    ASSUME NEW o
    PROVE  Alternatives(o) \subseteq Untried(o) /\ Untried(o) \subseteq Vendors
BY ConstantsAssumption DEF Alternatives, Untried

LEMMA HandleType ==
    ASSUME TypeOK, NEW s \in Sids, NEW d \in Decisions,
           HandleVendorDecision(s, d)
    PROVE  /\ line' \in [Sids -> {"unused", "ringing", "answered", "missed"}]
           /\ call_metadata_store' \in [Sids -> Meta]
           /\ order_chains' \in [Orders -> Chain]
<1> DEFINE o == call_metadata_store[s].order
<1>1. CASE ~HasChain(o)
  BY <1>1 DEF HandleVendorDecision, TypeOK, DeclineOrder, SetStatus, PlaceCall
<1>2. CASE HasChain(o)
  <2>1. o \in Orders
    BY <1>2 DEF HasChain
  <2>2. \/ \E status \in Statuses : SetStatus(o, d, status)
        \/ \E v \in Vendors, n \in Sids : PlaceCall(o, v, NoCategory, n)
    BY <1>2, HandleCases, AlternativesUntried DEF Statuses
  <2>3. CASE \E status \in Statuses : SetStatus(o, d, status)
    BY <2>1, <2>3, SetStatusType DEF TypeOK
  <2>4. CASE \E v \in Vendors, n \in Sids : PlaceCall(o, v, NoCategory, n)
    BY <2>1, <2>4, PlaceCallType
  <2>5. QED
    BY <2>2, <2>3, <2>4
<1>3. QED
  BY <1>1, <1>2

\* The types of the stores before a step hold after it.
LEMMA TypeStep ==
    ASSUME TypeOK, [Next]_vars
    PROVE  TypeOK'
<1>1. ASSUME NEW o \in Orders, NEW v \in Vendors, NEW n \in Sids,
             NEW cat \in Categories \cup {NoCategory},
             InitiateCall(o, v, cat, n)
      PROVE  TypeOK'
  <2>1. PlaceCall(o, v, cat, n)
    BY <1>1 DEF InitiateCall
  <2>2. QED
    BY <1>1, <2>1, PlaceCallType DEF InitiateCall, TypeOK
<1>2. ASSUME NEW s \in Sids, NoAnswer(s)
      PROVE  TypeOK'
  BY <1>2 DEF NoAnswer, TypeOK, stores
<1>3. ASSUME NEW s \in Sids, StartStream(s)
      PROVE  TypeOK'
  <2>1. (IF call_metadata_store[s] # NoMeta
         THEN call_metadata_store[s].vendor ELSE Generic)
           \in Vendors \cup {NoVendor, Generic}
    BY DEF TypeOK, Meta
  <2>2. QED
    BY <1>3, <2>1 DEF StartStream, TypeOK, stores
<1>4. ASSUME NEW s \in Sids, SessionReady(s)
      PROVE  TypeOK'
  BY <1>4 DEF SessionReady, TypeOK, stores
<1>5. ASSUME NEW s \in Sids, SessionFails(s)
      PROVE  TypeOK'
  BY <1>5 DEF SessionFails, TypeOK, stores
<1>6. ASSUME NEW s \in Sids, StreamDrops(s)
      PROVE  TypeOK'
  BY <1>6 DEF StreamDrops, TypeOK, stores
<1>7. ASSUME NEW s \in Sids, StopReceived(s)
      PROVE  TypeOK'
  BY <1>7 DEF StopReceived, TypeOK, stores
<1>8. ASSUME NEW s \in Sids, NEW d \in Decisions, StopFinished(s, d)
      PROVE  TypeOK'
  <2>1. HandleVendorDecision(s, d)
    BY <1>8 DEF StopFinished
  <2>2. [by |-> s, decision |-> d] \in Transcript
    BY DEF Transcript
  <2>3. call_transcripts_store' \in [Sids -> Transcript]
    BY <1>8, <2>2 DEF StopFinished, TypeOK
  <2>4. /\ active_calls' \subseteq Sids
        /\ verdict' \in [Sids -> Decisions \cup {"NONE"}]
        /\ handler' \in [Sids -> {"idle", "starting", "talking", "stopping",
                                  "ended", "failed", "dropped"}]
    BY <1>8 DEF StopFinished, TypeOK
  <2>5. QED
    BY <1>8, <2>1, <2>3, <2>4, HandleType DEF StopFinished, TypeOK
<1>9. ASSUME Restart
      PROVE  TypeOK'
  BY <1>9, ConstantsAssumption
  DEF Restart, TypeOK, NoMeta, Meta, NoTranscript, Transcript, NoChain,
      Chain, Statuses, Settled
<1>10. CASE UNCHANGED vars
  BY <1>10 DEF vars, TypeOK
<1>11. QED
  BY <1>1, <1>2, <1>3, <1>4, <1>5, <1>6, <1>7, <1>8, <1>9, <1>10
  DEF Next, CallStep

\* The stores are empty, and typed, when the process starts.
LEMMA InitType == Init => TypeOK
BY ConstantsAssumption
DEF Init, TypeOK, NoMeta, Meta, NoTranscript, Transcript, NoChain, Chain,
    Statuses, Settled

\* Every store holds values of its type, in every reachable state.
THEOREM TypeCorrect == Spec => []TypeOK
BY InitType, TypeStep, PTL DEF Spec

-----------------------------------------------------------------------------
(******************************************************************************)
(* The bookkeeping of the chains.  ChainAligned becomes inductive with        *)
(* facts about calls: a SID that was not handed out yet has no trace in       *)
(* the stores, only a finished call has a verdict, and only a call that       *)
(* was answered has a web socket handler.                                     *)
(******************************************************************************)
UnusedIsFresh ==
    \A s \in Sids : line[s] = "unused" =>
        /\ call_metadata_store[s] = NoMeta
        /\ handler[s] = "idle"
        /\ verdict[s] = "NONE"

VerdictAtEnd == \A s \in Sids : verdict[s] # "NONE" => handler[s] = "ended"

RingingIsIdle == \A s \in Sids : handler[s] # "idle" => line[s] = "answered"

CallsInv == TypeOK /\ UnusedIsFresh /\ VerdictAtEnd /\ RingingIsIdle
AlignInv == CallsInv /\ ChainAligned

\* What the handling of a decision needs of it, and what is left of it when
\* another process reports the calls (RemoteBridgeProofs).
StoresInv == TypeOK /\ UnusedIsFresh /\ ChainAligned

LEMMA AlignGivesStores == AlignInv => StoresInv
BY DEF AlignInv, CallsInv, StoresInv

\* The calls of a chain were handed out, so a fresh SID is in no chain.
LEMMA ChainSidsUsed ==
    ASSUME StoresInv, NEW o \in Orders, HasChain(o),
           NEW i \in 1..Len(order_chains[o].sids)
    PROVE  /\ order_chains[o].sids[i] \in Sids
           /\ line[order_chains[o].sids[i]] # "unused"
<1>1. order_chains[o].sids \in Seq(Sids)
  BY DEF StoresInv, TypeOK, Chain
<1>2. order_chains[o].sids[i] \in Sids
  BY <1>1
<1>3. call_metadata_store[order_chains[o].sids[i]].order = o
  <2>1. AlignedChain(o)
    BY DEF StoresInv, ChainAligned
  <2>2. call_metadata_store[order_chains[o].sids[i]] =
            [order |-> o, vendor |-> order_chains[o].tried[i]]
    BY <2>1 DEF AlignedChain
  <2>3. QED
    BY <2>2
<1>4. QED
  BY <1>2, <1>3, ConstantsAssumption
  DEF StoresInv, UnusedIsFresh, NoMeta

\* The fields of the chain after another attempt.
LEMMA NextAttemptFields ==
    ASSUME NEW c, NEW v, NEW n
    PROVE  /\ NextAttempt(c, v, n).tried = Append(c.tried, v)
           /\ NextAttempt(c, v, n).sids = Append(c.sids, n)
           /\ NextAttempt(c, v, n).attempt = Len(c.tried) + 1
           /\ NextAttempt(c, v, n).status = "CALLING"
BY DEF NextAttempt

\* What Append does to a sequence, by index.
LEMMA AppendShape ==
    ASSUME NEW S, NEW q \in Seq(S), NEW x \in S
    PROVE  LET r == Append(q, x)
           IN  /\ Len(q) \in Nat /\ r \in Seq(S)
               /\ Len(r) = Len(q) + 1
               /\ r[Len(q) + 1] = x
               /\ \A i \in 1..Len(q) : i \in 1..Len(r) /\ r[i] = q[i]
               /\ \A i \in 1..Len(r) : i \in 1..Len(q) \/ i = Len(q) + 1
OBVIOUS

\* Placing a call keeps every chain aligned.
LEMMA PlaceCallAligned ==
    ASSUME StoresInv, NEW o \in Orders, NEW v \in Vendors, NEW n \in Sids,
           NEW cat \in Categories \cup {NoCategory}, PlaceCall(o, v, cat, n)
    PROVE  ChainAligned'
<1> SUFFICES ASSUME NEW p \in Orders, HasChain(p)'
             PROVE  AlignedChain(p)'
  BY DEF ChainAligned
<1> DEFINE c == order_chains[o]
<1>1. /\ order_chains \in [Orders -> Chain]
      /\ call_metadata_store \in [Sids -> Meta]
      /\ c.tried \in Seq(Vendors) /\ c.sids \in Seq(Sids)
  BY DEF StoresInv, TypeOK, Chain
<1>2. \A q \in Orders : HasChain(q) =>
        \A i \in 1..Len(order_chains[q].sids) :
            order_chains[q].sids[i] \in Sids \ {n}
  BY ChainSidsUsed DEF PlaceCall
<1>3. CASE p # o
  <2>1. order_chains'[p] = order_chains[p]
    BY <1>1, <1>3 DEF PlaceCall
  <2>2. HasChain(p) /\ AlignedChain(p)
    BY <2>1 DEF HasChain, StoresInv, ChainAligned
  <2>3. \A i \in 1..Len(order_chains[p].sids) :
            call_metadata_store'[order_chains[p].sids[i]] =
            call_metadata_store[order_chains[p].sids[i]]
    BY <1>1, <1>2, <2>2 DEF PlaceCall
  <2>4. QED
    BY <2>1, <2>2, <2>3 DEF AlignedChain
<1>4. CASE p = o /\ ~HasChain(o)
  <2>1. order_chains'[o] = NewChain(v, n, cat)
    BY <1>1, <1>4 DEF PlaceCall
  <2>2. call_metadata_store'[n] = [order |-> o, vendor |-> v]
    BY <1>1 DEF PlaceCall
  <2>3. QED
    BY <1>4, <2>1, <2>2 DEF AlignedChain, NewChain
<1>5. CASE p = o /\ HasChain(o)
  <2> DEFINE d == order_chains'[o]
  <2>1. d = NextAttempt(c, v, n)
    BY <1>1, <1>5 DEF PlaceCall
  <2>2. d.tried = Append(c.tried, v) /\ d.sids = Append(c.sids, n)
        /\ d.attempt = Len(c.tried) + 1
    BY <2>1 DEF NextAttempt
  <2>3. AlignedChain(o)
    BY <1>5 DEF StoresInv, ChainAligned
  <2>4. /\ Len(c.tried) \in Nat /\ Len(c.sids) = Len(c.tried)
        /\ \A i \in 1..Len(c.sids) :
              call_metadata_store[c.sids[i]] =
                  [order |-> o, vendor |-> c.tried[i]]
        /\ \A i, j \in 1..Len(c.sids) : c.sids[i] = c.sids[j] => i = j
    BY <1>1, <2>3 DEF AlignedChain
  <2>5. /\ Len(d.tried) = Len(c.tried) + 1 /\ Len(d.sids) = Len(c.tried) + 1
        /\ \A i \in 1..Len(c.sids) : d.sids[i] = c.sids[i]
                                     /\ d.tried[i] = c.tried[i]
        /\ d.sids[Len(c.sids) + 1] = n /\ d.tried[Len(c.sids) + 1] = v
    BY <1>1, <2>2, <2>4
  <2>6. \A i \in 1..Len(c.sids) : c.sids[i] \in Sids \ {n}
    BY <1>2, <1>5
  <2>7. \A i \in 1..Len(d.sids) :
            call_metadata_store'[d.sids[i]] =
                [order |-> o, vendor |-> d.tried[i]]
    <3> SUFFICES ASSUME NEW i \in 1..Len(d.sids)
                 PROVE  call_metadata_store'[d.sids[i]] =
                            [order |-> o, vendor |-> d.tried[i]]
      OBVIOUS
    <3>0. /\ call_metadata_store'[n] = [order |-> o, vendor |-> v]
          /\ \A t \in Sids \ {n} :
                call_metadata_store'[t] = call_metadata_store[t]
      BY <1>1 DEF PlaceCall
    <3>1. CASE i = Len(c.sids) + 1
      BY <2>5, <3>0, <3>1
    <3>2. CASE i \in 1..Len(c.sids)
      <4>1. d.sids[i] = c.sids[i] /\ d.tried[i] = c.tried[i]
            /\ c.sids[i] \in Sids \ {n}
        BY <2>5, <2>6, <3>2
      <4>2. QED
        BY <2>4, <3>0, <3>2, <4>1
    <3>3. i \in 1..Len(c.sids) \/ i = Len(c.sids) + 1
      <4> HIDE DEF c, d
      <4>1. QED
        BY <2>4, <2>5
    <3>4. QED
      BY <3>1, <3>2, <3>3
  <2>8. \A i, j \in 1..Len(d.sids) : d.sids[i] = d.sids[j] => i = j
    <3> SUFFICES ASSUME NEW i \in 1..Len(d.sids), NEW j \in 1..Len(d.sids),
                        d.sids[i] = d.sids[j]
                 PROVE  i = j
      OBVIOUS
    <3>1. \A k \in 1..Len(d.sids) :
              k \in 1..Len(c.sids) \/ k = Len(c.sids) + 1
      BY <2>4, <2>5
    <3>2. \A k \in 1..Len(c.sids) : d.sids[k] # d.sids[Len(c.sids) + 1]
      BY <2>5, <2>6
    <3>3. CASE i \in 1..Len(c.sids) /\ j \in 1..Len(c.sids)
      BY <2>4, <2>5, <3>3
    <3>4. QED
      BY <3>1, <3>2, <3>3
  <2>9. d.attempt = Len(d.tried) /\ d.attempt = Len(d.sids) /\ d.attempt > 0
    <3> HIDE DEF c, d
    <3>1. QED
      BY <2>2, <2>4, <2>5
  <2>10. AlignedChain(o)'
    BY <2>7, <2>8, <2>9 DEF AlignedChain
  <2>11. QED
    BY <1>5, <2>10
<1>6. QED
  BY <1>3, <1>4, <1>5

\* Writing a status keeps every chain aligned.
LEMMA SetStatusAligned ==
    ASSUME StoresInv, NEW o \in Orders, HasChain(o), NEW d \in Decisions,
           NEW status \in Statuses, SetStatus(o, d, status)
    PROVE  ChainAligned'
<1> SUFFICES ASSUME NEW p \in Orders, HasChain(p)'
             PROVE  AlignedChain(p)'
  BY DEF ChainAligned
<1>1. order_chains \in [Orders -> Chain]
  BY DEF StoresInv, TypeOK
<1>2. /\ order_chains'[p].tried = order_chains[p].tried
      /\ order_chains'[p].sids = order_chains[p].sids
      /\ order_chains'[p].attempt = order_chains[p].attempt
      /\ call_metadata_store' = call_metadata_store
  BY <1>1 DEF SetStatus, Chain
<1>3. HasChain(p)
  BY <1>1 DEF SetStatus, Chain, HasChain
<1>4. QED
  BY <1>2, <1>3 DEF StoresInv, ChainAligned, AlignedChain


\* Handling a decision keeps every chain aligned, whatever it is and however
\* often it is handled.
LEMMA HandleAligned ==
    ASSUME StoresInv, NEW s \in Sids, NEW d \in Decisions,
           HandleVendorDecision(s, d)
    PROVE  ChainAligned'
<1> DEFINE o == call_metadata_store[s].order
<1>1. CASE ~HasChain(o)
  <2>1. UNCHANGED <<order_chains, call_metadata_store>>
    BY <1>1 DEF HandleVendorDecision
  <2>2. QED
    BY <2>1 DEF StoresInv, ChainAligned, AlignedChain, HasChain
<1>2. CASE HasChain(o)
  <2>1. o \in Orders
    BY <1>2 DEF HasChain
  <2>2. \/ \E status \in Statuses : SetStatus(o, d, status)
        \/ \E v \in Vendors, n \in Sids : PlaceCall(o, v, NoCategory, n)
    BY <1>2, HandleCases, AlternativesUntried DEF Statuses
  <2>3. QED
    BY <1>2, <2>1, <2>2, SetStatusAligned, PlaceCallAligned
<1>3. QED
  BY <1>1, <1>2

\* Handling a decision hands out at most one SID, and leaves the metadata of
\* the others alone.
LEMMA HandleLines ==
    ASSUME TypeOK, NEW s \in Sids, NEW d \in Decisions,
           HandleVendorDecision(s, d)
    PROVE  \A t \in Sids :
              /\ line'[t] = "unused" =>
                    /\ line[t] = "unused"
                    /\ call_metadata_store'[t] = call_metadata_store[t]
              /\ line[t] = "answered" => line'[t] = "answered"
<1> DEFINE o == call_metadata_store[s].order
<1>1. CASE ~HasChain(o)
  BY <1>1 DEF HandleVendorDecision
<1>2. CASE HasChain(o)
  <2>1. CASE \E status \in Statuses : SetStatus(o, d, status)
    BY <2>1 DEF SetStatus
  <2>2. CASE \E v \in Vendors, n \in Sids : PlaceCall(o, v, NoCategory, n)
    BY <2>2 DEF PlaceCall, TypeOK
  <2>3. QED
    BY <1>2, <2>1, <2>2, HandleCases, AlternativesUntried DEF Statuses
<1>3. QED
  BY <1>1, <1>2

\* The facts about calls are kept by every step.
LEMMA CallsStep == CallsInv /\ TypeOK' /\ [Next]_vars => CallsInv'
<1> SUFFICES ASSUME CallsInv, TypeOK', [Next]_vars
             PROVE  UnusedIsFresh' /\ VerdictAtEnd' /\ RingingIsIdle'
  BY DEF CallsInv
<1> USE DEF UnusedIsFresh, VerdictAtEnd, RingingIsIdle
<1>0. /\ line \in [Sids -> {"unused", "ringing", "answered", "missed"}]
      /\ call_metadata_store \in [Sids -> Meta]
      /\ handler \in [Sids -> {"idle", "starting", "talking", "stopping",
                               "ended", "failed", "dropped"}]
      /\ verdict \in [Sids -> Decisions \cup {"NONE"}]
      /\ UnusedIsFresh /\ VerdictAtEnd /\ RingingIsIdle
  BY DEF CallsInv, TypeOK
<1>1. ASSUME NEW o \in Orders, NEW v \in Vendors, NEW n \in Sids,
             NEW cat \in Categories \cup {NoCategory},
             InitiateCall(o, v, cat, n)
      PROVE  UnusedIsFresh' /\ VerdictAtEnd' /\ RingingIsIdle'
  BY <1>0, <1>1 DEF InitiateCall, PlaceCall
<1>2. ASSUME NEW s \in Sids, NoAnswer(s)
      PROVE  UnusedIsFresh' /\ VerdictAtEnd' /\ RingingIsIdle'
  BY <1>0, <1>2 DEF NoAnswer, stores
<1>3. ASSUME NEW s \in Sids, StartStream(s)
      PROVE  UnusedIsFresh' /\ VerdictAtEnd' /\ RingingIsIdle'
  BY <1>0, <1>3 DEF StartStream, stores
<1>4. ASSUME NEW s \in Sids, SessionReady(s)
      PROVE  UnusedIsFresh' /\ VerdictAtEnd' /\ RingingIsIdle'
  BY <1>0, <1>4 DEF SessionReady, stores
<1>5. ASSUME NEW s \in Sids, SessionFails(s)
      PROVE  UnusedIsFresh' /\ VerdictAtEnd' /\ RingingIsIdle'
  BY <1>0, <1>5 DEF SessionFails, stores
<1>6. ASSUME NEW s \in Sids, StreamDrops(s)
      PROVE  UnusedIsFresh' /\ VerdictAtEnd' /\ RingingIsIdle'
  BY <1>0, <1>6 DEF StreamDrops, stores
<1>7. ASSUME NEW s \in Sids, StopReceived(s)
      PROVE  UnusedIsFresh' /\ VerdictAtEnd' /\ RingingIsIdle'
  BY <1>0, <1>7 DEF StopReceived, stores
<1>8. ASSUME NEW s \in Sids, NEW d \in Decisions, StopFinished(s, d)
      PROVE  UnusedIsFresh' /\ VerdictAtEnd' /\ RingingIsIdle'
  <2>1. /\ handler[s] = "stopping" /\ handler' = [handler EXCEPT ![s] = "ended"]
        /\ verdict' = [verdict EXCEPT ![s] = d]
        /\ HandleVendorDecision(s, d)
    BY <1>8 DEF StopFinished
  <2>2. \A t \in Sids :
            /\ line'[t] = "unused" =>
                  /\ line[t] = "unused"
                  /\ call_metadata_store'[t] = call_metadata_store[t]
            /\ line[t] = "answered" => line'[t] = "answered"
    BY <2>1, HandleLines DEF CallsInv
  <2>3. QED
    BY <1>0, <2>1, <2>2
<1>9. ASSUME Restart
      PROVE  UnusedIsFresh' /\ VerdictAtEnd' /\ RingingIsIdle'
  BY <1>0, <1>9 DEF Restart
<1>10. CASE UNCHANGED vars
  BY <1>0, <1>10 DEF vars
<1>11. QED
  BY <1>1, <1>2, <1>3, <1>4, <1>5, <1>6, <1>7, <1>8, <1>9, <1>10
  DEF Next, CallStep

\* Every step keeps the chains aligned.
LEMMA AlignStep == AlignInv /\ [Next]_vars => ChainAligned'
<1> SUFFICES ASSUME AlignInv, [Next]_vars
             PROVE  ChainAligned'
  OBVIOUS
<1>1. ASSUME UNCHANGED <<order_chains, call_metadata_store>>
      PROVE  ChainAligned'
  BY <1>1 DEF AlignInv, ChainAligned, AlignedChain, HasChain
<1>2. ASSUME NEW o \in Orders, NEW v \in Vendors, NEW n \in Sids,
             NEW cat \in Categories \cup {NoCategory},
             InitiateCall(o, v, cat, n)
      PROVE  ChainAligned'
  BY <1>2, AlignGivesStores, PlaceCallAligned DEF InitiateCall
<1>3. ASSUME NEW s \in Sids, CallStep(s)
      PROVE  ChainAligned'
  <2>1. ASSUME NEW d \in Decisions, StopFinished(s, d)
        PROVE  ChainAligned'
    BY <2>1, AlignGivesStores, HandleAligned DEF StopFinished
  <2>2. CASE ~\E d \in Decisions : StopFinished(s, d)
    BY <1>1, <1>3, <2>2
    DEF CallStep, NoAnswer, StartStream, SessionReady, SessionFails,
        StreamDrops, StopReceived, stores
  <2>3. QED
    BY <2>1, <2>2
<1>4. CASE Restart
  BY <1>4 DEF Restart, ChainAligned, HasChain, NoChain
<1>5. CASE UNCHANGED vars
  BY <1>1, <1>5 DEF vars
<1>6. QED
  BY <1>2, <1>3, <1>4, <1>5 DEF Next

\* The parallel records of every order chain agree in every reachable state,
\* also when clients reuse order ids and whatever faults occur.
THEOREM Aligned == Spec => []ChainAligned
<1>1. Init => CallsInv /\ ChainAligned
  BY ConstantsAssumption
  DEF Init, CallsInv, UnusedIsFresh, VerdictAtEnd, RingingIsIdle, ChainAligned,
      HasChain, TypeOK, NoMeta, Meta, NoTranscript, Transcript, NoChain, Chain,
      Statuses, Settled
<1>2. CallsInv /\ ChainAligned /\ TypeOK' /\ [Next]_vars
        => (CallsInv /\ ChainAligned)'
  BY CallsStep, AlignStep DEF AlignInv
<1>3. QED
  BY <1>1, <1>2, TypeCorrect, PTL DEF Spec
=============================================================================
