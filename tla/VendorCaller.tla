---------------------------- MODULE VendorCaller ----------------------------
(******************************************************************************)
(* The vendor calling server of the cloud deployment                          *)
(* (cloud/agentcore_agents/vendor_caller/cloud_server.py): one asyncio        *)
(* process that places Twilio calls, bridges each call to a voice agent       *)
(* over a web socket, decides from the conversation whether the vendor        *)
(* accepted, and calls an alternative vendor when the answer was NO.          *)
(*                                                                            *)
(* The process is single threaded, so a handler is atomic between two of      *)
(* its awaits; every action below is one such stretch.  A conversation is     *)
(* abstracted to the decision that detect_vendor_decision reads from it.      *)
(******************************************************************************)
EXTENDS Integers, Sequences, FiniteSets

CONSTANTS
    Orders,         \* order ids (uuid4 when the client sends none)
    Sids,           \* call SIDs that Twilio can hand out
    Vendors,        \* vendor names, as spelled by clients or by the catalogue
    Catalogue,      \* the names the product table holds
    Lower,          \* str.lower on names: Lower[v] is v's spelling-free name
    Categories,     \* order categories
    Sells,          \* Sells[v]: the categories that v has a product in
    MaxAttempts,    \* "max_attempts" of a new order chain
    ClientOrderIds, \* TRUE: clients may send the id of an order issued before
    Faults,         \* the faults the environment may produce
    MaxRestarts,    \* bound on process restarts
    NoOrder, NoVendor, NoCall, NoCategory

FaultKinds == {"twilio_error", "catalogue_error", "no_answer",
               "session_error", "drop", "restart"}

ASSUME ConstantsAssumption ==
    /\ Catalogue \subseteq Vendors
    /\ Lower \in [Vendors -> Vendors]
    /\ Sells \in [Vendors -> SUBSET Categories]
    /\ MaxAttempts \in Nat \ {0}
    /\ MaxRestarts \in Nat
    /\ ClientOrderIds \in BOOLEAN
    /\ Faults \subseteq FaultKinds
    /\ NoOrder \notin Orders
    /\ NoVendor \notin Vendors
    /\ NoCall \notin Sids
    /\ NoCategory \notin Categories

VARIABLES
    \* the stores of the process
    call_metadata_store,    \* sid -> the order and the vendor of the call
    call_transcripts_store, \* sid -> whose conversation is filed there
    order_chains,           \* order -> chain of attempts
    active_calls,           \* sids with a registered agent
    \* the web socket handler of each call
    handler,                \* sid -> where media_stream_handler stands
    vendor_context,         \* sid -> the vendor the agent believes it calls
    \* the environment
    line,                   \* sid -> Twilio's side of the call
    issued,                 \* order ids drawn so far
    restarts,               \* process restarts so far
    \* history
    verdict                 \* sid -> the decision reported for the call

stores == <<call_metadata_store, call_transcripts_store, order_chains>>
vars == <<call_metadata_store, call_transcripts_store, order_chains,
          active_calls, handler, vendor_context, line, issued, restarts,
          verdict>>

Decisions == {"YES", "NO", "UNKNOWN"}
Settled   == {"FULFILLED", "FAILED", "UNKNOWN"}
Statuses  == Settled \cup {"CALLING", "FALLBACK_IN_PROGRESS", "NONE"}

NoMeta       == [order |-> NoOrder, vendor |-> NoVendor]
NoTranscript == [by |-> NoCall, decision |-> "NONE"]
NoChain      == [status |-> "NONE", decision |-> "PENDING", attempt |-> 0,
                 tried |-> <<>>, sids |-> <<>>, category |-> NoCategory]

Meta       == [order : Orders \cup {NoOrder}, vendor : Vendors \cup {NoVendor}]
Transcript == [by : Sids \cup {NoCall}, decision : Decisions \cup {"NONE"}]
Chain      == [status : Statuses, decision : Decisions \cup {"PENDING"},
               attempt : Nat, tried : Seq(Vendors), sids : Seq(Sids),
               category : Categories \cup {NoCategory}]

Generic == "generic"        \* the context used when no metadata is found

TypeOK ==
    /\ call_metadata_store \in [Sids -> Meta]
    /\ call_transcripts_store \in [Sids -> Transcript]
    /\ order_chains \in [Orders -> Chain]
    /\ active_calls \subseteq Sids
    /\ handler \in [Sids -> {"idle", "starting", "talking", "stopping",
                             "ended", "failed", "dropped"}]
    /\ vendor_context \in [Sids -> Vendors \cup {NoVendor, Generic}]
    /\ line \in [Sids -> {"unused", "ringing", "answered", "missed"}]
    /\ issued \subseteq Orders
    /\ restarts \in 0..MaxRestarts
    /\ verdict \in [Sids -> Decisions \cup {"NONE"}]

HasChain(o) == o \in Orders /\ order_chains[o].status # "NONE"
FirstSid(o) == order_chains[o].sids[1]
LastSid(o)  == order_chains[o].sids[Len(order_chains[o].sids)]
SidsOf(o)   == {order_chains[o].sids[i] : i \in DOMAIN order_chains[o].sids}
TriedBy(o)  == {Lower[order_chains[o].tried[i]] :
                    i \in DOMAIN order_chains[o].tried}

-----------------------------------------------------------------------------
(******************************************************************************)
(* find_alternative_vendor: a name of the catalogue not tried yet, in any     *)
(* spelling; one with a product in the order's category if there is one.      *)
(* The table scan returns the products in no specified order, so any of       *)
(* the eligible names may come first.                                         *)
(******************************************************************************)
Untried(o) == {v \in Catalogue : Lower[v] \notin TriedBy(o)}

\* Faulty variant, for mutation checks: no preference for the category.
AlternativesAnyCategory(o) == Untried(o)

Alternatives(o) ==
    LET same == {v \in Untried(o) : order_chains[o].category \in Sells[v]}
    IN  IF same # {} THEN same ELSE Untried(o)

(******************************************************************************)
(* initiate_twilio_call once Twilio has accepted the call and returned the    *)
(* SID n.  There is no await between the call's creation and the stores.      *)
(******************************************************************************)
NewChain(v, n, cat) ==
    [status |-> "CALLING", decision |-> "PENDING", attempt |-> 1,
     tried |-> <<v>>, sids |-> <<n>>, category |-> cat]

\* Faulty variant, for mutation checks: the call's SID is not recorded.
NextAttemptNoSid(c, v, n) ==
    [c EXCEPT !.tried = Append(c.tried, v), !.attempt = Len(c.tried) + 1,
              !.status = "CALLING", !.decision = "PENDING"]

NextAttempt(c, v, n) ==
    [status |-> "CALLING", decision |-> "PENDING", attempt |-> Len(c.tried) + 1,
     tried |-> Append(c.tried, v), sids |-> Append(c.sids, n),
     category |-> c.category]

PlaceCall(o, v, cat, n) ==
    /\ line[n] = "unused"
    /\ line' = [line EXCEPT ![n] = "ringing"]
    /\ call_metadata_store' =
          [call_metadata_store EXCEPT ![n] = [order |-> o, vendor |-> v]]
    /\ order_chains' =
          [order_chains EXCEPT ![o] = IF HasChain(o)
                                      THEN NextAttempt(order_chains[o], v, n)
                                      ELSE NewChain(v, n, cat)]

(******************************************************************************)
(* handle_vendor_decision(sid, d).  The NO branch has four outcomes: the      *)
(* attempts are used up, no alternative is found (a failing lookup counts     *)
(* as none), the fallback call is placed, or Twilio refuses the call and      *)
(* the chain is left in FALLBACK_IN_PROGRESS.                                 *)
(******************************************************************************)
SetStatus(o, d, status) ==
    /\ order_chains' = [order_chains EXCEPT ![o].decision = d,
                                            ![o].status = status]
    /\ UNCHANGED <<call_metadata_store, line>>

\* Faulty variant, for mutation checks: off by one.
ExhaustedLate(o) == order_chains[o].attempt > MaxAttempts

Exhausted(o) == order_chains[o].attempt >= MaxAttempts

\* Faulty variant, for mutation checks: gives up when the category has no vendor left.
DeclineOrderInCategory(o) ==
    \/ /\ \/ Exhausted(o)
          \/ \A v \in Untried(o) : order_chains[o].category \notin Sells[v]
       /\ SetStatus(o, "NO", "FAILED")
    \/ /\ ~Exhausted(o)
       /\ \E v \in Alternatives(o), n \in Sids : PlaceCall(o, v, NoCategory, n)

DeclineOrder(o) ==
    \/ /\ \/ Exhausted(o)
          \/ Untried(o) = {}
          \/ "catalogue_error" \in Faults
       /\ SetStatus(o, "NO", "FAILED")
    \/ /\ ~Exhausted(o)
       /\ \E v \in Alternatives(o), n \in Sids : PlaceCall(o, v, NoCategory, n)
    \/ /\ ~Exhausted(o)
       /\ Untried(o) # {}
       /\ "twilio_error" \in Faults
       /\ SetStatus(o, "NO", "FALLBACK_IN_PROGRESS")

\* Faulty variant, for mutation checks: an unclear answer counts as acceptance.
HandleUnclearAsYes(s, d) ==
    LET o == call_metadata_store[s].order
    IN  \/ /\ ~HasChain(o)
           /\ UNCHANGED <<order_chains, call_metadata_store, line>>
        \/ HasChain(o) /\ d # "NO" /\ SetStatus(o, d, "FULFILLED")
        \/ HasChain(o) /\ d = "NO" /\ DeclineOrder(o)

\* Faulty variant, for mutation checks: an unclear answer is not handled.
HandleOnlyYesNo(s, d) ==
    LET o == call_metadata_store[s].order
    IN  \/ /\ ~HasChain(o) \/ d = "UNKNOWN"
           /\ UNCHANGED <<order_chains, call_metadata_store, line>>
        \/ HasChain(o) /\ d = "YES" /\ SetStatus(o, d, "FULFILLED")
        \/ HasChain(o) /\ d = "NO" /\ DeclineOrder(o)

HandleVendorDecision(s, d) ==
    LET o == call_metadata_store[s].order
    IN  \/ /\ ~HasChain(o)
           /\ UNCHANGED <<order_chains, call_metadata_store, line>>
        \/ HasChain(o) /\ d = "YES" /\ SetStatus(o, d, "FULFILLED")
        \/ HasChain(o) /\ d = "NO" /\ DeclineOrder(o)
        \/ HasChain(o) /\ d = "UNKNOWN" /\ SetStatus(o, d, "UNKNOWN")

-----------------------------------------------------------------------------
(******************************************************************************)
(* initiate_call_api.  Without a client order id a fresh one is drawn; a      *)
(* refused call (missing credentials, a Twilio error) changes nothing.        *)
(******************************************************************************)
InitiateCall(o, v, cat, n) ==
    /\ o \notin issued \/ ClientOrderIds
    /\ PlaceCall(o, v, cat, n)
    /\ issued' = issued \cup {o}
    /\ UNCHANGED <<call_transcripts_store, active_calls, handler,
                   vendor_context, restarts, verdict>>

\* The vendor does not pick up: the server has no status callback and never
\* learns of it.
NoAnswer(s) ==
    /\ "no_answer" \in Faults
    /\ line[s] = "ringing"
    /\ line' = [line EXCEPT ![s] = "missed"]
    /\ UNCHANGED <<stores, active_calls, handler, vendor_context, issued,
                   restarts, verdict>>

\* Faulty variant, for mutation checks: the wrong field of the metadata.
StartStreamOrder(s) ==
    /\ line[s] = "ringing"
    /\ line' = [line EXCEPT ![s] = "answered"]
    /\ handler' = [handler EXCEPT ![s] = "starting"]
    /\ vendor_context' =
          [vendor_context EXCEPT ![s] = call_metadata_store[s].order]
    /\ UNCHANGED <<stores, active_calls, issued, restarts, verdict>>

\* Faulty variant, for mutation checks: the agent greets the order's first vendor.
StartStreamFirstVendor(s) ==
    LET o == call_metadata_store[s].order
    IN  /\ line[s] = "ringing"
        /\ line' = [line EXCEPT ![s] = "answered"]
        /\ handler' = [handler EXCEPT ![s] = "starting"]
        /\ vendor_context' =
              [vendor_context EXCEPT ![s] =
                  IF HasChain(o) THEN order_chains[o].tried[1] ELSE Generic]
        /\ UNCHANGED <<stores, active_calls, issued, restarts, verdict>>

\* The "start" event: look up the call's metadata, then await the session.
StartStream(s) ==
    /\ line[s] = "ringing"
    /\ line' = [line EXCEPT ![s] = "answered"]
    /\ handler' = [handler EXCEPT ![s] = "starting"]
    /\ vendor_context' =
          [vendor_context EXCEPT ![s] =
              IF call_metadata_store[s] # NoMeta
              THEN call_metadata_store[s].vendor ELSE Generic]
    /\ UNCHANGED <<stores, active_calls, issued, restarts, verdict>>

\* The voice session is up: start forwarding audio and register the call.
SessionReady(s) ==
    /\ handler[s] = "starting"
    /\ handler' = [handler EXCEPT ![s] = "talking"]
    /\ active_calls' = active_calls \cup {s}
    /\ UNCHANGED <<stores, vendor_context, line, issued, restarts, verdict>>

\* start_session or start_audio_input raises: the handler unwinds.
SessionFails(s) ==
    /\ "session_error" \in Faults
    /\ handler[s] = "starting"
    /\ handler' = [handler EXCEPT ![s] = "failed"]
    /\ UNCHANGED <<stores, active_calls, vendor_context, line, issued,
                   restarts, verdict>>

\* The web socket closes without a "stop" event: only the agent is ended,
\* the call stays registered and nothing is filed.
StreamDrops(s) ==
    /\ "drop" \in Faults
    /\ handler[s] = "talking"
    /\ handler' = [handler EXCEPT ![s] = "dropped"]
    /\ UNCHANGED <<stores, active_calls, vendor_context, line, issued,
                   restarts, verdict>>

\* The "stop" event, up to the awaits that end the voice session.
StopReceived(s) ==
    /\ handler[s] = "talking"
    /\ s \in active_calls
    /\ handler' = [handler EXCEPT ![s] = "stopping"]
    /\ UNCHANGED <<stores, active_calls, vendor_context, line, issued,
                   restarts, verdict>>

\* Faulty variant, for mutation checks: a repeated "stop" is handled again.
StopFinishedAgain(s, d) ==
    LET o   == call_metadata_store[s].order
        rec == [by |-> s, decision |-> d]
    IN  /\ handler[s] = "stopping"
        /\ HandleVendorDecision(s, d)
        /\ call_transcripts_store' =
              [call_transcripts_store EXCEPT
                  ![s] = rec,
                  ![IF HasChain(o) THEN FirstSid(o) ELSE s] = rec]
        /\ verdict' = [verdict EXCEPT ![s] = d]
        /\ UNCHANGED <<handler, active_calls, vendor_context, issued, restarts>>

\* Faulty variants, for mutation checks: the transcript is filed under the given
\* SIDs only, this call's own or the first of the order.
FileUnder(s, d, targets) ==
    /\ handler[s] = "stopping"
    /\ handler' = [handler EXCEPT ![s] = "ended"]
    /\ HandleVendorDecision(s, d)
    /\ call_transcripts_store' =
          [t \in Sids |-> IF t \in targets THEN [by |-> s, decision |-> d]
                          ELSE call_transcripts_store[t]]
    /\ active_calls' = active_calls \ {s}
    /\ verdict' = [verdict EXCEPT ![s] = d]
    /\ UNCHANGED <<vendor_context, issued, restarts>>

StopFinishedNoCopy(s, d) == FileUnder(s, d, {s})

StopFinishedCopyOnly(s, d) ==
    LET o == call_metadata_store[s].order
    IN  FileUnder(s, d, {IF HasChain(o) THEN FirstSid(o) ELSE s})

\* The rest of the "stop" event, without an await: file the transcript,
\* handle the decision, copy a fallback call's transcript to the first SID
\* of the order, unregister the call.
StopFinished(s, d) ==
    LET o   == call_metadata_store[s].order
        rec == [by |-> s, decision |-> d]
    IN  /\ handler[s] = "stopping"
        /\ handler' = [handler EXCEPT ![s] = "ended"]
        /\ HandleVendorDecision(s, d)
        /\ call_transcripts_store' =
              [call_transcripts_store EXCEPT
                  ![s] = rec,
                  ![IF HasChain(o) THEN FirstSid(o) ELSE s] = rec]
        /\ active_calls' = active_calls \ {s}
        /\ verdict' = [verdict EXCEPT ![s] = d]
        /\ UNCHANGED <<vendor_context, issued, restarts>>

(******************************************************************************)
(* store_transcript_api: what another process reports of a call.  It files    *)
(* the transcript under the reported SID only.  No action of this module      *)
(* takes it; RemoteBridge says who does and when.                             *)
(******************************************************************************)
StoreTranscript(s, d) ==
    /\ call_transcripts_store' =
          [call_transcripts_store EXCEPT ![s] = [by |-> s, decision |-> d]]
    /\ HandleVendorDecision(s, d)
    /\ verdict' = [verdict EXCEPT ![s] = d]

\* The process dies and starts again: every store was in memory, every open
\* web socket is lost, a phone that rings keeps ringing.
Restart ==
    /\ "restart" \in Faults
    /\ restarts < MaxRestarts
    /\ restarts' = restarts + 1
    /\ call_metadata_store' = [s \in Sids |-> NoMeta]
    /\ call_transcripts_store' = [s \in Sids |-> NoTranscript]
    /\ order_chains' = [o \in Orders |-> NoChain]
    /\ active_calls' = {}
    /\ handler' = [s \in Sids |->
                      IF handler[s] \in {"starting", "talking", "stopping"}
                      THEN "dropped" ELSE handler[s]]
    /\ UNCHANGED <<vendor_context, line, issued, verdict>>

-----------------------------------------------------------------------------
Init ==
    /\ call_metadata_store = [s \in Sids |-> NoMeta]
    /\ call_transcripts_store = [s \in Sids |-> NoTranscript]
    /\ order_chains = [o \in Orders |-> NoChain]
    /\ active_calls = {}
    /\ handler = [s \in Sids |-> "idle"]
    /\ vendor_context = [s \in Sids |-> NoVendor]
    /\ line = [s \in Sids |-> "unused"]
    /\ issued = {}
    /\ restarts = 0
    /\ verdict = [s \in Sids |-> "NONE"]

CallStep(s) ==
    \/ NoAnswer(s)
    \/ StartStream(s)
    \/ SessionReady(s)
    \/ SessionFails(s)
    \/ StreamDrops(s)
    \/ StopReceived(s)
    \/ \E d \in Decisions : StopFinished(s, d)

Next ==
    \/ \E o \in Orders, v \in Vendors, n \in Sids,
          cat \in Categories \cup {NoCategory} : InitiateCall(o, v, cat, n)
    \/ \E s \in Sids : CallStep(s)
    \/ Restart

Spec == Init /\ [][Next]_vars

(******************************************************************************)
(* A ringing phone is answered or given up, a session that is being set up    *)
(* comes up or fails, a conversation ends, and the event loop finishes the    *)
(* "stop" handler (its longest await, end_session, has a timeout of its       *)
(* own).  Nothing obliges a client to order or the process to restart.        *)
(******************************************************************************)
FairSpec == Spec /\ \A s \in Sids : WF_vars(CallStep(s))
-----------------------------------------------------------------------------
(******************************************************************************)
(* Safety.                                                                    *)
(******************************************************************************)

AlignedChain(o) ==
    LET c == order_chains[o]
    IN  /\ c.attempt = Len(c.tried)
        /\ c.attempt = Len(c.sids)
        /\ c.attempt > 0
        /\ \A i \in 1..Len(c.sids) :
              call_metadata_store[c.sids[i]] =
                  [order |-> o, vendor |-> c.tried[i]]
        /\ \A i, j \in 1..Len(c.sids) : c.sids[i] = c.sids[j] => i = j

\* The three parallel records of a chain agree: the attempt number, the
\* vendors tried and the calls placed have the same length, the i-th call's
\* metadata names this order and the i-th vendor, and no call is in the chain
\* twice or in two chains (initiate_twilio_call appends to them separately).
ChainAligned == \A o \in Orders : HasChain(o) => AlignedChain(o)

\* An order is offered at most max_attempts times (handle_vendor_decision
\* compares the count before it calls again).
AttemptsBounded ==
    \A o \in Orders : order_chains[o].attempt <= MaxAttempts

\* No vendor is offered the same order twice, however its name is spelled
\* (find_alternative_vendor compares lower-cased names).
NoVendorTwice ==
    \A o \in Orders : \A i, j \in DOMAIN order_chains[o].tried :
        Lower[order_chains[o].tried[i]] = Lower[order_chains[o].tried[j]]
            => i = j

\* Nobody can be asked to supply an order while another vendor is still being
\* asked: of an order's calls only the last can be unfinished.
Unfinished(s) == line[s] \in {"ringing", "answered"} /\ verdict[s] = "NONE"

OneOfferAtATime ==
    \A o \in Orders : HasChain(o) =>
        \A s \in SidsOf(o) : Unfinished(s) => s = LastSid(o)

AnswerFor(status) ==
    CASE status = "FULFILLED" -> "YES"
      [] status \in {"FAILED", "FALLBACK_IN_PROGRESS"} -> "NO"
      [] status = "UNKNOWN" -> "UNKNOWN"
      [] status = "CALLING" -> "NONE"

\* What a chain's status claims about the vendors' answers is what they
\* answered: every vendor before the last declined, and the last one's answer
\* is the one the status stands for.
StatusIsEarned ==
    \A o \in Orders : HasChain(o) =>
        LET c == order_chains[o]
        IN  /\ \A i \in 1..(Len(c.sids) - 1) : verdict[c.sids[i]] = "NO"
            /\ verdict[LastSid(o)] = AnswerFor(c.status)

\* An order is given up only when its attempts are used up or no vendor is
\* left to ask, unless the vendor lookup itself failed.
FailedMeansExhausted ==
    \A o \in Orders : order_chains[o].status = "FAILED" =>
        \/ order_chains[o].attempt = MaxAttempts
        \/ Untried(o) = {}
        \/ "catalogue_error" \in Faults

\* The dashboard polls the SID of an order's first call: what is filed there
\* is the conversation of the latest call that was reported, so an order that
\* reads FULFILLED never shows a rejection there.
Reported(o) == {s \in SidsOf(o) : verdict[s] # "NONE"}

FirstSidShowsLatest ==
    \A o \in Orders : HasChain(o) /\ Reported(o) # {} =>
        LET c      == order_chains[o]
            latest == c.sids[Len(c.sids) -
                             (IF verdict[LastSid(o)] = "NONE" THEN 1 ELSE 0)]
        IN  call_transcripts_store[FirstSid(o)] =
                [by |-> latest, decision |-> verdict[latest]]

\* Each later call of an order keeps its own transcript under its own SID;
\* the copy to the first SID never lands on another call.
OwnTranscriptKept ==
    \A o \in Orders : HasChain(o) =>
        \A s \in SidsOf(o) \ {FirstSid(o)} : verdict[s] # "NONE" =>
            call_transcripts_store[s] = [by |-> s, decision |-> verdict[s]]

\* The agent introduces itself to the vendor that the call was placed to: the
\* metadata is in the store before the vendor can pick up.
AgentKnowsItsVendor ==
    \A s \in Sids : handler[s] # "idle" /\ call_metadata_store[s] # NoMeta =>
        vendor_context[s] = call_metadata_store[s].vendor

-----------------------------------------------------------------------------
(******************************************************************************)
(* Action properties.                                                         *)
(******************************************************************************)

\* A settled order stays as it was settled until the process restarts: no
\* late event reopens it, and no vendor is called for it again.
SettledIsFinal ==
    [][\A o \in Orders :
          order_chains[o].status \in Settled =>
              order_chains'[o] = order_chains[o] \/ restarts' # restarts]_vars

\* A vendor outside the order's category is called only when no vendor of the
\* category is left: the first loop of find_alternative_vendor comes first.
CategoryFirst ==
    [][\A o \in Orders :
          /\ HasChain(o)
          /\ Len(order_chains'[o].tried) > Len(order_chains[o].tried)
          => LET c == order_chains[o]
                 v == order_chains'[o].tried[Len(c.tried) + 1]
             IN  c.category \in Sells[v]
                 \/ \A w \in Untried(o) : c.category \notin Sells[w]]_vars

-----------------------------------------------------------------------------
(******************************************************************************)
(* Liveness.                                                                  *)
(******************************************************************************)

\* Every order a client places is settled in the end.
EveryOrderSettles ==
    \A o \in Orders : HasChain(o) ~> order_chains[o].status \in Settled
=============================================================================
