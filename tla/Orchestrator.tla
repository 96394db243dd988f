---------------------------- MODULE Orchestrator ----------------------------
(******************************************************************************)
(* VendorOrchestratorV2.place_order_with_fallback of the local deployment     *)
(* (local/agents/vendor_caller/vendor_orchestrator_v2.py) over the backend:   *)
(* one purchase.  It ranks the vendors, then calls one after the other        *)
(* through /api/call-vendor and polls the backend for what became of each     *)
(* call.  To the backend every attempt is an order of its own.                *)
(*                                                                            *)
(* Waits are bounded in seconds; when one runs out is left open, and          *)
(* Timeouts says which may run out before the awaited event.  A request that  *)
(* fails is caught and counts as one whose wait ran out.                      *)
(******************************************************************************)
EXTENDS LocalBackend, SequencesExt

CONSTANTS
    MaxVendors,     \* self.max_attempts
    VendorLists,    \* what the vendor database may return, by priority
    DefaultVendors, \* the vendors used when it returns nothing
    Stripped,       \* str.strip on names
    Lowered,        \* str.strip and str.lower on names
    Preferences,    \* preferred_vendor_name: vendors or NoVendor
    Timeouts

ASSUME OrchestratorAssumption ==
    /\ ~SendsCategory       \* _make_vendor_call sends no category
    /\ MaxVendors \in Nat \ {0}
    /\ VendorLists \subseteq Seq(Vendors)
    /\ DefaultVendors \in Seq(Vendors) \ {<<>>}
    /\ Stripped \in [Vendors -> Vendors]
    /\ Lowered \in [Vendors -> Vendors]
    /\ Preferences \subseteq {v \in Vendors : Stripped[v] = v} \cup {NoVendor}
    /\ Timeouts \subseteq {"call_vendor", "call_status", "transcript", "decision"}

VARIABLES
    preferred,  \* the vendor of the dashboard's row, if any
    plan,       \* the vendors to call, in order
    attempts,   \* the attempts so far: vendor, SID and decision
    step,       \* where the coroutine stands
    outcome,    \* what it returned
    late        \* history: a wait has run out before what it waited for, or a
                \* request failed

orch_vars == <<preferred, plan, attempts, step, outcome, late>>
all_vars  == <<vars, orch_vars>>

\* What analyze_transcript may say of a transcript; an UNCLEAR passes on like
\* a MAYBE.
Heard == Decisions \cup {"MAYBE"}

Attempt == [vendor : Vendors, sid : Sids \cup {NoCall},
            decision : Heard \cup {"NONE"}]

OrchTypeOK ==
    /\ preferred \in Vendors \cup {NoVendor}
    /\ plan \in Seq(Vendors)
    /\ attempts \in Seq(Attempt)
    /\ step \in {"start", "dial", "dialling", "watch", "read", "end"}
    /\ outcome \in {"none", "success", "declined", "incomplete"}
    /\ late \in BOOLEAN

-----------------------------------------------------------------------------
\* Faulty variant, for mutation checks: an unlisted preference is tried last.
PrioritizedLast(vs, p) ==
    LET matches == {i \in DOMAIN vs : Lowered[vs[i]] = Lowered[p]}
        at      == CHOOSE i \in matches : \A j \in matches : i <= j
    IN  CASE p = NoVendor -> vs
          [] p # NoVendor /\ matches = {} -> Append(vs, p)
          [] OTHER -> <<vs[at]>> \o RemoveAt(vs, at)

\* _get_vendors_for_order: the vendor of the dashboard's row comes first,
\* whether the database knows it (in any spelling) or not.
Prioritized(vs, p) ==
    LET matches == {i \in DOMAIN vs : Lowered[vs[i]] = Lowered[p]}
        at      == CHOOSE i \in matches : \A j \in matches : i <= j
    IN  CASE p = NoVendor -> vs
          [] p # NoVendor /\ matches = {} -> <<p>> \o vs
          [] OTHER -> <<vs[at]>> \o RemoveAt(vs, at)

\* The elements of a sequence at some of its positions, in their order.
Pick(positions, seq) ==
    LET at(k) == CHOOSE i \in positions :
                    Cardinality({j \in positions : j <= i}) = k
    IN  [k \in 1..Cardinality(positions) |-> seq[at(k)]]

\* Faulty variant, for mutation checks: repeated names stay.
RepeatedNames(vs) == vs

\* Where a vendor stands whose name was not met before, blanks around it aside.
FirstMet(vs) ==
    {i \in DOMAIN vs : \A j \in DOMAIN vs :
        j < i => Stripped[vs[j]] # Stripped[vs[i]]}

\* unique_vendors: the first vendor of each name, in their order.
UniqueNames(vs) == Pick(FirstMet(vs), vs)

Plan(vs, p) ==
    LET known  == IF vs = <<>> THEN DefaultVendors ELSE vs
        unique == UniqueNames(Prioritized(known, p))
    IN  IF Len(unique) > MaxVendors THEN SubSeq(unique, 1, MaxVendors)
        ELSE unique

-----------------------------------------------------------------------------
Current == attempts[Len(attempts)]

WaitRunsOut(kind) == kind \in Timeouts /\ late' = TRUE

MakePlan ==
    /\ step = "start"
    /\ \E vs \in VendorLists : plan' = Plan(vs, preferred)
    /\ step' = "dial"
    /\ UNCHANGED <<vars, preferred, attempts, outcome, late>>

\* /api/call-vendor at the backend, which places the call.
Dial(o, n) ==
    LET v == plan[Len(attempts) + 1]
    IN  /\ step = "dial"
        /\ \E c \in Categories : CallVendor(o, v, c, n)
        /\ attempts' =
              Append(attempts, [vendor |-> v, sid |-> n, decision |-> "NONE"])
        /\ step' = "dialling"
        /\ UNCHANGED <<preferred, plan, outcome, late>>

Called ==
    /\ step = "dialling"
    /\ step' = "watch"
    /\ UNCHANGED <<vars, preferred, plan, attempts, outcome, late>>

\* After an attempt without success: the next vendor, or "All vendors
\* declined the order".
NextOrDone ==
    IF Len(attempts') < Len(plan)
    THEN step' = "dial" /\ UNCHANGED outcome
    ELSE step' = "end" /\ outcome' = "declined"

\* Faulty variant, for mutation checks: the attempt is recorded without its vendor.
DialRefusedUnnamed ==
    /\ step = "dial"
    /\ "twilio_error" \in Faults
    /\ attempts' = Append(attempts, [vendor |-> NoVendor,
                                     sid |-> NoCall, decision |-> "NO"])
    /\ NextOrDone
    /\ UNCHANGED <<vars, preferred, plan, late>>

\* The backend refuses the call.
DialRefused ==
    /\ step = "dial"
    /\ "twilio_error" \in Faults
    /\ attempts' = Append(attempts, [vendor |-> plan[Len(attempts) + 1],
                                     sid |-> NoCall, decision |-> "NO"])
    /\ NextOrDone
    /\ UNCHANGED <<vars, preferred, plan, late>>

\* The backend's answer takes too long: the call is on its way, but counts as
\* one that failed to start.
DialTimeout ==
    /\ step = "dialling"
    /\ WaitRunsOut("call_vendor")
    /\ attempts' = [attempts EXCEPT ![Len(attempts)].decision = "NO"]
    /\ NextOrDone
    /\ UNCHANGED <<vars, preferred, plan>>

\* _check_call_status: the call is over, or the wait is and nobody knows.
CallEnded ==
    /\ step = "watch"
    /\ \/ line[Current.sid] = "over" /\ UNCHANGED late
       \/ WaitRunsOut("call_status")
    /\ step' = "read"
    /\ UNCHANGED <<vars, preferred, plan, attempts, outcome>>

\* Faulty variant, for mutation checks: a call that is not answered is not noticed.
CallIncompleteUnnoticed ==
    /\ step = "watch"
    /\ line[Current.sid] = "ringing" /\ WaitRunsOut("call_status")
    /\ attempts' = [attempts EXCEPT ![Len(attempts)].decision = "NO"]
    /\ step' = "end"
    /\ outcome' = "incomplete"
    /\ UNCHANGED <<vars, preferred, plan>>

\* Nobody picked up, or not that the orchestrator saw in time: the purchase
\* stops without asking anybody else.
CallIncomplete ==
    /\ step = "watch"
    /\ \/ line[Current.sid] = "missed" /\ UNCHANGED late
       \/ WaitRunsOut("call_status")
    /\ attempts' = [attempts EXCEPT ![Len(attempts)].decision = "NO"]
    /\ step' = "end"
    /\ outcome' = "incomplete"
    /\ UNCHANGED <<vars, preferred, plan>>

\* A YES ends the purchase; NO, UNKNOWN and MAYBE pass on to the next vendor.
Decide(d) ==
    /\ attempts' = [attempts EXCEPT ![Len(attempts)].decision = d]
    /\ IF d = "YES" THEN step' = "end" /\ outcome' = "success" ELSE NextOrDone
    /\ UNCHANGED <<preferred, plan>>

\* _wait_for_transcript and the decision that comes with the transcript; an
\* UNKNOWN is analysed again.  The poll makes the backend raise its notification.
ReadDecision ==
    LET t == call_transcripts_store[Current.sid]
    IN  /\ step = "read"
        /\ t.text
        /\ \/ GetTranscript(Current.sid)
           \/ notifications_store[Current.sid] # "none" /\ UNCHANGED vars
        /\ \E d \in IF t.decision = "UNKNOWN" THEN Heard ELSE {t.decision} :
              Decide(d)
        /\ UNCHANGED late

\* The decision cannot be fetched (what is caught and logged): the transcript,
\* which an earlier poll or the call logs gave, is analysed in its place and
\* may be read as anything, whatever the backend made of it.
AnalyseLocally ==
    /\ step = "read"
    /\ call_transcripts_store[Current.sid].text
    /\ WaitRunsOut("decision")
    /\ GetTranscript(Current.sid) \/ UNCHANGED vars
    /\ \E d \in Heard : Decide(d)

\* Faulty variant, for mutation checks: a transcript that is not there yet is a NO.
AssumeNoAtOnce ==
    /\ step = "read"
    /\ ~call_transcripts_store[Current.sid].text
    /\ Decide("NO")
    /\ UNCHANGED <<vars, late>>

\* The wait for the transcript is over (a conversation without text never has
\* one), and nothing was fetched: "assuming NO to be safe".
AssumeNo ==
    LET t == call_transcripts_store[Current.sid]
    IN  /\ step = "read"
        /\ \/ t # NoTranscript /\ ~t.text /\ UNCHANGED late
           \/ WaitRunsOut("transcript")
        /\ Decide("NO")
        /\ UNCHANGED vars

-----------------------------------------------------------------------------
OrchInit ==
    /\ Init
    /\ preferred \in Preferences
    /\ plan = <<>>
    /\ attempts = <<>>
    /\ step = "start"
    /\ outcome = "none"
    /\ late = FALSE

OrchStep ==
    \/ MakePlan
    \/ \E o \in Orders, n \in Sids : Dial(o, n)
    \/ Called
    \/ DialRefused
    \/ DialTimeout
    \/ CallEnded
    \/ CallIncomplete
    \/ ReadDecision
    \/ AnalyseLocally
    \/ AssumeNo

BackendStep ==
    /\ \/ \E s \in Sids : Ends(s)
       \/ \E s \in Sids, k \in Reports : StoreTranscript(s, k) \/ Proceeds(s, k)
    /\ UNCHANGED orch_vars

OrchSpec == OrchInit /\ [][OrchStep \/ BackendStep]_all_vars

\* The coroutine runs on, calls end and are reported once.  Every wait of the
\* coroutine is bounded, but nothing obliges the first of them to run out: a
\* purchase does not depend on it to end.
OrchFairSpec ==
    /\ OrchSpec
    /\ WF_all_vars(OrchStep /\ late' = late)
    /\ \A s \in Sids : /\ WF_all_vars(Ends(s) /\ UNCHANGED orch_vars)
                       /\ WF_all_vars(FirstReport(s) /\ UNCHANGED orch_vars)

-----------------------------------------------------------------------------
\* The calls that Twilio has placed, whether or not the backend recorded them yet.
PlacedCalls == {s \in Sids : line[s] # "unused"}

\* "Hard cap: never make more than 2 calls per order", the calls that the
\* backend places on its own included: its fallback must find nobody for an
\* order without a category, although the orchestrator's NO starts it too.
HardCap == Cardinality(PlacedCalls) <= MaxVendors

\* design.md, property 16: the vendor of the dashboard's row is called first.
PreferredFirst ==
    preferred # NoVendor /\ attempts # <<>> =>
        Lowered[attempts[1].vendor] = Lowered[preferred]

\* "DO NOT trigger second vendor unless first call fully completed": no two
\* vendors are on the phone about the same purchase.
OneOnThePhone == Cardinality({s \in PlacedCalls : line[s] = "ringing"}) <= 1

\* "tries vendors until one accepts": no vendor is asked once another has said
\* YES, so the purchase never ends with two vendors having accepted.
OneAcceptance ==
    Cardinality({s \in PlacedCalls : answer[s].decision = "YES"}) <= 1

\* "all vendors declined with a proper NO/UNKNOWN": the failure notification
\* is not raised over a YES.
DeclinedMeansDeclined ==
    outcome = "declined" => \A s \in PlacedCalls : answer[s].decision # "YES"

\* As long as no wait has run out and no request for a call's status,
\* transcript or decision has failed, the attempts follow one another, the
\* first YES ends them, and the outcome is what the vendors said.  (Where the
\* decision cannot be fetched, the local analysis may take a YES for
\* something else and the next vendor is called.)
AttemptsFollowAnswers ==
    ~late => OneOnThePhone /\ OneAcceptance /\ DeclinedMeansDeclined

\* Every purchase comes to an end.
PurchaseEnds == <>(step = "end")

-----------------------------------------------------------------------------
Purchase == "purchase"

\* The attempts that led to a call.
Reached == {i \in DOMAIN attempts : attempts[i].sid # NoCall}
Offered == Pick(Reached, attempts)

OfferedNames == [i \in DOMAIN Offered |-> Stripped[Offered[i].vendor]]

OfferedOutcome ==
    IF Offered = <<>> THEN "none"
    ELSE CASE outcome = "success"    -> "accepted"
           [] outcome = "declined"   -> "declined"
           [] outcome = "incomplete" -> "unclear"
           [] OTHER                  -> "open"

Offer == INSTANCE OrderOffer WITH
    Orders <- {Purchase},
    Names <- Vendors,
    MaxOffers <- MaxVendors,
    offers <- [o \in {Purchase} |-> OfferedNames],
    outcome <- [o \in {Purchase} |-> OfferedOutcome]

\* A purchase implements the abstract fallback too, whatever times out: its
\* offers are the calls placed, its outcome is what it returned.
ImplementsOffer == Offer!Spec
=============================================================================
