---------------------------- MODULE LocalBackend ----------------------------
(******************************************************************************)
(* The backend of the local deployment (local/app.py): a threaded Flask       *)
(* server.  /api/call-vendor places a call, /api/store-transcript files what  *)
(* the media bridge reports of it, and a NO makes a daemon thread call the    *)
(* next vendor after a pause.  Requests and threads interleave: an action     *)
(* here is a stretch of one of them between two waits (the pause, a           *)
(* database query, a request to Twilio), and where the threads of one order   *)
(* update its chain, a single statement.                                      *)
(*                                                                            *)
(* The k-th report of call s and the thread it may start are the job <<s, k>>.*)
(*                                                                            *)
(* Reports come from the media bridge in cloud/, which sends them to this     *)
(* backend by default and up to three times.  The bridge in local/, which     *)
(* the setup guide starts, sends none: that is MaxReports = 0.                *)
(******************************************************************************)
EXTENDS Integers, Sequences, FiniteSets

CONSTANTS
    Orders,         \* order ids (uuid4)
    Sids,           \* call SIDs that Twilio can hand out
    Vendors,        \* vendor names
    Categories,     \* product categories
    Listed,         \* Listed[cat]: vendors with a phone number in that category
    SendsCategory,  \* whether clients name the category in /api/call-vendor
    MaxAttempts,    \* "max_attempts" of a new order chain
    MaxReports,     \* how often the bridge may deliver the report of a call
    Faults,         \* the faults the environment may produce
    NoOrder, NoVendor, NoCall, NoCategory

ASSUME LocalAssumption ==
    /\ Listed \in [Categories -> SUBSET Vendors]
    /\ SendsCategory \in BOOLEAN
    /\ MaxAttempts \in Nat \ {0}
    /\ MaxReports \in Nat
    /\ Faults \subseteq {"twilio_error", "query_error", "no_answer"}
    /\ NoOrder \notin Orders
    /\ NoVendor \notin Vendors
    /\ NoCall \notin Sids
    /\ NoCategory \notin Categories

VARIABLES
    call_metadata_store,    \* sid -> the order and the vendor of the call
    call_transcripts_store, \* sid -> decision and whether any text was spoken
    notifications_store,    \* sid -> the notification cached for the call
    order_chains,           \* order -> chain of attempts
    jobs,                   \* <<sid, k>> -> where the k-th report's job stands
    line,                   \* sid -> Twilio's side of the call
    answer,                 \* sid -> what was said in the call, once it is over
    clients                 \* order -> its product's category and first call

vars == <<call_metadata_store, call_transcripts_store, notifications_store,
          order_chains, jobs, line, answer, clients>>

Decisions    == {"YES", "NO", "UNKNOWN"}
Transcripts  == [decision : Decisions, text : BOOLEAN]
NoTranscript == [decision |-> "NONE", text |-> FALSE]
NoMeta       == [order |-> NoOrder, vendor |-> NoVendor]
NoChain      == [attempt |-> 0, tried |-> <<>>, current |-> NoCall,
                 category |-> NoCategory]
NoClient     == [product |-> NoCategory, sid |-> NoCall]
NoJob        == [at |-> "none", alt |-> NoVendor, sid |-> NoCall]

Reports == 1..MaxReports

TypeOK ==
    /\ call_metadata_store \in
          [Sids -> [order : Orders \cup {NoOrder},
                    vendor : Vendors \cup {NoVendor}]]
    /\ call_transcripts_store \in [Sids -> Transcripts \cup {NoTranscript}]
    /\ notifications_store \in [Sids -> {"none", "success", "rejection"}]
    /\ order_chains \in
          [Orders -> [attempt : Nat, tried : Seq(Vendors),
                      current : Sids \cup {NoCall},
                      category : Categories \cup {NoCategory}]]
    /\ jobs \in
          [Sids \X Reports ->
              [at : {"none", "filed", "pausing", "looking", "calling",
                     "counting", "listing", "pointing", "recording", "done"},
               alt : Vendors \cup {NoVendor},
               sid : Sids \cup {NoCall}]]
    /\ line \in [Sids -> {"unused", "ringing", "over", "missed"}]
    /\ answer \in [Sids -> Transcripts \cup {NoTranscript}]
    /\ clients \in [Orders -> [product : Categories \cup {NoCategory},
                               sid : Sids \cup {NoCall}]]

HasChain(o) == o \in Orders /\ order_chains[o].attempt > 0

\* Faulty variant, for mutation checks: off by one.
ExhaustedLate(o) == order_chains[o].attempt > MaxAttempts

Exhausted(o) == order_chains[o].attempt >= MaxAttempts

\* Faulty variant, for mutation checks: no category stands for every category.
AlternativesAnywhere(o) ==
    LET c      == order_chains[o]
        listed == IF c.category = NoCategory
                  THEN UNION {Listed[x] : x \in Categories}
                  ELSE Listed[c.category]
    IN  listed \ {c.tried[i] : i \in DOMAIN c.tried}

\* _find_alternative_vendor: a vendor of the chain's category, with a phone
\* number, whose name is not among those tried.  An empty category is no key
\* of the index: the query fails and counts as no products.
Alternatives(o) ==
    LET c == order_chains[o]
    IN  IF c.category = NoCategory THEN {}
        ELSE Listed[c.category] \ {c.tried[i] : i \in DOMAIN c.tried}

-----------------------------------------------------------------------------
(******************************************************************************)
(* call_vendor.  After Twilio's answer it fills the stores without waiting,   *)
(* long before the vendor can have finished a conversation; a refused call    *)
(* changes nothing.                                                           *)
(******************************************************************************)
CallVendor(o, v, product, n) ==
    /\ ~HasChain(o)
    /\ line[n] = "unused"
    /\ line' = [line EXCEPT ![n] = "ringing"]
    /\ order_chains' =
          [order_chains EXCEPT ![o] =
              [attempt |-> 1, tried |-> <<v>>, current |-> n,
               category |-> IF SendsCategory THEN product ELSE NoCategory]]
    /\ call_metadata_store' =
          [call_metadata_store EXCEPT ![n] = [order |-> o, vendor |-> v]]
    /\ clients' = [clients EXCEPT ![o] = [product |-> product, sid |-> n]]
    /\ UNCHANGED <<call_transcripts_store, notifications_store, jobs, answer>>

\* The vendor does not pick up; nobody reports that to the backend.
NoAnswer(s) ==
    /\ "no_answer" \in Faults
    /\ line[s] = "ringing"
    /\ line' = [line EXCEPT ![s] = "missed"]
    /\ UNCHANGED <<call_metadata_store, call_transcripts_store,
                   notifications_store, order_chains, jobs, answer, clients>>

\* The conversation ends; without any text no decision can be read from it.
\* It lasts far longer than the writes that follow the placing of its call.
CallEnds(s, a) ==
    /\ line[s] = "ringing"
    /\ call_metadata_store[s] # NoMeta
    /\ a.text \/ a.decision = "UNKNOWN"
    /\ line' = [line EXCEPT ![s] = "over"]
    /\ answer' = [answer EXCEPT ![s] = a]
    /\ UNCHANGED <<call_metadata_store, call_transcripts_store,
                   notifications_store, order_chains, jobs, clients>>

-----------------------------------------------------------------------------
\* store_transcript, first half: the k-th report of call s is filed.
StoreTranscript(s, k) ==
    /\ line[s] = "over"
    /\ jobs[<<s, k>>].at = "none"
    /\ k > 1 => jobs[<<s, k - 1>>].at # "none"
    /\ call_transcripts_store' = [call_transcripts_store EXCEPT ![s] = answer[s]]
    /\ jobs' = [jobs EXCEPT ![<<s, k>>].at = "filed"]
    /\ UNCHANGED <<call_metadata_store, notifications_store, order_chains,
                   line, answer, clients>>

\* Faulty variant, for mutation checks: anything but a YES calls the next vendor.
HandleDecisionNotYes(s, k) ==
    LET o == call_metadata_store[s].order
    IN  /\ jobs[<<s, k>>].at = "filed"
        /\ jobs' = [jobs EXCEPT ![<<s, k>>].at =
                       IF answer[s].decision # "YES" /\ HasChain(o) /\ ~Exhausted(o)
                       THEN "pausing" ELSE "done"]
        /\ UNCHANGED <<call_metadata_store, call_transcripts_store, line,
                       notifications_store, order_chains, answer, clients>>

\* store_transcript, second half: a NO is notified and, while attempts remain,
\* starts the fallback thread; YES and UNKNOWN do nothing more.
HandleDecision(s, k) ==
    LET o        == call_metadata_store[s].order
        declined == answer[s].decision = "NO"
    IN  /\ jobs[<<s, k>>].at = "filed"
        /\ jobs' = [jobs EXCEPT ![<<s, k>>].at =
                       IF declined /\ HasChain(o) /\ ~Exhausted(o)
                       THEN "pausing" ELSE "done"]
        /\ notifications_store' =
              IF declined
              THEN [notifications_store EXCEPT ![s] = "rejection"]
              ELSE notifications_store
        /\ UNCHANGED <<call_metadata_store, call_transcripts_store,
                       order_chains, line, answer, clients>>

(******************************************************************************)
(* The thread of _initiate_fallback_call: after the pause it compares the     *)
(* attempts again, queries for a vendor and calls it; with Twilio's answer it *)
(* updates the chain and the metadata of the call.  Threads of one order run  *)
(* in between, also between two of these statements; a single one, the "+= 1" *)
(* included, is not cut (CPython from 3.11, which the project asks for, lets  *)
(* go of a thread at calls and jumps only).                                   *)
(******************************************************************************)
Moves(s, k, job) ==
    /\ jobs' = [jobs EXCEPT ![<<s, k>>] = job]
    /\ UNCHANGED <<call_transcripts_store, notifications_store, answer, clients>>

Finished == [NoJob EXCEPT !.at = "done"]

CheckAttempts(s, k) ==
    /\ jobs[<<s, k>>].at = "pausing"
    /\ Moves(s, k, IF Exhausted(call_metadata_store[s].order) THEN Finished
                   ELSE [NoJob EXCEPT !.at = "looking"])
    /\ UNCHANGED <<call_metadata_store, order_chains, line>>

FindAlternative(s, k) ==
    LET found == Alternatives(call_metadata_store[s].order)
    IN  /\ jobs[<<s, k>>].at = "looking"
        /\ \/ /\ found = {} \/ "query_error" \in Faults
              /\ Moves(s, k, Finished)
           \/ \E v \in found :
                 Moves(s, k, [at |-> "calling", alt |-> v, sid |-> NoCall])
        /\ UNCHANGED <<call_metadata_store, order_chains, line>>

\* Twilio places the call, or refuses it and the thread ends.
CallNext(s, k, n) ==
    /\ jobs[<<s, k>>].at = "calling"
    /\ \/ /\ line[n] = "unused"
          /\ line' = [line EXCEPT ![n] = "ringing"]
          /\ Moves(s, k, [jobs[<<s, k>>] EXCEPT !.at = "counting", !.sid = n])
       \/ /\ "twilio_error" \in Faults
          /\ Moves(s, k, Finished)
          /\ UNCHANGED line
    /\ UNCHANGED <<call_metadata_store, order_chains>>

\* Faulty variant, for mutation checks: the attempt is counted by the list, to
\* which another thread may be about to add.
CountAttemptByList(s, k) ==
    /\ jobs[<<s, k>>].at = "counting"
    /\ Moves(s, k, [jobs[<<s, k>>] EXCEPT !.at = "listing"])
    /\ order_chains' =
          [order_chains EXCEPT ![call_metadata_store[s].order].attempt =
              Len(order_chains[call_metadata_store[s].order].tried) + 1]
    /\ UNCHANGED <<call_metadata_store, line>>

\* chain['attempt_number'] += 1
CountAttempt(s, k) ==
    /\ jobs[<<s, k>>].at = "counting"
    /\ Moves(s, k, [jobs[<<s, k>>] EXCEPT !.at = "listing"])
    /\ order_chains' = [order_chains EXCEPT
                           ![call_metadata_store[s].order].attempt = @ + 1]
    /\ UNCHANGED <<call_metadata_store, line>>

\* chain['vendors_tried'].append(...)
ListVendor(s, k) ==
    /\ jobs[<<s, k>>].at = "listing"
    /\ Moves(s, k, [jobs[<<s, k>>] EXCEPT !.at = "pointing"])
    /\ order_chains' = [order_chains EXCEPT
                           ![call_metadata_store[s].order].tried =
                               Append(@, jobs[<<s, k>>].alt)]
    /\ UNCHANGED <<call_metadata_store, line>>

\* chain['current_call_sid'] = call.sid
PointAtCall(s, k) ==
    /\ jobs[<<s, k>>].at = "pointing"
    /\ Moves(s, k, [jobs[<<s, k>>] EXCEPT !.at = "recording"])
    /\ order_chains' = [order_chains EXCEPT
                           ![call_metadata_store[s].order].current =
                               jobs[<<s, k>>].sid]
    /\ UNCHANGED <<call_metadata_store, line>>

\* call_metadata_store[call.sid] = {...}
RecordCall(s, k) ==
    /\ jobs[<<s, k>>].at = "recording"
    /\ Moves(s, k, Finished)
    /\ call_metadata_store' =
          [call_metadata_store EXCEPT ![jobs[<<s, k>>].sid] =
              [order  |-> call_metadata_store[s].order,
               vendor |-> jobs[<<s, k>>].alt]]
    /\ UNCHANGED <<order_chains, line>>

-----------------------------------------------------------------------------
\* Faulty variant, for mutation checks: whatever has a transcript is a success.
GetTranscriptAlwaysPO(s) ==
    /\ call_transcripts_store[s].text
    /\ notifications_store[s] = "none"
    /\ notifications_store' = [notifications_store EXCEPT ![s] = "success"]
    /\ UNCHANGED <<call_metadata_store, call_transcripts_store, order_chains,
                   jobs, line, answer, clients>>

\* Faulty variant, for mutation checks: the decision is cached in place of the notification.
GetTranscriptDecision(s) ==
    /\ call_transcripts_store[s].text
    /\ notifications_store[s] = "none"
    /\ notifications_store' =
          [notifications_store EXCEPT ![s] = call_transcripts_store[s].decision]
    /\ UNCHANGED <<call_metadata_store, call_transcripts_store, order_chains,
                   jobs, line, answer, clients>>

\* get_transcript: the first poll that finds some text builds the
\* notification of the call (for a YES with the purchase order) and caches it.
GetTranscript(s) ==
    /\ call_transcripts_store[s].text
    /\ notifications_store[s] = "none"
    /\ notifications_store' =
          [notifications_store EXCEPT ![s] =
              IF call_transcripts_store[s].decision = "YES"
              THEN "success" ELSE "rejection"]
    /\ UNCHANGED <<call_metadata_store, call_transcripts_store, order_chains,
                   jobs, line, answer, clients>>

\* The dashboard polls the SID that call_vendor returned, and no other.
DashboardPolls(o) ==
    /\ clients[o].sid # NoCall
    /\ GetTranscript(clients[o].sid)

-----------------------------------------------------------------------------
Init ==
    /\ call_metadata_store = [s \in Sids |-> NoMeta]
    /\ call_transcripts_store = [s \in Sids |-> NoTranscript]
    /\ notifications_store = [s \in Sids |-> "none"]
    /\ order_chains = [o \in Orders |-> NoChain]
    /\ jobs = [j \in Sids \X Reports |-> NoJob]
    /\ line = [s \in Sids |-> "unused"]
    /\ answer = [s \in Sids |-> NoTranscript]
    /\ clients = [o \in Orders |-> NoClient]

Ends(s) == NoAnswer(s) \/ \E a \in Transcripts : CallEnds(s, a)

FirstReport(s) == \E k \in Reports \cap {1} : StoreTranscript(s, k)

Proceeds(s, k) ==
    \/ HandleDecision(s, k)
    \/ CheckAttempts(s, k)
    \/ FindAlternative(s, k)
    \/ \E n \in Sids : CallNext(s, k, n)
    \/ CountAttempt(s, k)
    \/ ListVendor(s, k)
    \/ PointAtCall(s, k)
    \/ RecordCall(s, k)

Next ==
    \/ \E o \in Orders, v \in Vendors, c \in Categories, n \in Sids :
          CallVendor(o, v, c, n)
    \/ \E s \in Sids : Ends(s)
    \/ \E s \in Sids, k \in Reports : StoreTranscript(s, k) \/ Proceeds(s, k)
    \/ \E o \in Orders : DashboardPolls(o)

Spec == Init /\ [][Next]_vars

(******************************************************************************)
(* A call ends, a bridge that reports delivers its report at least once,      *)
(* threads that can run do, and the dashboard's timer, which fires every      *)
(* three seconds, fetches what has been filed.                                *)
(******************************************************************************)
FairSpec ==
    /\ Spec
    /\ \A s \in Sids : WF_vars(Ends(s)) /\ WF_vars(FirstReport(s))
    /\ \A s \in Sids, k \in Reports : WF_vars(Proceeds(s, k))
    /\ \A o \in Orders : WF_vars(DashboardPolls(o))

-----------------------------------------------------------------------------
CallsOf(o) == {s \in Sids : call_metadata_store[s].order = o}
Declines(o) == {s \in CallsOf(o) : answer[s].decision = "NO"}

\* Threads of an order that stand between two writes of their update.
Between(o, places) ==
    {j \in Sids \X Reports : /\ jobs[j].at \in places
                             /\ call_metadata_store[j[1]].order = o}

ReportedOnce(o) == \A s \in CallsOf(o), k \in Reports \ {1} : jobs[<<s, k>>] = NoJob

\* The chain counts the calls placed for its order and lists their vendors,
\* each exactly once however the threads of repeated reports interleave
\* (_initiate_fallback_call raises the attempt, lists the vendor, points at the
\* call and writes its metadata one after the other): what is missing at any
\* moment is in the hands of a thread between two of the writes.  The current
\* call is one of the order's, but with racing threads not always the one of
\* the vendor listed last; without repeated reports it is, between updates.
ChainCountsCalls ==
    \A o \in Orders : HasChain(o) =>
        LET c == order_chains[o]
        IN  /\ c.attempt = Len(c.tried) + Cardinality(Between(o, {"listing"}))
            /\ Len(c.tried) = Cardinality(CallsOf(o))
                   + Cardinality(Between(o, {"pointing", "recording"}))
            /\ \/ c.current \in CallsOf(o)
               \/ \E j \in Between(o, {"recording"}) : c.current = jobs[j].sid
            /\ ReportedOnce(o) /\ Between(o, {"listing", "pointing", "recording"}) = {}
                  => call_metadata_store[c.current] =
                        [order |-> o, vendor |-> c.tried[Len(c.tried)]]

\* No order is offered to more than max_attempts vendors: store_transcript and
\* the fallback thread both compare the count before they go on.
Bounded(o)      == Cardinality(CallsOf(o)) <= MaxAttempts
AttemptsBounded == \A o \in Orders : Bounded(o)

\* While each call of an order is reported once, whatever is reported of other
\* orders meanwhile, its fallback is orderly: the attempts are bounded, no
\* vendor is called twice, and each further call answers one more NO.
VendorsDiffer(o) ==
    \A s, t \in CallsOf(o) :
        call_metadata_store[s].vendor = call_metadata_store[t].vendor => s = t

FallbackIsOrderly ==
    \A o \in Orders : ReportedOnce(o) =>
        /\ Bounded(o)
        /\ VendorsDiffer(o)
        /\ Cardinality(CallsOf(o)) <= 1 + Cardinality(Declines(o))

\* A notification of success, with its purchase order, is only raised for a
\* call in which the vendor said YES, and a rejection only when it did not.
NotificationIsEarned ==
    \A s \in Sids :
        /\ notifications_store[s] = "success" => answer[s].decision = "YES"
        /\ notifications_store[s] = "rejection" =>
              answer[s].decision \in {"NO", "UNKNOWN"}

-----------------------------------------------------------------------------
\* Somebody could be asked next: attempts are left, and so is a vendor that is
\* listed in the category of the order's product.
CouldAskNext(o) ==
    /\ HasChain(o)
    /\ ~Exhausted(o)
    /\ \E v \in Listed[clients[o].product] :
          \A i \in DOMAIN order_chains[o].tried : order_chains[o].tried[i] # v

\* design.md, property 13: a NO makes the system call the next vendor, if one
\* is available.
DeclineMovesOn ==
    \A o \in Orders :
        /\ CouldAskNext(o)
        /\ Cardinality(Declines(o)) = order_chains[o].attempt
        ~> Cardinality(Declines(o)) < order_chains[o].attempt \/ ~CouldAskNext(o)
=============================================================================
