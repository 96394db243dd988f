------------------------------ MODULE Dashboard ------------------------------
(******************************************************************************)
(* The replenishment panel of the dashboard (ReplenishmentPanel.tsx) and      *)
(* the Lambda between it and the calling server (cloud/app_agentcore.py).     *)
(* The panel polls /api/get-call-status every three seconds, without          *)
(* waiting for the answer to the poll before, until it reads "completed";     *)
(* then it fetches /api/get-transcript and keeps the notifications.  The      *)
(* Lambda answers each of these requests from several reads of the server,    *)
(* and skips a read that fails.                                               *)
(*                                                                            *)
(* A request is known by the slot it occupies; a fetch occupies the slot of   *)
(* the poll that started it.                                                  *)
(******************************************************************************)
EXTENDS VendorCaller

CONSTANTS
    Slots,          \* bounds the polls and fetches under way
    MaxFetches,     \* how often a result is fetched: once and five retries
    MaxReadErrors,  \* bound on the failing requests for a status or a result
    Short           \* SID -> its first eight characters

ASSUME DashboardAssumption ==
    /\ MaxFetches \in Nat \ {0}
    /\ MaxReadErrors \in Nat

VARIABLES
    callingVendor,      \* the call button is disabled
    placing,            \* the calls placed whose SID is on its way to the panel
    watched,            \* the call that the timer polls
    timer,              \* the interval is running
    request,            \* slot -> the poll or the fetch in it
    notifications,      \* pendingNotifications of localStorage
    lambda_transcripts, \* call_transcripts_store of a warm Lambda instance
    read_errors,        \* requests that failed so far
    lost                \* history: the calls of which an answer was lost

dash_vars == <<callingVendor, placing, watched, timer, request, notifications,
               lambda_transcripts, read_errors, lost>>
all_vars  == <<vars, dash_vars>>

Idle == [at |-> "idle", sid |-> NoCall, warm |-> FALSE, tries |-> 0,
         found |-> NoTranscript, rejected |-> <<>>, vendor |-> NoVendor]

Request ==
    [at : {"idle", "poll", "poll_transcript", "completed", "in_progress",
           "transcript", "chain", "vendor", "withheld", "answer"},
     sid : Sids \cup {NoCall}, warm : BOOLEAN, tries : 0..MaxFetches,
     found : Transcript, rejected : Seq(Vendors),
     vendor : Vendors \cup {NoVendor, Generic}]

\* A notification: the call it is filed under, the decision that it reports,
\* the vendor that it names, and whether it stands for the whole order.
Notification ==
    [sid : Sids, decision : Decisions, main : BOOLEAN,
     vendor : Vendors \cup {Generic}]

DashTypeOK ==
    /\ callingVendor \in BOOLEAN
    /\ placing \subseteq Sids
    /\ watched \in Sids \cup {NoCall}
    /\ timer \in BOOLEAN
    /\ request \in [Slots -> Request]
    /\ notifications \subseteq Notification
    /\ lambda_transcripts \in [Sids -> Transcript]
    /\ read_errors \in 0..MaxReadErrors
    /\ lost \subseteq Sids

\* A read of the Lambda from the server fails: a network error, a timeout.
ReadFails ==
    /\ read_errors < MaxReadErrors
    /\ read_errors' = read_errors + 1

Proceed(p, changed) == request' = [request EXCEPT ![p] = changed]

-----------------------------------------------------------------------------
(******************************************************************************)
(* The panel starts a call and polls its status.                              *)
(******************************************************************************)
\* initiateCallDirectly: the Lambda hands the request on, and the server places
\* the call.  (A call that the server refuses changes nothing.)
PanelCalls(o, v, n) ==
    /\ ~callingVendor
    /\ InitiateCall(o, v, NoCategory, n)
    /\ callingVendor' = TRUE
    /\ placing' = placing \cup {n}
    /\ UNCHANGED <<watched, timer, request, notifications, lambda_transcripts,
                   read_errors, lost>>

\* The SID reaches the panel: startCallPolling.
CallAnswered(s) ==
    /\ s \in placing
    /\ placing' = placing \ {s}
    /\ watched' = s
    /\ timer' = TRUE
    /\ UNCHANGED <<vars, callingVendor, request, notifications,
                   lambda_transcripts, read_errors, lost>>

\* The server's answer comes too late for the Lambda, or the Lambda's for the
\* browser: the call goes on, and the panel knows nothing of it.
CallAnswerLost(s) ==
    /\ s \in placing
    /\ placing' = placing \ {s}
    /\ callingVendor' = FALSE
    /\ lost' = lost \cup {s}
    /\ UNCHANGED <<vars, watched, timer, request, notifications,
                   lambda_transcripts, read_errors>>

\* The timer fires.
Poll(p) ==
    /\ timer
    /\ request[p] = Idle
    /\ Proceed(p, [Idle EXCEPT !.at = "poll", !.sid = watched])
    /\ UNCHANGED <<vars, callingVendor, placing, watched, timer,
                   notifications, lambda_transcripts, read_errors, lost>>

\* Faulty variant, for mutation checks: a declined order is not complete.
CompletedOnlyFulfilled == {"FULFILLED"}

\* The chain statuses that get_call_status reports as completed; any other is
\* "in-progress".
CompletedStatuses == {"FULFILLED", "FAILED"}

\* get_call_status reads the metadata (which never changes) and the chain; if
\* either is not there or cannot be read it goes by the transcript.
PollChain(p) ==
    LET o == call_metadata_store[request[p].sid].order
    IN  /\ request[p].at = "poll"
        /\ \/ /\ HasChain(o)
              /\ Proceed(p, [request[p] EXCEPT !.at =
                    IF order_chains[o].status \in CompletedStatuses
                    THEN "completed" ELSE "in_progress"])
              /\ UNCHANGED read_errors
           \/ /\ ReadFails
              /\ Proceed(p, [request[p] EXCEPT !.at = "poll_transcript"])
    /\ UNCHANGED <<vars, callingVendor, placing, watched, timer,
                   notifications, lambda_transcripts, lost>>

\* Without the chain only a YES is conclusive: after a NO "a fallback might
\* be in progress".
PollTranscript(p) ==
    /\ request[p].at = "poll_transcript"
    /\ \/ /\ Proceed(p, [request[p] EXCEPT !.at =
                IF call_transcripts_store[request[p].sid].decision = "YES"
                THEN "completed" ELSE "in_progress"])
          /\ UNCHANGED read_errors
       \/ /\ ReadFails
          /\ Proceed(p, [request[p] EXCEPT !.at = "in_progress"])
    /\ UNCHANGED <<vars, callingVendor, placing, watched, timer,
                   notifications, lambda_transcripts, lost>>

\* The answer reaches the panel.  On "completed" it stops the timer, whichever
\* call that is polling by now, and fetches the result of the call it asked for.
PollAnswered(p) ==
    /\ \/ /\ request[p].at = "in_progress"
          /\ Proceed(p, Idle)
          /\ UNCHANGED timer
       \/ /\ request[p].at = "completed"
          /\ \E warm \in BOOLEAN :
                Proceed(p, [request[p] EXCEPT !.at = "transcript",
                                              !.warm = warm, !.tries = 1])
          /\ timer' = FALSE
    /\ UNCHANGED <<vars, callingVendor, placing, watched, notifications,
                   lambda_transcripts, read_errors, lost>>

-----------------------------------------------------------------------------
(******************************************************************************)
(* get_transcript at the Lambda.                                              *)
(******************************************************************************)
\* The conversation and its decision: the copy of a warm instance if it is a
\* YES, else what the server has now, else the copy.
FetchTranscript(p) ==
    LET s      == request[p].sid
        copy   == IF request[p].warm THEN lambda_transcripts[s] ELSE NoTranscript
        stored == call_transcripts_store[s]
        newer  == /\ copy.decision # "YES"
                  /\ stored # NoTranscript
                  /\ stored.decision # copy.decision
        With(t) == Proceed(p, [request[p] EXCEPT
                        !.found = t,
                        !.at = IF t = NoTranscript THEN "withheld" ELSE "chain"])
    IN  /\ request[p].at = "transcript"
        /\ \/ /\ With(IF newer THEN stored ELSE copy)
              /\ lambda_transcripts' =
                    IF newer THEN [lambda_transcripts EXCEPT ![s] = stored]
                    ELSE lambda_transcripts
              /\ UNCHANGED read_errors
           \/ /\ copy.decision # "YES"
              /\ ReadFails
              /\ With(copy)
              /\ UNCHANGED lambda_transcripts
        /\ UNCHANGED <<vars, callingVendor, placing, watched, timer,
                       notifications, lost>>

\* The chain: nothing is said while a fallback runs; of an order that was
\* fulfilled, all vendors but the last have rejected it.
FetchChain(p) ==
    LET o == call_metadata_store[request[p].sid].order
        c == order_chains[o]
    IN  /\ request[p].at = "chain"
        /\ \/ /\ HasChain(o)
              /\ IF c.status \in {"CALLING", "FALLBACK_IN_PROGRESS"}
                 THEN Proceed(p, [request[p] EXCEPT !.at = "withheld"])
                 ELSE Proceed(p, [request[p] EXCEPT
                        !.at = "vendor",
                        !.rejected = IF c.status = "FULFILLED"
                                     THEN SubSeq(c.tried, 1, Len(c.tried) - 1)
                                     ELSE <<>>])
              /\ UNCHANGED read_errors
           \/ /\ ReadFails
              /\ Proceed(p, [request[p] EXCEPT !.at = "vendor"])
        /\ UNCHANGED <<vars, callingVendor, placing, watched, timer,
                       notifications, lambda_transcripts, lost>>

\* Faulty variant, for mutation checks: the purchase order names the first vendor.
FetchVendorFirst(p) ==
    /\ request[p].at = "vendor"
    /\ Proceed(p, [request[p] EXCEPT !.at = "answer",
                !.vendor = call_metadata_store[request[p].sid].vendor])
    /\ UNCHANGED <<vars, callingVendor, placing, watched, timer,
                   notifications, lambda_transcripts, read_errors, lost>>

\* The vendor: that of the last call if the decision is YES, else, or when
\* that read fails, that of the call asked for; a warm instance knows the
\* latter itself, another one that cannot read it says "Vendor".
FetchVendor(p) ==
    LET s == request[p].sid
        o == call_metadata_store[s].order
        Named(v) == Proceed(p, [request[p] EXCEPT !.at = "answer", !.vendor = v])
    IN  /\ request[p].at = "vendor"
        /\ \/ /\ HasChain(o)
              /\ Named(call_metadata_store[IF request[p].found.decision = "YES"
                                           THEN LastSid(o) ELSE s].vendor)
              /\ UNCHANGED read_errors
           \/ /\ ReadFails
              /\ \/ Named(call_metadata_store[s].vendor)
                 \/ ~request[p].warm /\ Named(Generic)
        /\ UNCHANGED <<vars, callingVendor, placing, watched, timer,
                       notifications, lambda_transcripts, lost>>

-----------------------------------------------------------------------------
\* The notifications of an answer in their order: the result, filed under the
\* call asked for, and one for each vendor that rejected a fulfilled order.
AnswerOf(p) ==
    LET r == request[p]
        c == order_chains[call_metadata_store[r.sid].order]
    IN  [i \in 1..(1 + Len(r.rejected)) |->
            IF i = 1
            THEN [sid |-> r.sid, decision |-> r.found.decision, main |-> TRUE,
                  vendor |-> r.vendor]
            ELSE [sid |-> c.sids[i - 1], decision |-> "NO", main |-> FALSE,
                  vendor |-> r.rejected[i - 1]]]

\* The ids: "notif-<sid>" for a success, "notif-reject-<sid[:8]>" for the rest.
SameId(m, n) ==
    \/ m.decision = "YES" /\ n.decision = "YES" /\ m.sid = n.sid
    \/ m.decision # "YES" /\ n.decision # "YES" /\ Short[m.sid] = Short[n.sid]

\* The answer reaches the panel, which goes through the notifications and keeps
\* those with a new id.
FetchAnswered(p) ==
    /\ request[p].at = "answer"
    /\ LET answer == AnswerOf(p)
           IsNew(i) == /\ \A m \in notifications : ~SameId(m, answer[i])
                       /\ \A j \in 1..(i - 1) : ~SameId(answer[j], answer[i])
       IN  notifications' = notifications \cup
               {answer[i] : i \in {j \in DOMAIN answer : IsNew(j)}}
    /\ callingVendor' = FALSE
    /\ Proceed(p, Idle)
    /\ UNCHANGED <<vars, placing, watched, timer, lambda_transcripts,
                   read_errors, lost>>

\* Faulty variant, for mutation checks: the retries are not counted to their end.
FetchWithheldForEver(p) ==
    /\ request[p].at = "withheld"
    /\ Proceed(p, [request[p] EXCEPT !.at = "transcript",
                                     !.tries = request[p].tries + 1])
    /\ UNCHANGED <<vars, callingVendor, placing, watched, timer,
                   notifications, lambda_transcripts, read_errors, lost>>

\* An answer without a result: ask again after three seconds, or give up.
FetchWithheld(p) ==
    /\ request[p].at = "withheld"
    /\ \/ /\ request[p].tries < MaxFetches
          /\ \E warm \in BOOLEAN :
                Proceed(p, [Idle EXCEPT !.at = "transcript", !.warm = warm,
                                        !.sid = request[p].sid,
                                        !.tries = request[p].tries + 1])
          /\ UNCHANGED callingVendor
       \/ /\ request[p].tries = MaxFetches
          /\ callingVendor' = FALSE
          /\ Proceed(p, Idle)
    /\ UNCHANGED <<vars, placing, watched, timer, notifications,
                   lambda_transcripts, read_errors, lost>>

\* The request of the browser itself fails: the panel does not try again.
FetchFails(p) ==
    /\ request[p].at = "transcript"
    /\ ReadFails
    /\ callingVendor' = FALSE
    /\ lost' = lost \cup {request[p].sid}
    /\ Proceed(p, Idle)
    /\ UNCHANGED <<vars, placing, watched, timer, notifications,
                   lambda_transcripts>>

-----------------------------------------------------------------------------
DashInit ==
    /\ Init
    /\ callingVendor = FALSE
    /\ placing = {}
    /\ watched = NoCall
    /\ timer = FALSE
    /\ request = [p \in Slots |-> Idle]
    /\ notifications = {}
    /\ lambda_transcripts = [s \in Sids |-> NoTranscript]
    /\ read_errors = 0
    /\ lost = {}

RequestStep(p) ==
    \/ Poll(p)
    \/ PollChain(p)
    \/ PollTranscript(p)
    \/ PollAnswered(p)
    \/ FetchTranscript(p)
    \/ FetchChain(p)
    \/ FetchVendor(p)
    \/ FetchAnswered(p)
    \/ FetchWithheld(p)
    \/ FetchFails(p)

CallRequestEnds(s) == CallAnswered(s) \/ CallAnswerLost(s)

ServerStep(s) == CallStep(s) /\ UNCHANGED dash_vars

DashNext ==
    \/ \E o \in Orders, v \in Vendors, n \in Sids : PanelCalls(o, v, n)
    \/ \E p \in Slots : RequestStep(p)
    \/ \E s \in Sids : CallRequestEnds(s)
    \/ \E s \in Sids : ServerStep(s)

DashSpec == DashInit /\ [][DashNext]_all_vars

\* Calls and requests run on; nothing obliges the user to call.
DashFairSpec ==
    /\ DashSpec
    /\ \A s \in Sids : WF_all_vars(ServerStep(s))
    /\ \A s \in Sids : WF_all_vars(CallRequestEnds(s))
    /\ \A p \in Slots : WF_all_vars(RequestStep(p))

-----------------------------------------------------------------------------
OrderOf(s) == call_metadata_store[s].order

Shown(o) == {n \in notifications : OrderOf(n.sid) = o}

\* The panel reports an order only once it is settled, and as what it was
\* settled: the chain is read before the transcript by the poll and after it
\* by the fetch, and the server moves on in between.
ShownAsSettled ==
    \A n \in notifications : n.main =>
        LET status == order_chains[OrderOf(n.sid)].status
        IN  IF n.decision = "YES" THEN status = "FULFILLED"
            ELSE status = "FAILED"

\* When every read succeeds the purchase order goes to the vendor that
\* accepted.  Of the order no vendor is reported to have rejected but the
\* others that were asked, each under its own call; and each of them is
\* reported, unless a call whose SID begins like that of its own has been
\* reported before it.
PONamesAcceptor ==
    \A n \in notifications :
        n.main /\ n.decision = "YES" /\ read_errors = 0 =>
            LET o       == OrderOf(n.sid)
                c       == order_chains[o]
                refused == 1..(Len(c.tried) - 1)
            IN  /\ verdict[LastSid(o)] = "YES"
                /\ n.vendor = c.tried[Len(c.tried)]
                /\ \A m \in Shown(o) \ {n} : \E i \in refused :
                      m.sid = c.sids[i] /\ m.vendor = c.tried[i]
                /\ \A i \in refused : \E m \in notifications :
                      m.decision # "YES" /\ Short[m.sid] = Short[c.sids[i]]

\* A settled order is shown in the end, unless an answer about it was lost in
\* the browser (that with the SID of its call, or that with its result), or the
\* Lambda's reads failed as often as the panel asks.
OutcomeShown ==
    \A o \in Orders :
        order_chains[o].status \in {"FULFILLED", "FAILED"} ~>
            \/ \E s \in lost : OrderOf(s) = o
            \/ read_errors >= MaxFetches
            \/ \E n \in Shown(o) : n.main
=============================================================================
