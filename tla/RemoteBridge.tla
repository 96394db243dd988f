---------------------------- MODULE RemoteBridge ----------------------------
(******************************************************************************)
(* The vendor calling server with its calls bridged by another process:       *)
(* nova_sonic_twilio_server.py runs the web socket handler and reports each   *)
(* finished call with POST /api/store-transcript, through the dashboard's     *)
(* Lambda, which files a copy and forwards the request.  The report is        *)
(* retried after a timeout, so the server may see it late or several times.   *)
(*                                                                            *)
(* handler, vendor_context and active_calls are here those of the bridge.     *)
(* All requests for one call are alike, so only their number is kept.         *)
(******************************************************************************)
EXTENDS VendorCaller

CONSTANTS
    MaxTries,       \* max_retries of the bridge
    BridgeFaults    \* the faults of the requests between the processes

ASSUME BridgeAssumption ==
    /\ MaxTries \in Nat \ {0}
    /\ BridgeFaults \subseteq {"metadata_error", "slow", "lost", "forward_error"}

VARIABLE posts      \* sid -> the report of the call

bridge_vars == <<vars, posts>>

\* tries: rounds begun; gone: history, requests that never reached the server.
NoPost == [decision |-> "NONE", tries |-> 0, inflight |-> 0, gone |-> 0,
           waiting |-> FALSE]

BridgeTypeOK ==
    /\ TypeOK
    /\ posts \in [Sids -> [decision : Decisions \cup {"NONE"},
                           tries : 0..MaxTries, inflight : 0..MaxTries,
                           gone : 0..MaxTries,
                           waiting : BOOLEAN]]

\* The "start" event: the context is fetched from the backend; a failed
\* request means the generic context.
BridgeStart(s) ==
    /\ UNCHANGED posts
    /\ \/ StartStream(s)
       \/ /\ "metadata_error" \in BridgeFaults
          /\ line[s] = "ringing"
          /\ line' = [line EXCEPT ![s] = "answered"]
          /\ handler' = [handler EXCEPT ![s] = "starting"]
          /\ vendor_context' = [vendor_context EXCEPT ![s] = Generic]
          /\ UNCHANGED <<stores, active_calls, issued, restarts, verdict>>

\* Faulty variant, for mutation checks: repeats without waiting, once too often.
SendPostTooOften(s, d) ==
    LET p == posts[s]
    IN  /\ handler[s] = "stopping"
        /\ p.tries <= MaxTries
        /\ p.tries > 0 => d = p.decision
        /\ posts' = [posts EXCEPT ![s] =
                        [decision |-> d, tries |-> p.tries + 1,
                         inflight |-> p.inflight + 1, gone |-> p.gone,
                         waiting |-> TRUE]]
        /\ UNCHANGED vars

\* Faulty variant, for mutation checks: the decision is computed anew in every round.
SendPostRecomputed(s, d) ==
    LET p == posts[s]
    IN  /\ handler[s] = "stopping"
        /\ ~p.waiting
        /\ p.tries < MaxTries
        /\ posts' = [posts EXCEPT ![s] =
                        [decision |-> d, tries |-> p.tries + 1,
                         inflight |-> p.inflight + 1, gone |-> p.gone,
                         waiting |-> TRUE]]
        /\ UNCHANGED vars

\* One round of the retry loop: send the report and wait for the answer.
\* The decision is computed once, before the first round.
SendPost(s, d) ==
    LET p == posts[s]
    IN  /\ handler[s] = "stopping"
        /\ ~p.waiting
        /\ p.tries < MaxTries
        /\ p.tries > 0 => d = p.decision
        /\ posts' = [posts EXCEPT ![s] =
                        [decision |-> d, tries |-> p.tries + 1,
                         inflight |-> p.inflight + 1, gone |-> p.gone,
                         waiting |-> TRUE]]
        /\ UNCHANGED vars

\* The bridge leaves the retry loop and unregisters the call.
BridgeDone(s) ==
    /\ handler' = [handler EXCEPT ![s] = "ended"]
    /\ active_calls' = active_calls \ {s}

\* Faulty variant, for mutation checks: a late request is not handled.
DeliveredInTime(s) ==
    /\ posts[s].inflight > 0
    /\ posts[s].waiting
    /\ StoreTranscript(s, posts[s].decision)
    /\ posts' = [posts EXCEPT ![s].inflight = @ - 1, ![s].waiting = FALSE]
    /\ BridgeDone(s)
    /\ UNCHANGED <<vendor_context, issued, restarts>>

\* The server handles a request; its answer reaches the waiting bridge, or
\* comes after the bridge stopped waiting for it.
Delivered(s) ==
    /\ posts[s].inflight > 0
    /\ StoreTranscript(s, posts[s].decision)
    /\ \/ /\ posts[s].waiting
          /\ posts' = [posts EXCEPT ![s].inflight = @ - 1, ![s].waiting = FALSE]
          /\ BridgeDone(s)
       \/ /\ ~posts[s].waiting \/ "slow" \in BridgeFaults
          /\ posts' = [posts EXCEPT ![s].inflight = @ - 1]
          /\ UNCHANGED <<handler, active_calls>>
    /\ UNCHANGED <<vendor_context, issued, restarts>>

\* A request is lost on its way to the server.
Lost(s) ==
    /\ "lost" \in BridgeFaults
    /\ posts[s].inflight > 0
    /\ posts' = [posts EXCEPT ![s].inflight = @ - 1, ![s].gone = @ + 1]
    /\ UNCHANGED vars

\* The Lambda files its own copy, fails to forward the request, and reports
\* success all the same: the bridge is content.
ForwardFails(s) ==
    /\ "forward_error" \in BridgeFaults
    /\ posts[s].inflight > 0
    /\ posts[s].waiting
    /\ posts' = [posts EXCEPT ![s].inflight = @ - 1, ![s].gone = @ + 1,
                             ![s].waiting = FALSE]
    /\ BridgeDone(s)
    /\ UNCHANGED <<stores, vendor_context, line, issued, restarts, verdict>>

\* No answer within the timeout: try again, or give up after the last round.
\* The request itself may still be on its way.
TimesOut(s) ==
    /\ posts[s].waiting
    /\ posts[s].inflight = 0 \/ "slow" \in BridgeFaults
    /\ posts' = [posts EXCEPT ![s].waiting = FALSE]
    /\ IF posts[s].tries = MaxTries
       THEN BridgeDone(s)
       ELSE UNCHANGED <<handler, active_calls>>
    /\ UNCHANGED <<stores, vendor_context, line, issued, restarts, verdict>>

BridgeInit == Init /\ posts = [s \in Sids |-> NoPost]

Progress(s) ==
    \/ BridgeStart(s)
    \/ NoAnswer(s) /\ UNCHANGED posts
    \/ SessionReady(s) /\ UNCHANGED posts
    \/ SessionFails(s) /\ UNCHANGED posts
    \/ StreamDrops(s) /\ UNCHANGED posts
    \/ StopReceived(s) /\ UNCHANGED posts
    \/ \E d \in Decisions : SendPost(s, d)
    \/ Delivered(s)
    \/ TimesOut(s)

BridgeStep(s) == Progress(s) \/ Lost(s) \/ ForwardFails(s)

BridgeNext ==
    \/ /\ \E o \in Orders, v \in Vendors, n \in Sids,
             cat \in Categories \cup {NoCategory} : InitiateCall(o, v, cat, n)
       /\ UNCHANGED posts
    \/ \E s \in Sids : BridgeStep(s)

BridgeSpec == BridgeInit /\ [][BridgeNext]_bridge_vars

\* Both processes keep running and the network keeps moving: a request that
\* is not lost is handled, a wait ends.  Nothing obliges a request to be lost.
BridgeFairSpec ==
    BridgeSpec /\ \A s \in Sids : WF_bridge_vars(Progress(s))

-----------------------------------------------------------------------------
\* What an order reads has a cause, however late and often its calls are
\* reported: FULFILLED was answered YES by one of its vendors; FAILED and
\* FALLBACK_IN_PROGRESS were answered NO by at least one; and FAILED is read
\* only when the attempts or the vendors are used up (or the lookup failed).
\* It does not say that the last vendor was heard: a repeated NO of an earlier
\* call may use up the last attempt, or close the order, while the phone of
\* another vendor still rings.
OutcomeHasCause ==
    \A o \in Orders :
        LET answers == {verdict[s] : s \in SidsOf(o)}
        IN  /\ order_chains[o].status = "FULFILLED" => "YES" \in answers
            /\ order_chains[o].status \in {"FAILED", "FALLBACK_IN_PROGRESS"} =>
                  "NO" \in answers
            /\ order_chains[o].status = "FAILED" =>
                  \/ Exhausted(o)
                  \/ Untried(o) = {}
                  \/ "catalogue_error" \in Faults

\* The bridge reports the same decision in every round: what the server holds
\* for a call is what the bridge decided, however often it was delivered.
ReportsAgree ==
    \A s \in Sids : verdict[s] # "NONE" =>
        /\ verdict[s] = posts[s].decision
        /\ call_transcripts_store[s] = [by |-> s, decision |-> verdict[s]]

\* Every call whose bridge is done is accounted for by the server in the end,
\* even if the answers come too late for the bridge, unless each of the
\* requests was lost on the way or swallowed by the Lambda.
EveryCallReported ==
    \A s \in Sids : handler[s] = "ended" ~>
        verdict[s] # "NONE" \/ posts[s].gone = posts[s].tries
=============================================================================
