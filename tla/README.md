# HeartKart: verification of the vendor calling system

HeartKart is a retail dashboard whose agents plan replenishment, find stockouts,
suggest markdowns and prices, and, on request, telephone vendors to place an
order. Most of the agents are sequential reports: one read of the catalogue,
some arithmetic, and a language model for the wording. What is hard to get right
is the telephone. A call runs for minutes in another company's network; its
outcome is read from a conversation; a NO makes the system call the next vendor
by itself; and four processes (dashboard, API, calling server, media bridge) hold
pieces of the state of one order in their memory. This project models that part
first, in TLA+, checks it with TLC and proves its core with TLAPS.

Contents: [inventory](#1-inventory), [plan](#2-plan),
[modules](#3-modules-and-how-they-correspond-to-the-code),
[runs](#4-runs), [fairness](#5-fairness), [proofs](#6-proofs),
[disagreements](#7-where-code-and-documents-disagree),
[limits](#8-what-is-not-covered).

## 1. Inventory

Paths are relative to the repository. `CS` is
`cloud/agentcore_agents/vendor_caller/cloud_server.py`.

### 1.1 Vendor calling server, cloud (`CS`)

One asyncio process. **State**, all in memory: `order_chains` (per order: vendors
tried, SIDs of the calls, attempt number, status, decision),
`call_metadata_store` (per call: order and vendor), `call_transcripts_store` (per
call: conversation and decision), `active_calls` (agents by SID).
**Operations**: `initiate_call_api` places a call through Twilio and opens or
extends a chain; `media_stream_handler` handles the web socket of a call (`start`
sets up a voice session, `media` forwards audio, `stop` ends the session, files
the transcript, handles the decision and copies the transcript to the SID of the
chain's first call); `store_transcript_api` does the same for a report from
outside; `handle_vendor_decision` settles the chain or calls
`find_alternative_vendor` and `initiate_twilio_call`; the rest are reads.
**Hard**: the handlers of several calls interleave at every `await`; Twilio and
the session may fail; nobody reports an unanswered call; a restart forgets
everything while phones ring on. **Correct when**: the parallel records of a
chain agree; an order is offered to a bounded number of different vendors, one
at a time; its status is what the vendors answered; a settled order stays
settled; the first SID, which the dashboard polls, shows the newest conversation.

### 1.2 Media bridge as a process of its own

`cloud/agentcore_agents/vendor_caller/nova_sonic_twilio_server.py` handles the web
sockets and reports each finished call with `POST /api/store-transcript`, up to
three times with a timeout of ten seconds, to `API_URL`: the Lambda, or by
default the local backend. **Hard**: a report may be lost, late, or handled
twice. **Correct when**: the reports of a call agree, each ended call is
accounted for, and repeated reports leave the chain consistent.

The bridge in `local/agents/vendor_caller/`, which the local setup guide starts,
talks for a fixed sample order and posts nothing.

### 1.3 Dashboard API, Lambda (`cloud/app_agentcore.py`)

Stateless in principle, with per-instance copies of transcripts and metadata.
**Operations**: `call_vendor` proxies to the calling server; `get_call_status`
derives one word from metadata, chain and transcript; `get_transcript` combines
several reads of the server into a notification (purchase order, rejections);
`store_transcript` files and forwards a report. The other endpoints invoke an
agent and format its answer. **Hard**: several reads of a moving state, each of
which may fail and is then skipped. **Correct when**: what is shown is what the
chain settled on, and names the vendor who said it.

### 1.4 Local backend (`local/app.py`)

A threaded Flask server with its own `order_chains`, `call_metadata_store`,
`call_transcripts_store`, `notifications_store` and `_pricing_cache`.
**Operations on calls**: `call_vendor`; `store_transcript`, which notifies a NO
and starts a daemon thread that sleeps five seconds, compares the attempts again,
queries the catalogue and calls the next vendor; `get_transcript`, which builds
and caches the notification of a call. **Hard**: threads of one order race between the
comparison and the update. **Correct when**: as for the server, and notifications
say what was answered. Its pricing cache has races of its own (1.8).

### 1.5 Vendor orchestrator, local (`vendor_orchestrator_v2.py`)

`place_order_with_fallback` ranks the vendors (the one in the dashboard's row
first), removes repeated names, keeps two, and calls one after the other through
the backend, polling Twilio's status and the transcript with bounded waits. It
keeps `attempts` on its stack. **Hard**: each wait may run out before the event;
the backend reacts to the same NO on its own. **Correct when**: never more than
two calls, the preferred vendor first, nobody twice, one at a time, nobody after
a YES, and the purchase ends.

### 1.6 Voice agent (`cloud/agentcore_agents/vendor_caller/nova_sonic_voice_agent.py`)

One bidirectional session with the speech model, on the event loop of 1.1. **State**:
`is_active`, the input side of the stream, an audio queue with a sentinel, the
recorded conversation; two tasks, `_process_responses` and the server's
`_forward_audio`. **Operations**: `start_session`, `send_audio`, the events of the
model, `end_session`. **Hard**: the coroutine of the web socket, the response
task and the forwarder share all of it; the shutdown waits five seconds and then
cancels; the decision is read from the conversation while the task that records it may
still run. **Correct when**: the decision is read from the whole conversation and is what the
vendor said to the order, a session is always closed, and all tasks end.

The local directory has a copy, without the calling server around it.

### 1.7 Call log (`cloud/vendor_caller_lambda/lambda/twilio_handler.py`)

Writes a DynamoDB row per call and updates it from Twilio's callbacks. **Hard**: the
callbacks race the write of the SID and each other. **Correct when**: the row ends
with the final status.

### 1.8 Pricing cache (`local/app.py` 251-390, 1605-1660)

Reports cached for 60 s, computed by threads that outlive their timeout, with a
fallback payload. **Correct when**: a hit is the newest real result.

### 1.9 Dashboard (Next.js)

`ReplenishmentPanel.tsx` starts a call, polls its status every three seconds without
waiting for the poll before, then fetches the result with up to five retries, and keeps
notifications in localStorage; `NotificationsPanel.tsx` shows them. **Hard**: two
polls may both read "completed"; the Lambda reads the order piece by piece. **Correct when**: a
settled order is shown, once, as what it was settled. `CallVendorModal.tsx` is imported by no page.

### 1.10 Sequential agents

Replenishment planner, stockout sentinel, exception investigator, inventory
copilot, markdown coach, market and pricing intelligence, e-mail drafter, each in a
local and a cloud copy; PDF generation; product data access. No shared state; their
correctness is arithmetic (reorder quantities, discount bands, price guardrails).

### 1.11 How they interact

    dashboard --HTTP--> Lambda --HTTP--> calling server --REST--> Twilio
        |                  ^                  ^  ^                   |
        |                  | reports          |  +---- web socket ---+
        |                  +----- bridge -----+        (embedded)    |
        |                           ^------------- web socket -------+
        +--HTTP--> local backend <--HTTP-- orchestrator

`PROJECT.json` lists every component with its status, and the hazards with the
line where each bites and the properties that cover it.

## 2. Plan

In order of importance:

1. **VendorCaller**, **OrderOffer**, **VendorCallerOffer**: the core. Done, and proved.
2. **RemoteBridge** (extends VendorCaller): reports over an unreliable network. Done, and proved.
3. **LocalBackend**, and **Orchestrator** (extends LocalBackend): the threaded
   backend and the purchase that runs over it. Done, and proved.
4. **Dashboard** (extends VendorCaller): the panel's overlapping polls and the
   Lambda's separate reads, while the server moves on. Done, and proved.
5. **VoiceSession** (implements a call of VendorCaller): session, queue, forwarder, shutdown, and how the
   decision is read from the conversation. Done, and proved.
6. **Replenishment**: selection, quantity and order of the plan that the calls come from. Done, and proved.

Left out: a module for the call log (1.7), whose only race is a callback that arrives
before the row has its SID, and one for the pricing cache (1.8), because nothing in the
repository says which result a hit must be.

Composition: RemoteBridge and Dashboard extend VendorCaller, Orchestrator extends
LocalBackend; VendorCallerOffer and Orchestrator refine OrderOffer, the abstract
statement of what a fallback may do; VoiceSession refines one call of VendorCaller.
Every safety property and every refinement that a passing run checks is also a theorem
(section 6). Still worth proving: what remains of the fallback discipline of VendorCaller
when clients reuse order ids, and of LocalBackend when a call is reported more than
once (the bound itself is false there, as MCLocalBackendRepeat shows).

## 3. Modules and how they correspond to the code

The `map` of `PROJECT.json` gives the source lines of every definition.
Definitions marked "Faulty variant, for mutation checks" model no code: each is a
definition as a plausible bug would have it, and is used to see that a property fails
then.

**VendorCaller** models 1.1. Variables carry the names of the stores; `handler[s]`
is the point where the web socket handler of call `s` stands, `line[s]` Twilio's
side of the call, `verdict[s]` (history) the decision reported for it. Python
code between two awaits is one action: `StartStream` (the `start` event up to
`start_session`), `SessionReady` or `SessionFails`, `StopReceived` (up to the awaits that
close the session), `StopFinished` (all the rest of `stop`: file, decide, possibly place
the next call, copy, unregister), `StreamDrops`, `InitiateCall`, `NoAnswer`,
`Restart`. The Twilio request inside an action blocks the event loop, so nothing
interleaves with it. A conversation is reduced to the decision that
`detect_vendor_decision` reads from it (VoiceSession opens this up); names to members of a set with `Lower` for
their spelling; the catalogue to `Catalogue` and `Sells`, in any order, since a table
scan promises none.

**OrderOffer** states the fallback without calls: offers to distinct vendors, one
open at a time, at most `MaxOffers`, one final outcome, and forgetting everything at
a restart. **VendorCallerOffer** maps a chain to it: its offers are the spelling-free names of
the vendors tried, its outcome is read from the status (`FALLBACK_IN_PROGRESS` is
still open).

**RemoteBridge** extends VendorCaller with `posts[s]`, the reports of a call: how
many rounds were tried, how many requests are under way, whether the bridge is waiting.
`SendPost`, `Delivered`, `Lost`, `ForwardFails`, `TimesOut` are a round of the retry loop and
what can become of it, and `gone` counts the requests that never reached the server. `Progress` is what
the two processes and the network do of themselves, apart from losing a request. `Delivered` takes the server's `StoreTranscript`, which files
under the reported SID only, and handles the decision each time it comes.

**LocalBackend** models the calls of 1.4. The k-th report of a call and the thread
it may start are a job that goes through `StoreTranscript`, `HandleDecision`, `CheckAttempts`,
`FindAlternative` and `CallNext` (the request to Twilio), and then through the four statements that enter
the new call in the stores, each a step of its own: `CountAttempt`, `ListVendor`, `PointAtCall`, `RecordCall`. Jobs interleave
freely between any two of these. A single statement is not cut further: CPython from 3.11, which the project asks for, lets go of a
thread at calls and backward jumps only, so not inside the increment of the attempt. A conversation is taken to outlast the writes that follow the placing of its call. `CallVendor` is one step: the stores
are filled within milliseconds of Twilio's answer, long before a conversation can be
over, and its order has no other thread yet.

**Orchestrator** extends LocalBackend by one purchase: `MakePlan` (`Prioritized`, then
`UniqueNames`, then the cut), `Dial` and `Called` or `DialTimeout` (the backend places the call; its answer
arrives or does not), `DialRefused`, `CallEnded` or `CallIncomplete` (`_check_call_status`), `ReadDecision`,
`AnalyseLocally` or `AssumeNo` (`_wait_for_transcript` and the decision), and `NextOrDone`. `AnalyseLocally` is what follows when the request for
the decision fails: the exception is caught and the transcript analysed in its place, which may read a YES as anything. `Timeouts` says which waits may run out
(or requests fail) first; the history variable `late` records that one did. `UniqueNames` is the loop over `seen_names`, said without
a loop: the elements at the positions whose name was not met before (`FirstMet`), in their order (`Pick`). Every attempt is an order
of its own to the backend, without category, because `_make_vendor_call` sends neither.

**Dashboard** extends VendorCaller by the panel and the Lambda between it and the server. `PanelCalls` places the call; its SID then
reaches the panel, which starts to poll (`CallAnswered`), or is lost on the way (`CallAnswerLost`: the proxy of the Lambda gives up after 60 seconds,
or the browser's request fails), and the call goes on unwatched. A request
of the browser occupies a slot, and its `at` says how far it is: `Poll`, then `PollChain` and
`PollTranscript` (`get_call_status`), `PollAnswered` (the timer stops, the fetch begins),
`FetchTranscript`, `FetchChain`, `FetchVendor` (`get_transcript`, each a read that may
fail and is then skipped), and `FetchAnswered`, `FetchWithheld` or `FetchFails` at the panel. Between
any two of them other requests and the server take their steps. `lambda_transcripts` is
what a warm instance of the Lambda remembers; each fetch may meet a warm or a cold one. The id of a
notification is made of the SID of a success, but of the first eight characters of the SID of a rejection; `Short` gives
these, `SameId` compares, and `FetchAnswered` drops a notification whose id is known, within one answer too.

**VoiceSession** models 1.6 and the coroutine around it. `handler` is where `media_stream_handler` stands,
`response` and `forward` are its tasks, `input` the stream, `stage`, `due` and `said` the script of the
prompt. An action is a stretch of one task between two awaits: `StartStream`, `StreamOpened`,
`PromptSent`, `SessionReady` (set-up), `AgentText`, `AgentVoice`, `VendorText`, `StreamEnds` (events of
the model), `TakesAudio`, `Played`, `SendFails` (forwarder), `StopReceived`, `StreamDrops`, `SessionFails` (the
three ways out), `InputClosed`, `Drained`, `SessionEnded` (`end_session` and the rest of the handler). A vendor's utterance
is known by its meaning and by the keywords its text contains, an agent's line by the part of the script it says (`Part`) and by the closing
phrases its text contains (`Phrases`). `DetectVendorDecision` reads the decision off the recorded conversation as the code does: a phrase that stands for YES
anywhere in what the agent said, then both phrases that stand for NO, then keywords. A line may be in other words than the script's, and a greeting or an
order may contain "wonderful" because a vendor or product is called so. Two assumptions remain: the model takes the parts of the
script in the order of its prompt (`NextLine`), and vendor and agent take turns (`VendorSpeaks`: a vendor who speaks into a line that
is still playing is outside the model). A phrase that only arises where two lines are joined is left out. `ImplementsCall` maps all of this to
the one call of VendorCaller: `handler`, `active_calls` and `verdict` of that call.

**Replenishment** is one pass over a product table. `GeneratePlan` selects (`LowStock`), computes
(`Recommendation`, with `OrderQuantity` and `Urgency`) and sorts (`SortedBy`, the result of a stable sort).

**VendorCallerProofs**, **FallbackProofs** (which extends it), **DashboardProofs** and **RemoteBridgeProofs**
(which extend both), **LocalBackendProofs**, **OrchestratorProofs** (which extends it), **VoiceSessionProofs**
and **ReplenishmentProofs** hold the theorems (section 6).

## 4. Runs

Each property of a passing run also fails for a named mutant of a modelled definition
(`mutants` in `PROJECT.json`).

| run | instance | shows |
|---|---|---|
| MCVendorCallerFaults | 2 orders, 4 SIDs, 5 names of 4 vendors, 3 in the catalogue, 3 attempts, all faults, 1 restart | bookkeeping (`ChainAligned`), discipline (`OneOfferAtATime`, `StatusIsEarned`, `SettledIsFinal`, `CategoryFirst`), transcripts (`FirstSidShowsLatest`, `OwnTranscriptKept`), `AgentKnowsItsVendor`, refinement of OrderOffer (bounded offers, no vendor twice) |
| MCRemoteBridgeRetries | 1 order, 3 SIDs, 2 attempts, 2 rounds; slow, lost and swallowed reports, failing metadata, all faults of calls | `AttemptsBounded`, `OutcomeHasCause`, `ReportsAgree`, `EveryCallReported` |
| MCDashboard | 1 order, 3 SIDs, of which 2 begin alike, 3 vendors, 2 requests at a time, 2 fetches of a result, 2 failing reads, a lost answer to the call | `ShownAsSettled`, `PONamesAcceptor`, `OutcomeShown`; of the server without faults `EveryOrderSettles`, `FailedMeansExhausted` |
| MCVoiceSession | 2 answers to the greeting, 4 to the order with deceptive keywords, 2 questions; lines of the agent with a closing phrase in the wrong place, or a closing in other words; failed set-up, dropped socket, stream that ends or gets stuck | `SummaryIsComplete`, `ClosingLineDecides`, `NoSessionLeft`, `TasksEnd`, refinement of a call of VendorCaller |
| MCLocalBackend | 2 orders, 3 SIDs, 2 attempts, each report delivered up to twice, all faults | `ChainCountsCalls`, `FallbackIsOrderly`, `NotificationIsEarned` |
| MCOrchestrator | 2 orders to the backend, 3 SIDs, database of 0, 1 or 3 entries with a repeated name, preference in another spelling, first, later or not listed, all timeouts and faults | `HardCap`, `PreferredFirst`, `AttemptsFollowAnswers`, `PurchaseEnds`, refinement of OrderOffer |
| MCReplenishment | every table of up to 3 products with stock around 0 and the threshold, slow to fast sellers, minimum orders of 7 and 50; plans of 2 | `CoversDemand`, `RunsOutFirst` |
| MCLocalBackendRepeat | 1 order, 3 SIDs, 3 reports | **violated** `AttemptsBounded` |
| MCLocalBackendCategory | clients that send no category, as those in the repository | **violated** `DeclineMovesOn` |
| MCOrchestratorOverlap | status and transcript waits may run out | **violated** `OneOnThePhone` |
| MCVoiceSessionMisheard | as MCVoiceSession | **violated** `YesIsAnAcceptance` |
| MCReplenishmentForgotten | as MCReplenishment, plans of 3 | **violated** `LowIsPlanned` |

Why the bounds are enough. Orders share nothing but the event loop (or the thread
pool) and the SIDs, so two show every interference. SIDs bound the calls; there is one
more than an order may use, or enough for one order to fall back while another is under
way, so that a call too many can happen. The catalogue has a vendor inside and
vendors outside the category and one that clients spell differently. Two rounds of a
report make a repetition possible; a third does what the second does. `MaxRestarts`
is 1: after a restart the stores are as in the beginning except for the calls
still in the air, and a second restart adds no new kind of those.
One pair of SIDs that begin alike shows what a clash of ids does. In Dashboard a third request at a time would find the
timer as the second does; two failing reads are as many as there are fetches, so that the panel can be made to
give up. The questions of a vendor only repeat the turn of the conversation in which they are asked.
A table of three products has every pair that a sort can get wrong and one that the cut leaves out.
`MaxTries`, `MaxReports`, `MaxFetches`, `MaxAttempts` and `MaxVendors` are bounds of the code (3, 3, 6, 3 or 2, 2), lowered where the
state space asks for it. Symmetry is used over SIDs, over order ids where the
instance has several, and in MCLocalBackend over the two vendors that are listed alike, only in runs without liveness. Deadlock is not
checked where the system may stop: when the SIDs are used up and every call is over, nothing is left to happen.

`FallbackIsOrderly` and `AttemptsFollowAnswers` have a premise (this order's reports
came once; no wait has run out and no read has failed), and so has the last conjunct of `ChainCountsCalls`: with a repeated NO the
two threads may leave the current call that of another vendor than the one listed last. The violated runs show that it is needed; the passing
runs reach states with and without it, so an order in good order is checked beside
one that is not. `PONamesAcceptor` speaks of instances in which every read succeeded, and allows a rejection to go
unreported when one under a SID that begins alike was reported before it. `OutcomeShown` excuses a panel whose reads failed as often as it asks, and the orders
of which an answer was lost in the browser: that with the SID of the call, which then nobody polls, or that with the result. `ClosingLineDecides` speaks of calls
whose closing line is in the words of the script, and no other line of which contains a phrase that stands for YES.
`OutcomeHasCause` does not say that the last vendor was heard: a NO that is repeated may close an order while another vendor's phone rings. `NoSessionLeft` is checked with
`ErrorSaysClose = FALSE`: when a send of the forwarder fails, the code tells a closed socket by
the word "close" in the text of the error and then marks the session inactive without ending it; the error
of the installed aiohttp, "Cannot write to closing transport"
(`cloud/lambda-package/aiohttp/_websocket/writer.py` 79), does not contain that word.

## 5. Fairness

- `RemoteBridge!BridgeFairSpec`: `Progress` of each call. A phone stops ringing, a conversation ends, the bridge
  takes its next step, a request that is not lost is handled, a wait ends.
- `Dashboard!DashFairSpec`: the server's step of each call, as above, the end of the request that placed
  it, and the next step of each request; the timer ticks while it runs. Nobody need place an order.
- `VoiceSession!FairSpec`: each of the three tasks takes a step when it can. For the response task that
  includes what the model says: it is taken to go on with the script while it is listened to, and a stream whose input was
  closed ends. The vendor need neither speak nor hang up: `TasksEnd` is about what has begun to end.
- `LocalBackend!FairSpec`: calls end, the first report is delivered, threads run on, the
  dashboard polls.
- `Orchestrator!OrchFairSpec`: the coroutine takes a step when it can, calls end and are reported. Fairness is
  asked of the steps that leave `late` as it is: the first wait of a purchase need not run out (though in the code each is bounded), so
  `PurchaseEnds` does not rest on it; after one has, the others may be obliged to.

None of them is stronger than the scheduling of the code: no strong fairness and none of faults. Where a wait has to end
(the bridge's, the shutdown's) it is one that the code bounds by a timeout.

## 6. Proofs

TLAPS checks the following for all values of the constants; each module's own assumption on them
(`ConstantsAssumption`, `VoiceAssumption`, `PlannerAssumption`, ...) is used throughout.

**VendorCallerProofs**: `TypeCorrect` (`TypeOK`) and `Aligned` (`ChainAligned`), whatever order ids clients send.
`ChainAligned` is not inductive: `PlaceCall` appends a SID that must be new to every
chain. `AlignInv` adds `CallsInv`: a call with metadata, in a chain, or with a handler has a line
that is not `unused`; so the SID Twilio hands out, being unused, is nowhere yet.

**FallbackProofs**, assuming `~ClientOrderIds` besides (the server draws the ids
of orders; with reused ids `AttemptsBounded` is false, and `ChainAligned` is
what remains). The inductive invariant is

    FallbackInv == AlignInv /\ ChainsSound /\ CallsInChains

`ChainsSound` says of each chain what is to be proved: bounded, distinct, its status earned,
every vendor but the last has said NO. It is not inductive by itself, because the decision
handled next might come from any call. `CallsInChains` (a call with metadata is in the chain its metadata
names) together with `ChainsSound` gives the lemma `StoppingIsLast`: a call that is stopping has no verdict, the earlier calls of
its chain have one, so it is the last, and its chain is `CALLING`. From there each branch of
`HandleVendorDecision` has its lemma (`SetStatusSound`, `PlaceNextSound`), other chains
are untouched (`OthersSound`), and `FallbackStep` puts the actions together. Theorems: `OffersBounded`
(`AttemptsBounded`), `NoVendorAskedTwice` (`NoVendorTwice`), `StatusEarned` (`StatusIsEarned`), `OneOfferOpen`
(`OneOfferAtATime`); the action properties `SettledStaysSettled` (`SettledIsFinal`) and `CategoryComesFirst`
(`CategoryFirst`); and `Refines` (`ImplementsOffer`): each step of the server is a step of OrderOffer or a stutter.

`FailedIsExhausted` (`FailedMeansExhausted`) needs to know which step can have given an order up (`FailedCause`) and that
nothing is tried afterwards. `AgentGreetsItsVendor` (`AgentKnowsItsVendor`) needs only `CallsInv`, since metadata is
written for a SID that has no handler yet, and no assumption on the order ids. `TranscriptsKept`
(`OwnTranscriptKept`) and `DashboardSeesLatest` (`FirstSidShowsLatest`) come from an invariant that says, by position in
the chain, under which SID the conversation of each call is filed; by `StoppingIsLast` the call that is copied to the
first SID is the newest.

**DashboardProofs**: `ServerUnchanged` shows that the composition takes no step of the server that VendorCaller does not take
(`DashSpec => Spec`), so all theorems above hold under the panel. `PanelTyped` (`DashTypeOK`), `OnlySettledShown`
(`ShownAsSettled`) and `PurchaseOrderNamesAcceptor` (`PONamesAcceptor`), with `~ClientOrderIds`, follow from

    PanelInv == DashTypeOK /\ WatchTrue /\ PanelTrue

over the server's own invariant. A request reads the server several times while it moves on, so what a request or a warm
copy holds is related to the order as it is now: the panel asks for the first call of its order, a fetch begins only when the order
is closed, and a closed order does not change (restarts of the server are not part of this composition). `AllOrNothing` says that without a failing
read an order is announced in full, up to rejections whose id was taken, or not at all, which is what makes the purchase order and the rejections agree.

**RemoteBridgeProofs**: `BridgeTyped` (`BridgeTypeOK`), `OneDecisionPerCall` (`ReportsAgree`), `OutcomesCaused`
(`OutcomeHasCause`) and `BridgeChainsAligned` (`ChainAligned`), whatever order ids clients send. `ChainsSound` of FallbackProofs does
not survive here: a late report is handled when its order has moved on, so the status of a chain says what some
vendor answered and not what the last one did. `OutcomeHasCause` is inductive with the rest: a status is only written by a report, whose decision is that of a vendor of the order
(`ReportKeepsOrders`), and FAILED only when nobody is left to ask (`FailedIsUsedUp`). What is left of the chains rests on the retry loop (`PostSound`: a report exists
only for a call that was placed, carries the decision of the first round, and no more are under way or gone than were
sent). With `~ClientOrderIds`, `BridgeOffersBounded` (`AttemptsBounded`) and `BridgeAsksNobodyTwice`: only
`handle_vendor_decision` adds to a chain, and it compares the count and the names first, whatever report it is handling.

**LocalBackendProofs**: `LocalTypeCorrect` (`TypeOK`), `CallsAreCounted` (`ChainCountsCalls`) and
`NotificationsAreEarned` (`NotificationIsEarned`), for any number of reports and threads. `LocalInv` adds that a call that is
not over has left nothing in the stores and no job, that what is filed for it is its answer, that a
thread works for an order with a chain, and that the call which a thread has placed and not yet recorded is held by no other (`HeldInv`). `CountInv` then counts,
for each order, the attempts, the list and the recorded calls together with the threads that stand between two of their writes: each write moves one
thread from one of these sets to the next. `OnceReportedIsOrderly` (`FallbackIsOrderly`) is not inductive: a thread compares the attempts and looks for a vendor long before
it calls. `OnceInv` adds that, when each call of an order is reported once, only its current call can have a thread at work
(`LastIsAtWork`), every earlier call having been declined and its thread being done; so what the thread found out still holds
(`JobFits`).

**OrchestratorProofs**: the purchase, whichever wait runs out. `UniqueNamesKeepFirsts` and `PlansAreGood` are about the data: a plan is
not empty, not longer than the limit, has no name twice and the preferred vendor first. They need induction over positions, which
is done with the least member of a set of numbers (`LeastMember`, from `WFMin`). `PurchaseInvariant` then has `OrchInv`: the attempts
follow the plan, every call placed belongs to an attempt, and, while no wait has run out, the orchestrator
goes on from an attempt only when its vendor is off the phone and has not accepted. That the backend adds no calls of
its own is part of it (`NobodyElseCalls`): without a category its threads find nobody. It gives `PurchaseTyped` (`OrchTypeOK`),
`PurchaseBounded` (`HardCap`), `PreferredCalledFirst` (`PreferredFirst`), `NobodyCalledTwice` and `PurchaseFollowsAnswers`
(`AttemptsFollowAnswers`). `PurchaseRefines` (`ImplementsOffer`): a step shows nothing, an outcome, or one more vendor
called, whose name is new because the plan has no name twice.

**VoiceSessionProofs**: `VoiceTypeCorrect`, `SummaryComplete` (`SummaryIsComplete`), `ClosingLineCounts`
(`ClosingLineDecides`), and, if `~ErrorSaysClose`, `SessionsClosed` (`NoSessionLeft`). `VoiceInv` says what each point of
the coroutine knows of the tasks, which lines of the script have been recorded in each stage, and that at most one piece of
voice is on its way to the vendor. `CallImplemented` (`ImplementsCall`): what VendorCaller sees of a call follows from three things,
and only six kinds of step change one of them (`CallUnseen`, `CallMoves`); a decision is read once because `DecisionInv` has none before.

**ReplenishmentProofs**: `PlanCoversDemand` (`CoversDemand`), by integer division (`QuotientFits`, `QuantityCovers`), and
`PlanOrder` (`RunsOutFirst`), because `Urgency` is monotone in the days left (`UrgencyMonotone`), so that sorting by both is
sorting by the days.

Only model-checked: the liveness properties `EveryCallReported`, `EveryOrderSettles`, `OutcomeShown`, `TasksEnd` and `PurchaseEnds`, which
need fairness and ENABLED, out of this prover's reach. The properties of the violated runs are false. `AttemptsBounded`,
`ShownAsSettled` and the others named with `~ClientOrderIds` are neither proved nor claimed for clients that reuse order ids.

## 7. Where code and documents disagree

Shown by a run (`findings` in `PROJECT.json` quotes the lines):

- In the local backend a NO that is reported twice starts two threads that both pass
  the test of the attempts, and an order is offered to three vendors instead of two.
- No client of the local backend sends the category its fallback looks vendors up by,
  so a declined order goes nowhere.
- The orchestrator takes a wait that ran out for a NO and calls the next vendor while
  the first may still be on the phone.
- A vendor that answers the greeting with "Yes, go ahead." and hangs up has, by the keywords, accepted an
  order it never heard.
- The planner selects by stock between 1 and 20; the design asks for every product below its reorder point.

Met while reading or modelling, and not run:

- An unanswered call is never reported to the server (`CS` 259): its order stays `CALLING` and is polled for ever.
  `EveryOrderSettles` fails with the fault `no_answer`.
- An order settled as `UNKNOWN` is reported in progress for ever (`cloud/app_agentcore.py` 1026).
- Of two polls under way the slower may read "completed" after the result was fetched and a newer order
  placed; the panel then stops the timer that polls the newer (`ReplenishmentPanel.tsx` 600).
- A `FAILED` order yields one notification, naming the first vendor and announcing that the next one is being
  contacted (`cloud/app_agentcore.py` 1370).
- A declined order of a product or vendor called "Wonderful ..." is decided as YES, because the phrase is sought in all the agent's
  lines (`CS` 155); without its last premise `ClosingLineDecides` fails in MCVoiceSession.
- Two calls whose SIDs share their first eight characters share the id of their rejections, and the second is not shown
  (`cloud/app_agentcore.py` 1354, 1399).
- When the answer to `/api/call-vendor` is lost (the proxy's 60 seconds, 947), the call goes on and the panel never asks for its result (`ReplenishmentPanel.tsx` 584-587).
- When the request for the decision fails, the orchestrator analyses the transcript itself, and may take a YES for something else and call the next vendor
  (`vendor_orchestrator_v2.py` 256-289).
- In the local backend, two threads of one order (a NO that was repeated) may leave `current_call_sid` at the call of another vendor than the one listed last (`local/app.py` 203-205).
- A NO that the bridge repeats may close an order as `FAILED` while the next vendor's phone rings (`CS` 344-384).
- When the read of the accepting vendor's metadata fails, the purchase order names the first vendor (`cloud/app_agentcore.py` 1256).
- After a fallback reported through the API the first SID keeps the first vendor's answer, so the panel shows a
  rejection of an order that is `FULFILLED` (`CS` 472-509, compare 753-757).
- Keywords are found inside other words: "cannot" contains "no", "we cannot" contains "we can" (`CS` 160-181); the design
  (property 12) speaks of clear language.
- A web socket that closes without `stop` leaves the call without transcript and the order unsettled (`CS` 782-791).
- A fallback call that Twilio refuses leaves the chain in `FALLBACK_IN_PROGRESS` (`CS` 344-384).
- The Lambda acknowledges a report it failed to forward (`cloud/app_agentcore.py` 1099-1109).
- In the local backend the YES of a second vendor raises no purchase order, because only the first call is polled; and
  an UNKNOWN is announced as "automatically contacting the next available vendor" (`local/app.py` 1463) though only a NO does that (1275).
- The bridge of the local deployment stores no transcript (`local/agents/vendor_caller/nova_sonic_twilio_server.py` 301-305).
- The orchestrator counts a call that was refused among those that "declined with a proper NO/UNKNOWN" (`vendor_orchestrator_v2.py` 178, 395).

## 8. What is not covered

- Not modelled, though they compute: the call log and the pricing cache (section 2), the agents for prices, markdowns and
  stockouts (floating point, percentages and a language model; sequential, without an invariant over steps).
- Most of the repository's lines are third-party packages in `cloud/lambda-package`; the modules
  cover the files named in section 3.
- Not modelled by intent: wording and layout (prompts, e-mails, PDF, notifications),
  audio conversion, rendering, deployment scripts, the third-party code in
  `cloud/lambda-package`, the language models.
- Outside VoiceSession the decision of a call is any of YES, NO and UNKNOWN (and MAYBE for the local transcript
  analysis). VoiceSession reads it from lines and keywords; that speech is transcribed rightly is not claimed.
- Replenishment computes with integers; a float of the code that falls just short of an integer is left out.
- A call that Twilio places although its answer to the server is lost is not modelled as
  such; a call without chain and metadata is reached through the restart.
- The second copy of the chain logic (`cloud/agentcore_agents/vendor_caller/agent.py`) is used by
  no part of the repository that runs.

To check a run: `tlc -config MCVendorCallerFaults.cfg MCVendorCaller.tla` (each row of the table names the `.cfg`; its
module is the `MC` module it begins with). To check the proofs: `tlapm` on each of the
eight `*Proofs.tla`.
