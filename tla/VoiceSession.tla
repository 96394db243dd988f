---------------------------- MODULE VoiceSession ----------------------------
(******************************************************************************)
(* One call inside the calling server: the coroutine of the web socket        *)
(* (media_stream_handler of cloud_server.py) and the two tasks that it        *)
(* starts with the voice agent (nova_sonic_voice_agent.py): the response      *)
(* task records what is said and queues the agent's voice, the forwarder      *)
(* plays the queue to the vendor.  They share is_active, the queue and the    *)
(* recorded conversation, and run on one event loop: an action is a stretch   *)
(* of one of them between two awaits.                                         *)
(*                                                                            *)
(* VendorCaller abstracts all of this to a call that talks, stops and has a   *)
(* decision; ImplementsCall says that it may.                                 *)
(*                                                                            *)
(* A vendor's utterance is known by its meaning and by the keywords of        *)
(* detect_vendor_decision that its text contains; an agent's line by the part *)
(* of the script that it says and the closing phrases that its text contains, *)
(* the names of vendors and products in it included.                          *)
(******************************************************************************)
EXTENDS Integers, Sequences, FiniteSets

CONSTANTS
    Acknowledgements,   \* what a vendor may say to the greeting
    Answers,            \* what a vendor may say to the order
    Means,              \* answer -> "YES", "NO" or "QUESTION"
    YesWords, NoWords,  \* utterance -> the keywords in its text
    AgentLines,         \* what the agent may say
    Part,               \* agent's line -> the part of the script it says
    Phrases,            \* agent's line -> the closing phrases in its text
    MaxQuestions,       \* bound on the vendor's questions
    SessionFaults,      \* the faults the environment may produce
    ErrorSaysClose      \* the text of a failed send contains "close"

Utterances == Acknowledgements \cup Answers

Script   == {"greeting", "order", "reask", "accepted", "declined"}
Closing  == {"accepted", "declined"}
Finished == {"ended", "failed", "dropped"}
Silence  == "silence"

\* The phrases that detect_vendor_decision looks for in what the agent said.
YesPhrases == {"purchase order document to your email", "wonderful"}
NoPhrases  == {"thank you for letting me know", "we'll be in touch"}

ASSUME VoiceAssumption ==
    /\ Acknowledgements \cap Answers = {}
    /\ Means \in [Answers -> {"YES", "NO", "QUESTION"}]
    /\ \A u \in Utterances : IsFiniteSet(YesWords[u]) /\ IsFiniteSet(NoWords[u])
    /\ Part \in [AgentLines -> Script]
    /\ Phrases \in [AgentLines -> SUBSET (YesPhrases \cup NoPhrases)]
    /\ MaxQuestions \in Nat
    /\ SessionFaults \subseteq {"session_error", "drop", "stream_ends", "stuck"}
    /\ ErrorSaysClose \in BOOLEAN

VARIABLES
    handler,    \* where the coroutine of the web socket stands
    why,        \* why it ends the session: "stop", "drop", "error"
    is_active,  \* agent.is_active
    input,      \* the input side of the stream to the model
    response,   \* the task of _process_responses
    forward,    \* the task of _forward_audio
    audio_queue,
    conversation_history,
    decision,   \* what the "stop" handler read from the conversation
    \* the model and the vendor
    stage,      \* whose turn it is in the conversation
    due,        \* the line of the script that the agent is at
    said        \* the vendor's last utterance

vars == <<handler, why, is_active, input, response, forward, audio_queue,
          conversation_history, decision, stage, due, said>>

agent_vars  == <<is_active, input, response, forward, audio_queue>>
script_vars == <<stage, due, said>>

Line == [role : {"assistant"}, content : AgentLines]
            \cup [role : {"user"}, content : Utterances]

VoiceTypeOK ==
    /\ handler \in {"idle", "opening", "prompting", "greeting", "talking",
                    "closing", "draining", "settling"} \cup Finished
    /\ why \in {"none", "stop", "drop", "error"}
    /\ is_active \in BOOLEAN
    /\ input \in {"none", "open", "closed"}
    /\ response \in {"none", "waiting", "done"}
    /\ forward \in {"none", "getting", "sending", "done"}
    /\ audio_queue \in Seq({"audio", "end"})
    /\ conversation_history \in Seq(Line)
    /\ decision \in {"NONE", "YES", "NO", "UNKNOWN"}
    /\ stage \in {"agent", "voice", "playing", "vendor", "heard", "over"}
    /\ due \in Script
    /\ said \in Utterances \cup {Silence}

-----------------------------------------------------------------------------
(******************************************************************************)
(* detect_vendor_decision.  The closing phrases in all that the agent said    *)
(* decide, whichever line they are in; without them, the distinct keywords in *)
(* all that the vendor said are counted.                                      *)
(******************************************************************************)
Spoken(h, role) == {h[i].content : i \in {j \in DOMAIN h : h[j].role = role}}

ByKeywords(h) ==
    LET y == Cardinality(UNION {YesWords[u] : u \in Spoken(h, "user")})
        n == Cardinality(UNION {NoWords[u] : u \in Spoken(h, "user")})
    IN  CASE y > n -> "YES" [] n > y -> "NO" [] OTHER -> "UNKNOWN"

PhrasesIn(h) == UNION {Phrases[l] : l \in Spoken(h, "assistant")}

\* Faulty variant, for mutation checks: the keywords come before the phrases.
DetectKeywordsFirst(h) ==
    CASE ByKeywords(h) # "UNKNOWN"           -> ByKeywords(h)
      [] PhrasesIn(h) \cap YesPhrases # {}   -> "YES"
      [] NoPhrases \subseteq PhrasesIn(h)    -> "NO"
      [] OTHER                               -> "UNKNOWN"

DetectVendorDecision(h) ==
    IF PhrasesIn(h) \cap YesPhrases # {}  THEN "YES"
    ELSE IF NoPhrases \subseteq PhrasesIn(h) THEN "NO"
    ELSE ByKeywords(h)

-----------------------------------------------------------------------------
(******************************************************************************)
(* The response task.  It tests is_active once per output, so after the       *)
(* flag has fallen it still handles the output that it was waiting for.       *)
(******************************************************************************)
\* Faulty variant, for mutation checks: the forwarder is not woken up.
ResponseExitsSilently ==
    /\ response' = "done"
    /\ is_active' = FALSE
    /\ UNCHANGED audio_queue

\* The finally block: clear the flag and unblock the forwarder.
ResponseExits ==
    /\ response' = "done"
    /\ is_active' = FALSE
    /\ audio_queue' = Append(audio_queue, "end")

\* Handles one output of the model, which may add voice to the queue.
Handles(voice) ==
    /\ response = "waiting"
    /\ IF is_active
       THEN /\ audio_queue' = audio_queue \o voice
            /\ UNCHANGED <<response, is_active>>
       ELSE /\ audio_queue' = Append(audio_queue \o voice, "end")
            /\ response' = "done"
            /\ is_active' = FALSE
    /\ UNCHANGED <<handler, why, input, forward, decision>>

Record(role, content) ==
    conversation_history' =
        Append(conversation_history, [role |-> role, content |-> content])

\* The text of the agent's next line comes before its voice.
AgentText ==
    /\ stage = "agent"
    /\ Handles(<<>>)
    /\ \E l \in AgentLines : Part[l] = due /\ Record("assistant", l)
    /\ stage' = "voice"
    /\ UNCHANGED <<due, said>>

AgentVoice ==
    /\ stage = "voice"
    /\ Handles(<<"audio">>)
    /\ stage' = "playing"
    /\ UNCHANGED <<conversation_history, due, said>>

\* The system prompt's script: the order follows the greeting, whatever the
\* vendor said to it.
NextLine(u) ==
    IF due = "greeting" THEN "order"
    ELSE CASE Means[u] = "YES"      -> "accepted"
           [] Means[u] = "NO"       -> "declined"
           [] Means[u] = "QUESTION" -> "reask"

\* The vendor's utterance comes back as text.
VendorText ==
    /\ stage = "heard"
    /\ Handles(<<>>)
    /\ Record("user", said)
    /\ stage' = "agent"
    /\ due' = NextLine(said)
    /\ UNCHANGED said

\* The stream ends, because its input was closed or on its own.
StreamEnds ==
    /\ response = "waiting"
    /\ input = "closed" \/ "stream_ends" \in SessionFaults
    /\ ResponseExits
    /\ UNCHANGED <<handler, why, input, forward, conversation_history,
                   decision, script_vars>>

-----------------------------------------------------------------------------
(******************************************************************************)
(* The forwarder.  It tests is_active after each piece, so what is queued     *)
(* when the flag falls is not played.                                         *)
(******************************************************************************)
Loops == forward' = IF is_active THEN "getting" ELSE "done"

TakesAudio ==
    /\ forward = "getting"
    /\ audio_queue # <<>>
    /\ audio_queue' = Tail(audio_queue)
    /\ forward' = IF Head(audio_queue) = "end" THEN "done" ELSE "sending"
    /\ UNCHANGED <<handler, why, is_active, input, response,
                   conversation_history, decision, script_vars>>

\* The vendor has heard the line, and may answer unless it was the last.
Played ==
    /\ forward = "sending"
    /\ Loops
    /\ stage' = IF due \in Closing THEN "over" ELSE "vendor"
    /\ UNCHANGED <<handler, why, is_active, input, response, audio_queue,
                   conversation_history, decision, due, said>>

\* The socket refuses it: the forwarder stops if the error's text says so,
\* and else tries the next piece.
SendFails ==
    /\ forward = "sending"
    /\ "drop" \in SessionFaults
    /\ IF ErrorSaysClose THEN is_active' = FALSE /\ forward' = "done"
                         ELSE UNCHANGED is_active /\ Loops
    /\ UNCHANGED <<handler, why, input, response, audio_queue,
                   conversation_history, decision, script_vars>>

-----------------------------------------------------------------------------
(******************************************************************************)
(* The coroutine of the web socket.                                           *)
(******************************************************************************)
HandlerMoves(from, to) == handler = from /\ handler' = to

\* The "start" event: start_session awaits the stream.
StartStream ==
    /\ HandlerMoves("idle", "opening")
    /\ UNCHANGED <<why, agent_vars, conversation_history, decision, script_vars>>

StreamOpened ==
    /\ HandlerMoves("opening", "prompting")
    /\ is_active' = TRUE
    /\ input' = "open"
    /\ UNCHANGED <<why, response, forward, audio_queue, conversation_history,
                   decision, script_vars>>

\* The prompt is sent: the response task starts, the trigger of the greeting
\* and the start of the audio follow.
PromptSent ==
    /\ HandlerMoves("prompting", "greeting")
    /\ response' = "waiting"
    /\ UNCHANGED <<why, is_active, input, forward, audio_queue,
                   conversation_history, decision, script_vars>>

\* The session is up: the forwarder starts and the call is registered.
SessionReady ==
    /\ HandlerMoves("greeting", "talking")
    /\ Loops
    /\ UNCHANGED <<why, is_active, input, response, audio_queue,
                   conversation_history, decision, script_vars>>

\* A "media" event: the vendor's voice is passed on while the flag is up.  The
\* vendor is taken to let the agent finish: one who speaks into a line that is
\* still playing is outside the model.
VendorSpeaks(u) ==
    /\ handler = "talking"
    /\ stage = "vendor"
    /\ is_active
    /\ u \in IF due = "greeting" THEN Acknowledgements ELSE Answers
    /\ u \in Answers /\ Means[u] = "QUESTION" =>
           Cardinality({i \in DOMAIN conversation_history :
               /\ conversation_history[i].role = "assistant"
               /\ Part[conversation_history[i].content] = "reask"}) < MaxQuestions
    /\ said' = u
    /\ stage' = "heard"
    /\ UNCHANGED <<handler, why, agent_vars, conversation_history, decision, due>>

-----------------------------------------------------------------------------
\* The finally block: cancel the forwarder, end a session that is active.
Unwind(reason, finished) ==
    /\ forward' = IF forward = "none" THEN "none" ELSE "done"
    /\ IF is_active
       THEN handler' = "closing" /\ why' = reason /\ is_active' = FALSE
       ELSE handler' = finished /\ UNCHANGED <<why, is_active>>
    /\ UNCHANGED <<input, response, audio_queue, conversation_history,
                   decision, script_vars>>

\* Setting up the session raises an error.
SessionFails ==
    /\ "session_error" \in SessionFaults
    /\ handler \in {"opening", "prompting", "greeting"}
    /\ Unwind("error", "failed")

\* Faulty variant, for mutation checks: a lost socket leaves the session alone.
StreamDropsOnly ==
    /\ "drop" \in SessionFaults
    /\ HandlerMoves("talking", "dropped")
    /\ forward' = "done"
    /\ UNCHANGED <<why, is_active, input, response, audio_queue,
                   conversation_history, decision, script_vars>>

\* The socket closes without a "stop" event.
StreamDrops ==
    /\ "drop" \in SessionFaults
    /\ handler = "talking"
    /\ Unwind("drop", "dropped")

\* The "stop" event: the vendor, or nobody any more, is on the line.
StopReceived ==
    /\ HandlerMoves("talking", "closing")
    /\ why' = "stop"
    /\ is_active' = FALSE
    /\ forward' = "done"
    /\ UNCHANGED <<input, response, audio_queue, conversation_history,
                   decision, script_vars>>

\* end_session: say goodbye to the model and close the input, ...
InputClosed ==
    /\ HandlerMoves("closing", "draining")
    /\ input' = "closed"
    /\ UNCHANGED <<why, is_active, response, forward, audio_queue,
                   conversation_history, decision, script_vars>>

\* Faulty variant, for mutation checks: the response task is not waited for.
DrainedAtOnce ==
    /\ HandlerMoves("draining", "settling")
    /\ UNCHANGED <<why, agent_vars, conversation_history, decision, script_vars>>

\* ... wait for the response task, and cancel it if it does not end.
Drained ==
    /\ HandlerMoves("draining", "settling")
    /\ \/ /\ response # "waiting"
          /\ UNCHANGED <<response, is_active, audio_queue>>
       \/ /\ response = "waiting"
          /\ "stuck" \in SessionFaults
          /\ ResponseExits
    /\ UNCHANGED <<why, input, forward, conversation_history, decision,
                   script_vars>>

\* Faulty variant, for mutation checks: a lost call is decided like a stopped one.
SessionEndedAlways ==
    /\ HandlerMoves("settling", "ended")
    /\ decision' = DetectVendorDecision(conversation_history)
    /\ UNCHANGED <<why, agent_vars, conversation_history, script_vars>>

\* Faulty variant, for mutation checks: the decision is the vendor's last word.
SessionEndedLastWord ==
    /\ HandlerMoves("settling", "ended")
    /\ decision' = said
    /\ UNCHANGED <<why, agent_vars, conversation_history, script_vars>>

\* After the last pause end_session returns.  The "stop" handler goes on to
\* read the decision; the others are done.
SessionEnded ==
    /\ handler = "settling"
    /\ IF why = "stop"
       THEN /\ handler' = "ended"
            /\ decision' = DetectVendorDecision(conversation_history)
       ELSE /\ handler' = IF why = "drop" THEN "dropped" ELSE "failed"
            /\ UNCHANGED decision
    /\ UNCHANGED <<why, agent_vars, conversation_history, script_vars>>

-----------------------------------------------------------------------------
Init ==
    /\ handler = "idle"
    /\ why = "none"
    /\ is_active = FALSE
    /\ input = "none"
    /\ response = "none"
    /\ forward = "none"
    /\ audio_queue = <<>>
    /\ conversation_history = <<>>
    /\ decision = "NONE"
    /\ stage = "agent"
    /\ due = "greeting"
    /\ said = Silence

ResponseStep == AgentText \/ AgentVoice \/ VendorText \/ StreamEnds

ForwardStep == TakesAudio \/ Played \/ SendFails

\* What the coroutine does by itself.
HandlerStep ==
    \/ StartStream
    \/ StreamOpened
    \/ PromptSent
    \/ SessionReady
    \/ SessionFails
    \/ InputClosed
    \/ Drained
    \/ SessionEnded

LineEnds == StreamDrops \/ StopReceived

Next ==
    \/ ResponseStep
    \/ ForwardStep
    \/ HandlerStep
    \/ LineEnds
    \/ \E u \in Utterances : VendorSpeaks(u)

Spec == Init /\ [][Next]_vars

\* The event loop runs every task that can run, and a stream whose input was
\* closed ends.  The model is taken to go on with the script while it is
\* listened to; nothing obliges the vendor to speak or to hang up.
FairSpec ==
    /\ Spec
    /\ WF_vars(ResponseStep)
    /\ WF_vars(ForwardStep)
    /\ WF_vars(HandlerStep)

-----------------------------------------------------------------------------
\* The conversation that the decision was read from is the whole of it: no
\* task adds to it afterwards.
SummaryIsComplete ==
    handler = "ended" => decision = DetectVendorDecision(conversation_history)

\* The closing line is in the words of the script.
InScriptWords(l) ==
    IF Part[l] = "accepted" THEN Phrases[l] \cap YesPhrases # {}
    ELSE Phrases[l] \cap YesPhrases = {} /\ NoPhrases \subseteq Phrases[l]

\* If the agent's closing line was recorded, in the words of the script, and no
\* other line of the call contains a phrase that stands for YES (as an order of
\* a "Wonderful" product does), the decision is what the vendor meant, whatever
\* keywords the vendor's words happen to contain.
ClosingLineDecides ==
    LET spoken  == Spoken(conversation_history, "assistant")
        closing == {l \in spoken : Part[l] \in Closing}
    IN  /\ decision # "NONE"
        /\ closing # {}
        /\ \A l \in closing : InScriptWords(l)
        /\ \A l \in spoken \ closing : Phrases[l] \cap YesPhrases = {}
        => said \in Answers /\ decision = Means[said]

\* When the coroutine is over, the session to the model was closed, or had
\* ended by itself, or had never been opened, and nothing reads from it.
NoSessionLeft ==
    handler \in Finished =>
        /\ input = "open" => response = "done"
        /\ response # "waiting"
        /\ forward \in {"none", "done"}

\* "Only treat a vendor's yes as order confirmation AFTER you have stated the
\* order details": a call is decided as YES only if the vendor accepted.
YesIsAnAcceptance ==
    decision = "YES" => said \in Answers /\ Means[said] = "YES"

\* A stream that ends by itself does not leave the forwarder waiting at the
\* queue for the vendor to hang up, and a shutdown is finished, also when the
\* model does not answer any more.
TasksEnd ==
    /\ response = "done" ~> forward = "done" \/ handler \in Finished
    /\ why # "none" ~> handler \in Finished

-----------------------------------------------------------------------------
(******************************************************************************)
(* The call of VendorCaller that this is: one without an order, so that       *)
(* handling its decision changes nothing else.                                *)
(******************************************************************************)
ThisCall == "this call"

Status ==
    CASE handler \in {"opening", "prompting", "greeting"} -> "starting"
      [] handler \in {"closing", "draining", "settling"} ->
            (CASE why = "stop" -> "stopping"
               [] why = "drop" -> "dropped"
               [] OTHER        -> "failed")
      [] OTHER -> handler

OfCall(value) == [s \in {ThisCall} |-> value]

Server == INSTANCE VendorCaller WITH
    Orders <- {}, Sids <- {ThisCall}, Vendors <- {}, Catalogue <- {},
    Lower <- <<>>, Categories <- {}, Sells <- <<>>, MaxAttempts <- 1,
    ClientOrderIds <- FALSE, MaxRestarts <- 0,
    Faults <- SessionFaults \cap {"session_error", "drop"},
    NoOrder <- "no order", NoVendor <- "no vendor", NoCall <- "no call",
    NoCategory <- "no category",
    call_metadata_store <-
        OfCall([order |-> "no order", vendor |-> "no vendor"]),
    call_transcripts_store <-
        OfCall([by |-> IF decision = "NONE" THEN "no call" ELSE ThisCall,
                decision |-> decision]),
    order_chains <- <<>>,
    active_calls <- IF Status \in {"talking", "stopping", "dropped"}
                    THEN {ThisCall} ELSE {},
    handler <- OfCall(Status),
    vendor_context <-
        OfCall(IF handler = "idle" THEN "no vendor" ELSE "generic"),
    line <- OfCall(IF handler = "idle" THEN "ringing" ELSE "answered"),
    issued <- {}, restarts <- 0, verdict <- OfCall(decision)

\* Every step of the three tasks is a step of the call in VendorCaller, or
\* one that VendorCaller does not see.
ImplementsCall == [][Server!CallStep(ThisCall)]_(Server!vars)
=============================================================================
