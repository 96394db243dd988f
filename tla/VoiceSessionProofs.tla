------------------------- MODULE VoiceSessionProofs -------------------------
(******************************************************************************)
(* Theorems about VoiceSession, for every set of utterances, whatever they    *)
(* mean and whichever keywords they contain, and for every choice of faults.  *)
(******************************************************************************)
EXTENDS VoiceSession, TLAPS

(******************************************************************************)
(* The inductive invariant: what each point of the coroutine says about the   *)
(* tasks, what the turn in the conversation says about the script, and that   *)
(* one piece of voice at most is on its way to the vendor.                    *)
(******************************************************************************)
TasksInv ==
    /\ handler \in {"idle", "opening", "prompting"} => response = "none"
    /\ handler \in {"greeting", "talking"} => response # "none"
    /\ handler \in {"settling", "ended"} => response # "waiting"
    /\ handler \in {"idle", "opening", "prompting", "greeting"} => forward = "none"
    /\ handler \in {"closing", "draining", "settling"} \cup Finished =>
           forward \in {"none", "done"}
    /\ handler \in {"idle", "opening"} => input = "none"
    /\ handler \in {"draining", "settling", "ended"} => input # "open"

DecisionInv ==
    IF handler = "ended" THEN decision = DetectVendorDecision(conversation_history)
                         ELSE decision = "NONE"

ScriptInv ==
    /\ stage = "heard" =>
           /\ due \notin Closing
           /\ said \in IF due = "greeting" THEN Acknowledgements ELSE Answers
    /\ due \in Closing =>
           /\ said \in Answers
           /\ Means[said] = IF due = "accepted" THEN "YES" ELSE "NO"
           /\ stage \in {"agent", "voice", "playing", "over"}
    /\ \A i \in DOMAIN conversation_history :
           LET l == conversation_history[i]
           IN  l.role = "assistant" /\ Part[l.content] \in Closing
                => due = Part[l.content]

QueueInv ==
    /\ \A i \in DOMAIN audio_queue :
           audio_queue[i] = "audio" => stage = "playing" /\ forward # "sending"
    /\ \A i, j \in DOMAIN audio_queue :
           audio_queue[i] = "audio" /\ audio_queue[j] = "audio" => i = j
    /\ forward = "sending" => stage = "playing"

VoiceInv == VoiceTypeOK /\ TasksInv /\ DecisionInv /\ ScriptInv /\ QueueInv

-----------------------------------------------------------------------------
\* The conversation grows by one line at its end.
LEMMA RecordExtends ==
    ASSUME NEW role, NEW content, conversation_history \in Seq(Line),
           [role |-> role, content |-> content] \in Line,
           Record(role, content)
    PROVE  LET h == conversation_history
           IN  /\ conversation_history' \in Seq(Line)
               /\ Len(h) \in Nat
               /\ Len(conversation_history') = Len(h) + 1
               /\ DOMAIN h = 1..Len(h)
               /\ DOMAIN conversation_history' = 1..(Len(h) + 1)
               /\ \A i \in 1..Len(h) : conversation_history'[i] = h[i]
               /\ conversation_history'[Len(h) + 1] =
                      [role |-> role, content |-> content]
BY DEF Record

\* The decision is always one of the three.
LEMMA DecisionType ==
    ASSUME NEW h
    PROVE  DetectVendorDecision(h) \in {"YES", "NO", "UNKNOWN"}
<1>1. ByKeywords(h) \in {"YES", "NO", "UNKNOWN"}
  BY DEF ByKeywords
<1>2. QED
  BY <1>1 DEF DetectVendorDecision

\* The closing phrases of a call decide by themselves.
LEMMA DecisionByPhrases ==
    ASSUME NEW h
    PROVE  /\ PhrasesIn(h) \cap YesPhrases # {} =>
                  DetectVendorDecision(h) = "YES"
           /\ PhrasesIn(h) \cap YesPhrases = {} /\ NoPhrases \subseteq PhrasesIn(h) =>
                  DetectVendorDecision(h) = "NO"
BY Zenon DEF DetectVendorDecision

\* An output of the model is handled in one of two ways.
LEMMA HandlesCases ==
    ASSUME NEW voice \in Seq({"audio", "end"}),
           audio_queue \in Seq({"audio", "end"}), Handles(voice)
    PROVE  /\ response = "waiting"
           /\ audio_queue' \in Seq({"audio", "end"})
           /\ \/ /\ UNCHANGED <<response, is_active>>
                 /\ audio_queue' = audio_queue \o voice
              \/ /\ ~is_active /\ response' = "done" /\ is_active' = FALSE
                 /\ audio_queue' = Append(audio_queue \o voice, "end")
           /\ UNCHANGED <<handler, why, input, forward, decision>>
<1>1. audio_queue \o voice \in Seq({"audio", "end"})
  OBVIOUS
<1>2. Append(audio_queue \o voice, "end") \in Seq({"audio", "end"})
  BY <1>1
<1>3. CASE is_active
  BY <1>1, <1>3, Zenon DEF Handles
<1>4. CASE ~is_active
  BY <1>2, <1>4 DEF Handles
<1>5. QED
  BY <1>3, <1>4

LEMMA ExitTypes ==
    ASSUME audio_queue \in Seq({"audio", "end"}), ResponseExits
    PROVE  /\ response' = "done"
           /\ is_active' \in BOOLEAN
           /\ audio_queue' \in Seq({"audio", "end"})
<1>1. is_active' = FALSE
  BY DEF ResponseExits
<1>2. Append(audio_queue, "end") \in Seq({"audio", "end"})
  OBVIOUS
<1>3. QED
  BY <1>1, <1>2 DEF ResponseExits

LEMMA VoiceType ==
    /\ <<>> \in Seq({"audio", "end"})
    /\ <<"audio">> \in Seq({"audio", "end"})
OBVIOUS

LEMMA NextLineType ==
    ASSUME VoiceInv, stage = "heard"
    PROVE  NextLine(said) \in Script
<1>1. CASE due = "greeting"
  BY <1>1 DEF NextLine, Script
<1>2. CASE due # "greeting"
  <2>1. Means[said] \in {"YES", "NO", "QUESTION"}
    BY <1>2, VoiceAssumption DEF VoiceInv, ScriptInv
  <2>2. QED
    BY <1>2, <2>1 DEF NextLine, Script
<1>3. QED
  BY <1>1, <1>2

-----------------------------------------------------------------------------
LEMMA TypeStep == VoiceInv /\ [Next]_vars => VoiceTypeOK'
<1> SUFFICES ASSUME VoiceInv, [Next]_vars
             PROVE  VoiceTypeOK'
  OBVIOUS
<1>0. VoiceTypeOK
  BY DEF VoiceInv
<1> USE DEF VoiceTypeOK, Finished
<1>1. CASE AgentText
  <2>1. PICK l \in AgentLines : Record("assistant", l)
    BY <1>1 DEF AgentText
  <2>2. [role |-> "assistant", content |-> l] \in Line
    BY DEF Line
  <2>3. conversation_history' \in Seq(Line)
    BY <1>0, <2>1, <2>2, RecordExtends
  <2>4. QED
    BY <1>0, <1>1, <2>3, VoiceType, HandlesCases DEF AgentText
<1>2. CASE AgentVoice
  BY <1>0, <1>2, VoiceType, HandlesCases DEF AgentVoice
<1>3. CASE VendorText
  <2>1. [role |-> "user", content |-> said] \in Line
    BY <1>0, <1>3 DEF Line, VoiceInv, ScriptInv, VendorText, Utterances
  <2>2. conversation_history' \in Seq(Line)
    BY <1>0, <1>3, <2>1, RecordExtends DEF VendorText
  <2>3. due' \in Script
    BY <1>3, NextLineType DEF VendorText
  <2>4. QED
    BY <1>0, <1>3, <2>2, <2>3, VoiceType, HandlesCases DEF VendorText
<1>4. CASE StreamEnds
  BY <1>0, <1>4, ExitTypes DEF StreamEnds, script_vars
<1>5. CASE TakesAudio
  BY <1>0, <1>5 DEF TakesAudio, script_vars
<1>6. CASE Played
  BY <1>0, <1>6 DEF Played, Loops
<1>7. CASE SendFails
  <2>1. /\ forward' \in {"none", "getting", "sending", "done"}
        /\ is_active' = FALSE \/ UNCHANGED is_active
    BY <1>7 DEF SendFails, Loops
  <2>2. is_active' \in BOOLEAN
    BY <1>0, <2>1
  <2>3. QED
    BY <1>0, <1>7, <2>1, <2>2 DEF SendFails, script_vars
<1>8. CASE StartStream \/ StreamOpened \/ PromptSent \/ SessionReady
  BY <1>0, <1>8 DEF StartStream, StreamOpened, PromptSent, SessionReady, Loops,
                    HandlerMoves, agent_vars, script_vars
<1>9. CASE SessionFails \/ StreamDrops
  BY <1>0, <1>9 DEF SessionFails, StreamDrops, Unwind, script_vars
<1>10. CASE StopReceived \/ InputClosed
  BY <1>0, <1>10 DEF StopReceived, InputClosed, HandlerMoves, script_vars
<1>11. CASE Drained
  BY <1>0, <1>11, ExitTypes DEF Drained, HandlerMoves, script_vars
<1>12. CASE SessionEnded
  BY <1>0, <1>12, DecisionType DEF SessionEnded, agent_vars, script_vars
<1>13. ASSUME NEW u \in Utterances, VendorSpeaks(u)
       PROVE  VoiceTypeOK'
  BY <1>0, <1>13 DEF VendorSpeaks, agent_vars
<1>14. CASE UNCHANGED vars
  BY <1>0, <1>14 DEF vars
<1>15. QED
  BY <1>1, <1>2, <1>3, <1>4, <1>5, <1>6, <1>7, <1>8, <1>9, <1>10, <1>11,
     <1>12, <1>13, <1>14
  DEF Next, ResponseStep, ForwardStep, HandlerStep, LineEnds

-----------------------------------------------------------------------------
LEMMA TasksStep == VoiceInv /\ [Next]_vars => TasksInv'
<1> SUFFICES ASSUME VoiceInv, [Next]_vars
             PROVE  TasksInv'
  OBVIOUS
<1>0. VoiceTypeOK /\ TasksInv
  BY DEF VoiceInv
<1> USE DEF TasksInv, Finished
<1>1. CASE AgentText \/ AgentVoice \/ VendorText
  <2>1. /\ response = "waiting" /\ response' \in {"waiting", "done"}
        /\ UNCHANGED <<handler, input, forward>>
    BY <1>0, <1>1, VoiceType, HandlesCases
    DEF AgentText, AgentVoice, VendorText, VoiceTypeOK
  <2>2. QED
    BY <1>0, <2>1
<1>2. CASE StreamEnds
  BY <1>0, <1>2 DEF StreamEnds, ResponseExits
<1>3. CASE TakesAudio \/ Played \/ SendFails
  <2>1. UNCHANGED <<handler, input, response>> /\ forward \in {"getting", "sending"}
    BY <1>3 DEF TakesAudio, Played, SendFails
  <2>2. QED
    BY <1>0, <2>1
<1>4. CASE StartStream \/ StreamOpened \/ PromptSent
  BY <1>0, <1>4 DEF StartStream, StreamOpened, PromptSent, HandlerMoves, agent_vars
<1>5. CASE SessionReady
  BY <1>0, <1>5 DEF SessionReady, HandlerMoves
<1>6. CASE SessionFails \/ StreamDrops
  BY <1>0, <1>6 DEF SessionFails, StreamDrops, Unwind, VoiceTypeOK
<1>7. CASE StopReceived \/ InputClosed
  BY <1>0, <1>7 DEF StopReceived, InputClosed, HandlerMoves
<1>8. CASE Drained
  BY <1>0, <1>8 DEF Drained, ResponseExits, HandlerMoves
<1>9. CASE SessionEnded
  BY <1>0, <1>9 DEF SessionEnded, agent_vars
<1>10. ASSUME NEW u \in Utterances, VendorSpeaks(u)
       PROVE  TasksInv'
  BY <1>0, <1>10 DEF VendorSpeaks, agent_vars
<1>11. CASE UNCHANGED vars
  BY <1>0, <1>11 DEF vars
<1>12. QED
  BY <1>1, <1>2, <1>3, <1>4, <1>5, <1>6, <1>7, <1>8, <1>9, <1>10, <1>11
  DEF Next, ResponseStep, ForwardStep, HandlerStep, LineEnds

LEMMA DecisionStep == VoiceInv /\ [Next]_vars => DecisionInv'
<1> SUFFICES ASSUME VoiceInv, [Next]_vars
             PROVE  DecisionInv'
  OBVIOUS
<1>0. TasksInv /\ DecisionInv
  BY DEF VoiceInv
<1>1. CASE AgentText \/ AgentVoice \/ VendorText
  <2>1. response = "waiting" /\ UNCHANGED <<handler, decision>>
    BY <1>1, VoiceType, HandlesCases
    DEF AgentText, AgentVoice, VendorText, VoiceTypeOK, VoiceInv
  <2>2. handler # "ended"
    BY <1>0, <2>1 DEF TasksInv
  <2>3. QED
    BY <1>0, <2>1, <2>2 DEF DecisionInv
<1>2. CASE UNCHANGED <<handler, conversation_history, decision>>
  BY <1>0, <1>2 DEF DecisionInv
<1>3. ASSUME handler # "ended", handler' # "ended", UNCHANGED decision
      PROVE  DecisionInv'
  BY <1>0, <1>3 DEF DecisionInv
<1>4. CASE SessionEnded
  <2>1. CASE why = "stop"
    BY <2>1, <1>4 DEF SessionEnded, DecisionInv
  <2>2. CASE why # "stop"
    BY <2>2, <1>0, <1>4 DEF SessionEnded, DecisionInv
  <2>3. QED
    BY <2>1, <2>2
<1>5. CASE StreamEnds \/ TakesAudio \/ Played \/ SendFails
  BY <1>2, <1>5 DEF StreamEnds, TakesAudio, Played, SendFails
<1>6. CASE SessionFails \/ StreamDrops
  BY <1>3, <1>6 DEF SessionFails, StreamDrops, Unwind
<1>7. CASE \/ StartStream \/ StreamOpened \/ PromptSent \/ SessionReady
           \/ StopReceived \/ InputClosed \/ Drained
  BY <1>3, <1>7 DEF StartStream, StreamOpened, PromptSent, SessionReady,
                    StopReceived, InputClosed, Drained, HandlerMoves
<1>8. ASSUME NEW u \in Utterances, VendorSpeaks(u)
      PROVE  DecisionInv'
  BY <1>2, <1>8 DEF VendorSpeaks
<1>9. CASE UNCHANGED vars
  BY <1>2, <1>9 DEF vars
<1>10. QED
  BY <1>1, <1>4, <1>5, <1>6, <1>7, <1>8, <1>9
  DEF Next, ResponseStep, ForwardStep, HandlerStep, LineEnds

-----------------------------------------------------------------------------
LEMMA QueueStep == VoiceInv /\ [Next]_vars => QueueInv'
<1> SUFFICES ASSUME VoiceInv, [Next]_vars
             PROVE  QueueInv'
  OBVIOUS
<1>0. /\ QueueInv
      /\ audio_queue \in Seq({"audio", "end"})
      /\ Len(audio_queue) \in Nat /\ DOMAIN audio_queue = 1..Len(audio_queue)
  BY DEF VoiceInv, VoiceTypeOK
<1>1. CASE UNCHANGED <<audio_queue, stage, forward>>
  BY <1>0, <1>1 DEF QueueInv
<1>2. ASSUME audio_queue' = Append(audio_queue, "end"), UNCHANGED <<stage, forward>>
      PROVE  QueueInv'
  <2>1. /\ DOMAIN audio_queue' = 1..(Len(audio_queue) + 1)
        /\ audio_queue'[Len(audio_queue) + 1] = "end"
        /\ \A i \in 1..Len(audio_queue) : audio_queue'[i] = audio_queue[i]
    BY <1>0, <1>2
  <2>2. QED
    BY <1>0, <1>2, <2>1 DEF QueueInv
<1>3. CASE AgentText \/ VendorText
  <2>0. (audio_queue \o <<>>) = audio_queue
    BY <1>0
  <2>1. /\ UNCHANGED forward
        /\ UNCHANGED audio_queue \/ audio_queue' = Append(audio_queue, "end")
        /\ stage # "playing"
    <3>1. Handles(<<>>) /\ stage # "playing"
      BY <1>3 DEF AgentText, VendorText
    <3>2. QED
      BY <1>0, <2>0, <3>1, VoiceType, HandlesCases
  <2>2. \A i \in DOMAIN audio_queue' : audio_queue'[i] # "audio"
    BY <1>0, <2>1 DEF QueueInv
  <2>3. QED
    BY <1>0, <2>1, <2>2 DEF QueueInv
<1>4. CASE AgentVoice
  <2>1. /\ UNCHANGED forward
        /\ \/ audio_queue' = audio_queue \o <<"audio">>
           \/ audio_queue' = Append(audio_queue \o <<"audio">>, "end")
        /\ stage = "voice" /\ stage' = "playing"
    BY <1>0, <1>4, VoiceType, HandlesCases DEF AgentVoice
  <2>2. (audio_queue \o <<"audio">>) = Append(audio_queue, "audio")
    BY <1>0
  <2>3. \A i \in 1..Len(audio_queue) : audio_queue[i] # "audio"
    BY <1>0, <2>1 DEF QueueInv
  <2>4. \A i \in DOMAIN audio_queue' :
            audio_queue'[i] = "audio" => i = Len(audio_queue) + 1
    BY <1>0, <2>1, <2>2, <2>3
  <2>5. QED
    BY <1>0, <2>1, <2>4 DEF QueueInv
<1>5. CASE StreamEnds
  BY <1>2, <1>5 DEF StreamEnds, ResponseExits, script_vars
<1>6. CASE TakesAudio
  <2>1. /\ audio_queue # <<>>
        /\ audio_queue' = Tail(audio_queue)
        /\ forward' = IF audio_queue[1] = "end" THEN "done" ELSE "sending"
        /\ UNCHANGED stage
    BY <1>0, <1>6 DEF TakesAudio, script_vars
  <2>2. /\ Len(audio_queue) > 0 /\ audio_queue[1] \in {"audio", "end"}
        /\ DOMAIN audio_queue' = 1..(Len(audio_queue) - 1)
        /\ \A i \in 1..(Len(audio_queue) - 1) : audio_queue'[i] = audio_queue[i + 1]
    BY <1>0, <2>1
  <2>3. CASE audio_queue[1] = "end"
    BY <1>0, <2>1, <2>2, <2>3 DEF QueueInv
  <2>4. CASE audio_queue[1] = "audio"
    <3>1. \A i \in DOMAIN audio_queue' : audio_queue'[i] # "audio"
      BY <1>0, <2>2, <2>4 DEF QueueInv
    <3>2. stage' = "playing"
      BY <1>0, <2>1, <2>2, <2>4 DEF QueueInv
    <3>3. QED
      BY <3>1, <3>2 DEF QueueInv
  <2>5. QED
    BY <2>2, <2>3, <2>4
<1>7. CASE Played \/ SendFails
  <2>1. /\ forward = "sending" /\ forward' \in {"getting", "done"}
        /\ UNCHANGED audio_queue
    BY <1>7 DEF Played, SendFails, Loops
  <2>2. QED
    BY <1>0, <2>1 DEF QueueInv
<1>8. ASSUME UNCHANGED <<audio_queue, stage>>, forward' # "sending"
      PROVE  QueueInv'
  BY <1>0, <1>8 DEF QueueInv
<1>9. CASE StartStream \/ StreamOpened \/ PromptSent \/ InputClosed \/ SessionEnded
  BY <1>1, <1>9 DEF StartStream, StreamOpened, PromptSent, InputClosed,
                    SessionEnded, agent_vars, script_vars
<1>10. CASE SessionReady \/ SessionFails \/ StreamDrops \/ StopReceived
  BY <1>8, <1>10 DEF SessionReady, SessionFails, StreamDrops, StopReceived,
                     Unwind, Loops, script_vars
<1>11. CASE Drained
  BY <1>1, <1>2, <1>11 DEF Drained, ResponseExits, script_vars
<1>12. ASSUME NEW u \in Utterances, VendorSpeaks(u)
       PROVE  QueueInv'
  <2>1. /\ stage = "vendor" /\ UNCHANGED <<audio_queue, forward>>
    BY <1>12 DEF VendorSpeaks, agent_vars
  <2>2. QED
    BY <1>0, <2>1 DEF QueueInv
<1>13. CASE UNCHANGED vars
  BY <1>1, <1>13 DEF vars
<1>14. QED
  BY <1>3, <1>4, <1>5, <1>6, <1>7, <1>9, <1>10, <1>11, <1>12, <1>13
  DEF Next, ResponseStep, ForwardStep, HandlerStep, LineEnds

-----------------------------------------------------------------------------
\* A line that is recorded keeps the script's promise about closing lines.
LEMMA RecordedLines ==
    ASSUME VoiceInv, NEW role, NEW content,
           [role |-> role, content |-> content] \in Line,
           Record(role, content),
           role = "assistant" /\ Part[content] \in Closing => due' = Part[content],
           due \in Closing => due' = due
    PROVE  \A i \in DOMAIN conversation_history' :
               LET l == conversation_history'[i]
               IN  l.role = "assistant" /\ Part[l.content] \in Closing
                    => due' = Part[l.content]
<1>1. conversation_history \in Seq(Line)
  BY DEF VoiceInv, VoiceTypeOK
<1>2. QED
  BY <1>1, RecordExtends DEF VoiceInv, ScriptInv

LEMMA ScriptStep == VoiceInv /\ [Next]_vars => ScriptInv'
<1> SUFFICES ASSUME VoiceInv, [Next]_vars
             PROVE  ScriptInv'
  OBVIOUS
<1>0. VoiceTypeOK /\ ScriptInv
  BY DEF VoiceInv
<1>1. CASE UNCHANGED <<conversation_history, stage, due, said>>
  BY <1>0, <1>1 DEF ScriptInv
<1>2. CASE AgentText
  <2>1. /\ stage = "agent" /\ stage' = "voice" /\ due' = due /\ said' = said
        /\ \E l \in AgentLines : Part[l] = due /\ Record("assistant", l)
    BY <1>2 DEF AgentText
  <2>2. PICK l \in AgentLines : Part[l] = due /\ Record("assistant", l)
    BY <2>1
  <2>3. [role |-> "assistant", content |-> l] \in Line
    BY DEF Line
  <2>4. \A i \in DOMAIN conversation_history' :
            LET r == conversation_history'[i]
            IN  r.role = "assistant" /\ Part[r.content] \in Closing
                 => due' = Part[r.content]
    BY <2>1, <2>2, <2>3, RecordedLines
  <2>5. QED
    BY <1>0, <2>1, <2>4 DEF ScriptInv
<1>3. CASE AgentVoice
  BY <1>0, <1>3 DEF AgentVoice, ScriptInv
<1>4. CASE VendorText
  <2>1. /\ stage = "heard" /\ stage' = "agent" /\ said' = said
        /\ due' = NextLine(said) /\ Record("user", said)
    BY <1>4 DEF VendorText
  <2>2. said \in Utterances /\ due \notin Closing
    BY <1>0, <2>1 DEF ScriptInv, Utterances
  <2>3. [role |-> "user", content |-> said] \in Line
    BY <2>2 DEF Line
  <2>4. \A i \in DOMAIN conversation_history' :
            LET l == conversation_history'[i]
            IN  l.role = "assistant" /\ Part[l.content] \in Closing
                 => due' = Part[l.content]
    BY <2>1, <2>2, <2>3, RecordedLines
  <2>5. due' \in Closing =>
            said \in Answers /\ Means[said] = IF due' = "accepted" THEN "YES" ELSE "NO"
    <3>1. CASE due = "greeting"
      BY <2>1, <3>1 DEF NextLine, Closing
    <3>2. CASE due # "greeting"
      <4>1. said \in Answers /\ Means[said] \in {"YES", "NO", "QUESTION"}
        BY <1>0, <2>1, <3>2, VoiceAssumption DEF ScriptInv
      <4>2. QED
        BY <2>1, <3>2, <4>1 DEF NextLine, Closing
    <3>3. QED
      BY <3>1, <3>2
  <2>6. QED
    BY <2>1, <2>4, <2>5 DEF ScriptInv
<1>5. CASE Played
  <2>1. stage = "playing"
    BY <1>5 DEF Played, VoiceInv, QueueInv
  <2>2. QED
    BY <1>0, <1>5, <2>1 DEF Played, ScriptInv
<1>6. CASE StreamEnds \/ TakesAudio \/ SendFails
  BY <1>1, <1>6 DEF StreamEnds, TakesAudio, SendFails, script_vars
<1>7. CASE HandlerStep \/ LineEnds
  BY <1>1, <1>7 DEF HandlerStep, LineEnds, StartStream, StreamOpened, PromptSent,
                    SessionReady, SessionFails, StreamDrops, StopReceived,
                    InputClosed, Drained, SessionEnded, Unwind, script_vars
<1>8. ASSUME NEW u \in Utterances, VendorSpeaks(u)
      PROVE  ScriptInv'
  <2>1. /\ stage = "vendor" /\ stage' = "heard" /\ said' = u
        /\ u \in IF due = "greeting" THEN Acknowledgements ELSE Answers
        /\ UNCHANGED <<conversation_history, due>>
    BY <1>8 DEF VendorSpeaks
  <2>2. due \notin Closing
    BY <1>0, <2>1 DEF ScriptInv
  <2>3. QED
    BY <1>0, <2>1, <2>2 DEF ScriptInv
<1>9. CASE UNCHANGED vars
  BY <1>1, <1>9 DEF vars
<1>10. QED
  BY <1>2, <1>3, <1>4, <1>5, <1>6, <1>7, <1>8, <1>9
  DEF Next, ResponseStep, ForwardStep

-----------------------------------------------------------------------------
\* The invariant holds in every state.
THEOREM VoiceInvariant == Spec => []VoiceInv
<1>1. Init => VoiceInv
  <2>1. SUFFICES ASSUME Init PROVE VoiceInv
    OBVIOUS
  <2>2. VoiceTypeOK
    <3>1. <<>> \in Seq({"audio", "end"}) /\ <<>> \in Seq(Line)
      OBVIOUS
    <3>2. QED
      BY <2>1, <3>1 DEF Init, VoiceTypeOK, Script, Finished
  <2>3. TasksInv /\ DecisionInv
    BY <2>1 DEF Init, TasksInv, DecisionInv, Finished
  <2>4. ScriptInv /\ QueueInv
    BY <2>1 DEF Init, ScriptInv, QueueInv, Closing
  <2>5. QED
    BY <2>2, <2>3, <2>4 DEF VoiceInv
<1>2. VoiceInv /\ [Next]_vars => VoiceInv'
  BY TypeStep, TasksStep, DecisionStep, ScriptStep, QueueStep DEF VoiceInv
<1>3. QED
  BY <1>1, <1>2, PTL DEF Spec

\* Every variable of a session keeps its type, whatever the vendor says and
\* whenever the line breaks.
THEOREM VoiceTypeCorrect == Spec => []VoiceTypeOK
<1>1. VoiceInv => VoiceTypeOK
  BY DEF VoiceInv
<1>2. QED
  BY <1>1, VoiceInvariant, PTL

\* The decision that the "stop" handler reads is that of the whole
\* conversation: end_session has waited for the task that records it.
THEOREM SummaryComplete == Spec => []SummaryIsComplete
<1>1. VoiceInv => SummaryIsComplete
  BY DEF VoiceInv, DecisionInv, SummaryIsComplete
<1>2. QED
  BY <1>1, VoiceInvariant, PTL

\* A closing line in the words of the script decides as the vendor meant it,
\* whichever keywords of detect_vendor_decision the vendor's words contain, as
\* long as no other line of the agent says one of the phrases that mean YES.
THEOREM ClosingLineCounts == Spec => []ClosingLineDecides
<1>1. VoiceInv => ClosingLineDecides
  <2> DEFINE spoken  == Spoken(conversation_history, "assistant")
             closing == {l \in spoken : Part[l] \in Closing}
             phrases == PhrasesIn(conversation_history)
  <2>1. SUFFICES ASSUME VoiceInv, decision # "NONE", closing # {},
                        \A l \in closing : InScriptWords(l),
                        \A l \in spoken \ closing : Phrases[l] \cap YesPhrases = {}
                 PROVE  said \in Answers /\ decision = Means[said]
    BY DEF ClosingLineDecides
  <2>2. decision = DetectVendorDecision(conversation_history)
    BY <2>1 DEF VoiceInv, DecisionInv
  <2>3. \A l \in closing : due = Part[l]
    BY <2>1 DEF VoiceInv, ScriptInv, Spoken
  <2>4. PICK last \in closing : due = Part[last]
    BY <2>1, <2>3
  <2>5. said \in Answers /\ Means[said] = IF due = "accepted" THEN "YES" ELSE "NO"
    BY <2>1, <2>4 DEF VoiceInv, ScriptInv
  <2>6. last \in spoken /\ Phrases[last] \subseteq phrases
    BY <2>4 DEF PhrasesIn
  <2>7. CASE due = "accepted"
    <3>1. Phrases[last] \cap YesPhrases # {}
      BY <2>1, <2>4, <2>7 DEF InScriptWords
    <3>2. phrases \cap YesPhrases # {}
      BY <2>6, <3>1
    <3>3. decision = "YES"
      BY <2>2, <3>2, DecisionByPhrases
    <3>4. QED
      BY <2>5, <2>7, <3>3
  <2>8. CASE due = "declined"
    <3>1. \A l \in closing : Phrases[l] \cap YesPhrases = {}
      BY <2>1, <2>3, <2>8 DEF InScriptWords
    <3>2. \A l \in spoken : Phrases[l] \cap YesPhrases = {}
      BY <2>1, <3>1
    <3>3. phrases \cap YesPhrases = {}
      BY <3>2 DEF PhrasesIn
    <3>4. NoPhrases \subseteq Phrases[last]
      BY <2>1, <2>4, <2>8 DEF InScriptWords
    <3>5. NoPhrases \subseteq phrases
      BY <2>6, <3>4
    <3>6. decision = "NO"
      BY <2>2, <3>3, <3>5, DecisionByPhrases
    <3>7. QED
      BY <2>5, <2>8, <3>6
  <2>9. QED
    BY <2>4, <2>7, <2>8 DEF Closing
<1>2. QED
  BY <1>1, VoiceInvariant, PTL

-----------------------------------------------------------------------------
(******************************************************************************)
(* What keeps a session from being left behind: until the response task has   *)
(* ended, the flag is_active is up wherever the coroutine may be interrupted, *)
(* so the finally block closes the session.  The forwarder may lower the flag *)
(* alone when the text of the failed send says "close", hence the assumption. *)
(******************************************************************************)
ClosedInv ==
    /\ handler = "prompting" => is_active
    /\ handler \in {"greeting", "talking"} /\ response = "waiting" => is_active
    /\ handler \in {"opening", "idle"} => ~is_active
    /\ handler \in {"failed", "dropped"} =>
           response # "waiting" /\ (input = "open" => response = "done")

\* If a failed send does not say "close", the finally block leaves no session
\* with the model behind, however the call ends.
THEOREM SessionsClosed ==
    ASSUME ~ErrorSaysClose
    PROVE  Spec => []NoSessionLeft
<1> USE DEF ClosedInv
<1>1. Init => ClosedInv
  BY DEF Init
<1>2. VoiceInv /\ ClosedInv /\ [Next]_vars => ClosedInv'
  <2> SUFFICES ASSUME VoiceInv, ClosedInv, [Next]_vars
               PROVE  ClosedInv'
    OBVIOUS
  <2>0. VoiceTypeOK /\ TasksInv
    BY DEF VoiceInv
  <2>1. CASE AgentText \/ AgentVoice \/ VendorText
    <3>1. /\ response = "waiting" /\ UNCHANGED <<handler, input>>
          /\ \/ UNCHANGED <<response, is_active>>
             \/ ~is_active /\ response' = "done" /\ is_active' = FALSE
      BY <2>0, <2>1, VoiceType, HandlesCases
      DEF AgentText, AgentVoice, VendorText, VoiceTypeOK
    <3>2. handler \notin {"prompting", "opening", "idle", "failed", "dropped"}
      BY <2>0, <3>1 DEF TasksInv
    <3>3. QED
      BY <3>1, <3>2
  <2>2. CASE StreamEnds
    <3>1. /\ response = "waiting" /\ response' = "done" /\ UNCHANGED handler
      BY <2>2 DEF StreamEnds, ResponseExits
    <3>2. handler \notin {"prompting", "opening", "idle", "failed", "dropped"}
      BY <2>0, <3>1 DEF TasksInv
    <3>3. QED
      BY <3>1, <3>2
  <2>3. CASE TakesAudio \/ Played
    BY <2>3 DEF TakesAudio, Played
  <2>4. CASE SendFails
    BY <2>4 DEF SendFails
  <2>5. CASE StartStream \/ StreamOpened \/ PromptSent \/ SessionReady
    BY <2>0, <2>5 DEF StartStream, StreamOpened, PromptSent, SessionReady,
                      HandlerMoves, agent_vars, TasksInv
  <2>6. CASE SessionFails \/ StreamDrops
    <3>1. CASE is_active
      BY <2>6, <3>1 DEF SessionFails, StreamDrops, Unwind
    <3>2. CASE ~is_active
      BY <2>0, <2>6, <3>2
      DEF SessionFails, StreamDrops, Unwind, TasksInv, VoiceTypeOK
    <3>3. QED
      BY <3>1, <3>2
  <2>7. CASE StopReceived \/ InputClosed \/ Drained
    BY <2>7 DEF StopReceived, InputClosed, Drained, HandlerMoves
  <2>8. CASE SessionEnded
    BY <2>0, <2>8 DEF SessionEnded, agent_vars, TasksInv
  <2>9. ASSUME NEW u \in Utterances, VendorSpeaks(u)
        PROVE  ClosedInv'
    BY <2>9 DEF VendorSpeaks, agent_vars
  <2>10. CASE UNCHANGED vars
    BY <2>10 DEF vars
  <2>11. QED
    BY <2>1, <2>2, <2>3, <2>4, <2>5, <2>6, <2>7, <2>8, <2>9, <2>10
    DEF Next, ResponseStep, ForwardStep, HandlerStep, LineEnds
<1>3. VoiceInv /\ ClosedInv => NoSessionLeft
  BY DEF VoiceInv, VoiceTypeOK, TasksInv, NoSessionLeft, Finished
<1>4. QED
  BY <1>1, <1>2, <1>3, VoiceInvariant, PTL DEF Spec

-----------------------------------------------------------------------------
(******************************************************************************)
(* Refinement: the call of VendorCaller.                                      *)
(******************************************************************************)

\* What the call server shows of this call follows from three things.
LEMMA CallUnseen ==
    ASSUME UNCHANGED <<Status, decision>>, handler' = "idle" <=> handler = "idle"
    PROVE  UNCHANGED Server!vars
BY DEF Server!vars, OfCall

\* Only these steps of the coroutine change where its call stands.
LEMMA CallMoves ==
    ASSUME VoiceInv, [Next]_vars
    PROVE  \/ UNCHANGED <<Status, decision>> /\ (handler' = "idle" <=> handler = "idle")
           \/ /\ handler = "idle" /\ Status = "idle"
              /\ handler' # "idle" /\ Status' = "starting" /\ decision' = decision
           \/ /\ handler # "idle" /\ handler' # "idle" /\ decision' = decision
              /\ \/ Status = "starting" /\ Status' = "talking"
                 \/ /\ "session_error" \in SessionFaults
                    /\ Status = "starting" /\ Status' = "failed"
                 \/ /\ "drop" \in SessionFaults
                    /\ Status = "talking" /\ Status' = "dropped"
                 \/ Status = "talking" /\ Status' = "stopping"
           \/ /\ handler # "idle" /\ handler' # "idle"
              /\ Status = "stopping" /\ Status' = "ended"
              /\ decision = "NONE" /\ decision' \in {"YES", "NO", "UNKNOWN"}
<1> USE DEF Status
<1>1. CASE ResponseStep \/ ForwardStep \/ \E u \in Utterances : VendorSpeaks(u)
  <2>1. UNCHANGED <<handler, why, decision>>
    BY <1>1 DEF ResponseStep, AgentText, AgentVoice, VendorText, StreamEnds,
        Handles, ForwardStep, TakesAudio, Played, SendFails, VendorSpeaks
  <2>2. QED
    BY <2>1
<1>2. CASE StartStream
  BY <1>2 DEF StartStream, HandlerMoves
<1>3. CASE StreamOpened \/ PromptSent \/ InputClosed \/ Drained
  BY <1>3 DEF StreamOpened, PromptSent, InputClosed, Drained, HandlerMoves
<1>4. CASE SessionReady
  BY <1>4 DEF SessionReady, HandlerMoves
<1>5. CASE SessionFails
  BY <1>5 DEF SessionFails, Unwind
<1>6. CASE StreamDrops
  BY <1>6 DEF StreamDrops, Unwind
<1>7. CASE StopReceived
  BY <1>7 DEF StopReceived, HandlerMoves
<1>8. CASE SessionEnded
  <2>1. decision = "NONE"
    BY <1>8 DEF SessionEnded, VoiceInv, DecisionInv
  <2>2. DetectVendorDecision(conversation_history) \in {"YES", "NO", "UNKNOWN"}
    BY DecisionType
  <2>3. QED
    BY <1>8, <2>1, <2>2 DEF SessionEnded
<1>9. CASE UNCHANGED vars
  BY <1>9 DEF vars
<1>10. QED
  BY <1>1, <1>2, <1>3, <1>4, <1>5, <1>6, <1>7, <1>8, <1>9
  DEF Next, HandlerStep, LineEnds

\* Whatever the three tasks do, and whichever of them a fault stops, the call
\* server sees a call that starts, talks, stops once and has one decision.
THEOREM CallImplemented == Spec => ImplementsCall
<1>1. VoiceInv /\ [Next]_vars => [Server!CallStep(ThisCall)]_(Server!vars)
  <2> SUFFICES ASSUME VoiceInv, [Next]_vars
               PROVE  Server!CallStep(ThisCall) \/ UNCHANGED Server!vars
    OBVIOUS
  <2> USE DEF OfCall, Server!CallStep, Server!stores
  <2>1. CASE /\ UNCHANGED <<Status, decision>>
             /\ handler' = "idle" <=> handler = "idle"
    BY <2>1, CallUnseen
  <2>2. CASE /\ handler = "idle" /\ Status = "idle"
             /\ handler' # "idle" /\ Status' = "starting" /\ decision' = decision
    <3>1. Server!StartStream(ThisCall)
      BY <2>2 DEF Server!StartStream, Server!NoMeta, Server!Generic
    <3>2. QED
      BY <3>1
  <2>3. ASSUME handler # "idle", handler' # "idle", decision' = decision
        PROVE  /\ Status = "starting" /\ Status' = "talking" =>
                      Server!SessionReady(ThisCall)
               /\ "session_error" \in SessionFaults /\ Status = "starting"
                     /\ Status' = "failed" => Server!SessionFails(ThisCall)
               /\ "drop" \in SessionFaults /\ Status = "talking"
                     /\ Status' = "dropped" => Server!StreamDrops(ThisCall)
               /\ Status = "talking" /\ Status' = "stopping" =>
                      Server!StopReceived(ThisCall)
    BY <2>3 DEF Server!SessionReady, Server!SessionFails, Server!StreamDrops,
        Server!StopReceived
  <2>4. CASE /\ handler # "idle" /\ handler' # "idle"
             /\ Status = "stopping" /\ Status' = "ended"
             /\ decision = "NONE" /\ decision' \in {"YES", "NO", "UNKNOWN"}
    <3>1. PICK d \in Server!Decisions : d = decision'
      BY <2>4 DEF Server!Decisions
    <3>2. Server!HandleVendorDecision(ThisCall, d)
      BY <2>4 DEF Server!HandleVendorDecision, Server!HasChain
    <3>3. Server!StopFinished(ThisCall, d)
      BY <2>4, <3>1, <3>2 DEF Server!StopFinished, Server!HasChain
    <3>4. QED
      BY <3>3
  <2>5. QED
    BY <2>1, <2>2, <2>3, <2>4, CallMoves
<1>2. QED
  BY <1>1, VoiceInvariant, PTL DEF Spec, ImplementsCall
==============================================================================
