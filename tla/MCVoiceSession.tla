--------------------------- MODULE MCVoiceSession ---------------------------
(******************************************************************************)
(* Utterances with the keywords that detect_vendor_decision finds in them:    *)
(* it looks for substrings, so "cannot" also contains "no", and "we cannot"   *)
(* contains "we can".                                                         *)
(******************************************************************************)
EXTENDS VoiceSession

MCAcknowledgements == {"Yes, go ahead.", "Who is this?"}
MCAnswers == {"Confirmed.", "No problem.", "We cannot.", "When exactly?"}

MCMeans == [u \in MCAnswers |->
    CASE u \in {"Confirmed.", "No problem."} -> "YES"
      [] u = "We cannot."                    -> "NO"
      [] u = "When exactly?"                 -> "QUESTION"]

MCYesWords == [u \in MCAcknowledgements \cup MCAnswers |->
    CASE u = "Yes, go ahead." -> {"yes", "go ahead"}
      [] u = "Confirmed."     -> {"confirm", "confirmed"}
      [] u = "No problem."    -> {"no problem"}
      [] u = "We cannot."     -> {"we can"}
      [] OTHER                -> {}]

MCNoWords == [u \in MCAcknowledgements \cup MCAnswers |->
    CASE u = "No problem." -> {"no"}
      [] u = "We cannot."  -> {"no", "cannot"}
      [] OTHER             -> {}]

\* The agent's lines with the closing phrases in them: the script's own, the
\* greeting of and an order from a vendor or product called "Wonderful", and a
\* refusal taken note of in other words than the script's.
MCScriptLines ==
    {"greeting", "order", "reask", "accepted", "declined"}
MCAgentLines ==
    MCScriptLines \cup {"greeting, Wonderful", "order, Wonderful", "what a pity"}

MCPart == [l \in AgentLines |->
    CASE l = "greeting, Wonderful" -> "greeting"
      [] l = "order, Wonderful"    -> "order"
      [] l = "what a pity"         -> "declined"
      [] OTHER                     -> l]

MCPhrases == [l \in AgentLines |->
    CASE l = "accepted" -> YesPhrases
      [] l = "declined" -> NoPhrases
      [] l \in {"greeting, Wonderful", "order, Wonderful"} -> {"wonderful"}
      [] OTHER          -> {}]
=============================================================================
