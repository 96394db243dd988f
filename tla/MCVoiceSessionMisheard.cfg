SPECIFICATION Spec
CONSTANTS
  Acknowledgements <- MCAcknowledgements
  Answers <- MCAnswers
  Means <- MCMeans
  YesWords <- MCYesWords
  NoWords <- MCNoWords
  AgentLines <- MCScriptLines
  Part <- MCPart
  Phrases <- MCPhrases
  MaxQuestions = 2
  SessionFaults = {"session_error", "drop", "stream_ends", "stuck"}
  ErrorSaysClose = FALSE
INVARIANTS YesIsAnAcceptance
CHECK_DEADLOCK FALSE
