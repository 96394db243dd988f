SPECIFICATION FairSpec
CONSTANTS
  Acknowledgements <- MCAcknowledgements
  Answers <- MCAnswers
  Means <- MCMeans
  YesWords <- MCYesWords
  NoWords <- MCNoWords
  AgentLines <- MCAgentLines
  Part <- MCPart
  Phrases <- MCPhrases
  MaxQuestions = 2
  SessionFaults = {"session_error", "drop", "stream_ends", "stuck"}
  ErrorSaysClose = FALSE
INVARIANTS VoiceTypeOK SummaryIsComplete ClosingLineDecides NoSessionLeft
PROPERTIES TasksEnd ImplementsCall
CHECK_DEADLOCK FALSE
