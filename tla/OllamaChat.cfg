CONSTANTS
  Calls = {c1, c2, c3}
  Prompts <- MCPrompts
  Replies <- MCReplies
  DaemonReads = TRUE
SPECIFICATION FairSpec
INVARIANTS
  TypeOK
  OneInFlight
  PoolIsExact
  OneTerminalLine
  CategoryTellsCause
  AnswerIsJudged
PROPERTIES
  SlotContract
  EveryCallEnds
  CloseDrains
