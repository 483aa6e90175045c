CONSTANTS
  Calls = {c1, c2}
  Prompts <- MCPrompts
  Replies <- MCReplies
  DaemonReads = FALSE
SPECIFICATION FairSpec
PROPERTIES
  WedgedDaemonReleasesSlot
