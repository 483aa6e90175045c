CONSTANTS
  Entries <- MCEntriesNames
  MaxErrors = 1
  ByHand = {}
  MaxByHand = 0
SPECIFICATION Spec
INVARIANT AcceptedIsUsable
