CONSTANTS
  Entries <- MCEntries
  MaxErrors = 2
  ByHand <- MCByHand
  MaxByHand = 1
SPECIFICATION Spec
INVARIANTS
  TypeOK
  NoDanglingImport
  RegistryTellsTruth
  HandwrittenSurvives
  DriftCheckIsExact
