CONSTANT Ids = {i1, i2, i3}
SPECIFICATION Spec
SYMMETRY IdSymmetry
INVARIANTS
  TypeOK
  OneRequestId
  AccessTellsWire
  NoStaleErrorCode
  CodeIsCorrelated
  NoSilentRequest
  CancelIsNotServerError
  EveryErrorIsAnswered
