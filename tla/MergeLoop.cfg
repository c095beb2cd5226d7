SPECIFICATION Spec
CONSTANTS
  TrimSpace <- MCTrimSpace
  KeyIDOf <- MCNoKeys
  SafeAttrs = {}
  MaxSharePeerGrantTTL = 1
  MaxSignatureClockSkew = 0
  Elements <- MCElements
  IDs = {"a", " a", "b", " "}
  MaxLen = 2
INVARIANTS
  LoopsMergeByID
  MergeIsUpdate
CHECK_DEADLOCK FALSE
