SPECIFICATION Spec
CONSTANTS
  TrimSpace <- MCTrimSpace
  KeyIDOf <- MCKeyIDOf
  SafeAttrs <- MCSafeAttrs
  MaxSharePeerGrantTTL = 2
  MaxSignatureClockSkew = 1
  Projections <- StreamProjections
  SigningKeys = {"k1"}
  ClockOffsets <- NoOffset
  SignatureTTL = 2
  TrustBundles <- OneBundle
  MaxPublished = 3
  MaxTime = 0
  MaxStale = 2
INVARIANTS
  TypeOK
  CacheValid
  DeltaRoundTrip
PROPERTIES
  DeltaMovesFromItsBase
  ReplayIsRecognised
