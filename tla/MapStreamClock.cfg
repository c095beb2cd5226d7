SPECIFICATION Spec
CONSTANTS
  TrimSpace <- MCTrimSpace
  KeyIDOf <- MCKeyIDOf
  SafeAttrs <- MCSafeAttrs
  MaxSharePeerGrantTTL = 2
  MaxSignatureClockSkew = 1
  Projections <- TimedProjections
  SigningKeys = {"k1", "k2"}
  ClockOffsets <- SkewedOffsets
  SignatureTTL = 2
  TrustBundles <- RotatingBundles
  MaxPublished = 2
  MaxTime = 2
  MaxStale = 1
INVARIANTS
  CacheAuthentic
PROPERTIES
  StreamCommitTrusted
  AuthenticMapSpec
