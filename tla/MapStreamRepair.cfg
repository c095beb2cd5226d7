SPECIFICATION FairSpec
CONSTANTS
  TrimSpace <- MCTrimSpace
  KeyIDOf <- MCKeyIDOf
  SafeAttrs <- MCSafeAttrs
  MaxSharePeerGrantTTL = 2
  MaxSignatureClockSkew = 1
  Projections <- RepairProjections
  SigningKeys = {"k1"}
  ClockOffsets <- NoOffset
  SignatureTTL = 2
  TrustBundles <- OneBundle
  MaxPublished = 3
  MaxTime = 0
  MaxStale = 1
INVARIANTS
  CacheAuthentic
PROPERTIES
  Converges
