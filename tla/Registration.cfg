SPECIFICATION Spec
CONSTANTS
  TrimSpace <- MCTrimSpace
  KeyIDOf <- MCKeyIDOf
  TextOf <- MCTextOf
  IdentityKeys = {"device id", "other id"}
  WireGuardKeys = {"device key", "other key"}
  SafeAttrs = {"e1", "e2"}
  MaxSignatureClockSkew = 1
  Device <- MCDevice
  OtherDevice <- MCOtherDevice
  Network <- MCNetwork
  Authorizations <- MCAuthorizations
  Endpoints = {"e1", "e2"}
  SigningKeys <- MCSigningKeys
  TrustBundle <- RotatingBundle
  OperationIDs <- TwoOperations
  NodeIDs <- TwoNodes
  Diagnostics = {"ok"}
  RequestIDs <- MCRequestIDs
  HeaderKept = {TRUE, FALSE}
  CredentialTTL = 2
  MapTTL = 1
  MaxTime = 2
INVARIANTS
  TypeOK
  CommittedResult
PROPERTIES
  ClearedOnlyByAuthority
CHECK_DEADLOCK FALSE
