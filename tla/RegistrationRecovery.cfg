SPECIFICATION FairSpec
CONSTANTS
  TrimSpace <- MCTrimSpace
  KeyIDOf <- MCKeyIDOf
  TextOf <- MCTextOf
  IdentityKeys = {"device id", "other id"}
  WireGuardKeys = {"device key", "other key"}
  SafeAttrs = {"e1", "e2"}
  MaxSignatureClockSkew = 1
  Device <- MCDevice
  OtherDevice <- MCOtherDevice
  Network <- MCNetwork
  Authorizations <- MCAuthorizations
  Endpoints = {"e1"}
  SigningKeys <- MCSigningKeys
  TrustBundle <- LastingBundle
  OperationIDs <- ThreeOperations
  NodeIDs <- ThreeNodes
  Diagnostics = {"ok"}
  RequestIDs <- MCRequestIDs
  HeaderKept = {TRUE, FALSE}
  CredentialTTL = 3
  MapTTL = 3
  MaxTime = 1
INVARIANTS
  Recoverable
PROPERTIES
  OperationCompletes
CHECK_DEADLOCK FALSE
