SPECIFICATION HearingSpec
CONSTANTS
  TrimSpace <- MCTrimSpace
  KeyIDOf <- MCKeyIDOf
  TextOf <- MCTextOf
  IdentityKeys = {"device id", "other id"}
  WireGuardKeys = {"device key", "other key"}
  SafeAttrs = {"e1", "e2"}
  MaxSignatureClockSkew = 1
  Device <- MCDevice
  OtherDevice <- MCOtherDevice
  Network <- MCNetwork
  Authorizations <- MCAuthorizations
  Endpoints = {"e1"}
  SigningKeys <- MCSigningKeys
  TrustBundle <- LastingBundle
  OperationIDs <- TwoOperations
  NodeIDs <- TwoNodes
  Diagnostics = {"<<<<"}
  RequestIDs <- MCRequestIDs
  HeaderKept = {TRUE}
  CredentialTTL = 3
  MapTTL = 3
  MaxTime = 1
PROPERTIES
  TerminalErrorHeard
CHECK_DEADLOCK FALSE
