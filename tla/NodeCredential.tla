--------------------------- MODULE NodeCredential ---------------------------
(***************************************************************************)
(* Signed node credentials (clientapi/v1/nodecredential.go). A credential  *)
(* text is {} when it is empty, or {claims}; a text that is not an         *)
(* encoding of claims is a claims record with another algorithm, which     *)
(* DecodeNodeCredential refuses as well. The scopes of claims are a set:   *)
(* order and repetitions play no part.                                     *)
(***************************************************************************)
EXTENDS SigningTrust

nodeCredentialVersion == 3

nodeCredentialAlgorithm == "ed25519-node-credential-v3"

nodeCredentialScopeRegister == "node:register"

nodeCredentialScopeMap == "node:map"

\* Sorted, without blanks and repetitions: the set of trimmed scopes.
CleanCredentialScopes(scopes) == {TrimSpace[s] : s \in scopes} \ {""}

\* The scopes of decoded claims are compared as they are.
CredentialHasScope(scopes, scope) == TrimSpace[scope] \in scopes

NodeCredentialSigningPayload(keyID, networkID, nodeID, scopes, expiresAt) ==
  IF "" \in {TrimSpace[keyID], TrimSpace[networkID], TrimSpace[nodeID]}
     \/ CleanCredentialScopes(scopes) = {}
  THEN {}
  ELSE {[keyID     |-> TrimSpace[keyID],
         networkID |-> TrimSpace[networkID],
         nodeID    |-> TrimSpace[nodeID],
         scopes    |-> CleanCredentialScopes(scopes),
         expiresAt |-> expiresAt]}

\* The payload that claims stand for.
ClaimsPayload(c) ==
  NodeCredentialSigningPayload(c.keyID, c.networkID, c.nodeID, c.scopes, c.expiresAt)

\* An Ed25519 signature (external).
KeySignature(publicKey, payload) == [by |-> publicKey, over |-> payload]

\* SignNodeCredentialWithProvider: a credential, or {} for an error.
SignNodeCredential(publicKey, networkID, nodeID, scopes, expiresAt) ==
  LET payload(keyID) == NodeCredentialSigningPayload(keyID, networkID, nodeID, scopes, expiresAt)
  IN  {[version   |-> nodeCredentialVersion,
        keyID     |-> keyID,
        algorithm |-> nodeCredentialAlgorithm,
        networkID |-> TrimSpace[networkID],
        nodeID    |-> TrimSpace[nodeID],
        scopes    |-> CleanCredentialScopes(scopes),
        expiresAt |-> expiresAt,
        signature |-> KeySignature(publicKey, payload(keyID))]
          : keyID \in {k \in SigningKeyID(publicKey) : payload(k) # {}}}

DecodeNodeCredential(credential) ==
  {c \in credential : /\ c.algorithm = nodeCredentialAlgorithm
                      /\ c.version = nodeCredentialVersion
                      /\ TrimSpace[c.keyID] # ""}

ValidateNodeCredential(credential, trustedPublicKey, requiredScope, at) ==
  {c \in DecodeNodeCredential(credential) :
     /\ TrimSpace[c.networkID] # "" /\ TrimSpace[c.nodeID] # ""
     /\ at < c.expiresAt
     /\ TrimSpace[requiredScope] # "" => CredentialHasScope(c.scopes, requiredScope)
     /\ SigningKeyID(trustedPublicKey) = {c.keyID}
     /\ ClaimsPayload(c) # {}
     /\ c.signature = KeySignature(TrimSpace[trustedPublicKey], ClaimsPayload(c))}

VerifyNodeCredentialWithTrustBundle(credential, trust, requiredScope, at) ==
  {c \in DecodeNodeCredential(credential) :
     \E key \in Resolve(trust, c.keyID, at) :
       c \in ValidateNodeCredential(credential, key.publicKey, requiredScope, at)}
=============================================================================
