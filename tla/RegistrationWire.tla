-------------------------- MODULE RegistrationWire --------------------------
(***************************************************************************)
(* The messages of node registration and credential renewal                *)
(* (clientapi/v1/registration.go, identityproof.go): the device's identity *)
(* proof, what makes a request and a response valid, and what ties a       *)
(* response to the request it answers.                                     *)
(*                                                                         *)
(* The endpoint, version, tag and route fields of a request, which only    *)
(* validators of one field look at, are one field, attrs; so are the parts *)
(* of a response's network map that NetworkMap models.                     *)
(***************************************************************************)
EXTENDS NodeCredential, RecoveryErrors

CONSTANTS
  IdentityKeys,          \* texts that decode to a device identity key
  WireGuardKeys,         \* texts that pass wgkeys.ValidatePublicKey
  SafeAttrs,             \* attributes that pass the validators of single fields
  MaxSignatureClockSkew  \* how far ahead of the client's clock issued_at may be

ASSUME RegistrationWireAssumption ==
  /\ IdentityKeys \subseteq DOMAIN TrimSpace
  /\ \A k \in IdentityKeys : TrimSpace[k] = k
  /\ MaxSignatureClockSkew \in Nat

DecodeIdentityPublicKey(value) == {TrimSpace[value]} \cap IdentityKeys

-----------------------------------------------------------------------------
(* Requests *)

IsCredentialRenewal(req) == req.nodeCredential # {}

\* The canonical payload the device signs. Bearer values only appear as digests.
RegistrationIdentityProofPayload(req) ==
  [schemaVersion         |-> req.schemaVersion,
   idempotencyID         |-> TrimSpace[req.idempotencyID],
   networkID             |-> TrimSpace[req.networkID],
   networkName           |-> TrimSpace[req.networkName],
   joinTokenBinding      |-> SecretBinding(req.joinToken),
   nodeCredentialBinding |-> {Digest(c) : c \in req.nodeCredential},
   registrationBinding   |-> req.registrationBinding,
   sessionTokenBinding   |-> req.sessionTokenBinding,
   identityPublicKey     |-> TrimSpace[req.identityPublicKey],
   publicKey             |-> TrimSpace[req.publicKey],
   deviceFingerprint     |-> TrimSpace[req.deviceFingerprint],
   attrs                 |-> req.attrs]

RegistrationIdentityProofBinding(req) == Digest(RegistrationIdentityProofPayload(req))

\* The device with this identity key signs the request.
SetRegisterNodeIdentityProof(req, identityKey) ==
  LET named == [req EXCEPT !.identityPublicKey = identityKey]
  IN  [named EXCEPT !.identitySignature =
         {KeySignature(identityKey, RegistrationIdentityProofPayload(named))}]

VerifyRegisterNodeIdentityProof(req) ==
  \E key \in DecodeIdentityPublicKey(req.identityPublicKey) :
    req.identitySignature = {KeySignature(key, RegistrationIdentityProofPayload(req))}

\* A renewal is authorized by the old credential and names the registration it renews.
ValidRenewal(req) ==
  /\ TrimSpace[req.networkID] # ""
  /\ req.joinToken = "" /\ req.sessionTokenBinding = {}
  /\ ValidateDigest(req.registrationBinding, TRUE)

\* An enrollment is authorized by a join token or a session.
ValidEnrollment(req) ==
  /\ req.registrationBinding = {}
  /\ req.joinToken # "" \/ req.sessionTokenBinding # {}

\* RegisterNodeRequest.Validate
ValidRegisterNodeRequest(req) ==
  /\ req.schemaVersion = SchemaVersion
  /\ ValidateIdentifier(req.idempotencyID, 16, maxIdentifierBytes)
  /\ TrimSpace[req.networkID] # "" \/ TrimSpace[req.networkName] # ""
  /\ \A value \in {req.networkID, req.networkName, req.deviceFingerprint} :
       ValidateSafeString(value, 0, maxSafeFieldBytes)
  /\ TrimSpace[req.deviceFingerprint] # ""
  /\ req.publicKey \in WireGuardKeys
  /\ req.attrs \in SafeAttrs
  /\ ValidateOpaqueCredential(req.joinToken)
  /\ IF IsCredentialRenewal(req) THEN ValidRenewal(req) ELSE ValidEnrollment(req)
  /\ ValidateDigest(req.sessionTokenBinding, FALSE)
  /\ VerifyRegisterNodeIdentityProof(req)

-----------------------------------------------------------------------------
(* Responses *)

\* RegisterNodeResponse.Validate. ValidateNetworkMap checks that the node belongs to the
\* network; its other checks are module NetworkMap's, and among the attrs here.
ValidRegisterNodeResponse(r) ==
  /\ r.schemaVersion = SchemaVersion
  /\ ValidateIdentifier(r.idempotencyID, 16, maxIdentifierBytes)
  /\ ValidateDigest(r.registrationBinding, TRUE)
  /\ \E claims \in DecodeNodeCredential(r.nodeCredential) :
       /\ claims.networkID = TrimSpace[r.networkID]
       /\ claims.nodeID = TrimSpace[r.node.id]
  /\ r.mapSignature # {}
  /\ TrimSpace[r.networkID] # "" /\ TrimSpace[r.node.id] # ""
  /\ TrimSpace[r.node.networkID] = TrimSpace[r.networkID]
  /\ r.attrs \in SafeAttrs

\* Fault for SameOperation: a renewal is expected to keep the binding it names.
KeepsBinding(r, req) ==
  /\ r.idempotencyID = req.idempotencyID
  /\ r.registrationBinding = IF IsCredentialRenewal(req) THEN req.registrationBinding
                             ELSE {RegistrationIdentityProofBinding(req)}

SameOperation(r, req) ==
  /\ r.idempotencyID = req.idempotencyID
  /\ r.registrationBinding = {RegistrationIdentityProofBinding(req)}

\* Fault for SameNetwork: compared even if the request names the network by its name.
SameNetworkID(r, req) == r.networkID = req.networkID

SameNetwork(r, req) == req.networkID # "" => r.networkID = req.networkID

\* Fault for SameNode: any node of the network will do.
AnyNode(r, req) == r.node.networkID = r.networkID

SameNode(r, req) ==
  /\ r.node.networkID = r.networkID
  /\ r.node.identityPublicKey = req.identityPublicKey
  /\ r.node.publicKey = req.publicKey
  /\ r.node.deviceFingerprint = req.deviceFingerprint

\* ValidateForRequest: the response is the result of exactly this request.
ValidateForRequest(r, req) ==
  /\ ValidRegisterNodeRequest(req)
  /\ ValidRegisterNodeResponse(r)
  /\ SameOperation(r, req)
  /\ SameNetwork(r, req)
  /\ SameNode(r, req)

\* The part of a response the map signature covers; the credential is not part of it.
SignedMapPart(r, keyID, issuedAt, expiresAt) ==
  [keyID |-> keyID, issuedAt |-> issuedAt, expiresAt |-> expiresAt,
   networkID |-> r.networkID, node |-> r.node,
   registrationBinding |-> r.registrationBinding, attrs |-> r.attrs]

SignMap(publicKey, r, issuedAt, ttl) ==
  {[keyID |-> keyID, issuedAt |-> issuedAt, expiresAt |-> issuedAt + ttl,
    signature |-> KeySignature(publicKey, SignedMapPart(r, keyID, issuedAt, issuedAt + ttl))]
      : keyID \in SigningKeyID(publicKey)}

\* VerifyNetworkMapSignatureWithTrustBundle, both looks at the clock in one moment.
VerifyMapSignature(r, trust, at) ==
  \E sig \in r.mapSignature : \E key \in Resolve(trust, sig.keyID, at) :
    /\ SigningKeyID(key.publicKey) = {sig.keyID}
    /\ sig.issuedAt <= at + MaxSignatureClockSkew
    /\ at < sig.expiresAt
    /\ sig.signature =
         KeySignature(key.publicKey, SignedMapPart(r, sig.keyID, sig.issuedAt, sig.expiresAt))
=============================================================================
