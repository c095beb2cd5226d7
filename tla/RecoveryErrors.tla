--------------------------- MODULE RecoveryErrors ---------------------------
(***************************************************************************)
(* The public recovery errors of the control plane (clientapi/v1/errors.go *)
(* and codec.go), and what the HTTP client leaves of one                   *)
(* (ControlPlaneStatusError in api.go).                                    *)
(***************************************************************************)
EXTENDS WireText

\* The closed enum, by the HTTP status of each code.
ConflictCodes == {"node_credential_renewal_required", "node_identity_binding_mismatch"}

UnauthorizedCodes ==
  {"node_credential_unknown", "node_credential_revoked", "node_credential_expired",
   "node_credential_invalid", "authentication_required"}

KnownErrorCodes ==
  ConflictCodes \cup UnauthorizedCodes \cup {"authorization_denied", "temporarily_unavailable"}

HTTPStatus(code) ==
  IF code \in ConflictCodes THEN 409
  ELSE IF code \in UnauthorizedCodes THEN 401
  ELSE IF code = "authorization_denied" THEN 403
  ELSE 503

\* Fault for RequiresReEnrollment: every refusal of the credential is taken as final.
AnyUnauthorized(code) == code \in UnauthorizedCodes

\* The only codes that let a client clear its enrollment.
RequiresReEnrollment(code) ==
  code \in {"node_credential_unknown", "node_credential_revoked", "node_credential_expired"}

\* PublicError.Validate
ValidPublicError(e) ==
  /\ e.schemaVersion = SchemaVersion
  /\ e.errorCode \in KnownErrorCodes
  /\ ValidateSafeString(e.diagnosticMessage, 1, 1024)
  /\ ValidateIdentifier(e.requestID, 1, 128)

ValidateHTTPStatus(e, status) == ValidPublicError(e) /\ status = HTTPStatus(e.errorCode)

\* Fault for ValidateHTTPResponse: the body is not tied to its response.
ValidateStatusOnly(e, status, requestID) == ValidateHTTPStatus(e, status)

ValidateHTTPResponse(e, status, requestID) ==
  /\ ValidateHTTPStatus(e, status)
  /\ ValidateIdentifier(requestID, 1, 128)
  /\ e.requestID = requestID

-----------------------------------------------------------------------------

\* The bytes of an error body next to its two texts: field names, version and code.
FixedErrorBytes == 100

\* MarshalPublicError: the body of an error, or nothing when it is not valid.
MarshalPublicError(e) ==
  {[bytes |-> FixedErrorBytes + JSONBytes(x.diagnosticMessage) + JSONBytes(x.requestID),
    value |-> {x}] : x \in {y \in {e} : ValidPublicError(y)}}

DecodePublicError(body) == {e \in DecodeStrict(body, maxPublicErrorBytes) : ValidPublicError(e)}

\* The statuses that end a call as a ControlPlaneStatusError; the others lead to the next
\* origin, and their bodies are lost in an aggregate error.
StatusIsReturned(status) == ~(status = 408 \/ status = 429 \/ status >= 500)

MaxStatusErrorBytes == 4096

\* The Body of a ControlPlaneStatusError: the first bytes of the response body. What is
\* left of a longer body is not JSON any more.
StatusErrorBody(body) ==
  IF body.bytes <= MaxStatusErrorBytes THEN body
  ELSE [bytes |-> MaxStatusErrorBytes, value |-> {}]
=============================================================================
