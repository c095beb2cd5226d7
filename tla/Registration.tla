---------------------------- MODULE Registration ----------------------------
(***************************************************************************)
(* A device that enrolls as a node, renews its credential and recovers.    *)
(*                                                                         *)
(* The device keeps two things on disk: the registration it has committed  *)
(* and the signed request of the operation under way, saved before it is   *)
(* sent (the contract of API.RegisterNode and RECOVERY.md; the device's    *)
(* own program is external). One call at a time is under way (API is not   *)
(* safe for concurrent use); a crash loses the call and nothing else.      *)
(*                                                                         *)
(* The control plane (external) stores one result per idempotency id and   *)
(* answers every retry with it, also after the credential in the request   *)
(* was superseded by that result. It can process a request whenever it has *)
(* been sent, however long ago. The edge in front of it can lose answers,  *)
(* hand a call an earlier answer, and attach error bodies that belong to   *)
(* other requests; the control plane can mix up two devices.               *)
(***************************************************************************)
EXTENDS RegistrationWire, FiniteSets

CONSTANTS
  Device,         \* [identityPublicKey, publicKey, deviceFingerprint] of this device
  OtherDevice,    \* those of another one
  Network,        \* [id, name] of the network it joins
  Authorizations, \* [networkID, networkName, joinToken, session] the user may enroll with
  Endpoints,      \* the values of attrs the device may have
  SigningKeys,    \* the control plane's signing keys, in the order it takes them up
  TrustBundle,    \* the trust bundle pinned by the device
  OperationIDs,   \* the results of NewRegistrationIdempotencyID, in order
  NodeIDs,        \* the ids the control plane gives to nodes, in order
  Diagnostics,    \* the diagnostic messages of errors
  RequestIDs,     \* <<the id of a request at the edge, the id of another>>
  HeaderKept,     \* whether the device has the X-Request-ID of a response: {TRUE}, {FALSE} or both
  CredentialTTL,  \* lifetime of credentials, 365 days in the code
  MapTTL,         \* lifetime of map signatures, 24 hours in the code
  MaxTime         \* bound on the clock

ASSUME RegistrationAssumption ==
  /\ \A f \in DOMAIN Device : Device[f] # OtherDevice[f]
  /\ DOMAIN Device = {"identityPublicKey", "publicKey", "deviceFingerprint"}
  /\ Len(NodeIDs) \in Nat /\ Len(OperationIDs) \in Nat /\ Len(SigningKeys) \in Nat
  /\ CredentialTTL \in Nat /\ MapTTL \in Nat /\ MaxTime \in Nat
  /\ RequestIDs[1] # RequestIDs[2]
  /\ HeaderKept \subseteq BOOLEAN

\* Generated ids do not repeat, and the control plane can sign for its nodes.
ASSUME IdentityAssumption ==
  /\ \A i, j \in 1 .. Len(OperationIDs) : OperationIDs[i] = OperationIDs[j] => i = j
  /\ \A i, j \in 1 .. Len(NodeIDs) : NodeIDs[i] = NodeIDs[j] => i = j
  /\ \A i \in 1 .. Len(NodeIDs) : TrimSpace[NodeIDs[i]] = NodeIDs[i] /\ NodeIDs[i] # ""
  /\ TrimSpace[Network.id] = Network.id /\ Network.id # ""
  /\ Len(SigningKeys) >= 1
  /\ \A i \in 1 .. Len(SigningKeys) : SigningKeys[i] \in DOMAIN KeyIDOf
  /\ TrimSpace[nodeCredentialScopeMap] = nodeCredentialScopeMap

VARIABLES
  enrolled,   \* on disk: {} or the registration result the device has committed
  pending,    \* on disk: {} or the signed request of the operation under way
  call,       \* {} or the call under way
  operations, \* how many idempotency ids have been generated
  sent,       \* the registration requests that were ever sent
  results,    \* at the control plane: its durable results, one per idempotency id
  nodes,      \* at the control plane: the nodes, with their current credentials
  signer,     \* at the control plane: the signing key in use, an index of SigningKeys
  now

disk == <<enrolled, pending>>

producer == <<results, nodes, signer>>

vars == <<enrolled, pending, call, operations, sent, results, nodes, signer, now>>

Init ==
  /\ enrolled = {} /\ pending = {} /\ call = {}
  /\ operations = 0 /\ sent = {}
  /\ results = {} /\ nodes = {} /\ signer = 1
  /\ now = 0

-----------------------------------------------------------------------------
(* The device starts an operation *)

\* A signed request for the next idempotency id.
NewRequest(auth, credential, binding, attrs) ==
  SetRegisterNodeIdentityProof(
    [schemaVersion       |-> SchemaVersion,
     idempotencyID       |-> OperationIDs[operations + 1],
     networkID           |-> auth.networkID,
     networkName         |-> auth.networkName,
     joinToken           |-> auth.joinToken,
     nodeCredential      |-> credential,
     registrationBinding |-> binding,
     sessionTokenBinding |-> SecretBinding(auth.session),
     identityPublicKey   |-> "",
     publicKey           |-> Device.publicKey,
     deviceFingerprint   |-> Device.deviceFingerprint,
     attrs               |-> attrs,
     identitySignature   |-> {}],
    Device.identityPublicKey)

\* Fault for Save: a request is saved that is not valid.
SaveUnchecked(req) == pending' = {req} /\ UNCHANGED <<call, sent>>

\* The request is serialized and saved; MarshalRegisterNodeRequest refuses one that is
\* not valid.
Save(req) ==
  /\ ValidRegisterNodeRequest(req)
  /\ pending' = {req}
  /\ UNCHANGED <<call, sent>>

Begin(auth, credential, binding) ==
  /\ pending = {} /\ call = {} /\ operations < Len(OperationIDs)
  /\ operations' = operations + 1
  /\ \E attrs \in Endpoints : Save(NewRequest(auth, credential, binding, attrs))
  /\ UNCHANGED <<enrolled, producer, now>>

BeginEnrollment ==
  /\ enrolled = {}
  /\ \E auth \in Authorizations : Begin(auth, {}, {})

\* A renewal may not be mixed with an enrollment's authorization.
BeginRenewal ==
  \E e \in enrolled, auth \in Authorizations \cup
       {[networkID |-> r.networkID, networkName |-> "", joinToken |-> "", session |-> ""] : r \in enrolled} :
    Begin(auth, e.nodeCredential, e.registrationBinding)

\* A device that saved nothing but the idempotency id signs the request anew, with the
\* endpoint it has now; it is serialized again, so it is valid again.
Rebuild ==
  /\ call = {}
  /\ \E p \in pending, attrs \in Endpoints :
       Save(SetRegisterNodeIdentityProof([p EXCEPT !.attrs = attrs], Device.identityPublicKey))
  /\ UNCHANGED <<enrolled, operations, producer, now>>

-----------------------------------------------------------------------------
(* Calls *)

\* RegisterNode with the saved request, for the first time or again.
SendRegister ==
  /\ call = {}
  /\ \E p \in pending :
       /\ ValidRegisterNodeRequest(p)
       /\ call' = {[kind |-> "register", request |-> {p}, credential |-> p.nodeCredential]}
       /\ sent' = sent \cup {p}
  /\ UNCHANGED <<disk, operations, producer, now>>

\* A call on a route of the node (map stream, endpoint state) with its credential.
SendNodeCall ==
  /\ call = {}
  /\ \E e \in enrolled : call' = {[kind |-> "node", request |-> {}, credential |-> e.nodeCredential]}
  /\ UNCHANGED <<disk, operations, sent, producer, now>>

\* The call ends without an answer that matters: a timeout, a lost answer, success of a
\* node call, or a crash.
EndCall == call # {} /\ call' = {} /\ UNCHANGED disk

LoseCall == EndCall /\ UNCHANGED <<operations, sent, producer, now>>

-----------------------------------------------------------------------------
(* The control plane (external) *)

ResultsFor(req) == {r \in results : r.idempotencyID = req.idempotencyID}

\* What it thinks of a credential.
CredentialVerdict(credential, scope) ==
  LET owner == {n \in nodes : \E c \in credential : n.id = c.nodeID}
  IN  IF owner = {} THEN "node_credential_unknown"
      ELSE IF \E n \in owner : n.revoked THEN "node_credential_revoked"
      ELSE IF \E c \in credential : now >= c.expiresAt THEN "node_credential_expired"
      ELSE IF /\ \E n \in owner : n.credential = credential
              /\ \E k \in ToSet(SigningKeys) :
                   ValidateNodeCredential(credential, k, scope, now) # {}
           THEN "accepted"
      ELSE "node_credential_invalid"

\* The node a renewal is for: the credential is current and the device is the one that
\* registered it.
RenewedNode(req) ==
  {n \in nodes : /\ CredentialVerdict(req.nodeCredential, nodeCredentialScopeRegister) = "accepted"
                 /\ n.credential = req.nodeCredential
                 /\ n.identityPublicKey = req.identityPublicKey
                 /\ n.registrationBinding = req.registrationBinding
                 /\ n.networkID = req.networkID}

\* A result for a request (its id and binding) and a node of some device.
Result(req, nodeID, device) ==
  LET r == [schemaVersion       |-> SchemaVersion,
            idempotencyID       |-> req.idempotencyID,
            networkID           |-> Network.id,
            node                |-> [id                |-> nodeID,
                                     networkID         |-> Network.id,
                                     identityPublicKey |-> device.identityPublicKey,
                                     publicKey         |-> device.publicKey,
                                     deviceFingerprint |-> device.deviceFingerprint],
            registrationBinding |-> {RegistrationIdentityProofBinding(req)},
            nodeCredential      |-> SignNodeCredential(SigningKeys[signer], Network.id, nodeID,
                                      {nodeCredentialScopeRegister, nodeCredentialScopeMap},
                                      now + CredentialTTL),
            mapSignature        |-> {},
            attrs               |-> req.attrs]
  IN  [r EXCEPT !.mapSignature = SignMap(SigningKeys[signer], r, now, MapTTL)]

NodeOf(r) ==
  [id |-> r.node.id, networkID |-> r.networkID, identityPublicKey |-> r.node.identityPublicKey,
   registrationBinding |-> r.registrationBinding, credential |-> r.nodeCredential, revoked |-> FALSE]

\* How many nodes it has made.
Made == Cardinality({r.node.id : r \in results})

\* It processes a request for the first time, and stores the result with its effect.
Process ==
  \E req \in sent :
    /\ ValidRegisterNodeRequest(req) /\ ResultsFor(req) = {}
    /\ \/ /\ ~IsCredentialRenewal(req)
          /\ req.networkID = Network.id \/ req.networkName = Network.name
          /\ Made < Len(NodeIDs)
          /\ LET r == Result(req, NodeIDs[Made + 1], req)
             IN  results' = results \cup {r} /\ nodes' = nodes \cup {NodeOf(r)}
       \/ \E n \in RenewedNode(req) :
            LET r == Result(req, n.id, req)
            IN  results' = results \cup {r} /\ nodes' = (nodes \ {n}) \cup {NodeOf(r)}
    /\ UNCHANGED <<disk, call, operations, sent, signer, now>>

\* The errors it may answer a call with.
Errors(c) ==
  {"temporarily_unavailable", "authorization_denied"} \cup
  IF c.kind = "node"
  THEN {CASE CredentialVerdict(c.credential, nodeCredentialScopeMap) = "accepted" ->
               "node_credential_renewal_required"
          [] OTHER -> CredentialVerdict(c.credential, nodeCredentialScopeMap)}
  ELSE UNION {
    IF ResultsFor(req) # {}
    THEN {"node_identity_binding_mismatch" : r \in {x \in ResultsFor(req) :
            x.registrationBinding # {RegistrationIdentityProofBinding(req)}}}
    ELSE IF ~IsCredentialRenewal(req) THEN {"authentication_required"}
    ELSE IF RenewedNode(req) # {} THEN {}
    ELSE {IF CredentialVerdict(c.credential, nodeCredentialScopeRegister) = "accepted"
          THEN "node_identity_binding_mismatch"
          ELSE CredentialVerdict(c.credential, nodeCredentialScopeRegister)} : req \in c.request}

RotateKey ==
  /\ signer < Len(SigningKeys) /\ signer' = signer + 1
  /\ UNCHANGED <<disk, call, operations, sent, results, nodes, now>>

\* A node is revoked or removed by an administrator.
Withdraw ==
  \E n \in nodes :
    /\ \/ ~n.revoked /\ nodes' = (nodes \ {n}) \cup {[n EXCEPT !.revoked = TRUE]}
       \/ nodes' = nodes \ {n}
    /\ UNCHANGED <<disk, call, operations, sent, results, signer, now>>

Tick ==
  /\ now < MaxTime /\ now' = now + 1
  /\ UNCHANGED <<disk, call, operations, sent, producer>>

-----------------------------------------------------------------------------
(* The device receives an answer *)

\* A registration is committed when RegisterNode accepts it for the request of the call
\* and the device's trust bundle verifies its credential and its map; the result and the
\* end of the operation reach the disk in one write.
Committable(r, req) ==
  /\ ValidateForRequest(r, req)
  /\ VerifyNodeCredentialWithTrustBundle(r.nodeCredential, TrustBundle, "", now) # {}
  /\ VerifyMapSignature(r, TrustBundle, now)

ReceiveResult(r) ==
  \E c \in call : \E req \in c.request :
    /\ IF Committable(r, req)
       THEN enrolled' = {r} /\ pending' = {} /\ call' = {}
       ELSE EndCall
    /\ UNCHANGED <<operations, sent, producer, now>>

\* The result of this operation, or of another one.
ReceiveStored == \E r \in results : ReceiveResult(r)

\* The result of another device's registration under this operation's id and binding.
ReceiveMixedUp ==
  \E c \in call : \E req \in c.request : ReceiveResult(Result(req, NodeIDs[1], OtherDevice))

\* The error of a call: a status that is returned, a body of which something is left, and
\* a code that is valid for status and request decide whether the enrollment is cleared.
\* ControlPlaneStatusError has the status and the body only: without an HTTPClient of its
\* own that keeps the X-Request-ID of the response, a device can not validate the error the
\* way RECOVERY.md asks for, and keeps its enrollment.
HandleError(status, body) ==
  \E kept \in HeaderKept :
    LET final == {e \in DecodePublicError(StatusErrorBody(body)) :
                    /\ kept /\ ValidateHTTPResponse(e, status, RequestIDs[1])
                    /\ RequiresReEnrollment(e.errorCode)}
    IN  IF StatusIsReturned(status) /\ final # {}
        THEN enrolled' = {} /\ pending' = {} /\ call' = {}
        ELSE EndCall

PublicError(code, message, requestID) ==
  [schemaVersion |-> SchemaVersion, errorCode |-> code, diagnosticMessage |-> message,
   requestID |-> requestID]

\* An error of the control plane.
ReceiveError ==
  \E c \in call : \E code \in Errors(c), message \in Diagnostics :
    \E body \in MarshalPublicError(PublicError(code, message, RequestIDs[1])) :
      /\ HandleError(HTTPStatus(code), body)
      /\ UNCHANGED <<operations, sent, producer, now>>

\* An error that is not the control plane's answer to this call: the code is made up, the
\* status does not fit it, or the body belongs to another request.
ReceiveForeignError ==
  \E c \in call, code \in KnownErrorCodes \cup {"made_up"}, id \in {RequestIDs[1], RequestIDs[2]},
     status \in {401, 409}, message \in Diagnostics :
    /\ code \notin KnownErrorCodes \/ id # RequestIDs[1] \/ status # HTTPStatus(code)
    /\ HandleError(status, [bytes |-> FixedErrorBytes, value |-> {PublicError(code, message, id)}])
    /\ UNCHANGED <<operations, sent, producer, now>>

Next ==
  \/ BeginEnrollment
  \/ BeginRenewal
  \/ Rebuild
  \/ SendRegister
  \/ SendNodeCall
  \/ LoseCall
  \/ Process
  \/ RotateKey
  \/ Withdraw
  \/ Tick
  \/ ReceiveStored
  \/ ReceiveMixedUp
  \/ ReceiveError
  \/ ReceiveForeignError

Spec == Init /\ [][Next]_vars

\* The device retries its operation again and again, a call ends by its timeout, the
\* control plane gets to the requests it receives, and not every answer is lost: of
\* infinitely many calls that a stored result completes one does.
Fairness ==
  /\ WF_vars(LoseCall)
  /\ SF_vars(SendRegister)
  /\ WF_vars(Process)
  /\ SF_vars(ReceiveStored /\ enrolled' # enrolled)

FairSpec == Spec /\ Fairness

\* The device also uses its credential again and again and, where it can validate an error
\* that ends its enrollment, does so for one of infinitely many.
HearingSpec ==
  /\ FairSpec
  /\ SF_vars(SendNodeCall)
  /\ SF_vars(ReceiveError /\ enrolled' # enrolled)

-----------------------------------------------------------------------------
(* Properties *)

AtMostOne(S) == \A x, y \in S : x = y

\* What the device holds in memory and on disk are valid messages, at most one of each,
\* for operations it has begun; the control plane only has valid results.
TypeOK ==
  /\ AtMostOne(enrolled) /\ AtMostOne(pending) /\ AtMostOne(call)
  /\ operations \in 0 .. Len(OperationIDs)
  /\ \A req \in sent \cup pending :
       /\ ValidRegisterNodeRequest(req)
       /\ \E i \in 1 .. operations : req.idempotencyID = OperationIDs[i]
  /\ \A c \in call : /\ c.kind \in {"register", "node"} /\ AtMostOne(c.request)
                     /\ c.request \subseteq sent
  /\ \A r \in results : ValidRegisterNodeResponse(r)
  /\ \A n \in nodes : n.revoked \in BOOLEAN
  /\ signer \in 1 .. Len(SigningKeys)
  /\ now \in 0 .. MaxTime

\* The registration on disk is a result the control plane has stored for a request of
\* this device, for its node and no other's: whatever answers reach a call (stale ones,
\* those of other operations or devices), ValidateForRequest lets no other through.
CommittedResult ==
  \A e \in enrolled :
    /\ e \in results
    /\ \E req \in sent : e.registrationBinding = {RegistrationIdentityProofBinding(req)}
    /\ \A f \in DOMAIN Device : e.node[f] = Device[f]

\* If the control plane has superseded the device's credential, the device can still get
\* the new one: its saved request is the one with the stored result that carries it. So no
\* lost answer, timeout or crash between the two commits locks the node out.
Recoverable ==
  \A e \in enrolled, n \in nodes :
    n.id = e.node.id /\ n.credential # e.nodeCredential =>
      \E req \in pending, r \in results :
        r.nodeCredential = n.credential /\ ValidateForRequest(r, req)

\* The control plane will never accept this credential again.
Final(credential) ==
  CredentialVerdict(credential, "") \in
    {"node_credential_unknown", "node_credential_revoked", "node_credential_expired"}

\* The enrollment is cleared only if the control plane regards its credential as unknown,
\* revoked or expired: no error that belongs to another request, has the wrong status or
\* an unknown code, and no refusal of a credential that is merely superseded, does it.
ClearedOnlyByAuthority ==
  [][\A e \in enrolled : enrolled' = {} => Final(e.nodeCredential)]_vars

\* An operation once saved is completed, however many answers are lost and however often
\* the device restarts, unless it renews a credential that became final before the control
\* plane got to the request: a device that does not have the X-Request-ID of the error can
\* not know that it is over.
OperationCompletes ==
  pending # {} ~>
    \/ pending = {}
    \/ \E p \in pending :
         IsCredentialRenewal(p) /\ Final(p.nodeCredential) /\ ResultsFor(p) = {}

\* A device whose node was revoked or removed finds out: it does not keep that enrollment
\* for ever.
TerminalErrorHeard ==
  (\E e \in enrolled : Final(e.nodeCredential)) ~> ~(\E e \in enrolled : Final(e.nodeCredential))
=============================================================================
