------------------------- MODULE RegistrationProofs -------------------------
(***************************************************************************)
(* What Registration guarantees for every network, authorization, key      *)
(* rotation, clock and number of operations: the device commits only       *)
(* results of its own requests, gives up its enrollment only when the      *)
(* control plane has, and is never locked out by a lost answer.            *)
(*                                                                         *)
(* None follows from one step. OwnRequests adds that what is saved and     *)
(* sent is this device's and that a call carries what was sent;            *)
(* OneCredential that the saved request and the call under way carry the   *)
(* credential of the enrollment, so that a verdict on one is a verdict on  *)
(* the other. RInv adds which ids and credentials exist and that whatever  *)
(* superseded the credential of the device is the result of the saved      *)
(* request. HeldOK and StoredOK carry the type invariant: what is saved,   *)
(* sent or stored is valid.                                                *)
(***************************************************************************)
EXTENDS Registration, TLAPS, FiniteSetTheorems

RequestFields ==
  {"schemaVersion", "idempotencyID", "networkID", "networkName", "joinToken", "nodeCredential",
   "registrationBinding", "sessionTokenBinding", "identityPublicKey", "publicKey",
   "deviceFingerprint", "attrs", "identitySignature"}

OwnRequest(req) ==
  /\ DOMAIN req = RequestFields
  /\ req.identityPublicKey = Device.identityPublicKey
  /\ req.publicKey = Device.publicKey
  /\ req.deviceFingerprint = Device.deviceFingerprint

OwnRequests ==
  /\ \A req \in pending \cup sent : OwnRequest(req)
  /\ \A c \in call : c.request \subseteq sent

OneCredential ==
  /\ AtMostOne(enrolled)
  /\ \A e \in enrolled, p \in pending : p.nodeCredential = e.nodeCredential
  /\ \A e \in enrolled, c \in call : c.credential = e.nodeCredential

IInv == OwnRequests /\ OneCredential /\ CommittedResult

-----------------------------------------------------------------------------
(* Requests *)

\* Signing names the device and changes nothing else.
LEMMA SignedIsOwn ==
  ASSUME NEW req, DOMAIN req = RequestFields,
         req.publicKey = Device.publicKey, req.deviceFingerprint = Device.deviceFingerprint,
         NEW s, s = SetRegisterNodeIdentityProof(req, Device.identityPublicKey)
  PROVE  /\ OwnRequest(s) /\ s.nodeCredential = req.nodeCredential
         /\ s.idempotencyID = req.idempotencyID
<1> DEFINE named == [req EXCEPT !.identityPublicKey = Device.identityPublicKey]
<1>1. /\ DOMAIN named = RequestFields
      /\ named.identityPublicKey = Device.identityPublicKey
      /\ named.publicKey = Device.publicKey
      /\ named.deviceFingerprint = Device.deviceFingerprint
      /\ named.nodeCredential = req.nodeCredential /\ named.idempotencyID = req.idempotencyID
  BY DEF RequestFields
<1>2. PICK x : s = [named EXCEPT !.identitySignature = x]
  BY DEF SetRegisterNodeIdentityProof
<1> HIDE DEF named
<1> QED  BY <1>1, <1>2 DEF OwnRequest, RequestFields

\* What Begin saves.
LEMMA NewRequestIsOwn ==
  ASSUME NEW auth, NEW credential, NEW binding, NEW attrs
  PROVE  /\ OwnRequest(NewRequest(auth, credential, binding, attrs))
         /\ NewRequest(auth, credential, binding, attrs).nodeCredential = credential
<1> DEFINE req ==
      [schemaVersion       |-> SchemaVersion,
       idempotencyID       |-> OperationIDs[operations + 1],
       networkID           |-> auth.networkID,
       networkName         |-> auth.networkName,
       joinToken           |-> auth.joinToken,
       nodeCredential      |-> credential,
       registrationBinding |-> binding,
       sessionTokenBinding |-> SecretBinding(auth.session),
       identityPublicKey   |-> "",
       publicKey           |-> Device.publicKey,
       deviceFingerprint   |-> Device.deviceFingerprint,
       attrs               |-> attrs,
       identitySignature   |-> {}]
<1>1. /\ DOMAIN req = RequestFields
      /\ req.publicKey = Device.publicKey
      /\ req.deviceFingerprint = Device.deviceFingerprint
      /\ req.nodeCredential = credential
  BY DEF RequestFields
<1>2. NewRequest(auth, credential, binding, attrs) =
        SetRegisterNodeIdentityProof(req, Device.identityPublicKey)
  BY DEF NewRequest
<1> HIDE DEF req
<1> QED  BY <1>1, <1>2, SignedIsOwn

-----------------------------------------------------------------------------
(* Verdicts and errors *)

FinalCodes == {"node_credential_unknown", "node_credential_revoked", "node_credential_expired"}

\* A final verdict does not depend on the scope it was asked for.
LEMMA FinalInAnyScope ==
  ASSUME NEW credential, NEW scope, CredentialVerdict(credential, scope) \in FinalCodes
  PROVE  Final(credential)
<1> DEFINE owner == {n \in nodes : \E c \in credential : n.id = c.nodeID}
           revoked == \E n \in owner : n.revoked
           expired == \E c \in credential : now >= c.expiresAt
           accepted(s) == /\ \E n \in owner : n.credential = credential
                          /\ \E k \in ToSet(SigningKeys) :
                               ValidateNodeCredential(credential, k, s, now) # {}
<1>1. \A s : CredentialVerdict(credential, s) =
        IF owner = {} THEN "node_credential_unknown"
        ELSE IF revoked THEN "node_credential_revoked"
        ELSE IF expired THEN "node_credential_expired"
        ELSE IF accepted(s) THEN "accepted" ELSE "node_credential_invalid"
  BY DEF CredentialVerdict
<1> HIDE DEF owner, revoked, expired, accepted
<1> QED  BY <1>1 DEF Final, FinalCodes

\* A final error of the control plane is its verdict on the credential of the call.
LEMMA FinalErrorIsVerdict ==
  ASSUME NEW c, NEW code \in Errors(c), code \in FinalCodes
  PROVE  Final(c.credential)
<1>1. CASE c.kind = "node"
  <2>1. code = CredentialVerdict(c.credential, nodeCredentialScopeMap)
    BY <1>1 DEF Errors, FinalCodes
  <2> QED  BY <2>1, FinalInAnyScope
<1>2. CASE c.kind # "node"
  <2>1. code = CredentialVerdict(c.credential, nodeCredentialScopeRegister)
    BY <1>2 DEF Errors, FinalCodes
  <2> QED  BY <2>1, FinalInAnyScope
<1> QED  BY <1>1, <1>2

\* An enrollment is cleared only for the error the body stands for, in full, with its own
\* status and request id.
LEMMA ClearedFor ==
  ASSUME NEW status, NEW body, HandleError(status, body), ~EndCall
  PROVE  /\ enrolled' = {} /\ pending' = {} /\ call' = {}
         /\ \E x \in body.value :
              /\ x.errorCode \in FinalCodes /\ x.errorCode \in KnownErrorCodes
              /\ status = HTTPStatus(x.errorCode)
              /\ x.requestID = RequestIDs[1]
<1> DEFINE final == {x \in DecodePublicError(StatusErrorBody(body)) :
                       /\ ValidateHTTPResponse(x, status, RequestIDs[1])
                       /\ RequiresReEnrollment(x.errorCode)}
<1>1. final # {} /\ enrolled' = {} /\ pending' = {} /\ call' = {}  BY DEF HandleError
<1>2. PICK x \in final : TRUE  BY <1>1
<1>3. x \in StatusErrorBody(body).value  BY <1>2 DEF DecodePublicError, DecodeStrict
<1>4. x \in body.value  BY <1>3 DEF StatusErrorBody
<1>5. ValidateHTTPResponse(x, status, RequestIDs[1]) /\ RequiresReEnrollment(x.errorCode)  BY <1>2
<1> QED
  BY <1>1, <1>4, <1>5 DEF ValidateHTTPResponse, ValidateHTTPStatus, ValidPublicError, RequiresReEnrollment,
                    FinalCodes

\* The error handler clears everything or ends the call.
LEMMA HandleErrorKeeps ==
  ASSUME IInv, NEW status, NEW body, HandleError(status, body), UNCHANGED <<sent, results>>
  PROVE  IInv'
<1>1. call' = {} /\ pending' \subseteq pending /\ enrolled' \subseteq enrolled
  BY DEF HandleError, EndCall, disk
<1> QED  BY <1>1 DEF IInv, OwnRequests, OneCredential, CommittedResult, AtMostOne

-----------------------------------------------------------------------------

LEMMA InitIInv == Init => IInv
BY DEF Init, IInv, OwnRequests, OneCredential, CommittedResult, AtMostOne

\* The saved request of a new operation carries the enrollment's credential.
LEMMA BeginKeeps ==
  ASSUME IInv, NEW auth, NEW credential, NEW binding, Begin(auth, credential, binding),
         \A e \in enrolled : credential = e.nodeCredential
  PROVE  IInv'
<1> USE DEF IInv
<1>1. PICK attrs \in Endpoints : Save(NewRequest(auth, credential, binding, attrs))  BY DEF Begin
<1> DEFINE req == NewRequest(auth, credential, binding, attrs)
<1>2. OwnRequest(req) /\ req.nodeCredential = credential  BY NewRequestIsOwn
<1>3. pending' = {req} /\ UNCHANGED <<call, sent>>  BY <1>1 DEF Save
<1>4. UNCHANGED <<enrolled, results>>  BY DEF Begin, producer
<1> HIDE DEF req
<1>5. OwnRequests'  BY <1>2, <1>3 DEF OwnRequests, OwnRequest
<1>6. OneCredential'  BY <1>2, <1>3, <1>4 DEF OneCredential, AtMostOne
<1>7. CommittedResult'  BY <1>3, <1>4 DEF CommittedResult
<1> QED  BY <1>5, <1>6, <1>7

\* A result is committed only if it is for this device: SameNode.
LEMMA CommittedIsOwn ==
  ASSUME IInv, NEW r, NEW c \in call, NEW req \in c.request, Committable(r, req)
  PROVE  /\ req \in sent
         /\ r.registrationBinding = {RegistrationIdentityProofBinding(req)}
         /\ \A f \in DOMAIN Device : r.node[f] = Device[f]
<1>1. req \in sent /\ OwnRequest(req)  BY DEF IInv, OwnRequests
<1>2. SameOperation(r, req) /\ SameNode(r, req)  BY DEF Committable, ValidateForRequest
<1>3. DOMAIN Device = {"identityPublicKey", "publicKey", "deviceFingerprint"}
  BY RegistrationAssumption
<1> QED  BY <1>1, <1>2, <1>3 DEF OwnRequest, SameOperation, SameNode

\* A received result is committed, if it is one of the stored ones, or the call ends.
LEMMA ResultKeeps ==
  ASSUME IInv, NEW r, ReceiveResult(r),
         \A c \in call : \A req \in c.request : Committable(r, req) => r \in results
  PROVE  IInv' /\ (enrolled' = {} => enrolled = {})
<1>1. PICK c \in call : \E req \in c.request :
        /\ IF Committable(r, req)
           THEN enrolled' = {r} /\ pending' = {} /\ call' = {}
           ELSE EndCall
        /\ UNCHANGED <<operations, sent, producer, now>>
  BY DEF ReceiveResult
<1>2. PICK req \in c.request :
        /\ IF Committable(r, req)
           THEN enrolled' = {r} /\ pending' = {} /\ call' = {}
           ELSE EndCall
        /\ UNCHANGED <<operations, sent, producer, now>>
  BY <1>1
<1>3. UNCHANGED <<sent, results>>  BY <1>2 DEF producer
<1>4. CASE Committable(r, req)
  <2>1. enrolled' = {r} /\ pending' = {} /\ call' = {}  BY <1>2, <1>4
  <2>2. r \in results  BY <1>4
  <2>3. OwnRequests' /\ OneCredential'
    BY <1>3, <2>1 DEF IInv, OwnRequests, OwnRequest, OneCredential, AtMostOne
  <2>4. CommittedResult'  BY <1>3, <1>4, <2>1, <2>2, CommittedIsOwn DEF CommittedResult
  <2> QED  BY <2>1, <2>3, <2>4 DEF IInv
<1>5. CASE ~Committable(r, req)
  <2>1. call' = {} /\ UNCHANGED <<enrolled, pending>>  BY <1>2, <1>5 DEF EndCall, disk
  <2> QED  BY <1>3, <2>1 DEF IInv, OwnRequests, OwnRequest, OneCredential, CommittedResult, AtMostOne
<1> QED  BY <1>4, <1>5

\* The result of another device's registration never fits a request of this one.
LEMMA MixedUpIsRefused ==
  ASSUME IInv, NEW req, NEW id, NEW c \in call, NEW own \in c.request
  PROVE  ~Committable(Result(req, id, OtherDevice), own)
<1> DEFINE r == Result(req, id, OtherDevice)
<1>1. r.node.publicKey = OtherDevice.publicKey  BY DEF Result
<1>2. SUFFICES ASSUME Committable(r, own) PROVE FALSE  OBVIOUS
<1>3. r.node.publicKey = Device.publicKey
  <2> HIDE DEF r
  <2>1. "publicKey" \in DOMAIN Device  BY RegistrationAssumption
  <2> QED  BY <1>2, <2>1, CommittedIsOwn
<1> QED  BY <1>1, <1>3, RegistrationAssumption

\* Steps that leave the disk, the calls and the requests alone and only add results.
LEMMA ProducerKeeps ==
  ASSUME IInv, UNCHANGED <<enrolled, pending, call, sent>>, results \subseteq results'
  PROVE  IInv'
BY DEF IInv, OwnRequests, OwnRequest, OneCredential, CommittedResult, AtMostOne

LEMMA NextIInv ==
  ASSUME IInv, [Next]_vars
  PROVE  IInv' /\ \A e \in enrolled : enrolled' = {} => Final(e.nodeCredential)
<1> USE DEF IInv
<1>1. CASE BeginEnrollment
  <2>1. PICK auth \in Authorizations : Begin(auth, {}, {})  BY <1>1 DEF BeginEnrollment
  <2>2. enrolled = {}  BY <1>1 DEF BeginEnrollment
  <2> QED  BY <2>1, <2>2, BeginKeeps
<1>2. CASE BeginRenewal
  <2>1. PICK e \in enrolled : \E auth : Begin(auth, e.nodeCredential, e.registrationBinding)
    BY <1>2 DEF BeginRenewal
  <2>2. PICK auth : Begin(auth, e.nodeCredential, e.registrationBinding)  BY <2>1
  <2>3. \A x \in enrolled : e.nodeCredential = x.nodeCredential  BY DEF OneCredential, AtMostOne
  <2>4. IInv'  BY <2>2, <2>3, BeginKeeps
  <2>5. enrolled' = enrolled  BY <2>2 DEF Begin
  <2> QED  BY <2>4, <2>5
<1>3. CASE Rebuild
  <2>1. PICK p \in pending : \E attrs \in Endpoints :
          pending' = {SetRegisterNodeIdentityProof([p EXCEPT !.attrs = attrs], Device.identityPublicKey)}
    BY <1>3 DEF Rebuild, Save
  <2>2. PICK attrs \in Endpoints :
          pending' = {SetRegisterNodeIdentityProof([p EXCEPT !.attrs = attrs], Device.identityPublicKey)}
    BY <2>1
  <2> DEFINE req == [p EXCEPT !.attrs = attrs]
             s == SetRegisterNodeIdentityProof(req, Device.identityPublicKey)
  <2>3. OwnRequest(p)  BY DEF OwnRequests
  <2>4. /\ DOMAIN req = RequestFields /\ req.nodeCredential = p.nodeCredential
        /\ req.publicKey = Device.publicKey /\ req.deviceFingerprint = Device.deviceFingerprint
    BY <2>3 DEF OwnRequest, RequestFields
  <2>5. pending' = {s}  BY <2>2
  <2>6. OwnRequest(s) /\ s.nodeCredential = p.nodeCredential
    <3> HIDE DEF req
    <3> QED  BY <2>4, SignedIsOwn
  <2>7. UNCHANGED <<enrolled, call, sent, results>>  BY <1>3 DEF Rebuild, Save, producer
  <2> HIDE DEF s
  <2>8. OwnRequests'  BY <2>5, <2>6, <2>7 DEF OwnRequests, OwnRequest
  <2>9. OneCredential'  BY <2>5, <2>6, <2>7 DEF OneCredential, AtMostOne
  <2>10. CommittedResult'  BY <2>7 DEF CommittedResult
  <2> QED  BY <2>7, <2>8, <2>9, <2>10
<1>4. CASE SendRegister
  <2>1. PICK p \in pending :
          /\ call' = {[kind |-> "register", request |-> {p}, credential |-> p.nodeCredential]}
          /\ sent' = sent \cup {p}
    BY <1>4 DEF SendRegister
  <2>2. UNCHANGED <<enrolled, pending, results>>  BY <1>4 DEF SendRegister, disk, producer
  <2>3. OwnRequests'  BY <2>1, <2>2 DEF OwnRequests, OwnRequest
  <2>4. OneCredential'  BY <2>1, <2>2 DEF OneCredential, AtMostOne
  <2>5. CommittedResult'  BY <2>1, <2>2 DEF CommittedResult
  <2> QED  BY <2>2, <2>3, <2>4, <2>5
<1>5. CASE SendNodeCall
  <2>1. PICK e \in enrolled :
          call' = {[kind |-> "node", request |-> {}, credential |-> e.nodeCredential]}
    BY <1>5 DEF SendNodeCall
  <2>2. UNCHANGED <<enrolled, pending, results, sent>>  BY <1>5 DEF SendNodeCall, disk, producer
  <2>3. OwnRequests'  BY <2>1, <2>2 DEF OwnRequests, OwnRequest
  <2>4. OneCredential'  BY <2>1, <2>2 DEF OneCredential, AtMostOne
  <2> QED  BY <2>2, <2>3, <2>4 DEF CommittedResult
<1>6. CASE LoseCall
  <2>1. call' = {} /\ UNCHANGED <<enrolled, pending, results, sent>>
    BY <1>6 DEF LoseCall, EndCall, disk, producer
  <2> QED  BY <2>1 DEF OwnRequests, OwnRequest, OneCredential, CommittedResult, AtMostOne
<1>7. CASE Process
  <2>1. UNCHANGED <<enrolled, pending, call, sent>>  BY <1>7 DEF Process, disk
  <2>2. results \subseteq results'  BY <1>7 DEF Process
  <2> QED  BY <2>1, <2>2, ProducerKeeps
<1>8. CASE RotateKey \/ Withdraw \/ Tick
  <2>1. UNCHANGED <<enrolled, pending, call, sent, results>>
    BY <1>8 DEF RotateKey, Withdraw, Tick, disk, producer
  <2> QED  BY <2>1, ProducerKeeps
<1>9. CASE ReceiveStored
  <2>1. PICK r \in results : ReceiveResult(r)  BY <1>9 DEF ReceiveStored
  <2> QED  BY <2>1, ResultKeeps
<1>10. CASE ReceiveMixedUp
  <2>1. PICK c \in call : \E req \in c.request : ReceiveResult(Result(req, NodeIDs[1], OtherDevice))
    BY <1>10 DEF ReceiveMixedUp
  <2>2. PICK req \in c.request : ReceiveResult(Result(req, NodeIDs[1], OtherDevice))  BY <2>1
  <2> DEFINE r == Result(req, NodeIDs[1], OtherDevice)
  <2>3. \A d \in call : \A own \in d.request : ~Committable(r, own)  BY MixedUpIsRefused
  <2> HIDE DEF r
  <2> QED  BY <2>2, <2>3, ResultKeeps DEF r
<1>11. CASE ReceiveError
  <2>1. PICK c \in call : \E code \in Errors(c), message \in Diagnostics :
          \E body \in MarshalPublicError(PublicError(code, message, RequestIDs[1])) :
            HandleError(HTTPStatus(code), body)
    BY <1>11 DEF ReceiveError
  <2>2. PICK code \in Errors(c), message \in Diagnostics :
          \E body \in MarshalPublicError(PublicError(code, message, RequestIDs[1])) :
            HandleError(HTTPStatus(code), body)
    BY <2>1
  <2>3. PICK body \in MarshalPublicError(PublicError(code, message, RequestIDs[1])) :
          HandleError(HTTPStatus(code), body)
    BY <2>2
  <2>4. UNCHANGED <<sent, results>>  BY <1>11 DEF ReceiveError, producer
  <2>5. IInv'  BY <2>3, <2>4, HandleErrorKeeps
  <2>6. ASSUME NEW e \in enrolled, enrolled' = {} PROVE Final(e.nodeCredential)
    <3>0. ~EndCall  BY <2>6 DEF EndCall, disk
    <3>1. PICK x \in body.value : x.errorCode \in FinalCodes  BY <2>3, <3>0, ClearedFor
    <3>2. x = PublicError(code, message, RequestIDs[1])  BY <2>3, <3>1 DEF MarshalPublicError
    <3>3. x.errorCode = code  BY <3>2 DEF PublicError
    <3>4. Final(c.credential)  BY <3>1, <3>3, FinalErrorIsVerdict
    <3> QED  BY <3>4 DEF OneCredential
  <2> QED  BY <2>5, <2>6
<1>12. CASE ReceiveForeignError
  <2>1. PICK c \in call, code \in KnownErrorCodes \cup {"made_up"}, id \in {RequestIDs[1], RequestIDs[2]},
             status \in {401, 409}, message \in Diagnostics :
          /\ code \notin KnownErrorCodes \/ id # RequestIDs[1] \/ status # HTTPStatus(code)
          /\ HandleError(status, [bytes |-> FixedErrorBytes, value |-> {PublicError(code, message, id)}])
          /\ UNCHANGED <<operations, sent, producer, now>>
    BY <1>12 DEF ReceiveForeignError
  <2>2. UNCHANGED <<sent, results>>  BY <1>12 DEF ReceiveForeignError, producer
  <2> DEFINE body == [bytes |-> FixedErrorBytes, value |-> {PublicError(code, message, id)}]
  <2>3. HandleError(status, body)  BY <2>1
  <2>4. body.value = {PublicError(code, message, id)}  OBVIOUS
  <2> HIDE DEF body
  <2>5. IInv'  BY <2>2, <2>3, HandleErrorKeeps
  <2>6. ASSUME NEW e \in enrolled, enrolled' = {} PROVE FALSE
    <3>0. ~EndCall  BY <2>6 DEF EndCall, disk
    <3>1. PICK x \in body.value :
            /\ x.errorCode \in KnownErrorCodes
            /\ status = HTTPStatus(x.errorCode) /\ x.requestID = RequestIDs[1]
      BY <2>3, <3>0, ClearedFor
    <3>2. x.errorCode = code /\ x.requestID = id  BY <2>4, <3>1 DEF PublicError
    <3> QED  BY <2>1, <3>1, <3>2
  <2> QED  BY <2>5, <2>6
<1>13. CASE UNCHANGED vars
  <2>1. UNCHANGED <<enrolled, pending, call, sent, results>>  BY <1>13 DEF vars
  <2> QED  BY <2>1, ProducerKeeps
<1> QED
  BY <1>1, <1>2, <1>3, <1>4, <1>5, <1>6, <1>7, <1>8, <1>9, <1>10, <1>11, <1>12, <1>13 DEF Next

LEMMA Inductive == Spec => []IInv
<1>1. IInv /\ [Next]_vars => IInv'  BY NextIInv
<1> QED  BY InitIInv, <1>1, PTL DEF Spec

\* Whatever answers reach the device, and after any number of crashes and retries, the
\* registration it keeps is a stored result of one of its own requests.
THEOREM CommittedIsStored == Spec => []CommittedResult
<1>1. IInv => CommittedResult  BY DEF IInv
<1> QED  BY Inductive, <1>1, PTL

\* Whatever errors reach the device, it clears its enrollment only if the control plane
\* will never accept its credential again.
THEOREM ClearedByAuthority == Spec => ClearedOnlyByAuthority
<1>1. IInv /\ [Next]_vars => [\A e \in enrolled : enrolled' = {} => Final(e.nodeCredential)]_vars
  BY NextIInv
<1> QED  BY Inductive, <1>1, PTL DEF Spec, ClearedOnlyByAuthority

-----------------------------------------------------------------------------
(***************************************************************************)
(* A device that saves its signed request before it sends it is never      *)
(* locked out: Recoverable, for any number of operations, retries,         *)
(* crashes, withdrawals and key rotations.                                 *)
(*                                                                         *)
(* The argument: the control plane supersedes a credential only when it    *)
(* processes a request that has no result yet. Unfinished says that such a *)
(* request is the saved one, or carries a credential that is gone for      *)
(* ever. So what superseded the credential is the result of the saved      *)
(* request (ResultIsCurrent), which a retry fetches. NodesSound and        *)
(* RequestsSound say which ids and credentials there are.                  *)
(***************************************************************************)

IDs == {r.node.id : r \in results}

NodeFields == {"id", "networkID", "identityPublicKey", "registrationBinding", "credential", "revoked"}

SoundCredential(credential) ==
  \E c : credential = {c} /\ c.nodeID \in IDs /\ c.expiresAt \in Nat

IDsSound ==
  /\ IsFiniteSet(IDs)
  /\ Made \in 0 .. Len(NodeIDs)
  /\ IDs = {NodeIDs[i] : i \in 1 .. Made}

NodesSound ==
  /\ \A n \in nodes : /\ DOMAIN n = NodeFields
                      /\ n.id \in IDs /\ n.networkID = Network.id
                      /\ n.credential # {}
                      /\ \A c \in n.credential : c.nodeID = n.id
  /\ \A n, m \in nodes : n.id = m.id => n = m
  /\ \A r \in results : SoundCredential(r.nodeCredential)
  /\ now \in Nat /\ signer \in 1 .. Len(SigningKeys)

\* An idempotency id that has been generated.
Generated(id) == \E i \in 1 .. operations : id = OperationIDs[i]

\* Signing the request again changes nothing.
Settled(p) ==
  /\ p.attrs \in Endpoints
  /\ \A attrs : attrs = p.attrs =>
       SetRegisterNodeIdentityProof([p EXCEPT !.attrs = attrs], Device.identityPublicKey) = p

RequestsSound ==
  /\ operations \in Nat /\ operations <= Len(OperationIDs)
  /\ AtMostOne(pending)
  /\ \A req \in pending \cup sent :
       /\ Generated(req.idempotencyID)
       /\ req.nodeCredential = {} \/ SoundCredential(req.nodeCredential)
  /\ \A r \in results : Generated(r.idempotencyID)
  /\ \A p \in pending : Settled(p)

CallsSound ==
  \A c \in call : /\ c.request \subseteq pending
                  /\ \A req \in c.request : c.credential = req.nodeCredential
                  /\ c.kind = "node" => enrolled # {}
                  /\ c.kind # "node" => c.request # {}

\* No node has this credential any more, it is revoked, or expired.
Gone(ns, t, credential) ==
  \/ \A n \in ns, c \in credential : n.id # c.nodeID
  \/ \E n \in ns, c \in credential : n.id = c.nodeID /\ n.revoked
  \/ \E c \in credential : t >= c.expiresAt

\* A request without result is the saved one, or will never be processed.
Unfinished ==
  \A req \in sent :
    \/ ResultsFor(req) # {}
    \/ req \in pending
    \/ req.nodeCredential # {} /\ Gone(nodes, now, req.nodeCredential)

\* The result of the saved request is what the node has now.
ResultIsCurrent ==
  \A req \in pending, r \in results, n \in nodes :
    r.idempotencyID = req.idempotencyID /\ n.id = r.node.id => n.credential = r.nodeCredential

RInv ==
  /\ IDsSound /\ NodesSound /\ RequestsSound /\ CallsSound
  /\ Unfinished /\ ResultIsCurrent /\ Recoverable

-----------------------------------------------------------------------------
(* Verdicts *)

\* What is final, and what is accepted.
LEMMA VerdictMeans ==
  ASSUME NEW credential
  PROVE  /\ Final(credential) => Gone(nodes, now, credential)
         /\ \A scope : CredentialVerdict(credential, scope) = "accepted" => ~Gone(nodes, now, credential)
<1> DEFINE owner == {n \in nodes : \E c \in credential : n.id = c.nodeID}
           revoked == \E n \in owner : n.revoked
           expired == \E c \in credential : now >= c.expiresAt
           accepted(s) == /\ \E n \in owner : n.credential = credential
                          /\ \E k \in ToSet(SigningKeys) :
                               ValidateNodeCredential(credential, k, s, now) # {}
<1>1. \A s : CredentialVerdict(credential, s) =
        IF owner = {} THEN "node_credential_unknown"
        ELSE IF revoked THEN "node_credential_revoked"
        ELSE IF expired THEN "node_credential_expired"
        ELSE IF accepted(s) THEN "accepted" ELSE "node_credential_invalid"
  BY DEF CredentialVerdict
<1>2. Gone(nodes, now, credential) <=> owner = {} \/ revoked \/ expired
  BY DEF Gone
<1>3. Final(credential) <=> owner = {} \/ revoked \/ expired
  <2> HIDE DEF owner, revoked, expired, accepted
  <2> QED  BY <1>1 DEF Final
<1>4. \A s : CredentialVerdict(credential, s) = "accepted" => ~(owner = {} \/ revoked \/ expired)
  <2> HIDE DEF owner, revoked, expired, accepted
  <2> QED  BY <1>1
<1> QED  BY <1>2, <1>3, <1>4

\* A register call is refused for good only if it was a renewal.
LEMMA FinalIsRenewal ==
  ASSUME NEW c, NEW code \in Errors(c), code \in FinalCodes, c.kind # "node"
  PROVE  \E req \in c.request : req.nodeCredential # {}
BY DEF Errors, FinalCodes, IsCredentialRenewal

LEMMA SumIsNat ==
  ASSUME NEW a \in Nat, NEW b \in Nat
  PROVE  a + b \in Nat
OBVIOUS

\* A result for the request and node, with a credential of that node.
IsResultFor(r, req, id) ==
  /\ r.idempotencyID = req.idempotencyID
  /\ r.node.id = id /\ r.networkID = Network.id
  /\ \E c : r.nodeCredential = {c} /\ c.nodeID = id /\ c.expiresAt \in Nat

\* The result of a request is for that request, with a new sound credential.
LEMMA ResultSound ==
  ASSUME NEW req, NEW id, TrimSpace[id] = id, id # "", now \in Nat,
         signer \in 1 .. Len(SigningKeys),
         NEW r, r = Result(req, id, req)
  PROVE  /\ IsResultFor(r, req, id)
         /\ ValidRegisterNodeRequest(req) => ValidRegisterNodeResponse(r)
         /\ ValidRegisterNodeRequest(req) /\ (req.networkID # "" => req.networkID = Network.id)
              => ValidateForRequest(r, req)
<1> DEFINE key == SigningKeys[signer]
           scopes == {nodeCredentialScopeRegister, nodeCredentialScopeMap}
           credential == SignNodeCredential(key, Network.id, id, scopes, now + CredentialTTL)
<1>1. key \in DOMAIN KeyIDOf  BY IdentityAssumption
<1>2. /\ TrimSpace[key] = key /\ SigningKeyID(key) = {KeyIDOf[key]}
      /\ TrimSpace[KeyIDOf[key]] = KeyIDOf[key] /\ KeyIDOf[key] # ""
  <2> HIDE DEF key
  <2>1. /\ TrimSpace[key] = key
        /\ TrimSpace[KeyIDOf[key]] = KeyIDOf[key] /\ KeyIDOf[key] # ""
    BY <1>1, KeyIDAssumption
  <2>2. {TrimSpace[key]} \cap DOMAIN KeyIDOf = {key}  BY <1>1, <2>1
  <2>3. SigningKeyID(key) = {KeyIDOf[k] : k \in {key}}  BY <2>2 DEF SigningKeyID
  <2>4. {KeyIDOf[k] : k \in {key}} = {KeyIDOf[key]}  OBVIOUS
  <2> QED  BY <2>1, <2>3, <2>4
<1>3. CleanCredentialScopes(scopes) # {}
  <2>1. TrimSpace[nodeCredentialScopeMap] = nodeCredentialScopeMap  BY IdentityAssumption
  <2>2. nodeCredentialScopeMap \in scopes /\ nodeCredentialScopeMap # ""  BY DEF nodeCredentialScopeMap
  <2> HIDE DEF scopes
  <2> QED  BY <2>1, <2>2 DEF CleanCredentialScopes
<1>4. TrimSpace[Network.id] = Network.id /\ Network.id # ""  BY IdentityAssumption
<1>5. now + CredentialTTL \in Nat
  <2>1. CredentialTTL \in Nat  BY RegistrationAssumption
  <2> QED  BY <2>1, SumIsNat
<1>6. NodeCredentialSigningPayload(KeyIDOf[key], Network.id, id, scopes, now + CredentialTTL) # {}
  <2> HIDE DEF key, scopes
  <2> QED  BY <1>2, <1>3, <1>4 DEF NodeCredentialSigningPayload
<1>7. \E c : /\ credential = {c}
             /\ c.nodeID = id /\ c.networkID = Network.id /\ c.expiresAt = now + CredentialTTL
             /\ c.algorithm = nodeCredentialAlgorithm /\ c.version = nodeCredentialVersion
             /\ c.keyID = KeyIDOf[key]
  <2> DEFINE payload(k) == NodeCredentialSigningPayload(k, Network.id, id, scopes, now + CredentialTTL)
             claims(k) == [version   |-> nodeCredentialVersion,
                           keyID     |-> k,
                           algorithm |-> nodeCredentialAlgorithm,
                           networkID |-> TrimSpace[Network.id],
                           nodeID    |-> TrimSpace[id],
                           scopes    |-> CleanCredentialScopes(scopes),
                           expiresAt |-> now + CredentialTTL,
                           signature |-> KeySignature(key, payload(k))]
  <2>1. credential = {claims(k) : k \in {k \in SigningKeyID(key) : payload(k) # {}}}
    BY DEF SignNodeCredential
  <2>2. {k \in SigningKeyID(key) : payload(k) # {}} = {KeyIDOf[key]}
    <3> HIDE DEF key, scopes
    <3> QED  BY <1>2, <1>6
  <2>3. credential = {claims(KeyIDOf[key])}
    <3> HIDE DEF key, scopes, claims, payload, credential
    <3> QED  BY <2>1, <2>2
  <2>4. /\ claims(KeyIDOf[key]).nodeID = id /\ claims(KeyIDOf[key]).networkID = Network.id
        /\ claims(KeyIDOf[key]).expiresAt = now + CredentialTTL
        /\ claims(KeyIDOf[key]).algorithm = nodeCredentialAlgorithm
        /\ claims(KeyIDOf[key]).version = nodeCredentialVersion
        /\ claims(KeyIDOf[key]).keyID = KeyIDOf[key]
    <3> HIDE DEF key, scopes, payload
    <3> QED  BY <1>4
  <2> HIDE DEF claims, credential
  <2> QED  BY <2>3, <2>4
<1> DEFINE base ==
      [schemaVersion       |-> SchemaVersion,
       idempotencyID       |-> req.idempotencyID,
       networkID           |-> Network.id,
       node                |-> [id                |-> id,
                                networkID         |-> Network.id,
                                identityPublicKey |-> req.identityPublicKey,
                                publicKey         |-> req.publicKey,
                                deviceFingerprint |-> req.deviceFingerprint],
       registrationBinding |-> {RegistrationIdentityProofBinding(req)},
       nodeCredential      |-> credential,
       mapSignature        |-> {},
       attrs               |-> req.attrs]
<1>8. r = [base EXCEPT !.mapSignature = SignMap(key, base, now, MapTTL)]  BY DEF Result
<1>9. SignMap(key, base, now, MapTTL) # {}
  <2> HIDE DEF key, base
  <2> QED  BY <1>2 DEF SignMap
<1>10. /\ r.schemaVersion = SchemaVersion /\ r.idempotencyID = req.idempotencyID
       /\ r.networkID = Network.id
       /\ r.node.id = id /\ r.node.networkID = Network.id
       /\ r.node.identityPublicKey = req.identityPublicKey
       /\ r.node.publicKey = req.publicKey
       /\ r.node.deviceFingerprint = req.deviceFingerprint
       /\ r.registrationBinding = {RegistrationIdentityProofBinding(req)}
       /\ r.nodeCredential = credential
       /\ r.mapSignature # {}
       /\ r.attrs = req.attrs
  <2> DEFINE signature == SignMap(key, base, now, MapTTL)
  <2>1. r = [base EXCEPT !.mapSignature = signature] /\ signature # {}  BY <1>8, <1>9
  <2>2. \A f \in DOMAIN base \ {"mapSignature"} : r[f] = base[f]
    <3> HIDE DEF base, signature
    <3> QED  BY <2>1
  <2>3. DOMAIN base = {"schemaVersion", "idempotencyID", "networkID", "node", "registrationBinding",
                       "nodeCredential", "mapSignature", "attrs"}
    OBVIOUS
  <2>4. r.mapSignature # {}
    <3> HIDE DEF base, signature
    <3> QED  BY <2>1, <2>3
  <2>5. /\ r.schemaVersion = base.schemaVersion /\ r.idempotencyID = base.idempotencyID
        /\ r.networkID = base.networkID /\ r.node = base.node
        /\ r.registrationBinding = base.registrationBinding
        /\ r.nodeCredential = base.nodeCredential /\ r.attrs = base.attrs
    <3> HIDE DEF base
    <3> QED  BY <2>2, <2>3
  <2>6. /\ base.schemaVersion = SchemaVersion /\ base.idempotencyID = req.idempotencyID
        /\ base.networkID = Network.id /\ base.attrs = req.attrs
        /\ base.registrationBinding = {RegistrationIdentityProofBinding(req)}
        /\ base.nodeCredential = credential
    <3> HIDE DEF credential
    <3> QED  OBVIOUS
  <2>7. /\ base.node.id = id /\ base.node.networkID = Network.id
        /\ base.node.identityPublicKey = req.identityPublicKey
        /\ base.node.publicKey = req.publicKey
        /\ base.node.deviceFingerprint = req.deviceFingerprint
    <3> HIDE DEF credential
    <3> QED  OBVIOUS
  <2> HIDE DEF key, credential, base
  <2> QED  BY <2>4, <2>5, <2>6, <2>7
<1>11. \E c : r.nodeCredential = {c} /\ c.nodeID = id /\ c.expiresAt \in Nat
  <2> HIDE DEF credential, key
  <2> QED  BY <1>5, <1>7, <1>10
<1>12. ASSUME ValidRegisterNodeRequest(req) PROVE ValidRegisterNodeResponse(r)
  <2>1. ValidateDigest(r.registrationBinding, TRUE)
    BY <1>10 DEF ValidateDigest, RegistrationIdentityProofBinding, Digest, Other
  <2>2. \E claims \in DecodeNodeCredential(r.nodeCredential) :
          claims.networkID = TrimSpace[r.networkID] /\ claims.nodeID = TrimSpace[r.node.id]
    <3> HIDE DEF credential, key
    <3> QED  BY <1>2, <1>4, <1>7, <1>10 DEF DecodeNodeCredential
  <2> HIDE DEF credential, key, base
  <2> QED  BY <1>4, <1>10, <1>12, <2>1, <2>2 DEF ValidRegisterNodeResponse, ValidRegisterNodeRequest
<1> HIDE DEF credential, key, base
<1>13. ASSUME ValidRegisterNodeRequest(req), req.networkID # "" => req.networkID = Network.id
       PROVE  ValidateForRequest(r, req)
  <2>1. SameOperation(r, req) /\ SameNetwork(r, req) /\ SameNode(r, req)
    BY <1>10, <1>13 DEF SameOperation, SameNetwork, SameNode
  <2> QED  BY <1>12, <1>13, <2>1 DEF ValidateForRequest
<1>14. IsResultFor(r, req, id)  BY <1>10, <1>11 DEF IsResultFor
<1> QED  BY <1>12, <1>13, <1>14

-----------------------------------------------------------------------------
(* Requests *)

\* Signing a signed request again gives the same request.
LEMMA SignedIsSettled ==
  ASSUME NEW req, DOMAIN req = RequestFields,
         NEW p, p = SetRegisterNodeIdentityProof(req, Device.identityPublicKey),
         p.attrs \in Endpoints
  PROVE  Settled(p)
<1> DEFINE key == Device.identityPublicKey
           named == [req EXCEPT !.identityPublicKey = key]
           signature == {KeySignature(key, RegistrationIdentityProofPayload(named))}
<1>1. p = [named EXCEPT !.identitySignature = signature]  BY DEF SetRegisterNodeIdentityProof
<1>2. DOMAIN named = RequestFields /\ named.identityPublicKey = key  BY DEF RequestFields
<1>3. /\ DOMAIN p = RequestFields
      /\ p.identityPublicKey = key /\ p.identitySignature = signature
      /\ \A f \in RequestFields \ {"identitySignature"} : p[f] = named[f]
      /\ p = [f \in RequestFields |-> p[f]]
  <2> HIDE DEF named, signature
  <2> QED  BY <1>1, <1>2 DEF RequestFields
<1>4. RegistrationIdentityProofPayload(p) = RegistrationIdentityProofPayload(named)
  <2>1. /\ p.schemaVersion = named.schemaVersion /\ p.idempotencyID = named.idempotencyID
        /\ p.networkID = named.networkID /\ p.networkName = named.networkName
        /\ p.joinToken = named.joinToken /\ p.nodeCredential = named.nodeCredential
        /\ p.registrationBinding = named.registrationBinding
        /\ p.sessionTokenBinding = named.sessionTokenBinding
        /\ p.identityPublicKey = named.identityPublicKey /\ p.publicKey = named.publicKey
        /\ p.deviceFingerprint = named.deviceFingerprint /\ p.attrs = named.attrs
    <3> HIDE DEF named, signature
    <3> QED  BY <1>3 DEF RequestFields
  <2> HIDE DEF named, signature
  <2> QED  BY <2>1 DEF RegistrationIdentityProofPayload
<1>5. ASSUME NEW f \in RequestFields PROVE [p EXCEPT ![f] = p[f]] = p
  <2> HIDE DEF named, signature
  <2> QED  BY <1>3
<1>6. [p EXCEPT !.attrs = p.attrs] = p  BY <1>5 DEF RequestFields
<1>7. [p EXCEPT !.identityPublicKey = key] = p
  <2>1. [p EXCEPT !.identityPublicKey = p.identityPublicKey] = p  BY <1>5 DEF RequestFields
  <2> QED  BY <1>3, <2>1
<1>8. [p EXCEPT !.identitySignature = signature] = p
  <2>1. [p EXCEPT !.identitySignature = p.identitySignature] = p  BY <1>5 DEF RequestFields
  <2> HIDE DEF signature
  <2> QED  BY <1>3, <2>1
<1>9. SetRegisterNodeIdentityProof(p, key) = p
  <2>1. SetRegisterNodeIdentityProof(p, key) =
          [p EXCEPT !.identitySignature = {KeySignature(key, RegistrationIdentityProofPayload(p))}]
    <3> HIDE DEF key, named, signature
    <3> QED  BY <1>7 DEF SetRegisterNodeIdentityProof
  <2> QED  BY <1>4, <1>8, <2>1
<1> QED
  <2> HIDE DEF named, signature
  <2> QED  BY <1>6, <1>9 DEF Settled

\* What Begin saves.
LEMMA NewRequestSettled ==
  ASSUME NEW auth, NEW credential, NEW binding, NEW attrs \in Endpoints
  PROVE  /\ Settled(NewRequest(auth, credential, binding, attrs))
         /\ NewRequest(auth, credential, binding, attrs).idempotencyID = OperationIDs[operations + 1]
<1> DEFINE req ==
      [schemaVersion       |-> SchemaVersion,
       idempotencyID       |-> OperationIDs[operations + 1],
       networkID           |-> auth.networkID,
       networkName         |-> auth.networkName,
       joinToken           |-> auth.joinToken,
       nodeCredential      |-> credential,
       registrationBinding |-> binding,
       sessionTokenBinding |-> SecretBinding(auth.session),
       identityPublicKey   |-> "",
       publicKey           |-> Device.publicKey,
       deviceFingerprint   |-> Device.deviceFingerprint,
       attrs               |-> attrs,
       identitySignature   |-> {}]
       p == NewRequest(auth, credential, binding, attrs)
<1>1. DOMAIN req = RequestFields /\ req.attrs = attrs /\ req.idempotencyID = OperationIDs[operations + 1]
  BY DEF RequestFields
<1>2. p = SetRegisterNodeIdentityProof(req, Device.identityPublicKey)  BY DEF NewRequest
<1>3. p.attrs = req.attrs /\ p.idempotencyID = req.idempotencyID
  <2> DEFINE named == [req EXCEPT !.identityPublicKey = Device.identityPublicKey]
  <2>1. PICK x : p = [named EXCEPT !.identitySignature = x]
    BY <1>2 DEF SetRegisterNodeIdentityProof
  <2>2. DOMAIN named = RequestFields /\ named.attrs = req.attrs /\ named.idempotencyID = req.idempotencyID
    <3> HIDE DEF req
    <3> QED  BY <1>1 DEF RequestFields
  <2> HIDE DEF named, req, p
  <2> QED  BY <2>1, <2>2 DEF RequestFields
<1> HIDE DEF req, p
<1>4. Settled(p)  BY <1>1, <1>2, <1>3, SignedIsSettled
<1> QED  BY <1>1, <1>3, <1>4 DEF p

-----------------------------------------------------------------------------
(* The device's steps *)

LEMMA InitRInv == Init => RInv
<1> SUFFICES ASSUME Init PROVE RInv  OBVIOUS
<1>1. /\ enrolled = {} /\ pending = {} /\ call = {} /\ operations = 0 /\ sent = {}
      /\ results = {} /\ nodes = {} /\ signer = 1 /\ now = 0
  BY DEF Init
<1>2. IDs = {} /\ Made = 0  BY <1>1, FS_EmptySet DEF IDs, Made
<1>3. IDsSound
  <2>1. Len(NodeIDs) \in Nat  BY RegistrationAssumption
  <2>2. {NodeIDs[i] : i \in 1 .. 0} = {}  OBVIOUS
  <2>3. 0 \in 0 .. Len(NodeIDs)  BY <2>1
  <2> QED  BY <1>2, <2>2, <2>3, FS_EmptySet DEF IDsSound
<1>4. NodesSound
  <2>1. Len(SigningKeys) \in Nat /\ Len(SigningKeys) >= 1
    BY RegistrationAssumption, IdentityAssumption
  <2>2. 1 \in 1 .. Len(SigningKeys)  BY <2>1
  <2> QED  BY <1>1, <2>2 DEF NodesSound
<1>5. RequestsSound
  <2>1. Len(OperationIDs) \in Nat  BY RegistrationAssumption
  <2>2. 0 <= Len(OperationIDs)  BY <2>1
  <2> QED  BY <1>1, <2>2 DEF RequestsSound, AtMostOne
<1> QED
  BY <1>1, <1>3, <1>4, <1>5 DEF RInv, CallsSound, Unfinished, ResultIsCurrent, Recoverable

\* The control plane's half of the invariant, when it does nothing.
LEMMA ProducerSame ==
  ASSUME RInv, UNCHANGED <<results, nodes, signer, now>>
  PROVE  /\ IDs' = IDs
         /\ IDsSound' /\ NodesSound'
         /\ \A credential : SoundCredential(credential)' <=> SoundCredential(credential)
         /\ \A req : ResultsFor(req)' = ResultsFor(req)
<1>1. IDs' = IDs /\ Made' = Made  BY DEF IDs, Made
<1>2. \A credential : SoundCredential(credential)' <=> SoundCredential(credential)
  BY <1>1 DEF SoundCredential
<1>3. IDsSound'  BY <1>1 DEF RInv, IDsSound
<1>4. NodesSound'  BY <1>1, <1>2 DEF RInv, NodesSound
<1> QED  BY <1>1, <1>2, <1>3, <1>4 DEF ResultsFor

\* Calls come and go, the saved request stays.
LEMMA CallKeeps ==
  ASSUME RInv, CallsSound', UNCHANGED <<enrolled, pending, operations, results, nodes, signer, now>>,
         sent \subseteq sent', sent' \subseteq sent \cup pending
  PROVE  RInv'
<1>1. IDsSound' /\ NodesSound'
      /\ (\A credential : SoundCredential(credential)' <=> SoundCredential(credential))
      /\ \A req : ResultsFor(req)' = ResultsFor(req)
  BY ProducerSame
<1>2. RequestsSound'
  BY <1>1 DEF RInv, RequestsSound, AtMostOne, Generated, Settled
<1>3. Unfinished'  BY <1>1 DEF RInv, Unfinished
<1>4. ResultIsCurrent' /\ Recoverable'  BY DEF RInv, ResultIsCurrent, Recoverable
<1> QED  BY <1>1, <1>2, <1>3, <1>4 DEF RInv

\* A new operation: nothing is saved, so what the control plane has is what the device has.
LEMMA BeginRecovers ==
  ASSUME RInv, NEW auth, NEW credential, NEW binding, Begin(auth, credential, binding),
         credential = {} \/ SoundCredential(credential)
  PROVE  RInv'
<1>1. PICK attrs \in Endpoints : Save(NewRequest(auth, credential, binding, attrs))  BY DEF Begin
<1>2. PICK req : /\ req = NewRequest(auth, credential, binding, attrs)
                 /\ Settled(req) /\ req.idempotencyID = OperationIDs[operations + 1]
                 /\ req.nodeCredential = credential
  BY NewRequestSettled, NewRequestIsOwn
<1>3. /\ pending = {} /\ call = {} /\ operations < Len(OperationIDs)
      /\ pending' = {req} /\ operations' = operations + 1
      /\ UNCHANGED <<call, sent, enrolled, results, nodes, signer, now>>
  BY <1>1, <1>2 DEF Begin, Save, producer
<1>4. IDsSound' /\ NodesSound'
      /\ (\A c : SoundCredential(c)' <=> SoundCredential(c))
      /\ \A x : ResultsFor(x)' = ResultsFor(x)
  BY <1>3, ProducerSame
<1>5. operations \in Nat /\ operations + 1 \in 1 .. operations + 1 /\ operations + 1 <= Len(OperationIDs)
  <2>1. operations \in Nat /\ Len(OperationIDs) \in Nat  BY RegistrationAssumption DEF RInv, RequestsSound
  <2> QED  BY <1>3, <2>1
<1>6. \A id : Generated(id) => Generated(id)'
  <2>1. \A i \in 1 .. operations : i \in 1 .. operations + 1  BY <1>5
  <2> QED  BY <1>3, <2>1 DEF Generated
<1>7. Generated(req.idempotencyID)'  BY <1>2, <1>3, <1>5 DEF Generated
<1>8. RequestsSound'
  <2>1. operations' \in Nat /\ operations' <= Len(OperationIDs)  BY <1>3, <1>5
  <2>2. \A p \in pending' : Settled(p)'  BY <1>2, <1>3 DEF Settled
  <2>3. \A x \in pending' \cup sent' :
          Generated(x.idempotencyID)' /\ (x.nodeCredential = {} \/ SoundCredential(x.nodeCredential)')
    BY <1>2, <1>3, <1>4, <1>6, <1>7 DEF RInv, RequestsSound
  <2>4. \A r \in results' : Generated(r.idempotencyID)'  BY <1>3, <1>6 DEF RInv, RequestsSound
  <2>5. AtMostOne(pending)'  BY <1>3 DEF AtMostOne
  <2> QED  BY <2>1, <2>2, <2>3, <2>4, <2>5 DEF RequestsSound
<1>9. Unfinished'  BY <1>3, <1>4 DEF RInv, Unfinished
<1>10. \A r \in results : r.idempotencyID # req.idempotencyID
  <2> SUFFICES ASSUME NEW r \in results, r.idempotencyID = OperationIDs[operations + 1] PROVE FALSE
    BY <1>2
  <2>1. PICK i \in 1 .. operations : r.idempotencyID = OperationIDs[i]
    BY DEF RInv, RequestsSound, Generated
  <2>2. i \in 1 .. Len(OperationIDs) /\ operations + 1 \in 1 .. Len(OperationIDs) /\ i # operations + 1
    <3>1. Len(OperationIDs) \in Nat  BY RegistrationAssumption
    <3> QED  BY <1>5, <2>1, <3>1
  <2> QED  BY <2>1, <2>2, IdentityAssumption
<1>11. ResultIsCurrent'  BY <1>3, <1>10 DEF ResultIsCurrent
<1>12. Recoverable'  BY <1>3 DEF RInv, Recoverable
<1>13. CallsSound'  BY <1>3 DEF CallsSound
<1> QED  BY <1>4, <1>8, <1>9, <1>11, <1>12, <1>13 DEF RInv

\* A committed result is the newest one.
LEMMA CommitRecovers ==
  ASSUME RInv, NEW r \in results, NEW c \in call, NEW req \in c.request, Committable(r, req),
         enrolled' = {r}, pending' = {}, call' = {},
         UNCHANGED <<operations, sent, results, nodes, signer, now>>
  PROVE  RInv'
<1>1. IDsSound' /\ NodesSound'
      /\ (\A x : SoundCredential(x)' <=> SoundCredential(x))
      /\ \A x : ResultsFor(x)' = ResultsFor(x)
  BY ProducerSame
<1>2. req \in pending /\ pending = {req}  BY DEF RInv, CallsSound, RequestsSound, AtMostOne
<1>3. r.idempotencyID = req.idempotencyID  BY DEF Committable, ValidateForRequest, SameOperation
<1>4. r \in ResultsFor(req)  BY <1>3 DEF ResultsFor
<1>5. RequestsSound'  BY <1>1 DEF RInv, RequestsSound, AtMostOne, Generated
<1>6. Unfinished'  BY <1>1, <1>2, <1>4 DEF RInv, Unfinished
<1>7. Recoverable'  BY <1>2, <1>3 DEF RInv, ResultIsCurrent, Recoverable
<1> QED  BY <1>1, <1>5, <1>6, <1>7 DEF RInv, CallsSound, ResultIsCurrent

\* A cleared enrollment leaves no request that could still be processed.
LEMMA ClearRecovers ==
  ASSUME RInv, enrolled' = {}, pending' = {}, call' = {},
         \A p \in pending : p.nodeCredential # {} /\ Gone(nodes, now, p.nodeCredential),
         UNCHANGED <<operations, sent, results, nodes, signer, now>>
  PROVE  RInv'
<1>1. IDsSound' /\ NodesSound'
      /\ (\A x : SoundCredential(x)' <=> SoundCredential(x))
      /\ \A x : ResultsFor(x)' = ResultsFor(x)
  BY ProducerSame
<1>2. RequestsSound'  BY <1>1 DEF RInv, RequestsSound, AtMostOne, Generated
<1>3. Unfinished'  BY <1>1 DEF RInv, Unfinished
<1> QED  BY <1>1, <1>2, <1>3 DEF RInv, CallsSound, ResultIsCurrent, Recoverable

-----------------------------------------------------------------------------
(* The control plane's steps *)

\* A new id is one more.
LEMMA FreshID ==
  ASSUME IDsSound, Made < Len(NodeIDs), NEW r, r.node.id = NodeIDs[Made + 1], results' = results \cup {r}
  PROVE  /\ NodeIDs[Made + 1] \notin IDs /\ IDs' = IDs \cup {NodeIDs[Made + 1]} /\ IDsSound'
         /\ TrimSpace[NodeIDs[Made + 1]] = NodeIDs[Made + 1] /\ NodeIDs[Made + 1] # ""
<1>1. Made \in Nat /\ Len(NodeIDs) \in Nat /\ Made + 1 \in 1 .. Len(NodeIDs)
  <2>1. Len(NodeIDs) \in Nat  BY RegistrationAssumption
  <2> QED  BY <2>1 DEF IDsSound
<1>2. ASSUME NodeIDs[Made + 1] \in IDs PROVE FALSE
  <2>1. PICK i \in 1 .. Made : NodeIDs[Made + 1] = NodeIDs[i]  BY <1>2 DEF IDsSound
  <2>2. i \in 1 .. Len(NodeIDs) /\ i # Made + 1  BY <1>1, <2>1
  <2> QED  BY <1>1, <2>1, <2>2, IdentityAssumption
<1>3. IDs' = IDs \cup {NodeIDs[Made + 1]}  BY DEF IDs
<1>4. Made = Cardinality(IDs) /\ Made' = Cardinality(IDs')  BY DEF Made, IDs
<1>5. IsFiniteSet(IDs') /\ Made' = Made + 1
  <2>1. IsFiniteSet(IDs)  BY DEF IDsSound
  <2> QED  BY <1>2, <1>3, <1>4, <2>1, FS_AddElement
<1>6. {NodeIDs[i] : i \in 1 .. Made + 1} = {NodeIDs[i] : i \in 1 .. Made} \cup {NodeIDs[Made + 1]}
  <2>1. 1 .. Made + 1 = (1 .. Made) \cup {Made + 1}  BY <1>1
  <2> QED  BY <2>1
<1>7. IDs' = {NodeIDs[i] : i \in 1 .. Made'}  BY <1>3, <1>5, <1>6 DEF IDsSound
<1>8. Made' \in 0 .. Len(NodeIDs)  BY <1>1, <1>5
<1>9. IDsSound'  BY <1>5, <1>7, <1>8 DEF IDsSound
<1> QED  BY <1>1, <1>2, <1>3, <1>9, IdentityAssumption

\* The saved request is processed: its result and the node's new credential.
LEMMA ResultRecovers ==
  ASSUME RInv, NEW req \in pending, ResultsFor(req) = {},
         NEW r, NEW id, NEW keep \in SUBSET nodes,
         IsResultFor(r, req, id),
         results' = results \cup {r}, nodes' = keep \cup {NodeOf(r)},
         IDs' = IDs \cup {id}, IDsSound',
         \A n \in keep : n.id # id,
         \A credential : SoundCredential(credential) /\ Gone(nodes, now, credential)
                           => Gone(nodes', now, credential),
         enrolled # {} => ValidateForRequest(r, req),
         UNCHANGED <<enrolled, pending, call, operations, sent, signer, now>>
  PROVE  RInv'
<1>0. /\ r.idempotencyID = req.idempotencyID
      /\ r.node.id = id /\ r.networkID = Network.id
      /\ \E c : r.nodeCredential = {c} /\ c.nodeID = id /\ c.expiresAt \in Nat
  BY DEF IsResultFor
<1> DEFINE m == NodeOf(r)
<1>1. /\ DOMAIN m = NodeFields /\ m.id = id /\ m.networkID = Network.id
      /\ m.credential = r.nodeCredential /\ m.revoked = FALSE
  BY <1>0 DEF NodeOf, NodeFields
<1> HIDE DEF m
<1>2. nodes' = keep \cup {m}  BY DEF m
<1>3. \A credential : SoundCredential(credential) => SoundCredential(credential)'
  BY DEF SoundCredential
<1>4. SoundCredential(r.nodeCredential)'  BY <1>0 DEF SoundCredential
<1>5. NodesSound'
  <2>1. \A n \in nodes' : /\ DOMAIN n = NodeFields
                          /\ n.id \in IDs' /\ n.networkID = Network.id
                          /\ n.credential # {}
                          /\ \A c \in n.credential : c.nodeID = n.id
    BY <1>0, <1>1, <1>2 DEF RInv, NodesSound
  <2>2. \A n, k \in nodes' : n.id = k.id => n = k  BY <1>1, <1>2 DEF RInv, NodesSound
  <2>3. \A x \in results' : SoundCredential(x.nodeCredential)'  BY <1>3, <1>4 DEF RInv, NodesSound
  <2> QED  BY <2>1, <2>2, <2>3 DEF RInv, NodesSound
<1>6. RequestsSound'
  <2>1. \A x \in results' : Generated(x.idempotencyID)'  BY <1>0 DEF RInv, RequestsSound, Generated
  <2>2. \A x \in pending' \cup sent' :
          Generated(x.idempotencyID)' /\ (x.nodeCredential = {} \/ SoundCredential(x.nodeCredential)')
    BY <1>3 DEF RInv, RequestsSound, Generated
  <2>3. \A p \in pending' : Settled(p)'  BY DEF RInv, RequestsSound, Settled
  <2> QED  BY <2>1, <2>2, <2>3 DEF RInv, RequestsSound, AtMostOne
<1>7. CallsSound'  BY DEF RInv, CallsSound
<1>8. Unfinished'
  <2>1. \A x : ResultsFor(x) \subseteq ResultsFor(x)'  BY DEF ResultsFor
  <2>2. \A x \in sent : x.nodeCredential # {} => SoundCredential(x.nodeCredential)
    BY DEF RInv, RequestsSound
  <2> SUFFICES ASSUME NEW x \in sent, ResultsFor(x)' = {}, x \notin pending
               PROVE  x.nodeCredential # {} /\ Gone(nodes', now, x.nodeCredential)
    BY DEF Unfinished
  <2>3. ResultsFor(x) = {}  BY <2>1
  <2>4. x.nodeCredential # {} /\ Gone(nodes, now, x.nodeCredential)  BY <2>3 DEF RInv, Unfinished
  <2> QED  BY <2>2, <2>4
<1>9. ResultIsCurrent'
  <2> SUFFICES ASSUME NEW q \in pending, NEW x \in results', NEW n \in nodes',
                      x.idempotencyID = q.idempotencyID, n.id = x.node.id
               PROVE  n.credential = x.nodeCredential
    BY DEF ResultIsCurrent
  <2>1. q = req  BY DEF RInv, RequestsSound, AtMostOne
  <2>2. x = r  BY <2>1 DEF ResultsFor
  <2> QED  BY <1>0, <1>1, <1>2, <2>2
<1>10. Recoverable'
  <2> SUFFICES ASSUME NEW e \in enrolled, NEW n \in nodes', n.id = e.node.id,
                      n.credential # e.nodeCredential
               PROVE  \E q \in pending, x \in results' :
                        x.nodeCredential = n.credential /\ ValidateForRequest(x, q)
    BY DEF Recoverable
  <2>1. CASE n = m  BY <1>1, <2>1
  <2>2. CASE n # m
    <3>1. n \in nodes  BY <1>2, <2>2
    <3>2. PICK q \in pending, x \in results :
            x.nodeCredential = n.credential /\ ValidateForRequest(x, q)
      BY <3>1 DEF RInv, Recoverable
    <3> QED  BY <3>2
  <2> QED  BY <2>1, <2>2
<1> QED  BY <1>5, <1>6, <1>7, <1>8, <1>9, <1>10 DEF RInv

LEMMA ProcessRecovers ==
  ASSUME IInv, RInv, Process
  PROVE  RInv'
<1>1. PICK req \in sent :
        /\ ValidRegisterNodeRequest(req) /\ ResultsFor(req) = {}
        /\ \/ /\ ~IsCredentialRenewal(req)
              /\ Made < Len(NodeIDs)
              /\ results' = results \cup {Result(req, NodeIDs[Made + 1], req)}
              /\ nodes' = nodes \cup {NodeOf(Result(req, NodeIDs[Made + 1], req))}
           \/ \E n \in RenewedNode(req) :
                /\ results' = results \cup {Result(req, n.id, req)}
                /\ nodes' = (nodes \ {n}) \cup {NodeOf(Result(req, n.id, req))}
  BY DEF Process
<1>2. UNCHANGED <<enrolled, pending, call, operations, sent, signer, now>>  BY DEF Process, disk
<1>3. now \in Nat /\ signer \in 1 .. Len(SigningKeys)  BY DEF RInv, NodesSound
<1>4. ASSUME ~IsCredentialRenewal(req), Made < Len(NodeIDs),
             results' = results \cup {Result(req, NodeIDs[Made + 1], req)},
             nodes' = nodes \cup {NodeOf(Result(req, NodeIDs[Made + 1], req))}
      PROVE  RInv'
  <2>1. PICK r, id : r = Result(req, id, req) /\ id = NodeIDs[Made + 1]  OBVIOUS
  <2>2. Made + 1 \in 1 .. Len(NodeIDs)
    <3>1. Len(NodeIDs) \in Nat  BY RegistrationAssumption
    <3>2. Made \in 0 .. Len(NodeIDs)  BY DEF RInv, IDsSound
    <3> QED  BY <1>4, <3>1, <3>2
  <2>3. TrimSpace[id] = id /\ id # ""  BY <2>1, <2>2, IdentityAssumption
  <2>4. IsResultFor(r, req, id)  BY <1>3, <2>1, <2>3, ResultSound
  <2>5. results' = results \cup {r} /\ nodes' = nodes \cup {NodeOf(r)}  BY <1>4, <2>1
  <2>6. id \notin IDs /\ IDs' = IDs \cup {id} /\ IDsSound'
    BY <1>4, <2>1, <2>4, <2>5, FreshID DEF RInv, IsResultFor
  <2>7. \A n \in nodes : n.id # id  BY <2>6 DEF RInv, NodesSound
  <2>8. req \in pending  BY <1>1, <1>4 DEF RInv, Unfinished, IsCredentialRenewal
  <2>9. enrolled = {}
    <3> SUFFICES ASSUME NEW e \in enrolled PROVE FALSE  OBVIOUS
    <3>1. req.nodeCredential = e.nodeCredential /\ e \in results
      BY <2>8 DEF IInv, OneCredential, CommittedResult
    <3>2. SoundCredential(e.nodeCredential)  BY <3>1 DEF RInv, NodesSound
    <3> QED  BY <1>4, <3>1, <3>2 DEF SoundCredential, IsCredentialRenewal
  <2>10. NodeOf(r).id = id  BY <2>4 DEF NodeOf, IsResultFor
  <2>11. ASSUME NEW credential, SoundCredential(credential), Gone(nodes, now, credential)
         PROVE  Gone(nodes', now, credential)
    <3>1. PICK c : credential = {c} /\ c.nodeID \in IDs  BY <2>11 DEF SoundCredential
    <3>2. c.nodeID # id  BY <2>6, <3>1
    <3> QED  BY <2>5, <2>10, <2>11, <3>1, <3>2 DEF Gone
  <2>12. nodes \in SUBSET nodes  OBVIOUS
  <2> QED  BY <1>1, <1>2, <2>4, <2>5, <2>6, <2>7, <2>8, <2>9, <2>11, <2>12, ResultRecovers
<1>5. ASSUME NEW n \in RenewedNode(req), results' = results \cup {Result(req, n.id, req)},
             nodes' = (nodes \ {n}) \cup {NodeOf(Result(req, n.id, req))}
      PROVE  RInv'
  <2>1. PICK r, id : r = Result(req, id, req) /\ id = n.id  OBVIOUS
  <2>2. /\ n \in nodes /\ n.credential = req.nodeCredential /\ n.networkID = req.networkID
        /\ CredentialVerdict(req.nodeCredential, nodeCredentialScopeRegister) = "accepted"
    BY <1>5 DEF RenewedNode
  <2>3. ~Gone(nodes, now, req.nodeCredential)  BY <2>2, VerdictMeans
  <2>4. /\ id \in IDs /\ n.networkID = Network.id /\ n.credential # {}
        /\ \A c \in n.credential : c.nodeID = n.id
    BY <2>1, <2>2 DEF RInv, NodesSound
  <2>5. ~n.revoked
    <3>1. PICK c \in n.credential : c.nodeID = n.id  BY <2>4
    <3> QED  BY <2>2, <2>3, <3>1 DEF Gone
  <2>6. TrimSpace[id] = id /\ id # ""
    <3>1. PICK i \in 1 .. Made : id = NodeIDs[i]  BY <2>4 DEF RInv, IDsSound
    <3>2. i \in 1 .. Len(NodeIDs)
      <4>1. Len(NodeIDs) \in Nat  BY RegistrationAssumption
      <4>2. Made \in 0 .. Len(NodeIDs)  BY DEF RInv, IDsSound
      <4> QED  BY <3>1, <4>1, <4>2
    <3> QED  BY <3>1, <3>2, IdentityAssumption
  <2>7. IsResultFor(r, req, id) /\ ValidateForRequest(r, req)
    BY <1>1, <1>3, <2>1, <2>2, <2>4, <2>6, ResultSound
  <2>8. results' = results \cup {r} /\ nodes' = (nodes \ {n}) \cup {NodeOf(r)}  BY <1>5, <2>1
  <2>9. IDs' = IDs  BY <2>4, <2>7, <2>8 DEF IDs, IsResultFor
  <2>10. IDsSound'
    <3>1. Made' = Made  BY <2>9 DEF Made, IDs
    <3> QED  BY <2>9, <3>1 DEF RInv, IDsSound
  <2>11. \A k \in nodes \ {n} : k.id # id  BY <2>1, <2>2 DEF RInv, NodesSound
  <2>12. req \in pending  BY <1>1, <2>3 DEF RInv, Unfinished
  <2>13. NodeOf(r).id = n.id  BY <2>1, <2>7 DEF NodeOf, IsResultFor
  <2>14. ASSUME NEW credential, Gone(nodes, now, credential)
         PROVE  Gone(nodes', now, credential)
    <3>1. CASE \A k \in nodes, c \in credential : k.id # c.nodeID
      BY <2>2, <2>8, <2>13, <3>1 DEF Gone
    <3>2. CASE \E k \in nodes, c \in credential : k.id = c.nodeID /\ k.revoked
      <4>1. PICK k \in nodes, c \in credential : k.id = c.nodeID /\ k.revoked  BY <3>2
      <4>2. k \in nodes'  BY <2>5, <2>8, <4>1
      <4> QED  BY <4>1, <4>2 DEF Gone
    <3>3. CASE \E c \in credential : now >= c.expiresAt  BY <3>3 DEF Gone
    <3> QED  BY <2>14, <3>1, <3>2, <3>3 DEF Gone
  <2>15. IDs' = IDs \cup {id} /\ nodes \ {n} \in SUBSET nodes  BY <2>4, <2>9
  <2> QED
    BY <1>1, <1>2, <2>7, <2>8, <2>10, <2>11, <2>12, <2>14, <2>15, ResultRecovers
<1> QED  BY <1>1, <1>4, <1>5

\* A node that was revoked or removed stays so, and time does not go back.
LEMMA WithdrawRecovers ==
  ASSUME RInv, NEW ns, NEW t, nodes' = ns, now' = t, t \in Nat, signer' \in 1 .. Len(SigningKeys),
         \A n \in ns : \E m \in nodes : /\ n.id = m.id /\ n.credential = m.credential
                                        /\ n.networkID = m.networkID /\ DOMAIN n = DOMAIN m,
         \A n, m \in ns : n.id = m.id => n = m,
         \A credential : SoundCredential(credential) /\ Gone(nodes, now, credential)
                           => Gone(ns, t, credential),
         UNCHANGED <<enrolled, pending, call, operations, sent, results>>
  PROVE  RInv'
<1>1. IDs' = IDs /\ Made' = Made  BY DEF IDs, Made
<1>2. \A credential : SoundCredential(credential)' <=> SoundCredential(credential)
  BY <1>1 DEF SoundCredential
<1>3. IDsSound'  BY <1>1 DEF RInv, IDsSound
<1>4. NodesSound'
  <2>1. \A n \in nodes' : /\ DOMAIN n = NodeFields
                          /\ n.id \in IDs' /\ n.networkID = Network.id
                          /\ n.credential # {}
                          /\ \A c \in n.credential : c.nodeID = n.id
    <3> SUFFICES ASSUME NEW n \in ns
                 PROVE  /\ DOMAIN n = NodeFields
                        /\ n.id \in IDs /\ n.networkID = Network.id
                        /\ n.credential # {}
                        /\ \A c \in n.credential : c.nodeID = n.id
      BY <1>1
    <3>1. PICK m \in nodes : /\ n.id = m.id /\ n.credential = m.credential
                             /\ n.networkID = m.networkID /\ DOMAIN n = DOMAIN m
      OBVIOUS
    <3> QED  BY <3>1 DEF RInv, NodesSound
  <2>2. \A r \in results' : SoundCredential(r.nodeCredential)'  BY <1>2 DEF RInv, NodesSound
  <2> QED  BY <2>1, <2>2 DEF NodesSound
<1>5. RequestsSound'  BY <1>2 DEF RInv, RequestsSound, AtMostOne, Generated, Settled
<1>6. CallsSound'  BY DEF RInv, CallsSound
<1>7. Unfinished'
  <2>1. \A x \in sent : x.nodeCredential # {} => SoundCredential(x.nodeCredential)
    BY DEF RInv, RequestsSound
  <2>2. \A x : ResultsFor(x)' = ResultsFor(x)  BY DEF ResultsFor
  <2> SUFFICES ASSUME NEW x \in sent, ResultsFor(x) = {}, x \notin pending
               PROVE  x.nodeCredential # {} /\ Gone(ns, t, x.nodeCredential)
    BY <2>2 DEF Unfinished
  <2>3. x.nodeCredential # {} /\ Gone(nodes, now, x.nodeCredential)  BY DEF RInv, Unfinished
  <2> QED  BY <2>1, <2>3
<1>8. ResultIsCurrent'
  <2> SUFFICES ASSUME NEW q \in pending, NEW x \in results, NEW n \in ns,
                      x.idempotencyID = q.idempotencyID, n.id = x.node.id
               PROVE  n.credential = x.nodeCredential
    BY DEF ResultIsCurrent
  <2>1. PICK m \in nodes : n.id = m.id /\ n.credential = m.credential  OBVIOUS
  <2> QED  BY <2>1 DEF RInv, ResultIsCurrent
<1>9. Recoverable'
  <2> SUFFICES ASSUME NEW e \in enrolled, NEW n \in ns, n.id = e.node.id,
                      n.credential # e.nodeCredential
               PROVE  \E q \in pending, x \in results :
                        x.nodeCredential = n.credential /\ ValidateForRequest(x, q)
    BY DEF Recoverable
  <2>1. PICK m \in nodes : n.id = m.id /\ n.credential = m.credential  OBVIOUS
  <2> QED  BY <2>1 DEF RInv, Recoverable
<1> QED  BY <1>3, <1>4, <1>5, <1>6, <1>7, <1>8, <1>9 DEF RInv

\* What Withdraw does to the nodes.
LEMMA WithdrawStep ==
  ASSUME RInv, Withdraw
  PROVE  RInv'
<1>1. PICK n \in nodes :
        \/ nodes' = (nodes \ {n}) \cup {[n EXCEPT !.revoked = TRUE]}
        \/ nodes' = nodes \ {n}
  BY DEF Withdraw
<1>2. UNCHANGED <<enrolled, pending, call, operations, sent, results, signer, now>>
  BY DEF Withdraw, disk
<1>3. now \in Nat /\ signer' \in 1 .. Len(SigningKeys)  BY <1>2 DEF RInv, NodesSound
<1>4. PICK m : m = [n EXCEPT !.revoked = TRUE]  OBVIOUS
<1>5. DOMAIN n = NodeFields  BY DEF RInv, NodesSound
<1>6. /\ m.id = n.id /\ m.credential = n.credential /\ m.networkID = n.networkID
      /\ DOMAIN m = DOMAIN n /\ m.revoked = TRUE
  BY <1>4, <1>5 DEF NodeFields
<1>7. nodes' = (nodes \ {n}) \cup {m} \/ nodes' = nodes \ {n}  BY <1>1, <1>4
<1>8. \A x \in nodes' : \E k \in nodes : /\ x.id = k.id /\ x.credential = k.credential
                                         /\ x.networkID = k.networkID /\ DOMAIN x = DOMAIN k
  BY <1>6, <1>7
<1>9. \A x, y \in nodes : x.id = y.id => x = y  BY DEF RInv, NodesSound
<1>10. \A x, y \in nodes' : x.id = y.id => x = y  BY <1>6, <1>7, <1>9
<1>11. ASSUME NEW credential, SoundCredential(credential), Gone(nodes, now, credential)
       PROVE  Gone(nodes', now, credential)
  <2>1. PICK c : credential = {c}  BY <1>11 DEF SoundCredential
  <2>2. CASE \A k \in nodes : k.id # c.nodeID  BY <1>6, <1>7, <2>1, <2>2 DEF Gone
  <2>3. CASE \E k \in nodes : k.id = c.nodeID /\ k.revoked
    <3>1. PICK k \in nodes : k.id = c.nodeID /\ k.revoked  BY <2>3
    <3>2. CASE k # n
      <4>1. k \in nodes'  BY <1>7, <3>2
      <4> QED  BY <2>1, <3>1, <4>1 DEF Gone
    <3>3. CASE k = n /\ nodes' = nodes \ {n}
      <4>1. \A x \in nodes' : x.id # c.nodeID  BY <1>9, <3>1, <3>3
      <4> QED  BY <2>1, <4>1 DEF Gone
    <3>4. CASE k = n /\ nodes' = (nodes \ {n}) \cup {m}
      <4>1. m \in nodes' /\ m.id = c.nodeID /\ m.revoked  BY <1>6, <3>1, <3>4
      <4> QED  BY <2>1, <4>1 DEF Gone
    <3> QED  BY <1>7, <3>2, <3>3, <3>4
  <2>4. CASE now >= c.expiresAt  BY <2>1, <2>4 DEF Gone
  <2> QED  BY <1>11, <2>1, <2>2, <2>3, <2>4 DEF Gone
<1> QED  BY <1>2, <1>3, <1>8, <1>10, <1>11, WithdrawRecovers

LEMMA TickStep ==
  ASSUME RInv, Tick
  PROVE  RInv'
<1>1. now \in Nat /\ signer \in 1 .. Len(SigningKeys) /\ \A n, m \in nodes : n.id = m.id => n = m
  BY DEF RInv, NodesSound
<1>2. /\ now' = now + 1
      /\ UNCHANGED <<enrolled, pending, call, operations, sent, results, nodes, signer>>
  BY DEF Tick, disk, producer
<1>3. now + 1 \in Nat  BY <1>1
<1>4. ASSUME NEW credential, SoundCredential(credential), Gone(nodes, now, credential)
      PROVE  Gone(nodes, now + 1, credential)
  <2>1. PICK c : credential = {c} /\ c.expiresAt \in Nat  BY <1>4 DEF SoundCredential
  <2>2. now >= c.expiresAt => now + 1 >= c.expiresAt  BY <1>1, <2>1
  <2> QED  BY <1>4, <2>1, <2>2 DEF Gone
<1>5. \A n \in nodes : \E m \in nodes : /\ n.id = m.id /\ n.credential = m.credential
                                        /\ n.networkID = m.networkID /\ DOMAIN n = DOMAIN m
  OBVIOUS
<1> QED  BY <1>1, <1>2, <1>3, <1>4, <1>5, WithdrawRecovers

LEMMA RotateStep ==
  ASSUME RInv, RotateKey
  PROVE  RInv'
<1>1. /\ now \in Nat /\ signer \in 1 .. Len(SigningKeys) /\ \A n, m \in nodes : n.id = m.id => n = m
  BY DEF RInv, NodesSound
<1>2. /\ signer < Len(SigningKeys) /\ signer' = signer + 1
      /\ UNCHANGED <<enrolled, pending, call, operations, sent, results, nodes, now>>
  BY DEF RotateKey, disk
<1>3. signer' \in 1 .. Len(SigningKeys)
  <2>1. Len(SigningKeys) \in Nat  BY RegistrationAssumption
  <2> QED  BY <1>1, <1>2, <2>1
<1>4. \A n \in nodes : \E m \in nodes : /\ n.id = m.id /\ n.credential = m.credential
                                        /\ n.networkID = m.networkID /\ DOMAIN n = DOMAIN m
  OBVIOUS
<1> QED  BY <1>1, <1>2, <1>3, <1>4, WithdrawRecovers

-----------------------------------------------------------------------------
(* Answers *)

\* A call that ends without effect.
LEMMA EndRecovers ==
  ASSUME RInv, EndCall, UNCHANGED <<operations, sent, results, nodes, signer, now>>
  PROVE  RInv'
<1>1. call' = {} /\ UNCHANGED <<enrolled, pending>>  BY DEF EndCall, disk
<1>2. CallsSound'  BY <1>1 DEF CallsSound
<1> QED  BY <1>1, <1>2, CallKeeps

LEMMA ReceiveRecovers ==
  ASSUME RInv, NEW r, ReceiveResult(r),
         \A c \in call : \A req \in c.request : Committable(r, req) => r \in results
  PROVE  RInv'
<1>1. PICK c \in call : \E req \in c.request :
        /\ IF Committable(r, req)
           THEN enrolled' = {r} /\ pending' = {} /\ call' = {}
           ELSE EndCall
        /\ UNCHANGED <<operations, sent, producer, now>>
  BY DEF ReceiveResult
<1>2. PICK req \in c.request :
        /\ IF Committable(r, req)
           THEN enrolled' = {r} /\ pending' = {} /\ call' = {}
           ELSE EndCall
        /\ UNCHANGED <<operations, sent, producer, now>>
  BY <1>1
<1>3. UNCHANGED <<operations, sent, results, nodes, signer, now>>  BY <1>2 DEF producer
<1>4. CASE Committable(r, req)
  <2>1. enrolled' = {r} /\ pending' = {} /\ call' = {} /\ r \in results  BY <1>2, <1>4
  <2> QED  BY <1>3, <1>4, <2>1, CommitRecovers
<1>5. CASE ~Committable(r, req)  BY <1>2, <1>3, <1>5, EndRecovers
<1> QED  BY <1>4, <1>5

\* A final error is about the credential of the saved request, and there is one in it.
LEMMA ErrorRecovers ==
  ASSUME IInv, RInv, ReceiveError
  PROVE  RInv'
<1>1. PICK c \in call : \E code \in Errors(c), message \in Diagnostics :
        \E body \in MarshalPublicError(PublicError(code, message, RequestIDs[1])) :
          HandleError(HTTPStatus(code), body)
  BY DEF ReceiveError
<1>2. PICK code \in Errors(c), message \in Diagnostics :
        \E body \in MarshalPublicError(PublicError(code, message, RequestIDs[1])) :
          HandleError(HTTPStatus(code), body)
  BY <1>1
<1>3. PICK body \in MarshalPublicError(PublicError(code, message, RequestIDs[1])) :
        HandleError(HTTPStatus(code), body)
  BY <1>2
<1>4. UNCHANGED <<operations, sent, results, nodes, signer, now>>  BY DEF ReceiveError, producer
<1>5. CASE EndCall  BY <1>4, <1>5, EndRecovers
<1>6. CASE ~EndCall
  <2>1. enrolled' = {} /\ pending' = {} /\ call' = {}  BY <1>3, <1>6, ClearedFor
  <2>2. PICK x \in body.value : x.errorCode \in FinalCodes  BY <1>3, <1>6, ClearedFor
  <2>3. x = PublicError(code, message, RequestIDs[1])  BY <1>3, <2>2 DEF MarshalPublicError
  <2>4. code \in FinalCodes  BY <2>2, <2>3 DEF PublicError
  <2>5. Final(c.credential)  BY <1>2, <2>4, FinalErrorIsVerdict
  <2>6. Gone(nodes, now, c.credential)  BY <2>5, VerdictMeans
  <2>7. ASSUME NEW p \in pending PROVE p.nodeCredential = c.credential /\ c.credential # {}
    <3>1. CASE c.kind = "node"
      <4>1. PICK e \in enrolled : TRUE  BY <3>1 DEF RInv, CallsSound
      <4>2. p.nodeCredential = e.nodeCredential /\ c.credential = e.nodeCredential /\ e \in results
        BY DEF IInv, OneCredential, CommittedResult
      <4>3. SoundCredential(e.nodeCredential)  BY <4>2 DEF RInv, NodesSound
      <4> QED  BY <4>2, <4>3 DEF SoundCredential
    <3>2. CASE c.kind # "node"
      <4>1. PICK req \in c.request : req.nodeCredential # {}
        BY <1>2, <2>4, <3>2, FinalIsRenewal
      <4>2. req = p /\ c.credential = req.nodeCredential
        BY DEF RInv, CallsSound, RequestsSound, AtMostOne
      <4> QED  BY <4>1, <4>2
    <3> QED  BY <3>1, <3>2
  <2> QED  BY <1>4, <2>1, <2>6, <2>7, ClearRecovers
<1> QED  BY <1>5, <1>6

LEMMA ForeignErrorRecovers ==
  ASSUME RInv, ReceiveForeignError
  PROVE  RInv'
<1>1. PICK c \in call, code \in KnownErrorCodes \cup {"made_up"}, id \in {RequestIDs[1], RequestIDs[2]},
           status \in {401, 409}, message \in Diagnostics :
        /\ code \notin KnownErrorCodes \/ id # RequestIDs[1] \/ status # HTTPStatus(code)
        /\ HandleError(status, [bytes |-> FixedErrorBytes, value |-> {PublicError(code, message, id)}])
        /\ UNCHANGED <<operations, sent, producer, now>>
  BY DEF ReceiveForeignError
<1>2. UNCHANGED <<operations, sent, results, nodes, signer, now>>  BY <1>1 DEF producer
<1> DEFINE body == [bytes |-> FixedErrorBytes, value |-> {PublicError(code, message, id)}]
<1>3. HandleError(status, body) /\ body.value = {PublicError(code, message, id)}  BY <1>1
<1> HIDE DEF body
<1>4. EndCall
  <2> SUFFICES ASSUME ~EndCall PROVE FALSE  OBVIOUS
  <2>1. PICK x \in body.value :
          /\ x.errorCode \in KnownErrorCodes
          /\ status = HTTPStatus(x.errorCode) /\ x.requestID = RequestIDs[1]
    BY <1>3, ClearedFor
  <2>2. x.errorCode = code /\ x.requestID = id  BY <1>3, <2>1 DEF PublicError
  <2> QED  BY <1>1, <2>1, <2>2
<1> QED  BY <1>2, <1>4, EndRecovers

-----------------------------------------------------------------------------

\* The device has the signed request it saved: nothing in it changes when it is built again.
SavesRequest == \A a, b \in Endpoints : a = b

LEMMA NextRInv ==
  ASSUME SavesRequest, IInv, RInv, [Next]_vars
  PROVE  RInv'
<1>1. CASE BeginEnrollment
  <2>1. PICK auth \in Authorizations : Begin(auth, {}, {})  BY <1>1 DEF BeginEnrollment
  <2> QED  BY <2>1, BeginRecovers
<1>2. CASE BeginRenewal
  <2>1. PICK e \in enrolled : \E auth : Begin(auth, e.nodeCredential, e.registrationBinding)
    BY <1>2 DEF BeginRenewal
  <2>2. PICK auth : Begin(auth, e.nodeCredential, e.registrationBinding)  BY <2>1
  <2>3. SoundCredential(e.nodeCredential)  BY DEF IInv, CommittedResult, RInv, NodesSound
  <2> QED  BY <2>2, <2>3, BeginRecovers
<1>3. CASE Rebuild
  <2>1. PICK p \in pending, attrs \in Endpoints :
          pending' = {SetRegisterNodeIdentityProof([p EXCEPT !.attrs = attrs], Device.identityPublicKey)}
    BY <1>3 DEF Rebuild, Save
  <2>2. Settled(p) /\ pending = {p}  BY DEF RInv, RequestsSound, AtMostOne
  <2>3. attrs = p.attrs  BY <2>1, <2>2 DEF Settled, SavesRequest
  <2>4. pending' = pending  BY <2>1, <2>2, <2>3 DEF Settled
  <2>5. UNCHANGED <<enrolled, call, operations, sent, results, nodes, signer, now>>
    BY <1>3 DEF Rebuild, Save, producer
  <2>6. CallsSound'  BY <2>4, <2>5 DEF RInv, CallsSound
  <2> QED  BY <2>4, <2>5, <2>6, CallKeeps
<1>4. CASE SendRegister
  <2>1. PICK p \in pending :
          /\ call' = {[kind |-> "register", request |-> {p}, credential |-> p.nodeCredential]}
          /\ sent' = sent \cup {p}
    BY <1>4 DEF SendRegister
  <2>2. UNCHANGED <<enrolled, pending, operations, results, nodes, signer, now>>
    BY <1>4 DEF SendRegister, disk, producer
  <2>3. CallsSound'  BY <2>1, <2>2 DEF CallsSound
  <2> QED  BY <2>1, <2>2, <2>3, CallKeeps
<1>5. CASE SendNodeCall
  <2>1. PICK e \in enrolled :
          call' = {[kind |-> "node", request |-> {}, credential |-> e.nodeCredential]}
    BY <1>5 DEF SendNodeCall
  <2>2. UNCHANGED <<enrolled, pending, operations, sent, results, nodes, signer, now>>
    BY <1>5 DEF SendNodeCall, disk, producer
  <2>3. CallsSound'  BY <2>1, <2>2 DEF CallsSound
  <2> QED  BY <2>2, <2>3, CallKeeps
<1>6. CASE LoseCall
  BY <1>6, EndRecovers DEF LoseCall, producer
<1>7. CASE Process  BY <1>7, ProcessRecovers
<1>8. CASE RotateKey  BY <1>8, RotateStep
<1>9. CASE Withdraw  BY <1>9, WithdrawStep
<1>10. CASE Tick  BY <1>10, TickStep
<1>11. CASE ReceiveStored
  <2>1. PICK r \in results : ReceiveResult(r)  BY <1>11 DEF ReceiveStored
  <2> QED  BY <2>1, ReceiveRecovers
<1>12. CASE ReceiveMixedUp
  <2>1. PICK c \in call : \E req \in c.request : ReceiveResult(Result(req, NodeIDs[1], OtherDevice))
    BY <1>12 DEF ReceiveMixedUp
  <2>2. PICK req \in c.request : ReceiveResult(Result(req, NodeIDs[1], OtherDevice))  BY <2>1
  <2> DEFINE r == Result(req, NodeIDs[1], OtherDevice)
  <2>3. \A d \in call : \A own \in d.request : ~Committable(r, own)  BY MixedUpIsRefused
  <2> HIDE DEF r
  <2> QED  BY <2>2, <2>3, ReceiveRecovers DEF r
<1>13. CASE ReceiveError  BY <1>13, ErrorRecovers
<1>14. CASE ReceiveForeignError  BY <1>14, ForeignErrorRecovers
<1>15. CASE UNCHANGED vars
  <2>1. UNCHANGED <<enrolled, pending, call, operations, sent, results, nodes, signer, now>>
    BY <1>15 DEF vars
  <2>2. CallsSound'  BY <2>1 DEF RInv, CallsSound
  <2> QED  BY <2>1, <2>2, CallKeeps
<1> QED
  BY <1>1, <1>2, <1>3, <1>4, <1>5, <1>6, <1>7, <1>8, <1>9, <1>10, <1>11, <1>12, <1>13, <1>14, <1>15
  DEF Next

\* A device that retries the request it saved gets the credential that superseded its own,
\* whatever was lost, and whatever the control plane did meanwhile.
THEOREM NeverLockedOut ==
  ASSUME SavesRequest
  PROVE  Spec => []Recoverable
<1>1. RInv => Recoverable  BY DEF RInv
<1>2. IInv /\ RInv /\ [Next]_vars => RInv'  BY NextRInv
<1> QED  BY Inductive, InitRInv, <1>1, <1>2, PTL DEF Spec

-----------------------------------------------------------------------------
(***************************************************************************)
(* Type correctness: every message the device saves or sends, and every    *)
(* result the control plane stores, is valid. A result is valid because    *)
(* the request was and the id of its node is one the control plane gives   *)
(* out, which needs IDsSound and that a node's id is among those.          *)
(***************************************************************************)

HeldOK ==
  /\ AtMostOne(enrolled) /\ AtMostOne(pending) /\ AtMostOne(call)
  /\ operations \in 0 .. Len(OperationIDs)
  /\ \A req \in sent \cup pending : ValidRegisterNodeRequest(req) /\ Generated(req.idempotencyID)
  /\ \A c \in call : /\ c.kind \in {"register", "node"} /\ AtMostOne(c.request)
                     /\ c.request \subseteq sent

StoredOK ==
  /\ IDsSound
  /\ \A r \in results : ValidRegisterNodeResponse(r)
  /\ \A n \in nodes : DOMAIN n = NodeFields /\ n.id \in IDs /\ n.revoked \in BOOLEAN
  /\ signer \in 1 .. Len(SigningKeys)
  /\ now \in 0 .. MaxTime

LEMMA InitHeldStored == Init => HeldOK /\ StoredOK
<1> SUFFICES ASSUME Init PROVE HeldOK /\ StoredOK  OBVIOUS
<1>1. /\ enrolled = {} /\ pending = {} /\ call = {} /\ operations = 0 /\ sent = {}
      /\ results = {} /\ nodes = {} /\ signer = 1 /\ now = 0
  BY DEF Init
<1>2. IDsSound  BY InitRInv DEF RInv
<1>3. Len(OperationIDs) \in Nat /\ MaxTime \in Nat /\ Len(SigningKeys) \in Nat /\ Len(SigningKeys) >= 1
  BY RegistrationAssumption, IdentityAssumption
<1>4. 0 \in 0 .. Len(OperationIDs) /\ 0 \in 0 .. MaxTime /\ 1 \in 1 .. Len(SigningKeys)  BY <1>3
<1> QED  BY <1>1, <1>2, <1>4 DEF HeldOK, StoredOK, AtMostOne

\* A step of the control plane alone.
LEMMA HeldSame ==
  ASSUME HeldOK, UNCHANGED <<enrolled, pending, call, operations, sent>>
  PROVE  HeldOK'
BY DEF HeldOK, AtMostOne, Generated

\* A step of the device alone.
LEMMA StoredSame ==
  ASSUME StoredOK, UNCHANGED <<results, nodes, signer, now>>
  PROVE  StoredOK'
<1>1. IDs' = IDs /\ Made' = Made  BY DEF IDs, Made
<1>2. IDsSound'  BY <1>1 DEF StoredOK, IDsSound
<1> QED  BY <1>1, <1>2 DEF StoredOK

\* A call ends with at most one registration left, and no request or the saved one.
LEMMA EndHeld ==
  ASSUME HeldOK, AtMostOne(enrolled)', call' = {}, pending' \subseteq pending,
         UNCHANGED <<operations, sent>>
  PROVE  HeldOK'
BY DEF HeldOK, AtMostOne, Generated

\* A request is saved: a new one, or the old one signed again.
LEMMA SaveHeld ==
  ASSUME HeldOK, NEW req, Save(req), UNCHANGED enrolled,
         operations' \in operations .. Len(OperationIDs), Generated(req.idempotencyID)'
  PROVE  HeldOK'
<1>1. /\ ValidRegisterNodeRequest(req) /\ pending' = {req} /\ UNCHANGED <<call, sent>>  BY DEF Save
<1>2. operations \in 0 .. Len(OperationIDs) /\ Len(OperationIDs) \in Nat
  BY RegistrationAssumption DEF HeldOK
<1>3. operations' \in 0 .. Len(OperationIDs) /\ \A i \in 1 .. operations : i \in 1 .. operations'
  BY <1>2
<1>4. \A id : Generated(id) => Generated(id)'  BY <1>3 DEF Generated
<1>5. AtMostOne(enrolled)' /\ AtMostOne(pending)' /\ AtMostOne(call)'
  BY <1>1 DEF HeldOK, AtMostOne
<1>6. \A x \in sent' \cup pending' : ValidRegisterNodeRequest(x) /\ Generated(x.idempotencyID)'
  BY <1>1, <1>4 DEF HeldOK
<1>7. \A c \in call' : /\ c.kind \in {"register", "node"} /\ AtMostOne(c.request)
                       /\ c.request \subseteq sent'
  BY <1>1 DEF HeldOK
<1> QED  BY <1>3, <1>5, <1>6, <1>7 DEF HeldOK

LEMMA BeginHeld ==
  ASSUME HeldOK, NEW auth, NEW credential, NEW binding, Begin(auth, credential, binding)
  PROVE  HeldOK'
<1>1. PICK attrs \in Endpoints : Save(NewRequest(auth, credential, binding, attrs))  BY DEF Begin
<1>2. PICK req : /\ req = NewRequest(auth, credential, binding, attrs)
                 /\ req.idempotencyID = OperationIDs[operations + 1]
  BY NewRequestSettled
<1>3. operations < Len(OperationIDs) /\ operations' = operations + 1 /\ UNCHANGED enrolled
  BY DEF Begin
<1>4. operations \in 0 .. Len(OperationIDs) /\ Len(OperationIDs) \in Nat
  BY RegistrationAssumption DEF HeldOK
<1>5. operations' \in operations .. Len(OperationIDs) /\ operations + 1 \in 1 .. operations'
  BY <1>3, <1>4
<1>6. Generated(req.idempotencyID)'  BY <1>2, <1>5 DEF Generated
<1> QED  BY <1>1, <1>2, <1>3, <1>5, <1>6, SaveHeld

LEMMA RebuildHeld ==
  ASSUME IInv, HeldOK, Rebuild
  PROVE  HeldOK'
<1>1. PICK p \in pending, attrs \in Endpoints :
        Save(SetRegisterNodeIdentityProof([p EXCEPT !.attrs = attrs], Device.identityPublicKey))
  BY DEF Rebuild
<1>2. UNCHANGED <<enrolled, operations>>  BY DEF Rebuild
<1> DEFINE req == [p EXCEPT !.attrs = attrs]
<1>3. OwnRequest(p)  BY DEF IInv, OwnRequests
<1>4. /\ DOMAIN req = RequestFields /\ req.idempotencyID = p.idempotencyID
      /\ req.publicKey = Device.publicKey /\ req.deviceFingerprint = Device.deviceFingerprint
  BY <1>3 DEF OwnRequest, RequestFields
<1>5. Save(SetRegisterNodeIdentityProof(req, Device.identityPublicKey))  BY <1>1
<1> HIDE DEF req
<1>6. PICK s : s = SetRegisterNodeIdentityProof(req, Device.identityPublicKey)  OBVIOUS
<1>7. s.idempotencyID = p.idempotencyID  BY <1>4, <1>6, SignedIsOwn
<1>8. Generated(p.idempotencyID)  BY DEF HeldOK
<1>9. Generated(s.idempotencyID)'  BY <1>2, <1>7, <1>8 DEF Generated
<1>10. operations' \in operations .. Len(OperationIDs)
  <2>1. operations \in 0 .. Len(OperationIDs) /\ Len(OperationIDs) \in Nat
    BY RegistrationAssumption DEF HeldOK
  <2> QED  BY <1>2, <2>1
<1> QED  BY <1>2, <1>5, <1>6, <1>9, <1>10, SaveHeld

\* The control plane stores a result and its node.
LEMMA ProcessStores ==
  ASSUME HeldOK, StoredOK, Process
  PROVE  StoredOK'
<1>1. PICK req \in sent :
        /\ ValidRegisterNodeRequest(req)
        /\ \/ /\ Made < Len(NodeIDs)
              /\ results' = results \cup {Result(req, NodeIDs[Made + 1], req)}
              /\ nodes' = nodes \cup {NodeOf(Result(req, NodeIDs[Made + 1], req))}
           \/ \E n \in RenewedNode(req) :
                /\ results' = results \cup {Result(req, n.id, req)}
                /\ nodes' = (nodes \ {n}) \cup {NodeOf(Result(req, n.id, req))}
  BY DEF Process
<1>2. UNCHANGED <<signer, now>>  BY DEF Process
<1>3. now \in Nat /\ signer \in 1 .. Len(SigningKeys)
  <2>1. MaxTime \in Nat  BY RegistrationAssumption
  <2> QED  BY <2>1 DEF StoredOK
<1>4. ASSUME NEW id, TrimSpace[id] = id, id # "", IDs' = IDs \cup {id}, IDsSound',
             NEW r, r = Result(req, id, req), results' = results \cup {r},
             nodes' \subseteq nodes \cup {NodeOf(r)}
      PROVE  StoredOK'
  <2>1. IsResultFor(r, req, id) /\ ValidRegisterNodeResponse(r)  BY <1>1, <1>3, <1>4, ResultSound
  <2> DEFINE m == NodeOf(r)
  <2>2. DOMAIN m = NodeFields /\ m.id = r.node.id /\ m.revoked = FALSE  BY DEF NodeOf, NodeFields
  <2> HIDE DEF m
  <2>3. m.id = id  BY <2>1, <2>2 DEF IsResultFor
  <2>4. nodes' \subseteq nodes \cup {m}  BY <1>4 DEF m
  <2>5. \A n \in nodes' : DOMAIN n = NodeFields /\ n.id \in IDs' /\ n.revoked \in BOOLEAN
    BY <1>4, <2>2, <2>3, <2>4, Zenon DEF StoredOK
  <2>6. \A x \in results' : ValidRegisterNodeResponse(x)  BY <1>4, <2>1 DEF StoredOK
  <2> QED  BY <1>2, <1>4, <2>5, <2>6 DEF StoredOK
<1>5. CASE /\ Made < Len(NodeIDs)
           /\ results' = results \cup {Result(req, NodeIDs[Made + 1], req)}
           /\ nodes' = nodes \cup {NodeOf(Result(req, NodeIDs[Made + 1], req))}
  <2>1. PICK r, id : r = Result(req, id, req) /\ id = NodeIDs[Made + 1]  OBVIOUS
  <2>2. results' = results \cup {r} /\ nodes' = nodes \cup {NodeOf(r)}  BY <1>5, <2>1
  <2>3. Made + 1 \in 1 .. Len(NodeIDs)
    <3>1. Len(NodeIDs) \in Nat  BY RegistrationAssumption
    <3>2. Made \in 0 .. Len(NodeIDs)  BY DEF StoredOK, IDsSound
    <3> QED  BY <1>5, <3>1, <3>2
  <2>4. TrimSpace[id] = id /\ id # ""  BY <2>1, <2>3, IdentityAssumption
  <2>5. r.node.id = id
    <3>1. IsResultFor(r, req, id)  BY <1>3, <2>1, <2>4, ResultSound
    <3> QED  BY <3>1 DEF IsResultFor
  <2>6. IDs' = IDs \cup {id} /\ IDsSound'  BY <1>5, <2>1, <2>2, <2>5, FreshID DEF StoredOK
  <2> QED  BY <1>4, <2>1, <2>2, <2>4, <2>6
<1>6. ASSUME NEW n \in RenewedNode(req), results' = results \cup {Result(req, n.id, req)},
             nodes' = (nodes \ {n}) \cup {NodeOf(Result(req, n.id, req))}
      PROVE  StoredOK'
  <2>1. PICK r, id : r = Result(req, id, req) /\ id = n.id  OBVIOUS
  <2>2. results' = results \cup {r} /\ nodes' = (nodes \ {n}) \cup {NodeOf(r)}  BY <1>6, <2>1
  <2>3. n \in nodes /\ id \in IDs  BY <1>6, <2>1 DEF RenewedNode, StoredOK
  <2>4. TrimSpace[id] = id /\ id # ""
    <3>1. PICK i \in 1 .. Made : id = NodeIDs[i]  BY <2>3 DEF StoredOK, IDsSound
    <3>2. i \in 1 .. Len(NodeIDs)
      <4>1. Len(NodeIDs) \in Nat  BY RegistrationAssumption
      <4>2. Made \in 0 .. Len(NodeIDs)  BY DEF StoredOK, IDsSound
      <4> QED  BY <3>1, <4>1, <4>2
    <3> QED  BY <3>1, <3>2, IdentityAssumption
  <2>5. r.node.id = id
    <3>1. IsResultFor(r, req, id)  BY <1>3, <2>1, <2>4, ResultSound
    <3> QED  BY <3>1 DEF IsResultFor
  <2>6. IDs' = IDs /\ IDs' = IDs \cup {id}  BY <2>2, <2>3, <2>5 DEF IDs
  <2>7. IDsSound'
    <3>1. Made' = Made  BY <2>6 DEF Made, IDs
    <3> QED  BY <2>6, <3>1 DEF StoredOK, IDsSound
  <2>8. nodes' \subseteq nodes \cup {NodeOf(r)}  BY <2>2
  <2> QED  BY <1>4, <2>1, <2>2, <2>4, <2>6, <2>7, <2>8
<1> QED  BY <1>1, <1>5, <1>6

LEMMA WithdrawStores ==
  ASSUME StoredOK, Withdraw
  PROVE  StoredOK'
<1>1. PICK n \in nodes :
        \/ nodes' = (nodes \ {n}) \cup {[n EXCEPT !.revoked = TRUE]}
        \/ nodes' = nodes \ {n}
  BY DEF Withdraw
<1>2. UNCHANGED <<results, signer, now>>  BY DEF Withdraw
<1>3. IDs' = IDs /\ Made' = Made  BY <1>2 DEF IDs, Made
<1>4. IDsSound'  BY <1>3 DEF StoredOK, IDsSound
<1> DEFINE m == [n EXCEPT !.revoked = TRUE]
<1>5. DOMAIN m = NodeFields /\ m.id = n.id /\ m.revoked = TRUE  BY <1>1 DEF StoredOK, NodeFields
<1>6. nodes' \subseteq nodes \cup {m}  BY <1>1
<1> HIDE DEF m
<1>7. \A x \in nodes' : DOMAIN x = NodeFields /\ x.id \in IDs' /\ x.revoked \in BOOLEAN
  BY <1>1, <1>3, <1>5, <1>6, Zenon DEF StoredOK
<1> QED  BY <1>2, <1>4, <1>7 DEF StoredOK

\* A result or an error ends the call.
LEMMA ReceiveHeld ==
  ASSUME HeldOK, \/ ReceiveStored \/ ReceiveMixedUp \/ ReceiveError \/ ReceiveForeignError \/ LoseCall
  PROVE  HeldOK' /\ UNCHANGED <<results, nodes, signer, now>>
<1>1. ASSUME NEW r, ReceiveResult(r)
      PROVE  HeldOK' /\ UNCHANGED <<results, nodes, signer, now>>
  <2>1. UNCHANGED <<operations, sent, results, nodes, signer, now>>  BY <1>1 DEF ReceiveResult, producer
  <2>2. call' = {} /\ pending' \subseteq pending /\ (enrolled' = {r} \/ enrolled' = enrolled)
    BY <1>1 DEF ReceiveResult, EndCall, disk
  <2>3. AtMostOne(enrolled)'  BY <2>2 DEF HeldOK, AtMostOne
  <2> QED  BY <2>1, <2>2, <2>3, EndHeld
<1>2. ASSUME NEW status, NEW body, HandleError(status, body), UNCHANGED <<operations, sent, producer, now>>
      PROVE  HeldOK' /\ UNCHANGED <<results, nodes, signer, now>>
  <2>1. UNCHANGED <<operations, sent, results, nodes, signer, now>>  BY <1>2 DEF producer
  <2>2. call' = {} /\ pending' \subseteq pending /\ (enrolled' = {} \/ enrolled' = enrolled)
    BY <1>2 DEF HandleError, EndCall, disk
  <2>3. AtMostOne(enrolled)'  BY <2>2 DEF HeldOK, AtMostOne
  <2> QED  BY <2>1, <2>2, <2>3, EndHeld
<1>3. CASE ReceiveStored  BY <1>1, <1>3 DEF ReceiveStored
<1>4. CASE ReceiveMixedUp  BY <1>1, <1>4 DEF ReceiveMixedUp
<1>5. CASE ReceiveError  BY <1>2, <1>5 DEF ReceiveError
<1>6. CASE ReceiveForeignError  BY <1>2, <1>6 DEF ReceiveForeignError
<1>7. CASE LoseCall
  <2>1. /\ call' = {} /\ UNCHANGED <<enrolled, pending>>
        /\ UNCHANGED <<operations, sent, results, nodes, signer, now>>
    BY <1>7 DEF LoseCall, EndCall, disk, producer
  <2>2. AtMostOne(enrolled)' /\ pending' \subseteq pending  BY <2>1 DEF HeldOK, AtMostOne
  <2> QED  BY <2>1, <2>2, EndHeld
<1> QED  BY <1>3, <1>4, <1>5, <1>6, <1>7

LEMMA NextHeldStored ==
  ASSUME IInv, HeldOK, StoredOK, [Next]_vars
  PROVE  HeldOK' /\ StoredOK'
<1>1. CASE BeginEnrollment \/ BeginRenewal
  <2>1. PICK auth, credential, binding : Begin(auth, credential, binding)
    BY <1>1 DEF BeginEnrollment, BeginRenewal
  <2>2. UNCHANGED <<results, nodes, signer, now>>  BY <2>1 DEF Begin, producer
  <2> QED  BY <2>1, <2>2, BeginHeld, StoredSame
<1>2. CASE Rebuild
  <2>1. UNCHANGED <<results, nodes, signer, now>>  BY <1>2 DEF Rebuild, producer
  <2> QED  BY <1>2, <2>1, RebuildHeld, StoredSame
<1>3. CASE SendRegister
  <2>1. PICK p \in pending :
          /\ call' = {[kind |-> "register", request |-> {p}, credential |-> p.nodeCredential]}
          /\ sent' = sent \cup {p}
    BY <1>3 DEF SendRegister
  <2>2. UNCHANGED <<enrolled, pending, operations, results, nodes, signer, now>>
    BY <1>3 DEF SendRegister, disk, producer
  <2>3. HeldOK'  BY <2>1, <2>2 DEF HeldOK, AtMostOne, Generated
  <2> QED  BY <2>2, <2>3, StoredSame
<1>4. CASE SendNodeCall
  <2>1. PICK e \in enrolled :
          call' = {[kind |-> "node", request |-> {}, credential |-> e.nodeCredential]}
    BY <1>4 DEF SendNodeCall
  <2>2. UNCHANGED <<enrolled, pending, operations, sent, results, nodes, signer, now>>
    BY <1>4 DEF SendNodeCall, disk, producer
  <2>3. HeldOK'  BY <2>1, <2>2 DEF HeldOK, AtMostOne, Generated
  <2> QED  BY <2>2, <2>3, StoredSame
<1>5. CASE ReceiveStored \/ ReceiveMixedUp \/ ReceiveError \/ ReceiveForeignError \/ LoseCall
  BY <1>5, ReceiveHeld, StoredSame
<1>6. CASE Process
  <2>1. UNCHANGED <<enrolled, pending, call, operations, sent>>  BY <1>6 DEF Process, disk
  <2> QED  BY <1>6, <2>1, HeldSame, ProcessStores
<1>7. CASE Withdraw
  <2>1. UNCHANGED <<enrolled, pending, call, operations, sent>>  BY <1>7 DEF Withdraw, disk
  <2> QED  BY <1>7, <2>1, HeldSame, WithdrawStores
<1>8. CASE RotateKey \/ Tick
  <2>1. UNCHANGED <<enrolled, pending, call, operations, sent, results, nodes>>
    BY <1>8 DEF RotateKey, Tick, disk, producer
  <2>2. signer' \in 1 .. Len(SigningKeys) /\ now' \in 0 .. MaxTime
    <3>1. Len(SigningKeys) \in Nat /\ MaxTime \in Nat  BY RegistrationAssumption
    <3>2. signer \in 1 .. Len(SigningKeys) /\ now \in 0 .. MaxTime  BY DEF StoredOK
    <3> QED  BY <1>8, <3>1, <3>2 DEF RotateKey, Tick, producer
  <2>3. IDs' = IDs /\ Made' = Made  BY <2>1 DEF IDs, Made
  <2>4. IDsSound'  BY <2>3 DEF StoredOK, IDsSound
  <2>5. StoredOK'  BY <2>1, <2>2, <2>3, <2>4 DEF StoredOK
  <2> QED  BY <2>1, <2>5, HeldSame
<1>9. CASE UNCHANGED vars
  BY <1>9, HeldSame, StoredSame DEF vars
<1> QED  BY <1>1, <1>2, <1>3, <1>4, <1>5, <1>6, <1>7, <1>8, <1>9 DEF Next

\* Whatever the device and the control plane do, every request saved or sent and every
\* result stored is valid, and the device holds at most one of each.
THEOREM TypeCorrect == Spec => []TypeOK
<1>1. HeldOK /\ StoredOK => TypeOK  BY DEF HeldOK, StoredOK, TypeOK, Generated
<1>2. IInv /\ HeldOK /\ StoredOK /\ [Next]_vars => (HeldOK /\ StoredOK)'  BY NextHeldStored
<1> QED  BY Inductive, InitHeldStored, <1>1, <1>2, PTL DEF Spec
=============================================================================
