# Verification of the EndlessNet client API

TLA+ models, TLC runs and TLAPS proofs about the Go module `clientapi`: the
contract between the EndlessNet control plane and its clients. The core of that
module is a protocol that keeps a node's *network map* up to date over an
unreliable stream without ever letting it use a map that nobody signed, and an
HTTP client that fails over between coordinators without doing a write twice.

## 1. Inventory

| Component | State | Operations | Interacts with |
|---|---|---|---|
| Map stream application (`mapstream.go`, event checks in `api.go`) | the caller's cached snapshot | `ApplyMapStreamEvent` (heartbeat, checkpoint, snapshot, resync, delta), `applyMapDelta`, `mergePeers`, `mergeRelays` | map validation, map signatures, trust bundles |
| Map signing (`mapsign.go`) | none | sign, verify with a key, verify with a trust bundle | trust bundles, sharing grants |
| Signing trust bundles (`signing_trust.go`) | the bundle the client fetched | `Validate`, `Resolve`, extraction from `ServerKeyResponse` | map signatures, node credentials, relay credentials |
| Network map validation (`networkmap_validate.go`, `application.go`, `acl_grants.go`) | none | `ValidateNetworkMapSnapshot` and its parts | every way a map enters a client |
| Machine sharing (`sharing.go`) | leases inside a map | `SharePeerGrant.Validate`, `ValidateSharePeerGrantsAt` | map validation and verification |
| Control-plane HTTP SDK (`api.go`, `idempotency.go`, `lineio.go`) | active origin, list of origins, credentials | 13 calls, failover, idempotency keys, the stream reader | control plane (external) |
| Registration and renewal (`registration.go`, `identityproof.go`) | the device's saved request and committed result | identity proof, validation of requests and responses, `ValidateForRequest` | node credentials, map signatures, recovery errors, HTTP SDK |
| Node credentials (`nodecredential.go`) | the saved credential | sign, decode, validate, verify with a trust bundle | trust bundles, registration |
| Recovery errors (`errors.go`) | none | closed set of codes, status and request correlation, `RequiresReEnrollment` | registration, codecs, HTTP SDK |
| Strict codecs (`codec.go`) | none | decoding without unknown, repeated or trailing fields, size limits | registration, recovery errors |
| WireGuard keys and validators (`wireguard/`) | none | syntactic checks | map validation, registration |
| Client RPC (`proto/`, `clientrpc/`) | none | schema and generated code | - |
| Release contract (`systemtests/releasecontract`, `systemtests/cmd/releasecontract`) | the JSON records of a release, on disk | validation of both chains of records; the commands `resolve-candidate`, `promote`, `resolve-release`, `validate-component-candidate`, `validate-released-component`, `validate-infrastructure-signal`, `verify-history` | producers, test suite, Releases, Infrastructure (external) |

What is hard in this code:

- **Delivery.** Events come late, twice, out of order, from a coordinator that lags,
  or with a signature that belongs to another map; between reading and applying one, a
  registration or endpoint response can replace the map it was meant for.
- **Reconstruction.** A delta is merged into a list whose order is an accident of
  earlier deltas, with ids that are trimmed on one side of the comparison only, after
  copies that are not quite equal to their originals, and has to give exactly what the
  control plane signed.
- **Time.** Signature window (with skew), trust-key window, sharing leases (without
  skew), two readings of the clock in one verification, keys that rotate meanwhile.
- **Repair.** Some deltas can never be applied (a new registration binding, padded
  ids); the node must come out of that by itself.
- **Writes.** An origin may process a request whose answer is lost, or process it after
  the client has moved on; failover, the caller and a restarted process send it again.
- **Two commits.** A renewal supersedes the device's credential at the control plane
  before the device has the new one on its disk. Until then every call with the old
  credential is refused, and the device must neither give up nor be locked out.
- **Errors that destroy.** Three error codes make a device clear its enrollment. They
  must be the control plane's, about this request, and arrive in full.
- **Records read one by one.** The release commands read up to four files in turn while
  people and other commands write them, and may be killed between creating a file and
  writing it.
- **Long sequences of calls.** The list of origins is rewritten after every success.

The properties that make each component correct are the ones of sections 3 and 4;
`PROJECT.json` lists the hazards with the source line where each one bites and the
property that would notice.

## 2. Plan

Order of work, the most important behaviour first:

1. *(done)* Trust bundles, sharing, map validation and signatures as operators; deltas;
   the node that reads, applies and verifies (`MapStream`); the abstract promise
   (`AuthenticMap`) and the refinement; the merge loops against their definition.
2. *(done)* The HTTP SDK with failover, idempotency and restarts (`ControlPlaneAPI`).
3. *(done)* Registration, renewal and recovery with saved requests, crashes, lost and
   stale answers and superseded credentials (`Registration`), composed with node
   credentials, trust bundles and recovery errors.
4. *(done)* The release contract: a server set (`ServerRelease`) and a single component
   (`ComponentRelease`), from candidate to production.
5. *(done)* Proofs of every invariant and action property that a passing run checks:
   the map stream with its refinement and the round trip of a delta, the merge loops, the
   HTTP client, registration and recovery, both releases.
6. The composition of the stream reader of `ControlPlaneAPI` with `MapStream`: cursors,
   reconnects to another coordinator, connection loss inside a line.

## 3. Modules

```
SigningTrust <- Sharing <- NetworkMap <-+- MapDelta <-+- MapStream <- MCMapStream
                                Lists <-+             +- MergeLoop <- MCMergeLoop
                           AuthenticMap (INSTANCEd by MapStream)

Lists <- ControlPlaneAPI <- MCControlPlaneAPI

SigningTrust <- WireText <- RecoveryErrors <-+
      ^                                      |
      +-- NodeCredential <-------------------+- RegistrationWire <- Registration <- MCRegistration

ReleaseContract <-+- ServerRelease <- MCServerRelease
                  +- ComponentRelease <- MCComponentRelease

Proofs:
Lists <- ListProofs <- MapDeltaProofs <- MapStreamProofs, MergeLoopProofs
         ListProofs <- ControlPlaneAPIProofs
Registration <- RegistrationProofs
ServerRelease <- ServerReleaseProofs        ComponentRelease <- ComponentReleaseProofs
```

Conventions. A Go pointer, and a `(T, error)` result, is a set with at most one element.
Strings are strings, but `strings.TrimSpace` is a constant function, so a padded id is
another value than the id it trims to. SHA-256 is the payload itself and an Ed25519
signature a record of key and payload: hashes do not collide and only the holder of a
key signs. An address prefix is the set of its addresses. Attributes that only
syntactic validators look at (text safety, key encoding, DNS names, ports, ACL entries)
are one field `attrs`, checked against the set `SafeAttrs`. A list that the code sorts
before it signs is a bag. A definition whose comment begins with "Fault for" is a
seeded mistake used to see that a property notices it; nothing else refers to it.

**SigningTrust** - `SigningKeyID`, `NewSigningTrustBundle`, `Validate`
(`ValidTrustBundle`), `Resolve`. Validation compares trimmed ids, resolution raw ones,
as in the code.

**Sharing** - `SharePeerGrant.Validate`, `validateSharePeerGrants` (the map is the
source's or the recipient's; the remote end is one peer, and its addresses and key are
nobody else's), `ValidateSharePeerGrantsAt`. A peer's `allowedIPs` is an option: nil and
an empty list have the same `Addresses` and are different values to JSON.

**NetworkMap** - `ValidateNetworkMapSnapshot` with every check that relates two parts of
a map (application routes against the overlay's prefixes and the target's scope among
them, `ValidApplicationRoute`), `canonicalNetworkMapPayload`, signing,
`VerifyNetworkMapSnapshotSignatureAt`. The relay credential is not in the payload, as in
the code; `allowed_ips` is, and an empty list is signed as `[]` and not as `null`.

**MapDelta** - `ApplyMapStreamEvent`: `ApplyError` is the sequence of its decisions in
the code's order, `ApplyMapStreamEvent` adds the map that is returned.
`CloneNetworkMapSnapshot` is what `cloneNetworkMapSnapshot` does to the value it copies:
`append([]string(nil), x...)` makes nil of an empty list, and of the fields that are
signed without `omitempty` that concerns `allowed_ips`. Every map an event leads to is a
copy, before it is verified and again when it is returned.
`MergeByID` defines the merge of peers and relays in three parts: what is `Kept`, what of
that is `Replaced` in its place, and what is `Fresh`.

**Lists** - `Pick(s, I)`: the elements of a list at some positions, in order. It is what a
loop of the form "if cond { continue }; append" leaves of a list, and a definition that
can be reasoned about by induction.

**MapStream** - the state machine. Variables: what the control plane has `published`
(external), the node's clock `now`, the index `epoch` of its trust bundle, its `cache`,
whether it will ask for a full map (`needFull`), the event read and not yet applied
(`pending`), the response map under verification (`response`).

| Action | Code |
|---|---|
| `Publish`, `Tick` | control plane and time (external) |
| `RefreshTrust` | `signingTrustBundleFromResponse` |
| `ReadFreshEvent`, `ReadStaleEvent` | `ReadMapStreamEvent` returns the answer to the cursor, or something else |
| `ApplyEvent` | `ApplyMapStreamEvent` and the commit its comment asks of the caller |
| `ReceiveResponse` | a registration or endpoint response (`RegisterNodeResponse.Snapshot`) |
| `ResolveResponseKey`, `VerifyResponse` | the two clock readings of `VerifyNetworkMapSnapshotSignatureWithTrustBundle` |

The control plane publishes any of the `Projections`, valid or not, in any order, and
renews signatures without a new revision. Its deltas are the differences of any two
publications, as far as the delta type can express them; a coordinator that lags computes
them backward, from the node's cursor to its own older map, and the code, which compares
revisions for equality only, takes them. Each event also comes with the signature of any
other publication. `Content` is what a map says: its signed payload, in which the order of
the peers and the difference of nil and an empty list do not count.

**MergeLoop** - `normalizedIDSet` and the two loops of `mergePeers`/`mergeRelays` step by
step, with their index and seen maps.

**AuthenticMap** - the abstract specification: a client adopts a payload that was
signed, while its signature and every lease in it are current on the client's clock.

**ControlPlaneAPI** - an API object (`baseURL`, `baseURLs`), one `call` at a time
(create, register, poll, plain, stream), the requests that may still be processed
(`inflight`), what was `created`. The creation of a browser enrollment request
(`StartEnrollmentRequest`) is a write with the id of its saved operation. `Send` is `newRequest` and `Do`; `TransportError`,
`AnswerError` and `AnswerSuccess` are the three ways on; `Activate` is
`setActiveBaseURL`, on the API or on the copy of `withBearer`; `ReadLine` is the loop of
`ReadMapStreamEvent`; `Process` is the control plane, external: one creation per key;
`Restart` is a crash of the client process. `lastOK` is a history variable.
`TrimURL` is assumed idempotent, which trimming space and then slashes is on every URL
without space before its trailing slashes.

**WireText** - the validators of single texts and `decodeStrict`. What a validator looks
at in a text (bytes, escapes, control characters) is the constant function `TextOf`. A
JSON body is its length and the value it decodes to.

**NodeCredential** - `SignNodeCredentialWithProvider`, `DecodeNodeCredential`,
`ValidateNodeCredential`, `VerifyNodeCredentialWithTrustBundle`. Scopes are trimmed when
they are signed and compared as they are when they are checked, as in the code.

**RecoveryErrors** - the closed enum and its statuses, `RequiresReEnrollment`,
`ValidateHTTPResponse`, marshalling and decoding with both limits: 16 KiB in the codec
and 4096 bytes in the HTTP client.

**RegistrationWire** - the canonical identity-proof payload, in which secrets appear as
digests; `RegisterNodeRequest.Validate`, `RegisterNodeResponse.Validate` and
`ValidateForRequest`, which ties a response to its request.

**Registration** - the state machine of a device and the control plane. On the device's
disk: the committed result (`enrolled`) and the signed request of the operation under way
(`pending`); in memory the one `call`. At the control plane (external): the stored
`results`, one per idempotency id, the `nodes` with their current credential and the
signing key in use.

| Action | Code |
|---|---|
| `BeginEnrollment`, `BeginRenewal` | the caller builds a request, `SetRegisterNodeIdentityProof`, `MarshalRegisterNodeRequest`, and saves it |
| `Rebuild` | a device that saved no more than the idempotency id signs the request again and serializes it, which validates it |
| `SendRegister`, `SendNodeCall` | `API.RegisterNode`; a call on a node route with the credential |
| `LoseCall` | timeout, lost answer, or a crash of the device |
| `ReceiveStored`, `ReceiveMixedUp` | `ValidateForRequest`, the two verifications, and the commit the comment of `RegisterNode` asks for; of a stored result, fitting or not, or of another device's |
| `ReceiveError`, `ReceiveForeignError` | `ControlPlaneStatusError`, `DecodePublicError`, `ValidateHTTPResponse`, `RequiresReEnrollment` (the procedure of `RECOVERY.md`) |
| `Process`, `RotateKey`, `Withdraw`, `Tick` | control plane and time (external) |

The origins and the failover are `ControlPlaneAPI`'s; here a call ends with an answer or
without one. The device's own program is not in the repository: what it saves and when is
the contract of `API.RegisterNode` and `RECOVERY.md`. `ControlPlaneStatusError` does not
carry the header with the request id that `RECOVERY.md` wants compared; a device has it
only if its own `HTTPClient` keeps it. `HeaderKept` says whether it is at hand, and with
both values that is a choice at every error. Without the header a device that follows
`RECOVERY.md` clears nothing, so nothing is claimed about when it hears of a revocation.

**ReleaseContract** - every validation of `contract.go`. A record stands for its bytes and
its digest does not collide; a digest that does not match the pattern is a value of
another form. The regular expressions are the constant sets `Matches`, and what they
extract (the repository of an Actions run, the digest in an artifact reference) constant
functions. `contracts` is an option, because `reflect.DeepEqual` tells nil from an empty
list; `Encoded` is an envelope after `json.Encode` and decoding, which with `omitempty`
loses an empty list of contracts.

**ServerRelease** - the records as `files` that people edit, and the commands as processes
that read one file per step: `Test` is `resolve-candidate` and the suite (external) that
tests what it resolved and writes the evidence, `Build`, `Create` and `Write` are
`promote` up to the two halves of `WriteNewJSON` (`Written` is what can be read back),
`ResolveRelease` is `resolve-release`;
`Kill` ends any of them anywhere. `passed` and `production` record what was tested and
what production was told to run.

**ComponentRelease** - the candidate and the released record of a component, rewritten
while `validate-released-component` (`ReadCandidate`, `CheckReleased`) and
`validate-infrastructure-signal` (`ReadReleased`, `ReceiveSignal`) read them, and signals
that stay deliverable for ever.

## 4. Runs

| Run | Instance | What it shows |
|---|---|---|
| `map_stream` | 3 publications out of 5 projections (a plain one, a re-keyed peer, a service whose host is gone, a route that overlaps the overlay, a peer with an empty list of addresses), 2 stale messages, no time | the cache always validates as a whole (`CacheValid`); a delta is taken wherever the full map would be (`DeltaRoundTrip`), and leads only from the publication it was computed from to the one it is signed for (`DeltaMovesFromItsBase`); repetitions are recognised (`ReplayIsRecognised`) |
| `map_stream_clock` | 2 keys, 4 bundles (rotation, invalid, padded id), clock 0..2, control plane up to 2 ahead, signatures and leases of length 2 | the cache is always a published map down to its signature times (`CacheAuthentic`); `StreamCommitTrusted`; the refinement `AuthenticMapSpec` |
| `map_stream_repair` | changed registration binding, padded ids, 1 stale message | `Converges` under fairness; `CacheAuthentic` |
| `map_stream_relay` | as `map_stream`, 2 publications | **violated**: `RelayCredentialSigned` (finding 1) |
| `merge_loop` | lists of up to 2 elements, 2 upserts, 2 removals; padded, blank and repeated ids | the loops compute `MergeByID` and its errors (`LoopsMergeByID`), which on plain ids is an update (`MergeIsUpdate`) |
| `control_plane_api` | 3 calls, 3 origins (or one unusable URL, or none), statuses of every class, 1 persisted operation, restarts | `CreatedOncePerIntent`, `FailoverIsComplete`, `RecentFirst`, `CallReturns` |
| `control_plane_active` | the same | **violated**: `SuccessActivatesOrigin` (finding 2) |
| `registration` | 2 operations, 2 nodes, 2 endpoints, 2 keys with windows, clock 0..2, credentials of length 2, map signatures of length 1, the header of an error at hand or not | the device commits nothing but the stored result of its own request (`CommittedResult`) and clears its enrollment only for a final verdict on its own credential (`ClearedOnlyByAuthority`) |
| `registration_recovery` | 3 operations, 3 nodes, 1 endpoint, lasting keys, the header at hand or not, fairness | a superseded credential can always be replaced (`Recoverable`); saved operations complete, but for renewals of a credential that was withdrawn before the control plane got to them (`OperationCompletes`) |
| `registration_truncated` | 2 operations, a diagnostic of 1024 characters that JSON escapes, the header always at hand | **violated**: `TerminalErrorHeard` (finding 3) |
| `server_release` | 3 candidates (one without artifact, one with an empty list of contracts), requests approved by 2 different runs, a suite, 2 promotions, a resolution, at most 2 of them at the same time, 3 edits | production gets only sets that passed (`ProductionWasTested`), at most one promotion succeeds and what it wrote stays on record (`SuccessIsTheRecord`), what is promoted can be deployed exactly when its candidate has no empty list of contracts (`PromotedResolves`) |
| `component_release` | 5 candidates (one gate or two, other commits and artifacts, an archive that is not its own, a malformed digest), evidence that is complete, in another order, repeated, missing or malformed, 4 writes | approved records have evidence for exactly the gates of a published candidate (`ApprovedCoversGates`); only approved records are deployed (`DeployedWasApproved`) |

*Bounds.* Three publications are the fewest with which content can return under a later
revision (A, B, A), the case in which an old delta merges although it is out of date,
and with which a backward delta can miss the node's map;
two stale messages let an event and a response overtake each other. Time 0..2 with
lifetimes of 2 and an offset of 2 reaches before, inside, at both ends of, and after
every window. Two elements per list and two operations cover each pair of interactions
in the merge (replace and remove, repeated id, padded against plain). Three calls over
three origins are needed for a second move to the front to disturb the first. In
`registration` two operations are an enrollment and a renewal, or a second enrollment
after the first was cleared; a third (`registration_recovery`) is a renewal of a renewed
credential, with an answer of the first still under way. The clock passes the end of the
credential, of the map signature and of both key windows in `registration`; in the runs
of completion it stays below `MapTTL`, because the control plane answers every retry with
the stored result and nothing in the repository says how one is renewed whose map
signature has expired. Two concurrent commands are the fewest that can overtake each
other (the two promotions of `server_release` are symmetric model values), and each can be killed and repeated any number of times; three edits are enough
to write a request, to replace it between two reads, so that two promotions build
different envelopes for one path, and to change one more record. Four writes
of a component's two files replace both after an approval. `merge_loop` and the runs of
`Registration` do not check deadlock: the computation ends, and the device stops when
its operations are used up.

*Fairness.* `MapStream`: the node applies what it has read, finishes a verification it has
begun and keeps reading, and the stream answers; nothing obliges the control plane to
publish or the clock to move, and stale messages are bounded because a stream that for
ever delivers nothing but old events is not live in any sense. `Converges` then assumes
that the copy of the newest map stays verifiable (`<>[]HeadVerifiable`): a map in which a
peer's `allowed_ips` is `[]` is refused in every form the stream has for it, and the node
stays on the map before it. `ControlPlaneAPI`: the loop
runs on, and `HTTPClient.Timeout` (15 s in `NewAPIWithBaseURLs`) ends every wait for an
answer and every stream of heartbeats; no fairness of the control plane is assumed.
`Registration`: the same timeout ends every call (weak fairness of `LoseCall`), the
control plane gets to a request it can process (`Process`), the device sends its saved
request again and again, as `RECOVERY.md` asks for (strong fairness, because other calls
disable it), and answers may be lost any finite number of times in a row: if infinitely
often a stored result could be committed, it is once. No error is assumed to be heard,
and answers that are not meant for the call are never assumed to arrive or to stop. Only
the run of finding 3 goes further (`HearingSpec`): there the device also uses its
credential again and again, and an error that could end the enrollment does once. The
property fails even so.

*Findings.*

1. `types.go:315` calls the snapshot "the complete, signed client projection", but the
   relay credential is outside the signed payload, a delta can not remove it and an
   already-applied event does not refresh it. After such a delta the node holds a
   credential the published map does not have, under a signature that verifies.
2. `api.go:48` says "Successful calls update the active origin"; the two poll calls run
   on a copy, so each further poll asks the unreachable origin first again.
3. `API.request` keeps 4096 bytes of an error body (`api.go:447`), while a valid recovery
   error may have up to 16 KiB (`codec.go:12`): a diagnostic of 1024 characters that
   `json.Marshal` escapes takes 6144. What is left is not JSON, so a caller that follows
   `RECOVERY.md` never recognises a terminal code in it, and keeps a revoked enrollment.

Two more cases are written into the properties, because the repository promises nothing
about them: a signed map with `"allowed_ips": []` that the stream refuses
(`mapstream.go:209`; see `HeadVerifiable`), and a candidate with `"contracts": []` that is
tested, promoted and then can not be resolved (`types.go:38`, `contract.go:330`; see
`PromotedResolves`).

## 5. Proofs

All proofs hold for every value of the constants that meets the named assumptions
(`TrimSpace` and `TrimURL` idempotent, key ids without space and collision-free, positive
lifetimes, a non-empty sequence of bundles, projections whose peers and relays are lists,
event ids that are not blank, two devices that differ in each of their keys and
fingerprints, finitely many gates in a candidate, the uri of a written record of the form
the contract asks for, generated ids that do not repeat, and a control plane that has a
signing key). Every invariant and action property of a passing run is the statement of
one of the theorems.

`ListProofs`: induction. The library's induction theorems take a predicate as parameter,
which the installed provers do not instantiate; with a *set* of numbers in its place
(`LeastNat`, `Induction`, from the well-foundedness of `<`) they do. From it come the facts
about `Pick`: its positions are enumerated in order and each once.

`MergeLoopProofs`: `LoopsMerge` and `LoopsUpdate`, for lists of any length and any ids. The
invariant `LoopInv` has one part per loop, saying what its maps hold after the first
`pos - 1` elements (`Removing`, `Keeping`, `Upserting`). The hard part is the last loop,
in which the index also leads to elements that this loop appended: no upsert reaches one,
because their trimmed ids have been seen. `MergeUpdates` in `MapDeltaProofs` then says what
`MergeByID` is for on plain ids.

`MapStreamProofs`: `TypeCorrect`, `CacheIsAuthentic`, `CacheIsValid`. `CacheAuthentic`
alone is not inductive: that a verified signature means a publication depends on every
signature in reach, in the pending event and in the response, being one the control
plane made. The invariant `IInv` is therefore the type invariant, `RevisionsBounded`
(revisions do not exceed the number of publications), `MessagesSigned` (every message
carries a published signature), `CacheAuthentic` and `CacheValid`. The key lemma is that
a map that verifies under a published signature has the content that signature was made
over, whatever the message that brought it. From the same invariant follow the action
properties `ReplayRecognised`, `CommitTrusted`, `DeltasMoveFromTheirBase`, and
`Refinement`: every
step of the node is a `Sign`, `Advance` or `Adopt` of `AuthenticMap` or changes nothing
there. The two clock readings matter here: only the second one decides.

That the cache is what a delta was computed from is read off a hash the cache only
claims. `CInv` therefore adds that the hash says what the map says (`HashContent`), and
that what is merged are lists. Copying keeps both (`CloneContent`), keeps a map valid
(`CloneValid`) and does nothing a second time (`CloneTwice`, `CopiedPeers`).

`DeltasApply` is the converse, that a good delta is never refused: a node that holds the
content of one publication, its lists in any order, copied or not, and its relay
credential from any earlier map, takes the delta to any other whenever it would take that
other map in full. `DiffMerge` shows that the merge gives the peers and relays of the
target up to order, `UniqueBag` that the canonical payload does not see the order,
`SameValid` that the boundary checks do not either. The premises are where the code does
not do it: ids with surrounding space (`Addressable`: the removal set is trimmed, the list
is not), two relays with one id (which `ValidateNetworkMapSnapshot` lets through and a
merge can not distinguish), another registration, network or node (`SameRegistration`: a
delta has no field for the binding, and a kept relay credential would be another node's),
and a second map that is refused in full, because its time is over or because its copy
has another payload than the one signed. In these cases the node falls back to a full
snapshot, which is what `Converges` is about.

`ControlPlaneAPIProofs`: `TypeCorrect`, `CreatedOnce`, `FailoverComplete`,
`RecentOriginsFirst`, for any number of origins written in any way, calls, operations and
restarts. For the writes the strengthening says that one key stands for one intent
everywhere in the system, and that the request of a waiting write is in flight or has had
its effect. For the origins it is `FInv`: the list is a permutation of the configured
origins, led by the active one and sorted by last success, and a call has failed at
exactly a prefix of the list it took over. That normalizing `[active] + list` again moves
one origin to the front and keeps the order of the rest is a fact about `Pick`.

`RegistrationProofs`: `TypeCorrect`, `CommittedIsStored` and `ClearedByAuthority`, for any
number of operations, retries, crashes, nodes and keys. `OwnRequests` adds that what is
saved or sent was signed by this device and that a call carries a request that was sent;
`OneCredential` that the saved request and the call under way carry the credential of the
enrollment. A final error is then a verdict on that credential: the lemma
`FinalInAnyScope` shows that such a verdict does not depend on the scope the call needed,
and `ClearedFor` that an error body clears only with its own status and request id. A
renewed credential can not interfere, since committing it ends the call. The type
invariant is itself of weight here: that every stored result passes
`RegisterNodeResponse.Validate` follows from the validity of the request it answers and
from where the control plane takes its ids (`HeldOK`, `StoredOK`).

`NeverLockedOut`, in the same module: `Recoverable` always holds. The control plane
supersedes a credential only when it processes a request that has no result yet, and
requests it has not processed stay deliverable for ever. `Unfinished` says that such a
request is the saved one, or carries a credential that is gone for ever; so whatever
superseded the device's credential is the result of the saved request, which a retry
fetches (`ResultIsCurrent`). `IDsSound`, `NodesSound`, `RequestsSound` and `CallsSound` say
which ids and credentials exist and that a call is about the saved request. The theorem
has a hypothesis, `SavesRequest`: building the request again changes nothing. The comment
of `API.RegisterNode` asks for that; without it the stored result belongs to a request
the device no longer has.

`ServerReleaseProofs`: `TypeCorrect`, `ProductionIsTested`, `OnePromotionWins`,
`PromotionResolves`, for any candidates, commands, edits and kills. `resolve-release`
never sees a test, only evidence: `EvidenceIsTrue` says that passing evidence in the file,
or read by a resolution, names a candidate whose set did pass. The digest in the evidence
and the comparison of the resolved set with the candidate do the rest
(`AcceptedIsEvidenced`). At most one promotion reports success, and its envelope stays on
record: `OneWriter` says that the path, once created, belongs to one promotion for ever,
also when that one is killed before it writes, and `Recorded` that what it wrote is there.
`PromotionResolves` is a statement about the two validations with JSON between them
(`EncodedShape`): what the checks of `promote` accept, those of `resolve-release` do,
exactly when the candidate has no empty list of contracts.

`ComponentReleaseProofs`: `TypeCorrect`, `ApprovedIsGated`, `DeployedIsApproved`. A record
is approved against a candidate that may already have been replaced, and deployed by a
signal that may be old: `ReadWasPublished` and the type invariant, in which what was
signalled or deployed was a record, carry the facts over the gap. That distinct evidence
for known gates, as many as there are gates, covers them all is the lemma
`AllGatesCovered`.

Only model-checked: liveness (`Converges`, `CallReturns`, `OperationCompletes`), which is
outside what the prover does, and the three properties of the runs that expect a
violation.

## 6. Not modelled

- Syntactic validation of single values (text, WireGuard keys, prefixes, DNS names,
  application targets, ACL grants): one constant set. Byte-level JSON, base64 and
  line-length limits: their outcomes are choices.
- Aliasing: TLA+ values are not shared, so that the `clone*` functions copy deeply
  enough is outside this model. What they change in the copied value is modelled where it
  shows: the other lists are signed with `omitempty`, are copied by the signer too
  (peers, relays), or may not be empty (ports, route and grant prefixes, rights). In the release records nil
  and `[]` are one value for `components`, `modules` and gates, which JSON writes and
  reads back without a change.
- Ties in the sort of the canonical payload beyond id and host name or address.
- The `(network, global)` revision pair is one number; the client only compares it for
  equality.
- When a client stops using a map whose signature has expired: not in this repository.
- How a device notices that it should renew, the browser sessions that authorize an
  enrollment, and the control plane behind registration: external, as far as `src/` uses
  them. Registration bodies are values and have no size.
- Whether compatibility evidence is fresh: `ValidateReleasedComponent` never opens it.
- `verify-history` and its list of frozen paths: a filter over the output of git.
- The generated RPC code holds no logic of its own; WireGuard key generation and key
  syntax are the set `WireGuardKeys`; scripts, fixtures and documents are not programs of
  this system.
