----------------------------- MODULE NetworkMap -----------------------------
(***************************************************************************)
(* The network map snapshot: the boundary a client checks before it caches *)
(* one (networkmap_validate.go, application.go, acl_grants.go) and the     *)
(* signature that authenticates it (mapsign.go).                           *)
(*                                                                         *)
(* SHA-256 is the payload itself: two payloads have the same hash when     *)
(* they are equal. An Ed25519 signature is a record of the key and of the  *)
(* payload it was made over; only the holder of the key makes one.         *)
(***************************************************************************)
EXTENDS Sharing

CONSTANT
  MaxSignatureClockSkew  \* how far ahead of the client's clock issued_at may be

ASSUME SkewAssumption == MaxSignatureClockSkew \in Nat

\* The zero value of MapRevision. Revisions are only ever compared for equality, so a
\* (network, global) pair is one number.
ZeroRevision == 0

\* NetworkMapSnapshot{}, what a client holds before its first map.
ZeroSnapshot ==
  [revision            |-> ZeroRevision,
   network             |-> [id |-> "", cidr |-> {}, services |-> <<>>, applications |-> <<>>,
                            sharePeerGrants |-> <<>>, attrs |-> ""],
   node                |-> [id |-> "", networkID |-> "", publicKey |-> "",
                            assignedIPs |-> {}, attrs |-> ""],
   peers               |-> <<>>,
   registrationBinding |-> "",
   stunEndpoints       |-> <<>>,
   relays              |-> <<>>,
   relayCredential     |-> {},
   mapSignature        |-> {}]

-----------------------------------------------------------------------------
(* ValidateNetworkMapSnapshot *)

\* No two elements of a sequence have the same id (compared as they are, untrimmed).
UniqueIDs(s) == \A i, j \in DOMAIN s : s[i].id = s[j].id => i = j

\* The identities a service host or an application binding may name: the node itself
\* and its peers. A peer with the node's id takes the node's place, a later peer an
\* earlier one's.
IdentityOf(snapshot, nodeID) ==
  LET named == {i \in DOMAIN snapshot.peers : snapshot.peers[i].id = nodeID}
  IN  IF named # {} THEN {snapshot.peers[Max(named)].publicKey}
      ELSE IF snapshot.node.id = nodeID THEN {snapshot.node.publicKey}
      ELSE {}

\* Each of these bindings names a known node with that node's key, and none twice.
BoundIdentities(snapshot, bindings) ==
  /\ \A b \in ToSet(bindings) :
       /\ b.nodeID # "" /\ b.publicKey # ""
       /\ IdentityOf(snapshot, b.nodeID) = {b.publicKey}
  /\ \A i, j \in DOMAIN bindings : bindings[i].nodeID = bindings[j].nodeID => i = j

\* validateServices
ValidateServices(services) ==
  /\ UniqueIDs(services)
  /\ \A svc \in ToSet(services) : TrimSpace[svc.id] # "" /\ svc.attrs \in SafeAttrs

\* validateServiceHosts: only an approved service has hosts.
ValidateServiceHosts(snapshot) ==
  \A svc \in ToSet(snapshot.network.services) :
    /\ svc.hosts # <<>> => svc.approvalStatus = "approved"
    /\ BoundIdentities(snapshot, svc.hosts)

\* validateApplications
ValidateApplications(applications) ==
  /\ UniqueIDs(applications)
  /\ \A app \in ToSet(applications) : TrimSpace[app.id] # "" /\ app.attrs \in SafeAttrs

MaxRouteCIDRs == 64

\* A route of an application leads through one of its connectors to prefixes outside the
\* overlay network, none twice: the target itself when the target is a prefix, else
\* single addresses.
ValidApplicationRoute(network, app, route) ==
  /\ route.connector \in ToSet(app.connectors)
  /\ Len(route.cidrs) \in 1 .. MaxRouteCIDRs
  /\ \A i, j \in DOMAIN route.cidrs : route.cidrs[i] = route.cidrs[j] => i = j
  /\ \A prefix \in ToSet(route.cidrs) :
       /\ prefix \cap network.cidr = {}
       /\ {prefix} = app.target \/ (app.target = {} /\ Cardinality(prefix) = 1)

\* validateApplicationBindings: the application's nodes are known, and there is at most
\* one route through each connector. A target that is a name or an address is {}.
ValidateApplicationBindings(snapshot) ==
  \A app \in ToSet(snapshot.network.applications) :
    /\ BoundIdentities(snapshot, app.sources)
    /\ BoundIdentities(snapshot, app.connectors)
    /\ \A route \in ToSet(app.routes) : ValidApplicationRoute(snapshot.network, app, route)
    /\ \A i, j \in DOMAIN app.routes :
         app.routes[i].connector.nodeID = app.routes[j].connector.nodeID => i = j

\* validateMapNode: the node belongs to the network.
ValidateMapNode(node, networkID) ==
  /\ TrimSpace[node.id] # ""
  /\ TrimSpace[node.networkID] = networkID
  /\ node.attrs \in SafeAttrs

\* validateMapPeer, with the peer's ACL grants among its attrs.
ValidateMapPeer(peer) == TrimSpace[peer.id] # "" /\ peer.attrs \in SafeAttrs

\* The relay and STUN endpoint checks. What the relay module's own
\* EndpointSnapshot.Validate looks at is among the attrs of an endpoint.
ValidateEndpoints(snapshot) ==
  \A e \in ToSet(snapshot.stunEndpoints) \cup ToSet(snapshot.relays) :
    TrimSpace[e.id] # "" /\ e.attrs \in SafeAttrs

\* The relay credential is for this node of this network.
ValidateRelayCredential(snapshot) ==
  \A c \in snapshot.relayCredential :
    /\ TrimSpace[c.networkID] = TrimSpace[snapshot.network.id]
    /\ TrimSpace[c.nodeID] = TrimSpace[snapshot.node.id]

ValidateNetworkMapSnapshot(snapshot) ==
  /\ TrimSpace[snapshot.network.id] # ""
  /\ snapshot.network.attrs \in SafeAttrs
  /\ ValidateApplications(snapshot.network.applications)
  /\ ValidateServices(snapshot.network.services)
  /\ ValidateMapNode(snapshot.node, TrimSpace[snapshot.network.id])
  /\ ValidateServiceHosts(snapshot)
  /\ ValidateApplicationBindings(snapshot)
  /\ ValidateSharePeerGrants(snapshot)
  /\ \A p \in ToSet(snapshot.peers) : ValidateMapPeer(p)
  /\ UniqueIDs(snapshot.peers)
  /\ ValidateEndpoints(snapshot)
  /\ ValidateRelayCredential(snapshot)

-----------------------------------------------------------------------------
(* Signing and verification *)

MapSignatureScheme == "ed25519-network-map-v5"

\* canonicalNetworkMapPayload: the signed part of a snapshot. Sorting by id makes the
\* payload independent of the order of peers, relays and STUN endpoints, so a sorted
\* list is the bag of its elements (elements that tie in the sort have one id and one
\* host name or address; the model has none that differ otherwise). The relay
\* credential is not part of it.
CanonicalPayload(snapshot, keyID, issuedAt, expiresAt) ==
  [keyID               |-> TrimSpace[keyID],
   issuedAt            |-> issuedAt,
   expiresAt           |-> expiresAt,
   revision            |-> snapshot.revision,
   registrationBinding |-> TrimSpace[snapshot.registrationBinding],
   network             |-> snapshot.network,
   node                |-> snapshot.node,
   peers               |-> ToBag(snapshot.peers),
   stunEndpoints       |-> ToBag(snapshot.stunEndpoints),
   relays              |-> ToBag(snapshot.relays)]

\* The payload that the signature of a snapshot claims to authenticate.
PayloadUnder(snapshot, signature) ==
  CanonicalPayload(snapshot, signature.keyID, signature.issuedAt, signature.expiresAt)

\* Ed25519 under a public key (external).
Ed25519Sign(publicKey, payload) == [by |-> publicKey, over |-> payload]

\* SignNetworkMapSnapshotWithProvider
SignNetworkMapSnapshot(publicKey, snapshot, issuedAt, ttl) ==
  {LET payload == CanonicalPayload(snapshot, keyID, issuedAt, issuedAt + ttl)
   IN  [scheme      |-> MapSignatureScheme,
        keyID       |-> keyID,
        issuedAt    |-> issuedAt,
        expiresAt   |-> issuedAt + ttl,
        payloadHash |-> payload,
        signature   |-> Ed25519Sign(publicKey, payload)]
     : keyID \in IF ttl > 0 THEN SigningKeyID(publicKey) ELSE {}}

\* Fault for SignatureCurrent: the last moment is included.
CurrentAtExpiry(signature, at) ==
  /\ signature.expiresAt > signature.issuedAt
  /\ signature.issuedAt <= at + MaxSignatureClockSkew
  /\ at <= signature.expiresAt

\* The validity window of a map signature: issued_at may lie ahead by the clock skew,
\* expires_at is excluded.
SignatureCurrent(signature, at) ==
  /\ signature.expiresAt > signature.issuedAt
  /\ signature.issuedAt <= at + MaxSignatureClockSkew
  /\ at < signature.expiresAt

\* Fault for VerifySignatureAt: the hash the signature claims is trusted, not recomputed.
VerifyClaimedHash(snapshot, expectedPublicKey, at) ==
  \E sig \in snapshot.mapSignature :
    /\ sig.scheme = MapSignatureScheme
    /\ sig.keyID \in SigningKeyID(expectedPublicKey)
    /\ SignatureCurrent(sig, at)
    /\ sig.signature = Ed25519Sign(TrimSpace[expectedPublicKey], sig.payloadHash)
    /\ ValidateSharePeerGrantsAt(snapshot, at)

\* VerifyNetworkMapSnapshotSignatureAt
VerifySignatureAt(snapshot, expectedPublicKey, at) ==
  \E sig \in snapshot.mapSignature :
    LET payload == PayloadUnder(snapshot, sig)
    IN  /\ sig.scheme = MapSignatureScheme
        /\ sig.keyID \in SigningKeyID(expectedPublicKey)
        /\ SignatureCurrent(sig, at)
        /\ sig.payloadHash = payload
        /\ sig.signature = Ed25519Sign(TrimSpace[expectedPublicKey], payload)
        /\ ValidateSharePeerGrantsAt(snapshot, at)
=============================================================================
