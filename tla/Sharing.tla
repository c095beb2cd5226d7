------------------------------ MODULE Sharing -------------------------------
(***************************************************************************)
(* Machine-sharing grants inside a network map (clientapi/v1/sharing.go).  *)
(* A grant names two exact endpoints, the recipient and the source; the    *)
(* map that carries it is either endpoint's own map.                       *)
(*                                                                         *)
(* An address prefix is a set of addresses, so that two prefixes overlap   *)
(* when they intersect. A peer's allowed_ips is an option: {} when it is   *)
(* nil, {S} when it lists the addresses S, and {{}} is a list of none. The *)
(* attributes of a value that only syntactic validators look at (names,    *)
(* text safety, key encoding, rights, prefixes in canonical form) are one  *)
(* field, attrs, and SafeAttrs is the set of attributes those validators   *)
(* accept.                                                                 *)
(***************************************************************************)
EXTENDS SigningTrust

CONSTANTS
  SafeAttrs,            \* attributes that pass the syntactic validators
  MaxSharePeerGrantTTL  \* the longest lease, 2 minutes in the code

ASSUME SharingAssumption == MaxSharePeerGrantTTL \in Nat \ {0}

-----------------------------------------------------------------------------

\* An endpoint of a grant: ids without surrounding space.
ValidShareEndpoint(end) ==
  /\ end.networkID # "" /\ TrimSpace[end.networkID] = end.networkID
  /\ end.nodeID # "" /\ TrimSpace[end.nodeID] = end.nodeID
  /\ end.allowedIPs # {}

\* SharePeerGrant.Validate: two distinct endpoints that share no address, and a lease
\* that is neither empty nor longer than MaxSharePeerGrantTTL.
ValidSharePeerGrant(grant) ==
  /\ ValidShareEndpoint(grant.recipient)
  /\ ValidShareEndpoint(grant.source)
  /\ grant.source.nodeID # grant.recipient.nodeID
  /\ grant.source.publicKey # grant.recipient.publicKey
  /\ grant.source.allowedIPs \cap grant.recipient.allowedIPs = {}
  /\ grant.expiresAt > grant.issuedAt
  /\ grant.expiresAt - grant.issuedAt <= MaxSharePeerGrantTTL
  /\ grant.attrs \in SafeAttrs

\* The map's own node is the source of the grant; otherwise it is taken to be the
\* recipient.
IsSourceOf(snapshot, grant) ==
  /\ snapshot.node.id = grant.source.nodeID
  /\ snapshot.network.id = grant.source.networkID

LocalEnd(snapshot, grant) ==
  IF IsSourceOf(snapshot, grant) THEN grant.source ELSE grant.recipient

RemoteEnd(snapshot, grant) ==
  IF IsSourceOf(snapshot, grant) THEN grant.recipient ELSE grant.source

\* The local endpoint is this node in this network with this key and these addresses.
LocalBinding(snapshot, local) ==
  local = [networkID  |-> snapshot.network.id,
           nodeID     |-> snapshot.node.id,
           publicKey  |-> snapshot.node.publicKey,
           allowedIPs |-> snapshot.node.assignedIPs]

\* The addresses a peer may use, none when its list is nil or empty.
Addresses(peer) == UNION peer.allowedIPs

\* The remote endpoint is a peer of the map, and every peer with its id is that endpoint.
RemoteBinding(snapshot, remote) ==
  LET named == {p \in ToSet(snapshot.peers) : p.id = remote.nodeID}
  IN  /\ named # {}
      /\ \A p \in named : /\ p.networkID = remote.networkID
                          /\ p.publicKey = remote.publicKey
                          /\ Addresses(p) = remote.allowedIPs

\* A shared address neither falls in the local network's prefixes (when the remote end
\* is of another network) nor belongs to another peer, and neither does the key.
RemoteIsolated(snapshot, local, remote) ==
  /\ remote.networkID # local.networkID => snapshot.network.cidr \cap remote.allowedIPs = {}
  /\ \A p \in ToSet(snapshot.peers) :
       p.id # remote.nodeID => /\ p.publicKey # remote.publicKey
                               /\ Addresses(p) \cap remote.allowedIPs = {}

\* validateSharePeerGrants: every grant is valid, unique and bound at both ends, and a
\* peer of another network is there because some grant binds it.
ValidateSharePeerGrants(snapshot) ==
  LET grants == snapshot.network.sharePeerGrants
  IN  /\ \A i \in DOMAIN grants :
           LET local  == LocalEnd(snapshot, grants[i])
               remote == RemoteEnd(snapshot, grants[i])
           IN  /\ ValidSharePeerGrant(grants[i])
               /\ LocalBinding(snapshot, local)
               /\ RemoteBinding(snapshot, remote)
               /\ RemoteIsolated(snapshot, local, remote)
      /\ \A i, j \in DOMAIN grants : grants[i].grantID = grants[j].grantID => i = j
      /\ \A p \in ToSet(snapshot.peers) :
           p.networkID \notin {"", snapshot.network.id} =>
             \E i \in DOMAIN grants : RemoteEnd(snapshot, grants[i]).nodeID = p.id

\* Every lease of the map is current. There is no clock-skew allowance here.
LeasesCurrent(network, at) ==
  \A grant \in ToSet(network.sharePeerGrants) : grant.issuedAt <= at /\ at < grant.expiresAt

ValidateSharePeerGrantsAt(snapshot, at) ==
  /\ ValidateSharePeerGrants(snapshot)
  /\ LeasesCurrent(snapshot.network, at)
=============================================================================
