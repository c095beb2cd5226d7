---------------------------- MODULE MCMapStream -----------------------------
(***************************************************************************)
(* Small instances of MapStream: the strings, keys, trust bundles and map  *)
(* contents of the configurations MapStream*.cfg.                          *)
(***************************************************************************)
EXTENDS MapStream

\* " a" is the padded form of "a", " id1" of "id1".
MCTrimSpace ==
  [s \in {"", "ok", "ed25519", "e", "N", "M", "n", "a", "b", "x", "r", "s", "k1", "k2",
          "id1", "id2", "B1", "B2"} |-> s]
  @@ (" a" :> "a") @@ (" id1" :> "id1")

MCKeyIDOf == "k1" :> "id1" @@ "k2" :> "id2"

MCSafeAttrs == {"ok"}

TrustKey(id, k, from, to) ==
  [keyID |-> id, algorithm |-> "ed25519", publicKey |-> k, notBefore |-> from, notAfter |-> to]

Bundle(active, keys) == [version |-> 1, activeKeyID |-> active, keys |-> keys]

\* One key, trusted for ever.
OneBundle == <<Deref(NewSigningTrustBundle("k1"))>>

\* A rotation: k1 alone, then both with overlapping windows, then a bundle that does not
\* validate, then one whose id for k1 is padded.
RotatingBundles ==
  <<Bundle("id1", <<TrustKey("id1", "k1", {}, {2})>>),
    Bundle("id2", <<TrustKey("id1", "k1", {}, {1}), TrustKey("id2", "k2", {1}, {})>>),
    Bundle("id2", <<TrustKey("id2", "k1", {}, {})>>),
    Bundle("id1", <<TrustKey(" id1", "k1", {}, {}), TrustKey("id2", "k2", {}, {})>>)>>

-----------------------------------------------------------------------------

Peer(id, net, key, ips) ==
  [id |-> id, networkID |-> net, publicKey |-> key, allowedIPs |-> {ips}, attrs |-> "ok"]

PeerA == Peer("a", "N", "ka", {1})

\* Peer a after it changed its WireGuard key.
PeerA2 == Peer("a", "N", "ka2", {1})

PeerB == Peer("b", "N", "kb", {2})

PaddedA == Peer(" a", "N", "ka", {1})

PaddedA2 == Peer(" a", "N", "ka2", {1})

\* Peer b without addresses, its list empty and not nil.
PeerBEmpty == Peer("b", "N", "kb", {})

\* A machine of network M, shared with this node.
PeerX == Peer("x", "M", "kx", {9})

ShareX(from, to) ==
  [grantID |-> "g", issuedAt |-> from, expiresAt |-> to, attrs |-> "ok",
   recipient |-> [networkID |-> "N", nodeID |-> "n", publicKey |-> "kn", allowedIPs |-> {0}],
   source |-> [networkID |-> "M", nodeID |-> "x", publicKey |-> "kx", allowedIPs |-> {9}]]

Relay(a) == [id |-> "r", attrs |-> a]

Credential(c) == [networkID |-> "N", nodeID |-> "n", secret |-> c]

ServiceOn(key) ==
  [id |-> "s", approvalStatus |-> "approved", attrs |-> "ok",
   hosts |-> <<[nodeID |-> "a", publicKey |-> key]>>]

\* An application behind peer a, reached from this node.
ApplicationVia(key) ==
  LET a == [nodeID |-> "a", publicKey |-> key]
  IN  [id |-> "s", attrs |-> "ok", target |-> {},
       sources |-> <<[nodeID |-> "n", publicKey |-> "kn"]>>, connectors |-> <<a>>,
       routes |-> <<[connector |-> a, cidrs |-> <<{5}>>]>>]

\* A map of node n in network N with these peers.
Base(peers) ==
  [ZeroSnapshot EXCEPT
     !.network = [id |-> "N", cidr |-> {0, 1, 2}, services |-> <<>>, applications |-> <<>>,
                  sharePeerGrants |-> <<>>, attrs |-> "ok"],
     !.node = [id |-> "n", networkID |-> "N", publicKey |-> "kn", assignedIPs |-> {0},
               attrs |-> "ok"],
     !.peers = peers,
     !.registrationBinding = "B1"]

\* Peer a hosts a service and is the connector of an application; a relay with a credential.
MapService ==
  [Base(<<PeerA, PeerB>>) EXCEPT
     !.network.services = <<ServiceOn("ka")>>,
     !.network.applications = <<ApplicationVia("ka")>>,
     !.relays = <<Relay("ok")>>,
     !.relayCredential = {Credential(1)}]

\* Peer a re-keyed and listed last, the service gone, the relay credential withdrawn.
MapRekeyed == Base(<<PeerB, PeerA2>>)

\* The node was bound to another registration.
MapRebound == [Base(<<PeerA>>) EXCEPT !.registrationBinding = "B2"]

MapPadded == Base(<<PaddedA, PeerB>>)

MapPadded2 == Base(<<PaddedA2>>)

\* Peer x is shared for the lease [from, to).
MapShared(from, to) ==
  [Base(<<PeerX>>) EXCEPT !.network.sharePeerGrants = <<ShareX(from, to)>>]

\* The control plane forgot that the service was bound to the old key: such a map does
\* not validate, however well it is signed.
MapStaleService ==
  [MapRekeyed EXCEPT !.network.services = <<ServiceOn("ka")>>]

\* The network grew over the address of the application's route: does not validate
\* either.
MapOverlap == [MapService EXCEPT !.network.cidr = {0, 1, 2, 5}]

\* Peer b has lost its addresses.
MapEmptyList == Base(<<PeerA2, PeerBEmpty>>)

StreamProjections == {MapService, MapRekeyed, MapStaleService, MapOverlap, MapEmptyList}

TimedProjections == {MapRekeyed, MapShared(0, 2)}

RepairProjections == {MapService, MapRebound, MapPadded, MapPadded2, MapEmptyList}

NoOffset == {0}

SkewedOffsets == {0, 2}
=============================================================================
