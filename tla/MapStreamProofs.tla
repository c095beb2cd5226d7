-------------------------- MODULE MapStreamProofs ---------------------------
(***************************************************************************)
(* Proofs about MapStream for every set of projections, every choice of    *)
(* keys, bundles, clock offsets and bounds.                                *)
(*                                                                         *)
(* The argument. A publication carries one signature, made over its own    *)
(* payload (PublicationSigned). Every message in flight carries the        *)
(* signature of some publication or none (MessagesSigned). A map that      *)
(* verifies under such a signature has the payload of that publication     *)
(* (VerifiedContent), and only maps that verify are committed              *)
(* (CommitVerified). The copy a checkpoint leaves behind has the content   *)
(* of its original (CloneContent) and is as valid (SameValid). Every step  *)
(* is then one of AuthenticMap (Refinement).                               *)
(*                                                                         *)
(* That a delta leads from the map it was made for (DeltaStep) and applies *)
(* to whatever arrangement of it the node holds (RoundTrip) needs that the *)
(* hash the cache claims is the one of its content, and that what it holds *)
(* and merges are lists (CInv).                                            *)
(***************************************************************************)
EXTENDS MapStream, MapDeltaProofs

\* What every message in flight satisfies: a full snapshot is a publication, the result
\* signature is the one of some publication, and a delta starts from one.
EventSigned(e, P) ==
  /\ e.type \in EventTypes /\ e.from \in Nat /\ e.to \in Nat
  /\ \A s \in e.snapshot : s \in P
  /\ \A s, t \in e.snapshot : s = t
  /\ \/ e.resultSignature = {}
     \/ \E s \in P : e.resultSignature = s.mapSignature
  /\ e.type = "delta" => \E a \in P : e.baseHash = CurrentMapHash(a)

MessagesSigned ==
  /\ \A e \in pending : EventSigned(e, ToSet(published))
  /\ \A r \in response : r.snapshot \in ToSet(published)

\* Revisions grow no faster than publications.
RevisionsBounded == \A i \in DOMAIN published : published[i].revision \in 1 .. i

\* The safety part of the inductive invariant; CInv below is the rest.
IInv == TypeOK /\ RevisionsBounded /\ MessagesSigned /\ CacheAuthentic /\ CacheValid

-----------------------------------------------------------------------------

LEMMA SnapshotFields ==
  DOMAIN ZeroSnapshot = {"revision", "network", "node", "peers", "registrationBinding",
                         "stunEndpoints", "relays", "relayCredential", "mapSignature"}
BY DEF ZeroSnapshot

\* A publication carries exactly one signature, over its own canonical payload.
LEMMA PublicationSigned ==
  ASSUME NEW s \in Publications
  PROVE  /\ DOMAIN s = DOMAIN ZeroSnapshot /\ s.revision \in Nat
         /\ \E sig : /\ s.mapSignature = {sig}
                     /\ sig.signature.over = PayloadUnder(s, sig)
                     /\ sig.payloadHash = PayloadUnder(s, sig)
<1>1. PICK c \in Projections, r \in 1 .. MaxPublished, k \in SigningKeys, t \in IssueTimes :
             s = SignedSnapshot(c, r, k, t)
  BY DEF Publications
<1> DEFINE u == [c EXCEPT !.revision = r]
           id == KeyIDOf[k]
           pay == CanonicalPayload(u, id, t, t + SignatureTTL)
           sig == [scheme      |-> MapSignatureScheme,
                   keyID       |-> id,
                   issuedAt    |-> t,
                   expiresAt   |-> t + SignatureTTL,
                   payloadHash |-> pay,
                   signature   |-> Ed25519Sign(k, pay)]
<1>2. DOMAIN c = DOMAIN ZeroSnapshot
  BY MapStreamAssumption
<1>3. SigningKeyID(k) = {id}
  <2>1. k \in DOMAIN KeyIDOf
    BY MapStreamAssumption
  <2>2. TrimSpace[k] = k
    BY <2>1, KeyIDAssumption
  <2>3. {TrimSpace[k]} \cap DOMAIN KeyIDOf = {k}
    BY <2>1, <2>2
  <2> QED
    BY <2>3 DEF SigningKeyID
<1>4. SignNetworkMapSnapshot(k, u, t, SignatureTTL) = {sig}
  <2>1. SignatureTTL > 0
    BY MapStreamAssumption
  <2> QED
    BY <1>3, <2>1 DEF SignNetworkMapSnapshot
<1>5. s = [u EXCEPT !.mapSignature = {sig}]
  BY <1>1, <1>4 DEF SignedSnapshot
<1> HIDE DEF sig, u
<1>6. DOMAIN u = DOMAIN ZeroSnapshot
  BY <1>2 DEF u
<1>7. DOMAIN s = DOMAIN ZeroSnapshot /\ s.mapSignature = {sig}
  BY <1>5, <1>6, SnapshotFields
<1>8. \A f \in DOMAIN ZeroSnapshot \ {"mapSignature"} : s[f] = u[f]
  BY <1>5, <1>6
<1>9. sig.signature.over = pay /\ sig.keyID = id /\ sig.issuedAt = t
      /\ sig.expiresAt = t + SignatureTTL /\ sig.payloadHash = pay
  BY DEF sig, Ed25519Sign
<1>10. PayloadUnder(s, sig) = pay
  <2>1. /\ s.revision = u.revision /\ s.network = u.network /\ s.node = u.node
        /\ s.peers = u.peers /\ s.registrationBinding = u.registrationBinding
        /\ s.stunEndpoints = u.stunEndpoints /\ s.relays = u.relays
    BY <1>8, SnapshotFields
  <2> QED
    BY <1>9, <2>1 DEF PayloadUnder, CanonicalPayload
<1>11. s.revision \in Nat
  <2>1. u.revision = r
    BY <1>2, SnapshotFields DEF u
  <2>2. s.revision = u.revision
    BY <1>8, SnapshotFields
  <2> QED
    BY <2>1, <2>2, MapStreamAssumption
<1> QED
  BY <1>7, <1>9, <1>10, <1>11

\* What a map says under a signature: the signed fields, its peers as copies.
LEMMA ReadingOf ==
  ASSUME NEW s, NEW sig, NEW r, r = Reading(PayloadUnder(s, sig))
  PROVE  r = [keyID               |-> TrimSpace[sig.keyID],
              issuedAt            |-> sig.issuedAt,
              expiresAt           |-> sig.expiresAt,
              revision            |-> s.revision,
              registrationBinding |-> TrimSpace[s.registrationBinding],
              network             |-> s.network,
              node                |-> s.node,
              peers               |-> Copies(s.peers),
              stunEndpoints       |-> ToBag(s.stunEndpoints),
              relays              |-> ToBag(s.relays)]
<1>1. PICK bag, B, C : bag = ToBag(s.peers) /\ B = ToBag(s.stunEndpoints) /\ C = ToBag(s.relays)
  OBVIOUS
<1>2. DOMAIN bag = ToSet(s.peers)  BY <1>1 DEF ToBag, ToSet, Range
<1>3. {ClonePeer(p) : p \in DOMAIN bag} = Copies(s.peers)  BY <1>2 DEF Copies
<1>4. PICK pay : pay = PayloadUnder(s, sig)  OBVIOUS
<1>5. pay = [keyID               |-> TrimSpace[sig.keyID],
             issuedAt            |-> sig.issuedAt,
             expiresAt           |-> sig.expiresAt,
             revision            |-> s.revision,
             registrationBinding |-> TrimSpace[s.registrationBinding],
             network             |-> s.network,
             node                |-> s.node,
             peers               |-> bag,
             stunEndpoints       |-> B,
             relays              |-> C]
  BY <1>1, <1>4 DEF PayloadUnder, CanonicalPayload
<1>6. pay.peers = bag  BY <1>5
<1>7. r = [pay EXCEPT !.peers = Copies(s.peers)]  BY <1>3, <1>4, <1>6 DEF Reading
<1> QED  BY <1>1, <1>5, <1>7

\* Two snapshots with the signature of one publication, both verified: same content.
LEMMA VerifiedContent ==
  ASSUME NEW p \in Publications, NEW s, NEW k, NEW t,
         s.mapSignature = p.mapSignature,
         VerifySignatureAt(s, k, t)
  PROVE  Content(s) = Content(p) /\ s.mapSignature # {}
<1>1. PICK sig : p.mapSignature = {sig} /\ sig.signature.over = PayloadUnder(p, sig)
  BY PublicationSigned
<1>2. sig.signature = Ed25519Sign(TrimSpace[k], PayloadUnder(s, sig))
  BY <1>1 DEF VerifySignatureAt
<1>3. sig.signature.over = PayloadUnder(s, sig)
  BY <1>2 DEF Ed25519Sign
<1> QED
  BY <1>1, <1>3 DEF Content

-----------------------------------------------------------------------------

\* The fields of a copy.
LEMMA CloneFields ==
  ASSUME NEW s, DOMAIN s = DOMAIN ZeroSnapshot, NEW t, t = CloneNetworkMapSnapshot(s)
  PROVE  /\ DOMAIN t = DOMAIN ZeroSnapshot /\ t.peers = ClonePeers(s.peers)
         /\ t.revision = s.revision /\ t.network = s.network /\ t.node = s.node
         /\ t.registrationBinding = s.registrationBinding
         /\ t.stunEndpoints = s.stunEndpoints /\ t.relays = s.relays
         /\ t.relayCredential = s.relayCredential /\ t.mapSignature = s.mapSignature
BY SnapshotFields DEF CloneNetworkMapSnapshot

\* A map whose peers are copies is its own copy.
LEMMA CloneOfCopy ==
  ASSUME NEW s, DOMAIN s = DOMAIN ZeroSnapshot, s = [f \in DOMAIN ZeroSnapshot |-> s[f]],
         ClonePeers(s.peers) = s.peers
  PROVE  CloneNetworkMapSnapshot(s) = s
BY SnapshotFields DEF CloneNetworkMapSnapshot

\* What applyMapDelta makes of a map, field by field.
LEMMA DeltaShape ==
  ASSUME NEW c, NEW d, DOMAIN c = DOMAIN ZeroSnapshot
  PROVE  /\ \A s \in ApplyMapDelta(c, d) :
              /\ DOMAIN s = DOMAIN ZeroSnapshot
              /\ s.network = Override(d.network, c.network)
              /\ s.node = Override(d.node, c.node)
              /\ s.stunEndpoints = Override(d.stunEndpoints, c.stunEndpoints)
              /\ s.relayCredential = IF d.relayCredential = {} THEN c.relayCredential
                                     ELSE d.relayCredential
              /\ s.registrationBinding = c.registrationBinding
              /\ s.peers = ClonePeers(MergeByID(ClonePeers(c.peers), d.peerUpserts,
                                                d.peerRemoveIDs))
              /\ s.relays = MergeByID(c.relays, d.relayUpserts, d.relayRemoveIDs)
         /\ \A s, t \in ApplyMapDelta(c, d) : s = t
         /\ /\ Mergeable(d.peerUpserts, d.peerRemoveIDs)
            /\ Mergeable(d.relayUpserts, d.relayRemoveIDs)
            => ApplyMapDelta(c, d) # {}
<1>1. PICK b : b = CloneNetworkMapSnapshot(c)  OBVIOUS
<1>2. PICK m : m = [b EXCEPT
        !.network         = Override(d.network, @),
        !.node            = Override(d.node, @),
        !.stunEndpoints   = Override(d.stunEndpoints, @),
        !.relayCredential = IF d.relayCredential = {} THEN @ ELSE d.relayCredential,
        !.peers           = MergeByID(@, d.peerUpserts, d.peerRemoveIDs),
        !.relays          = MergeByID(@, d.relayUpserts, d.relayRemoveIDs)]
  OBVIOUS
<1>3. PICK n : n = CloneNetworkMapSnapshot(m)  OBVIOUS
<1>4. ApplyMapDelta(c, d) = IF /\ Mergeable(d.peerUpserts, d.peerRemoveIDs)
                               /\ Mergeable(d.relayUpserts, d.relayRemoveIDs)
                            THEN {n} ELSE {}
  BY <1>1, <1>2, <1>3 DEF ApplyMapDelta
<1>5. /\ DOMAIN b = DOMAIN ZeroSnapshot /\ b.peers = ClonePeers(c.peers)
      /\ b.network = c.network /\ b.node = c.node /\ b.stunEndpoints = c.stunEndpoints
      /\ b.relays = c.relays /\ b.relayCredential = c.relayCredential
      /\ b.registrationBinding = c.registrationBinding
  BY <1>1, CloneFields
<1>6. /\ DOMAIN m = DOMAIN ZeroSnapshot
      /\ m.network = Override(d.network, b.network)
      /\ m.node = Override(d.node, b.node)
      /\ m.stunEndpoints = Override(d.stunEndpoints, b.stunEndpoints)
      /\ m.relayCredential = IF d.relayCredential = {} THEN b.relayCredential
                             ELSE d.relayCredential
      /\ m.registrationBinding = b.registrationBinding
      /\ m.peers = MergeByID(b.peers, d.peerUpserts, d.peerRemoveIDs)
      /\ m.relays = MergeByID(b.relays, d.relayUpserts, d.relayRemoveIDs)
  BY <1>2, <1>5, SnapshotFields
<1>7. /\ DOMAIN n = DOMAIN ZeroSnapshot /\ n.peers = ClonePeers(m.peers)
      /\ n.network = m.network /\ n.node = m.node /\ n.stunEndpoints = m.stunEndpoints
      /\ n.relays = m.relays /\ n.relayCredential = m.relayCredential
      /\ n.registrationBinding = m.registrationBinding
  BY <1>3, <1>6, CloneFields
<1> QED  BY <1>4, <1>5, <1>6, <1>7

\* There is at most one reconstructed map; it carries the event's revision and signature,
\* and is its own copy.
LEMMA ReconstructedShape ==
  ASSUME NEW c, DOMAIN c = DOMAIN ZeroSnapshot,
         NEW P, \A s \in P : DOMAIN s = DOMAIN ZeroSnapshot,
         NEW e, EventSigned(e, P)
  PROVE  /\ \A n \in Reconstructed(c, e) :
              /\ DOMAIN n = DOMAIN ZeroSnapshot
              /\ n.revision = e.to
              /\ n.mapSignature = e.resultSignature
              /\ CloneNetworkMapSnapshot(n) = n
         /\ \A n, m \in Reconstructed(c, e) : n = m
<1> DEFINE S == IF e.type = "delta" THEN ApplyMapDelta(c, Deref(e.delta))
                ELSE {CloneNetworkMapSnapshot(full) : full \in e.snapshot}
<1>1. ASSUME NEW s \in S PROVE DOMAIN s = DOMAIN ZeroSnapshot /\ \E x : s.peers = ClonePeers(x)
  <2>1. CASE e.type = "delta"
    <3>1. PICK d : d = Deref(e.delta)  OBVIOUS
    <3>2. s \in ApplyMapDelta(c, d)  BY <2>1, <3>1
    <3> QED  BY <3>2, DeltaShape
  <2>2. CASE e.type # "delta"
    <3>1. PICK full \in e.snapshot : s = CloneNetworkMapSnapshot(full)  BY <2>2
    <3>2. DOMAIN full = DOMAIN ZeroSnapshot  BY DEF EventSigned
    <3> QED  BY <3>1, <3>2, CloneFields
  <2> QED  BY <2>1, <2>2
<1>2. \A s, t \in S : s = t
  BY DeltaShape DEF EventSigned
<1>3. Reconstructed(c, e) =
        {[s EXCEPT !.revision = e.to, !.mapSignature = e.resultSignature] : s \in S}
  BY DEF Reconstructed
<1> HIDE DEF S
<1>4. ASSUME NEW n \in Reconstructed(c, e)
      PROVE  DOMAIN n = DOMAIN ZeroSnapshot /\ n.revision = e.to
             /\ n.mapSignature = e.resultSignature /\ CloneNetworkMapSnapshot(n) = n
  <2>1. PICK s \in S : n = [s EXCEPT !.revision = e.to, !.mapSignature = e.resultSignature]
    BY <1>3
  <2>2. DOMAIN s = DOMAIN ZeroSnapshot  BY <1>1
  <2>3. PICK x : s.peers = ClonePeers(x)  BY <1>1
  <2>4. /\ DOMAIN n = DOMAIN ZeroSnapshot /\ n.revision = e.to
        /\ n.mapSignature = e.resultSignature /\ n.peers = s.peers
    BY <2>1, <2>2, SnapshotFields
  <2>5. n = [f \in DOMAIN ZeroSnapshot |-> n[f]]  BY <2>1, <2>2
  <2>6. ClonePeers(n.peers) = n.peers  BY <2>3, <2>4, CopiedPeers
  <2> QED  BY <2>4, <2>5, <2>6, CloneOfCopy
<1>5. \A n, m \in Reconstructed(c, e) : n = m
  BY <1>2, <1>3
<1> QED
  BY <1>4, <1>5

\* A map that ApplyMapStreamEvent returns without error for a snapshot, resync or delta
\* event has been validated and verified, under the event's signature.
LEMMA CommitVerified ==
  ASSUME NEW c, DOMAIN c = DOMAIN ZeroSnapshot,
         NEW P, \A s \in P : DOMAIN s = DOMAIN ZeroSnapshot,
         NEW e, EventSigned(e, P), NEW tr, NEW t,
         ApplyMapStreamEvent(c, e, tr, t).err = "none",
         e.type \notin {"heartbeat", "checkpoint"}
  PROVE  LET n == ApplyMapStreamEvent(c, e, tr, t).snapshot
         IN  /\ DOMAIN n = DOMAIN ZeroSnapshot
             /\ n.revision = e.to
             /\ n.mapSignature = e.resultSignature
             /\ CloneNetworkMapSnapshot(n) = n
             /\ VerifyMapStreamResult(n, tr, t)
<1> DEFINE n == ApplyMapStreamEvent(c, e, tr, t).snapshot
<1>1. ApplyError(c, e, tr, t) = "none"
  BY DEF ApplyMapStreamEvent
<1>2. PICK m \in Reconstructed(c, e) : VerifyMapStreamResult(m, tr, t)
  BY <1>1 DEF ApplyError
<1>3. n = Deref(Reconstructed(c, e))
  BY <1>1 DEF ApplyMapStreamEvent
<1>4. n = m
  BY <1>2, <1>3, ReconstructedShape DEF Deref
<1> QED
  BY <1>2, <1>4, ReconstructedShape

\* A checkpoint or heartbeat that is not refused leaves a copy of the map.
LEMMA CheckpointKeeps ==
  ASSUME NEW c, NEW e, NEW tr, NEW t,
         ApplyMapStreamEvent(c, e, tr, t).err = "none",
         e.type \in {"heartbeat", "checkpoint"}
  PROVE  ApplyMapStreamEvent(c, e, tr, t).snapshot = CloneNetworkMapSnapshot(c)
<1>1. ApplyError(c, e, tr, t) = "none"
  BY DEF ApplyMapStreamEvent
<1> QED
  BY <1>1 DEF ApplyMapStreamEvent

LEMMA AppendSet ==
  ASSUME NEW S, NEW q \in Seq(S), NEW x
  PROVE  ToSet(Append(q, x)) = ToSet(q) \cup {x}
<1>1. DOMAIN q = 1 .. Len(q) /\ Len(q) \in Nat
  OBVIOUS
<1>2. DOMAIN Append(q, x) = 1 .. (Len(q) + 1)
  OBVIOUS
<1>3. \A i \in 1 .. Len(q) : Append(q, x)[i] = q[i]
  OBVIOUS
<1>4. Append(q, x)[Len(q) + 1] = x
  OBVIOUS
<1>5. 1 .. (Len(q) + 1) = (1 .. Len(q)) \cup {Len(q) + 1}
  BY <1>1
<1> HIDE DEF ToSet
<1> QED
  BY <1>1, <1>2, <1>3, <1>4, <1>5 DEF ToSet

LEMMA PublishedShape ==
  ASSUME TypeOK
  PROVE  \A s \in ToSet(published) :
           s \in Publications /\ DOMAIN s = DOMAIN ZeroSnapshot /\ s.revision \in Nat
<1>1. \A s \in ToSet(published) : s \in Publications
  BY DEF TypeOK, ToSet
<1> QED
  BY <1>1, PublicationSigned

-----------------------------------------------------------------------------
(* Messages *)

\* The three kinds of event a coordinator builds from publications are signed by one.
LEMMA BuiltEvents ==
  ASSUME NEW P, NEW s \in P, NEW a \in P, NEW type \in {"snapshot", "resync"}, NEW h,
         s.revision \in Nat, a.revision \in Nat
  PROVE  /\ EventSigned(FullEvent(type, s), P)
         /\ EventSigned(DeltaEvent(a, s), P)
         /\ EventSigned(CheckpointEvent(a, h), P)
BY DEF EventSigned, FullEvent, DeltaEvent, CheckpointEvent, Event, EventTypes, ZeroRevision

\* Exchanging the signature for the one of another publication keeps that.
LEMMA TornEvents ==
  ASSUME NEW P, NEW s \in P, NEW e, EventSigned(e, P),
         DOMAIN e = {"eventID", "type", "from", "to", "baseHash", "snapshot", "delta",
                     "resultSignature"}
  PROVE  EventSigned([e EXCEPT !.resultSignature = s.mapSignature], P)
BY DEF EventSigned

LEMMA EventFields ==
  ASSUME NEW a, NEW s, NEW type, NEW h
  PROVE  LET F == {"eventID", "type", "from", "to", "baseHash", "snapshot", "delta",
                   "resultSignature"}
         IN  /\ DOMAIN FullEvent(type, s) = F
             /\ DOMAIN DeltaEvent(a, s) = F
             /\ DOMAIN CheckpointEvent(a, h) = F
BY DEF FullEvent, DeltaEvent, CheckpointEvent, Event

LEMMA HeadPublished ==
  ASSUME TypeOK, published # <<>>
  PROVE  Head0 \in ToSet(published)
BY DEF TypeOK, Head0, ToSet

LEMMA FreshSigned ==
  ASSUME TypeOK, published # <<>>, NEW e \in FreshEvents
  PROVE  EventSigned(e, ToSet(published))
<1> DEFINE P == ToSet(published)
<1>1. Head0 \in P /\ \A s \in P : s.revision \in Nat
  BY HeadPublished, PublishedShape
<1>2. CASE e = FullEvent(IF needFull THEN "resync" ELSE "snapshot", Head0)
  BY <1>1, <1>2, BuiltEvents
<1>3. CASE \E a \in P : e = CheckpointEvent(a, CurrentMapHash(a)) \/ e = DeltaEvent(a, Head0)
  BY <1>1, <1>3, BuiltEvents
<1> QED
  BY <1>2, <1>3 DEF FreshEvents

LEMMA AnySigned ==
  ASSUME TypeOK, NEW e \in AnyEvents
  PROVE  EventSigned(e, ToSet(published))
<1> DEFINE P == ToSet(published)
           F == {"eventID", "type", "from", "to", "baseHash", "snapshot", "delta",
                 "resultSignature"}
           Built(x) == \/ \E type \in {"snapshot", "resync"}, s \in P : x = FullEvent(type, s)
                       \/ \E s \in P, h \in {{}} \cup {CurrentMapHash(s) : s \in P} :
                            x = CheckpointEvent(s, h)
                       \/ \E a \in P, s \in P : x = DeltaEvent(a, s)
<1>r. \A s \in P : s.revision \in Nat
  BY PublishedShape
<1>2. ASSUME NEW x, Built(x)
      PROVE  EventSigned(x, P) /\ DOMAIN x = F
  <2>1. CASE \E type \in {"snapshot", "resync"}, s \in P : x = FullEvent(type, s)
    BY <1>r, <2>1, BuiltEvents, EventFields
  <2>2. CASE \E s \in P, h \in {{}} \cup {CurrentMapHash(s) : s \in P} : x = CheckpointEvent(s, h)
    <3>1. PICK s \in P, h \in {{}} \cup {CurrentMapHash(s) : s \in P} : x = CheckpointEvent(s, h)
      BY <2>2
    <3> QED
      BY <1>r, <3>1, BuiltEvents, EventFields
  <2>3. CASE \E a \in P, s \in P : x = DeltaEvent(a, s)
    BY <1>r, <2>3, BuiltEvents, EventFields
  <2> QED
    BY <1>2, <2>1, <2>2, <2>3
<1>3. \/ Built(e)
      \/ \E x, s : Built(x) /\ s \in P /\ e = [x EXCEPT !.resultSignature = s.mapSignature]
  BY DEF AnyEvents
<1> HIDE DEF P, F, Built
<1> QED
  BY <1>2, <1>3, TornEvents DEF F, P

\* A growing set of publications keeps messages signed.
LEMMA SignedMonotone ==
  ASSUME NEW P, NEW Q, P \subseteq Q, NEW e, EventSigned(e, P)
  PROVE  EventSigned(e, Q)
BY DEF EventSigned

-----------------------------------------------------------------------------
(* Lists and hashes *)

\* A publication's peers and relays are lists, like those of the projection it is made of.
ListMap(s) == IsList(s.peers) /\ IsList(s.relays)

LEMMA PublicationLists ==
  ASSUME NEW s \in Publications
  PROVE  ListMap(s)
<1>1. PICK c \in Projections, r \in 1 .. MaxPublished, k \in SigningKeys, t \in IssueTimes :
             s = SignedSnapshot(c, r, k, t)
  BY DEF Publications
<1>2. DOMAIN c = DOMAIN ZeroSnapshot /\ IsList(c.peers) /\ IsList(c.relays)
  BY MapStreamAssumption DEF IsList
<1>3. s.peers = c.peers /\ s.relays = c.relays
  <2>1. PICK u : u = [c EXCEPT !.revision = r]  OBVIOUS
  <2>2. PICK sigs : s = [u EXCEPT !.mapSignature = sigs]  BY <1>1, <2>1 DEF SignedSnapshot
  <2>3. DOMAIN u = DOMAIN ZeroSnapshot /\ u.peers = c.peers /\ u.relays = c.relays
    BY <1>2, <2>1, SnapshotFields
  <2> QED  BY <2>2, <2>3, SnapshotFields
<1> QED  BY <1>2, <1>3 DEF ListMap

\* What the hash that a map claims says.
HashContent(s) == {Reading(h) : h \in CurrentMapHash(s)}

\* The hash that a publication claims is the one of its own content.
LEMMA PublicationHash ==
  ASSUME NEW s \in Publications
  PROVE  HashContent(s) = Content(s) /\ Content(s) # {} /\ s.mapSignature # {}
         /\ CurrentMapHash(s) # {}
<1>1. PICK sig : s.mapSignature = {sig} /\ sig.payloadHash = PayloadUnder(s, sig)
  BY PublicationSigned
<1> QED  BY <1>1 DEF HashContent, CurrentMapHash, Content

\* So is the one of a map that verifies under the signature of a publication.
LEMMA VerifiedHash ==
  ASSUME NEW p \in Publications, NEW s, NEW k, NEW t,
         s.mapSignature = p.mapSignature, VerifySignatureAt(s, k, t)
  PROVE  HashContent(s) = Content(s)
<1>1. PICK sig : s.mapSignature = {sig}  BY PublicationSigned
<1>2. sig.payloadHash = PayloadUnder(s, sig)  BY <1>1 DEF VerifySignatureAt
<1> QED  BY <1>1, <1>2 DEF HashContent, CurrentMapHash, Content

\* A copy says what its original says, under the same signature and hash.
LEMMA CloneContent ==
  ASSUME NEW s, DOMAIN s = DOMAIN ZeroSnapshot, NEW t, t = CloneNetworkMapSnapshot(s)
  PROVE  Content(t) = Content(s) /\ HashContent(t) = HashContent(s)
<1>1. /\ t.peers = ClonePeers(s.peers) /\ t.mapSignature = s.mapSignature
      /\ t.revision = s.revision /\ t.network = s.network /\ t.node = s.node
      /\ t.registrationBinding = s.registrationBinding
      /\ t.stunEndpoints = s.stunEndpoints /\ t.relays = s.relays
  BY CloneFields
<1>2. Copies(t.peers) = Copies(s.peers)  BY <1>1, CopiedPeers
<1>3. \A sig : Reading(PayloadUnder(t, sig)) = Reading(PayloadUnder(s, sig))
  BY <1>1, <1>2, ReadingOf
<1> QED  BY <1>1, <1>3 DEF Content, HashContent, CurrentMapHash

\* The copy of a valid map is valid.
LEMMA CloneValid ==
  ASSUME NEW s, DOMAIN s = DOMAIN ZeroSnapshot, NEW t, t = CloneNetworkMapSnapshot(s),
         ListMap(s)
  PROVE  /\ ListMap(t)
         /\ ValidateNetworkMapSnapshot(s) => ValidateNetworkMapSnapshot(t)
<1>1. /\ t.peers = ClonePeers(s.peers) /\ t.network = s.network /\ t.node = s.node
      /\ t.stunEndpoints = s.stunEndpoints /\ t.relays = s.relays
      /\ t.relayCredential = s.relayCredential
  BY CloneFields
<1>2. IsList(s.peers) /\ IsList(s.relays) /\ IsList(t.peers) /\ IsList(t.relays)
  BY <1>1, CopiedPeers DEF ListMap
<1>3. ASSUME ValidateNetworkMapSnapshot(s) PROVE ValidateNetworkMapSnapshot(t)
  <2>1. UniqueIDs(s.peers) /\ ValidateRelayCredential(s)
    BY <1>3, Zenon DEF ValidateNetworkMapSnapshot
  <2>2. UniqueIDs(t.peers) /\ Copies(t.peers) = Copies(s.peers)
    BY <1>1, <2>1, CopiedPeers
  <2>3. SameMembers(s, t)  BY <1>1, <2>2 DEF SameMembers
  <2>4. ValidateRelayCredential(t)  BY <1>1, <2>1 DEF ValidateRelayCredential
  <2> QED  BY <1>2, <1>3, <2>2, <2>3, <2>4, SameValid
<1> QED  BY <1>2, <1>3 DEF ListMap

LEMMA CloneZero == CloneNetworkMapSnapshot(ZeroSnapshot) = ZeroSnapshot
<1>1. ZeroSnapshot.peers = <<>>  BY DEF ZeroSnapshot
<1>2. ClonePeers(<<>>) = <<>>  BY DEF ClonePeers
<1>3. ZeroSnapshot = [f \in DOMAIN ZeroSnapshot |-> ZeroSnapshot[f]]  BY DEF ZeroSnapshot
<1> QED  BY <1>1, <1>2, <1>3, CloneOfCopy

\* A copy of a copy.
LEMMA CloneAgain ==
  ASSUME NEW s, DOMAIN s = DOMAIN ZeroSnapshot, NEW t, t = CloneNetworkMapSnapshot(s)
  PROVE  CloneNetworkMapSnapshot(t) = t
<1>1. DOMAIN t = DOMAIN ZeroSnapshot /\ t.peers = ClonePeers(s.peers)  BY CloneFields
<1>2. t = [f \in DOMAIN ZeroSnapshot |-> t[f]]  BY DEF CloneNetworkMapSnapshot
<1>3. ClonePeers(t.peers) = t.peers  BY <1>1, CopiedPeers
<1> QED  BY <1>1, <1>2, <1>3, CloneOfCopy

\* The lists of a delta in flight.
DeltaLists(e) == \A d \in e.delta : IsList(d.peerUpserts) /\ IsList(d.relayUpserts)

LEMMA BuiltLists ==
  ASSUME NEW a, NEW s, NEW type, NEW h, ListMap(a), ListMap(s)
  PROVE  /\ DeltaLists(FullEvent(type, s)) /\ DeltaLists(CheckpointEvent(a, h))
         /\ DeltaLists(DeltaEvent(a, s))
<1>1. DeltaLists(FullEvent(type, s)) /\ DeltaLists(CheckpointEvent(a, h))
  BY DEF DeltaLists, FullEvent, CheckpointEvent, Event
<1>2. ASSUME NEW x, NEW y, IsList(y) PROVE IsList(Pick(y, New(x, y)))
  <2>1. New(x, y) \in SUBSET DOMAIN y  BY DEF New
  <2>2. PICK I : I = New(x, y)  OBVIOUS
  <2> QED  BY <1>2, <2>1, <2>2, Picked
<1>3. PICK d : d = DiffMap(a, s)  OBVIOUS
<1>4. d.peerUpserts = Pick(s.peers, New(a.peers, s.peers))
  BY <1>3 DEF DiffMap, New
<1>5. d.relayUpserts = Pick(s.relays, New(a.relays, s.relays))
  BY <1>3 DEF DiffMap, New
<1>6. IsList(d.peerUpserts) /\ IsList(d.relayUpserts)  BY <1>2, <1>4, <1>5 DEF ListMap
<1>7. DeltaEvent(a, s).delta = {d}  BY <1>3 DEF DeltaEvent, Event
<1> QED  BY <1>1, <1>6, <1>7 DEF DeltaLists

LEMMA PublishedLists ==
  ASSUME TypeOK
  PROVE  \A s \in ToSet(published) : ListMap(s)
BY PublishedShape, PublicationLists

LEMMA FreshLists ==
  ASSUME TypeOK, published # <<>>, NEW e \in FreshEvents
  PROVE  DeltaLists(e)
<1> DEFINE P == ToSet(published)
<1>1. Head0 \in P /\ \A s \in P : ListMap(s)
  BY HeadPublished, PublishedLists
<1>2. CASE e = FullEvent(IF needFull THEN "resync" ELSE "snapshot", Head0)
  BY <1>1, <1>2, BuiltLists
<1>3. CASE \E a \in P : e = CheckpointEvent(a, CurrentMapHash(a)) \/ e = DeltaEvent(a, Head0)
  BY <1>1, <1>3, BuiltLists
<1> QED
  BY <1>2, <1>3 DEF FreshEvents

LEMMA AnyLists ==
  ASSUME TypeOK, NEW e \in AnyEvents
  PROVE  DeltaLists(e)
<1> DEFINE P == ToSet(published)
           Built(x) == \/ \E type \in {"snapshot", "resync"}, s \in P : x = FullEvent(type, s)
                       \/ \E s \in P, h \in {{}} \cup {CurrentMapHash(s) : s \in P} :
                            x = CheckpointEvent(s, h)
                       \/ \E a \in P, s \in P : x = DeltaEvent(a, s)
<1>2. \A s \in P : ListMap(s)
  BY PublishedLists
<1>3. ASSUME NEW x, Built(x)
      PROVE  DeltaLists(x) /\ "delta" \in DOMAIN x
  <2>1. CASE \E type \in {"snapshot", "resync"}, s \in P : x = FullEvent(type, s)
    BY <1>2, <2>1, BuiltLists, EventFields
  <2>2. CASE \E s \in P, h \in {{}} \cup {CurrentMapHash(s) : s \in P} : x = CheckpointEvent(s, h)
    <3>1. PICK s \in P, h \in {{}} \cup {CurrentMapHash(s) : s \in P} : x = CheckpointEvent(s, h)
      BY <2>2
    <3> QED
      BY <1>2, <3>1, BuiltLists, EventFields
  <2>3. CASE \E a \in P, s \in P : x = DeltaEvent(a, s)
    BY <1>2, <2>3, BuiltLists, EventFields
  <2> QED
    BY <1>3, <2>1, <2>2, <2>3
<1>4. \/ Built(e)
      \/ \E x, s : Built(x) /\ s \in P /\ e = [x EXCEPT !.resultSignature = s.mapSignature]
  BY DEF AnyEvents
<1> HIDE DEF P, Built
<1>5. ASSUME NEW x, NEW s, Built(x), e = [x EXCEPT !.resultSignature = s.mapSignature]
      PROVE  DeltaLists(e)
  <2>1. e.delta = x.delta  BY <1>3, <1>5
  <2> QED  BY <1>3, <1>5, <2>1 DEF DeltaLists
<1> QED
  BY <1>3, <1>4, <1>5

\* A reconstructed map has lists again.
LEMMA ReconstructedLists ==
  ASSUME NEW c, DOMAIN c = DOMAIN ZeroSnapshot, ListMap(c),
         NEW P, \A s \in P : DOMAIN s = DOMAIN ZeroSnapshot /\ ListMap(s),
         NEW e, EventSigned(e, P), DeltaLists(e), e.type = "delta" => e.delta # {},
         NEW n \in Reconstructed(c, e)
  PROVE  ListMap(n)
<1> DEFINE S == IF e.type = "delta" THEN ApplyMapDelta(c, Deref(e.delta))
                ELSE {CloneNetworkMapSnapshot(full) : full \in e.snapshot}
<1>1. ASSUME NEW s \in S PROVE DOMAIN s = DOMAIN ZeroSnapshot /\ ListMap(s)
  <2>1. CASE e.type # "delta"
    <3>1. PICK full \in e.snapshot : s = CloneNetworkMapSnapshot(full)  BY <2>1
    <3>2. DOMAIN full = DOMAIN ZeroSnapshot /\ ListMap(full)  BY DEF EventSigned
    <3> QED  BY <3>1, <3>2, CloneFields, CloneValid
  <2>2. CASE e.type = "delta"
    <3>1. PICK d : d = Deref(e.delta)  OBVIOUS
    <3>2. IsList(d.peerUpserts) /\ IsList(d.relayUpserts)
      BY <2>2, <3>1 DEF Deref, DeltaLists
    <3>3. s \in ApplyMapDelta(c, d)  BY <2>2, <3>1
    <3>4. PICK x, y :
            /\ x = MergeByID(ClonePeers(c.peers), d.peerUpserts, d.peerRemoveIDs)
            /\ y = MergeByID(c.relays, d.relayUpserts, d.relayRemoveIDs)
            /\ s.peers = ClonePeers(x) /\ s.relays = y
            /\ DOMAIN s = DOMAIN ZeroSnapshot
      BY <3>3, DeltaShape
    <3>5. IsList(ClonePeers(c.peers)) /\ IsList(c.relays)  BY CopiedPeers DEF ListMap
    <3>6. IsList(x) /\ IsList(y)  BY <3>2, <3>4, <3>5, MergeList
    <3> QED  BY <3>4, <3>6, CopiedPeers DEF ListMap
  <2> QED  BY <2>1, <2>2
<1>2. PICK s \in S : n = [s EXCEPT !.revision = e.to, !.mapSignature = e.resultSignature]
  BY DEF Reconstructed
<1> HIDE DEF S
<1>3. n.peers = s.peers /\ n.relays = s.relays  BY <1>1, <1>2, SnapshotFields
<1> QED  BY <1>1, <1>3 DEF ListMap

\* The hash the node's map claims is the one of its content, its lists are lists, and so
\* are the ones of the delta it has read.
CInv ==
  /\ ListMap(cache)
  /\ HashContent(cache) = Content(cache)
  /\ \A e \in pending : DeltaLists(e)

LEMMA InitCInv == Init => CInv
<1> SUFFICES ASSUME Init PROVE CInv  OBVIOUS
<1>1. cache.peers = <<>> /\ cache.relays = <<>> /\ cache.mapSignature = {} /\ pending = {}
  BY DEF Init, ZeroSnapshot
<1>2. <<>> \in Seq({})  OBVIOUS
<1>3. IsList(<<>>)  BY <1>2, ListOf
<1>4. ListMap(cache)  BY <1>1, <1>3 DEF ListMap
<1>5. HashContent(cache) = Content(cache)  BY <1>1 DEF HashContent, CurrentMapHash, Content
<1> QED  BY <1>1, <1>4, <1>5 DEF CInv

-----------------------------------------------------------------------------
(* The inductive invariant *)

LEMMA InitIInv == Init => IInv
<1> SUFFICES ASSUME Init PROVE IInv
  OBVIOUS
<1>1. TypeOK
  <2>1. published \in Seq(Publications) /\ Len(published) = 0
    BY DEF Init
  <2>2. /\ now \in 0 .. MaxTime /\ stale \in 0 .. MaxStale
        /\ epoch \in DOMAIN TrustBundles /\ 0 <= MaxPublished
    BY MapStreamAssumption DEF Init
  <2> QED
    BY <2>1, <2>2 DEF Init, TypeOK, ZeroSnapshot, ZeroRevision
<1>2. MessagesSigned
  BY DEF Init, MessagesSigned
<1>3. CacheAuthentic
  <2>1. cache.mapSignature = {}
    BY DEF Init, ZeroSnapshot
  <2> QED
    BY <2>1 DEF Init, CacheAuthentic, Content
<1>4. CacheValid
  BY DEF Init, CacheValid
<1>5. RevisionsBounded
  BY DEF Init, RevisionsBounded
<1> QED
  BY <1>1, <1>2, <1>3, <1>4, <1>5 DEF IInv

\* A revision of the control plane stays within the number of publications.
LEMMA RevisionBound ==
  ASSUME TypeOK, Len(published) < MaxPublished, NEW content \in Projections,
         RevisionsBounded
  PROVE  NextRevision(content) \in 1 .. (Len(published) + 1)
BY DEF TypeOK, NextRevision, Head0, RevisionsBounded

\* Publishing adds one publication and nothing else to what is signed.
LEMMA PublishStep ==
  ASSUME IInv, NEW content \in Projections, NEW key \in SigningKeys,
         NEW offset \in ClockOffsets, Publish(content, key, offset)
  PROVE  \E s \in Publications :
           /\ published' = Append(published, s)
           /\ s.revision \in 1 .. (Len(published) + 1)
           /\ ToSet(published)' = ToSet(published) \cup {s}
           /\ published' \in Seq(Publications)
<1> DEFINE r == NextRevision(content)
           t == now + offset
           s == SignedSnapshot(content, r, key, t)
<1>1. r \in 1 .. (Len(published) + 1)
  BY RevisionBound DEF IInv, Publish
<1>2. r \in 1 .. MaxPublished
  BY <1>1, MapStreamAssumption DEF IInv, TypeOK, Publish
<1>3. t \in IssueTimes
  BY DEF IInv, TypeOK, IssueTimes
<1>4. s \in Publications
  BY <1>2, <1>3 DEF Publications
<1>5. published' = Append(published, s)
  BY DEF Publish
<1>6. s.revision = r
  <2>1. DOMAIN content = DOMAIN ZeroSnapshot
    BY MapStreamAssumption
  <2> QED
    BY <2>1, SnapshotFields DEF SignedSnapshot
<1> HIDE DEF s, r
<1>7. published \in Seq(Publications)
  BY DEF IInv, TypeOK
<1>8. ToSet(published') = ToSet(published) \cup {s}
  BY <1>5, <1>7, AppendSet
<1>9. ToSet(published)' = ToSet(published')
  BY DEF ToSet
<1> QED
  BY <1>1, <1>4, <1>5, <1>6, <1>7, <1>8, <1>9

LEMMA PublishIInv ==
  ASSUME IInv, NEW content \in Projections, NEW key \in SigningKeys,
         NEW offset \in ClockOffsets, Publish(content, key, offset)
  PROVE  IInv'
<1>1. PICK s \in Publications :
        /\ published' = Append(published, s)
        /\ s.revision \in 1 .. (Len(published) + 1)
        /\ ToSet(published)' = ToSet(published) \cup {s}
        /\ published' \in Seq(Publications)
  BY PublishStep
<1>2. UNCHANGED <<now, epoch, cache, needFull, pending, response, stale>>
  BY DEF Publish
<1>3. TypeOK'
  <2>1. Len(published') <= MaxPublished
    BY <1>1, MapStreamAssumption DEF IInv, TypeOK, Publish
  <2>2. \A r \in response : DOMAIN r = {"snapshot", "key"} /\ r.snapshot \in ToSet(published)'
    BY <1>1 DEF IInv, TypeOK
  <2> QED
    BY <1>1, <1>2, <2>1, <2>2 DEF IInv, TypeOK
<1>4. MessagesSigned'
  BY <1>1, <1>2, SignedMonotone DEF IInv, MessagesSigned
<1>5. CacheAuthentic'
  <2>1. SignedContents \subseteq SignedContents'
    BY <1>1 DEF SignedContents, Content
  <2>2. Content(cache)' = Content(cache)
    BY <1>2 DEF Content
  <2> QED
    BY <1>2, <2>1, <2>2 DEF IInv, CacheAuthentic
<1>6. CacheValid'
  BY <1>2 DEF IInv, CacheValid
<1>7. RevisionsBounded'
  BY <1>1 DEF IInv, TypeOK, RevisionsBounded
<1> QED
  BY <1>3, <1>4, <1>5, <1>6, <1>7 DEF IInv

\* A map verified under the signature of a publication has that publication's content.
LEMMA VerifiedIsSigned ==
  ASSUME TypeOK, NEW n, NEW k, NEW t, NEW s \in ToSet(published),
         n.mapSignature = s.mapSignature, VerifySignatureAt(n, k, t)
  PROVE  Content(n) = Content(s) /\ Content(n) \subseteq SignedContents /\ n.mapSignature # {}
<1>1. s \in Publications
  BY PublishedShape
<1>2. Content(n) = Content(s) /\ n.mapSignature # {}
  BY <1>1, VerifiedContent
<1> QED
  BY <1>2 DEF SignedContents

\* What applying an event does to the cache: nothing, or a copy takes its place, or a
\* verified map under the signature of some publication.
LEMMA ApplyCache ==
  ASSUME IInv, ApplyEvent
  PROVE  \/ cache' = cache
         \/ \E e \in pending :
              /\ e.type \in {"heartbeat", "checkpoint"}
              /\ ApplyMapStreamEvent(cache, e, trust, now).err = "none"
              /\ cache' = CloneNetworkMapSnapshot(cache)
         \/ \E s \in ToSet(published), e \in pending :
              /\ e.type \notin {"heartbeat", "checkpoint"}
              /\ CloneNetworkMapSnapshot(cache') = cache'
              /\ cache' = ApplyMapStreamEvent(cache, e, trust, now).snapshot
              /\ DOMAIN cache' = DOMAIN ZeroSnapshot
              /\ cache'.revision = e.to
              /\ cache'.mapSignature = e.resultSignature
              /\ cache'.mapSignature = s.mapSignature
              /\ VerifyMapStreamResult(cache', trust, now)
<1>1. PICK e \in pending :
        cache' = IF ApplyMapStreamEvent(cache, e, trust, now).err = "none"
                 THEN ApplyMapStreamEvent(cache, e, trust, now).snapshot ELSE cache
  BY DEF ApplyEvent
<1> DEFINE out == ApplyMapStreamEvent(cache, e, trust, now)
           P == ToSet(published)
<1>2. EventSigned(e, P)
  BY DEF IInv, MessagesSigned
<1>3. \A s \in P : DOMAIN s = DOMAIN ZeroSnapshot
  BY PublishedShape DEF IInv
<1>4. DOMAIN cache = DOMAIN ZeroSnapshot
  BY DEF IInv, TypeOK
<1>5. CASE out.err = "none" /\ e.type \notin {"heartbeat", "checkpoint"}
  <2>1. /\ DOMAIN cache' = DOMAIN ZeroSnapshot
        /\ cache'.revision = e.to
        /\ cache'.mapSignature = e.resultSignature
        /\ VerifyMapStreamResult(cache', trust, now)
        /\ CloneNetworkMapSnapshot(cache') = cache'
    BY <1>1, <1>2, <1>3, <1>4, <1>5, CommitVerified
  <2>2. e.resultSignature # {}
    BY <2>1 DEF VerifyMapStreamResult
  <2>3. PICK s \in P : e.resultSignature = s.mapSignature
    BY <1>2, <2>2 DEF EventSigned
  <2>4. cache' = out.snapshot
    BY <1>1, <1>5
  <2> QED
    BY <1>5, <2>1, <2>3, <2>4
<1>6. CASE out.err = "none" /\ e.type \in {"heartbeat", "checkpoint"}
  BY <1>1, <1>6, CheckpointKeeps
<1>7. CASE out.err # "none"
  BY <1>1, <1>7
<1> QED
  BY <1>5, <1>6, <1>7

LEMMA ApplyLists ==
  ASSUME IInv, CInv, ApplyEvent
  PROVE  ListMap(cache')
<1>1. PICK e \in pending :
        cache' = IF ApplyMapStreamEvent(cache, e, trust, now).err = "none"
                 THEN ApplyMapStreamEvent(cache, e, trust, now).snapshot ELSE cache
  BY DEF ApplyEvent
<1> DEFINE P == ToSet(published)
<1>2. EventSigned(e, P) /\ DeltaLists(e)
  BY DEF IInv, CInv, MessagesSigned
<1>3. \A s \in P : DOMAIN s = DOMAIN ZeroSnapshot /\ ListMap(s)
  BY PublishedShape, PublishedLists DEF IInv
<1>4. DOMAIN cache = DOMAIN ZeroSnapshot /\ ListMap(cache)
  BY DEF IInv, CInv, TypeOK
<1>5. CASE cache' = cache  BY <1>4, <1>5
<1>c. CASE cache' = CloneNetworkMapSnapshot(cache)  BY <1>4, <1>c, CloneValid
<1>6. CASE cache' # cache /\ cache' # CloneNetworkMapSnapshot(cache)
  <2>1. ApplyError(cache, e, trust, now) = "none" /\ e.type \notin {"heartbeat", "checkpoint"}
    BY <1>1, <1>6, CheckpointKeeps DEF ApplyMapStreamEvent
  <2>2. cache' = Deref(Reconstructed(cache, e))
    BY <1>1, <2>1 DEF ApplyMapStreamEvent
  <2>3. Reconstructed(cache, e) # {} /\ ValidateMapStreamEvent(e)
    BY <2>1 DEF ApplyError
  <2>4. e.type = "delta" => e.delta # {}
    BY <2>3, Zenon DEF ValidateMapStreamEvent
  <2>5. cache' \in Reconstructed(cache, e)  BY <2>2, <2>3 DEF Deref
  <2> QED  BY <1>2, <1>3, <1>4, <2>4, <2>5, ReconstructedLists
<1> QED  BY <1>5, <1>c, <1>6

LEMMA NextCInv == IInv /\ CInv /\ [Next]_vars => CInv'
<1> SUFFICES ASSUME IInv, CInv, [Next]_vars PROVE CInv'
  OBVIOUS
<1>t. TypeOK  BY DEF IInv
<1>1. ASSUME UNCHANGED <<cache, pending>> PROVE CInv'
  BY <1>1 DEF CInv, ListMap, HashContent, CurrentMapHash, Content
<1>2. ASSUME UNCHANGED cache, \A e \in pending' : DeltaLists(e) PROVE CInv'
  BY <1>2 DEF CInv, ListMap, HashContent, CurrentMapHash, Content
<1>3. CASE ReadFreshEvent
  <2>1. PICK e \in FreshEvents : pending' = {e}  BY <1>3 DEF ReadFreshEvent
  <2>2. DeltaLists(e)  BY <1>3, <1>t, FreshLists DEF ReadFreshEvent
  <2> QED  BY <1>2, <1>3, <2>1, <2>2 DEF ReadFreshEvent
<1>4. CASE ReadStaleEvent
  <2>1. PICK e \in AnyEvents : pending' = {e}  BY <1>4 DEF ReadStaleEvent
  <2>2. DeltaLists(e)  BY <1>t, AnyLists
  <2> QED  BY <1>2, <1>4, <2>1, <2>2 DEF ReadStaleEvent
<1>5. CASE ApplyEvent
  <2>1. pending' = {}  BY <1>5 DEF ApplyEvent
  <2>2. ListMap(cache')  BY <1>5, ApplyLists
  <2>3. HashContent(cache') = Content(cache')
    <3>1. CASE cache' = cache  BY <3>1 DEF CInv, HashContent, CurrentMapHash, Content
    <3>c. CASE cache' = CloneNetworkMapSnapshot(cache)
      <4>1. DOMAIN cache = DOMAIN ZeroSnapshot  BY DEF IInv, TypeOK
      <4> QED  BY <3>c, <4>1, CloneContent DEF CInv
    <3>2. CASE cache' # cache /\ cache' # CloneNetworkMapSnapshot(cache)
      <4>1. PICK s \in ToSet(published) :
              /\ cache'.mapSignature = s.mapSignature
              /\ VerifyMapStreamResult(cache', trust, now)
        BY <1>5, <3>2, ApplyCache
      <4>2. s \in Publications  BY <1>t, PublishedShape
      <4>3. PICK k : VerifySignatureAt(cache', k, now)  BY <4>1 DEF VerifyMapStreamResult
      <4> QED  BY <4>1, <4>2, <4>3, VerifiedHash
    <3> QED  BY <3>1, <3>c, <3>2
  <2> QED  BY <2>1, <2>2, <2>3 DEF CInv, ListMap, HashContent, CurrentMapHash, Content
<1>6. CASE VerifyResponse
  <2>1. PICK r \in response :
          /\ cache' = r.snapshot \/ cache' = cache
          /\ UNCHANGED pending
    BY <1>6 DEF VerifyResponse
  <2>2. CASE cache' = cache  BY <1>1, <2>1, <2>2
  <2>3. CASE cache' = r.snapshot
    <3>1. cache' \in Publications  BY <1>t, <2>3, PublishedShape DEF IInv, MessagesSigned
    <3>2. ListMap(cache') /\ HashContent(cache') = Content(cache')
      BY <3>1, PublicationLists, PublicationHash
    <3> QED  BY <2>1, <3>2 DEF CInv, ListMap, HashContent, CurrentMapHash, Content
  <2> QED  BY <2>1, <2>2, <2>3
<1>7. CASE \/ \E content \in Projections, key \in SigningKeys, offset \in ClockOffsets :
               Publish(content, key, offset)
           \/ Tick \/ RefreshTrust \/ ReceiveResponse \/ ResolveResponseKey \/ UNCHANGED vars
  BY <1>1, <1>7 DEF Publish, Tick, RefreshTrust, ReceiveResponse, ResolveResponseKey, vars
<1> QED
  BY <1>3, <1>4, <1>5, <1>6, <1>7 DEF Next

LEMMA ApplyIInv ==
  ASSUME IInv, CInv, ApplyEvent
  PROVE  IInv'
<1>1. UNCHANGED <<published, now, epoch, response, stale>> /\ pending' = {}
  BY DEF ApplyEvent
<1>2. needFull' \in BOOLEAN
  BY DEF ApplyEvent
<1>3. SignedContents' = SignedContents
  BY <1>1 DEF SignedContents
<1>4. /\ DOMAIN cache' = DOMAIN ZeroSnapshot /\ cache'.revision \in Nat
      /\ CacheAuthentic' /\ CacheValid'
  <2>1. CASE cache' = cache
    BY <1>3, <2>1 DEF IInv, TypeOK, CacheAuthentic, CacheValid, Content
  <2>2. ASSUME NEW s \in ToSet(published), DOMAIN cache' = DOMAIN ZeroSnapshot,
               NEW e \in pending, cache'.revision = e.to,
               cache'.mapSignature = s.mapSignature,
               VerifyMapStreamResult(cache', trust, now)
        PROVE  /\ DOMAIN cache' = DOMAIN ZeroSnapshot /\ cache'.revision \in Nat
               /\ CacheAuthentic' /\ CacheValid'
    <3>1. \E k : VerifySignatureAt(cache', k, now)
      BY <2>2 DEF VerifyMapStreamResult
    <3>2. Content(cache') \subseteq SignedContents /\ cache'.mapSignature # {}
      BY <2>2, <3>1, VerifiedIsSigned DEF IInv
    <3>3. Content(cache)' = Content(cache')
      BY DEF Content
    <3>4. CacheAuthentic'
      BY <1>3, <3>2, <3>3 DEF CacheAuthentic
    <3>5. CacheValid'
      BY <2>2 DEF VerifyMapStreamResult, CacheValid
    <3>6. e.to \in Nat
      BY DEF IInv, MessagesSigned, EventSigned
    <3> QED
      BY <2>2, <3>4, <3>5, <3>6
  <2>3. CASE cache' = CloneNetworkMapSnapshot(cache)
    <3>1. DOMAIN cache = DOMAIN ZeroSnapshot /\ cache.revision \in Nat /\ ListMap(cache)
      BY DEF IInv, TypeOK, CInv
    <3>2. /\ DOMAIN cache' = DOMAIN ZeroSnapshot /\ cache'.revision \in Nat
          /\ cache'.mapSignature = cache.mapSignature
      BY <2>3, <3>1, CloneFields
    <3>3. cache = ZeroSnapshot => cache' = ZeroSnapshot  BY <2>3, CloneZero
    <3>4. Content(cache)' = Content(cache)
      <4>1. Content(cache') = Content(cache)  BY <2>3, <3>1, CloneContent
      <4> QED  BY <4>1 DEF Content
    <3>5. CacheAuthentic'  BY <1>3, <3>2, <3>3, <3>4 DEF IInv, CacheAuthentic
    <3>6. CacheValid'
      <4>1. cache = ZeroSnapshot \/ ValidateNetworkMapSnapshot(cache)  BY DEF IInv, CacheValid
      <4>2. ValidateNetworkMapSnapshot(cache) => ValidateNetworkMapSnapshot(cache')
        BY <2>3, <3>1, CloneValid
      <4> QED  BY <3>3, <4>1, <4>2 DEF CacheValid
    <3> QED  BY <3>2, <3>5, <3>6
  <2> QED
    BY <2>1, <2>2, <2>3, ApplyCache
<1>5. TypeOK'
  BY <1>1, <1>2, <1>4 DEF IInv, TypeOK
<1>6. MessagesSigned' /\ RevisionsBounded'
  BY <1>1 DEF IInv, MessagesSigned, RevisionsBounded
<1> QED
  BY <1>4, <1>5, <1>6 DEF IInv

LEMMA VerifyResponseIInv ==
  ASSUME IInv, VerifyResponse
  PROVE  IInv'
<1>1. PICK r \in response :
        /\ cache' = IF /\ ValidateNetworkMapSnapshot(r.snapshot)
                       /\ \E key \in r.key : VerifySignatureAt(r.snapshot, key.publicKey, now)
                    THEN r.snapshot ELSE cache
        /\ response' = {}
        /\ UNCHANGED <<published, now, epoch, needFull, pending, stale>>
  BY DEF VerifyResponse
<1>2. SignedContents' = SignedContents
  BY <1>1 DEF SignedContents
<1>3. r.snapshot \in ToSet(published)
  BY DEF IInv, TypeOK
<1>4. /\ DOMAIN cache' = DOMAIN ZeroSnapshot /\ cache'.revision \in Nat
      /\ CacheAuthentic' /\ CacheValid'
  <2>1. CASE cache' = cache
    BY <1>2, <2>1 DEF IInv, TypeOK, CacheAuthentic, CacheValid, Content
  <2>2. CASE /\ cache' = r.snapshot /\ ValidateNetworkMapSnapshot(r.snapshot)
             /\ \E key \in r.key : VerifySignatureAt(r.snapshot, key.publicKey, now)
    <3>1. Content(cache') \subseteq SignedContents /\ cache'.mapSignature # {}
      BY <1>3, <2>2, VerifiedIsSigned DEF IInv
    <3>2. Content(cache)' = Content(cache')
      BY DEF Content
    <3>3. DOMAIN cache' = DOMAIN ZeroSnapshot /\ cache'.revision \in Nat
      BY <1>3, <2>2, PublishedShape DEF IInv
    <3> QED
      BY <1>2, <2>2, <3>1, <3>2, <3>3 DEF CacheAuthentic, CacheValid
  <2> QED
    BY <1>1, <2>1, <2>2
<1>5. TypeOK'
  BY <1>1, <1>4 DEF IInv, TypeOK
<1>6. MessagesSigned' /\ RevisionsBounded'
  BY <1>1 DEF IInv, MessagesSigned, RevisionsBounded
<1> QED
  BY <1>4, <1>5, <1>6 DEF IInv

\* A step that leaves the publications, the cache and the messages alone.
LEMMA IdleIInv ==
  ASSUME IInv, UNCHANGED <<published, cache, pending, response>>,
         now' \in 0 .. MaxTime, epoch' \in DOMAIN TrustBundles, needFull' \in BOOLEAN,
         stale' \in 0 .. MaxStale
  PROVE  IInv'
<1>1. TypeOK'
  BY DEF IInv, TypeOK
<1>2. MessagesSigned' /\ RevisionsBounded'
  BY DEF IInv, MessagesSigned, RevisionsBounded
<1>3. CacheAuthentic' /\ CacheValid'
  BY DEF IInv, CacheAuthentic, CacheValid, Content, SignedContents
<1> QED
  BY <1>1, <1>2, <1>3 DEF IInv

\* A step that only receives or drops messages, all of them signed.
LEMMA MessageIInv ==
  ASSUME IInv, UNCHANGED <<published, now, epoch, cache, needFull>>,
         stale' \in 0 .. MaxStale,
         \A e, f \in pending' : e = f,
         \A e \in pending' : EventSigned(e, ToSet(published)),
         \A r, q \in response' : r = q,
         \A r \in response' : DOMAIN r = {"snapshot", "key"} /\ r.snapshot \in ToSet(published)
  PROVE  IInv'
<1>1. TypeOK'
  BY DEF IInv, TypeOK, EventSigned
<1>2. MessagesSigned' /\ RevisionsBounded'
  BY DEF IInv, MessagesSigned, RevisionsBounded
<1>3. CacheAuthentic' /\ CacheValid'
  BY DEF IInv, CacheAuthentic, CacheValid, Content, SignedContents
<1> QED
  BY <1>1, <1>2, <1>3 DEF IInv

LEMMA NextIInv == IInv /\ CInv /\ [Next]_vars => IInv'
<1> SUFFICES ASSUME IInv, CInv, [Next]_vars
             PROVE  IInv'
  OBVIOUS
<1>a. /\ now \in 0 .. MaxTime /\ epoch \in DOMAIN TrustBundles /\ needFull \in BOOLEAN
      /\ stale \in 0 .. MaxStale
      /\ \A e, f \in pending : e = f
      /\ \A r, q \in response : r = q
      /\ \A r \in response : DOMAIN r = {"snapshot", "key"}
  BY DEF IInv, TypeOK
<1>b. /\ \A e \in pending : EventSigned(e, ToSet(published))
      /\ \A r \in response : r.snapshot \in ToSet(published)
  BY DEF IInv, MessagesSigned
<1>1. ASSUME NEW content \in Projections, NEW key \in SigningKeys,
             NEW offset \in ClockOffsets, Publish(content, key, offset)
      PROVE  IInv'
  BY <1>1, PublishIInv
<1>2. CASE Tick
  <2>1. now' \in 0 .. MaxTime
    BY <1>2, <1>a, MapStreamAssumption DEF Tick
  <2> QED
    BY <1>2, <1>a, <2>1, IdleIInv DEF Tick
<1>3. CASE RefreshTrust
  <2>1. epoch' \in DOMAIN TrustBundles
    BY <1>3, <1>a, MapStreamAssumption DEF RefreshTrust
  <2> QED
    BY <1>3, <1>a, <2>1, IdleIInv DEF RefreshTrust
<1>4. CASE ReadFreshEvent
  <2>1. PICK e \in FreshEvents : pending' = {e}
    BY <1>4 DEF ReadFreshEvent
  <2>2. EventSigned(e, ToSet(published))
    BY <1>4, FreshSigned DEF ReadFreshEvent, IInv
  <2> QED
    BY <1>4, <1>a, <1>b, <2>1, <2>2, MessageIInv DEF ReadFreshEvent
<1>5. CASE ReadStaleEvent
  <2>1. PICK e \in AnyEvents : pending' = {e}
    BY <1>5 DEF ReadStaleEvent
  <2>2. EventSigned(e, ToSet(published))
    BY AnySigned DEF IInv
  <2>3. stale' \in 0 .. MaxStale
    BY <1>5, <1>a, MapStreamAssumption DEF ReadStaleEvent
  <2> QED
    BY <1>5, <1>a, <1>b, <2>1, <2>2, <2>3, MessageIInv DEF ReadStaleEvent
<1>6. CASE ApplyEvent
  BY <1>6, ApplyIInv
<1>7. CASE ReceiveResponse
  <2>1. PICK s \in ToSet(published) : response' = {[snapshot |-> s, key |-> {}]}
    BY <1>7 DEF ReceiveResponse
  <2>2. stale' \in 0 .. MaxStale
    BY <1>7, <1>a, MapStreamAssumption DEF ReceiveResponse
  <2> QED
    BY <1>7, <1>a, <1>b, <2>1, <2>2, MessageIInv DEF ReceiveResponse
<1>8. CASE ResolveResponseKey
  <2>1. PICK r \in response :
          LET keys == UNION {Resolve(trust, sig.keyID, now) : sig \in r.snapshot.mapSignature}
          IN  response' = IF keys = {} THEN {} ELSE {[r EXCEPT !.key = keys]}
    BY <1>8 DEF ResolveResponseKey
  <2>2. \A q \in response' : DOMAIN q = {"snapshot", "key"} /\ q.snapshot \in ToSet(published)
    BY <1>a, <1>b, <2>1
  <2>3. \A q, w \in response' : q = w
    BY <2>1
  <2> QED
    BY <1>8, <1>a, <1>b, <2>2, <2>3, MessageIInv DEF ResolveResponseKey
<1>9. CASE VerifyResponse
  BY <1>9, VerifyResponseIInv
<1>10. CASE UNCHANGED vars
  BY <1>10, <1>a, IdleIInv DEF vars
<1> QED
  BY <1>1, <1>2, <1>3, <1>4, <1>5, <1>6, <1>7, <1>8, <1>9, <1>10 DEF Next

\* The inductive invariant of the map stream.
THEOREM Invariance == Spec => [](IInv /\ CInv)
BY InitIInv, InitCInv, NextIInv, NextCInv, PTL DEF Spec

\* Type correctness.
THEOREM TypeCorrect == Spec => []TypeOK
<1>1. IInv => TypeOK
  BY DEF IInv
<1> QED
  BY <1>1, Invariance, PTL

\* The node never holds map content the control plane did not sign, for any projections,
\* keys, bundles and interleaving of late, repeated, reordered and torn messages.
THEOREM CacheIsAuthentic == Spec => []CacheAuthentic
<1>1. IInv => CacheAuthentic
  BY DEF IInv
<1> QED
  BY <1>1, Invariance, PTL

\* The node never holds a map that the boundary checks would refuse.
THEOREM CacheIsValid == Spec => []CacheValid
<1>1. IInv => CacheValid
  BY DEF IInv
<1> QED
  BY <1>1, Invariance, PTL

-----------------------------------------------------------------------------
(* Step properties *)

LEMMA OnePending ==
  ASSUME IInv, NEW e \in pending, NEW f \in pending
  PROVE  e = f
BY DEF IInv, TypeOK

\* An event whose result was committed is recognised when it comes again, and a
\* checkpoint finds its own copy.
LEMMA ReplayStep ==
  ASSUME IInv, ApplyEvent, cache' # cache, NEW f \in pending
  PROVE  /\ ApplyMapStreamEvent(cache', f, trust, now).snapshot = cache'
         /\ ApplyMapStreamEvent(cache', f, trust, now).err
              = IF CarriesMap(f) THEN "already_applied" ELSE "none"
<1>1. ApplyError(cache, f, trust, now) = "none"
  <2>1. PICK g \in pending :
          cache' = IF ApplyMapStreamEvent(cache, g, trust, now).err = "none"
                   THEN ApplyMapStreamEvent(cache, g, trust, now).snapshot ELSE cache
    BY DEF ApplyEvent
  <2>2. ApplyError(cache, g, trust, now) = "none"
    BY <2>1 DEF ApplyMapStreamEvent
  <2> QED  BY <2>2, OnePending
<1>2. ValidateMapStreamEvent(f)  BY <1>1 DEF ApplyError
<1>3. CASE CarriesMap(f)
  <2>1. /\ cache'.revision = f.to /\ cache'.mapSignature = f.resultSignature
        /\ CloneNetworkMapSnapshot(cache') = cache'
        /\ VerifyMapStreamResult(cache', trust, now)
    BY <1>3, ApplyCache, OnePending DEF CarriesMap
  <2>2. AlreadyApplied(cache', f)
    <3>1. cache'.mapSignature # {}  BY <2>1 DEF VerifyMapStreamResult
    <3> QED  BY <2>1, <3>1 DEF AlreadyApplied
  <2>3. ApplyError(cache', f, trust, now) = "already_applied"
    BY <1>2, <2>2 DEF ApplyError
  <2> QED  BY <1>3, <2>1, <2>3 DEF ApplyMapStreamEvent
<1>4. CASE ~CarriesMap(f)
  <2>1. cache' = CloneNetworkMapSnapshot(cache)
    BY <1>4, ApplyCache, OnePending DEF CarriesMap
  <2>2. DOMAIN cache = DOMAIN ZeroSnapshot  BY DEF IInv, TypeOK
  <2>3. /\ cache'.revision = cache.revision /\ cache'.mapSignature = cache.mapSignature
        /\ CloneNetworkMapSnapshot(cache') = cache'
    BY <2>1, <2>2, CloneFields, CloneAgain
  <2>4. /\ AlreadyApplied(cache', f) <=> AlreadyApplied(cache, f)
        /\ BaseMismatch(cache', f) <=> BaseMismatch(cache, f)
    BY <2>3 DEF AlreadyApplied, BaseMismatch, CurrentMapHash
  <2>5. ~AlreadyApplied(cache, f) /\ ~BaseMismatch(cache, f)  BY <1>1 DEF ApplyError
  <2>6. ApplyError(cache', f, trust, now) = "none"
    BY <1>2, <1>4, <2>4, <2>5 DEF ApplyError, CarriesMap
  <2> QED  BY <1>4, <2>3, <2>6 DEF ApplyMapStreamEvent, CarriesMap
<1> QED  BY <1>3, <1>4

\* A committed event delivered once more changes nothing.
THEOREM ReplayRecognised == Spec => ReplayIsRecognised
<1>1. IInv /\ [Next]_vars =>
        [ApplyEvent /\ cache' # cache =>
           \A e \in pending :
             LET again == ApplyMapStreamEvent(cache', e, trust, now)
             IN  /\ again.snapshot = cache'
                 /\ again.err = IF CarriesMap(e) THEN "already_applied" ELSE "none"]_vars
  BY ReplayStep
<1> QED
  BY <1>1, Invariance, PTL DEF Spec, ReplayIsRecognised

\* Verification through a bundle means a key of the bundle, by id, key and window.
LEMMA TrustedStep ==
  ASSUME IInv, ApplyEvent, cache' # cache, \A e \in pending : CarriesMap(e),
         NEW sig \in cache'.mapSignature
  PROVE  \E i \in DOMAIN trust.keys :
           /\ SigningKeyID(trust.keys[i].publicKey) = {sig.keyID}
           /\ sig.signature.by = TrimSpace[trust.keys[i].publicKey]
           /\ WithinTrustWindow(trust.keys[i], now)
<1>1. PICK s \in ToSet(published) :
        /\ cache'.mapSignature = s.mapSignature
        /\ VerifyMapStreamResult(cache', trust, now)
  BY ApplyCache DEF CarriesMap
<1>2. PICK one : s.mapSignature = {one}
  BY PublishedShape, PublicationSigned DEF IInv
<1>3. PICK id, key : /\ key \in Resolve(trust, id, now)
                     /\ VerifySignatureAt(cache', key.publicKey, now)
  BY <1>1 DEF VerifyMapStreamResult
<1>4. /\ sig.keyID \in SigningKeyID(key.publicKey)
      /\ sig.signature = Ed25519Sign(TrimSpace[key.publicKey], PayloadUnder(cache', sig))
  BY <1>1, <1>2, <1>3 DEF VerifySignatureAt
<1>5. key \in ToSet(trust.keys) /\ WithinTrustWindow(key, now)
  BY <1>3 DEF Resolve
<1>6. PICK i \in DOMAIN trust.keys : trust.keys[i] = key
  BY <1>5 DEF ToSet
<1>7. SigningKeyID(key.publicKey) = {sig.keyID}
  BY <1>4 DEF SigningKeyID
<1>8. sig.signature.by = TrimSpace[key.publicKey]
  BY <1>4 DEF Ed25519Sign
<1> QED
  BY <1>5, <1>6, <1>7, <1>8

\* The stream commits no map whose key the bundle does not trust at that time.
THEOREM CommitTrusted == Spec => StreamCommitTrusted
<1>1. IInv /\ [Next]_vars =>
        [ApplyEvent /\ cache' # cache /\ (\A e \in pending : CarriesMap(e)) =>
           \A sig \in cache'.mapSignature :
             \E i \in DOMAIN trust.keys :
               /\ SigningKeyID(trust.keys[i].publicKey) = {sig.keyID}
               /\ sig.signature.by = TrimSpace[trust.keys[i].publicKey]
               /\ WithinTrustWindow(trust.keys[i], now)]_vars
  BY TrustedStep
<1> QED
  BY <1>1, Invariance, PTL DEF Spec, StreamCommitTrusted

-----------------------------------------------------------------------------
(* Deltas lead from their base to their result *)

LEMMA DeltaStep ==
  ASSUME IInv, CInv, ApplyEvent, cache' # cache, NEW e \in pending, e.type = "delta"
  PROVE  \E a, b \in ToSet(published) :
           /\ e.baseHash = CurrentMapHash(a) /\ e.resultSignature = b.mapSignature
           /\ Content(cache) = Content(a) /\ Content(cache') = Content(b)
<1>1. PICK b \in ToSet(published) :
        /\ cache'.mapSignature = e.resultSignature
        /\ cache'.mapSignature = b.mapSignature
        /\ VerifyMapStreamResult(cache', trust, now)
  BY ApplyCache, OnePending
<1>2. ApplyError(cache, e, trust, now) = "none"
  <2>1. PICK g \in pending :
          cache' = IF ApplyMapStreamEvent(cache, g, trust, now).err = "none"
                   THEN ApplyMapStreamEvent(cache, g, trust, now).snapshot ELSE cache
    BY DEF ApplyEvent
  <2>2. ApplyError(cache, g, trust, now) = "none"
    BY <2>1 DEF ApplyMapStreamEvent
  <2> QED  BY <2>2, OnePending
<1>3. e.baseHash = CurrentMapHash(cache)
  <2>1. ~BaseMismatch(cache, e)  BY <1>2 DEF ApplyError
  <2> QED  BY <2>1 DEF BaseMismatch
<1>4. PICK a \in ToSet(published) : e.baseHash = CurrentMapHash(a)
  BY DEF IInv, MessagesSigned, EventSigned
<1>5. Content(cache) = Content(a)
  <2>1. HashContent(cache) = HashContent(a)  BY <1>3, <1>4 DEF HashContent
  <2>2. HashContent(a) = Content(a)  BY PublishedShape, PublicationHash DEF IInv
  <2> QED  BY <2>1, <2>2 DEF CInv
<1>6. Content(cache') = Content(b)
  <2>1. PICK k : VerifySignatureAt(cache', k, now)  BY <1>1 DEF VerifyMapStreamResult
  <2> QED  BY <1>1, <2>1, VerifiedIsSigned DEF IInv
<1> QED  BY <1>1, <1>4, <1>5, <1>6

\* A delta moves the node from the map it was computed from to the signed map it stands
\* for (the checks of base and signature in ApplyMapStreamEvent), however late, torn or
\* backward it is.
THEOREM DeltasMoveFromTheirBase == Spec => DeltaMovesFromItsBase
<1>1. IInv /\ CInv /\ [Next]_vars =>
        [ApplyEvent /\ cache' # cache =>
           \A e \in pending : e.type = "delta" =>
             \E a, b \in ToSet(published) :
               /\ e.baseHash = CurrentMapHash(a) /\ e.resultSignature = b.mapSignature
               /\ Content(cache) = Content(a) /\ Content(cache') = Content(b)]_vars
  BY DeltaStep
<1> QED
  BY <1>1, Invariance, PTL DEF Spec, DeltaMovesFromItsBase

-----------------------------------------------------------------------------
(* MapStream implements AuthenticMap *)

\* Content of a verified map: one payload, current at the time of the verification.
LEMMA VerifiedAdopts ==
  ASSUME IInv, NEW n, NEW k, NEW s \in ToSet(published),
         n.mapSignature = s.mapSignature, VerifySignatureAt(n, k, now)
  PROVE  \E p \in SignedContents :
           /\ Content(n) = {p}
           /\ p.issuedAt <= now + MaxSignatureClockSkew
           /\ now < p.expiresAt
           /\ LeasesCurrent(p.network, now)
<1>1. PICK sig : s.mapSignature = {sig}
  BY PublishedShape, PublicationSigned DEF IInv
<1> DEFINE p == Reading(PayloadUnder(n, sig))
<1>2. Content(n) = {p}
  BY <1>1 DEF Content
<1>3. p \in SignedContents
  BY <1>2, VerifiedIsSigned DEF IInv
<1>4. SignatureCurrent(sig, now) /\ ValidateSharePeerGrantsAt(n, now)
  BY <1>1 DEF VerifySignatureAt
<1>5. p.issuedAt = sig.issuedAt /\ p.expiresAt = sig.expiresAt /\ p.network = n.network
  BY ReadingOf
<1>6. LeasesCurrent(p.network, now)
  BY <1>4, <1>5 DEF ValidateSharePeerGrantsAt
<1> HIDE DEF p
<1> QED
  BY <1>2, <1>3, <1>4, <1>5, <1>6 DEF SignatureCurrent

\* A commit is an Adopt step, or leaves the content as it was.
LEMMA CommitAdopts ==
  ASSUME IInv, UNCHANGED <<published, now>>, NEW k, NEW s \in ToSet(published),
         cache'.mapSignature = s.mapSignature, VerifySignatureAt(cache', k, now)
  PROVE  Abstract!ANext
<1>1. PICK p \in SignedContents :
        /\ Content(cache') = {p}
        /\ p.issuedAt <= now + MaxSignatureClockSkew
        /\ now < p.expiresAt
        /\ LeasesCurrent(p.network, now)
  BY VerifiedAdopts
<1>2. Content(cache)' = {p}
  BY <1>1 DEF Content
<1>3. SignedContents' = SignedContents
  BY DEF SignedContents
<1>4. Abstract!LeasesCurrent(p.network, now)
  BY <1>1 DEF LeasesCurrent, Abstract!LeasesCurrent, ToSet, Abstract!ToSet
<1>5. Abstract!Adopt(p)
  BY <1>1, <1>2, <1>3, <1>4 DEF Abstract!Adopt
<1> QED
  BY <1>5 DEF Abstract!ANext

LEMMA PublishSigns ==
  ASSUME IInv, NEW content \in Projections, NEW key \in SigningKeys,
         NEW offset \in ClockOffsets, Publish(content, key, offset)
  PROVE  Abstract!ANext
<1>1. PICK s \in Publications : ToSet(published)' = ToSet(published) \cup {s}
  BY PublishStep
<1>2. PICK sig : s.mapSignature = {sig}
  BY PublicationSigned
<1> DEFINE p == Reading(PayloadUnder(s, sig))
<1>3. Content(s) = {p}
  BY <1>2 DEF Content
<1> HIDE DEF p
<1>4. SignedContents' = SignedContents \cup {p}
  BY <1>1, <1>3 DEF SignedContents, Content
<1>5. Content(cache)' = Content(cache) /\ now' = now
  BY DEF Publish, Content
<1>6. Abstract!Sign(p) /\ p \in SignedContents'
  BY <1>4, <1>5 DEF Abstract!Sign
<1> QED
  BY <1>6 DEF Abstract!ANext

LEMMA StepRefines == IInv /\ [Next]_vars => [Abstract!ANext]_(Abstract!avars)
<1> SUFFICES ASSUME IInv, [Next]_vars
             PROVE  [Abstract!ANext]_(Abstract!avars)
  OBVIOUS
<1>1. ASSUME NEW content \in Projections, NEW key \in SigningKeys,
             NEW offset \in ClockOffsets, Publish(content, key, offset)
      PROVE  Abstract!ANext
  BY <1>1, PublishSigns
<1>2. CASE Tick
  BY <1>2 DEF Tick, Abstract!ANext, Abstract!Advance, SignedContents, Content
<1>3. CASE UNCHANGED <<published, cache, now>>
  BY <1>3 DEF Abstract!avars, SignedContents, Content
<1>4. CASE ApplyEvent
  <2>1. UNCHANGED <<published, now>>
    BY <1>4 DEF ApplyEvent
  <2>2. CASE cache' = cache
    BY <1>3, <2>1, <2>2
  <2>c. CASE cache' = CloneNetworkMapSnapshot(cache)
    <3>1. DOMAIN cache = DOMAIN ZeroSnapshot  BY DEF IInv, TypeOK
    <3>2. Content(cache') = Content(cache)  BY <2>c, <3>1, CloneContent
    <3>3. Content(cache)' = Content(cache) /\ SignedContents' = SignedContents
      BY <2>1, <3>2 DEF Content, SignedContents
    <3> QED  BY <2>1, <3>3 DEF Abstract!avars
  <2>3. CASE cache' # cache /\ cache' # CloneNetworkMapSnapshot(cache)
    <3>1. PICK s \in ToSet(published) :
            cache'.mapSignature = s.mapSignature /\ VerifyMapStreamResult(cache', trust, now)
      BY <1>4, <2>3, ApplyCache
    <3>2. PICK k : VerifySignatureAt(cache', k, now)
      BY <3>1 DEF VerifyMapStreamResult
    <3> QED
      BY <2>1, <3>1, <3>2, CommitAdopts
  <2> QED
    BY <2>2, <2>c, <2>3
<1>5. CASE VerifyResponse
  <2>1. UNCHANGED <<published, now>>
    BY <1>5 DEF VerifyResponse
  <2>2. CASE cache' = cache
    BY <1>3, <2>1, <2>2
  <2>3. CASE cache' # cache
    <3>1. PICK r \in response :
            cache' = r.snapshot /\ \E k : VerifySignatureAt(r.snapshot, k, now)
      BY <1>5, <2>3 DEF VerifyResponse
    <3>2. r.snapshot \in ToSet(published)
      BY DEF IInv, TypeOK
    <3> QED
      BY <2>1, <3>1, <3>2, CommitAdopts
  <2> QED
    BY <2>2, <2>3
<1> QED
  BY <1>1, <1>2, <1>3, <1>4, <1>5
     DEF Next, vars, RefreshTrust, ReadFreshEvent, ReadStaleEvent, ReceiveResponse,
         ResolveResponseKey

\* The map stream implements the abstract promise: whatever the node holds is signed
\* content that it took up while signature and leases were current.
THEOREM Refinement == Spec => AuthenticMapSpec
<1>1. Init => Abstract!AInit
  <2> SUFFICES ASSUME Init PROVE Abstract!AInit
    OBVIOUS
  <2>1. SignedContents = {}
    BY DEF Init, SignedContents, ToSet
  <2>2. Content(cache) = {}
    BY DEF Init, Content, ZeroSnapshot
  <2> QED
    BY <2>1, <2>2 DEF Init, Abstract!AInit
<1> QED
  BY <1>1, StepRefines, Invariance, PTL DEF Spec, AuthenticMapSpec, Abstract!ASpec

-----------------------------------------------------------------------------
(* The delta between two publications *)

\* Maps with the same content agree on every signed field, but for copied peers.
LEMMA ContentFields ==
  ASSUME NEW s, NEW t, Content(s) = Content(t), Content(s) # {}
  PROVE  /\ s.revision = t.revision /\ s.network = t.network /\ s.node = t.node
         /\ TrimSpace[s.registrationBinding] = TrimSpace[t.registrationBinding]
         /\ Copies(s.peers) = Copies(t.peers) /\ ToBag(s.relays) = ToBag(t.relays)
         /\ ToBag(s.stunEndpoints) = ToBag(t.stunEndpoints)
<1>1. PICK x : x \in Content(s) /\ x \in Content(t)  OBVIOUS
<1>2. ASSUME NEW u, x \in Content(u)
      PROVE  /\ x.revision = u.revision /\ x.network = u.network /\ x.node = u.node
             /\ x.registrationBinding = TrimSpace[u.registrationBinding]
             /\ x.peers = Copies(u.peers) /\ x.relays = ToBag(u.relays)
             /\ x.stunEndpoints = ToBag(u.stunEndpoints)
  <2>1. PICK sig \in u.mapSignature : x = Reading(PayloadUnder(u, sig))  BY <1>2 DEF Content
  <2> QED  BY <2>1, ReadingOf
<1> QED  BY <1>1, <1>2

\* No element of the list has a blank id.
Named(x) == \A e \in ToSet(x) : TrimSpace[e.id] # ""

LEMMA ValidNames ==
  ASSUME NEW s, ValidateNetworkMapSnapshot(s)
  PROVE  Named(s.peers) /\ Named(s.relays) /\ UniqueIDs(s.peers)
<1>1. UniqueIDs(s.peers)  BY Zenon DEF ValidateNetworkMapSnapshot
<1>2. Named(s.peers)  BY Zenon DEF ValidateNetworkMapSnapshot, ValidateMapPeer, Named
<1>3. Named(s.relays)
  <2>1. ValidateEndpoints(s)  BY Zenon DEF ValidateNetworkMapSnapshot
  <2> QED  BY <2>1, Zenon DEF ValidateEndpoints, Named
<1> QED  BY <1>1, <1>2, <1>3

\* A list whose elements a delta can address.
Clean(x) == IsList(x) /\ UniqueIDs(x) /\ PlainIDs(x) /\ Named(x)

LEMMA CleanIDs ==
  ASSUME NEW x, Clean(x)
  PROVE  UsableIDs(x)
<1>1. \A i \in DOMAIN x : TrimSpace[x[i].id] # ""  BY Zenon DEF Clean, Named, ToSet
<1>2. \A i, j \in DOMAIN x : TrimSpace[x[i].id] = TrimSpace[x[j].id] => i = j
  BY DEF Clean, UniqueIDs, PlainIDs
<1>3. PICK ids : ids = [i \in DOMAIN x |-> x[i].id]  BY Zenon
<1>4. DOMAIN ids = DOMAIN x /\ \A i \in DOMAIN x : ids[i] = x[i].id  BY <1>3
<1>5. NormalizableIDs(ids)
  <2>1. \A i \in DOMAIN ids : TrimSpace[ids[i]] # ""
    <3> TAKE i \in DOMAIN ids
    <3>1. i \in DOMAIN x /\ ids[i] = x[i].id  BY <1>4
    <3>2. TrimSpace[x[i].id] # ""  BY <1>1, <3>1, Zenon
    <3> QED  BY <3>1, <3>2, Zenon
  <2>2. \A i, j \in DOMAIN ids : TrimSpace[ids[i]] = TrimSpace[ids[j]] => i = j  BY <1>2, <1>4
  <2> QED  BY <2>1, <2>2, Zenon DEF NormalizableIDs
<1> QED  BY <1>3, <1>5, Zenon DEF UsableIDs

\* The difference of two clean lists, merged into any arrangement of the first.
LEMMA ListRoundTrip ==
  ASSUME NEW x, NEW y, NEW c, Clean(x), Clean(y), IsList(c), UniqueIDs(c),
         \A e \in ToSet(c) : \E f \in ToSet(x) : f.id = e.id,
         ToSet(x) \cap ToSet(y) \subseteq ToSet(c),
         NEW upserts, upserts = Pick(y, New(x, y)),
         NEW gone, gone = Pick(IDList(x), Lost(x, y)),
         NEW m, m = MergeByID(c, upserts, gone)
  PROVE  /\ Mergeable(upserts, gone)
         /\ IsList(m) /\ UniqueIDs(m) /\ ToSet(m) = ToSet(y) /\ ToBag(m) = ToBag(y)
<1>1. UsableIDs(x) /\ UsableIDs(y)  BY CleanIDs
<1>2. /\ IsList(x) /\ UniqueIDs(x) /\ PlainIDs(x)
      /\ IsList(y) /\ UniqueIDs(y) /\ PlainIDs(y)
  BY DEF Clean
<1>3. Mergeable(upserts, gone) /\ IsList(m) /\ UniqueIDs(m) /\ ToSet(m) = ToSet(y)
  BY <1>1, <1>2, DiffMerge
<1> QED  BY <1>2, <1>3, UniqueBag

\* What a delta event makes of a map.
LEMMA RebuiltMap ==
  ASSUME NEW c, DOMAIN c = DOMAIN ZeroSnapshot, NEW a, NEW b, NEW d, d = DiffMap(a, b),
         Mergeable(d.peerUpserts, d.peerRemoveIDs), Mergeable(d.relayUpserts, d.relayRemoveIDs)
  PROVE  \E n : /\ Reconstructed(c, DeltaEvent(a, b)) = {n}
                /\ n.revision = b.revision /\ n.mapSignature = b.mapSignature
                /\ n.network = IF a.network = b.network THEN c.network ELSE b.network
                /\ n.node = IF a.node = b.node THEN c.node ELSE b.node
                /\ n.stunEndpoints = IF a.stunEndpoints = b.stunEndpoints
                                     THEN c.stunEndpoints ELSE b.stunEndpoints
                /\ n.registrationBinding = c.registrationBinding
                /\ n.relayCredential \in {c.relayCredential, b.relayCredential}
                /\ n.peers = ClonePeers(MergeByID(ClonePeers(c.peers), d.peerUpserts,
                                                  d.peerRemoveIDs))
                /\ n.relays = MergeByID(c.relays, d.relayUpserts, d.relayRemoveIDs)
<1>1. PICK m : ApplyMapDelta(c, d) = {m}
  <2>1. ApplyMapDelta(c, d) # {} /\ \A x, y \in ApplyMapDelta(c, d) : x = y
    BY DeltaShape
  <2>2. PICK m \in ApplyMapDelta(c, d) : TRUE  BY <2>1
  <2>3. ApplyMapDelta(c, d) = {m}  BY <2>1, <2>2
  <2> QED  BY <2>3
<1>2. /\ DOMAIN m = DOMAIN ZeroSnapshot
      /\ m.network = Override(d.network, c.network)
      /\ m.node = Override(d.node, c.node)
      /\ m.stunEndpoints = Override(d.stunEndpoints, c.stunEndpoints)
      /\ m.relayCredential \in {c.relayCredential, d.relayCredential}
      /\ d.relayCredential = {} => m.relayCredential = c.relayCredential
      /\ m.registrationBinding = c.registrationBinding
      /\ m.peers = ClonePeers(MergeByID(ClonePeers(c.peers), d.peerUpserts, d.peerRemoveIDs))
      /\ m.relays = MergeByID(c.relays, d.relayUpserts, d.relayRemoveIDs)
  BY <1>1, DeltaShape
<1>3. PICK n : n = [m EXCEPT !.revision = b.revision, !.mapSignature = b.mapSignature]
  OBVIOUS
<1>4. /\ n.revision = b.revision /\ n.mapSignature = b.mapSignature
      /\ n.network = m.network /\ n.node = m.node /\ n.stunEndpoints = m.stunEndpoints
      /\ n.registrationBinding = m.registrationBinding
      /\ n.relayCredential = m.relayCredential /\ n.peers = m.peers /\ n.relays = m.relays
  BY <1>2, <1>3, SnapshotFields
<1>5. /\ d.network = IF a.network = b.network THEN {} ELSE {b.network}
      /\ d.node = IF a.node = b.node THEN {} ELSE {b.node}
      /\ d.stunEndpoints = IF a.stunEndpoints = b.stunEndpoints THEN {} ELSE {b.stunEndpoints}
      /\ d.relayCredential = {} \/ d.relayCredential = b.relayCredential
  BY DEF DiffMap
<1>6. Reconstructed(c, DeltaEvent(a, b)) = {n}
  <2>1. PICK e : e = DeltaEvent(a, b)  OBVIOUS
  <2>2. /\ e.type = "delta" /\ e.delta = {d} /\ e.to = b.revision
        /\ e.resultSignature = b.mapSignature
    BY <2>1 DEF DeltaEvent, Event
  <2>3. Deref(e.delta) = d  BY <2>2 DEF Deref
  <2>4. Reconstructed(c, e) =
          {[s EXCEPT !.revision = e.to, !.mapSignature = e.resultSignature] : s \in {m}}
    BY <1>1, <2>2, <2>3 DEF Reconstructed
  <2> QED  BY <1>3, <2>1, <2>2, <2>4
<1>7. /\ n.network = IF a.network = b.network THEN c.network ELSE b.network
      /\ n.node = IF a.node = b.node THEN c.node ELSE b.node
      /\ n.stunEndpoints = IF a.stunEndpoints = b.stunEndpoints
                           THEN c.stunEndpoints ELSE b.stunEndpoints
  <2>1. n.network = IF a.network = b.network THEN c.network ELSE b.network
    BY <1>2, <1>4, <1>5 DEF Override, Deref
  <2>2. n.node = IF a.node = b.node THEN c.node ELSE b.node
    BY <1>2, <1>4, <1>5 DEF Override, Deref
  <2>3. n.stunEndpoints = IF a.stunEndpoints = b.stunEndpoints
                          THEN c.stunEndpoints ELSE b.stunEndpoints
    BY <1>2, <1>4, <1>5 DEF Override, Deref
  <2> QED  BY <2>1, <2>2, <2>3
<1> QED  BY <1>2, <1>4, <1>5, <1>6, <1>7

\* A map with the signed content of b, but for the order of lists, verifies when b does.
LEMMA SameVerified ==
  ASSUME NEW b, NEW n, NEW tr, NEW t, VerifyMapStreamResult(b, tr, t),
         SameMembers(b, n), ListMap(b), ListMap(n), UniqueIDs(n.peers),
         ValidateRelayCredential(n),
         n.revision = b.revision, n.mapSignature = b.mapSignature,
         TrimSpace[n.registrationBinding] = TrimSpace[b.registrationBinding],
         ToBag(n.peers) = ToBag(b.peers), ToBag(n.relays) = ToBag(b.relays),
         ToBag(n.stunEndpoints) = ToBag(b.stunEndpoints)
  PROVE  VerifyMapStreamResult(n, tr, t)
<1>1. PICK sig \in b.mapSignature : \E key \in Resolve(tr, sig.keyID, t) :
        VerifySignatureAt(b, key.publicKey, t)
  BY DEF VerifyMapStreamResult
<1>2. PICK key \in Resolve(tr, sig.keyID, t) : VerifySignatureAt(b, key.publicKey, t)
  BY <1>1
<1>3. ValidateNetworkMapSnapshot(b)  BY DEF VerifyMapStreamResult
<1>4. ValidateNetworkMapSnapshot(n)
  BY <1>3, SameValid DEF ListMap
<1>5. n.network = b.network /\ n.node = b.node  BY DEF SameMembers
<1>6. \A w : PayloadUnder(n, w) = PayloadUnder(b, w)
  BY <1>5 DEF PayloadUnder, CanonicalPayload
<1>7. ValidateSharePeerGrantsAt(b, t) => ValidateSharePeerGrantsAt(n, t)
  BY <1>5, SameGrants DEF ValidateSharePeerGrantsAt
<1>8. VerifySignatureAt(n, key.publicKey, t)
  BY <1>2, <1>6, <1>7 DEF VerifySignatureAt
<1> QED  BY <1>1, <1>2, <1>4, <1>8 DEF VerifyMapStreamResult

LEMMA SetOfPlain ==
  ASSUME NEW x, \A e \in ToSet(x) : TrimSpace[e.id] = e.id
  PROVE  PlainIDs(x)
BY DEF PlainIDs, ToSet

\* A full map that is taken, and not known already, has no empty list of addresses: its
\* copy verifies under the signature over the original.
LEMMA FullTaken ==
  ASSUME IInv, NEW b \in ToSet(published),
         ApplyError(cache, FullEvent("resync", b), trust, now) = "none"
  PROVE  \E n : /\ VerifyMapStreamResult(n, trust, now)
                /\ n.peers = ClonePeers(b.peers)
                /\ n.revision = b.revision /\ n.mapSignature = b.mapSignature
                /\ n.network = b.network /\ n.node = b.node
                /\ n.registrationBinding = b.registrationBinding
                /\ n.stunEndpoints = b.stunEndpoints /\ n.relays = b.relays
                /\ n.relayCredential = b.relayCredential
                /\ \A p \in ToSet(b.peers) : ClonePeer(p) = p
                /\ ToSet(n.peers) = ToSet(b.peers)
<1>1. b \in Publications /\ DOMAIN b = DOMAIN ZeroSnapshot  BY PublishedShape DEF IInv
<1>2. PICK e : e = FullEvent("resync", b)  OBVIOUS
<1>3. /\ e.type = "resync" /\ e.to = b.revision /\ e.snapshot = {b}
      /\ e.resultSignature = b.mapSignature
  BY <1>2 DEF FullEvent, Event
<1>4. PICK n \in Reconstructed(cache, e) : VerifyMapStreamResult(n, trust, now)
  BY <1>2, <1>3 DEF ApplyError
<1>5. PICK t : t = CloneNetworkMapSnapshot(b)  OBVIOUS
<1>6. n = [t EXCEPT !.revision = b.revision, !.mapSignature = b.mapSignature]
  BY <1>3, <1>4, <1>5 DEF Reconstructed
<1>7. /\ DOMAIN t = DOMAIN ZeroSnapshot /\ t.peers = ClonePeers(b.peers)
      /\ t.network = b.network /\ t.node = b.node
      /\ t.registrationBinding = b.registrationBinding
      /\ t.stunEndpoints = b.stunEndpoints /\ t.relays = b.relays
      /\ t.relayCredential = b.relayCredential
  BY <1>1, <1>5, CloneFields
<1>8. /\ n.peers = ClonePeers(b.peers)
      /\ n.revision = b.revision /\ n.mapSignature = b.mapSignature
      /\ n.network = b.network /\ n.node = b.node
      /\ n.registrationBinding = b.registrationBinding
      /\ n.stunEndpoints = b.stunEndpoints /\ n.relays = b.relays
      /\ n.relayCredential = b.relayCredential
  BY <1>6, <1>7, SnapshotFields
<1>9. ToBag(n.peers) = ToBag(b.peers)
  <2>1. PICK sig : b.mapSignature = {sig} /\ sig.payloadHash = PayloadUnder(b, sig)
    BY <1>1, PublicationSigned
  <2>2. sig.payloadHash = PayloadUnder(n, sig)
    BY <1>4, <1>8, <2>1 DEF VerifyMapStreamResult, VerifySignatureAt
  <2>3. PICK x, y : x = PayloadUnder(n, sig) /\ y = PayloadUnder(b, sig)  OBVIOUS
  <2>4. x.peers = ToBag(n.peers) /\ y.peers = ToBag(b.peers)
    BY <2>3 DEF PayloadUnder, CanonicalPayload
  <2> QED  BY <2>1, <2>2, <2>3, <2>4
<1>10. ToSet(n.peers) = ToSet(b.peers)  BY <1>9, BagSet
<1>11. ToSet(n.peers) = Copies(b.peers)  BY <1>8, CopiedPeers
<1>12. \A p \in ToSet(b.peers) : ClonePeer(p) = p
  BY <1>10, <1>11, CloneTwice DEF Copies
<1> QED  BY <1>4, <1>8, <1>10, <1>12

LEMMA RoundTrip ==
  ASSUME IInv, CInv, NEW a \in ToSet(published), NEW b \in ToSet(published),
         CurrentMapHash(cache) = CurrentMapHash(a),
         Addressable(a), Addressable(b), SameRegistration(a, b),
         ApplyError(cache, FullEvent("resync", b), trust, now) = "none"
  PROVE  \E n \in Reconstructed(cache, DeltaEvent(a, b)) : VerifyMapStreamResult(n, trust, now)
<1>1. /\ a \in Publications /\ b \in Publications /\ ListMap(a) /\ ListMap(b)
      /\ DOMAIN cache = DOMAIN ZeroSnapshot /\ ListMap(cache)
  BY PublishedShape, PublishedLists DEF IInv, CInv, TypeOK
<1>2. Content(cache) = Content(a) /\ Content(a) # {}
  <2>1. HashContent(cache) = HashContent(a)  BY DEF HashContent
  <2> QED  BY <1>1, <2>1, PublicationHash DEF CInv
<1>3. /\ cache.network = a.network /\ cache.node = a.node
      /\ TrimSpace[cache.registrationBinding] = TrimSpace[a.registrationBinding]
      /\ Copies(cache.peers) = Copies(a.peers) /\ ToBag(cache.relays) = ToBag(a.relays)
      /\ ToBag(cache.stunEndpoints) = ToBag(a.stunEndpoints)
  BY <1>2, ContentFields
<1>4. PICK full :
        /\ VerifyMapStreamResult(full, trust, now)
        /\ full.peers = ClonePeers(b.peers)
        /\ full.revision = b.revision /\ full.mapSignature = b.mapSignature
        /\ full.network = b.network /\ full.node = b.node
        /\ full.registrationBinding = b.registrationBinding
        /\ full.stunEndpoints = b.stunEndpoints /\ full.relays = b.relays
        /\ full.relayCredential = b.relayCredential
        /\ \A p \in ToSet(b.peers) : ClonePeer(p) = p
        /\ ToSet(full.peers) = ToSet(b.peers)
  BY FullTaken
<1>5. ValidateNetworkMapSnapshot(cache) /\ ValidateNetworkMapSnapshot(full)
  <2>1. Content(ZeroSnapshot) = {}  BY DEF Content, ZeroSnapshot
  <2>2. cache # ZeroSnapshot  BY <1>2, <2>1
  <2> QED  BY <1>4, <2>2 DEF IInv, CacheValid, VerifyMapStreamResult
<1>6. /\ Named(cache.peers) /\ Named(cache.relays) /\ UniqueIDs(cache.peers)
      /\ Named(full.peers) /\ Named(full.relays)
  BY <1>5, ValidNames
<1>7. /\ IsList(a.peers) /\ IsList(a.relays) /\ IsList(b.peers) /\ IsList(b.relays)
      /\ IsList(cache.peers) /\ IsList(cache.relays)
  BY <1>1 DEF ListMap
<1>8. Named(a.peers) /\ Named(a.relays) /\ Named(b.peers) /\ Named(b.relays)
  <2>1. Named(b.peers) /\ Named(b.relays)  BY <1>4, <1>6, Zenon DEF Named
  <2>2. ToSet(cache.relays) = ToSet(a.relays)  BY <1>3, BagSet
  <2>3. Named(a.relays)  BY <1>6, <2>2, Zenon DEF Named
  <2>4. ASSUME NEW p \in ToSet(a.peers) PROVE TrimSpace[p.id] # ""
    <3>1. PICK q \in ToSet(cache.peers) : p.id = q.id  BY <1>3, Counterpart DEF Alike
    <3> QED  BY <1>6, <3>1, Zenon DEF Named
  <2>5. Named(a.peers)  BY <2>4, Zenon DEF Named
  <2> QED  BY <2>1, <2>3, <2>5
<1>9. /\ PlainIDs(a.peers) /\ PlainIDs(a.relays) /\ PlainIDs(b.peers) /\ PlainIDs(b.relays)
      /\ UniqueIDs(a.relays) /\ UniqueIDs(b.relays)
      /\ UniqueIDs(a.peers) /\ UniqueIDs(b.peers)
  BY SetOfPlain DEF Addressable
<1>10. UniqueIDs(cache.relays)  BY <1>3, <1>7, <1>9, BagUnique
<1>11. Clean(a.peers) /\ Clean(b.peers) /\ Clean(a.relays) /\ Clean(b.relays)
  BY <1>7, <1>8, <1>9 DEF Clean
<1>12. PICK d : d = DiffMap(a, b)  OBVIOUS
<1>13. /\ d.peerUpserts = Pick(b.peers, New(a.peers, b.peers))
       /\ d.peerRemoveIDs = Pick(IDList(a.peers), Lost(a.peers, b.peers))
  BY <1>12 DEF DiffMap, New, IDList, Lost
<1>14. /\ d.relayUpserts = Pick(b.relays, New(a.relays, b.relays))
       /\ d.relayRemoveIDs = Pick(IDList(a.relays), Lost(a.relays, b.relays))
  BY <1>12 DEF DiffMap, New, IDList, Lost
<1>15. PICK base, peers, relays :
         /\ base = ClonePeers(cache.peers)
         /\ peers = MergeByID(base, d.peerUpserts, d.peerRemoveIDs)
         /\ relays = MergeByID(cache.relays, d.relayUpserts, d.relayRemoveIDs)
  OBVIOUS
<1>16. /\ IsList(base) /\ UniqueIDs(base)
       /\ \A e \in ToSet(base) : \E f \in ToSet(a.peers) : f.id = e.id
       /\ ToSet(a.peers) \cap ToSet(b.peers) \subseteq ToSet(base)
  <2>1. IsList(base) /\ UniqueIDs(base)  BY <1>6, <1>7, <1>15, CopiedPeers
  <2>2. ToSet(base) = Copies(a.peers)  BY <1>3, <1>15, CopiedPeers
  <2>3. \A e \in Copies(a.peers) : \E f \in ToSet(a.peers) : f.id = e.id
    BY DEF Copies, ClonePeer
  <2>4. ToSet(a.peers) \cap ToSet(b.peers) \subseteq Copies(a.peers)  BY <1>4 DEF Copies
  <2> QED  BY <2>1, <2>2, <2>3, <2>4
<1>17. /\ Mergeable(d.peerUpserts, d.peerRemoveIDs)
       /\ IsList(peers) /\ UniqueIDs(peers) /\ ToSet(peers) = ToSet(b.peers)
  BY <1>11, <1>13, <1>15, <1>16, ListRoundTrip
<1>18. /\ Mergeable(d.relayUpserts, d.relayRemoveIDs)
       /\ IsList(relays)
       /\ ToSet(relays) = ToSet(b.relays) /\ ToBag(relays) = ToBag(b.relays)
  <2>1. ToSet(cache.relays) = ToSet(a.relays)  BY <1>3, BagSet
  <2> QED  BY <1>7, <1>10, <1>11, <1>14, <1>15, <2>1, ListRoundTrip
<1>19. PICK n :
         /\ Reconstructed(cache, DeltaEvent(a, b)) = {n}
         /\ n.revision = b.revision /\ n.mapSignature = b.mapSignature
         /\ n.network = IF a.network = b.network THEN cache.network ELSE b.network
         /\ n.node = IF a.node = b.node THEN cache.node ELSE b.node
         /\ n.stunEndpoints = IF a.stunEndpoints = b.stunEndpoints
                              THEN cache.stunEndpoints ELSE b.stunEndpoints
         /\ n.registrationBinding = cache.registrationBinding
         /\ n.relayCredential \in {cache.relayCredential, b.relayCredential}
         /\ n.peers = ClonePeers(peers) /\ n.relays = relays
  BY <1>1, <1>12, <1>15, <1>17, <1>18, RebuiltMap
<1>20. /\ n.network = full.network /\ n.node = full.node
       /\ ToBag(n.stunEndpoints) = ToBag(full.stunEndpoints)
  BY <1>3, <1>4, <1>19
<1>21. /\ IsList(n.peers) /\ UniqueIDs(n.peers) /\ ToSet(n.peers) = ToSet(full.peers)
       /\ IsList(full.peers) /\ UniqueIDs(full.peers)
  <2>1. IsList(n.peers) /\ UniqueIDs(n.peers) /\ ToSet(n.peers) = Copies(peers)
    BY <1>17, <1>19, CopiedPeers
  <2>2. Copies(peers) = ToSet(b.peers)  BY <1>4, <1>17 DEF Copies
  <2>3. IsList(full.peers) /\ UniqueIDs(full.peers)  BY <1>4, <1>7, <1>9, CopiedPeers
  <2> QED  BY <1>4, <2>1, <2>2, <2>3
<1>22. ToBag(n.peers) = ToBag(full.peers)  BY <1>21, UniqueBag
<1>23. SameMembers(full, n)
  <2>1. ToSet(n.stunEndpoints) = ToSet(full.stunEndpoints)  BY <1>20, BagSet
  <2>2. Copies(n.peers) = Copies(full.peers)  BY <1>21 DEF Copies
  <2>3. ToSet(n.relays) = ToSet(full.relays)  BY <1>4, <1>18, <1>19
  <2> QED  BY <1>20, <2>1, <2>2, <2>3 DEF SameMembers
<1>24. ValidateRelayCredential(n)
  <2>1. ValidateRelayCredential(cache) /\ ValidateRelayCredential(full)
    BY <1>5, Zenon DEF ValidateNetworkMapSnapshot
  <2>2. /\ n.network.id = cache.network.id /\ n.node.id = cache.node.id
        /\ n.network.id = full.network.id /\ n.node.id = full.node.id
    BY <1>3, <1>4, <1>20 DEF SameRegistration
  <2> QED  BY <1>4, <1>19, <2>1, <2>2 DEF ValidateRelayCredential
<1>25. TrimSpace[n.registrationBinding] = TrimSpace[full.registrationBinding]
  BY <1>3, <1>4, <1>19 DEF SameRegistration
<1>26. ListMap(n) /\ ListMap(full)
  BY <1>4, <1>7, <1>18, <1>19, <1>21 DEF ListMap
<1>27. VerifyMapStreamResult(n, trust, now)
  <2>1. n.revision = full.revision /\ n.mapSignature = full.mapSignature
        /\ ToBag(n.relays) = ToBag(full.relays)
    BY <1>4, <1>18, <1>19
  <2> QED
    BY <1>4, <1>20, <1>21, <1>22, <1>23, <1>24, <1>25, <1>26, <2>1, SameVerified
<1> QED  BY <1>19, <1>27

LEMMA DeltaTaken ==
  ASSUME IInv, CInv, NEW a \in ToSet(published), NEW b \in ToSet(published),
         CurrentMapHash(cache) = CurrentMapHash(a),
         Addressable(a), Addressable(b), SameRegistration(a, b), Taken(FullEvent("resync", b))
  PROVE  Taken(DeltaEvent(a, b))
<1>1. PICK e, full : e = DeltaEvent(a, b) /\ full = FullEvent("resync", b)  OBVIOUS
<1>2. /\ e.eventID = "e" /\ e.type = "delta" /\ e.from = a.revision /\ e.to = b.revision
      /\ e.snapshot = {} /\ e.delta # {} /\ e.baseHash = CurrentMapHash(a)
      /\ e.resultSignature = b.mapSignature
  BY <1>1 DEF DeltaEvent, Event
<1>3. full.to = b.revision /\ full.resultSignature = b.mapSignature
  BY <1>1 DEF FullEvent, Event
<1>4. /\ a \in Publications /\ CurrentMapHash(a) # {} /\ b.mapSignature # {}
      /\ HashContent(a) = Content(a) /\ Content(a) # {}
  BY PublishedShape, PublicationHash DEF IInv
<1>5. ValidateMapStreamEvent(e)
  <2>1. e.baseHash # {} /\ e.resultSignature # {}  BY <1>2, <1>4
  <2>2. TrimSpace[e.eventID] # ""  BY <1>2, EventIDAssumption, Zenon
  <2> QED  BY <1>2, <2>1, <2>2, Zenon DEF ValidateMapStreamEvent
<1>6. cache.revision = a.revision
  <2>1. HashContent(cache) = HashContent(a)  BY DEF HashContent
  <2>2. Content(cache) = Content(a)  BY <1>4, <2>1 DEF CInv
  <2> QED  BY <1>4, <2>2, ContentFields
<1>7. ~BaseMismatch(cache, e)  BY <1>2, <1>6 DEF BaseMismatch
<1>8. CASE ApplyError(cache, full, trust, now) = "already_applied"
  <2>1. AlreadyApplied(cache, full)  BY <1>8 DEF ApplyError
  <2>2. AlreadyApplied(cache, e)  BY <1>2, <1>3, <2>1 DEF AlreadyApplied
  <2> QED  BY <1>1, <1>5, <2>2 DEF Taken, ApplyError
<1>9. CASE ApplyError(cache, full, trust, now) = "none"
  <2>1. \E n \in Reconstructed(cache, e) : VerifyMapStreamResult(n, trust, now)
    BY <1>1, <1>9, RoundTrip
  <2> QED  BY <1>1, <1>5, <1>7, <2>1 DEF Taken, ApplyError
<1> QED  BY <1>1, <1>8, <1>9 DEF Taken

\* A delta between two publications of one registration never fails to apply where the
\* full map would be taken (ApplyMapStreamEvent, applyMapDelta, the copies they make):
\* for any peers and relays with plain ids, in whatever order the node holds them and
\* whatever deltas and copies came before, the merge gives a map that validates and
\* verifies.
THEOREM DeltasApply == Spec => []DeltaRoundTrip
<1>1. IInv /\ CInv => DeltaRoundTrip
  BY DeltaTaken DEF DeltaRoundTrip
<1> QED
  BY <1>1, Invariance, PTL
=============================================================================
