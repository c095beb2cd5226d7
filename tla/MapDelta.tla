------------------------------ MODULE MapDelta ------------------------------
(***************************************************************************)
(* Map stream events and what ApplyMapStreamEvent makes of one             *)
(* (clientapi/v1/mapstream.go): reconstruct the complete map an event      *)
(* stands for, then validate and authenticate the result.                  *)
(***************************************************************************)
EXTENDS NetworkMap, Lists

EventTypes == {"heartbeat", "checkpoint", "snapshot", "resync", "delta"}

-----------------------------------------------------------------------------
(* Copies *)

\* A copied list of addresses is nil when there is nothing to copy: append to nil of a
\* list of none is nil.
ClonePeer(peer) ==
  [id         |-> peer.id,
   networkID  |-> peer.networkID,
   publicKey  |-> peer.publicKey,
   allowedIPs |-> {ips \in peer.allowedIPs : ips # {}},
   attrs      |-> peer.attrs]

ClonePeers(peers) == [i \in DOMAIN peers |-> ClonePeer(peers[i])]

\* cloneNetworkMapSnapshot. The allowed_ips of a peer are the only list whose absence the
\* signed payload tells from an empty one (no omitempty) and the boundary checks let
\* through empty; every other copy is equal to the original.
CloneNetworkMapSnapshot(snapshot) == [snapshot EXCEPT !.peers = ClonePeers(snapshot.peers)]

-----------------------------------------------------------------------------
(* Reconstruction of a delta *)

\* normalizedIDSet accepts: no blank id, no two ids that trim to the same.
NormalizableIDs(ids) ==
  /\ \A i \in DOMAIN ids : TrimSpace[ids[i]] # ""
  /\ \A i, j \in DOMAIN ids : TrimSpace[ids[i]] = TrimSpace[ids[j]] => i = j

\* mergePeers and mergeRelays fail on a blank or repeated id.
Mergeable(upserts, removeIDs) ==
  /\ NormalizableIDs(removeIDs)
  /\ NormalizableIDs([i \in DOMAIN upserts |-> upserts[i].id])

\* The current elements that are not removed. The ids to remove are trimmed, the ids of
\* the elements are taken as they are.
Kept(current, removeIDs) ==
  LET removed == {TrimSpace[id] : id \in ToSet(removeIDs)}
  IN  Pick(current, {i \in DOMAIN current : current[i].id \notin removed})

\* The upsert for an element that stays, if there is one: here the ids of upserts are
\* trimmed.
UpsertsFor(id, upserts) == {u \in ToSet(upserts) : TrimSpace[u.id] = id}

IsLast(list, i) == \A j \in (i + 1) .. Len(list) : list[j].id # list[i].id

\* The elements that stay, the ones that have an upsert replaced in their place. Of
\* several elements with one id the last is replaced.
Replaced(kept, upserts) ==
  [i \in DOMAIN kept |->
     IF IsLast(kept, i) /\ UpsertsFor(kept[i].id, upserts) # {}
     THEN Deref(UpsertsFor(kept[i].id, upserts))
     ELSE kept[i]]

\* The upserts for which there is nothing to replace.
Fresh(kept, upserts) ==
  Pick(upserts, {i \in DOMAIN upserts :
                   \A j \in DOMAIN kept : kept[j].id # TrimSpace[upserts[i].id]})

\* Fault for MergeByID: an element that is already there is not replaced.
MergeKeepsOld(current, upserts, removeIDs) ==
  LET kept == Kept(current, removeIDs) IN kept \o Fresh(kept, upserts)

\* mergePeers and mergeRelays: drop the removed elements, replace in place the ones that
\* have an upsert, append the other upserts in their order.
MergeByID(current, upserts, removeIDs) ==
  LET kept == Kept(current, removeIDs) IN Replaced(kept, upserts) \o Fresh(kept, upserts)

\* A field of a delta replaces the current value when it is present.
Override(ptr, current) == IF ptr = {} THEN current ELSE Deref(ptr)

\* applyMapDelta, or an error when a list of ids is not usable. The map is copied before
\* and after.
ApplyMapDelta(current, delta) ==
  IF /\ Mergeable(delta.peerUpserts, delta.peerRemoveIDs)
     /\ Mergeable(delta.relayUpserts, delta.relayRemoveIDs)
  THEN LET next == CloneNetworkMapSnapshot(current)
       IN  {CloneNetworkMapSnapshot(
              [next EXCEPT
                 !.network         = Override(delta.network, @),
                 !.node            = Override(delta.node, @),
                 !.stunEndpoints   = Override(delta.stunEndpoints, @),
                 !.relayCredential = IF delta.relayCredential = {} THEN @ ELSE delta.relayCredential,
                 !.peers           = MergeByID(@, delta.peerUpserts, delta.peerRemoveIDs),
                 !.relays          = MergeByID(@, delta.relayUpserts, delta.relayRemoveIDs)])}
  ELSE {}

-----------------------------------------------------------------------------
(* ApplyMapStreamEvent *)

\* HasFullMap: a snapshot that names a network and a node.
HasFullMap(event) ==
  \E s \in event.snapshot : TrimSpace[s.network.id] # "" /\ TrimSpace[s.node.id] # ""

\* validateMapStreamEvent: the shape of each type of event.
ValidateMapStreamEvent(event) ==
  /\ TrimSpace[event.eventID] # ""
  /\ \/ /\ event.type \in {"heartbeat", "checkpoint"}
        /\ event.snapshot = {} /\ event.delta = {}
     \/ /\ event.type \in {"snapshot", "resync"}
        /\ HasFullMap(event) /\ event.delta = {} /\ event.resultSignature # {}
     \/ /\ event.type = "delta"
        /\ event.delta # {} /\ event.snapshot = {}
        /\ event.baseHash # {} /\ event.resultSignature # {}

\* currentMapHash: {} is the empty string.
CurrentMapHash(snapshot) == {sig.payloadHash : sig \in snapshot.mapSignature}

\* Fault for AlreadyApplied: the start of the event is compared, not its end.
AppliedByStart(current, event) ==
  /\ current.revision = event.from
  /\ \E have \in current.mapSignature, want \in event.resultSignature :
       have.payloadHash = want.payloadHash

\* The map at hand is the result of the event, by revision and claimed payload hash.
AlreadyApplied(current, event) ==
  /\ current.revision = event.to
  /\ \E have \in current.mapSignature, want \in event.resultSignature :
       have.payloadHash = want.payloadHash

\* Fault for BaseMismatch: the base of a delta is not compared.
BaseUnchecked(current, event) ==
  /\ event.type \in {"heartbeat", "checkpoint"}
  /\ \/ current.revision # event.to
     \/ event.baseHash # {} /\ event.baseHash # CurrentMapHash(current)

\* The event does not start from the map at hand. A checkpoint without a base hash
\* only compares revisions.
BaseMismatch(current, event) ==
  \/ /\ event.type \in {"heartbeat", "checkpoint"}
     /\ \/ current.revision # event.to
        \/ event.baseHash # {} /\ event.baseHash # CurrentMapHash(current)
  \/ /\ event.type = "delta"
     /\ \/ current.revision # event.from
        \/ event.baseHash # CurrentMapHash(current)

\* The reconstructed map: a copy of the event's snapshot, or the delta applied to the map
\* at hand; it takes the revision and the signature of the event.
Reconstructed(current, event) ==
  {[s EXCEPT !.revision = event.to, !.mapSignature = event.resultSignature] :
     s \in IF event.type = "delta"
           THEN ApplyMapDelta(current, Deref(event.delta))
           ELSE {CloneNetworkMapSnapshot(full) : full \in event.snapshot}}

\* Fault for VerifyMapStreamResult: the map is authenticated and not validated.
VerifyOnlySignature(snapshot, trust, at) ==
  \E sig \in snapshot.mapSignature :
    \E key \in Resolve(trust, sig.keyID, at) : VerifySignatureAt(snapshot, key.publicKey, at)

\* Fault for VerifyMapStreamResult: the signing key is trusted, the signature not checked.
VerifyOnlyKey(snapshot, trust, at) ==
  /\ ValidateNetworkMapSnapshot(snapshot)
  /\ \E sig \in snapshot.mapSignature : Resolve(trust, sig.keyID, at) # {}

\* verifyMapStreamResult
VerifyMapStreamResult(snapshot, trust, at) ==
  /\ ValidateNetworkMapSnapshot(snapshot)
  /\ \E sig \in snapshot.mapSignature :
       \E key \in Resolve(trust, sig.keyID, at) :
         VerifySignatureAt(snapshot, key.publicKey, at)

\* The error of ApplyMapStreamEvent, in the order in which the code decides it.
ApplyError(current, event, trust, at) ==
  IF ~ValidateMapStreamEvent(event) THEN "rejected"
  ELSE IF AlreadyApplied(current, event) THEN "already_applied"
  ELSE IF BaseMismatch(current, event) THEN "resync_required"
  ELSE IF \/ event.type \in {"heartbeat", "checkpoint"}
          \/ \E next \in Reconstructed(current, event) : VerifyMapStreamResult(next, trust, at)
       THEN "none"
  ELSE "rejected"

\* The map ApplyMapStreamEvent returns along with that error.
ApplyMapStreamEvent(current, event, trust, at) ==
  LET err == ApplyError(current, event, trust, at)
  IN  [err      |-> err,
       snapshot |-> IF err \in {"rejected", "resync_required"} THEN ZeroSnapshot
                    ELSE IF err = "already_applied" \/ event.type \in {"heartbeat", "checkpoint"}
                         THEN CloneNetworkMapSnapshot(current)
                         ELSE Deref(Reconstructed(current, event))]
=============================================================================
