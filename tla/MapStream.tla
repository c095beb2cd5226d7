----------------------------- MODULE MapStream ------------------------------
(***************************************************************************)
(* A node that keeps its network map up to date.                           *)
(*                                                                         *)
(* The control plane (external) publishes signed snapshots. The node reads *)
(* one event at a time from the map stream (ReadMapStreamEvent), hands it  *)
(* to ApplyMapStreamEvent, and replaces its cache only when that succeeds; *)
(* on any failure it asks for a full snapshot (the contract in the         *)
(* comments of both functions). Between reading an event and applying it   *)
(* the node may adopt the map of a registration or endpoint-update         *)
(* response, which it verifies with                                        *)
(* VerifyNetworkMapSnapshotSignatureWithTrustBundle: one look at the clock *)
(* resolves the key, a second one checks the signature. Events and         *)
(* responses can be late, repeated, out of order, from a coordinator that  *)
(* lags behind, or carry the signature of another publication.             *)
(***************************************************************************)
EXTENDS MapDelta

CONSTANTS
  Projections,   \* the map contents the control plane may publish
  SigningKeys,   \* the public keys it signs with
  ClockOffsets,  \* how far its clock may be from the node's
  SignatureTTL,  \* the lifetime of its signatures
  TrustBundles,  \* the trust bundles it hands out, in order
  MaxPublished,  \* bound on publications
  MaxTime,       \* bound on the clock
  MaxStale       \* bound on events and responses that are not up to date

ASSUME MapStreamAssumption ==
  /\ SigningKeys \subseteq DOMAIN KeyIDOf
  /\ ClockOffsets \subseteq Int
  /\ SignatureTTL \in Nat \ {0}
  /\ Len(TrustBundles) \in Nat \ {0}
  /\ DOMAIN TrustBundles = 1 .. Len(TrustBundles)
  /\ MaxPublished \in Nat /\ MaxTime \in Nat /\ MaxStale \in Nat
  /\ \A c \in Projections : /\ DOMAIN c = DOMAIN ZeroSnapshot
                            /\ c.revision = ZeroRevision
                            /\ c.mapSignature = {}
                            /\ c.peers \in Seq(ToSet(c.peers))
                            /\ c.relays \in Seq(ToSet(c.relays))

\* The id of the events is not blank.
ASSUME EventIDAssumption == TrimSpace["e"] # ""

VARIABLES
  published,  \* the signed snapshots, oldest first
  now,        \* the node's clock
  epoch,      \* the trust bundle the node has fetched, an index of TrustBundles
  cache,      \* the node's committed map
  needFull,   \* the node's next request asks for a full snapshot
  pending,    \* {} or the event that was read and not yet applied
  response,   \* {} or the response map under verification, with the key resolved for it
  stale       \* how many late or torn messages have been delivered

vars == <<published, now, epoch, cache, needFull, pending, response, stale>>

trust == TrustBundles[epoch]

Head0 == published[Len(published)]

-----------------------------------------------------------------------------
(* The control plane (external) *)

\* A publication of new content has a new revision; signing the same content again,
\* to renew the signature, keeps it.
NextRevision(content) ==
  IF published = <<>> THEN 1
  ELSE IF [Head0 EXCEPT !.revision = ZeroRevision, !.mapSignature = {}] = content
       THEN Head0.revision
       ELSE Head0.revision + 1

SignedSnapshot(content, revision, key, issuedAt) ==
  LET s == [content EXCEPT !.revision = revision]
  IN  [s EXCEPT !.mapSignature = SignNetworkMapSnapshot(key, s, issuedAt, SignatureTTL)]

\* The changes from a to b as a delta can say them: it has no way to take the relay
\* credential away or to change the registration binding.
DiffMap(a, b) ==
  LET changed(x, y) == IF x = y THEN {} ELSE {y}
      upserts(x, y) == Pick(y, {i \in DOMAIN y : y[i] \notin ToSet(x)})
      gone(x, y)    == Pick([i \in DOMAIN x |-> x[i].id],
                            {i \in DOMAIN x : \A j \in DOMAIN y : y[j].id # x[i].id})
  IN  [network         |-> changed(a.network, b.network),
       node            |-> changed(a.node, b.node),
       peerUpserts     |-> upserts(a.peers, b.peers),
       peerRemoveIDs   |-> gone(a.peers, b.peers),
       stunEndpoints   |-> changed(a.stunEndpoints, b.stunEndpoints),
       relayUpserts    |-> upserts(a.relays, b.relays),
       relayRemoveIDs  |-> gone(a.relays, b.relays),
       relayCredential |-> IF a.relayCredential = b.relayCredential THEN {} ELSE b.relayCredential]

Event(type, from, to, baseHash, snapshot, delta, signature) ==
  [eventID |-> "e", type |-> type, from |-> from, to |-> to, baseHash |-> baseHash,
   snapshot |-> snapshot, delta |-> delta, resultSignature |-> signature]

FullEvent(type, s) ==
  Event(type, ZeroRevision, s.revision, {}, {s}, {}, s.mapSignature)

DeltaEvent(a, b) ==
  Event("delta", a.revision, b.revision, CurrentMapHash(a), {}, {DiffMap(a, b)}, b.mapSignature)

CheckpointEvent(s, baseHash) ==
  Event("checkpoint", s.revision, s.revision, baseHash, {}, {}, {})

\* What an up-to-date coordinator answers to the node's cursor: a full snapshot, or,
\* when the cursor names a publication and the node did not ask for everything, the
\* difference to it.
FreshEvents ==
  {FullEvent(IF needFull THEN "resync" ELSE "snapshot", Head0)}
  \cup IF needFull THEN {}
       ELSE {IF a.mapSignature = Head0.mapSignature
             THEN CheckpointEvent(a, CurrentMapHash(a))
             ELSE DeltaEvent(a, Head0) :
               a \in {b \in ToSet(published) : CurrentMapHash(b) = CurrentMapHash(cache)}}

\* Everything a stream may still deliver: answers to an earlier cursor or of a
\* coordinator that lags behind (its deltas lead back from the cursor to its own older
\* map), and the same events with the signature of another publication.
AnyEvents ==
  LET P == ToSet(published)
      intact == {FullEvent(type, s) : type \in {"snapshot", "resync"}, s \in P}
                \cup {CheckpointEvent(s, h) : s \in P, h \in {{}} \cup {CurrentMapHash(s) : s \in P}}
                \cup {DeltaEvent(a, b) : a \in P, b \in P}
      torn == {[e EXCEPT !.resultSignature = s.mapSignature] : e \in intact, s \in P}
  IN  intact \cup torn

-----------------------------------------------------------------------------

Init ==
  /\ published = <<>>
  /\ now = 0
  /\ epoch = 1
  /\ cache = ZeroSnapshot
  /\ needFull = FALSE
  /\ pending = {}
  /\ response = {}
  /\ stale = 0

\* The control plane publishes a map.
Publish(content, key, offset) ==
  /\ Len(published) < MaxPublished
  /\ now + offset >= 0
  /\ published' = Append(published,
                         SignedSnapshot(content, NextRevision(content), key, now + offset))
  /\ UNCHANGED <<now, epoch, cache, needFull, pending, response, stale>>

Tick ==
  /\ now < MaxTime
  /\ now' = now + 1
  /\ UNCHANGED <<published, epoch, cache, needFull, pending, response, stale>>

\* The node fetches the next trust bundle; a bundle that does not validate is refused
\* (signingTrustBundleFromResponse).
RefreshTrust ==
  /\ epoch < Len(TrustBundles)
  /\ \E e \in (epoch + 1) .. Len(TrustBundles) :
       ValidTrustBundle(TrustBundles[e]) /\ epoch' = e
  /\ UNCHANGED <<published, now, cache, needFull, pending, response, stale>>

\* Fault for ReadFreshEvent: a second event is read before the first is applied.
ReadAhead ==
  /\ published # <<>>
  /\ \E e \in FreshEvents : pending' = pending \cup {e}
  /\ UNCHANGED <<published, now, epoch, cache, needFull, response, stale>>

\* ReadMapStreamEvent returns the answer to the node's cursor.
ReadFreshEvent ==
  /\ pending = {} /\ published # <<>>
  /\ \E e \in FreshEvents : pending' = {e}
  /\ UNCHANGED <<published, now, epoch, cache, needFull, response, stale>>

\* ReadMapStreamEvent returns something else.
ReadStaleEvent ==
  /\ pending = {} /\ stale < MaxStale
  /\ \E e \in AnyEvents : pending' = {e}
  /\ stale' = stale + 1
  /\ UNCHANGED <<published, now, epoch, cache, needFull, response>>

\* Fault for ApplyEvent: only ErrMapStreamResyncRequired leads to a full snapshot.
ApplyWithoutRepair ==
  \E event \in pending :
    LET out == ApplyMapStreamEvent(cache, event, trust, now)
    IN  /\ cache' = IF out.err = "none" THEN out.snapshot ELSE cache
        /\ needFull' = (out.err = "resync_required")
        /\ pending' = {}
        /\ UNCHANGED <<published, now, epoch, response, stale>>

\* The node applies the event, and commits the result or asks for a full snapshot.
ApplyEvent ==
  \E event \in pending :
    LET out == ApplyMapStreamEvent(cache, event, trust, now)
    IN  /\ cache' = IF out.err = "none" THEN out.snapshot ELSE cache
        /\ needFull' = (out.err \notin {"none", "already_applied"})
        /\ pending' = {}
        /\ UNCHANGED <<published, now, epoch, response, stale>>

\* A registration or endpoint update returns some publication.
ReceiveResponse ==
  /\ response = {} /\ stale < MaxStale
  /\ \E s \in ToSet(published) : response' = {[snapshot |-> s, key |-> {}]}
  /\ stale' = stale + 1
  /\ UNCHANGED <<published, now, epoch, cache, needFull, pending>>

\* VerifyNetworkMapSnapshotSignatureWithTrustBundle, first clock reading: resolve the
\* key or give up.
ResolveResponseKey ==
  \E r \in response :
    /\ r.key = {}
    /\ LET keys == UNION {Resolve(trust, sig.keyID, now) : sig \in r.snapshot.mapSignature}
       IN  response' = IF keys = {} THEN {} ELSE {[r EXCEPT !.key = keys]}
    /\ UNCHANGED <<published, now, epoch, cache, needFull, pending, stale>>

\* Second clock reading: validate the map, verify the signature, and commit or discard.
VerifyResponse ==
  \E r \in response :
    /\ r.key # {}
    /\ cache' = IF /\ ValidateNetworkMapSnapshot(r.snapshot)
                   /\ \E key \in r.key : VerifySignatureAt(r.snapshot, key.publicKey, now)
                THEN r.snapshot ELSE cache
    /\ response' = {}
    /\ UNCHANGED <<published, now, epoch, needFull, pending, stale>>

Next ==
  \/ \E content \in Projections, key \in SigningKeys, offset \in ClockOffsets :
       Publish(content, key, offset)
  \/ Tick
  \/ RefreshTrust
  \/ ReadFreshEvent
  \/ ReadStaleEvent
  \/ ApplyEvent
  \/ ReceiveResponse
  \/ ResolveResponseKey
  \/ VerifyResponse

\* The node keeps reading and applying, and finishes what it verifies; the stream keeps
\* answering. Nothing obliges the control plane to publish or time to pass.
Fairness ==
  /\ WF_vars(ReadFreshEvent)
  /\ WF_vars(ApplyEvent)
  /\ WF_vars(ResolveResponseKey)
  /\ WF_vars(VerifyResponse)

Spec == Init /\ [][Next]_vars

FairSpec == Spec /\ Fairness

-----------------------------------------------------------------------------
(* Properties *)

\* Every snapshot the control plane can have published within the bounds.
IssueTimes == UNION {{n + o : o \in ClockOffsets} : n \in 0 .. MaxTime}

Publications ==
  {SignedSnapshot(c, r, k, t) :
     c \in Projections, r \in 1 .. MaxPublished, k \in SigningKeys, t \in IssueTimes}

\* Type invariant.
TypeOK ==
  /\ published \in Seq(Publications)
  /\ Len(published) <= MaxPublished
  /\ now \in 0 .. MaxTime
  /\ epoch \in DOMAIN TrustBundles
  /\ DOMAIN cache = DOMAIN ZeroSnapshot /\ cache.revision \in Nat
  /\ needFull \in BOOLEAN
  /\ \A e, f \in pending : e = f
  /\ \A e \in pending : e.type \in EventTypes
  /\ \A r, q \in response : r = q
  /\ \A r \in response : DOMAIN r = {"snapshot", "key"} /\ r.snapshot \in ToSet(published)
  /\ stale \in 0 .. MaxStale

\* What a payload says, whatever the order and the copies of its peers: an empty list of
\* addresses and none say the same. (A peer listed twice is left to CacheValid.)
Reading(payload) == [payload EXCEPT !.peers = {ClonePeer(p) : p \in DOMAIN payload.peers}]

\* The content a snapshot's signature stands for, computed from the snapshot itself and
\* not from the hash it claims.
Content(s) == {Reading(PayloadUnder(s, sig)) : sig \in s.mapSignature}

SignedContents == UNION {Content(s) : s \in ToSet(published)}

\* Whatever is late, repeated, reordered or torn, and however responses and events
\* interleave: the committed map is the zero map or, down to every signed field, one the
\* control plane published. A delta applied to another base than its own, or a
\* reconstruction that loses or doubles a peer, would break it.
CacheAuthentic ==
  /\ Content(cache) \subseteq SignedContents
  /\ cache.mapSignature = {} => cache = ZeroSnapshot

\* The committed map passes the boundary checks as a whole: a delta that removes a peer
\* can not leave a service host, an application binding or a sharing grant behind that
\* names it.
CacheValid == cache = ZeroSnapshot \/ ValidateNetworkMapSnapshot(cache)

\* A map that a delta can address: ids without surrounding space, because merging
\* compares a trimmed id with an untrimmed one, and none used twice (which the boundary
\* checks exclude for peers and not for relays).
Addressable(s) ==
  /\ \A e \in ToSet(s.peers) \cup ToSet(s.relays) : TrimSpace[e.id] = e.id
  /\ UniqueIDs(s.peers) /\ UniqueIDs(s.relays)

\* Maps of one registration of one node.
SameRegistration(a, b) ==
  /\ a.registrationBinding = b.registrationBinding
  /\ a.network.id = b.network.id /\ a.node.id = b.node.id

\* ApplyMapStreamEvent takes the event, or has taken it already.
Taken(event) == ApplyError(cache, event, trust, now) \in {"none", "already_applied"}

\* The delta between two publications of one registration, offered to a node that holds
\* the first, is taken whenever the full second map would be: the merge of peers and
\* relays undoes the difference up to order, and the leftovers of earlier deltas and
\* copies (the order of the lists, an outdated relay credential, an empty list of
\* addresses that became nil) never spoil a later one.
DeltaRoundTrip ==
  \A a, b \in ToSet(published) :
    /\ CurrentMapHash(cache) = CurrentMapHash(a)
    /\ Addressable(a) /\ Addressable(b) /\ SameRegistration(a, b)
    /\ Taken(FullEvent("resync", b))
    => Taken(DeltaEvent(a, b))

\* The event carries a map. (The others leave the map as it is, but for the copy of it.)
CarriesMap(event) == event.type \notin {"heartbeat", "checkpoint"}

\* A delta that is committed leads from the publication it was computed from to the one
\* whose signature it carries, forward or back: one that is late, was meant for another
\* base or was given another signature never leaves a mixture of two maps.
DeltaMovesFromItsBase ==
  [][ApplyEvent /\ cache' # cache =>
       \A e \in pending : e.type = "delta" =>
         \E a, b \in ToSet(published) :
           /\ e.baseHash = CurrentMapHash(a) /\ e.resultSignature = b.mapSignature
           /\ Content(cache) = Content(a) /\ Content(cache') = Content(b)]_vars

\* Delivering an event again right after it was committed changes nothing, and one that
\* carries a map is recognised as a repetition (ErrMapStreamEventAlreadyApplied).
ReplayIsRecognised ==
  [][ApplyEvent /\ cache' # cache =>
       \A e \in pending :
         LET again == ApplyMapStreamEvent(cache', e, trust, now)
         IN  /\ again.snapshot = cache'
             /\ again.err = IF CarriesMap(e) THEN "already_applied" ELSE "none"]_vars

\* A map that enters the cache from the stream is signed by a key the node's bundle
\* trusts at that very time, by its derived id and within its window.
StreamCommitTrusted ==
  [][ApplyEvent /\ cache' # cache /\ (\A e \in pending : CarriesMap(e)) =>
       \A sig \in cache'.mapSignature :
         \E i \in DOMAIN trust.keys :
           /\ SigningKeyID(trust.keys[i].publicKey) = {sig.keyID}
           /\ sig.signature.by = TrimSpace[trust.keys[i].publicKey]
           /\ WithinTrustWindow(trust.keys[i], now)]_vars

\* The signed map determines the whole projection the node uses, its relay credential
\* included ("NetworkMapSnapshot is the complete, signed client projection"). It does not
\* hold: the credential is outside the signed payload and no delta can withdraw it.
RelayCredentialSigned ==
  \A s \in ToSet(published) :
    Content(cache) = Content(s) => cache.relayCredential = s.relayCredential

\* The map protocol implements the abstract promise.
Abstract == INSTANCE AuthenticMap WITH
  signed <- SignedContents, held <- Content(cache), clock <- now

AuthenticMapSpec == Abstract!ASpec

\* The node could verify its copy of the newest publication now. A map in which a peer's
\* list of addresses is empty and not nil never gets there: the copy has another payload
\* than the one signed, and the stream keeps refusing it.
HeadVerifiable ==
  published # <<>> /\ VerifyMapStreamResult(CloneNetworkMapSnapshot(Head0), trust, now)

InSync == published # <<>> /\ Content(cache) = Content(Head0)

\* Once the copy of the newest publication stays verifiable, the node ends up with it for
\* good: a delta that can not be applied, a torn event or a lost base is always repaired
\* by the full snapshot the node then asks for.
Converges == <>[]HeadVerifiable => <>[]InSync
=============================================================================
