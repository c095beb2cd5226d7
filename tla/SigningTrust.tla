---------------------------- MODULE SigningTrust ----------------------------
(***************************************************************************)
(* Signing trust bundles (clientapi/v1/signing_trust.go): the set of       *)
(* Ed25519 keys a client trusts, which of them a key id resolves to, and   *)
(* when.                                                                   *)
(*                                                                         *)
(* Conventions of every module of this project.                            *)
(*   - A Go string is a TLA+ string; strings.TrimSpace is the constant     *)
(*     function TrimSpace, so that a padded identifier is a value other    *)
(*     than the identifier it trims to.                                    *)
(*   - A Go pointer is a set with at most one element; nil is {}.          *)
(*   - (T, error) is a set with at most one T; {} is the error.            *)
(*   - Times are natural numbers.                                          *)
(***************************************************************************)
EXTENDS Integers, Sequences, SequencesExt

CONSTANTS
  TrimSpace,  \* [string -> string], strings.TrimSpace on the strings of the model
  KeyIDOf     \* [public key -> key id], "ed25519:" + base64(sha256(key)), on the
              \* strings that decode to a 32-byte public key

ASSUME TrimSpaceAssumption ==
  /\ "" \in DOMAIN TrimSpace
  /\ TrimSpace[""] = ""
  /\ \A s \in DOMAIN TrimSpace :
       /\ TrimSpace[s] \in DOMAIN TrimSpace
       /\ TrimSpace[TrimSpace[s]] = TrimSpace[s]

\* SHA-256 does not collide on the keys of the model, and a key id is text without
\* surrounding space.
ASSUME KeyIDAssumption ==
  /\ DOMAIN KeyIDOf \subseteq DOMAIN TrimSpace
  /\ \A k \in DOMAIN KeyIDOf :
       /\ TrimSpace[k] = k
       /\ KeyIDOf[k] \in DOMAIN TrimSpace
       /\ TrimSpace[KeyIDOf[k]] = KeyIDOf[k]
       /\ KeyIDOf[k] # ""
  /\ \A k, l \in DOMAIN KeyIDOf : KeyIDOf[k] = KeyIDOf[l] => k = l

SigningTrustBundleVersion == 1

SigningKeyAlgorithmEd25519 == "ed25519"

\* The element of a non-nil pointer.
Deref(ptr) == CHOOSE x \in ptr : TRUE

-----------------------------------------------------------------------------

\* The id of a public key, or an error when the text is not a key.
SigningKeyID(publicKey) ==
  {KeyIDOf[k] : k \in {TrimSpace[publicKey]} \cap DOMAIN KeyIDOf}

\* The bundle of a single key without a validity window.
NewSigningTrustBundle(publicKey) ==
  {[version     |-> SigningTrustBundleVersion,
    activeKeyID |-> keyID,
    keys        |-> <<[keyID     |-> keyID,
                       algorithm |-> SigningKeyAlgorithmEd25519,
                       publicKey |-> TrimSpace[publicKey],
                       notBefore |-> {},
                       notAfter  |-> {}]>>] : keyID \in SigningKeyID(publicKey)}

\* The per-key part of Validate: identity, algorithm, the id is the one derived from
\* the key, and a window that is not empty.
ValidTrustKey(key) ==
  /\ TrimSpace[key.keyID] # ""
  /\ TrimSpace[key.algorithm] = SigningKeyAlgorithmEd25519
  /\ SigningKeyID(key.publicKey) = {TrimSpace[key.keyID]}
  /\ \A from \in key.notBefore, to \in key.notAfter : to > from

\* SigningTrustBundle.Validate
ValidTrustBundle(b) ==
  /\ b.version = SigningTrustBundleVersion
  /\ TrimSpace[b.activeKeyID] # ""
  /\ b.keys # <<>>
  /\ \A i \in DOMAIN b.keys : ValidTrustKey(b.keys[i])
  /\ \A i, j \in DOMAIN b.keys :
       TrimSpace[b.keys[i].keyID] = TrimSpace[b.keys[j].keyID] => i = j
  /\ \E i \in DOMAIN b.keys : TrimSpace[b.keys[i].keyID] = TrimSpace[b.activeKeyID]

\* A key is trusted from notBefore, included, to notAfter, excluded.
WithinTrustWindow(key, at) ==
  /\ \A from \in key.notBefore : at >= from
  /\ \A to \in key.notAfter : at < to

\* Fault for Resolve: the validity window of the key is ignored.
ResolveAnyTime(b, keyID, at) ==
  IF ValidTrustBundle(b) /\ TrimSpace[keyID] # ""
  THEN {key \in ToSet(b.keys) : key.keyID = TrimSpace[keyID]}
  ELSE {}

\* SigningTrustBundle.Resolve: the trusted key with this id, or an error. The argument
\* is trimmed, the ids of the bundle are compared as they are.
Resolve(b, keyID, at) ==
  IF ValidTrustBundle(b) /\ TrimSpace[keyID] # ""
  THEN {key \in ToSet(b.keys) :
          key.keyID = TrimSpace[keyID] /\ WithinTrustWindow(key, at)}
  ELSE {}
=============================================================================
