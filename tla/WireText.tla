------------------------------ MODULE WireText ------------------------------
(***************************************************************************)
(* The texts and JSON bodies of the registration and recovery contract:    *)
(* the validators of single texts (clientapi/v1/registration.go) and the   *)
(* strict codecs (clientapi/v1/codec.go).                                  *)
(*                                                                         *)
(* What the validators look at in a text is given by the constant function *)
(* TextOf. A JSON body is its length and the value it decodes to: {} when  *)
(* it is not exactly one object of the type, with no unknown field and     *)
(* nothing after it.                                                       *)
(***************************************************************************)
EXTENDS SigningTrust

CONSTANT
  TextOf   \* [text -> [length, escaped, safe, identifier]]: its bytes, how many of them
           \* json.Marshal writes as a six-byte escape, free of control characters,
           \* only characters of an identifier

ASSUME TextAssumption ==
  \A s \in DOMAIN TextOf : /\ s \in DOMAIN TrimSpace
                           /\ TextOf[s].length \in Nat
                           /\ TextOf[s].escaped \in 0 .. TextOf[s].length
                           /\ TextOf[s].safe \in BOOLEAN
                           /\ TextOf[s].identifier \in BOOLEAN

SchemaVersion == 2

maxPublicErrorBytes == 16384

maxOpaqueCredentialBytes == 16384

maxSafeFieldBytes == 1024

maxIdentifierBytes == 128

-----------------------------------------------------------------------------

ValidateSafeString(value, minBytes, maxBytes) ==
  /\ TextOf[value].safe
  /\ TrimSpace[value] = value
  /\ TextOf[value].length \in minBytes .. maxBytes

ValidateIdentifier(value, minBytes, maxBytes) ==
  /\ TextOf[value].length \in minBytes .. maxBytes
  /\ TrimSpace[value] = value
  /\ TextOf[value].identifier

ValidateOpaqueCredential(value) ==
  /\ TextOf[value].length <= maxOpaqueCredentialBytes
  /\ TrimSpace[value] = value
  /\ TextOf[value].safe

\* The digest of a value is a record of it: SHA-256 does not collide. A digest field is
\* {} when it is empty; Other is a text that is not a canonical digest.
Digest(value) == [sha256 |-> value]

Other == [text |-> "other"]

ValidateDigest(field, required) ==
  /\ required => field # {}
  /\ Other \notin field

\* secretBinding: the digest of a secret, empty when there is none.
SecretBinding(value) == IF TrimSpace[value] = "" THEN {} ELSE {Digest(TrimSpace[value])}

\* decodeStrict
DecodeStrict(body, limit) == IF body.bytes > limit THEN {} ELSE body.value

\* json.Marshal of a text inside a body.
JSONBytes(value) == TextOf[value].length + 5 * TextOf[value].escaped
=============================================================================
