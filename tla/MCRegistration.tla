--------------------------- MODULE MCRegistration ---------------------------
(***************************************************************************)
(* Small instances of Registration: the texts, keys, trust bundles and     *)
(* authorizations of the configurations Registration*.cfg.                 *)
(***************************************************************************)
EXTENDS Registration

\* 1024 times the character <, which json.Marshal writes in six bytes.
Marks == "<<<<"

MCTexts ==
  {"", "ok", "ed25519", "k1", "k2", "id1", "id2", "N", "office", "n1", "n2", "n3",
   "operation 1", "operation 2", "operation 3", "request", "other request",
   "node:register", "node:map", "token", "session",
   "device", "device key", "device id", "other", "other key", "other id", Marks}

MCTrimSpace == [s \in MCTexts |-> s]

MCTextOf ==
  [s \in MCTexts |->
    [length     |-> IF s = "" THEN 0 ELSE IF s = Marks THEN 1024 ELSE 20,
     escaped    |-> IF s = Marks THEN 1024 ELSE 0,
     safe       |-> TRUE,
     identifier |-> s # Marks]]

MCKeyIDOf == "k1" :> "id1" @@ "k2" :> "id2"

MCDevice == [identityPublicKey |-> "device id", publicKey |-> "device key", deviceFingerprint |-> "device"]

MCOtherDevice == [identityPublicKey |-> "other id", publicKey |-> "other key", deviceFingerprint |-> "other"]

MCNetwork == [id |-> "N", name |-> "office"]

Authorization(id, name, token, session) ==
  [networkID |-> id, networkName |-> name, joinToken |-> token, session |-> session]

\* A join token for a network known by its id, a session for one known by its name.
MCAuthorizations ==
  {Authorization("N", "", "token", ""), Authorization("", "office", "", "session")}

MCSigningKeys == <<"k1", "k2">>

TrustKey(id, k, from, to) ==
  [keyID |-> id, algorithm |-> "ed25519", publicKey |-> k, notBefore |-> from, notAfter |-> to]

Bundle(keys) == [version |-> 1, activeKeyID |-> "id2", keys |-> keys]

\* Both keys, trusted for ever.
LastingBundle == Bundle(<<TrustKey("id1", "k1", {}, {}), TrustKey("id2", "k2", {}, {})>>)

\* A rotation with windows that overlap.
RotatingBundle == Bundle(<<TrustKey("id1", "k1", {}, {2}), TrustKey("id2", "k2", {1}, {})>>)

TwoOperations == <<"operation 1", "operation 2">>

ThreeOperations == <<"operation 1", "operation 2", "operation 3">>

TwoNodes == <<"n1", "n2">>

ThreeNodes == <<"n1", "n2", "n3">>

MCRequestIDs == <<"request", "other request">>
=============================================================================
