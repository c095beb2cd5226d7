------------------------- MODULE MCComponentRelease -------------------------
(***************************************************************************)
(* A small instance of ComponentRelease: two builds of a gateway that      *)
(* affects two consumers, one of them also with a single gate, a candidate *)
(* whose archive is not its own and one with a malformed digest.           *)
(***************************************************************************)
EXTENDS ComponentRelease, TLC

MCMatches ==
  [release |-> {"gateway", "admin", "client"}, repository |-> {"endless-net/gateway"},
   commit |-> {"c1", "c2"}, artifact |-> {"archive@1", "archive@2"}, blob |-> {"blob"},
   version |-> {"v1"}, sum |-> {"h1"}, event |-> {"gateway"}]

MCRunOf == "build run" :> "endless-net/gateway" @@ "promotion run" :> "endless-net/releases"

One == [sha256 |-> "1"]

Malformed == [text |-> "1"]

MCDigestIn == "archive@1" :> One @@ "archive@2" :> [sha256 |-> "2"]

MCArchiveOf == "archive@1" :> <<"gateway", "c1">> @@ "archive@2" :> <<"gateway", "c2">>

MCRepositoryOf == "gateway" :> "endless-net/gateway"

Gate(consumer) == [provider |-> "gateway", consumer |-> consumer, contract |-> "map", version |-> 1]

Proof(consumer, digest) ==
  [provider |-> "gateway", consumer |-> consumer, contract |-> "map", version |-> 1,
   evidence |-> [uri |-> "blob", digest |-> digest]]

Candidate(commit, artifact, gates, digest) ==
  [schemaVersion |-> 2, kind |-> "candidate", component |-> "gateway",
   repository |-> "endless-net/gateway", gitCommit |-> commit, artifact |-> artifact,
   modules |-> <<[path |-> "client-api", version |-> "v1", sum |-> "h1"]>>,
   contracts |-> {<<[name |-> "map", version |-> 1,
                     architectureRepository |-> "endless-net/architecture",
                     architectureCommit |-> "c1"]>>},
   compatibilityGates |-> gates,
   provenance |-> [producerRelease |-> [uri |-> "blob", digest |-> digest],
                   build |-> [repository |-> "endless-net/gateway", sourceCommit |-> commit,
                              run |-> "build run", attestationDigest |-> One],
                   attestationDigest |-> One]]

Both == <<Gate("admin"), Gate("client")>>

MCCandidates ==
  {Candidate("c1", "archive@1", Both, One), Candidate("c1", "archive@1", <<Gate("admin")>>, One),
   Candidate("c2", "archive@2", Both, One), Candidate("c2", "archive@1", Both, One),
   Candidate("c2", "archive@2", <<Gate("admin")>>, Malformed)}

\* Complete, in another order, for one consumer, repeated, with a malformed digest.
MCEvidence ==
  {<<Proof("admin", One), Proof("client", One)>>, <<Proof("client", One), Proof("admin", One)>>,
   <<Proof("admin", One)>>, <<Proof("admin", One), Proof("admin", One)>>,
   <<Proof("admin", Malformed)>>}

MCPromotion == [repository |-> "endless-net/releases", run |-> "promotion run", approvedBy |-> "owner"]
=============================================================================
