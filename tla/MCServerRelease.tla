-------------------------- MODULE MCServerRelease ---------------------------
(***************************************************************************)
(* A small instance of ServerRelease: one component in three builds, one   *)
(* of them without artifact and one with an empty list of contracts; two   *)
(* promotions, approved by different runs, compete. The two promotions are *)
(* interchangeable, so that they are symmetric model values.               *)
(***************************************************************************)
EXTENDS ServerRelease, TLC

CONSTANTS p1, p2   \* the promotions

MCMatches ==
  [release |-> {"r1", "gateway"}, repository |-> {"endless-net/gateway"}, commit |-> {"c1", "c2"},
   artifact |-> {"image@1", "image@2"}, blob |-> {"blob"},
   version |-> {"v1"}, sum |-> {"h1"}, event |-> {"event"}]

MCRunOf ==
  "build run" :> "endless-net/gateway" @@ "suite run" :> "endless-net/system-tests"
  @@ "promotion run" :> "endless-net/client-api" @@ "second run" :> "endless-net/client-api"

MCDigestIn == "image@1" :> [sha256 |-> "1"] @@ "image@2" :> [sha256 |-> "2"]

MCArchiveOf == "image@1" :> <<"gateway", "c1">> @@ "image@2" :> <<"gateway", "c2">>

MCRepositoryOf == "gateway" :> "endless-net/gateway"

Candidate(commit, image, contracts) ==
  [schemaVersion |-> 1, release |-> "r1", status |-> "candidate",
   components |-> <<[name |-> "gateway", repository |-> "endless-net/gateway",
                     gitCommit |-> commit, image |-> image]>>,
   modules |-> <<>>, contracts |-> contracts]

MCCandidates ==
  {Candidate("c1", {"image@1"}, {}), Candidate("c2", {"image@2"}, {<<>>}), Candidate("c2", {}, {})}

MCSuite == [repository |-> "endless-net/system-tests", gitCommit |-> "c1", run |-> "suite run"]

MCRuns == "t" :> "test" @@ p1 :> "promote" @@ p2 :> "promote" @@ "r" :> "resolve"

PromotionSymmetry == Permutations({p1, p2})

MCPromotions ==
  {[repository |-> "endless-net/client-api", run |-> run, approvedBy |-> ""] :
     run \in {"promotion run", "second run"}}
=============================================================================
