-------------------------- MODULE ReleaseContract ---------------------------
(***************************************************************************)
(* The records of the release contract and their validation                *)
(* (systemtests/releasecontract). Two chains of records are checked: a     *)
(* server set (candidate, candidate provenance, system-test evidence,      *)
(* promotion request, released envelope) and a single component            *)
(* (component candidate, released component, infrastructure signal).       *)
(*                                                                         *)
(* A record is a value and stands for the bytes it is written in; Digest   *)
(* of it does not collide. A digest that does not match its pattern is     *)
(* [text |-> ...], every other one [sha256 |-> ...]. The other regular     *)
(* expressions are the constant sets Matches, and what a text that matches *)
(* one says (the repository of an Actions run, the digest in an artifact   *)
(* reference) is a constant function. A list of contracts may be absent:   *)
(* {} is nil, {<<>>} the empty list, which reflect.DeepEqual tells apart.  *)
(***************************************************************************)
EXTENDS Naturals, Sequences, FiniteSets, SequencesExt

CONSTANTS
  Matches,        \* [release, repository, commit, artifact, blob, version, sum, event: sets of texts]
  RunOf,          \* [URL of an Actions run -> its repository]
  DigestIn,       \* [artifact reference -> the digest at its end]
  ArchiveOf,      \* [artifact reference of a GitHub Release archive -> <<component, commit>>]
  RepositoryOf    \* [component -> "endless-net/" + component]

ASSUME ReleaseAssumption ==
  /\ DOMAIN DigestIn = Matches.artifact
  /\ DOMAIN ArchiveOf \subseteq Matches.artifact

Digest(record) == [sha256 |-> record]

IsDigest(digest) == DOMAIN digest = {"sha256"}

\* A digest, and an immutable location.
ValidateDigestReference(reference) ==
  /\ IsDigest(reference.digest)
  /\ reference.uri \in Matches.blob \cup Matches.artifact

ArtifactDigest(reference) == DigestIn[reference]

ActionsRunFor(repository, run) == run \in DOMAIN RunOf /\ RunOf[run] = repository

\* No two elements of a list have the same value of a field.
Distinct(list, Field(_)) ==
  \A i, j \in DOMAIN list : Field(list[i]) = Field(list[j]) => i = j

ValidModules(modules) ==
  /\ Distinct(modules, LAMBDA x : x.path)
  /\ \A x \in ToSet(modules) : x.path # "" /\ x.version \in Matches.version /\ x.sum \in Matches.sum

ValidContracts(contracts) ==
  \A list \in contracts :
    /\ Distinct(list, LAMBDA x : x.name)
    /\ \A x \in ToSet(list) :
         /\ x.name # "" /\ x.version >= 1
         /\ x.architectureRepository = "endless-net/architecture"
         /\ x.architectureCommit \in Matches.commit

-----------------------------------------------------------------------------
(* The server set *)

Resolved(candidate) ==
  [components |-> candidate.components, modules |-> candidate.modules,
   contracts |-> candidate.contracts]

ValidateCandidate(candidate) ==
  /\ candidate.schemaVersion = 1
  /\ candidate.release \in Matches.release
  /\ candidate.status = "candidate"
  /\ candidate.components # <<>>
  /\ \A c \in ToSet(candidate.components) :
       /\ c.name \in Matches.release /\ c.repository \in Matches.repository
       /\ c.gitCommit \in Matches.commit
       /\ c.image \subseteq Matches.artifact
  /\ Distinct(candidate.components, LAMBDA c : c.name)
  /\ Distinct(candidate.components, LAMBDA c : c.repository)
  /\ ValidModules(candidate.modules)
  /\ ValidContracts(candidate.contracts)

ValidBuild(build, repository, commit) ==
  /\ build.repository = repository /\ build.sourceCommit = commit
  /\ ActionsRunFor(repository, build.run)
  /\ IsDigest(build.attestationDigest)

\* The provenance of one component says what the candidate says.
CoversComponent(item, component) ==
  /\ item.repository = component.repository /\ item.gitCommit = component.gitCommit
  /\ {item.artifact.uri} = component.image
  /\ item.artifact.digest = ArtifactDigest(item.artifact.uri)
  /\ ValidBuild(item.build, component.repository, component.gitCommit)

CoversModule(item, module) ==
  /\ item.version = module.version /\ item.sum = module.sum
  /\ item.source.repository \in Matches.repository /\ item.source.gitCommit \in Matches.commit
  /\ ActionsRunFor(item.source.repository, item.source.run)

\* Every component of the candidate has an artifact and its provenance.
ComponentsCovered(candidate, provenance) ==
  /\ Len(provenance.components) = Len(candidate.components)
  /\ Distinct(provenance.components, LAMBDA x : x.name)
  /\ \A c \in ToSet(candidate.components) :
       /\ c.image # {}
       /\ \E item \in ToSet(provenance.components) : item.name = c.name /\ CoversComponent(item, c)

ModulesCovered(candidate, provenance) ==
  /\ Len(provenance.modules) = Len(candidate.modules)
  /\ Distinct(provenance.modules, LAMBDA x : x.path)
  /\ \A x \in ToSet(candidate.modules) :
       \E item \in ToSet(provenance.modules) : item.path = x.path /\ CoversModule(item, x)

\* Fault for ValidateCandidateProvenance: a component without artifact needs no provenance.
ProvenanceOfArtifacts(candidate, candidateDigest, provenance) ==
  /\ ValidateCandidate(candidate)
  /\ provenance.schemaVersion = 1
  /\ provenance.release = candidate.release
  /\ provenance.candidateDigest = candidateDigest
  /\ \A c \in ToSet(candidate.components) :
       c.image # {} => \E item \in ToSet(provenance.components) : item.name = c.name /\ CoversComponent(item, c)
  /\ ModulesCovered(candidate, provenance)

ValidateCandidateProvenance(candidate, candidateDigest, provenance) ==
  /\ ValidateCandidate(candidate)
  /\ provenance.schemaVersion = 1
  /\ provenance.release = candidate.release
  /\ provenance.candidateDigest = candidateDigest
  /\ ComponentsCovered(candidate, provenance)
  /\ ModulesCovered(candidate, provenance)

ValidateSystemTestEvidence(candidateDigest, evidence) ==
  /\ evidence.schemaVersion = 1
  /\ evidence.candidateDigest = candidateDigest
  /\ evidence.result = "passed"
  /\ evidence.suite.repository = "endless-net/system-tests"
  /\ evidence.suite.gitCommit \in Matches.commit
  /\ ActionsRunFor(evidence.suite.repository, evidence.suite.run)

\* BuildReleasedEnvelope: the envelope, or {} for an error.
BuildReleasedEnvelope(candidate, provenance, evidence, request) ==
  IF /\ request.schemaVersion = 1
     /\ request.candidate.digest = Digest(candidate)
     /\ request.candidateProvenance.digest = Digest(provenance)
     /\ request.systemTestEvidence.digest = Digest(evidence)
     /\ \A ref \in {request.candidate, request.candidateProvenance, request.systemTestEvidence} :
          ValidateDigestReference(ref)
     /\ request.promotion.repository = "endless-net/client-api"
     /\ ActionsRunFor(request.promotion.repository, request.promotion.run)
     /\ ValidateCandidateProvenance(candidate, Digest(candidate), provenance)
     /\ ValidateSystemTestEvidence(Digest(candidate), evidence)
  THEN {[schemaVersion |-> 1,
         release       |-> candidate.release,
         status        |-> "released",
         candidate     |-> request.candidate,
         resolved      |-> Resolved(candidate),
         provenance    |->
           [candidateProvenance |-> request.candidateProvenance,
            systemTests         |-> [evidence   |-> request.systemTestEvidence,
                                     repository |-> evidence.suite.repository,
                                     gitCommit  |-> evidence.suite.gitCommit,
                                     run        |-> evidence.suite.run],
            promotion           |-> request.promotion]]}
  ELSE {}

\* What WriteNewJSON writes and ReadJSON reads back: an empty list of contracts is left out
\* (omitempty), and is nil when the file is decoded.
Encoded(envelope) == [envelope EXCEPT !.resolved.contracts = @ \ {<<>>}]

\* The request that an envelope says it was promoted by.
RequestOf(envelope) ==
  [schemaVersion       |-> 1,
   candidate           |-> envelope.candidate,
   candidateProvenance |-> envelope.provenance.candidateProvenance,
   systemTestEvidence  |-> envelope.provenance.systemTests.evidence,
   promotion           |-> envelope.provenance.promotion]

\* Fault for ValidateReleasedEnvelope: the resolved set is not compared with the candidate.
ValidateEnvelopeReferences(envelope, candidate, provenance, evidence) ==
  \E expected \in BuildReleasedEnvelope(candidate, provenance, evidence, RequestOf(envelope)) :
    /\ envelope.schemaVersion = 1 /\ envelope.status = "released"
    /\ envelope.release = candidate.release
    /\ envelope.candidate = expected.candidate /\ envelope.provenance = expected.provenance

ValidateReleasedEnvelope(envelope, candidate, provenance, evidence) ==
  \E expected \in BuildReleasedEnvelope(candidate, provenance, evidence, RequestOf(envelope)) :
    /\ envelope.schemaVersion = 1 /\ envelope.status = "released"
    /\ envelope.release = candidate.release
    /\ envelope.resolved = Resolved(candidate)
    /\ envelope.candidate = expected.candidate
    /\ envelope.provenance = expected.provenance

\* ResolveCandidate: what a validation environment runs, or {} for an error.
ResolveCandidate(candidate, provenance, candidateRef, provenanceRef) ==
  IF /\ candidateRef.digest = Digest(candidate) /\ provenanceRef.digest = Digest(provenance)
     /\ ValidateDigestReference(candidateRef) /\ ValidateDigestReference(provenanceRef)
     /\ ValidateCandidateProvenance(candidate, Digest(candidate), provenance)
  THEN {[environmentClass |-> "validation",
         source           |-> [kind |-> "candidate", record |-> candidateRef],
         release          |-> candidate.release,
         candidateDigest  |-> Digest(candidate),
         resolved         |-> Resolved(candidate)]}
  ELSE {}

\* The promotion and the test run an envelope names.
ValidEnvelopeProvenance(p) ==
  /\ ValidateDigestReference(p.candidateProvenance)
  /\ ValidateDigestReference(p.systemTests.evidence)
  /\ p.systemTests.repository = "endless-net/system-tests"
  /\ p.systemTests.gitCommit \in Matches.commit
  /\ ActionsRunFor(p.systemTests.repository, p.systemTests.run)
  /\ p.promotion.repository = "endless-net/client-api"
  /\ ActionsRunFor(p.promotion.repository, p.promotion.run)

\* ResolveProduction: what production runs, or {} for an error.
ResolveProduction(envelope, envelopeRef) ==
  IF /\ envelope.schemaVersion = 1 /\ envelope.status = "released"
     /\ envelope.release \in Matches.release
     /\ envelopeRef.digest = Digest(envelope)
     /\ ValidateDigestReference(envelopeRef) /\ ValidateDigestReference(envelope.candidate)
     /\ ValidEnvelopeProvenance(envelope.provenance)
     /\ ValidateCandidate([schemaVersion |-> 1,
                           release       |-> envelope.release,
                           status        |-> "candidate",
                           components    |-> envelope.resolved.components,
                           modules       |-> envelope.resolved.modules,
                           contracts     |-> envelope.resolved.contracts])
     /\ \A c \in ToSet(envelope.resolved.components) : c.image # {}
  THEN {[environmentClass |-> "production",
         source           |-> [kind |-> "released", record |-> envelopeRef],
         release          |-> envelope.release,
         candidateDigest  |-> envelope.candidate.digest,
         resolved         |-> envelope.resolved]}
  ELSE {}

-----------------------------------------------------------------------------
(* A single component *)

ReleaseArtifactReferenceForComponent(component, repository, commit, reference) ==
  /\ component \in DOMAIN RepositoryOf /\ repository = RepositoryOf[component]
  /\ reference \in DOMAIN ArchiveOf /\ ArchiveOf[reference] = <<component, commit>>

\* A gate and the evidence for it have the same key; the text has separators that occur
\* in no part.
CompatibilityGateKey(gate) == <<gate.provider, gate.consumer, gate.contract, gate.version>>

GateKeys(list) == {CompatibilityGateKey(g) : g \in ToSet(list)}

ValidateCompatibilityGates(component, gates) ==
  /\ \A g \in ToSet(gates) :
       /\ g.provider = component
       /\ g.consumer \in Matches.release /\ g.consumer # component
       /\ g.contract # "" /\ g.version >= 1
  /\ Distinct(gates, CompatibilityGateKey)

ValidateComponentCandidate(candidate) ==
  /\ candidate.schemaVersion = 2 /\ candidate.kind = "candidate"
  /\ candidate.component \in Matches.release /\ candidate.repository \in Matches.repository
  /\ candidate.gitCommit \in Matches.commit /\ candidate.artifact \in Matches.artifact
  /\ ReleaseArtifactReferenceForComponent(candidate.component, candidate.repository,
                                          candidate.gitCommit, candidate.artifact)
  /\ ValidBuild(candidate.provenance.build, candidate.repository, candidate.gitCommit)
  /\ IsDigest(candidate.provenance.attestationDigest)
  /\ ValidateDigestReference(candidate.provenance.producerRelease)
  /\ ValidModules(candidate.modules)
  /\ ValidContracts(candidate.contracts)
  /\ ValidateCompatibilityGates(candidate.component, candidate.compatibilityGates)

\* The released record is for exactly this candidate.
BindsCandidate(released, candidate) ==
  /\ released.schemaVersion = 2 /\ released.kind = "released"
  /\ released.component = candidate.component /\ released.repository = candidate.repository
  /\ released.gitCommit = candidate.gitCommit /\ released.artifact = candidate.artifact
  /\ released.candidate.digest = Digest(candidate)

\* Fault for CoversGates: evidence is counted, so that one gate may be named twice.
CountsGates(released, candidate) ==
  /\ GateKeys(released.compatibilityEvidence) \subseteq GateKeys(candidate.compatibilityGates)
  /\ Len(released.compatibilityEvidence) = Len(candidate.compatibilityGates)

\* One piece of evidence for every gate of the candidate, and no other.
CoversGates(released, candidate) ==
  /\ GateKeys(released.compatibilityEvidence) \subseteq GateKeys(candidate.compatibilityGates)
  /\ Distinct(released.compatibilityEvidence, CompatibilityGateKey)
  /\ \A e \in ToSet(released.compatibilityEvidence) : ValidateDigestReference(e.evidence)
  /\ Cardinality(GateKeys(released.compatibilityEvidence)) =
       Cardinality(GateKeys(candidate.compatibilityGates))

ValidateReleasedComponent(released, candidate) ==
  /\ ValidateComponentCandidate(candidate)
  /\ BindsCandidate(released, candidate)
  /\ ValidateDigestReference(released.candidate)
  /\ ValidateDigestReference(released.candidateProvenance)
  /\ released.promotion.repository = "endless-net/releases"
  /\ ActionsRunFor(released.promotion.repository, released.promotion.run)
  /\ released.promotion.approvedBy # ""
  /\ CoversGates(released, candidate)

\* Fault for ValidateInfrastructureSignal: the record is identified by its component.
SignalNamesComponent(signal, released) ==
  /\ signal.schemaVersion = 2 /\ signal.kind = "released_component"
  /\ signal.environment = "production"
  /\ signal.component = released.component
  /\ signal.manifestCommit \in Matches.commit /\ signal.eventID \in Matches.event
  /\ signal.configGeneration # ""
  /\ ValidateDigestReference(signal.releasedRecord)

ValidateInfrastructureSignal(signal, released) ==
  /\ signal.schemaVersion = 2 /\ signal.kind = "released_component"
  /\ signal.environment = "production"
  /\ signal.component = released.component
  /\ signal.manifestCommit \in Matches.commit /\ signal.eventID \in Matches.event
  /\ signal.configGeneration # ""
  /\ signal.releasedRecord.digest = Digest(released)
  /\ ValidateDigestReference(signal.releasedRecord)
=============================================================================
