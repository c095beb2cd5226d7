-------------------------- MODULE ComponentRelease --------------------------
(***************************************************************************)
(* The release of one component, from its candidate to the signal that     *)
(* deploys it (systemtests/cmd/releasecontract: validate-component-        *)
(* candidate, validate-released-component, validate-infrastructure-signal).*)
(*                                                                         *)
(* The producer (external) writes candidates, Releases (external) writes   *)
(* released records and sends a signal for a record that its validation    *)
(* accepted, Infrastructure (external) deploys the record of a signal that *)
(* its validation accepted. Each validation reads two files, one after the *)
(* other, while both may be rewritten; signals can be delayed, repeated    *)
(* and overtaken.                                                          *)
(***************************************************************************)
EXTENDS ReleaseContract

CONSTANTS
  Candidates,   \* the component candidates the producer may write
  Evidence,     \* the lists of compatibility evidence a record may have
  RecordURI,    \* where the records are
  Promotion,    \* [repository, run, approvedBy] of released records
  MaxWrites     \* bound on how often the two files are written

\* A candidate lists finitely many gates.
ASSUME ComponentReleaseAssumption ==
  /\ MaxWrites \in Nat
  /\ \A c \in Candidates : IsFiniteSet(GateKeys(c.compatibilityGates))

VARIABLES
  candidateFile, \* the candidate record
  releasedFile,  \* {} or the released record
  checking,      \* {} or the candidate that validate-released-component has read
  receiving,     \* {} or the record that validate-infrastructure-signal has read
  published,     \* the candidates that validate-component-candidate accepted
  approved,      \* the records that validate-released-component accepted
  signals,       \* the signals sent
  deployed,      \* the records that Infrastructure has deployed
  writes

vars == <<candidateFile, releasedFile, checking, receiving, published, approved, signals,
          deployed, writes>>

Init ==
  /\ candidateFile \in {c \in Candidates : ValidateComponentCandidate(c)}
  /\ releasedFile = {} /\ checking = {} /\ receiving = {}
  /\ published = {candidateFile}
  /\ approved = {} /\ signals = {} /\ deployed = {} /\ writes = 0

\* Fault for WriteCandidate: a candidate is published without validation.
PublishUnchecked ==
  /\ writes < MaxWrites /\ writes' = writes + 1
  /\ candidateFile' \in Candidates \ {candidateFile}
  /\ published' = published \cup {candidateFile'}
  /\ UNCHANGED <<releasedFile, checking, receiving, approved, signals, deployed>>

\* A changed commit, artifact or set of gates is a new candidate; one that does not
\* validate is not published.
WriteCandidate ==
  /\ writes < MaxWrites /\ writes' = writes + 1
  /\ candidateFile' \in Candidates \ {candidateFile}
  /\ published' = published \cup {c \in {candidateFile'} : ValidateComponentCandidate(c)}
  /\ UNCHANGED <<releasedFile, checking, receiving, approved, signals, deployed>>

\* A released record names the candidate of the file and the artifact it was written for,
\* which may be that of another candidate.
WriteReleased ==
  /\ writes < MaxWrites /\ writes' = writes + 1
  /\ \E c \in Candidates, evidence \in Evidence :
       releasedFile' =
         {[schemaVersion         |-> 2,
           kind                  |-> "released",
           component             |-> c.component,
           repository            |-> c.repository,
           gitCommit             |-> c.gitCommit,
           artifact              |-> c.artifact,
           candidate             |-> [uri |-> RecordURI, digest |-> Digest(candidateFile)],
           candidateProvenance   |-> [uri |-> RecordURI, digest |-> Digest(c.provenance)],
           compatibilityEvidence |-> evidence,
           promotion             |-> Promotion]}
  /\ UNCHANGED <<candidateFile, checking, receiving, published, approved, signals, deployed>>

\* validate-released-component reads the candidate, ...
ReadCandidate ==
  /\ checking = {} /\ checking' = {candidateFile}
  /\ UNCHANGED <<candidateFile, releasedFile, receiving, published, approved, signals, deployed, writes>>

\* ... then the released record, and validates.
CheckReleased ==
  /\ checking # {} /\ checking' = {}
  /\ approved' = approved \cup
       {r \in releasedFile : \E c \in checking : ValidateReleasedComponent(r, c)}
  /\ UNCHANGED <<candidateFile, releasedFile, receiving, published, signals, deployed, writes>>

\* Releases signals a record it approved.
SendSignal ==
  /\ \E r \in approved :
       signals' = signals \cup
         {[schemaVersion    |-> 2,
           kind             |-> "released_component",
           environment      |-> "production",
           component        |-> r.component,
           releasedRecord   |-> [uri |-> RecordURI, digest |-> Digest(r)],
           manifestCommit   |-> r.gitCommit,
           eventID          |-> r.component,
           configGeneration |-> "1"]}
  /\ signals' # signals
  /\ UNCHANGED <<candidateFile, releasedFile, checking, receiving, published, approved, deployed, writes>>

\* validate-infrastructure-signal reads the released record, ...
ReadReleased ==
  /\ receiving = {} /\ releasedFile # {} /\ signals # {} /\ receiving' = releasedFile
  /\ UNCHANGED <<candidateFile, releasedFile, checking, published, approved, signals, deployed, writes>>

\* ... then the signal, any that was ever sent, and validates.
ReceiveSignal ==
  /\ receiving # {} /\ receiving' = {}
  /\ \E s \in signals :
       deployed' = deployed \cup {r \in receiving : ValidateInfrastructureSignal(s, r)}
  /\ UNCHANGED <<candidateFile, releasedFile, checking, published, approved, signals, writes>>

Next ==
  \/ WriteCandidate
  \/ WriteReleased
  \/ ReadCandidate
  \/ CheckReleased
  \/ SendSignal
  \/ ReadReleased
  \/ ReceiveSignal

Spec == Init /\ [][Next]_vars

-----------------------------------------------------------------------------
(* Properties *)

\* A file holds, and a command has read, at most one record; only valid candidates are
\* published; a signal carries the component and the digest of an approved record, and what
\* is deployed has the digest of a signal.
TypeOK ==
  /\ candidateFile \in Candidates /\ checking \subseteq Candidates
  /\ published \subseteq {c \in Candidates : ValidateComponentCandidate(c)}
  /\ \A S \in {releasedFile, checking, receiving} : \A x, y \in S : x = y
  /\ \A s \in signals : \E r \in approved :
       s.component = r.component /\ s.releasedRecord.digest = Digest(r)
  /\ \A r \in deployed : \E s \in signals : s.releasedRecord.digest = Digest(r)
  /\ writes \in 0 .. MaxWrites

\* A record Releases approved is for one published candidate, artifact and commit
\* included, and has evidence for exactly the consumers that candidate affects, although
\* candidate and record are read at different times and the candidate, its gates included,
\* may be rewritten in between.
ApprovedCoversGates ==
  \A r \in approved : \E c \in published :
    /\ r.candidate.digest = Digest(c)
    /\ r.artifact = c.artifact /\ r.gitCommit = c.gitCommit
    /\ GateKeys(r.compatibilityEvidence) = GateKeys(c.compatibilityGates)

\* Infrastructure deploys only records Releases approved: a signal, however late, does not
\* deploy what has been written to the record's place since.
DeployedWasApproved == deployed \subseteq approved
=============================================================================
