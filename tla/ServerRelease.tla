--------------------------- MODULE ServerRelease ----------------------------
(***************************************************************************)
(* The release of a server set with the releasecontract command: test,     *)
(* promote, resolve (systemtests/cmd/releasecontract).                     *)
(*                                                                         *)
(* The records are files that people edit and commands read one after the  *)
(* other. A file is {} when it can not be decoded. Commands run            *)
(* concurrently and can be killed at any point. The system-test suite is   *)
(* external: it resolves a candidate, tests what it resolved and writes    *)
(* the evidence.                                                           *)
(***************************************************************************)
EXTENDS ReleaseContract

CONSTANTS
  Candidates,   \* the candidates a producer may write
  Suite,        \* [repository, gitCommit, run] of the test suite
  Runs,         \* [process -> "test" | "promote" | "resolve"], the commands of the model
  Promotions,   \* the promotion provenance a request may have
  URIs,         \* where a promotion request may say the candidate is
  RecordURI,    \* where the other records are
  MaxEdits,     \* bound on how often files are edited by hand
  MaxRunning    \* bound on the commands that run at the same time

ASSUME ServerReleaseAssumption ==
  /\ \A p \in DOMAIN Runs : Runs[p] \in {"test", "promote", "resolve"}
  /\ RecordURI \in Matches.blob \cup Matches.artifact
  /\ MaxEdits \in Nat /\ MaxRunning \in Nat

VARIABLES
  files,      \* [file name -> {} or its record]
  created,    \* the path of the envelope exists
  process,    \* [process -> [step, read]]: what it does next, the records it has read
  passed,     \* the resolved sets that passed the system tests
  production, \* the resolutions given to production
  edits

vars == <<files, created, process, passed, production, edits>>

Records == {"candidate", "provenance", "evidence", "request", "envelope"}

\* The files each command reads, in order.
Inputs ==
  [test    |-> <<"candidate", "provenance">>,
   promote |-> <<"candidate", "provenance", "evidence", "request">>,
   resolve |-> <<"envelope", "candidate", "provenance", "evidence">>]

Idle == [step |-> "read", read |-> <<>>]

Reference(uri, record) == [uri |-> uri, digest |-> Digest(record)]

\* A provenance with the digest of one candidate and the artifacts of another, or the same.
Provenance(bound, listed) ==
  LET artifacts == SelectSeq(listed.components, LAMBDA c : c.image # {})
  IN  [schemaVersion   |-> 1,
       release         |-> bound.release,
       candidateDigest |-> Digest(bound),
       components      |->
         [i \in DOMAIN artifacts |->
           LET c == artifacts[i]
               image == CHOOSE x \in c.image : TRUE
           IN  [name |-> c.name, repository |-> c.repository, gitCommit |-> c.gitCommit,
                artifact |-> [uri |-> image, digest |-> ArtifactDigest(image)],
                build |-> [repository |-> c.repository, sourceCommit |-> c.gitCommit,
                           run |-> CHOOSE r \in DOMAIN RunOf : RunOf[r] = c.repository,
                           attestationDigest |-> ArtifactDigest(image)]]],
       modules         |-> <<>>]

Init ==
  /\ \E c \in Candidates :
       files = [f \in Records |-> CASE f = "candidate" -> {c}
                                    [] f = "provenance" -> {Provenance(c, c)}
                                    [] OTHER -> {}]
  /\ created = FALSE
  /\ process = [p \in DOMAIN Runs |-> Idle]
  /\ passed = {} /\ production = {} /\ edits = 0

-----------------------------------------------------------------------------
(* People *)

Edit(file, record) ==
  /\ edits < MaxEdits /\ edits' = edits + 1
  /\ files' = [files EXCEPT ![file] = {record}]
  /\ UNCHANGED <<created, process, passed, production>>

\* A new commit or a rebuilt artifact.
EditCandidate == \E c \in Candidates : files.candidate # {c} /\ Edit("candidate", c)

\* For the candidate of the file, or with the artifacts of another build.
EditProvenance ==
  \E bound \in files.candidate, listed \in Candidates :
    files.provenance # {Provenance(bound, listed)} /\ Edit("provenance", Provenance(bound, listed))

\* For the records as they are.
EditRequest ==
  \E c \in files.candidate, p \in files.provenance, e \in files.evidence, uri \in URIs, by \in Promotions :
    Edit("request", [schemaVersion       |-> 1,
                     candidate           |-> Reference(uri, c),
                     candidateProvenance |-> Reference(RecordURI, p),
                     systemTestEvidence  |-> Reference(RecordURI, e),
                     promotion           |-> by])

\* A released envelope is edited in place to another set.
EditEnvelope ==
  \E e \in files.envelope, c \in Candidates :
    e.resolved # Resolved(c) /\ Edit("envelope", [e EXCEPT !.resolved = Resolved(c)])

-----------------------------------------------------------------------------
(* Commands *)

Command(p) == Inputs[Runs[p]]

To(p, step) == process' = [process EXCEPT ![p].step = step]

Running == {p \in DOMAIN Runs : process[p] # Idle /\ process[p].step # "done"}

\* It ends without a result, and can be run again.
Fail(p) == process' = [process EXCEPT ![p] = Idle]

\* It reads its next file; a file that can not be decoded ends it.
Read(p) ==
  /\ p \in Running \/ Cardinality(Running) < MaxRunning
  /\ process[p].step = "read" /\ Len(process[p].read) < Len(Command(p))
  /\ LET file == files[Command(p)[Len(process[p].read) + 1]]
     IN  \/ \E record \in file : process' = [process EXCEPT ![p].read = Append(@, record)]
         \/ file = {} /\ p \in Running /\ Fail(p)
  /\ UNCHANGED <<files, created, passed, production, edits>>

Kill(p) ==
  /\ p \in Running
  /\ Fail(p)
  /\ UNCHANGED <<files, created, passed, production, edits>>

HasRead(p, kind) ==
  Runs[p] = kind /\ process[p].step = "read" /\ Len(process[p].read) = Len(Command(p))

\* resolve-candidate, and the suite that tests what it resolved and writes the evidence
\* for it.
Test(p) ==
  /\ HasRead(p, "test")
  /\ LET read == process[p].read
         resolution == ResolveCandidate(read[1], read[2], Reference(RecordURI, read[1]),
                                        Reference(RecordURI, read[2]))
     IN  \/ \E r \in resolution, result \in {"passed", "failed"} :
              /\ files' = [files EXCEPT !.evidence =
                   {[schemaVersion |-> 1, candidateDigest |-> r.candidateDigest,
                     result |-> result, suite |-> Suite]}]
              /\ passed' = IF result = "passed" THEN passed \cup {r.resolved} ELSE passed
              /\ process' = [process EXCEPT ![p] = Idle]
         \/ resolution = {} /\ Fail(p) /\ UNCHANGED <<files, passed>>
  /\ UNCHANGED <<created, production, edits>>

\* The envelope a promotion has built from what it read.
Envelope(p) ==
  LET read == process[p].read IN BuildReleasedEnvelope(read[1], read[2], read[3], read[4])

\* What the envelope is when it is read back from its file.
Written(p) == {Encoded(e) : e \in Envelope(p)}

Build(p) ==
  /\ HasRead(p, "promote")
  /\ IF Envelope(p) # {} THEN To(p, "create") ELSE Fail(p)
  /\ UNCHANGED <<files, created, passed, production, edits>>

\* Fault for OpenNew: an existing file is opened and truncated.
OpenTruncated(p) ==
  /\ created' = TRUE /\ files' = [files EXCEPT !.envelope = {}] /\ To(p, "write")

\* Fault for OpenNew: the path is looked up first and opened only to write.
OpenLater(p) ==
  \/ ~created /\ To(p, "write") /\ UNCHANGED <<files, created>>
  \/ created /\ Fail(p) /\ UNCHANGED <<files, created>>

\* The file is created; one that exists ends the promotion.
OpenNew(p) ==
  \/ /\ ~created
     /\ created' = TRUE /\ files' = [files EXCEPT !.envelope = {}] /\ To(p, "write")
  \/ created /\ Fail(p) /\ UNCHANGED <<files, created>>

\* WriteNewJSON creates the file and then fills it.
Create(p) ==
  /\ process[p].step = "create"
  /\ OpenNew(p)
  /\ UNCHANGED <<passed, production, edits>>

Write(p) ==
  /\ process[p].step = "write"
  /\ files' = [files EXCEPT !.envelope = Written(p)] /\ To(p, "done")
  /\ UNCHANGED <<created, passed, production, edits>>

\* resolve-release: the envelope is verified against the records read and resolved.
ResolveRelease(p) ==
  /\ HasRead(p, "resolve")
  /\ LET read == process[p].read
         resolution == IF ValidateReleasedEnvelope(read[1], read[2], read[3], read[4])
                       THEN ResolveProduction(read[1], Reference(RecordURI, read[1])) ELSE {}
     IN  /\ production' = production \cup resolution
         /\ process' = [process EXCEPT ![p] = Idle]
  /\ UNCHANGED <<files, created, passed, edits>>

Next ==
  \/ EditCandidate
  \/ EditProvenance
  \/ EditRequest
  \/ EditEnvelope
  \/ \E p \in DOMAIN Runs :
       \/ Read(p)
       \/ Kill(p)
       \/ Test(p)
       \/ Build(p)
       \/ Create(p)
       \/ Write(p)
       \/ ResolveRelease(p)

Spec == Init /\ [][Next]_vars

-----------------------------------------------------------------------------
(* Properties *)

\* Commands have read what they were to read, in order; the envelope's path exists when
\* something is in it; only promotions write.
TypeOK ==
  /\ \A f \in Records : \A x, y \in files[f] : x = y
  /\ created \in BOOLEAN /\ (files.envelope # {} => created)
  /\ \A p \in DOMAIN Runs :
       /\ Len(process[p].read) \in 0 .. Len(Command(p))
       /\ process[p].step \in {"read"} \cup
            IF Runs[p] = "promote" THEN {"create", "write", "done"} ELSE {}
  /\ \A r \in production : r.environmentClass = "production"
  /\ edits \in 0 .. MaxEdits

\* What production runs has passed the system tests, component by component: no edit of a
\* candidate, provenance, request or envelope between two reads of any command, and no
\* repetition of a test with another result, gets an untested set through resolve-release.
ProductionWasTested == \A r \in production : r.resolved \in passed

\* Of concurrent promotions to one path only one succeeds, and what it wrote stays: no two
\* promotions have reported success, also when they read different requests, and the
\* record names the candidate and the provenance of the one that has, also after edits of
\* the resolved set.
SuccessIsTheRecord ==
  \A p \in DOMAIN Runs :
    process[p].step = "done" =>
      /\ \A q \in DOMAIN Runs : process[q].step = "done" => q = p
      /\ \E e \in files.envelope, built \in Envelope(p) :
           e.candidate = built.candidate /\ e.provenance = built.provenance

\* What promote has released resolve-release accepts, with the records the promotion read,
\* exactly when the candidate does not have an empty list of contracts: no other set is
\* promoted that can not be deployed. With an empty list ("contracts": []) the envelope's
\* encoding leaves the list out, reflect.DeepEqual tells nil from empty, and the set that
\* was tested and promoted is refused.
PromotedResolves ==
  \A p \in DOMAIN Runs :
    process[p].step = "done" /\ files.envelope = Written(p)
    => \E e \in files.envelope :
         LET read == process[p].read
         IN  /\ ValidateReleasedEnvelope(e, read[1], read[2], read[3])
             /\ ResolveProduction(e, Reference(RecordURI, e)) # {}
             <=> <<>> \notin read[1].contracts
=============================================================================
