------------------------ MODULE ServerReleaseProofs -------------------------
(***************************************************************************)
(* What ServerRelease guarantees for every set of candidates and commands  *)
(* and any number of edits: only sets that passed the system tests reach   *)
(* production, of competing promotions one succeeds, for good, and what it *)
(* released resolve-release accepts.                                       *)
(*                                                                         *)
(* resolve-release sees evidence, not tests; EvidenceIsTrue adds that the  *)
(* evidence in the file, and that which a resolution has read from it, is  *)
(* about a set that did pass. Shape says how the state is built. OneWriter *)
(* adds that a path once created is written by one promotion, CommandInv   *)
(* that a command reads no further than its files and only a promotion     *)
(* writes.                                                                 *)
(***************************************************************************)
EXTENDS ServerRelease, TLAPS

\* Passing evidence names the digest of a candidate whose set has passed.
Sound(e) == e.result = "passed" => Resolved(e.candidateDigest.sha256) \in passed

EvidenceIsTrue ==
  /\ \A e \in files.evidence : Sound(e)
  /\ \A p \in DOMAIN Runs :
       Runs[p] = "resolve" /\ Len(process[p].read) = 4 => Sound(process[p].read[4])

IsList(s) == \E S : s \in Seq(S)

Shape ==
  /\ DOMAIN files = Records
  /\ DOMAIN process = DOMAIN Runs
  /\ process = [p \in DOMAIN Runs |-> process[p]]
  /\ files = [f \in Records |-> files[f]]
  /\ \A p \in DOMAIN Runs :
       /\ DOMAIN process[p] = {"step", "read"}
       /\ process[p] = [step |-> process[p].step, read |-> process[p].read]
       /\ IsList(process[p].read)

IInv == Shape /\ EvidenceIsTrue /\ ProductionWasTested

\* Appending to a list makes it one longer and leaves what it had.
LEMMA AppendToList ==
  ASSUME NEW s, IsList(s), NEW x
  PROVE  /\ IsList(Append(s, x))
         /\ Len(s) \in Nat
         /\ Len(Append(s, x)) = Len(s) + 1
         /\ Append(s, x)[Len(s) + 1] = x
<1>1. PICK S : s \in Seq(S)  BY DEF IsList
<1>2. s \in Seq(S \cup {x})  BY <1>1
<1>3. Append(s, x) \in Seq(S \cup {x})  BY <1>2
<1>4. /\ Len(s) \in Nat
      /\ Len(Append(s, x)) = Len(s) + 1
      /\ Append(s, x)[Len(s) + 1] = x
  BY <1>2
<1> QED  BY <1>3, <1>4 DEF IsList

\* The digest of a record names the record.
LEMMA DigestNames ==
  ASSUME NEW a
  PROVE  Digest(a).sha256 = a
BY DEF Digest

\* What resolve-release accepts is the set of a candidate that passing evidence is about.
LEMMA AcceptedIsEvidenced ==
  ASSUME NEW envelope, NEW candidate, NEW provenance, NEW evidence, NEW ref,
         ValidateReleasedEnvelope(envelope, candidate, provenance, evidence),
         NEW r \in ResolveProduction(envelope, ref)
  PROVE  /\ evidence.result = "passed"
         /\ r.resolved = Resolved(evidence.candidateDigest.sha256)
<1>1. BuildReleasedEnvelope(candidate, provenance, evidence, RequestOf(envelope)) # {}
      /\ envelope.resolved = Resolved(candidate)
  BY DEF ValidateReleasedEnvelope
<1>2. ValidateSystemTestEvidence(Digest(candidate), evidence)
  BY <1>1 DEF BuildReleasedEnvelope
<1>3. evidence.result = "passed" /\ evidence.candidateDigest = Digest(candidate)
  BY <1>2 DEF ValidateSystemTestEvidence
<1>4. r.resolved = envelope.resolved  BY DEF ResolveProduction
<1> QED  BY <1>1, <1>3, <1>4, DigestNames

-----------------------------------------------------------------------------

\* Processes and files after one of each was changed.
LEMMA ToShape ==
  ASSUME Shape, NEW p \in DOMAIN Runs, NEW step, To(p, step), UNCHANGED files
  PROVE  Shape' /\ \A q \in DOMAIN Runs : process'[q].read = process[q].read
BY DEF Shape, To

LEMMA FailShape ==
  ASSUME Shape, NEW p \in DOMAIN Runs, Fail(p)
  PROVE  /\ DOMAIN process' = DOMAIN Runs
         /\ process' = [q \in DOMAIN Runs |-> process'[q]]
         /\ \A q \in DOMAIN Runs :
              /\ DOMAIN process'[q] = {"step", "read"}
              /\ process'[q] = [step |-> process'[q].step, read |-> process'[q].read]
              /\ IsList(process'[q].read)
              /\ process'[q].read = IF q = p THEN <<>> ELSE process[q].read
<1>1. IsList(<<>>)
  <2>1. <<>> \in Seq({})  OBVIOUS
  <2> QED  BY <2>1 DEF IsList
<1> QED  BY <1>1 DEF Shape, Fail, Idle

LEMMA InitIInv == Init => IInv
<1> SUFFICES ASSUME Init PROVE IInv  OBVIOUS
<1>1. IsList(<<>>)
  <2>1. <<>> \in Seq({})  OBVIOUS
  <2> QED  BY <2>1 DEF IsList
<1>2. PICK c \in Candidates :
        files = [f \in Records |-> CASE f = "candidate" -> {c}
                                     [] f = "provenance" -> {Provenance(c, c)}
                                     [] OTHER -> {}]
  BY DEF Init
<1>3. DOMAIN files = Records /\ files = [f \in Records |-> files[f]] /\ files.evidence = {}
  BY <1>2 DEF Records
<1>4. \A p \in DOMAIN Runs : process[p] = Idle  BY DEF Init
<1>5. Shape
  <2>1. DOMAIN process = DOMAIN Runs /\ process = [p \in DOMAIN Runs |-> process[p]]  BY DEF Init
  <2> QED  BY <1>1, <1>3, <1>4, <2>1 DEF Shape, Idle
<1>6. \A p \in DOMAIN Runs : Len(process[p].read) # 4
  BY <1>4 DEF Idle
<1>7. EvidenceIsTrue /\ ProductionWasTested
  BY <1>3, <1>6 DEF EvidenceIsTrue, ProductionWasTested, Init
<1> QED  BY <1>5, <1>7 DEF IInv

\* Processes that read nothing new and tests that stay passed keep the evidence true.
LEMMA EvidenceKept ==
  ASSUME EvidenceIsTrue, passed \subseteq passed', files'.evidence = files.evidence,
         \A q \in DOMAIN Runs : process'[q].read = process[q].read \/ process'[q].read = <<>>
  PROVE  EvidenceIsTrue'
<1>1. \A e \in files'.evidence : Sound(e)'  BY DEF EvidenceIsTrue, Sound
<1>2. ASSUME NEW q \in DOMAIN Runs, Runs[q] = "resolve", Len(process'[q].read) = 4
      PROVE  Sound(process[q].read[4])'
  <2>1. process'[q].read = process[q].read  BY <1>2
  <2>2. Sound(process[q].read[4])  BY <1>2, <2>1 DEF EvidenceIsTrue
  <2> QED  BY <2>1, <2>2 DEF Sound
<1> QED  BY <1>1, <1>2 DEF EvidenceIsTrue

\* No file but the evidence matters, and no process reads.
LEMMA EditKeeps ==
  ASSUME IInv, NEW file \in Records \ {"evidence"}, NEW record, Edit(file, record)
  PROVE  IInv'
<1>1. Shape'  BY DEF IInv, Shape, Edit
<1>2. files'.evidence = files.evidence  BY DEF IInv, Shape, Edit, Records
<1>3. EvidenceIsTrue'  BY <1>2, EvidenceKept DEF IInv, Edit
<1>4. ProductionWasTested'  BY DEF IInv, ProductionWasTested, Edit
<1> QED  BY <1>1, <1>3, <1>4 DEF IInv

\* A command that ends without a result.
LEMMA FailKeeps ==
  ASSUME IInv, NEW p \in DOMAIN Runs, Fail(p), UNCHANGED <<files, passed, production>>
  PROVE  IInv'
<1> USE DEF IInv
<1>1. \A q \in DOMAIN Runs : process'[q].read = process[q].read \/ process'[q].read = <<>>
  BY FailShape
<1>2. Shape'  BY FailShape DEF Shape
<1>3. EvidenceIsTrue'  BY <1>1, EvidenceKept
<1> QED  BY <1>2, <1>3 DEF ProductionWasTested

\* A command that goes on to its next step, with the envelope changed or not.
LEMMA ToKeeps ==
  ASSUME IInv, NEW p \in DOMAIN Runs, NEW step, To(p, step), UNCHANGED <<passed, production>>,
         \/ files' = files
         \/ \E e : files' = [files EXCEPT !.envelope = e]
  PROVE  IInv'
<1> USE DEF IInv
<1>1. \A q \in DOMAIN Runs : process'[q].read = process[q].read  BY DEF Shape, To
<1>2. Shape'  BY DEF Shape, To, Records
<1>3. files'.evidence = files.evidence  BY DEF Shape, Records
<1>4. EvidenceIsTrue'  BY <1>1, <1>3, EvidenceKept
<1> QED  BY <1>2, <1>4 DEF ProductionWasTested

\* The fourth file that resolve-release reads is the evidence.
LEMMA ReadKeeps ==
  ASSUME IInv, NEW p \in DOMAIN Runs, Read(p)
  PROVE  IInv'
<1> USE DEF IInv
<1> DEFINE n == Len(process[p].read)
           file == files[Command(p)[n + 1]]
<1>1. CASE file = {} /\ Fail(p)
  BY <1>1, FailKeeps DEF Read
<1>2. CASE \E record \in file : process' = [process EXCEPT ![p].read = Append(@, record)]
  <2>1. PICK record \in file : process' = [process EXCEPT ![p].read = Append(@, record)]  BY <1>2
  <2>2. UNCHANGED <<files, passed, production>>  BY DEF Read
  <2>3. IsList(process[p].read)  BY DEF Shape
  <2>4. IsList(Append(process[p].read, record)) /\ n \in Nat
        /\ Len(Append(process[p].read, record)) = n + 1
        /\ Append(process[p].read, record)[n + 1] = record
    BY <2>3, AppendToList
  <2>5. /\ process'[p].read = Append(process[p].read, record)
        /\ \A q \in DOMAIN Runs \ {p} : process'[q] = process[q]
    BY <2>1 DEF Shape
  <2>6. Shape'  BY <2>1, <2>2, <2>4 DEF Shape
  <2>7. \A e \in files'.evidence : Sound(e)'  BY <2>2 DEF EvidenceIsTrue, Sound
  <2>8. ASSUME NEW q \in DOMAIN Runs, Runs[q] = "resolve", Len(process'[q].read) = 4
        PROVE  Sound(process[q].read[4])'
    <3>1. CASE q # p
      <4>1. process'[q] = process[q]  BY <3>1, <2>5
      <4>2. Sound(process[q].read[4])  BY <2>8, <4>1 DEF EvidenceIsTrue
      <4> QED  BY <4>1, <4>2, <2>2 DEF Sound
    <3>2. CASE q = p
      <4>1. n + 1 = 4  BY <2>8, <3>2, <2>4, <2>5
      <4>2. Command(p)[4] = "evidence"  BY <2>8, <3>2 DEF Command, Inputs
      <4>3. record \in files.evidence  BY <4>1, <4>2
      <4>4. process'[p].read[4] = record  BY <4>1, <2>4, <2>5
      <4>5. Sound(record)  BY <4>3 DEF EvidenceIsTrue
      <4> QED  BY <3>2, <4>4, <4>5, <2>2 DEF Sound
    <3> QED  BY <3>1, <3>2
  <2>9. EvidenceIsTrue'  BY <2>7, <2>8 DEF EvidenceIsTrue
  <2> QED  BY <2>2, <2>6, <2>9 DEF ProductionWasTested
<1> QED  BY <1>1, <1>2 DEF Read

\* The suite writes passing evidence only for the set it tested.
LEMMA TestKeeps ==
  ASSUME IInv, NEW p \in DOMAIN Runs, Test(p)
  PROVE  IInv'
<1> USE DEF IInv
<1> DEFINE read == process[p].read
           resolution == ResolveCandidate(read[1], read[2], Reference(RecordURI, read[1]),
                                          Reference(RecordURI, read[2]))
<1>1. CASE Fail(p) /\ UNCHANGED <<files, passed>>
  BY <1>1, FailKeeps DEF Test
<1>2. ASSUME NEW r \in resolution, NEW result \in {"passed", "failed"},
             files' = [files EXCEPT !.evidence =
               {[schemaVersion |-> 1, candidateDigest |-> r.candidateDigest,
                 result |-> result, suite |-> Suite]}],
             passed' = (IF result = "passed" THEN passed \cup {r.resolved} ELSE passed),
             process' = [process EXCEPT ![p] = Idle]
      PROVE  IInv'
  <2> DEFINE e == [schemaVersion |-> 1, candidateDigest |-> r.candidateDigest,
                   result |-> result, suite |-> Suite]
  <2>1. Fail(p)  BY <1>2 DEF Fail
  <2>2. r.candidateDigest = Digest(read[1]) /\ r.resolved = Resolved(read[1])
    BY <1>2 DEF ResolveCandidate
  <2>3. r.candidateDigest.sha256 = read[1]  BY <2>2, DigestNames
  <2>4. e.result = result /\ e.candidateDigest = r.candidateDigest  OBVIOUS
  <2>5. files'.evidence = {e} /\ DOMAIN files' = Records /\ files' = [f \in Records |-> files'[f]]
    BY <1>2 DEF Shape, Records
  <2>6. Sound(e)'
    <3>1. CASE result = "passed"
      <4>1. Resolved(read[1]) \in passed'  BY <1>2, <3>1, <2>2
      <4> HIDE DEF e, read
      <4> QED  BY <2>3, <2>4, <4>1 DEF Sound
    <3>2. CASE result # "passed"
      <4> HIDE DEF e
      <4> QED  BY <3>2, <2>4 DEF Sound
    <3> QED  BY <3>1, <3>2
  <2>7. passed \subseteq passed'  BY <1>2
  <2>8. Shape'  BY <2>1, <2>5, FailShape DEF Shape
  <2>9. ASSUME NEW q \in DOMAIN Runs, Runs[q] = "resolve", Len(process'[q].read) = 4
        PROVE  Sound(process[q].read[4])'
    <3>1. process'[q].read = IF q = p THEN <<>> ELSE process[q].read  BY <2>1, FailShape
    <3>2. process'[q].read = process[q].read  BY <2>9, <3>1
    <3>3. Sound(process[q].read[4])  BY <2>9, <3>2 DEF EvidenceIsTrue
    <3> QED  BY <3>2, <3>3, <2>7 DEF Sound
  <2>10. EvidenceIsTrue'
    <3> HIDE DEF e
    <3> QED  BY <2>5, <2>6, <2>9 DEF EvidenceIsTrue
  <2>11. production' = production  BY DEF Test
  <2> QED  BY <2>7, <2>8, <2>10, <2>11 DEF ProductionWasTested
<1> QED  BY <1>1, <1>2 DEF Test

\* resolve-release accepts what the evidence it read is about.
LEMMA ResolveKeeps ==
  ASSUME IInv, NEW p \in DOMAIN Runs, ResolveRelease(p)
  PROVE  IInv'
<1> USE DEF IInv
<1> DEFINE read == process[p].read
           resolution == IF ValidateReleasedEnvelope(read[1], read[2], read[3], read[4])
                         THEN ResolveProduction(read[1], Reference(RecordURI, read[1])) ELSE {}
<1>1. production' = production \cup resolution /\ UNCHANGED <<files, passed>>  BY DEF ResolveRelease
<1>2. Fail(p)  BY DEF ResolveRelease, Fail
<1>3. Shape'  BY <1>1, <1>2, FailShape DEF Shape
<1>4. EvidenceIsTrue'
  <2>1. \A q \in DOMAIN Runs : process'[q].read = process[q].read \/ process'[q].read = <<>>
    BY <1>2, FailShape
  <2> QED  BY <1>1, <2>1, EvidenceKept
<1>5. ASSUME NEW r \in resolution PROVE r.resolved \in passed
  <2>1. ValidateReleasedEnvelope(read[1], read[2], read[3], read[4])
        /\ r \in ResolveProduction(read[1], Reference(RecordURI, read[1]))
    BY <1>5
  <2>2. read[4].result = "passed" /\ r.resolved = Resolved(read[4].candidateDigest.sha256)
    <3> HIDE DEF read
    <3> QED  BY <2>1, AcceptedIsEvidenced
  <2>3. Runs[p] = "resolve" /\ Len(read) = 4
    BY DEF ResolveRelease, HasRead, Command, Inputs
  <2>4. Sound(read[4])  BY <2>3 DEF EvidenceIsTrue
  <2> QED
    <3> HIDE DEF read
    <3> QED  BY <2>2, <2>4 DEF Sound
<1>6. ProductionWasTested'
  <2> HIDE DEF resolution
  <2> QED  BY <1>1, <1>5 DEF ProductionWasTested
<1> QED  BY <1>3, <1>4, <1>6

LEMMA NextIInv == IInv /\ [Next]_vars => IInv'
<1> SUFFICES ASSUME IInv, [Next]_vars PROVE IInv'  OBVIOUS
<1>1. CASE EditCandidate  BY <1>1, EditKeeps DEF EditCandidate, Records
<1>2. CASE EditProvenance  BY <1>2, EditKeeps DEF EditProvenance, Records
<1>3. CASE EditRequest  BY <1>3, EditKeeps DEF EditRequest, Records
<1>4. CASE EditEnvelope  BY <1>4, EditKeeps DEF EditEnvelope, Records
<1>5. ASSUME NEW p \in DOMAIN Runs, Read(p) PROVE IInv'  BY <1>5, ReadKeeps
<1>6. ASSUME NEW p \in DOMAIN Runs, Kill(p) PROVE IInv'  BY <1>6, FailKeeps DEF Kill
<1>7. ASSUME NEW p \in DOMAIN Runs, Test(p) PROVE IInv'  BY <1>7, TestKeeps
<1>8. ASSUME NEW p \in DOMAIN Runs, Build(p) PROVE IInv'
  BY <1>8, ToKeeps, FailKeeps DEF Build
<1>9. ASSUME NEW p \in DOMAIN Runs, Create(p) PROVE IInv'
  BY <1>9, ToKeeps, FailKeeps DEF Create, OpenNew
<1>10. ASSUME NEW p \in DOMAIN Runs, Write(p) PROVE IInv'
  BY <1>10, ToKeeps DEF Write
<1>11. ASSUME NEW p \in DOMAIN Runs, ResolveRelease(p) PROVE IInv'  BY <1>11, ResolveKeeps
<1>12. CASE UNCHANGED vars
  BY <1>12 DEF vars, IInv, Shape, EvidenceIsTrue, Sound, ProductionWasTested
<1> QED
  BY <1>1, <1>2, <1>3, <1>4, <1>5, <1>6, <1>7, <1>8, <1>9, <1>10, <1>11, <1>12 DEF Next

LEMMA Inductive == Spec => []IInv
BY InitIInv, NextIInv, PTL DEF Spec

\* Whatever people edit and however the commands interleave, are killed and repeated, what
\* resolve-release gives to production has passed the system tests.
THEOREM ProductionIsTested == Spec => []ProductionWasTested
<1>1. IInv => ProductionWasTested  BY DEF IInv
<1> QED  BY Inductive, <1>1, PTL

-----------------------------------------------------------------------------
(* Competing promotions *)

EnvelopeFields == {"schemaVersion", "release", "status", "candidate", "resolved", "provenance"}

Writing(p) == process[p].step \in {"write", "done"}

\* The path belongs to the one promotion that created it, and what it is going to write,
\* or has written, is the envelope it built.
OneWriter ==
  /\ \A p, q \in DOMAIN Runs : Writing(p) /\ Writing(q) => p = q
  /\ \A p \in DOMAIN Runs : Writing(p) => created
  /\ \A p \in DOMAIN Runs : process[p].step \in {"create", "write", "done"} => Envelope(p) # {}
  /\ \A e, x \in files.envelope : DOMAIN e = EnvelopeFields /\ e = x

\* The record names what a promotion that succeeded has built.
Recorded ==
  \A p \in DOMAIN Runs :
    process[p].step = "done" =>
      \E e \in files.envelope, built \in Envelope(p) :
        e.candidate = built.candidate /\ e.provenance = built.provenance

WInv == Shape /\ OneWriter /\ Recorded

\* What BuildReleasedEnvelope returns.
LEMMA EnvelopeShape ==
  ASSUME NEW c, NEW p, NEW e, NEW request, NEW x \in BuildReleasedEnvelope(c, p, e, request)
  PROVE  /\ DOMAIN x = EnvelopeFields
         /\ \A y \in BuildReleasedEnvelope(c, p, e, request) : y = x
BY DEF BuildReleasedEnvelope, EnvelopeFields

\* What is read back from the file of an envelope that was built.
LEMMA EncodedShape ==
  ASSUME NEW c, NEW p, NEW e, NEW request, NEW x \in BuildReleasedEnvelope(c, p, e, request)
  PROVE  /\ DOMAIN Encoded(x) = EnvelopeFields
         /\ Encoded(x).candidate = x.candidate /\ Encoded(x).provenance = x.provenance
         /\ Encoded(x).resolved.contracts = c.contracts \ {<<>>}
         /\ <<>> \notin c.contracts => Encoded(x) = x
<1>1. PICK made, ref :
        x = [schemaVersion |-> 1, release |-> c.release, status |-> "released",
             candidate |-> ref, resolved |-> Resolved(c), provenance |-> made]
  BY DEF BuildReleasedEnvelope
<1>2. PICK drops : drops = c.contracts \ {<<>>}  OBVIOUS
<1>3. [Resolved(c) EXCEPT !.contracts = @ \ {<<>>}] =
        [components |-> c.components, modules |-> c.modules, contracts |-> drops]
  <2>1. Resolved(c).contracts \ {<<>>} = drops  BY <1>2 DEF Resolved
  <2>2. [Resolved(c) EXCEPT !.contracts = drops] =
          [components |-> c.components, modules |-> c.modules, contracts |-> drops]
    BY DEF Resolved
  <2> QED  BY <2>1, <2>2, Zenon
<1>4. Encoded(x) = [schemaVersion |-> 1, release |-> c.release, status |-> "released",
                    candidate |-> ref,
                    resolved |-> [components |-> c.components, modules |-> c.modules,
                                  contracts |-> drops],
                    provenance |-> made]
  BY <1>1, <1>3 DEF Encoded
<1>5. <<>> \notin c.contracts => drops = c.contracts  BY <1>2
<1>6. /\ DOMAIN Encoded(x) = EnvelopeFields
      /\ Encoded(x).candidate = x.candidate /\ Encoded(x).provenance = x.provenance
      /\ Encoded(x).resolved.contracts = drops
  BY <1>1, <1>4 DEF EnvelopeFields
<1>7. drops = c.contracts => Encoded(x) = x  BY <1>1, <1>4 DEF Resolved
<1> QED  BY <1>2, <1>5, <1>6, <1>7

\* Steps that leave the path, the envelope and the promotions that write alone.
LEMMA WriterKept ==
  ASSUME WInv, Shape', created' = created, files'.envelope = files.envelope,
         \A q \in DOMAIN Runs : \/ process'[q] = process[q]
                                \/ process'[q].step = "read"
                                \/ process'[q].step = "create" /\ Envelope(q)' # {}
  PROVE  WInv'
<1>1. \A q \in DOMAIN Runs : process'[q] = process[q] => Envelope(q)' = Envelope(q)
  BY DEF Envelope
<1>2. \A q \in DOMAIN Runs : Writing(q)' => process'[q] = process[q] /\ Writing(q)
  BY DEF Writing
<1>3. OneWriter'
  <2>1. \A p, q \in DOMAIN Runs : Writing(p)' /\ Writing(q)' => p = q  BY <1>2 DEF WInv, OneWriter
  <2>2. \A p \in DOMAIN Runs : Writing(p)' => created'  BY <1>2 DEF WInv, OneWriter
  <2>3. \A p \in DOMAIN Runs : process'[p].step \in {"create", "write", "done"} => Envelope(p)' # {}
    BY <1>1 DEF WInv, OneWriter
  <2> QED  BY <2>1, <2>2, <2>3 DEF WInv, OneWriter
<1>4. Recorded'
  <2> SUFFICES ASSUME NEW p \in DOMAIN Runs, process'[p].step = "done"
               PROVE  \E e \in files'.envelope, built \in Envelope(p)' :
                        e.candidate = built.candidate /\ e.provenance = built.provenance
    BY DEF Recorded
  <2>1. process'[p] = process[p]  OBVIOUS
  <2> QED  BY <1>1, <2>1 DEF WInv, Recorded
<1> QED  BY <1>3, <1>4 DEF WInv

\* A command that ends.
LEMMA FailKeepsWriter ==
  ASSUME WInv, NEW p \in DOMAIN Runs, Fail(p), created' = created,
         \/ files' = files
         \/ \E e : files' = [files EXCEPT !.evidence = e]
  PROVE  WInv'
<1>1. Shape'
  <2>1. DOMAIN files' = Records /\ files' = [f \in Records |-> files'[f]]  BY DEF WInv, Shape
  <2> QED  BY <2>1, FailShape DEF WInv, Shape
<1>2. files'.envelope = files.envelope  BY DEF WInv, Shape, Records
<1>3. \A q \in DOMAIN Runs : process'[q] = process[q] \/ process'[q].step = "read"
  BY DEF WInv, Shape, Fail, Idle
<1> QED  BY <1>1, <1>2, <1>3, WriterKept

\* Edits of other files do not matter; an edit of the envelope keeps what names it.
LEMMA EditKeepsWriter ==
  ASSUME WInv, NEW file \in Records, NEW record, Edit(file, record),
         file = "envelope" =>
           \E e \in files.envelope : \E r : record = [e EXCEPT !.resolved = r]
  PROVE  WInv'
<1>1. Shape' /\ created' = created /\ process' = process  BY DEF WInv, Shape, Edit
<1>2. CASE file # "envelope"
  <2>1. files'.envelope = files.envelope  BY <1>2 DEF WInv, Shape, Edit, Records
  <2> QED  BY <1>1, <2>1, WriterKept
<1>3. CASE file = "envelope"
  <2>1. PICK e \in files.envelope : \E r : record = [e EXCEPT !.resolved = r]  BY <1>3
  <2>2. DOMAIN e = EnvelopeFields  BY DEF WInv, OneWriter
  <2>3. DOMAIN record = EnvelopeFields /\ record.candidate = e.candidate
        /\ record.provenance = e.provenance
    BY <2>1, <2>2 DEF EnvelopeFields
  <2>4. files'.envelope = {record}  BY <1>3 DEF WInv, Shape, Edit, Records
  <2>5. \A q \in DOMAIN Runs : Envelope(q)' = Envelope(q) /\ Writing(q)' = Writing(q)
    BY <1>1 DEF Envelope, Writing
  <2>6. OneWriter'  BY <1>1, <2>3, <2>4, <2>5 DEF WInv, OneWriter
  <2>7. \A x \in files.envelope : x = e  BY DEF WInv, OneWriter
  <2>8. Recorded'
    <3> SUFFICES ASSUME NEW p \in DOMAIN Runs, process'[p].step = "done"
                 PROVE  \E x \in files'.envelope, built \in Envelope(p)' :
                          x.candidate = built.candidate /\ x.provenance = built.provenance
      BY DEF Recorded
    <3>1. PICK x \in files.envelope, built \in Envelope(p) :
            x.candidate = built.candidate /\ x.provenance = built.provenance
      BY <1>1 DEF WInv, Recorded
    <3> QED  BY <2>3, <2>4, <2>5, <2>7, <3>1
  <2> QED  BY <1>1, <2>6, <2>8 DEF WInv
<1> QED  BY <1>2, <1>3

\* A promotion creates the path only if nobody has, so nobody else is writing.
LEMMA CreateKeepsWriter ==
  ASSUME WInv, NEW p \in DOMAIN Runs, Create(p)
  PROVE  WInv'
<1>1. CASE Fail(p) /\ UNCHANGED <<files, created>>  BY <1>1, FailKeepsWriter
<1>2. CASE /\ ~created /\ created' = TRUE
           /\ files' = [files EXCEPT !.envelope = {}] /\ To(p, "write")
  <2>1. \A q \in DOMAIN Runs : ~Writing(q)  BY <1>2 DEF WInv, OneWriter
  <2>2. /\ process'[p].step = "write" /\ process'[p].read = process[p].read
        /\ \A q \in DOMAIN Runs \ {p} : process'[q] = process[q]
    BY <1>2 DEF WInv, Shape, To
  <2>3. \A q \in DOMAIN Runs : Envelope(q)' = Envelope(q)  BY <2>2 DEF Envelope
  <2>4. \A q \in DOMAIN Runs : Writing(q)' => q = p  BY <2>1, <2>2 DEF Writing
  <2>5. Envelope(p) # {}  BY DEF WInv, OneWriter, Create
  <2>6. Shape'  BY <1>2 DEF WInv, Shape, To, Records
  <2>7. files'.envelope = {}  BY <1>2 DEF WInv, Shape, Records
  <2>8. \A q \in DOMAIN Runs : process'[q].step \in {"create", "write", "done"} => Envelope(q)' # {}
    BY <2>2, <2>3, <2>5 DEF WInv, OneWriter
  <2>9. OneWriter'  BY <1>2, <2>4, <2>7, <2>8 DEF OneWriter
  <2>10. \A q \in DOMAIN Runs : process'[q].step # "done"  BY <2>1, <2>2 DEF Writing
  <2>11. Recorded'  BY <2>10 DEF Recorded
  <2> QED  BY <2>6, <2>9, <2>11 DEF WInv
<1> QED  BY <1>1, <1>2 DEF Create, OpenNew

LEMMA WriteKeepsWriter ==
  ASSUME WInv, NEW p \in DOMAIN Runs, Write(p)
  PROVE  WInv'
<1>1. /\ process[p].step = "write" /\ files' = [files EXCEPT !.envelope = Written(p)]
      /\ To(p, "done") /\ created' = created
  BY DEF Write
<1>2. /\ process'[p].step = "done" /\ process'[p].read = process[p].read
      /\ \A q \in DOMAIN Runs \ {p} : process'[q] = process[q]
  BY <1>1 DEF WInv, Shape, To
<1>3. \A q \in DOMAIN Runs : Envelope(q)' = Envelope(q)  BY <1>2 DEF Envelope
<1>4. \A q \in DOMAIN Runs : Writing(q)' = Writing(q)  BY <1>1, <1>2 DEF Writing
<1>5. files'.envelope = Written(p) /\ Shape'  BY <1>1 DEF WInv, Shape, To, Records
<1>6. \A q \in DOMAIN Runs : process'[q].step \in {"create", "write", "done"} => Envelope(q)' # {}
  BY <1>1, <1>2, <1>3 DEF WInv, OneWriter
<1>7. \A e, x \in Written(p) : DOMAIN e = EnvelopeFields /\ e = x
  BY EnvelopeShape, EncodedShape DEF Envelope, Written
<1>8. OneWriter'  BY <1>1, <1>4, <1>5, <1>6, <1>7 DEF WInv, OneWriter
<1>9. \A q \in DOMAIN Runs : process'[q].step = "done" => q = p
  <2>1. Writing(p)  BY <1>1 DEF Writing
  <2>2. \A q \in DOMAIN Runs : process'[q].step = "done" => Writing(q)  BY <1>4 DEF Writing
  <2> QED  BY <2>1, <2>2 DEF WInv, OneWriter
<1>10. PICK built \in Envelope(p) : TRUE  BY <1>6, <1>2, <1>3
<1>11. /\ Encoded(built) \in Written(p)
       /\ Encoded(built).candidate = built.candidate
       /\ Encoded(built).provenance = built.provenance
  BY <1>10, EncodedShape DEF Envelope, Written
<1>12. Recorded'  BY <1>3, <1>5, <1>9, <1>10, <1>11 DEF Recorded
<1> QED  BY <1>5, <1>8, <1>12 DEF WInv

LEMMA InitWInv == Init => WInv
<1> SUFFICES ASSUME Init PROVE WInv  OBVIOUS
<1>1. Shape  BY InitIInv DEF IInv
<1>2. \A p \in DOMAIN Runs : process[p].step = "read"  BY DEF Init, Idle
<1>3. files.envelope = {}
  <2>1. PICK c \in Candidates :
          files = [f \in Records |-> CASE f = "candidate" -> {c}
                                       [] f = "provenance" -> {Provenance(c, c)}
                                       [] OTHER -> {}]
    BY DEF Init
  <2> QED  BY <2>1 DEF Records
<1> QED  BY <1>1, <1>2, <1>3 DEF WInv, OneWriter, Writing, Recorded

LEMMA NextWInv == WInv /\ IInv /\ [Next]_vars => WInv'
<1> SUFFICES ASSUME WInv, IInv, [Next]_vars PROVE WInv'  OBVIOUS
<1>0. Shape'  BY NextIInv DEF IInv
<1>1. CASE EditCandidate  BY <1>1, EditKeepsWriter DEF EditCandidate, Records
<1>2. CASE EditProvenance  BY <1>2, EditKeepsWriter DEF EditProvenance, Records
<1>3. CASE EditRequest  BY <1>3, EditKeepsWriter DEF EditRequest, Records
<1>4. CASE EditEnvelope
  <2>1. PICK e \in files.envelope, c \in Candidates :
          Edit("envelope", [e EXCEPT !.resolved = Resolved(c)])
    BY <1>4 DEF EditEnvelope
  <2> QED  BY <2>1, EditKeepsWriter DEF Records
<1>5. ASSUME NEW p \in DOMAIN Runs, Read(p) PROVE WInv'
  <2>1. UNCHANGED <<files, created>>  BY <1>5 DEF Read
  <2>2. process[p].step = "read"  BY <1>5 DEF Read
  <2>3. \A q \in DOMAIN Runs : process'[q] = process[q] \/ process'[q].step = "read"
    BY <1>5, <2>2 DEF Read, Fail, Idle, WInv, Shape
  <2> QED  BY <1>0, <2>1, <2>3, WriterKept
<1>6. ASSUME NEW p \in DOMAIN Runs, Kill(p) PROVE WInv'  BY <1>6, FailKeepsWriter DEF Kill
<1>7. ASSUME NEW p \in DOMAIN Runs, Test(p) PROVE WInv'
  <2>1. Fail(p) /\ created' = created  BY <1>7 DEF Test, Fail
  <2>2. files' = files \/ \E e : files' = [files EXCEPT !.evidence = e]  BY <1>7 DEF Test
  <2> QED  BY <2>1, <2>2, FailKeepsWriter
<1>8. ASSUME NEW p \in DOMAIN Runs, Build(p) PROVE WInv'
  <2>1. CASE Fail(p)  BY <1>8, <2>1, FailKeepsWriter DEF Build
  <2>2. CASE Envelope(p) # {} /\ To(p, "create")
    <3>1. /\ process'[p].step = "create" /\ process'[p].read = process[p].read
          /\ \A q \in DOMAIN Runs \ {p} : process'[q] = process[q]
      BY <2>2 DEF WInv, Shape, To
    <3>2. Envelope(p)' # {}  BY <2>2, <3>1 DEF Envelope
    <3>3. UNCHANGED <<files, created>>  BY <1>8 DEF Build
    <3> QED  BY <1>0, <3>1, <3>2, <3>3, WriterKept
  <2> QED  BY <1>8, <2>1, <2>2 DEF Build
<1>9. ASSUME NEW p \in DOMAIN Runs, Create(p) PROVE WInv'  BY <1>9, CreateKeepsWriter
<1>10. ASSUME NEW p \in DOMAIN Runs, Write(p) PROVE WInv'  BY <1>10, WriteKeepsWriter
<1>11. ASSUME NEW p \in DOMAIN Runs, ResolveRelease(p) PROVE WInv'
  <2>1. Fail(p) /\ UNCHANGED <<files, created>>  BY <1>11 DEF ResolveRelease, Fail
  <2> QED  BY <2>1, FailKeepsWriter
<1>12. CASE UNCHANGED vars
  BY <1>0, <1>12, WriterKept DEF vars
<1> QED
  BY <1>1, <1>2, <1>3, <1>4, <1>5, <1>6, <1>7, <1>8, <1>9, <1>10, <1>11, <1>12 DEF Next

\* However many promotions compete for one path, and whatever is killed or edited, one at
\* most reports success, and it is the one whose request the released record names.
THEOREM OnePromotionWins == Spec => []SuccessIsTheRecord
<1>1. WInv => SuccessIsTheRecord
  BY DEF WInv, OneWriter, Writing, Recorded, SuccessIsTheRecord
<1> QED  BY Inductive, InitWInv, NextWInv, <1>1, PTL DEF Spec

-----------------------------------------------------------------------------
(* A promoted set can be deployed *)

\* The parts of a candidate that its validation looks at.
LEMMA SameCandidate ==
  ASSUME NEW a, NEW b, ValidateCandidate(a), b.schemaVersion = 1, b.status = "candidate",
         b.release = a.release, b.components = a.components, b.modules = a.modules,
         b.contracts = a.contracts
  PROVE  ValidateCandidate(b)
BY DEF ValidateCandidate, Distinct

\* What is built is accepted with the records it was built from.
LEMMA BuiltResolves ==
  ASSUME NEW c, NEW p, NEW e, NEW request, NEW x \in BuildReleasedEnvelope(c, p, e, request)
  PROVE  /\ ValidateReleasedEnvelope(x, c, p, e)
         /\ ResolveProduction(x, Reference(RecordURI, x)) # {}
<1>1. /\ request.schemaVersion = 1
      /\ request.candidate.digest = Digest(c)
      /\ request.candidateProvenance.digest = Digest(p)
      /\ request.systemTestEvidence.digest = Digest(e)
      /\ ValidateDigestReference(request.candidate)
      /\ ValidateDigestReference(request.candidateProvenance)
      /\ ValidateDigestReference(request.systemTestEvidence)
      /\ request.promotion.repository = "endless-net/client-api"
      /\ ActionsRunFor(request.promotion.repository, request.promotion.run)
      /\ ValidateCandidateProvenance(c, Digest(c), p)
      /\ ValidateSystemTestEvidence(Digest(c), e)
  BY DEF BuildReleasedEnvelope
<1> DEFINE tests == [evidence   |-> request.systemTestEvidence,
                     repository |-> e.suite.repository,
                     gitCommit  |-> e.suite.gitCommit,
                     run        |-> e.suite.run]
           made == [candidateProvenance |-> request.candidateProvenance,
                    systemTests         |-> tests,
                    promotion           |-> request.promotion]
<1>2. x = [schemaVersion |-> 1, release |-> c.release, status |-> "released",
           candidate |-> request.candidate, resolved |-> Resolved(c), provenance |-> made]
  BY <1>1 DEF BuildReleasedEnvelope
<1>3. /\ x.schemaVersion = 1 /\ x.release = c.release /\ x.status = "released"
      /\ x.candidate = request.candidate /\ x.resolved = Resolved(c) /\ x.provenance = made
  BY <1>2
<1>4. /\ made.candidateProvenance = request.candidateProvenance
      /\ made.systemTests = tests /\ made.promotion = request.promotion
      /\ tests.evidence = request.systemTestEvidence /\ tests.repository = e.suite.repository
      /\ tests.gitCommit = e.suite.gitCommit /\ tests.run = e.suite.run
  OBVIOUS
<1> HIDE DEF made, tests
<1>5. ValidateReleasedEnvelope(x, c, p, e)
  <2> DEFINE again == RequestOf(x)
  <2>1. /\ again.schemaVersion = 1 /\ again.candidate = request.candidate
        /\ again.candidateProvenance = request.candidateProvenance
        /\ again.systemTestEvidence = request.systemTestEvidence
        /\ again.promotion = request.promotion
    BY <1>3, <1>4 DEF RequestOf
  <2> HIDE DEF again
  <2>2. BuildReleasedEnvelope(c, p, e, again) = BuildReleasedEnvelope(c, p, e, request)
    BY <1>1, <2>1 DEF BuildReleasedEnvelope
  <2> QED  BY <1>3, <2>2 DEF ValidateReleasedEnvelope, again
<1>6. ValidEnvelopeProvenance(x.provenance)
  <2>1. /\ e.suite.repository = "endless-net/system-tests" /\ e.suite.gitCommit \in Matches.commit
        /\ ActionsRunFor(e.suite.repository, e.suite.run)
    BY <1>1 DEF ValidateSystemTestEvidence
  <2> QED  BY <1>1, <1>3, <1>4, <2>1 DEF ValidEnvelopeProvenance
<1>7. /\ ValidateCandidate(c) /\ c.release \in Matches.release
      /\ \A part \in ToSet(c.components) : part.image # {}
  BY <1>1 DEF ValidateCandidateProvenance, ValidateCandidate, ComponentsCovered
<1>8. /\ x.resolved.components = c.components /\ x.resolved.modules = c.modules
      /\ x.resolved.contracts = c.contracts
  BY <1>3 DEF Resolved
<1> DEFINE as == [schemaVersion |-> 1, release |-> x.release, status |-> "candidate",
                  components |-> x.resolved.components, modules |-> x.resolved.modules,
                  contracts |-> x.resolved.contracts]
<1>9. ValidateCandidate(as)
  <2>1. /\ as.schemaVersion = 1 /\ as.status = "candidate" /\ as.release = c.release
        /\ as.components = c.components /\ as.modules = c.modules /\ as.contracts = c.contracts
    BY <1>3, <1>8
  <2> HIDE DEF as
  <2> QED  BY <1>7, <2>1, SameCandidate
<1>10. LET ref == Reference(RecordURI, x)
       IN  ref.digest = Digest(x) /\ ValidateDigestReference(ref)
  BY ServerReleaseAssumption DEF Reference, ValidateDigestReference, IsDigest, Digest
<1>11. ResolveProduction(x, Reference(RecordURI, x)) # {}
  <2>1. ValidateDigestReference(x.candidate)  BY <1>1, <1>3
  <2> QED  BY <1>3, <1>6, <1>7, <1>8, <1>9, <1>10, <2>1 DEF ResolveProduction
<1> QED  BY <1>5, <1>11

\* resolve-release accepts what promote released, for the records the promotion read,
\* exactly when the candidate does not have an empty list of contracts.
THEOREM PromotionResolves == Spec => []PromotedResolves
<1>1. WInv => PromotedResolves
  <2> SUFFICES ASSUME WInv, NEW p \in DOMAIN Runs, process[p].step = "done",
                      files.envelope = Written(p)
               PROVE  \E e \in files.envelope :
                        LET read == process[p].read
                        IN  /\ ValidateReleasedEnvelope(e, read[1], read[2], read[3])
                            /\ ResolveProduction(e, Reference(RecordURI, e)) # {}
                            <=> <<>> \notin read[1].contracts
    BY DEF PromotedResolves
  <2> DEFINE read == process[p].read
  <2>1. PICK x : x \in BuildReleasedEnvelope(read[1], read[2], read[3], read[4])
    BY DEF WInv, OneWriter, Envelope
  <2>2. Encoded(x) \in files.envelope  BY <2>1 DEF Envelope, Written
  <2> HIDE DEF read
  <2>3. CASE <<>> \notin read[1].contracts
    <3>1. Encoded(x) = x  BY <2>1, <2>3, EncodedShape
    <3>2. /\ ValidateReleasedEnvelope(x, read[1], read[2], read[3])
          /\ ResolveProduction(x, Reference(RecordURI, x)) # {}
      BY <2>1, BuiltResolves
    <3> QED  BY <2>2, <2>3, <3>1, <3>2 DEF read
  <2>4. CASE <<>> \in read[1].contracts
    <3>1. Encoded(x).resolved.contracts # read[1].contracts  BY <2>1, <2>4, EncodedShape
    <3>2. Encoded(x).resolved # Resolved(read[1])  BY <3>1 DEF Resolved
    <3>3. ~ValidateReleasedEnvelope(Encoded(x), read[1], read[2], read[3])
      BY <3>2 DEF ValidateReleasedEnvelope
    <3> QED  BY <2>2, <2>4, <3>3 DEF read
  <2> QED  BY <2>3, <2>4
<1> QED  BY Inductive, InitWInv, NextWInv, <1>1, PTL DEF Spec

-----------------------------------------------------------------------------
(* Types *)

\* Each file has at most one record, and the envelope a path.
FilesInv ==
  /\ \A f \in Records : \A x, y \in files[f] : x = y
  /\ created \in BOOLEAN /\ (files.envelope # {} => created)

\* A command has read no more than its files, and only a promotion goes on to write.
CommandInv(p) ==
  /\ Len(process[p].read) \in 0 .. Len(Command(p))
  /\ process[p].step \in {"read"} \cup
       IF Runs[p] = "promote" THEN {"create", "write", "done"} ELSE {}

RestInv ==
  /\ \A r \in production : r.environmentClass = "production"
  /\ edits \in 0 .. MaxEdits

TInv == FilesInv /\ (\A p \in DOMAIN Runs : CommandInv(p)) /\ RestInv

LEMMA CommandLength == ASSUME NEW p \in DOMAIN Runs PROVE Len(Command(p)) \in Nat
<1>1. Runs[p] \in {"test", "promote", "resolve"}  BY ServerReleaseAssumption
<1> QED  BY <1>1 DEF Command, Inputs

\* A command that ends or goes on.
LEMMA FailKeepsCommands ==
  ASSUME Shape, \A q \in DOMAIN Runs : CommandInv(q), NEW p \in DOMAIN Runs, Fail(p)
  PROVE  \A q \in DOMAIN Runs : CommandInv(q)'
<1> TAKE q \in DOMAIN Runs
<1>1. CASE q = p
  <2>1. process'[q].read = <<>> /\ process'[q].step = "read"  BY <1>1 DEF Shape, Fail, Idle
  <2>2. Command(q)' = Command(q)  BY DEF Command
  <2> QED  BY <2>1, <2>2, CommandLength DEF CommandInv
<1>2. CASE q # p
  <2>1. process'[q] = process[q]  BY <1>2 DEF Shape, Fail
  <2> QED  BY <2>1 DEF CommandInv, Command
<1> QED  BY <1>1, <1>2

LEMMA ToKeepsCommands ==
  ASSUME Shape, \A q \in DOMAIN Runs : CommandInv(q), NEW p \in DOMAIN Runs,
         Runs[p] = "promote", NEW step \in {"create", "write", "done"}, To(p, step)
  PROVE  \A q \in DOMAIN Runs : CommandInv(q)'
<1> TAKE q \in DOMAIN Runs
<1>1. /\ process'[q].read = process[q].read
      /\ process'[q].step = IF q = p THEN step ELSE process[q].step
  BY DEF Shape, To
<1> QED  BY <1>1 DEF CommandInv, Command

LEMMA ReadKeepsCommands ==
  ASSUME Shape, \A q \in DOMAIN Runs : CommandInv(q), NEW p \in DOMAIN Runs, Read(p)
  PROVE  \A q \in DOMAIN Runs : CommandInv(q)'
<1>1. CASE Fail(p)  BY <1>1, FailKeepsCommands
<1>2. CASE \E record : process' = [process EXCEPT ![p].read = Append(@, record)]
  <2>1. PICK record : process' = [process EXCEPT ![p].read = Append(@, record)]  BY <1>2
  <2>2. /\ process'[p].read = Append(process[p].read, record) /\ process'[p].step = process[p].step
        /\ \A q \in DOMAIN Runs \ {p} : process'[q] = process[q]
    BY <2>1 DEF Shape
  <2>3. /\ Len(process[p].read) \in Nat
        /\ Len(Append(process[p].read, record)) = Len(process[p].read) + 1
    BY AppendToList DEF Shape
  <2>4. Len(process[p].read) < Len(Command(p)) /\ Len(Command(p)) \in Nat
    BY CommandLength DEF Read
  <2>5. Len(process'[p].read) \in 0 .. Len(Command(p))  BY <2>2, <2>3, <2>4
  <2>6. CommandInv(p)'  BY <2>2, <2>5 DEF CommandInv, Command
  <2>7. ASSUME NEW q \in DOMAIN Runs \ {p} PROVE CommandInv(q)'  BY <2>2 DEF CommandInv, Command
  <2> QED  BY <2>6, <2>7
<1> QED  BY <1>1, <1>2 DEF Read

\* The steps of the commands.
LEMMA NextCommands ==
  ASSUME Shape, TInv, [Next]_vars
  PROVE  \A q \in DOMAIN Runs : CommandInv(q)'
<1>0. \A q \in DOMAIN Runs : CommandInv(q)  BY DEF TInv
<1>1. CASE process' = process  BY <1>0, <1>1 DEF CommandInv, Command
<1>2. CASE EditCandidate \/ EditProvenance \/ EditRequest \/ EditEnvelope
  BY <1>1, <1>2 DEF EditCandidate, EditProvenance, EditRequest, EditEnvelope, Edit
<1>3. ASSUME NEW p \in DOMAIN Runs, Read(p) PROVE \A q \in DOMAIN Runs : CommandInv(q)'
  BY <1>0, <1>3, ReadKeepsCommands
<1>4. ASSUME NEW p \in DOMAIN Runs, Kill(p) \/ Test(p) \/ ResolveRelease(p)
      PROVE  \A q \in DOMAIN Runs : CommandInv(q)'
  <2>1. Fail(p)  BY <1>4 DEF Kill, Test, ResolveRelease, Fail
  <2> QED  BY <1>0, <2>1, FailKeepsCommands
<1>5. ASSUME NEW p \in DOMAIN Runs, Build(p) \/ Create(p) \/ Write(p)
      PROVE  \A q \in DOMAIN Runs : CommandInv(q)'
  <2>1. Runs[p] = "promote"
    <3>1. CASE Build(p)  BY <3>1 DEF Build, HasRead
    <3>2. CASE process[p].step \in {"create", "write"}  BY <1>0, <3>2 DEF CommandInv
    <3> QED  BY <1>5, <3>1, <3>2 DEF Create, Write
  <2>2. Fail(p) \/ To(p, "create") \/ To(p, "write") \/ To(p, "done")
    BY <1>5 DEF Build, Create, OpenNew, Write
  <2> QED  BY <1>0, <2>1, <2>2, FailKeepsCommands, ToKeepsCommands
<1> QED  BY <1>1, <1>2, <1>3, <1>4, <1>5 DEF Next, vars

\* The files.
LEMMA NextFiles ==
  ASSUME WInv, TInv, [Next]_vars
  PROVE  FilesInv'
<1>0. FilesInv /\ Shape  BY DEF TInv, WInv
<1>1. CASE UNCHANGED <<files, created>>  BY <1>0, <1>1 DEF FilesInv
<1>2. ASSUME NEW file \in Records, NEW record, files' = [files EXCEPT ![file] = {record}],
             created' = created, file = "envelope" => files.envelope # {}
      PROVE  FilesInv'
  <2>1. \A f \in Records : files'[f] = IF f = file THEN {record} ELSE files[f]
    BY <1>0, <1>2 DEF Shape
  <2>2. files'.envelope # {} => files.envelope # {}  BY <1>2, <2>1 DEF Records
  <2> QED  BY <1>0, <1>2, <2>1, <2>2 DEF FilesInv
<1>3. CASE EditCandidate  BY <1>2, <1>3 DEF EditCandidate, Edit, Records
<1>4. CASE EditProvenance  BY <1>2, <1>4 DEF EditProvenance, Edit, Records
<1>5. CASE EditRequest  BY <1>2, <1>5 DEF EditRequest, Edit, Records
<1>6. CASE EditEnvelope  BY <1>2, <1>6 DEF EditEnvelope, Edit, Records
<1>7. ASSUME NEW p \in DOMAIN Runs, Read(p) \/ Kill(p) \/ Build(p) \/ ResolveRelease(p)
      PROVE  FilesInv'
  BY <1>1, <1>7 DEF Read, Kill, Build, ResolveRelease
<1>8. ASSUME NEW p \in DOMAIN Runs, Test(p) PROVE FilesInv'
  <2>1. \/ UNCHANGED files
        \/ \E record : files' = [files EXCEPT !["evidence"] = {record}]
    BY <1>8 DEF Test
  <2>2. created' = created  BY <1>8 DEF Test
  <2> QED  BY <1>1, <1>2, <2>1, <2>2 DEF Records
<1>9. ASSUME NEW p \in DOMAIN Runs, Create(p) PROVE FilesInv'
  <2>1. CASE UNCHANGED <<files, created>>  BY <1>1, <2>1
  <2>2. CASE created' = TRUE /\ files' = [files EXCEPT !.envelope = {}]
    <3>1. \A f \in Records : files'[f] = IF f = "envelope" THEN {} ELSE files[f]
      BY <1>0, <2>2 DEF Shape
    <3>2. created' \in BOOLEAN /\ created'  BY <2>2, Zenon
    <3>3. \A f \in Records : \A x, y \in files'[f] : x = y  BY <1>0, <3>1 DEF FilesInv
    <3> QED  BY <3>2, <3>3 DEF FilesInv
  <2> QED  BY <1>9, <2>1, <2>2 DEF Create, OpenNew
<1>10. ASSUME NEW p \in DOMAIN Runs, Write(p) PROVE FilesInv'
  <2>1. /\ process[p].step = "write" /\ created' = created
        /\ files' = [files EXCEPT !.envelope = Written(p)]
    BY <1>10 DEF Write
  <2>2. created  BY <2>1 DEF WInv, OneWriter, Writing
  <2>3. \A f \in Records : files'[f] = IF f = "envelope" THEN Written(p) ELSE files[f]
    BY <1>0, <2>1 DEF Shape
  <2>4. \A x, y \in Written(p) : x = y  BY EnvelopeShape DEF Envelope, Written
  <2>5. \A f \in Records : \A x, y \in files'[f] : x = y  BY <1>0, <2>3, <2>4 DEF FilesInv
  <2>6. created' \in BOOLEAN /\ created'  BY <1>0, <2>1, <2>2 DEF FilesInv
  <2> QED  BY <2>5, <2>6 DEF FilesInv
<1> QED  BY <1>1, <1>3, <1>4, <1>5, <1>6, <1>7, <1>8, <1>9, <1>10 DEF Next, vars

\* What resolve-release gives out is for production; edits are bounded.
LEMMA NextRest == ASSUME TInv, [Next]_vars PROVE RestInv'
<1>0. RestInv /\ MaxEdits \in Nat  BY ServerReleaseAssumption DEF TInv
<1>1. CASE UNCHANGED <<production, edits>>  BY <1>0, <1>1 DEF RestInv
<1>2. CASE EditCandidate \/ EditProvenance \/ EditRequest \/ EditEnvelope
  <2>1. edits < MaxEdits /\ edits' = edits + 1 /\ production' = production
    BY <1>2 DEF EditCandidate, EditProvenance, EditRequest, EditEnvelope, Edit
  <2> QED  BY <1>0, <2>1 DEF RestInv
<1>3. ASSUME NEW p \in DOMAIN Runs, ResolveRelease(p) PROVE RestInv'
  <2>1. PICK envelope, ref :
          /\ \A r \in production' \ production : r \in ResolveProduction(envelope, ref)
          /\ edits' = edits
    BY <1>3 DEF ResolveRelease
  <2>2. \A r \in ResolveProduction(envelope, ref) : r.environmentClass = "production"
    BY DEF ResolveProduction
  <2> QED  BY <1>0, <2>1, <2>2 DEF RestInv
<1>4. ASSUME NEW p \in DOMAIN Runs,
             Read(p) \/ Kill(p) \/ Test(p) \/ Build(p) \/ Create(p) \/ Write(p)
      PROVE  RestInv'
  BY <1>1, <1>4 DEF Read, Kill, Test, Build, Create, Write
<1> QED  BY <1>1, <1>2, <1>3, <1>4 DEF Next, vars

LEMMA InitTInv == Init => TInv
<1> SUFFICES ASSUME Init PROVE TInv  OBVIOUS
<1>1. PICK c \in Candidates :
        files = [f \in Records |-> CASE f = "candidate" -> {c}
                                     [] f = "provenance" -> {Provenance(c, c)}
                                     [] OTHER -> {}]
  BY DEF Init
<1>2. (\A f \in Records : \A x, y \in files[f] : x = y) /\ files.envelope = {}
  BY <1>1 DEF Records
<1>3. created \in BOOLEAN  BY Zenon DEF Init
<1>4. FilesInv  BY <1>2, <1>3 DEF FilesInv
<1>5. ASSUME NEW p \in DOMAIN Runs PROVE CommandInv(p)
  <2>1. process[p].read = <<>> /\ process[p].step = "read"  BY DEF Init, Idle
  <2> QED  BY <2>1, CommandLength DEF CommandInv
<1>6. RestInv  BY ServerReleaseAssumption DEF Init, RestInv
<1> QED  BY <1>4, <1>5, <1>6 DEF TInv

\* The type invariant.
THEOREM TypeCorrect == Spec => []TypeOK
<1>1. WInv /\ TInv /\ [Next]_vars => TInv'
  BY NextFiles, NextCommands, NextRest DEF TInv, WInv
<1>2. TInv => TypeOK  BY DEF TInv, FilesInv, CommandInv, RestInv, TypeOK
<1> QED  BY Inductive, InitWInv, NextWInv, InitTInv, <1>1, <1>2, PTL DEF Spec
=============================================================================
