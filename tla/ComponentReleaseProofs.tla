----------------------- MODULE ComponentReleaseProofs -----------------------
(***************************************************************************)
(* What ComponentRelease guarantees for every set of candidates, every     *)
(* evidence and any number of rewritten records and signals.               *)
(*                                                                         *)
(* Neither safety property is inductive. A record is approved against the  *)
(* candidate that was read, which need not be in the file any more:        *)
(* ReadWasPublished adds that it was published if it is valid. A record is *)
(* deployed because a signal has its digest: TypeOK adds that the digest   *)
(* is that of an approved record.                                          *)
(***************************************************************************)
EXTENDS ComponentRelease, FiniteSetTheorems, TLAPS

\* A valid candidate in the file, or read from it, has been published.
ReadWasPublished ==
  \A c \in checking \cup {candidateFile} : ValidateComponentCandidate(c) => c \in published

IInv == TypeOK /\ ReadWasPublished /\ ApprovedCoversGates /\ DeployedWasApproved

\* Records with the same digest are the same (the digest does not collide).
LEMMA DigestInjective ==
  ASSUME NEW a, NEW b, Digest(a) = Digest(b)
  PROVE  a = b
<1>1. Digest(a).sha256 = a /\ Digest(b).sha256 = b  BY DEF Digest
<1> QED  BY <1>1

\* A record that ValidateReleasedComponent accepts has evidence for exactly the gates:
\* distinct evidence for gates of the candidate only, as many as there are gates, is all of
\* them.
LEMMA AllGatesCovered ==
  ASSUME NEW r, NEW c \in Candidates, CoversGates(r, c)
  PROVE  GateKeys(r.compatibilityEvidence) = GateKeys(c.compatibilityGates)
<1> DEFINE want == GateKeys(c.compatibilityGates)
           seen == GateKeys(r.compatibilityEvidence)
<1>1. IsFiniteSet(want)  BY ComponentReleaseAssumption
<1>2. seen \in SUBSET want /\ Cardinality(want) = Cardinality(seen)  BY DEF CoversGates
<1> HIDE DEF want, seen
<1>3. want = seen  BY <1>1, <1>2, FS_Subset
<1> QED  BY <1>3 DEF want, seen

-----------------------------------------------------------------------------

LEMMA InitIInv == Init => IInv
<1> SUFFICES ASSUME Init PROVE IInv  OBVIOUS
<1>1. TypeOK  BY ComponentReleaseAssumption DEF Init, TypeOK
<1>2. ReadWasPublished  BY DEF Init, ReadWasPublished
<1>3. ApprovedCoversGates /\ DeployedWasApproved
  BY DEF Init, ApprovedCoversGates, DeployedWasApproved
<1> QED  BY <1>1, <1>2, <1>3 DEF IInv

LEMMA NextIInv == IInv /\ [Next]_vars => IInv'
<1> SUFFICES ASSUME IInv, [Next]_vars PROVE IInv'  OBVIOUS
<1> USE DEF IInv
<1>1. CASE WriteCandidate
  <2>1. candidateFile' \in Candidates /\ published \subseteq published' /\ published' \subseteq Candidates
    BY <1>1 DEF WriteCandidate, TypeOK
  <2>2. TypeOK'  BY <1>1, <2>1, ComponentReleaseAssumption DEF WriteCandidate, TypeOK
  <2>3. ReadWasPublished'  BY <1>1 DEF WriteCandidate, ReadWasPublished
  <2>4. ApprovedCoversGates'  BY <1>1, <2>1 DEF WriteCandidate, ApprovedCoversGates
  <2>5. DeployedWasApproved'
    BY <1>1 DEF WriteCandidate, DeployedWasApproved
  <2> QED  BY <2>2, <2>3, <2>4, <2>5
<1>2. CASE WriteReleased
  <2>1. \A x, y \in releasedFile' : x = y  BY <1>2 DEF WriteReleased
  <2>2. TypeOK'  BY <1>2, <2>1, ComponentReleaseAssumption DEF WriteReleased, TypeOK
  <2> QED  BY <1>2, <2>2 DEF WriteReleased, ReadWasPublished, ApprovedCoversGates, DeployedWasApproved
<1>3. CASE ReadCandidate
  <2>1. TypeOK'  BY <1>3 DEF ReadCandidate, TypeOK
  <2>2. ReadWasPublished'  BY <1>3 DEF ReadCandidate, ReadWasPublished
  <2> QED  BY <1>3, <2>1, <2>2 DEF ReadCandidate, ApprovedCoversGates, DeployedWasApproved
<1>4. CASE CheckReleased
  <2>1. TypeOK'  BY <1>4 DEF CheckReleased, TypeOK
  <2>2. ReadWasPublished'  BY <1>4 DEF CheckReleased, ReadWasPublished
  <2>3. ASSUME NEW r \in approved', r \notin approved
        PROVE  \E c \in published :
                 /\ r.candidate.digest = Digest(c)
                 /\ r.artifact = c.artifact /\ r.gitCommit = c.gitCommit
                 /\ GateKeys(r.compatibilityEvidence) = GateKeys(c.compatibilityGates)
    <3>1. PICK c \in checking : ValidateReleasedComponent(r, c)  BY <1>4, <2>3 DEF CheckReleased
    <3>2. ValidateComponentCandidate(c) /\ BindsCandidate(r, c) /\ CoversGates(r, c)
      BY <3>1 DEF ValidateReleasedComponent
    <3>3. c \in published /\ c \in Candidates  BY <3>2 DEF ReadWasPublished, TypeOK
    <3>4. GateKeys(r.compatibilityEvidence) = GateKeys(c.compatibilityGates)
      BY <3>2, <3>3, AllGatesCovered
    <3> QED  BY <3>2, <3>3, <3>4 DEF BindsCandidate
  <2>4. published' = published  BY <1>4 DEF CheckReleased
  <2>5. ApprovedCoversGates'  BY <2>3, <2>4 DEF ApprovedCoversGates
  <2>6. approved \subseteq approved' /\ signals' = signals /\ deployed' = deployed
    BY <1>4 DEF CheckReleased
  <2>7. DeployedWasApproved'  BY <2>6 DEF DeployedWasApproved
  <2> QED  BY <2>1, <2>2, <2>5, <2>7
<1>5. CASE SendSignal
  <2>1. \E r \in approved : \E t :
          /\ signals' = signals \cup {t}
          /\ t.component = r.component /\ t.releasedRecord.digest = Digest(r)
    BY <1>5 DEF SendSignal
  <2>2. UNCHANGED <<candidateFile, releasedFile, checking, receiving, published, approved,
                    deployed, writes>>
    BY <1>5 DEF SendSignal
  <2>3. TypeOK'  BY <2>1, <2>2 DEF TypeOK
  <2> QED  BY <2>2, <2>3 DEF ReadWasPublished, ApprovedCoversGates, DeployedWasApproved
<1>6. CASE ReadReleased
  <2>1. TypeOK'  BY <1>6 DEF ReadReleased, TypeOK
  <2> QED  BY <1>6, <2>1 DEF ReadReleased, ReadWasPublished, ApprovedCoversGates, DeployedWasApproved
<1>7. CASE ReceiveSignal
  <2>1. PICK s \in signals :
          deployed' = deployed \cup {r \in receiving : ValidateInfrastructureSignal(s, r)}
    BY <1>7 DEF ReceiveSignal
  <2>2. receiving' = {} /\ UNCHANGED <<candidateFile, releasedFile, checking, published, approved,
                                      signals, writes>>
    BY <1>7 DEF ReceiveSignal
  <2>3. \A r \in deployed' \ deployed : s.releasedRecord.digest = Digest(r)
    BY <2>1 DEF ValidateInfrastructureSignal
  <2>4. TypeOK'  BY <2>2, <2>3 DEF TypeOK
  <2>5. PICK a \in approved : s.releasedRecord.digest = Digest(a)  BY DEF TypeOK
  <2>6. \A r \in deployed' \ deployed : r = a  BY <2>3, <2>5, DigestInjective
  <2> QED  BY <2>2, <2>4, <2>6 DEF ReadWasPublished, ApprovedCoversGates, DeployedWasApproved
<1>8. CASE UNCHANGED vars
  BY <1>8 DEF vars, TypeOK, ReadWasPublished, ApprovedCoversGates, DeployedWasApproved
<1> QED  BY <1>1, <1>2, <1>3, <1>4, <1>5, <1>6, <1>7, <1>8 DEF Next

LEMMA Inductive == Spec => []IInv
BY InitIInv, NextIInv, PTL DEF Spec

\* The type invariant of a component's release, whatever candidates and records are
\* written: only valid candidates are published, only approved records signalled.
THEOREM TypeCorrect == Spec => []TypeOK
<1>1. IInv => TypeOK  BY DEF IInv
<1> QED  BY Inductive, <1>1, PTL

\* Whatever is rewritten between the reads of validate-released-component, an approved
\* record is for one published candidate and has evidence for exactly its gates.
THEOREM ApprovedIsGated == Spec => []ApprovedCoversGates
<1>1. IInv => ApprovedCoversGates  BY DEF IInv
<1> QED  BY Inductive, <1>1, PTL

\* Whatever signal arrives and however late, validate-infrastructure-signal only lets
\* approved records be deployed.
THEOREM DeployedIsApproved == Spec => []DeployedWasApproved
<1>1. IInv => DeployedWasApproved  BY DEF IInv
<1> QED  BY Inductive, <1>1, PTL
=============================================================================
