SPECIFICATION Spec
CONSTANTS
  Matches <- MCMatches
  RunOf <- MCRunOf
  DigestIn <- MCDigestIn
  ArchiveOf <- MCArchiveOf
  RepositoryOf <- MCRepositoryOf
  Candidates <- MCCandidates
  Evidence <- MCEvidence
  RecordURI = "blob"
  Promotion <- MCPromotion
  MaxWrites = 4
INVARIANTS
  TypeOK
  ApprovedCoversGates
  DeployedWasApproved
