SPECIFICATION Spec
CONSTANTS
  Matches <- MCMatches
  RunOf <- MCRunOf
  DigestIn <- MCDigestIn
  ArchiveOf <- MCArchiveOf
  RepositoryOf <- MCRepositoryOf
  Candidates <- MCCandidates
  Suite <- MCSuite
  Runs <- MCRuns
  Promotions <- MCPromotions
  URIs = {"blob"}
  RecordURI = "blob"
  MaxEdits = 3
  MaxRunning = 2
  p1 = p1
  p2 = p2
SYMMETRY PromotionSymmetry
INVARIANTS
  TypeOK
  ProductionWasTested
  SuccessIsTheRecord
  PromotedResolves
