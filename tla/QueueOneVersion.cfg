SPECIFICATION Spec
CONSTANTS
  Games = {g1, g2}
  Hashes = {h1}
  NoHash = NoHash
  Versions = {v1}
  Workers = {w1, w2}
  NoRow = NoRow
  NoJob = NoJob
  Free = Free
  MaxAttempts = 2
  MaxRequests = 2
  MaxFaults = 2
  FaultKinds = {"crash", "claim", "claimReply", "mark"}
SYMMETRY Symmetry
INVARIANTS
  SoleRunner
  AttemptsBounded
  ResultOfRequest
PROPERTIES
  RefinesLifecycle
