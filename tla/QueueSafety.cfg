SPECIFICATION Spec
CONSTANTS
  Games = {g1, g2}
  Hashes = {h1}
  NoHash = NoHash
  Versions = {v1, v2}
  Workers = {w1, w2}
  NoRow = NoRow
  NoJob = NoJob
  Free = Free
  MaxAttempts = 2
  MaxRequests = 2
  MaxFaults = 1
  FaultKinds = {"crash", "claim", "claimReply", "resultReply", "mark"}
SYMMETRY Symmetry
INVARIANTS
  TypeOK
  AttemptUnique
  OrphanNeedsFault
