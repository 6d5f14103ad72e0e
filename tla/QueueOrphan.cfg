SPECIFICATION FairSpec
CONSTANTS
  Games = {g1}
  Hashes = {h1}
  NoHash = NoHash
  Versions = {v1}
  Workers = {w1}
  NoRow = NoRow
  NoJob = NoJob
  Free = Free
  MaxAttempts = 2
  MaxRequests = 2
  MaxFaults = 1
  FaultKinds = {"crash"}
PROPERTIES
  JobsSettle
