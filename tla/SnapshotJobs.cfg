SPECIFICATION FairSpec
CONSTANTS
  rankingJob = rankingJob
  analyzerJob = analyzerJob
  migrationJob = migrationJob
  ann = ann
  bob = bob
  Jobs = {rankingJob, migrationJob, analyzerJob}
  Plan <- JobPlans
  Daemons = {rankingJob, analyzerJob}
  Readers = {r1}
  Keys = {ann, bob}
  Content <- VersionKeys
  Free = Free
  NoTable = NoTable
  MaxVersion = 2
  MaxFaults = 1
INVARIANTS
  TypeOK
  WholeSnapshots
  ReadersMoveForward
PROPERTIES
  SnapshotsCatchUp
  RefinesRegister
