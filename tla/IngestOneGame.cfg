SPECIFICATION Spec
CONSTANTS
  ann = ann
  bob = bob
  eve = eve
  g1 = g1
  g2 = g2
  t1 = t1
  t2 = t2
  t3 = t3
  t4 = t4
  Games = {g1}
  Users = {ann, bob, eve}
  Players <- OneGamePlayers
  Requests = {t1, t2, t3, t4}
  Inputs <- OneGameInputs
  NoInput = NoInput
  NoGame = NoGame
  MaxFaults = 1
SYMMETRY Symmetry
INVARIANTS
  TypeOK
  CountMatchesFiles
  NoStrayRows
  AcknowledgedIsRecorded
  SomePlayerUploaded
  LocksLeakByFaultOnly
PROPERTIES
  RefinesArchive
CHECK_DEADLOCK FALSE
