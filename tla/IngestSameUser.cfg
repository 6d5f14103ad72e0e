SPECIFICATION Spec
CONSTANTS
  ann = ann
  bob = bob
  eve = eve
  g1 = g1
  g2 = g2
  t1 = t1
  t2 = t2
  t3 = t3
  t4 = t4
  Games = {g1}
  Users = {ann, bob, eve}
  Players <- OneGamePlayers
  Requests = {t1, t2}
  Inputs <- UploadsOnly
  NoInput = NoInput
  NoGame = NoGame
  MaxFaults = 0
SYMMETRY Symmetry
PROPERTIES
  SameUserRejected
CHECK_DEADLOCK FALSE
