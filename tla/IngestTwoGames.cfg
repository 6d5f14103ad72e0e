SPECIFICATION FairSpec
CONSTANTS
  ann = ann
  bob = bob
  eve = eve
  g1 = g1
  g2 = g2
  t1 = t1
  t2 = t2
  t3 = t3
  t4 = t4
  Games = {g1, g2}
  Users = {ann, bob}
  Players <- TwoGamesPlayers
  Requests = {t1, t2, t3}
  Inputs <- TwoGamesInputs
  NoInput = NoInput
  NoGame = NoGame
  MaxFaults = 0
INVARIANTS
  PlayersAreUsers
PROPERTIES
  EveryRequestAnswered
CHECK_DEADLOCK FALSE
