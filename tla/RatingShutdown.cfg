SPECIFICATION Spec
CONSTANTS
  p1 = p1
  p2 = p2
  g1 = g1
  g2 = g2
  g3 = g3
  ladder = ladder
  Global = global
  NoGame = NoGame
  Players = {p1, p2}
  Boards = {ladder, global}
  PlayersIn <- Duels
  BoardOf <- BoardsPlayed
CHECK_DEADLOCK FALSE
CONSTANTS
  Games = {g1, g2}
  Unratable = {}
  Unlisted = {}
  MaxFailures = 0
  MaxLogins = 0
INVARIANT ShutdownFinishesRating
