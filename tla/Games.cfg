SPECIFICATION GamesSpec
CONSTANTS
  p1 = p1
  p2 = p2
  g1 = g1
  g2 = g2
  g3 = g3
  ladder = ladder
  host = host
  guest = guest
  Global = global
  NoGame = NoGame
  Players = {p1, p2}
  Boards = {ladder, global}
  PlayersIn <- Duels
  BoardOf <- BoardsPlayed
CHECK_DEADLOCK FALSE
CONSTANTS
  Games = {g1, g2, g3}
  Unratable = {g3}
  Unlisted = {}
  MaxFailures = 1
  MaxLogins = 1
INVARIANT PublishedIsPersisted
PROPERTY LedgerSpec
INVARIANT ShownIsOld
PROPERTY StartingPlayerIsReleased
PROPERTY LostSessionLeaves
PROPERTY AbandonedGameIsRemoved
