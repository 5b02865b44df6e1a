SPECIFICATION RulesSpec
CONSTANTS
  p1 = p1
  p2 = p2
  p3 = p3
  p4 = p4
  q1 = q1
  q2 = q2
  i1 = i1
  i2 = i2
  i3 = i3
  NoSearch = NoSearch
  NoQueue = NoQueue
  Players = {p1, p2, p3, p4}
  Queues = {q1, q2}
  Teams <- OneParty
  Gamers = {}
  TeamSize <- TeamSizes
  Ids = {i1, i2, i3}
  Searchers = {1, 2}
  Parties <- Asking
  Threshold = 2
  FirstBan = 1
  LongBan = 3
  ResetTime = 4
  MaxTime = 7
  MaxCount = 3
  Vetoers = {1, 2}
  Maps = {1, 2, 3}
  NumQueues = 2
  PlayersPerTeam = 1
  Configs <- Pools
  Wishes <- MCWishes
  MaxUpdates = 1
SYMMETRY PartySymmetry
CHECK_DEADLOCK FALSE
INVARIANTS RegisteredIsPending MinimumMapsRemain
PROPERTIES LadderSpec NoMatchAfterShutdown
           EvenSplitIsFound MatchFindsMap BansAreServed
