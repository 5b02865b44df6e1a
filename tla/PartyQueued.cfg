SPECIFICATION Spec
CONSTANTS
  p1 = p1
  p2 = p2
  p3 = p3
  i1 = i1
  i2 = i2
  Players = {p1, p2}
  Parties = {i1, i2}
  NoParty = NoParty
  Queues = {q1}
  Teams = {}
  Gamers = {}
  MaxTeamSize = 2
SYMMETRY PartySymmetry
PROPERTY NobodyJoinsQueuedParty
CHECK_DEADLOCK FALSE
