SPECIFICATION Spec
CONSTANTS
  p1 = p1
  p2 = p2
  p3 = p3
  i1 = i1
  i2 = i2
  Players = {p1, p2, p3}
  Parties = {i1, i2}
  NoParty = NoParty
  Queues = {q1}
  Teams = {}
  Gamers = {p1}
  MaxTeamSize = 2
SYMMETRY PartySymmetry
INVARIANT MembershipAgrees
INVARIANT OrphanPartyIsClosed
INVARIANT MembersAreInformed
CHECK_DEADLOCK FALSE
INVARIANT SearchersAreQueued
