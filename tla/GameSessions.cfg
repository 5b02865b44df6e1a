CONSTANTS
    h1 = h1
    h2 = h2
    g1 = g1
    Sessions = {h1, h2, g1}
    Players = {h1, g1}
    PlayerOf <- MCPlayerOf
    HostSession = h1
    Late = {h1}
    MaxPublished = 2
    MaxFaults = 1
SPECIFICATION Spec
CHECK_DEADLOCK FALSE
INVARIANT LobbyHasHost
INVARIANT FinishIsExclusive
INVARIANT ConnectedPlayersAreBusy
INVARIANT EndedIsReported
