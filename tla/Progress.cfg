SPECIFICATION ProgressSpec
CONSTANTS
    Host = h
    Guests = {g1, g2}
    p1 = p1
    p2 = p2
    q1 = q1
    i1 = i1
    i2 = i2
    r1 = r1
    r2 = r2
    r3 = r3
    ladder = ladder
    NoGame = NoGame
    NoSearch = NoSearch
    NoQueue = NoQueue
    N = 4
    Mean <- MCMean
    NumToCheck = 2
    Kind <- MCKind
    SelfQuality <- MCSelfQuality
    Qualities = {30, 65, 80}
    NoMatch = 0
    MaxPops = 6
    Conns = {c1, c2}
    Accounts = {a1}
    AccountsOf <- MCAccountsOf
    Stuck = {c2}
    NoAccount = NoAccount
    NoConn = NoConn
    Games = {m1, m2}
    Reports = {1, 2}
    MaxConnections = 2
CHECK_DEADLOCK FALSE
INVARIANTS MatchesArePairs NoGhost ReadyIsUsable
           AwaitedIsPosted
PROPERTIES CancelledStaysDown BlameIsJust LaunchedCanQueueAgain
           DoneLeavesQueue CompatibleAreMatched
           UnauthenticatedEnds ShutdownEndsSessions AcceptedIsSettled
           RatingStops MainEnds
