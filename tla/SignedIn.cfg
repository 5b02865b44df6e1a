SPECIFICATION LobbySpec
CONSTANTS
    c1 = c1
    c2 = c2
    a1 = a1
    Conns = {c1, c2}
    Accounts = {a1}
    AccountsOf <- MCAccountsOf
    Stuck = {}
    NoAccount = NoAccount
    NoConn = NoConn
CHECK_DEADLOCK FALSE
INVARIANTS AuthenticatedIsManaged
