SPECIFICATION Spec
CONSTANTS
    p1 = p1
    p2 = p2
    p3 = p3
    p4 = p4
    p5 = p5
    Players <- MCPlayers
    ArmyOf <- MCArmyOf
    Setups <- MCSetups
    Reports <- MCReports
    NoTags = "none"
    MaxReports = 7
    MaxCopies = 1
    MaxLate = 1
SYMMETRY ReporterSymmetry
CHECK_DEADLOCK FALSE
INVARIANTS CacheIsFresh ValidIsRatable
PROPERTIES DecisionIsStable WinnerHasTheVotes PersistedIsPublished
