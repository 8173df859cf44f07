SPECIFICATION FairSpec
CONSTANTS
    SessionId = {s1, s2}
    Reply = {r1, r2, r3}
    MaxGeneration = 2
    MaxDowngrades = 2
    MaxCrashes = 1
INVARIANTS
    TypeOK
    LifetimeLacksOnlyForgotten
    ReturnedTurnsAreForgotten
    ServesOnlyHead
PROPERTIES
    ReportSurvives
    ServiceComesUp
CHECK_DEADLOCK FALSE
