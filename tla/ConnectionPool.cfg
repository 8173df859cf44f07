SPECIFICATION PoolFairSpec
CONSTANTS
    Request = {r1, r2, r3}
    SessionId = {s1}
    Model = {m1}
    NoModel = NoModel
    DefaultModel = m1
    MaxMessages = 2
    MaxRestarts = 0
    Faults = {}
    PoolSizes = {1, 2}
PROPERTIES
    StatementsEnd
