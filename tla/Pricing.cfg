SPECIFICATION Spec
CONSTANTS
    Model = {m1}
    Price = {1, 3}
    Tokens = {0, 1, 5}
    TokensPerUnit = 4
    MaxReplies = 2
INVARIANTS
    SumWithinOneQuantumPerReply
    SnapshotExplainsCost
    CachingOnlySaves
CHECK_DEADLOCK FALSE
