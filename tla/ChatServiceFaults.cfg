SPECIFICATION Spec
CONSTANTS
    Request = {r1, r2, r3}
    SessionId = {s1}
    Model = {m1}
    NoModel = NoModel
    DefaultModel = m1
    MaxMessages = 2
    MaxRestarts = 1
    Faults = {"database", "restart"}
SYMMETRY RequestSymmetry
INVARIANTS
    TypeOK
    LogIsASequence
    ReplyFollowsQuestion
    LifetimeExact
    ActiveTotalCovers
    GenerationsInOrder
    OutcomeTruthful
PROPERTIES
    QuestionsJoinActiveGeneration
    PromiseKept
