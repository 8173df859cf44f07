SPECIFICATION Spec
CONSTANTS
    Request = {r1, r2, r3, r4}
    SessionId = {s1}
    Model = {m1}
    NoModel = NoModel
    DefaultModel = m1
    MaxMessages = 4
    MaxRestarts = 0
    Faults = {}
    ContextMaxMessages = 2
    Prompted = {s1}
SYMMETRY RequestSymmetry
INVARIANTS
    HistoryIsDialogue
    GenerationBounded
    ContextIsWindow
    RepliesKeepTheirQuestion
