SPECIFICATION Spec
CONSTANTS
    Request = {r1, r2}
    SessionId = {s1}
    Model = {m1}
    NoModel = NoModel
    DefaultModel = m1
    MaxMessages = 2
    MaxRestarts = 0
    Faults = {}
INVARIANTS
    ExchangesDoNotOverlap
