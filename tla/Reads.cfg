SPECIFICATION ReadsSpec
CONSTANTS
    Request = {r1, r2}
    SessionId = {s1}
    Model = {m1, m2}
    NoModel = NoModel
    DefaultModel = m1
    MaxMessages = 4
    MaxRestarts = 0
    Faults = {}
    DayLimit = 1
    MaxDay = 1
SYMMETRY RequestSymmetry
INVARIANTS
    ReadsTypeOK
    PageShowsWhatItCounts
    ReportPartsGrow
    DaysAreTheLatest
