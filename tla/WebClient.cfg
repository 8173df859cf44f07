SPECIFICATION WebSpec
CONSTANTS
    Request = {r1, r2}
    SessionId = {s1, s2}
    Click = {k1, k2}
    NoSession = NoSession
    Stale = Stale
    MaxActs = 2
SYMMETRY WebSymmetry
INVARIANTS
    WebTypeOK
    ThreadIsADialogue
    QuietPageIsCurrent
    ThinkingMeansWaiting
    ButtonMeansWaiting
CHECK_DEADLOCK FALSE
