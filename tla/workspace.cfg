SPECIFICATION Spec
CONSTANTS
    c1 = c1
    w1 = w1
    w2 = w2
    r1 = r1
    r2 = r2
    r3 = r3
    k1 = k1
    k2 = k2
    NoRequest = NoRequest
    Old = Old
    Channel = {c1}
    Coworker = {w1, w2}
    Request = {r1, r2, r3}
    Staff = {w1}
    Member = {w1}
    Key = {k1, k2}
    MaxRev = 5
    Goal = {"in_progress", "blocked"}
    Expected = {1, 2}
    Mixes <- MCMixes
INVARIANTS OneEffectPerKey AnswersAreTrue MembershipMatchesConfig OneProviderSession
PROPERTIES ArchivedIsFrozen NoLostTaskUpdate
CHECK_DEADLOCK FALSE
SYMMETRY IdSymmetry
