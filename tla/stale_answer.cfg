SPECIFICATION Spec
CONSTANTS
    s1 = s1
    s2 = s2
    r1 = r1
    r2 = r2
    r3 = r3
    k1 = k1
    k2 = k2
    b1 = b1
    b2 = b2
    c1 = c1
    c2 = c2
    x1 = x1
    x2 = x2
    x3 = x3
    None = None
    Session = {s1, s2}
    GrantCall = {r1, r2, r3}
    Key = {k1, k2}
    Broker = {b1, b2}
    Call = {c1, c2}
    Click = {x1, x2, x3}
    MaxVersion = 2
    MaxGen = 2
    MaxReads = 1
    Mixes <- StaleMixes
PROPERTIES StaleGenerationCannotEnqueue
CHECK_DEADLOCK FALSE
