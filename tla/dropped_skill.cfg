SPECIFICATION Spec
CONSTANTS
    k1 = k1
    k2 = k2
    t1 = t1
    t2 = t2
    r1 = r1
    r2 = r2
    r3 = r3
    s1 = s1
    s2 = s2
    p1 = p1
    p2 = p2
    c1 = c1
    c2 = c2
    c3 = c3
    n1 = n1
    n2 = n2
    x1 = x1
    x2 = x2
    h1 = h1
    h2 = h2
    None = None
    Parts = {"skills"}
    Skill = {k1, k2}
    Tool = {t1}
    Required <- MCRequired
    SkillCall = {r1, r2, r3}
    Seat = {s1}
    Scripts <- DroppedScripts
    MaxTries = 2
    ConnCall = {c1, c2, c3}
    Person = {p1, p2}
    ConnKey = {n1, n2}
    ToolCall = {r1, r2, r3}
    ArtifactId = {x1, x2}
    Content = {h1, h2}
    ArtifactCall = {r1, r2, r3}
    FromWorker = {r1, r2}
    Turn = {t1, t2}
    ToolId = {x1, x2}
    Sandboxed = {x1}
    MaxToolCalls = 1
    MaxTokens = 1
    MaxWatches = 3
    RCoworker = {r1, r2, r3}
    Handle = {h1, h2}
    Team = Team
    Stranger = Stranger
    MaxRecipients = 2
    MaxMentions = 3
INVARIANT PinnedSkillsAreComplete
CHECK_DEADLOCK FALSE
