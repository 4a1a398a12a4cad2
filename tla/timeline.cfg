SPECIFICATION Spec
CONSTANTS
    s1 = s1
    s2 = s2
    t1 = t1
    t2 = t2
    b1 = b1
    b2 = b2
    Step = {s1, s2}
    Turn = {t1, t2}
    Tab = {b1, b2}
    MaxEvents = 5
    Room <- MCRoom
    ReplayPage = 2
    PollPage = 1
    MaxFaults = 2
    MaxDeltas = 2
    MaxRaw = 3
    MaxFailures = 1
    MaxRevision = 2
INVARIANTS ShownOutcomeIsDurable ShownTextIsTheProviders NeverGuesses NothingSkipped
PROPERTIES ImplementsTimelineView 
CHECK_DEADLOCK FALSE
