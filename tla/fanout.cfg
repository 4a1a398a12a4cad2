CONSTANTS
    Session = {s1, s2}
    Worker = {w1}
    NoWorker = NoWorker
    Act = {a1}
    Approval = {a1}
    NoAct = NoAct
    MaxRun = 1
    MaxStep = 2
    MaxItem = 2
    MaxTurn = 2
    MaxGen = 1
    Emits = {"pause", "done", "done2"}
    DuplicateCommands = FALSE
    LateEffects = TRUE
    MaxMade = 1
SPECIFICATION FanoutSpec
INVARIANTS TypeInvariant  OnlyCorrectionsOutlastRuns
CHECK_DEADLOCK FALSE
