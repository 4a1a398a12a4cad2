CONSTANTS
    Session = {s1}
    Worker = {w1, w2}
    NoWorker = NoWorker
    Act = {a1, q1}
    Approval = {a1}
    NoAct = NoAct
    MaxRun = 1
    MaxStep = 1
    MaxItem = 2
    MaxTurn = 1
    MaxGen = 1
    Emits = {"pause", "done2"}
    DuplicateCommands = FALSE
    LateEffects = FALSE
    MaxMade = 2
SPECIFICATION ProgressSpec
INVARIANT OneResponseTurn
PROPERTIES AttemptsSettle ResumesSettle
CHECK_DEADLOCK FALSE
