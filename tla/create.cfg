CONSTANTS
    Session = {s1}
    Worker = {w1, w2}
    NoWorker = NoWorker
    Act = {}
    Approval = {}
    NoAct = NoAct
    MaxRun = 2
    MaxStep = 2
    MaxItem = 2
    MaxTurn = 2
    MaxGen = 1
    Emits = {"delta", "done", "error"}
    DuplicateCommands = FALSE
    LateEffects = TRUE
    MaxMade = 2
SPECIFICATION CreateSpec
INVARIANTS NoSecondRemoteTurn OneRemoteActive StartedInOrder BoundTurnsExist
PROPERTY FinishedTurnsStayFinished
SYMMETRY WorkerSymmetry
CHECK_DEADLOCK FALSE
