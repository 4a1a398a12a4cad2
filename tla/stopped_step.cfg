CONSTANTS
    Session = {s1}
    Worker = {w1}
    NoWorker = NoWorker
    Act = {}
    Approval = {}
    NoAct = NoAct
    MaxRun = 1
    MaxStep = 1
    MaxItem = 1
    MaxTurn = 1
    MaxGen = 1
    Emits = {"done"}
    DuplicateCommands = FALSE
    LateEffects = FALSE
    MaxMade = 1
SPECIFICATION FanoutSpec
PROPERTY NewTurnsWaitForStops
CHECK_DEADLOCK FALSE
