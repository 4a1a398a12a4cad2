CONSTANTS
    Session = {s1}
    Worker = {w1}
    NoWorker = NoWorker
    Act = {a1, q1}
    Approval = {a1}
    NoAct = NoAct
    MaxRun = 1
    MaxStep = 2
    MaxItem = 2
    MaxTurn = 2
    MaxGen = 2
    Emits = {"pause", "done2"}
    DuplicateCommands = FALSE
    LateEffects = FALSE
    MaxMade = 2
SPECIFICATION RotationSpec
INVARIANTS ResumeOnlyWhenGranted LiveGeneration WithdrawnGroupsAreDead QueuedWorkIsBoundLive
           OneResponseItem
PROPERTY ClosedGroupsStayClosed
CHECK_DEADLOCK FALSE
