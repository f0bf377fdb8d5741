SPECIFICATION WalkSpec
CONSTANTS
    Fahrenheit = FALSE
    DryOffsetEnabled = TRUE
    MaxFrameSize = 128
    Requests <- AllRequests
    Baselines <- AllBaselines
    MaxSteps = 10
CHECK_DEADLOCK FALSE
INVARIANTS
    PlanOwnsStorage
    PlanFlows
    PlanReachesGoal
    OneAxisAtATime
    PacketsFit
    StatusIsReadBack
PROPERTY
    NothingElseChanges
