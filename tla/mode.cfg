SPECIFICATION Spec
CONSTANTS
    HalfRange = 10
    Rollover = FALSE
    Fahrenheit = FALSE
    DryOffsetEnabled = TRUE
    Requests <- ModeRequests
    Statuses <- ModeStatuses
    NoOperation = NoOp
    QueueCapacity = 1
    MaxSteps = 10
    PollWire = 1
    SetterWire = 1
    ResponseTimeout = 1
    OperationTimeout = 8
    MaxPolls = 4
    GenerationSize = 4
    MaxLag = 1
CHECK_DEADLOCK FALSE
INVARIANTS
    SettersSentOnce
    RecoveryIsReadOnly
PROPERTIES
    ConfirmedMeansShown
    TimeoutMeansSilence
    DrySafety
