SPECIFICATION Spec
CONSTANTS
    HalfRange = 10
    Rollover = TRUE
    Fahrenheit = FALSE
    DryOffsetEnabled = FALSE
    Requests <- LiveRequests
    Statuses <- LiveStatuses
    NoOperation = NoOp
    QueueCapacity = 1
    MaxSteps = 10
    PollWire = 1
    SetterWire = 1
    ResponseTimeout = 1
    OperationTimeout = 8
    MaxPolls = 4
    GenerationSize = 4
    MaxLag = 1
CHECK_DEADLOCK FALSE
INVARIANTS
    DrainAllowance
