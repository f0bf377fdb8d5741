SPECIFICATION Spec
CONSTANTS
    HalfRange = 10
    Rollover = FALSE
    Fahrenheit = FALSE
    DryOffsetEnabled = FALSE
    Requests <- QueueRequests
    Statuses <- QueueStatuses
    NoOperation = NoOp
    QueueCapacity = 2
    MaxSteps = 10
    PollWire = 1
    SetterWire = 2
    ResponseTimeout = 1
    OperationTimeout = 8
    MaxPolls = 4
    GenerationSize = 5
    MaxLag = 1
CHECK_DEADLOCK FALSE
INVARIANTS
    TypeOK
    BoundedLifetime
    AcceptanceOrder
    ExpiryIsAPrefix
PROPERTIES
    OneOutcome
    ImplementsService
    IdleServes
    WriteFailedMeansRefused
