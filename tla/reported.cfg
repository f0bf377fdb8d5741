SPECIFICATION ComponentSpec
CONSTANTS
    HalfRange = 7
    Rollover = FALSE
    Fahrenheit = FALSE
    DryOffsetEnabled = FALSE
    Optimistic = FALSE
    Requests <- MemoryRequests
    Calls <- MemoryCalls
    Automations <- MemoryAutomations
    Supported <- WithoutDry
    Statuses <- MemoryStatuses
    NoOperation = NoOp
    QueueCapacity = 1
    MaxSteps = 10
    PollWire = 1
    SetterWire = 1
    ResponseTimeout = 1
    OperationTimeout = 5
    StaleAfter = 5
    MaxPolls = 3
    GenerationSize = 4
    MaxLag = 1
CHECK_DEADLOCK FALSE
INVARIANTS
    ShownIsPresent
    PendingTargetRemembered
PROPERTIES
    RejectionsAreForCapacity
