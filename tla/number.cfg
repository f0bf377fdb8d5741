SPECIFICATION ComponentSpec
CONSTANTS
    HalfRange = 7
    Rollover = FALSE
    Fahrenheit = FALSE
    DryOffsetEnabled = TRUE
    Optimistic = TRUE
    Requests <- NumberCalls
    Calls <- NumberCalls
    Automations <- NoCalls
    Supported <- EveryControl
    Statuses <- NumberStatuses
    NoOperation = NoOp
    QueueCapacity = 1
    MaxSteps = 10
    PollWire = 1
    SetterWire = 1
    ResponseTimeout = 1
    OperationTimeout = 5
    StaleAfter = 5
    MaxPolls = 3
    GenerationSize = 3
    MaxLag = 1
CHECK_DEADLOCK FALSE
INVARIANTS
    ComponentTypeOK
    NumberIsFeedback
    ShownIsPresent
