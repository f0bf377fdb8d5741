SPECIFICATION SetpointsSpec
CONSTANTS
    Fahrenheit = TRUE
    DryOffsetEnabled = FALSE
    Drift = 0
    Overrides <- TypedOverrides
    OverrideSteps <- SomeSteps
PROPERTIES
    OfferedIsTaken
