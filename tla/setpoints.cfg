SPECIFICATION SetpointsSpec
CONSTANTS
    Fahrenheit = TRUE
    DryOffsetEnabled = FALSE
    Drift = 9
    Overrides <- ExactOverrides
    OverrideSteps <- SomeSteps
PROPERTIES
    OfferedIsTaken
    RepeatKeepsTarget
    PressIsWhole
