CONSTANTS
    Durations <- AllDurations
    Digit = 3
    MaxStarts = 4
SPECIFICATION Spec
PROPERTIES
    EventuallySilent
