SPECIFICATION MCSpec
CONSTANTS
    X = 409
    Y = 256
    Other = Other
    CharMod = 16
    ShortMod = 256
    Space = Space
    BufferLen = 8
    CommandLines <- MCLines
    Levels <- MCLevels
    Lengths <- MCLengths
    Params = {0, 1, 2, 66}
INVARIANTS
    AcceptsWhatFits
    SentAsTyped
    ProcWritesAsTyped
    AverageRight
    ReportRight
    FeaturesIndependent
    SwitchesAsAsked
    ConfigDistinct
CHECK_DEADLOCK FALSE
