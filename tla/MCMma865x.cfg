SPECIFICATION Spec
CONSTANTS
    Writers <- MCWriters
    Delays <- AnyDelay
    HasLdo = TRUE
    I2cMayFail = TRUE
    NoOwner = NoOwner
    w1 = w1
    w2 = w2
INVARIANTS
    TypeOK
    ConfigInStandby
    SuspendedTimerOff
    ActivePolled
    RemoveQuiesces
    FlagMatchesChip
SYMMETRY Symmetry
