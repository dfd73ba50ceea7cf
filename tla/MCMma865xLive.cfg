SPECIFICATION FairSpec
CONSTANTS
    Writers <- OneWriter
    Delays <- NoDelay
    HasLdo = FALSE
    I2cMayFail = TRUE
    NoOwner = NoOwner
    w1 = w1
    w2 = w2
PROPERTIES
    CallsEnd
    ReportsFlow
