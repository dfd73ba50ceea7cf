SPECIFICATION Spec
CONSTANTS
    GainVals <- Gains
    ExpVals <- Exposures
    MaxFaults = 1
INVARIANTS
    GainRealised
    ExposureRealised
