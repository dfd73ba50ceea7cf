SPECIFICATION Spec
CONSTANTS
    Users <- TwoUsers
    ImageRegs <- ContrastAndSharpness
    Pictures <- TwoPictures
    Adjusted = {0, 1}
    Wired = {1}
    Modes = {"720P25_2LANES", "1080P25_4LANES"}
    RawRegs = {"14", "f5"}
    Standards = {3, 5}
    NoUser = NoUser
    MaxCalls = 4
    MaxFaults = 1
    Overlap = FALSE
    u1 = u1
    u2 = u2
SYMMETRY UserSymmetry
INVARIANTS
    PictureShown
    ModeInEffect
    ReplyOfItsChannel
PROPERTIES
    ClockChangesWithOutputOff
