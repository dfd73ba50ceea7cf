SPECIFICATION Spec
CONSTANTS
    Users <- TwoUsers
    N = 2
    Mipi = 64
    Regs = {"brightness", "sharpness"}
    ImageRegs <- FirstAndLast
    Images = {"dark", "bright"}
    Modes = {"720p", "1080p"}
    FirstMode = "720p"
    NoUser = NoUser
    MayFail = TRUE
    Overlap = FALSE
    u1 = u1
    u2 = u2
SYMMETRY UserSymmetry
INVARIANTS
    ImageWhole
    VlossOfItsChannel
    ChannelIdsDistinct
    ModeWhole
