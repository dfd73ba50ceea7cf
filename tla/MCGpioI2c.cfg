SPECIFICATION Spec
CONSTANTS
    Tasks <- Two
    Overlap = FALSE
    NoRequest = NoRequest
    Kinds <- AllKinds
    Devs <- BothAddrs
    Addrs <- ExampleRegs
    Datas <- ExampleValues
    DevAddr = 96
    DevByte = 90
    t1 = t1
    t2 = t2
INVARIANTS
    FrameOnWire
    BusDiscipline
    ReadReturnsDeviceByte
