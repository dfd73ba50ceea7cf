SPECIFICATION Spec
CONSTANTS
    Contexts <- One
    Pages <- BothPages
    Addrs = {1, 2}
    Bits = {0, 1}
    FailAt <- BeforeRestore
    NoRequest = NoRequest
    NoPage = NoPage
    c1 = c1
INVARIANTS
    PageRestored
PROPERTIES
    Implements
