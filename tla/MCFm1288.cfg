CONSTANTS
    c1 = c1
    c2 = c2
    r1 = r1
    r2 = r2
    Callers = {c1, c2}
    Regs = {r1, r2}
    Bytes = {0, 1}
    Zero = 0
    Written <- MCWritten
    Table <- MCTable
    Tries = 2
    MaxProbes = 2
SPECIFICATION Spec
INVARIANTS
    ReadReturnsHeld
    TableInEffect
PROPERTIES
    CallsEnd
CHECK_DEADLOCK FALSE
