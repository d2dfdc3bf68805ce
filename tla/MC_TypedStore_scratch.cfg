CONSTANTS
    ta = ta
    tb = tb
    o1 = o1
    o2 = o2
    Tables = {ta, tb}
    OptValues = {o1, o2}
    NoOverride = NoOverride
    Procs = {p1, p2}
    Threads = {w1, w2}
    Keys = {1, 2}
    ScratchDirs = {d1, d2}
    UnknownName = UnknownName
    OverrideInputs <- MCOverrideInputs
    PageSizes <- MCPageSizes
    PageNumbers <- MCPageNumbers
    U16Bits = 2
    UsizeBits = 3
    OverflowChecks = TRUE
    MaxWrites = 1
    NoProc = NoProc
    NoDir = NoDir
SPECIFICATION Spec
SYMMETRY MCSymmetry
CONSTRAINT InFlightBound
INVARIANT ScratchDirsReleased
