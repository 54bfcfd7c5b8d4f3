\* One crash, and ids given again after it.
SPECIFICATION Spec
CONSTANTS
    b1 = b1
    b2 = b2
    b3 = b3
    ta = ta
    tb = tb
    Body = {b1, b2}
    Tag = {ta}
    TagOf <- MCTagOfOne
    None = None
    MaxRotateID = 4
    DumpChanSize = 1
    OutChanSize = 1
    DataChanSize = 1
    CommitChanSize = 1
    IdChanSize = 1
    OpenSize = 2
    MaxFault = 0
    MaxCrash = 1
INVARIANT ReachedIsKept
CHECK_DEADLOCK FALSE
