\* One message of one tag, a failing read or write and a crash.
SPECIFICATION FairSpec
CONSTANTS
    b1 = b1
    b2 = b2
    b3 = b3
    ta = ta
    tb = tb
    Body = {b1}
    Tag = {ta}
    TagOf <- MCTagOfOne
    None = None
    MaxRotateID = 4
    DumpChanSize = 1
    OutChanSize = 1
    DataChanSize = 1
    CommitChanSize = 1
    IdChanSize = 1
    OpenSize = 1
    MaxFault = 1
    MaxCrash = 1
PROPERTIES  CommittedLeavesDisk
CHECK_DEADLOCK FALSE
