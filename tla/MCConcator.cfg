\* One concator, two containers.
SPECIFICATION FairSpec
CONSTANTS
    ta = ta
    tb = tb
    ca = ca
    cb = cb
    wa = wa
    wb = wb
    Tag = {ta, tb}
    Identifier = {ca, cb}
    Worker = {wa}
    TagOf <- MCOneTagOf
    Route <- MCOneRoute
    MsgKey <- MCOneKey
    PMsg = {p1, p2}
    NoPMsg = NoPMsg
    MaxLen = 2
    ChanSize = 1
    MaxLine = 3
INVARIANTS TypeOK NoLineLost InOrder 
 
CHECK_DEADLOCK FALSE
