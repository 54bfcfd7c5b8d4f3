\* One tag, two concators.
SPECIFICATION Spec
CONSTANTS
    ta = ta
    tb = tb
    ca = ca
    cb = cb
    wa = wa
    wb = wb
    Tag = {ta, tb}
    Identifier = {ca, cb}
    Worker = {wa, wb}
    TagOf <- MCOneTagOf
    Route <- MCForkRoute
    MsgKey <- MCOneKey
    PMsg = {p1, p2}
    NoPMsg = NoPMsg
    MaxLen = 3
    ChanSize = 1
    MaxLine = 3
INVARIANT NoLineLost
CHECK_DEADLOCK FALSE
