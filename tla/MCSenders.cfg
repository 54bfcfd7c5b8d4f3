\* All kinds of sender, two messages, batches of two.
SPECIFICATION FairSpec
CONSTANTS
    f1 = f1   f2 = f2
    Msg = {m1, m2}
    Tag = {ta, tb}
    Bad = {tb}
    Kinds = {"kafka", "es", "stdout", "fluentd"}
    Fork = {f1, f2}
    ForkOf <- MCForkOf
    Wrap = {w1, w2}
    None = None
    BatchSize = 2
    MaxRetry = 1
    InChanSize = 1
    ReportSize = 1
    DiscardWhenBlocked = FALSE
    IsCommit = TRUE
    NetworkFails = TRUE
INVARIANTS TypeOK HeldOnce GoodMeansSent 
PROPERTIES ImplementsContract EveryMsgIsReported
