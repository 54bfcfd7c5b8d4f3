\* A worker of each kind; reEnterChan has room for all that is retagged (r1, and 2 twice).
SPECIFICATION FairSpec
CONSTANTS
    spring = spring   app = app   spark = spark
    r1 = r1   l1 = l1
    Request = {r1}
    LogPart = {l1}
    MaxRecord = 3
    Tag = {spring, app, spark}
    TagOf <- MCTagOf
    Malformed = {1}
    AsyncSize = 1   SyncSize = 1   SyslogSize = 1
    MaxReconnect = 1
    AsyncWorker = {a1}
    SyncWorker = {s1}
    SpringTag = spring   NewTag = app   SparkTag = spark
    Matched = {r1, 2}
    Odd = {}
    Ignored = {l1}
    Accepted = {app, spark}
    IsThrottle = TRUE
    ReEnterSize = 3   OutSize = 1   SkipSize = 1
    None = None
INVARIANTS TypeOK NothingVanishes SyncWaits
PROPERTIES AsyncNeverBlocks AllSettle
CHECK_DEADLOCK FALSE
