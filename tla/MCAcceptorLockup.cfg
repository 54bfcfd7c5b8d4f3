\* The synchronous worker fills reEnterChan, the asynchronous one waits for room.
SPECIFICATION FairSpec
CONSTANTS
    spring = spring   app = app   spark = spark
    r1 = r1   l1 = l1
    Request = {r1}
    LogPart = {l1}
    MaxRecord = 2
    Tag = {spring, app, spark}
    TagOf <- MCTagOf
    Malformed = {}
    AsyncSize = 1   SyncSize = 1   SyslogSize = 1
    MaxReconnect = 1
    AsyncWorker = {a1}
    SyncWorker = {s1}
    SpringTag = spring   NewTag = app   SparkTag = spark
    Matched = {r1, 2}
    Odd = {}
    Ignored = {}
    Accepted = {app, spark}
    IsThrottle = FALSE
    ReEnterSize = 1   OutSize = 1   SkipSize = 1
    None = None
PROPERTIES AsyncNeverBlocks
CHECK_DEADLOCK FALSE
