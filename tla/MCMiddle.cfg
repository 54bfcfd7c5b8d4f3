\* Two workers in each stage, four messages, room for one or two in a channel.
SPECIFICATION FairSpec
CONSTANTS
    Worker = {w1, w2}   ParserFork = {"p1", "p2"}   PostFork = {f1, f2}
    NMsg = 4
    Tag = {"app", "es"}
    TagOf <- MCTagOf
    Supported = {"app"}
    ForkOf <- MCForkOf
    Unparsable = {3}
    DispatchTag = {"es"}
    EmptyKey = {}
    ReTagMap <- MCReTagMap
    ForwardTag = "app"   NewTag = "es"
    BigDataTag = {"es"}   BadTime = {4}
    Chains <- MCChains
    InSize = 2   PipeSize = 2   OutSize = 1   CommitSize = 1   ProduceSize = 1
    Direct = Direct   None = None
INVARIANTS TypeOK OnePlace CounterExists KeyOrder
 
CHECK_DEADLOCK FALSE
