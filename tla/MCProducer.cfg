\* Two pointers, two forks, two senders.  No symmetry: liveness is checked too.
CONSTANTS
    Msg = {m1, m2}
    Fork = {f1, f2}
    both = both   one = one   nobody = nobody
    s1 = s1   s2 = s2
    NoSender = NoSender   None = None
    InChanSize = 1   DiscardChanSize = 1   CommitChanSize = 1   SenderFork = 1
    Tag <- MCTag
    Sender <- MCSender
    Supports <- MCSupports
    DiscardWhenBlocked = {s2}
SPECIFICATION FairSpec
INVARIANTS TypeOK IInv  CollectorKnowsTag CommitOnlyAfterAllSent
PROPERTIES RecycledOnlyAfterFailure ImplementsFanOut 
