------------------------------- MODULE Journal -------------------------------
(***************************************************************************)
(* The journal of go-fluentd: internal/controller/journal.go, with the id   *)
(* counter of internal/controller/acceptor.go that it seeds.                *)
(*                                                                         *)
(* A message that reaches the dumper is appended to the data file of its    *)
(* tag and passed on; when the senders are done with it its id comes back   *)
(* and is appended to the ids file of the tag.  Files are rotated, and the  *)
(* legacy loader puts every message of a rotated file whose id is not       *)
(* committed through the dumper again, then drops the file.                 *)
(*                                                                         *)
(* The files are go-journal's, an external library: a data file is a set of *)
(* messages, the ids are a set of ids, WriteData and WriteId may fail,      *)
(* LoadLegacyBuf returns the uncommitted messages of the rotated file and   *)
(* then io.EOF, and what was written survives a crash.  The rest of the     *)
(* pipeline, from the dispatcher to the producer, is one environment that   *)
(* consumes a message (sends it, or filters it out on purpose) or drops it,  *)
(* and commits what it consumed.                                            *)
(***************************************************************************)
EXTENDS Integers, Sequences, FiniteSets, Functions

CONSTANTS
    Body,           \* what clients send: the payload of a message
    Tag, TagOf,     \* [Body -> Tag], after the acceptor filters
    None,
    MaxRotateID,    \* ids are 0 .. MaxRotateID - 1
    DumpChanSize, OutChanSize, DataChanSize, CommitChanSize, IdChanSize,
    OpenSize,       \* bound on the messages consumed and not yet committed
    MaxFault,       \* bound on the reads and writes of go-journal that fail
    MaxCrash        \* bound on the crashes of a behaviour

ASSUME TagAssumption == TagOf \in [Body -> Tag]

ASSUME SizeAssumption ==
    /\ {DumpChanSize, OutChanSize, DataChanSize, CommitChanSize, IdChanSize,
        OpenSize, MaxRotateID} \subseteq Nat \ {0}
    /\ {MaxCrash, MaxFault} \subseteq Nat

Id == 0 .. MaxRotateID - 1

(* A FluentMsg, as far as the journal looks at it; its tag is TagOf[body].  *)
Message == [id : Id, body : Body]
TagOfMsg(m) == TagOf[m.body]

ASSUME NoneAssumption == None \notin Message

(* What the senders hand back: msg.ID with msg.ExtIds, and msg.Tag.         *)
Commit == [tag : Tag, ids : SUBSET Id]

VARIABLES
    nextId,             \* the acceptor's counter
    received,           \* bodies the receivers have taken
    dumpChan, skipDumpChan, outChan,
    dumper,             \* message the dumper goroutine holds
    creating,           \* who found no channel and goes for jjLock
    runners,            \* tags with a runner: keys of tag2JMap
    dataChan, writer,   \* per tag: inbound channel and held message
    data, legacy, ids,  \* per tag: current file, rotated files, committed ids
    loading, unread,    \* tags whose loader runs, what it has still to read
    open,               \* consumed messages waiting to be committed
    commitChan, committer, idChan,
    crashes, faults,
    \* history
    idOf,               \* the id each body was given
    journaled,          \* bodies once written into a data file
    consumed,           \* bodies sent, or filtered out
    givenUp             \* bodies let through without a copy, thrown away,
                        \* not written, or in no file when the program died

msgVars    == <<nextId, received, idOf>>
dumpVars   == <<dumpChan, dumper>>
runnerVars == <<runners, creating>>
writerVars == <<dataChan, writer, journaled>>
fileVars   == <<data, legacy>>
loadVars   == <<loading, unread>>
commitVars == <<commitChan, committer, idChan>>
downVars   == <<open, consumed>>
lossVars   == <<crashes, faults, givenUp>>
vars == <<msgVars, dumpVars, writerVars, fileVars, loadVars, commitVars,
          downVars, lossVars, skipDumpChan, outChan, runnerVars, ids>>

(* Types: bounded channels, files of the tags, and what each goroutine holds. *)
TypeOK ==
    /\ nextId \in Id /\ idOf \in [Body -> Id \cup {None}]
    /\ dumpChan \in Seq(Message) /\ Len(dumpChan) <= DumpChanSize
    /\ skipDumpChan \in Seq(Message)
    /\ outChan \in Seq(Message) /\ Len(outChan) <= OutChanSize
    /\ dumper \in Message \cup {None}
    /\ creating \subseteq {"dumper", "committer"}
    /\ runners \subseteq Tag /\ loading \subseteq runners
    /\ dataChan \in [Tag -> Seq(Message)]
    /\ \A t \in Tag : Len(dataChan[t]) <= DataChanSize
    /\ writer \in [Tag -> Message \cup {None}]
    /\ data \in [Tag -> SUBSET Message] /\ legacy \in [Tag -> SUBSET Message]
    /\ unread \in [Tag -> SUBSET Message] /\ ids \in [Tag -> SUBSET Id]
    /\ open \subseteq Message
    /\ commitChan \in Seq(Commit) /\ Len(commitChan) <= CommitChanSize
    /\ committer \in Commit \cup {None}
    /\ idChan \in [Tag -> Seq(Commit)]
    /\ \A t \in Tag : Len(idChan[t]) <= IdChanSize
    /\ crashes \in 0 .. MaxCrash /\ faults \in 0 .. MaxFault
    /\ \A S \in {received, journaled, consumed, givenUp} : S \subseteq Body

Init ==
    /\ nextId = 1 % MaxRotateID
    /\ received = {} /\ idOf = [b \in Body |-> None]
    /\ dumpChan = <<>> /\ skipDumpChan = <<>> /\ outChan = <<>>
    /\ dumper = None /\ runners = {} /\ creating = {}
    /\ dataChan = [t \in Tag |-> <<>>] /\ writer = [t \in Tag |-> None]
    /\ data = [t \in Tag |-> {}] /\ legacy = [t \in Tag |-> {}]
    /\ ids = [t \in Tag |-> {}]
    /\ loading = {} /\ unread = [t \in Tag |-> {}]
    /\ open = {}
    /\ commitChan = <<>> /\ committer = None /\ idChan = [t \in Tag |-> <<>>]
    /\ crashes = 0 /\ faults = 0
    /\ journaled = {} /\ consumed = {} /\ givenUp = {}

-----------------------------------------------------------------------------
(* A read or write of go-journal succeeds, or fails.                        *)
Try(ok) == /\ ok \/ faults < MaxFault
           /\ faults' = IF ok THEN faults ELSE faults + 1

(* A receiver takes a message, gives it the next id, and the acceptor       *)
(* pipeline puts it into dumpChan, waiting for room, or, an asynchronous    *)
(* one when dumpChan is full, into skipDumpChan.                            *)
NewMsg(b) ==
    /\ b \notin received
    /\ received' = received \cup {b}
    /\ idOf' = [idOf EXCEPT ![b] = nextId]
    /\ nextId' = (nextId + 1) % MaxRotateID

Receive(b) ==
    /\ NewMsg(b)
    /\ Len(dumpChan) < DumpChanSize
    /\ dumpChan' = Append(dumpChan, [id |-> nextId, body |-> b])
    /\ UNCHANGED <<dumper, writerVars, fileVars, loadVars,
                   commitVars, downVars, lossVars, skipDumpChan, outChan,
                   runnerVars, ids>>

ReceiveSkip(b) ==
    /\ NewMsg(b)
    /\ Len(dumpChan) = DumpChanSize
    /\ skipDumpChan = <<>>
    /\ skipDumpChan' = <<[id |-> nextId, body |-> b]>>
    /\ givenUp' = givenUp \cup {b}
    /\ UNCHANGED <<dumpVars, writerVars, fileVars, loadVars, commitVars,
                   downVars, crashes, faults, outChan, runnerVars, ids>>

(* Slip: no waiting for room in outChan.                                    *)
SkipDumpNoWait ==
    /\ skipDumpChan # <<>>
    /\ outChan' = Append(outChan, Head(skipDumpChan))
    /\ skipDumpChan' = Tail(skipDumpChan)
    /\ UNCHANGED <<msgVars, dumpVars, writerVars, fileVars, loadVars,
                   commitVars, downVars, lossVars, runnerVars, ids>>

(* The goroutine of skipDumpChan, blocking on outChan.                      *)
SkipDump ==
    /\ skipDumpChan # <<>>
    /\ Len(outChan) < OutChanSize
    /\ outChan' = Append(outChan, Head(skipDumpChan))
    /\ skipDumpChan' = Tail(skipDumpChan)
    /\ UNCHANGED <<msgVars, dumpVars, writerVars, fileVars, loadVars,
                   commitVars, downVars, lossVars, runnerVars, ids>>

-----------------------------------------------------------------------------
(* The dumper of DumpMsgFlow.                                               *)
DumperRecv ==
    /\ dumper = None
    /\ dumpChan # <<>>
    /\ dumper' = Head(dumpChan)
    /\ dumpChan' = Tail(dumpChan)
    /\ UNCHANGED <<msgVars, writerVars, fileVars, loadVars,
                   commitVars, downVars, lossVars, skipDumpChan, outChan,
                   runnerVars, ids>>

(* createJournalRunner.  Whoever finds no channel for the tag, dumper or    *)
(* commit runner, goes for jjLock; by the time it has the lock the other    *)
(* may have made the runner, so it looks again.                             *)
FindNoRunner(who, t) ==
    /\ t \notin runners
    /\ creating' = creating \cup {who}
    /\ UNCHANGED runners

(* Slip: no second look under the lock.                                     *)
CreateRunnerTwice(who, t) ==
    /\ who \in creating
    /\ creating' = creating \ {who}
    /\ runners' = runners \cup {t}
    /\ dataChan' = [dataChan EXCEPT ![t] = <<>>]
    /\ idChan' = [idChan EXCEPT ![t] = <<>>]

CreateRunner(who, t) ==
    /\ who \in creating
    /\ creating' = creating \ {who}
    /\ IF t \in runners
       THEN UNCHANGED <<runners, dataChan, idChan>>
       ELSE /\ runners' = runners \cup {t}
            /\ dataChan' = [dataChan EXCEPT ![t] = <<>>]
            /\ idChan' = [idChan EXCEPT ![t] = <<>>]

DumperLookup ==
    /\ dumper # None
    /\ "dumper" \notin creating
    /\ FindNoRunner("dumper", TagOfMsg(dumper))
    /\ UNCHANGED <<msgVars, dumpVars, writerVars, fileVars, loadVars,
                   commitVars, downVars, lossVars, skipDumpChan, outChan, ids>>

DumperCreate ==
    /\ dumper # None
    /\ CreateRunner("dumper", TagOfMsg(dumper))
    /\ UNCHANGED <<msgVars, dumpVars, writer, journaled, fileVars,
                   loadVars, commitChan, committer, downVars, lossVars,
                   skipDumpChan, outChan, ids>>

(* Into the channel of the tag's data writer, else straight to outChan      *)
(* ("skip dump"), else to the pool ("discard log").                         *)
DumperSend ==
    LET t == TagOfMsg(dumper)
        dataFull == Len(dataChan[t]) = DataChanSize
        outFull == Len(outChan) = OutChanSize
    IN
    /\ dumper # None
    /\ t \in runners
    /\ "dumper" \notin creating
    /\ dumper' = None
    /\ \/ /\ ~dataFull
          /\ dataChan' = [dataChan EXCEPT ![t] = Append(@, dumper)]
          /\ UNCHANGED <<outChan, givenUp>>
       \/ /\ dataFull
          /\ outChan' = IF outFull THEN outChan ELSE Append(outChan, dumper)
          /\ givenUp' = givenUp \cup {dumper.body}
          /\ UNCHANGED dataChan
    /\ UNCHANGED <<msgVars, dumpChan, writer, journaled, fileVars, loadVars,
                   commitVars, downVars, crashes, faults, skipDumpChan, runnerVars,
                   ids>>

(* The data writer of a tag.  WriteData is tried twice; when it keeps       *)
(* failing the message goes on all the same.                                *)
DataWrite(t, ok) ==
    LET msg == Head(dataChan[t]) IN
    /\ t \in runners
    /\ dataChan[t] # <<>> /\ writer[t] = None
    /\ Try(ok)
    /\ writer' = [writer EXCEPT ![t] = msg]
    /\ dataChan' = [dataChan EXCEPT ![t] = Tail(@)]
    /\ data' = IF ok THEN [data EXCEPT ![t] = @ \cup {msg}] ELSE data
    /\ journaled' = IF ok THEN journaled \cup {msg.body} ELSE journaled
    /\ givenUp' = IF ok THEN givenUp ELSE givenUp \cup {msg.body}
    /\ UNCHANGED <<msgVars, dumpVars, legacy, loadVars, commitVars, downVars,
                   crashes, skipDumpChan, outChan, runnerVars, ids>>

(* outChan without waiting: a message that finds it full is dropped, "msg   *)
(* will reproduce in legacy stage".                                         *)
DataForward(t) ==
    /\ writer[t] # None
    /\ outChan' = IF Len(outChan) < OutChanSize
                  THEN Append(outChan, writer[t]) ELSE outChan
    /\ writer' = [writer EXCEPT ![t] = None]
    /\ UNCHANGED <<msgVars, dumpVars, dataChan, journaled, fileVars,
                   loadVars, commitVars, downVars, lossVars, skipDumpChan,
                   runnerVars, ids>>

-----------------------------------------------------------------------------
(* go-journal switches to new files; never while the loader holds the lock. *)
Rotate(t) ==
    /\ data[t] # {}
    /\ t \notin loading
    /\ legacy' = [legacy EXCEPT ![t] = @ \cup data[t]]
    /\ data' = [data EXCEPT ![t] = {}]
    /\ UNCHANGED <<msgVars, dumpVars, writerVars, loadVars, commitVars,
                   downVars, lossVars, skipDumpChan, outChan, runnerVars, ids>>

(* ProcessLegacyMsg: one loader per tag, the next round after all are done; *)
(* a loader with no rotated file meets io.EOF at once.                      *)
LegacyStart ==
    LET found == {t \in runners : legacy[t] # {}} IN
    /\ loading = {} /\ found # {}
    /\ loading' = found
    /\ unread' = [t \in Tag |-> IF t \in found THEN legacy[t] ELSE {}]
    /\ UNCHANGED <<msgVars, dumpVars, writerVars, fileVars, commitVars,
                   downVars, lossVars, skipDumpChan, outChan, runnerVars, ids>>

(* Slip: committed messages are loaded like the others.                     *)
LegacyLoadAll(t, m) ==
    /\ t \in loading
    /\ m \in unread[t]
    /\ Len(dumpChan) < DumpChanSize
    /\ unread' = [unread EXCEPT ![t] = @ \ {m}]
    /\ dumpChan' = Append(dumpChan, m)
    /\ UNCHANGED <<msgVars, dumper, writerVars, fileVars,
                   loading, commitVars, downVars, lossVars, skipDumpChan,
                   outChan, runnerVars, ids>>

(* LoadLegacyBuf passes over the committed messages; another one waits for  *)
(* room in dumpChan.                                                        *)
LegacyLoad(t, m) ==
    /\ t \in loading
    /\ m \in unread[t]
    /\ unread' = [unread EXCEPT ![t] = @ \ {m}]
    /\ IF m.id \in ids[t]
       THEN UNCHANGED dumpChan
       ELSE /\ Len(dumpChan) < DumpChanSize
            /\ dumpChan' = Append(dumpChan, m)
    /\ UNCHANGED <<msgVars, dumper, writerVars, fileVars,
                   loading, commitVars, downVars, lossVars, skipDumpChan,
                   outChan, runnerVars, ids>>

(* io.EOF: the rotated files are dropped, the loader releases its lock.     *)
LegacyEof(t) ==
    /\ t \in loading
    /\ unread[t] = {}
    /\ legacy' = [legacy EXCEPT ![t] = {}]
    /\ loading' = loading \ {t}
    /\ UNCHANGED <<msgVars, dumpVars, writerVars, data, unread, commitVars,
                   downVars, lossVars, skipDumpChan, outChan, runnerVars, ids>>

(* Slip: an error is taken for the end of the files.                        *)
LegacyErrorDrops(t) ==
    /\ Try(FALSE)
    /\ t \in loading
    /\ loading' = loading \ {t}
    /\ unread' = [unread EXCEPT ![t] = {}]
    /\ legacy' = [legacy EXCEPT ![t] = {}]
    /\ UNCHANGED <<msgVars, dumpVars, writerVars, data, commitVars,
                   downVars, crashes, givenUp, skipDumpChan, outChan,
                   runnerVars, ids>>

(* Another error, and no second LockLegacy: the loader gives up, the files  *)
(* stay for the next round.                                                 *)
LegacyError(t) ==
    /\ Try(FALSE)
    /\ t \in loading
    /\ loading' = loading \ {t}
    /\ unread' = [unread EXCEPT ![t] = {}]
    /\ UNCHANGED <<msgVars, dumpVars, writerVars, fileVars, commitVars,
                   downVars, crashes, givenUp, skipDumpChan, outChan,
                   runnerVars, ids>>

-----------------------------------------------------------------------------
(* The rest of the pipeline, seen from the journal.                         *)
Consume ==
    /\ outChan # <<>>
    /\ Cardinality(open) < OpenSize
    /\ outChan' = Tail(outChan)
    /\ open' = open \cup {Head(outChan)}
    /\ consumed' = consumed \cup {Head(outChan).body}
    /\ UNCHANGED <<msgVars, dumpVars, writerVars, fileVars, loadVars,
                   commitVars, lossVars, skipDumpChan, runnerVars, ids>>

Fail ==
    /\ outChan # <<>>
    /\ outChan' = Tail(outChan)
    /\ UNCHANGED <<msgVars, dumpVars, writerVars, fileVars, loadVars,
                   commitVars, downVars, lossVars, skipDumpChan, runnerVars, ids>>

(* One commit may stand for several consumed messages of a tag, merged by  *)
(* the concator: the id of the head and the ExtIds of its tails.            *)
SendCommit(S) ==
    /\ S # {} /\ S \subseteq open
    /\ Len(commitChan) < CommitChanSize
    /\ \E t \in Tag :
          /\ \A m \in S : TagOfMsg(m) = t
          /\ commitChan' =
                Append(commitChan, [tag |-> t, ids |-> {m.id : m \in S}])
    /\ open' = open \ S
    /\ UNCHANGED <<msgVars, dumpVars, writerVars, fileVars, loadVars,
                   committer, idChan, consumed, lossVars, skipDumpChan,
                   outChan, runnerVars, ids>>

-----------------------------------------------------------------------------
(* startCommitRunner.                                                       *)
CommitRecv ==
    /\ committer = None
    /\ commitChan # <<>>
    /\ committer' = Head(commitChan)
    /\ commitChan' = Tail(commitChan)
    /\ UNCHANGED <<msgVars, dumpVars, writerVars, fileVars, loadVars, idChan,
                   downVars, lossVars, skipDumpChan, outChan, runnerVars, ids>>

CommitLookup ==
    /\ committer # None
    /\ "committer" \notin creating
    /\ FindNoRunner("committer", committer.tag)
    /\ UNCHANGED <<msgVars, dumpVars, writerVars, fileVars, loadVars,
                   commitVars, downVars, lossVars, skipDumpChan, outChan, ids>>

CommitCreate ==
    /\ committer # None
    /\ CreateRunner("committer", committer.tag)
    /\ UNCHANGED <<msgVars, dumpVars, writer, journaled, fileVars,
                   loadVars, commitChan, committer, downVars, lossVars,
                   skipDumpChan, outChan, ids>>

(* Into the channel of the tag's ids writer, else to the end of commitChan, *)
(* else the commit is thrown away.                                          *)
CommitSend ==
    LET t == committer.tag IN
    /\ committer # None
    /\ t \in runners
    /\ "committer" \notin creating
    /\ committer' = None
    /\ IF Len(idChan[t]) < IdChanSize
       THEN /\ idChan' = [idChan EXCEPT ![t] = Append(@, committer)]
            /\ UNCHANGED commitChan
       ELSE /\ UNCHANGED idChan
            /\ commitChan' = IF Len(commitChan) < CommitChanSize
                             THEN Append(commitChan, committer) ELSE commitChan
    /\ UNCHANGED <<msgVars, dumpVars, writerVars, fileVars, loadVars, downVars,
                   lossVars, skipDumpChan, outChan, runnerVars, ids>>

(* Slip: a committed id stands for the ids before it, as an offset does.    *)
IdsWriteUpTo(t, written) ==
    /\ t \in runners
    /\ idChan[t] # <<>>
    /\ written = {i \in Id \ {0} : \E j \in Head(idChan[t]).ids : i <= j}
    /\ idChan' = [idChan EXCEPT ![t] = Tail(@)]
    /\ ids' = [ids EXCEPT ![t] = @ \cup written]
    /\ UNCHANGED <<msgVars, dumpVars, writerVars, fileVars, loadVars,
                   commitChan, committer, downVars, lossVars,
                   skipDumpChan, outChan, runnerVars>>

(* The ids writer of a tag: msg.ID, then each of msg.ExtIds.  Its retry     *)
(* loop always breaks, so an id whose WriteId fails is left out.            *)
IdsWrite(t, written) ==
    /\ t \in runners
    /\ idChan[t] # <<>>
    /\ written \subseteq Head(idChan[t]).ids
    /\ Try(written = Head(idChan[t]).ids)
    /\ idChan' = [idChan EXCEPT ![t] = Tail(@)]
    /\ ids' = [ids EXCEPT ![t] = @ \cup written]
    /\ UNCHANGED <<msgVars, dumpVars, writerVars, fileVars, loadVars,
                   commitChan, committer, downVars, crashes, givenUp,
                   skipDumpChan, outChan, runnerVars>>

-----------------------------------------------------------------------------
OnDisk(b) == \E m \in data[TagOf[b]] \cup legacy[TagOf[b]] : m.body = b

MaxOf(S) == CHOOSE x \in S : \A y \in S : y <= x

(* LoadMaxID: the largest COMMITTED id of all tags, 0 when there is none.   *)
LoadMaxID == MaxOf({0} \cup UNION {ids[t] : t \in Tag})

(* The program dies and starts again: channels and goroutines are gone, the *)
(* files stay and are all legacy, initLegacyJJ makes a runner per tag       *)
(* directory, and the acceptor seeds its counter with LoadMaxID.            *)
Crash ==
    /\ crashes < MaxCrash
    /\ crashes' = crashes + 1
    /\ givenUp' = givenUp \cup {b \in received : ~OnDisk(b)}
    /\ dumpChan' = <<>> /\ skipDumpChan' = <<>> /\ outChan' = <<>>
    /\ dumper' = None /\ committer' = None /\ commitChan' = <<>>
    /\ dataChan' = [t \in Tag |-> <<>>] /\ writer' = [t \in Tag |-> None]
    /\ idChan' = [t \in Tag |-> <<>>]
    /\ loading' = {} /\ unread' = [t \in Tag |-> {}]
    /\ open' = {} /\ creating' = {}
    /\ legacy' = [t \in Tag |-> legacy[t] \cup data[t]]
    /\ data' = [t \in Tag |-> {}]
    /\ nextId' = (LoadMaxID + 1) % MaxRotateID
    /\ UNCHANGED <<received, idOf, journaled, consumed, faults, runners, ids>>

-----------------------------------------------------------------------------
Next ==
    \/ \E b \in Body : Receive(b) \/ ReceiveSkip(b)
    \/ SkipDump
    \/ DumperRecv \/ DumperLookup \/ DumperCreate \/ DumperSend
    \/ \E t \in Tag :
          \/ \E ok \in BOOLEAN : DataWrite(t, ok)
          \/ DataForward(t)
          \/ Rotate(t)
          \/ \E m \in unread[t] : LegacyLoad(t, m)
          \/ LegacyEof(t) \/ LegacyError(t)
          \/ \E written \in SUBSET Id : IdsWrite(t, written)
    \/ LegacyStart
    \/ Consume \/ Fail
    \/ \E S \in SUBSET open : SendCommit(S)
    \/ CommitRecv \/ CommitLookup \/ CommitCreate \/ CommitSend
    \/ Crash

Spec == Init /\ [][Next]_vars

-----------------------------------------------------------------------------
(* Where a body can be.                                                     *)
In(chan) == {m.body : m \in Range(chan)}
InDumpPath(b) ==
    \/ b \in In(dumpChan) \cup In(dataChan[TagOf[b]])
    \/ dumper # None /\ dumper.body = b

IdShared(b) == \E c \in consumed \ {b} : TagOf[c] = TagOf[b] /\ idOf[c] = idOf[b]

Recoverable(b) ==
    \E m \in data[TagOf[b]] \cup legacy[TagOf[b]] :
       m.body = b /\ m.id \notin ids[TagOf[b]]

(* Whatever the order of dumping, rotation, replay and commits, a received  *)
(* body that nobody gave up has been consumed, is on its way to a file, or  *)
(* is in a file with an id that is not committed, from where it is          *)
(* replayed.                                                                *)
Accounted ==
    \A b \in received :
       b \in consumed \/ InDumpPath(b) \/ Recoverable(b) \/ b \in givenUp \/ IdShared(b)

(* An id gets into the ids of a tag only for a message of that tag that was *)
(* consumed.                                                                *)
CommittedWasConsumed ==
    \A t \in Tag : \A i \in ids[t] :
       \E b \in consumed : TagOf[b] = t /\ idOf[b] = i

(* docs/README_cn.md: the id is the unique id of a message, and a message   *)
(* that has reached the journal is consumed at least once.  What is in a    *)
(* file is replayed until it has been consumed.                             *)
ReachedIsKept ==
    \A b \in journaled \ givenUp : b \in consumed \/ InDumpPath(b) \/ Recoverable(b)

-----------------------------------------------------------------------------
(* Every goroutine keeps running, go-journal rotates a file that holds      *)
(* something, and downstream keeps taking and committing messages: whatever *)
(* is passed on again and again is consumed in the end.                     *)
ConsumeBody(b) == Consume /\ Head(outChan).body = b

Fairness ==
    /\ WF_vars(SkipDump) /\ WF_vars(LegacyStart)
    /\ WF_vars(DumperRecv \/ DumperLookup \/ DumperCreate \/ DumperSend)
    /\ WF_vars(CommitRecv \/ CommitLookup \/ CommitCreate \/ CommitSend)
    /\ WF_vars(Consume \/ Fail)
    /\ WF_vars(\E S \in SUBSET open : SendCommit(S))
    /\ \A t \in Tag :
          /\ WF_vars(DataForward(t) \/ \E ok \in BOOLEAN : DataWrite(t, ok))
          /\ WF_vars(\E written \in SUBSET Id : IdsWrite(t, written))
          /\ WF_vars(Rotate(t))
          /\ WF_vars(LegacyEof(t) \/ \E m \in unread[t] : LegacyLoad(t, m))
    /\ \A b \in Body : SF_vars(ConsumeBody(b))

FairSpec == Spec /\ Fairness

(* At least once: a journaled body is consumed, however often outChan is    *)
(* full or downstream drops it, unless the dumper finds both the journal    *)
(* and downstream busy.                                                     *)
JournaledIsConsumed ==
    \A b \in Body : b \in journaled ~> b \in consumed \cup givenUp

(* A committed message leaves the files for good, although copies of it may *)
(* still be waiting to be dumped when its id arrives.                       *)
CommittedLeavesDisk ==
    \A b \in Body :
       (b \in received /\ idOf[b] \in ids[TagOf[b]]) ~> [](~OnDisk(b))
=============================================================================
