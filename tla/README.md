# Verification of the Raft key-value store

TLA+ modules, TLC configurations and TLAPS proofs about the key-value store in
this repository: a cluster of nodes that replicate a command log with Raft
(`src/raftCore/raft.cpp`) and apply it to a skip list, over an RPC framework and
a fiber scheduler of its own. Paths below are relative to the repository root;
`raft.cpp` alone means `src/raftCore/raft.cpp`.

`tlc -config raft_election.cfg MCRaft` runs one configuration,
`tlapm RaftElectionProofs.tla` checks one proof module. `PROJECT.json` maps
every definition to the lines it models.

## 1. The system

| Component | State it keeps | Operations | Talks to |
|---|---|---|---|
| Raft (`raft.cpp`) | term, vote, role; log and snapshot position; commit and applied index; next and match index per peer; one mutex `m_mtx` | election, heartbeat and applier tickers; `RequestVote`, `AppendEntries1`, `InstallSnapshot`; `Start`, `Snapshot`; one detached thread per outgoing RPC | peers through RaftRpcUtil; Persister; KvServer through the apply channel |
| Persister (`Persister.cpp`) | two files, two output streams, a size counter | `Save`, `SaveRaftState`, `ReadRaftState`, `ReadSnapshot` | called by Raft, under its lock |
| KvServer (`kvServer.cpp`) | skip list, last request id per client, wait channel per log index | `Get`, `PutAppend` (wait with a timeout), apply loop, snapshot making and installing | `Raft::Start`, `Raft::Snapshot`, apply channel; clerks |
| Clerk (`clerk.cpp`) | client id, request id, last leader | `Get`, `Put`, `Append`: repeat until a server accepts | KvServer by RPC |
| RaftRpcUtil, raftServerRpcUtil | a stub each | one blocking call per message | MprpcChannel |
| MprpcChannel (`mprpcchannel.cpp`) | one socket per peer | `CallMethod`: connect, send, one `recv` | RpcProvider at the other end |
| RpcProvider (`rpcprovider.cpp`) | table of services | `OnMessage`: parse, call, answer | muduo, services |
| Scheduler, IOManager, TimerManager, hook (`src/fiber`) | run queue, epoll events, timers, fibers | schedule, tickle, idle, add/delete/cancel event, timers, hooked system calls | run Raft's two tickers |
| SkipList (`skipList.h`) | levels of sorted nodes | insert, update, delete, search, dump, load | KvServer |
| LockQueue (`util.h`) | queue, mutex, condition | `Push`, `Pop`, `timeOutPop` | apply channel, wait channels |

A client command goes Clerk -> KvServer -> `Raft::Start` -> heartbeat to the
followers -> majority -> commit index -> `applierTicker` -> apply channel ->
KvServer -> wait channel -> answer. KvServer calls `Raft::Snapshot` when the
saved state is large; a leader whose log no longer reaches back to a follower's
next index sends its snapshot.

What is hard in it: RPCs are made without the lock by detached threads, so
every reply is handled in a state that may have moved on by any number of
steps; rounds of heartbeats overlap; log and snapshot indices are converted
everywhere and guarded by assertions that end the process; a restart reads what
was saved; timeouts race answers at the KvServer and in the fiber library; the
threads that call one peer share its socket. `PROJECT.json` lists these hazards
at their lines with the properties that cover them, or why none does yet.

What makes each component correct:

- Raft: one leader per term; a vote is given once and is saved before it is
  answered; index arithmetic is exact; an entry is identified by index and term;
  a leader's log only grows; an entry is committed only on a majority; every
  committed index is handed over once, in order; no assertion ends a process.
- Persister: what is read is what was last saved.
- KvServer and Clerk: a request takes effect exactly once, an answer is the one
  of its own request, a waiting request is answered.
- MprpcChannel and RpcProvider: a reply belongs to its request; no request that
  was delivered is dropped.
- Fiber library: a queued task is run; a fiber that waits is resumed once.
- SkipList: behaves as a map.

## 2. Modules

| Module | Contents |
|---|---|
| `Raft` | the class Raft: constants, variables, one action per handler or step, `Spec` |
| `RaftProperties` | types, invariants and action properties over `Raft`, and the refinement of `Voting` |
| `Voting` | abstract specification: ballots, leaders and quorums, no messages |
| `MCRaft` | symmetry, view and state constraints for TLC |
| `RaftRestart` | Raft with processes that are started again, through the constructor of Persister |
| `KvServer` | clerks, RPC threads, wait channels, apply loop, snapshots, over Raft as an interface |
| `SkipList` | the lists of `skipList.h`: insert, set, delete, search, dump, load, as operators |
| `MCKvServer` | the situations of `KvServer` that TLC looks at, and the assumption that a skip list is a map |
| `Wire` | the fields of the messages; serializing and parsing them |
| `RpcChannel` | MprpcChannel and RpcProvider: threads that share a socket |
| `MCRpcChannel` | its instance, and the assumption that parsing undoes serializing |
| `IOManager` | scheduler, idle fiber, timers, hooked `sleep`, `read` and `close` |
| `MCIOManager` | the situations of `IOManager` that TLC looks at, and the assumption that they are the ones its properties are about |
| `RaftIndexProofs` | TLAPS: type correctness and index arithmetic |
| `RaftElectionProofs` | TLAPS: elections, and that `Raft` implements `Voting` |
| `RaftLogProofs` | TLAPS: applying, a leader's log, the identity of entries |
| `RaftReplicationProofs` | TLAPS: what messages claim, what leaders believe of followers, what is saved; rounds of heartbeats, their counters, and what is committed |
| `KvServerProofs` | TLAPS: types, wait channels, the duplicate table, acknowledged writes |
| `KvReplicaProofs` | TLAPS: what a store holds and what a Get returns |
| `RpcChannelProofs` | TLAPS: parsing undoes serializing; what a caller gets from the shared channel |
| `IOManagerProofs` | TLAPS: types, counters, wake-ups of a fiber, stopping, the clock and the timers |

In every module a definition called `Faulty_...` is a deliberately wrong variant
of the definition after it. No specification uses one; put in the place of the
right one it breaks the property named for it in `PROJECT.json`, which shows
that the property depends on the code.

How the modules fit together: `RpcChannel` says what one RPC of `Raft` may do;
`Raft` takes from it that a call may fail at any time and, otherwise, that it
gets its own answer. `KvServer` takes from `Raft` the growing sequence of
committed commands. `IOManager` justifies that the tickers of `Raft` run. These
are assumptions of one module about another, read off their properties; only
`Voting` is connected by a checked and proved refinement. Where the lower layer
breaks its promise a violated run says so (section 3).

### `Raft`

Each member keeps its name and becomes a function of the node. Added are:
`votedNum` (the `shared_ptr<int>` of `doElection`), `appendNums` (the one of
each `doHeartBeat` round), `persisted` (what the last `persist()` handed to its Persister),
`applyMsgs` (what the node handed to its KvServer), `exitSite`, `rpcs`, `votes`.

*Atomicity.* `m_mtx` is held from the start of a handler to its end, so a
handler is one action. `applierTicker` collects under the lock: one action. The
code of a detached thread is not atomic: it is split at the RPC. A record of
`rpcs` is a thread between its start and its last critical section; it changes
kind as the call proceeds (`AppendEntries` to `AppendEntriesReply`;
`SendSnapShot` to `InstallSnapshot` to `InstallSnapshotReply`). The action that
handles a reply reads the state the node has by then.

*RPC.* A record may be served at any time in any order, or fail at any point
(`RpcFails`): before it arrives, or after it was handled and before the answer
is taken. A peer that closes the connection before its answer is sent makes
`recv` return 0, which parses as an empty reply of a call that succeeded: the
callers of `RequestVote` and `AppendEntries` ignore it for its term 0, as if the
call had failed, but `leaderSendSnapShot` takes it as acceptance (`PeerCloses`).
A request is not delivered twice: `CallMethod` sends again only after
`send` has failed. Apart from that a call that succeeds is assumed to get its own answer; `RpcChannel` shows when
the shared socket does not grant this.

*Saving.* `persist()` hands the state to a `std::ofstream` of the Persister, and
`persisted` is what was handed over last. That is less than the disk: the stream
is never flushed, and the next save closes it, which writes it, and empties the
file before it goes on (`Persister.cpp:67`, `78`, `138-149`). `PromisesSaved` is
about the order of saving and answering only (see the limits of section 3).

*Timers.* An election or a heartbeat round may start at any time the role
allows. Every real timing is one of these. `Candidates` bounds who campaigns.

*`votedNum`.* The code has one counter per election. One per node is enough:
only a thread whose reply has the node's current term reaches the counter, and
a node campaigns at most once in a term.

*`appendNums`.* One counter per round in flight, freed with the last thread that
shares it; `Round` holds as many names as there may be RPCs.

*Assertions.* `myAssert` calls `std::exit`. Two can fail and are actions
(`HeartBeatExits`, `PrevInSnapshotExits`) after which the node does nothing more. The
others are shown not to fail, by `IndexOrder`, `RequestsWithinLog`,
`EntryIdentity` and `NoSecondLeadership`.

*Data.* A command is an element of a set, a snapshot is the index and the term
it covers, the state of a role is one of three strings. `leaderUpdateCommitIndex`
and `CondInstallSnapshot` are never called and are left out.

*Bounds* (all constants): `MaxTerm`, `MaxLogIndex` and `MaxSnapshotIndex` stop
elections, commands and snapshots beyond them, `MaxInFlight` limits the RPCs of
the whole cluster. A peer not chosen in a round is one whose call failed at
once. The proofs hold for every value of the bounds.

### `KvServer`

*State.* The members of the class keep their names; `calls` holds one record per
call between the clerk's send and its reading of the reply. The thread that
serves it moves through the phases `sent`, `started` (Start has returned),
`waiting`, `timedOut`, `execute`, `cleanup`, `replied`.

*Atomicity.* One action per section under `m_mtx`, per call of Raft and per
operation of a queue. So the wait channel is made a step after `Start`
(`kvServer.cpp:361`), the time-out of a Get asks Raft first and the duplicate
table later, and between `timeOutPop` and the deletion of the channel other
threads run. The apply thread is split the same way: take and compare, execute,
take a snapshot and notify.

*The clerk.* Its loop is `Call`, `TakeReply` and `Break`. An orderly close reads
as an empty reply without an error text, after which the clerk asks the same
server again; a failed call sends it to the next. The thread of a call whose
connection broke goes on at the server, which is why a Get can set a clerk's
last id after that clerk has moved on (`rolledBack`).

*Raft as an interface.* `committed` only grows and a node elected holds all of
it. Kept from the code: a deposed leader goes on taking commands, a log keeps
its tail behind what the leader sends, `applierTicker` collects up to the commit
index under the lock and pushes afterwards, and `InstallSnapshot` moves
`lastApplied` at once and pushes from a detached thread, so that the queue's
order is open. When the applier pushed a command cannot be seen except when a
snapshot jumps over it, so it is left implicit but there (`collected`).

*Snapshots.* `Persister::ReadSnapshot` reads with `operator>>`, which returns
the first word, then opens the file for writing, which empties it
(`FirstWord`, `snapshotFile`). A snapshot that arrives is therefore a word,
which the archive's constructor refuses and which ends the process, or empty,
which restores nothing. `skipped` names the servers that missed commands by
that; the properties of replicas are about the others. Whether
`IfNeedToSendSnapShotCommand` finds the state large enough is left open.

*Data.* One key, since keys do not interact; a value is the sequence of writes
it was put together from, which shows every lost, doubled or misplaced write.
The history `values` holds the value after each committed command, a write that
was committed before left out: what a store ought to be. It is kept as a history
and not computed from `committed`, so that it can be reasoned about without an
induction over the sequence.

### `SkipList`

A data structure under one mutex, so its operations are operators on a list: the
forward pointers of every node per level, the values, the level and the count,
as `skipList.h` keeps them. The random level of a new node is a parameter. `StoreIsMap`, an assumption of `MCKvServer` that TLC
evaluates, starts from every list over three keys and two levels that the code
can build and states that each operation does to the list what it does to the
map the list stands for, that searching finds exactly the keys of the map, and
that a node of a higher level is on every lower one. `load_file` inserts, and
`insert_element` leaves a key alone that is there, so a load adds without
replacing; `insert_set_element` replaces. `KvServer` uses the map; it does not
depend on levels.

### `RpcChannel` and `Wire`

A message on the wire is the sequence of its fields (number, wire type, value).
`Wire` has the field table of all messages, what `SerializeToString` writes
(nothing for a zero) and what `ParseFromString` makes of any sequence of items:
the last occurrence wins, unknown or ill-typed items are set aside. This is what
makes a reply parsed as another type meaningful. `RoundTrip`, an assumption of
`MCRpcChannel` that TLC evaluates, states that parsing gives back what was
serialized, for zero and other values in every field of every message;
`ParseUndoesSerialize` of `RpcChannelProofs` proves it for all values.

The steps of a thread are the places where `CallMethod` reads or writes
`m_clientFd`: test it, connect, send, start `recv`, get something. `recv` keeps
the descriptor it was called with. A connection is a queue each way; how much of
it one `recv`, or one `OnMessage`, takes is open, so replies arrive joined and
both arrive cut. `Receive` takes whole replies. In `ReceiveCut` a `recv` ends
between two fields of a reply, and what it took parses, or inside a field, and
the parse fails: then the call fails and `m_clientFd` stays as it is
(`mprpcchannel.cpp:157-163`). Either way the rest of the reply is left for the next
`recv`. Bytes that begin in the middle of a field parse as nothing or as any
message of `Garbage` values (`Garbled`); in the latter case the call ends as
"garbled". So the 1024 bytes of the receive buffer are one of the places where a
`recv` may end. `OnMessage` empties the buffer and serves one request. Of the
Raft handlers only the term and the freedom of the answer are kept.
`served`, `cut`, `overlapped` and `unserved` are history.

### `IOManager`

One action per section under a lock or operation on an atomic: `Scan`, `GoIdle`
(the worker counts as idle only here, after the lock), `GetNextTimer`,
`Stopping`, `EpollWait` (it empties the pipe, which the code does a little later,
at that event of the list, `iomanager.cpp:294`; no property depends on it),
`ReadClock`, `ListExpiredCb`, `PushCb`, `HandleEvent`;
`tickle()` is a step of its own, as it reads `idleThreadCnt_` outside the lock.
A fiber runs a program of hooked calls (`sleep`, `read`, `close`) given by the
situation; `do_io` is split where it arms its timer and where it registers its
event. A timer's callback is a task. `epoll_wait` without a timer ends after
MAX_TIMEOUT, 5 s, later than any timer of the instances, so it may end at any
moment (`WaitIsOver`). Time passes in ticks, `MsLength` of them a millisecond. Timers
and `GetElapsedMS` know whole milliseconds; what `usleep` and `nanosleep` are
asked for is in ticks and rounded down (`TimerMs`, `hook.cpp:177`, `191`), `sleep` and a
read's limit are whole. `wanted` is the history of the time a call has to last until. `panicked` is a failed `CondPanic`. In
`detectClockRolllover` the subtraction of an hour wraps around while the machine
has been up for less than one: there, any step back of the clock is a rollover.

A situation says which workers there are, whether the caller's thread is one of
them, and what each fiber calls. Two conditions on situations tell what the
properties are about. `OneAtATime`: there is one worker (`FIBER_THREAD_NUM` of
`config.h:27` is 1; the constructor of Scheduler refuses 0,
`scheduler.cpp:14`), or no fiber ever waits. `OneReader`: one fiber reads from a
socket (`addEvent` refuses a second event of a kind, `iomanager.cpp:89`).
`MCIOManager` states both of every situation TLC looks at; what happens
otherwise is in the limits of section 3.

## 3. Runs

| Run | Instance | Shows |
|---|---|---|
| `raft_election` | 3 nodes, all campaign, 2 terms, 3 RPCs, no entries | `ElectionSafety`, `NoSecondLeadership`, `VoteStable`, the refinement `ImplementsVoting`, and the inductive invariant `ElectionInv` |
| `raft_replication` | 4 nodes, 2 campaign, 2 terms, 2 commands, log of 1, 2 RPCs (1 `AppendEntries` in term 2) | `PromisesSaved`, `EntryIdentity`, `CommitOnMajority`, `MatchIndexTrue` |
| `raft_snapshot` | 2 nodes, 5 terms, 1 command, log of 2, snapshot at 1, 2 RPCs (1 from term 4 on) | `TypeOK`, `IndexOrder`, `RequestsWithinLog`, `AppliedWithoutGap`, `LeaderAppendOnly`, `MatchIndexTrue`; `HeartBeatExits` and `PeerCloses` happen |
| `kv_server` | 2 servers, 2 clerks, two situations of one leader and two around a change of leader | `TypeOK`, `WaitChannelOwned`, `WritesOnce`, `ReplicaMatchesLog`, `GetIsCurrent`, `AcknowledgedIsDone`, and `CallAnswered` |
| `rpc_channel` | 3 threads, replies of two types, 2 connections, 1 break, 1 connection with cuts | `TypeOK`, `OwnReplyWhenAlone`, `TermIsReal`, and `LoneCallReturns` |
| `io_manager` | 3 fibers, 1 or 2 workers, 1 socket, six situations, 2 ticks a millisecond | `TypeOK`, `WokenOnce`, `StoppedIsDone`, `NotEarly`, and `StopReturns` |
| `restart_double_vote` | 3 nodes, 1 term, restarts | `ElectionSafety` is violated |
| `next_index_overrun` | 2 nodes, 5 terms, log of 2 | `NextIndexInRange` is violated |
| `prev_in_snapshot` | 2 nodes, 1 term, snapshot at 1 | `OldPrevIsRejected` is violated |
| `leader_completeness` | 3 nodes, 3 terms, log of 3 | `LeaderCompleteness` is violated |
| `phantom_vote` | 2 threads, 1 connection | `VoteWasGranted` is violated |
| `repeated_write` | the situations of one leader of `kv_server` | `IdempotentWrites` is violated |

Why the bounds are enough for what a run asks:

- Elections need two terms so that a vote of the first can arrive in the second,
  and a third reply in flight so that a late vote can meet a leader.
- Overlapping rounds of one leader need two RPCs in flight. A counter that adds up
  followers needs a majority of three, so four nodes (`raft_replication`): a round with one
  success and another with one must not make it together, which is what happens
  when rounds share a counter, the mutant of `CommitOnMajority`. With two nodes one
  answer is a majority, so `raft_snapshot` does not check it. Two terms and two
  commands put an old leader's entry in the way of a new one's. Rounds overlap in
  the first term, and its late calls meet those of the second; the
  second leader's calls do not overlap among themselves (`LastTermInTurn`), which
  the first leader's have done already.
- A snapshot at 1 in a log of 2 leaves an entry behind it, and three terms let
  both nodes lead around it. A hint larger than the log needs an entry whose
  term is larger than the log is long: five terms in a log of two. It needs one
  call at a time, so `FewCallsInLateTerms` keeps the last two terms to that.
- The situations of `kv_server`. With one leader (`OneLeader`): a Get whose connection breaks, is
  repeated and is followed by a write (a request in the log twice, its answers
  at two servers or twice at one); two writers at one leader (indices and
  channels meet). Around a change of leader (`LeaderChange`): a write and a Get
  around a change of leader (a deposed leader, an index with two commands);
  snapshots taken, sent, lost and installed around one. A
  log of 2 to 4 holds every command at least twice where it may be repeated.
  Where server 1 is `down` the clerk's search still goes through it.
- `rpc_channel`: two connections so that a thread can find the connection of
  another, one break to lose one, three threads so that one call can be alone
  after two have met. Replies of two types, the one with most fields and the one
  with fewest, are read as one another; the third is in `phantom_vote`, and the
  proofs are about all of them. One connection
  on which a `recv` ends inside a reply, as often as it likes, and one on which
  none does: `OwnReplyWhenAlone` is about the second, also after the first was
  given up. One number stands for what bytes out of place are read as.
- The situations of `io_manager`: two tickers with sleeps that cross, as in
  `Raft::init`; reads with a time limit against messages, against none and
  against a close; a read only a close ends, on the caller's thread; a read only
  a message ends; and two workers with fibers that do not wait. Two ticks a
  millisecond, so that a sleep asked for and the clock at its start each lose
  nothing or half a millisecond.

Symmetry: no definition compares nodes or commands by anything but equality, so
permutations of the nodes that campaign, of those that do not, and of the
commands are symmetries; runs with symmetry check safety only (`VoteStable`,
`LeaderAppendOnly` and `ImplementsVoting` are conditions on steps). View: all
runs of `Raft` but `raft_election` identify states that differ in values nothing
will read again: the history `votes`, `m_nextIndex` and `m_matchIndex` of a node
that does not lead (`BecomeLeader` overwrites them), and `votedNum` of a node
none of whose vote threads belongs to its current term (`DoElection` sets it).
No property of those runs reads them either.

Deadlock is not checked. A bounded cluster stops when it may start no further
election, command or RPC; a process that an assertion has ended stops; a clerk
with nothing left to ask, a channel whose calls have returned and a scheduler
that was joined stop too. Threads that wait for ever are what the liveness
properties are about.

### Fairness

`Raft` has none: all its properties are about safety. Replication need not make
progress in it, as nothing in the code or its environment bounds the RPCs that
fail, the elections that interrupt a leader, or the assertions that end nodes.

- `KvServer`: weak fairness of `Serve(c)`, the threads that serve the calls of a
  clerk. They are ordinary threads, each step of theirs is a lock, a call or a
  wait with a deadline (`timeOutPop`), and no other step can disable one for
  good. Nothing is assumed of Raft, of the apply thread or of the network:
  `CallAnswered` holds with a leader that never commits.
- `RpcChannel`: weak fairness of all steps of callers and provider together:
  while threads can run, one of them does, and bytes sent arrive unless the
  connection breaks. It is enough, as every call takes finitely many steps. Calls do
  not start and connections do not break by fairness.
- `IOManager`: the main thread and each worker run, the clock goes on, and
  messages arrive only where the situation says that the peer is sure to send.

### What the violated runs found

1. `restart_double_vote`: the constructor of Persister truncates both files
   (`src/raftCore/Persister.cpp:13`) before `Raft::init` reads the saved state,
   so a restarted node votes again in a term it has voted in, and two nodes lead
   that term. `raft.cpp:64` calls the read crash recovery.
2. `next_index_overrun`: `raft.cpp:791` hints last *term* + 1 as next *index*.
   The leader may then hold a next index beyond its log, against the comment at
   `raft.cpp:697`, and its next heartbeat ends it.
3. `prev_in_snapshot`: the rejection prepared at `raft.cpp:794-800` does not
   return; `matchLog` asserts and the follower ends.
4. `leader_completeness`: `raft.cpp:831-834` replaces a conflicting entry but
   keeps the tail of the old leader behind it, by which `UpToDate` then judges
   the log. The tail makes the voter's own log look older than it is: it holds a
   committed entry and votes for a node that does not, and that has no tail,
   against the purpose `raft.cpp:339` names for the check.
5. `phantom_vote`: a deposed leader's heartbeat thread and its vote thread share
   one socket. One `recv` of the vote thread returns the heartbeat's success and
   the vote's own denial joined. Field 2 of an `AppendEntriesReply` is `Success`,
   of a `RequestVoteReply` it is `VoteGranted`; a false is not on the wire, so the
   heartbeat's field 2 stays, while the term is the later denial's and agrees. It
   counts as a vote the peer has not given. `Raft` assumes that this does not happen; its election
   theorems hold as long as it does not.
6. `repeated_write`: the thread of a Get whose connection broke stores its id in
   the duplicate table without comparing (`kvServer.cpp:139`), after its clerk
   has gone on to a write. The write, logged twice since it was repeated, is
   executed twice, although the table is there for idempotence (`kvServer.h:157`).

### Limits that the passing runs state in their definitions

The definitions do here what the code does, and each property names what it
excepts. Apart from findings 4 and 6, no run of its own looks for these cases.

- `PromisesSaved` is about what was handed to the Persister, not about the file.
  The Persister never flushes its streams (`Persister.cpp:67`, `78`), and a save
  first closes the stream, which writes what it holds, and empties the file. A
  state that fits into the stream's buffer is in the file at no moment but
  between those two, although `raft.h:141` and `raft.cpp:1467` say that
  `persist()` writes to the disk. (After an orderly end the destructors close the
  streams; a state longer than the buffer is written through in part.)
- `MatchIndexTrue` is about match indices beyond the leader's snapshot. A reply to
  a snapshot sets one within it, and falsely when the peer closed the connection:
  the empty reply counts as acceptance (`raft.cpp:1384`, `PeerCloses`), and
  `m_matchIndex`, by `raft.h:198` what is known to be in step, may be beyond the follower's
  log. The next heartbeat repairs the next index, since the follower rejects it.
- `WritesOnce` excepts a clerk whose last id went back at the server, by the Get
  of a broken connection: there the same write is executed twice (finding 6).
- `AcknowledgedIsDone` says of a write answered with OK that it is committed, and
  that the answering server has executed it only while its clerk still waits for
  it. The thread of a broken connection may answer OK on its time-out at a server
  where an installed snapshot jumped over the write, as the duplicate table knows
  the clerk's next id by then. Nobody reads that answer.
- `ReplicaMatchesLog` and `GetIsCurrent` except servers where an id went back, and
  those that installed an empty snapshot or took one over queued commands
  (`skipped`): `ReadSnapshot` empties the file it has read, where
  `Persister.cpp:112` expects to append; the next snapshot sent is empty,
  restores nothing and still counts as installed (`kvServer.cpp:605`).
- `LoneCallReturns` excepts calls that the provider threw away or answered with no
  bytes (`unserved`). `OnMessage` empties the buffer before it knows whether the
  request in it is whole (`rpcprovider.cpp:160`, `200`), so one that arrives in two
  parts is neither executed nor answered; `InstallSnapshot` answers an old snapshot
  with a message of zeros (`raft.cpp:1420`), which serializes to nothing. `recv`
  has no time limit.
- `OwnReplyWhenAlone` is about calls that never met another in the channel, on a
  connection on which no `recv` has ended inside a reply. When one has, the parse
  may fail and the connection is kept (`mprpcchannel.cpp:157-163`); the rest of the
  reply fails the next call, and the call after it takes that one's reply for its
  own. For such calls nothing but `TermIsReal` holds, and where a `recv` began in the middle of a field
  not even that. `KvServer` takes from it that a clerk's call gets its own answer,
  that is, it is about replies that arrive whole: a `GetReply` of more than 1024
  bytes is always cut.
- `NotEarly` allows for two roundings of less than a millisecond each: of the time
  asked for, as `usleep` and `nanosleep` round down to milliseconds (`hook.cpp:177`,
  `191`), and of the clock when the timer is made. `usleep(HeartBeatTimeout)`, 100
  microseconds, in the election ticker of a leader is a timer of 0 ms.
- The situations with two workers have no waiting fibers. With them,
  `WokenOnce` and `StopReturns` fail (a timer or event may queue a fiber before
  it has yielded, the second worker takes it while it is RUNNING and the
  scheduler panics), and so does `NotEarly` (a worker that read the clock
  before another one passes a smaller time to `detectClockRolllover`, which in
  the first hour after a boot declares a rollover and expires every timer).
  `FIBER_THREAD_NUM` is 1 in `config.h`, so the program itself does not meet
  either. For the same reason the theorems on these properties and on
  `StoppedIsDone` assume the situations to be `OneAtATime` and `OneReader`; type
  correctness is proved without.

## 4. Proofs

Assumed of `Raft`: `ServerAssumption` (finite, not empty), `CandidatesAssumption`,
`NobodyAssumption` (no node is `Nobody`), `BoundsAssumption` (natural numbers).
Assumed of `KvServer`: `ServersAssumption` (at least one server),
`RequestsAssumption` (a natural number), `SetupsAssumption` (the situations are
situations). Assumed of `RpcChannel`: `MethodsAssumption` (finitely many threads,
none of which is "none", one call each, of a method there is, with a term above
0; natural numbers as bounds). Assumed of `IOManager`: `SetupsAssumption` (the
situations are situations with at least one worker), `ClockAssumption` (a millisecond has at least
one tick), `ThreadsAssumption`
(finitely many workers and sockets, `None` is neither a worker nor a fiber), and,
where a theorem says so, `Situations`: all of them are `OneAtATime` and
`OneReader`. The theorems of the modules `Raft...Proofs` are about `Raft!Spec`,
that is, without restarts and with calls that get their own answers; those of
`Kv...Proofs` are about `KvServer!Spec`, that is, with a Raft that keeps its
promises; those of `RpcChannelProofs` are about `RpcChannel!Spec`, those of
`IOManagerProofs` about `IOManager!Spec`.

**`RaftIndexProofs`**: `TypeCorrect`, `IndexOrderHolds`, `RequestsWithinLogHolds`.
The invariant is `IndexInv == TypeOK /\ IndexOrder /\ RequestsWithinLog`. The
three need each other: the type of a merged log needs to know that entries and
log meet without a gap (`IndexOrder`), that `m_commitIndex` set from a reply
stays within the log needs `RequestsWithinLog`, and that a request does not
outlive its sender's log rests on a log never ending earlier than before, since
a follower keeps its tail and a snapshot covers what it removes. Every action has
its own step; lemmas say what appending, merging and cutting a log do to the
positions of its entries.

**`RaftElectionProofs`**: `VoteStableHolds`, `ElectionInvariance`,
`ElectionSafetyHolds`, `NoSecondLeadershipHolds`, `RaftImplementsVoting`. Each of the many actions is
first shown to be one of six election steps (nothing happens, hears of a term,
campaigns, handles a request for a vote, counts a vote, becomes leader); the
invariant is then proved for the six. `ElectionSafety` is not inductive: that a
leader had a majority is forgotten by the state. `ElectionInv` therefore says,
with the history `votes`, that votes are given once per term, asked for once, and
that the counter of the vote threads together with the majority a leader has
already used up (`Spent`) never exceeds the number of voters of this candidacy
that have no answer in flight (`Settled`). Two leaders of one term would have
two majorities of voters, which share a node, and that node one vote. A second
majority for one leader would need more voters than there are nodes.

`RaftImplementsVoting == Spec => ImplementsVoting` is the refinement. `ballots` of `Voting` is the history `votes`, `leads` is the
current term of a node whose status is Leader and 0 otherwise, a quorum is a
majority of the nodes. Each of the six election steps is one of the abstract
ones: campaigning and granting a vote are `Cast`, becoming leader is `Lead`
(its quorum comes from the counter, through `ElectionInv`), hearing of a newer
term or leader is `Resign`, the others change nothing `Voting` sees.

**`RaftLogProofs`**: `AppliedWithoutGapHolds`, `LeaderAppendOnlyHolds`,
`EntryInvariance`, `EntryIdentityHolds`. Every action is shown to be one of seven
steps on logs (`LogSteps`): nothing happens, heartbeats are sent, `Start`,
`Apply`, `Snapshot`, `AppendMatching`, `InstallSnapshot`. `AppliedWithoutGap` is
inductive with `IndexInv`: the KvServer snapshots only what it was handed, and a
snapshot that is installed moves `m_lastApplied` no further than the message it
hands over. `LeaderAppendOnly` holds since only `AppendMatching` replaces
entries and makes the node a follower. `EntryIdentity` is not inductive: a leader
could make an entry that exists somewhere else. `EntryInv` adds `EntriesOwned`,
every entry in a log or in flight was made in its term by a node that has the
ballots of a majority for that term, and that node's log has not ended before
the entry since. A term has one such node (`OneElectedPerTerm`, from
`ElectionInv`), so the next index of its log is new.

**`RaftReplicationProofs`**: `ClaimsInvariance`, `MatchIndexTrueHolds`,
`PromisesSavedHolds`, `CommitOnMajorityHolds`. A late message can only be judged by what its sender's
log was, which the state has forgotten. `ClaimsInv` therefore speaks of the
entries a message says its sender holds (`Claims`): the sender was elected in
the message's term; as long as its own term is still that one, its log says the
same; and two messages of one leader never contradict each other. The second
holds since only a request of another leader replaces entries, and there is no
other in the term; the third is what remains when the term is over. For
`MatchIndexTrue`, every answer in flight has the follower hold the entry it
promises (`AnswersHold`), by way of what a follower's log is after a merge
(`MergedAgrees`), and every match index is 0 or came from such an answer or from
a snapshot no newer than the leader's (`CreditHeld`). The property speaks of the
entry at the match index only: below it a follower may differ, as the tails of
older leaders are kept (finding 4). It speaks of indices beyond the leader's
snapshot: an index that a closed connection has credited is within it, and the
leader's snapshot never falls. For `PromisesSaved`, every step either
saves the node it changes or changes neither vote nor log (`SavingStep`); so what
is saved always has the node's log, and its vote unless a larger term has come in
unsaved, which is what `AppendReplyStepsDown` does (`SavedBehind`).

For `CommitOnMajority`: an acknowledgement is a counter
going up, and the counter is shared by the threads of a round, restarts at 0 at
the majority and says nothing of what was acknowledged. `CommitInv` adds what
makes it mean something. `RoundsAgree`: a round asks a follower once and asks all
of them for entries up to the same index. `RoundsCounted`: while the leader's
term lasts, a round's counter is the size of a set of followers that are no
longer asked in it and hold the entry it asks for (a smaller set than those that
have answered, after a reset). `CommitHeld`: an entry of its own term that the
node of the term has committed is held by a majority; followers keep it, as only
the leader of the term writes to their logs while it is the term (`ClaimsInv`).
A reply can raise the commit index only to the index its round reaches, and the
answering follower, those counted and the leader are different nodes. Every action is one of a few steps on rounds (`RoundStep`):
a round begins, a request is answered, an answer is counted, or none of these.

**`KvServerProofs`**: `TypeOKHolds`, `WaitChannelOwnedHolds`, `WritesOnceHolds`,
`AcknowledgedIsDoneHolds`, one invariant upon the other.

- `TypeInv` needs `HandedOver`, what a server was handed is committed: the apply
  thread reads the command of an index no type bounds.
- `Channels`: a call in service has its command's index in its server's log, and
  no two share one. It rests on logs that never shrink, since what a leader sends
  overwrites entries and cuts none off: the next index is never one that a
  thread still waits for.
- `Requests`: all requests anywhere are ones their clerk has issued, so client and
  id name one operation. `OneCall`: before its connection breaks, a clerk has one
  call. `Executions`: the writes a server executed for a clerk whose id did not go
  back have different ids, none above the one in the duplicate table, and one in
  execution is above all of them; ids go back only for a clerk with broken
  connections. `WritesOnce` is not inductive without them.
- `AckInv` is a circle: a clerk moves on only after its write was acknowledged,
  and an acknowledged write is committed (`WritesDone`); so an id in the table
  above that of a write says that the write is committed, and an equal one that
  it is executed at this server (`LastExecuted`); so a notification and the answer
  of a time-out are true (`NotificationsSound`, `AnswersSound`); and on these the
  clerk moves on.

**`KvReplicaProofs`**: `ReplicaMatchesLogHolds`, `GetIsCurrentHolds`.
`ValuesFollow` says that `values` is what it is meant to be, `ClerkOrder` that
the writes of a clerk are first committed in its program's order, which needs
`WritesDone`, and `InOrder` that a server that missed nothing takes the committed
commands one by one. `Replicas` then compares store and sequence: the duplicate
table bounds the ids of all writes applied (`WritesNoted`), so a new write is not
taken for an old one's repetition, and each of its ids belongs to a command that
was taken (`LastTaken`), so with `ClerkOrder` a write found to be a duplicate has
been applied. Notifications and threads about to read the store stand for
commands taken as well (`QueuesTaken`, `ReadsTaken`). For `GetIsCurrent`,
`AskedAfter` says that what was committed when the clerk asked has smaller ids
than its request; a server that has taken the Get has therefore applied all of
it, and the value it reads is one from then on (`ReadsCurrent`).

**`RpcChannelProofs`**: `ParseUndoesSerialize`, `TypeOKHolds`,
`OwnReplyWhenAloneHolds`, `TermIsRealHolds`. The first, and the lemmas `ParsedTerm`
and `FlattenTypes`, need induction over the items of a message. The library's theorems of induction take an operator and cannot be used,
but one about a set can: a set of numbers that holds 0 and with each number the
next holds all (`Induction`, from the well-foundedness of the numbers), and the
claim to prove defines the set. Of the fold by which `FlattenSeq` and
`ParseFromString` are defined, `Flattened` and `Parsing` say that it is a
function with a first value and a step. Field numbers are unique
(`FieldsNumbered`), so the items of one field never touch another.

`OwnReplyWhenAlone` is not inductive: the connection a lone
call finds has been used before, by calls that may have failed or taken several
replies. `Counted` says what is left over on it, unless a `recv` has ended inside a
reply there (`cut`): of the channel's connection, the requests on their way (`Askers`), the one being served and the replies on the way
back are together no more than the threads that wait on it or are about to. Each
kind of step keeps it: a thread stops waiting with at least one reply taken, or
with an error that also gives up the connection, or at the end of a stream on
which nothing can be left (`Connections`); a reply that serializes to nothing and
a request `OnMessage` throws away only make the count smaller. So a call that
starts alone sends on an empty connection, and while it stays alone all that is
there is its own (`Alone`); the one reply it can receive parses to what its
handler gave, by `ParseUndoesSerialize`. A mutant that gives up waiting and keeps
the connection breaks just this count, and so does the failed parse in the code:
it takes half a reply and leaves the other half, so `Counted` and `Alone` are
about the connections where that has not happened, and `CutGrows` says that a step which does
it puts its connection among the others. For `TermIsReal`, `TermInv` says that
every item on its way that could be read as a term is one that the peer answered
with: field 1 is `Term` in all three replies, and `ParsedTerm` says that a parsed
term comes from an item of number 1, however replies were joined
(`FlattenTypes`), cut between fields, and whatever type they are parsed as; what is
left of a torn field has no number (`TornCarries`).

**`IOManagerProofs`**: `TypeOKHolds`, `WokenOnceHolds`, `StoppedIsDoneHolds`,
`NotEarlyHolds`. `at` is where a worker is, or goes on once it has called
`tickle()`. The invariant has three layers.

- `IInv` holds in every situation. `CountersInv`: the two counters `tickle()` and
  `stopping()` read are the numbers of workers that idle and that are busy, the
  third the number of sockets with an event. `WorkersInv` and `FibersInv`: what a
  worker has in hand fits where it is, and no two run one fiber. `WakesInv`: the
  things that will schedule a fiber (`WakeUps`: its task in the queue, its armed
  timer, its event, the worker that has just taken one of these) are as many as
  its state asks for (`Asked`), that is, one or none; a timer that wakes a fiber
  is in one place only (`OnePlace`). It is proved by counting: each action moves one of them.
  `CallsInv`: a timer or task belongs to a call its fiber makes. Tasks are stamped
  with the call, so a condition timer of a read that is over
  wakes nobody.
- `WokenOnceHolds` and `StoppedIsDoneHolds` add what `OneAtATime` and `OneReader`
  give. The scheduler panics when it takes a fiber that has not yielded: with one
  worker, whoever queued it has to come back to the queue, and has yielded by
  then; and `addEvent` never meets another fiber's event. `StopInv` (with
  `NothingLeft`) says that a worker leaves only after `stopping()` found no task,
  timer, event or busy worker, and that nothing can begin again from there: all
  fibers were handed over before `stop()`, and after it tasks come from fibers,
  timers and events only.
- `NotEarlyHolds` is about a step, and needs `TimesInv`. `ClockInv`: with one
  worker the clock it reads never falls, so `detectClockRolllover` reports
  nothing, whatever the subtraction of an hour gives. `ArmedInv`: a timer of the
  call a fiber is in is not due before the call's time is over. `OverInv`: one that has
  expired, or was cancelled by it, has its time behind it, also while it waits as
  a callback or a task. `PhasesInv` says in which phase a fiber may be resumed by
  what. That says when a call is over in the timer's milliseconds; `LengthInv` relates
them to the time asked for, as `due` is at most two roundings short of `wanted`.
With two workers `ClockInv` fails and with it the property. TLC checked
  this invariant on the instance of `io_manager` before it was proved.

Only model-checked: the operators of `SkipList`, whose correctness (`StoreIsMap`)
TLC evaluates over every list of three keys and two levels, since a proof
takes an induction over the search that `Update` makes at each level; and liveness under fairness (`CallAnswered`, `LoneCallReturns`,
`StopReturns`), which, with `ENABLED`, is out of the prover's reach. Every safety
invariant and every action property of the passing runs has a theorem. No module
uses a `RECURSIVE` operator.

## 5. Not modelled, and the plan

Left out of the modelled components:

- Persister: the size counter `m_raftStateSize`, in whose place `KvServer` leaves
  open whether a snapshot is due, and the moments between the two writes of a
  `Save`, which nothing can observe as no saved state survives a restart.
- RpcProvider: registering services and starting the server; calls of names that
  are not registered.
- Fiber library: tasks pinned to a thread, recurring timers, `refresh` and
  `reset`, `delEvent`, WRITE events and the hooked `connect`, which follow the
  path of READ; `fcntl` and `ioctl`; a descriptor number given out again; stacks
  and context switches.
- Protobuf: memory, reflection, bytes that are no field.
- Parsing of configuration files, logging, formatting, random numbers.
- The examples, tests and the stored build output: drivers without a state of
  their own.
- Liveness of replication: nothing bounds the failures (see Fairness), and the
  hint of finding 2 can repeat, so there is no promise to state.

What is left: the composition of `Raft` with `RpcChannel`, so that the
consequences of a mixed-up answer for an election are part of one run; the fibers
of two workers that wait, with their failures as runs of their own; the lists of
`SkipList` for any number of keys.
