------------------------------- MODULE Raft -------------------------------
(***************************************************************************)
(* The consensus layer of the store: class Raft of src/raftCore/raft.cpp.  *)
(*                                                                         *)
(* A node is one Raft object.  Its mutex m_mtx makes every handler atomic  *)
(* between a lock and an unlock, so a handler that keeps the lock is one   *)
(* action.  An outgoing RPC is made by a detached thread without the lock: *)
(* it is a record of rpcs that moves from request to reply, and the code   *)
(* after the call is an action of its own that reads the state the node    *)
(* has by then.                                                            *)
(*                                                                         *)
(* persist() is part of the handlers that call it (variable persisted): it *)
(* hands the state to the Persister's stream, which is not yet the disk    *)
(* (RaftRestart).                                                          *)
(* myAssert ends the process: the node stays in exitSite forever.  Only    *)
(* assertions that can fail have an exit action; that the others hold is   *)
(* an invariant (RaftProperties).  Clocks are abstracted to                *)
(* nondeterminism: an election or a heartbeat timer may fire whenever its  *)
(* ticker would let it.                                                    *)
(***************************************************************************)
EXTENDS Integers, Sequences, FiniteSets

CONSTANTS
    Server,         \* the nodes of the cluster (m_peers, m_me included)
    Command,        \* the commands clients hand to Start
    Nobody,         \* m_votedFor = -1
    Candidates,     \* bound: the nodes whose election timer may fire
    MaxTerm,        \* bound: no election starts beyond this term
    MaxLogIndex,    \* bound: Start refuses commands beyond this index
    MaxSnapshotIndex, \* bound: the KvServer takes no snapshot beyond this index
    MaxInFlight     \* bound: RPCs in flight at one time in the cluster

ASSUME ServerAssumption == IsFiniteSet(Server) /\ Server # {}
ASSUME CandidatesAssumption == Candidates \subseteq Server
ASSUME NobodyAssumption == Nobody \notin Server
ASSUME BoundsAssumption == MaxTerm \in Nat /\ MaxLogIndex \in Nat
                            /\ MaxSnapshotIndex \in Nat /\ MaxInFlight \in Nat

VARIABLES
    m_currentTerm, m_votedFor, m_status,
    m_logs, m_lastSnapshotIncludeIndex, m_lastSnapshotIncludeTerm,
    m_commitIndex, m_lastApplied,
    m_nextIndex, m_matchIndex,
    votedNum,       \* the counter doElection shares with its vote threads
    appendNums,     \* per heartbeat round, the counter its threads share
    persisted,      \* what the last persist() of the node handed to its Persister
    applyMsgs,      \* history: every ApplyMsg the node handed to its KvServer
    exitSite,       \* "none", or the assertion that ended the process
    rpcs,           \* RPCs in flight, as requests or as replies
    votes           \* history: every <<voter, term, candidate>> cast

voteVars   == <<m_currentTerm, m_votedFor, m_status, votes>>
logVars    == <<m_logs, m_lastSnapshotIncludeIndex, m_lastSnapshotIncludeTerm>>
applyVars  == <<m_commitIndex, m_lastApplied, applyMsgs>>
leaderVars == <<m_nextIndex, m_matchIndex, appendNums>>
vars == <<voteVars, votedNum, logVars, applyVars, leaderVars, persisted, exitSite, rpcs>>

---------------------------------------------------------------------------
(* Indices and terms of a node's log.                                      *)

Round == 1..MaxInFlight     \* names of a node's heartbeat rounds in flight
NoHint == -100              \* updatenextindex of a stale leader's rejection

Larger(a, b) == IF a >= b THEN a ELSE b
Smaller(a, b) == IF a <= b THEN a ELSE b
Largest(S) == CHOOSE x \in S : \A y \in S : y <= x

LastLogIndex(i) ==
    IF m_logs[i] = <<>> THEN m_lastSnapshotIncludeIndex[i]
    ELSE m_logs[i][Len(m_logs[i])].logindex

LastLogTerm(i) ==
    IF m_logs[i] = <<>> THEN m_lastSnapshotIncludeTerm[i]
    ELSE m_logs[i][Len(m_logs[i])].logterm

\* Position of a log index in m_logs (1-based here, 0-based in the code).
SlicesIndex(i, k) == k - m_lastSnapshotIncludeIndex[i]

LogTermAt(i, k) ==
    IF k = m_lastSnapshotIncludeIndex[i] THEN m_lastSnapshotIncludeTerm[i]
    ELSE m_logs[i][SlicesIndex(i, k)].logterm

UpToDate(i, index, term) ==
    \/ term > LastLogTerm(i)
    \/ term = LastLogTerm(i) /\ index >= LastLogIndex(i)

Majority(n) == n >= (Cardinality(Server) \div 2) + 1

\* Deliberately wrong: a vote or success counter that keeps its majority.
Faulty_CountKept(n) == n

\* A vote or success counter that reaches the majority starts over at 0.
CounterAfter(n) == IF Majority(n) THEN 0 ELSE n

---------------------------------------------------------------------------
(* What handlers share.                                                    *)

Running(i) == exitSite[i] = "none"

PersistData(i) ==
    [term |-> m_currentTerm[i], votedFor |-> m_votedFor[i], logs |-> m_logs[i],
     snapIndex |-> m_lastSnapshotIncludeIndex[i], snapTerm |-> m_lastSnapshotIncludeTerm[i]]

\* Deliberately wrong: the handler saves before it changes the state.
Faulty_PersistTooEarly(i) == persisted' = [persisted EXCEPT ![i] = PersistData(i)]

\* Conjoined last: it saves the values the handler leaves behind, that is, hands
\* them to the stream of the Persister.
Persist(i) == persisted' = [persisted EXCEPT ![i] = PersistData(i)']

\* "Three changes": a larger term makes the node a follower without a vote.
StepDown(i, term) ==
    /\ m_currentTerm' = [m_currentTerm EXCEPT ![i] = term]
    /\ m_votedFor' = [m_votedFor EXCEPT ![i] = Nobody]
    /\ m_status' = [m_status EXCEPT ![i] = "Follower"]
    /\ UNCHANGED votes

\* Deliberately wrong: a heartbeat of the same term clears the vote.
Faulty_FollowForgetsVote(i, term) ==
    /\ m_currentTerm' = [m_currentTerm EXCEPT ![i] = term]
    /\ m_votedFor' = [m_votedFor EXCEPT ![i] = Nobody]
    /\ m_status' = [m_status EXCEPT ![i] = "Follower"]
    /\ UNCHANGED votes

\* The sender of a request of a term not below ours leads it: follow.
FollowLeader(i, term) ==
    /\ m_currentTerm' = [m_currentTerm EXCEPT ![i] = term]
    /\ m_votedFor' = [m_votedFor EXCEPT ![i] = IF term > m_currentTerm[i] THEN Nobody ELSE @]
    /\ m_status' = [m_status EXCEPT ![i] = "Follower"]
    /\ UNCHANGED votes

\* myAssert(false, ...): the process is gone, with its lock and its threads.
Exit(i, site) ==
    /\ exitSite' = [exitSite EXCEPT ![i] = site]
    /\ UNCHANGED <<voteVars, votedNum, logVars, applyVars, leaderVars, persisted>>

Request(r, kind) == r \in rpcs /\ r.kind = kind /\ Running(r.to)
Reply(r, kind) == r \in rpcs /\ r.kind = kind /\ Running(r.from)

Answer(r, reply) == rpcs' = (rpcs \ {r}) \cup {reply}
Finish(r) == rpcs' = rpcs \ {r}

RoundInUse(i, k, R) == \E r \in R : r.from = i /\ r.round = k

\* A round's counter is freed with the last thread that shares it.
LiveCounters(counters, R) ==
    [i \in Server |-> [k \in Round |->
        IF \E r \in R : r.kind \in {"AppendEntries", "AppendEntriesReply"} /\ r.from = i /\ r.round = k
        THEN counters[i][k] ELSE 0]]

---------------------------------------------------------------------------
InitialState == [term |-> 0, votedFor |-> Nobody, logs |-> <<>>, snapIndex |-> 0, snapTerm |-> 0]

Init ==
    /\ m_currentTerm = [i \in Server |-> 0]
    /\ m_votedFor = [i \in Server |-> Nobody]
    /\ m_status = [i \in Server |-> "Follower"]
    /\ m_logs = [i \in Server |-> <<>>]
    /\ m_lastSnapshotIncludeIndex = [i \in Server |-> 0]
    /\ m_lastSnapshotIncludeTerm = [i \in Server |-> 0]
    /\ m_commitIndex = [i \in Server |-> 0]
    /\ m_lastApplied = [i \in Server |-> 0]
    /\ m_nextIndex = [i \in Server |-> [j \in Server |-> 0]]
    /\ m_matchIndex = [i \in Server |-> [j \in Server |-> 0]]
    /\ votedNum = [i \in Server |-> 0]
    /\ appendNums = [i \in Server |-> [k \in Round |-> 0]]
    /\ persisted = [i \in Server |-> InitialState]
    /\ applyMsgs = [i \in Server |-> {}]
    /\ exitSite = [i \in Server |-> "none"]
    /\ rpcs = {}
    /\ votes = {}

---------------------------------------------------------------------------
(* Elections.                                                              *)

VoteRequest(i, j) ==
    [kind |-> "RequestVote", from |-> i, to |-> j, round |-> 0,
     term |-> m_currentTerm[i] + 1,
     lastLogIndex |-> LastLogIndex(i), lastLogTerm |-> LastLogTerm(i)]

VoteReply(r, term, granted) ==
    [kind |-> "RequestVoteReply", from |-> r.from, to |-> r.to, round |-> 0,
     term |-> term, granted |-> granted]

\* The election timer of i fires.  S: the peers whose RPC does not fail at once.
DoElection(i) ==
    /\ Running(i)
    /\ i \in Candidates
    /\ m_status[i] # "Leader"
    /\ m_currentTerm[i] < MaxTerm
    /\ m_status' = [m_status EXCEPT ![i] = "Candidate"]
    /\ m_currentTerm' = [m_currentTerm EXCEPT ![i] = @ + 1]
    /\ m_votedFor' = [m_votedFor EXCEPT ![i] = i]
    /\ votes' = votes \cup {<<i, m_currentTerm[i] + 1, i>>}
    /\ votedNum' = [votedNum EXCEPT ![i] = 1]
    /\ \E S \in SUBSET (Server \ {i}) :
        /\ Cardinality(rpcs) + Cardinality(S) <= MaxInFlight
        /\ rpcs' = rpcs \cup {VoteRequest(i, j) : j \in S}
    /\ UNCHANGED <<logVars, applyVars, leaderVars, exitSite>>
    /\ Persist(i)

\* The vote of r.to that stands when the request is examined.
EarlierVote(r) == IF r.term > m_currentTerm[r.to] THEN Nobody ELSE m_votedFor[r.to]

\* Deliberately wrong: an earlier vote of the term is not looked at.
Faulty_GrantsAnyone(r) ==
    /\ r.term >= m_currentTerm[r.to]
    /\ UpToDate(r.to, r.lastLogIndex, r.lastLogTerm)

GrantsVote(r) ==
    /\ r.term >= m_currentTerm[r.to]
    /\ UpToDate(r.to, r.lastLogIndex, r.lastLogTerm)
    /\ EarlierVote(r) \in {Nobody, r.from}

\* Peer r.to handles RequestVote.
HandleRequestVote(r) ==
    LET i == r.to
        newer == r.term > m_currentTerm[i]
        granted == GrantsVote(r)
        term == Larger(r.term, m_currentTerm[i])
    IN  /\ Request(r, "RequestVote")
        /\ m_currentTerm' = [m_currentTerm EXCEPT ![i] = term]
        /\ m_status' = [m_status EXCEPT ![i] = IF newer THEN "Follower" ELSE @]
        /\ m_votedFor' = [m_votedFor EXCEPT ![i] = IF granted THEN r.from ELSE EarlierVote(r)]
        /\ votes' = IF granted THEN votes \cup {<<i, term, r.from>>} ELSE votes
        /\ Answer(r, VoteReply(r, term, granted))
        /\ UNCHANGED <<votedNum, logVars, applyVars, leaderVars, exitSite>>
        /\ Persist(i)

\* sendRequestVote after the call: a reply of a larger term.
VoteReplyStepsDown(r) ==
    /\ Reply(r, "RequestVoteReply")
    /\ r.term > m_currentTerm[r.from]
    /\ StepDown(r.from, r.term)
    /\ Finish(r)
    /\ UNCHANGED <<votedNum, logVars, applyVars, leaderVars, exitSite>>
    /\ Persist(r.from)

VoteReplyIgnored(r) ==
    /\ Reply(r, "RequestVoteReply")
    /\ \/ r.term < m_currentTerm[r.from]
       \/ r.term = m_currentTerm[r.from] /\ ~r.granted
    /\ Finish(r)
    /\ UNCHANGED <<voteVars, votedNum, logVars, applyVars, leaderVars, exitSite, persisted>>

CountableVote(r) ==
    /\ Reply(r, "RequestVoteReply")
    /\ r.term = m_currentTerm[r.from]
    /\ r.granted

\* A vote that is not yet the majority.
CountVote(r) ==
    /\ CountableVote(r)
    /\ ~Majority(votedNum[r.from] + 1)
    /\ votedNum' = [votedNum EXCEPT ![r.from] = CounterAfter(@ + 1)]
    /\ Finish(r)
    /\ UNCHANGED <<voteVars, logVars, applyVars, leaderVars, exitSite, persisted>>

\* The vote that makes the majority.  The code does not ask whether the node is
\* still a candidate, and asserts that it does not already lead.
BecomeLeader(r) ==
    LET i == r.from
    IN  /\ CountableVote(r)
        /\ Majority(votedNum[i] + 1)
        /\ m_status' = [m_status EXCEPT ![i] = "Leader"]
        /\ votedNum' = [votedNum EXCEPT ![i] = CounterAfter(@ + 1)]
        /\ m_nextIndex' = [m_nextIndex EXCEPT ![i] = [j \in Server |-> LastLogIndex(i) + 1]]
        /\ m_matchIndex' = [m_matchIndex EXCEPT ![i] = [j \in Server |-> 0]]
        /\ Finish(r)
        /\ UNCHANGED <<m_currentTerm, m_votedFor, votes, appendNums, logVars, applyVars, exitSite>>
        /\ Persist(i)

---------------------------------------------------------------------------
(* Log replication.                                                        *)

\* Deliberately wrong: the term of the last entry instead of the current one.
Faulty_EntryOfLastTerm(i, command) ==
    [logterm |-> LastLogTerm(i), logindex |-> LastLogIndex(i) + 1, command |-> command]

NewEntry(i, command) ==
    [logterm |-> m_currentTerm[i], logindex |-> LastLogIndex(i) + 1, command |-> command]

\* Start: the KvServer hands a command to the leader.
Start(i, command) ==
    /\ Running(i)
    /\ m_status[i] = "Leader"
    /\ LastLogIndex(i) < MaxLogIndex
    /\ m_logs' = [m_logs EXCEPT ![i] = Append(@, NewEntry(i, command))]
    /\ UNCHANGED <<voteVars, votedNum, m_lastSnapshotIncludeIndex, m_lastSnapshotIncludeTerm,
                   applyVars, leaderVars, exitSite, rpcs>>
    /\ Persist(i)

\* The indices doHeartBeat asserts (nextIndex >= 1, and prevLogIndex in the log).
SendableIndex(i, j) == m_nextIndex[i][j] >= 1 /\ m_nextIndex[i][j] <= LastLogIndex(i) + 1

\* What doHeartBeat starts for a peer: AppendEntries with every entry from
\* nextIndex on, or a thread that will send the snapshot.
HeartBeatRpc(i, j, k) ==
    IF m_nextIndex[i][j] <= m_lastSnapshotIncludeIndex[i]
    THEN [kind |-> "SendSnapShot", from |-> i, to |-> j, round |-> k, term |-> 0]
    ELSE LET prev == m_nextIndex[i][j] - 1
         IN  [kind |-> "AppendEntries", from |-> i, to |-> j, round |-> k,
              term |-> m_currentTerm[i], prevLogIndex |-> prev, prevLogTerm |-> LogTermAt(i, prev),
              entries |-> SubSeq(m_logs[i], SlicesIndex(i, prev) + 1, Len(m_logs[i])),
              leaderCommit |-> m_commitIndex[i]]

\* Deliberately wrong: a node's rounds share one counter.
Faulty_SharedRound(i, k) == k = 1

\* A name no thread of an earlier round of i still uses, the least one.
FreeRound(i, k) ==
    /\ ~RoundInUse(i, k, rpcs)
    /\ \A q \in Round : q < k => RoundInUse(i, q, rpcs)

SpawnHeartBeats(i, S, k) ==
    /\ Cardinality(rpcs) + Cardinality(S) <= MaxInFlight
    /\ FreeRound(i, k)
    /\ rpcs' = rpcs \cup {HeartBeatRpc(i, j, k) : j \in S}

\* One round.  S: the peers whose RPC does not fail at once.
DoHeartBeat(i) ==
    /\ Running(i)
    /\ m_status[i] = "Leader"
    /\ \A j \in Server \ {i} : SendableIndex(i, j)
    /\ \E S \in SUBSET (Server \ {i}), k \in Round :
        /\ SpawnHeartBeats(i, S, k)
        /\ appendNums' = LiveCounters([appendNums EXCEPT ![i][k] = 1], rpcs')
    /\ UNCHANGED <<voteVars, votedNum, logVars, applyVars, m_nextIndex, m_matchIndex, exitSite, persisted>>

\* An assertion about one peer's index ends the process; threads already
\* started for peers before it in the loop may have sent their request.
HeartBeatExits(i) ==
    /\ Running(i)
    /\ m_status[i] = "Leader"
    /\ \E j \in Server \ {i} : ~SendableIndex(i, j)
    /\ \E S \in SUBSET {j \in Server \ {i} : SendableIndex(i, j)}, k \in Round :
        SpawnHeartBeats(i, S, k)
    /\ Exit(i, "doHeartBeat")

AppendReply(r, term, success, hint) ==
    [kind |-> "AppendEntriesReply", from |-> r.from, to |-> r.to, round |-> r.round,
     term |-> term, success |-> success, updateNextIndex |-> hint,
     match |-> r.prevLogIndex + Len(r.entries),
     lastEntryTerm |-> IF r.entries = <<>> THEN 0 ELSE r.entries[Len(r.entries)].logterm]

\* AppendEntries1 of a stale leader: no timer, no persist.
RejectStaleLeader(r) ==
    /\ Request(r, "AppendEntries")
    /\ r.term < m_currentTerm[r.to]
    /\ Answer(r, AppendReply(r, m_currentTerm[r.to], FALSE, NoHint))
    /\ UNCHANGED <<voteVars, votedNum, logVars, applyVars, leaderVars, exitSite, persisted>>

FromCurrentLeader(r) ==
    /\ Request(r, "AppendEntries")
    /\ r.term >= m_currentTerm[r.to]

\* The log ends before prevLogIndex.  The hint is built from the last TERM.
RejectGap(r) ==
    LET i == r.to
    IN  /\ FromCurrentLeader(r)
        /\ r.prevLogIndex > LastLogIndex(i)
        /\ FollowLeader(i, r.term)
        /\ Answer(r, AppendReply(r, r.term, FALSE, LastLogTerm(i) + 1))
        /\ UNCHANGED <<votedNum, logVars, applyVars, leaderVars, exitSite>>
        /\ Persist(i)

\* prevLogIndex lies inside the snapshot: the branch that prepares a rejection
\* does not return, and matchLog asserts that the index is in the log.
PrevInSnapshotExits(r) ==
    /\ FromCurrentLeader(r)
    /\ r.prevLogIndex < m_lastSnapshotIncludeIndex[r.to]
    /\ Finish(r)
    /\ Exit(r.to, "matchLog")

PrevInLog(r) ==
    /\ FromCurrentLeader(r)
    /\ r.prevLogIndex <= LastLogIndex(r.to)
    /\ r.prevLogIndex >= m_lastSnapshotIncludeIndex[r.to]

\* The entry of the request that belongs at position k of the follower's log.
Offered(r, k) == k + m_lastSnapshotIncludeIndex[r.to] - r.prevLogIndex

\* Deliberately wrong: where both have an entry, the follower's own one stays.
Faulty_KeepsOwnEntries(r) ==
    LET i == r.to
        own == Len(m_logs[i])
        offeredEnd == SlicesIndex(i, r.prevLogIndex) + Len(r.entries)
    IN  [k \in 1..Larger(own, offeredEnd) |-> IF k <= own THEN m_logs[i][k] ELSE r.entries[Offered(r, k)]]

\* The follower's log after the loop: an entry of another term is replaced in
\* place and what follows it stays; entries beyond the end are appended.
MergedLog(r) ==
    LET i == r.to
        own == Len(m_logs[i])
        offeredEnd == SlicesIndex(i, r.prevLogIndex) + Len(r.entries)
    IN  [k \in 1..Larger(own, offeredEnd) |->
            IF /\ Offered(r, k) \in 1..Len(r.entries)
               /\ k <= own => m_logs[i][k].logterm # r.entries[Offered(r, k)].logterm
            THEN r.entries[Offered(r, k)]
            ELSE m_logs[i][k]]

AppendMatching(r) ==
    LET i == r.to
    IN  /\ PrevInLog(r)
        /\ r.prevLogTerm = LogTermAt(i, r.prevLogIndex)
        /\ FollowLeader(i, r.term)
        /\ m_logs' = [m_logs EXCEPT ![i] = MergedLog(r)]
        /\ UNCHANGED <<votedNum, m_lastSnapshotIncludeIndex, m_lastSnapshotIncludeTerm,
                       m_lastApplied, applyMsgs, leaderVars, exitSite>>
        /\ m_commitIndex' = [m_commitIndex EXCEPT ![i] =
                IF r.leaderCommit > @ THEN Smaller(r.leaderCommit, LastLogIndex(i)') ELSE @]
        /\ Answer(r, AppendReply(r, r.term, TRUE, 0))
        /\ Persist(i)

\* The first index of the run of entries that shares prevLogIndex's term, or
\* prevLogIndex when the run reaches down to the snapshot.
BackedUpIndex(i, prev) ==
    LET otherTerm == {k \in m_lastSnapshotIncludeIndex[i]..prev : LogTermAt(i, k) # LogTermAt(i, prev)}
    IN  IF otherTerm = {} THEN prev ELSE Largest(otherTerm) + 1

RejectMismatch(r) ==
    LET i == r.to
    IN  /\ PrevInLog(r)
        /\ r.prevLogTerm # LogTermAt(i, r.prevLogIndex)
        /\ FollowLeader(i, r.term)
        /\ Answer(r, AppendReply(r, r.term, FALSE, BackedUpIndex(i, r.prevLogIndex)))
        /\ UNCHANGED <<votedNum, logVars, applyVars, leaderVars, exitSite>>
        /\ Persist(i)

FinishAppend(r, counters) ==
    /\ Finish(r)
    /\ appendNums' = LiveCounters(counters, rpcs \ {r})

\* sendAppendEntries after the call: a reply of a larger term.  Not persisted.
AppendReplyStepsDown(r) ==
    /\ Reply(r, "AppendEntriesReply")
    /\ r.term > m_currentTerm[r.from]
    /\ StepDown(r.from, r.term)
    /\ FinishAppend(r, appendNums)
    /\ UNCHANGED <<votedNum, logVars, applyVars, m_nextIndex, m_matchIndex, exitSite, persisted>>

ToCurrentLeader(r) ==
    /\ Reply(r, "AppendEntriesReply")
    /\ r.term = m_currentTerm[r.from]
    /\ m_status[r.from] = "Leader"

AppendReplyIgnored(r) ==
    /\ Reply(r, "AppendEntriesReply")
    /\ \/ r.term < m_currentTerm[r.from]
       \/ r.term = m_currentTerm[r.from] /\ m_status[r.from] # "Leader"
    /\ FinishAppend(r, appendNums)
    /\ UNCHANGED <<voteVars, votedNum, logVars, applyVars, m_nextIndex, m_matchIndex, exitSite, persisted>>

\* Deliberately wrong: the special value of a stale leader's rejection is taken.
Faulty_HintUnchecked(r) == r.updateNextIndex

NextIndexAfterRejection(r) ==
    IF r.updateNextIndex # NoHint THEN r.updateNextIndex ELSE m_nextIndex[r.from][r.to]

AppendRejected(r) ==
    /\ ToCurrentLeader(r)
    /\ ~r.success
    /\ m_nextIndex' = [m_nextIndex EXCEPT ![r.from][r.to] = NextIndexAfterRejection(r)]
    /\ FinishAppend(r, appendNums)
    /\ UNCHANGED <<voteVars, votedNum, logVars, applyVars, m_matchIndex, exitSite, persisted>>

\* Deliberately wrong: commits the leader's whole log instead of what was sent.
Faulty_CommitsWholeLog(r) ==
    IF r.lastEntryTerm # 0 /\ r.lastEntryTerm = m_currentTerm[r.from]
    THEN LastLogIndex(r.from) ELSE m_commitIndex[r.from]

\* The commit index after the success that makes a round's majority: only when
\* that very request carried entries and the last of them is of this term.
CommittedBy(r) ==
    LET i == r.from
    IN  IF r.lastEntryTerm # 0 /\ r.lastEntryTerm = m_currentTerm[i]
        THEN Larger(m_commitIndex[i], r.match) ELSE m_commitIndex[i]

AppendAccepted(r) ==
    LET i == r.from
        matched == Larger(m_matchIndex[i][r.to], r.match)
        acks == appendNums[i][r.round] + 1
    IN  /\ ToCurrentLeader(r)
        /\ r.success
        /\ m_matchIndex' = [m_matchIndex EXCEPT ![i][r.to] = matched]
        /\ m_nextIndex' = [m_nextIndex EXCEPT ![i][r.to] = matched + 1]
        /\ m_commitIndex' = [m_commitIndex EXCEPT ![i] = IF Majority(acks) THEN CommittedBy(r) ELSE @]
        /\ FinishAppend(r, [appendNums EXCEPT ![i][r.round] = CounterAfter(acks)])
        /\ UNCHANGED <<voteVars, votedNum, logVars, m_lastApplied, applyMsgs, exitSite, persisted>>

---------------------------------------------------------------------------
(* Applying and snapshots.                                                 *)

CommandMsg(i, k) == [valid |-> "Command", index |-> k, command |-> m_logs[i][SlicesIndex(i, k)].command]
SnapshotMsg(k) == [valid |-> "Snapshot", index |-> k]

\* Deliberately wrong: stops one short of the commit index.
Faulty_StopsOneShort(i) == (m_lastApplied[i] + 1)..(m_commitIndex[i] - 1)

\* The indices getApplyLogs turns into messages.
ToApply(i) == (m_lastApplied[i] + 1)..m_commitIndex[i]

\* One turn of applierTicker: everything committed and not yet applied.
Apply(i) ==
    /\ Running(i)
    /\ m_lastApplied[i] < m_commitIndex[i]
    /\ m_lastApplied' = [m_lastApplied EXCEPT ![i] = m_commitIndex[i]]
    /\ applyMsgs' = [applyMsgs EXCEPT ![i] =
            @ \cup {CommandMsg(i, k) : k \in ToApply(i)}]
    /\ UNCHANGED <<voteVars, votedNum, logVars, m_commitIndex, leaderVars, persisted, exitSite, rpcs>>

\* Deliberately wrong: one entry too many is dropped.
Faulty_DropsOneMore(i, index) == SubSeq(m_logs[i], SlicesIndex(i, index) + 2, Len(m_logs[i]))

\* The log without the entries a snapshot up to index covers.
LogAfter(i, index) == SubSeq(m_logs[i], SlicesIndex(i, index) + 1, Len(m_logs[i]))

\* Deliberately wrong: the snapshot does not count as applied.
Faulty_AppliedUnmoved(i, index) == m_lastApplied[i]

AppliedAfter(i, index) == Larger(m_lastApplied[i], index)

\* The KvServer snapshots after a command it was handed; the rejected calls
\* change nothing.
Snapshot(i, index) ==
    /\ Running(i)
    /\ \E msg \in applyMsgs[i] : msg.valid = "Command" /\ msg.index = index
    /\ index > m_lastSnapshotIncludeIndex[i]
    /\ index <= m_commitIndex[i]
    /\ m_lastSnapshotIncludeIndex' = [m_lastSnapshotIncludeIndex EXCEPT ![i] = index]
    /\ m_lastSnapshotIncludeTerm' = [m_lastSnapshotIncludeTerm EXCEPT ![i] = LogTermAt(i, index)]
    /\ m_logs' = [m_logs EXCEPT ![i] = LogAfter(i, index)]
    /\ m_commitIndex' = [m_commitIndex EXCEPT ![i] = Larger(@, index)]
    /\ m_lastApplied' = [m_lastApplied EXCEPT ![i] = AppliedAfter(i, index)]
    /\ UNCHANGED <<voteVars, votedNum, applyMsgs, leaderVars, exitSite, rpcs>>
    /\ Persist(i)

\* The snapshot thread gets the lock: it sends whatever term and snapshot the
\* node has now, and does not ask whether the node still leads.
LeaderSendSnapShot(r) ==
    LET i == r.from
    IN  /\ Reply(r, "SendSnapShot")
        /\ Answer(r, [kind |-> "InstallSnapshot", from |-> i, to |-> r.to, round |-> r.round,
                      term |-> m_currentTerm[i], snapIndex |-> m_lastSnapshotIncludeIndex[i],
                      snapTerm |-> m_lastSnapshotIncludeTerm[i]])
        /\ UNCHANGED <<voteVars, votedNum, logVars, applyVars, leaderVars, exitSite, persisted>>

\* A reply that never sets its term carries 0.
SnapshotReply(r, term) ==
    [kind |-> "InstallSnapshotReply", from |-> r.from, to |-> r.to, round |-> r.round,
     term |-> term, argsTerm |-> r.term, snapIndex |-> r.snapIndex]

RejectStaleSnapshotSender(r) ==
    /\ Request(r, "InstallSnapshot")
    /\ r.term < m_currentTerm[r.to]
    /\ Answer(r, SnapshotReply(r, m_currentTerm[r.to]))
    /\ UNCHANGED <<voteVars, votedNum, logVars, applyVars, leaderVars, exitSite, persisted>>

\* The snapshot is not newer than ours: only the term and the role change, and
\* only a larger term is persisted.
IgnoreOldSnapshot(r) ==
    LET i == r.to
    IN  /\ Request(r, "InstallSnapshot")
        /\ r.term >= m_currentTerm[i]
        /\ r.snapIndex <= m_lastSnapshotIncludeIndex[i]
        /\ FollowLeader(i, r.term)
        /\ Answer(r, SnapshotReply(r, 0))
        /\ UNCHANGED <<votedNum, logVars, applyVars, leaderVars, exitSite>>
        /\ IF r.term > m_currentTerm[i] THEN Persist(i) ELSE UNCHANGED persisted

\* Install it: what the log holds beyond the snapshot is kept unexamined.
InstallSnapshot(r) ==
    LET i == r.to
    IN  /\ Request(r, "InstallSnapshot")
        /\ r.term >= m_currentTerm[i]
        /\ r.snapIndex > m_lastSnapshotIncludeIndex[i]
        /\ FollowLeader(i, r.term)
        /\ m_logs' = [m_logs EXCEPT ![i] = LogAfter(i, r.snapIndex)]
        /\ m_lastSnapshotIncludeIndex' = [m_lastSnapshotIncludeIndex EXCEPT ![i] = r.snapIndex]
        /\ m_lastSnapshotIncludeTerm' = [m_lastSnapshotIncludeTerm EXCEPT ![i] = r.snapTerm]
        /\ m_commitIndex' = [m_commitIndex EXCEPT ![i] = Larger(@, r.snapIndex)]
        /\ m_lastApplied' = [m_lastApplied EXCEPT ![i] = AppliedAfter(i, r.snapIndex)]
        /\ applyMsgs' = [applyMsgs EXCEPT ![i] = @ \cup {SnapshotMsg(r.snapIndex)}]
        /\ Answer(r, SnapshotReply(r, r.term))
        /\ UNCHANGED <<votedNum, leaderVars, exitSite>>
        /\ Persist(i)

\* leaderSendSnapShot after the call.
SnapshotReplyIgnored(r) ==
    /\ Reply(r, "InstallSnapshotReply")
    /\ m_status[r.from] # "Leader" \/ m_currentTerm[r.from] # r.argsTerm
    /\ Finish(r)
    /\ UNCHANGED <<voteVars, votedNum, logVars, applyVars, leaderVars, exitSite, persisted>>

SnapshotReplyStepsDown(r) ==
    LET i == r.from
    IN  /\ Reply(r, "InstallSnapshotReply")
        /\ m_status[i] = "Leader" /\ m_currentTerm[i] = r.argsTerm
        /\ r.term > m_currentTerm[i]
        /\ StepDown(i, r.term)
        /\ Finish(r)
        /\ UNCHANGED <<votedNum, logVars, applyVars, leaderVars, exitSite>>
        /\ Persist(i)

\* Without the max of sendAppendEntries: a late reply moves matchIndex back.
SnapshotAccepted(r) ==
    LET i == r.from
    IN  /\ Reply(r, "InstallSnapshotReply")
        /\ m_status[i] = "Leader" /\ m_currentTerm[i] = r.argsTerm
        /\ r.term <= m_currentTerm[i]
        /\ m_matchIndex' = [m_matchIndex EXCEPT ![i][r.to] = r.snapIndex]
        /\ m_nextIndex' = [m_nextIndex EXCEPT ![i][r.to] = r.snapIndex + 1]
        /\ Finish(r)
        /\ UNCHANGED <<voteVars, votedNum, logVars, applyVars, appendNums, exitSite, persisted>>

EmptyReply(r) ==
    [kind |-> "InstallSnapshotReply", from |-> r.from, to |-> r.to, round |-> r.round, term |-> 0,
     argsTerm |-> IF r.kind = "InstallSnapshot" THEN r.term ELSE r.argsTerm, snapIndex |-> r.snapIndex]

\* The peer closes the connection before its answer is sent: recv returns 0 bytes,
\* and they parse as a reply without any field set, of a call that succeeded.
PeerCloses(r) ==
    /\ Reply(r, "InstallSnapshot") \/ Reply(r, "InstallSnapshotReply")
    /\ Answer(r, EmptyReply(r))
    /\ UNCHANGED <<voteVars, votedNum, logVars, applyVars, leaderVars, exitSite, persisted>>

---------------------------------------------------------------------------
\* The call returns false: request or reply lost, or the peer is gone.  An empty
\* reply to the other calls has the same effect: the caller's term is above its 0.
RpcFails(r) ==
    /\ FinishAppend(r, appendNums)
    /\ UNCHANGED <<voteVars, votedNum, logVars, applyVars, m_nextIndex, m_matchIndex, exitSite, persisted>>

NodeStep(i) ==
    \/ DoElection(i)
    \/ DoHeartBeat(i)
    \/ HeartBeatExits(i)
    \/ \E command \in Command : Start(i, command)
    \/ Apply(i)
    \/ \E index \in 1..MaxSnapshotIndex : Snapshot(i, index)

VoteStep(r) ==
    \/ HandleRequestVote(r)
    \/ VoteReplyStepsDown(r)
    \/ VoteReplyIgnored(r)
    \/ CountVote(r)
    \/ BecomeLeader(r)

AppendStep(r) ==
    \/ RejectStaleLeader(r)
    \/ RejectGap(r)
    \/ PrevInSnapshotExits(r)
    \/ AppendMatching(r)
    \/ RejectMismatch(r)
    \/ AppendReplyStepsDown(r)
    \/ AppendReplyIgnored(r)
    \/ AppendRejected(r)
    \/ AppendAccepted(r)

SnapshotStep(r) ==
    \/ LeaderSendSnapShot(r)
    \/ RejectStaleSnapshotSender(r)
    \/ IgnoreOldSnapshot(r)
    \/ InstallSnapshot(r)
    \/ SnapshotReplyIgnored(r)
    \/ SnapshotReplyStepsDown(r)
    \/ SnapshotAccepted(r)
    \/ PeerCloses(r)

Next ==
    \/ \E i \in Server : NodeStep(i)
    \/ \E r \in rpcs : VoteStep(r) \/ AppendStep(r) \/ SnapshotStep(r) \/ RpcFails(r)

Spec == Init /\ [][Next]_vars
===========================================================================
