------------------------------ MODULE KvServer ------------------------------
(***************************************************************************)
(* The replicated key-value service above Raft: the clerks and their       *)
(* retries, the RPC threads of KvServer::Get and KvServer::PutAppend with  *)
(* their wait channels, the thread that applies what Raft committed, the   *)
(* duplicate table, and the way of a snapshot through the Persister.       *)
(* One key is enough, as keys do not interact.  A value is the sequence of *)
(* the writes it was put together from; the empty one is a missing key.    *)
(*                                                                         *)
(* Raft is seen through its interface and keeps its promises here: the     *)
(* committed commands are a sequence that only grows, and a node elected   *)
(* holds all of it (Raft.tla says where the code falls short).  A node     *)
(* deposed goes on taking commands until it hears of the new leader, and   *)
(* the tail of a log behind what its leader sends stays, as in the code.   *)
(***************************************************************************)
EXTENDS Integers, Sequences, FiniteSets, SequencesExt

CONSTANTS
    NumServers,     \* servers of the clerk's list, numbered from 0
    Client,         \* clerks
    Setups,         \* the situations to look at, see Setup
    MaxRequests     \* bound: operations of one clerk

ASSUME ServersAssumption == NumServers \in Nat \ {0}
ASSUME RequestsAssumption == MaxRequests \in Nat

\* A situation: what the users of the clerks ask for, in order, whether the
\* servers take snapshots (m_maxRaftState is not -1), the servers that do not run,
\* and three bounds: commands in a log, changes of leader, and broken connections
\* of a clerk.
Setup == [program : [Client -> BoundedSeq({"Get", "Put", "Append"}, MaxRequests)],
          takesSnapshots : BOOLEAN,
          down : SUBSET (1 .. NumServers - 1), maxLog : Nat, maxElections : Nat, maxBreaks : Nat]
ASSUME SetupsAssumption == Setups \subseteq Setup

Server == 0 .. NumServers - 1

\* Deliberately wrong: runs off the end of the list.
Faulty_NextServer(s) == s + 1

NextServer(s) == (s + 1) % NumServers

NoOp == [kind |-> "None", client |-> "None", id |-> 0]
Op == [kind : {"Get", "Put", "Append"}, client : Client, id : 1 .. MaxRequests]
IsWrite(op) == op.kind \in {"Put", "Append"}
Idle == [pc |-> "idle", op |-> NoOp, index |-> 0]

VARIABLES
    setup,              \* the situation
    m_requestId,        \* clerk: number of its last operation
    m_recentLeaderId,   \* clerk: server that answered OK last
    request,            \* clerk: the operation it repeats until it is answered, or NoOp
    breaks,             \* clerk: connections it has lost; numbers its attempts
    since,              \* history: commands committed when the clerk began its operation
    calls,              \* calls on their way, being served, or answered and not yet read
    waitApplyCh,        \* server: log index -> queue of applied commands
    m_lastRequestId,    \* server: clerk -> last id executed
    m_skipList,         \* server: value of the key
    m_lastSnapShotRaftLogIndex,
    applying,           \* server: where the apply thread is
    exited,             \* servers whose process has ended
    executed,           \* history: writes the server has executed, in order
    log,                \* Raft: commands of a server's log
    leads,              \* Raft: servers that think they lead
    leader,             \* Raft: the last server elected
    elections,          \* Raft: number of elections
    committed,          \* Raft: the committed commands
    values,             \* history: the value after each of them, a write taken once
    lastApplied,        \* Raft: last index the applier has collected
    collected,          \* commands that were in applyChan when a snapshot was installed
    snapshots,          \* snapshot messages that the apply thread has not taken
    snapshotIndex,      \* Raft: m_lastSnapshotIncludeIndex
    snapshotFile,       \* Persister: what the snapshot file holds
    skipped,            \* history: servers whose apply thread never saw some command
    rolledBack          \* history: rolledBack[s], clerks whose last id went back at s

clerkVars == <<setup, m_requestId, m_recentLeaderId, request, breaks, since>>
storeVars == <<m_lastRequestId, m_skipList, executed, rolledBack>>
raftVars == <<log, leads, leader, elections, committed, values>>
applyVars == <<lastApplied, collected, applying, m_lastSnapShotRaftLogIndex, skipped>>
snapVars == <<snapshots, snapshotIndex, snapshotFile, exited>>
vars == <<clerkVars, calls, waitApplyCh, storeVars, raftVars, applyVars, snapVars>>

Init ==
    /\ setup \in Setups
    /\ m_requestId = [c \in Client |-> 0]
    /\ m_recentLeaderId = [c \in Client |-> 0]
    /\ request = [c \in Client |-> NoOp]
    /\ breaks = [c \in Client |-> 0]
    /\ since = [c \in Client |-> 0]
    /\ calls = {}
    /\ waitApplyCh = [s \in Server |-> <<>>]
    /\ m_lastRequestId = [s \in Server |-> [c \in Client |-> 0]]
    /\ m_skipList = [s \in Server |-> <<>>]
    /\ m_lastSnapShotRaftLogIndex = [s \in Server |-> 0]
    /\ applying = [s \in Server |-> Idle]
    /\ exited = setup.down
    /\ executed = [s \in Server |-> <<>>]
    /\ log = [s \in Server |-> <<>>]
    /\ leads = {0}
    /\ leader = 0
    /\ elections = 0
    /\ committed = <<>>
    /\ values = <<>>
    /\ lastApplied = [s \in Server |-> 0]
    /\ collected = [s \in Server |-> <<>>]
    /\ snapshots = [s \in Server |-> {}]
    /\ snapshotIndex = [s \in Server |-> 0]
    /\ snapshotFile = [s \in Server |-> "empty"]
    /\ skipped = {}
    /\ rolledBack = [s \in Server |-> {}]

-----------------------------------------------------------------------------
(* The clerk.  A call in phase "sent" has not reached Start; "replied" is an *)
(* answer the clerk has not read.  A call is awaited unless its connection   *)
(* broke: its thread on the server then goes on without a reader.            *)

NewCall(op, s, try) ==
    [op |-> op, server |-> s, try |-> try, phase |-> "sent", index |-> 0, err |-> "", value |-> <<>>]

Awaited(x) == x.op = request[x.op.client] /\ x.try = breaks[x.op.client]
Answered(x) == x.phase = "replied" /\ Awaited(x)

Call(c) ==
    /\ request[c] = NoOp /\ m_requestId[c] < Len(setup.program[c])
    /\ LET id == m_requestId[c] + 1
           op == [kind |-> setup.program[c][id], client |-> c, id |-> id]
       IN  /\ m_requestId' = [m_requestId EXCEPT ![c] = op.id]
           /\ request' = [request EXCEPT ![c] = op]
           /\ calls' = calls \cup {NewCall(op, m_recentLeaderId[c], breaks[c])}
    /\ since' = [since EXCEPT ![c] = Len(committed)]
    /\ UNCHANGED <<setup, m_recentLeaderId, breaks, waitApplyCh, storeVars, raftVars, applyVars, snapVars>>

\* The reply arrives: OK ends the loop and names the leader, ErrNoKey ends it
\* only, and after ErrWrongLeader or a failed call the next server is tried.
TakeReply(x) ==
    LET c == x.op.client
        again == x.err \in {"ErrWrongLeader", "failed"}
    IN  /\ Answered(x)
        /\ calls' = (calls \ {x}) \cup
                IF again THEN {NewCall(x.op, NextServer(x.server), x.try)} ELSE {}
        /\ request' = IF again THEN request ELSE [request EXCEPT ![c] = NoOp]
        /\ m_recentLeaderId' =
                IF x.err = "OK" THEN [m_recentLeaderId EXCEPT ![c] = x.server] ELSE m_recentLeaderId
        /\ UNCHANGED <<setup, m_requestId, breaks, since, waitApplyCh, storeVars, raftVars, applyVars, snapVars>>

\* The connection of an awaited call breaks.  A failed send or receive makes the
\* clerk go to the next server; an orderly close reads as an empty reply, with
\* no error text, and the clerk repeats the request at the same server.
Break(x) ==
    LET c == x.op.client
    IN  /\ Awaited(x) /\ breaks[c] < setup.maxBreaks
        /\ breaks' = [breaks EXCEPT ![c] = @ + 1]
        /\ \E s \in {x.server, NextServer(x.server)} :
                calls' = (IF x.phase = "replied" THEN calls \ {x} ELSE calls)
                            \cup {NewCall(x.op, s, breaks[c] + 1)}
        /\ UNCHANGED <<setup, m_requestId, m_recentLeaderId, request, since,
                       waitApplyCh, storeVars, raftVars, applyVars, snapVars>>

-----------------------------------------------------------------------------
(* The RPC threads.                                                          *)

MoveTo(x, y) == calls' = (calls \ {x}) \cup {y}
Reply(x, err, value) ==
    calls' = (calls \ {x}) \cup
        IF Awaited(x) THEN {[x EXCEPT !.phase = "replied", !.index = 0, !.err = err, !.value = value]} ELSE {}

\* Deliberately wrong: the index after the last committed one.
Faulty_IndexAfterCommit(s) == Len(committed) + 1

NewCommandIndex(s) == Len(log[s]) + 1

\* Raft::Start.  A full log counts as a lost leadership (bound maxLog); a
\* server that has ended refuses the connection.
Start(x) ==
    LET s == x.server
    IN  /\ x.phase = "sent"
        /\ CASE s \in exited -> Reply(x, "failed", <<>>) /\ UNCHANGED log
             [] s \notin exited /\ (s \notin leads \/ Len(log[s]) >= setup.maxLog) ->
                    Reply(x, "ErrWrongLeader", <<>>) /\ UNCHANGED log
             [] OTHER ->
                    /\ log' = [log EXCEPT ![s] = Append(@, x.op)]
                    /\ MoveTo(x, [x EXCEPT !.phase = "started", !.index = NewCommandIndex(s)])
        /\ UNCHANGED <<clerkVars, waitApplyCh, storeVars, leads, leader, elections, committed, values,
                       applyVars, snapVars>>

\* m_mtx is taken again: only now a notification finds the channel.
MakeChannel(x) ==
    /\ x.phase = "started"
    /\ waitApplyCh' =
            IF x.index \in DOMAIN waitApplyCh[x.server] THEN waitApplyCh
            ELSE [waitApplyCh EXCEPT ![x.server] =
                    [i \in DOMAIN @ \cup {x.index} |-> IF i = x.index THEN <<>> ELSE @[i]]]
    /\ MoveTo(x, [x EXCEPT !.phase = "waiting"])
    /\ UNCHANGED <<clerkVars, storeVars, raftVars, applyVars, snapVars>>

\* Deliberately wrong: whatever was applied at the index will do.
Faulty_AnyOp(x, op) == TRUE

\* Another leader may have put another command at the index.
IsOwnOp(x, op) == op.client = x.op.client /\ op.id = x.op.id

\* timeOutPop returns a command: is it the one of this call?
PopOp(x) ==
    /\ x.phase = "waiting"
    /\ waitApplyCh[x.server][x.index] # <<>>
    /\ LET op == Head(waitApplyCh[x.server][x.index])
       IN  MoveTo(x, CASE ~IsOwnOp(x, op) -> [x EXCEPT !.phase = "cleanup", !.err = "ErrWrongLeader"]
                       [] IsOwnOp(x, op) /\ IsWrite(x.op) -> [x EXCEPT !.phase = "cleanup", !.err = "OK"]
                       [] OTHER -> [x EXCEPT !.phase = "execute"])
    /\ waitApplyCh' = [waitApplyCh EXCEPT ![x.server][x.index] = Tail(@)]
    /\ UNCHANGED <<clerkVars, storeVars, raftVars, applyVars, snapVars>>

\* Deliberately wrong: the last request itself is not a duplicate.
Faulty_OnlyOlder(s, op) == op.id < m_lastRequestId[s][op.client]

ifRequestDuplicate(s, op) == op.id <= m_lastRequestId[s][op.client]

\* Deliberately wrong: Pop instead of timeOutPop.
Faulty_WaitsForEver(x) == FALSE

\* timeOutPop gives up, without a last look at the queue.  For a write the
\* duplicate table decides.
TimeOutPutAppend(x) ==
    /\ x.phase = "waiting" /\ IsWrite(x.op)
    /\ MoveTo(x, [x EXCEPT !.phase = "cleanup",
                           !.err = IF ifRequestDuplicate(x.server, x.op) THEN "OK" ELSE "ErrWrongLeader"])
    /\ UNCHANGED <<clerkVars, waitApplyCh, storeVars, raftVars, applyVars, snapVars>>

\* A Get first asks Raft whether this server leads ...
TimeOutGet(x) ==
    /\ x.phase = "waiting" /\ ~IsWrite(x.op)
    /\ MoveTo(x, IF x.server \in leads THEN [x EXCEPT !.phase = "timedOut"]
                 ELSE [x EXCEPT !.phase = "cleanup", !.err = "ErrWrongLeader"])
    /\ UNCHANGED <<clerkVars, waitApplyCh, storeVars, raftVars, applyVars, snapVars>>

\* Deliberately wrong: a leader answers at once.
Faulty_LeaderMayRead(x) == TRUE

\* Executed here before: the request has been through the log.
MayRepeatGet(x) == ifRequestDuplicate(x.server, x.op)

\* ... and is repeated only when it has been executed before.
RetryGet(x) ==
    /\ x.phase = "timedOut"
    /\ MoveTo(x, IF MayRepeatGet(x) THEN [x EXCEPT !.phase = "execute"]
                 ELSE [x EXCEPT !.phase = "cleanup", !.err = "ErrWrongLeader"])
    /\ UNCHANGED <<clerkVars, waitApplyCh, storeVars, raftVars, applyVars, snapVars>>

\* The RPC thread reads the store and sets the clerk's last id, whatever it was.
ExecuteGetOpOnKVDB(x) ==
    LET s == x.server
        c == x.op.client
    IN  /\ x.phase = "execute"
        /\ MoveTo(x, [x EXCEPT !.phase = "cleanup", !.value = m_skipList[s],
                               !.err = IF m_skipList[s] = <<>> THEN "ErrNoKey" ELSE "OK"])
        /\ m_lastRequestId' = [m_lastRequestId EXCEPT ![s][c] = x.op.id]
        /\ rolledBack' = IF x.op.id < m_lastRequestId[s][c]
                         THEN [rolledBack EXCEPT ![s] = @ \cup {c}] ELSE rolledBack
        /\ UNCHANGED <<clerkVars, waitApplyCh, m_skipList, executed, raftVars, applyVars, snapVars>>

\* The channel of the index is deleted, then the reply is sent.
Cleanup(x) ==
    /\ x.phase = "cleanup"
    /\ waitApplyCh' = [waitApplyCh EXCEPT ![x.server] =
                          [i \in DOMAIN @ \ {x.index} |-> @[i]]]
    /\ Reply(x, x.err, x.value)
    /\ UNCHANGED <<clerkVars, storeVars, raftVars, applyVars, snapVars>>

-----------------------------------------------------------------------------
(* The thread of ReadRaftApplyCommandLoop.                                   *)

\* getApplyLogs: the commands the applier of s can hand over after lastApplied.
Applicable(s) ==
    {i \in lastApplied[s] + 1 .. Len(committed) : IsPrefix(SubSeq(committed, 1, i), log[s])}
Commands(from, to) == [j \in 1 .. to - from |-> [index |-> from + j, op |-> committed[from + j]]]

\* A command is taken from the channel, compared with the snapshot index and
\* looked up in the duplicate table.  When the applier put it there only shows
\* when a snapshot jumps over it (InstallSnapshot), so the push is left implicit.
GetCommandFromRaft(s) ==
    /\ s \notin exited /\ applying[s] = Idle
    /\ \/ collected[s] # <<>> /\ UNCHANGED lastApplied
       \/ /\ collected[s] = <<>> /\ lastApplied[s] + 1 \in Applicable(s)
          /\ lastApplied' = [lastApplied EXCEPT ![s] = @ + 1]
    /\ LET channel == collected[s] \o Commands(lastApplied[s], lastApplied'[s])
           m == Head(channel)
           run == IsWrite(m.op) /\ ~ifRequestDuplicate(s, m.op)
       IN  /\ collected' = [collected EXCEPT ![s] = Tail(channel)]
           /\ IF m.index <= m_lastSnapShotRaftLogIndex[s]
              THEN skipped' = skipped \cup {s} /\ UNCHANGED applying
              ELSE /\ applying' = [applying EXCEPT ![s] =
                           [pc |-> IF run THEN "execute" ELSE "notify", op |-> m.op, index |-> m.index]]
                   /\ UNCHANGED skipped
    /\ UNCHANGED <<clerkVars, calls, waitApplyCh, storeVars, raftVars, m_lastSnapShotRaftLogIndex, snapVars>>

\* Deliberately wrong: Append replaces the value too.
Faulty_AppendOverwrites(value, op) == <<op>>

\* The value after a Put or an Append.
Written(value, op) == IF op.kind = "Put" THEN <<op>> ELSE Append(value, op)

ExecuteOp(s) ==
    LET op == applying[s].op
    IN  /\ s \notin exited /\ applying[s].pc = "execute"
        /\ m_skipList' = [m_skipList EXCEPT ![s] = Written(@, op)]
        /\ m_lastRequestId' = [m_lastRequestId EXCEPT ![s][op.client] = op.id]
        /\ executed' = [executed EXCEPT ![s] = Append(@, op)]
        /\ applying' = [applying EXCEPT ![s].pc = "notify"]
        /\ UNCHANGED <<clerkVars, calls, waitApplyCh, rolledBack, raftVars, lastApplied, collected,
                       m_lastSnapShotRaftLogIndex, skipped, snapVars>>

\* Raft::Snapshot with the archive of the store.  Whether the saved state is
\* large enough by now is left open.
IfNeedToSendSnapShotCommand(s, index) ==
    \/ UNCHANGED <<snapshotIndex, snapshotFile>>
    \/ /\ setup.takesSnapshots /\ index > snapshotIndex[s]
       /\ snapshotIndex' = [snapshotIndex EXCEPT ![s] = index]
       /\ snapshotFile' = [snapshotFile EXCEPT ![s] = "archive"]

\* The command goes into the channel of its index when there is one.
SendMessageToWaitChan(s) ==
    LET a == applying[s]
    IN  /\ s \notin exited /\ a.pc = "notify"
        /\ IfNeedToSendSnapShotCommand(s, a.index)
        /\ waitApplyCh' = IF a.index \in DOMAIN waitApplyCh[s]
                          THEN [waitApplyCh EXCEPT ![s][a.index] = Append(@, a.op)] ELSE waitApplyCh
        /\ applying' = [applying EXCEPT ![s] = Idle]
        /\ UNCHANGED <<clerkVars, calls, storeVars, raftVars, lastApplied, collected,
                       m_lastSnapShotRaftLogIndex, skipped, snapshots, exited>>

\* A snapshot is installed.  What arrives is never a whole archive: the first
\* word of one ends the process in the archive's constructor, and of an empty
\* string nothing is restored, but its index counts as restored.
GetSnapShotFromRaft(s, m) ==
    /\ s \notin exited /\ applying[s] = Idle
    /\ m \in snapshots[s]
    /\ snapshots' = [snapshots EXCEPT ![s] = @ \ {m}]
    /\ IF m.data = "empty"
       THEN /\ m_lastSnapShotRaftLogIndex' = [m_lastSnapShotRaftLogIndex EXCEPT ![s] = m.index]
            /\ UNCHANGED <<exited, calls, leads>>
       ELSE /\ exited' = exited \cup {s}
            /\ leads' = leads \ {s}
            /\ calls' = {x \in calls : x.server # s \/ x.phase \in {"sent", "replied"}} \cup
                    {[x EXCEPT !.phase = "replied", !.index = 0, !.err = "failed", !.value = <<>>] :
                        x \in {y \in calls : y.server = s /\ Awaited(y) /\ y.phase \notin {"sent", "replied"}}}
            /\ UNCHANGED m_lastSnapShotRaftLogIndex
    /\ UNCHANGED <<clerkVars, waitApplyCh, storeVars, log, leader, elections, committed, values,
                   lastApplied, collected, applying, skipped, snapshotIndex, snapshotFile>>

-----------------------------------------------------------------------------
(* Raft, as far as the service sees it.                                      *)

Elect(s) ==
    /\ elections < setup.maxElections /\ s # leader /\ s \notin exited
    /\ IsPrefix(committed, log[s])
    /\ leader' = s /\ leads' = leads \cup {s} /\ elections' = elections + 1
    /\ UNCHANGED <<clerkVars, calls, waitApplyCh, storeVars, log, committed, values, applyVars, snapVars>>

\* A server takes over the leader's entries and keeps its own behind them.
Overwritten(entries, old) == entries \o SubSeq(old, Len(entries) + 1, Len(old))

Replicate(s) ==
    /\ s # leader /\ {s, leader} \cap exited = {}
    /\ log' = [log EXCEPT ![s] = Overwritten(log[leader], @)]
    /\ leads' = leads \ {s}
    /\ UNCHANGED <<clerkVars, calls, waitApplyCh, storeVars, leader, elections, committed, values, applyVars, snapVars>>

Among(op, ops) == \E i \in DOMAIN ops : ops[i] = op

\* The value after the first k committed commands, and after one more.
ValueAt(k) == IF k = 0 THEN <<>> ELSE values[k]
ValueAfter(value, op) ==
    IF ~IsWrite(op) \/ Among(op, committed) THEN value
    ELSE IF op.kind = "Put" THEN <<op>> ELSE Append(value, op)

Commit ==
    /\ leader \notin exited /\ Len(committed) < Len(log[leader])
    /\ LET op == log[leader][Len(committed) + 1]
       IN  /\ committed' = Append(committed, op)
           /\ values' = Append(values, ValueAfter(ValueAt(Len(committed)), op))
    /\ UNCHANGED <<clerkVars, calls, waitApplyCh, storeVars, log, leads, leader, elections, applyVars, snapVars>>

\* Persister::ReadSnapshot returns the first word of the file, and the stream
\* it opens again empties the file.
FirstWord(file) == IF file = "empty" THEN "empty" ELSE "word"

\* leaderSendSnapShot reads the snapshot; the RPC may be lost.
SnapshotLost ==
    /\ leader \notin exited /\ snapshotIndex[leader] > 0 /\ snapshotFile[leader] # "empty"
    /\ snapshotFile' = [snapshotFile EXCEPT ![leader] = "empty"]
    /\ UNCHANGED <<clerkVars, calls, waitApplyCh, storeVars, raftVars, applyVars, snapshots, snapshotIndex, exited>>

\* Raft::InstallSnapshot at s, and the detached thread that pushes the message.
\* Some of the commands before it may be in the channel already.
InstallSnapshot(s) ==
    LET i == snapshotIndex[leader]
        data == FirstWord(snapshotFile[leader])
    IN  /\ s # leader /\ {s, leader} \cap exited = {}
        /\ i > snapshotIndex[s]
        /\ snapshotIndex' = [snapshotIndex EXCEPT ![s] = i]
        /\ snapshotFile' = [snapshotFile EXCEPT ![leader] = "empty", ![s] = data]
        /\ snapshots' = [snapshots EXCEPT ![s] = @ \cup {[index |-> i, data |-> data]}]
        /\ log' = [log EXCEPT ![s] = Overwritten(SubSeq(committed, 1, i), @)]
        /\ \E last \in {lastApplied[s]} \cup Applicable(s) :
              /\ collected' = [collected EXCEPT ![s] = @ \o Commands(lastApplied[s], last)]
              /\ lastApplied' = [lastApplied EXCEPT ![s] = IF last < i THEN i ELSE last]
              /\ skipped' = IF last < i THEN skipped \cup {s} ELSE skipped
        /\ leads' = leads \ {s}
        /\ UNCHANGED <<clerkVars, calls, waitApplyCh, storeVars, leader, elections, committed, values,
                       applying, m_lastSnapShotRaftLogIndex, exited>>

-----------------------------------------------------------------------------

ClerkStep(c) ==
    \/ Call(c)
    \/ \E x \in calls : x.op.client = c /\ (TakeReply(x) \/ Break(x))

ServeStep(x) ==
    \/ Start(x) \/ MakeChannel(x) \/ PopOp(x) \/ TimeOutPutAppend(x) \/ TimeOutGet(x)
    \/ RetryGet(x) \/ ExecuteGetOpOnKVDB(x) \/ Cleanup(x)

Serve(c) == \E x \in calls : x.op.client = c /\ ServeStep(x)

ApplyStep(s) ==
    \/ GetCommandFromRaft(s) \/ ExecuteOp(s) \/ SendMessageToWaitChan(s)
    \/ \E m \in snapshots[s] : GetSnapShotFromRaft(s, m)

RaftStep ==
    \/ Commit \/ SnapshotLost
    \/ \E s \in Server : Elect(s) \/ Replicate(s) \/ InstallSnapshot(s)

Next ==
    \/ \E c \in Client : ClerkStep(c) \/ Serve(c)
    \/ \E s \in Server : ApplyStep(s)
    \/ RaftStep

\* The threads of a server run, and timeOutPop has a deadline.  Nothing is
\* assumed of Raft, of the apply thread or of the network.
Spec == Init /\ [][Next]_vars /\ \A c \in Client : WF_vars(Serve(c))
-----------------------------------------------------------------------------
(* Properties.                                                               *)

Phases == {"sent", "started", "waiting", "timedOut", "execute", "cleanup", "replied"}

\* Every variable keeps its type.
TypeOK ==
    /\ setup \in Setups
    /\ m_requestId \in [Client -> 0 .. MaxRequests]
    /\ m_recentLeaderId \in [Client -> Server]
    /\ request \in [Client -> Op \cup {NoOp}]
    /\ breaks \in [Client -> 0 .. setup.maxBreaks]
    /\ since \in [Client -> Nat]
    /\ \A x \in calls :
        /\ x.op \in Op /\ x.server \in Server /\ x.try \in 0 .. setup.maxBreaks
        /\ x.phase \in Phases /\ x.index \in 0 .. setup.maxLog
        /\ x.err \in {"", "OK", "ErrNoKey", "ErrWrongLeader", "failed"} /\ x.value \in Seq(Op)
    /\ \A s \in Server : \A i \in DOMAIN waitApplyCh[s] : i \in 1 .. setup.maxLog /\ waitApplyCh[s][i] \in Seq(Op)
    /\ m_lastRequestId \in [Server -> [Client -> 0 .. MaxRequests]]
    /\ m_skipList \in [Server -> Seq(Op)]
    /\ m_lastSnapShotRaftLogIndex \in [Server -> Nat]
    /\ applying \in [Server -> [pc : {"idle", "execute", "notify"}, op : Op \cup {NoOp}, index : Nat]]
    /\ exited \subseteq Server /\ leads \subseteq Server /\ leader \in Server /\ skipped \subseteq Server
    /\ log \in [Server -> Seq(Op)] /\ committed \in Seq(Op) /\ values \in Seq(Seq(Op)) /\ executed \in [Server -> Seq(Op)]
    /\ lastApplied \in [Server -> Nat] /\ snapshotIndex \in [Server -> Nat] /\ elections \in 0 .. setup.maxElections
    /\ collected \in [Server -> Seq([index : Nat, op : Op])]
    /\ \A s \in Server : snapshots[s] \subseteq [index : Nat, data : {"empty", "word"}]
    /\ snapshotFile \in [Server -> {"empty", "word", "archive"}]
    /\ rolledBack \in [Server -> SUBSET Client]

\* Threads that hold a channel of the server.
Holds(x) == x.phase \in {"waiting", "timedOut", "execute", "cleanup"}

\* A wait channel is looked up by log index alone and deleted by the thread that
\* is done with it: no two calls of a server may share an index, or one thread
\* would wait on a deleted channel (KvServer::Get and KvServer::PutAppend).
WaitChannelOwned ==
    \A x \in calls : x.phase \notin {"sent", "replied"} =>
        /\ Holds(x) => x.index \in DOMAIN waitApplyCh[x.server]
        /\ \A y \in calls : y # x /\ y.server = x.server /\ y.phase \notin {"sent", "replied"} =>
                y.index # x.index

Occurrences(ops, op) == Cardinality({i \in DOMAIN ops : ops[i] = op})

\* However often a request is sent, logged and committed, a server executes a
\* write once (ifRequestDuplicate).  The exception is a clerk whose last id went
\* back there, and only a Get does that whose connection broke: its thread goes
\* on, sets the id when the clerk has moved on, and nobody reads its answer.
WritesOnce ==
    \A s \in Server : \A op \in Op :
        Occurrences(executed[s], op) > 1 => op.client \in rolledBack[s] /\ breaks[op.client] > 0

\* Index of the last command the apply thread is done with.
AppliedTo(s) ==
    lastApplied[s] - Len(collected[s]) - (IF applying[s].pc = "execute" THEN 1 ELSE 0)

Intact(s) == s \notin skipped /\ rolledBack[s] = {}

\* A server's store is the committed commands up to the index it has applied,
\* each write taken once, so servers that applied the same index agree.
ReplicaMatchesLog ==
    \A s \in Server : Intact(s) => m_skipList[s] = ValueAt(AppliedTo(s))

\* A Get is answered with the value at some point of the committed sequence that
\* is not before the moment the clerk asked, also by a deposed leader, after a
\* timeout and after retries.
GetIsCurrent ==
    \A x \in calls : Answered(x) /\ x.op.kind = "Get" /\ x.err \in {"OK", "ErrNoKey"} /\ Intact(x.server) =>
        \E k \in since[x.op.client] .. Len(committed) : x.value = ValueAt(k)

\* A write that is answered with OK is committed, after a notification as after a
\* timeout, and while its clerk waits for it the server that answers has executed
\* it.  (A thread whose clerk has moved on may say OK where an installed snapshot
\* jumped over the write: then the duplicate table knows only the clerk's later id.)
AcknowledgedIsDone ==
    \A x \in calls : x.phase \in {"cleanup", "replied"} /\ IsWrite(x.op) /\ x.err = "OK" =>
        /\ Among(x.op, committed)
        /\ x.op = request[x.op.client] => Among(x.op, executed[x.server])

\* A call is answered or its connection breaks, although the notification may
\* come before the channel exists, or never: timeOutPop ends the wait.
CallAnswered ==
    \A c \in Client : (request[c] # NoOp) ~> (\E x \in calls : x.op.client = c /\ Answered(x))

\* kvServer.h:157 says that m_lastRequestId guarantees idempotence: a server that
\* remembers the last id of each client executes no write a second time.
IdempotentWrites ==
    \A s \in Server : \A op \in Op : Occurrences(executed[s], op) <= 1
=============================================================================
