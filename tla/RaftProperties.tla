-------------------------- MODULE RaftProperties --------------------------
(***************************************************************************)
(* What raft.cpp promises, stated over the module Raft.                    *)
(***************************************************************************)
EXTENDS Raft

Entry == [logterm : Nat, logindex : Nat, command : Command]
SavedState == [term : Nat, votedFor : Server \cup {Nobody}, logs : Seq(Entry), snapIndex : Nat, snapTerm : Nat]

\* RPCs by kind; every kind has from, to, round and term.
RequestVoteRpc ==
    [kind : {"RequestVote"}, from : Server, to : Server, round : {0}, term : Nat,
     lastLogIndex : Nat, lastLogTerm : Nat]
RequestVoteReplyRpc ==
    [kind : {"RequestVoteReply"}, from : Server, to : Server, round : {0}, term : Nat, granted : BOOLEAN]
AppendEntriesRpc ==
    [kind : {"AppendEntries"}, from : Server, to : Server, round : Round, term : Nat,
     prevLogIndex : Nat, prevLogTerm : Nat, entries : Seq(Entry), leaderCommit : Nat]
AppendEntriesReplyRpc ==
    [kind : {"AppendEntriesReply"}, from : Server, to : Server, round : Round, term : Nat, success : BOOLEAN,
     updateNextIndex : Nat \cup {NoHint}, match : Nat, lastEntryTerm : Nat]
SendSnapShotRpc ==
    [kind : {"SendSnapShot"}, from : Server, to : Server, round : Round, term : {0}]
InstallSnapshotRpc ==
    [kind : {"InstallSnapshot"}, from : Server, to : Server, round : Round, term : Nat,
     snapIndex : Nat, snapTerm : Nat]
InstallSnapshotReplyRpc ==
    [kind : {"InstallSnapshotReply"}, from : Server, to : Server, round : Round, term : Nat,
     argsTerm : Nat, snapIndex : Nat]

Rpc ==
    RequestVoteRpc \cup RequestVoteReplyRpc \cup AppendEntriesRpc \cup AppendEntriesReplyRpc
        \cup SendSnapShotRpc \cup InstallSnapshotRpc \cup InstallSnapshotReplyRpc

ApplyMsg == [valid : {"Command"}, index : Nat, command : Command] \cup [valid : {"Snapshot"}, index : Nat]

VoteTypes ==
    /\ m_currentTerm \in [Server -> Nat]
    /\ m_votedFor \in [Server -> Server \cup {Nobody}]
    /\ m_status \in [Server -> {"Follower", "Candidate", "Leader"}]
    /\ votes \subseteq Server \X Nat \X Server
    /\ votedNum \in [Server -> Nat]
LogTypes ==
    /\ m_logs \in [Server -> Seq(Entry)]
    /\ m_lastSnapshotIncludeIndex \in [Server -> Nat]
    /\ m_lastSnapshotIncludeTerm \in [Server -> Nat]
ApplyTypes ==
    /\ m_commitIndex \in [Server -> Nat]
    /\ m_lastApplied \in [Server -> Nat]
    /\ applyMsgs \in [Server -> SUBSET ApplyMsg]
LeaderTypes ==
    /\ m_nextIndex \in [Server -> [Server -> Nat]]
    /\ m_matchIndex \in [Server -> [Server -> Nat]]
    /\ appendNums \in [Server -> [Round -> Nat]]

\* Every variable stays in its type; in particular nextIndex never takes the
\* special value -100 that a stale leader's rejection carries.
TypeOK ==
    /\ VoteTypes
    /\ LogTypes
    /\ ApplyTypes
    /\ LeaderTypes
    /\ persisted \in [Server -> SavedState]
    /\ exitSite \in [Server -> {"none", "doHeartBeat", "matchLog"}]
    /\ rpcs \subseteq Rpc

---------------------------------------------------------------------------
(* Elections.                                                              *)

Leads(i) == Running(i) /\ m_status[i] = "Leader"

\* Two nodes never lead in the same term, however replies to one candidate's
\* requests are delayed and whatever the node has become when they are counted
\* (sendRequestVote does not ask whether it is still a candidate).
ElectionSafety ==
    \A i, j \in Server : Leads(i) /\ Leads(j) /\ m_currentTerm[i] = m_currentTerm[j] => i = j

\* The assertion of sendRequestVote: no vote still in flight can bring a leader
\* to a second majority of its term, so a late vote never ends its process.
NoSecondLeadership ==
    \A r \in rpcs : CountableVote(r) /\ Majority(votedNum[r.from] + 1) => m_status[r.from] # "Leader"

\* A node's term never falls and, within a term, a vote once given is kept, in
\* every handler that touches m_votedFor.
VoteStable ==
    [][\A i \in Server :
        /\ m_currentTerm'[i] >= m_currentTerm[i]
        /\ m_currentTerm'[i] = m_currentTerm[i] /\ m_votedFor[i] # Nobody => m_votedFor'[i] = m_votedFor[i]]_vars

\* Whether a saved state keeps what answer r promises: a granted vote, and the
\* last entry an accepted AppendEntries delivered (unless its term is over).
KeepsPromise(r, saved) ==
    /\ r.kind = "RequestVoteReply" /\ r.granted =>
        \/ saved.term > r.term
        \/ saved.term = r.term /\ saved.votedFor = r.from
    /\ r.kind = "AppendEntriesReply" /\ r.success /\ saved.term = r.term =>
        /\ saved.snapIndex + Len(saved.logs) >= r.match
        /\ r.match > saved.snapIndex /\ r.lastEntryTerm # 0 =>
            saved.logs[r.match - saved.snapIndex].logterm = r.lastEntryTerm

\* What an answer in flight promises has been handed to the Persister before, and
\* no later save of that term takes it back.  That is the order of saving and
\* answering; whether a file holds it is another question (RaftRestart).
PromisesSaved == \A r \in rpcs : KeepsPromise(r, persisted[r.to])

\* What makes ElectionSafety inductive.  Campaigned: i stood for election in term.
Campaigned(i, term) == <<i, term, i>> \in votes

\* A request for a vote, or an answer that grants it.
CarriesVote(r) == r.kind = "RequestVote" \/ (r.kind = "RequestVoteReply" /\ r.granted)

Awaited(i, j, term) ==
    \E r \in rpcs : CarriesVote(r) /\ r.from = i /\ r.to = j /\ r.term = term

\* The voters for i's current candidacy whose answer was counted, or is lost.
Settled(i) ==
    {j \in Server : <<j, m_currentTerm[i], i>> \in votes /\ ~Awaited(i, j, m_currentTerm[i])}

\* The voter still knows its last vote, and only nodes that campaigned got one.
VotesRecorded ==
    \A v \in votes :
        /\ v[2] <= m_currentTerm[v[1]]
        /\ v[2] = m_currentTerm[v[1]] => m_votedFor[v[1]] = v[3]
        /\ Campaigned(v[3], v[2])

OneVotePerTerm == \A v, w \in votes : v[1] = w[1] /\ v[2] = w[2] => v[3] = w[3]

VotesAskedFor ==
    \A r \in rpcs : CarriesVote(r) =>
        /\ r.from # r.to
        /\ Campaigned(r.from, r.term)
        /\ r.kind = "RequestVoteReply" => <<r.to, r.term, r.from>> \in votes

AskedOnce ==
    \A r, q \in rpcs :
        CarriesVote(r) /\ CarriesVote(q) /\ r.from = q.from /\ r.to = q.to /\ r.term = q.term => r = q

\* The votes a leader's counter has already been reset by.
Spent(i) == IF m_status[i] = "Leader" THEN (Cardinality(Server) \div 2) + 1 ELSE 0

VotesCountedOnce ==
    \A i \in Server :
        /\ m_status[i] = "Leader" => Campaigned(i, m_currentTerm[i])
        /\ Campaigned(i, m_currentTerm[i]) => votedNum[i] + Spent(i) <= Cardinality(Settled(i))

\* No vote is given twice, asked for twice or counted twice: what the counter
\* shared by the vote threads has counted are distinct voters of this very
\* candidacy, a counter left over from an earlier term can no longer be reached,
\* and after an election the counter starts again from the votes that are left.
ElectionInv == VotesRecorded /\ OneVotePerTerm /\ VotesAskedFor /\ AskedOnce /\ VotesCountedOnce

\* The ballots are the votes cast; a process that ended stays what it was.
LeadsTerm(i) == IF m_status[i] = "Leader" THEN m_currentTerm[i] ELSE 0

V == INSTANCE Voting WITH
        Node <- Server, Quorum <- {S \in SUBSET Server : Majority(Cardinality(S))}, Term <- 1..MaxTerm,
        ballots <- votes, leads <- [i \in Server |-> LeadsTerm(i)]

\* Elections implement Voting: whatever is lost or delayed, every vote a handler
\* gives is one the voter was free to give, and every leadership a vote thread
\* takes rests on the ballots of a majority for the term it takes it in.
ImplementsVoting == V!Spec

---------------------------------------------------------------------------
(* Logs.                                                                   *)

\* Index arithmetic is exact on every node: the entry at position k has log index
\* snapshot index + k, and snapshot <= applied <= committed <= last index, as the
\* assertions of getApplyLogs, AppendEntries1 and sendAppendEntries demand.
IndexOrder ==
    \A i \in Server :
        /\ \A k \in 1..Len(m_logs[i]) : m_logs[i][k].logindex = m_lastSnapshotIncludeIndex[i] + k
        /\ m_lastSnapshotIncludeIndex[i] <= m_lastApplied[i]
        /\ m_lastApplied[i] <= m_commitIndex[i]
        /\ m_commitIndex[i] <= LastLogIndex(i)

\* What a request or an answer says of its sender's log stays true of it while
\* it travels: entries carry the indices after prevLogIndex, and the sender's
\* log never ends before the last of them, whatever overwrites it meanwhile.
WithinSendersLog(r) ==
    /\ r.kind = "AppendEntries" =>
        /\ \A k \in 1..Len(r.entries) : r.entries[k].logindex = r.prevLogIndex + k
        /\ r.prevLogIndex + Len(r.entries) <= LastLogIndex(r.from)
    /\ r.kind = "AppendEntriesReply" => r.match <= LastLogIndex(r.from)

RequestsWithinLog == \A r \in rpcs : WithinSendersLog(r)

\* Every copy of an entry, in a log or on its way to a follower.
EntriesInFlight == UNION {{r.entries[k] : k \in 1..Len(r.entries)} : r \in {q \in rpcs : q.kind = "AppendEntries"}}
EntriesOf(i) == {m_logs[i][k] : k \in 1..Len(m_logs[i])}
Entries == EntriesInFlight \cup UNION {EntriesOf(i) : i \in Server}

\* Index and term identify the command: the contradiction AppendEntries1 asserts
\* against (raft.cpp:821-828) cannot arise, although a follower keeps the tail
\* of an older leader behind an entry it replaces.
EntryIdentity ==
    \A e, f \in Entries : e.logindex = f.logindex /\ e.logterm = f.logterm => e = f

\* While a node leads, in one term, its log only grows: no request and no
\* snapshot it receives makes it lose or change an entry and still lead.
LeaderAppendOnly ==
    [][\A i \in Server :
        m_status[i] = "Leader" /\ m_status'[i] = "Leader" =>
            /\ LastLogIndex(i)' >= LastLogIndex(i)
            /\ \A k \in (m_lastSnapshotIncludeIndex'[i] + 1)..LastLogIndex(i) :
                 k > m_lastSnapshotIncludeIndex[i] =>
                    m_logs'[i][k - m_lastSnapshotIncludeIndex'[i]] = m_logs[i][SlicesIndex(i, k)]]_vars

\* Whether j stores i's entry k (or has it in its snapshot), or has moved on to a
\* later term in which it may have been replaced.
StillHolds(j, i, k) ==
    \/ m_currentTerm[j] > m_currentTerm[i]
    \/ m_lastSnapshotIncludeIndex[j] >= k
    \/ /\ LastLogIndex(j) >= k
       /\ m_logs[j][SlicesIndex(j, k)] = m_logs[i][SlicesIndex(i, k)]

\* The entry up to which a leader believes a follower to agree with it, the
\* follower has: replies to AppendEntries that come late, from an earlier round or
\* from before the leader's log was compacted, never credit it with an entry it lacks,
\* and it loses none in the leader's term.  A reply to a snapshot sets the index to
\* one within the leader's snapshot, of which nothing is said here: a peer that
\* closes the connection gets that credit without the snapshot (PeerCloses).
\* Below that entry the follower's log may differ: matchLog compares one term
\* only, and tails of older leaders are kept.
MatchIndexTrue ==
    \A i, j \in Server :
        LET k == m_matchIndex[i][j]
        IN  Leads(i) /\ k > m_lastSnapshotIncludeIndex[i] => k <= LastLogIndex(i) /\ StillHolds(j, i, k)

\* A leader's own-term entry counts as committed only when a majority stores it:
\* the shared counter of a heartbeat round, its reset and rounds that overlap
\* never add up acknowledgements of different entries.
CommitOnMajority ==
    \A i \in Server :
        LET k == m_commitIndex[i]
        IN  Leads(i) /\ k > m_lastSnapshotIncludeIndex[i]
                /\ m_logs[i][SlicesIndex(i, k)].logterm = m_currentTerm[i] =>
                    Majority(Cardinality({j \in Server : StillHolds(j, i, k)}))

---------------------------------------------------------------------------
(* Applying.                                                               *)

GapFree(i) ==
    /\ \A k \in 1..m_lastApplied[i] : \E msg \in applyMsgs[i] :
            \/ msg.valid = "Command" /\ msg.index = k
            \/ msg.valid = "Snapshot" /\ msg.index >= k
    /\ \A msg \in applyMsgs[i] : msg.index <= m_lastApplied[i]
    /\ \A m1, m2 \in applyMsgs[i] :
            m1.valid = "Command" /\ m2.valid = "Command" /\ m1.index = m2.index => m1 = m2

\* The KvServer is handed every index up to m_lastApplied, as a command or under
\* a snapshot, nothing beyond it, and never two commands for one index.
AppliedWithoutGap == \A i \in Server : GapFree(i)

---------------------------------------------------------------------------
(* What comments and assertions of raft.cpp say, and the code does not do. *)

\* raft.cpp:337-341 and 714-717: a leader of the largest term holds every entry
\* some node knows to be committed (the up-to-date check is there for that).
LeaderCompleteness ==
    \A i, j \in Server :
        Leads(i) /\ (\A p \in Server : m_currentTerm[p] <= m_currentTerm[i]) =>
            \A k \in (m_lastSnapshotIncludeIndex[j] + 1)..m_commitIndex[j] :
                k > m_lastSnapshotIncludeIndex[i] =>
                    /\ k <= LastLogIndex(i)
                    /\ m_logs[i][SlicesIndex(i, k)] = m_logs[j][SlicesIndex(j, k)]

\* raft.cpp:697-699: nextIndex never exceeds the position after the leader's last
\* entry.
NextIndexInRange ==
    \A i, j \in Server : Leads(i) /\ i # j => m_nextIndex[i][j] <= LastLogIndex(i) + 1

\* raft.cpp:794-800: an AppendEntries whose prevLogIndex the follower has already
\* compacted is answered with a rejection; the follower does not stop over it.
OldPrevIsRejected == \A i \in Server : exitSite[i] # "matchLog"

===========================================================================
