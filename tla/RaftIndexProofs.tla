-------------------------- MODULE RaftIndexProofs --------------------------
(***************************************************************************)
(* Type correctness of Raft and the exactness of its index arithmetic,     *)
(* for every cluster, every set of commands and every value of the bounds. *)
(***************************************************************************)
EXTENDS RaftProperties, SequenceTheorems, FiniteSetTheorems, WellFoundedInduction, TLAPS

\* LogTermAt is only defined on indices of the log, so types need IndexOrder,
\* and a leader's commit index needs to know what answers may claim.
IndexInv == TypeOK /\ IndexOrder /\ RequestsWithinLog

---------------------------------------------------------------------------
(* Sequences and sets.                                                     *)

\* A log whose entries carry the indices after snap ends at snap + its length.
LEMMA LastEntry ==
    ASSUME NEW log \in Seq(Entry), NEW snap \in Nat,
           \A k \in 1..Len(log) : log[k].logindex = snap + k
    PROVE  (IF log = <<>> THEN snap ELSE log[Len(log)].logindex) = snap + Len(log)
BY EmptySeq, LenProperties

\* A function on 1..n is a sequence of length n.
LEMMA FunctionIsSeq ==
    ASSUME NEW S, NEW n \in Nat, NEW f \in [1..n -> S]
    PROVE  f \in Seq(S) /\ Len(f) = n
OBVIOUS

\* Largest picks the maximum of a bounded, nonempty set of naturals.
LEMMA LargestElement ==
    ASSUME NEW n \in Nat, NEW S \in SUBSET (0..n), S # {}
    PROVE  Largest(S) \in S /\ \A y \in S : y <= Largest(S)
<1> DEFINE Gaps == {n - x : x \in S}
<1>1. Gaps \subseteq Nat /\ Gaps # {}
  <2>1. PICK x \in S : TRUE
    OBVIOUS
  <2>2. n - x \in Gaps
    OBVIOUS
  <2> QED BY <2>2
<1>2. PICK g \in Gaps : \A h \in Gaps : ~(<<h, g>> \in OpToRel(<, Nat))
  <2> HIDE DEF Gaps
  <2> QED BY <1>1, NatLessThanWellFounded, WFMin
<1>3. \A h \in Gaps : g <= h
  <2>1. ASSUME NEW h \in Gaps, h < g PROVE FALSE
    <3>1. h \in Nat /\ g \in Nat
      BY <1>1
    <3>2. <<h, g>> \in OpToRel(<, Nat)
      BY <3>1, <2>1 DEF OpToRel
    <3> QED BY <3>2, <1>2
  <2> QED BY <2>1, <1>1
<1>4. n - g \in S /\ \A y \in S : y <= n - g
  BY <1>3
<1> QED BY <1>4 DEF Largest

\* The kind of an RPC says which fields it has.
LEMMA RpcFields ==
    ASSUME NEW r \in Rpc
    PROVE  /\ r.from \in Server /\ r.to \in Server /\ r.term \in Nat
           /\ r.kind = "RequestVote" => r \in RequestVoteRpc
           /\ r.kind = "RequestVoteReply" => r \in RequestVoteReplyRpc
           /\ r.kind = "AppendEntries" => r \in AppendEntriesRpc
           /\ r.kind = "AppendEntriesReply" => r \in AppendEntriesReplyRpc
           /\ r.kind = "SendSnapShot" => r \in SendSnapShotRpc
           /\ r.kind = "InstallSnapshot" => r \in InstallSnapshotRpc
           /\ r.kind = "InstallSnapshotReply" => r \in InstallSnapshotReplyRpc
BY DEF Rpc, RequestVoteRpc, RequestVoteReplyRpc, AppendEntriesRpc, AppendEntriesReplyRpc,
       SendSnapShotRpc, InstallSnapshotRpc, InstallSnapshotReplyRpc

---------------------------------------------------------------------------
(* A node's log in a state of the invariant.                               *)

\* The log ends at snapshot index + length, and its last term is a natural.
LEMMA LogShape ==
    ASSUME TypeOK, IndexOrder, NEW i \in Server
    PROVE  /\ m_logs[i] \in Seq(Entry) /\ Len(m_logs[i]) \in Nat
           /\ m_lastSnapshotIncludeIndex[i] \in Nat
           /\ LastLogIndex(i) = m_lastSnapshotIncludeIndex[i] + Len(m_logs[i])
           /\ LastLogIndex(i) \in Nat
           /\ LastLogTerm(i) \in Nat
<1>1. m_logs[i] \in Seq(Entry) /\ m_lastSnapshotIncludeIndex[i] \in Nat /\ m_lastSnapshotIncludeTerm[i] \in Nat
  BY DEF TypeOK, LogTypes
<1>2. Len(m_logs[i]) \in Nat
  BY <1>1, LenProperties
<1>3. LastLogIndex(i) = m_lastSnapshotIncludeIndex[i] + Len(m_logs[i])
  BY <1>1, LastEntry DEF LastLogIndex, IndexOrder
<1>4. m_logs[i] # <<>> => m_logs[i][Len(m_logs[i])] \in Entry
  BY <1>1, EmptySeq, ElementOfSeq
<1>5. LastLogTerm(i) \in Nat
  BY <1>1, <1>4 DEF LastLogTerm, Entry
<1> QED BY <1>1, <1>2, <1>3, <1>5

\* Between the snapshot and the end of the log, every index has a term.
LEMMA TermOfIndex ==
    ASSUME TypeOK, IndexOrder, NEW i \in Server,
           NEW k \in m_lastSnapshotIncludeIndex[i]..LastLogIndex(i)
    PROVE  LogTermAt(i, k) \in Nat
<1>1. m_lastSnapshotIncludeTerm[i] \in Nat
  BY DEF TypeOK, LogTypes
<1>2. k # m_lastSnapshotIncludeIndex[i] => m_logs[i][SlicesIndex(i, k)] \in Entry
  BY LogShape, ElementOfSeq DEF SlicesIndex
<1> QED BY <1>1, <1>2 DEF LogTermAt, Entry

\* Dropping the entries up to an index beyond the snapshot leaves a log whose
\* entries carry the indices after it.
LEMMA SuffixOfLog ==
    ASSUME TypeOK, IndexOrder, NEW i \in Server, NEW index \in Nat,
           index >= m_lastSnapshotIncludeIndex[i]
    PROVE  LET suffix == SubSeq(m_logs[i], SlicesIndex(i, index) + 1, Len(m_logs[i]))
           IN  /\ suffix \in Seq(Entry)
               /\ Len(suffix) = IF index <= LastLogIndex(i) THEN LastLogIndex(i) - index ELSE 0
               /\ \A k \in 1..Len(suffix) : suffix[k].logindex = index + k
<1> DEFINE first == SlicesIndex(i, index) + 1
           n == Len(m_logs[i])
           suffix == SubSeq(m_logs[i], first, n)
<1>1. first \in Nat /\ first >= 1 /\ n \in Nat /\ first = index - m_lastSnapshotIncludeIndex[i] + 1
  BY LogShape DEF SlicesIndex
<1>2. \A k \in first..n : m_logs[i][k] \in Entry
  BY <1>1, LogShape, ElementOfSeq
<1>3. /\ suffix \in Seq(Entry)
      /\ Len(suffix) = IF first <= n THEN n - first + 1 ELSE 0
      /\ \A k \in 1..(n - first + 1) : suffix[k] = m_logs[i][first + k - 1]
  BY <1>1, <1>2, SubSeqProperties
<1>4. Len(suffix) = IF index <= LastLogIndex(i) THEN LastLogIndex(i) - index ELSE 0
  <2>1. /\ m_lastSnapshotIncludeIndex[i] \in Nat /\ LastLogIndex(i) = m_lastSnapshotIncludeIndex[i] + n
    BY LogShape
  <2>2. Len(suffix) = IF first <= n THEN n - first + 1 ELSE 0
    BY <1>3
  <2> HIDE DEF suffix, first, n
  <2> QED BY <1>1, <2>1, <2>2
<1>5. ASSUME NEW k \in 1..Len(suffix) PROVE suffix[k].logindex = index + k
  <2>1. k \in 1..(n - first + 1) /\ first + k - 1 \in 1..n
    BY <1>1, <1>3
  <2>2. m_logs[i][first + k - 1].logindex = m_lastSnapshotIncludeIndex[i] + (first + k - 1)
    BY <2>1 DEF IndexOrder
  <2>3. suffix[k] = m_logs[i][first + k - 1]
    BY <1>3, <2>1
  <2>4. m_lastSnapshotIncludeIndex[i] + (first + k - 1) = index + k
    <3>1. m_lastSnapshotIncludeIndex[i] \in Nat
      BY LogShape
    <3>2. k \in Int
      BY <2>1, <1>1
    <3> QED BY <1>1, <3>1, <3>2
  <2> QED BY <2>2, <2>3, <2>4
<1> HIDE DEF suffix
<1>6. suffix \in Seq(Entry)
  BY <1>3
<1>7. QED
  BY <1>4, <1>5, <1>6 DEF suffix

---------------------------------------------------------------------------
(* What handlers share keeps the types.                                    *)

LEMMA PersistKeepsType ==
    ASSUME TypeOK, VoteTypes', LogTypes', NEW i \in Server, Persist(i)
    PROVE  persisted' \in [Server -> SavedState]
<1>1. PersistData(i)' \in SavedState
  BY DEF PersistData, SavedState, VoteTypes, LogTypes
<1> QED BY <1>1 DEF Persist, TypeOK

LEMMA StepDownKeepsType ==
    ASSUME TypeOK, NEW i \in Server, NEW term \in Nat, UNCHANGED votedNum,
           StepDown(i, term) \/ FollowLeader(i, term)
    PROVE  VoteTypes'
BY DEF TypeOK, VoteTypes, StepDown, FollowLeader

LEMMA LiveCountersType ==
    ASSUME NEW counters \in [Server -> [Round -> Nat]], NEW R
    PROVE  LiveCounters(counters, R) \in [Server -> [Round -> Nat]]
BY DEF LiveCounters

\* A step that leaves the log and the applied state alone.
LEMMA WithoutLogChange ==
    ASSUME IndexInv, UNCHANGED <<logVars, applyVars>>,
           VoteTypes', LeaderTypes', persisted' \in [Server -> SavedState],
           exitSite' \in [Server -> {"none", "doHeartBeat", "matchLog"}],
           \A r \in rpcs' : r \in rpcs \/ (r \in Rpc /\ WithinSendersLog(r))
    PROVE  IndexInv'
<1>1. TypeOK'
  BY DEF IndexInv, TypeOK, logVars, applyVars, LogTypes, ApplyTypes
<1>2. \A i : LastLogIndex(i)' = LastLogIndex(i)
  BY DEF LastLogIndex, logVars
<1>3. IndexOrder'
  BY <1>2 DEF IndexInv, IndexOrder, logVars, applyVars
<1>4. \A r : WithinSendersLog(r)' <=> WithinSendersLog(r)
  BY <1>2 DEF WithinSendersLog
<1>5. RequestsWithinLog'
  BY <1>4 DEF IndexInv, RequestsWithinLog
<1> QED BY <1>1, <1>3, <1>5 DEF IndexInv

\* A step that also leaves every role, vote and index alone, and adds one answer.
LEMMA AnswerOnly ==
    ASSUME IndexInv, NEW r \in rpcs, NEW answer \in Rpc, WithinSendersLog(answer),
           Answer(r, answer),
           UNCHANGED <<voteVars, votedNum, logVars, applyVars, leaderVars, persisted, exitSite>>
    PROVE  IndexInv'
<1>1. VoteTypes' /\ LeaderTypes'
  BY DEF IndexInv, TypeOK, VoteTypes, LeaderTypes, voteVars, leaderVars
<1>2. \A q \in rpcs' : q \in rpcs \/ (q \in Rpc /\ WithinSendersLog(q))
  BY DEF Answer
<1>3. persisted' \in [Server -> SavedState] /\ exitSite' \in [Server -> {"none", "doHeartBeat", "matchLog"}]
  BY DEF IndexInv, TypeOK
<1> QED BY <1>1, <1>2, <1>3, WithoutLogChange

---------------------------------------------------------------------------
(* Elections.                                                              *)

LEMMA DoElectionKeepsIndexInv ==
    ASSUME IndexInv, NEW i \in Server, DoElection(i)
    PROVE  IndexInv'
<1>1. VoteTypes'
  BY DEF DoElection, IndexInv, TypeOK, VoteTypes
<1>2. LogTypes' /\ LeaderTypes'
  BY DEF DoElection, IndexInv, TypeOK, LogTypes, LeaderTypes, logVars, leaderVars
<1>3. persisted' \in [Server -> SavedState]
  BY <1>1, <1>2, PersistKeepsType DEF DoElection, IndexInv
<1>4. \A j \in Server : VoteRequest(i, j) \in Rpc /\ WithinSendersLog(VoteRequest(i, j))
  <2>1. m_currentTerm[i] + 1 \in Nat /\ LastLogIndex(i) \in Nat /\ LastLogTerm(i) \in Nat
    <3>1. m_currentTerm[i] + 1 \in Nat
      BY DEF IndexInv, TypeOK, VoteTypes
    <3> QED BY <3>1, LogShape DEF IndexInv
  <2>2. \A j \in Server : VoteRequest(i, j) \in RequestVoteRpc
    BY <2>1 DEF VoteRequest, RequestVoteRpc
  <2>3. \A j \in Server : VoteRequest(i, j).kind = "RequestVote"
    BY DEF VoteRequest
  <2> QED BY <2>2, <2>3 DEF Rpc, WithinSendersLog
<1>5. \A r \in rpcs' : r \in rpcs \/ (r \in Rpc /\ WithinSendersLog(r))
  BY <1>4 DEF DoElection
<1> QED BY <1>1, <1>2, <1>3, <1>5, WithoutLogChange DEF DoElection, IndexInv, TypeOK

LEMMA HandleRequestVoteKeepsIndexInv ==
    ASSUME IndexInv, NEW r \in rpcs, HandleRequestVote(r)
    PROVE  IndexInv'
<1> DEFINE term == Larger(r.term, m_currentTerm[r.to])
           granted == GrantsVote(r)
<1>0. r \in Rpc /\ r.from \in Server /\ r.to \in Server /\ r.term \in Nat
  BY RpcFields DEF IndexInv, TypeOK
<1>1. term \in Nat /\ granted \in BOOLEAN
  BY <1>0 DEF Larger, GrantsVote, IndexInv, TypeOK, VoteTypes
<1>2. EarlierVote(r) \in Server \cup {Nobody}
  BY <1>0 DEF EarlierVote, IndexInv, TypeOK, VoteTypes
<1>3. VoteTypes'
  <2>1. /\ m_currentTerm' = [m_currentTerm EXCEPT ![r.to] = term]
        /\ m_status' = [m_status EXCEPT ![r.to] = IF r.term > m_currentTerm[r.to] THEN "Follower" ELSE @]
        /\ m_votedFor' = [m_votedFor EXCEPT ![r.to] = IF granted THEN r.from ELSE EarlierVote(r)]
        /\ votes' = IF granted THEN votes \cup {<<r.to, term, r.from>>} ELSE votes
        /\ votedNum' = votedNum
    BY DEF HandleRequestVote
  <2> HIDE DEF term, granted
  <2> QED BY <1>0, <1>1, <1>2, <2>1 DEF IndexInv, TypeOK, VoteTypes
<1>4. LogTypes' /\ LeaderTypes'
  BY DEF HandleRequestVote, IndexInv, TypeOK, LogTypes, LeaderTypes, logVars, leaderVars
<1>5. persisted' \in [Server -> SavedState]
  BY <1>0, <1>3, <1>4, PersistKeepsType DEF HandleRequestVote, IndexInv
<1>6. rpcs' = (rpcs \ {r}) \cup {VoteReply(r, term, granted)}
  BY DEF HandleRequestVote, Answer
<1>7. VoteReply(r, term, granted) \in Rpc /\ WithinSendersLog(VoteReply(r, term, granted))
  <2> HIDE DEF term, granted
  <2> QED BY <1>0, <1>1 DEF VoteReply, Rpc, RequestVoteReplyRpc, WithinSendersLog
<1>8. \A q \in rpcs' : q \in rpcs \/ (q \in Rpc /\ WithinSendersLog(q))
  BY <1>6, <1>7
<1> QED BY <1>3, <1>4, <1>5, <1>8, WithoutLogChange DEF HandleRequestVote, IndexInv, TypeOK

LEMMA VoteReplyStepsDownKeepsIndexInv ==
    ASSUME IndexInv, NEW r \in rpcs, VoteReplyStepsDown(r)
    PROVE  IndexInv'
<1>0. r.from \in Server /\ r.term \in Nat
  BY RpcFields DEF IndexInv, TypeOK
<1>1. VoteTypes'
  BY <1>0, StepDownKeepsType DEF VoteReplyStepsDown, IndexInv
<1>2. LogTypes' /\ LeaderTypes'
  BY DEF VoteReplyStepsDown, IndexInv, TypeOK, LogTypes, LeaderTypes, logVars, leaderVars
<1>3. persisted' \in [Server -> SavedState]
  BY <1>0, <1>1, <1>2, PersistKeepsType DEF VoteReplyStepsDown, IndexInv
<1>4. rpcs' \subseteq rpcs
  BY DEF VoteReplyStepsDown, Finish
<1> QED BY <1>1, <1>2, <1>3, <1>4, WithoutLogChange DEF VoteReplyStepsDown, IndexInv, TypeOK

LEMMA VoteReplyIgnoredKeepsIndexInv ==
    ASSUME IndexInv, NEW r \in rpcs, VoteReplyIgnored(r)
    PROVE  IndexInv'
<1>1. VoteTypes' /\ LeaderTypes'
  BY DEF VoteReplyIgnored, IndexInv, TypeOK, VoteTypes, LeaderTypes, voteVars, leaderVars
<1>2. rpcs' \subseteq rpcs
  BY DEF VoteReplyIgnored, Finish
<1> QED BY <1>1, <1>2, WithoutLogChange DEF VoteReplyIgnored, IndexInv, TypeOK

LEMMA CountVoteKeepsIndexInv ==
    ASSUME IndexInv, NEW r \in rpcs, CountVote(r)
    PROVE  IndexInv'
<1>0. r.from \in Server
  BY RpcFields DEF IndexInv, TypeOK
<1>1. VoteTypes' /\ LeaderTypes'
  BY <1>0 DEF CountVote, CounterAfter, IndexInv, TypeOK, VoteTypes, LeaderTypes, voteVars, leaderVars
<1>2. rpcs' \subseteq rpcs
  BY DEF CountVote, Finish
<1> QED BY <1>1, <1>2, WithoutLogChange DEF CountVote, IndexInv, TypeOK

LEMMA BecomeLeaderKeepsIndexInv ==
    ASSUME IndexInv, NEW r \in rpcs, BecomeLeader(r)
    PROVE  IndexInv'
<1>0. r.from \in Server /\ LastLogIndex(r.from) + 1 \in Nat
  BY RpcFields, LogShape DEF IndexInv, TypeOK
<1>1. VoteTypes'
  BY <1>0 DEF BecomeLeader, CounterAfter, IndexInv, TypeOK, VoteTypes
<1>2. LogTypes' /\ LeaderTypes'
  BY <1>0 DEF BecomeLeader, IndexInv, TypeOK, LogTypes, LeaderTypes, logVars
<1>3. persisted' \in [Server -> SavedState]
  BY <1>0, <1>1, <1>2, PersistKeepsType DEF BecomeLeader, IndexInv
<1>4. rpcs' \subseteq rpcs
  BY DEF BecomeLeader, Finish
<1>5. UNCHANGED <<logVars, applyVars>> /\ exitSite' = exitSite
  BY DEF BecomeLeader
<1> QED BY <1>1, <1>2, <1>3, <1>4, <1>5, WithoutLogChange DEF IndexInv, TypeOK

---------------------------------------------------------------------------
(* Log replication.                                                        *)

\* A step that changes the log and the applied state of one node, and lets its
\* log end no earlier than before.
LEMMA WithLogChange ==
    ASSUME IndexInv, NEW i \in Server,
           NEW log \in Seq(Entry), NEW snap \in Nat, NEW snapTerm \in Nat,
           NEW commit \in Nat, NEW applied \in Nat,
           m_logs' = [m_logs EXCEPT ![i] = log],
           m_lastSnapshotIncludeIndex' = [m_lastSnapshotIncludeIndex EXCEPT ![i] = snap],
           m_lastSnapshotIncludeTerm' = [m_lastSnapshotIncludeTerm EXCEPT ![i] = snapTerm],
           m_commitIndex' = [m_commitIndex EXCEPT ![i] = commit],
           m_lastApplied' = [m_lastApplied EXCEPT ![i] = applied],
           \A k \in 1..Len(log) : log[k].logindex = snap + k,
           LastLogIndex(i) <= snap + Len(log),
           snap <= applied, applied <= commit, commit <= snap + Len(log),
           applyMsgs' \in [Server -> SUBSET ApplyMsg],
           VoteTypes', LeaderTypes', persisted' \in [Server -> SavedState],
           exitSite' \in [Server -> {"none", "doHeartBeat", "matchLog"}],
           \A r \in rpcs' : r \in rpcs \/ (r \in Rpc /\ WithinSendersLog(r))
    PROVE  IndexInv'
<1>1. LogTypes' /\ ApplyTypes'
  BY DEF IndexInv, TypeOK, LogTypes, ApplyTypes
<1>2. TypeOK'
  BY <1>1 DEF IndexInv, TypeOK
<1>3. LastLogIndex(i)' = snap + Len(log)
  <2>1. m_logs'[i] = log /\ m_lastSnapshotIncludeIndex'[i] = snap
    BY DEF IndexInv, TypeOK, LogTypes
  <2> QED BY <2>1, LastEntry DEF LastLogIndex
<1>4. \A j \in Server : j # i => LastLogIndex(j)' = LastLogIndex(j)
  BY DEF LastLogIndex, IndexInv, TypeOK, LogTypes
<1>5. ASSUME NEW j \in Server
      PROVE  /\ \A k \in 1..Len(m_logs'[j]) :
                    m_logs'[j][k].logindex = m_lastSnapshotIncludeIndex'[j] + k
             /\ m_lastSnapshotIncludeIndex'[j] <= m_lastApplied'[j]
             /\ m_lastApplied'[j] <= m_commitIndex'[j]
             /\ m_commitIndex'[j] <= LastLogIndex(j)'
  <2>1. CASE j = i
    BY <1>3, <2>1 DEF IndexInv, TypeOK, LogTypes, ApplyTypes
  <2>2. CASE j # i
    BY <1>4, <2>2 DEF IndexInv, TypeOK, LogTypes, ApplyTypes, IndexOrder
  <2> QED BY <2>1, <2>2
<1>6. IndexOrder'
  BY <1>5 DEF IndexOrder
<1>7. \A j \in Server : LastLogIndex(j)' \in Nat /\ LastLogIndex(j) \in Nat /\ LastLogIndex(j)' >= LastLogIndex(j)
  <2>1. \A j \in Server : LastLogIndex(j) \in Nat
    BY LogShape DEF IndexInv
  <2>2. LastLogIndex(i)' \in Nat /\ LastLogIndex(i)' >= LastLogIndex(i)
    BY <1>3, <2>1, LenProperties
  <2>3. \A j \in Server : j # i => LastLogIndex(j)' \in Nat /\ LastLogIndex(j)' >= LastLogIndex(j)
    BY <1>4, <2>1
  <2> QED BY <2>1, <2>2, <2>3
<1>8. ASSUME NEW r \in rpcs' PROVE WithinSendersLog(r)'
  <2>1. r \in Rpc /\ WithinSendersLog(r)
    BY DEF IndexInv, TypeOK, RequestsWithinLog
  <2>2. r.from \in Server
    BY <2>1, RpcFields
  <2>3. CASE r.kind = "AppendEntries"
    <3>1. r.prevLogIndex \in Nat /\ Len(r.entries) \in Nat
      BY <2>1, <2>3, RpcFields, LenProperties DEF AppendEntriesRpc
    <3> QED BY <1>7, <2>1, <2>2, <2>3, <3>1 DEF WithinSendersLog
  <2>4. CASE r.kind = "AppendEntriesReply"
    <3>1. r.match \in Nat
      BY <2>1, <2>4, RpcFields DEF AppendEntriesReplyRpc
    <3> QED BY <1>7, <2>1, <2>2, <2>4, <3>1 DEF WithinSendersLog
  <2>5. CASE r.kind \notin {"AppendEntries", "AppendEntriesReply"}
    BY <2>5 DEF WithinSendersLog
  <2> QED BY <2>3, <2>4, <2>5
<1>9. RequestsWithinLog'
  BY <1>8 DEF RequestsWithinLog
<1> QED BY <1>2, <1>6, <1>9 DEF IndexInv

\* The commit and applied indices of a node that a step leaves alone.
LEMMA IndexOrderOf ==
    ASSUME TypeOK, IndexOrder, NEW i \in Server
    PROVE  /\ m_lastApplied[i] \in Nat /\ m_commitIndex[i] \in Nat
           /\ m_lastSnapshotIncludeIndex[i] <= m_lastApplied[i]
           /\ m_lastApplied[i] <= m_commitIndex[i]
           /\ m_commitIndex[i] <= LastLogIndex(i)
BY DEF TypeOK, ApplyTypes, IndexOrder

LEMMA StartKeepsIndexInv ==
    ASSUME IndexInv, NEW i \in Server, NEW command \in Command, Start(i, command)
    PROVE  IndexInv'
<1> DEFINE entry == NewEntry(i, command)
           log == Append(m_logs[i], entry)
           snap == m_lastSnapshotIncludeIndex[i]
<1>1. entry \in Entry /\ entry.logindex = LastLogIndex(i) + 1
  BY LogShape DEF NewEntry, Entry, IndexInv, TypeOK, VoteTypes
<1>2. /\ m_logs[i] \in Seq(Entry) /\ Len(m_logs[i]) \in Nat /\ snap \in Nat
      /\ LastLogIndex(i) = snap + Len(m_logs[i])
  BY LogShape DEF IndexInv
<1>3. /\ log \in Seq(Entry) /\ Len(log) = Len(m_logs[i]) + 1
      /\ \A k \in 1..Len(m_logs[i]) : log[k] = m_logs[i][k]
      /\ log[Len(m_logs[i]) + 1] = entry
  <2> HIDE DEF entry
  <2> QED BY <1>1, <1>2, AppendProperties
<1>4. \A k \in 1..Len(log) : log[k].logindex = snap + k
  <2>1. \A k \in 1..Len(m_logs[i]) : m_logs[i][k].logindex = snap + k
    BY DEF IndexInv, IndexOrder
  <2> HIDE DEF log, entry, snap
  <2>2. ASSUME NEW k \in 1..Len(log) PROVE log[k].logindex = snap + k
    <3>1. CASE k \in 1..Len(m_logs[i])
      BY <1>3, <2>1, <3>1
    <3>2. CASE k = Len(m_logs[i]) + 1
      BY <1>1, <1>2, <1>3, <3>2
    <3>3. k \in 1..Len(m_logs[i]) \/ k = Len(m_logs[i]) + 1
      BY <1>2, <1>3
    <3> QED BY <3>1, <3>2, <3>3
  <2> QED BY <2>2
<1>5. m_logs' = [m_logs EXCEPT ![i] = log]
  BY DEF Start
<1>6. VoteTypes' /\ LogTypes' /\ LeaderTypes'
  <2> HIDE DEF log
  <2> QED BY <1>3, <1>5 DEF Start, IndexInv, TypeOK, VoteTypes, LogTypes, LeaderTypes, voteVars, leaderVars
<1>7. persisted' \in [Server -> SavedState]
  BY <1>6, PersistKeepsType DEF Start, IndexInv
<1>8. /\ m_lastSnapshotIncludeIndex' = [m_lastSnapshotIncludeIndex EXCEPT ![i] = snap]
      /\ m_lastSnapshotIncludeTerm' = [m_lastSnapshotIncludeTerm EXCEPT ![i] = m_lastSnapshotIncludeTerm[i]]
      /\ m_commitIndex' = [m_commitIndex EXCEPT ![i] = m_commitIndex[i]]
      /\ m_lastApplied' = [m_lastApplied EXCEPT ![i] = m_lastApplied[i]]
      /\ m_lastSnapshotIncludeTerm[i] \in Nat
  BY DEF Start, applyVars, IndexInv, TypeOK, LogTypes, ApplyTypes
<1>9. applyMsgs' \in [Server -> SUBSET ApplyMsg] /\ exitSite' \in [Server -> {"none", "doHeartBeat", "matchLog"}]
      /\ rpcs' = rpcs
  BY DEF Start, applyVars, IndexInv, TypeOK, ApplyTypes
<1>10. /\ LastLogIndex(i) <= snap + Len(log) /\ snap <= m_lastApplied[i]
       /\ m_lastApplied[i] <= m_commitIndex[i] /\ m_commitIndex[i] <= snap + Len(log)
       /\ m_lastApplied[i] \in Nat /\ m_commitIndex[i] \in Nat
  <2> HIDE DEF log
  <2> QED BY <1>2, <1>3, IndexOrderOf DEF IndexInv
<1> HIDE DEF log, snap
<1> QED BY <1>2, <1>3, <1>4, <1>5, <1>6, <1>7, <1>8, <1>9, <1>10, WithLogChange

\* What a heartbeat sends is well formed and within the sender's log.
LEMMA HeartBeatRpcShape ==
    ASSUME IndexInv, NEW i \in Server, NEW j \in Server, NEW k \in Round, SendableIndex(i, j)
    PROVE  HeartBeatRpc(i, j, k) \in Rpc /\ WithinSendersLog(HeartBeatRpc(i, j, k))
<1> DEFINE prev == m_nextIndex[i][j] - 1
           suffix == SubSeq(m_logs[i], SlicesIndex(i, prev) + 1, Len(m_logs[i]))
<1>0. /\ m_nextIndex[i][j] \in Nat /\ m_currentTerm[i] \in Nat /\ m_commitIndex[i] \in Nat
      /\ m_lastSnapshotIncludeIndex[i] \in Nat /\ LastLogIndex(i) \in Nat
  BY LogShape DEF IndexInv, TypeOK, LeaderTypes, VoteTypes, ApplyTypes
<1>1. CASE m_nextIndex[i][j] <= m_lastSnapshotIncludeIndex[i]
  BY <1>1 DEF HeartBeatRpc, Rpc, SendSnapShotRpc, WithinSendersLog
<1>2. CASE ~(m_nextIndex[i][j] <= m_lastSnapshotIncludeIndex[i])
  <2>1. prev \in m_lastSnapshotIncludeIndex[i]..LastLogIndex(i) /\ prev \in Nat
    BY <1>0, <1>2 DEF SendableIndex
  <2>2. LogTermAt(i, prev) \in Nat
    <3> HIDE DEF prev
    <3> QED BY <2>1, TermOfIndex DEF IndexInv
  <2>3. /\ suffix \in Seq(Entry) /\ prev + Len(suffix) <= LastLogIndex(i)
        /\ \A q \in 1..Len(suffix) : suffix[q].logindex = prev + q
    <3> HIDE DEF prev
    <3> QED BY <1>0, <2>1, SuffixOfLog DEF IndexInv
  <2>4. HeartBeatRpc(i, j, k) =
            [kind |-> "AppendEntries", from |-> i, to |-> j, round |-> k,
             term |-> m_currentTerm[i], prevLogIndex |-> prev, prevLogTerm |-> LogTermAt(i, prev),
             entries |-> suffix, leaderCommit |-> m_commitIndex[i]]
    BY <1>2 DEF HeartBeatRpc
  <2> HIDE DEF prev, suffix
  <2> QED BY <1>0, <2>1, <2>2, <2>3, <2>4 DEF Rpc, AppendEntriesRpc, WithinSendersLog
<1> QED BY <1>1, <1>2

LEMMA DoHeartBeatKeepsIndexInv ==
    ASSUME IndexInv, NEW i \in Server, DoHeartBeat(i)
    PROVE  IndexInv'
<1>1. PICK S \in SUBSET (Server \ {i}), k \in Round :
          /\ rpcs' = rpcs \cup {HeartBeatRpc(i, j, k) : j \in S}
          /\ appendNums' = LiveCounters([appendNums EXCEPT ![i][k] = 1], rpcs')
  BY DEF DoHeartBeat, SpawnHeartBeats
<1>2. \A r \in rpcs' : r \in rpcs \/ (r \in Rpc /\ WithinSendersLog(r))
  BY <1>1, HeartBeatRpcShape DEF DoHeartBeat
<1>3. [appendNums EXCEPT ![i][k] = 1] \in [Server -> [Round -> Nat]]
  BY DEF IndexInv, TypeOK, LeaderTypes
<1>4. VoteTypes' /\ LeaderTypes'
  BY <1>1, <1>3, LiveCountersType DEF DoHeartBeat, IndexInv, TypeOK, VoteTypes, LeaderTypes, voteVars
<1> QED BY <1>2, <1>4, WithoutLogChange DEF DoHeartBeat, IndexInv, TypeOK

LEMMA HeartBeatExitsKeepsIndexInv ==
    ASSUME IndexInv, NEW i \in Server, HeartBeatExits(i)
    PROVE  IndexInv'
<1>1. PICK S \in SUBSET {j \in Server \ {i} : SendableIndex(i, j)}, k \in Round :
          rpcs' = rpcs \cup {HeartBeatRpc(i, j, k) : j \in S}
  BY DEF HeartBeatExits, SpawnHeartBeats
<1>2. \A r \in rpcs' : r \in rpcs \/ (r \in Rpc /\ WithinSendersLog(r))
  BY <1>1, HeartBeatRpcShape
<1>3. VoteTypes' /\ LeaderTypes'
  BY DEF HeartBeatExits, Exit, IndexInv, TypeOK, VoteTypes, LeaderTypes, voteVars, leaderVars
<1> QED BY <1>2, <1>3, WithoutLogChange DEF HeartBeatExits, Exit, IndexInv, TypeOK

\* An answer claims no more than the request it answers.
LEMMA AppendReplyShape ==
    ASSUME IndexInv, NEW r \in rpcs, r.kind = "AppendEntries",
           NEW term \in Nat, NEW success \in BOOLEAN, NEW hint \in Nat \cup {NoHint}
    PROVE  AppendReply(r, term, success, hint) \in Rpc /\ WithinSendersLog(AppendReply(r, term, success, hint))
<1>1. r \in AppendEntriesRpc /\ WithinSendersLog(r)
  BY RpcFields DEF IndexInv, TypeOK, RequestsWithinLog
<1>2. /\ r.from \in Server /\ r.to \in Server /\ r.round \in Round
      /\ r.prevLogIndex \in Nat /\ r.entries \in Seq(Entry) /\ Len(r.entries) \in Nat
  BY <1>1, LenProperties DEF AppendEntriesRpc
<1>3. (IF r.entries = <<>> THEN 0 ELSE r.entries[Len(r.entries)].logterm) \in Nat
  <2>1. r.entries # <<>> => r.entries[Len(r.entries)] \in Entry
    BY <1>2, EmptySeq, ElementOfSeq
  <2> QED BY <2>1 DEF Entry
<1>4. r.prevLogIndex + Len(r.entries) \in Nat
  BY <1>2
<1>5. AppendReply(r, term, success, hint) \in AppendEntriesReplyRpc
  BY <1>2, <1>3, <1>4 DEF AppendReply, AppendEntriesReplyRpc
<1>6. WithinSendersLog(AppendReply(r, term, success, hint))
  BY <1>1 DEF AppendReply, WithinSendersLog
<1> QED BY <1>5, <1>6 DEF Rpc

LEMMA RejectStaleLeaderKeepsIndexInv ==
    ASSUME IndexInv, NEW r \in rpcs, RejectStaleLeader(r)
    PROVE  IndexInv'
<1> DEFINE answer == AppendReply(r, m_currentTerm[r.to], FALSE, NoHint)
<1>1. m_currentTerm[r.to] \in Nat
  BY RpcFields DEF IndexInv, TypeOK, VoteTypes
<1>2. answer \in Rpc /\ WithinSendersLog(answer)
  BY <1>1, AppendReplyShape DEF RejectStaleLeader, Request
<1>3. Answer(r, answer)
  BY DEF RejectStaleLeader
<1>4. UNCHANGED <<voteVars, votedNum, logVars, applyVars, leaderVars, persisted, exitSite>>
  BY DEF RejectStaleLeader
<1> HIDE DEF answer
<1> QED BY <1>2, <1>3, <1>4, AnswerOnly

\* A handler that follows the sender, answers, saves, and keeps its log.
LEMMA FollowAndAnswer ==
    ASSUME IndexInv, NEW r \in rpcs, NEW answer \in Rpc, WithinSendersLog(answer),
           FollowLeader(r.to, r.term), Answer(r, answer),
           UNCHANGED <<votedNum, logVars, applyVars, leaderVars, exitSite>>,
           Persist(r.to) \/ UNCHANGED persisted
    PROVE  IndexInv'
<1>0. r.to \in Server /\ r.term \in Nat
  BY RpcFields DEF IndexInv, TypeOK
<1>1. VoteTypes'
  BY <1>0, StepDownKeepsType DEF IndexInv
<1>2. LogTypes' /\ LeaderTypes'
  BY DEF IndexInv, TypeOK, LogTypes, LeaderTypes, logVars, leaderVars
<1>3. persisted' \in [Server -> SavedState]
  BY <1>0, <1>1, <1>2, PersistKeepsType DEF IndexInv, TypeOK
<1>4. \A q \in rpcs' : q \in rpcs \/ (q \in Rpc /\ WithinSendersLog(q))
  BY DEF Answer
<1> QED BY <1>1, <1>2, <1>3, <1>4, WithoutLogChange DEF IndexInv, TypeOK

LEMMA RejectGapKeepsIndexInv ==
    ASSUME IndexInv, NEW r \in rpcs, RejectGap(r)
    PROVE  IndexInv'
<1> DEFINE answer == AppendReply(r, r.term, FALSE, LastLogTerm(r.to) + 1)
<1>1. r.term \in Nat /\ LastLogTerm(r.to) + 1 \in Nat
  BY RpcFields, LogShape DEF IndexInv, TypeOK
<1>2. answer \in Rpc /\ WithinSendersLog(answer)
  BY <1>1, AppendReplyShape DEF RejectGap, FromCurrentLeader, Request
<1>3. /\ FollowLeader(r.to, r.term) /\ Answer(r, answer) /\ Persist(r.to)
      /\ UNCHANGED <<votedNum, logVars, applyVars, leaderVars, exitSite>>
  BY DEF RejectGap
<1> HIDE DEF answer
<1> QED BY <1>2, <1>3, FollowAndAnswer

LEMMA PrevInSnapshotExitsKeepsIndexInv ==
    ASSUME IndexInv, NEW r \in rpcs, PrevInSnapshotExits(r)
    PROVE  IndexInv'
<1>1. VoteTypes' /\ LeaderTypes'
  BY DEF PrevInSnapshotExits, Exit, IndexInv, TypeOK, VoteTypes, LeaderTypes, voteVars, leaderVars
<1>2. rpcs' \subseteq rpcs
  BY DEF PrevInSnapshotExits, Finish
<1> QED BY <1>1, <1>2, WithoutLogChange DEF PrevInSnapshotExits, Exit, IndexInv, TypeOK

\* The hint of a mismatch is an index of the log.
LEMMA BackedUpIndexType ==
    ASSUME TypeOK, IndexOrder, NEW i \in Server, NEW prev \in Nat
    PROVE  BackedUpIndex(i, prev) \in Nat
<1> DEFINE otherTerm == {k \in m_lastSnapshotIncludeIndex[i]..prev : LogTermAt(i, k) # LogTermAt(i, prev)}
<1>1. otherTerm \in SUBSET (0..prev)
  BY LogShape
<1>2. otherTerm # {} => Largest(otherTerm) \in otherTerm
  <2> HIDE DEF otherTerm
  <2> QED BY <1>1, LargestElement
<1>3. BackedUpIndex(i, prev) = IF otherTerm = {} THEN prev ELSE Largest(otherTerm) + 1
  BY DEF BackedUpIndex
<1>4. otherTerm # {} => Largest(otherTerm) \in Nat
  <2> HIDE DEF otherTerm
  <2>1. \A S, x : S \in SUBSET (0..prev) /\ x \in S => x \in Nat
    OBVIOUS
  <2> QED BY <1>1, <1>2, <2>1
<1>5. CASE otherTerm = {}
  <2> HIDE DEF otherTerm
  <2> QED BY <1>3, <1>5
<1>6. CASE otherTerm # {}
  <2> HIDE DEF otherTerm
  <2> QED BY <1>3, <1>4, <1>6
<1> QED BY <1>5, <1>6

LEMMA RejectMismatchKeepsIndexInv ==
    ASSUME IndexInv, NEW r \in rpcs, RejectMismatch(r)
    PROVE  IndexInv'
<1> DEFINE hint == BackedUpIndex(r.to, r.prevLogIndex)
           answer == AppendReply(r, r.term, FALSE, hint)
<1>0. r.kind = "AppendEntries"
  BY DEF RejectMismatch, PrevInLog, FromCurrentLeader, Request
<1>1. r.term \in Nat /\ r.to \in Server /\ r.prevLogIndex \in Nat
  BY <1>0, RpcFields DEF IndexInv, TypeOK, AppendEntriesRpc
<1>2. hint \in Nat
  BY <1>1, BackedUpIndexType DEF IndexInv
<1>3. answer \in Rpc /\ WithinSendersLog(answer)
  <2> HIDE DEF hint
  <2> QED BY <1>0, <1>1, <1>2, AppendReplyShape
<1>4. /\ FollowLeader(r.to, r.term) /\ Answer(r, answer) /\ Persist(r.to)
      /\ UNCHANGED <<votedNum, logVars, applyVars, leaderVars, exitSite>>
  BY DEF RejectMismatch
<1> HIDE DEF answer
<1> QED BY <1>3, <1>4, FollowAndAnswer

\* The merged log is a log of the follower's snapshot that ends no earlier.  Each
\* of its entries is the follower's or the request's, of the request's term
\* where that has one, and the follower's elsewhere.
LEMMA MergedLogShape ==
    ASSUME IndexInv, NEW r \in rpcs, PrevInLog(r)
    PROVE  /\ MergedLog(r) \in Seq(Entry)
           /\ Len(MergedLog(r)) \in Nat /\ Len(MergedLog(r)) >= Len(m_logs[r.to])
           /\ \A k \in 1..Len(MergedLog(r)) :
                  MergedLog(r)[k].logindex = m_lastSnapshotIncludeIndex[r.to] + k
           /\ \A k \in 1..Len(MergedLog(r)) :
                  \/ /\ Offered(r, k) \in 1..Len(r.entries)
                     /\ MergedLog(r)[k] = r.entries[Offered(r, k)]
                  \/ /\ k \in 1..Len(m_logs[r.to]) /\ MergedLog(r)[k] = m_logs[r.to][k]
                     /\ Offered(r, k) \in 1..Len(r.entries) =>
                            m_logs[r.to][k].logterm = r.entries[Offered(r, k)].logterm
           /\ \A k \in 1..Len(r.entries) : SlicesIndex(r.to, r.prevLogIndex) + k \in 1..Len(MergedLog(r))
<1> DEFINE i == r.to
           snap == m_lastSnapshotIncludeIndex[i]
           own == Len(m_logs[i])
           offeredEnd == SlicesIndex(i, r.prevLogIndex) + Len(r.entries)
           end == Larger(own, offeredEnd)
           replaced(k) == /\ Offered(r, k) \in 1..Len(r.entries)
                          /\ k <= own => m_logs[i][k].logterm # r.entries[Offered(r, k)].logterm
<1>1. r.kind = "AppendEntries" /\ r.prevLogIndex <= LastLogIndex(i) /\ r.prevLogIndex >= snap
  BY DEF PrevInLog, FromCurrentLeader, Request
<1>2. /\ i \in Server /\ r.prevLogIndex \in Nat /\ r.entries \in Seq(Entry) /\ Len(r.entries) \in Nat
      /\ \A k \in 1..Len(r.entries) : r.entries[k] \in Entry /\ r.entries[k].logindex = r.prevLogIndex + k
  <2>1. r \in AppendEntriesRpc /\ WithinSendersLog(r)
    BY <1>1, RpcFields DEF IndexInv, TypeOK, RequestsWithinLog
  <2>2. i \in Server /\ r.prevLogIndex \in Nat /\ r.entries \in Seq(Entry)
    BY <2>1 DEF AppendEntriesRpc
  <2> QED BY <1>1, <2>1, <2>2, LenProperties, ElementOfSeq DEF WithinSendersLog
<1>3. /\ own \in Nat /\ snap \in Nat /\ LastLogIndex(i) = snap + own
      /\ \A k \in 1..own : m_logs[i][k] \in Entry /\ m_logs[i][k].logindex = snap + k
  BY <1>2, LogShape, ElementOfSeq DEF IndexInv, IndexOrder
<1>4. offeredEnd = r.prevLogIndex - snap + Len(r.entries) /\ end \in Nat /\ end >= own
      /\ (end = own \/ end = offeredEnd)
  BY <1>1, <1>2, <1>3 DEF SlicesIndex, Larger
<1>5. MergedLog(r) = [k \in 1..end |-> IF replaced(k) THEN r.entries[Offered(r, k)] ELSE m_logs[i][k]]
  BY DEF MergedLog
<1>6. ASSUME NEW k \in 1..end
      PROVE  LET e == IF replaced(k) THEN r.entries[Offered(r, k)] ELSE m_logs[i][k]
             IN  /\ e \in Entry /\ e.logindex = snap + k
                 /\ ~replaced(k) => k \in 1..own
  <2>1. Offered(r, k) = k + snap - r.prevLogIndex /\ k \in Int
    BY <1>4 DEF Offered
  <2>2. CASE replaced(k)
    <3>1. r.entries[Offered(r, k)] \in Entry /\ r.entries[Offered(r, k)].logindex = r.prevLogIndex + Offered(r, k)
      BY <1>2, <2>2
    <3>2. r.prevLogIndex + Offered(r, k) = snap + k
      <4> HIDE DEF snap
      <4> QED BY <1>2, <1>3, <2>1
    <3> QED BY <2>2, <3>1, <3>2
  <2>3. CASE ~replaced(k)
    <3>1. k \in 1..own
      <4>1. CASE k <= own
        BY <4>1, <1>3, <2>1
      <4>2. CASE k > own
        <5>1. Offered(r, k) \notin 1..Len(r.entries)
          BY <2>3, <4>2, <1>3, <2>1
        <5>2. Offered(r, k) >= 1 /\ Offered(r, k) <= Len(r.entries)
          <6> HIDE DEF snap, own, offeredEnd, end
          <6> QED BY <1>1, <1>2, <1>3, <1>4, <2>1, <4>2
        <5>3. Offered(r, k) \in Int
          <6> HIDE DEF snap
          <6> QED BY <1>2, <1>3, <2>1
        <5> QED BY <5>1, <5>2, <5>3, <1>2
      <4> QED BY <4>1, <4>2, <1>3, <2>1
    <3> QED BY <1>3, <2>3, <3>1
  <2> QED BY <2>2, <2>3
<1>7. MergedLog(r) \in [1..end -> Entry] /\ \A k \in 1..end : MergedLog(r)[k].logindex = snap + k
  <2> HIDE DEF end, replaced, snap
  <2> QED BY <1>5, <1>6
<1>8. MergedLog(r) \in Seq(Entry) /\ Len(MergedLog(r)) = end
  <2> HIDE DEF end
  <2> QED BY <1>4, <1>7, FunctionIsSeq
<1>9. ASSUME NEW k \in 1..end
      PROVE  \/ Offered(r, k) \in 1..Len(r.entries) /\ MergedLog(r)[k] = r.entries[Offered(r, k)]
             \/ /\ k \in 1..own /\ MergedLog(r)[k] = m_logs[i][k]
                /\ Offered(r, k) \in 1..Len(r.entries) => m_logs[i][k].logterm = r.entries[Offered(r, k)].logterm
  <2>1. CASE replaced(k)
    BY <1>5, <2>1
  <2>2. CASE ~replaced(k)
    <3>1. k \in 1..own /\ MergedLog(r)[k] = m_logs[i][k]
      BY <1>5, <1>6, <2>2
    <3> QED BY <2>2, <3>1
  <2> QED BY <2>1, <2>2
<1>10. ASSUME NEW k \in 1..Len(r.entries) PROVE SlicesIndex(i, r.prevLogIndex) + k \in 1..end
  <2>1. SlicesIndex(i, r.prevLogIndex) \in Nat
    BY <1>1, <1>2, <1>3 DEF SlicesIndex
  <2>2. end >= SlicesIndex(i, r.prevLogIndex) + Len(r.entries)
    <3> HIDE DEF own
    <3> QED BY <1>2, <1>3, <2>1 DEF Larger
  <2> HIDE DEF end
  <2> QED BY <1>2, <1>4, <2>1, <2>2
<1> HIDE DEF end
<1> QED BY <1>4, <1>7, <1>8, <1>9, <1>10

LEMMA AppendMatchingKeepsIndexInv ==
    ASSUME IndexInv, NEW r \in rpcs, AppendMatching(r)
    PROVE  IndexInv'
<1> DEFINE i == r.to
           log == MergedLog(r)
           snap == m_lastSnapshotIncludeIndex[i]
           commit == IF r.leaderCommit > m_commitIndex[i]
                     THEN Smaller(r.leaderCommit, LastLogIndex(i)') ELSE m_commitIndex[i]
           answer == AppendReply(r, r.term, TRUE, 0)
<1>0. PrevInLog(r) /\ r.kind = "AppendEntries"
  BY DEF AppendMatching, PrevInLog, FromCurrentLeader, Request
<1>1. i \in Server /\ r.term \in Nat /\ r.leaderCommit \in Nat
  BY <1>0, RpcFields DEF IndexInv, TypeOK, AppendEntriesRpc
<1>2. /\ log \in Seq(Entry) /\ Len(log) \in Nat /\ Len(log) >= Len(m_logs[i])
      /\ \A k \in 1..Len(log) : log[k].logindex = snap + k
  BY <1>0, MergedLogShape
<1>3. /\ m_logs' = [m_logs EXCEPT ![i] = log]
      /\ m_lastSnapshotIncludeIndex' = m_lastSnapshotIncludeIndex
      /\ m_lastSnapshotIncludeTerm' = m_lastSnapshotIncludeTerm
      /\ m_commitIndex' = [m_commitIndex EXCEPT ![i] = commit]
      /\ UNCHANGED <<votedNum, m_lastApplied, applyMsgs, leaderVars, exitSite>>
      /\ FollowLeader(i, r.term) /\ Answer(r, answer) /\ Persist(i)
  BY DEF AppendMatching
<1>4. /\ snap \in Nat /\ LastLogIndex(i) = snap + Len(m_logs[i]) /\ Len(m_logs[i]) \in Nat
      /\ m_lastSnapshotIncludeTerm[i] \in Nat
  BY <1>1, LogShape DEF IndexInv, TypeOK, LogTypes
<1>5. LastLogIndex(i)' = snap + Len(log)
  <2>1. m_logs'[i] = log /\ m_lastSnapshotIncludeIndex'[i] = snap
    BY <1>1, <1>3 DEF IndexInv, TypeOK, LogTypes
  <2> HIDE DEF log, snap
  <2> QED BY <1>2, <1>4, <2>1, LastEntry DEF LastLogIndex
<1>6. /\ m_lastApplied[i] \in Nat /\ m_commitIndex[i] \in Nat /\ snap <= m_lastApplied[i]
      /\ m_lastApplied[i] <= m_commitIndex[i] /\ m_commitIndex[i] <= LastLogIndex(i)
  BY <1>1, IndexOrderOf DEF IndexInv
<1>7. commit \in Nat /\ m_lastApplied[i] <= commit /\ commit <= snap + Len(log)
      /\ LastLogIndex(i) <= snap + Len(log)
  <2> HIDE DEF log, snap
  <2> QED BY <1>1, <1>2, <1>4, <1>5, <1>6 DEF Smaller
<1>8. VoteTypes'
  BY <1>1, <1>3, StepDownKeepsType DEF IndexInv
<1>9. LogTypes' /\ LeaderTypes'
  <2> HIDE DEF log
  <2> QED BY <1>1, <1>2, <1>3 DEF IndexInv, TypeOK, LogTypes, LeaderTypes, leaderVars
<1>10. persisted' \in [Server -> SavedState]
  BY <1>1, <1>3, <1>8, <1>9, PersistKeepsType DEF IndexInv
<1>11. answer \in Rpc /\ WithinSendersLog(answer)
  BY <1>0, <1>1, AppendReplyShape
<1>12. \A q \in rpcs' : q \in rpcs \/ (q \in Rpc /\ WithinSendersLog(q))
  <2> HIDE DEF answer
  <2> QED BY <1>3, <1>11 DEF Answer
<1>13. /\ m_lastSnapshotIncludeIndex' = [m_lastSnapshotIncludeIndex EXCEPT ![i] = snap]
       /\ m_lastSnapshotIncludeTerm' = [m_lastSnapshotIncludeTerm EXCEPT ![i] = m_lastSnapshotIncludeTerm[i]]
       /\ m_lastApplied' = [m_lastApplied EXCEPT ![i] = m_lastApplied[i]]
       /\ applyMsgs' \in [Server -> SUBSET ApplyMsg]
       /\ exitSite' \in [Server -> {"none", "doHeartBeat", "matchLog"}]
  BY <1>1, <1>3 DEF IndexInv, TypeOK, LogTypes, ApplyTypes
<1>14. m_logs' = [m_logs EXCEPT ![i] = log] /\ m_commitIndex' = [m_commitIndex EXCEPT ![i] = commit]
  BY <1>3
<1> HIDE DEF i, log, snap, commit
<1> QED BY <1>1, <1>2, <1>4, <1>6, <1>7, <1>8, <1>9, <1>10, <1>12, <1>13, <1>14, WithLogChange

\* Finishing a call of a round keeps the counters of the rounds typed.
LEMMA FinishAppendKeepsType ==
    ASSUME NEW r, NEW counters \in [Server -> [Round -> Nat]], FinishAppend(r, counters)
    PROVE  appendNums' \in [Server -> [Round -> Nat]] /\ rpcs' \subseteq rpcs
<1>1. appendNums' = LiveCounters(counters, rpcs \ {r}) /\ rpcs' \subseteq rpcs
  BY DEF FinishAppend, Finish
<1> QED BY <1>1, LiveCountersType

LEMMA AppendReplyStepsDownKeepsIndexInv ==
    ASSUME IndexInv, NEW r \in rpcs, AppendReplyStepsDown(r)
    PROVE  IndexInv'
<1>0. r.from \in Server /\ r.term \in Nat
  BY RpcFields DEF IndexInv, TypeOK
<1>1. VoteTypes'
  BY <1>0, StepDownKeepsType DEF AppendReplyStepsDown, IndexInv
<1>2. appendNums' \in [Server -> [Round -> Nat]] /\ rpcs' \subseteq rpcs
  BY FinishAppendKeepsType DEF AppendReplyStepsDown, IndexInv, TypeOK, LeaderTypes
<1>3. LeaderTypes'
  BY <1>2 DEF AppendReplyStepsDown, IndexInv, TypeOK, LeaderTypes
<1>4. /\ UNCHANGED <<logVars, applyVars>>
      /\ exitSite' \in [Server -> {"none", "doHeartBeat", "matchLog"}] /\ persisted' \in [Server -> SavedState]
  BY DEF AppendReplyStepsDown, IndexInv, TypeOK
<1> QED BY <1>1, <1>2, <1>3, <1>4, WithoutLogChange

\* A reply that only ends its call, or moves the leader's view of a follower.
LEMMA RepliesWithoutCommitKeepIndexInv ==
    ASSUME IndexInv, NEW r \in rpcs,
           \/ AppendReplyIgnored(r) \/ AppendRejected(r) \/ RpcFails(r)
    PROVE  IndexInv'
<1>1. FinishAppend(r, appendNums)
  BY DEF AppendReplyIgnored, AppendRejected, RpcFails
<1>2. appendNums' \in [Server -> [Round -> Nat]] /\ rpcs' \subseteq rpcs
  BY <1>1, FinishAppendKeepsType DEF IndexInv, TypeOK, LeaderTypes
<1>3. m_nextIndex' \in [Server -> [Server -> Nat]] /\ m_matchIndex' \in [Server -> [Server -> Nat]]
  <2>1. CASE AppendRejected(r)
    <3>1. r \in AppendEntriesReplyRpc
      BY <2>1, RpcFields DEF AppendRejected, ToCurrentLeader, Reply, IndexInv, TypeOK
    <3>2. r.from \in Server /\ r.to \in Server /\ r.updateNextIndex \in Nat \cup {NoHint}
      BY <3>1 DEF AppendEntriesReplyRpc
    <3>3. NextIndexAfterRejection(r) \in Nat
      BY <3>2 DEF NextIndexAfterRejection, IndexInv, TypeOK, LeaderTypes
    <3> QED BY <2>1, <3>2, <3>3 DEF AppendRejected, IndexInv, TypeOK, LeaderTypes
  <2>2. CASE ~AppendRejected(r)
    BY <2>2 DEF AppendReplyIgnored, RpcFails, IndexInv, TypeOK, LeaderTypes
  <2> QED BY <2>1, <2>2
<1>4. UNCHANGED <<voteVars, votedNum, logVars, applyVars, exitSite, persisted>>
  BY DEF AppendReplyIgnored, AppendRejected, RpcFails
<1>5. VoteTypes' /\ LeaderTypes'
  BY <1>2, <1>3, <1>4 DEF IndexInv, TypeOK, VoteTypes, LeaderTypes, voteVars
<1> QED BY <1>2, <1>4, <1>5, WithoutLogChange DEF IndexInv, TypeOK

LEMMA AppendAcceptedKeepsIndexInv ==
    ASSUME IndexInv, NEW r \in rpcs, AppendAccepted(r)
    PROVE  IndexInv'
<1> DEFINE i == r.from
           snap == m_lastSnapshotIncludeIndex[i]
           matched == Larger(m_matchIndex[i][r.to], r.match)
           acks == appendNums[i][r.round] + 1
           commit == IF Majority(acks) THEN CommittedBy(r) ELSE m_commitIndex[i]
           counters == [appendNums EXCEPT ![i][r.round] = CounterAfter(acks)]
<1>1. r \in AppendEntriesReplyRpc /\ WithinSendersLog(r) /\ r.kind = "AppendEntriesReply"
  BY RpcFields DEF AppendAccepted, ToCurrentLeader, Reply, IndexInv, TypeOK, RequestsWithinLog
<1>2. i \in Server /\ r.to \in Server /\ r.round \in Round /\ r.match \in Nat
  BY <1>1 DEF AppendEntriesReplyRpc
<1>3. matched \in Nat /\ CounterAfter(acks) \in Nat
  BY <1>2 DEF Larger, CounterAfter, IndexInv, TypeOK, LeaderTypes
<1>4. counters \in [Server -> [Round -> Nat]]
  <2> HIDE DEF acks
  <2> QED BY <1>2, <1>3 DEF IndexInv, TypeOK, LeaderTypes
<1>5. /\ m_matchIndex' = [m_matchIndex EXCEPT ![i][r.to] = matched]
      /\ m_nextIndex' = [m_nextIndex EXCEPT ![i][r.to] = matched + 1]
      /\ m_commitIndex' = [m_commitIndex EXCEPT ![i] = commit]
      /\ FinishAppend(r, counters)
      /\ UNCHANGED <<voteVars, votedNum, logVars, m_lastApplied, applyMsgs, exitSite, persisted>>
  BY DEF AppendAccepted
<1>6. appendNums' \in [Server -> [Round -> Nat]] /\ rpcs' \subseteq rpcs
  <2> HIDE DEF counters
  <2> QED BY <1>4, <1>5, FinishAppendKeepsType
<1>7. VoteTypes' /\ LeaderTypes'
  <2>1. VoteTypes'
    BY <1>5 DEF IndexInv, TypeOK, VoteTypes, voteVars
  <2>2. m_nextIndex' \in [Server -> [Server -> Nat]] /\ m_matchIndex' \in [Server -> [Server -> Nat]]
    <3> HIDE DEF matched, i
    <3>1. matched + 1 \in Nat
      BY <1>3
    <3> QED BY <1>2, <1>3, <1>5, <3>1 DEF IndexInv, TypeOK, LeaderTypes
  <2> QED BY <1>6, <2>1, <2>2 DEF LeaderTypes
<1>8. /\ m_logs[i] \in Seq(Entry) /\ snap \in Nat /\ m_lastSnapshotIncludeTerm[i] \in Nat
      /\ LastLogIndex(i) = snap + Len(m_logs[i]) /\ LastLogIndex(i) \in Nat
      /\ \A k \in 1..Len(m_logs[i]) : m_logs[i][k].logindex = snap + k
  BY <1>2, LogShape DEF IndexInv, IndexOrder, TypeOK, LogTypes
<1>9. /\ m_lastApplied[i] \in Nat /\ m_commitIndex[i] \in Nat /\ snap <= m_lastApplied[i]
      /\ m_lastApplied[i] <= m_commitIndex[i] /\ m_commitIndex[i] <= LastLogIndex(i)
  BY <1>2, IndexOrderOf DEF IndexInv
<1>10. r.match <= LastLogIndex(i)
  BY <1>1 DEF WithinSendersLog
<1>11. commit \in Nat /\ m_lastApplied[i] <= commit /\ commit <= LastLogIndex(i)
  <2> HIDE DEF i, snap
  <2>1. CommittedBy(r) \in {m_commitIndex[i], Larger(m_commitIndex[i], r.match)}
    BY DEF CommittedBy, i
  <2> QED BY <1>2, <1>8, <1>9, <1>10, <2>1 DEF Larger
<1>12. /\ m_logs' = [m_logs EXCEPT ![i] = m_logs[i]]
       /\ m_lastSnapshotIncludeIndex' = [m_lastSnapshotIncludeIndex EXCEPT ![i] = snap]
       /\ m_lastSnapshotIncludeTerm' = [m_lastSnapshotIncludeTerm EXCEPT ![i] = m_lastSnapshotIncludeTerm[i]]
       /\ m_lastApplied' = [m_lastApplied EXCEPT ![i] = m_lastApplied[i]]
       /\ applyMsgs' \in [Server -> SUBSET ApplyMsg]
       /\ exitSite' \in [Server -> {"none", "doHeartBeat", "matchLog"}]
       /\ persisted' \in [Server -> SavedState]
  BY <1>2, <1>5 DEF IndexInv, TypeOK, LogTypes, ApplyTypes, logVars
<1>13. m_commitIndex' = [m_commitIndex EXCEPT ![i] = commit] /\ LastLogIndex(i) <= snap + Len(m_logs[i])
  BY <1>5, <1>8
<1>14. commit <= snap + Len(m_logs[i])
  BY <1>8, <1>11
<1>15. \A q \in rpcs' : q \in rpcs
  BY <1>6
<1> HIDE DEF i, snap, commit
<1> QED BY <1>2, <1>7, <1>8, <1>9, <1>11, <1>12, <1>13, <1>14, <1>15, WithLogChange

---------------------------------------------------------------------------
(* Applying and snapshots.                                                 *)

LEMMA ApplyKeepsIndexInv ==
    ASSUME IndexInv, NEW i \in Server, Apply(i)
    PROVE  IndexInv'
<1>1. /\ m_logs[i] \in Seq(Entry) /\ m_lastSnapshotIncludeIndex[i] \in Nat /\ m_lastSnapshotIncludeTerm[i] \in Nat
      /\ LastLogIndex(i) = m_lastSnapshotIncludeIndex[i] + Len(m_logs[i]) /\ LastLogIndex(i) \in Nat
      /\ \A k \in 1..Len(m_logs[i]) : m_logs[i][k].logindex = m_lastSnapshotIncludeIndex[i] + k
  BY LogShape DEF IndexInv, IndexOrder, TypeOK, LogTypes
<1>2. /\ m_lastApplied[i] \in Nat /\ m_commitIndex[i] \in Nat /\ m_lastSnapshotIncludeIndex[i] <= m_lastApplied[i]
      /\ m_lastApplied[i] <= m_commitIndex[i] /\ m_commitIndex[i] <= LastLogIndex(i)
  BY IndexOrderOf DEF IndexInv
<1>3. \A k \in ToApply(i) : CommandMsg(i, k) \in ApplyMsg
  <2>1. ASSUME NEW k \in ToApply(i) PROVE CommandMsg(i, k) \in ApplyMsg
    <3>1. k \in Nat /\ SlicesIndex(i, k) \in 1..Len(m_logs[i])
      <4>1. k \in Nat /\ k > m_lastApplied[i] /\ k <= m_commitIndex[i]
        BY <1>2 DEF ToApply
      <4>2. m_lastSnapshotIncludeIndex[i] < k /\ k <= LastLogIndex(i)
        BY <1>1, <1>2, <4>1
      <4> QED BY <1>1, <4>1, <4>2 DEF SlicesIndex
    <3>2. m_logs[i][SlicesIndex(i, k)] \in Entry
      BY <1>1, <3>1, ElementOfSeq
    <3> QED BY <3>1, <3>2 DEF CommandMsg, ApplyMsg, Entry
  <2> QED BY <2>1
<1>4. applyMsgs' \in [Server -> SUBSET ApplyMsg]
  BY <1>3 DEF Apply, IndexInv, TypeOK, ApplyTypes
<1>5. VoteTypes' /\ LeaderTypes'
  BY DEF Apply, IndexInv, TypeOK, VoteTypes, LeaderTypes, voteVars, leaderVars
<1>6. /\ m_logs' = [m_logs EXCEPT ![i] = m_logs[i]]
      /\ m_lastSnapshotIncludeIndex' = [m_lastSnapshotIncludeIndex EXCEPT ![i] = m_lastSnapshotIncludeIndex[i]]
      /\ m_lastSnapshotIncludeTerm' = [m_lastSnapshotIncludeTerm EXCEPT ![i] = m_lastSnapshotIncludeTerm[i]]
      /\ m_commitIndex' = [m_commitIndex EXCEPT ![i] = m_commitIndex[i]]
      /\ m_lastApplied' = [m_lastApplied EXCEPT ![i] = m_commitIndex[i]]
      /\ exitSite' \in [Server -> {"none", "doHeartBeat", "matchLog"}]
      /\ persisted' \in [Server -> SavedState] /\ rpcs' = rpcs
  BY DEF Apply, IndexInv, TypeOK, LogTypes, ApplyTypes, logVars
<1>7. m_lastSnapshotIncludeIndex[i] <= m_commitIndex[i] /\ m_commitIndex[i] <= m_commitIndex[i]
  BY <1>1, <1>2
<1>8. LastLogIndex(i) <= m_lastSnapshotIncludeIndex[i] + Len(m_logs[i])
  BY <1>1
<1>9. m_commitIndex[i] <= m_lastSnapshotIncludeIndex[i] + Len(m_logs[i])
  BY <1>1, <1>2
<1> QED BY <1>1, <1>2, <1>4, <1>5, <1>6, <1>7, <1>8, <1>9, WithLogChange

\* Moving a node's snapshot to an index beyond the present one, of whatever
\* term, as Snapshot and InstallSnapshot do.
LEMMA SnapshotMoves ==
    ASSUME IndexInv, NEW i \in Server, NEW index \in Nat, NEW snapTerm \in Nat,
           index > m_lastSnapshotIncludeIndex[i],
           m_lastSnapshotIncludeIndex' = [m_lastSnapshotIncludeIndex EXCEPT ![i] = index],
           m_lastSnapshotIncludeTerm' = [m_lastSnapshotIncludeTerm EXCEPT ![i] = snapTerm],
           m_logs' = [m_logs EXCEPT ![i] = LogAfter(i, index)],
           m_commitIndex' = [m_commitIndex EXCEPT ![i] = Larger(@, index)],
           m_lastApplied' = [m_lastApplied EXCEPT ![i] = AppliedAfter(i, index)],
           applyMsgs' \in [Server -> SUBSET ApplyMsg],
           VoteTypes', UNCHANGED <<leaderVars, exitSite>>, Persist(i),
           \A r \in rpcs' : r \in rpcs \/ (r \in Rpc /\ WithinSendersLog(r))
    PROVE  IndexInv'
<1> DEFINE log == LogAfter(i, index)
           commit == Larger(m_commitIndex[i], index)
           applied == AppliedAfter(i, index)
<1>1. LastLogIndex(i) \in Nat /\ m_lastSnapshotIncludeIndex[i] \in Nat
  BY LogShape DEF IndexInv
<1>2. /\ log \in Seq(Entry)
      /\ Len(log) = IF index <= LastLogIndex(i) THEN LastLogIndex(i) - index ELSE 0
      /\ \A k \in 1..Len(log) : log[k].logindex = index + k
  <2>1. index >= m_lastSnapshotIncludeIndex[i] /\ TypeOK /\ IndexOrder
    BY <1>1 DEF IndexInv
  <2>2. log = SubSeq(m_logs[i], SlicesIndex(i, index) + 1, Len(m_logs[i]))
    BY DEF LogAfter
  <2> HIDE DEF log
  <2> QED BY <2>1, <2>2, SuffixOfLog
<1>3. /\ m_lastApplied[i] \in Nat /\ m_commitIndex[i] \in Nat
      /\ m_lastApplied[i] <= m_commitIndex[i] /\ m_commitIndex[i] <= LastLogIndex(i)
  BY IndexOrderOf DEF IndexInv
<1>4. /\ commit \in Nat /\ applied \in Nat /\ LastLogIndex(i) <= index + Len(log)
      /\ index <= applied /\ applied <= commit /\ commit <= index + Len(log)
  <2> HIDE DEF log
  <2> QED BY <1>1, <1>2, <1>3 DEF Larger, AppliedAfter
<1>5. LogTypes' /\ LeaderTypes'
  <2> HIDE DEF log
  <2>1. m_logs' = [m_logs EXCEPT ![i] = log]
    BY DEF log
  <2> QED BY <1>2, <2>1 DEF IndexInv, TypeOK, LogTypes, LeaderTypes, leaderVars
<1>6. persisted' \in [Server -> SavedState] /\ exitSite' \in [Server -> {"none", "doHeartBeat", "matchLog"}]
  BY <1>5, PersistKeepsType DEF IndexInv, TypeOK
<1>7. /\ m_logs' = [m_logs EXCEPT ![i] = log]
      /\ m_commitIndex' = [m_commitIndex EXCEPT ![i] = commit]
      /\ m_lastApplied' = [m_lastApplied EXCEPT ![i] = applied]
  OBVIOUS
<1> HIDE DEF log, commit, applied
<1> QED BY <1>2, <1>4, <1>5, <1>6, <1>7, WithLogChange

LEMMA SnapshotKeepsIndexInv ==
    ASSUME IndexInv, NEW i \in Server, NEW index \in 1..MaxSnapshotIndex, Snapshot(i, index)
    PROVE  IndexInv'
<1>1. index \in Nat /\ index > m_lastSnapshotIncludeIndex[i] /\ index <= m_commitIndex[i]
  BY BoundsAssumption DEF Snapshot
<1>2. LogTermAt(i, index) \in Nat
  <2>1. index \in m_lastSnapshotIncludeIndex[i]..LastLogIndex(i)
    BY <1>1, LogShape, IndexOrderOf DEF IndexInv
  <2> QED BY <2>1, TermOfIndex DEF IndexInv
<1>3. VoteTypes' /\ applyMsgs' \in [Server -> SUBSET ApplyMsg] /\ rpcs' = rpcs
  BY DEF Snapshot, IndexInv, TypeOK, VoteTypes, ApplyTypes, voteVars
<1>4. /\ m_lastSnapshotIncludeIndex' = [m_lastSnapshotIncludeIndex EXCEPT ![i] = index]
      /\ m_lastSnapshotIncludeTerm' = [m_lastSnapshotIncludeTerm EXCEPT ![i] = LogTermAt(i, index)]
      /\ m_logs' = [m_logs EXCEPT ![i] = LogAfter(i, index)]
      /\ m_commitIndex' = [m_commitIndex EXCEPT ![i] = Larger(@, index)]
      /\ m_lastApplied' = [m_lastApplied EXCEPT ![i] = AppliedAfter(i, index)]
      /\ UNCHANGED <<leaderVars, exitSite>> /\ Persist(i)
  BY DEF Snapshot
<1> QED BY <1>1, <1>2, <1>3, <1>4, SnapshotMoves

LEMMA LeaderSendSnapShotKeepsIndexInv ==
    ASSUME IndexInv, NEW r \in rpcs, LeaderSendSnapShot(r)
    PROVE  IndexInv'
<1> DEFINE i == r.from
           request == [kind |-> "InstallSnapshot", from |-> i, to |-> r.to, round |-> r.round,
                       term |-> m_currentTerm[i], snapIndex |-> m_lastSnapshotIncludeIndex[i],
                       snapTerm |-> m_lastSnapshotIncludeTerm[i]]
<1>1. r \in SendSnapShotRpc
  BY RpcFields DEF LeaderSendSnapShot, Reply, IndexInv, TypeOK
<1>2. request \in InstallSnapshotRpc
  BY <1>1 DEF SendSnapShotRpc, InstallSnapshotRpc, IndexInv, TypeOK, VoteTypes, LogTypes
<1>3. request \in Rpc /\ WithinSendersLog(request)
  BY <1>2 DEF Rpc, WithinSendersLog
<1>4. Answer(r, request)
  BY DEF LeaderSendSnapShot
<1>5. UNCHANGED <<voteVars, votedNum, logVars, applyVars, leaderVars, persisted, exitSite>>
  BY DEF LeaderSendSnapShot
<1> HIDE DEF request
<1> QED BY <1>3, <1>4, <1>5, AnswerOnly

LEMMA SnapshotReplyShape ==
    ASSUME IndexInv, NEW r \in rpcs, r.kind = "InstallSnapshot", NEW term \in Nat
    PROVE  SnapshotReply(r, term) \in Rpc /\ WithinSendersLog(SnapshotReply(r, term))
<1>1. r \in InstallSnapshotRpc
  BY RpcFields DEF IndexInv, TypeOK
<1>2. SnapshotReply(r, term) \in InstallSnapshotReplyRpc
  BY <1>1 DEF InstallSnapshotRpc, InstallSnapshotReplyRpc, SnapshotReply
<1> QED BY <1>2 DEF Rpc, WithinSendersLog, SnapshotReply

LEMMA RejectStaleSnapshotSenderKeepsIndexInv ==
    ASSUME IndexInv, NEW r \in rpcs, RejectStaleSnapshotSender(r)
    PROVE  IndexInv'
<1> DEFINE answer == SnapshotReply(r, m_currentTerm[r.to])
<1>1. m_currentTerm[r.to] \in Nat
  BY RpcFields DEF IndexInv, TypeOK, VoteTypes
<1>2. answer \in Rpc /\ WithinSendersLog(answer)
  BY <1>1, SnapshotReplyShape DEF RejectStaleSnapshotSender, Request
<1>3. /\ Answer(r, answer)
      /\ UNCHANGED <<voteVars, votedNum, logVars, applyVars, leaderVars, persisted, exitSite>>
  BY DEF RejectStaleSnapshotSender
<1> HIDE DEF answer
<1> QED BY <1>2, <1>3, AnswerOnly

LEMMA IgnoreOldSnapshotKeepsIndexInv ==
    ASSUME IndexInv, NEW r \in rpcs, IgnoreOldSnapshot(r)
    PROVE  IndexInv'
<1> DEFINE answer == SnapshotReply(r, 0)
<1>1. answer \in Rpc /\ WithinSendersLog(answer)
  BY SnapshotReplyShape DEF IgnoreOldSnapshot, Request
<1>2. /\ FollowLeader(r.to, r.term) /\ Answer(r, answer)
      /\ UNCHANGED <<votedNum, logVars, applyVars, leaderVars, exitSite>>
      /\ Persist(r.to) \/ UNCHANGED persisted
  BY DEF IgnoreOldSnapshot
<1> HIDE DEF answer
<1> QED BY <1>1, <1>2, FollowAndAnswer

LEMMA InstallSnapshotKeepsIndexInv ==
    ASSUME IndexInv, NEW r \in rpcs, InstallSnapshot(r)
    PROVE  IndexInv'
<1> DEFINE i == r.to
           answer == SnapshotReply(r, r.term)
<1>1. r \in InstallSnapshotRpc /\ r.kind = "InstallSnapshot"
  BY RpcFields DEF InstallSnapshot, Request, IndexInv, TypeOK
<1>2. i \in Server /\ r.term \in Nat /\ r.snapIndex \in Nat /\ r.snapTerm \in Nat
  BY <1>1 DEF InstallSnapshotRpc
<1>3. VoteTypes'
  BY <1>2, StepDownKeepsType DEF InstallSnapshot, IndexInv
<1>4. SnapshotMsg(r.snapIndex) \in ApplyMsg
  BY <1>2 DEF SnapshotMsg, ApplyMsg
<1>5. applyMsgs' \in [Server -> SUBSET ApplyMsg]
  BY <1>2, <1>4 DEF InstallSnapshot, IndexInv, TypeOK, ApplyTypes
<1>6. answer \in Rpc /\ WithinSendersLog(answer)
  BY <1>1, <1>2, SnapshotReplyShape
<1>7. \A q \in rpcs' : q \in rpcs \/ (q \in Rpc /\ WithinSendersLog(q))
  <2>1. Answer(r, answer)
    BY DEF InstallSnapshot
  <2> HIDE DEF answer
  <2> QED BY <1>6, <2>1 DEF Answer
<1>8. /\ r.snapIndex > m_lastSnapshotIncludeIndex[i]
      /\ m_lastSnapshotIncludeIndex' = [m_lastSnapshotIncludeIndex EXCEPT ![i] = r.snapIndex]
      /\ m_lastSnapshotIncludeTerm' = [m_lastSnapshotIncludeTerm EXCEPT ![i] = r.snapTerm]
      /\ m_logs' = [m_logs EXCEPT ![i] = LogAfter(i, r.snapIndex)]
      /\ m_commitIndex' = [m_commitIndex EXCEPT ![i] = Larger(@, r.snapIndex)]
      /\ m_lastApplied' = [m_lastApplied EXCEPT ![i] = AppliedAfter(i, r.snapIndex)]
      /\ UNCHANGED <<leaderVars, exitSite>> /\ Persist(i)
  BY DEF InstallSnapshot
<1> HIDE DEF i
<1> QED BY <1>2, <1>3, <1>5, <1>7, <1>8, SnapshotMoves

LEMMA PeerClosesKeepsIndexInv ==
    ASSUME IndexInv, NEW r \in rpcs, PeerCloses(r)
    PROVE  IndexInv'
<1>1. r \in InstallSnapshotRpc \/ r \in InstallSnapshotReplyRpc
  BY RpcFields DEF PeerCloses, Reply, IndexInv, TypeOK
<1>2. EmptyReply(r) \in InstallSnapshotReplyRpc
  BY <1>1 DEF InstallSnapshotRpc, InstallSnapshotReplyRpc, EmptyReply
<1>3. EmptyReply(r) \in Rpc /\ WithinSendersLog(EmptyReply(r))
  BY <1>2 DEF Rpc, WithinSendersLog, EmptyReply
<1>4. /\ Answer(r, EmptyReply(r))
      /\ UNCHANGED <<voteVars, votedNum, logVars, applyVars, leaderVars, persisted, exitSite>>
  BY DEF PeerCloses
<1> QED BY <1>3, <1>4, AnswerOnly

LEMMA SnapshotRepliesKeepIndexInv ==
    ASSUME IndexInv, NEW r \in rpcs,
           SnapshotReplyIgnored(r) \/ SnapshotReplyStepsDown(r) \/ SnapshotAccepted(r)
    PROVE  IndexInv'
<1>1. r \in InstallSnapshotReplyRpc
  BY RpcFields DEF SnapshotReplyIgnored, SnapshotReplyStepsDown, SnapshotAccepted, Reply, IndexInv, TypeOK
<1>2. r.from \in Server /\ r.to \in Server /\ r.term \in Nat /\ r.snapIndex \in Nat
  BY <1>1 DEF InstallSnapshotReplyRpc
<1>3. rpcs' \subseteq rpcs /\ UNCHANGED <<logVars, applyVars, exitSite, votedNum, appendNums>>
  BY DEF SnapshotReplyIgnored, SnapshotReplyStepsDown, SnapshotAccepted, Finish, leaderVars
<1>4. VoteTypes'
  <2>1. CASE SnapshotReplyStepsDown(r)
    BY <1>2, <2>1, StepDownKeepsType DEF SnapshotReplyStepsDown, IndexInv
  <2>2. CASE ~SnapshotReplyStepsDown(r)
    BY <2>2 DEF SnapshotReplyIgnored, SnapshotAccepted, IndexInv, TypeOK, VoteTypes, voteVars
  <2> QED BY <2>1, <2>2
<1>5. LogTypes' /\ LeaderTypes'
  <2>1. CASE SnapshotAccepted(r)
    <3>1. LogTypes'
      BY <1>3 DEF IndexInv, TypeOK, LogTypes, logVars
    <3>2. r.snapIndex + 1 \in Nat
      BY <1>2
    <3>3. m_nextIndex' \in [Server -> [Server -> Nat]] /\ m_matchIndex' \in [Server -> [Server -> Nat]]
      BY <1>2, <2>1, <3>2 DEF SnapshotAccepted, IndexInv, TypeOK, LeaderTypes
    <3> QED BY <1>3, <3>1, <3>3 DEF IndexInv, TypeOK, LeaderTypes
  <2>2. CASE ~SnapshotAccepted(r)
    BY <1>3, <2>2 DEF SnapshotReplyIgnored, SnapshotReplyStepsDown, IndexInv, TypeOK, LogTypes, LeaderTypes,
                      logVars, leaderVars
  <2> QED BY <2>1, <2>2
<1>6. persisted' \in [Server -> SavedState]
  <2>1. CASE SnapshotReplyStepsDown(r)
    BY <1>2, <1>4, <1>5, <2>1, PersistKeepsType DEF SnapshotReplyStepsDown, IndexInv
  <2>2. CASE ~SnapshotReplyStepsDown(r)
    BY <2>2 DEF SnapshotReplyIgnored, SnapshotAccepted, IndexInv, TypeOK
  <2> QED BY <2>1, <2>2
<1> QED BY <1>3, <1>4, <1>5, <1>6, WithoutLogChange DEF IndexInv, TypeOK

---------------------------------------------------------------------------
(* The invariant and the theorems.                                         *)

LEMMA InitIndexInv == Init => IndexInv
<1> SUFFICES ASSUME Init PROVE IndexInv
  OBVIOUS
<1>1. VoteTypes /\ LogTypes /\ ApplyTypes /\ LeaderTypes
  BY EmptySeq DEF Init, VoteTypes, LogTypes, ApplyTypes, LeaderTypes
<1>2. InitialState \in SavedState
  BY EmptySeq DEF InitialState, SavedState
<1>3. TypeOK
  BY <1>1, <1>2 DEF Init, TypeOK
<1>4. IndexOrder
  <2>1. \A i \in Server : m_logs[i] = <<>> /\ LastLogIndex(i) = 0
    BY DEF Init, LastLogIndex
  <2> QED BY <2>1, EmptySeq DEF Init, IndexOrder
<1>5. RequestsWithinLog
  BY DEF Init, RequestsWithinLog
<1> QED BY <1>3, <1>4, <1>5 DEF IndexInv

LEMMA NextKeepsIndexInv == IndexInv /\ [Next]_vars => IndexInv'
<1> SUFFICES ASSUME IndexInv, [Next]_vars PROVE IndexInv'
  OBVIOUS
<1>1. ASSUME NEW i \in Server, NodeStep(i) PROVE IndexInv'
  <2>1. CASE DoElection(i)
    BY <2>1, DoElectionKeepsIndexInv
  <2>2. CASE DoHeartBeat(i)
    BY <2>2, DoHeartBeatKeepsIndexInv
  <2>3. CASE HeartBeatExits(i)
    BY <2>3, HeartBeatExitsKeepsIndexInv
  <2>4. CASE \E command \in Command : Start(i, command)
    BY <2>4, StartKeepsIndexInv
  <2>5. CASE Apply(i)
    BY <2>5, ApplyKeepsIndexInv
  <2>6. CASE \E index \in 1..MaxSnapshotIndex : Snapshot(i, index)
    BY <2>6, SnapshotKeepsIndexInv
  <2> QED BY <1>1, <2>1, <2>2, <2>3, <2>4, <2>5, <2>6 DEF NodeStep
<1>2. ASSUME NEW r \in rpcs, VoteStep(r) PROVE IndexInv'
  BY <1>2, HandleRequestVoteKeepsIndexInv, VoteReplyStepsDownKeepsIndexInv, VoteReplyIgnoredKeepsIndexInv,
     CountVoteKeepsIndexInv, BecomeLeaderKeepsIndexInv DEF VoteStep
<1>3. ASSUME NEW r \in rpcs, AppendStep(r) PROVE IndexInv'
  BY <1>3, RejectStaleLeaderKeepsIndexInv, RejectGapKeepsIndexInv, PrevInSnapshotExitsKeepsIndexInv,
     AppendMatchingKeepsIndexInv, RejectMismatchKeepsIndexInv, AppendReplyStepsDownKeepsIndexInv,
     RepliesWithoutCommitKeepIndexInv, AppendAcceptedKeepsIndexInv DEF AppendStep
<1>4. ASSUME NEW r \in rpcs, SnapshotStep(r) PROVE IndexInv'
  BY <1>4, LeaderSendSnapShotKeepsIndexInv, RejectStaleSnapshotSenderKeepsIndexInv,
     IgnoreOldSnapshotKeepsIndexInv, InstallSnapshotKeepsIndexInv, SnapshotRepliesKeepIndexInv,
     PeerClosesKeepsIndexInv DEF SnapshotStep
<1>5. ASSUME NEW r \in rpcs, RpcFails(r) PROVE IndexInv'
  BY <1>5, RepliesWithoutCommitKeepIndexInv
<1>6. CASE UNCHANGED vars
  <2>1. VoteTypes' /\ LeaderTypes'
    BY <1>6 DEF vars, voteVars, leaderVars, IndexInv, TypeOK, VoteTypes, LeaderTypes
  <2> QED BY <1>6, <2>1, WithoutLogChange DEF vars, IndexInv, TypeOK
<1> QED BY <1>1, <1>2, <1>3, <1>4, <1>5, <1>6 DEF Next

THEOREM IndexInvariance == Spec => []IndexInv
BY InitIndexInv, NextKeepsIndexInv, PTL DEF Spec

\* Every variable of every node keeps its type, in particular every log index
\* that is computed lies in the log it is used on (raft.cpp, whole file).
THEOREM TypeCorrect == Spec => []TypeOK
<1>1. IndexInv => TypeOK
  BY DEF IndexInv
<1> QED BY <1>1, IndexInvariance, PTL

\* snapshot <= applied <= committed <= last index and exact entry indices, the
\* assertions of raft.cpp:699, 848 and 1049-1052, hold in every cluster.
THEOREM IndexOrderHolds == Spec => []IndexOrder
<1>1. IndexInv => IndexOrder
  BY DEF IndexInv
<1> QED BY <1>1, IndexInvariance, PTL

\* Whatever overwrites a sender's log, it ends no earlier than the entries its
\* requests and the answers to them speak of (raft.cpp:548-583, 688-700).
THEOREM RequestsWithinLogHolds == Spec => []RequestsWithinLog
<1>1. IndexInv => RequestsWithinLog
  BY DEF IndexInv
<1> QED BY <1>1, IndexInvariance, PTL
============================================================================
