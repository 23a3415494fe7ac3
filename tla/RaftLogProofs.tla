--------------------------- MODULE RaftLogProofs ---------------------------
(***************************************************************************)
(* What logs hold and what is applied, for every cluster.  Seven kinds of  *)
(* step touch logs, entries in flight or the applied state (LogSteps); the *)
(* invariants are proved over those seven.                                 *)
(***************************************************************************)
EXTENDS RaftElectionProofs

---------------------------------------------------------------------------
(* What a step does to logs and to the applied state.                      *)

NoNewEntries == \A r \in rpcs' : r.kind = "AppendEntries" => r \in rpcs

LogIdle == UNCHANGED <<logVars, m_lastApplied, applyMsgs>> /\ NoNewEntries

HeartBeatSent(i) ==
    /\ m_status[i] = "Leader"
    /\ UNCHANGED <<logVars, m_lastApplied, applyMsgs>>
    /\ \E S \in SUBSET (Server \ {i}), k \in Round :
        /\ rpcs' = rpcs \cup {HeartBeatRpc(i, j, k) : j \in S}
        /\ \A j \in S : SendableIndex(i, j)

LogStep ==
    \/ LogIdle
    \/ \E i \in Server : HeartBeatSent(i)
    \/ \E i \in Server, command \in Command : Start(i, command)
    \/ \E i \in Server : Apply(i)
    \/ \E i \in Server, index \in 1..MaxSnapshotIndex : Snapshot(i, index)
    \/ \E r \in rpcs : AppendMatching(r)
    \/ \E r \in rpcs : InstallSnapshot(r)

LEMMA NodeStepsOfLogs ==
    ASSUME NEW i \in Server, NodeStep(i)
    PROVE  LogStep
<1>1. CASE DoElection(i)
  <2>1. PICK S \in SUBSET Server : rpcs' = rpcs \cup {VoteRequest(i, j) : j \in S}
    BY <1>1 DEF DoElection
  <2>2. NoNewEntries
    BY <2>1 DEF NoNewEntries, VoteRequest
  <2> QED BY <1>1, <2>2 DEF DoElection, applyVars, LogIdle, LogStep
<1>2. CASE DoHeartBeat(i)
  <2>1. PICK S \in SUBSET (Server \ {i}), k \in Round : SpawnHeartBeats(i, S, k)
    BY <1>2 DEF DoHeartBeat
  <2>2. \A j \in S : SendableIndex(i, j)
    BY <1>2 DEF DoHeartBeat
  <2>3. HeartBeatSent(i)
    BY <1>2, <2>1, <2>2 DEF DoHeartBeat, SpawnHeartBeats, applyVars, HeartBeatSent
  <2> QED BY <2>3 DEF LogStep
<1>3. CASE HeartBeatExits(i)
  <2>1. PICK S \in SUBSET {j \in Server \ {i} : SendableIndex(i, j)}, k \in Round : SpawnHeartBeats(i, S, k)
    BY <1>3 DEF HeartBeatExits
  <2>2. S \in SUBSET (Server \ {i}) /\ \A j \in S : SendableIndex(i, j)
    OBVIOUS
  <2>3. HeartBeatSent(i)
    BY <1>3, <2>1, <2>2 DEF HeartBeatExits, Exit, SpawnHeartBeats, applyVars, HeartBeatSent
  <2> QED BY <2>3 DEF LogStep
<1>4. CASE \E command \in Command : Start(i, command)
  BY <1>4 DEF LogStep
<1>5. CASE Apply(i)
  BY <1>5 DEF LogStep
<1>6. CASE \E index \in 1..MaxSnapshotIndex : Snapshot(i, index)
  BY <1>6 DEF LogStep
<1> QED BY <1>1, <1>2, <1>3, <1>4, <1>5, <1>6 DEF NodeStep

LEMMA RpcStepsOfLogs ==
    ASSUME NEW r \in rpcs, VoteStep(r) \/ AppendStep(r) \/ SnapshotStep(r) \/ RpcFails(r)
    PROVE  LogStep
<1>1. CASE VoteStep(r)
  <2>1. \A term, granted : VoteReply(r, term, granted).kind # "AppendEntries"
    BY DEF VoteReply
  <2>2. NoNewEntries
    <3>1. CASE HandleRequestVote(r)
      BY <2>1, <3>1 DEF HandleRequestVote, Answer, NoNewEntries
    <3>2. CASE ~HandleRequestVote(r)
      BY <1>1, <3>2 DEF VoteStep, VoteReplyStepsDown, VoteReplyIgnored, CountVote, BecomeLeader, Finish, NoNewEntries
    <3> QED BY <3>1, <3>2
  <2>3. UNCHANGED <<logVars, applyVars>>
    BY <1>1 DEF VoteStep, HandleRequestVote, VoteReplyStepsDown, VoteReplyIgnored, CountVote, BecomeLeader
  <2> QED BY <2>2, <2>3 DEF applyVars, LogIdle, LogStep
<1>2. CASE AppendStep(r) /\ ~AppendMatching(r)
  <2>1. \A term, success, hint : AppendReply(r, term, success, hint).kind # "AppendEntries"
    BY DEF AppendReply
  <2>2. NoNewEntries
    <3>1. CASE RejectStaleLeader(r) \/ RejectGap(r) \/ RejectMismatch(r)
      <4>1. PICK term, success, hint : Answer(r, AppendReply(r, term, success, hint))
        BY <3>1 DEF RejectStaleLeader, RejectGap, RejectMismatch
      <4> QED BY <2>1, <4>1 DEF Answer, NoNewEntries
    <3>2. CASE ~(RejectStaleLeader(r) \/ RejectGap(r) \/ RejectMismatch(r))
      BY <1>2, <3>2 DEF AppendStep, PrevInSnapshotExits, AppendReplyStepsDown, AppendReplyIgnored, AppendRejected,
                        AppendAccepted, FinishAppend, Finish, NoNewEntries
    <3> QED BY <3>1, <3>2
  <2>3. UNCHANGED <<logVars, m_lastApplied, applyMsgs>>
    BY <1>2 DEF AppendStep, RejectStaleLeader, RejectGap, RejectMismatch, PrevInSnapshotExits, Exit, applyVars,
                AppendReplyStepsDown, AppendReplyIgnored, AppendRejected, AppendAccepted
  <2> QED BY <2>2, <2>3 DEF LogIdle, LogStep
<1>3. CASE AppendMatching(r)
  BY <1>3 DEF LogStep
<1>4. CASE SnapshotStep(r) /\ ~InstallSnapshot(r)
  <2>1. \A term : SnapshotReply(r, term).kind # "AppendEntries"
    BY DEF SnapshotReply
  <2>2. NoNewEntries
    <3>1. CASE RejectStaleSnapshotSender(r) \/ IgnoreOldSnapshot(r)
      BY <2>1, <3>1 DEF RejectStaleSnapshotSender, IgnoreOldSnapshot, Answer, NoNewEntries
    <3>2. CASE LeaderSendSnapShot(r)
      BY <3>2 DEF LeaderSendSnapShot, Answer, NoNewEntries
    <3>3. CASE SnapshotReplyIgnored(r) \/ SnapshotReplyStepsDown(r) \/ SnapshotAccepted(r)
      BY <3>3 DEF SnapshotReplyIgnored, SnapshotReplyStepsDown, SnapshotAccepted, Finish, NoNewEntries
    <3>4. CASE PeerCloses(r)
      <4>1. EmptyReply(r).kind # "AppendEntries"
        BY DEF EmptyReply
      <4> QED BY <3>4, <4>1 DEF PeerCloses, Answer, NoNewEntries
    <3> QED BY <1>4, <3>1, <3>2, <3>3, <3>4 DEF SnapshotStep
  <2>3. UNCHANGED <<logVars, applyVars>>
    BY <1>4 DEF SnapshotStep, LeaderSendSnapShot, RejectStaleSnapshotSender, IgnoreOldSnapshot,
                SnapshotReplyIgnored, SnapshotReplyStepsDown, SnapshotAccepted, PeerCloses
  <2> QED BY <2>2, <2>3 DEF applyVars, LogIdle, LogStep
<1>5. CASE InstallSnapshot(r)
  BY <1>5 DEF LogStep
<1>6. CASE RpcFails(r)
  BY <1>6 DEF RpcFails, FinishAppend, Finish, NoNewEntries, applyVars, LogIdle, LogStep
<1> QED BY <1>1, <1>2, <1>3, <1>4, <1>5, <1>6

\* Every step of Raft is one of the seven.
LEMMA LogSteps == [Next]_vars => LogStep
<1> SUFFICES ASSUME [Next]_vars PROVE LogStep
  OBVIOUS
<1>1. CASE UNCHANGED vars
  BY <1>1 DEF vars, applyVars, NoNewEntries, LogIdle, LogStep
<1> QED BY <1>1, NodeStepsOfLogs, RpcStepsOfLogs DEF Next

---------------------------------------------------------------------------
(* Applying.                                                               *)

LEMMA ApplyKeepsGapFree ==
    ASSUME IndexInv, NEW i \in Server, Apply(i), GapFree(i)
    PROVE  GapFree(i)'
<1> DEFINE new == {CommandMsg(i, k) : k \in ToApply(i)}
<1>1. /\ m_lastApplied[i] \in Nat /\ m_commitIndex[i] \in Nat /\ m_lastApplied[i] < m_commitIndex[i]
      /\ m_lastApplied'[i] = m_commitIndex[i] /\ applyMsgs'[i] = applyMsgs[i] \cup new
  BY IndexOrderOf DEF Apply, IndexInv, TypeOK, ApplyTypes
<1>2. \A k \in ToApply(i) : CommandMsg(i, k).valid = "Command" /\ CommandMsg(i, k).index = k
  BY DEF CommandMsg
<1>3. \A msg \in applyMsgs[i] : msg.index \in Nat
  BY DEF IndexInv, TypeOK, ApplyTypes, ApplyMsg
<1>4. ASSUME NEW k \in 1..m_lastApplied'[i]
      PROVE  \E msg \in applyMsgs'[i] :
                \/ msg.valid = "Command" /\ msg.index = k
                \/ msg.valid = "Snapshot" /\ msg.index >= k
  <2>1. CASE k \in 1..m_lastApplied[i]
    BY <1>1, <2>1 DEF GapFree
  <2>2. CASE k \in ToApply(i)
    BY <1>1, <1>2, <2>2
  <2> QED BY <1>1, <2>1, <2>2 DEF ToApply
<1>5. ASSUME NEW msg \in applyMsgs'[i] PROVE msg.index <= m_lastApplied'[i]
  <2>1. CASE msg \in applyMsgs[i]
    BY <1>1, <1>3, <2>1 DEF GapFree
  <2>2. CASE msg \in new
    BY <1>1, <1>2, <2>2 DEF ToApply
  <2> QED BY <1>1, <2>1, <2>2
<1>6. ASSUME NEW m1 \in applyMsgs'[i], NEW m2 \in applyMsgs'[i],
             m1.valid = "Command", m2.valid = "Command", m1.index = m2.index
      PROVE  m1 = m2
  <2>1. \A msg \in new : msg.index > m_lastApplied[i] /\ msg = CommandMsg(i, msg.index)
    BY <1>1, <1>2 DEF ToApply
  <2>2. \A msg \in applyMsgs[i] : ~(msg.index > m_lastApplied[i])
    BY <1>1, <1>3 DEF GapFree
  <2>3. CASE m1 \in new /\ m2 \in new
    BY <1>6, <2>1, <2>3
  <2>4. CASE m1 \in applyMsgs[i] /\ m2 \in applyMsgs[i]
    BY <1>6, <2>4 DEF GapFree
  <2> QED BY <1>1, <1>6, <2>1, <2>2, <2>3, <2>4
<1> QED BY <1>4, <1>5, <1>6 DEF GapFree

\* The KvServer only snapshots what it was handed, so nothing counts as applied
\* that was not.
LEMMA SnapshotKeepsGapFree ==
    ASSUME IndexInv, NEW i \in Server, NEW index \in 1..MaxSnapshotIndex, Snapshot(i, index), GapFree(i)
    PROVE  GapFree(i)'
<1>1. m_lastApplied[i] \in Nat /\ index \in Nat /\ index <= m_lastApplied[i]
  BY IndexOrderOf, BoundsAssumption DEF Snapshot, GapFree, IndexInv
<1>2. m_lastApplied'[i] = m_lastApplied[i] /\ applyMsgs' = applyMsgs
  BY <1>1 DEF Snapshot, AppliedAfter, Larger, IndexInv, TypeOK, ApplyTypes
<1> QED BY <1>2 DEF GapFree

LEMMA InstallSnapshotKeepsGapFree ==
    ASSUME IndexInv, NEW r \in rpcs, InstallSnapshot(r), GapFree(r.to)
    PROVE  GapFree(r.to)'
<1> DEFINE i == r.to
           new == SnapshotMsg(r.snapIndex)
           applied == AppliedAfter(i, r.snapIndex)
<1>1. i \in Server /\ r.snapIndex \in Nat
  BY RpcFields DEF InstallSnapshot, Request, IndexInv, TypeOK, InstallSnapshotRpc
<1>2. m_lastApplied'[i] = applied /\ applyMsgs'[i] = applyMsgs[i] \cup {new} /\ m_lastApplied[i] \in Nat
  BY <1>1 DEF InstallSnapshot, IndexInv, TypeOK, ApplyTypes
<1>3. new.valid = "Snapshot" /\ new.index = r.snapIndex
  BY DEF SnapshotMsg
<1>4. /\ applied \in Nat /\ m_lastApplied[i] <= applied /\ r.snapIndex <= applied
      /\ (applied = m_lastApplied[i] \/ applied = r.snapIndex)
  BY <1>1, <1>2 DEF AppliedAfter, Larger
<1>5. \A msg \in applyMsgs[i] : msg.index \in Nat
  BY <1>1 DEF IndexInv, TypeOK, ApplyTypes, ApplyMsg
<1> HIDE DEF new, applied
<1>6. ASSUME NEW k \in 1..m_lastApplied'[i]
      PROVE  \E msg \in applyMsgs'[i] :
                \/ msg.valid = "Command" /\ msg.index = k
                \/ msg.valid = "Snapshot" /\ msg.index >= k
  <2>1. CASE applied = m_lastApplied[i]
    BY <1>2, <2>1 DEF GapFree
  <2>2. CASE applied = r.snapIndex
    BY <1>1, <1>2, <1>3, <2>2
  <2> QED BY <1>4, <2>1, <2>2
<1>7. \A msg \in applyMsgs'[i] : msg.index <= m_lastApplied'[i]
  BY <1>1, <1>2, <1>3, <1>4, <1>5 DEF GapFree
<1>8. \A m1, m2 \in applyMsgs'[i] :
            m1.valid = "Command" /\ m2.valid = "Command" /\ m1.index = m2.index => m1 = m2
  BY <1>2, <1>3 DEF GapFree
<1> QED BY <1>6, <1>7, <1>8 DEF GapFree

LEMMA StepKeepsGapFree ==
    ASSUME IndexInv, LogStep, AppliedWithoutGap
    PROVE  AppliedWithoutGap'
<1> SUFFICES ASSUME NEW j \in Server PROVE GapFree(j)'
  BY DEF AppliedWithoutGap
<1>0. /\ GapFree(j) /\ m_lastApplied \in [Server -> Nat] /\ applyMsgs \in [Server -> SUBSET ApplyMsg]
  BY DEF AppliedWithoutGap, IndexInv, TypeOK, ApplyTypes
<1>1. CASE m_lastApplied'[j] = m_lastApplied[j] /\ applyMsgs'[j] = applyMsgs[j]
  BY <1>0, <1>1 DEF GapFree
<1>2. CASE \E i \in Server : Apply(i)
  <2>1. PICK i \in Server : Apply(i)
    BY <1>2
  <2>2. i # j => m_lastApplied'[j] = m_lastApplied[j] /\ applyMsgs'[j] = applyMsgs[j]
    BY <1>0, <2>1 DEF Apply
  <2> QED BY <1>0, <1>1, <2>1, <2>2, ApplyKeepsGapFree
<1>3. CASE \E i \in Server, index \in 1..MaxSnapshotIndex : Snapshot(i, index)
  <2>1. PICK i \in Server, index \in 1..MaxSnapshotIndex : Snapshot(i, index)
    BY <1>3
  <2>2. i # j => m_lastApplied'[j] = m_lastApplied[j] /\ applyMsgs'[j] = applyMsgs[j]
    BY <1>0, <2>1 DEF Snapshot
  <2> QED BY <1>0, <1>1, <2>1, <2>2, SnapshotKeepsGapFree
<1>4. CASE \E r \in rpcs : InstallSnapshot(r)
  <2>1. PICK r \in rpcs : InstallSnapshot(r)
    BY <1>4
  <2>2. r.to # j => m_lastApplied'[j] = m_lastApplied[j] /\ applyMsgs'[j] = applyMsgs[j]
    BY <1>0, <2>1 DEF InstallSnapshot
  <2> QED BY <1>0, <1>1, <2>1, <2>2, InstallSnapshotKeepsGapFree
<1>5. CASE \/ LogIdle
           \/ \E i \in Server : HeartBeatSent(i)
           \/ \E i \in Server, command \in Command : Start(i, command)
           \/ \E r \in rpcs : AppendMatching(r)
  <2>1. UNCHANGED <<m_lastApplied, applyMsgs>>
    BY <1>5 DEF LogIdle, HeartBeatSent, Start, applyVars, AppendMatching
  <2> QED BY <1>1, <2>1
<1> QED BY <1>2, <1>3, <1>4, <1>5 DEF LogStep

\* Every KvServer is handed every index once and without a gap, as a command or
\* under a snapshot, however snapshots taken and installed race with the applier
\* (raft.cpp:1038-1118, 1259-1320, 1391-1460).
THEOREM AppliedWithoutGapHolds == Spec => []AppliedWithoutGap
<1>1. Init => AppliedWithoutGap
  BY DEF Init, AppliedWithoutGap, GapFree
<1>2. IndexInv /\ AppliedWithoutGap /\ [Next]_vars => AppliedWithoutGap'
  BY LogSteps, StepKeepsGapFree
<1> QED BY <1>1, <1>2, IndexInvariance, PTL DEF Spec

---------------------------------------------------------------------------
(* Logs that grow, and logs that lose what a snapshot covers.              *)

\* After a step that keeps the invariant, a log ends at snapshot + length.
LEMMA LogEndAfter ==
    ASSUME IndexInv', NEW i \in Server
    PROVE  /\ LastLogIndex(i)' = m_lastSnapshotIncludeIndex'[i] + Len(m_logs'[i])
           /\ m_lastSnapshotIncludeIndex'[i] \in Nat /\ Len(m_logs'[i]) \in Nat
           /\ m_logs'[i] \in Seq(Entry)
<1>1. m_logs'[i] \in Seq(Entry) /\ m_lastSnapshotIncludeIndex'[i] \in Nat
  BY DEF IndexInv, TypeOK, LogTypes
<1>2. \A k \in 1..Len(m_logs'[i]) : m_logs'[i][k].logindex = m_lastSnapshotIncludeIndex'[i] + k
  BY DEF IndexInv, IndexOrder
<1> QED BY <1>1, <1>2, LastEntry, LenProperties DEF LastLogIndex

\* Entries beyond the index of a snapshot stay what they were.
LEMMA SuffixKept ==
    ASSUME IndexInv, NEW i \in Server, NEW index \in Nat, index >= m_lastSnapshotIncludeIndex[i]
    PROVE  /\ Len(LogAfter(i, index)) = IF index <= LastLogIndex(i) THEN LastLogIndex(i) - index ELSE 0
           /\ \A k \in 1..Len(LogAfter(i, index)) :
                /\ SlicesIndex(i, index + k) \in 1..Len(m_logs[i])
                /\ LogAfter(i, index)[k] = m_logs[i][SlicesIndex(i, index + k)]
<1> DEFINE first == SlicesIndex(i, index) + 1
           n == Len(m_logs[i])
           suffix == SubSeq(m_logs[i], first, n)
<1>1. /\ LastLogIndex(i) = m_lastSnapshotIncludeIndex[i] + n /\ n \in Nat
      /\ m_lastSnapshotIncludeIndex[i] \in Nat /\ m_logs[i] \in Seq(Entry)
  BY LogShape DEF IndexInv
<1>2. first \in Nat /\ first >= 1 /\ first = index - m_lastSnapshotIncludeIndex[i] + 1
  BY <1>1 DEF SlicesIndex
<1>3. \A k \in first..n : m_logs[i][k] \in Entry
  BY <1>1, <1>2, ElementOfSeq
<1>4. /\ suffix \in Seq(Entry)
      /\ Len(suffix) = IF first <= n THEN n - first + 1 ELSE 0
      /\ \A k \in 1..(n - first + 1) : suffix[k] = m_logs[i][first + k - 1]
  <2>1. first \in Nat /\ n \in Nat
    BY <1>1, <1>2
  <2> QED BY <1>3, <2>1, SubSeqProperties
<1>5. Len(suffix) = IF index <= LastLogIndex(i) THEN LastLogIndex(i) - index ELSE 0
  <2> DEFINE len == Len(suffix)
             snap == m_lastSnapshotIncludeIndex[i]
             last == LastLogIndex(i)
  <2>1. len = IF first <= n THEN n - first + 1 ELSE 0
    BY <1>4
  <2>2. last = snap + n /\ n \in Nat /\ snap \in Nat /\ first = index - snap + 1
    BY <1>1, <1>2
  <2> HIDE DEF len, snap, last, first, n
  <2>3. len = IF index <= last THEN last - index ELSE 0
    BY <2>1, <2>2
  <2> QED BY <2>3 DEF len, last
<1> HIDE DEF suffix, n
<1>6. ASSUME NEW k \in 1..Len(suffix)
      PROVE  SlicesIndex(i, index + k) \in 1..n /\ suffix[k] = m_logs[i][SlicesIndex(i, index + k)]
  <2>1. k \in 1..(n - first + 1) /\ first + k - 1 \in 1..n
    <3> DEFINE len == Len(suffix)
    <3>1. k \in 1..len /\ len = (IF first <= n THEN n - first + 1 ELSE 0)
      BY <1>4
    <3>2. first \in Nat /\ first >= 1 /\ n \in Nat
      BY <1>1, <1>2
    <3> HIDE DEF len, first
    <3> QED BY <3>1, <3>2
  <2>2. SlicesIndex(i, index + k) = first + k - 1
    BY <1>1, <1>2 DEF SlicesIndex
  <2> QED BY <1>4, <2>1, <2>2
<1> QED BY <1>5, <1>6 DEF suffix, n, LogAfter

\* Only AppendEntries changes entries: any other step keeps those it does not
\* put under a snapshot.
LEMMA OnlyAppendsReplace ==
    ASSUME IndexInv, IndexInv', LogStep, NEW i \in Server, \A r \in rpcs : AppendMatching(r) => r.to # i
    PROVE  /\ LastLogIndex(i)' >= LastLogIndex(i)
           /\ \A k \in (m_lastSnapshotIncludeIndex'[i] + 1)..LastLogIndex(i) :
                 k > m_lastSnapshotIncludeIndex[i] =>
                    m_logs'[i][k - m_lastSnapshotIncludeIndex'[i]] = m_logs[i][SlicesIndex(i, k)]
<1> DEFINE snap == m_lastSnapshotIncludeIndex[i]
           Kept == /\ LastLogIndex(i)' >= LastLogIndex(i)
                   /\ \A k \in (m_lastSnapshotIncludeIndex'[i] + 1)..LastLogIndex(i) :
                        k > snap => m_logs'[i][k - m_lastSnapshotIncludeIndex'[i]] = m_logs[i][SlicesIndex(i, k)]
<1>0. /\ m_logs \in [Server -> Seq(Entry)] /\ m_lastSnapshotIncludeIndex \in [Server -> Nat]
      /\ snap \in Nat /\ Len(m_logs[i]) \in Nat /\ LastLogIndex(i) = snap + Len(m_logs[i])
  BY LogShape DEF IndexInv, TypeOK, LogTypes
<1>1. CASE m_logs'[i] = m_logs[i] /\ m_lastSnapshotIncludeIndex'[i] = snap
  BY <1>0, <1>1, LogEndAfter DEF SlicesIndex
<1>2. ASSUME NEW j \in Server, NEW command \in Command, Start(j, command) PROVE Kept
  <2>1. CASE j # i
    BY <1>0, <1>1, <1>2, <2>1 DEF Start
  <2>2. CASE j = i
    <3>1. m_logs'[i] = Append(m_logs[i], NewEntry(i, command)) /\ m_lastSnapshotIncludeIndex'[i] = snap
      BY <1>0, <1>2, <2>2 DEF Start
    <3>2. NewEntry(i, command) \in Entry
      BY <1>0 DEF NewEntry, Entry, IndexInv, TypeOK, VoteTypes
    <3>3. /\ Len(m_logs'[i]) = Len(m_logs[i]) + 1
          /\ \A k \in 1..Len(m_logs[i]) : m_logs'[i][k] = m_logs[i][k]
      BY <1>0, <3>1, <3>2, AppendProperties
    <3>4. \A k \in (snap + 1)..LastLogIndex(i) : k - snap \in 1..Len(m_logs[i])
      <4> HIDE DEF snap
      <4> QED BY <1>0
    <3> QED BY <1>0, <3>1, <3>3, <3>4, LogEndAfter DEF SlicesIndex
  <2> QED BY <2>1, <2>2
<1>3. ASSUME NEW index \in Nat, index > m_lastSnapshotIncludeIndex[i],
             m_logs'[i] = LogAfter(i, index), m_lastSnapshotIncludeIndex'[i] = index
      PROVE  Kept
  <2>0. index >= m_lastSnapshotIncludeIndex[i]
    BY <1>0, <1>3
  <2>1. /\ Len(LogAfter(i, index)) = IF index <= LastLogIndex(i) THEN LastLogIndex(i) - index ELSE 0
        /\ \A k \in 1..Len(LogAfter(i, index)) :
                LogAfter(i, index)[k] = m_logs[i][SlicesIndex(i, index + k)]
    BY <2>0, SuffixKept
  <2>2. ASSUME NEW k \in (index + 1)..LastLogIndex(i)
        PROVE  LogAfter(i, index)[k - index] = m_logs[i][SlicesIndex(i, k)]
    <3>1. k - index \in 1..Len(LogAfter(i, index)) /\ index + (k - index) = k
      BY <1>0, <2>1
    <3> QED BY <2>1, <3>1
  <2> QED BY <1>0, <1>3, <2>1, <2>2, LogEndAfter
<1>4. ASSUME NEW j \in Server, NEW index \in 1..MaxSnapshotIndex, Snapshot(j, index) PROVE Kept
  BY <1>0, <1>1, <1>3, <1>4, BoundsAssumption DEF Snapshot
<1>5. ASSUME NEW r \in rpcs, InstallSnapshot(r) PROVE Kept
  <2>1. r.snapIndex \in Nat
    BY <1>5, RpcFields DEF InstallSnapshot, Request, IndexInv, TypeOK, InstallSnapshotRpc
  <2> QED BY <1>0, <1>1, <1>3, <1>5, <2>1 DEF InstallSnapshot
<1>6. ASSUME NEW r \in rpcs, AppendMatching(r) PROVE Kept
  BY <1>0, <1>1, <1>6 DEF AppendMatching
<1>7. CASE LogIdle \/ \E j \in Server : HeartBeatSent(j) \/ Apply(j)
  BY <1>1, <1>7 DEF LogIdle, HeartBeatSent, Apply, logVars
<1> QED BY <1>2, <1>4, <1>5, <1>6, <1>7 DEF LogStep

\* A leader never loses or changes an entry while it leads, whatever requests
\* and snapshots of its own or older terms still reach it (raft.cpp:762-863,
\* 987-1029, 1259-1320, 1391-1460).
THEOREM LeaderAppendOnlyHolds == Spec => LeaderAppendOnly
<1>1. IndexInv /\ IndexInv' /\ [Next]_vars =>
        [\A i \in Server :
            m_status[i] = "Leader" /\ m_status'[i] = "Leader" =>
                /\ LastLogIndex(i)' >= LastLogIndex(i)
                /\ \A k \in (m_lastSnapshotIncludeIndex'[i] + 1)..LastLogIndex(i) :
                     k > m_lastSnapshotIncludeIndex[i] =>
                        m_logs'[i][k - m_lastSnapshotIncludeIndex'[i]] = m_logs[i][SlicesIndex(i, k)]]_vars
  <2> SUFFICES ASSUME IndexInv, IndexInv', [Next]_vars, NEW i \in Server,
                      m_status[i] = "Leader", m_status'[i] = "Leader"
               PROVE  /\ LastLogIndex(i)' >= LastLogIndex(i)
                      /\ \A k \in (m_lastSnapshotIncludeIndex'[i] + 1)..LastLogIndex(i) :
                           k > m_lastSnapshotIncludeIndex[i] =>
                              m_logs'[i][k - m_lastSnapshotIncludeIndex'[i]] = m_logs[i][SlicesIndex(i, k)]
    OBVIOUS
  \* A node that takes in entries follows their sender.
  <2>1. ASSUME NEW r \in rpcs, AppendMatching(r) PROVE r.to # i
    <3>1. FollowLeader(r.to, r.term) /\ m_status \in [Server -> {"Follower", "Candidate", "Leader"}]
      BY <2>1 DEF AppendMatching, IndexInv, TypeOK, VoteTypes
    <3> QED BY <3>1 DEF FollowLeader
  <2> QED BY <2>1, LogSteps, OnlyAppendsReplace
<1> QED BY <1>1, IndexInvariance, PTL DEF Spec, LeaderAppendOnly

---------------------------------------------------------------------------
(* One command per index and term.                                         *)

\* Candidate i has the ballots of a majority for a term, counted or not.
Elected(i, term) == \E Q \in SUBSET Server : Majority(Cardinality(Q)) /\ \A v \in Q : <<v, term, i>> \in votes

\* Every entry was made in its term by the one node elected in it, whose log
\* has not ended before it since.
EntriesOwned == \A e \in Entries : \E i \in Server : Elected(i, e.logterm) /\ e.logindex <= LastLogIndex(i)

EntryInv == EntryIdentity /\ EntriesOwned

LEMMA OneElectedPerTerm ==
    ASSUME ElectionInv, NEW i \in Server, NEW j \in Server, NEW term, Elected(i, term), Elected(j, term)
    PROVE  i = j
<1>1. PICK Q \in SUBSET Server : Majority(Cardinality(Q)) /\ \A v \in Q : <<v, term, i>> \in votes
  BY DEF Elected
<1>2. PICK R \in SUBSET Server : Majority(Cardinality(R)) /\ \A v \in R : <<v, term, j>> \in votes
  BY DEF Elected
<1>3. Cardinality(Q) + Cardinality(R) > Cardinality(Server)
  <2>1. Cardinality(Q) \in Nat /\ Cardinality(R) \in Nat
    BY SubsetOfServers
  <2> DEFINE q == (Cardinality(Server) \div 2) + 1
  <2>2. Cardinality(Q) >= q /\ Cardinality(R) >= q
    BY <1>1, <1>2 DEF Majority
  <2>3. q \in Nat /\ 2 * q > Cardinality(Server) /\ Cardinality(Server) \in Nat
    BY QuorumIsMajority
  <2> HIDE DEF q
  <2> QED BY <2>1, <2>2, <2>3
<1>4. PICK p : p \in Q /\ p \in R
  BY <1>3, ServerAssumption, FS_MajoritiesIntersect
<1>5. \A v, w \in votes : v[1] = w[1] /\ v[2] = w[2] => v[3] = w[3]
  BY DEF ElectionInv, OneVotePerTerm
<1> QED BY <1>1, <1>2, <1>4, <1>5

LEMMA LeaderIsElected ==
    ASSUME IndexInv, ElectionInv, NEW i \in Server, m_status[i] = "Leader"
    PROVE  Elected(i, m_currentTerm[i])
<1> DEFINE q == (Cardinality(Server) \div 2) + 1
<1>1. votedNum[i] + q <= Cardinality(Settled(i)) /\ votedNum[i] \in Nat
  BY DEF ElectionInv, VotesCountedOnce, Spent, IndexInv, TypeOK, VoteTypes
<1>2. Cardinality(Settled(i)) \in Nat /\ q \in Nat
  BY SettledIsFinite, QuorumIsMajority
<1>3. Cardinality(Settled(i)) >= q
  <2> HIDE DEF q
  <2> QED BY <1>1, <1>2
<1>4. Settled(i) \in SUBSET Server /\ \A v \in Settled(i) : <<v, m_currentTerm[i], i>> \in votes
  BY DEF Settled
<1> QED BY <1>3, <1>4 DEF Elected, Majority

LEMMA VotesAreKept == ElectionStep => votes \subseteq votes'
BY DEF ElectionStep, ElectionIdle, voteVars, HearsOfTerm, DoElection, HandleRequestVote, CountVote, BecomeLeader

\* No step lets a log end earlier: not the loop of AppendEntries1, and not a
\* snapshot, whatever it covers.
LEMMA LogsNeverEndEarlier ==
    ASSUME IndexInv, IndexInv', LogStep, NEW i \in Server
    PROVE  LastLogIndex(i)' >= LastLogIndex(i)
<1>1. ASSUME NEW r \in rpcs, AppendMatching(r), r.to = i
      PROVE  LastLogIndex(i)' >= LastLogIndex(i)
  <2>1. /\ m_lastSnapshotIncludeIndex[i] \in Nat /\ Len(m_logs[i]) \in Nat
        /\ LastLogIndex(i) = m_lastSnapshotIncludeIndex[i] + Len(m_logs[i])
    BY LogShape DEF IndexInv
  <2>2. /\ m_logs' = [m_logs EXCEPT ![r.to] = MergedLog(r)] /\ PrevInLog(r)
        /\ m_lastSnapshotIncludeIndex' = m_lastSnapshotIncludeIndex
    BY <1>1 DEF AppendMatching
  <2>3. Len(MergedLog(r)) \in Nat /\ Len(MergedLog(r)) >= Len(m_logs[i])
    BY <1>1, <2>2, MergedLogShape
  <2>4. m_logs'[i] = MergedLog(r)
    BY <1>1, <2>2 DEF IndexInv, TypeOK, LogTypes
  <2> HIDE DEF MergedLog
  <2> QED BY <2>1, <2>2, <2>3, <2>4, LogEndAfter
<1> QED BY <1>1, OnlyAppendsReplace

LEMMA EntryOfLog ==
    ASSUME NEW i \in Server, NEW k \in 1..Len(m_logs[i])
    PROVE  m_logs[i][k] \in Entries
BY DEF Entries, EntriesOf

LEMMA EntryOfRequest ==
    ASSUME NEW r \in rpcs, r.kind = "AppendEntries", NEW k \in 1..Len(r.entries)
    PROVE  r.entries[k] \in Entries
BY DEF Entries, EntriesInFlight

LEMMA EntryTypes ==
    ASSUME IndexInv, NEW e \in Entries
    PROVE  e \in Entry
<1>1. ASSUME NEW i \in Server, NEW k \in 1..Len(m_logs[i]) PROVE m_logs[i][k] \in Entry
  BY LogShape, ElementOfSeq DEF IndexInv
<1>2. ASSUME NEW r \in rpcs, r.kind = "AppendEntries", NEW k \in 1..Len(r.entries) PROVE r.entries[k] \in Entry
  <2>1. r.entries \in Seq(Entry)
    BY <1>2, RpcFields DEF IndexInv, TypeOK, AppendEntriesRpc
  <2> QED BY <2>1, ElementOfSeq
<1> QED BY <1>1, <1>2 DEF Entries, EntriesOf, EntriesInFlight

LEMMA EntriesFromSomewhere ==
    ASSUME NEW Old,
           \A i \in Server : \A k \in 1..Len(m_logs'[i]) : m_logs'[i][k] \in Old,
           \A r \in rpcs' : r.kind = "AppendEntries" => \A k \in 1..Len(r.entries) : r.entries[k] \in Old
    PROVE  Entries' \subseteq Old
BY DEF Entries, EntriesOf, EntriesInFlight

\* A heartbeat sends entries of the sender's log.
LEMMA HeartBeatEntries ==
    ASSUME IndexInv, NEW i \in Server, NEW j \in Server, NEW n \in Round, SendableIndex(i, j),
           HeartBeatRpc(i, j, n).kind = "AppendEntries"
    PROVE  LET r == HeartBeatRpc(i, j, n)
           IN  /\ r.from = i /\ r.to = j /\ r.term = m_currentTerm[i]
               /\ r.prevLogIndex \in m_lastSnapshotIncludeIndex[i]..LastLogIndex(i)
               /\ r.prevLogTerm = LogTermAt(i, r.prevLogIndex)
               /\ \A k \in 1..Len(r.entries) :
                    /\ SlicesIndex(i, r.prevLogIndex + k) \in 1..Len(m_logs[i])
                    /\ r.entries[k] = m_logs[i][SlicesIndex(i, r.prevLogIndex + k)]
<1> DEFINE prev == m_nextIndex[i][j] - 1
<1>1. ~(m_nextIndex[i][j] <= m_lastSnapshotIncludeIndex[i])
  BY DEF HeartBeatRpc
<1>2. m_nextIndex[i][j] \in Nat /\ m_lastSnapshotIncludeIndex[i] \in Nat /\ LastLogIndex(i) \in Nat
  BY LogShape DEF IndexInv, TypeOK, LeaderTypes
<1>3. prev \in Nat /\ prev \in m_lastSnapshotIncludeIndex[i]..LastLogIndex(i) /\ prev >= m_lastSnapshotIncludeIndex[i]
  BY <1>1, <1>2 DEF SendableIndex
<1>4. /\ HeartBeatRpc(i, j, n).from = i /\ HeartBeatRpc(i, j, n).to = j
      /\ HeartBeatRpc(i, j, n).term = m_currentTerm[i]
      /\ HeartBeatRpc(i, j, n).prevLogIndex = prev
      /\ HeartBeatRpc(i, j, n).prevLogTerm = LogTermAt(i, prev)
      /\ HeartBeatRpc(i, j, n).entries = LogAfter(i, prev)
  BY <1>1 DEF HeartBeatRpc, LogAfter
<1> HIDE DEF prev
<1>5. \A k \in 1..Len(LogAfter(i, prev)) :
            /\ SlicesIndex(i, prev + k) \in 1..Len(m_logs[i])
            /\ LogAfter(i, prev)[k] = m_logs[i][SlicesIndex(i, prev + k)]
  BY <1>3, SuffixKept
<1> QED BY <1>3, <1>4, <1>5

\* Only Start makes an entry; every other step passes entries on.
LEMMA StepsPassEntriesOn ==
    ASSUME IndexInv, LogStep,
           \A i \in Server, command \in Command : ~Start(i, command)
    PROVE  Entries' \subseteq Entries
<1>0. m_logs \in [Server -> Seq(Entry)] /\ m_lastSnapshotIncludeIndex \in [Server -> Nat]
  BY DEF IndexInv, TypeOK, LogTypes
<1>1. ASSUME NoNewEntries
      PROVE  \A r \in rpcs' : r.kind = "AppendEntries" => \A k \in 1..Len(r.entries) : r.entries[k] \in Entries
  BY <1>1, EntryOfRequest DEF NoNewEntries
<1>2. ASSUME NEW i \in Server, NEW index \in Nat, index >= m_lastSnapshotIncludeIndex[i]
      PROVE  \A k \in 1..Len(LogAfter(i, index)) : LogAfter(i, index)[k] \in Entries
  BY <1>2, SuffixKept, EntryOfLog
<1>3. CASE LogIdle
  BY <1>1, <1>3, EntryOfLog, EntriesFromSomewhere DEF LogIdle, logVars
<1>4. ASSUME NEW i \in Server, HeartBeatSent(i) PROVE Entries' \subseteq Entries
  <2>1. PICK S \in SUBSET (Server \ {i}), n \in Round :
            /\ rpcs' = rpcs \cup {HeartBeatRpc(i, j, n) : j \in S}
            /\ \A j \in S : SendableIndex(i, j)
    BY <1>4 DEF HeartBeatSent
  <2>2. ASSUME NEW r \in rpcs', r.kind = "AppendEntries", NEW k \in 1..Len(r.entries)
        PROVE  r.entries[k] \in Entries
    <3>1. CASE r \in rpcs
      BY <2>2, <3>1, EntryOfRequest
    <3>2. ASSUME NEW j \in S, r = HeartBeatRpc(i, j, n) PROVE r.entries[k] \in Entries
      <4>1. j \in Server /\ SendableIndex(i, j)
        BY <2>1
      <4>2. /\ SlicesIndex(i, r.prevLogIndex + k) \in 1..Len(m_logs[i])
            /\ r.entries[k] = m_logs[i][SlicesIndex(i, r.prevLogIndex + k)]
        BY <2>2, <3>2, <4>1, HeartBeatEntries
      <4> QED BY <4>2, EntryOfLog
    <3> QED BY <2>1, <3>1, <3>2
  <2>3. m_logs' = m_logs
    BY <1>4 DEF HeartBeatSent, logVars
  <2> QED BY <2>2, <2>3, EntryOfLog, EntriesFromSomewhere
<1>5. ASSUME NEW i \in Server, Apply(i) PROVE Entries' \subseteq Entries
  <2>1. m_logs' = m_logs /\ NoNewEntries
    BY <1>5 DEF Apply, logVars, NoNewEntries
  <2> QED BY <1>1, <2>1, EntryOfLog, EntriesFromSomewhere
<1>6. ASSUME NEW i \in Server, NEW index \in 1..MaxSnapshotIndex, Snapshot(i, index) PROVE Entries' \subseteq Entries
  <2>1. /\ m_logs' = [m_logs EXCEPT ![i] = LogAfter(i, index)] /\ NoNewEntries
        /\ index \in Nat /\ index >= m_lastSnapshotIncludeIndex[i]
    BY <1>0, <1>6, BoundsAssumption DEF Snapshot, NoNewEntries
  <2>2. \A j \in Server : \A k \in 1..Len(m_logs'[j]) : m_logs'[j][k] \in Entries
    BY <1>0, <1>2, <2>1, EntryOfLog
  <2> QED BY <1>1, <2>1, <2>2, EntriesFromSomewhere
<1>7. ASSUME NEW r \in rpcs, InstallSnapshot(r) PROVE Entries' \subseteq Entries
  <2>1. r.to \in Server /\ r.snapIndex \in Nat
    BY <1>7, RpcFields DEF InstallSnapshot, Request, IndexInv, TypeOK, InstallSnapshotRpc
  <2>2. /\ m_logs' = [m_logs EXCEPT ![r.to] = LogAfter(r.to, r.snapIndex)]
        /\ r.snapIndex >= m_lastSnapshotIncludeIndex[r.to]
    BY <1>0, <1>7, <2>1 DEF InstallSnapshot
  <2>3. NoNewEntries
    BY <1>7 DEF InstallSnapshot, Answer, SnapshotReply, NoNewEntries
  <2>4. \A j \in Server : \A k \in 1..Len(m_logs'[j]) : m_logs'[j][k] \in Entries
    BY <1>0, <1>2, <2>1, <2>2, EntryOfLog
  <2> QED BY <1>1, <2>3, <2>4, EntriesFromSomewhere
<1>8. ASSUME NEW r \in rpcs, AppendMatching(r) PROVE Entries' \subseteq Entries
  <2>1. /\ m_logs' = [m_logs EXCEPT ![r.to] = MergedLog(r)] /\ PrevInLog(r) /\ r.to \in Server
        /\ Answer(r, AppendReply(r, r.term, TRUE, 0)) /\ r.kind = "AppendEntries"
    BY <1>8, RpcFields DEF AppendMatching, PrevInLog, FromCurrentLeader, Request, IndexInv, TypeOK
  <2>2. NoNewEntries
    BY <2>1 DEF Answer, AppendReply, NoNewEntries
  <2>3. ASSUME NEW k \in 1..Len(MergedLog(r)) PROVE MergedLog(r)[k] \in Entries
    <3>1. \/ Offered(r, k) \in 1..Len(r.entries) /\ MergedLog(r)[k] = r.entries[Offered(r, k)]
          \/ k \in 1..Len(m_logs[r.to]) /\ MergedLog(r)[k] = m_logs[r.to][k]
      BY <2>1, MergedLogShape
    <3> QED BY <2>1, <3>1, EntryOfLog, EntryOfRequest
  <2>4. \A j \in Server : \A k \in 1..Len(m_logs'[j]) : m_logs'[j][k] \in Entries
    <3>1. ASSUME NEW j \in Server PROVE m_logs'[j] = IF j = r.to THEN MergedLog(r) ELSE m_logs[j]
      BY <1>0, <2>1
    <3> QED BY <2>3, <3>1, EntryOfLog
  <2> QED BY <1>1, <2>2, <2>4, EntriesFromSomewhere
<1> QED BY <1>3, <1>4, <1>5, <1>6, <1>7, <1>8 DEF LogStep

\* Start adds one entry, of the leader's term, at the end of its log.
LEMMA StartAddsOneEntry ==
    ASSUME IndexInv, NEW i \in Server, NEW command \in Command, Start(i, command)
    PROVE  /\ Entries' \subseteq Entries \cup {NewEntry(i, command)}
           /\ NewEntry(i, command).logterm = m_currentTerm[i]
           /\ NewEntry(i, command).logindex = LastLogIndex(i) + 1
           /\ LastLogIndex(i) \in Nat
           /\ LastLogIndex(i)' = LastLogIndex(i) + 1
           /\ m_status[i] = "Leader"
<1> DEFINE entry == NewEntry(i, command)
<1>1. /\ m_logs \in [Server -> Seq(Entry)] /\ m_logs' = [m_logs EXCEPT ![i] = Append(m_logs[i], entry)]
      /\ m_lastSnapshotIncludeIndex' = m_lastSnapshotIncludeIndex /\ rpcs' = rpcs /\ m_status[i] = "Leader"
  BY DEF Start, IndexInv, TypeOK, LogTypes
<1>2. entry.logterm = m_currentTerm[i] /\ entry.logindex = LastLogIndex(i) + 1 /\ LastLogIndex(i) \in Nat
  BY LogShape DEF NewEntry, IndexInv
<1>3. entry \in Entry
  BY <1>2 DEF NewEntry, Entry, IndexInv, TypeOK, VoteTypes
<1> HIDE DEF entry
<1>4. /\ Len(m_logs'[i]) = Len(m_logs[i]) + 1 /\ Len(m_logs[i]) \in Nat
      /\ \A k \in 1..Len(m_logs[i]) : m_logs'[i][k] = m_logs[i][k]
      /\ m_logs'[i][Len(m_logs[i]) + 1] = entry
  BY <1>1, <1>3, LogShape, AppendProperties DEF IndexInv
<1>5. ASSUME NEW j \in Server, NEW k \in 1..Len(m_logs'[j]) PROVE m_logs'[j][k] \in Entries \cup {entry}
  <2>1. CASE j # i
    BY <1>1, <2>1, EntryOfLog
  <2>2. CASE j = i
    BY <1>4, <2>2, EntryOfLog
  <2> QED BY <2>1, <2>2
<1>6. \A r \in rpcs' : r.kind = "AppendEntries" => \A k \in 1..Len(r.entries) : r.entries[k] \in Entries \cup {entry}
  BY <1>1, EntryOfRequest
<1>7. Entries' \subseteq Entries \cup {entry}
  BY <1>5, <1>6, EntriesFromSomewhere
<1>8. LastLogIndex(i)' = LastLogIndex(i) + 1
  BY <1>1, <1>2, <1>4 DEF LastLogIndex
<1> QED BY <1>1, <1>2, <1>7, <1>8 DEF entry

LEMMA StepKeepsEntryInv ==
    ASSUME IndexInv, IndexInv', ElectionInv, LogStep, ElectionStep, EntryInv
    PROVE  EntryInv'
<1>1. \A i, t : Elected(i, t) => Elected(i, t)'
  BY VotesAreKept DEF Elected, Majority
<1>2. \A i \in Server : LastLogIndex(i) \in Nat /\ LastLogIndex(i)' \in Nat /\ LastLogIndex(i)' >= LastLogIndex(i)
  BY LogShape, LogEndAfter, LogsNeverEndEarlier DEF IndexInv
<1>3. ASSUME NEW e \in Entries
      PROVE  \E i \in Server : Elected(i, e.logterm)' /\ e.logindex <= LastLogIndex(i)'
  <2>1. PICK i \in Server : Elected(i, e.logterm) /\ e.logindex <= LastLogIndex(i)
    BY DEF EntryInv, EntriesOwned
  <2>2. e.logindex \in Nat
    BY EntryTypes DEF Entry
  <2> QED BY <1>1, <1>2, <2>1, <2>2
<1>4. CASE \A i \in Server, command \in Command : ~Start(i, command)
  <2>1. Entries' \subseteq Entries
    BY <1>4, StepsPassEntriesOn
  <2>2. EntryIdentity'
    BY <2>1 DEF EntryInv, EntryIdentity
  <2>3. EntriesOwned'
    BY <1>3, <2>1 DEF EntriesOwned
  <2> QED BY <2>2, <2>3 DEF EntryInv
<1>5. ASSUME NEW i \in Server, NEW command \in Command, Start(i, command) PROVE EntryInv'
  <2>0. PICK entry : entry = NewEntry(i, command)
    OBVIOUS
  <2>1. /\ Entries' \subseteq Entries \cup {entry} /\ entry.logterm = m_currentTerm[i]
        /\ entry.logindex = LastLogIndex(i) + 1 /\ LastLogIndex(i)' = LastLogIndex(i) + 1
        /\ LastLogIndex(i) \in Nat /\ m_status[i] = "Leader"
    BY <1>5, <2>0, StartAddsOneEntry
  <2>2. Elected(i, m_currentTerm[i])
    BY <2>1, LeaderIsElected
  \* No entry with this index and term exists: its maker's log would reach it.
  <2>3. ASSUME NEW e \in Entries, e.logterm = m_currentTerm[i], e.logindex = LastLogIndex(i) + 1 PROVE FALSE
    <3>1. PICK j \in Server : Elected(j, m_currentTerm[i]) /\ e.logindex <= LastLogIndex(j)
      BY <2>3 DEF EntryInv, EntriesOwned
    <3>2. i = j
      BY <2>2, <3>1, OneElectedPerTerm
    <3>3. LastLogIndex(i) + 1 <= LastLogIndex(i)
      BY <2>3, <3>1, <3>2
    <3> QED BY <2>1, <3>3
  <2>4. EntryIdentity'
    <3>1. ASSUME NEW e \in Entries', NEW f \in Entries', e.logindex = f.logindex, e.logterm = f.logterm
          PROVE  e = f
      <4>1. CASE e \in Entries /\ f \in Entries
        BY <3>1, <4>1 DEF EntryInv, EntryIdentity
      <4> QED BY <2>1, <2>3, <3>1, <4>1
    <3> QED BY <3>1 DEF EntryIdentity
  <2>5. EntriesOwned'
    <3>1. Elected(i, entry.logterm)' /\ entry.logindex <= LastLogIndex(i)'
      BY <1>1, <2>1, <2>2
    <3> QED BY <1>3, <2>1, <3>1 DEF EntriesOwned
  <2> QED BY <2>4, <2>5 DEF EntryInv
<1> QED BY <1>4, <1>5

THEOREM EntryInvariance == Spec => []EntryInv
<1>1. Init => EntryInv
  <2> SUFFICES ASSUME Init PROVE EntryInv
    OBVIOUS
  <2>1. \A i \in Server : \A k \in 1..Len(m_logs[i]) : FALSE
    BY EmptySeq DEF Init
  <2>2. Entries = {}
    BY <2>1 DEF Init, Entries, EntriesOf, EntriesInFlight
  <2> QED BY <2>2 DEF EntryInv, EntryIdentity, EntriesOwned
<1>2. IndexInv /\ IndexInv' /\ ElectionInv /\ EntryInv /\ [Next]_vars => EntryInv'
  BY LogSteps, ElectionSteps, StepKeepsEntryInv
<1> QED BY <1>1, <1>2, IndexInvariance, ElectionInvariance, PTL DEF Spec

\* Index and term identify a command in every log and every request, so the
\* assertion at raft.cpp:821-828 never ends a follower's process.
THEOREM EntryIdentityHolds == Spec => []EntryIdentity
<1>1. EntryInv => EntryIdentity
  BY DEF EntryInv
<1> QED BY <1>1, EntryInvariance, PTL
============================================================================
