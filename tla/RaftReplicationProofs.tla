----------------------- MODULE RaftReplicationProofs -----------------------
(***************************************************************************)
(* What leaders and followers may rely on, for every cluster: an answer is *)
(* given after what it promises is saved, a leader credits a follower with *)
(* nothing it does not hold, and commits only what a majority holds.       *)
(***************************************************************************)
EXTENDS RaftLogProofs

---------------------------------------------------------------------------
(* What messages of a leader claim of its log.                             *)

Delivered(m) == m.kind = "AppendEntriesReply" /\ m.success
FromLeader(m) == m.kind = "AppendEntries" \/ Delivered(m)

\* The indices and terms of entries m says its sender holds.
Claims(m) ==
    IF m.kind = "AppendEntries"
    THEN {<<m.entries[k].logindex, m.entries[k].logterm>> : k \in 1..Len(m.entries)}
    ELSE IF m.lastEntryTerm # 0 THEN {<<m.match, m.lastEntryTerm>>} ELSE {}

\* Node i has an entry of the term there, unless its snapshot covers the index.
HasEntry(i, index, term) ==
    index > m_lastSnapshotIncludeIndex[i] =>
        index <= LastLogIndex(i) /\ m_logs[i][SlicesIndex(i, index)].logterm = term

\* Nobody calls itself, whoever sends entries was elected in their term, and a
\* snapshot that travels is not newer than its sender's.
WellSent(m) ==
    /\ m.from # m.to
    /\ FromLeader(m) => Elected(m.from, m.term) /\ m.term <= m_currentTerm[m.from]
    /\ m.kind \in {"InstallSnapshot", "InstallSnapshotReply"} => m.snapIndex <= m_lastSnapshotIncludeIndex[m.from]

\* In the sender's term, its log is what its messages say.
ClaimTrue(m) ==
    FromLeader(m) /\ m_currentTerm[m.from] = m.term =>
        /\ \A c \in Claims(m) : HasEntry(m.from, c[1], c[2])
        /\ m.kind = "AppendEntries" => HasEntry(m.from, m.prevLogIndex, m.prevLogTerm)

\* Two messages of one leader say the same of an index, long after its term too.
ClaimsAgree(m, n) ==
    FromLeader(m) /\ FromLeader(n) /\ m.from = n.from /\ m.term = n.term =>
        \A c \in Claims(m), d \in Claims(n) : c[1] = d[1] => c[2] = d[2]

ClaimsInv ==
    /\ \A m \in rpcs : WellSent(m) /\ ClaimTrue(m)
    /\ \A m, n \in rpcs : ClaimsAgree(m, n)

\* An entry is written to a follower by the node elected in the follower's term.
LEMMA AppendIsFromElected ==
    ASSUME IndexInv, ClaimsInv, NEW r \in rpcs, AppendMatching(r)
    PROVE  /\ r \in AppendEntriesRpc /\ r.kind = "AppendEntries" /\ FromLeader(r)
           /\ r.from \in Server /\ r.to \in Server /\ r.from # r.to /\ r.term \in Nat
           /\ Elected(r.from, r.term) /\ r.term <= m_currentTerm[r.from]
           /\ r.term >= m_currentTerm[r.to] /\ m_currentTerm'[r.to] = r.term
           /\ PrevInLog(r) /\ r.prevLogTerm = LogTermAt(r.to, r.prevLogIndex)
           /\ r.prevLogIndex \in Nat /\ Len(r.entries) \in Nat
           /\ \A k \in 1..Len(r.entries) : r.entries[k] \in Entry /\ r.entries[k].logindex = r.prevLogIndex + k
<1>1. /\ r.kind = "AppendEntries" /\ r.term >= m_currentTerm[r.to] /\ FollowLeader(r.to, r.term)
      /\ PrevInLog(r) /\ r.prevLogTerm = LogTermAt(r.to, r.prevLogIndex)
  BY DEF AppendMatching, PrevInLog, FromCurrentLeader, Request
<1>2. r \in AppendEntriesRpc /\ WithinSendersLog(r)
  BY <1>1, RpcFields DEF IndexInv, TypeOK, RequestsWithinLog
<1>3. r.from \in Server /\ r.to \in Server /\ r.term \in Nat /\ r.prevLogIndex \in Nat /\ r.entries \in Seq(Entry)
  BY <1>2 DEF AppendEntriesRpc
<1>4. FromLeader(r) /\ WellSent(r)
  BY <1>1 DEF FromLeader, ClaimsInv
<1>5. m_currentTerm'[r.to] = r.term
  BY <1>1, <1>3 DEF FollowLeader, IndexInv, TypeOK, VoteTypes
<1>6. \A k \in 1..Len(r.entries) : r.entries[k] \in Entry /\ r.entries[k].logindex = r.prevLogIndex + k
  BY <1>1, <1>2, <1>3, ElementOfSeq DEF WithinSendersLog
<1> QED BY <1>1, <1>2, <1>3, <1>4, <1>5, <1>6, LenProperties DEF WellSent

\* While its term lasts, the log of the node elected in it is its own to change.
LEMMA OwnLogKept ==
    ASSUME IndexInv, IndexInv', ElectionInv, ClaimsInv, LogStep, NEW i \in Server,
           Elected(i, m_currentTerm[i]), m_currentTerm'[i] = m_currentTerm[i]
    PROVE  /\ LastLogIndex(i)' >= LastLogIndex(i)
           /\ \A k \in (m_lastSnapshotIncludeIndex'[i] + 1)..LastLogIndex(i) :
                 k > m_lastSnapshotIncludeIndex[i] =>
                    m_logs'[i][k - m_lastSnapshotIncludeIndex'[i]] = m_logs[i][SlicesIndex(i, k)]
<1>1. ASSUME NEW r \in rpcs, AppendMatching(r), r.to = i PROVE FALSE
  <2>1. r.from \in Server /\ r.from # i /\ Elected(r.from, m_currentTerm[i])
    BY <1>1, AppendIsFromElected
  <2> QED BY <2>1, OneElectedPerTerm
<1> QED BY <1>1, OnlyAppendsReplace

\* A snapshot never covers less than before.
LEMMA SnapshotsGrow ==
    ASSUME IndexInv, IndexInv', LogStep, NEW i \in Server
    PROVE  m_lastSnapshotIncludeIndex[i] \in Nat /\ m_lastSnapshotIncludeIndex'[i] >= m_lastSnapshotIncludeIndex[i]
<1>0. m_lastSnapshotIncludeIndex \in [Server -> Nat]
  BY DEF IndexInv, TypeOK, LogTypes
<1>1. ASSUME NEW r \in rpcs, InstallSnapshot(r)
      PROVE  m_lastSnapshotIncludeIndex'[i] >= m_lastSnapshotIncludeIndex[i]
  <2>1. r.snapIndex \in Nat
    BY <1>1, RpcFields DEF InstallSnapshot, Request, IndexInv, TypeOK, InstallSnapshotRpc
  <2> QED BY <1>0, <1>1, <2>1 DEF InstallSnapshot
<1>2. ASSUME NEW j \in Server, NEW index \in 1..MaxSnapshotIndex, Snapshot(j, index)
      PROVE  m_lastSnapshotIncludeIndex'[i] >= m_lastSnapshotIncludeIndex[i]
  BY <1>0, <1>2, BoundsAssumption DEF Snapshot
<1>3. CASE m_lastSnapshotIncludeIndex' = m_lastSnapshotIncludeIndex
  BY <1>0, <1>3
<1> QED BY <1>0, <1>1, <1>2, <1>3 DEF LogStep, LogIdle, HeartBeatSent, Start, Apply, AppendMatching, logVars

\* Neither end of a log moves back.
LEMMA LogGrows ==
    ASSUME IndexInv, IndexInv', LogStep, NEW i \in Server
    PROVE  /\ LastLogIndex(i) \in Nat /\ LastLogIndex(i)' \in Nat /\ LastLogIndex(i)' >= LastLogIndex(i)
           /\ m_lastSnapshotIncludeIndex[i] \in Nat /\ m_lastSnapshotIncludeIndex'[i] \in Nat
           /\ m_lastSnapshotIncludeIndex'[i] >= m_lastSnapshotIncludeIndex[i]
<1>1. LastLogIndex(i) \in Nat
  BY LogShape DEF IndexInv
<1>2. LastLogIndex(i)' \in Nat /\ m_lastSnapshotIncludeIndex'[i] \in Nat
  BY LogEndAfter
<1>3. LastLogIndex(i)' >= LastLogIndex(i)
  BY LogsNeverEndEarlier
<1> QED BY <1>1, <1>2, <1>3, SnapshotsGrow

\* An entry of the elected node's log is still there after the step.
LEMMA HasEntryKept ==
    ASSUME IndexInv, IndexInv', ElectionInv, ClaimsInv, LogStep, NEW i \in Server,
           Elected(i, m_currentTerm[i]), m_currentTerm'[i] = m_currentTerm[i],
           NEW index \in Nat, NEW term, HasEntry(i, index, term)
    PROVE  HasEntry(i, index, term)'
<1> SUFFICES ASSUME index > m_lastSnapshotIncludeIndex'[i]
             PROVE  /\ index <= LastLogIndex(i)'
                    /\ m_logs'[i][index - m_lastSnapshotIncludeIndex'[i]].logterm = term
  BY DEF HasEntry, SlicesIndex
<1>1. index > m_lastSnapshotIncludeIndex[i]
  BY SnapshotsGrow, LogEndAfter
<1>2. index <= LastLogIndex(i) /\ m_logs[i][SlicesIndex(i, index)].logterm = term
  BY <1>1 DEF HasEntry
<1>3. LastLogIndex(i) \in Nat /\ LastLogIndex(i)' \in Nat /\ m_lastSnapshotIncludeIndex'[i] \in Nat
  BY LogShape, LogEndAfter DEF IndexInv
<1>4. index \in (m_lastSnapshotIncludeIndex'[i] + 1)..LastLogIndex(i)
  BY <1>2, <1>3
<1> QED BY <1>1, <1>2, <1>3, <1>4, OwnLogKept

---------------------------------------------------------------------------
(* The messages a step adds.                                               *)

\* A message that claims nothing.
Plain(m) ==
    /\ m.from # m.to
    /\ ~FromLeader(m)
    /\ m.kind \in {"InstallSnapshot", "InstallSnapshotReply"} => m.snapIndex <= m_lastSnapshotIncludeIndex[m.from]

NewMessage(m) ==
    \/ Plain(m)
    \/ \E i \in Server, j \in Server, n \in Round :
        HeartBeatSent(i) /\ i # j /\ SendableIndex(i, j) /\ m = HeartBeatRpc(i, j, n)
    \/ \E r \in rpcs : AppendMatching(r) /\ m = AppendReply(r, r.term, TRUE, 0)

\* A rejection or an answer to another call claims nothing.
LEMMA PlainAnswers ==
    ASSUME ClaimsInv, NEW r \in rpcs
    PROVE  /\ \A term, hint : Plain(AppendReply(r, term, FALSE, hint))
           /\ \A term, granted : Plain(VoteReply(r, term, granted))
           /\ r.kind = "InstallSnapshot" => \A term : Plain(SnapshotReply(r, term))
           /\ r.kind \in {"InstallSnapshot", "InstallSnapshotReply"} => Plain(EmptyReply(r))
<1>1. WellSent(r)
  BY DEF ClaimsInv
<1>2. \A term, hint : Plain(AppendReply(r, term, FALSE, hint))
  BY <1>1 DEF WellSent, Plain, FromLeader, Delivered, AppendReply
<1>3. \A term, granted : Plain(VoteReply(r, term, granted))
  BY <1>1 DEF WellSent, Plain, FromLeader, Delivered, VoteReply
<1>4. r.kind = "InstallSnapshot" => \A term : Plain(SnapshotReply(r, term))
  BY <1>1 DEF WellSent, Plain, FromLeader, Delivered, SnapshotReply
<1>5. r.kind \in {"InstallSnapshot", "InstallSnapshotReply"} => Plain(EmptyReply(r))
  BY <1>1 DEF WellSent, Plain, FromLeader, Delivered, EmptyReply
<1> QED BY <1>2, <1>3, <1>4, <1>5

LEMMA MessagesOfNodes ==
    ASSUME IndexInv, ClaimsInv, NEW i \in Server, NodeStep(i), NEW m \in rpcs', m \notin rpcs
    PROVE  NewMessage(m)
<1>1. CASE DoElection(i)
  <2>1. PICK j \in Server \ {i} : m = VoteRequest(i, j)
    BY <1>1 DEF DoElection
  <2>2. Plain(m)
    BY <2>1 DEF VoteRequest, Plain, FromLeader, Delivered
  <2> QED BY <2>2 DEF NewMessage
<1>2. CASE DoHeartBeat(i) \/ HeartBeatExits(i)
  <2>1. PICK S \in SUBSET (Server \ {i}), n \in Round : SpawnHeartBeats(i, S, n) /\ \A j \in S : SendableIndex(i, j)
    <3>1. CASE DoHeartBeat(i)
      BY <3>1 DEF DoHeartBeat
    <3>2. CASE HeartBeatExits(i)
      <4>1. PICK S \in SUBSET {j \in Server \ {i} : SendableIndex(i, j)}, n \in Round : SpawnHeartBeats(i, S, n)
        BY <3>2 DEF HeartBeatExits
      <4>2. S \in SUBSET (Server \ {i}) /\ \A j \in S : SendableIndex(i, j)
        OBVIOUS
      <4> QED BY <4>1, <4>2
    <3> QED BY <1>2, <3>1, <3>2
  <2>2. m_status[i] = "Leader" /\ UNCHANGED <<logVars, m_lastApplied, applyMsgs>>
    BY <1>2 DEF DoHeartBeat, HeartBeatExits, Exit, applyVars
  <2>3. rpcs' = rpcs \cup {HeartBeatRpc(i, j, n) : j \in S}
    BY <2>1 DEF SpawnHeartBeats
  <2>4. HeartBeatSent(i)
    BY <2>1, <2>2, <2>3 DEF HeartBeatSent
  <2>5. PICK j \in S : m = HeartBeatRpc(i, j, n)
    BY <2>3
  <2>6. j \in Server /\ i # j /\ SendableIndex(i, j)
    BY <2>1
  <2> QED BY <2>4, <2>5, <2>6 DEF NewMessage
<1>3. CASE ~DoElection(i) /\ ~DoHeartBeat(i) /\ ~HeartBeatExits(i)
  BY <1>3 DEF NodeStep, Start, Apply, Snapshot
<1> QED BY <1>1, <1>2, <1>3

LEMMA MessagesOfRpcs ==
    ASSUME IndexInv, ClaimsInv, NEW r \in rpcs, NEW m \in rpcs', m \notin rpcs,
           VoteStep(r) \/ AppendStep(r) \/ SnapshotStep(r) \/ RpcFails(r)
    PROVE  NewMessage(m)
<1>0. \A answer : Answer(r, answer) => m = answer
  BY DEF Answer
<1>1. CASE VoteStep(r)
  <2>1. CASE HandleRequestVote(r)
    <3>1. PICK term, granted : Answer(r, VoteReply(r, term, granted))
      BY <2>1 DEF HandleRequestVote
    <3> QED BY <1>0, <3>1, PlainAnswers DEF NewMessage
  <2>2. CASE ~HandleRequestVote(r)
    BY <1>1, <2>2 DEF VoteStep, VoteReplyStepsDown, VoteReplyIgnored, CountVote, BecomeLeader, Finish
  <2> QED BY <2>1, <2>2
<1>2. CASE AppendStep(r)
  <2>1. CASE RejectStaleLeader(r) \/ RejectGap(r) \/ RejectMismatch(r)
    <3>1. PICK term, hint : Answer(r, AppendReply(r, term, FALSE, hint))
      BY <2>1 DEF RejectStaleLeader, RejectGap, RejectMismatch
    <3> QED BY <1>0, <3>1, PlainAnswers DEF NewMessage
  <2>2. CASE AppendMatching(r)
    BY <1>0, <2>2 DEF AppendMatching, NewMessage
  <2>3. CASE ~(RejectStaleLeader(r) \/ RejectGap(r) \/ RejectMismatch(r) \/ AppendMatching(r))
    BY <1>2, <2>3 DEF AppendStep, PrevInSnapshotExits, AppendReplyStepsDown, AppendReplyIgnored, AppendRejected,
                      AppendAccepted, FinishAppend, Finish
  <2> QED BY <2>1, <2>2, <2>3
<1>3. CASE SnapshotStep(r)
  <2>1. CASE RejectStaleSnapshotSender(r) \/ IgnoreOldSnapshot(r) \/ InstallSnapshot(r)
    <3>1. PICK term : Answer(r, SnapshotReply(r, term))
      BY <2>1 DEF RejectStaleSnapshotSender, IgnoreOldSnapshot, InstallSnapshot
    <3>2. r.kind = "InstallSnapshot"
      BY <2>1 DEF RejectStaleSnapshotSender, IgnoreOldSnapshot, InstallSnapshot, Request
    <3> QED BY <1>0, <3>1, <3>2, PlainAnswers DEF NewMessage
  <2>2. CASE LeaderSendSnapShot(r)
    <3>1. /\ m.from = r.from /\ m.to = r.to /\ m.kind = "InstallSnapshot"
          /\ m.snapIndex = m_lastSnapshotIncludeIndex[r.from]
      BY <1>0, <2>2 DEF LeaderSendSnapShot
    <3>2. r.from # r.to /\ m_lastSnapshotIncludeIndex[r.from] \in Nat
      BY RpcFields DEF ClaimsInv, WellSent, IndexInv, TypeOK, LogTypes
    <3>3. m.snapIndex <= m_lastSnapshotIncludeIndex[m.from]
      BY <3>1, <3>2
    <3>4. Plain(m)
      BY <3>1, <3>2, <3>3 DEF Plain, FromLeader, Delivered
    <3> QED BY <3>4 DEF NewMessage
  <2>3. CASE SnapshotReplyIgnored(r) \/ SnapshotReplyStepsDown(r) \/ SnapshotAccepted(r)
    BY <2>3 DEF SnapshotReplyIgnored, SnapshotReplyStepsDown, SnapshotAccepted, Finish
  <2>4. CASE PeerCloses(r)
    <3>1. Answer(r, EmptyReply(r)) /\ r.kind \in {"InstallSnapshot", "InstallSnapshotReply"}
      BY <2>4 DEF PeerCloses, Reply
    <3> QED BY <1>0, <3>1, PlainAnswers DEF NewMessage
  <2> QED BY <1>3, <2>1, <2>2, <2>3, <2>4 DEF SnapshotStep
<1>4. CASE RpcFails(r)
  BY <1>4 DEF RpcFails, FinishAppend, Finish
<1> QED BY <1>1, <1>2, <1>3, <1>4

LEMMA MessagesOfStep ==
    ASSUME IndexInv, ClaimsInv, [Next]_vars, NEW m \in rpcs', m \notin rpcs
    PROVE  NewMessage(m)
<1>1. CASE UNCHANGED vars
  BY <1>1 DEF vars
<1> QED BY <1>1, MessagesOfNodes, MessagesOfRpcs DEF Next

\* A heartbeat claims entries of its sender's log beyond the snapshot.
LEMMA HeartBeatClaims ==
    ASSUME IndexInv, NEW i \in Server, NEW j \in Server, NEW n \in Round, SendableIndex(i, j),
           NEW m, m = HeartBeatRpc(i, j, n)
    PROVE  /\ m.from = i /\ m.to = j /\ m.kind \in {"AppendEntries", "SendSnapShot"}
           /\ m.kind = "AppendEntries" =>
                /\ m.term = m_currentTerm[i]
                /\ HasEntry(i, m.prevLogIndex, m.prevLogTerm)
                /\ \A c \in Claims(m) :
                     c[1] \in Nat /\ c[1] > m_lastSnapshotIncludeIndex[i] /\ HasEntry(i, c[1], c[2])
<1>1. m.from = i /\ m.to = j /\ m.kind \in {"AppendEntries", "SendSnapShot"}
  BY DEF HeartBeatRpc
<1>2. ASSUME m.kind = "AppendEntries"
      PROVE  /\ m.term = m_currentTerm[i]
             /\ HasEntry(i, m.prevLogIndex, m.prevLogTerm)
             /\ \A c \in Claims(m) :
                  c[1] \in Nat /\ c[1] > m_lastSnapshotIncludeIndex[i] /\ HasEntry(i, c[1], c[2])
  <2>1. /\ m.term = m_currentTerm[i]
        /\ m.prevLogIndex \in m_lastSnapshotIncludeIndex[i]..LastLogIndex(i)
        /\ m.prevLogTerm = LogTermAt(i, m.prevLogIndex)
        /\ \A k \in 1..Len(m.entries) :
             /\ SlicesIndex(i, m.prevLogIndex + k) \in 1..Len(m_logs[i])
             /\ m.entries[k] = m_logs[i][SlicesIndex(i, m.prevLogIndex + k)]
    BY <1>2, HeartBeatEntries
  <2>2. /\ m_lastSnapshotIncludeIndex[i] \in Nat /\ LastLogIndex(i) \in Nat /\ Len(m_logs[i]) \in Nat
        /\ LastLogIndex(i) = m_lastSnapshotIncludeIndex[i] + Len(m_logs[i])
        /\ \A p \in 1..Len(m_logs[i]) : m_logs[i][p].logindex = m_lastSnapshotIncludeIndex[i] + p
    BY LogShape DEF IndexInv, IndexOrder
  <2>3. HasEntry(i, m.prevLogIndex, m.prevLogTerm)
    BY <2>1, <2>2 DEF HasEntry, LogTermAt
  <2>4. ASSUME NEW k \in 1..Len(m.entries)
        PROVE  LET index == m.entries[k].logindex
               IN  /\ index \in Nat /\ index > m_lastSnapshotIncludeIndex[i]
                   /\ HasEntry(i, index, m.entries[k].logterm)
    <3> DEFINE p == SlicesIndex(i, m.prevLogIndex + k)
               index == m.entries[k].logindex
    <3>1. p \in 1..Len(m_logs[i]) /\ m.entries[k] = m_logs[i][p] /\ index = m_lastSnapshotIncludeIndex[i] + p
      BY <2>1, <2>2
    <3> HIDE DEF p
    <3>2. SlicesIndex(i, index) = p
      BY <2>2, <3>1 DEF SlicesIndex
    <3>3. index \in Nat /\ index > m_lastSnapshotIncludeIndex[i] /\ index <= LastLogIndex(i)
      BY <2>2, <3>1
    <3> QED BY <3>1, <3>2, <3>3 DEF HasEntry
  <2>5. \A c \in Claims(m) :
            c[1] \in Nat /\ c[1] > m_lastSnapshotIncludeIndex[i] /\ HasEntry(i, c[1], c[2])
    BY <1>2, <2>4 DEF Claims
  <2> QED BY <2>1, <2>3, <2>5
<1> QED BY <1>1, <1>2

\* An answer claims no more than the request it accepts.
LEMMA AnswerClaims ==
    ASSUME IndexInv, ClaimsInv, NEW r \in rpcs, AppendMatching(r), NEW m, m = AppendReply(r, r.term, TRUE, 0)
    PROVE  /\ m.from = r.from /\ m.to = r.to /\ m.term = r.term /\ m.kind = "AppendEntriesReply"
           /\ Delivered(m) /\ FromLeader(m)
           /\ m.match = r.prevLogIndex + Len(r.entries) /\ m.match \in Nat
           /\ m.lastEntryTerm = IF Len(r.entries) = 0 THEN 0 ELSE r.entries[Len(r.entries)].logterm
           /\ Claims(m) \subseteq Claims(r)
<1>1. /\ m.from = r.from /\ m.to = r.to /\ m.term = r.term /\ m.kind = "AppendEntriesReply" /\ m.success
      /\ m.match = r.prevLogIndex + Len(r.entries)
      /\ m.lastEntryTerm = IF r.entries = <<>> THEN 0 ELSE r.entries[Len(r.entries)].logterm
  BY DEF AppendReply
<1>2. r.kind = "AppendEntries" /\ r.entries \in Seq(Entry) /\ Len(r.entries) \in Nat /\ r.prevLogIndex \in Nat
      /\ \A k \in 1..Len(r.entries) : r.entries[k].logindex = r.prevLogIndex + k
  BY AppendIsFromElected DEF AppendEntriesRpc
<1>3. r.entries = <<>> <=> Len(r.entries) = 0
  BY <1>2, EmptySeq
<1>4. ASSUME m.lastEntryTerm # 0 PROVE <<m.match, m.lastEntryTerm>> \in Claims(r)
  <2>0. Len(r.entries) # 0 /\ Len(r.entries) \in Nat
    BY <1>1, <1>2, <1>3, <1>4
  <2>1. PICK n \in 1..Len(r.entries) : n = Len(r.entries)
    BY <2>0
  <2>2. m.match = r.entries[n].logindex /\ m.lastEntryTerm = r.entries[n].logterm
    BY <1>1, <1>2, <1>3, <1>4, <2>1
  <2> QED BY <1>2, <2>2 DEF Claims
<1>5. Claims(m) \subseteq Claims(r)
  BY <1>1, <1>4 DEF Claims
<1>6. m.match \in Nat
  <2>1. Len(r.entries) \in Nat /\ r.prevLogIndex \in Nat
    BY <1>2
  <2>2. r.prevLogIndex + Len(r.entries) \in Nat
    BY <2>1
  <2> QED BY <1>1, <2>2
<1>7. Delivered(m) /\ FromLeader(m)
  BY <1>1 DEF Delivered, FromLeader
<1>8. m.lastEntryTerm = IF Len(r.entries) = 0 THEN 0 ELSE r.entries[Len(r.entries)].logterm
  BY <1>1, <1>3
<1> QED BY <1>1, <1>5, <1>6, <1>7, <1>8

---------------------------------------------------------------------------
(* Every step keeps the claims.                                            *)

LEMMA ClaimTypes ==
    ASSUME IndexInv, NEW m \in rpcs, FromLeader(m)
    PROVE  /\ m.from \in Server /\ m.to \in Server /\ m.term \in Nat
           /\ \A c \in Claims(m) : c[1] \in Nat
           /\ m.kind = "AppendEntries" => m.prevLogIndex \in Nat
           /\ Delivered(m) => m.match \in Nat
<1>1. /\ m.from \in Server /\ m.to \in Server /\ m.term \in Nat
      /\ m.kind = "AppendEntries" => m \in AppendEntriesRpc
      /\ m.kind = "AppendEntriesReply" => m \in AppendEntriesReplyRpc
  BY RpcFields DEF IndexInv, TypeOK
<1>2. CASE m.kind = "AppendEntries"
  <2>1. m.prevLogIndex \in Nat /\ m.entries \in Seq(Entry)
    BY <1>1, <1>2 DEF AppendEntriesRpc
  <2>2. \A k \in 1..Len(m.entries) : m.entries[k].logindex \in Nat
    <3>1. \A k \in 1..Len(m.entries) : m.entries[k] \in Entry
      BY <2>1, ElementOfSeq
    <3> QED BY <3>1 DEF Entry
  <2> QED BY <1>1, <1>2, <2>1, <2>2 DEF Claims, Delivered
<1>3. CASE Delivered(m)
  <2>1. m.kind = "AppendEntriesReply" /\ m.match \in Nat
    BY <1>1, <1>3 DEF Delivered, AppendEntriesReplyRpc
  <2> QED BY <1>1, <2>1 DEF Claims
<1> QED BY <1>2, <1>3 DEF FromLeader

LEMMA WellSentKept ==
    ASSUME IndexInv, IndexInv', ElectionInv, ClaimsInv, LogStep, ElectionStep, NEW m \in rpcs
    PROVE  WellSent(m)'
<1>1. WellSent(m) /\ m.from \in Server /\ m.term \in Nat
  BY RpcFields DEF ClaimsInv, IndexInv, TypeOK
<1>2. FromLeader(m) => Elected(m.from, m.term)' /\ m.term <= m_currentTerm'[m.from]
  <2>1. Elected(m.from, m.term) => Elected(m.from, m.term)'
    BY VotesAreKept DEF Elected, Majority
  <2>2. m_currentTerm[m.from] \in Nat /\ m_currentTerm'[m.from] \in Nat /\ m_currentTerm'[m.from] >= m_currentTerm[m.from]
    BY <1>1, VotesMoveForward DEF IndexInv, TypeOK, VoteTypes
  <2> QED BY <1>1, <2>1, <2>2 DEF WellSent
<1>3. m.kind \in {"InstallSnapshot", "InstallSnapshotReply"} => m.snapIndex <= m_lastSnapshotIncludeIndex'[m.from]
  <2>1. /\ m_lastSnapshotIncludeIndex[m.from] \in Nat
        /\ m_lastSnapshotIncludeIndex'[m.from] \in Nat
        /\ m_lastSnapshotIncludeIndex'[m.from] >= m_lastSnapshotIncludeIndex[m.from]
    BY <1>1, SnapshotsGrow, LogEndAfter
  <2>2. m.kind \in {"InstallSnapshot", "InstallSnapshotReply"} => m.snapIndex \in Nat
    BY RpcFields DEF IndexInv, TypeOK, InstallSnapshotRpc, InstallSnapshotReplyRpc
  <2> QED BY <1>1, <2>1, <2>2 DEF WellSent
<1> QED BY <1>1, <1>2, <1>3 DEF WellSent, FromLeader, Delivered

LEMMA ClaimTrueKept ==
    ASSUME IndexInv, IndexInv', ElectionInv, ClaimsInv, LogStep, ElectionStep, NEW m \in rpcs
    PROVE  ClaimTrue(m)'
<1> SUFFICES ASSUME FromLeader(m), m_currentTerm'[m.from] = m.term
             PROVE  /\ \A c \in Claims(m) : HasEntry(m.from, c[1], c[2])'
                    /\ m.kind = "AppendEntries" => HasEntry(m.from, m.prevLogIndex, m.prevLogTerm)'
  BY DEF ClaimTrue, FromLeader, Delivered, Claims
<1>1. /\ m.from \in Server /\ m.term \in Nat /\ WellSent(m) /\ ClaimTrue(m)
      /\ \A c \in Claims(m) : c[1] \in Nat
      /\ m.kind = "AppendEntries" => m.prevLogIndex \in Nat
  BY ClaimTypes DEF ClaimsInv
<1>2. Elected(m.from, m.term) /\ m.term <= m_currentTerm[m.from]
  BY <1>1 DEF WellSent
<1>3. m_currentTerm[m.from] \in Nat /\ m_currentTerm'[m.from] >= m_currentTerm[m.from]
  BY <1>1, VotesMoveForward DEF IndexInv, TypeOK, VoteTypes
<1>4. m_currentTerm[m.from] = m.term
  BY <1>1, <1>2, <1>3
<1>5. /\ \A c \in Claims(m) : HasEntry(m.from, c[1], c[2])
      /\ m.kind = "AppendEntries" => HasEntry(m.from, m.prevLogIndex, m.prevLogTerm)
  BY <1>1, <1>4 DEF ClaimTrue
<1>6. \A term : \A index \in Nat : HasEntry(m.from, index, term) => HasEntry(m.from, index, term)'
  BY <1>1, <1>2, <1>4, HasEntryKept
<1> QED BY <1>1, <1>5, <1>6

\* What a new message of a leader says, another message said or its log holds.
FreshClaims(m) ==
    /\ m.term = m_currentTerm[m.from]
    /\ \A c \in Claims(m) : c[1] > m_lastSnapshotIncludeIndex[m.from] /\ HasEntry(m.from, c[1], c[2])
PassedOn(m) ==
    \E q \in rpcs : FromLeader(q) /\ q.from = m.from /\ q.term = m.term /\ Claims(m) \subseteq Claims(q)

LEMMA NewMessageIsTrue ==
    ASSUME IndexInv, IndexInv', ElectionInv, ClaimsInv, LogStep, ElectionStep,
           NEW m \in rpcs', NewMessage(m)
    PROVE  /\ WellSent(m)' /\ ClaimTrue(m)'
           /\ FromLeader(m) => FreshClaims(m) \/ PassedOn(m)
<1>0. m.from \in Server /\ m.term \in Nat
  BY RpcFields DEF IndexInv, TypeOK
<1>1. CASE Plain(m)
  <2>1. m.kind \in {"InstallSnapshot", "InstallSnapshotReply"} => m.snapIndex \in Nat
    BY RpcFields DEF IndexInv, TypeOK, InstallSnapshotRpc, InstallSnapshotReplyRpc
  <2>2. /\ m_lastSnapshotIncludeIndex[m.from] \in Nat
        /\ m_lastSnapshotIncludeIndex'[m.from] \in Nat
        /\ m_lastSnapshotIncludeIndex'[m.from] >= m_lastSnapshotIncludeIndex[m.from]
    BY <1>0, SnapshotsGrow, LogEndAfter
  <2>3. m.kind \in {"InstallSnapshot", "InstallSnapshotReply"} => m.snapIndex <= m_lastSnapshotIncludeIndex'[m.from]
    BY <1>1, <2>1, <2>2 DEF Plain
  <2>4. ~FromLeader(m)
    BY <1>1 DEF Plain
  <2> QED BY <1>1, <2>3, <2>4 DEF Plain, WellSent, ClaimTrue, FromLeader, Delivered
<1>2. ASSUME NEW i \in Server, NEW j \in Server, NEW n \in Round,
             HeartBeatSent(i), i # j, SendableIndex(i, j), m = HeartBeatRpc(i, j, n)
      PROVE  /\ WellSent(m)' /\ ClaimTrue(m)'
             /\ FromLeader(m) => FreshClaims(m) \/ PassedOn(m)
  <2>1. /\ m.from = i /\ m.to = j /\ m.kind \in {"AppendEntries", "SendSnapShot"}
        /\ m.kind = "AppendEntries" =>
                /\ m.term = m_currentTerm[i]
                /\ HasEntry(i, m.prevLogIndex, m.prevLogTerm)
                /\ \A c \in Claims(m) :
                     c[1] \in Nat /\ c[1] > m_lastSnapshotIncludeIndex[i] /\ HasEntry(i, c[1], c[2])
    BY <1>2, HeartBeatClaims
  <2>2. m_status[i] = "Leader" /\ UNCHANGED logVars
    BY <1>2 DEF HeartBeatSent
  <2>3. m.kind = "AppendEntries" => Elected(i, m.term)'
    <3>1. Elected(i, m_currentTerm[i])
      BY <2>2, LeaderIsElected
    <3>2. \A term : Elected(i, term) => Elected(i, term)'
      BY VotesAreKept DEF Elected, Majority
    <3> QED BY <2>1, <3>1, <3>2
  <2>4. m_currentTerm[i] <= m_currentTerm'[i]
    <3>1. m_currentTerm[i] \in Nat
      BY DEF IndexInv, TypeOK, VoteTypes
    <3> QED BY <3>1, VotesMoveForward
  <2>5. WellSent(m)'
    BY <1>2, <2>1, <2>3, <2>4 DEF WellSent, FromLeader, Delivered
  <2>6. \A index, term : HasEntry(i, index, term) => HasEntry(i, index, term)'
    BY <2>2 DEF HasEntry, LastLogIndex, SlicesIndex, logVars
  <2>7. ClaimTrue(m)'
    BY <2>1, <2>6 DEF ClaimTrue, FromLeader, Delivered, Claims
  <2>8. FromLeader(m) => FreshClaims(m)
    BY <2>1 DEF FreshClaims, FromLeader, Delivered
  <2> QED BY <2>5, <2>7, <2>8
<1>3. ASSUME NEW r \in rpcs, AppendMatching(r), m = AppendReply(r, r.term, TRUE, 0)
      PROVE  /\ WellSent(m)' /\ ClaimTrue(m)'
             /\ FromLeader(m) => FreshClaims(m) \/ PassedOn(m)
  <2>1. /\ m.from = r.from /\ m.to = r.to /\ m.term = r.term /\ m.kind = "AppendEntriesReply"
        /\ Claims(m) \subseteq Claims(r) /\ FromLeader(r)
    BY <1>3, AnswerClaims, AppendIsFromElected
  <2>2. WellSent(r)' /\ ClaimTrue(r)'
    BY WellSentKept, ClaimTrueKept
  <2>3. WellSent(m)'
    BY <2>1, <2>2 DEF WellSent, FromLeader, Delivered
  <2>4. FromLeader(r)' /\ m.kind # "AppendEntries" /\ Claims(m)' \subseteq Claims(r)'
    BY <2>1 DEF FromLeader, Delivered, Claims
  <2>5. ClaimTrue(m)'
    BY <2>1, <2>2, <2>4 DEF ClaimTrue
  <2>6. PassedOn(m)
    BY <2>1 DEF PassedOn
  <2> QED BY <2>3, <2>5, <2>6
<1> QED BY <1>1, <1>2, <1>3 DEF NewMessage

LEMMA StepKeepsClaimsInv ==
    ASSUME IndexInv, IndexInv', ElectionInv, ClaimsInv, [Next]_vars
    PROVE  ClaimsInv'
<1>1. LogStep /\ ElectionStep
  BY LogSteps, ElectionSteps
<1>2. \A m \in rpcs' : m \notin rpcs => NewMessage(m)
  BY MessagesOfStep
<1>3. \A m \in rpcs' : WellSent(m)' /\ ClaimTrue(m)'
  BY <1>1, <1>2, WellSentKept, ClaimTrueKept, NewMessageIsTrue
<1>4. \A m \in rpcs' : FromLeader(m) => FreshClaims(m) \/ PassedOn(m)
  <2>1. \A m \in rpcs : FromLeader(m) => PassedOn(m)
    BY DEF PassedOn
  <2> QED BY <1>1, <1>2, <2>1, NewMessageIsTrue
<1>5. ASSUME NEW m \in rpcs', NEW n \in rpcs', FromLeader(m), FromLeader(n), m.from = n.from, m.term = n.term,
             NEW c \in Claims(m), NEW d \in Claims(n), c[1] = d[1]
      PROVE  c[2] = d[2]
  \* Beyond its snapshot the leader has one entry at the index.
  <2>1. ASSUME NEW i, NEW index, NEW s, NEW t, index > m_lastSnapshotIncludeIndex[i],
               HasEntry(i, index, s), HasEntry(i, index, t)
        PROVE  s = t
    BY <2>1 DEF HasEntry
  <2>2. ASSUME NEW q \in rpcs, FromLeader(q), q.term = m_currentTerm[q.from], NEW e \in Claims(q)
        PROVE  HasEntry(q.from, e[1], e[2])
    BY <2>2 DEF ClaimsInv, ClaimTrue
  <2>3. CASE PassedOn(m) /\ PassedOn(n)
    <3>1. PICK p \in rpcs : FromLeader(p) /\ p.from = m.from /\ p.term = m.term /\ Claims(m) \subseteq Claims(p)
      BY <2>3 DEF PassedOn
    <3>2. PICK q \in rpcs : FromLeader(q) /\ q.from = n.from /\ q.term = n.term /\ Claims(n) \subseteq Claims(q)
      BY <2>3 DEF PassedOn
    <3>3. ClaimsAgree(p, q)
      BY DEF ClaimsInv
    <3> QED BY <1>5, <3>1, <3>2, <3>3 DEF ClaimsAgree
  <2>4. CASE FreshClaims(m) /\ PassedOn(n)
    <3>1. PICK q \in rpcs : FromLeader(q) /\ q.from = n.from /\ q.term = n.term /\ Claims(n) \subseteq Claims(q)
      BY <2>4 DEF PassedOn
    <3>2. c[1] > m_lastSnapshotIncludeIndex[m.from] /\ HasEntry(m.from, c[1], c[2]) /\ m.term = m_currentTerm[m.from]
      BY <2>4 DEF FreshClaims
    <3>3. HasEntry(m.from, d[1], d[2])
      BY <1>5, <2>2, <3>1, <3>2
    <3> QED BY <1>5, <2>1, <3>2, <3>3
  <2>5. CASE PassedOn(m) /\ FreshClaims(n)
    <3>1. PICK q \in rpcs : FromLeader(q) /\ q.from = m.from /\ q.term = m.term /\ Claims(m) \subseteq Claims(q)
      BY <2>5 DEF PassedOn
    <3>2. d[1] > m_lastSnapshotIncludeIndex[n.from] /\ HasEntry(n.from, d[1], d[2]) /\ n.term = m_currentTerm[n.from]
      BY <2>5 DEF FreshClaims
    <3>3. HasEntry(n.from, c[1], c[2])
      BY <1>5, <2>2, <3>1, <3>2
    <3> QED BY <1>5, <2>1, <3>2, <3>3
  <2>6. CASE FreshClaims(m) /\ FreshClaims(n)
    <3>1. /\ c[1] > m_lastSnapshotIncludeIndex[m.from] /\ HasEntry(m.from, c[1], c[2])
          /\ HasEntry(n.from, d[1], d[2])
      BY <2>6 DEF FreshClaims
    <3> QED BY <1>5, <2>1, <3>1
  <2> QED BY <1>4, <1>5, <2>3, <2>4, <2>5, <2>6
<1>6. \A m, n \in rpcs' : ClaimsAgree(m, n)'
  BY <1>5 DEF ClaimsAgree, FromLeader, Delivered, Claims
<1> QED BY <1>3, <1>6 DEF ClaimsInv

\* While a leader's term lasts its log is what its messages say, and two of its
\* messages never say different things of an index (raft.cpp:106-185, 661-732).
THEOREM ClaimsInvariance == Spec => []ClaimsInv
<1>1. Init => ClaimsInv
  BY DEF Init, ClaimsInv
<1>2. IndexInv /\ IndexInv' /\ ElectionInv /\ ClaimsInv /\ [Next]_vars => ClaimsInv'
  BY StepKeepsClaimsInv
<1> QED BY <1>1, <1>2, IndexInvariance, ElectionInvariance, PTL DEF Spec

---------------------------------------------------------------------------
(* What a leader credits its followers with.                               *)

\* Follower j has what leader i believes it to have.
Held(i, j, k) ==
    k > m_lastSnapshotIncludeIndex[i] =>
        m_currentTerm[j] >= m_currentTerm[i] /\ k <= LastLogIndex(i) /\ StillHolds(j, i, k)

AnswersHold ==
    \A m \in rpcs : Delivered(m) =>
        /\ m_currentTerm[m.to] >= m.term
        /\ m_currentTerm[m.from] = m.term => Held(m.from, m.to, m.match)

CreditHeld == \A i, j \in Server : m_status[i] = "Leader" => Held(i, j, m_matchIndex[i][j])

\* Where a follower took in what its leader sent, their entries are the same.
LEMMA MergedAgrees ==
    ASSUME IndexInv, ClaimsInv, EntryInv, NEW r \in rpcs, AppendMatching(r), m_currentTerm[r.from] = r.term,
           NEW k \in r.prevLogIndex..(r.prevLogIndex + Len(r.entries)),
           k > m_lastSnapshotIncludeIndex[r.from], k > m_lastSnapshotIncludeIndex[r.to]
    PROVE  /\ k <= LastLogIndex(r.from)
           /\ SlicesIndex(r.to, k) \in 1..Len(MergedLog(r))
           /\ MergedLog(r)[SlicesIndex(r.to, k)] = m_logs[r.from][SlicesIndex(r.from, k)]
<1> DEFINE i == r.from
           j == r.to
           p == SlicesIndex(j, k)
           snap == m_lastSnapshotIncludeIndex[j]
<1>1. /\ r.kind = "AppendEntries" /\ FromLeader(r) /\ i \in Server /\ j \in Server
      /\ PrevInLog(r) /\ r.prevLogTerm = LogTermAt(j, r.prevLogIndex)
      /\ r.prevLogIndex \in Nat /\ Len(r.entries) \in Nat
      /\ \A n \in 1..Len(r.entries) : r.entries[n] \in Entry /\ r.entries[n].logindex = r.prevLogIndex + n
  BY AppendIsFromElected
<1>2. ClaimTrue(r)
  BY DEF ClaimsInv
<1>3. /\ snap \in Nat /\ Len(m_logs[j]) \in Nat /\ LastLogIndex(j) = snap + Len(m_logs[j])
      /\ m_lastSnapshotIncludeIndex[i] \in Nat /\ Len(m_logs[i]) \in Nat
      /\ LastLogIndex(i) = m_lastSnapshotIncludeIndex[i] + Len(m_logs[i])
      /\ \A n \in 1..Len(m_logs[i]) : m_logs[i][n].logindex = m_lastSnapshotIncludeIndex[i] + n
  BY <1>1, LogShape DEF IndexInv, IndexOrder
<1>4. r.prevLogIndex <= LastLogIndex(j) /\ r.prevLogIndex >= snap
  BY <1>1 DEF PrevInLog
<1>5. /\ Len(MergedLog(r)) \in Nat /\ Len(MergedLog(r)) >= Len(m_logs[j])
      /\ \A n \in 1..Len(MergedLog(r)) : MergedLog(r)[n].logindex = snap + n
      /\ \A n \in 1..Len(MergedLog(r)) :
            \/ Offered(r, n) \in 1..Len(r.entries) /\ MergedLog(r)[n] = r.entries[Offered(r, n)]
            \/ /\ n \in 1..Len(m_logs[j]) /\ MergedLog(r)[n] = m_logs[j][n]
               /\ Offered(r, n) \in 1..Len(r.entries) => m_logs[j][n].logterm = r.entries[Offered(r, n)].logterm
      /\ \A n \in 1..Len(r.entries) : SlicesIndex(j, r.prevLogIndex) + n \in 1..Len(MergedLog(r))
  BY <1>1, MergedLogShape
<1>6. k \in Nat /\ p = k - snap /\ p \in Nat /\ p >= 1
  BY <1>1, <1>3 DEF SlicesIndex
<1>7. Offered(r, p) = k - r.prevLogIndex
  BY <1>1, <1>3, <1>6 DEF Offered
\* The merged entry has the term that the request says.
<1>8. /\ p \in 1..Len(MergedLog(r))
      /\ MergedLog(r)[p] \in Entries
      /\ HasEntry(i, k, MergedLog(r)[p].logterm)
  <2>1. CASE k = r.prevLogIndex
    <3>1. p \in 1..Len(m_logs[j])
      BY <1>3, <1>4, <1>6, <2>1
    <3>2. p \in 1..Len(MergedLog(r))
      BY <1>5, <3>1
    <3>3. ~(Offered(r, p) \in 1..Len(r.entries))
      BY <1>1, <1>7, <2>1
    <3>4. MergedLog(r)[p] = m_logs[j][p]
      BY <1>5, <3>2, <3>3
    <3>5. r.prevLogTerm = m_logs[j][p].logterm
      BY <1>1, <1>3, <1>6, <2>1 DEF LogTermAt
    <3>6. HasEntry(i, k, r.prevLogTerm)
      BY <1>1, <1>2, <2>1 DEF ClaimTrue
    <3> QED BY <1>1, <3>1, <3>2, <3>4, <3>5, <3>6, EntryOfLog
  <2>2. CASE k # r.prevLogIndex
    <3> DEFINE n == k - r.prevLogIndex
    <3>1. n \in 1..Len(r.entries)
      BY <1>1, <2>2
    <3>2. p = SlicesIndex(j, r.prevLogIndex) + n
      BY <1>1, <1>3, <1>6 DEF SlicesIndex
    <3>3. p \in 1..Len(MergedLog(r))
      BY <1>5, <3>1, <3>2
    <3>4. /\ MergedLog(r)[p].logterm = r.entries[n].logterm
          /\ MergedLog(r)[p] \in Entries
      BY <1>1, <1>5, <1>7, <3>1, <3>3, EntryOfLog, EntryOfRequest
    <3>5. r.entries[n].logindex = k
      BY <1>1, <1>6, <3>1
    <3>6. <<r.entries[n].logindex, r.entries[n].logterm>> \in Claims(r)
      BY <1>1, <3>1 DEF Claims
    <3> HIDE DEF n
    <3>7. HasEntry(i, k, r.entries[n].logterm)
      BY <1>1, <1>2, <3>5, <3>6 DEF ClaimTrue
    <3> QED BY <3>3, <3>4, <3>7
  <2> QED BY <2>1, <2>2
<1>9. MergedLog(r)[p].logindex = k
  BY <1>3, <1>5, <1>6, <1>8
<1>10. k <= LastLogIndex(i) /\ m_logs[i][SlicesIndex(i, k)].logterm = MergedLog(r)[p].logterm
  BY <1>8 DEF HasEntry
<1>11. SlicesIndex(i, k) \in 1..Len(m_logs[i]) /\ m_logs[i][SlicesIndex(i, k)].logindex = k
  <2>1. PICK q : q = SlicesIndex(i, k)
    OBVIOUS
  <2>2. q = k - m_lastSnapshotIncludeIndex[i]
    BY <2>1 DEF SlicesIndex
  <2>3. k \in Nat /\ m_lastSnapshotIncludeIndex[i] \in Nat /\ Len(m_logs[i]) \in Nat
        /\ k <= m_lastSnapshotIncludeIndex[i] + Len(m_logs[i])
    BY <1>3, <1>6, <1>10
  <2>4. q \in 1..Len(m_logs[i]) /\ m_lastSnapshotIncludeIndex[i] + q = k
    BY <2>2, <2>3
  <2> QED BY <1>3, <2>1, <2>4
<1>12. m_logs[i][SlicesIndex(i, k)] \in Entries
  BY <1>1, <1>11, EntryOfLog
<1> QED BY <1>8, <1>9, <1>10, <1>11, <1>12 DEF EntryInv, EntryIdentity

\* Elsewhere the follower keeps its own entries.
LEMMA MergedKeeps ==
    ASSUME IndexInv, ClaimsInv, NEW r \in rpcs, AppendMatching(r),
           NEW k \in Nat, k > m_lastSnapshotIncludeIndex[r.to], k <= LastLogIndex(r.to),
           ~(k \in (r.prevLogIndex + 1)..(r.prevLogIndex + Len(r.entries)))
    PROVE  MergedLog(r)[SlicesIndex(r.to, k)] = m_logs[r.to][SlicesIndex(r.to, k)]
<1> DEFINE j == r.to
           snap == m_lastSnapshotIncludeIndex[j]
<1>1. r.to \in Server /\ PrevInLog(r) /\ r.prevLogIndex \in Nat /\ Len(r.entries) \in Nat
  BY AppendIsFromElected
<1>2. snap \in Nat /\ Len(m_logs[j]) \in Nat /\ LastLogIndex(j) = snap + Len(m_logs[j])
  BY <1>1, LogShape DEF IndexInv
<1>3. PICK p : p = SlicesIndex(j, k)
  OBVIOUS
<1>4. p = k - snap
  BY <1>3 DEF SlicesIndex
<1>5. p \in 1..Len(m_logs[j])
  BY <1>2, <1>4
<1>6. Offered(r, p) = k - r.prevLogIndex
  BY <1>1, <1>2, <1>4 DEF Offered
<1>7. ~(Offered(r, p) \in 1..Len(r.entries))
  BY <1>1, <1>6
<1>8. Len(MergedLog(r)) \in Nat /\ Len(MergedLog(r)) >= Len(m_logs[j])
  BY <1>1, MergedLogShape
<1>9. p \in 1..Len(MergedLog(r))
  BY <1>2, <1>5, <1>8
<1> QED BY <1>1, <1>3, <1>7, <1>9, MergedLogShape

\* In the leader's term no step takes from a follower what the leader has too.
LEMMA StillHoldsKept ==
    ASSUME IndexInv, IndexInv', ElectionInv, ClaimsInv, EntryInv, LogStep, ElectionStep,
           NEW i \in Server, NEW j \in Server, i # j,
           Elected(i, m_currentTerm[i]), m_currentTerm'[i] = m_currentTerm[i],
           m_currentTerm[j] >= m_currentTerm[i],
           NEW k \in Nat, k > m_lastSnapshotIncludeIndex'[i], k <= LastLogIndex(i), StillHolds(j, i, k)
    PROVE  StillHolds(j, i, k)'
<1>1. /\ m_currentTerm[i] \in Nat /\ m_currentTerm[j] \in Nat /\ m_currentTerm'[j] \in Nat
      /\ m_currentTerm'[j] >= m_currentTerm[j]
  BY VotesMoveForward DEF IndexInv, TypeOK, VoteTypes
<1>2. /\ m_lastSnapshotIncludeIndex[i] \in Nat /\ m_lastSnapshotIncludeIndex'[i] \in Nat
      /\ m_lastSnapshotIncludeIndex'[i] >= m_lastSnapshotIncludeIndex[i]
      /\ m_lastSnapshotIncludeIndex[j] \in Nat /\ m_lastSnapshotIncludeIndex'[j] \in Nat
      /\ m_lastSnapshotIncludeIndex'[j] >= m_lastSnapshotIncludeIndex[j]
      /\ LastLogIndex(i) \in Nat /\ LastLogIndex(j) \in Nat /\ LastLogIndex(j)' \in Nat
      /\ LastLogIndex(j)' >= LastLogIndex(j)
  BY LogGrows
<1> SUFFICES ASSUME m_currentTerm'[j] = m_currentTerm[i], k > m_lastSnapshotIncludeIndex'[j]
             PROVE  /\ LastLogIndex(j)' >= k
                    /\ m_logs'[j][k - m_lastSnapshotIncludeIndex'[j]] = m_logs'[i][k - m_lastSnapshotIncludeIndex'[i]]
  <2>1. CASE m_currentTerm'[j] > m_currentTerm'[i]
    BY <2>1 DEF StillHolds
  <2>2. CASE m_lastSnapshotIncludeIndex'[j] >= k
    BY <2>2 DEF StillHolds
  <2>3. CASE m_currentTerm'[j] = m_currentTerm[i] /\ k > m_lastSnapshotIncludeIndex'[j]
    BY <2>3 DEF StillHolds, SlicesIndex
  <2>4. \/ m_currentTerm'[j] > m_currentTerm'[i]
        \/ m_lastSnapshotIncludeIndex'[j] >= k
        \/ m_currentTerm'[j] = m_currentTerm[i] /\ k > m_lastSnapshotIncludeIndex'[j]
    BY <1>1, <1>2
  <2> QED BY <2>1, <2>2, <2>3, <2>4
<1>3. k > m_lastSnapshotIncludeIndex[i] /\ k > m_lastSnapshotIncludeIndex[j]
  BY <1>2
<1>4. ~(m_currentTerm[j] > m_currentTerm[i]) /\ ~(m_lastSnapshotIncludeIndex[j] >= k)
  BY <1>1, <1>3, <1>2
<1>5. LastLogIndex(j) >= k /\ m_logs[j][SlicesIndex(j, k)] = m_logs[i][SlicesIndex(i, k)]
  BY <1>4 DEF StillHolds
<1>6. m_logs'[i][k - m_lastSnapshotIncludeIndex'[i]] = m_logs[i][SlicesIndex(i, k)]
  <2>1. k \in (m_lastSnapshotIncludeIndex'[i] + 1)..LastLogIndex(i)
    BY <1>2
  <2> QED BY <1>3, <2>1, OwnLogKept
<1>7. m_logs'[j][k - m_lastSnapshotIncludeIndex'[j]] = m_logs[i][SlicesIndex(i, k)]
  <2>1. CASE \A r \in rpcs : AppendMatching(r) => r.to # j
    <3>1. k \in (m_lastSnapshotIncludeIndex'[j] + 1)..LastLogIndex(j)
      BY <1>2, <1>5
    <3> QED BY <1>3, <1>5, <2>1, <3>1, OnlyAppendsReplace
  <2>2. ASSUME NEW r \in rpcs, AppendMatching(r), r.to = j
        PROVE  m_logs'[j][k - m_lastSnapshotIncludeIndex'[j]] = m_logs[i][SlicesIndex(i, k)]
    <3>1. /\ r.from \in Server /\ Elected(r.from, r.term) /\ m_currentTerm'[j] = r.term
          /\ r.prevLogIndex \in Nat /\ Len(r.entries) \in Nat
      BY <2>2, AppendIsFromElected
    <3>2. r.from = i /\ m_currentTerm[r.from] = r.term
      BY <3>1, OneElectedPerTerm
    <3>3. m_logs'[j] = MergedLog(r) /\ m_lastSnapshotIncludeIndex' = m_lastSnapshotIncludeIndex
      BY <2>2 DEF AppendMatching, IndexInv, TypeOK, LogTypes
    <3>4. MergedLog(r)[SlicesIndex(j, k)] = m_logs[i][SlicesIndex(i, k)]
      <4>1. CASE k \in r.prevLogIndex..(r.prevLogIndex + Len(r.entries))
        BY <1>3, <2>2, <3>2, <4>1, MergedAgrees
      <4>2. CASE ~(k \in r.prevLogIndex..(r.prevLogIndex + Len(r.entries)))
        <5>1. ~(k \in (r.prevLogIndex + 1)..(r.prevLogIndex + Len(r.entries)))
          BY <3>1, <4>2
        <5>2. k <= LastLogIndex(j)
          BY <1>2, <1>5
        <5> QED BY <1>3, <1>5, <2>2, <5>1, <5>2, MergedKeeps
      <4> QED BY <4>1, <4>2
    <3> HIDE DEF MergedLog
    <3> QED BY <3>3, <3>4 DEF SlicesIndex
  <2> QED BY <2>1, <2>2
<1> QED BY <1>2, <1>5, <1>6, <1>7

LEMMA HeldKept ==
    ASSUME IndexInv, IndexInv', ElectionInv, ClaimsInv, EntryInv, LogStep, ElectionStep,
           NEW i \in Server, NEW j \in Server,
           Elected(i, m_currentTerm[i]), m_currentTerm'[i] = m_currentTerm[i],
           NEW k \in Nat, Held(i, j, k)
    PROVE  Held(i, j, k)'
<1> SUFFICES ASSUME k > m_lastSnapshotIncludeIndex'[i]
             PROVE  m_currentTerm'[j] >= m_currentTerm'[i] /\ k <= LastLogIndex(i)' /\ StillHolds(j, i, k)'
  BY DEF Held
<1>1. k > m_lastSnapshotIncludeIndex[i]
  BY SnapshotsGrow, LogEndAfter
<1>2. m_currentTerm[j] >= m_currentTerm[i] /\ k <= LastLogIndex(i) /\ StillHolds(j, i, k)
  BY <1>1 DEF Held
<1>3. m_currentTerm'[j] >= m_currentTerm'[i]
  <2>1. m_currentTerm[i] \in Nat /\ m_currentTerm[j] \in Nat /\ m_currentTerm'[j] \in Nat
        /\ m_currentTerm'[j] >= m_currentTerm[j]
    BY VotesMoveForward DEF IndexInv, TypeOK, VoteTypes
  <2> QED BY <1>2, <2>1
<1>4. k <= LastLogIndex(i)'
  <2>1. LastLogIndex(i) \in Nat /\ LastLogIndex(i)' \in Nat /\ LastLogIndex(i)' >= LastLogIndex(i)
    BY LogShape, LogEndAfter, LogsNeverEndEarlier DEF IndexInv
  <2> QED BY <1>2, <2>1
<1>5. StillHolds(j, i, k)'
  <2>1. CASE i = j
    <3>1. k \in Nat /\ LastLogIndex(i)' \in Nat
      BY LogEndAfter
    <3> QED BY <1>4, <2>1, <3>1 DEF StillHolds
  <2>2. CASE i # j
    BY <1>2, <2>2, StillHoldsKept
  <2> QED BY <2>1, <2>2
<1> QED BY <1>3, <1>4, <1>5

LEMMA AnswersStillHold ==
    ASSUME IndexInv, IndexInv', ElectionInv, ClaimsInv, EntryInv, [Next]_vars, AnswersHold
    PROVE  AnswersHold'
<1>0. LogStep /\ ElectionStep
  BY LogSteps, ElectionSteps
<1> SUFFICES ASSUME NEW m \in rpcs', Delivered(m)
             PROVE  /\ m_currentTerm'[m.to] >= m.term
                    /\ m_currentTerm'[m.from] = m.term => Held(m.from, m.to, m.match)'
  BY DEF AnswersHold, Delivered
<1>1. CASE m \in rpcs
  <2>1. /\ m.from \in Server /\ m.to \in Server /\ m.term \in Nat /\ m.match \in Nat
        /\ Elected(m.from, m.term) /\ m.term <= m_currentTerm[m.from]
    BY <1>1, ClaimTypes DEF ClaimsInv, WellSent, FromLeader
  <2>2. /\ m_currentTerm[m.to] \in Nat /\ m_currentTerm'[m.to] \in Nat /\ m_currentTerm'[m.to] >= m_currentTerm[m.to]
        /\ m_currentTerm[m.from] \in Nat /\ m_currentTerm'[m.from] >= m_currentTerm[m.from]
    BY <1>0, <2>1, VotesMoveForward DEF IndexInv, TypeOK, VoteTypes
  <2>3. /\ m_currentTerm[m.to] >= m.term
        /\ m_currentTerm[m.from] = m.term => Held(m.from, m.to, m.match)
    BY <1>1 DEF AnswersHold
  <2>4. m_currentTerm'[m.to] >= m.term
    BY <2>1, <2>2, <2>3
  <2>5. ASSUME m_currentTerm'[m.from] = m.term PROVE Held(m.from, m.to, m.match)'
    <3>1. m_currentTerm[m.from] = m.term
      BY <2>1, <2>2, <2>5
    <3> QED BY <1>0, <2>1, <2>3, <2>5, <3>1, HeldKept
  <2> QED BY <2>4, <2>5
<1>2. CASE m \notin rpcs
  <2>1. NewMessage(m)
    BY <1>2, MessagesOfStep
  <2>2. ~Plain(m)
    BY DEF Plain, FromLeader
  <2>3. \A i, j, n : ~Delivered(HeartBeatRpc(i, j, n))
    BY DEF HeartBeatRpc, Delivered
  <2>4. PICK r \in rpcs : AppendMatching(r) /\ m = AppendReply(r, r.term, TRUE, 0)
    BY <2>1, <2>2, <2>3 DEF NewMessage
  <2>5. /\ m.from = r.from /\ m.to = r.to /\ m.term = r.term
        /\ m.match = r.prevLogIndex + Len(r.entries) /\ m.match \in Nat
    BY <2>4, AnswerClaims
  <2>6. /\ r.from \in Server /\ r.to \in Server /\ r.from # r.to /\ r.term \in Nat
        /\ m_currentTerm'[r.to] = r.term /\ r.prevLogIndex \in Nat /\ Len(r.entries) \in Nat
    BY <2>4, AppendIsFromElected
  <2>7. /\ m_currentTerm' = [m_currentTerm EXCEPT ![r.to] = r.term]
        /\ m_logs' = [m_logs EXCEPT ![r.to] = MergedLog(r)]
        /\ m_lastSnapshotIncludeIndex' = m_lastSnapshotIncludeIndex
    BY <2>4 DEF AppendMatching, FollowLeader
  <2>8. ASSUME m_currentTerm'[r.from] = r.term, m.match > m_lastSnapshotIncludeIndex[r.from]
        PROVE  m.match <= LastLogIndex(r.from)' /\ StillHolds(r.to, r.from, m.match)'
    <3>1. m_currentTerm[r.from] = r.term
      BY <2>6, <2>7, <2>8
    <3>2. m.match \in r.prevLogIndex..(r.prevLogIndex + Len(r.entries))
      BY <2>5, <2>6
    <3>3. m.match <= LastLogIndex(r.from)'
      <4>1. m.match <= LastLogIndex(m.from)'
        BY DEF IndexInv, RequestsWithinLog, WithinSendersLog, Delivered
      <4> QED BY <2>5, <4>1
    <3>4. StillHolds(r.to, r.from, m.match)'
      <4>1. CASE m_lastSnapshotIncludeIndex[r.to] >= m.match
        BY <2>7, <4>1 DEF StillHolds
      <4>2. CASE m.match > m_lastSnapshotIncludeIndex[r.to]
        <5>1. /\ SlicesIndex(r.to, m.match) \in 1..Len(MergedLog(r))
              /\ MergedLog(r)[SlicesIndex(r.to, m.match)] = m_logs[r.from][SlicesIndex(r.from, m.match)]
          BY <2>4, <2>8, <3>1, <3>2, <4>2, MergedAgrees
        <5>2. m_logs'[r.to] = MergedLog(r) /\ m_logs'[r.from] = m_logs[r.from]
          BY <2>6, <2>7 DEF IndexInv, TypeOK, LogTypes
        <5> HIDE DEF MergedLog
        <5>3. \A n : SlicesIndex(n, m.match)' = SlicesIndex(n, m.match)
          BY <2>7 DEF SlicesIndex
        <5>4. LastLogIndex(r.to)' >= m.match
          <6>1. /\ LastLogIndex(r.to)' = m_lastSnapshotIncludeIndex[r.to] + Len(MergedLog(r))
                /\ m_lastSnapshotIncludeIndex[r.to] \in Nat /\ Len(MergedLog(r)) \in Nat
            BY <2>6, <2>7, <5>2, LogEndAfter
          <6>2. m.match - m_lastSnapshotIncludeIndex[r.to] \in 1..Len(MergedLog(r))
            BY <5>1 DEF SlicesIndex
          <6> QED BY <2>5, <6>1, <6>2
        <5> QED BY <5>1, <5>2, <5>3, <5>4 DEF StillHolds
      <4>3. m_lastSnapshotIncludeIndex[r.to] \in Nat
        BY <2>6 DEF IndexInv, TypeOK, LogTypes
      <4> QED BY <2>5, <4>1, <4>2, <4>3
    <3> QED BY <3>3, <3>4
  <2>9. m_currentTerm'[r.from] = r.term => Held(r.from, r.to, m.match)'
    BY <2>6, <2>7, <2>8 DEF Held
  <2> QED BY <2>5, <2>6, <2>9
<1> QED BY <1>1, <1>2

\* Who leads after a step led before it in the same term, or was just elected.
LEMMA LeaderStays ==
    ASSUME IndexInv, ElectionStep, NEW i \in Server, m_status'[i] = "Leader"
    PROVE  \/ m_status[i] = "Leader" /\ m_currentTerm'[i] = m_currentTerm[i]
           \/ \E r \in rpcs : BecomeLeader(r) /\ r.from = i
<1>0. /\ m_currentTerm \in [Server -> Nat]
      /\ m_status \in [Server -> {"Follower", "Candidate", "Leader"}]
  BY DEF IndexInv, TypeOK, VoteTypes
<1>1. CASE ElectionIdle
  BY <1>0, <1>1 DEF ElectionIdle, voteVars
<1>2. CASE \E j \in Server, term \in Nat : HearsOfTerm(j, term)
  BY <1>0, <1>2 DEF HearsOfTerm
<1>3. CASE \E j \in Server : DoElection(j)
  BY <1>0, <1>3 DEF DoElection
<1>4. ASSUME NEW r \in rpcs, HandleRequestVote(r)
      PROVE  m_status[i] = "Leader" /\ m_currentTerm'[i] = m_currentTerm[i]
  <2>1. r.to \in Server /\ r.term \in Nat
    BY RpcFields DEF IndexInv, TypeOK
  <2>2. CASE r.term > m_currentTerm[r.to]
    <3>1. r.to # i
      BY <1>0, <1>4, <2>1, <2>2 DEF HandleRequestVote
    <3> QED BY <1>0, <1>4, <3>1 DEF HandleRequestVote
  <2>3. CASE ~(r.term > m_currentTerm[r.to])
    BY <1>0, <1>4, <2>1, <2>3 DEF HandleRequestVote, Larger
  <2> QED BY <2>2, <2>3
<1>5. ASSUME NEW r \in rpcs, CountVote(r)
      PROVE  m_status[i] = "Leader" /\ m_currentTerm'[i] = m_currentTerm[i]
  BY <1>5 DEF CountVote, voteVars
<1>6. ASSUME NEW r \in rpcs, BecomeLeader(r), r.from # i
      PROVE  m_status[i] = "Leader" /\ m_currentTerm'[i] = m_currentTerm[i]
  BY <1>0, <1>6 DEF BecomeLeader
<1> QED BY <1>1, <1>2, <1>3, <1>4, <1>5, <1>6 DEF ElectionStep

\* What a reply may set the match index of a follower to.
LEMMA MatchSteps ==
    ASSUME IndexInv, [Next]_vars, NEW i \in Server, NEW j \in Server
    PROVE  \/ m_matchIndex'[i][j] = m_matchIndex[i][j]
           \/ \E r \in rpcs : BecomeLeader(r) /\ r.from = i
           \/ \E r \in rpcs : AppendAccepted(r) /\ r.from = i /\ r.to = j
           \/ \E r \in rpcs : SnapshotAccepted(r) /\ r.from = i /\ r.to = j
<1>0. m_matchIndex \in [Server -> [Server -> Nat]]
  BY DEF IndexInv, TypeOK, LeaderTypes
<1> DEFINE Same == m_matchIndex'[i][j] = m_matchIndex[i][j]
<1>1. CASE UNCHANGED vars
  BY <1>1 DEF vars, leaderVars
<1>2. ASSUME NEW n \in Server, NodeStep(n) PROVE Same
  BY <1>2 DEF NodeStep, DoElection, DoHeartBeat, HeartBeatExits, Exit, Start, Apply, Snapshot, leaderVars
<1>3. ASSUME NEW r \in rpcs, VoteStep(r) PROVE Same \/ (BecomeLeader(r) /\ r.from = i)
  <2>1. CASE BecomeLeader(r)
    BY <1>0, <2>1 DEF BecomeLeader
  <2>2. CASE ~BecomeLeader(r)
    BY <1>3, <2>2 DEF VoteStep, HandleRequestVote, VoteReplyStepsDown, VoteReplyIgnored, CountVote, leaderVars
  <2> QED BY <2>1, <2>2
<1>4. ASSUME NEW r \in rpcs, AppendStep(r) PROVE Same \/ (AppendAccepted(r) /\ r.from = i /\ r.to = j)
  <2>1. CASE AppendAccepted(r)
    BY <1>0, <2>1 DEF AppendAccepted
  <2>2. CASE ~AppendAccepted(r)
    BY <1>4, <2>2 DEF AppendStep, RejectStaleLeader, RejectGap, PrevInSnapshotExits, Exit, AppendMatching,
                      RejectMismatch, AppendReplyStepsDown, AppendReplyIgnored, AppendRejected, leaderVars
  <2> QED BY <2>1, <2>2
<1>5. ASSUME NEW r \in rpcs, SnapshotStep(r) PROVE Same \/ (SnapshotAccepted(r) /\ r.from = i /\ r.to = j)
  <2>1. CASE SnapshotAccepted(r)
    BY <1>0, <2>1 DEF SnapshotAccepted
  <2>2. CASE ~SnapshotAccepted(r)
    BY <1>5, <2>2 DEF SnapshotStep, LeaderSendSnapShot, RejectStaleSnapshotSender, IgnoreOldSnapshot,
                      InstallSnapshot, SnapshotReplyIgnored, SnapshotReplyStepsDown, PeerCloses, leaderVars
  <2> QED BY <2>1, <2>2
<1>6. ASSUME NEW r \in rpcs, RpcFails(r) PROVE Same
  BY <1>6 DEF RpcFails
<1> QED BY <1>1, <1>2, <1>3, <1>4, <1>5, <1>6 DEF Next

LEMMA CreditStillHeld ==
    ASSUME IndexInv, IndexInv', ElectionInv, ClaimsInv, EntryInv, [Next]_vars, AnswersHold, CreditHeld
    PROVE  CreditHeld'
<1>0. LogStep /\ ElectionStep
  BY LogSteps, ElectionSteps
<1> SUFFICES ASSUME NEW i \in Server, NEW j \in Server, m_status'[i] = "Leader"
             PROVE  Held(i, j, m_matchIndex[i][j])'
  BY DEF CreditHeld
<1>1. m_lastSnapshotIncludeIndex[i] \in Nat /\ m_lastSnapshotIncludeIndex'[i] \in Nat /\ m_matchIndex[i][j] \in Nat
  BY LogEndAfter DEF IndexInv, TypeOK, LogTypes, LeaderTypes
<1>2. CASE \E r \in rpcs : BecomeLeader(r) /\ r.from = i
  <2>1. m_matchIndex'[i][j] = 0
    BY <1>2 DEF BecomeLeader, IndexInv, TypeOK, LeaderTypes
  <2> QED BY <1>1, <2>1 DEF Held
<1>3. CASE ~\E r \in rpcs : BecomeLeader(r) /\ r.from = i
  <2>1. m_status[i] = "Leader" /\ m_currentTerm'[i] = m_currentTerm[i]
    BY <1>0, <1>3, LeaderStays
  <2>2. Elected(i, m_currentTerm[i])
    BY <2>1, LeaderIsElected
  <2>3. \A k \in Nat : Held(i, j, k) => Held(i, j, k)'
    BY <1>0, <2>1, <2>2, HeldKept
  <2>4. Held(i, j, m_matchIndex[i][j])
    BY <2>1 DEF CreditHeld
  <2>5. m_matchIndex'[i][j] \in Nat /\ Held(i, j, m_matchIndex'[i][j])
    <3>1. ASSUME NEW r \in rpcs, AppendAccepted(r), r.from = i, r.to = j
          PROVE  m_matchIndex'[i][j] \in Nat /\ Held(i, j, m_matchIndex'[i][j])
      <4>1. Delivered(r) /\ r.term = m_currentTerm[i]
        BY <3>1 DEF AppendAccepted, ToCurrentLeader, Reply, Delivered
      <4>2. r.match \in Nat
        BY <4>1, ClaimTypes DEF FromLeader
      <4>3. Held(i, j, r.match)
        BY <3>1, <4>1 DEF AnswersHold
      <4>4. m_matchIndex'[i][j] = Larger(m_matchIndex[i][j], r.match)
        BY <3>1 DEF AppendAccepted, IndexInv, TypeOK, LeaderTypes
      <4>5. m_matchIndex'[i][j] = m_matchIndex[i][j] \/ m_matchIndex'[i][j] = r.match
        BY <4>4 DEF Larger
      <4> QED BY <1>1, <2>4, <4>2, <4>3, <4>5
    <3>2. ASSUME NEW r \in rpcs, SnapshotAccepted(r), r.from = i, r.to = j
          PROVE  m_matchIndex'[i][j] \in Nat /\ Held(i, j, m_matchIndex'[i][j])
      <4>1. r.kind = "InstallSnapshotReply" /\ r \in InstallSnapshotReplyRpc
        BY <3>2, RpcFields DEF SnapshotAccepted, Reply, IndexInv, TypeOK
      <4>2. r.snapIndex \in Nat /\ r.snapIndex <= m_lastSnapshotIncludeIndex[i]
        BY <3>2, <4>1 DEF InstallSnapshotReplyRpc, ClaimsInv, WellSent
      <4>3. m_matchIndex'[i][j] = r.snapIndex
        BY <3>2 DEF SnapshotAccepted, IndexInv, TypeOK, LeaderTypes
      <4> QED BY <1>1, <4>2, <4>3 DEF Held
    <3> QED BY <1>1, <1>3, <2>4, <3>1, <3>2, MatchSteps
  <2>6. PICK k \in Nat : k = m_matchIndex'[i][j]
    BY <2>5
  <2>7. Held(i, j, k)'
    BY <2>3, <2>5, <2>6
  <2> QED BY <2>6, <2>7 DEF Held, StillHolds, SlicesIndex
<1> QED BY <1>2, <1>3

\* No reply to an AppendEntries, however late, of whatever round and compacted
\* meanwhile, makes a leader take a follower to hold an entry beyond the leader's
\* snapshot that it does not hold (raft.cpp:644-738).  A reply to InstallSnapshot can
\* only set an index within that snapshot: the theorem does not speak of it.
THEOREM MatchIndexTrueHolds == Spec => []MatchIndexTrue
<1> DEFINE Credit == AnswersHold /\ CreditHeld
<1>1. Init => Credit
  <2> SUFFICES ASSUME Init PROVE Credit
    OBVIOUS
  <2>1. rpcs = {} /\ \A i \in Server : m_status[i] = "Follower"
    BY DEF Init
  <2> QED BY <2>1 DEF AnswersHold, CreditHeld
<1>2. IndexInv /\ IndexInv' /\ ElectionInv /\ ClaimsInv /\ EntryInv /\ Credit /\ [Next]_vars => Credit'
  BY AnswersStillHold, CreditStillHeld
<1>3. IndexInv /\ Credit => MatchIndexTrue
  BY DEF CreditHeld, Held, MatchIndexTrue, Leads
<1> HIDE DEF Credit
<1> QED BY <1>1, <1>2, <1>3, IndexInvariance, ElectionInvariance, ClaimsInvariance, EntryInvariance, PTL DEF Spec

---------------------------------------------------------------------------
(* What is saved.                                                          *)

NothingToSave ==
    /\ UNCHANGED <<persisted, logVars>>
    /\ \A i \in Server :
        \/ m_currentTerm'[i] > m_currentTerm[i]
        \/ m_currentTerm'[i] = m_currentTerm[i] /\ m_votedFor'[i] = m_votedFor[i]

Saved(j) ==
    /\ Persist(j)
    /\ \A i \in Server \ {j} :
        /\ m_currentTerm'[i] = m_currentTerm[i] /\ m_votedFor'[i] = m_votedFor[i]
        /\ m_logs'[i] = m_logs[i] /\ m_lastSnapshotIncludeIndex'[i] = m_lastSnapshotIncludeIndex[i]

SavingStep == NothingToSave \/ \E j \in Server : Saved(j)

LEMMA SavingNodeSteps ==
    ASSUME IndexInv, NEW i \in Server, NodeStep(i)
    PROVE  SavingStep
<1>0. /\ m_currentTerm \in [Server -> Nat] /\ m_votedFor \in [Server -> Server \cup {Nobody}]
      /\ m_logs \in [Server -> Seq(Entry)] /\ m_lastSnapshotIncludeIndex \in [Server -> Nat]
  BY DEF IndexInv, TypeOK, VoteTypes, LogTypes
<1>1. CASE DoElection(i)
  BY <1>0, <1>1 DEF DoElection, logVars, Saved, SavingStep
<1>2. CASE DoHeartBeat(i) \/ HeartBeatExits(i) \/ Apply(i)
  BY <1>2 DEF DoHeartBeat, HeartBeatExits, Exit, Apply, voteVars, NothingToSave, SavingStep
<1>3. CASE \E command \in Command : Start(i, command)
  BY <1>0, <1>3 DEF Start, voteVars, Saved, SavingStep
<1>4. CASE \E index \in 1..MaxSnapshotIndex : Snapshot(i, index)
  BY <1>0, <1>4 DEF Snapshot, voteVars, Saved, SavingStep
<1> QED BY <1>1, <1>2, <1>3, <1>4 DEF NodeStep

LEMMA SavingRpcSteps ==
    ASSUME IndexInv, NEW r \in rpcs, VoteStep(r) \/ AppendStep(r) \/ SnapshotStep(r) \/ RpcFails(r)
    PROVE  SavingStep
<1>0. /\ m_currentTerm \in [Server -> Nat] /\ m_votedFor \in [Server -> Server \cup {Nobody}]
      /\ m_logs \in [Server -> Seq(Entry)] /\ m_lastSnapshotIncludeIndex \in [Server -> Nat]
      /\ r.from \in Server /\ r.to \in Server /\ r.term \in Nat
  BY RpcFields DEF IndexInv, TypeOK, VoteTypes, LogTypes
<1>1. CASE VoteStep(r)
  <2>1. CASE HandleRequestVote(r)
    BY <1>0, <2>1 DEF HandleRequestVote, logVars, Saved, SavingStep
  <2>2. CASE VoteReplyStepsDown(r)
    BY <1>0, <2>2 DEF VoteReplyStepsDown, StepDown, logVars, Saved, SavingStep
  <2>3. CASE VoteReplyIgnored(r) \/ CountVote(r)
    BY <2>3 DEF VoteReplyIgnored, CountVote, voteVars, NothingToSave, SavingStep
  <2>4. CASE BecomeLeader(r)
    BY <1>0, <2>4 DEF BecomeLeader, logVars, Saved, SavingStep
  <2> QED BY <1>1, <2>1, <2>2, <2>3, <2>4 DEF VoteStep
<1>2. CASE AppendStep(r)
  <2>1. CASE RejectGap(r) \/ RejectMismatch(r)
    BY <1>0, <2>1 DEF RejectGap, RejectMismatch, FollowLeader, logVars, Saved, SavingStep
  <2>2. CASE AppendMatching(r)
    BY <1>0, <2>2 DEF AppendMatching, FollowLeader, Saved, SavingStep
  <2>3. CASE AppendReplyStepsDown(r)
    BY <1>0, <2>3 DEF AppendReplyStepsDown, StepDown, NothingToSave, SavingStep
  <2>4. CASE RejectStaleLeader(r) \/ PrevInSnapshotExits(r) \/ AppendReplyIgnored(r) \/ AppendRejected(r) \/ AppendAccepted(r)
    BY <2>4 DEF RejectStaleLeader, PrevInSnapshotExits, Exit, AppendReplyIgnored, AppendRejected, AppendAccepted,
                voteVars, NothingToSave, SavingStep
  <2> QED BY <1>2, <2>1, <2>2, <2>3, <2>4 DEF AppendStep
<1>3. CASE SnapshotStep(r)
  <2>1. CASE IgnoreOldSnapshot(r)
    <3>1. CASE r.term > m_currentTerm[r.to]
      BY <1>0, <2>1, <3>1 DEF IgnoreOldSnapshot, FollowLeader, logVars, Saved, SavingStep
    <3>2. CASE ~(r.term > m_currentTerm[r.to])
      BY <1>0, <2>1, <3>2 DEF IgnoreOldSnapshot, FollowLeader, NothingToSave, SavingStep
    <3> QED BY <3>1, <3>2
  <2>2. CASE InstallSnapshot(r)
    BY <1>0, <2>2 DEF InstallSnapshot, FollowLeader, Saved, SavingStep
  <2>3. CASE SnapshotReplyStepsDown(r)
    BY <1>0, <2>3 DEF SnapshotReplyStepsDown, StepDown, logVars, Saved, SavingStep
  <2>4. CASE \/ LeaderSendSnapShot(r) \/ RejectStaleSnapshotSender(r) \/ SnapshotReplyIgnored(r)
             \/ SnapshotAccepted(r) \/ PeerCloses(r)
    BY <2>4 DEF LeaderSendSnapShot, RejectStaleSnapshotSender, SnapshotReplyIgnored, SnapshotAccepted, PeerCloses,
                voteVars, NothingToSave, SavingStep
  <2> QED BY <1>3, <2>1, <2>2, <2>3, <2>4 DEF SnapshotStep
<1>4. CASE RpcFails(r)
  BY <1>4 DEF RpcFails, voteVars, NothingToSave, SavingStep
<1> QED BY <1>1, <1>2, <1>3, <1>4

\* No step changes a vote, a log or a snapshot without saving it; a larger term
\* may stay unsaved.
LEMMA SavingSteps == IndexInv /\ [Next]_vars => SavingStep
<1> SUFFICES ASSUME IndexInv, [Next]_vars PROVE SavingStep
  OBVIOUS
<1>1. CASE UNCHANGED vars
  BY <1>1 DEF vars, voteVars, NothingToSave, SavingStep
<1> QED BY <1>1, SavingNodeSteps, SavingRpcSteps DEF Next

\* The saved state holds the log, and the vote unless the term has passed unsaved.
SavedBehind ==
    \A i \in Server :
        LET saved == persisted[i]
        IN  /\ saved.term <= m_currentTerm[i]
            /\ saved.term = m_currentTerm[i] => saved.votedFor = m_votedFor[i]
            /\ saved.logs = m_logs[i] /\ saved.snapIndex = m_lastSnapshotIncludeIndex[i]

\* After a step, a node's saved state is what it was or what the node is now.
SavedAfter(i) ==
    \/ /\ persisted'[i] = persisted[i]
       /\ m_logs'[i] = m_logs[i] /\ m_lastSnapshotIncludeIndex'[i] = m_lastSnapshotIncludeIndex[i]
    \/ persisted'[i].term = m_currentTerm'[i] /\ persisted'[i].votedFor = m_votedFor'[i]

LEMMA StepKeepsSavedBehind ==
    ASSUME IndexInv, IndexInv', SavingStep, SavedBehind
    PROVE  SavedBehind' /\ \A i \in Server : SavedAfter(i)
<1>0. persisted \in [Server -> SavedState] /\ m_currentTerm \in [Server -> Nat] /\ m_currentTerm' \in [Server -> Nat]
  BY DEF IndexInv, TypeOK, VoteTypes
<1>1. CASE NothingToSave
  <2>1. \A i \in Server : persisted[i].term \in Nat
    BY <1>0 DEF SavedState
  <2>2. SavedBehind'
    BY <1>0, <1>1, <2>1 DEF NothingToSave, SavedBehind, logVars
  <2> QED BY <1>1, <2>2 DEF NothingToSave, SavedAfter, logVars
<1>2. ASSUME NEW j \in Server, Saved(j) PROVE SavedBehind' /\ \A i \in Server : SavedAfter(i)
  <2>1. /\ persisted'[j] = PersistData(j)'
        /\ \A i \in Server \ {j} : persisted'[i] = persisted[i]
    BY <1>0, <1>2 DEF Saved, Persist
  <2>2. /\ persisted'[j].term = m_currentTerm'[j] /\ persisted'[j].votedFor = m_votedFor'[j]
        /\ persisted'[j].logs = m_logs'[j] /\ persisted'[j].snapIndex = m_lastSnapshotIncludeIndex'[j]
    BY <2>1 DEF PersistData
  <2>3. \A i \in Server \ {j} :
            /\ m_currentTerm'[i] = m_currentTerm[i] /\ m_votedFor'[i] = m_votedFor[i]
            /\ m_logs'[i] = m_logs[i] /\ m_lastSnapshotIncludeIndex'[i] = m_lastSnapshotIncludeIndex[i]
    BY <1>2 DEF Saved
  <2>4. SavedBehind'
    BY <1>0, <2>1, <2>2, <2>3 DEF SavedBehind
  <2> QED BY <2>1, <2>2, <2>3, <2>4 DEF SavedAfter
<1> QED BY <1>1, <1>2 DEF SavingStep

\* What a follower has, or is sent now, it has once the sent entries are in.
LEMMA MergedHasEntry ==
    ASSUME IndexInv, IndexInv', ClaimsInv, NEW r \in rpcs, AppendMatching(r), NEW index \in Nat, NEW term,
           \/ /\ HasEntry(r.to, index, term)
              /\ \A n \in 1..Len(r.entries) : r.entries[n].logindex = index => r.entries[n].logterm = term
           \/ \E n \in 1..Len(r.entries) : r.entries[n].logindex = index /\ r.entries[n].logterm = term
    PROVE  HasEntry(r.to, index, term)'
<1> DEFINE j == r.to
           snap == m_lastSnapshotIncludeIndex[j]
           log == MergedLog(r)
<1>1. /\ j \in Server /\ PrevInLog(r) /\ r.prevLogIndex \in Nat /\ Len(r.entries) \in Nat
      /\ \A n \in 1..Len(r.entries) : r.entries[n].logindex = r.prevLogIndex + n
  BY AppendIsFromElected
<1>2. m_logs'[j] = log /\ m_lastSnapshotIncludeIndex' = m_lastSnapshotIncludeIndex
  BY <1>1 DEF AppendMatching, IndexInv, TypeOK, LogTypes
<1>3. /\ snap \in Nat /\ Len(m_logs[j]) \in Nat /\ LastLogIndex(j) = snap + Len(m_logs[j])
      /\ LastLogIndex(j)' = snap + Len(log)
  BY <1>1, <1>2, LogShape, LogEndAfter DEF IndexInv
<1>4. /\ Len(log) \in Nat /\ Len(log) >= Len(m_logs[j])
      /\ \A n \in 1..Len(log) :
            \/ Offered(r, n) \in 1..Len(r.entries) /\ log[n] = r.entries[Offered(r, n)]
            \/ /\ n \in 1..Len(m_logs[j]) /\ log[n] = m_logs[j][n]
               /\ Offered(r, n) \in 1..Len(r.entries) => m_logs[j][n].logterm = r.entries[Offered(r, n)].logterm
      /\ \A n \in 1..Len(r.entries) : SlicesIndex(j, r.prevLogIndex) + n \in 1..Len(log)
  BY <1>1, MergedLogShape
<1> HIDE DEF log
<1> SUFFICES ASSUME index > snap PROVE index <= LastLogIndex(j)' /\ log[index - snap].logterm = term
  BY <1>2 DEF HasEntry, SlicesIndex
<1>5. PICK p \in Nat : p = index - snap /\ p >= 1
  BY <1>3
<1>6. Offered(r, p) = index - r.prevLogIndex
  BY <1>1, <1>3, <1>5 DEF Offered
<1>7. CASE Offered(r, p) \in 1..Len(r.entries)
  <2>1. PICK q \in 1..Len(r.entries) : q = Offered(r, p) /\ r.prevLogIndex + q = index
    BY <1>1, <1>6, <1>7
  <2>2. r.entries[q].logindex = index
    BY <1>1, <2>1
  <2>3. r.entries[q].logterm = term
    <3>1. \A n \in 1..Len(r.entries) : r.entries[n].logindex = index => n = q
      BY <1>1, <2>1
    <3> QED BY <2>2, <3>1
  <2>4. p \in 1..Len(log)
    <3>1. p = SlicesIndex(j, r.prevLogIndex) + q
      BY <1>1, <1>3, <1>5, <2>1 DEF SlicesIndex
    <3> QED BY <1>4, <3>1
  <2>5. log[p].logterm = term
    BY <1>4, <2>1, <2>3, <2>4
  <2>6. index <= LastLogIndex(j)'
    BY <1>3, <1>4, <1>5, <2>4
  <2> QED BY <1>5, <2>5, <2>6
<1>8. CASE ~(Offered(r, p) \in 1..Len(r.entries))
  <2>1. \A n \in 1..Len(r.entries) : r.entries[n].logindex # index
    <3> SUFFICES ASSUME NEW n \in 1..Len(r.entries), r.entries[n].logindex = index PROVE FALSE
      OBVIOUS
    <3>1. r.prevLogIndex + n = index
      BY <1>1
    <3> QED BY <1>1, <1>6, <1>8, <3>1
  <2>2. index <= LastLogIndex(j) /\ m_logs[j][p].logterm = term
    BY <1>5, <2>1 DEF HasEntry, SlicesIndex
  <2>3. p \in 1..Len(log)
    BY <1>3, <1>4, <1>5, <2>2
  <2>4. log[p] = m_logs[j][p]
    BY <1>4, <1>8, <2>3
  <2>5. p <= Len(log)
    BY <1>4, <2>3
  <2>6. index <= LastLogIndex(j)'
    BY <1>3, <1>4, <1>5, <2>5
  <2> QED BY <1>5, <2>2, <2>4, <2>6
<1> QED BY <1>7, <1>8

\* What answers in flight promise, in terms of the nodes' logs.
VotePromise(m) ==
    m.kind = "RequestVoteReply" /\ m.granted =>
        \/ persisted[m.to].term > m.term
        \/ persisted[m.to].term = m.term /\ persisted[m.to].votedFor = m.from

EntryPromise(m) ==
    Delivered(m) =>
        /\ persisted[m.to].term >= m.term
        /\ persisted[m.to].term = m.term =>
              /\ m.match <= LastLogIndex(m.to)
              /\ m.lastEntryTerm # 0 => HasEntry(m.to, m.match, m.lastEntryTerm)

PromisesInv == SavedBehind /\ \A m \in rpcs : VotePromise(m) /\ EntryPromise(m)

\* A vote is granted by the step that saves it.
LEMMA VoteGranted ==
    ASSUME IndexInv, ElectionStep, NEW m \in rpcs', m \notin rpcs, m.kind = "RequestVoteReply", m.granted
    PROVE  VotePromise(m)'
<1>1. CarriesVote(m)
  BY DEF CarriesVote
<1>2. PICK r \in rpcs : HandleRequestVote(r)
  <2>1. \A i \in Server : ~DoElection(i)
    BY DEF DoElection, VoteRequest
  <2>2. \A r \in rpcs : ~CountVote(r) /\ ~BecomeLeader(r)
    BY DEF CountVote, BecomeLeader, Finish
  <2>3. ~NoNewVoteRpc
    BY <1>1 DEF NoNewVoteRpc
  <2> QED BY <2>1, <2>2, <2>3 DEF ElectionStep, ElectionIdle, HearsOfTerm
<1> DEFINE i == r.to
           term == Larger(r.term, m_currentTerm[i])
<1>3. i \in Server /\ m = VoteReply(r, term, GrantsVote(r)) /\ Persist(i)
  BY <1>2, RpcFields DEF HandleRequestVote, Answer, IndexInv, TypeOK
<1>4. m.to = i /\ m.from = r.from /\ m.term = term /\ m.granted = GrantsVote(r)
  BY <1>3 DEF VoteReply
<1>5. m_currentTerm'[i] = term /\ m_votedFor'[i] = r.from
  BY <1>2, <1>3, <1>4 DEF HandleRequestVote, IndexInv, TypeOK, VoteTypes
<1>6. persisted'[i].term = m_currentTerm'[i] /\ persisted'[i].votedFor = m_votedFor'[i]
  BY <1>3 DEF Persist, PersistData, IndexInv, TypeOK
<1> QED BY <1>4, <1>5, <1>6 DEF VotePromise

\* A saved vote is saved over only by itself or a later term.
LEMMA VotePromiseKept ==
    ASSUME IndexInv, IndexInv', ElectionStep, SavingStep, SavedBehind, NEW m \in rpcs, VotePromise(m)
    PROVE  VotePromise(m)'
<1> SUFFICES ASSUME m.kind = "RequestVoteReply", m.granted
             PROVE  \/ persisted'[m.to].term > m.term
                    \/ persisted'[m.to].term = m.term /\ persisted'[m.to].votedFor = m.from
  BY DEF VotePromise
<1> DEFINE i == m.to
<1>1. m.from \in Server /\ i \in Server /\ m.term \in Nat
  BY RpcFields DEF IndexInv, TypeOK
<1>2. /\ m_currentTerm[i] \in Nat /\ persisted[i].term \in Nat
      /\ m_currentTerm'[i] \in Nat /\ m_currentTerm'[i] >= m_currentTerm[i]
      /\ m_currentTerm'[i] = m_currentTerm[i] /\ m_votedFor[i] # Nobody => m_votedFor'[i] = m_votedFor[i]
  BY <1>1, VotesMoveForward DEF IndexInv, TypeOK, VoteTypes, SavedState
<1>3. /\ persisted[i].term <= m_currentTerm[i]
      /\ persisted[i].term = m_currentTerm[i] => persisted[i].votedFor = m_votedFor[i]
  BY <1>1 DEF SavedBehind
<1>4. \/ persisted[i].term > m.term
      \/ persisted[i].term = m.term /\ persisted[i].votedFor = m.from
  BY DEF VotePromise
<1>5. m.from # Nobody
  BY <1>1, NobodyAssumption
<1>6. SavedAfter(i)
  BY <1>1, StepKeepsSavedBehind
<1>7. CASE persisted'[i] = persisted[i]
  BY <1>4, <1>7
<1>8. CASE persisted'[i].term = m_currentTerm'[i] /\ persisted'[i].votedFor = m_votedFor'[i]
  BY <1>1, <1>2, <1>3, <1>4, <1>5, <1>8
<1> QED BY <1>6, <1>7, <1>8 DEF SavedAfter

\* Entries are taken in by the step that saves them.
LEMMA EntriesDelivered ==
    ASSUME IndexInv, IndexInv', ClaimsInv, [Next]_vars, NEW m \in rpcs', m \notin rpcs, Delivered(m)
    PROVE  EntryPromise(m)'
<1>1. PICK r \in rpcs : AppendMatching(r) /\ m = AppendReply(r, r.term, TRUE, 0)
  <2>1. \A i, j, n : ~Delivered(HeartBeatRpc(i, j, n))
    BY DEF HeartBeatRpc, Delivered
  <2>2. NewMessage(m)
    BY MessagesOfStep
  <2>3. ~Plain(m)
    BY DEF Plain, FromLeader
  <2> QED BY <2>1, <2>2, <2>3 DEF NewMessage
<1>2. /\ m.to = r.to /\ m.term = r.term /\ m.match = r.prevLogIndex + Len(r.entries) /\ m.match \in Nat
      /\ m.lastEntryTerm = IF Len(r.entries) = 0 THEN 0 ELSE r.entries[Len(r.entries)].logterm
  BY <1>1, AnswerClaims
<1>3. /\ r.to \in Server /\ r.term \in Nat /\ m_currentTerm'[r.to] = r.term
      /\ PrevInLog(r) /\ r.prevLogIndex \in Nat /\ Len(r.entries) \in Nat
      /\ \A n \in 1..Len(r.entries) : r.entries[n].logindex = r.prevLogIndex + n
  BY <1>1, AppendIsFromElected
<1>4. persisted'[r.to].term = r.term
  BY <1>1, <1>3 DEF AppendMatching, Persist, PersistData, IndexInv, TypeOK
<1>5. CASE Len(r.entries) = 0
  <2>1. m.match <= LastLogIndex(r.to) /\ m.lastEntryTerm = 0
    BY <1>2, <1>3, <1>5 DEF PrevInLog
  <2>2. LastLogIndex(r.to)' >= LastLogIndex(r.to) /\ LastLogIndex(r.to)' \in Nat /\ LastLogIndex(r.to) \in Nat
    BY <1>3, LogSteps, LogGrows
  <2>3. m.match <= LastLogIndex(r.to)'
    BY <1>2, <2>1, <2>2
  <2> QED BY <1>2, <1>3, <1>4, <2>1, <2>3 DEF EntryPromise
<1>6. CASE Len(r.entries) # 0
  <2>1. HasEntry(r.to, m.match, m.lastEntryTerm)'
    <3>1. /\ Len(r.entries) \in 1..Len(r.entries) /\ r.entries[Len(r.entries)].logindex = m.match
          /\ r.entries[Len(r.entries)].logterm = m.lastEntryTerm
      BY <1>2, <1>3, <1>6
    <3> QED BY <1>1, <1>2, <3>1, MergedHasEntry
  <2>2. m.match <= LastLogIndex(r.to)'
    <3>1. LastLogIndex(r.to)' = m_lastSnapshotIncludeIndex'[r.to] + Len(m_logs'[r.to])
          /\ m_lastSnapshotIncludeIndex'[r.to] \in Nat /\ Len(m_logs'[r.to]) \in Nat
      BY <1>3, LogEndAfter
    <3>2. m.match > m_lastSnapshotIncludeIndex'[r.to] => m.match <= LastLogIndex(r.to)'
      BY <2>1 DEF HasEntry
    <3> QED BY <1>2, <3>1, <3>2
  <2> QED BY <1>2, <1>3, <1>4, <2>1, <2>2 DEF EntryPromise
<1> QED BY <1>5, <1>6

\* In the term of its leader, a follower loses nothing it took in.
LEMMA EntryPromiseKept ==
    ASSUME IndexInv, IndexInv', ElectionInv, ClaimsInv, LogStep, ElectionStep, SavingStep, SavedBehind,
           NEW m \in rpcs, EntryPromise(m)
    PROVE  EntryPromise(m)'
<1> SUFFICES ASSUME Delivered(m)
             PROVE  /\ persisted'[m.to].term >= m.term
                    /\ persisted'[m.to].term = m.term =>
                          /\ m.match <= LastLogIndex(m.to)'
                          /\ m.lastEntryTerm # 0 => HasEntry(m.to, m.match, m.lastEntryTerm)'
  BY DEF EntryPromise, Delivered
<1> DEFINE j == m.to
<1>1. /\ j \in Server /\ m.from \in Server /\ m.term \in Nat /\ m.match \in Nat
      /\ FromLeader(m) /\ Elected(m.from, m.term)
  BY ClaimTypes DEF FromLeader, ClaimsInv, WellSent
<1>2. /\ m_currentTerm[j] \in Nat /\ persisted[j].term \in Nat /\ persisted[j].term <= m_currentTerm[j]
      /\ m_currentTerm'[j] \in Nat /\ m_currentTerm'[j] >= m_currentTerm[j]
  BY <1>1, VotesMoveForward DEF IndexInv, TypeOK, VoteTypes, SavedState, SavedBehind
<1>3. persisted[j].term >= m.term
  BY DEF EntryPromise
<1>4. SavedAfter(j)
  BY <1>1, StepKeepsSavedBehind
<1>5. persisted'[j].term >= persisted[j].term
  BY <1>2, <1>4 DEF SavedAfter
<1>6. ASSUME persisted'[m.to].term = m.term
      PROVE  /\ m.match <= LastLogIndex(m.to)'
             /\ m.lastEntryTerm # 0 => HasEntry(m.to, m.match, m.lastEntryTerm)'
  <2>1. persisted[j].term = m.term
    BY <1>1, <1>2, <1>3, <1>5, <1>6
  <2>2. m.match <= LastLogIndex(j) /\ (m.lastEntryTerm # 0 => HasEntry(j, m.match, m.lastEntryTerm))
    BY <2>1 DEF EntryPromise
  <2>3. /\ LastLogIndex(j) \in Nat /\ LastLogIndex(j)' \in Nat /\ LastLogIndex(j)' >= LastLogIndex(j)
        /\ m_lastSnapshotIncludeIndex[j] \in Nat /\ m_lastSnapshotIncludeIndex'[j] \in Nat
        /\ m_lastSnapshotIncludeIndex'[j] >= m_lastSnapshotIncludeIndex[j]
    BY <1>1, LogGrows
  <2>4. m.match <= LastLogIndex(j)'
    BY <1>1, <2>2, <2>3
  <2>5. ASSUME m.lastEntryTerm # 0 PROVE HasEntry(j, m.match, m.lastEntryTerm)'
    <3>1. CASE \A r \in rpcs : AppendMatching(r) => r.to # j
      <4> SUFFICES ASSUME m.match > m_lastSnapshotIncludeIndex'[j]
                   PROVE  m_logs'[j][m.match - m_lastSnapshotIncludeIndex'[j]].logterm = m.lastEntryTerm
        BY <2>4 DEF HasEntry, SlicesIndex
      <4>1. m.match > m_lastSnapshotIncludeIndex[j]
        BY <1>1, <2>3
      <4>2. m_logs[j][SlicesIndex(j, m.match)].logterm = m.lastEntryTerm
        BY <2>2, <2>5, <4>1 DEF HasEntry
      <4>3. m.match \in (m_lastSnapshotIncludeIndex'[j] + 1)..LastLogIndex(j)
        BY <1>1, <2>2, <2>3
      <4> QED BY <1>1, <3>1, <4>1, <4>2, <4>3, OnlyAppendsReplace
    <3>2. ASSUME NEW r \in rpcs, AppendMatching(r), r.to = j
          PROVE  HasEntry(j, m.match, m.lastEntryTerm)'
      <4>1. /\ FromLeader(r) /\ r.kind = "AppendEntries" /\ r.from \in Server /\ Elected(r.from, r.term)
            /\ m_currentTerm'[j] = r.term
        BY <3>2, AppendIsFromElected
      <4>2. persisted'[j].term = m_currentTerm'[j]
        BY <1>1, <3>2 DEF AppendMatching, Persist, PersistData, IndexInv, TypeOK
      <4>3. r.term = m.term /\ r.from = m.from
        BY <1>1, <1>6, <4>1, <4>2, OneElectedPerTerm
      <4>4. ClaimsAgree(m, r)
        BY DEF ClaimsInv
      <4>5. <<m.match, m.lastEntryTerm>> \in Claims(m)
        BY <2>5 DEF Claims, Delivered
      <4>6. \A n \in 1..Len(r.entries) : r.entries[n].logindex = m.match => r.entries[n].logterm = m.lastEntryTerm
        <5> SUFFICES ASSUME NEW n \in 1..Len(r.entries), r.entries[n].logindex = m.match
                     PROVE  r.entries[n].logterm = m.lastEntryTerm
          OBVIOUS
        <5>1. <<r.entries[n].logindex, r.entries[n].logterm>> \in Claims(r)
          BY <4>1 DEF Claims
        <5> QED BY <1>1, <4>1, <4>3, <4>4, <4>5, <5>1 DEF ClaimsAgree
      <4> QED BY <1>1, <2>2, <2>5, <3>2, <4>6, MergedHasEntry
    <3> QED BY <3>1, <3>2
  <2> QED BY <2>4, <2>5
<1>7. persisted'[m.to].term >= m.term
  <2>1. persisted'[j].term \in Nat
    BY <1>2, <1>4 DEF SavedAfter
  <2> QED BY <1>1, <1>2, <1>3, <1>5, <2>1
<1> QED BY <1>6, <1>7

LEMMA StepKeepsPromises ==
    ASSUME IndexInv, IndexInv', ElectionInv, ClaimsInv, [Next]_vars, PromisesInv
    PROVE  PromisesInv'
<1>1. LogStep /\ ElectionStep /\ SavingStep
  BY LogSteps, ElectionSteps, SavingSteps
<1>2. SavedBehind'
  BY <1>1, StepKeepsSavedBehind DEF PromisesInv
<1>3. ASSUME NEW m \in rpcs' PROVE VotePromise(m)' /\ EntryPromise(m)'
  <2>1. CASE m \in rpcs
    BY <1>1, <2>1, VotePromiseKept, EntryPromiseKept DEF PromisesInv
  <2>2. CASE m \notin rpcs
    <3>1. VotePromise(m)'
      <4>1. CASE m.kind = "RequestVoteReply" /\ m.granted
        BY <1>1, <2>2, <4>1, VoteGranted
      <4>2. CASE ~(m.kind = "RequestVoteReply" /\ m.granted)
        BY <4>2 DEF VotePromise
      <4> QED BY <4>1, <4>2
    <3>2. EntryPromise(m)'
      <4>1. CASE Delivered(m)
        BY <2>2, <4>1, EntriesDelivered
      <4>2. CASE ~Delivered(m)
        BY <4>2 DEF EntryPromise, Delivered
      <4> QED BY <4>1, <4>2
    <3> QED BY <3>1, <3>2
  <2> QED BY <2>1, <2>2
<1> QED BY <1>2, <1>3 DEF PromisesInv

\* What a node promises in an answer, a vote or entries it took in, its Persister
\* was handed first: the answer is sent after persist(), and what is saved later
\* in that term keeps it (raft.cpp:328-413, 743-866).  Nothing is said here of
\* when the Persister's stream reaches the disk.
THEOREM PromisesSavedHolds == Spec => []PromisesSaved
<1>1. Init => PromisesInv
  <2> SUFFICES ASSUME Init PROVE PromisesInv
    OBVIOUS
  <2>1. SavedBehind
    BY DEF Init, InitialState, SavedBehind
  <2>2. rpcs = {}
    BY DEF Init
  <2> QED BY <2>1, <2>2 DEF PromisesInv
<1>2. IndexInv /\ PromisesInv => PromisesSaved
  <2> SUFFICES ASSUME IndexInv, PromisesInv, NEW m \in rpcs,
                      m.kind = "AppendEntriesReply", m.success, persisted[m.to].term = m.term
               PROVE  /\ persisted[m.to].snapIndex + Len(persisted[m.to].logs) >= m.match
                      /\ m.match > persisted[m.to].snapIndex /\ m.lastEntryTerm # 0 =>
                            persisted[m.to].logs[m.match - persisted[m.to].snapIndex].logterm = m.lastEntryTerm
    BY DEF PromisesInv, VotePromise, PromisesSaved, KeepsPromise
  <2>1. Delivered(m) /\ FromLeader(m)
    BY DEF Delivered, FromLeader
  <2>2. m.to \in Server /\ m.match \in Nat
    BY <2>1, ClaimTypes
  <2>3. /\ persisted[m.to].logs = m_logs[m.to]
        /\ persisted[m.to].snapIndex = m_lastSnapshotIncludeIndex[m.to]
    BY <2>2 DEF PromisesInv, SavedBehind
  <2>4. /\ m.match <= LastLogIndex(m.to)
        /\ m.lastEntryTerm # 0 => HasEntry(m.to, m.match, m.lastEntryTerm)
    BY <2>1 DEF PromisesInv, EntryPromise
  <2>5. /\ LastLogIndex(m.to) = m_lastSnapshotIncludeIndex[m.to] + Len(m_logs[m.to])
        /\ m_lastSnapshotIncludeIndex[m.to] \in Nat /\ Len(m_logs[m.to]) \in Nat
    BY <2>2, LogShape DEF IndexInv
  <2> QED BY <2>2, <2>3, <2>4, <2>5 DEF HasEntry, SlicesIndex
<1>3. IndexInv /\ IndexInv' /\ ElectionInv /\ ClaimsInv /\ PromisesInv /\ [Next]_vars => PromisesInv'
  BY StepKeepsPromises
<1> QED BY <1>1, <1>2, <1>3, IndexInvariance, ElectionInvariance, ClaimsInvariance, PTL DEF Spec

---------------------------------------------------------------------------
(* A leader commits what a majority holds: why the counter that the threads  *)
(* of a heartbeat round share counts distinct followers, and followers that  *)
(* hold one and the same entry.  First the rounds of a leader.               *)

Appends(m) == m.kind \in {"AppendEntries", "AppendEntriesReply"}

\* The last index a request reaches to, which its answer repeats.
Reach(m) == IF m.kind = "AppendEntries" THEN m.prevLogIndex + Len(m.entries) ELSE m.match

SameRound(m, n) == Appends(m) /\ Appends(n) /\ m.from = n.from /\ m.round = n.round

\* A round asks a follower once, and asks every follower for the same.
RoundsAgree == \A m, n \in rpcs : SameRound(m, n) => (m.to = n.to => m = n) /\ Reach(m) = Reach(n)

\* The counter of a round in the current term has counted followers that are no
\* longer asked, and every one of them has what the round asks for.  (At the
\* majority it forgets them.)
Counted(m) ==
    \E Q \in SUBSET Server :
        /\ Cardinality(Q) = appendNums[m.from][m.round]
        /\ \A n \in rpcs : SameRound(m, n) => n.to \notin Q
        /\ \A j \in Q : Held(m.from, j, Reach(m))

RoundsCounted ==
    \A m \in rpcs :
        FromLeader(m) /\ Running(m.from) /\ m_currentTerm[m.from] = m.term => Counted(m)

\* What the node elected in its own term knows to be committed, a majority has,
\* also when it no longer leads.
CommitHeld ==
    \A i \in Server :
        LET k == m_commitIndex[i]
        IN  /\ Elected(i, m_currentTerm[i])
            /\ k > m_lastSnapshotIncludeIndex[i]
            /\ m_logs[i][SlicesIndex(i, k)].logterm = m_currentTerm[i]
            => \E Q \in SUBSET Server : Majority(Cardinality(Q)) /\ \A j \in Q : Held(i, j, k)

CommitInv == RoundsAgree /\ RoundsCounted /\ CommitHeld

---------------------------------------------------------------------------
(* What a step does to the rounds.                                         *)

\* No request is sent or answered, and the counters in use stay.
RoundsIdle ==
    /\ \A m \in rpcs' : Appends(m) => m \in rpcs
    /\ \A m \in rpcs' : Appends(m) => appendNums'[m.from][m.round] = appendNums[m.from][m.round]

\* A request becomes an answer, which reaches as far.
RoundAnswered(r) ==
    /\ Appends(r) /\ appendNums' = appendNums
    /\ \E a : /\ rpcs' = (rpcs \ {r}) \cup {a}
              /\ a.kind = "AppendEntriesReply" /\ a.from = r.from /\ a.to = r.to /\ a.round = r.round
              /\ Reach(a) = Reach(r)
              /\ FromLeader(a) => FromLeader(r) /\ a.term = r.term

RoundOpened(i) ==
    \E S \in SUBSET (Server \ {i}), k \in Round :
        /\ \A j \in S : SendableIndex(i, j)
        /\ rpcs' = rpcs \cup {HeartBeatRpc(i, j, k) : j \in S}
        /\ FreeRound(i, k)
        /\ \A m \in rpcs : Appends(m) => appendNums'[m.from][m.round] = appendNums[m.from][m.round]
        /\ \/ ~Running(i)'
           \/ \A m \in rpcs' : Appends(m) /\ m.from = i /\ m.round = k => appendNums'[i][k] = 1

RoundStep ==
    \/ RoundsIdle
    \/ \E r \in rpcs : RoundAnswered(r)
    \/ \E i \in Server : RoundOpened(i)
    \/ \E r \in rpcs : AppendAccepted(r)

\* A counter lives as long as a message of its round.
LEMMA CounterLives ==
    ASSUME IndexInv, NEW counters \in [Server -> [Round -> Nat]], NEW R, NEW m \in R, Appends(m),
           m.from \in Server, m.round \in Round
    PROVE  LiveCounters(counters, R)[m.from][m.round] = counters[m.from][m.round]
BY DEF LiveCounters, Appends

LEMMA AppendTypes ==
    ASSUME IndexInv, NEW m \in rpcs, Appends(m)
    PROVE  m.from \in Server /\ m.to \in Server /\ m.round \in Round /\ Reach(m) \in Nat
<1>1. CASE m.kind = "AppendEntries"
  <2>1. m \in AppendEntriesRpc
    BY <1>1, RpcFields DEF IndexInv, TypeOK
  <2>2. m.from \in Server /\ m.to \in Server /\ m.round \in Round /\ m.prevLogIndex \in Nat /\ Len(m.entries) \in Nat
    BY <2>1, LenProperties DEF AppendEntriesRpc
  <2> QED BY <1>1, <2>2 DEF Reach
<1>2. CASE m.kind = "AppendEntriesReply"
  <2>1. m \in AppendEntriesReplyRpc
    BY <1>2, RpcFields DEF IndexInv, TypeOK
  <2> QED BY <1>2, <2>1 DEF AppendEntriesReplyRpc, Reach
<1> QED BY <1>1, <1>2 DEF Appends

LEMMA NodeStepsOfRounds ==
    ASSUME IndexInv, NEW i \in Server, NodeStep(i)
    PROVE  RoundStep
<1>1. CASE DoElection(i)
  <2>1. PICK S \in SUBSET (Server \ {i}) : rpcs' = rpcs \cup {VoteRequest(i, j) : j \in S}
    BY <1>1 DEF DoElection
  <2>2. \A m \in rpcs' : Appends(m) => m \in rpcs
    BY <2>1 DEF VoteRequest, Appends
  <2>3. appendNums' = appendNums
    BY <1>1 DEF DoElection, leaderVars
  <2> QED BY <2>2, <2>3 DEF RoundsIdle, RoundStep
<1>2. CASE DoHeartBeat(i)
  <2>1. PICK S \in SUBSET (Server \ {i}), k \in Round :
            SpawnHeartBeats(i, S, k) /\ appendNums' = LiveCounters([appendNums EXCEPT ![i][k] = 1], rpcs')
    BY <1>2 DEF DoHeartBeat
  <2>2. rpcs' = rpcs \cup {HeartBeatRpc(i, j, k) : j \in S} /\ FreeRound(i, k)
    BY <2>1 DEF SpawnHeartBeats
  <2>3. \A j \in S : SendableIndex(i, j)
    BY <1>2 DEF DoHeartBeat
  <2> DEFINE counters == [appendNums EXCEPT ![i][k] = 1]
  <2>4. counters \in [Server -> [Round -> Nat]] /\ counters[i][k] = 1
    BY DEF IndexInv, TypeOK, LeaderTypes
  <2>5. ASSUME NEW m \in rpcs, Appends(m) PROVE appendNums'[m.from][m.round] = appendNums[m.from][m.round]
    <3>1. m.from \in Server /\ m.round \in Round
      BY <2>5, AppendTypes
    <3>2. ~(m.from = i /\ m.round = k)
      BY <2>2, <2>5 DEF FreeRound, RoundInUse
    <3>3. counters[m.from][m.round] = appendNums[m.from][m.round]
      BY <3>1, <3>2 DEF IndexInv, TypeOK, LeaderTypes
    <3>4. m \in rpcs'
      BY <2>2
    <3> HIDE DEF counters
    <3> QED BY <2>1, <2>4, <2>5, <3>1, <3>3, <3>4, CounterLives DEF counters
  <2>6. ASSUME NEW m \in rpcs', Appends(m), m.from = i, m.round = k PROVE appendNums'[i][k] = 1
    <3> HIDE DEF counters
    <3>1. LiveCounters(counters, rpcs')[m.from][m.round] = counters[m.from][m.round]
      BY <2>4, <2>6, CounterLives
    <3> QED BY <2>1, <2>4, <2>6, <3>1 DEF counters
  <2> QED BY <2>2, <2>3, <2>5, <2>6 DEF RoundOpened, RoundStep
<1>3. CASE HeartBeatExits(i)
  <2>1. PICK S \in SUBSET {j \in Server \ {i} : SendableIndex(i, j)}, k \in Round : SpawnHeartBeats(i, S, k)
    BY <1>3 DEF HeartBeatExits
  <2>2. rpcs' = rpcs \cup {HeartBeatRpc(i, j, k) : j \in S} /\ FreeRound(i, k)
    BY <2>1 DEF SpawnHeartBeats
  <2>3. appendNums' = appendNums /\ ~Running(i)'
    <3>1. exitSite \in [Server -> {"none", "doHeartBeat", "matchLog"}] /\ Exit(i, "doHeartBeat")
      BY <1>3 DEF HeartBeatExits, IndexInv, TypeOK
    <3> QED BY <3>1 DEF Exit, Running, leaderVars
  <2>4. S \in SUBSET (Server \ {i}) /\ \A j \in S : SendableIndex(i, j)
    OBVIOUS
  <2> QED BY <2>2, <2>3, <2>4 DEF RoundOpened, RoundStep
<1>4. CASE ~DoElection(i) /\ ~DoHeartBeat(i) /\ ~HeartBeatExits(i)
  <2>1. rpcs' = rpcs /\ appendNums' = appendNums
    BY <1>4 DEF NodeStep, Start, Apply, Snapshot, leaderVars
  <2> QED BY <2>1 DEF RoundsIdle, RoundStep
<1> QED BY <1>1, <1>2, <1>3, <1>4

LEMMA FinishIsIdle ==
    ASSUME IndexInv, NEW r \in rpcs, FinishAppend(r, appendNums) \/ (Finish(r) /\ appendNums' = appendNums)
    PROVE  RoundsIdle
<1>1. rpcs' = rpcs \ {r}
  BY DEF FinishAppend, Finish
<1>2. ASSUME NEW m \in rpcs', Appends(m) PROVE appendNums'[m.from][m.round] = appendNums[m.from][m.round]
  <2>1. m \in rpcs /\ m.from \in Server /\ m.round \in Round
    BY <1>1, <1>2, AppendTypes
  <2>2. appendNums \in [Server -> [Round -> Nat]]
    BY DEF IndexInv, TypeOK, LeaderTypes
  <2>3. LiveCounters(appendNums, rpcs')[m.from][m.round] = appendNums[m.from][m.round]
    BY <1>2, <2>1, <2>2, CounterLives
  <2>4. appendNums' = LiveCounters(appendNums, rpcs') \/ appendNums' = appendNums
    BY <1>1 DEF FinishAppend
  <2> QED BY <2>3, <2>4
<1> QED BY <1>1, <1>2 DEF RoundsIdle

LEMMA AnswerKeepsReach ==
    ASSUME NEW r, r.kind = "AppendEntries", NEW term, NEW success, NEW hint,
           Answer(r, AppendReply(r, term, success, hint)), appendNums' = appendNums, ~success \/ term = r.term
    PROVE  RoundAnswered(r)
<1> DEFINE a == AppendReply(r, term, success, hint)
<1>1. /\ a.kind = "AppendEntriesReply" /\ a.from = r.from /\ a.to = r.to /\ a.round = r.round
      /\ a.match = r.prevLogIndex + Len(r.entries) /\ a.term = term /\ a.success = success
  BY DEF AppendReply
<1>2. Reach(a) = Reach(r) /\ Appends(r)
  BY <1>1 DEF Reach, Appends
<1>3. FromLeader(a) => FromLeader(r) /\ a.term = r.term
  BY <1>1 DEF FromLeader, Delivered
<1>4. rpcs' = (rpcs \ {r}) \cup {a}
  BY DEF Answer
<1> HIDE DEF a
<1> QED BY <1>1, <1>2, <1>3, <1>4 DEF RoundAnswered

LEMMA RpcStepsOfRounds ==
    ASSUME IndexInv, NEW r \in rpcs, VoteStep(r) \/ AppendStep(r) \/ SnapshotStep(r) \/ RpcFails(r)
    PROVE  RoundStep
<1>1. CASE VoteStep(r)
  <2>1. appendNums' = appendNums
    BY <1>1 DEF VoteStep, HandleRequestVote, VoteReplyStepsDown, VoteReplyIgnored, CountVote, BecomeLeader, leaderVars
  <2>2. \A m \in rpcs' : Appends(m) => m \in rpcs
    <3>1. CASE HandleRequestVote(r)
      <4>1. PICK term, granted : Answer(r, VoteReply(r, term, granted))
        BY <3>1 DEF HandleRequestVote
      <4> QED BY <4>1 DEF Answer, VoteReply, Appends
    <3>2. CASE ~HandleRequestVote(r)
      BY <1>1, <3>2 DEF VoteStep, VoteReplyStepsDown, VoteReplyIgnored, CountVote, BecomeLeader, Finish
    <3> QED BY <3>1, <3>2
  <2> QED BY <2>1, <2>2 DEF RoundsIdle, RoundStep
<1>2. CASE AppendStep(r)
  <2>1. CASE RejectStaleLeader(r) \/ RejectGap(r) \/ RejectMismatch(r)
    <3>1. PICK term, hint : Answer(r, AppendReply(r, term, FALSE, hint))
      BY <2>1 DEF RejectStaleLeader, RejectGap, RejectMismatch
    <3>2. r.kind = "AppendEntries" /\ appendNums' = appendNums
      BY <2>1 DEF RejectStaleLeader, RejectGap, RejectMismatch, PrevInLog, FromCurrentLeader, Request, leaderVars
    <3> QED BY <3>1, <3>2, AnswerKeepsReach DEF RoundStep
  <2>2. CASE AppendMatching(r)
    <3>1. r.kind = "AppendEntries" /\ appendNums' = appendNums /\ Answer(r, AppendReply(r, r.term, TRUE, 0))
      BY <2>2 DEF AppendMatching, PrevInLog, FromCurrentLeader, Request, leaderVars
    <3> QED BY <3>1, AnswerKeepsReach DEF RoundStep
  <2>3. CASE AppendAccepted(r)
    BY <2>3 DEF RoundStep
  <2>4. CASE ~(RejectStaleLeader(r) \/ RejectGap(r) \/ RejectMismatch(r) \/ AppendMatching(r) \/ AppendAccepted(r))
    <3>1. FinishAppend(r, appendNums) \/ (Finish(r) /\ appendNums' = appendNums)
      BY <1>2, <2>4 DEF AppendStep, PrevInSnapshotExits, Exit, AppendReplyStepsDown, AppendReplyIgnored,
                        AppendRejected, leaderVars
    <3> QED BY <3>1, FinishIsIdle DEF RoundStep
  <2> QED BY <2>1, <2>2, <2>3, <2>4
<1>3. CASE SnapshotStep(r)
  <2>1. appendNums' = appendNums
    BY <1>3 DEF SnapshotStep, LeaderSendSnapShot, RejectStaleSnapshotSender, IgnoreOldSnapshot, InstallSnapshot,
                SnapshotReplyIgnored, SnapshotReplyStepsDown, SnapshotAccepted, PeerCloses, leaderVars
  <2>2. \A m \in rpcs' : Appends(m) => m \in rpcs
    <3>1. CASE RejectStaleSnapshotSender(r) \/ IgnoreOldSnapshot(r) \/ InstallSnapshot(r)
      <4>1. PICK term : Answer(r, SnapshotReply(r, term))
        BY <3>1 DEF RejectStaleSnapshotSender, IgnoreOldSnapshot, InstallSnapshot
      <4> QED BY <4>1 DEF Answer, SnapshotReply, Appends
    <3>2. CASE LeaderSendSnapShot(r)
      BY <3>2 DEF LeaderSendSnapShot, Answer, Appends
    <3>3. CASE SnapshotReplyIgnored(r) \/ SnapshotReplyStepsDown(r) \/ SnapshotAccepted(r)
      BY <3>3 DEF SnapshotReplyIgnored, SnapshotReplyStepsDown, SnapshotAccepted, Finish
    <3>4. CASE PeerCloses(r)
      BY <3>4 DEF PeerCloses, Answer, EmptyReply, Appends
    <3> QED BY <1>3, <3>1, <3>2, <3>3, <3>4 DEF SnapshotStep
  <2> QED BY <2>1, <2>2 DEF RoundsIdle, RoundStep
<1>4. CASE RpcFails(r)
  BY <1>4, FinishIsIdle DEF RpcFails, RoundStep
<1> QED BY <1>1, <1>2, <1>3, <1>4

LEMMA RoundSteps == IndexInv /\ [Next]_vars => RoundStep
<1> SUFFICES ASSUME IndexInv, [Next]_vars PROVE RoundStep
  OBVIOUS
<1>1. CASE UNCHANGED vars
  BY <1>1 DEF vars, leaderVars, RoundsIdle, RoundStep
<1> QED BY <1>1, NodeStepsOfRounds, RpcStepsOfRounds DEF Next

\* Nobody whose process has ended runs again.
LEMMA StaysEnded ==
    ASSUME IndexInv, [Next]_vars, NEW i \in Server, Running(i)'
    PROVE  Running(i)
<1>0. exitSite \in [Server -> {"none", "doHeartBeat", "matchLog"}]
  BY DEF IndexInv, TypeOK
<1>1. ASSUME NEW j, NEW site, Exit(j, site), site # "none" PROVE Running(i)
  BY <1>0, <1>1 DEF Exit, Running
<1>2. CASE exitSite' = exitSite
  BY <1>2 DEF Running
<1>3. ASSUME NEW j \in Server, NodeStep(j) PROVE Running(i)
  <2>1. exitSite' = exitSite \/ Exit(j, "doHeartBeat")
    BY <1>3 DEF NodeStep, DoElection, DoHeartBeat, HeartBeatExits, Start, Apply, Snapshot
  <2> QED BY <1>1, <1>2, <2>1
<1>4. ASSUME NEW r \in rpcs, VoteStep(r) PROVE Running(i)
  BY <1>2, <1>4 DEF VoteStep, HandleRequestVote, VoteReplyStepsDown, VoteReplyIgnored, CountVote, BecomeLeader
<1>5. ASSUME NEW r \in rpcs, AppendStep(r) PROVE Running(i)
  <2>1. exitSite' = exitSite \/ Exit(r.to, "matchLog")
    BY <1>5 DEF AppendStep, RejectStaleLeader, RejectGap, PrevInSnapshotExits, AppendMatching, RejectMismatch,
                AppendReplyStepsDown, AppendReplyIgnored, AppendRejected, AppendAccepted
  <2> QED BY <1>1, <1>2, <2>1
<1>6. ASSUME NEW r \in rpcs, SnapshotStep(r) PROVE Running(i)
  BY <1>2, <1>6 DEF SnapshotStep, LeaderSendSnapShot, RejectStaleSnapshotSender, IgnoreOldSnapshot, InstallSnapshot,
                    SnapshotReplyIgnored, SnapshotReplyStepsDown, SnapshotAccepted, PeerCloses
<1>7. ASSUME NEW r \in rpcs, RpcFails(r) PROVE Running(i)
  BY <1>2, <1>7 DEF RpcFails
<1>8. CASE UNCHANGED vars
  BY <1>2, <1>8 DEF vars
<1> QED BY <1>3, <1>4, <1>5, <1>6, <1>7, <1>8 DEF Next

---------------------------------------------------------------------------
(* A round asks each follower once, and all of them for the same.          *)

\* A heartbeat reaches to the end of its sender's log, whoever it is for.
LEMMA HeartBeatReach ==
    ASSUME IndexInv, NEW i \in Server, NEW j \in Server, NEW n \in Round, SendableIndex(i, j),
           NEW m, m = HeartBeatRpc(i, j, n), Appends(m)
    PROVE  m.kind = "AppendEntries" /\ m.from = i /\ m.to = j /\ m.round = n /\ Reach(m) = LastLogIndex(i)
<1>1. m.kind = "AppendEntries" /\ m.from = i /\ m.to = j /\ m.round = n
  BY DEF HeartBeatRpc, Appends
<1> DEFINE prev == m_nextIndex[i][j] - 1
<1>2. ~(m_nextIndex[i][j] <= m_lastSnapshotIncludeIndex[i])
  BY <1>1 DEF HeartBeatRpc
<1>3. m_nextIndex[i][j] \in Nat /\ m_lastSnapshotIncludeIndex[i] \in Nat /\ LastLogIndex(i) \in Nat
  BY LogShape DEF IndexInv, TypeOK, LeaderTypes
<1>4. prev \in Nat /\ prev >= m_lastSnapshotIncludeIndex[i] /\ prev <= LastLogIndex(i)
  BY <1>2, <1>3 DEF SendableIndex
<1>5. m.prevLogIndex = prev /\ m.entries = LogAfter(i, prev)
  BY <1>2 DEF HeartBeatRpc, LogAfter
<1> HIDE DEF prev
<1>6. Len(LogAfter(i, prev)) = LastLogIndex(i) - prev
  BY <1>4, SuffixKept
<1>7. Reach(m) = prev + (LastLogIndex(i) - prev)
  BY <1>1, <1>5, <1>6 DEF Reach
<1> QED BY <1>1, <1>3, <1>4, <1>7

LEMMA StepKeepsRounds ==
    ASSUME IndexInv, RoundStep, RoundsAgree
    PROVE  RoundsAgree'
<1> SUFFICES ASSUME NEW m \in rpcs', NEW n \in rpcs', SameRound(m, n)
             PROVE  (m.to = n.to => m = n) /\ Reach(m) = Reach(n)
  BY DEF RoundsAgree, SameRound, Appends, Reach
<1>0. \A p, q \in rpcs : SameRound(p, q) => (p.to = q.to => p = q) /\ Reach(p) = Reach(q)
  BY DEF RoundsAgree
<1>1. CASE RoundsIdle
  BY <1>0, <1>1 DEF RoundsIdle, SameRound
<1>2. ASSUME NEW r \in rpcs, RoundAnswered(r)
      PROVE  (m.to = n.to => m = n) /\ Reach(m) = Reach(n)
  <2>1. PICK a : /\ rpcs' = (rpcs \ {r}) \cup {a}
                 /\ a.kind = "AppendEntriesReply" /\ a.from = r.from /\ a.to = r.to /\ a.round = r.round
                 /\ Reach(a) = Reach(r)
                 /\ FromLeader(a) => FromLeader(r) /\ a.term = r.term
    BY <1>2 DEF RoundAnswered
  <2>2. Appends(r)
    BY <1>2 DEF RoundAnswered
  <2>3. CASE m # a /\ n # a
    BY <1>0, <2>1, <2>3
  <2>4. CASE m = a /\ n = a
    BY <2>4
  <2>5. CASE m = a /\ n # a
    <3>1. SameRound(r, n) /\ n \in rpcs /\ n # r
      BY <2>1, <2>2, <2>5 DEF SameRound
    <3> QED BY <1>0, <2>1, <2>5, <3>1
  <2>6. CASE m # a /\ n = a
    <3>1. SameRound(m, r) /\ m \in rpcs /\ m # r
      BY <2>1, <2>2, <2>6 DEF SameRound
    <3> QED BY <1>0, <2>1, <2>6, <3>1
  <2> QED BY <2>3, <2>4, <2>5, <2>6
<1>3. ASSUME NEW i \in Server, RoundOpened(i)
      PROVE  (m.to = n.to => m = n) /\ Reach(m) = Reach(n)
  <2>1. PICK S \in SUBSET (Server \ {i}), k \in Round :
            /\ \A j \in S : SendableIndex(i, j)
            /\ rpcs' = rpcs \cup {HeartBeatRpc(i, j, k) : j \in S}
            /\ FreeRound(i, k)
    BY <1>3 DEF RoundOpened
  <2>2. \A q \in rpcs : ~(q.from = i /\ q.round = k)
    BY <2>1 DEF FreeRound, RoundInUse
  <2>3. ASSUME NEW q \in rpcs', q \notin rpcs, Appends(q)
        PROVE  /\ q.from = i /\ q.round = k /\ Reach(q) = LastLogIndex(i)
               /\ q.to \in S /\ q = HeartBeatRpc(i, q.to, k)
    <3>1. PICK j \in S : q = HeartBeatRpc(i, j, k)
      BY <2>1, <2>3
    <3>2. j \in Server /\ SendableIndex(i, j)
      BY <2>1
    <3>3. q.from = i /\ q.to = j /\ q.round = k /\ Reach(q) = LastLogIndex(i)
      BY <2>3, <3>1, <3>2, HeartBeatReach
    <3> QED BY <3>1, <3>3
  <2>4. CASE m \in rpcs /\ n \in rpcs
    BY <1>0, <2>4
  <2>5. CASE m \notin rpcs /\ n \notin rpcs
    BY <2>3, <2>5 DEF SameRound
  <2>6. CASE ~(m \in rpcs <=> n \in rpcs)
    BY <2>2, <2>3, <2>6 DEF SameRound
  <2> QED BY <2>4, <2>5, <2>6
<1>4. ASSUME NEW r \in rpcs, AppendAccepted(r)
      PROVE  (m.to = n.to => m = n) /\ Reach(m) = Reach(n)
  BY <1>0, <1>4 DEF AppendAccepted, FinishAppend, Finish
<1> QED BY <1>1, <1>2, <1>3, <1>4 DEF RoundStep

---------------------------------------------------------------------------
(* What the counter of a round counts.                                     *)

\* An entry a leader sent before in its term, its own log still reaches.
LEMMA InTermBefore ==
    ASSUME IndexInv, ClaimsInv, ElectionStep, NEW m \in rpcs, FromLeader(m), m_currentTerm'[m.from] = m.term
    PROVE  /\ m.from \in Server /\ Appends(m) /\ Elected(m.from, m_currentTerm[m.from])
           /\ m_currentTerm[m.from] = m.term
<1>1. m.from \in Server /\ m.term \in Nat /\ Elected(m.from, m.term) /\ m.term <= m_currentTerm[m.from]
  BY ClaimTypes DEF ClaimsInv, WellSent
<1>2. m_currentTerm[m.from] \in Nat /\ m_currentTerm'[m.from] >= m_currentTerm[m.from]
  BY <1>1, VotesMoveForward DEF IndexInv, TypeOK, VoteTypes
<1>3. m_currentTerm[m.from] = m.term
  BY <1>1, <1>2
<1> QED BY <1>1, <1>3 DEF FromLeader, Delivered, Appends

\* The counted followers of a message that stays, one more when the step counts one.
LEMMA CountGoesOn ==
    ASSUME IndexInv, IndexInv', ElectionInv, ClaimsInv, EntryInv, AnswersHold, [Next]_vars, RoundsAgree, RoundsCounted,
           NEW m \in rpcs, m \in rpcs', FromLeader(m), Running(m.from)', m_currentTerm'[m.from] = m.term
    PROVE  \E Q \in SUBSET Server :
                /\ Cardinality(Q) = appendNums'[m.from][m.round]
                /\ \A n \in rpcs' : SameRound(m, n) => n.to \notin Q
                /\ \A j \in Q : Held(m.from, j, Reach(m))'
<1>0. LogStep /\ ElectionStep /\ RoundStep
  BY LogSteps, ElectionSteps, RoundSteps
<1>1. /\ m.from \in Server /\ Appends(m) /\ Elected(m.from, m_currentTerm[m.from])
      /\ m_currentTerm[m.from] = m.term /\ m_currentTerm'[m.from] = m_currentTerm[m.from]
  BY <1>0, InTermBefore
<1>2. Running(m.from)
  BY <1>1, StaysEnded
<1>3. PICK Q \in SUBSET Server :
          /\ Cardinality(Q) = appendNums[m.from][m.round]
          /\ \A n \in rpcs : SameRound(m, n) => n.to \notin Q
          /\ \A j \in Q : Held(m.from, j, Reach(m))
  BY <1>1, <1>2 DEF RoundsCounted, Counted
<1>4. m.round \in Round /\ Reach(m) \in Nat
  BY <1>1, AppendTypes
<1>5. PICK k \in Nat : k = Reach(m)
  BY <1>4
<1>6. \A j \in Server : Held(m.from, j, k) => Held(m.from, j, k)'
  BY <1>0, <1>1, HeldKept
<1>7. Reach(m)' = k
  BY <1>5 DEF Reach
<1>8. ASSUME NEW j \in Server, Held(m.from, j, k) PROVE Held(m.from, j, Reach(m))'
  BY <1>6, <1>7, <1>8 DEF Held, StillHolds, SlicesIndex
<1>9. \A j \in Q : Held(m.from, j, Reach(m))'
  BY <1>3, <1>5, <1>8
<1>10. ASSUME appendNums'[m.from][m.round] = appendNums[m.from][m.round],
              \A n \in rpcs' : SameRound(m, n) => n.to \notin Q
       PROVE  \E R \in SUBSET Server :
                /\ Cardinality(R) = appendNums'[m.from][m.round]
                /\ \A n \in rpcs' : SameRound(m, n) => n.to \notin R
                /\ \A j \in R : Held(m.from, j, Reach(m))'
  BY <1>3, <1>9, <1>10
<1>11. CASE RoundsIdle
  <2>1. \A n \in rpcs' : SameRound(m, n) => n.to \notin Q
    BY <1>3, <1>11 DEF RoundsIdle, SameRound
  <2> QED BY <1>1, <1>10, <1>11, <2>1 DEF RoundsIdle
<1>12. ASSUME NEW r \in rpcs, RoundAnswered(r)
       PROVE  \E R \in SUBSET Server :
                /\ Cardinality(R) = appendNums'[m.from][m.round]
                /\ \A n \in rpcs' : SameRound(m, n) => n.to \notin R
                /\ \A j \in R : Held(m.from, j, Reach(m))'
  <2>1. PICK a : /\ rpcs' = (rpcs \ {r}) \cup {a}
                 /\ a.kind = "AppendEntriesReply" /\ a.from = r.from /\ a.to = r.to /\ a.round = r.round
                 /\ Reach(a) = Reach(r)
                 /\ FromLeader(a) => FromLeader(r) /\ a.term = r.term
    BY <1>12 DEF RoundAnswered
  <2>2. SameRound(m, a) => SameRound(m, r)
    BY <1>12, <2>1 DEF SameRound, RoundAnswered
  <2>3. \A n \in rpcs' : SameRound(m, n) => n.to \notin Q
    BY <1>3, <2>1, <2>2
  <2> QED BY <1>10, <1>12, <2>3 DEF RoundAnswered
<1>13. ASSUME NEW i \in Server, RoundOpened(i)
       PROVE  \E R \in SUBSET Server :
                /\ Cardinality(R) = appendNums'[m.from][m.round]
                /\ \A n \in rpcs' : SameRound(m, n) => n.to \notin R
                /\ \A j \in R : Held(m.from, j, Reach(m))'
  <2>1. PICK S \in SUBSET (Server \ {i}), q \in Round :
            /\ rpcs' = rpcs \cup {HeartBeatRpc(i, j, q) : j \in S}
            /\ FreeRound(i, q)
            /\ \A n \in rpcs : Appends(n) => appendNums'[n.from][n.round] = appendNums[n.from][n.round]
    BY <1>13 DEF RoundOpened
  <2>2. ~(m.from = i /\ m.round = q)
    BY <2>1 DEF FreeRound, RoundInUse
  <2>3. \A j \in S : HeartBeatRpc(i, j, q).from = i /\ HeartBeatRpc(i, j, q).round = q
    BY DEF HeartBeatRpc
  <2>4. \A n \in rpcs' : SameRound(m, n) => n.to \notin Q
    BY <1>3, <2>1, <2>2, <2>3 DEF SameRound
  <2> QED BY <1>1, <1>10, <2>1, <2>4
<1>14. ASSUME NEW r \in rpcs, AppendAccepted(r)
       PROVE  \E R \in SUBSET Server :
                /\ Cardinality(R) = appendNums'[m.from][m.round]
                /\ \A n \in rpcs' : SameRound(m, n) => n.to \notin R
                /\ \A j \in R : Held(m.from, j, Reach(m))'
  <2> DEFINE acks == appendNums[r.from][r.round] + 1
             counters == [appendNums EXCEPT ![r.from][r.round] = CounterAfter(acks)]
  <2>1. /\ rpcs' = rpcs \ {r} /\ appendNums' = LiveCounters(counters, rpcs')
        /\ Delivered(r) /\ r.term = m_currentTerm[r.from]
    BY <1>14 DEF AppendAccepted, FinishAppend, Finish, ToCurrentLeader, Reply, Delivered
  <2>2. Appends(r) /\ FromLeader(r)
    BY <2>1 DEF Delivered, Appends, FromLeader
  <2>3. r.from \in Server /\ r.to \in Server /\ r.round \in Round
    BY <2>2, AppendTypes
  <2>4. appendNums \in [Server -> [Round -> Nat]] /\ acks \in Nat /\ CounterAfter(acks) \in Nat
    BY <2>3 DEF IndexInv, TypeOK, LeaderTypes, CounterAfter
  <2>5. counters \in [Server -> [Round -> Nat]]
    BY <2>3, <2>4
  <2>6. appendNums'[m.from][m.round] = counters[m.from][m.round]
    <3> HIDE DEF counters
    <3> QED BY <1>1, <1>4, <2>1, <2>5, CounterLives
  <2>7. CASE ~SameRound(m, r)
    <3>1. counters[m.from][m.round] = appendNums[m.from][m.round]
      BY <1>1, <1>4, <2>2, <2>3, <2>4, <2>7 DEF SameRound
    <3>2. \A n \in rpcs' : SameRound(m, n) => n.to \notin Q
      BY <1>3, <2>1
    <3> QED BY <1>10, <2>6, <3>1, <3>2
  <2>8. CASE SameRound(m, r)
    <3>1. counters[m.from][m.round] = CounterAfter(acks) /\ m.from = r.from /\ m.round = r.round
      BY <2>3, <2>4, <2>8 DEF SameRound
    <3>2. CASE Majority(acks)
      <4>1. appendNums'[m.from][m.round] = 0
        BY <2>6, <3>1, <3>2 DEF CounterAfter
      <4>2. Cardinality({}) = 0
        BY FS_EmptySet
      <4> QED BY <4>1, <4>2
    <3>3. CASE ~Majority(acks)
      <4> DEFINE R == Q \cup {r.to}
      <4>1. appendNums'[m.from][m.round] = appendNums[m.from][m.round] + 1
        BY <2>6, <3>1, <3>3 DEF CounterAfter
      <4>2. r.to \notin Q
        BY <1>3, <2>8
      <4>3. Cardinality(R) = Cardinality(Q) + 1
        BY <4>2, ServerAssumption, FS_Subset, FS_AddElement
      <4>4. \A n \in rpcs' : SameRound(m, n) => n.to \notin R
        <5>1. ASSUME NEW n \in rpcs', SameRound(m, n) PROVE n \in rpcs /\ n.to # r.to
          <6>1. n \in rpcs /\ n # r /\ SameRound(n, r)
            BY <2>1, <2>8, <5>1 DEF SameRound
          <6> QED BY <6>1 DEF RoundsAgree
        <5> QED BY <1>3, <5>1
      <4>5. Held(m.from, r.to, k)
        <5>1. Held(r.from, r.to, r.match)
          BY <2>1 DEF AnswersHold
        <5>2. Reach(r) = r.match /\ Reach(m) = Reach(r)
          BY <2>1, <2>8 DEF Delivered, Reach, RoundsAgree
        <5> QED BY <1>5, <3>1, <5>1, <5>2
      <4>6. \A j \in R : Held(m.from, j, Reach(m))'
        BY <1>8, <1>9, <2>3, <4>5
      <4>7. R \in SUBSET Server
        BY <2>3
      <4>8. Cardinality(R) = appendNums'[m.from][m.round]
        BY <1>3, <4>1, <4>3
      <4> HIDE DEF R
      <4> QED BY <4>4, <4>6, <4>7, <4>8
    <3> QED BY <3>2, <3>3
  <2> QED BY <2>7, <2>8
<1> QED BY <1>0, <1>11, <1>12, <1>13, <1>14 DEF RoundStep

\* A round that starts has counted the leader, which holds its own log.
LEMMA CountStarts ==
    ASSUME IndexInv, IndexInv', NEW i \in Server, RoundOpened(i), Running(i)',
           NEW m \in rpcs', m \notin rpcs, FromLeader(m)
    PROVE  \E Q \in SUBSET Server :
                /\ Cardinality(Q) = appendNums'[m.from][m.round]
                /\ \A n \in rpcs' : SameRound(m, n) => n.to \notin Q
                /\ \A j \in Q : Held(m.from, j, Reach(m))'
<1>1. PICK S \in SUBSET (Server \ {i}), k \in Round :
          /\ \A j \in S : SendableIndex(i, j)
          /\ rpcs' = rpcs \cup {HeartBeatRpc(i, j, k) : j \in S}
          /\ FreeRound(i, k)
          /\ \A n \in rpcs' : Appends(n) /\ n.from = i /\ n.round = k => appendNums'[i][k] = 1
  BY DEF RoundOpened
<1>2. ASSUME NEW n \in rpcs', n \notin rpcs, Appends(n)
      PROVE  n.kind = "AppendEntries" /\ n.from = i /\ n.to # i /\ n.round = k
  <2>1. PICK j \in S : n = HeartBeatRpc(i, j, k)
    BY <1>1, <1>2
  <2>2. j \in Server /\ j # i /\ SendableIndex(i, j)
    BY <1>1
  <2> QED BY <1>2, <2>1, <2>2, HeartBeatReach
<1>3. Appends(m)
  BY DEF FromLeader, Delivered, Appends
<1>4. m.kind = "AppendEntries" /\ m.from = i /\ m.round = k
  BY <1>2, <1>3
<1>5. Cardinality({i}) = appendNums'[m.from][m.round]
  BY <1>1, <1>3, <1>4, FS_Singleton
<1>6. \A n \in rpcs' : SameRound(m, n) => n.to \notin {i}
  <2>1. ASSUME NEW n \in rpcs, SameRound(m, n) PROVE FALSE
    BY <1>1, <1>4, <2>1 DEF SameRound, FreeRound, RoundInUse
  <2> QED BY <1>2, <2>1 DEF SameRound
<1>7. Held(i, i, Reach(m))'
  <2>1. Reach(m) <= LastLogIndex(i)'
    BY <1>4 DEF IndexInv, RequestsWithinLog, WithinSendersLog, Reach
  <2>2. Reach(m) \in Nat /\ LastLogIndex(i)' \in Nat
    <3>1. m \in AppendEntriesRpc
      BY <1>4, RpcFields DEF IndexInv, TypeOK
    <3>2. m.prevLogIndex \in Nat /\ Len(m.entries) \in Nat
      BY <3>1, LenProperties DEF AppendEntriesRpc
    <3> QED BY <1>4, <3>2, LogEndAfter DEF Reach
  <2>3. m_currentTerm'[i] \in Nat
    BY DEF IndexInv, TypeOK, VoteTypes
  <2>4. PICK reach : reach = Reach(m) /\ reach = Reach(m)'
    BY DEF Reach
  <2> QED BY <2>1, <2>2, <2>3, <2>4 DEF Held, StillHolds
<1> QED BY <1>4, <1>5, <1>6, <1>7

LEMMA StepKeepsCounts ==
    ASSUME IndexInv, IndexInv', ElectionInv, ClaimsInv, EntryInv, AnswersHold, [Next]_vars, RoundsAgree, RoundsCounted
    PROVE  RoundsCounted'
<1> SUFFICES ASSUME NEW m \in rpcs', FromLeader(m), Running(m.from)', m_currentTerm'[m.from] = m.term
             PROVE  \E Q \in SUBSET Server :
                        /\ Cardinality(Q) = appendNums'[m.from][m.round]
                        /\ \A n \in rpcs' : SameRound(m, n) => n.to \notin Q
                        /\ \A j \in Q : Held(m.from, j, Reach(m))'
  BY DEF RoundsCounted, Counted, FromLeader, Delivered, SameRound, Appends
<1>0. LogStep /\ ElectionStep /\ RoundStep
  BY LogSteps, ElectionSteps, RoundSteps
<1>1. CASE m \in rpcs
  BY <1>1, CountGoesOn
<1>2. CASE m \notin rpcs
  <2>0. Appends(m)
    BY DEF FromLeader, Delivered, Appends
  <2>1. CASE RoundsIdle \/ \E r \in rpcs : AppendAccepted(r)
    BY <1>2, <2>0, <2>1 DEF RoundsIdle, AppendAccepted, FinishAppend, Finish
  <2>2. ASSUME NEW r \in rpcs, RoundAnswered(r)
        PROVE  \E Q \in SUBSET Server :
                  /\ Cardinality(Q) = appendNums'[m.from][m.round]
                  /\ \A n \in rpcs' : SameRound(m, n) => n.to \notin Q
                  /\ \A j \in Q : Held(m.from, j, Reach(m))'
    <3>1. PICK a : /\ rpcs' = (rpcs \ {r}) \cup {a}
                   /\ a.kind = "AppendEntriesReply" /\ a.from = r.from /\ a.to = r.to /\ a.round = r.round
                   /\ Reach(a) = Reach(r)
                   /\ FromLeader(a) => FromLeader(r) /\ a.term = r.term
      BY <2>2 DEF RoundAnswered
    <3>2. m = a /\ FromLeader(r) /\ m.from = r.from /\ m.round = r.round /\ m.term = r.term /\ Reach(m) = Reach(r)
      BY <1>2, <3>1
    <3>3. /\ m.from \in Server /\ Appends(r) /\ Elected(m.from, m_currentTerm[m.from])
          /\ m_currentTerm[m.from] = m.term /\ m_currentTerm'[m.from] = m_currentTerm[m.from]
      BY <1>0, <3>2, InTermBefore
    <3>4. Running(m.from)
      BY <3>3, StaysEnded
    <3>5. PICK Q \in SUBSET Server :
              /\ Cardinality(Q) = appendNums[r.from][r.round]
              /\ \A n \in rpcs : SameRound(r, n) => n.to \notin Q
              /\ \A j \in Q : Held(r.from, j, Reach(r))
      BY <3>2, <3>3, <3>4 DEF RoundsCounted, Counted
    <3>6. PICK k \in Nat : k = Reach(r)
      BY <3>3, AppendTypes
    <3>7. \A j \in Server : Held(m.from, j, k) => Held(m.from, j, k)'
      BY <1>0, <3>3, HeldKept
    <3>8. Reach(m)' = k
      BY <3>2, <3>6 DEF Reach
    <3>9. \A j \in Q : Held(m.from, j, Reach(m))'
      BY <3>2, <3>5, <3>6, <3>7, <3>8 DEF Held, StillHolds, SlicesIndex
    <3>10. \A n \in rpcs' : SameRound(m, n) => n.to \notin Q
      <4>1. ASSUME NEW n \in rpcs, SameRound(m, n) PROVE n.to \notin Q
        BY <3>2, <3>3, <3>5, <4>1 DEF SameRound
      <4>2. m.to \notin Q
        BY <3>1, <3>2, <3>3, <3>5 DEF SameRound
      <4> QED BY <3>1, <3>2, <4>1, <4>2
    <3>11. appendNums' = appendNums
      BY <2>2 DEF RoundAnswered
    <3> QED BY <3>2, <3>5, <3>9, <3>10, <3>11
  <2>3. ASSUME NEW i \in Server, RoundOpened(i)
        PROVE  \E Q \in SUBSET Server :
                  /\ Cardinality(Q) = appendNums'[m.from][m.round]
                  /\ \A n \in rpcs' : SameRound(m, n) => n.to \notin Q
                  /\ \A j \in Q : Held(m.from, j, Reach(m))'
    <3>1. m.from = i
      <4>1. PICK S \in SUBSET (Server \ {i}), k \in Round : rpcs' = rpcs \cup {HeartBeatRpc(i, j, k) : j \in S}
        BY <2>3 DEF RoundOpened
      <4> QED BY <1>2, <4>1 DEF HeartBeatRpc
    <3> QED BY <1>2, <2>3, <3>1, CountStarts
  <2> QED BY <1>0, <2>1, <2>2, <2>3 DEF RoundStep
<1> QED BY <1>1, <1>2
---------------------------------------------------------------------------
(* What commit indices stand for.                                          *)

LEMMA OneElectedAfter ==
    ASSUME ElectionInv', NEW i \in Server, NEW j \in Server, NEW term, Elected(i, term)', Elected(j, term)'
    PROVE  i = j
<1>1. PICK Q \in SUBSET Server : Majority(Cardinality(Q)) /\ \A v \in Q : <<v, term, i>> \in votes'
  BY DEF Elected, Majority
<1>2. PICK R \in SUBSET Server : Majority(Cardinality(R)) /\ \A v \in R : <<v, term, j>> \in votes'
  BY DEF Elected, Majority
<1>3. Cardinality(Q) + Cardinality(R) > Cardinality(Server)
  <2>1. Cardinality(Q) \in Nat /\ Cardinality(R) \in Nat
    BY SubsetOfServers
  <2> DEFINE q == (Cardinality(Server) \div 2) + 1
  <2>2. Cardinality(Q) >= q /\ Cardinality(R) >= q
    BY <1>1, <1>2 DEF Majority
  <2>3. q \in Nat /\ 2 * q > Cardinality(Server) /\ Cardinality(Server) \in Nat
    BY QuorumIsMajority
  <2> HIDE DEF q
  <2> QED BY <2>1, <2>2, <2>3
<1>4. PICK p : p \in Q /\ p \in R
  BY <1>3, ServerAssumption, FS_MajoritiesIntersect
<1>5. \A v, w \in votes' : v[1] = w[1] /\ v[2] = w[2] => v[3] = w[3]
  BY DEF ElectionInv, OneVotePerTerm
<1> QED BY <1>1, <1>2, <1>4, <1>5

\* Whoever is elected in a term has stood in it.
LEMMA ElectedHasCampaigned ==
    ASSUME ElectionInv, NEW i \in Server, NEW term, Elected(i, term)
    PROVE  term <= m_currentTerm[i]
<1>1. PICK Q \in SUBSET Server : Majority(Cardinality(Q)) /\ \A v \in Q : <<v, term, i>> \in votes
  BY DEF Elected
<1>2. Q # {}
  <2>1. Cardinality({}) = 0
    BY FS_EmptySet
  <2> DEFINE q == (Cardinality(Server) \div 2) + 1
  <2>2. q \in Nat /\ 2 * q > Cardinality(Server) /\ Cardinality(Server) \in Nat
    BY QuorumIsMajority
  <2>3. Cardinality(Q) >= q
    BY <1>1 DEF Majority
  <2> HIDE DEF q
  <2> QED BY <2>1, <2>2, <2>3
<1>3. PICK v : v \in Q
  BY <1>2
<1>4. <<i, term, i>> \in votes
  BY <1>1, <1>3 DEF ElectionInv, VotesRecorded, Campaigned
<1> QED BY <1>4 DEF ElectionInv, VotesRecorded

\* A node with an entry of its own term, in which it is elected, was elected in
\* that term before the step: an entry's maker is elected before it makes it.
LEMMA ElectedBefore ==
    ASSUME IndexInv, IndexInv', ElectionInv, ElectionInv', EntryInv, LogStep, ElectionStep,
           NEW i \in Server, Elected(i, m_currentTerm[i])',
           NEW k \in Nat, k > m_lastSnapshotIncludeIndex'[i], k <= LastLogIndex(i)',
           m_logs'[i][k - m_lastSnapshotIncludeIndex'[i]].logterm = m_currentTerm'[i]
    PROVE  Elected(i, m_currentTerm[i]) /\ m_currentTerm'[i] = m_currentTerm[i]
<1>1. CASE \E j \in Server, command \in Command : Start(j, command)
  <2>1. votes' = votes /\ m_currentTerm' = m_currentTerm
    BY <1>1 DEF Start, voteVars
  <2> QED BY <2>1 DEF Elected, Majority
<1>2. CASE \A j \in Server, command \in Command : ~Start(j, command)
  <2>1. PICK term : term = m_currentTerm'[i]
    OBVIOUS
  <2> DEFINE e == m_logs'[i][k - m_lastSnapshotIncludeIndex'[i]]
  <2>2. e \in Entries' /\ e.logterm = term
    <3>1. k - m_lastSnapshotIncludeIndex'[i] \in 1..Len(m_logs'[i])
      BY LogEndAfter
    <3> QED BY <2>1, <3>1 DEF Entries, EntriesOf
  <2>3. PICK j \in Server : Elected(j, term)
    <3>1. e \in Entries
      BY <1>2, <2>2, StepsPassEntriesOn
    <3> QED BY <2>2, <3>1 DEF EntryInv, EntriesOwned
  <2>4. Elected(j, term)'
    BY <2>3, VotesAreKept DEF Elected, Majority
  <2>5. Elected(i, term)'
    BY <2>1 DEF Elected, Majority
  <2>6. i = j
    BY <2>4, <2>5, OneElectedAfter
  <2>7. term <= m_currentTerm[i]
    BY <2>3, <2>6, ElectedHasCampaigned
  <2>8. m_currentTerm[i] \in Nat /\ term \in Nat /\ term >= m_currentTerm[i]
    BY <2>1, VotesMoveForward DEF IndexInv, TypeOK, VoteTypes
  <2> QED BY <2>1, <2>3, <2>6, <2>7, <2>8
<1> QED BY <1>1, <1>2
\* What moves a node's commit index: a snapshot up to it, its leader, or an
\* answer it counts as a leader.
LEMMA CommitMoves ==
    ASSUME IndexInv, [Next]_vars, NEW i \in Server
    PROVE  \/ m_commitIndex'[i] = m_commitIndex[i]
           \/ m_commitIndex'[i] = m_lastSnapshotIncludeIndex'[i]
           \/ \E r \in rpcs : AppendMatching(r) /\ r.to = i
           \/ \E r \in rpcs : AppendAccepted(r) /\ r.from = i
<1>0. m_commitIndex \in [Server -> Nat] /\ m_lastSnapshotIncludeIndex \in [Server -> Nat]
  BY DEF IndexInv, TypeOK, ApplyTypes, LogTypes
<1> DEFINE Same == m_commitIndex'[i] = m_commitIndex[i]
           Covered == m_commitIndex'[i] = m_lastSnapshotIncludeIndex'[i]
<1>1. CASE UNCHANGED vars
  BY <1>1 DEF vars, applyVars
<1>2. ASSUME NEW n \in Server, NodeStep(n) PROVE Same \/ Covered
  <2>1. ASSUME NEW index \in 1..MaxSnapshotIndex, Snapshot(n, index) PROVE Same \/ Covered
    <3>1. /\ m_commitIndex' = [m_commitIndex EXCEPT ![n] = Larger(@, index)]
          /\ m_lastSnapshotIncludeIndex' = [m_lastSnapshotIncludeIndex EXCEPT ![n] = index]
      BY <2>1 DEF Snapshot
    <3> QED BY <1>0, <3>1 DEF Larger
  <2>2. CASE \A index \in 1..MaxSnapshotIndex : ~Snapshot(n, index)
    BY <1>2, <2>2 DEF NodeStep, DoElection, DoHeartBeat, HeartBeatExits, Exit, Start, Apply, applyVars
  <2> QED BY <2>1, <2>2
<1>3. ASSUME NEW r \in rpcs, VoteStep(r) PROVE Same
  BY <1>3 DEF VoteStep, HandleRequestVote, VoteReplyStepsDown, VoteReplyIgnored, CountVote, BecomeLeader, applyVars
<1>4. ASSUME NEW r \in rpcs, AppendStep(r)
      PROVE  Same \/ (AppendMatching(r) /\ r.to = i) \/ (AppendAccepted(r) /\ r.from = i)
  <2>1. CASE AppendMatching(r)
    BY <1>0, <2>1 DEF AppendMatching
  <2>2. CASE AppendAccepted(r)
    BY <1>0, <2>2 DEF AppendAccepted
  <2>3. CASE ~AppendMatching(r) /\ ~AppendAccepted(r)
    BY <1>4, <2>3 DEF AppendStep, RejectStaleLeader, RejectGap, PrevInSnapshotExits, Exit,
                      RejectMismatch, AppendReplyStepsDown, AppendReplyIgnored, AppendRejected, applyVars
  <2> QED BY <2>1, <2>2, <2>3
<1>5. ASSUME NEW r \in rpcs, SnapshotStep(r) PROVE Same \/ Covered
  <2>1. CASE InstallSnapshot(r)
    <3>1. /\ m_commitIndex' = [m_commitIndex EXCEPT ![r.to] = Larger(@, r.snapIndex)]
          /\ m_lastSnapshotIncludeIndex' = [m_lastSnapshotIncludeIndex EXCEPT ![r.to] = r.snapIndex]
      BY <2>1 DEF InstallSnapshot
    <3> QED BY <1>0, <3>1 DEF Larger
  <2>2. CASE ~InstallSnapshot(r)
    BY <1>5, <2>2 DEF SnapshotStep, LeaderSendSnapShot, RejectStaleSnapshotSender, IgnoreOldSnapshot,
                      SnapshotReplyIgnored, SnapshotReplyStepsDown, SnapshotAccepted, PeerCloses, applyVars
  <2> QED BY <2>1, <2>2
<1>6. ASSUME NEW r \in rpcs, RpcFails(r) PROVE Same
  BY <1>6 DEF RpcFails, applyVars
<1> QED BY <1>1, <1>2, <1>3, <1>4, <1>5, <1>6 DEF Next

\* Held, with its index fixed over the step.
LEMMA HeldByMajorityKept ==
    ASSUME IndexInv, IndexInv', ElectionInv, ClaimsInv, EntryInv, LogStep, ElectionStep,
           NEW i \in Server, Elected(i, m_currentTerm[i]), m_currentTerm'[i] = m_currentTerm[i], NEW k \in Nat,
           NEW Q \in SUBSET Server, Majority(Cardinality(Q)), \A j \in Q : Held(i, j, k)
    PROVE  \E R \in SUBSET Server : Majority(Cardinality(R)) /\ \A j \in R : Held(i, j, k)'
<1>1. ASSUME NEW j \in Q PROVE Held(i, j, k)'
  BY <1>1, HeldKept
<1> QED BY <1>1

LEMMA StepKeepsCommitHeld ==
    ASSUME IndexInv, IndexInv', ElectionInv, ElectionInv', ClaimsInv, EntryInv, AnswersHold, [Next]_vars,
           RoundsAgree, RoundsCounted, CommitHeld
    PROVE  CommitHeld'
<1>0. LogStep /\ ElectionStep
  BY LogSteps, ElectionSteps
<1> SUFFICES ASSUME NEW i \in Server, NEW k, k = m_commitIndex'[i],
                    Elected(i, m_currentTerm[i])', k > m_lastSnapshotIncludeIndex'[i],
                    m_logs'[i][k - m_lastSnapshotIncludeIndex'[i]].logterm = m_currentTerm'[i]
             PROVE  \E R \in SUBSET Server : Majority(Cardinality(R)) /\ \A j \in R : Held(i, j, k)'
  <2> SUFFICES ASSUME NEW i \in Server, Elected(i, m_currentTerm[i])',
                      m_commitIndex'[i] > m_lastSnapshotIncludeIndex'[i],
                      m_logs'[i][m_commitIndex'[i] - m_lastSnapshotIncludeIndex'[i]].logterm = m_currentTerm'[i]
               PROVE  \E R \in SUBSET Server : Majority(Cardinality(R)) /\ \A j \in R : Held(i, j, m_commitIndex[i])'
    BY DEF CommitHeld, SlicesIndex, Majority
  <2>1. PICK k : k = m_commitIndex'[i]
    OBVIOUS
  <2>2. \E R \in SUBSET Server : Majority(Cardinality(R)) /\ \A j \in R : Held(i, j, k)'
    BY <2>1
  <2> QED BY <2>1, <2>2 DEF Held, StillHolds, SlicesIndex
<1>1. k \in Nat /\ k <= LastLogIndex(i)'
  BY DEF IndexInv, TypeOK, ApplyTypes, IndexOrder
<1>2. Elected(i, m_currentTerm[i]) /\ m_currentTerm'[i] = m_currentTerm[i]
  BY <1>0, <1>1, ElectedBefore
<1>3. /\ m_lastSnapshotIncludeIndex[i] \in Nat /\ m_lastSnapshotIncludeIndex'[i] \in Nat
      /\ m_lastSnapshotIncludeIndex'[i] >= m_lastSnapshotIncludeIndex[i]
  BY <1>0, SnapshotsGrow, LogEndAfter
<1>4. k > m_lastSnapshotIncludeIndex[i]
  BY <1>1, <1>3
<1>5. CASE k = m_commitIndex[i]
  <2>1. k <= LastLogIndex(i) /\ LastLogIndex(i) \in Nat
    BY <1>5, LogShape DEF IndexInv, IndexOrder
  <2>2. m_logs'[i][k - m_lastSnapshotIncludeIndex'[i]] = m_logs[i][SlicesIndex(i, k)]
    <3>1. k \in (m_lastSnapshotIncludeIndex'[i] + 1)..LastLogIndex(i)
      BY <1>1, <1>3, <2>1
    <3> QED BY <1>0, <1>2, <1>4, <3>1, OwnLogKept
  <2>3. PICK Q \in SUBSET Server : Majority(Cardinality(Q)) /\ \A j \in Q : Held(i, j, k)
    BY <1>2, <1>4, <1>5, <2>2 DEF CommitHeld
  <2> QED BY <1>0, <1>1, <1>2, <2>3, HeldByMajorityKept
<1>6. CASE k = m_lastSnapshotIncludeIndex'[i]
  BY <1>1, <1>6
<1>7. ASSUME NEW r \in rpcs, AppendMatching(r), r.to = i PROVE FALSE
  <2>1. /\ r.from \in Server /\ r.from # i
        /\ Elected(r.from, m_currentTerm[i])
    BY <1>2, <1>7, AppendIsFromElected
  <2> QED BY <1>2, <2>1, OneElectedPerTerm
<1>8. ASSUME NEW r \in rpcs, AppendAccepted(r), r.from = i, k # m_commitIndex[i]
      PROVE  \E Q \in SUBSET Server : Majority(Cardinality(Q)) /\ \A j \in Q : Held(i, j, k)
  <2> DEFINE acks == appendNums[i][r.round] + 1
  <2>1. Majority(acks) /\ k = r.match
    BY <1>8 DEF AppendAccepted, CommittedBy, Larger, IndexInv, TypeOK, ApplyTypes
  <2>2. Delivered(r) /\ Running(i) /\ r.term = m_currentTerm[i]
    BY <1>8 DEF AppendAccepted, ToCurrentLeader, Reply, Delivered
  <2>3. Appends(r) /\ FromLeader(r) /\ Reach(r) = k
    BY <2>1, <2>2 DEF Delivered, Appends, FromLeader, Reach
  <2>4. PICK Q \in SUBSET Server :
            /\ Cardinality(Q) = appendNums[i][r.round]
            /\ \A n \in rpcs : SameRound(r, n) => n.to \notin Q
            /\ \A j \in Q : Held(i, j, k)
    BY <1>8, <2>2, <2>3 DEF RoundsCounted, Counted
  <2>5. r.to \in Server /\ r.to \notin Q
    BY <2>3, <2>4, AppendTypes DEF SameRound
  <2>6. Held(i, r.to, k)
    BY <1>8, <2>1, <2>2 DEF AnswersHold
  <2>7. Cardinality(Q \cup {r.to}) = acks
    BY <2>4, <2>5, ServerAssumption, FS_Subset, FS_AddElement
  <2>8. Q \cup {r.to} \in SUBSET Server /\ \A j \in Q \cup {r.to} : Held(i, j, k)
    BY <2>4, <2>5, <2>6
  <2> QED BY <2>1, <2>7, <2>8
<1>9. ASSUME NEW r \in rpcs, AppendAccepted(r), r.from = i
      PROVE  \E R \in SUBSET Server : Majority(Cardinality(R)) /\ \A j \in R : Held(i, j, k)'
  BY <1>0, <1>1, <1>2, <1>5, <1>8, <1>9, HeldByMajorityKept
<1> QED BY <1>5, <1>6, <1>7, <1>9, CommitMoves

LEMMA StepKeepsCommitInv ==
    ASSUME IndexInv, IndexInv', ElectionInv, ElectionInv', ClaimsInv, EntryInv, AnswersHold, CommitInv, [Next]_vars
    PROVE  AnswersHold' /\ CommitInv'
<1>1. RoundsAgree /\ RoundsCounted /\ CommitHeld
  BY DEF CommitInv
<1>2. AnswersHold'
  BY AnswersStillHold
<1>3. RoundsAgree'
  BY <1>1, RoundSteps, StepKeepsRounds
<1>4. RoundsCounted'
  BY <1>1, StepKeepsCounts
<1>5. CommitHeld'
  BY <1>1, StepKeepsCommitHeld
<1> QED BY <1>2, <1>3, <1>4, <1>5 DEF CommitInv

LEMMA CommitInvIsEnough ==
    ASSUME IndexInv, ElectionInv, CommitInv
    PROVE  CommitOnMajority
<1> SUFFICES ASSUME NEW i \in Server, NEW k, k = m_commitIndex[i], Leads(i), k > m_lastSnapshotIncludeIndex[i],
                    m_logs[i][SlicesIndex(i, k)].logterm = m_currentTerm[i]
             PROVE  Majority(Cardinality({j \in Server : StillHolds(j, i, k)}))
  BY DEF CommitOnMajority
<1>1. Elected(i, m_currentTerm[i])
  BY LeaderIsElected DEF Leads
<1>2. PICK Q \in SUBSET Server : Majority(Cardinality(Q)) /\ \A j \in Q : Held(i, j, k)
  BY <1>1 DEF CommitInv, CommitHeld
<1> DEFINE holders == {j \in Server : StillHolds(j, i, k)}
           q == (Cardinality(Server) \div 2) + 1
<1>3. Q \in SUBSET holders /\ holders \in SUBSET Server
  BY <1>2 DEF Held
<1>4. Cardinality(Q) \in Nat /\ Cardinality(holders) \in Nat /\ Cardinality(Q) <= Cardinality(holders)
  <2> HIDE DEF holders
  <2> QED BY <1>3, SubsetOfServers
<1>5. q \in Nat
  BY QuorumIsMajority
<1>6. Cardinality(Q) >= q
  BY <1>2 DEF Majority
<1>7. Cardinality(holders) >= q
  <2> HIDE DEF holders, q
  <2> QED BY <1>4, <1>5, <1>6
<1> QED BY <1>7 DEF Majority

\* What a leader commits of its own term, a majority holds, however many rounds
\* of heartbeats overlap and however late their replies come: the counter shared
\* by the threads of a round never adds up acknowledgements of different entries
\* or two of one follower, and its reset at the majority commits nothing twice
\* (raft.cpp:106-185, 644-738).
THEOREM CommitOnMajorityHolds == Spec => []CommitOnMajority
<1> DEFINE Inv == AnswersHold /\ CommitInv
<1>1. Init => Inv
  <2> SUFFICES ASSUME Init PROVE Inv
    OBVIOUS
  <2>1. /\ rpcs = {}
        /\ \A i \in Server : m_commitIndex[i] = 0 /\ m_lastSnapshotIncludeIndex[i] = 0
    BY DEF Init
  <2> QED BY <2>1 DEF AnswersHold, CommitInv, RoundsAgree, RoundsCounted, CommitHeld
<1>2. IndexInv /\ IndexInv' /\ ElectionInv /\ ElectionInv' /\ ClaimsInv /\ EntryInv /\ Inv /\ [Next]_vars => Inv'
  BY StepKeepsCommitInv
<1>3. IndexInv /\ ElectionInv /\ Inv => CommitOnMajority
  BY CommitInvIsEnough
<1> HIDE DEF Inv
<1> QED BY <1>1, <1>2, <1>3, IndexInvariance, ElectionInvariance, ClaimsInvariance, EntryInvariance, PTL DEF Spec
============================================================================
