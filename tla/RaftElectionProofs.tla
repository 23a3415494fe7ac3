------------------------ MODULE RaftElectionProofs ------------------------
(***************************************************************************)
(* One leader per term, for every cluster.  Only six kinds of step touch   *)
(* what elections are decided by (ElectionSteps); the inductive invariant  *)
(* ElectionInv is proved over those six, and so is that the elections of   *)
(* Raft implement Voting.                                                  *)
(***************************************************************************)
EXTENDS RaftIndexProofs

---------------------------------------------------------------------------
(* What a step does to terms, votes and vote RPCs.                         *)

\* No request for a vote and no granted answer is added.
NoNewVoteRpc == \A r \in rpcs' : CarriesVote(r) => r \in rpcs

ElectionIdle == UNCHANGED <<voteVars, votedNum>> /\ NoNewVoteRpc

\* Node i hears of a term not below its own.
HearsOfTerm(i, term) ==
    /\ term >= m_currentTerm[i]
    /\ m_currentTerm' = [m_currentTerm EXCEPT ![i] = term]
    /\ m_votedFor' = [m_votedFor EXCEPT ![i] = IF term > m_currentTerm[i] THEN Nobody ELSE @]
    /\ m_status' = [m_status EXCEPT ![i] = "Follower"]
    /\ UNCHANGED <<votes, votedNum>>
    /\ NoNewVoteRpc

ElectionStep ==
    \/ ElectionIdle
    \/ \E i \in Server, term \in Nat : HearsOfTerm(i, term)
    \/ \E i \in Server : DoElection(i)
    \/ \E r \in rpcs : HandleRequestVote(r) \/ CountVote(r) \/ BecomeLeader(r)

LEMMA StepDownIsHearing ==
    ASSUME TypeOK, NEW i \in Server, NEW term \in Nat, UNCHANGED votedNum, NoNewVoteRpc,
           \/ FollowLeader(i, term) /\ term >= m_currentTerm[i]
           \/ StepDown(i, term) /\ term > m_currentTerm[i]
    PROVE  HearsOfTerm(i, term)
BY DEF TypeOK, VoteTypes, StepDown, FollowLeader, HearsOfTerm

LEMMA NodeStepsOfElections ==
    ASSUME IndexInv, NEW i \in Server, NodeStep(i)
    PROVE  ElectionStep
<1>1. CASE DoElection(i)
  BY <1>1 DEF ElectionStep
<1>2. \A j, k : ~CarriesVote(HeartBeatRpc(i, j, k))
  BY DEF CarriesVote, HeartBeatRpc
<1>3. CASE DoHeartBeat(i) \/ HeartBeatExits(i)
  <2>1. NoNewVoteRpc
    <3>1. PICK S \in SUBSET Server, k \in Round : SpawnHeartBeats(i, S, k)
      <4>1. CASE DoHeartBeat(i)
        BY <4>1 DEF DoHeartBeat
      <4>2. CASE HeartBeatExits(i)
        BY <4>2 DEF HeartBeatExits
      <4> QED BY <1>3, <4>1, <4>2
    <3>2. rpcs' = rpcs \cup {HeartBeatRpc(i, j, k) : j \in S}
      BY <3>1 DEF SpawnHeartBeats
    <3> QED BY <1>2, <3>2 DEF NoNewVoteRpc
  <2> QED BY <1>3, <2>1 DEF DoHeartBeat, HeartBeatExits, Exit, ElectionIdle, ElectionStep
<1>4. CASE \E command \in Command : Start(i, command)
  BY <1>4 DEF Start, NoNewVoteRpc, ElectionIdle, ElectionStep
<1>5. CASE Apply(i)
  BY <1>5 DEF Apply, NoNewVoteRpc, ElectionIdle, ElectionStep
<1>6. CASE \E index \in 1..MaxSnapshotIndex : Snapshot(i, index)
  BY <1>6 DEF Snapshot, NoNewVoteRpc, ElectionIdle, ElectionStep
<1> QED BY <1>1, <1>3, <1>4, <1>5, <1>6 DEF NodeStep

LEMMA VoteStepsOfElections ==
    ASSUME IndexInv, NEW r \in rpcs, VoteStep(r)
    PROVE  ElectionStep
<1>0. TypeOK /\ r.from \in Server /\ r.term \in Nat
  BY RpcFields DEF IndexInv, TypeOK
<1>1. CASE VoteReplyStepsDown(r)
  <2>1. NoNewVoteRpc
    BY <1>1 DEF VoteReplyStepsDown, Finish, NoNewVoteRpc
  <2>2. HearsOfTerm(r.from, r.term)
    BY <1>0, <1>1, <2>1, StepDownIsHearing DEF VoteReplyStepsDown
  <2> QED BY <1>0, <2>2 DEF ElectionStep
<1>2. CASE VoteReplyIgnored(r)
  BY <1>2 DEF VoteReplyIgnored, Finish, NoNewVoteRpc, ElectionIdle, ElectionStep
<1>3. CASE HandleRequestVote(r) \/ CountVote(r) \/ BecomeLeader(r)
  BY <1>3 DEF ElectionStep
<1> QED BY <1>1, <1>2, <1>3 DEF VoteStep

LEMMA AppendStepsOfElections ==
    ASSUME IndexInv, NEW r \in rpcs, AppendStep(r)
    PROVE  ElectionStep
<1>0. TypeOK /\ r.from \in Server /\ r.to \in Server /\ r.term \in Nat
      /\ \A i \in Server : m_currentTerm[i] \in Nat
  BY RpcFields DEF IndexInv, TypeOK, VoteTypes
<1>1. \A term, success, hint : ~CarriesVote(AppendReply(r, term, success, hint))
  BY DEF CarriesVote, AppendReply
<1>2. CASE RejectStaleLeader(r)
  BY <1>1, <1>2 DEF RejectStaleLeader, Answer, NoNewVoteRpc, ElectionIdle, ElectionStep
<1>3. CASE RejectGap(r) \/ AppendMatching(r) \/ RejectMismatch(r)
  <2>1. FollowLeader(r.to, r.term) /\ r.term >= m_currentTerm[r.to] /\ UNCHANGED votedNum
    BY <1>3 DEF RejectGap, AppendMatching, RejectMismatch, PrevInLog, FromCurrentLeader
  <2>2. NoNewVoteRpc
    <3>1. PICK success, hint : Answer(r, AppendReply(r, r.term, success, hint))
      BY <1>3 DEF RejectGap, AppendMatching, RejectMismatch
    <3> QED BY <1>1, <3>1 DEF Answer, NoNewVoteRpc
  <2>3. HearsOfTerm(r.to, r.term)
    BY <1>0, <2>1, <2>2, StepDownIsHearing
  <2> QED BY <1>0, <2>3 DEF ElectionStep
<1>4. CASE AppendReplyStepsDown(r)
  <2>1. NoNewVoteRpc
    BY <1>4 DEF AppendReplyStepsDown, FinishAppend, Finish, NoNewVoteRpc
  <2>2. HearsOfTerm(r.from, r.term)
    BY <1>0, <1>4, <2>1, StepDownIsHearing DEF AppendReplyStepsDown
  <2> QED BY <1>0, <2>2 DEF ElectionStep
<1>5. CASE PrevInSnapshotExits(r)
  BY <1>5 DEF PrevInSnapshotExits, Exit, Finish, NoNewVoteRpc, ElectionIdle, ElectionStep
<1>6. CASE AppendReplyIgnored(r) \/ AppendRejected(r) \/ AppendAccepted(r)
  BY <1>6 DEF AppendReplyIgnored, AppendRejected, AppendAccepted, FinishAppend, Finish,
              NoNewVoteRpc, ElectionIdle, ElectionStep
<1> QED BY <1>2, <1>3, <1>4, <1>5, <1>6 DEF AppendStep

LEMMA SnapshotStepsOfElections ==
    ASSUME IndexInv, NEW r \in rpcs, SnapshotStep(r)
    PROVE  ElectionStep
<1>0. TypeOK /\ r.from \in Server /\ r.to \in Server /\ r.term \in Nat
      /\ \A i \in Server : m_currentTerm[i] \in Nat
  BY RpcFields DEF IndexInv, TypeOK, VoteTypes
<1>1. \A term : ~CarriesVote(SnapshotReply(r, term))
  BY DEF CarriesVote, SnapshotReply
<1>2. CASE LeaderSendSnapShot(r)
  BY <1>2 DEF LeaderSendSnapShot, Answer, CarriesVote, NoNewVoteRpc, ElectionIdle, ElectionStep
<1>3. CASE RejectStaleSnapshotSender(r)
  BY <1>1, <1>3 DEF RejectStaleSnapshotSender, Answer, NoNewVoteRpc, ElectionIdle, ElectionStep
<1>4. CASE IgnoreOldSnapshot(r) \/ InstallSnapshot(r)
  <2>1. FollowLeader(r.to, r.term) /\ r.term >= m_currentTerm[r.to] /\ UNCHANGED votedNum
    BY <1>4 DEF IgnoreOldSnapshot, InstallSnapshot
  <2>2. NoNewVoteRpc
    BY <1>1, <1>4 DEF IgnoreOldSnapshot, InstallSnapshot, Answer, NoNewVoteRpc
  <2>3. HearsOfTerm(r.to, r.term)
    BY <1>0, <2>1, <2>2, StepDownIsHearing
  <2> QED BY <1>0, <2>3 DEF ElectionStep
<1>5. CASE SnapshotReplyStepsDown(r)
  <2>1. NoNewVoteRpc
    BY <1>5 DEF SnapshotReplyStepsDown, Finish, NoNewVoteRpc
  <2>2. HearsOfTerm(r.from, r.term)
    BY <1>0, <1>5, <2>1, StepDownIsHearing DEF SnapshotReplyStepsDown
  <2> QED BY <1>0, <2>2 DEF ElectionStep
<1>6. CASE SnapshotReplyIgnored(r) \/ SnapshotAccepted(r)
  BY <1>6 DEF SnapshotReplyIgnored, SnapshotAccepted, Finish, NoNewVoteRpc, ElectionIdle, ElectionStep
<1>7. CASE PeerCloses(r)
  <2>1. ~CarriesVote(EmptyReply(r))
    BY DEF CarriesVote, EmptyReply
  <2> QED BY <1>7, <2>1 DEF PeerCloses, Answer, NoNewVoteRpc, ElectionIdle, ElectionStep
<1> QED BY <1>2, <1>3, <1>4, <1>5, <1>6, <1>7 DEF SnapshotStep

\* Every step of Raft is one of the six.
LEMMA ElectionSteps == IndexInv /\ [Next]_vars => ElectionStep
<1> SUFFICES ASSUME IndexInv, [Next]_vars PROVE ElectionStep
  OBVIOUS
<1>1. ASSUME NEW r \in rpcs, RpcFails(r) PROVE ElectionStep
  BY <1>1 DEF RpcFails, FinishAppend, Finish, NoNewVoteRpc, ElectionIdle, ElectionStep
<1>2. CASE UNCHANGED vars
  BY <1>2 DEF vars, NoNewVoteRpc, ElectionIdle, ElectionStep
<1> QED BY <1>1, <1>2, NodeStepsOfElections, VoteStepsOfElections, AppendStepsOfElections,
           SnapshotStepsOfElections DEF Next

---------------------------------------------------------------------------
(* Terms and votes only move forward.                                      *)

LEMMA VotesMoveForward ==
    ASSUME IndexInv, ElectionStep, NEW i \in Server
    PROVE  /\ m_currentTerm'[i] \in Nat /\ m_currentTerm'[i] >= m_currentTerm[i]
           /\ m_currentTerm'[i] = m_currentTerm[i] /\ m_votedFor[i] # Nobody => m_votedFor'[i] = m_votedFor[i]
<1>0. m_currentTerm \in [Server -> Nat] /\ m_votedFor \in [Server -> Server \cup {Nobody}]
  BY DEF IndexInv, TypeOK, VoteTypes
<1>1. CASE ElectionIdle
  BY <1>0, <1>1 DEF ElectionIdle, voteVars
<1>2. CASE \E j \in Server, term \in Nat : HearsOfTerm(j, term)
  BY <1>0, <1>2 DEF HearsOfTerm
<1>3. CASE \E j \in Server : DoElection(j)
  BY <1>0, <1>3 DEF DoElection
<1>4. ASSUME NEW r \in rpcs, HandleRequestVote(r)
      PROVE  /\ m_currentTerm'[i] \in Nat /\ m_currentTerm'[i] >= m_currentTerm[i]
             /\ m_currentTerm'[i] = m_currentTerm[i] /\ m_votedFor[i] # Nobody => m_votedFor'[i] = m_votedFor[i]
  <2>1. r.to \in Server /\ r.term \in Nat
    BY RpcFields DEF IndexInv, TypeOK
  <2>2. /\ m_currentTerm' = [m_currentTerm EXCEPT ![r.to] = Larger(r.term, m_currentTerm[r.to])]
        /\ m_votedFor' = [m_votedFor EXCEPT ![r.to] = IF GrantsVote(r) THEN r.from ELSE EarlierVote(r)]
    BY <1>4 DEF HandleRequestVote
  <2>3. CASE i # r.to
    BY <1>0, <2>1, <2>2, <2>3
  <2>4. CASE i = r.to
    <3>1. m_currentTerm'[i] = Larger(r.term, m_currentTerm[i])
      BY <1>0, <2>2, <2>4
    <3>2. m_currentTerm[i] \in Nat
      BY <1>0
    <3>3. m_currentTerm'[i] \in Nat /\ m_currentTerm'[i] >= m_currentTerm[i]
      BY <2>1, <3>1, <3>2 DEF Larger
    <3>4. ASSUME m_currentTerm'[i] = m_currentTerm[i], m_votedFor[i] # Nobody
          PROVE  m_votedFor'[i] = m_votedFor[i]
      <4>1. ~(r.term > m_currentTerm[i])
        BY <2>1, <3>1, <3>2, <3>4 DEF Larger
      <4>2. EarlierVote(r) = m_votedFor[i]
        BY <2>4, <4>1 DEF EarlierVote
      <4>3. GrantsVote(r) => r.from = m_votedFor[i]
        BY <3>4, <4>2 DEF GrantsVote
      <4> QED BY <1>0, <2>2, <2>4, <4>2, <4>3
    <3> QED BY <3>3, <3>4
  <2> QED BY <2>3, <2>4
<1>5. CASE \E r \in rpcs : CountVote(r) \/ BecomeLeader(r)
  BY <1>0, <1>5 DEF CountVote, BecomeLeader, voteVars
<1> QED BY <1>0, <1>1, <1>2, <1>3, <1>4, <1>5 DEF ElectionStep

\* In every cluster and every handler: the term never falls, and within a term
\* a vote once given is kept (raft.cpp:194-239, 328-413, 766-781, 1404-1414).
THEOREM VoteStableHolds == Spec => VoteStable
<1>1. IndexInv /\ [Next]_vars =>
        [\A i \in Server :
            /\ m_currentTerm'[i] >= m_currentTerm[i]
            /\ m_currentTerm'[i] = m_currentTerm[i] /\ m_votedFor[i] # Nobody => m_votedFor'[i] = m_votedFor[i]]_vars
  BY ElectionSteps, VotesMoveForward
<1> QED BY <1>1, IndexInvariance, PTL DEF Spec, VoteStable

---------------------------------------------------------------------------
(* Majorities and settled votes.                                           *)

LEMMA QuorumIsMajority ==
    /\ Cardinality(Server) \in Nat
    /\ (Cardinality(Server) \div 2) + 1 \in Nat
    /\ 2 * ((Cardinality(Server) \div 2) + 1) > Cardinality(Server)
<1>1. Cardinality(Server) \in Nat
  BY ServerAssumption, FS_CardinalityType
<1>2. \A n \in Nat : (n \div 2) + 1 \in Nat /\ 2 * ((n \div 2) + 1) > n
  OBVIOUS
<1> QED BY <1>1, <1>2

LEMMA SettledIsFinite ==
    ASSUME NEW i \in Server
    PROVE  /\ IsFiniteSet(Settled(i)) /\ Cardinality(Settled(i)) \in Nat
           /\ Cardinality(Settled(i)) <= Cardinality(Server)
<1>1. Settled(i) \in SUBSET Server
  BY DEF Settled
<1> QED BY <1>1, ServerAssumption, FS_Subset, FS_CardinalityType

LEMMA SubsetOfServers ==
    ASSUME NEW S \in SUBSET Server, NEW T \in SUBSET S
    PROVE  /\ Cardinality(S) \in Nat /\ Cardinality(T) \in Nat
           /\ Cardinality(T) <= Cardinality(S)
<1>1. IsFiniteSet(S)
  BY ServerAssumption, FS_Subset
<1> QED BY <1>1, FS_Subset, FS_CardinalityType

\* While the node's term lasts, answers settle and nothing is unsettled.
LEMMA SettledGrows ==
    ASSUME NEW i \in Server, votes \subseteq votes', m_currentTerm'[i] = m_currentTerm[i],
           \A j \in Server : Awaited(i, j, m_currentTerm[i])' => Awaited(i, j, m_currentTerm[i])
    PROVE  /\ Cardinality(Settled(i)) \in Nat /\ Cardinality(Settled(i)') \in Nat
           /\ Cardinality(Settled(i)) <= Cardinality(Settled(i)')
<1>1. Settled(i)' \in SUBSET Server /\ Settled(i) \in SUBSET Settled(i)'
  BY DEF Settled
<1> QED BY <1>1, SubsetOfServers

LEMMA NoNewAwaited ==
    ASSUME NoNewVoteRpc
    PROVE  \A i, j, term : Awaited(i, j, term)' => Awaited(i, j, term)
BY DEF NoNewVoteRpc, Awaited, CarriesVote

---------------------------------------------------------------------------
(* The six steps keep the invariant.                                       *)

LEMMA RpcsOfVotesKept ==
    ASSUME ElectionInv, NoNewVoteRpc, votes \subseteq votes'
    PROVE  VotesAskedFor' /\ AskedOnce'
<1>1. \A r \in rpcs' : CarriesVote(r)' => r \in rpcs /\ CarriesVote(r)
  BY DEF NoNewVoteRpc, CarriesVote
<1>2. VotesAskedFor'
  BY <1>1 DEF ElectionInv, VotesAskedFor, Campaigned
<1>3. AskedOnce'
  BY <1>1 DEF ElectionInv, AskedOnce
<1> QED BY <1>2, <1>3

LEMMA IdleKeepsElectionInv ==
    ASSUME IndexInv, ElectionInv, ElectionIdle
    PROVE  ElectionInv'
<1>1. UNCHANGED <<m_currentTerm, m_votedFor, m_status, votes, votedNum>> /\ NoNewVoteRpc
  BY DEF ElectionIdle, voteVars
<1>2. VotesRecorded' /\ OneVotePerTerm'
  BY <1>1 DEF ElectionInv, VotesRecorded, OneVotePerTerm, Campaigned
<1>3. VotesAskedFor' /\ AskedOnce'
  BY <1>1, RpcsOfVotesKept
<1>4. ASSUME NEW i \in Server, Campaigned(i, m_currentTerm[i])
      PROVE  votedNum[i] + Spent(i) <= Cardinality(Settled(i)')
  <2>1. votedNum[i] + Spent(i) <= Cardinality(Settled(i))
    BY <1>4 DEF ElectionInv, VotesCountedOnce
  <2>2. /\ Cardinality(Settled(i)) \in Nat /\ Cardinality(Settled(i)') \in Nat
        /\ Cardinality(Settled(i)) <= Cardinality(Settled(i)')
    BY <1>1, NoNewAwaited, SettledGrows
  <2>3. votedNum[i] + Spent(i) \in Nat
    BY QuorumIsMajority DEF Spent, IndexInv, TypeOK, VoteTypes
  <2> QED BY <2>1, <2>2, <2>3
<1>5. VotesCountedOnce'
  BY <1>1, <1>4 DEF ElectionInv, VotesCountedOnce, Campaigned, Spent
<1> QED BY <1>2, <1>3, <1>5 DEF ElectionInv

\* No vote has been cast in a term its candidate has not reached.
LEMMA NotYetCampaigned ==
    ASSUME IndexInv, ElectionInv, NEW i \in Server, NEW term \in Nat, term > m_currentTerm[i]
    PROVE  ~Campaigned(i, term) /\ \A v \in votes : v[1] = i => v[2] # term
<1>1. m_currentTerm[i] \in Nat
  BY DEF IndexInv, TypeOK, VoteTypes
<1>2. \A v \in votes : v[1] = i => v[2] # term
  BY <1>1 DEF ElectionInv, VotesRecorded
<1>3. ASSUME Campaigned(i, term) PROVE FALSE
  <2> DEFINE v == <<i, term, i>>
  <2>1. v \in votes /\ v[1] = i /\ v[2] = term
    BY <1>3 DEF Campaigned
  <2> HIDE DEF v
  <2> QED BY <1>2, <2>1
<1> QED BY <1>2, <1>3

LEMMA HearingKeepsElectionInv ==
    ASSUME IndexInv, ElectionInv, NEW i \in Server, NEW term \in Nat, HearsOfTerm(i, term)
    PROVE  ElectionInv'
<1>1. /\ m_currentTerm \in [Server -> Nat] /\ m_votedFor \in [Server -> Server \cup {Nobody}]
      /\ m_status \in [Server -> {"Follower", "Candidate", "Leader"}]
      /\ votes \subseteq Server \X Nat \X Server /\ votedNum \in [Server -> Nat]
  BY DEF IndexInv, TypeOK, VoteTypes
<1>2. votes' = votes /\ votedNum' = votedNum /\ NoNewVoteRpc
  BY DEF HearsOfTerm
<1>3. \A v \in votes : v[1] \in Server /\ v[2] \in Nat
  BY <1>1
<1>4. VotesRecorded' /\ OneVotePerTerm'
  <2>1. ASSUME NEW v \in votes
        PROVE  /\ v[2] <= m_currentTerm'[v[1]]
               /\ v[2] = m_currentTerm'[v[1]] => m_votedFor'[v[1]] = v[3]
    <3>1. /\ v[2] <= m_currentTerm[v[1]]
          /\ v[2] = m_currentTerm[v[1]] => m_votedFor[v[1]] = v[3]
      BY DEF ElectionInv, VotesRecorded
    <3>2. CASE v[1] # i
      BY <1>1, <1>3, <3>1, <3>2 DEF HearsOfTerm
    <3>3. CASE v[1] = i
      <4>1. m_currentTerm'[i] = term /\ term >= m_currentTerm[i] /\ m_currentTerm[i] \in Nat
        BY <1>1 DEF HearsOfTerm
      <4>2. term = m_currentTerm[i] => m_votedFor'[i] = m_votedFor[i]
        BY <1>1 DEF HearsOfTerm
      <4> QED BY <1>3, <3>1, <3>3, <4>1, <4>2
    <3> QED BY <3>2, <3>3
  <2> QED BY <1>2, <2>1 DEF ElectionInv, VotesRecorded, OneVotePerTerm, Campaigned
<1>5. VotesAskedFor' /\ AskedOnce'
  BY <1>2, RpcsOfVotesKept
<1>6. ASSUME NEW j \in Server
      PROVE  /\ m_status'[j] = "Leader" => Campaigned(j, m_currentTerm[j])' /\ m_currentTerm'[j] = m_currentTerm[j]
             /\ Campaigned(j, m_currentTerm[j])' => votedNum'[j] + Spent(j)' <= Cardinality(Settled(j)')
  <2>1. CASE m_currentTerm'[j] # m_currentTerm[j]
    <3>1. j = i /\ m_currentTerm'[j] = term /\ term > m_currentTerm[j] /\ m_status'[j] = "Follower"
      BY <1>1, <2>1 DEF HearsOfTerm
    <3>2. ~Campaigned(j, term)
      BY <3>1, NotYetCampaigned
    <3> QED BY <1>2, <3>1, <3>2 DEF Campaigned
  <2>2. CASE m_currentTerm'[j] = m_currentTerm[j]
    <3>1. m_status'[j] = "Leader" => m_status[j] = "Leader"
      BY <1>1 DEF HearsOfTerm
    <3>2. Campaigned(j, m_currentTerm[j])' <=> Campaigned(j, m_currentTerm[j])
      BY <1>2, <2>2 DEF Campaigned
    <3>3. /\ Cardinality(Settled(j)) \in Nat /\ Cardinality(Settled(j)') \in Nat
          /\ Cardinality(Settled(j)) <= Cardinality(Settled(j)')
      BY <1>2, <2>2, NoNewAwaited, SettledGrows
    <3>4. Spent(j) \in Nat /\ Spent(j)' \in Nat /\ Spent(j)' <= Spent(j) /\ votedNum[j] \in Nat
      BY <1>1, <3>1, QuorumIsMajority DEF Spent
    <3>5. /\ m_status[j] = "Leader" => Campaigned(j, m_currentTerm[j])
          /\ Campaigned(j, m_currentTerm[j]) => votedNum[j] + Spent(j) <= Cardinality(Settled(j))
      BY DEF ElectionInv, VotesCountedOnce
    <3> QED BY <1>2, <2>2, <3>1, <3>2, <3>3, <3>4, <3>5
  <2> QED BY <2>1, <2>2
<1>7. VotesCountedOnce'
  BY <1>6 DEF VotesCountedOnce
<1> QED BY <1>4, <1>5, <1>7 DEF ElectionInv

LEMMA DoElectionKeepsElectionInv ==
    ASSUME IndexInv, ElectionInv, NEW i \in Server, DoElection(i)
    PROVE  ElectionInv'
<1> DEFINE term == m_currentTerm[i] + 1
           own == <<i, term, i>>
<1>1. /\ m_currentTerm \in [Server -> Nat] /\ m_votedFor \in [Server -> Server \cup {Nobody}]
      /\ m_status \in [Server -> {"Follower", "Candidate", "Leader"}]
      /\ votes \subseteq Server \X Nat \X Server /\ votedNum \in [Server -> Nat]
      /\ term \in Nat /\ term > m_currentTerm[i]
  BY DEF IndexInv, TypeOK, VoteTypes
<1>2. /\ m_currentTerm' = [m_currentTerm EXCEPT ![i] = term]
      /\ m_votedFor' = [m_votedFor EXCEPT ![i] = i]
      /\ m_status' = [m_status EXCEPT ![i] = "Candidate"]
      /\ votedNum' = [votedNum EXCEPT ![i] = 1]
      /\ votes' = votes \cup {own}
  BY DEF DoElection
<1>3. PICK S \in SUBSET (Server \ {i}) : rpcs' = rpcs \cup {VoteRequest(i, j) : j \in S}
  BY DEF DoElection
<1>4. /\ ~Campaigned(i, term)
      /\ \A v \in votes : v[1] = i => v[2] # term
  BY <1>1, NotYetCampaigned
<1>5. own[1] = i /\ own[2] = term /\ own[3] = i
  OBVIOUS
<1> HIDE DEF own
<1>6. VotesRecorded'
  <2>1. ASSUME NEW v \in votes
        PROVE  v[2] <= m_currentTerm'[v[1]] /\ (v[2] = m_currentTerm'[v[1]] => m_votedFor'[v[1]] = v[3])
    <3>1. /\ v[2] <= m_currentTerm[v[1]]
          /\ v[2] = m_currentTerm[v[1]] => m_votedFor[v[1]] = v[3]
          /\ v[1] \in Server /\ v[2] \in Nat
      BY <1>1 DEF ElectionInv, VotesRecorded
    <3>2. CASE v[1] # i
      BY <1>1, <1>2, <3>1, <3>2
    <3>3. CASE v[1] = i
      <4>1. m_currentTerm'[i] = term /\ m_currentTerm[i] \in Nat
        BY <1>1, <1>2
      <4> QED BY <1>1, <1>4, <3>1, <3>3, <4>1
    <3> QED BY <3>2, <3>3
  <2>2. m_currentTerm'[i] = term /\ m_votedFor'[i] = i
    BY <1>1, <1>2
  <2>3. \A v \in votes' : Campaigned(v[3], v[2])'
    <3>1. \A v \in votes : <<v[3], v[2], v[3]>> \in votes'
      BY <1>2 DEF ElectionInv, VotesRecorded, Campaigned
    <3>2. <<own[3], own[2], own[3]>> \in votes'
      BY <1>2, <1>5 DEF own
    <3> QED BY <1>2, <3>1, <3>2 DEF Campaigned
  <2> QED BY <1>1, <1>2, <1>5, <2>1, <2>2, <2>3 DEF VotesRecorded
<1>7. OneVotePerTerm'
  BY <1>2, <1>4, <1>5 DEF ElectionInv, OneVotePerTerm
<1>8. \A j \in S : /\ VoteRequest(i, j).kind = "RequestVote" /\ VoteRequest(i, j).from = i
                   /\ VoteRequest(i, j).to = j /\ VoteRequest(i, j).term = term /\ i # j
  BY <1>3 DEF VoteRequest
<1>9. VotesAskedFor'
  <2>1. ASSUME NEW r \in rpcs, CarriesVote(r)
        PROVE  /\ r.from # r.to /\ Campaigned(r.from, r.term)'
               /\ r.kind = "RequestVoteReply" => <<r.to, r.term, r.from>> \in votes'
    BY <1>2, <2>1 DEF ElectionInv, VotesAskedFor, Campaigned
  <2>2. <<i, term, i>> \in votes'
    BY <1>2 DEF own
  <2>3. ASSUME NEW r \in rpcs', r \notin rpcs
        PROVE  r.from # r.to /\ Campaigned(r.from, r.term)' /\ r.kind # "RequestVoteReply"
    <3>1. PICK j \in S : r = VoteRequest(i, j)
      BY <1>3, <2>3
    <3>2. r.from = i /\ r.to = j /\ r.term = term /\ i # j /\ r.kind = "RequestVote"
      BY <1>8, <3>1
    <3>3. <<r.from, r.term, r.from>> \in votes'
      BY <2>2, <3>2
    <3> QED BY <3>2, <3>3 DEF Campaigned
  <2>4. \A r \in rpcs' : CarriesVote(r)' <=> CarriesVote(r)
    BY DEF CarriesVote
  <2> QED BY <2>1, <2>3, <2>4 DEF VotesAskedFor
<1>10. \A r \in rpcs : CarriesVote(r) => ~(r.from = i /\ r.term = term)
  BY <1>4 DEF ElectionInv, VotesAskedFor
<1>11. AskedOnce'
  <2>1. ASSUME NEW r \in rpcs', NEW q \in rpcs', CarriesVote(r), CarriesVote(q),
               r.from = q.from, r.to = q.to, r.term = q.term
        PROVE  r = q
    <3>1. CASE r \in rpcs /\ q \in rpcs
      BY <2>1, <3>1 DEF ElectionInv, AskedOnce
    <3>2. CASE r \notin rpcs
      <4>1. PICK j \in S : r = VoteRequest(i, j)
        BY <1>3, <3>2
      <4>2. q \notin rpcs
        BY <1>8, <1>10, <2>1, <4>1
      <4>3. PICK k \in S : q = VoteRequest(i, k)
        BY <1>3, <4>2
      <4> QED BY <1>8, <2>1, <4>1, <4>3
    <3>3. CASE r \in rpcs /\ q \notin rpcs
      <4>1. PICK j \in S : q = VoteRequest(i, j)
        BY <1>3, <3>3
      <4> QED BY <1>8, <1>10, <2>1, <3>3, <4>1
    <3> QED BY <3>1, <3>2, <3>3
  <2>2. \A r \in rpcs' : CarriesVote(r)' <=> CarriesVote(r)
    BY DEF CarriesVote
  <2> QED BY <2>1, <2>2 DEF AskedOnce
<1>12. ASSUME NEW j \in Server
       PROVE  /\ m_status'[j] = "Leader" => Campaigned(j, m_currentTerm[j])'
              /\ Campaigned(j, m_currentTerm[j])' => votedNum'[j] + Spent(j)' <= Cardinality(Settled(j)')
  <2>1. CASE j = i
    <3>1. m_status'[i] = "Candidate" /\ votedNum'[i] = 1 /\ m_currentTerm'[i] = term
      BY <1>1, <1>2
    <3>2. i \in Settled(i)'
      <4>1. <<i, m_currentTerm'[i], i>> \in votes'
        BY <1>2, <3>1 DEF own
      <4>2. ~Awaited(i, i, m_currentTerm[i])'
        <5>1. ASSUME NEW r \in rpcs', CarriesVote(r)', r.from = i, r.to = i PROVE FALSE
          BY <1>9, <5>1 DEF VotesAskedFor
        <5> QED BY <5>1 DEF Awaited
      <4> QED BY <4>1, <4>2 DEF Settled
    <3>3. Cardinality({i}) = 1
      BY FS_Singleton
    <3>4. Settled(i)' \in SUBSET Server /\ {i} \in SUBSET Settled(i)'
      BY <3>2 DEF Settled
    <3>5. Cardinality(Settled(i)') \in Nat /\ 1 <= Cardinality(Settled(i)')
      BY <3>3, <3>4, SubsetOfServers
    <3> QED BY <2>1, <3>1, <3>5 DEF Spent
  <2>2. CASE j # i
    <3>1. m_status'[j] = m_status[j] /\ votedNum'[j] = votedNum[j] /\ m_currentTerm'[j] = m_currentTerm[j]
      BY <1>1, <1>2, <2>2
    <3>2. Campaigned(j, m_currentTerm[j])' <=> Campaigned(j, m_currentTerm[j])
      BY <1>2, <2>2, <3>1 DEF Campaigned, own
    <3>3. \A k \in Server : Awaited(j, k, m_currentTerm[j])' => Awaited(j, k, m_currentTerm[j])
      BY <1>3, <1>8, <2>2, <3>1 DEF Awaited, CarriesVote
    <3>4. /\ Cardinality(Settled(j)) \in Nat /\ Cardinality(Settled(j)') \in Nat
          /\ Cardinality(Settled(j)) <= Cardinality(Settled(j)')
      BY <1>2, <3>1, <3>3, SettledGrows
    <3>5. Spent(j)' = Spent(j) /\ Spent(j) \in Nat /\ votedNum[j] \in Nat
      BY <1>1, <3>1, QuorumIsMajority DEF Spent
    <3>6. /\ m_status[j] = "Leader" => Campaigned(j, m_currentTerm[j])
          /\ Campaigned(j, m_currentTerm[j]) => votedNum[j] + Spent(j) <= Cardinality(Settled(j))
      BY DEF ElectionInv, VotesCountedOnce
    <3> QED BY <3>1, <3>2, <3>4, <3>5, <3>6
  <2> QED BY <2>1, <2>2
<1>13. VotesCountedOnce'
  BY <1>12 DEF VotesCountedOnce
<1> QED BY <1>6, <1>7, <1>9, <1>11, <1>13 DEF ElectionInv

LEMMA HandleRequestVoteKeepsElectionInv ==
    ASSUME IndexInv, ElectionInv, NEW r \in rpcs, HandleRequestVote(r)
    PROVE  ElectionInv'
<1> DEFINE i == r.to
           c == r.from
           term == Larger(r.term, m_currentTerm[i])
           granted == GrantsVote(r)
           answer == VoteReply(r, term, granted)
           cast == <<i, term, c>>
<1>1. /\ m_currentTerm \in [Server -> Nat] /\ m_votedFor \in [Server -> Server \cup {Nobody}]
      /\ m_status \in [Server -> {"Follower", "Candidate", "Leader"}]
      /\ votes \subseteq Server \X Nat \X Server /\ votedNum \in [Server -> Nat]
  BY DEF IndexInv, TypeOK, VoteTypes
<1>2. i \in Server /\ c \in Server /\ r.term \in Nat
  BY RpcFields DEF IndexInv, TypeOK
<1>3. /\ term \in Nat /\ term >= m_currentTerm[i] /\ granted \in BOOLEAN
      /\ granted => term = r.term
      /\ r.term > m_currentTerm[i] => term = r.term
      /\ ~(r.term > m_currentTerm[i]) => term = m_currentTerm[i]
  BY <1>1, <1>2 DEF Larger, GrantsVote
<1>4. /\ m_currentTerm' = [m_currentTerm EXCEPT ![i] = term]
      /\ m_status' = [m_status EXCEPT ![i] = IF r.term > m_currentTerm[i] THEN "Follower" ELSE @]
      /\ m_votedFor' = [m_votedFor EXCEPT ![i] = IF granted THEN c ELSE EarlierVote(r)]
      /\ votes' = IF granted THEN votes \cup {cast} ELSE votes
      /\ rpcs' = (rpcs \ {r}) \cup {answer}
      /\ votedNum' = votedNum
  BY DEF HandleRequestVote, Answer
<1>5. /\ CarriesVote(r) /\ c # i /\ Campaigned(c, r.term)
  BY DEF HandleRequestVote, Request, CarriesVote, ElectionInv, VotesAskedFor
<1>6. /\ answer.from = c /\ answer.to = i /\ answer.term = term
      /\ answer.kind = "RequestVoteReply" /\ answer.granted = granted
  BY DEF VoteReply
<1>7. cast[1] = i /\ cast[2] = term /\ cast[3] = c
  OBVIOUS
<1>8. granted => EarlierVote(r) \in {Nobody, c}
  BY DEF GrantsVote
<1>9. ~(r.term > m_currentTerm[i]) => EarlierVote(r) = m_votedFor[i]
  BY DEF EarlierVote
<1> HIDE DEF i, c, term, granted, answer, cast
\* A vote the node has cast in the term it ends up in is the one it now has.
<1>10. ASSUME NEW v \in votes
       PROVE  /\ v[2] <= m_currentTerm'[v[1]]
              /\ v[2] = m_currentTerm'[v[1]] => m_votedFor'[v[1]] = v[3]
              /\ granted /\ v[1] = i /\ v[2] = term => v[3] = c
  <2>1. /\ v[2] <= m_currentTerm[v[1]]
        /\ v[2] = m_currentTerm[v[1]] => m_votedFor[v[1]] = v[3]
        /\ v[1] \in Server /\ v[2] \in Nat /\ v[3] \in Server
    BY <1>1 DEF ElectionInv, VotesRecorded
  <2>2. CASE v[1] # i
    BY <1>1, <1>4, <2>1, <2>2
  <2>3. CASE v[1] = i
    <3>1. m_currentTerm'[i] = term /\ m_currentTerm[i] \in Nat
          /\ m_votedFor'[i] = IF granted THEN c ELSE EarlierVote(r)
      BY <1>1, <1>2, <1>4
    <3>2. v[2] <= term
      BY <1>3, <2>1, <2>3, <3>1
    <3>3. ASSUME v[2] = term
          PROVE  m_votedFor'[i] = v[3] /\ (granted => v[3] = c)
      <4>1. term = m_currentTerm[i]
        BY <1>3, <2>1, <2>3, <3>1, <3>3
      <4>2. ~(r.term > m_currentTerm[i])
        BY <1>2, <1>3, <3>1, <4>1
      <4>3. EarlierVote(r) = v[3]
        BY <1>9, <2>1, <2>3, <3>3, <4>1, <4>2
      <4>4. v[3] # Nobody
        BY <2>1, NobodyAssumption
      <4> QED BY <1>8, <3>1, <4>3, <4>4
    <3> QED BY <2>3, <3>1, <3>2, <3>3
  <2> QED BY <2>2, <2>3
<1>11. VotesRecorded'
  <2>1. m_currentTerm'[i] = term /\ (granted => m_votedFor'[i] = c)
    BY <1>1, <1>2, <1>4
  <2>2. \A v \in votes : <<v[3], v[2], v[3]>> \in votes'
    BY <1>4 DEF ElectionInv, VotesRecorded, Campaigned
  <2>3. granted => <<c, term, c>> \in votes'
    BY <1>3, <1>4, <1>5 DEF Campaigned
  <2>4. ASSUME NEW v \in votes'
        PROVE  /\ v[2] <= m_currentTerm'[v[1]]
               /\ v[2] = m_currentTerm'[v[1]] => m_votedFor'[v[1]] = v[3]
               /\ <<v[3], v[2], v[3]>> \in votes'
    <3>1. CASE v \in votes
      BY <1>10, <2>2, <3>1
    <3>2. CASE granted /\ v = cast
      BY <1>3, <1>7, <2>1, <2>3, <3>2
    <3> QED BY <1>4, <3>1, <3>2
  <2> QED BY <2>4 DEF VotesRecorded, Campaigned
<1>12. OneVotePerTerm'
  BY <1>4, <1>7, <1>10 DEF ElectionInv, OneVotePerTerm
<1>13. CarriesVote(answer) <=> granted
  BY <1>6 DEF CarriesVote
<1>14. VotesAskedFor'
  <2>1. ASSUME NEW q \in rpcs, CarriesVote(q)
        PROVE  /\ q.from # q.to /\ Campaigned(q.from, q.term)'
               /\ q.kind = "RequestVoteReply" => <<q.to, q.term, q.from>> \in votes'
    BY <1>4, <2>1 DEF ElectionInv, VotesAskedFor, Campaigned
  <2>2. ASSUME NEW q \in rpcs', q = answer, CarriesVote(q)
        PROVE  /\ q.from # q.to /\ Campaigned(q.from, q.term)'
               /\ <<q.to, q.term, q.from>> \in votes'
    <3>1. granted /\ q.from = c /\ q.to = i /\ q.term = term
      BY <1>6, <1>13, <2>2
    <3>2. <<i, term, c>> \in votes' /\ <<c, term, c>> \in votes'
      BY <1>3, <1>4, <1>5, <3>1 DEF cast, Campaigned
    <3> QED BY <1>5, <3>1, <3>2 DEF Campaigned
  <2>3. \A q \in rpcs' : CarriesVote(q)' <=> CarriesVote(q)
    BY DEF CarriesVote
  <2> QED BY <1>4, <2>1, <2>2, <2>3 DEF VotesAskedFor
\* The answer takes the place of the request.
<1>15. \A q \in rpcs : CarriesVote(q) /\ q.from = c /\ q.to = i /\ q.term = r.term => q = r
  BY <1>5 DEF ElectionInv, AskedOnce, c, i
<1>16. AskedOnce'
  <2>1. ASSUME NEW q \in rpcs', NEW s \in rpcs', CarriesVote(q), CarriesVote(s),
               q.from = s.from, q.to = s.to, q.term = s.term
        PROVE  q = s
    <3>1. CASE q \in rpcs \ {r} /\ s \in rpcs \ {r}
      BY <2>1, <3>1 DEF ElectionInv, AskedOnce
    <3>2. CASE q = answer /\ s \in rpcs \ {r}
      BY <1>3, <1>6, <1>13, <1>15, <2>1, <3>2
    <3>3. CASE q \in rpcs \ {r} /\ s = answer
      BY <1>3, <1>6, <1>13, <1>15, <2>1, <3>3
    <3> QED BY <1>4, <3>1, <3>2, <3>3
  <2>2. \A q \in rpcs' : CarriesVote(q)' <=> CarriesVote(q)
    BY DEF CarriesVote
  <2> QED BY <2>1, <2>2 DEF AskedOnce
<1>17. \A k, j, t : Awaited(k, j, t)' => Awaited(k, j, t)
  BY <1>3, <1>4, <1>5, <1>6, <1>13 DEF Awaited, CarriesVote, c, i
<1>18. \A j, t : <<j, t, j>> \in votes' <=> <<j, t, j>> \in votes
  BY <1>4, <1>5 DEF cast
<1>19. ASSUME NEW j \in Server
       PROVE  /\ m_status'[j] = "Leader" => Campaigned(j, m_currentTerm[j])'
              /\ Campaigned(j, m_currentTerm[j])' => votedNum'[j] + Spent(j)' <= Cardinality(Settled(j)')
  <2>1. CASE m_currentTerm'[j] # m_currentTerm[j]
    <3>1. j = i /\ m_currentTerm'[j] = term /\ term > m_currentTerm[j] /\ r.term > m_currentTerm[i]
      BY <1>1, <1>2, <1>3, <1>4, <2>1
    <3>2. m_status'[j] = "Follower"
      BY <1>1, <1>4, <3>1
    <3>3. ~Campaigned(j, term)
      BY <1>3, <3>1, NotYetCampaigned
    <3> QED BY <1>18, <3>1, <3>2, <3>3 DEF Campaigned
  <2>2. CASE m_currentTerm'[j] = m_currentTerm[j]
    <3>1. m_status'[j] \in {m_status[j], "Follower"}
      BY <1>1, <1>2, <1>4
    <3>2. Campaigned(j, m_currentTerm[j])' <=> Campaigned(j, m_currentTerm[j])
      BY <1>18, <2>2 DEF Campaigned
    <3>3. /\ Cardinality(Settled(j)) \in Nat /\ Cardinality(Settled(j)') \in Nat
          /\ Cardinality(Settled(j)) <= Cardinality(Settled(j)')
      BY <1>4, <1>17, <2>2, SettledGrows
    <3>4. Spent(j) \in Nat /\ Spent(j)' \in Nat /\ Spent(j)' <= Spent(j) /\ votedNum[j] \in Nat
      BY <1>1, <3>1, QuorumIsMajority DEF Spent
    <3>5. /\ m_status[j] = "Leader" => Campaigned(j, m_currentTerm[j])
          /\ Campaigned(j, m_currentTerm[j]) => votedNum[j] + Spent(j) <= Cardinality(Settled(j))
      BY DEF ElectionInv, VotesCountedOnce
    <3> QED BY <1>4, <3>1, <3>2, <3>3, <3>4, <3>5
  <2> QED BY <2>1, <2>2
<1>20. VotesCountedOnce'
  BY <1>19 DEF VotesCountedOnce
<1> QED BY <1>11, <1>12, <1>14, <1>16, <1>20 DEF ElectionInv

\* Counting a vote settles its voter: no other answer of that voter is left.
LEMMA CountingSettles ==
    ASSUME IndexInv, ElectionInv, NEW r \in rpcs, CountableVote(r),
           rpcs' = rpcs \ {r}, UNCHANGED <<votes, m_currentTerm>>
    PROVE  /\ Campaigned(r.from, m_currentTerm[r.from])
           /\ Cardinality(Settled(r.from)) \in Nat /\ Cardinality(Settled(r.from)') \in Nat
           /\ Cardinality(Settled(r.from)) + 1 <= Cardinality(Settled(r.from)')
           /\ Cardinality(Settled(r.from)) + 1 <= Cardinality(Server)
<1> DEFINE i == r.from
           S == Settled(i)
           T == Settled(i)'
<1>1. /\ CarriesVote(r) /\ r.kind = "RequestVoteReply" /\ r.term = m_currentTerm[i]
      /\ i \in Server /\ r.to \in Server
  BY RpcFields DEF CountableVote, Reply, CarriesVote, IndexInv, TypeOK
<1>2. Campaigned(i, m_currentTerm[i]) /\ <<r.to, m_currentTerm[i], i>> \in votes
  BY <1>1 DEF ElectionInv, VotesAskedFor
<1>3. r.to \notin S
  BY <1>1 DEF Settled, Awaited
<1>4. ~Awaited(i, r.to, m_currentTerm[i])'
  <2>1. ASSUME NEW q \in rpcs', CarriesVote(q), q.from = i, q.to = r.to, q.term = m_currentTerm[i] PROVE FALSE
    BY <1>1, <2>1 DEF ElectionInv, AskedOnce
  <2> QED BY <2>1 DEF Awaited, CarriesVote
<1>5. S \cup {r.to} \subseteq T
  <2>1. r.to \in T
    BY <1>1, <1>2, <1>4 DEF Settled
  <2>2. S \subseteq T
    BY DEF Settled, Awaited, CarriesVote
  <2> QED BY <2>1, <2>2
<1>6. S \cup {r.to} \in SUBSET Server /\ T \in SUBSET Server
  BY <1>1 DEF Settled
<1>7. IsFiniteSet(S)
  BY <1>1, SettledIsFinite
<1> HIDE DEF S, T
<1>8. Cardinality(S \cup {r.to}) = Cardinality(S) + 1
  BY <1>3, <1>7, FS_AddElement
<1>9. /\ Cardinality(T) \in Nat /\ Cardinality(S \cup {r.to}) <= Cardinality(T)
  BY <1>5, <1>6, SubsetOfServers
<1>10. Cardinality(S \cup {r.to}) <= Cardinality(Server)
  BY <1>6, SubsetOfServers
<1>11. Cardinality(S) \in Nat
  BY <1>7, FS_CardinalityType
<1> QED BY <1>2, <1>8, <1>9, <1>10, <1>11 DEF S, T

\* What lets the assertion of sendRequestVote hold: a leader cannot be brought
\* to a second majority by the votes its election left over.
LEMMA NoSecondMajority ==
    ASSUME IndexInv, ElectionInv, NEW r \in rpcs, CountableVote(r), Majority(votedNum[r.from] + 1)
    PROVE  m_status[r.from] # "Leader"
<1> DEFINE i == r.from
           q == (Cardinality(Server) \div 2) + 1
<1>1. i \in Server /\ votedNum[i] \in Nat
  BY RpcFields DEF IndexInv, TypeOK, VoteTypes
<1>2. Campaigned(i, m_currentTerm[i])
  BY DEF CountableVote, Reply, CarriesVote, ElectionInv, VotesAskedFor
<1>3. Cardinality(Settled(i)) \in Nat /\ Cardinality(Settled(i)) + 1 <= Cardinality(Server)
  <2>1. r.to \in Server /\ r.to \notin Settled(i)
    BY RpcFields DEF CountableVote, Reply, CarriesVote, Settled, Awaited, IndexInv, TypeOK
  <2>2. IsFiniteSet(Settled(i)) /\ Settled(i) \cup {r.to} \in SUBSET Server
    BY <1>1, <2>1, SettledIsFinite DEF Settled
  <2>3. Cardinality(Settled(i) \cup {r.to}) = Cardinality(Settled(i)) + 1
    BY <2>1, <2>2, FS_AddElement
  <2>4. Cardinality(Settled(i) \cup {r.to}) <= Cardinality(Server)
    <3> DEFINE S == Settled(i) \cup {r.to}
    <3> HIDE DEF S
    <3>1. S \in SUBSET Server
      BY <2>2 DEF S
    <3>2. Server \in SUBSET Server
      OBVIOUS
    <3> QED BY <3>1, <3>2, SubsetOfServers DEF S
  <2> QED BY <1>1, <2>3, <2>4, SettledIsFinite
<1>4. votedNum[i] + Spent(i) <= Cardinality(Settled(i))
  BY <1>1, <1>2 DEF ElectionInv, VotesCountedOnce
<1>5. votedNum[i] + 1 >= q
  BY DEF Majority
<1>6. q \in Nat /\ 2 * q > Cardinality(Server) /\ Cardinality(Server) \in Nat
  BY QuorumIsMajority
<1>7. m_status[i] = "Leader" => Spent(i) = q
  BY DEF Spent
<1> HIDE DEF q, i
<1>8. m_status[i] # "Leader"
  BY <1>1, <1>3, <1>4, <1>5, <1>6, <1>7
<1> QED BY <1>8 DEF i

LEMMA CountingKeepsElectionInv ==
    ASSUME IndexInv, ElectionInv, NEW r \in rpcs, CountVote(r) \/ BecomeLeader(r)
    PROVE  ElectionInv'
<1> DEFINE i == r.from
           q == (Cardinality(Server) \div 2) + 1
<1>1. /\ m_status \in [Server -> {"Follower", "Candidate", "Leader"}] /\ votedNum \in [Server -> Nat]
      /\ i \in Server
  BY RpcFields DEF IndexInv, TypeOK, VoteTypes
<1>2. CountableVote(r) /\ rpcs' = rpcs \ {r} /\ UNCHANGED <<m_currentTerm, m_votedFor, votes>>
  BY DEF CountVote, BecomeLeader, Finish, voteVars
<1>3. VotesRecorded' /\ OneVotePerTerm'
  BY <1>2 DEF ElectionInv, VotesRecorded, OneVotePerTerm, Campaigned
<1>4. NoNewVoteRpc
  BY <1>2 DEF NoNewVoteRpc
<1>5. VotesAskedFor' /\ AskedOnce'
  BY <1>2, <1>4, RpcsOfVotesKept
<1>6. q \in Nat
  BY QuorumIsMajority
<1>7. votedNum'[i] + Spent(i)' <= Cardinality(Settled(i)')
  <2>1. /\ Campaigned(i, m_currentTerm[i])
        /\ Cardinality(Settled(i)) \in Nat /\ Cardinality(Settled(i)') \in Nat
        /\ Cardinality(Settled(i)) + 1 <= Cardinality(Settled(i)')
    BY <1>2, CountingSettles
  <2>2. votedNum[i] + Spent(i) <= Cardinality(Settled(i)) /\ votedNum[i] \in Nat /\ Spent(i) \in Nat
    BY <1>1, <1>6, <2>1 DEF ElectionInv, VotesCountedOnce, Spent
  <2>3. CASE CountVote(r)
    <3>1. votedNum'[i] = votedNum[i] + 1 /\ Spent(i)' = Spent(i)
      BY <1>1, <2>3 DEF CountVote, CounterAfter, Spent, voteVars
    <3> QED BY <2>1, <2>2, <3>1
  <2>4. CASE BecomeLeader(r)
    <3>1. votedNum'[i] = 0 /\ m_status'[i] = "Leader" /\ Majority(votedNum[i] + 1)
      BY <1>1, <2>4 DEF BecomeLeader, CounterAfter
    <3>2. m_status[i] # "Leader"
      BY <1>2, <3>1, NoSecondMajority
    <3>3. Spent(i)' = q /\ q <= votedNum[i] + 1
      BY <3>1 DEF Spent, Majority
    <3> HIDE DEF q
    <3> QED BY <1>6, <2>1, <2>2, <3>1, <3>3
  <2> QED BY <2>3, <2>4
<1>8. Campaigned(i, m_currentTerm[i])
  BY <1>2, CountingSettles
<1>9. ASSUME NEW j \in Server
      PROVE  /\ m_status'[j] = "Leader" => Campaigned(j, m_currentTerm[j])'
             /\ Campaigned(j, m_currentTerm[j])' => votedNum'[j] + Spent(j)' <= Cardinality(Settled(j)')
  <2>1. CASE j = i
    BY <1>2, <1>7, <1>8, <2>1 DEF Campaigned
  <2>2. CASE j # i
    <3>1. m_status'[j] = m_status[j] /\ votedNum'[j] = votedNum[j]
      BY <1>1, <2>2 DEF CountVote, BecomeLeader, voteVars
    <3>2. Campaigned(j, m_currentTerm[j])' <=> Campaigned(j, m_currentTerm[j])
      BY <1>2 DEF Campaigned
    <3>3. /\ Cardinality(Settled(j)) \in Nat /\ Cardinality(Settled(j)') \in Nat
          /\ Cardinality(Settled(j)) <= Cardinality(Settled(j)')
      BY <1>2, <1>4, NoNewAwaited, SettledGrows
    <3>4. Spent(j)' = Spent(j) /\ Spent(j) \in Nat /\ votedNum[j] \in Nat
      BY <1>1, <3>1, QuorumIsMajority DEF Spent
    <3>5. /\ m_status[j] = "Leader" => Campaigned(j, m_currentTerm[j])
          /\ Campaigned(j, m_currentTerm[j]) => votedNum[j] + Spent(j) <= Cardinality(Settled(j))
      BY DEF ElectionInv, VotesCountedOnce
    <3> QED BY <3>1, <3>2, <3>3, <3>4, <3>5
  <2> QED BY <2>1, <2>2
<1>10. VotesCountedOnce'
  BY <1>9 DEF VotesCountedOnce
<1> QED BY <1>3, <1>5, <1>10 DEF ElectionInv

---------------------------------------------------------------------------
(* The theorems.                                                           *)

LEMMA InitElectionInv == Init => ElectionInv
<1> SUFFICES ASSUME Init PROVE ElectionInv
  OBVIOUS
<1>1. VotesRecorded /\ OneVotePerTerm /\ VotesAskedFor /\ AskedOnce
  BY DEF Init, VotesRecorded, OneVotePerTerm, VotesAskedFor, AskedOnce
<1>2. VotesCountedOnce
  BY DEF Init, VotesCountedOnce, Campaigned
<1> QED BY <1>1, <1>2 DEF ElectionInv

\* Votes are given, asked for and counted once (raft.cpp:194-323, 328-413).
THEOREM ElectionInvariance == Spec => []ElectionInv
<1>1. IndexInv /\ ElectionInv /\ [Next]_vars => ElectionInv'
  <2> SUFFICES ASSUME IndexInv, ElectionInv, [Next]_vars PROVE ElectionInv'
    OBVIOUS
  <2>1. ElectionStep
    BY ElectionSteps
  <2> QED BY <2>1, IdleKeepsElectionInv, HearingKeepsElectionInv, DoElectionKeepsElectionInv,
             HandleRequestVoteKeepsElectionInv, CountingKeepsElectionInv DEF ElectionStep
<1> QED BY <1>1, InitElectionInv, IndexInvariance, PTL DEF Spec

\* The votes for two leaders of one term would share a voter.
LEMMA LeadersOfATerm == IndexInv /\ ElectionInv => ElectionSafety
<1> SUFFICES ASSUME IndexInv, ElectionInv, NEW i \in Server, NEW j \in Server,
                    Leads(i), Leads(j), m_currentTerm[i] = m_currentTerm[j]
             PROVE  i = j
  BY DEF ElectionSafety
<1> DEFINE q == (Cardinality(Server) \div 2) + 1
<1>1. ASSUME NEW k \in Server, Leads(k)
      PROVE  Cardinality(Settled(k)) \in Nat /\ Cardinality(Settled(k)) >= q
  <2>1. votedNum[k] + q <= Cardinality(Settled(k)) /\ votedNum[k] \in Nat
    BY <1>1 DEF Leads, ElectionInv, VotesCountedOnce, Spent, IndexInv, TypeOK, VoteTypes
  <2>2. Cardinality(Settled(k)) \in Nat /\ q \in Nat
    BY SettledIsFinite, QuorumIsMajority
  <2> HIDE DEF q
  <2> QED BY <2>1, <2>2
<1>2. q \in Nat /\ 2 * q > Cardinality(Server) /\ Cardinality(Server) \in Nat
  BY QuorumIsMajority
<1>3. Cardinality(Settled(i)) + Cardinality(Settled(j)) > Cardinality(Server)
  <2>1. /\ Cardinality(Settled(i)) \in Nat /\ Cardinality(Settled(i)) >= q
        /\ Cardinality(Settled(j)) \in Nat /\ Cardinality(Settled(j)) >= q
    BY <1>1
  <2> HIDE DEF q
  <2> QED BY <1>2, <2>1
<1>4. Settled(i) \subseteq Server /\ Settled(j) \subseteq Server
  BY DEF Settled
<1>5. PICK p : p \in Settled(i) /\ p \in Settled(j)
  BY <1>3, <1>4, ServerAssumption, FS_MajoritiesIntersect
<1>6. <<p, m_currentTerm[i], i>> \in votes /\ <<p, m_currentTerm[i], j>> \in votes
  BY <1>5 DEF Settled
<1>7. \A v, w \in votes : v[1] = w[1] /\ v[2] = w[2] => v[3] = w[3]
  BY DEF ElectionInv, OneVotePerTerm
<1> QED BY <1>6, <1>7

\* At most one node leads in a term, whatever becomes of the vote RPCs and of
\* the candidate while they travel (raft.cpp:244-323, 328-413).
THEOREM ElectionSafetyHolds == Spec => []ElectionSafety
BY LeadersOfATerm, IndexInvariance, ElectionInvariance, PTL

\* The assertion at raft.cpp:297-300 never ends a leader's process.
THEOREM NoSecondLeadershipHolds == Spec => []NoSecondLeadership
<1>1. IndexInv /\ ElectionInv => NoSecondLeadership
  BY NoSecondMajority DEF NoSecondLeadership
<1> QED BY <1>1, IndexInvariance, ElectionInvariance, PTL

---------------------------------------------------------------------------
(* The refinement of Voting: each of the six kinds of step casts one ballot, *)
(* takes or gives up one leadership, or is a stutter of Voting.              *)

LeadsMap == [i \in Server |-> LeadsTerm(i)]

VotingStep == V!Next \/ UNCHANGED <<votes, LeadsMap>>

LEMMA VotingTypes ==
    ASSUME IndexInv
    PROVE  /\ m_currentTerm \in [Server -> Nat]
           /\ m_status \in [Server -> {"Follower", "Candidate", "Leader"}]
           /\ m_votedFor \in [Server -> Server \cup {Nobody}]
           /\ votes \subseteq Server \X Nat \X Server
           /\ votedNum \in [Server -> Nat]
BY DEF IndexInv, TypeOK, VoteTypes

\* The voter's ballots are of earlier terms, and it leads none: a ballot.
LEMMA BallotIsCast ==
    ASSUME NEW v \in Server, NEW t \in 1..MaxTerm, NEW c \in Server,
           \A w \in votes : w[1] = v => w[2] < t,
           c = v \/ Campaigned(c, t),
           votes' = votes \cup {<<v, t, c>>},
           LeadsMap' = [LeadsMap EXCEPT ![v] = 0]
    PROVE  VotingStep
<1>1. V!Cast(v, t, c)
  BY DEF V!Cast, Campaigned, LeadsMap
<1> QED BY <1>1 DEF VotingStep, V!Next

\* Only node i changes, and it does not lead afterwards: it gave up what it had.
LEMMA LeadershipGivenUp ==
    ASSUME NEW i \in Server, UNCHANGED votes, LeadsMap' = [LeadsMap EXCEPT ![i] = 0]
    PROVE  VotingStep
<1>1. V!Resign(i)
  BY DEF V!Resign, LeadsMap
<1> QED BY <1>1 DEF VotingStep, V!Next

LEMMA HearingIsVoting ==
    ASSUME IndexInv, NEW i \in Server, NEW term \in Nat, HearsOfTerm(i, term)
    PROVE  VotingStep
<1>1. LeadsMap' = [LeadsMap EXCEPT ![i] = 0]
  BY VotingTypes DEF HearsOfTerm, LeadsMap, LeadsTerm
<1>2. UNCHANGED votes
  BY DEF HearsOfTerm
<1> QED BY <1>1, <1>2, LeadershipGivenUp

LEMMA DoElectionIsVoting ==
    ASSUME IndexInv, ElectionInv, NEW i \in Server, DoElection(i)
    PROVE  VotingStep
<1> DEFINE t == m_currentTerm[i] + 1
<1>1. t \in 1..MaxTerm
  BY VotingTypes, BoundsAssumption DEF DoElection
<1>2. \A w \in votes : w[1] = i => w[2] < t
  BY VotingTypes DEF ElectionInv, VotesRecorded
<1>3. votes' = votes \cup {<<i, t, i>>}
  BY DEF DoElection
<1>4. LeadsMap' = [LeadsMap EXCEPT ![i] = 0]
  BY VotingTypes DEF DoElection, LeadsMap, LeadsTerm
<1> QED BY <1>1, <1>2, <1>3, <1>4, BallotIsCast

\* A leader voted for itself in its term.
LEMMA LeaderVotedForItself ==
    ASSUME ElectionInv, NEW i \in Server, m_status[i] = "Leader"
    PROVE  <<i, m_currentTerm[i], i>> \in votes /\ m_votedFor[i] = i
<1>1. <<i, m_currentTerm[i], i>> \in votes
  BY DEF ElectionInv, VotesCountedOnce, Campaigned
<1> QED BY <1>1 DEF ElectionInv, VotesRecorded

LEMMA HandleRequestVoteIsVoting ==
    ASSUME IndexInv, ElectionInv, NEW r \in rpcs, HandleRequestVote(r),
           \A v \in votes : v[2] \in 1..MaxTerm
    PROVE  VotingStep
<1> DEFINE i == r.to
           newer == r.term > m_currentTerm[i]
<1>1. /\ i \in Server /\ r.from \in Server /\ r.term \in Nat /\ m_currentTerm[i] \in Nat
      /\ r.kind = "RequestVote"
  BY RpcFields, VotingTypes DEF HandleRequestVote, Request, IndexInv, TypeOK
<1>2. r.from # i /\ Campaigned(r.from, r.term)
  BY <1>1 DEF ElectionInv, VotesAskedFor, CarriesVote
<1>3. /\ m_currentTerm' = [m_currentTerm EXCEPT ![i] = Larger(r.term, m_currentTerm[i])]
      /\ m_status' = [m_status EXCEPT ![i] = IF newer THEN "Follower" ELSE @]
      /\ votes' = IF GrantsVote(r) THEN votes \cup {<<i, Larger(r.term, m_currentTerm[i]), r.from>>} ELSE votes
  BY DEF HandleRequestVote
<1>4. LeadsMap' = IF newer THEN [LeadsMap EXCEPT ![i] = 0] ELSE LeadsMap
  BY <1>1, <1>3, VotingTypes DEF LeadsMap, LeadsTerm, Larger
<1>5. CASE ~GrantsVote(r)
  <2>1. UNCHANGED votes
    BY <1>3, <1>5
  <2> QED BY <1>1, <1>4, <2>1, LeadershipGivenUp DEF VotingStep
<1>6. CASE GrantsVote(r)
  <2>1. r.term >= m_currentTerm[i] /\ Larger(r.term, m_currentTerm[i]) = r.term
    BY <1>1, <1>6 DEF GrantsVote, Larger
  <2>2. votes' = votes \cup {<<i, r.term, r.from>>}
    BY <1>3, <1>6, <2>1
  <2>3. r.term \in 1..MaxTerm
    BY <1>2 DEF Campaigned
  <2>4. CASE newer
    <3>1. \A w \in votes : w[1] = i => w[2] < r.term
      BY <1>1, <2>4, VotingTypes DEF ElectionInv, VotesRecorded
    <3> QED BY <1>1, <1>2, <1>4, <2>2, <2>3, <2>4, <3>1, BallotIsCast
  <2>5. CASE ~newer
    <3>1. r.term = m_currentTerm[i]
      BY <1>1, <2>1, <2>5
    <3>2. m_votedFor[i] \in {Nobody, r.from}
      BY <1>6, <2>5 DEF GrantsVote, EarlierVote
    <3>3. m_status[i] # "Leader"
      BY <1>1, <1>2, <3>2, LeaderVotedForItself, NobodyAssumption
    <3>4. CASE <<i, r.term, r.from>> \in votes
      BY <1>4, <2>2, <2>5, <3>4 DEF VotingStep
    <3>5. CASE <<i, r.term, r.from>> \notin votes
      <4>1. ASSUME NEW w \in votes, w[1] = i PROVE w[2] < r.term
        <5>1. w \in Server \X Nat \X Server /\ w = <<w[1], w[2], w[3]>>
          BY VotingTypes
        <5>2. w[2] <= m_currentTerm[i] /\ (w[2] = m_currentTerm[i] => m_votedFor[i] = w[3])
          BY <4>1 DEF ElectionInv, VotesRecorded
        <5>3. w[2] # m_currentTerm[i]
          BY <3>1, <3>2, <3>5, <4>1, <5>1, <5>2, NobodyAssumption
        <5> QED BY <1>1, <3>1, <5>1, <5>2, <5>3
      <4>2. LeadsMap' = [LeadsMap EXCEPT ![i] = 0]
        BY <1>1, <1>4, <2>5, <3>3 DEF LeadsMap, LeadsTerm
      <4> QED BY <1>1, <1>2, <2>2, <2>3, <4>1, <4>2, BallotIsCast
    <3> QED BY <3>4, <3>5
  <2> QED BY <2>4, <2>5
<1> QED BY <1>5, <1>6

\* The vote that makes the majority is a ballot no vote thread has counted yet.
LEMMA BecomeLeaderIsVoting ==
    ASSUME IndexInv, ElectionInv, NEW r \in rpcs, BecomeLeader(r)
    PROVE  VotingStep
<1> DEFINE i == r.from
           t == m_currentTerm[i]
           q == (Cardinality(Server) \div 2) + 1
           voters == {v \in Server : <<v, t, i>> \in votes}
<1>1. i \in Server /\ t \in Nat
  BY RpcFields, VotingTypes DEF IndexInv, TypeOK
<1>2. /\ CountableVote(r) /\ Majority(votedNum[i] + 1)
      /\ rpcs' = rpcs \ {r} /\ UNCHANGED <<m_currentTerm, votes>>
      /\ m_status' = [m_status EXCEPT ![i] = "Leader"]
  BY DEF BecomeLeader, Finish
<1>3. m_status[i] # "Leader"
  BY <1>2, NoSecondMajority
<1>4. LeadsMap[i] = 0 /\ LeadsMap' = [LeadsMap EXCEPT ![i] = t]
  BY <1>1, <1>2, <1>3, VotingTypes DEF LeadsMap, LeadsTerm
<1>5. <<i, t, i>> \in votes
  BY <1>2, CountingSettles DEF Campaigned
<1>6. \A w \in votes : w[1] = i => w[2] <= t
  BY DEF ElectionInv, VotesRecorded
<1>7. Cardinality(voters) >= q
  <2>1. /\ Cardinality(Settled(i)) \in Nat /\ Cardinality(Settled(i)') \in Nat
        /\ Cardinality(Settled(i)) + 1 <= Cardinality(Settled(i)')
    BY <1>2, CountingSettles
  <2>2. votedNum[i] <= Cardinality(Settled(i)) /\ votedNum[i] \in Nat
    BY <1>1, <1>3, <1>5, VotingTypes, <2>1 DEF ElectionInv, VotesCountedOnce, Campaigned, Spent
  <2>3. votedNum[i] + 1 >= q /\ q \in Nat
    BY <1>2, QuorumIsMajority DEF Majority
  <2>4. Settled(i)' \subseteq voters /\ voters \in SUBSET Server
    BY <1>2 DEF Settled
  <2>5. Cardinality(voters) \in Nat /\ Cardinality(Settled(i)') <= Cardinality(voters)
    <3> DEFINE T == Settled(i)'
    <3> HIDE DEF T, voters
    <3> QED BY <2>4, SubsetOfServers DEF T
  <2> HIDE DEF q, voters
  <2> QED BY <2>1, <2>2, <2>3, <2>5
<1>8. V!Lead(i, t)
  <2>1. V!VotersOf(i, t) \in {S \in SUBSET Server : Majority(Cardinality(S))}
    BY <1>7 DEF V!VotersOf, Majority
  <2> QED BY <1>2, <1>4, <1>6, <2>1 DEF V!Lead, LeadsMap
<1>9. \E b \in votes : V!Lead(b[3], b[2])
  BY <1>5, <1>8
<1> QED BY <1>9 DEF VotingStep, V!Next

\* No election is held beyond MaxTerm: the one bound Voting shares with Raft.
TermsOfVotes == \A v \in votes : v[2] \in 1..MaxTerm

LEMMA StepsKeepTermsOfVotes ==
    ASSUME IndexInv, ElectionInv, TermsOfVotes, ElectionStep
    PROVE  TermsOfVotes'
<1>1. CASE UNCHANGED votes
  BY <1>1 DEF TermsOfVotes
<1>2. ASSUME NEW i \in Server, DoElection(i) PROVE TermsOfVotes'
  BY <1>2, VotingTypes, BoundsAssumption DEF DoElection, TermsOfVotes
<1>3. ASSUME NEW r \in rpcs, HandleRequestVote(r) PROVE TermsOfVotes'
  <2>1. r.to \in Server /\ r.term \in Nat /\ m_currentTerm[r.to] \in Nat /\ r.kind = "RequestVote"
    BY <1>3, RpcFields, VotingTypes DEF HandleRequestVote, Request, IndexInv, TypeOK
  <2>2. r.term \in 1..MaxTerm
    BY <2>1 DEF ElectionInv, VotesAskedFor, CarriesVote, Campaigned, TermsOfVotes
  <2>3. GrantsVote(r) => Larger(r.term, m_currentTerm[r.to]) = r.term
    BY <2>1 DEF GrantsVote, Larger
  <2>4. votes' = votes \/ votes' = votes \cup {<<r.to, r.term, r.from>>}
    BY <1>3, <2>3 DEF HandleRequestVote
  <2> QED BY <2>2, <2>4 DEF TermsOfVotes
<1> QED BY <1>1, <1>2, <1>3
        DEF ElectionStep, ElectionIdle, HearsOfTerm, CountVote, BecomeLeader, voteVars

LEMMA StepsAreVoting ==
    ASSUME IndexInv, ElectionInv, TermsOfVotes, ElectionStep
    PROVE  VotingStep
<1>1. CASE ElectionIdle
  BY <1>1 DEF ElectionIdle, voteVars, VotingStep, LeadsMap, LeadsTerm
<1>2. ASSUME NEW r \in rpcs, CountVote(r) PROVE VotingStep
  BY <1>2 DEF CountVote, voteVars, VotingStep, LeadsMap, LeadsTerm
<1> QED BY <1>1, <1>2, HearingIsVoting, DoElectionIsVoting, HandleRequestVoteIsVoting,
           BecomeLeaderIsVoting DEF ElectionStep, TermsOfVotes

\* Every vote a handler of raft.cpp gives is one the voter was free to give, and
\* every leadership rests on a majority of the ballots of its term
\* (raft.cpp:194-323, 328-413).
THEOREM RaftImplementsVoting == Spec => ImplementsVoting
<1>1. Init => V!Init /\ TermsOfVotes
  BY DEF Init, V!Init, TermsOfVotes, LeadsTerm
<1>2. IndexInv /\ ElectionInv /\ TermsOfVotes /\ [Next]_vars => TermsOfVotes'
  BY ElectionSteps, StepsKeepTermsOfVotes
<1>3. IndexInv /\ ElectionInv /\ TermsOfVotes /\ [Next]_vars => [V!Next]_<<votes, LeadsMap>>
  BY ElectionSteps, StepsAreVoting DEF VotingStep
<1>4. <<votes, LeadsMap>> = V!votingVars
  BY DEF V!votingVars, LeadsMap
<1>5. IndexInv /\ ElectionInv /\ TermsOfVotes /\ [Next]_vars => [V!Next]_V!votingVars
  BY <1>3 DEF V!votingVars, LeadsMap
<1> QED BY <1>1, <1>2, <1>5, IndexInvariance, ElectionInvariance, PTL DEF Spec, V!Spec, ImplementsVoting
============================================================================
