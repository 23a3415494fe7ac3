------------------------------ MODULE MCRaft ------------------------------
(***************************************************************************)
(* Instances of Raft for TLC.  Commands are interchangeable, and so are   *)
(* nodes that may campaign and nodes that may not: no definition orders    *)
(* them, so these are symmetry sets.                                       *)
(***************************************************************************)
EXTENDS RaftProperties, TLC

Symmetry == Permutations(Candidates) \cup Permutations(Server \ Candidates) \cup Permutations(Command)

\* States that differ only in values no step and no checked property will read
\* are one state for TLC: the history of votes, the replication indices of a
\* node that does not lead (BecomeLeader sets them all), and the vote counter
\* of a node without a vote thread of its current term (DoElection sets it).
View ==
    LET votesAwaited(i) == \E r \in rpcs :
            r.kind \in {"RequestVote", "RequestVoteReply"} /\ r.from = i /\ r.term = m_currentTerm[i]
    IN  <<m_currentTerm, m_votedFor, m_status, logVars, applyVars, appendNums, persisted, exitSite, rpcs,
          [i \in Server |-> IF m_status[i] = "Leader" THEN <<m_nextIndex[i], m_matchIndex[i]>> ELSE <<>>],
          [i \in Server |-> IF votesAwaited(i) THEN votedNum[i] ELSE 0]>>

\* Terms 4 and 5 are needed once, for the hint that overruns the log
\* (HeartBeatExits): there one call at a time is enough.
FewCallsInLateTerms == (\E i \in Server : m_currentTerm[i] > 3) => Cardinality(rpcs) <= 1

\* Rounds of heartbeats overlap in the first term, and with its late calls those
\* of the last; among themselves the calls of the last term need not.
LastTermInTurn ==
    Cardinality({r \in rpcs : r.kind \in {"AppendEntries", "AppendEntriesReply"} /\ r.term = MaxTerm}) <= 1
===========================================================================
