---------------------------- MODULE RaftRestart ----------------------------
(***************************************************************************)
(* Raft with processes that end and are started again.                     *)
(*                                                                         *)
(* Raft::init reads back what the Persister holds, but the constructor of  *)
(* Persister, which KvServer runs first, opens both files with             *)
(* ios::trunc: a started process always reads empty files.                 *)
(***************************************************************************)
EXTENDS MCRaft

\* Persister::Persister, then Raft::init with readPersist("").  The threads of
\* the old process are gone, and with their connections the RPCs they made.
Restart(i) ==
    /\ persisted' = [persisted EXCEPT ![i] = InitialState]
    /\ m_currentTerm' = [m_currentTerm EXCEPT ![i] = 0]
    /\ m_votedFor' = [m_votedFor EXCEPT ![i] = Nobody]
    /\ m_status' = [m_status EXCEPT ![i] = "Follower"]
    /\ m_logs' = [m_logs EXCEPT ![i] = <<>>]
    /\ m_lastSnapshotIncludeIndex' = [m_lastSnapshotIncludeIndex EXCEPT ![i] = 0]
    /\ m_lastSnapshotIncludeTerm' = [m_lastSnapshotIncludeTerm EXCEPT ![i] = 0]
    /\ m_commitIndex' = [m_commitIndex EXCEPT ![i] = 0]
    /\ m_lastApplied' = [m_lastApplied EXCEPT ![i] = 0]
    /\ m_nextIndex' = [m_nextIndex EXCEPT ![i] = [j \in Server |-> 0]]
    /\ m_matchIndex' = [m_matchIndex EXCEPT ![i] = [j \in Server |-> 0]]
    /\ votedNum' = [votedNum EXCEPT ![i] = 0]
    /\ appendNums' = [appendNums EXCEPT ![i] = [k \in Round |-> 0]]
    /\ applyMsgs' = [applyMsgs EXCEPT ![i] = {}]
    /\ exitSite' = [exitSite EXCEPT ![i] = "none"]
    /\ rpcs' = {r \in rpcs : r.from # i}
    /\ UNCHANGED votes

RestartSpec == Init /\ [][Next \/ \E i \in Server : Restart(i)]_vars
===========================================================================
