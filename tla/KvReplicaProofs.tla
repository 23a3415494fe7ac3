-------------------------- MODULE KvReplicaProofs --------------------------
(***************************************************************************)
(* What the store of a server holds, and what a Get is answered with.      *)
(***************************************************************************)
EXTENDS KvServerProofs

KvInv == TypeInv /\ Channels /\ Requests /\ OneCall /\ Executions /\ AckInv

LEMMA KvInvAtStart == Init => KvInv
BY TypesAtStart, ChannelsAtStart, RequestsAtStart, ExecutionsAtStart, AckAtStart DEF KvInv

LEMMA KvInvKept == KvInv /\ [Next]_vars => KvInv'
BY TypesKept, ChannelsKept, RequestsKept, OneCallKept, ExecutionsKept, LastExecutedKept, NotificationsKept,
   WritesDoneKept, AnswersKept DEF KvInv, AckInv

---------------------------------------------------------------------------
(* The committed sequence.                                                 *)

AmongFirst(op, k) == \E i \in 1 .. k : committed[i] = op

\* What ValueAt means: Put and Append as the store does them, a write taken once.
ValuesFollow ==
    \A k \in 1 .. Len(committed) :
        values[k] = IF ~IsWrite(committed[k]) \/ AmongFirst(committed[k], k - 1) THEN ValueAt(k - 1)
                    ELSE Written(ValueAt(k - 1), committed[k])

\* The writes of a clerk are first committed in the order of its program.
ClerkOrder ==
    \A i \in 1 .. Len(committed) : \A op \in Op :
        Issued(op) /\ IsWrite(op) /\ op.client = committed[i].client /\ op.id < committed[i].id => AmongFirst(op, i - 1)

LEMMA AmongFirstStays ==
    ASSUME TypeInv, [Next]_vars, NEW op, NEW k \in Nat, k <= Len(committed)
    PROVE  AmongFirst(op, k)' <=> AmongFirst(op, k)
<1>1. \A i \in 1 .. k : i \in 1 .. Len(committed)
  BY CommittedGrows
<1>2. \A i \in 1 .. k : committed'[i] = committed[i]
  BY <1>1, CommittedGrows
<1> QED BY <1>2 DEF AmongFirst

LEMMA ValueStays ==
    ASSUME TypeInv, [Next]_vars, NEW k \in Nat, k <= Len(committed)
    PROVE  ValueAt(k)' = ValueAt(k)
BY CommittedGrows DEF ValueAt

LEMMA AmongAll ==
    ASSUME TypeInv, NEW op
    PROVE  Among(op, committed) <=> AmongFirst(op, Len(committed))
BY LenProperties DEF Among, AmongFirst, TypeInv, RaftTypes

LEMMA CommitCases ==
    ASSUME TypeInv, [Next]_vars
    PROVE  UNCHANGED <<committed, values>> \/ Commit
BY RaftSteps DEF raftVars, Start, InstalledAt, GetSnapShotFromRaft, Elect, Replicate, InstallSnapshot

LEMMA ValuesFollowKept == TypeInv /\ ValuesFollow /\ [Next]_vars => ValuesFollow'
<1> SUFFICES ASSUME TypeInv, ValuesFollow, [Next]_vars, NEW k \in 1 .. Len(committed')
             PROVE  values'[k] = IF ~IsWrite(committed'[k]) \/ AmongFirst(committed[k], k - 1)' THEN ValueAt(k - 1)'
                                 ELSE Written(ValueAt(k - 1)', committed'[k])
  BY DEF ValuesFollow, IsWrite, Written
<1>0. k \in Nat /\ k - 1 \in Nat /\ Len(committed) \in Nat /\ Len(committed') \in Nat /\ k <= Len(committed')
  BY CommittedGrows
<1>1. CASE k <= Len(committed)
  <2>1. committed'[k] = committed[k] /\ values'[k] = values[k] /\ ValueAt(k - 1)' = ValueAt(k - 1)
    BY <1>0, <1>1, CommittedGrows, ValueStays
  <2>2. PICK op : op = committed[k]
    OBVIOUS
  <2>3. AmongFirst(op, k - 1)' <=> AmongFirst(op, k - 1)
    BY <1>0, <1>1, AmongFirstStays
  <2>4. AmongFirst(committed[k], k - 1)' <=> AmongFirst(op, k - 1)
    BY <2>1, <2>2, <2>3 DEF AmongFirst
  <2> QED BY <1>0, <1>1, <2>1, <2>2, <2>4 DEF ValuesFollow
<1>2. CASE ~(k <= Len(committed))
  <2>1. Commit
    BY <1>0, <1>2, CommitCases
  <2>2. PICK op \in Op : committed' = Append(committed, op) /\ values' = Append(values, ValueAfter(ValueAt(Len(committed)), op))
                         /\ ValueAt(Len(committed)) \in Seq(Op)
    BY <2>1, CommandCommits
  <2>3. committed \in Seq(Op) /\ values \in Seq(Seq(Op)) /\ Len(values) = Len(committed)
        /\ ValueAfter(ValueAt(Len(committed)), op) \in Seq(Op)
    BY <2>2, WrittenIsValue DEF TypeInv, RaftTypes
  <2>4. k = Len(committed) + 1
    BY <1>0, <1>2, <2>2, <2>3, AppendProperties
  <2>5. committed'[k] = op /\ values'[k] = ValueAfter(ValueAt(k - 1), op) /\ k - 1 = Len(committed)
    BY <1>0, <2>2, <2>3, <2>4, AppendProperties
  <2>6. ValueAt(k - 1)' = ValueAt(k - 1)
    BY <1>0, <2>5, ValueStays
  <2>7. AmongFirst(op, k - 1)' <=> Among(op, committed)
    BY <1>0, <2>5, AmongFirstStays, AmongAll
  <2>8. AmongFirst(committed[k], k - 1)' <=> AmongFirst(op, k - 1)'
    BY <2>5 DEF AmongFirst
  <2> QED BY <2>5, <2>6, <2>7, <2>8 DEF ValueAfter, Written
<1> QED BY <1>1, <1>2

LEMMA ClerkOrderKept == KvInv /\ ClerkOrder /\ [Next]_vars => ClerkOrder'
<1> SUFFICES ASSUME KvInv, ClerkOrder, [Next]_vars, NEW i \in 1 .. Len(committed'), NEW op \in Op,
                    Issued(op)', IsWrite(op), op.client = committed'[i].client, op.id < committed'[i].id
             PROVE  AmongFirst(op, i - 1)'
  BY DEF ClerkOrder, IsWrite
<1>0. TypeInv /\ Requests /\ AckInv /\ i - 1 \in Nat /\ i \in Nat /\ Len(committed) \in Nat /\ i <= Len(committed')
      /\ Len(committed') \in Nat /\ committed \in Seq(Op) /\ op.id \in Nat /\ op.client \in Client
  BY CommittedGrows, OpHasTypes DEF KvInv, TypeInv, RaftTypes
<1>1. CASE i <= Len(committed)
  <2>1. committed'[i] = committed[i] /\ Issued(committed[i]) /\ committed[i] \in Op
    <3>1. i \in 1 .. Len(committed)
      BY <1>0, <1>1
    <3>2. committed'[i] = committed[i]
      BY <1>0, <3>1, CommittedGrows
    <3>3. Issued(committed[i])
      BY <1>0, <3>1 DEF Requests
    <3> QED BY <3>2, <3>3 DEF Issued
  <2>2. committed[i].id <= m_requestId[op.client] /\ committed[i].id \in Nat /\ m_requestId[op.client] \in Nat
    BY <1>0, <2>1, OpHasTypes, IdsGrow DEF Issued
  <2>3. Issued(op)
    BY <1>0, <2>1, <2>2, IssuedBefore
  <2>4. AmongFirst(op, i - 1)
    BY <1>0, <1>1, <2>1, <2>3 DEF ClerkOrder
  <2> QED BY <1>0, <1>1, <2>4, AmongFirstStays
<1>2. CASE ~(i <= Len(committed))
  <2>1. Commit
    BY <1>0, <1>2, CommitCases
  <2>2. PICK new \in Op : /\ new = log[leader][Len(committed) + 1] /\ Len(committed) + 1 \in 1 .. Len(log[leader])
                          /\ committed' = Append(committed, new)
    BY <1>0, <2>1, CommandCommits
  <2>3. i = Len(committed) + 1 /\ committed'[i] = new
    BY <1>0, <1>2, <2>2, AppendProperties
  <2>4. Issued(new)
    BY <1>0, <2>2 DEF Requests, TypeInv, RaftTypes
  <2>5. new.id <= m_requestId[op.client] /\ new.id \in Nat /\ m_requestId[op.client] \in Nat
    BY <1>0, <2>3, <2>4, OpHasTypes, IdsGrow DEF Issued
  <2>6. op.id < m_requestId[op.client] /\ Issued(op)
    <3>1. op.id < m_requestId[op.client]
      BY <1>0, <2>3, <2>5
    <3>2. CASE ~Issued(op)
      <4>1. m_requestId[op.client] < op.id
        BY <1>0, <3>2, IssuedBefore
      <4> QED BY <1>0, <2>5, <3>1, <4>1
    <3> QED BY <3>1, <3>2
  <2>7. Among(op, committed)
    BY <2>6, <1>0 DEF AckInv, WritesDone
  <2>8. AmongFirst(op, i - 1)
    BY <1>0, <2>3, <2>7, AmongAll
  <2> QED BY <1>0, <2>3, <2>8, AmongFirstStays
<1> QED BY <1>1, <1>2
---------------------------------------------------------------------------
(* The apply thread goes through the committed sequence command by command, *)
(* unless a snapshot has jumped over some.                                  *)

\* Index of the last command the apply thread of s has taken from the channel.
Taken(s) == lastApplied[s] - Len(collected[s])

InOrder ==
    \A s \in Server \ skipped :
        /\ Len(collected[s]) <= lastApplied[s]
        /\ \A j \in 1 .. Len(collected[s]) : collected[s][j].index = Taken(s) + j
        /\ applying[s].pc # "idle" => applying[s].index = Taken(s)

\* The thread takes the next command.
NextTaken(s, pc) ==
    /\ applying[s] = Idle /\ Taken(s)' = Taken(s) + 1 /\ Taken(s) + 1 <= Len(committed)
    /\ applying'[s] = [pc |-> pc, op |-> committed[Taken(s) + 1], index |-> Taken(s) + 1]
    /\ pc = "execute" <=> IsWrite(committed[Taken(s) + 1]) /\ ~ifRequestDuplicate(s, committed[Taken(s) + 1])

LEMMA SkippedGrows ==
    ASSUME TypeInv, [Next]_vars
    PROVE  skipped \subseteq skipped'
<1>1. ASSUME NEW s \in Server, GetCommandFromRaft(s) PROVE skipped \subseteq skipped'
  BY <1>1, CommandTaken DEF Takes
<1>2. ASSUME NEW s \in Server, InstallSnapshot(s) PROVE skipped \subseteq skipped'
  <2>1. PICK i, last : Installs(s, i, last)
    BY <1>2, SnapshotInstalled
  <2> QED BY <2>1 DEF Installs
<1> QED BY <1>1, <1>2, ApplySteps DEF applyVars, ApplyStep, ExecuteOp, SendMessageToWaitChan, GetSnapShotFromRaft

LEMMA PositionTypes ==
    ASSUME TypeInv, InOrder, NEW s \in Server, s \notin skipped
    PROVE  /\ Taken(s) \in Nat /\ Taken(s) <= Len(committed) /\ Len(committed) \in Nat /\ committed \in Seq(Op)
           /\ collected[s] \in Seq(Command) /\ Len(collected[s]) \in Nat /\ lastApplied[s] \in Nat
           /\ applying[s].pc # "idle" => /\ Taken(s) >= 1 /\ applying[s].index = Taken(s)
                                         /\ applying[s].op = committed[Taken(s)]
           /\ applying[s].pc \in {"idle", "execute", "notify"}
           /\ AppliedTo(s) = IF applying[s].pc = "execute" THEN Taken(s) - 1 ELSE Taken(s)
           /\ AppliedTo(s) \in Nat /\ AppliedTo(s) <= Taken(s)
<1>1. /\ Len(committed) \in Nat /\ committed \in Seq(Op) /\ collected[s] \in Seq(Command)
      /\ Len(collected[s]) \in Nat /\ lastApplied[s] \in Nat /\ applying[s].pc \in {"idle", "execute", "notify"}
      /\ lastApplied[s] <= Len(committed)
  BY LenProperties DEF TypeInv, RaftTypes, ApplyTypes, HandedOver, HandedAt
<1>2. Taken(s) \in Nat /\ Taken(s) <= Len(committed)
  BY <1>1 DEF InOrder, Taken
<1>3. applying[s].pc # "idle" => /\ Taken(s) >= 1 /\ applying[s].index = Taken(s) /\ applying[s].op = committed[Taken(s)]
  BY <1>1, <1>2 DEF InOrder, TypeInv, HandedOver, HandedAt, IsCommitted
<1>4. AppliedTo(s) = IF applying[s].pc = "execute" THEN Taken(s) - 1 ELSE Taken(s)
  BY <1>1 DEF AppliedTo, Taken
<1> QED BY <1>1, <1>2, <1>3, <1>4

LEMMA TakesNext ==
    ASSUME TypeInv, InOrder, NEW s \in Server, s \notin skipped, s \notin skipped', GetCommandFromRaft(s)
    PROVE  /\ \E pc \in {"execute", "notify"} : NextTaken(s, pc)
           /\ Len(collected'[s]) <= lastApplied'[s]
           /\ \A j \in 1 .. Len(collected'[s]) : collected'[s][j].index = Taken(s)' + j
<1>0. PICK old, n, at : old = collected[s] /\ n = Taken(s) /\ at = lastApplied[s]
  OBVIOUS
<1>1. PICK m : Takes(s, m)
  BY CommandTaken
<1>2. PICK pc \in {"execute", "notify"} :
            /\ applying' = [applying EXCEPT ![s] = [pc |-> pc, op |-> m.op, index |-> m.index]]
            /\ pc = "execute" <=> IsWrite(m.op) /\ ~ifRequestDuplicate(s, m.op)
  BY <1>1 DEF Takes
<1>3. applying'[s] = [pc |-> pc, op |-> m.op, index |-> m.index] /\ applying[s] = Idle
  BY <1>1, <1>2 DEF Takes, TypeInv, ApplyTypes
<1>4. /\ old \in Seq(Command) /\ Len(old) \in Nat /\ at \in Nat /\ n \in Nat /\ n = at - Len(old)
      /\ \A j \in 1 .. Len(old) : old[j].index = n + j
  BY <1>0, PositionTypes DEF InOrder, Taken
<1>5. ASSUME Taken(s)' = n + 1, m.index = n + 1, m.op = committed[m.index], m.index <= Len(committed) PROVE NextTaken(s, pc)
  BY <1>0, <1>2, <1>3, <1>5 DEF NextTaken
<1>6. CASE /\ collected[s] # <<>> /\ m = Head(collected[s])
           /\ collected' = [collected EXCEPT ![s] = Tail(collected[s])] /\ lastApplied' = lastApplied
  <2>1. PICK rest : rest = Tail(old)
    OBVIOUS
  <2>2. collected'[s] = rest /\ lastApplied'[s] = at
    BY <1>0, <1>6, <2>1 DEF TypeInv, ApplyTypes
  <2>3. m = old[1] /\ 1 \in 1 .. Len(old)
    BY <1>0, <1>4, <1>6, EmptySeq
  <2>4. m.index = n + 1 /\ IsCommitted(m)
    BY <1>0, <1>4, <2>3 DEF TypeInv, HandedOver, HandedAt
  <2>5. Len(rest) = Len(old) - 1 /\ \A j \in 1 .. Len(rest) : rest[j] = old[j + 1]
    BY <1>0, <1>4, <1>6, <2>1, HeadTailProperties
  <2>6. Taken(s)' = at - Len(rest)
    BY <2>2 DEF Taken
  <2>7. Taken(s)' = n + 1 /\ Len(rest) <= at
    BY <1>4, <2>5, <2>6
  <2>8. \A j \in 1 .. Len(rest) : j + 1 \in 1 .. Len(old) /\ old[j + 1].index = n + 1 + j
    BY <1>4, <2>5
  <2>9. \A j \in 1 .. Len(rest) : rest[j].index = n + 1 + j
    BY <2>5, <2>8
  <2>10. NextTaken(s, pc)
    BY <1>5, <2>4, <2>7, PositionTypes DEF IsCommitted
  <2> QED BY <2>2, <2>7, <2>9, <2>10
<1>7. CASE /\ collected[s] = <<>> /\ m.index = lastApplied[s] + 1 /\ m.index \in Applicable(s) /\ m.op = committed[m.index]
           /\ collected' = collected /\ lastApplied' = [lastApplied EXCEPT ![s] = m.index]
  <2>1. Len(old) = 0 /\ lastApplied'[s] = m.index /\ collected'[s] = old
    BY <1>0, <1>7, EmptySeq DEF TypeInv, ApplyTypes
  <2>2. Taken(s)' = m.index - Len(old)
    BY <2>1 DEF Taken
  <2>3. m.index = n + 1 /\ Taken(s)' = n + 1 /\ m.index <= Len(committed)
    BY <1>0, <1>4, <1>7, <2>1, <2>2, PositionTypes DEF Applicable
  <2>4. NextTaken(s, pc)
    BY <1>5, <1>7, <2>3
  <2> QED BY <1>4, <2>1, <2>3, <2>4
<1> QED BY <1>1, <1>6, <1>7 DEF Takes

LEMMA SnapshotKeepsOrder ==
    ASSUME TypeInv, InOrder, NEW s \in Server, s \notin skipped, s \notin skipped', InstallSnapshot(s)
    PROVE  /\ Taken(s)' = Taken(s)
           /\ Len(collected'[s]) <= lastApplied'[s]
           /\ \A j \in 1 .. Len(collected'[s]) : collected'[s][j].index = Taken(s)' + j
<1>0. PICK old, n, at : old = collected[s] /\ n = Taken(s) /\ at = lastApplied[s]
  OBVIOUS
<1>1. PICK i, last : Installs(s, i, last)
  BY SnapshotInstalled
<1>2. /\ old \in Seq(Command) /\ Len(old) \in Nat /\ at \in Nat /\ n \in Nat /\ n = at - Len(old)
      /\ Len(committed) \in Nat /\ committed \in Seq(Op)
      /\ \A j \in 1 .. Len(old) : old[j].index = n + j
  BY <1>0, PositionTypes DEF InOrder, Taken
<1>3. last \in Nat /\ i \in Nat /\ ~(last < i) /\ lastApplied'[s] = last
  BY <1>1 DEF Installs, TypeInv, ApplyTypes
<1>4. last = at \/ last \in at + 1 .. Len(committed)
  BY <1>0, <1>1 DEF Installs, Applicable
<1>5. PICK news : news = Commands(at, last)
  OBVIOUS
<1>6. /\ news \in Seq(Command) /\ Len(news) = last - at
      /\ \A j \in 1 .. last - at : news[j].index = at + j
  <2>1. committed \in Seq(Op) /\ at \in Nat /\ last \in Nat /\ (last = at \/ last \in at + 1 .. Len(committed))
    BY <1>2, <1>3, <1>4
  <2> QED BY <1>5, <2>1, CommandsHandedOver
<1>7. PICK all : all = old \o news
  OBVIOUS
<1>8. collected'[s] = all
  BY <1>0, <1>1, <1>5, <1>7 DEF Installs, TypeInv, ApplyTypes
<1>9. Len(all) = Len(old) + Len(news)
      /\ \A j \in 1 .. Len(old) + Len(news) : all[j] = IF j <= Len(old) THEN old[j] ELSE news[j - Len(old)]
  BY <1>2, <1>6, <1>7, ConcatProperties, Zenon
<1>10. Taken(s)' = last - Len(all)
  BY <1>3, <1>8 DEF Taken
<1>11. Taken(s)' = n /\ Len(all) <= last
  BY <1>2, <1>3, <1>4, <1>6, <1>9, <1>10
<1>12. ASSUME NEW j \in 1 .. Len(all) PROVE all[j].index = n + j
  <2>1. CASE j <= Len(old)
    <3>1. j \in 1 .. Len(old) /\ all[j] = old[j]
      BY <1>2, <1>6, <1>9, <2>1
    <3> QED BY <1>2, <3>1
  <2>2. CASE ~(j <= Len(old))
    <3>1. all[j] = news[j - Len(old)] /\ j - Len(old) \in 1 .. last - at
      BY <1>2, <1>3, <1>4, <1>6, <1>9, <2>2
    <3>2. all[j].index = at + (j - Len(old))
      BY <1>6, <3>1
    <3> QED BY <1>2, <1>3, <3>2
  <2> QED BY <2>1, <2>2
<1> QED BY <1>0, <1>3, <1>8, <1>11, <1>12

LEMMA PositionSteps ==
    ASSUME TypeInv, InOrder, [Next]_vars, NEW s \in Server, s \notin skipped'
    PROVE  /\ s \notin skipped
           /\ Len(collected'[s]) <= lastApplied'[s]
           /\ \A j \in 1 .. Len(collected'[s]) : collected'[s][j].index = Taken(s)' + j
           /\ \/ GetCommandFromRaft(s) /\ \E pc \in {"execute", "notify"} : NextTaken(s, pc)
              \/ Taken(s)' = Taken(s) /\ (applying'[s] = applying[s] \/ ExecuteOp(s) \/ SendMessageToWaitChan(s))
<1>0. s \notin skipped
  BY SkippedGrows
<1>1. CASE GetCommandFromRaft(s)
  BY <1>0, <1>1, TakesNext
<1>2. CASE InstallSnapshot(s)
  BY <1>0, <1>2, SnapshotKeepsOrder DEF InstallSnapshot
<1>4. ASSUME NEW t \in Server, t # s, GetCommandFromRaft(t)
      PROVE  applying'[s] = applying[s] /\ lastApplied'[s] = lastApplied[s] /\ collected'[s] = collected[s]
  <2>1. PICK m : Takes(t, m)
    BY <1>4, CommandTaken
  <2> QED BY <1>4, <2>1 DEF Takes, TypeInv, ApplyTypes
<1>5. ASSUME NEW t \in Server, t # s, InstallSnapshot(t)
      PROVE  applying'[s] = applying[s] /\ lastApplied'[s] = lastApplied[s] /\ collected'[s] = collected[s]
  <2>1. PICK i, last : Installs(t, i, last)
    BY <1>5, SnapshotInstalled
  <2> QED BY <1>5, <2>1 DEF Installs, InstallSnapshot, TypeInv, ApplyTypes
<1>6. ASSUME NEW t \in Server, ExecuteOp(t) \/ SendMessageToWaitChan(t)
      PROVE  /\ lastApplied' = lastApplied /\ collected' = collected
             /\ applying'[s] = applying[s] \/ t = s
  BY <1>6 DEF ExecuteOp, SendMessageToWaitChan, TypeInv, ApplyTypes
<1>7. ASSUME NEW t \in Server, NEW m \in snapshots[t], GetSnapShotFromRaft(t, m)
      PROVE  lastApplied' = lastApplied /\ collected' = collected /\ applying' = applying
  BY <1>7 DEF GetSnapShotFromRaft
<1>8. \/ GetCommandFromRaft(s) \/ InstallSnapshot(s)
      \/ /\ lastApplied'[s] = lastApplied[s] /\ collected'[s] = collected[s]
         /\ applying'[s] = applying[s] \/ ExecuteOp(s) \/ SendMessageToWaitChan(s)
  BY <1>4, <1>5, <1>6, <1>7, ApplySteps DEF applyVars, ApplyStep
<1>9. CASE /\ lastApplied'[s] = lastApplied[s] /\ collected'[s] = collected[s]
           /\ applying'[s] = applying[s] \/ ExecuteOp(s) \/ SendMessageToWaitChan(s)
  <2>1. Taken(s)' = Taken(s)
    BY <1>9 DEF Taken
  <2> QED BY <1>0, <1>9, <2>1 DEF InOrder
<1> QED BY <1>1, <1>2, <1>8, <1>9

LEMMA InOrderKept == TypeInv /\ InOrder /\ [Next]_vars => InOrder'
<1> SUFFICES ASSUME TypeInv, InOrder, [Next]_vars, NEW s \in Server \ skipped'
             PROVE  /\ Len(collected'[s]) <= lastApplied'[s]
                    /\ \A j \in 1 .. Len(collected'[s]) : collected'[s][j].index = Taken(s)' + j
                    /\ applying'[s].pc # "idle" => applying'[s].index = Taken(s)'
  BY DEF InOrder
<1>0. s \in Server /\ s \notin skipped'
  OBVIOUS
<1>1. ASSUME NEW pc, NextTaken(s, pc) PROVE applying'[s].index = Taken(s)'
  BY <1>1 DEF NextTaken
<1>2. CASE Taken(s)' = Taken(s) /\ (applying'[s] = applying[s] \/ ExecuteOp(s) \/ SendMessageToWaitChan(s))
  <2>1. s \in Server \ skipped
    BY <1>0, PositionSteps
  <2>2. ExecuteOp(s) => applying[s].pc # "idle" /\ applying'[s].index = applying[s].index
    BY <1>0 DEF ExecuteOp, TypeInv, ApplyTypes
  <2>3. SendMessageToWaitChan(s) => applying'[s].pc = "idle"
    BY <1>0 DEF SendMessageToWaitChan, Idle, TypeInv, ApplyTypes
  <2> QED BY <1>2, <2>1, <2>2, <2>3, PositionSteps DEF InOrder
<1> QED BY <1>0, <1>1, <1>2, PositionSteps
---------------------------------------------------------------------------
(* The store.  A server that has missed nothing and took no id back has in its *)
(* duplicate table only requests it has taken, and in its store the writes it  *)
(* has executed: a duplicate is a write that came before.                      *)

\* Every write applied is in the duplicate table, by its id or a later one.
WritesNoted(s) ==
    \A i \in 1 .. AppliedTo(s) : IsWrite(committed[i]) => committed[i].id <= m_lastRequestId[s][committed[i].client]
\* Whose last id is in the table has been taken with it.
LastTaken(s) ==
    \A c \in Client : m_lastRequestId[s][c] > 0 =>
        \E i \in 1 .. Taken(s) : committed[i].client = c /\ committed[i].id = m_lastRequestId[s][c]
\* What is about to be executed is new.
ExecutesNew(s) == applying[s].pc = "execute" => m_lastRequestId[s][applying[s].op.client] < applying[s].op.id
\* What a thread is notified of, or reads the store for, has been taken.
QueuesTaken(s) ==
    \A i \in DOMAIN waitApplyCh[s] : \A j \in 1 .. Len(waitApplyCh[s][i]) : AmongFirst(waitApplyCh[s][i][j], Taken(s))
ReadsTaken(s) ==
    \A x \in calls : x.server = s /\ x.phase = "execute" =>
        AmongFirst(x.op, Taken(s)) \/ x.op.id < m_lastRequestId[s][x.op.client]
StoreCurrent(s) ==
    /\ m_skipList[s] = ValueAt(AppliedTo(s))
    /\ WritesNoted(s) /\ LastTaken(s) /\ ExecutesNew(s) /\ QueuesTaken(s) /\ ReadsTaken(s)
Replicas == \A s \in Server : Intact(s) => StoreCurrent(s)

ReplicaInv == KvInv /\ ValuesFollow /\ ClerkOrder /\ InOrder /\ Replicas

SameStore(s) == m_skipList'[s] = m_skipList[s] /\ m_lastRequestId'[s] = m_lastRequestId[s]
SamePlace(s) ==
    /\ Taken(s)' = Taken(s)
    /\ applying'[s] = applying[s] \/ "execute" \notin {applying[s].pc, applying'[s].pc}
Writes(s) ==
    /\ Taken(s)' = Taken(s) /\ applying[s].pc = "execute" /\ applying'[s].pc = "notify"
    /\ m_skipList'[s] = Written(m_skipList[s], applying[s].op)
    /\ m_lastRequestId'[s] = [m_lastRequestId[s] EXCEPT ![applying[s].op.client] = applying[s].op.id]
Reads(s, x) ==
    /\ Taken(s)' = Taken(s) /\ applying'[s] = applying[s]
    /\ x.server = s /\ x.phase = "execute" /\ ~(x.op.id < m_lastRequestId[s][x.op.client])
    /\ m_skipList'[s] = m_skipList[s]
    /\ m_lastRequestId'[s] = [m_lastRequestId[s] EXCEPT ![x.op.client] = x.op.id]

LEMMA IntactBefore ==
    ASSUME TypeInv, [Next]_vars, NEW s \in Server, Intact(s)'
    PROVE  Intact(s) /\ s \notin skipped'
<1>1. s \notin skipped /\ s \notin skipped' /\ rolledBack'[s] = {}
  BY SkippedGrows DEF Intact
<1>2. ASSUME NEW x, ExecuteGetOpOnKVDB(x) PROVE rolledBack[s] \subseteq rolledBack'[s]
  BY <1>2 DEF ExecuteGetOpOnKVDB, TypeInv, StoreTypes
<1>3. rolledBack[s] \subseteq rolledBack'[s]
  BY <1>2, StoreSteps DEF storeVars, ExecuteOp
<1> QED BY <1>1, <1>3 DEF Intact

LEMMA ReplicaSteps ==
    ASSUME TypeInv, InOrder, [Next]_vars, NEW s \in Server, Intact(s)'
    PROVE  \/ SameStore(s) /\ \E pc \in {"execute", "notify"} : NextTaken(s, pc)
           \/ SameStore(s) /\ SamePlace(s)
           \/ Writes(s)
           \/ \E x \in calls : Reads(s, x)
<1>0. s \notin skipped' /\ rolledBack'[s] = {}
  BY DEF Intact
<1>1. CASE ExecuteOp(s)
  <2>1. /\ applying[s].pc = "execute" /\ applying'[s].pc = "notify"
        /\ m_skipList'[s] = Written(m_skipList[s], applying[s].op)
        /\ m_lastRequestId'[s] = [m_lastRequestId[s] EXCEPT ![applying[s].op.client] = applying[s].op.id]
    BY <1>1 DEF ExecuteOp, TypeInv, StoreTypes, ApplyTypes
  <2>2. Taken(s)' = Taken(s)
    BY <1>1 DEF ExecuteOp, Taken
  <2> QED BY <2>1, <2>2 DEF Writes
<1>2. ASSUME NEW x \in calls, ExecuteGetOpOnKVDB(x) PROVE Reads(s, x) \/ (SameStore(s) /\ SamePlace(s))
  <2>1. applying' = applying /\ lastApplied' = lastApplied /\ collected' = collected /\ m_skipList' = m_skipList
    BY <1>2 DEF ExecuteGetOpOnKVDB, applyVars
  <2>2. Taken(s)' = Taken(s)
    BY <2>1 DEF Taken
  <2>3. CASE x.server # s
    BY <1>2, <2>1, <2>2, <2>3 DEF ExecuteGetOpOnKVDB, SameStore, SamePlace, TypeInv, StoreTypes
  <2>4. CASE x.server = s
    <3>1. x.phase = "execute" /\ m_lastRequestId'[s] = [m_lastRequestId[s] EXCEPT ![x.op.client] = x.op.id]
      BY <1>2, <2>4 DEF ExecuteGetOpOnKVDB, TypeInv, StoreTypes
    <3>2. ~(x.op.id < m_lastRequestId[s][x.op.client])
      BY <1>0, <1>2, <2>4 DEF ExecuteGetOpOnKVDB, TypeInv, StoreTypes
    <3> QED BY <2>1, <2>2, <2>4, <3>1, <3>2 DEF Reads
  <2> QED BY <2>3, <2>4
<1>3. ASSUME NEW t \in Server, t # s, ExecuteOp(t) PROVE SameStore(s) /\ SamePlace(s)
  <2>1. applying'[s] = applying[s] /\ lastApplied' = lastApplied /\ collected' = collected
    BY <1>3 DEF ExecuteOp, TypeInv, ApplyTypes
  <2>2. SameStore(s)
    BY <1>3 DEF ExecuteOp, SameStore, TypeInv, StoreTypes
  <2> QED BY <2>1, <2>2 DEF SamePlace, Taken
<1>4. CASE UNCHANGED storeVars /\ ~ExecuteOp(s)
  <2>1. SameStore(s)
    BY <1>4 DEF storeVars, SameStore
  <2>2. SendMessageToWaitChan(s) => "execute" \notin {applying[s].pc, applying'[s].pc}
    BY DEF SendMessageToWaitChan, Idle, TypeInv, ApplyTypes
  <2> QED BY <1>0, <1>4, <2>1, <2>2, PositionSteps DEF SamePlace
<1> QED BY <1>1, <1>2, <1>3, <1>4, StoreSteps

LEMMA AppliedAfter ==
    ASSUME TypeInv, [Next]_vars, NEW s \in Server
    PROVE  /\ AppliedTo(s)' = IF applying'[s].pc = "execute" THEN Taken(s)' - 1 ELSE Taken(s)'
           /\ Taken(s)' \in Int
<1>1. lastApplied'[s] \in Nat /\ Len(collected'[s]) \in Nat
  BY TypesKept, LenProperties DEF TypeInv, ApplyTypes
<1> QED BY <1>1 DEF AppliedTo, Taken

\* What StoreCurrent says of an intact server, with the types its proofs use.
LEMMA ReplicaFacts ==
    ASSUME ReplicaInv, NEW s \in Server, Intact(s)
    PROVE  /\ TypeInv /\ Requests /\ AckInv /\ Executions /\ InOrder /\ ClerkOrder /\ ValuesFollow /\ StoreCurrent(s) /\ s \notin skipped
           /\ Taken(s) \in Nat /\ Taken(s) <= Len(committed) /\ Len(committed) \in Nat
           /\ AppliedTo(s) \in Nat /\ AppliedTo(s) <= Taken(s)
           /\ \A i \in 1 .. Len(committed) :
                /\ Issued(committed[i]) /\ committed[i] \in Op /\ committed[i].client \in Client /\ committed[i].id \in Nat
           /\ \A c \in Client : m_lastRequestId[s][c] \in Nat
<1>1. TypeInv /\ Requests /\ AckInv /\ Executions /\ InOrder /\ ClerkOrder /\ ValuesFollow /\ StoreCurrent(s) /\ s \notin skipped
  BY DEF ReplicaInv, KvInv, Replicas, Intact
<1>2. /\ Taken(s) \in Nat /\ Taken(s) <= Len(committed) /\ Len(committed) \in Nat
      /\ AppliedTo(s) \in Nat /\ AppliedTo(s) <= Taken(s)
  BY <1>1, PositionTypes
<1>3. ASSUME NEW i \in 1 .. Len(committed)
      PROVE Issued(committed[i]) /\ committed[i] \in Op /\ committed[i].client \in Client /\ committed[i].id \in Nat
  <2>1. Issued(committed[i]) /\ committed[i] \in Op
    BY <1>1 DEF Requests, Issued
  <2> QED BY <2>1, OpHasTypes
<1>4. ASSUME NEW c \in Client PROVE m_lastRequestId[s][c] \in Nat
  BY <1>1, RequestsAssumption DEF TypeInv, StoreTypes
<1> QED BY <1>1, <1>2, <1>3, <1>4

\* A write the duplicate table knows has been taken.
LEMMA DuplicateTaken ==
    ASSUME ReplicaInv, NEW s \in Server, Intact(s), NEW op \in Op, Issued(op), op.id <= m_lastRequestId[s][op.client]
    PROVE  AmongFirst(op, Taken(s)) \/ (~IsWrite(op) /\ op.id < m_lastRequestId[s][op.client])
<1> DEFINE last == m_lastRequestId[s][op.client]
<1>0. op.client \in Client /\ op.id \in Nat /\ op.id >= 1 /\ last \in Nat /\ Taken(s) \in Nat
  BY OpHasTypes, ReplicaFacts
<1>1. PICK i \in 1 .. Taken(s) : committed[i].client = op.client /\ committed[i].id = last
  <2>1. LastTaken(s)
    BY ReplicaFacts DEF StoreCurrent
  <2>2. last > 0
    BY <1>0
  <2> QED BY <1>0, <2>1, <2>2 DEF LastTaken
<1>2. i \in 1 .. Len(committed)
  BY <1>0, <1>1, ReplicaFacts
<1>3. Issued(committed[i])
  BY <1>2, ReplicaFacts
<1>4. CASE op.id = last
  <2>1. committed[i] = op
    BY <1>1, <1>3, <1>4, NamedByIds
  <2> QED BY <1>1, <2>1 DEF AmongFirst
<1>5. CASE op.id < last /\ IsWrite(op)
  <2>1. AmongFirst(op, i - 1)
    BY <1>1, <1>2, <1>5, ReplicaFacts DEF ClerkOrder
  <2> QED BY <1>0, <2>1 DEF AmongFirst
<1> QED BY <1>0, <1>4, <1>5

\* The apply thread goes on: it takes a command or is done with one.
LEMMA TakenGrows ==
    ASSUME ReplicaInv, [Next]_vars, NEW s \in Server, Intact(s)'
    PROVE  /\ Intact(s) /\ Taken(s)' \in Nat /\ Taken(s) <= Taken(s)' /\ Taken(s)' <= Len(committed)
           /\ \A i \in 1 .. Taken(s)' : committed'[i] = committed[i]
<1>1. Intact(s) /\ TypeInv /\ InOrder
  BY IntactBefore DEF ReplicaInv, KvInv
<1>2. Taken(s)' = Taken(s) \/ (Taken(s)' = Taken(s) + 1 /\ Taken(s) + 1 <= Len(committed))
  BY <1>1, ReplicaSteps DEF NextTaken, SamePlace, Writes, Reads
<1>3. Taken(s) \in Nat /\ Taken(s) <= Len(committed) /\ Len(committed) \in Nat
  BY <1>1, ReplicaFacts
<1>4. Taken(s)' \in Nat /\ Taken(s) <= Taken(s)' /\ Taken(s)' <= Len(committed)
  BY <1>2, <1>3
<1>5. \A i \in 1 .. Taken(s)' : i \in 1 .. Len(committed)
  BY <1>3, <1>4
<1> QED BY <1>1, <1>4, <1>5, CommittedGrows

LEMMA AmongTakenStays ==
    ASSUME ReplicaInv, [Next]_vars, NEW s \in Server, Intact(s)', NEW op, AmongFirst(op, Taken(s))
    PROVE  AmongFirst(op, Taken(s))'
<1>0. Taken(s) \in Nat /\ Intact(s)
  BY TakenGrows, ReplicaFacts
<1>1. PICK i \in 1 .. Taken(s) : committed[i] = op
  BY DEF AmongFirst
<1>2. i \in 1 .. Taken(s)' /\ committed'[i] = op
  BY <1>0, <1>1, TakenGrows
<1> QED BY <1>2 DEF AmongFirst

\* Until the thread is done with a write it is not among those applied.
LEMMA ExecutedIsNew ==
    ASSUME ReplicaInv, NEW s \in Server, Intact(s), applying[s].pc = "execute"
    PROVE  /\ Taken(s) \in 1 .. Len(committed) /\ applying[s].op = committed[Taken(s)] /\ IsWrite(applying[s].op)
           /\ applying[s].op \in Op /\ Issued(applying[s].op) /\ AppliedTo(s) = Taken(s) - 1
           /\ ~AmongFirst(applying[s].op, Taken(s) - 1)
<1>1. /\ Taken(s) \in 1 .. Len(committed) /\ applying[s].op = committed[Taken(s)] /\ AppliedTo(s) = Taken(s) - 1
      /\ Taken(s) \in Nat
  <2>1. s \notin skipped /\ TypeInv /\ InOrder
    BY ReplicaFacts
  <2> QED BY <2>1, PositionTypes
<1>2. IsWrite(applying[s].op) /\ applying[s].op \in Op /\ Issued(applying[s].op)
  BY <1>1, ReplicaFacts DEF Executions
<1>3. ASSUME NEW i \in 1 .. Taken(s) - 1, committed[i] = applying[s].op PROVE FALSE
  <2>1. applying[s].op.id <= m_lastRequestId[s][applying[s].op.client]
    BY <1>1, <1>2, <1>3, ReplicaFacts DEF StoreCurrent, WritesNoted
  <2>2. m_lastRequestId[s][applying[s].op.client] < applying[s].op.id
    BY ReplicaFacts DEF StoreCurrent, ExecutesNew
  <2>3. applying[s].op.client \in Client /\ applying[s].op.id \in Nat /\ m_lastRequestId[s][applying[s].op.client] \in Nat
    BY <1>2, OpHasTypes, ReplicaFacts
  <2> QED BY <2>1, <2>2, <2>3
<1> QED BY <1>1, <1>2, <1>3 DEF AmongFirst

LEMMA ValueKept ==
    ASSUME ReplicaInv, [Next]_vars, NEW s \in Server, Intact(s)'
    PROVE  m_skipList'[s] = ValueAt(AppliedTo(s))'
<1>0. /\ TypeInv /\ InOrder /\ Intact(s) /\ ValuesFollow /\ m_skipList[s] = ValueAt(AppliedTo(s))
      /\ Taken(s) \in Nat /\ Taken(s) <= Len(committed) /\ Len(committed) \in Nat /\ AppliedTo(s) \in Nat
      /\ AppliedTo(s) = IF applying[s].pc = "execute" THEN Taken(s) - 1 ELSE Taken(s)
      /\ AppliedTo(s) <= Taken(s)
  <2>1. Intact(s) /\ TypeInv /\ InOrder
    BY IntactBefore DEF ReplicaInv, KvInv
  <2>2. s \notin skipped
    BY <2>1 DEF Intact
  <2> QED BY <2>1, <2>2, ReplicaFacts, PositionTypes DEF StoreCurrent
<1>1. ASSUME NEW k \in Nat, k <= Len(committed), AppliedTo(s)' = k, m_skipList'[s] = ValueAt(k)
      PROVE  m_skipList'[s] = ValueAt(AppliedTo(s))'
  <2>1. ValueAt(k)' = ValueAt(k)
    BY <1>0, <1>1, ValueStays
  <2>2. ValueAt(AppliedTo(s))' = ValueAt(k)'
    BY <1>1 DEF ValueAt
  <2> QED BY <1>1, <2>1, <2>2
<1>2. CASE SameStore(s) /\ SamePlace(s)
  <2>1. AppliedTo(s)' = AppliedTo(s)
    BY <1>0, <1>2, AppliedAfter DEF SamePlace
  <2> QED BY <1>0, <1>1, <1>2, <2>1 DEF SameStore
<1>3. ASSUME NEW x, Reads(s, x) PROVE m_skipList'[s] = ValueAt(AppliedTo(s))'
  <2>1. AppliedTo(s)' = AppliedTo(s) /\ m_skipList'[s] = m_skipList[s]
    BY <1>0, <1>3, AppliedAfter DEF Reads
  <2> QED BY <1>0, <1>1, <2>1
<1>4. CASE Writes(s)
  <2>1. AppliedTo(s)' = Taken(s) /\ applying[s].pc = "execute" /\ AppliedTo(s) = Taken(s) - 1
    BY <1>0, <1>4, AppliedAfter DEF Writes
  <2>2. PICK op : op = applying[s].op
    OBVIOUS
  <2>3. Taken(s) \in 1 .. Len(committed) /\ op = committed[Taken(s)] /\ IsWrite(op) /\ ~AmongFirst(op, Taken(s) - 1)
    BY <1>0, <2>1, <2>2, ExecutedIsNew
  <2>4. values[Taken(s)] = Written(ValueAt(Taken(s) - 1), op)
    BY <1>0, <2>3 DEF ValuesFollow
  <2>5. m_skipList'[s] = ValueAt(Taken(s))
    BY <1>0, <1>4, <2>1, <2>2, <2>3, <2>4 DEF Writes, ValueAt
  <2> QED BY <1>0, <1>1, <2>1, <2>5
<1>5. ASSUME SameStore(s), NEW pc \in {"execute", "notify"}, NextTaken(s, pc)
      PROVE  m_skipList'[s] = ValueAt(AppliedTo(s))'
  <2>1. AppliedTo(s) = Taken(s) /\ applying'[s].pc = pc /\ Taken(s)' = Taken(s) + 1 /\ Taken(s) + 1 <= Len(committed)
    BY <1>0, <1>5 DEF NextTaken, Idle
  <2>2. CASE pc = "execute"
    <3>1. AppliedTo(s)' = Taken(s)
      BY <1>0, <2>1, <2>2, AppliedAfter
    <3> QED BY <1>0, <1>1, <1>5, <2>1, <3>1 DEF SameStore
  <2>3. CASE pc = "notify"
    <3>1. AppliedTo(s)' = Taken(s) + 1
      BY <1>0, <2>1, <2>3, AppliedAfter
    <3>2. PICK op : op = committed[Taken(s) + 1]
      OBVIOUS
    <3>3. Taken(s) + 1 \in 1 .. Len(committed)
      BY <1>0, <2>1
    <3>4. op \in Op /\ Issued(op)
      BY <1>0, <3>2, <3>3, ReplicaFacts
    <3>5. ~IsWrite(op) \/ op.id <= m_lastRequestId[s][op.client]
      BY <1>5, <2>3, <3>2 DEF NextTaken, ifRequestDuplicate
    <3>6. ~IsWrite(op) \/ AmongFirst(op, Taken(s))
      BY <1>0, <3>4, <3>5, DuplicateTaken
    <3>7. (Taken(s) + 1) - 1 = Taken(s) /\ Taken(s) + 1 # 0
      BY <1>0
    <3>8. values[Taken(s) + 1] = ValueAt(Taken(s))
      BY <1>0, <3>2, <3>3, <3>6, <3>7 DEF ValuesFollow
    <3>9. ValueAt(Taken(s) + 1) = ValueAt(Taken(s))
      BY <3>7, <3>8 DEF ValueAt
    <3> QED BY <1>0, <1>1, <1>5, <2>1, <3>1, <3>9 DEF SameStore
  <2> QED BY <2>2, <2>3
<1> QED BY <1>0, <1>2, <1>3, <1>4, <1>5, ReplicaSteps

\* The last ids of an intact server only grow.
LEMMA LastGrows ==
    ASSUME ReplicaInv, [Next]_vars, NEW s \in Server, Intact(s)', NEW c \in Client
    PROVE  m_lastRequestId[s][c] \in Nat /\ m_lastRequestId'[s][c] \in Nat /\ m_lastRequestId[s][c] <= m_lastRequestId'[s][c]
<1>0. TypeInv /\ InOrder /\ Intact(s) /\ m_lastRequestId[s][c] \in Nat
  <2>1. Intact(s) /\ TypeInv /\ InOrder
    BY IntactBefore DEF ReplicaInv, KvInv
  <2> QED BY <2>1, ReplicaFacts
<1>1. m_lastRequestId'[s][c] \in Nat
  BY <1>0, TypesKept, RequestsAssumption DEF TypeInv, StoreTypes
<1>2. CASE Writes(s)
  <2>1. m_lastRequestId[s][applying[s].op.client] < applying[s].op.id
    BY <1>0, <1>2, ReplicaFacts DEF Writes, StoreCurrent, ExecutesNew
  <2>2. m_lastRequestId'[s][c] = IF applying[s].op.client = c THEN applying[s].op.id ELSE m_lastRequestId[s][c]
    BY <1>0, <1>2 DEF Writes, TypeInv, StoreTypes
  <2> QED BY <1>0, <1>1, <2>1, <2>2
<1>3. ASSUME NEW x \in calls, Reads(s, x) PROVE m_lastRequestId[s][c] <= m_lastRequestId'[s][c]
  <2>1. m_lastRequestId'[s][c] = IF x.op.client = c THEN x.op.id ELSE m_lastRequestId[s][c]
    BY <1>0, <1>3 DEF Reads, TypeInv, StoreTypes
  <2> QED BY <1>0, <1>1, <1>3, <2>1 DEF Reads
<1> QED BY <1>0, <1>1, <1>2, <1>3, ReplicaSteps DEF SameStore

LEMMA WritesNotedKept ==
    ASSUME ReplicaInv, [Next]_vars, NEW s \in Server, Intact(s)'
    PROVE  WritesNoted(s)'
<1>0. /\ TypeInv /\ InOrder /\ Intact(s) /\ WritesNoted(s)
      /\ Taken(s) \in Nat /\ Taken(s) <= Len(committed) /\ Len(committed) \in Nat /\ AppliedTo(s) \in Nat
      /\ AppliedTo(s) = IF applying[s].pc = "execute" THEN Taken(s) - 1 ELSE Taken(s)
  <2>1. Intact(s) /\ TypeInv /\ InOrder
    BY IntactBefore DEF ReplicaInv, KvInv
  <2>2. s \notin skipped
    BY <2>1 DEF Intact
  <2> QED BY <2>1, <2>2, ReplicaFacts, PositionTypes DEF StoreCurrent
<1> SUFFICES ASSUME NEW i \in 1 .. AppliedTo(s)', IsWrite(committed'[i])
             PROVE  committed'[i].id <= m_lastRequestId'[s][committed'[i].client]
  BY DEF WritesNoted, IsWrite
<1>1. i \in 1 .. Taken(s)' /\ i \in Nat
  <2>1. Taken(s)' \in Nat
    BY TakenGrows
  <2> QED BY <2>1, AppliedAfter, <1>0
<1>2. PICK op : op = committed[i]
  OBVIOUS
<1>3. committed'[i] = op /\ i \in 1 .. Len(committed)
  BY <1>0, <1>1, <1>2, TakenGrows
<1>4. op.client \in Client /\ op.id \in Nat /\ op \in Op /\ Issued(op)
  BY <1>0, <1>2, <1>3, ReplicaFacts
<1>5. CASE i <= AppliedTo(s)
  <2>1. op.id <= m_lastRequestId[s][op.client]
    BY <1>0, <1>1, <1>2, <1>3, <1>5 DEF WritesNoted
  <2> QED BY <1>3, <1>4, <2>1, LastGrows
<1>6. CASE ~(i <= AppliedTo(s))
  <2>1. CASE SameStore(s) /\ SamePlace(s)
    <3>1. AppliedTo(s)' = AppliedTo(s)
      BY <1>0, <2>1, AppliedAfter DEF SamePlace
    <3> QED BY <1>0, <1>6, <3>1
  <2>2. ASSUME NEW x, Reads(s, x) PROVE FALSE
    <3>1. AppliedTo(s)' = AppliedTo(s)
      BY <1>0, <2>2, AppliedAfter DEF Reads
    <3> QED BY <1>0, <1>6, <3>1
  <2>3. CASE Writes(s)
    <3>1. AppliedTo(s)' = Taken(s) /\ applying[s].pc = "execute" /\ AppliedTo(s) = Taken(s) - 1
      BY <1>0, <2>3, AppliedAfter DEF Writes
    <3>2. i = Taken(s)
      BY <1>0, <1>6, <3>1
    <3>3. applying[s].op = op
      BY <1>0, <1>2, <3>1, <3>2, ExecutedIsNew
    <3>4. m_lastRequestId'[s][op.client] = op.id
      BY <1>0, <1>4, <2>3, <3>3 DEF Writes, TypeInv, StoreTypes
    <3> QED BY <1>3, <1>4, <3>4
  <2>4. ASSUME SameStore(s), NEW pc \in {"execute", "notify"}, NextTaken(s, pc)
        PROVE  op.id <= m_lastRequestId'[s][op.client]
    <3>1. AppliedTo(s) = Taken(s) /\ applying'[s].pc = pc /\ Taken(s)' = Taken(s) + 1
      BY <1>0, <2>4 DEF NextTaken, Idle
    <3>2. pc = "notify" /\ i = Taken(s) + 1
      BY <1>0, <1>6, <3>1, AppliedAfter
    <3> QED BY <1>2, <1>3, <2>4, <3>2 DEF NextTaken, ifRequestDuplicate, SameStore
  <2> QED BY <1>0, <1>3, <2>1, <2>2, <2>3, <2>4, ReplicaSteps
<1> QED BY <1>5, <1>6

\* A Get a thread reads the store for has been taken, unless the clerk has moved on.
LEMMA ReadIsTaken ==
    ASSUME ReplicaInv, NEW s \in Server, Intact(s), NEW x \in calls, Reads(s, x)
    PROVE  /\ AmongFirst(x.op, Taken(s)) /\ ~IsWrite(x.op) /\ Issued(x.op)
           /\ x.op \in Op /\ x.op.client \in Client /\ x.op.id \in Nat
<1>1. AmongFirst(x.op, Taken(s))
  BY ReplicaFacts DEF Reads, StoreCurrent, ReadsTaken
<1>2. Issued(x.op) /\ ~IsWrite(x.op)
  BY ReplicaFacts DEF Reads, Requests, AckInv, AnswersSound, AnswerSound
<1> QED BY <1>1, <1>2, OpHasTypes DEF Issued

LEMMA LastTakenKept ==
    ASSUME ReplicaInv, [Next]_vars, NEW s \in Server, Intact(s)'
    PROVE  LastTaken(s)'
<1>0. TypeInv /\ InOrder /\ Intact(s) /\ LastTaken(s) /\ Taken(s) \in Nat
  <2>1. Intact(s) /\ TypeInv /\ InOrder
    BY IntactBefore DEF ReplicaInv, KvInv
  <2> QED BY <2>1, ReplicaFacts DEF StoreCurrent
<1> SUFFICES ASSUME NEW c \in Client, m_lastRequestId'[s][c] > 0
             PROVE  \E i \in 1 .. Taken(s)' : committed'[i].client = c /\ committed'[i].id = m_lastRequestId'[s][c]
  BY DEF LastTaken
<1>1. ASSUME NEW i \in 1 .. Taken(s), committed[i].client = c, committed[i].id = m_lastRequestId'[s][c]
      PROVE  \E j \in 1 .. Taken(s)' : committed'[j].client = c /\ committed'[j].id = m_lastRequestId'[s][c]
  <2>1. i \in 1 .. Taken(s)' /\ committed'[i] = committed[i]
    BY <1>0, <1>1, TakenGrows
  <2> QED BY <1>1, <2>1
<1>2. CASE m_lastRequestId'[s][c] = m_lastRequestId[s][c]
  BY <1>0, <1>1, <1>2 DEF LastTaken
<1>3. CASE Writes(s)
  <2>1. m_lastRequestId'[s][c] = m_lastRequestId[s][c] \/ (applying[s].op.client = c /\ m_lastRequestId'[s][c] = applying[s].op.id)
    BY <1>0, <1>3 DEF Writes, TypeInv, StoreTypes
  <2>2. Taken(s) \in 1 .. Taken(s) /\ applying[s].op = committed[Taken(s)]
    BY <1>0, <1>3, ExecutedIsNew DEF Writes
  <2> QED BY <1>1, <1>2, <2>1, <2>2
<1>4. ASSUME NEW x \in calls, Reads(s, x), m_lastRequestId'[s][c] # m_lastRequestId[s][c]
      PROVE  \E i \in 1 .. Taken(s) : committed[i].client = c /\ committed[i].id = m_lastRequestId'[s][c]
  <2>1. x.op.client = c /\ m_lastRequestId'[s][c] = x.op.id
    BY <1>0, <1>4 DEF Reads, TypeInv, StoreTypes
  <2>2. PICK i \in 1 .. Taken(s) : committed[i] = x.op
    BY <1>0, <1>4, ReadIsTaken DEF AmongFirst
  <2> QED BY <2>1, <2>2
<1> QED BY <1>0, <1>1, <1>2, <1>3, <1>4, ReplicaSteps DEF SameStore

LEMMA ExecutesNewKept ==
    ASSUME ReplicaInv, [Next]_vars, NEW s \in Server, Intact(s)'
    PROVE  ExecutesNew(s)'
<1>0. /\ TypeInv /\ InOrder /\ Intact(s) /\ ExecutesNew(s) /\ ClerkOrder /\ Taken(s) \in Nat
      /\ Taken(s) <= Len(committed) /\ Len(committed) \in Nat
  <2>1. Intact(s) /\ TypeInv /\ InOrder
    BY IntactBefore DEF ReplicaInv, KvInv
  <2> QED BY <2>1, ReplicaFacts DEF StoreCurrent
<1> SUFFICES ASSUME applying'[s].pc = "execute"
             PROVE  m_lastRequestId'[s][applying'[s].op.client] < applying'[s].op.id
  BY DEF ExecutesNew
<1>1. CASE SameStore(s) /\ SamePlace(s)
  BY <1>0, <1>1 DEF SameStore, SamePlace, ExecutesNew
<1>2. ASSUME SameStore(s), NEW pc \in {"execute", "notify"}, NextTaken(s, pc)
      PROVE  m_lastRequestId'[s][applying'[s].op.client] < applying'[s].op.id
  <2>1. PICK op : op = committed[Taken(s) + 1]
    OBVIOUS
  <2>2. op.client \in Client /\ op.id \in Nat
    BY <1>0, <1>2, <2>1, ReplicaFacts DEF NextTaken
  <2>3. applying'[s].op = op /\ ~(op.id <= m_lastRequestId[s][op.client])
    BY <1>2, <2>1 DEF NextTaken, ifRequestDuplicate
  <2>4. m_lastRequestId[s][op.client] \in Nat /\ m_lastRequestId'[s][op.client] = m_lastRequestId[s][op.client]
    BY <1>0, <1>2, <2>2, ReplicaFacts DEF SameStore
  <2> QED BY <2>2, <2>3, <2>4
<1>3. ASSUME NEW x \in calls, Reads(s, x) PROVE m_lastRequestId'[s][applying'[s].op.client] < applying'[s].op.id
  <2>1. PICK op : op = applying[s].op
    OBVIOUS
  <2>2. applying'[s].op = op /\ applying[s].pc = "execute"
    BY <1>3, <2>1 DEF Reads
  <2>3. /\ Taken(s) \in 1 .. Len(committed) /\ op = committed[Taken(s)] /\ IsWrite(op) /\ op \in Op /\ Issued(op)
        /\ ~AmongFirst(op, Taken(s) - 1)
    BY <1>0, <2>1, <2>2, ExecutedIsNew
  <2>4. op.client \in Client /\ op.id \in Nat /\ m_lastRequestId[s][op.client] < op.id
    BY <1>0, <2>1, <2>2, <2>3, OpHasTypes DEF ExecutesNew
  <2>5. AmongFirst(x.op, Taken(s)) /\ ~IsWrite(x.op) /\ Issued(x.op) /\ x.op.id \in Nat
    BY <1>0, <1>3, ReadIsTaken
  <2>6. CASE x.op.client # op.client
    <3>1. m_lastRequestId'[s][op.client] = m_lastRequestId[s][op.client]
      BY <1>0, <1>3, <2>4, <2>6 DEF Reads, TypeInv, StoreTypes
    <3> QED BY <2>2, <2>4, <3>1
  <2>7. CASE x.op.client = op.client
    <3>1. x.op.id # op.id
      BY <2>3, <2>5, <2>7, NamedByIds
    <3>2. PICK i \in 1 .. Taken(s) : committed[i] = x.op
      BY <2>5 DEF AmongFirst
    <3>3. ~(op.id < x.op.id)
      <4>1. ASSUME op.id < x.op.id PROVE FALSE
        <5>1. i \in 1 .. Len(committed) /\ i - 1 <= Taken(s) - 1
          BY <1>0, <3>2
        <5>2. AmongFirst(op, i - 1)
          BY <1>0, <2>3, <2>7, <3>2, <4>1, <5>1 DEF ClerkOrder
        <5>3. PICK j \in 1 .. i - 1 : committed[j] = op
          BY <5>2 DEF AmongFirst
        <5>4. j \in 1 .. Taken(s) - 1
          BY <1>0, <3>2, <5>1, <5>3
        <5> QED BY <2>3, <5>3, <5>4 DEF AmongFirst
      <4> QED BY <4>1
    <3>4. m_lastRequestId'[s][op.client] = x.op.id
      BY <1>0, <1>3, <2>4, <2>7 DEF Reads, TypeInv, StoreTypes
    <3> QED BY <2>2, <2>4, <2>5, <3>1, <3>3, <3>4
  <2> QED BY <2>6, <2>7
<1> QED BY <1>0, <1>1, <1>2, <1>3, ReplicaSteps DEF Writes

LEMMA QueuesTakenKept ==
    ASSUME ReplicaInv, [Next]_vars, NEW s \in Server, Intact(s)'
    PROVE  QueuesTaken(s)'
<1>0. /\ TypeInv /\ InOrder /\ Intact(s) /\ QueuesTaken(s) /\ Taken(s) \in Nat /\ s \notin skipped
  <2>1. Intact(s) /\ TypeInv /\ InOrder
    BY IntactBefore DEF ReplicaInv, KvInv
  <2> QED BY <2>1, ReplicaFacts DEF StoreCurrent
<1> SUFFICES ASSUME NEW i \in DOMAIN waitApplyCh'[s], NEW j \in 1 .. Len(waitApplyCh'[s][i])
             PROVE  AmongFirst(waitApplyCh[s][i][j], Taken(s))'
  BY DEF QueuesTaken
<1>1. PICK op : op = waitApplyCh'[s][i][j]
  OBVIOUS
<1>2. AmongFirst(op, Taken(s))
  <2>1. CASE i \in DOMAIN waitApplyCh[s] /\ \E k \in 1 .. Len(waitApplyCh[s][i]) : waitApplyCh'[s][i][j] = waitApplyCh[s][i][k]
    BY <1>0, <1>1, <2>1 DEF QueuesTaken
  <2>2. CASE SendMessageToWaitChan(s) /\ waitApplyCh'[s][i][j] = applying[s].op
    <3>1. applying[s].pc # "idle"
      BY <2>2 DEF SendMessageToWaitChan
    <3>2. Taken(s) >= 1 /\ applying[s].op = committed[Taken(s)]
      BY <1>0, <3>1, PositionTypes
    <3>3. Taken(s) \in 1 .. Taken(s)
      BY <1>0, <3>2
    <3> QED BY <1>1, <2>2, <3>2, <3>3 DEF AmongFirst
  <2> QED BY <1>0, <2>1, <2>2, QueuesAfter
<1>3. AmongFirst(op, Taken(s))'
  BY <1>2, AmongTakenStays
<1> QED BY <1>1, <1>3 DEF AmongFirst

\* How a call comes to read the store.
LEMMA ReadBegins ==
    ASSUME TypeInv, Channels, [Next]_vars, NEW y \in calls', y \notin calls, y.phase = "execute"
    PROVE  \E x \in calls :
             /\ y.op = x.op /\ y.server = x.server /\ UNCHANGED <<storeVars, committed>>
             /\ \/ RetryGet(x) /\ ifRequestDuplicate(x.server, x.op)
                \/ \E i \in DOMAIN waitApplyCh[x.server] : /\ 1 \in 1 .. Len(waitApplyCh[x.server][i])
                                                           /\ IsOwnOp(x, waitApplyCh[x.server][i][1])
<1>1. PICK x \in calls : ServeStep(x) /\ Moved(x, y) /\ \A v : MoveTo(x, v) => y = v
  <2>1. InService(y)
    BY DEF InService
  <2>2. PICK x \in calls : ServeStep(x) /\ (y \in calls \ {x} \/ Moved(x, y))
    BY <2>1, ServiceSteps
  <2>3. \A v : MoveTo(x, v) => y = v
    BY DEF MoveTo
  <2> QED BY <2>2, <2>3
<1>2. x \in CallRecord /\ x.op \in Op /\ y.op = x.op /\ y.server = x.server /\ x.server \in Server
  BY <1>1, CallHasTypes DEF Moved, SameCall
<1>3. ASSUME y.phase = "replied" PROVE FALSE
  BY <1>3
<1>4. ~Start(x) /\ ~MakeChannel(x) /\ ~Cleanup(x)
  <2>1. ~Cleanup(x)
    BY CleanupEnds DEF SameCall
  <2>2. ASSUME MakeChannel(x) PROVE FALSE
    <3>1. y = [x EXCEPT !.phase = "waiting"]
      BY <1>1, <2>2 DEF MakeChannel
    <3>2. y.phase = "waiting"
      BY <1>2, <3>1 DEF CallRecord
    <3> QED BY <3>2
  <2>3. ASSUME Start(x) PROVE FALSE
    <3>1. x.phase = "sent"
      BY <2>3 DEF Start
    <3> QED BY <1>1, <3>1 DEF Moved, InService
  <2> QED BY <2>1, <2>2, <2>3
<1>5. ~TimeOutPutAppend(x) /\ ~TimeOutGet(x) /\ ~ExecuteGetOpOnKVDB(x)
  <2>1. ASSUME NEW err, y = [x EXCEPT !.phase = "cleanup", !.err = err] PROVE FALSE
    BY <1>2, <2>1 DEF CallRecord
  <2>2. ASSUME y = [x EXCEPT !.phase = "timedOut"] PROVE FALSE
    BY <1>2, <2>2 DEF CallRecord
  <2>3. ASSUME NEW err, NEW value, y = [x EXCEPT !.phase = "cleanup", !.value = value, !.err = err] PROVE FALSE
    BY <1>2, <2>3 DEF CallRecord
  <2>4. ~TimeOutPutAppend(x)
    BY <1>1, <2>1 DEF TimeOutPutAppend
  <2>5. ~TimeOutGet(x)
    BY <1>1, <2>1, <2>2 DEF TimeOutGet
  <2>6. ~ExecuteGetOpOnKVDB(x)
    BY <1>1, <2>3 DEF ExecuteGetOpOnKVDB
  <2> QED BY <2>4, <2>5, <2>6
<1>6. CASE RetryGet(x)
  <2>1. ifRequestDuplicate(x.server, x.op)
    <3>1. CASE ~MayRepeatGet(x)
      <4>1. y = [x EXCEPT !.phase = "cleanup", !.err = "ErrWrongLeader"]
        BY <1>1, <1>6, <3>1 DEF RetryGet
      <4>2. y.phase = "cleanup"
        BY <1>2, <4>1 DEF CallRecord
      <4> QED BY <4>2
    <3> QED BY <3>1 DEF MayRepeatGet
  <2> QED BY <1>2, <1>6, <2>1 DEF RetryGet, raftVars
<1>7. CASE PopOp(x)
  <2>1. PICK q : q = waitApplyCh[x.server][x.index]
    OBVIOUS
  <2>2. x.index \in DOMAIN waitApplyCh[x.server] /\ q \in Seq(Op) /\ q # <<>>
    BY <1>2, <1>7, <2>1 DEF PopOp, Channels, Holds, TypeInv, ChannelTypes
  <2>3. Head(q) = q[1] /\ 1 \in 1 .. Len(q)
    BY <2>2, EmptySeq, LenProperties
  <2>4. IsOwnOp(x, Head(q))
    <3>1. CASE ~IsOwnOp(x, Head(q))
      <4>1. y = [x EXCEPT !.phase = "cleanup", !.err = "ErrWrongLeader"]
        BY <1>1, <1>7, <2>1, <3>1 DEF PopOp
      <4>2. y.phase = "cleanup"
        BY <1>2, <4>1 DEF CallRecord
      <4> QED BY <4>2
    <3> QED BY <3>1
  <2> QED BY <1>2, <1>7, <2>1, <2>2, <2>3, <2>4 DEF PopOp, raftVars
<1> QED BY <1>1, <1>4, <1>5, <1>6, <1>7 DEF ServeStep

LEMMA ReadsTakenKept ==
    ASSUME ReplicaInv, [Next]_vars, NEW s \in Server, Intact(s)'
    PROVE  ReadsTaken(s)'
<1>0. /\ TypeInv /\ Channels /\ Requests /\ AckInv /\ Intact(s) /\ ReadsTaken(s) /\ QueuesTaken(s) /\ Taken(s) \in Nat
      /\ Taken(s) <= Len(committed) /\ Len(committed) \in Nat
  <2>1. Intact(s) /\ TypeInv /\ Channels
    BY IntactBefore DEF ReplicaInv, KvInv
  <2> QED BY <2>1, ReplicaFacts DEF StoreCurrent
<1> SUFFICES ASSUME NEW y \in calls', y.server = s, y.phase = "execute"
             PROVE  AmongFirst(y.op, Taken(s))' \/ y.op.id < m_lastRequestId'[s][y.op.client]
  BY DEF ReadsTaken, AmongFirst
<1>1. PICK op : op = y.op
  OBVIOUS
<1>2. op \in Op /\ op.client \in Client /\ op.id \in Nat
  <2>1. y \in CallRecord
    BY <1>0, TypesKept DEF TypeInv, CallTypes
  <2> QED BY <1>1, <2>1, OpHasTypes DEF CallRecord
<1>3. AmongFirst(op, Taken(s)) \/ op.id < m_lastRequestId[s][op.client]
  <2>1. CASE y \in calls
    BY <1>0, <1>1, <2>1 DEF ReadsTaken
  <2>2. CASE y \notin calls
    <3>1. PICK x \in calls :
             /\ y.op = x.op /\ y.server = x.server
             /\ \/ RetryGet(x) /\ ifRequestDuplicate(x.server, x.op)
                \/ \E i \in DOMAIN waitApplyCh[x.server] : /\ 1 \in 1 .. Len(waitApplyCh[x.server][i])
                                                           /\ IsOwnOp(x, waitApplyCh[x.server][i][1])
      BY <1>0, <2>2, ReadBegins
    <3>2. x.op = op /\ x.server = s /\ Issued(op)
      BY <1>0, <1>1, <3>1 DEF Requests
    <3>3. CASE ifRequestDuplicate(x.server, x.op)
      BY <1>0, <1>2, <3>2, <3>3, DuplicateTaken DEF ifRequestDuplicate
    <3>4. ASSUME NEW i \in DOMAIN waitApplyCh[s], 1 \in 1 .. Len(waitApplyCh[s][i]), IsOwnOp(x, waitApplyCh[s][i][1])
          PROVE  AmongFirst(op, Taken(s))
      <4>1. AmongFirst(waitApplyCh[s][i][1], Taken(s))
        BY <1>0, <3>4 DEF QueuesTaken
      <4>2. PICK k \in 1 .. Taken(s) : committed[k] = waitApplyCh[s][i][1]
        BY <4>1 DEF AmongFirst
      <4>3. k \in 1 .. Len(committed)
        BY <1>0, <4>2
      <4>4. Issued(committed[k]) /\ committed[k].client = op.client /\ committed[k].id = op.id
        BY <1>0, <3>2, <3>4, <4>2, <4>3 DEF IsOwnOp, Requests
      <4>5. committed[k] = op
        BY <3>2, <4>4, NamedByIds
      <4> QED BY <4>2, <4>5 DEF AmongFirst
    <3> QED BY <3>1, <3>2, <3>3, <3>4
  <2> QED BY <2>1, <2>2
<1>4. CASE AmongFirst(op, Taken(s))
  <2>1. AmongFirst(op, Taken(s))'
    BY <1>4, AmongTakenStays
  <2> QED BY <1>1, <2>1 DEF AmongFirst
<1>5. CASE op.id < m_lastRequestId[s][op.client]
  <2>1. /\ m_lastRequestId[s][op.client] \in Nat /\ m_lastRequestId'[s][op.client] \in Nat
        /\ m_lastRequestId[s][op.client] <= m_lastRequestId'[s][op.client]
    BY <1>2, LastGrows
  <2> QED BY <1>1, <1>2, <1>5, <2>1
<1> QED BY <1>3, <1>4, <1>5

LEMMA ReplicaInvAtStart == Init => ReplicaInv
<1> SUFFICES ASSUME Init PROVE ReplicaInv
  OBVIOUS
<1>0. KvInv /\ Len(<<>>) = 0
  BY KvInvAtStart, EmptySeq
<1>1. ValuesFollow /\ ClerkOrder
  BY <1>0 DEF Init, ValuesFollow, ClerkOrder
<1>2. InOrder
  BY <1>0 DEF Init, InOrder, Idle
<1>3. ASSUME NEW s \in Server PROVE StoreCurrent(s)
  <2>1. AppliedTo(s) = 0
    <3>1. lastApplied[s] = 0 /\ collected[s] = <<>> /\ applying[s].pc = "idle"
      BY DEF Init, Idle
    <3>2. Len(collected[s]) = 0
      BY <1>0, <3>1, Zenon
    <3>3. AppliedTo(s) = lastApplied[s] - Len(collected[s]) - 0
      BY <3>1 DEF AppliedTo
    <3> QED BY <3>1, <3>2, <3>3
  <2>2. m_skipList[s] = ValueAt(AppliedTo(s)) /\ WritesNoted(s)
    BY <2>1 DEF Init, ValueAt, WritesNoted
  <2>3. LastTaken(s) /\ ExecutesNew(s) /\ QueuesTaken(s) /\ ReadsTaken(s)
    BY DEF Init, LastTaken, ExecutesNew, QueuesTaken, ReadsTaken, Idle
  <2> QED BY <2>2, <2>3 DEF StoreCurrent
<1> QED BY <1>0, <1>1, <1>2, <1>3 DEF ReplicaInv, Replicas

LEMMA ReplicaInvKept == ReplicaInv /\ [Next]_vars => ReplicaInv'
<1> SUFFICES ASSUME ReplicaInv, [Next]_vars PROVE ReplicaInv'
  OBVIOUS
<1>1. KvInv' /\ ValuesFollow' /\ ClerkOrder' /\ InOrder'
  BY KvInvKept, ValuesFollowKept, ClerkOrderKept, InOrderKept DEF ReplicaInv, KvInv
<1>2. ASSUME NEW s \in Server, Intact(s)' PROVE StoreCurrent(s)'
  BY <1>2, ValueKept, WritesNotedKept, LastTakenKept, ExecutesNewKept, QueuesTakenKept, ReadsTakenKept DEF StoreCurrent
<1> QED BY <1>1, <1>2 DEF ReplicaInv, Replicas

\* The store of a server that has missed no command and took no id back is the
\* value of the committed commands it has applied, so servers that have applied as
\* many agree (KvServer::GetCommandFromRaft, ExecutePutOpOnKVDB,
\* ExecuteAppendOpOnKVDB, and the Gets of the RPC threads in between).
THEOREM ReplicaMatchesLogHolds == Spec => []ReplicaMatchesLog
<1>1. Spec => []ReplicaInv
  BY ReplicaInvAtStart, ReplicaInvKept, PTL DEF Spec
<1>2. ReplicaInv => ReplicaMatchesLog
  BY DEF ReplicaInv, Replicas, StoreCurrent, ReplicaMatchesLog
<1> QED BY <1>1, <1>2, PTL
---------------------------------------------------------------------------
(* Current reads.  What was committed when the clerk asked has smaller ids than *)
(* its Get, so a server that has taken the Get has applied all of it.           *)

AskedAfter ==
    \A c \in Client :
        /\ since[c] <= Len(committed)
        /\ request[c] # NoOp =>
            \A i \in 1 .. since[c] : committed[i].client = c => committed[i].id < m_requestId[c]
ReadsCurrent ==
    \A x \in calls :
        /\ x.phase \in {"cleanup", "replied"} /\ ~IsWrite(x.op) /\ x.err \in {"OK", "ErrNoKey"}
        /\ Intact(x.server) /\ x.op = request[x.op.client]
        => \E k \in since[x.op.client] .. Len(committed) : x.value = ValueAt(k)

\* A step in which the clerk asks nothing leaves its request or ends it.
LEMMA RequestStays ==
    ASSUME TypeInv, [Next]_vars, NEW c \in Client, request'[c] # NoOp
    PROVE  \/ request'[c] = request[c] /\ since'[c] = since[c] /\ m_requestId'[c] = m_requestId[c]
           \/ /\ Call(c) /\ since'[c] = Len(committed) /\ committed' = committed
              /\ m_requestId'[c] = m_requestId[c] + 1 /\ request'[c].id = m_requestId[c] + 1
<1>1. ASSUME NEW d \in Client, Call(d)
      PROVE  \/ request'[c] = request[c] /\ since'[c] = since[c] /\ m_requestId'[c] = m_requestId[c]
             \/ /\ d = c /\ since'[c] = Len(committed) /\ committed' = committed
                /\ m_requestId'[c] = m_requestId[c] + 1 /\ request'[c].id = m_requestId[c] + 1
  <2>1. PICK op, y : Begins(d, op, y)
    BY <1>1, CallBegins
  <2>2. since' = [since EXCEPT ![d] = Len(committed)] /\ committed' = committed
    BY <1>1 DEF Call, raftVars
  <2> QED BY <2>1, <2>2 DEF Begins, TypeInv, ClerkTypes
<1>2. ASSUME NEW x \in calls, TakeReply(x)
      PROVE  request'[c] = request[c] /\ since'[c] = since[c] /\ m_requestId'[c] = m_requestId[c]
  <2>1. since' = since /\ m_requestId' = m_requestId
    BY <1>2 DEF TakeReply
  <2>2. Ends(x) \/ \E y : AsksAgain(x, y)
    BY <1>2, ReplyTaken
  <2> QED BY <2>1, <2>2 DEF Ends, AsksAgain, TypeInv, ClerkTypes
<1>3. ASSUME NEW x \in calls, Break(x)
      PROVE  request'[c] = request[c] /\ since'[c] = since[c] /\ m_requestId'[c] = m_requestId[c]
  BY <1>3 DEF Break
<1> QED BY <1>1, <1>2, <1>3, ClerkSteps DEF clerkVars

LEMMA AskedAfterKept == KvInv /\ AskedAfter /\ [Next]_vars => AskedAfter'
<1> SUFFICES ASSUME KvInv, AskedAfter, [Next]_vars, NEW c \in Client
             PROVE  /\ since'[c] <= Len(committed')
                    /\ request'[c] # NoOp =>
                        \A i \in 1 .. since'[c] : committed'[i].client = c => committed'[i].id < m_requestId'[c]
  BY DEF AskedAfter
<1>0. /\ TypeInv /\ Requests /\ since[c] \in Nat /\ m_requestId[c] \in Nat
      /\ Len(committed) \in Nat /\ Len(committed') \in Nat /\ Len(committed) <= Len(committed')
  BY CommittedGrows, IdsGrow DEF KvInv, TypeInv, ClerkTypes
<1>1. since'[c] = since[c] \/ since'[c] = Len(committed)
  BY <1>0, ClerkSteps DEF clerkVars, Call, TakeReply, Break, TypeInv, ClerkTypes
<1>2. since'[c] <= Len(committed')
  BY <1>0, <1>1 DEF AskedAfter
<1>3. ASSUME request'[c] # NoOp, NEW i \in 1 .. since'[c], committed'[i].client = c
      PROVE  committed'[i].id < m_requestId'[c]
  <2>1. i \in 1 .. Len(committed)
    BY <1>0, <1>1 DEF AskedAfter
  <2>2. PICK op : op = committed[i]
    OBVIOUS
  <2>3. committed'[i] = op /\ Issued(op) /\ op.client = c
    BY <1>0, <1>3, <2>1, <2>2, CommittedGrows DEF Requests
  <2>4. op.id \in Nat /\ op.id <= m_requestId[c]
    BY <2>3, OpHasTypes DEF Issued
  <2>5. CASE request'[c] = request[c] /\ since'[c] = since[c] /\ m_requestId'[c] = m_requestId[c]
    BY <1>0, <1>3, <2>2, <2>3, <2>5 DEF AskedAfter
  <2>6. CASE m_requestId'[c] = m_requestId[c] + 1
    BY <1>0, <2>3, <2>4, <2>6
  <2> QED BY <1>0, <1>3, <2>5, <2>6, RequestStays
<1> QED BY <1>2, <1>3

\* Where the store stands when a Get reads it.
LEMMA ReadIsCurrent ==
    ASSUME ReplicaInv, AskedAfter, NEW s \in Server, Intact(s), NEW x \in calls, Reads(s, x),
           x.op = request[x.op.client]
    PROVE  \E k \in since[x.op.client] .. Len(committed) : m_skipList[s] = ValueAt(k)
<1>0. /\ TypeInv /\ Requests /\ InOrder /\ s \notin skipped /\ m_skipList[s] = ValueAt(AppliedTo(s))
      /\ Taken(s) \in Nat /\ Taken(s) <= Len(committed) /\ Len(committed) \in Nat
      /\ AppliedTo(s) \in Nat /\ AppliedTo(s) <= Taken(s)
  BY ReplicaFacts DEF StoreCurrent
<1>1. AppliedTo(s) = IF applying[s].pc = "execute" THEN Taken(s) - 1 ELSE Taken(s)
  BY <1>0, PositionTypes
<1>2. PICK c : c = x.op.client
  OBVIOUS
<1>3. c \in Client /\ x.op \in Op /\ x.op # NoOp /\ ~IsWrite(x.op) /\ AmongFirst(x.op, Taken(s)) /\ x.op.id \in Nat
  BY <1>2, ReadIsTaken, OpHasTypes
<1>4. since[c] \in Nat /\ since[c] <= Len(committed) /\ x.op.id = m_requestId[c]
      /\ \A i \in 1 .. since[c] : committed[i].client = c => committed[i].id < m_requestId[c]
  BY <1>0, <1>2, <1>3 DEF AskedAfter, Requests, TypeInv, ClerkTypes
<1>5. PICK i \in 1 .. Taken(s) : committed[i] = x.op
  BY <1>3 DEF AmongFirst
<1>6. ~(i <= since[c])
  BY <1>2, <1>3, <1>4, <1>5
<1>7. i <= AppliedTo(s)
  <2>1. CASE applying[s].pc = "execute"
    <3>1. applying[s].op = committed[Taken(s)] /\ IsWrite(applying[s].op)
      BY <2>1, ExecutedIsNew
    <3>2. i # Taken(s)
      BY <1>3, <1>5, <3>1
    <3> QED BY <1>0, <1>1, <1>5, <2>1, <3>2
  <2> QED BY <1>0, <1>1, <1>5, <2>1
<1>8. AppliedTo(s) \in since[c] .. Len(committed)
  BY <1>0, <1>4, <1>5, <1>6, <1>7
<1> QED BY <1>0, <1>2, <1>8

\* How a call gets its answer.
LEMMA AnswerBegins ==
    ASSUME TypeInv, AckInv, [Next]_vars, NEW y \in calls', y \notin calls, ~IsWrite(y.op),
           y.phase \in {"cleanup", "replied"}, y.err \in {"OK", "ErrNoKey"}
    PROVE  \E x \in calls :
             /\ y.op = x.op /\ y.server = x.server /\ x.op \in Op /\ x.server \in Server
             /\ \/ Cleanup(x) /\ x.phase = "cleanup" /\ y.err = x.err /\ y.value = x.value
                \/ ExecuteGetOpOnKVDB(x) /\ y.value = m_skipList[x.server]
<1>1. PICK x \in calls : ServeStep(x) /\ Moved(x, y) /\ \A v : MoveTo(x, v) => y = v
  <2>1. ~Fresh(y) /\ \A x \in calls : ~Failed(x, y)
    BY DEF Fresh, Failed
  <2>2. ASSUME NEW x \in calls, ServeStep(x) PROVE Moved(x, y) /\ \A v : MoveTo(x, v) => y = v
    BY <2>2, ServeMoves DEF MoveTo
  <2>3. ASSUME NEW s \in Server, InstalledAt(s) PROVE FALSE
    BY <2>1, <2>3, InstallMoves
  <2>4. ASSUME NEW c \in Client, Call(c) PROVE FALSE
    <3>1. PICK op, z : Begins(c, op, z)
      BY <2>4, CallBegins
    <3> QED BY <2>1, <3>1 DEF Begins
  <2>5. ASSUME NEW x \in calls, TakeReply(x) PROVE FALSE
    <3>1. Ends(x) \/ \E z : AsksAgain(x, z)
      BY <2>5, ReplyTaken
    <3> QED BY <2>1, <3>1 DEF Ends, AsksAgain
  <2>6. ASSUME NEW x \in calls, Break(x) PROVE FALSE
    <3>1. PICK z : BreaksOff(x, z)
      BY <2>6, ConnectionBreaks
    <3> QED BY <2>1, <3>1 DEF BreaksOff
  <2> QED BY <2>2, <2>3, <2>4, <2>5, <2>6, CallSteps
<1>2. x \in CallRecord /\ x.op \in Op /\ y.op = x.op /\ y.server = x.server /\ x.server \in Server /\ AnswerSound(x)
  BY <1>1, CallHasTypes DEF Moved, SameCall, AckInv, AnswersSound
<1>3. ASSUME NEW err \in {"ErrWrongLeader", "failed"}, y.err = err PROVE FALSE
  BY <1>3
<1>4. ASSUME NEW phase \in {"started", "waiting", "timedOut", "execute"}, y.phase = phase PROVE FALSE
  BY <1>4
<1>5. ASSUME NEW err, y = [x EXCEPT !.phase = "cleanup", !.err = err], err = "ErrWrongLeader" \/ IsWrite(x.op) PROVE FALSE
  BY <1>2, <1>3, <1>5 DEF CallRecord
<1>6. ASSUME NEW phase \in {"waiting", "timedOut", "execute"}, y = [x EXCEPT !.phase = phase] PROVE FALSE
  BY <1>2, <1>4, <1>6 DEF CallRecord
<1>7. ~MakeChannel(x)
  BY <1>1, <1>6 DEF MakeChannel
<1>8. ~TimeOutPutAppend(x)
  BY <1>2 DEF TimeOutPutAppend
<1>9. ~TimeOutGet(x)
  BY <1>1, <1>5, <1>6 DEF TimeOutGet
<1>10. ~RetryGet(x)
  BY <1>1, <1>5, <1>6 DEF RetryGet
<1>11. ~PopOp(x)
  BY <1>1, <1>5, <1>6 DEF PopOp
<1>12. ~Start(x)
  <2>1. ASSUME NEW err \in {"failed", "ErrWrongLeader"}, Reply(x, err, <<>>) PROVE FALSE
    <3>1. y = [x EXCEPT !.phase = "replied", !.index = 0, !.err = err, !.value = <<>>]
      BY <1>1, <2>1 DEF Reply
    <3>2. y.err = err
      BY <1>2, <3>1 DEF CallRecord
    <3> QED BY <3>2
  <2>2. ASSUME MoveTo(x, [x EXCEPT !.phase = "started", !.index = NewCommandIndex(x.server)]) PROVE FALSE
    <3>1. PICK n : n = NewCommandIndex(x.server)
      OBVIOUS
    <3>2. y = [x EXCEPT !.phase = "started", !.index = n]
      BY <1>1, <2>2, <3>1
    <3>3. y.phase = "started"
      BY <1>2, <3>2 DEF CallRecord
    <3> QED BY <3>3
  <2> QED BY <2>1, <2>2 DEF Start
<1>13. CASE Cleanup(x)
  BY <1>2, <1>13, CleanupEnds DEF Cleanup
<1>14. CASE ExecuteGetOpOnKVDB(x)
  <2>1. PICK value, err : value = m_skipList[x.server] /\ err = IF value = <<>> THEN "ErrNoKey" ELSE "OK"
    OBVIOUS
  <2>2. y = [x EXCEPT !.phase = "cleanup", !.value = value, !.err = err]
    BY <1>1, <1>14, <2>1 DEF ExecuteGetOpOnKVDB
  <2>3. y.value = value
    BY <1>2, <2>2 DEF CallRecord
  <2> QED BY <1>2, <1>14, <2>1, <2>3
<1> QED BY <1>1, <1>7, <1>8, <1>9, <1>10, <1>11, <1>12, <1>13, <1>14 DEF ServeStep

LEMMA ReadsCurrentKept == ReplicaInv /\ AskedAfter /\ ReadsCurrent /\ [Next]_vars => ReadsCurrent'
<1> SUFFICES ASSUME ReplicaInv, AskedAfter, ReadsCurrent, [Next]_vars, NEW y \in calls',
                    y.phase \in {"cleanup", "replied"}, ~IsWrite(y.op), y.err \in {"OK", "ErrNoKey"},
                    Intact(y.server)', y.op = request'[y.op.client]
             PROVE  \E k \in since'[y.op.client] .. Len(committed') : y.value = ValueAt(k)'
  BY DEF ReadsCurrent, IsWrite
<1> DEFINE c == y.op.client
<1>0. /\ TypeInv /\ KvInv /\ Requests /\ AckInv /\ InOrder
      /\ Len(committed) \in Nat /\ Len(committed') \in Nat /\ Len(committed) <= Len(committed')
  BY CommittedGrows DEF ReplicaInv, KvInv
<1>1. y \in CallRecord /\ y.op \in Op /\ c \in Client /\ y.server \in Server /\ y.op # NoOp /\ y.op.id \in Nat
  <2>1. y \in CallRecord
    BY <1>0, TypesKept DEF TypeInv, CallTypes
  <2>2. y.op \in Op /\ y.server \in Server
    BY <2>1 DEF CallRecord
  <2> QED BY <2>1, <2>2, OpHasTypes
<1>2. ASSUME NEW x \in calls, x.op = y.op PROVE request[c] = y.op /\ since'[c] = since[c]
  <2>1. x.op.id <= m_requestId[c] /\ m_requestId[c] \in Nat
    BY <1>0, <1>1, <1>2, IdsGrow DEF Requests, Issued
  <2>2. request'[c].id # m_requestId[c] + 1
    BY <1>1, <1>2, <2>1
  <2> QED BY <1>0, <1>1, <2>2, RequestStays
<1>3. ASSUME NEW k \in since[c] .. Len(committed), y.value = ValueAt(k), since'[c] = since[c]
      PROVE  \E j \in since'[c] .. Len(committed') : y.value = ValueAt(j)'
  <2>1. since[c] \in Nat
    BY <1>0, <1>1 DEF TypeInv, ClerkTypes
  <2>2. k \in Nat /\ k <= Len(committed) /\ k \in since'[c] .. Len(committed')
    BY <1>0, <1>3, <2>1
  <2>3. ValueAt(k)' = ValueAt(k)
    BY <1>0, <2>2, ValueStays
  <2> QED BY <1>3, <2>2, <2>3
<1>4. Intact(y.server)
  BY <1>0, <1>1, IntactBefore
<1>5. CASE y \in calls
  <2>1. request[c] = y.op /\ since'[c] = since[c]
    BY <1>2, <1>5
  <2>2. \E k \in since[c] .. Len(committed) : y.value = ValueAt(k)
    BY <1>4, <1>5, <2>1 DEF ReadsCurrent
  <2> QED BY <1>3, <2>1, <2>2
<1>6. CASE y \notin calls
  <2>1. PICK x \in calls :
             /\ y.op = x.op /\ y.server = x.server /\ x.op \in Op /\ x.server \in Server
             /\ \/ Cleanup(x) /\ x.phase = "cleanup" /\ y.err = x.err /\ y.value = x.value
                \/ ExecuteGetOpOnKVDB(x) /\ y.value = m_skipList[x.server]
    BY <1>0, <1>6, AnswerBegins
  <2>2. request[c] = y.op /\ since'[c] = since[c]
    BY <1>2, <2>1
  <2>3. CASE Cleanup(x) /\ x.phase = "cleanup" /\ y.err = x.err /\ y.value = x.value
    <3>1. \E k \in since[c] .. Len(committed) : x.value = ValueAt(k)
      BY <1>4, <2>1, <2>2, <2>3 DEF ReadsCurrent
    <3> QED BY <1>3, <2>2, <2>3, <3>1
  <2>4. CASE ExecuteGetOpOnKVDB(x) /\ y.value = m_skipList[x.server]
    <3>1. Reads(x.server, x)
      <4>1. rolledBack'[x.server] = {}
        BY <2>1 DEF Intact
      <4>2. applying' = applying /\ lastApplied' = lastApplied /\ collected' = collected /\ m_skipList' = m_skipList
            /\ x.phase = "execute"
            /\ m_lastRequestId'[x.server] = [m_lastRequestId[x.server] EXCEPT ![x.op.client] = x.op.id]
        BY <1>0, <2>1, <2>4 DEF ExecuteGetOpOnKVDB, applyVars, TypeInv, StoreTypes
      <4>3. ~(x.op.id < m_lastRequestId[x.server][x.op.client])
        BY <1>0, <2>1, <2>4, <4>1 DEF ExecuteGetOpOnKVDB, TypeInv, StoreTypes
      <4> QED BY <4>2, <4>3 DEF Reads, Taken
    <3>2. \E k \in since[c] .. Len(committed) : m_skipList[x.server] = ValueAt(k)
      BY <1>4, <2>1, <2>2, <3>1, ReadIsCurrent
    <3> QED BY <1>3, <2>2, <2>4, <3>2
  <2> QED BY <2>1, <2>3, <2>4
<1> QED BY <1>5, <1>6

\* A Get is answered with a value the key has had since its clerk asked, by the
\* leader, by a deposed one and after a timeout (KvServer::Get).
THEOREM GetIsCurrentHolds == Spec => []GetIsCurrent
<1>1. Init => AskedAfter /\ ReadsCurrent
  BY EmptySeq DEF Init, AskedAfter, ReadsCurrent
<1>2. ReplicaInv => KvInv
  BY DEF ReplicaInv
<1>3. Spec => [](ReplicaInv /\ AskedAfter /\ ReadsCurrent)
  BY <1>1, <1>2, ReplicaInvAtStart, ReplicaInvKept, AskedAfterKept, ReadsCurrentKept, PTL DEF Spec
<1>4. ReadsCurrent => GetIsCurrent
  <2> SUFFICES ASSUME ReadsCurrent, NEW x \in calls, Answered(x), x.op.kind = "Get", x.err \in {"OK", "ErrNoKey"}, Intact(x.server)
               PROVE  \E k \in since[x.op.client] .. Len(committed) : x.value = ValueAt(k)
    BY DEF GetIsCurrent
  <2>1. x.phase = "replied" /\ x.op = request[x.op.client] /\ ~IsWrite(x.op)
    BY DEF Answered, Awaited, IsWrite
  <2> QED BY <2>1 DEF ReadsCurrent
<1> QED BY <1>3, <1>4, PTL
=============================================================================
