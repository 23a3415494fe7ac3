--------------------------- MODULE KvServerProofs ---------------------------
(***************************************************************************)
(* What the service promises its clerks, for every number of servers,      *)
(* clerks and requests, and for every situation.                           *)
(***************************************************************************)
EXTENDS KvServer, FiniteSetTheorems, SequenceTheorems, TLAPS

---------------------------------------------------------------------------
(* What a step changes.                                                    *)

InstalledAt(s) == \E m \in snapshots[s] : GetSnapShotFromRaft(s, m)

LEMMA ClerkChanges ==
    ASSUME (\E c \in Client : Call(c)) \/ (\E x \in calls : TakeReply(x) \/ Break(x))
    PROVE  UNCHANGED <<waitApplyCh, storeVars, raftVars, applyVars, snapVars>>
<1>1. ASSUME NEW c, Call(c) PROVE UNCHANGED <<waitApplyCh, storeVars, raftVars, applyVars, snapVars>>
  BY <1>1 DEF Call
<1>2. ASSUME NEW x, TakeReply(x) PROVE UNCHANGED <<waitApplyCh, storeVars, raftVars, applyVars, snapVars>>
  BY <1>2 DEF TakeReply
<1>3. ASSUME NEW x, Break(x) PROVE UNCHANGED <<waitApplyCh, storeVars, raftVars, applyVars, snapVars>>
  BY <1>3 DEF Break
<1> QED BY <1>1, <1>2, <1>3

LEMMA ServeChanges ==
    ASSUME NEW x, ServeStep(x)
    PROVE  /\ UNCHANGED <<clerkVars, applyVars, snapVars>>
           /\ UNCHANGED storeVars \/ ExecuteGetOpOnKVDB(x)
           /\ UNCHANGED raftVars \/ Start(x)
           /\ UNCHANGED waitApplyCh \/ MakeChannel(x) \/ PopOp(x) \/ Cleanup(x)
<1>1. CASE Start(x)
  BY <1>1 DEF Start, storeVars
<1>2. CASE MakeChannel(x)
  BY <1>2 DEF MakeChannel
<1>3. CASE PopOp(x)
  BY <1>3 DEF PopOp
<1>4. CASE TimeOutPutAppend(x) \/ TimeOutGet(x) \/ RetryGet(x)
  BY <1>4 DEF TimeOutPutAppend, TimeOutGet, RetryGet
<1>5. CASE ExecuteGetOpOnKVDB(x)
  BY <1>5 DEF ExecuteGetOpOnKVDB
<1>6. CASE Cleanup(x)
  BY <1>6 DEF Cleanup
<1> QED BY <1>1, <1>2, <1>3, <1>4, <1>5, <1>6 DEF ServeStep

LEMMA ApplyChanges ==
    ASSUME NEW s, ApplyStep(s)
    PROVE  /\ UNCHANGED clerkVars
           /\ UNCHANGED storeVars \/ ExecuteOp(s)
           /\ UNCHANGED <<calls, raftVars>> \/ InstalledAt(s)
           /\ UNCHANGED waitApplyCh \/ SendMessageToWaitChan(s)
           /\ UNCHANGED snapVars \/ SendMessageToWaitChan(s) \/ InstalledAt(s)
<1>1. CASE GetCommandFromRaft(s)
  BY <1>1 DEF GetCommandFromRaft
<1>2. CASE ExecuteOp(s)
  BY <1>2 DEF ExecuteOp
<1>3. CASE SendMessageToWaitChan(s)
  BY <1>3 DEF SendMessageToWaitChan
<1>4. CASE InstalledAt(s)
  BY <1>4 DEF InstalledAt, GetSnapShotFromRaft
<1> QED BY <1>1, <1>2, <1>3, <1>4 DEF ApplyStep, InstalledAt

LEMMA RaftChanges ==
    ASSUME RaftStep
    PROVE  /\ UNCHANGED <<clerkVars, calls, waitApplyCh, storeVars>>
           /\ UNCHANGED raftVars \/ Commit \/ \E s \in Server : Elect(s) \/ Replicate(s) \/ InstallSnapshot(s)
           /\ UNCHANGED applyVars \/ \E s \in Server : InstallSnapshot(s)
           /\ UNCHANGED snapVars \/ SnapshotLost \/ \E s \in Server : InstallSnapshot(s)
<1>1. CASE Commit
  BY <1>1 DEF Commit
<1>2. CASE SnapshotLost
  BY <1>2 DEF SnapshotLost
<1>3. ASSUME NEW s, Elect(s) \/ Replicate(s) PROVE UNCHANGED <<clerkVars, calls, waitApplyCh, storeVars, applyVars, snapVars>>
  BY <1>3 DEF Elect, Replicate
<1>4. ASSUME NEW s, InstallSnapshot(s) PROVE UNCHANGED <<clerkVars, calls, waitApplyCh, storeVars>>
  BY <1>4 DEF InstallSnapshot
<1> QED BY <1>1, <1>2, <1>3, <1>4 DEF RaftStep

LEMMA StepCases ==
    [Next]_vars =>
        \/ UNCHANGED vars
        \/ (\E c \in Client : Call(c)) \/ (\E x \in calls : TakeReply(x) \/ Break(x))
        \/ \E x \in calls : ServeStep(x)
        \/ \E s \in Server : ApplyStep(s)
        \/ RaftStep
BY DEF Next, ClerkStep, Serve

LEMMA ClerkSteps ==
    [Next]_vars =>
        \/ UNCHANGED clerkVars
        \/ \E c \in Client : Call(c)
        \/ \E x \in calls : TakeReply(x) \/ Break(x)
BY StepCases, ServeChanges, ApplyChanges, RaftChanges DEF vars

LEMMA StoreSteps ==
    [Next]_vars =>
        \/ UNCHANGED storeVars
        \/ \E x \in calls : ExecuteGetOpOnKVDB(x)
        \/ \E s \in Server : ExecuteOp(s)
BY StepCases, ClerkChanges, ServeChanges, ApplyChanges, RaftChanges DEF vars

LEMMA RaftSteps ==
    [Next]_vars =>
        \/ UNCHANGED raftVars
        \/ \E x \in calls : Start(x)
        \/ \E s \in Server : InstalledAt(s)
        \/ Commit
        \/ \E s \in Server : Elect(s) \/ Replicate(s) \/ InstallSnapshot(s)
BY StepCases, ClerkChanges, ServeChanges, ApplyChanges, RaftChanges DEF vars

LEMMA ApplySteps ==
    [Next]_vars =>
        \/ UNCHANGED applyVars
        \/ \E s \in Server : ApplyStep(s) \/ InstallSnapshot(s)
BY StepCases, ClerkChanges, ServeChanges, RaftChanges DEF vars

LEMMA SnapSteps ==
    [Next]_vars =>
        \/ UNCHANGED snapVars
        \/ SnapshotLost
        \/ \E s \in Server : SendMessageToWaitChan(s) \/ InstallSnapshot(s) \/ InstalledAt(s)
BY StepCases, ClerkChanges, ServeChanges, ApplyChanges, RaftChanges DEF vars

LEMMA CallSteps ==
    [Next]_vars =>
        \/ UNCHANGED calls
        \/ \E c \in Client : Call(c)
        \/ \E x \in calls : TakeReply(x) \/ Break(x)
        \/ \E x \in calls : ServeStep(x)
        \/ \E s \in Server : InstalledAt(s)
BY StepCases, ApplyChanges, RaftChanges DEF vars

LEMMA ChannelSteps ==
    [Next]_vars =>
        \/ UNCHANGED waitApplyCh
        \/ \E x \in calls : MakeChannel(x) \/ PopOp(x) \/ Cleanup(x)
        \/ \E s \in Server : SendMessageToWaitChan(s)
BY StepCases, ClerkChanges, ServeChanges, ApplyChanges, RaftChanges DEF vars
---------------------------------------------------------------------------
(* Types.                                                                  *)

InService(x) == x.phase \notin {"sent", "replied"}

CallRecord ==
    [op : Op, server : Server, try : Nat, phase : Phases, index : Nat,
     err : {"", "OK", "ErrNoKey", "ErrWrongLeader", "failed"}, value : Seq(Op)]
Command == [index : Nat, op : Op]

ClerkTypes ==
    /\ setup \in Setups
    /\ m_requestId \in [Client -> 0 .. MaxRequests]
    /\ \A c \in Client : m_requestId[c] <= Len(setup.program[c])
    /\ m_recentLeaderId \in [Client -> Server]
    /\ request \in [Client -> Op \cup {NoOp}]
    /\ breaks \in [Client -> 0 .. setup.maxBreaks]
    /\ since \in [Client -> Nat]
CallTypes ==
    /\ calls \subseteq CallRecord
    /\ \A x \in calls :
        /\ x.try <= setup.maxBreaks /\ x.index <= setup.maxLog
        /\ InService(x) => x.index >= 1
ChannelTypes ==
    /\ DOMAIN waitApplyCh = Server
    /\ \A s \in Server : \A i \in DOMAIN waitApplyCh[s] : i \in 1 .. setup.maxLog /\ waitApplyCh[s][i] \in Seq(Op)
StoreTypes ==
    /\ m_lastRequestId \in [Server -> [Client -> 0 .. MaxRequests]]
    /\ m_skipList \in [Server -> Seq(Op)]
    /\ executed \in [Server -> Seq(Op)]
    /\ rolledBack \in [Server -> SUBSET Client]
RaftTypes ==
    /\ log \in [Server -> Seq(Op)] /\ committed \in Seq(Op)
    /\ values \in Seq(Seq(Op)) /\ Len(values) = Len(committed)
    /\ leads \subseteq Server /\ leader \in Server /\ elections \in 0 .. setup.maxElections
ApplyTypes ==
    /\ lastApplied \in [Server -> Nat] /\ m_lastSnapShotRaftLogIndex \in [Server -> Nat]
    /\ collected \in [Server -> Seq(Command)]
    /\ applying \in [Server -> [pc : {"idle", "execute", "notify"}, op : Op \cup {NoOp}, index : Nat]]
    /\ \A s \in Server : applying[s].pc # "idle" => applying[s].op \in Op
    /\ skipped \subseteq Server
SnapTypes ==
    /\ snapshotIndex \in [Server -> Nat]
    /\ snapshotFile \in [Server -> {"empty", "word", "archive"}]
    /\ DOMAIN snapshots = Server
    /\ \A s \in Server : snapshots[s] \subseteq [index : Nat, data : {"empty", "word"}]
    /\ exited \subseteq Server

\* What a server has been handed over, or has a snapshot of, is committed.
IsCommitted(m) == m.index \in 1 .. Len(committed) /\ m.op = committed[m.index]
HandedAt(s) ==
    /\ lastApplied[s] <= Len(committed) /\ snapshotIndex[s] <= Len(committed)
    /\ \A j \in 1 .. Len(collected[s]) : IsCommitted(collected[s][j])
    /\ applying[s].pc # "idle" => IsCommitted(applying[s])
HandedOver == \A s \in Server : HandedAt(s)

TypeInv ==
    ClerkTypes /\ CallTypes /\ ChannelTypes /\ StoreTypes /\ RaftTypes /\ ApplyTypes /\ SnapTypes /\ HandedOver

LEMMA SetupTypes ==
    ASSUME setup \in Setups
    PROVE  /\ setup.maxLog \in Nat /\ setup.maxElections \in Nat /\ setup.maxBreaks \in Nat
           /\ setup.down \subseteq Server
           /\ \A c \in Client :
                /\ Len(setup.program[c]) \in 0 .. MaxRequests
                /\ \A n \in 1 .. Len(setup.program[c]) : setup.program[c][n] \in {"Get", "Put", "Append"}
<1>1. setup \in Setup
  BY SetupsAssumption
<1>2. setup.program \in [Client -> BoundedSeq({"Get", "Put", "Append"}, MaxRequests)]
  BY <1>1 DEF Setup
<1>3. setup.down \in SUBSET (1 .. NumServers - 1)
  BY <1>1 DEF Setup
<1>4. ASSUME NEW c \in Client
      PROVE  /\ Len(setup.program[c]) \in 0 .. MaxRequests
             /\ \A n \in 1 .. Len(setup.program[c]) : setup.program[c][n] \in {"Get", "Put", "Append"}
  <2>1. PICK m \in 0 .. MaxRequests : setup.program[c] \in [1 .. m -> {"Get", "Put", "Append"}]
    BY <1>2, <1>4 DEF BoundedSeq, SeqOf
  <2>2. Len(setup.program[c]) = m
    BY <2>1, RequestsAssumption
  <2> QED BY <2>1, <2>2
<1> QED BY <1>1, <1>3, <1>4, ServersAssumption DEF Setup, Server

LEMMA CallHasTypes ==
    ASSUME TypeInv, NEW x \in calls
    PROVE  /\ x \in CallRecord /\ x.op \in Op /\ x.server \in Server /\ x.try \in Nat /\ x.index \in Nat
           /\ x.op.client \in Client /\ x.op.id \in 0 .. MaxRequests /\ x.op.id >= 1
<1>1. x \in CallRecord
  BY DEF TypeInv, CallTypes
<1>2. x.op \in Op /\ x.server \in Server /\ x.try \in Nat /\ x.index \in Nat
  BY <1>1 DEF CallRecord
<1>3. x.op.client \in Client /\ x.op.id \in 1 .. MaxRequests
  BY <1>2 DEF Op
<1> QED BY <1>1, <1>2, <1>3, RequestsAssumption

LEMMA TypesAtStart == Init => TypeInv
<1> SUFFICES ASSUME Init PROVE TypeInv
  OBVIOUS
<1>0. setup.maxLog \in Nat /\ setup.maxElections \in Nat /\ setup.maxBreaks \in Nat /\ setup.down \subseteq Server
      /\ \A c \in Client : Len(setup.program[c]) \in 0 .. MaxRequests
  BY SetupTypes DEF Init
<1>1. 0 \in Server
  BY ServersAssumption DEF Server
<1>2. <<>> \in Seq(Op) /\ <<>> \in Seq(Seq(Op)) /\ <<>> \in Seq(Command) /\ Len(<<>>) = 0
  BY EmptySeq
<1>3. ClerkTypes
  BY <1>0, <1>1, RequestsAssumption DEF Init, ClerkTypes
<1>4. CallTypes
  BY DEF Init, CallTypes
<1>5. ChannelTypes
  BY DEF Init, ChannelTypes
<1>6. StoreTypes
  BY <1>2, RequestsAssumption DEF Init, StoreTypes
<1>7. RaftTypes
  BY <1>0, <1>1, <1>2 DEF Init, RaftTypes
<1>8. ApplyTypes
  BY <1>2 DEF Init, ApplyTypes, Idle
<1>9. SnapTypes
  BY <1>0 DEF Init, SnapTypes
<1>10. HandedOver
  BY <1>2 DEF Init, HandedOver, HandedAt, Idle
<1> QED BY <1>3, <1>4, <1>5, <1>6, <1>7, <1>8, <1>9, <1>10 DEF TypeInv
---------------------------------------------------------------------------
(* What becomes of a call.                                                 *)

Fresh(y) == y \in CallRecord /\ y.phase = "sent" /\ y.index = 0 /\ y.err = "" /\ y.value = <<>>

\* What its thread, or the end of its server, makes of call x.
SameCall(x, y) == y \in CallRecord /\ y.op = x.op /\ y.server = x.server /\ y.try = x.try

Moved(x, y) ==
    /\ SameCall(x, y)
    /\ \/ y.phase = "replied" /\ y.index = 0 /\ Awaited(x)
       \/ y.phase = "started" /\ x.phase = "sent" /\ y.index = Len(log[x.server]) + 1 /\ y.index <= setup.maxLog
          /\ log' = [log EXCEPT ![x.server] = Append(@, x.op)]
       \/ InService(x) /\ InService(y) /\ y.index = x.index

Failed(x, y) ==
    SameCall(x, y) /\ y.phase = "replied" /\ y.index = 0 /\ y.err = "failed" /\ y.value = <<>> /\ Awaited(x)

LEMMA NewCallIsFresh ==
    ASSUME NEW op \in Op, NEW s \in Server, NEW try \in Nat
    PROVE  /\ Fresh(NewCall(op, s, try)) /\ NewCall(op, s, try).op = op
           /\ NewCall(op, s, try).server = s /\ NewCall(op, s, try).try = try
BY EmptySeq DEF NewCall, Fresh, CallRecord, Phases

LEMMA ReplyMoves ==
    ASSUME NEW x \in calls, x \in CallRecord, NEW err, NEW value, Reply(x, err, value),
           err \in {"", "OK", "ErrNoKey", "ErrWrongLeader", "failed"}, value \in Seq(Op)
    PROVE  \/ calls' = calls \ {x}
           \/ \E y : /\ calls' = (calls \ {x}) \cup {y} /\ Moved(x, y) /\ y.phase = "replied"
                      /\ y.err = err /\ y.value = value
<1> DEFINE y == [x EXCEPT !.phase = "replied", !.index = 0, !.err = err, !.value = value]
<1>1. y \in CallRecord /\ y.op = x.op /\ y.server = x.server /\ y.try = x.try /\ y.phase = "replied" /\ y.index = 0
      /\ y.err = err /\ y.value = value
  BY DEF CallRecord, Phases
<1>2. calls' = calls \ {x} \/ (Awaited(x) /\ calls' = (calls \ {x}) \cup {y})
  BY DEF Reply
<1> HIDE DEF y
<1> QED BY <1>1, <1>2 DEF Moved, SameCall

LEMMA CleanupEnds ==
    ASSUME TypeInv, NEW x \in calls, Cleanup(x)
    PROVE  \/ calls' = calls \ {x}
           \/ \E y : /\ calls' = (calls \ {x}) \cup {y} /\ Moved(x, y) /\ y.phase = "replied"
                      /\ y.err = x.err /\ y.value = x.value
<1> DEFINE y == [x EXCEPT !.phase = "replied", !.index = 0, !.err = x.err, !.value = x.value]
<1>1. x \in CallRecord
  BY CallHasTypes
<1>2. y \in CallRecord /\ y.op = x.op /\ y.server = x.server /\ y.try = x.try /\ y.phase = "replied" /\ y.index = 0
      /\ y.err = x.err /\ y.value = x.value
  BY <1>1 DEF CallRecord, Phases
<1>3. calls' = calls \ {x} \/ (Awaited(x) /\ calls' = (calls \ {x}) \cup {y})
  BY DEF Cleanup, Reply
<1> HIDE DEF y
<1> QED BY <1>2, <1>3 DEF Moved, SameCall

LEMMA ServeMoves ==
    ASSUME TypeInv, NEW x \in calls, ServeStep(x)
    PROVE  \/ calls' = calls \ {x}
           \/ \E y : calls' = (calls \ {x}) \cup {y} /\ Moved(x, y)
<1>0. x \in CallRecord /\ <<>> \in Seq(Op)
  BY EmptySeq DEF TypeInv, CallTypes
<1>1. CASE Start(x)
  <2>1. CASE \E err \in {"failed", "ErrWrongLeader"} : Reply(x, err, <<>>)
    BY <1>0, <2>1, ReplyMoves
  <2>2. CASE \A err \in {"failed", "ErrWrongLeader"} : ~Reply(x, err, <<>>)
    <3>0. PICK index : index = Len(log[x.server]) + 1
      OBVIOUS
    <3> DEFINE y == [x EXCEPT !.phase = "started", !.index = index]
    <3>1. /\ x.phase = "sent" /\ ~(Len(log[x.server]) >= setup.maxLog)
          /\ log' = [log EXCEPT ![x.server] = Append(@, x.op)] /\ calls' = (calls \ {x}) \cup {y}
      BY <1>1, <2>2, <3>0 DEF Start, MoveTo, NewCommandIndex
    <3>2. x.server \in Server /\ Len(log[x.server]) \in Nat /\ setup.maxLog \in Nat
      BY <1>0, SetupTypes, LenProperties DEF CallRecord, TypeInv, RaftTypes, ClerkTypes
    <3>3. y \in CallRecord /\ y.op = x.op /\ y.server = x.server /\ y.try = x.try /\ y.phase = "started"
          /\ y.index = Len(log[x.server]) + 1
      <4>1. index \in Nat
        BY <3>0, <3>2
      <4> QED BY <1>0, <3>0, <4>1 DEF CallRecord, Phases
    <3>4. Len(log[x.server]) + 1 <= setup.maxLog
      BY <3>1, <3>2
    <3> HIDE DEF y
    <3>5. Moved(x, y)
      BY <3>1, <3>3, <3>4 DEF Moved, SameCall
    <3> QED BY <3>1, <3>5
  <2> QED BY <2>1, <2>2
<1>2. CASE MakeChannel(x) \/ PopOp(x) \/ TimeOutPutAppend(x) \/ TimeOutGet(x) \/ RetryGet(x) \/ ExecuteGetOpOnKVDB(x)
  <2>1. InService(x)
    BY <1>2 DEF InService, MakeChannel, PopOp, TimeOutPutAppend, TimeOutGet, RetryGet, ExecuteGetOpOnKVDB
  <2>2. ASSUME NEW y, MoveTo(x, y), SameCall(x, y), InService(y), y.index = x.index
        PROVE  \E z : calls' = (calls \ {x}) \cup {z} /\ Moved(x, z)
    BY <2>1, <2>2 DEF MoveTo, Moved
  <2>3. ASSUME NEW phase \in Phases, phase \notin {"sent", "replied"}
        PROVE  /\ SameCall(x, [x EXCEPT !.phase = phase]) /\ InService([x EXCEPT !.phase = phase])
               /\ [x EXCEPT !.phase = phase].index = x.index
    BY <1>0, <2>3 DEF SameCall, CallRecord, InService
  <2>4. ASSUME NEW err \in {"", "OK", "ErrNoKey", "ErrWrongLeader", "failed"}
        PROVE  /\ SameCall(x, [x EXCEPT !.phase = "cleanup", !.err = err])
               /\ InService([x EXCEPT !.phase = "cleanup", !.err = err])
               /\ [x EXCEPT !.phase = "cleanup", !.err = err].index = x.index
    BY <1>0, <2>4 DEF SameCall, CallRecord, InService, Phases
  <2>5. CASE MakeChannel(x)
    <3>1. MoveTo(x, [x EXCEPT !.phase = "waiting"])
      BY <2>5 DEF MakeChannel
    <3> QED BY <2>2, <2>3, <3>1 DEF Phases
  <2>6. CASE PopOp(x)
    <3>1. \/ \E err \in {"OK", "ErrWrongLeader"} : MoveTo(x, [x EXCEPT !.phase = "cleanup", !.err = err])
          \/ MoveTo(x, [x EXCEPT !.phase = "execute"])
      BY <2>6 DEF PopOp
    <3> QED BY <2>2, <2>3, <2>4, <3>1 DEF Phases
  <2>7. CASE TimeOutPutAppend(x)
    <3>1. \E err \in {"OK", "ErrWrongLeader"} : MoveTo(x, [x EXCEPT !.phase = "cleanup", !.err = err])
      BY <2>7 DEF TimeOutPutAppend
    <3> QED BY <2>2, <2>4, <3>1
  <2>8. CASE TimeOutGet(x) \/ RetryGet(x)
    <3>1. \/ \E err \in {"OK", "ErrWrongLeader"} : MoveTo(x, [x EXCEPT !.phase = "cleanup", !.err = err])
          \/ \E phase \in {"timedOut", "execute"} : MoveTo(x, [x EXCEPT !.phase = phase])
      BY <2>8 DEF TimeOutGet, RetryGet
    <3> QED BY <2>2, <2>3, <2>4, <3>1 DEF Phases
  <2>9. CASE ExecuteGetOpOnKVDB(x)
    <3> DEFINE value == m_skipList[x.server]
               err == IF value = <<>> THEN "ErrNoKey" ELSE "OK"
               y == [x EXCEPT !.phase = "cleanup", !.value = value, !.err = err]
    <3>1. calls' = (calls \ {x}) \cup {y}
      BY <2>9 DEF ExecuteGetOpOnKVDB, MoveTo
    <3>2. value \in Seq(Op)
      BY <1>0 DEF CallRecord, TypeInv, StoreTypes
    <3>3. SameCall(x, y) /\ InService(y) /\ y.index = x.index
      BY <1>0, <3>2 DEF SameCall, CallRecord, InService, Phases
    <3> HIDE DEF y
    <3> QED BY <2>1, <3>1, <3>3 DEF Moved
  <2> QED BY <1>2, <2>5, <2>6, <2>7, <2>8, <2>9
<1>3. CASE Cleanup(x)
  BY <1>3, CleanupEnds
<1> QED BY <1>1, <1>2, <1>3 DEF ServeStep

LEMMA InstallMoves ==
    ASSUME TypeInv, NEW s \in Server, InstalledAt(s), NEW y \in calls'
    PROVE  \/ y \in calls /\ (exited' = exited \/ y.server # s \/ ~InService(y))
           \/ \E x \in calls : Failed(x, y)
<1>1. CASE UNCHANGED <<exited, calls>>
  BY <1>1
<1>2. CASE calls' = {x \in calls : x.server # s \/ x.phase \in {"sent", "replied"}} \cup
                      {[x EXCEPT !.phase = "replied", !.index = 0, !.err = "failed", !.value = <<>>] :
                          x \in {z \in calls : z.server = s /\ Awaited(z) /\ z.phase \notin {"sent", "replied"}}}
  <2>1. CASE y \in calls /\ (y.server # s \/ ~InService(y))
    BY <2>1
  <2>2. CASE ~(y \in calls /\ (y.server # s \/ ~InService(y)))
    <3>1. PICK x \in calls : /\ y = [x EXCEPT !.phase = "replied", !.index = 0, !.err = "failed", !.value = <<>>]
                             /\ Awaited(x)
      BY <1>2, <2>2 DEF InService
    <3>2. x \in CallRecord
      BY DEF TypeInv, CallTypes
    <3>3. Failed(x, y)
      BY <3>1, <3>2, EmptySeq DEF Failed, SameCall, CallRecord, Phases
    <3> QED BY <3>3
  <2> QED BY <2>1, <2>2
<1> QED BY <1>1, <1>2 DEF InstalledAt, GetSnapShotFromRaft
\* The operation a clerk begins, the next of its program.
Begins(c, op, y) ==
    /\ op \in Op /\ op.client = c /\ op.id = m_requestId[c] + 1
    /\ op.id <= Len(setup.program[c]) /\ op.kind = setup.program[c][op.id]
    /\ request[c] = NoOp
    /\ m_requestId' = [m_requestId EXCEPT ![c] = op.id] /\ request' = [request EXCEPT ![c] = op]
    /\ Fresh(y) /\ y.op = op /\ y.try = breaks[c] /\ calls' = calls \cup {y}

LEMMA CallBegins ==
    ASSUME TypeInv, NEW c \in Client, Call(c)
    PROVE  \E op, y : Begins(c, op, y)
<1>1. PICK id : id = m_requestId[c] + 1
  OBVIOUS
<1>2. PICK op : op = [kind |-> setup.program[c][id], client |-> c, id |-> id]
  OBVIOUS
<1>3. /\ m_requestId[c] \in 0 .. MaxRequests /\ Len(setup.program[c]) \in 0 .. MaxRequests
      /\ \A n \in 1 .. Len(setup.program[c]) : setup.program[c][n] \in {"Get", "Put", "Append"}
  BY SetupTypes DEF TypeInv, ClerkTypes
<1>4. /\ request[c] = NoOp /\ m_requestId[c] < Len(setup.program[c])
      /\ m_requestId' = [m_requestId EXCEPT ![c] = op.id] /\ request' = [request EXCEPT ![c] = op]
      /\ calls' = calls \cup {NewCall(op, m_recentLeaderId[c], breaks[c])}
  BY <1>1, <1>2 DEF Call
<1>5. id \in 1 .. Len(setup.program[c]) /\ id \in 1 .. MaxRequests
  BY <1>1, <1>3, <1>4, RequestsAssumption
<1>6. op \in Op /\ op.client = c /\ op.id = id /\ op.kind = setup.program[c][id]
  BY <1>2, <1>3, <1>5 DEF Op
<1>7. m_recentLeaderId[c] \in Server /\ breaks[c] \in Nat
  BY SetupTypes DEF TypeInv, ClerkTypes
<1>8. PICK y : y = NewCall(op, m_recentLeaderId[c], breaks[c])
  OBVIOUS
<1>9. Fresh(y) /\ y.op = op /\ y.try = breaks[c]
  BY <1>6, <1>7, <1>8, NewCallIsFresh
<1>10. id <= Len(setup.program[c])
  BY <1>3, <1>5
<1> QED BY <1>1, <1>4, <1>6, <1>8, <1>9, <1>10 DEF Begins

\* The clerk reads an answer: it is done, or asks the next server.
Ends(x) ==
    /\ x.err \notin {"ErrWrongLeader", "failed"}
    /\ calls' = calls \ {x} /\ request' = [request EXCEPT ![x.op.client] = NoOp]
AsksAgain(x, y) ==
    /\ Fresh(y) /\ y.op = x.op /\ y.try = x.try
    /\ calls' = (calls \ {x}) \cup {y} /\ request' = request

LEMMA ReplyTaken ==
    ASSUME TypeInv, NEW x \in calls, TakeReply(x)
    PROVE  /\ x.op.client \in Client /\ x.op = request[x.op.client] /\ x.try = breaks[x.op.client]
           /\ x.phase = "replied" /\ breaks' = breaks /\ m_requestId' = m_requestId
           /\ Ends(x) \/ \E y : AsksAgain(x, y)
<1>1. x \in CallRecord
  BY DEF TypeInv, CallTypes
<1>2. /\ x.op \in Op /\ x.op.client \in Client /\ x.try \in Nat /\ x.server \in Server
  BY <1>1 DEF CallRecord, Op
<1>3. x.op = request[x.op.client] /\ x.try = breaks[x.op.client] /\ x.phase = "replied"
      /\ breaks' = breaks /\ m_requestId' = m_requestId
  BY DEF TakeReply, Answered, Awaited
<1>4. CASE x.err \in {"ErrWrongLeader", "failed"}
  <2>1. NextServer(x.server) \in Server
    BY <1>2, ServersAssumption DEF Server, NextServer
  <2>2. PICK y : y = NewCall(x.op, NextServer(x.server), x.try)
    OBVIOUS
  <2>3. Fresh(y) /\ y.op = x.op /\ y.try = x.try
    BY <1>2, <2>1, <2>2, NewCallIsFresh
  <2>4. calls' = (calls \ {x}) \cup {y} /\ request' = request
    BY <1>4, <2>2 DEF TakeReply
  <2> QED BY <1>2, <1>3, <2>3, <2>4 DEF AsksAgain
<1>5. CASE x.err \notin {"ErrWrongLeader", "failed"}
  BY <1>2, <1>3, <1>5 DEF TakeReply, Ends
<1> QED BY <1>4, <1>5

BreaksOff(x, y) ==
    /\ Fresh(y) /\ y.op = x.op /\ y.try = breaks[x.op.client] + 1 /\ breaks[x.op.client] < setup.maxBreaks
    /\ calls' = (IF x.phase = "replied" THEN calls \ {x} ELSE calls) \cup {y}
    /\ breaks' = [breaks EXCEPT ![x.op.client] = @ + 1] /\ m_requestId' = m_requestId /\ request' = request

LEMMA ConnectionBreaks ==
    ASSUME TypeInv, NEW x \in calls, Break(x)
    PROVE  /\ x.op.client \in Client /\ x.op = request[x.op.client] /\ x.try = breaks[x.op.client]
           /\ \E y : BreaksOff(x, y)
<1>1. x \in CallRecord
  BY DEF TypeInv, CallTypes
<1>2. x.op \in Op /\ x.op.client \in Client /\ x.server \in Server /\ breaks[x.op.client] + 1 \in Nat
  <2>1. x.op \in Op /\ x.op.client \in Client /\ x.server \in Server
    BY <1>1 DEF CallRecord, Op
  <2>2. breaks[x.op.client] \in 0 .. setup.maxBreaks /\ setup.maxBreaks \in Nat
    BY <2>1, SetupTypes DEF TypeInv, ClerkTypes
  <2> QED BY <2>1, <2>2
<1>3. /\ x.op = request[x.op.client] /\ x.try = breaks[x.op.client]
      /\ breaks[x.op.client] < setup.maxBreaks
      /\ breaks' = [breaks EXCEPT ![x.op.client] = @ + 1] /\ m_requestId' = m_requestId /\ request' = request
  BY DEF Break, Awaited
<1>4. NextServer(x.server) \in Server
  BY <1>2, ServersAssumption DEF Server, NextServer
<1>5. PICK s \in {x.server, NextServer(x.server)} :
          calls' = (IF x.phase = "replied" THEN calls \ {x} ELSE calls)
                      \cup {NewCall(x.op, s, breaks[x.op.client] + 1)}
  BY DEF Break
<1>6. PICK y : y = NewCall(x.op, s, breaks[x.op.client] + 1)
  OBVIOUS
<1>7. Fresh(y) /\ y.op = x.op /\ y.try = breaks[x.op.client] + 1
  BY <1>2, <1>4, <1>6, NewCallIsFresh
<1> QED BY <1>2, <1>3, <1>5, <1>6, <1>7 DEF BreaksOff

\* Every call after a step is one from before, a new one its clerk waits for, or
\* the next stage of one.
LEMMA CallsAfter ==
    ASSUME TypeInv, [Next]_vars, NEW y \in calls'
    PROVE  \/ y \in calls
           \/ Fresh(y) /\ Awaited(y)' /\ ~UNCHANGED calls
           \/ \E x \in calls : Moved(x, y) \/ Failed(x, y)
<1>1. ASSUME NEW c \in Client, Call(c) PROVE y \in calls \/ (Fresh(y) /\ Awaited(y)')
  <2>1. PICK op, z : Begins(c, op, z)
    BY <1>1, CallBegins
  <2>2. request'[c] = op /\ breaks' = breaks
    BY <1>1, <2>1 DEF Begins, Call, TypeInv, ClerkTypes
  <2> QED BY <2>1, <2>2 DEF Begins, Awaited
<1>2. ASSUME NEW x \in calls, TakeReply(x) PROVE y \in calls \/ (Fresh(y) /\ Awaited(y)')
  BY <1>2, ReplyTaken DEF Ends, AsksAgain, Awaited
<1>3. ASSUME NEW x \in calls, Break(x) PROVE y \in calls \/ (Fresh(y) /\ Awaited(y)')
  <2>1. PICK z : BreaksOff(x, z)
    BY <1>3, ConnectionBreaks
  <2>2. x.op.client \in Client /\ x.op = request[x.op.client]
    BY <1>3, ConnectionBreaks
  <2>3. breaks'[x.op.client] = breaks[x.op.client] + 1 /\ request' = request
    BY <2>1, <2>2 DEF BreaksOff, TypeInv, ClerkTypes
  <2> QED BY <2>1, <2>2, <2>3 DEF BreaksOff, Awaited
<1>4. ASSUME NEW x \in calls, ServeStep(x) PROVE y \in calls \/ Moved(x, y)
  BY <1>4, ServeMoves
<1>5. ASSUME NEW s \in Server, InstalledAt(s) PROVE y \in calls \/ \E x \in calls : Failed(x, y)
  BY <1>5, InstallMoves
<1> QED BY <1>1, <1>2, <1>3, <1>4, <1>5, CallSteps
---------------------------------------------------------------------------
(* Types are kept.                                                         *)

LEMMA SetupStays == [Next]_vars => setup' = setup
BY ClerkSteps DEF clerkVars, Call, TakeReply, Break

LEMMA ClerkTypesKept == TypeInv /\ [Next]_vars => ClerkTypes'
<1> SUFFICES ASSUME TypeInv, [Next]_vars PROVE ClerkTypes'
  OBVIOUS
<1>1. CASE UNCHANGED clerkVars
  BY <1>1 DEF TypeInv, ClerkTypes, clerkVars
<1>2. ASSUME NEW c \in Client, Call(c) PROVE ClerkTypes'
  <2>1. PICK op, y : Begins(c, op, y)
    BY <1>2, CallBegins
  <2>2. op \in Op /\ op.id \in 0 .. MaxRequests
    BY <2>1, RequestsAssumption DEF Begins, Op
  <2>3. m_requestId' \in [Client -> 0 .. MaxRequests] /\ request' \in [Client -> Op \cup {NoOp}]
    BY <2>1, <2>2 DEF Begins, TypeInv, ClerkTypes
  <2>4. UNCHANGED <<setup, m_recentLeaderId, breaks>>
    BY <1>2 DEF Call
  <2>5. \A d \in Client : m_requestId'[d] <= Len(setup.program[d])
    BY <2>1 DEF Begins, TypeInv, ClerkTypes
  <2>6. since' \in [Client -> Nat]
    <3>1. PICK k \in Nat : k = Len(committed)
      BY LenProperties DEF TypeInv, RaftTypes
    <3>2. since' = [since EXCEPT ![c] = k]
      BY <1>2, <3>1 DEF Call
    <3> QED BY <3>1, <3>2 DEF TypeInv, ClerkTypes
  <2> QED BY <2>3, <2>4, <2>5, <2>6 DEF TypeInv, ClerkTypes
<1>3. ASSUME NEW x \in calls, TakeReply(x) PROVE ClerkTypes'
  <2>1. x.server \in Server
    BY DEF TypeInv, CallTypes, CallRecord
  <2>2. m_recentLeaderId' \in [Client -> Server]
    BY <1>3, <2>1 DEF TakeReply, TypeInv, ClerkTypes
  <2>3. request' \in [Client -> Op \cup {NoOp}]
    BY <1>3, ReplyTaken DEF Ends, AsksAgain, TypeInv, ClerkTypes
  <2>4. UNCHANGED <<setup, m_requestId, breaks, since>>
    BY <1>3 DEF TakeReply
  <2> QED BY <2>2, <2>3, <2>4 DEF TypeInv, ClerkTypes
<1>4. ASSUME NEW x \in calls, Break(x) PROVE ClerkTypes'
  <2>1. PICK y : BreaksOff(x, y)
    BY <1>4, ConnectionBreaks
  <2>2. x.op.client \in Client
    BY <1>4, ConnectionBreaks
  <2>3. breaks[x.op.client] \in 0 .. setup.maxBreaks /\ setup.maxBreaks \in Nat
    BY <2>2, SetupTypes DEF TypeInv, ClerkTypes
  <2>4. breaks[x.op.client] + 1 \in 0 .. setup.maxBreaks
    BY <2>1, <2>3 DEF BreaksOff
  <2>5. breaks' \in [Client -> 0 .. setup.maxBreaks]
    BY <2>1, <2>4 DEF BreaksOff, TypeInv, ClerkTypes
  <2>6. UNCHANGED <<setup, m_requestId, m_recentLeaderId, request, since>>
    BY <1>4 DEF Break
  <2> QED BY <2>5, <2>6 DEF TypeInv, ClerkTypes
<1> QED BY <1>1, <1>2, <1>3, <1>4, ClerkSteps

LEMMA CallTypesKept == TypeInv /\ [Next]_vars => CallTypes'
<1> SUFFICES ASSUME TypeInv, [Next]_vars, NEW y \in calls'
             PROVE  y \in CallRecord /\ y.try <= setup.maxBreaks /\ y.index <= setup.maxLog /\ (InService(y) => y.index >= 1)
  BY SetupStays DEF CallTypes
<1>0. setup.maxLog \in Nat /\ setup.maxBreaks \in Nat
  BY SetupTypes DEF TypeInv, ClerkTypes
<1>1. CASE y \in calls
  BY <1>1 DEF TypeInv, CallTypes
<1>2. CASE Fresh(y) /\ Awaited(y)'
  <2>1. y.op.client \in Client /\ y.try = breaks'[y.op.client]
    BY <1>2 DEF Fresh, CallRecord, Op, Awaited
  <2>2. breaks'[y.op.client] \in 0 .. setup.maxBreaks
    BY <2>1, ClerkTypesKept, SetupStays DEF ClerkTypes
  <2>3. y.try <= setup.maxBreaks
    BY <1>0, <2>1, <2>2
  <2>4. y \in CallRecord /\ y.index = 0 /\ ~InService(y)
    BY <1>2 DEF Fresh, InService
  <2> QED BY <1>0, <2>3, <2>4
<1>3. ASSUME NEW x \in calls, Moved(x, y) \/ Failed(x, y)
      PROVE  y \in CallRecord /\ y.try <= setup.maxBreaks /\ y.index <= setup.maxLog /\ (InService(y) => y.index >= 1)
  <2>1. /\ x \in CallRecord /\ x.try <= setup.maxBreaks /\ x.index <= setup.maxLog
        /\ InService(x) => x.index >= 1
    BY DEF TypeInv, CallTypes
  <2>2. y \in CallRecord /\ y.try = x.try
    BY <1>3 DEF Moved, Failed, SameCall
  <2>3. CASE y.phase = "replied"
    <3>1. y.index = 0
      BY <1>3, <2>3 DEF Moved, Failed, InService
    <3> QED BY <1>0, <2>1, <2>2, <2>3, <3>1 DEF InService
  <2>4. CASE y.phase = "started" /\ x.phase = "sent" /\ y.index = Len(log[x.server]) + 1 /\ y.index <= setup.maxLog
    <3>1. Len(log[x.server]) \in Nat
      BY <2>1, LenProperties DEF CallRecord, TypeInv, RaftTypes
    <3> QED BY <2>1, <2>2, <2>4, <3>1
  <2>5. CASE InService(x) /\ InService(y) /\ y.index = x.index
    BY <2>1, <2>2, <2>5
  <2> QED BY <1>3, <2>3, <2>4, <2>5 DEF Moved, Failed
<1> QED BY <1>1, <1>2, <1>3, CallsAfter

LEMMA ChannelTypesKept == TypeInv /\ [Next]_vars => ChannelTypes'
<1> SUFFICES ASSUME TypeInv, [Next]_vars PROVE ChannelTypes'
  OBVIOUS
<1>0. setup' = setup /\ setup.maxLog \in Nat
  BY SetupStays, SetupTypes DEF TypeInv, ClerkTypes
<1>1. CASE UNCHANGED waitApplyCh
  BY <1>0, <1>1 DEF TypeInv, ChannelTypes
<1>2. ASSUME NEW x \in calls, InService(x)
      PROVE  x.server \in Server /\ x.index \in 1 .. setup.maxLog
  <2>1. x.index <= setup.maxLog /\ x.index >= 1
    BY <1>2 DEF TypeInv, CallTypes
  <2> QED BY <1>0, <2>1, CallHasTypes
<1>3. ASSUME NEW x \in calls, MakeChannel(x) PROVE ChannelTypes'
  <2>1. PICK s, i : s = x.server /\ i = x.index
    OBVIOUS
  <2>2. s \in Server /\ i \in 1 .. setup.maxLog
    BY <1>2, <1>3, <2>1 DEF MakeChannel, InService
  <2>3. waitApplyCh' = waitApplyCh \/
           waitApplyCh' = [waitApplyCh EXCEPT ![s] = [j \in DOMAIN waitApplyCh[s] \cup {i} |-> IF j = i THEN <<>> ELSE waitApplyCh[s][j]]]
    BY <1>3, <2>1 DEF MakeChannel
  <2> QED
    <3>1. CASE waitApplyCh' = waitApplyCh
      BY <1>1, <3>1
    <3> DEFINE f == [j \in DOMAIN waitApplyCh[s] \cup {i} |-> IF j = i THEN <<>> ELSE waitApplyCh[s][j]]
    <3>2. CASE waitApplyCh' = [waitApplyCh EXCEPT ![s] = f]
      <4>1. \A j \in DOMAIN f : j \in 1 .. setup.maxLog /\ f[j] \in Seq(Op)
        BY <2>2, EmptySeq DEF TypeInv, ChannelTypes
      <4> HIDE DEF f
      <4> QED BY <1>0, <2>2, <3>2, <4>1 DEF TypeInv, ChannelTypes
    <3> QED BY <2>3, <3>1, <3>2
<1>4. ASSUME NEW x \in calls, PopOp(x) PROVE ChannelTypes'
  <2>1. PICK s, i : s = x.server /\ i = x.index
    OBVIOUS
  <2>2. PICK q : q = waitApplyCh[s][i]
    OBVIOUS
  <2>3. s \in Server /\ q # <<>> /\ waitApplyCh' = [waitApplyCh EXCEPT ![s] = [waitApplyCh[s] EXCEPT ![i] = Tail(q)]]
    BY <1>2, <1>4, <2>1, <2>2 DEF PopOp, InService
  <2>4. i \in DOMAIN waitApplyCh[s] => Tail(q) \in Seq(Op)
    BY <2>2, <2>3, HeadTailProperties DEF TypeInv, ChannelTypes
  <2> QED BY <1>0, <2>3, <2>4 DEF TypeInv, ChannelTypes
<1>5. ASSUME NEW x \in calls, Cleanup(x) PROVE ChannelTypes'
  <2>1. PICK s, i : s = x.server /\ i = x.index
    OBVIOUS
  <2>2. s \in Server /\ waitApplyCh' = [waitApplyCh EXCEPT ![s] = [j \in DOMAIN waitApplyCh[s] \ {i} |-> waitApplyCh[s][j]]]
    BY <1>2, <1>5, <2>1 DEF Cleanup, InService
  <2> QED BY <1>0, <2>2 DEF TypeInv, ChannelTypes
<1>6. ASSUME NEW s \in Server, SendMessageToWaitChan(s) PROVE ChannelTypes'
  <2>1. PICK a : a = applying[s]
    OBVIOUS
  <2>2. PICK q : q = waitApplyCh[s][a.index]
    OBVIOUS
  <2>3. a.op \in Op
    BY <1>6, <2>1 DEF SendMessageToWaitChan, TypeInv, ApplyTypes
  <2>4. \/ waitApplyCh' = waitApplyCh
        \/ /\ a.index \in DOMAIN waitApplyCh[s]
           /\ waitApplyCh' = [waitApplyCh EXCEPT ![s] = [waitApplyCh[s] EXCEPT ![a.index] = Append(q, a.op)]]
    BY <1>6, <2>1, <2>2 DEF SendMessageToWaitChan
  <2>5. a.index \in DOMAIN waitApplyCh[s] => Append(q, a.op) \in Seq(Op)
    BY <2>2, <2>3, AppendProperties DEF TypeInv, ChannelTypes
  <2> QED BY <1>0, <1>1, <2>4, <2>5 DEF TypeInv, ChannelTypes
<1> QED BY <1>1, <1>3, <1>4, <1>5, <1>6, ChannelSteps

LEMMA WrittenIsValue ==
    ASSUME NEW value \in Seq(Op), NEW op \in Op
    PROVE  Written(value, op) \in Seq(Op) /\ ValueAfter(value, op) \in Seq(Op)
<1>1. <<op>> \in Seq(Op) /\ Append(value, op) \in Seq(Op)
  BY AppendProperties
<1> QED BY <1>1 DEF Written, ValueAfter

LEMMA StoreTypesKept == TypeInv /\ [Next]_vars => StoreTypes'
<1> SUFFICES ASSUME TypeInv, [Next]_vars PROVE StoreTypes'
  OBVIOUS
<1>1. CASE UNCHANGED storeVars
  BY <1>1 DEF TypeInv, StoreTypes, storeVars
<1>2. ASSUME NEW x \in calls, ExecuteGetOpOnKVDB(x) PROVE StoreTypes'
  <2>1. PICK s, c, id : s = x.server /\ c = x.op.client /\ id = x.op.id
    OBVIOUS
  <2>2. s \in Server /\ c \in Client /\ id \in 0 .. MaxRequests
    BY <2>1, CallHasTypes
  <2>3. m_lastRequestId' = [m_lastRequestId EXCEPT ![s] = [m_lastRequestId[s] EXCEPT ![c] = id]]
    BY <1>2, <2>1 DEF ExecuteGetOpOnKVDB
  <2>4. rolledBack' = rolledBack \/ rolledBack' = [rolledBack EXCEPT ![s] = @ \cup {c}]
    BY <1>2, <2>1 DEF ExecuteGetOpOnKVDB
  <2>5. UNCHANGED <<m_skipList, executed>>
    BY <1>2 DEF ExecuteGetOpOnKVDB
  <2>6. m_lastRequestId' \in [Server -> [Client -> 0 .. MaxRequests]]
    BY <2>2, <2>3 DEF TypeInv, StoreTypes
  <2>7. rolledBack' \in [Server -> SUBSET Client]
    BY <2>2, <2>4 DEF TypeInv, StoreTypes
  <2> QED BY <2>5, <2>6, <2>7 DEF TypeInv, StoreTypes
<1>3. ASSUME NEW s \in Server, ExecuteOp(s) PROVE StoreTypes'
  <2>1. PICK op : op = applying[s].op
    OBVIOUS
  <2>2. op \in Op /\ op.client \in Client /\ op.id \in 0 .. MaxRequests
    BY <1>3, <2>1, RequestsAssumption DEF ExecuteOp, TypeInv, ApplyTypes, Op
  <2>3. PICK v, e : v = Written(m_skipList[s], op) /\ e = Append(executed[s], op)
    OBVIOUS
  <2>4. v \in Seq(Op) /\ e \in Seq(Op)
    BY <2>2, <2>3, WrittenIsValue, AppendProperties DEF TypeInv, StoreTypes
  <2>5. m_skipList' = [m_skipList EXCEPT ![s] = v] /\ executed' = [executed EXCEPT ![s] = e] /\ rolledBack' = rolledBack
    BY <1>3, <2>1, <2>3 DEF ExecuteOp
  <2>6. m_lastRequestId' = [m_lastRequestId EXCEPT ![s] = [m_lastRequestId[s] EXCEPT ![op.client] = op.id]]
    BY <1>3, <2>1 DEF ExecuteOp
  <2>7. m_lastRequestId' \in [Server -> [Client -> 0 .. MaxRequests]]
    BY <2>2, <2>6 DEF TypeInv, StoreTypes
  <2> QED BY <2>4, <2>5, <2>7 DEF TypeInv, StoreTypes
<1> QED BY <1>1, <1>2, <1>3, StoreSteps

LEMMA OverwrittenLog ==
    ASSUME NEW a \in Seq(Op), NEW b \in Seq(Op)
    PROVE  /\ Overwritten(a, b) \in Seq(Op)
           /\ Len(Overwritten(a, b)) >= Len(b) /\ Len(Overwritten(a, b)) >= Len(a)
           /\ Len(Overwritten(a, b)) <= Len(a) \/ Len(Overwritten(a, b)) <= Len(b)
           /\ \A i \in 1 .. Len(Overwritten(a, b)) :
                Overwritten(a, b)[i] = IF i <= Len(a) THEN a[i] ELSE b[i]
<1> DEFINE rest == SubSeq(b, Len(a) + 1, Len(b))
<1>1. Len(a) \in Nat /\ Len(b) \in Nat
  BY LenProperties
<1>2. /\ rest \in Seq(Op) /\ Len(rest) = (IF Len(a) + 1 <= Len(b) THEN Len(b) - Len(a) ELSE 0)
      /\ \A i \in 1 .. Len(rest) : rest[i] = b[Len(a) + i]
  BY <1>1, SMTT(30)
<1> HIDE DEF rest
<1>3. a \o rest \in Seq(Op) /\ Len(a \o rest) = Len(a) + Len(rest)
      /\ \A i \in 1 .. Len(a) + Len(rest) : (a \o rest)[i] = IF i <= Len(a) THEN a[i] ELSE rest[i - Len(a)]
  BY <1>2, ConcatProperties, Zenon
<1>4. \A i \in 1 .. Len(a \o rest) : i > Len(a) => i - Len(a) \in 1 .. Len(rest) /\ rest[i - Len(a)] = b[i]
  BY <1>1, <1>2, <1>3
<1>5. Overwritten(a, b) = a \o rest
  BY DEF Overwritten, rest
<1>6. \A i \in 1 .. Len(a \o rest) : (a \o rest)[i] = IF i <= Len(a) THEN a[i] ELSE b[i]
  BY <1>1, <1>3, <1>4
<1> QED BY <1>1, <1>2, <1>3, <1>5, <1>6
\* What the applier hands over.
LEMMA CommandsHandedOver ==
    ASSUME committed \in Seq(Op), NEW from \in Nat, NEW to \in Nat, to = from \/ to \in from + 1 .. Len(committed)
    PROVE  /\ Commands(from, to) \in Seq(Command) /\ Len(Commands(from, to)) = to - from
           /\ \A j \in 1 .. to - from : /\ from + j \in 1 .. Len(committed)
                                        /\ Commands(from, to)[j].index = from + j
                                        /\ Commands(from, to)[j].op = committed[from + j]
<1>1. Len(committed) \in Nat /\ to - from \in Nat /\ \A i \in 1 .. Len(committed) : committed[i] \in Op
  BY LenProperties
<1>2. \A j \in 1 .. to - from : from + j \in 1 .. Len(committed) /\ from + j \in Nat
  BY <1>1
<1>3. PICK n \in Nat : n = to - from
  BY <1>1
<1>4. Commands(from, to) = [j \in 1 .. n |-> [index |-> from + j, op |-> committed[from + j]]]
  BY <1>3 DEF Commands
<1>5. \A j \in 1 .. n : [index |-> from + j, op |-> committed[from + j]] \in Command
  <2> SUFFICES ASSUME NEW j \in 1 .. n PROVE [index |-> from + j, op |-> committed[from + j]] \in Command
    OBVIOUS
  <2>1. from + j \in Nat /\ committed[from + j] \in Op
    BY <1>1, <1>2, <1>3
  <2> QED BY <2>1 DEF Command
<1>6. Commands(from, to) \in [1 .. n -> Command]
  BY <1>4, <1>5
<1>7. Commands(from, to) \in Seq(Command) /\ Len(Commands(from, to)) = n
  BY <1>6, SeqDef
<1>8. ASSUME NEW j \in 1 .. n
      PROVE  Commands(from, to)[j].index = from + j /\ Commands(from, to)[j].op = committed[from + j]
  <2>1. PICK c, i, op : c = Commands(from, to)[j] /\ i = from + j /\ op = committed[from + j]
    OBVIOUS
  <2>2. c = [index |-> i, op |-> op]
    BY <1>4, <2>1
  <2>3. c.index = i /\ c.op = op
    BY <2>2
  <2> QED BY <2>1, <2>3
<1> QED BY <1>2, <1>3, <1>7, <1>8

\* The apply thread takes command m.
Takes(s, m) ==
    /\ m \in Command /\ s \notin exited /\ applying[s] = Idle
    /\ \/ /\ collected[s] # <<>> /\ m = Head(collected[s])
          /\ collected' = [collected EXCEPT ![s] = Tail(collected[s])] /\ lastApplied' = lastApplied
       \/ /\ collected[s] = <<>> /\ m.index = lastApplied[s] + 1 /\ m.index \in Applicable(s) /\ m.op = committed[m.index]
          /\ collected' = collected /\ lastApplied' = [lastApplied EXCEPT ![s] = m.index]
    /\ \/ m.index <= m_lastSnapShotRaftLogIndex[s] /\ skipped' = skipped \cup {s} /\ applying' = applying
       \/ /\ m.index > m_lastSnapShotRaftLogIndex[s] /\ skipped' = skipped
          /\ \E pc \in {"execute", "notify"} :
                /\ applying' = [applying EXCEPT ![s] = [pc |-> pc, op |-> m.op, index |-> m.index]]
                /\ pc = "execute" <=> IsWrite(m.op) /\ ~ifRequestDuplicate(s, m.op)

LEMMA CommandTaken ==
    ASSUME TypeInv, NEW s \in Server, GetCommandFromRaft(s)
    PROVE  \E m : Takes(s, m)
<1>0. /\ committed \in Seq(Op) /\ collected[s] \in Seq(Command) /\ lastApplied[s] \in Nat
      /\ m_lastSnapShotRaftLogIndex[s] \in Nat
  BY DEF TypeInv, RaftTypes, ApplyTypes
<1>1. PICK channel : channel = collected[s] \o Commands(lastApplied[s], lastApplied'[s])
  OBVIOUS
<1>2. PICK m : m = Head(channel)
  OBVIOUS
<1>3. m \in Command /\
         \/ /\ collected[s] # <<>> /\ m = Head(collected[s])
            /\ collected' = [collected EXCEPT ![s] = Tail(collected[s])] /\ lastApplied' = lastApplied
         \/ /\ collected[s] = <<>> /\ m.index = lastApplied[s] + 1 /\ m.index \in Applicable(s) /\ m.op = committed[m.index]
            /\ collected' = collected /\ lastApplied' = [lastApplied EXCEPT ![s] = m.index]
  <2>1. CASE collected[s] # <<>> /\ UNCHANGED lastApplied
    <3>1. Commands(lastApplied[s], lastApplied'[s]) = <<>>
      <4>1. /\ Commands(lastApplied[s], lastApplied[s]) \in Seq(Command)
            /\ Len(Commands(lastApplied[s], lastApplied[s])) = lastApplied[s] - lastApplied[s]
        BY <1>0, CommandsHandedOver
      <4>2. lastApplied[s] - lastApplied[s] = 0
        BY <1>0
      <4> QED BY <2>1, <4>1, <4>2, EmptySeq
    <3>2. channel = collected[s]
      BY <1>0, <1>1, <3>1, ConcatEmptySeq
    <3>3. m \in Command
      BY <1>0, <1>2, <2>1, <3>2, HeadTailProperties
    <3>4. collected' = [collected EXCEPT ![s] = Tail(channel)]
      BY <1>1 DEF GetCommandFromRaft
    <3> QED BY <1>2, <2>1, <3>2, <3>3, <3>4
  <2>2. CASE /\ collected[s] = <<>> /\ lastApplied[s] + 1 \in Applicable(s)
             /\ lastApplied' = [lastApplied EXCEPT ![s] = @ + 1]
    <3>1. PICK i : i = lastApplied[s] + 1
      OBVIOUS
    <3>2. i \in Nat /\ i \in lastApplied[s] + 1 .. Len(committed) /\ i \in Applicable(s)
      BY <1>0, <2>2, <3>1 DEF Applicable
    <3>3. lastApplied' = [lastApplied EXCEPT ![s] = i] /\ lastApplied'[s] = i
      BY <2>2, <3>1 DEF TypeInv, ApplyTypes
    <3>4. PICK news : news = Commands(lastApplied[s], i)
      OBVIOUS
    <3>5. news \in Seq(Command) /\ Len(news) = i - lastApplied[s]
          /\ \A j \in 1 .. i - lastApplied[s] : news[j].index = lastApplied[s] + j /\ news[j].op = committed[lastApplied[s] + j]
      BY <1>0, <3>2, <3>4, CommandsHandedOver
    <3>6. Len(news) = 1 /\ 1 \in 1 .. i - lastApplied[s]
      BY <1>0, <3>1, <3>5
    <3>7. news[1].index = i /\ news[1].op = committed[i]
      BY <3>1, <3>5, <3>6
    <3>8. channel = news
      BY <1>1, <2>2, <3>3, <3>4, <3>5, ConcatEmptySeq
    <3>9. news # <<>> /\ Head(news) = news[1] /\ Head(news) \in Command /\ Tail(news) = <<>>
      <4>1. news # <<>>
        BY <3>6
      <4>2. Head(news) \in Command /\ Tail(news) \in Seq(Command) /\ Len(Tail(news)) = 0
        BY <3>5, <3>6, <4>1, HeadTailProperties
      <4>3. Tail(news) = <<>>
        BY <4>2, EmptySeq
      <4> QED BY <4>1, <4>2, <4>3
    <3>10. collected' = [collected EXCEPT ![s] = Tail(channel)]
      BY <1>1 DEF GetCommandFromRaft
    <3>11. collected' = collected
      BY <2>2, <3>8, <3>9, <3>10 DEF TypeInv, ApplyTypes
    <3> QED BY <1>2, <2>2, <3>1, <3>2, <3>3, <3>7, <3>8, <3>9, <3>11
  <2> QED BY <2>1, <2>2 DEF GetCommandFromRaft
<1>4. m.index \in Nat
  BY <1>3 DEF Command
<1>5. \/ m.index <= m_lastSnapShotRaftLogIndex[s] /\ skipped' = skipped \cup {s} /\ applying' = applying
      \/ /\ m.index > m_lastSnapShotRaftLogIndex[s] /\ skipped' = skipped
         /\ \E pc \in {"execute", "notify"} :
               /\ applying' = [applying EXCEPT ![s] = [pc |-> pc, op |-> m.op, index |-> m.index]]
               /\ pc = "execute" <=> IsWrite(m.op) /\ ~ifRequestDuplicate(s, m.op)
  <2>1. \/ m.index <= m_lastSnapShotRaftLogIndex[s] /\ skipped' = skipped \cup {s} /\ applying' = applying
        \/ /\ ~(m.index <= m_lastSnapShotRaftLogIndex[s]) /\ skipped' = skipped
           /\ applying' = [applying EXCEPT ![s] =
                [pc |-> IF IsWrite(m.op) /\ ~ifRequestDuplicate(s, m.op) THEN "execute" ELSE "notify",
                 op |-> m.op, index |-> m.index]]
    BY <1>1, <1>2 DEF GetCommandFromRaft
  <2>2. m.index <= m_lastSnapShotRaftLogIndex[s] \/ m.index > m_lastSnapShotRaftLogIndex[s]
    BY <1>0, <1>4
  <2>3. CASE IsWrite(m.op) /\ ~ifRequestDuplicate(s, m.op)
    BY <1>0, <1>4, <2>1, <2>3
  <2>4. CASE ~(IsWrite(m.op) /\ ~ifRequestDuplicate(s, m.op))
    BY <1>0, <1>4, <2>1, <2>4
  <2> QED BY <2>3, <2>4
<1> QED BY <1>3, <1>5 DEF Takes, GetCommandFromRaft

\* A snapshot up to index i, of which the apply thread has the commands up to last.
Installs(s, i, last) ==
    /\ i = snapshotIndex[leader] /\ i > snapshotIndex[s] /\ i \in Nat /\ last \in Nat
    /\ s # leader /\ s \notin exited /\ leader \notin exited
    /\ last = lastApplied[s] \/ last \in Applicable(s)
    /\ log' = [log EXCEPT ![s] = Overwritten(SubSeq(committed, 1, i), log[s])]
    /\ collected' = [collected EXCEPT ![s] = collected[s] \o Commands(lastApplied[s], last)]
    /\ lastApplied' = [lastApplied EXCEPT ![s] = IF last < i THEN i ELSE last]
    /\ skipped' = IF last < i THEN skipped \cup {s} ELSE skipped
    /\ snapshotIndex' = [snapshotIndex EXCEPT ![s] = i]
    /\ leads' = leads \ {s}

LEMMA SnapshotInstalled ==
    ASSUME TypeInv, NEW s \in Server, InstallSnapshot(s)
    PROVE  \E i, last : Installs(s, i, last)
<1>1. PICK last \in {lastApplied[s]} \cup Applicable(s) :
        LET i == snapshotIndex[leader] IN
              /\ collected' = [collected EXCEPT ![s] = @ \o Commands(lastApplied[s], last)]
              /\ lastApplied' = [lastApplied EXCEPT ![s] = IF last < i THEN i ELSE last]
              /\ skipped' = IF last < i THEN skipped \cup {s} ELSE skipped
  BY DEF InstallSnapshot
<1>2. PICK i : i = snapshotIndex[leader]
  OBVIOUS
<1>3. i \in Nat /\ lastApplied[s] \in Nat /\ Len(committed) \in Nat
  BY <1>2, LenProperties DEF TypeInv, RaftTypes, ApplyTypes, SnapTypes
<1>4. last \in Nat
  BY <1>3 DEF Applicable
<1>5. /\ s # leader /\ s \notin exited /\ leader \notin exited /\ i > snapshotIndex[s]
      /\ log' = [log EXCEPT ![s] = Overwritten(SubSeq(committed, 1, i), log[s])]
      /\ snapshotIndex' = [snapshotIndex EXCEPT ![s] = i] /\ leads' = leads \ {s}
  BY <1>2 DEF InstallSnapshot
<1> QED BY <1>1, <1>2, <1>3, <1>4, <1>5 DEF Installs
LEMMA CommandCommits ==
    ASSUME TypeInv, Commit
    PROVE  \E op \in Op :
             /\ op = log[leader][Len(committed) + 1] /\ Len(committed) + 1 \in 1 .. Len(log[leader])
             /\ committed' = Append(committed, op)
             /\ values' = Append(values, ValueAfter(ValueAt(Len(committed)), op))
             /\ ValueAt(Len(committed)) \in Seq(Op)
<1>0. /\ committed \in Seq(Op) /\ values \in Seq(Seq(Op)) /\ Len(values) = Len(committed) /\ log[leader] \in Seq(Op)
  BY DEF TypeInv, RaftTypes
<1>1. Len(committed) \in Nat /\ Len(log[leader]) \in Nat /\ \A i \in 1 .. Len(log[leader]) : log[leader][i] \in Op
  BY <1>0, LenProperties
<1>2. Len(committed) + 1 \in 1 .. Len(log[leader])
  BY <1>1 DEF Commit
<1>3. ValueAt(Len(committed)) \in Seq(Op)
  BY <1>0, <1>1, EmptySeq, LenProperties DEF ValueAt
<1> QED BY <1>1, <1>2, <1>3 DEF Commit

\* Nothing committed is ever taken back.
LEMMA CommittedGrows ==
    ASSUME TypeInv, [Next]_vars
    PROVE  /\ committed' \in Seq(Op) /\ values' \in Seq(Seq(Op)) /\ Len(values') = Len(committed')
           /\ Len(committed) <= Len(committed') /\ Len(committed) \in Nat /\ Len(committed') \in Nat
           /\ \A i \in 1 .. Len(committed) : committed'[i] = committed[i] /\ values'[i] = values[i]
<1>0. /\ committed \in Seq(Op) /\ values \in Seq(Seq(Op)) /\ Len(values) = Len(committed)
      /\ Len(committed) \in Nat
  BY LenProperties DEF TypeInv, RaftTypes
<1>1. CASE UNCHANGED <<committed, values>>
  BY <1>0, <1>1
<1>2. CASE Commit
  <2>1. PICK op \in Op : committed' = Append(committed, op)
                         /\ values' = Append(values, ValueAfter(ValueAt(Len(committed)), op))
                         /\ ValueAt(Len(committed)) \in Seq(Op)
    BY <1>2, CommandCommits
  <2>2. ValueAfter(ValueAt(Len(committed)), op) \in Seq(Op)
    BY <2>1, WrittenIsValue
  <2> QED BY <1>0, <2>1, <2>2, AppendProperties
<1>3. UNCHANGED <<committed, values>> \/ Commit
  BY RaftSteps DEF raftVars, Start, InstalledAt, GetSnapShotFromRaft, Elect, Replicate, InstallSnapshot
<1> QED BY <1>1, <1>2, <1>3

LEMMA SnapshotCommands ==
    ASSUME TypeInv, NEW s \in Server
    PROVE  LET part == SubSeq(committed, 1, snapshotIndex[s]) IN
           part \in Seq(Op) /\ Len(part) = snapshotIndex[s] /\ \A i \in 1 .. Len(part) : part[i] = committed[i]
<1>0. /\ committed \in Seq(Op) /\ Len(committed) \in Nat /\ snapshotIndex[s] \in Nat /\ snapshotIndex[s] <= Len(committed)
  BY LenProperties DEF TypeInv, RaftTypes, SnapTypes, HandedOver, HandedAt
<1>1. \A i \in 1 .. snapshotIndex[s] : committed[i] \in Op
  BY <1>0, LenProperties
<1> QED BY <1>0, <1>1, SubSeqProperties

LEMMA RaftTypesKept == TypeInv /\ [Next]_vars => RaftTypes'
<1> SUFFICES ASSUME TypeInv, [Next]_vars PROVE RaftTypes'
  OBVIOUS
<1>0. setup' = setup /\ setup.maxElections \in Nat /\ committed' \in Seq(Op) /\ values' \in Seq(Seq(Op))
      /\ Len(values') = Len(committed')
  BY SetupStays, SetupTypes, CommittedGrows DEF TypeInv, ClerkTypes
<1>1. CASE UNCHANGED <<log, leads, leader, elections>>
  BY <1>0, <1>1 DEF TypeInv, RaftTypes
<1>2. ASSUME NEW x \in calls, Start(x) PROVE RaftTypes'
  <2>1. x.server \in Server /\ x.op \in Op
    BY CallHasTypes
  <2>2. PICK l : l = Append(log[x.server], x.op)
    OBVIOUS
  <2>3. l \in Seq(Op)
    BY <2>1, <2>2, AppendProperties DEF TypeInv, RaftTypes
  <2>4. log' = log \/ log' = [log EXCEPT ![x.server] = l]
    BY <1>2, <2>2 DEF Start
  <2>5. UNCHANGED <<leads, leader, elections>>
    BY <1>2 DEF Start
  <2> QED BY <1>0, <2>1, <2>3, <2>4, <2>5 DEF TypeInv, RaftTypes
<1>3. ASSUME NEW s \in Server, InstalledAt(s) PROVE RaftTypes'
  <2>1. UNCHANGED <<log, leader, elections>> /\ leads' \subseteq leads
    BY <1>3 DEF InstalledAt, GetSnapShotFromRaft
  <2> QED BY <1>0, <2>1 DEF TypeInv, RaftTypes
<1>4. ASSUME NEW s \in Server, Elect(s) PROVE RaftTypes'
  <2>1. /\ leader' = s /\ leads' = leads \cup {s} /\ elections' = elections + 1 /\ log' = log
        /\ elections < setup.maxElections
    BY <1>4 DEF Elect
  <2>2. elections + 1 \in 0 .. setup.maxElections
    BY <1>0, <2>1 DEF TypeInv, RaftTypes
  <2> QED BY <1>0, <2>1, <2>2 DEF TypeInv, RaftTypes
<1>5. ASSUME NEW s \in Server, Replicate(s) PROVE RaftTypes'
  <2>1. PICK l : l = Overwritten(log[leader], log[s])
    OBVIOUS
  <2>2. l \in Seq(Op)
    BY <2>1, OverwrittenLog DEF TypeInv, RaftTypes
  <2>3. log' = [log EXCEPT ![s] = l] /\ leads' = leads \ {s} /\ UNCHANGED <<leader, elections>>
    BY <1>5, <2>1 DEF Replicate
  <2> QED BY <1>0, <2>2, <2>3 DEF TypeInv, RaftTypes
<1>6. ASSUME NEW s \in Server, InstallSnapshot(s) PROVE RaftTypes'
  <2>0. leader \in Server /\ log[s] \in Seq(Op)
    BY DEF TypeInv, RaftTypes
  <2>1. PICK part, l : part = SubSeq(committed, 1, snapshotIndex[leader]) /\ l = Overwritten(part, log[s])
    OBVIOUS
  <2>2. l \in Seq(Op)
    <3>1. part \in Seq(Op)
      BY <2>0, <2>1, SnapshotCommands
    <3> QED BY <2>0, <2>1, <3>1, OverwrittenLog
  <2>3. log' = [log EXCEPT ![s] = l] /\ leads' = leads \ {s} /\ UNCHANGED <<leader, elections>>
    BY <1>6, <2>1 DEF InstallSnapshot
  <2> QED BY <1>0, <2>2, <2>3 DEF TypeInv, RaftTypes
<1>7. Commit => UNCHANGED <<log, leads, leader, elections>>
  BY DEF Commit
<1> QED BY <1>1, <1>2, <1>3, <1>4, <1>5, <1>6, <1>7, RaftSteps DEF raftVars

LEMMA ApplyTypesKept == TypeInv /\ [Next]_vars => ApplyTypes'
<1> SUFFICES ASSUME TypeInv, [Next]_vars PROVE ApplyTypes'
  OBVIOUS
<1>1. CASE UNCHANGED applyVars
  BY <1>1 DEF TypeInv, ApplyTypes, applyVars
<1>2. ASSUME NEW s \in Server, GetCommandFromRaft(s) PROVE ApplyTypes'
  <2>1. PICK m : Takes(s, m)
    BY <1>2, CommandTaken
  <2>2. m \in Command /\ m.index \in Nat /\ m.op \in Op
    BY <2>1 DEF Takes, Command
  <2>3. lastApplied' \in [Server -> Nat] /\ m_lastSnapShotRaftLogIndex' = m_lastSnapShotRaftLogIndex
    BY <1>2, <2>1, <2>2 DEF Takes, GetCommandFromRaft, TypeInv, ApplyTypes
  <2>4. collected' \in [Server -> Seq(Command)]
    <3>1. collected[s] # <<>> => Tail(collected[s]) \in Seq(Command)
      BY HeadTailProperties DEF TypeInv, ApplyTypes
    <3> QED BY <2>1, <3>1 DEF Takes, TypeInv, ApplyTypes
  <2>5. skipped' \subseteq Server
    BY <2>1 DEF Takes, TypeInv, ApplyTypes
  <2>6. /\ applying' \in [Server -> [pc : {"idle", "execute", "notify"}, op : Op \cup {NoOp}, index : Nat]]
        /\ \A t \in Server : applying'[t].pc # "idle" => applying'[t].op \in Op
    <3>1. CASE applying' = applying
      BY <3>1 DEF TypeInv, ApplyTypes
    <3>2. ASSUME NEW pc \in {"execute", "notify"},
                 applying' = [applying EXCEPT ![s] = [pc |-> pc, op |-> m.op, index |-> m.index]]
          PROVE  /\ applying' \in [Server -> [pc : {"idle", "execute", "notify"}, op : Op \cup {NoOp}, index : Nat]]
                 /\ \A t \in Server : applying'[t].pc # "idle" => applying'[t].op \in Op
      <4>1. PICK a : a = [pc |-> pc, op |-> m.op, index |-> m.index]
        OBVIOUS
      <4>2. a \in [pc : {"idle", "execute", "notify"}, op : Op \cup {NoOp}, index : Nat] /\ a.op \in Op
        BY <2>2, <4>1
      <4> QED BY <3>2, <4>1, <4>2 DEF TypeInv, ApplyTypes
    <3> QED BY <2>1, <3>1, <3>2 DEF Takes
  <2> QED BY <2>3, <2>4, <2>5, <2>6 DEF TypeInv, ApplyTypes
<1>3. ASSUME NEW s \in Server, ExecuteOp(s) PROVE ApplyTypes'
  <2>1. applying' = [applying EXCEPT ![s] = [applying[s] EXCEPT !.pc = "notify"]] /\ applying[s].pc = "execute"
        /\ UNCHANGED <<lastApplied, collected, m_lastSnapShotRaftLogIndex, skipped>>
    BY <1>3 DEF ExecuteOp
  <2> QED BY <2>1 DEF TypeInv, ApplyTypes
<1>4. ASSUME NEW s \in Server, SendMessageToWaitChan(s) PROVE ApplyTypes'
  BY <1>4 DEF SendMessageToWaitChan, TypeInv, ApplyTypes, Idle
<1>5. ASSUME NEW s \in Server, InstalledAt(s) PROVE ApplyTypes'
  <2>1. PICK m \in snapshots[s] : GetSnapShotFromRaft(s, m)
    BY <1>5 DEF InstalledAt
  <2>2. m.index \in Nat
    BY <2>1 DEF TypeInv, SnapTypes
  <2>3. UNCHANGED <<lastApplied, collected, applying, skipped>>
        /\ (m_lastSnapShotRaftLogIndex' = m_lastSnapShotRaftLogIndex
              \/ m_lastSnapShotRaftLogIndex' = [m_lastSnapShotRaftLogIndex EXCEPT ![s] = m.index])
    BY <2>1 DEF GetSnapShotFromRaft
  <2> QED BY <2>2, <2>3 DEF TypeInv, ApplyTypes
<1>6. ASSUME NEW s \in Server, InstallSnapshot(s) PROVE ApplyTypes'
  <2>1. PICK i, last : Installs(s, i, last)
    BY <1>6, SnapshotInstalled
  <2>2. PICK news : news = Commands(lastApplied[s], last)
    OBVIOUS
  <2>3. news \in Seq(Command)
    <3>1. last = lastApplied[s] \/ last \in lastApplied[s] + 1 .. Len(committed)
      BY <2>1 DEF Installs, Applicable
    <3> QED BY <2>1, <2>2, <3>1, CommandsHandedOver DEF Installs, TypeInv, ApplyTypes, RaftTypes
  <2>4. PICK q : q = collected[s] \o news
    OBVIOUS
  <2>5. q \in Seq(Command) /\ collected' = [collected EXCEPT ![s] = q]
    BY <2>1, <2>2, <2>3, <2>4, ConcatProperties DEF Installs, TypeInv, ApplyTypes
  <2>6. lastApplied' \in [Server -> Nat] /\ skipped' \subseteq Server
    BY <2>1 DEF Installs, TypeInv, ApplyTypes
  <2>7. UNCHANGED <<applying, m_lastSnapShotRaftLogIndex>>
    BY <1>6 DEF InstallSnapshot
  <2> QED BY <2>5, <2>6, <2>7 DEF TypeInv, ApplyTypes
<1> QED BY <1>1, <1>2, <1>3, <1>4, <1>5, <1>6, ApplySteps DEF ApplyStep, InstalledAt

LEMMA SnapTypesKept == TypeInv /\ [Next]_vars => SnapTypes'
<1> SUFFICES ASSUME TypeInv, [Next]_vars PROVE SnapTypes'
  OBVIOUS
<1>1. CASE UNCHANGED snapVars
  BY <1>1 DEF TypeInv, SnapTypes, snapVars
<1>2. CASE SnapshotLost
  BY <1>2 DEF SnapshotLost, TypeInv, SnapTypes
<1>3. ASSUME NEW s \in Server, SendMessageToWaitChan(s) PROVE SnapTypes'
  <2>1. UNCHANGED <<snapshots, exited>> /\ IfNeedToSendSnapShotCommand(s, applying[s].index) /\ applying[s].index \in Nat
    BY <1>3 DEF SendMessageToWaitChan, TypeInv, ApplyTypes
  <2> QED BY <2>1 DEF IfNeedToSendSnapShotCommand, TypeInv, SnapTypes
<1>4. ASSUME NEW s \in Server, InstallSnapshot(s) PROVE SnapTypes'
  <2>1. PICK i, data : i = snapshotIndex[leader] /\ data = FirstWord(snapshotFile[leader])
    OBVIOUS
  <2>2. leader \in Server /\ i \in Nat /\ data \in {"empty", "word"}
    BY <2>1 DEF FirstWord, TypeInv, RaftTypes, SnapTypes
  <2>3. PICK m : m = [index |-> i, data |-> data]
    OBVIOUS
  <2>4. m \in [index : Nat, data : {"empty", "word"}]
    BY <2>2, <2>3
  <2>5. /\ snapshotIndex' = [snapshotIndex EXCEPT ![s] = i]
        /\ snapshotFile' = [snapshotFile EXCEPT ![leader] = "empty", ![s] = data]
        /\ snapshots' = [snapshots EXCEPT ![s] = @ \cup {m}] /\ exited' = exited
    BY <1>4, <2>1, <2>3 DEF InstallSnapshot
  <2>6. DOMAIN snapshots' = Server /\ \A t \in Server : snapshots'[t] \subseteq [index : Nat, data : {"empty", "word"}]
    BY <2>4, <2>5 DEF TypeInv, SnapTypes
  <2>7. snapshotIndex' \in [Server -> Nat]
    BY <2>2, <2>5 DEF TypeInv, SnapTypes
  <2>8. snapshotFile' \in [Server -> {"empty", "word", "archive"}]
    BY <2>2, <2>5 DEF TypeInv, SnapTypes
  <2> QED BY <2>5, <2>6, <2>7, <2>8 DEF TypeInv, SnapTypes
<1>5. ASSUME NEW s \in Server, InstalledAt(s) PROVE SnapTypes'
  <2>1. PICK m \in snapshots[s] : GetSnapShotFromRaft(s, m)
    BY <1>5 DEF InstalledAt
  <2>2. snapshots' = [snapshots EXCEPT ![s] = @ \ {m}] /\ UNCHANGED <<snapshotIndex, snapshotFile>>
        /\ exited' \subseteq exited \cup {s}
    BY <2>1 DEF GetSnapShotFromRaft
  <2> QED BY <2>2 DEF TypeInv, SnapTypes
<1> QED BY <1>1, <1>2, <1>3, <1>4, <1>5, SnapSteps
LEMMA HandedOverKept == TypeInv /\ [Next]_vars => HandedOver'
<1> SUFFICES ASSUME TypeInv, [Next]_vars, NEW t \in Server PROVE HandedAt(t)'
  BY DEF HandedOver
<1>0. /\ Len(committed) <= Len(committed') /\ Len(committed) \in Nat /\ Len(committed') \in Nat
      /\ \A i \in 1 .. Len(committed) : committed'[i] = committed[i]
  BY CommittedGrows
<1>1. /\ HandedAt(t) /\ lastApplied[t] \in Nat /\ snapshotIndex[t] \in Nat /\ collected[t] \in Seq(Command)
      /\ Len(collected[t]) \in Nat
  BY LenProperties DEF TypeInv, HandedOver, ApplyTypes, SnapTypes
<1>2. ASSUME NEW m, IsCommitted(m) PROVE m.index \in 1 .. Len(committed') /\ m.op = committed'[m.index]
  BY <1>0, <1>2 DEF IsCommitted
<1>4. CASE /\ lastApplied'[t] = lastApplied[t] /\ snapshotIndex'[t] = snapshotIndex[t]
           /\ collected'[t] = collected[t] /\ applying'[t] = applying[t]
  <2>1. \A j \in 1 .. Len(collected'[t]) :
            collected'[t][j].index \in 1 .. Len(committed') /\ collected'[t][j].op = committed'[collected'[t][j].index]
    BY <1>1, <1>2, <1>4 DEF HandedAt
  <2>2. applying'[t].pc # "idle" =>
            applying'[t].index \in 1 .. Len(committed') /\ applying'[t].op = committed'[applying'[t].index]
    BY <1>1, <1>2, <1>4 DEF HandedAt
  <2>3. lastApplied'[t] <= Len(committed') /\ snapshotIndex'[t] <= Len(committed')
    BY <1>0, <1>1, <1>4 DEF HandedAt
  <2> QED BY <2>1, <2>2, <2>3 DEF HandedAt, IsCommitted
<1>5. CASE GetCommandFromRaft(t)
  <2>1. PICK m : Takes(t, m)
    BY <1>5, CommandTaken
  <2>2. IsCommitted(m) /\ m.index \in Nat
    <3>1. CASE collected[t] # <<>> /\ m = Head(collected[t])
      <4>1. m = collected[t][1] /\ 1 \in 1 .. Len(collected[t])
        BY <1>1, <3>1, EmptySeq
      <4> QED BY <1>1, <2>1, <4>1 DEF HandedAt, Takes, Command
    <3>2. CASE m.index = lastApplied[t] + 1 /\ m.index \in Applicable(t) /\ m.op = committed[m.index]
      BY <1>0, <1>1, <3>2 DEF IsCommitted, Applicable
    <3> QED BY <2>1, <3>1, <3>2 DEF Takes
  <2>3. committed' = committed /\ snapshotIndex' = snapshotIndex
    BY <1>5 DEF GetCommandFromRaft, raftVars, snapVars
  <2>4. \A j \in 1 .. Len(collected'[t]) : IsCommitted(collected'[t][j])
    <3>1. CASE collected[t] # <<>> /\ collected' = [collected EXCEPT ![t] = Tail(collected[t])]
      <4>1. collected'[t] = Tail(collected[t])
        BY <3>1 DEF TypeInv, ApplyTypes
      <4>2. Len(Tail(collected[t])) = Len(collected[t]) - 1
            /\ \A j \in 1 .. Len(Tail(collected[t])) : Tail(collected[t])[j] = collected[t][j + 1]
        BY <1>1, <3>1, HeadTailProperties
      <4>3. \A j \in 1 .. Len(Tail(collected[t])) : j + 1 \in 1 .. Len(collected[t])
        BY <1>1, <4>2
      <4> QED BY <1>1, <4>1, <4>2, <4>3 DEF HandedAt
    <3>2. CASE collected' = collected
      BY <1>1, <3>2 DEF HandedAt
    <3> QED BY <2>1, <3>1, <3>2 DEF Takes
  <2>5. lastApplied'[t] <= Len(committed)
    BY <1>1, <2>1, <2>2 DEF Takes, HandedAt, IsCommitted, TypeInv, ApplyTypes
  <2>6. applying'[t].pc # "idle" => IsCommitted(applying'[t])
    <3>1. CASE applying' = applying
      BY <1>1, <3>1 DEF HandedAt
    <3>2. ASSUME NEW pc, applying' = [applying EXCEPT ![t] = [pc |-> pc, op |-> m.op, index |-> m.index]]
          PROVE  IsCommitted(applying'[t])
      <4>1. applying'[t].op = m.op /\ applying'[t].index = m.index
        BY <3>2 DEF TypeInv, ApplyTypes
      <4> QED BY <2>2, <4>1 DEF IsCommitted
    <3> QED BY <2>1, <3>1, <3>2 DEF Takes
  <2> QED BY <1>1, <2>3, <2>4, <2>5, <2>6 DEF HandedAt, IsCommitted
<1>6. CASE ExecuteOp(t)
  <2>1. /\ applying'[t].op = applying[t].op /\ applying'[t].index = applying[t].index /\ applying[t].pc # "idle"
        /\ UNCHANGED <<lastApplied, collected, snapshotIndex, committed>>
    BY <1>6 DEF ExecuteOp, TypeInv, ApplyTypes, raftVars, snapVars
  <2> QED BY <1>1, <2>1 DEF HandedAt, IsCommitted
<1>7. CASE SendMessageToWaitChan(t)
  <2>1. /\ applying'[t] = Idle /\ IsCommitted(applying[t]) /\ UNCHANGED <<lastApplied, collected, committed>>
        /\ IfNeedToSendSnapShotCommand(t, applying[t].index)
    BY <1>1, <1>7 DEF SendMessageToWaitChan, TypeInv, ApplyTypes, raftVars, HandedAt
  <2>2. snapshotIndex'[t] = snapshotIndex[t] \/ snapshotIndex'[t] = applying[t].index
    BY <2>1 DEF IfNeedToSendSnapShotCommand, TypeInv, SnapTypes
  <2> QED BY <1>1, <2>1, <2>2 DEF HandedAt, IsCommitted, Idle
<1>8. CASE InstallSnapshot(t)
  <2>1. PICK i, last : Installs(t, i, last)
    BY <1>8, SnapshotInstalled
  <2>2. i <= Len(committed) /\ i \in Nat /\ last <= Len(committed) /\ last \in Nat
    <3>1. leader \in Server
      BY DEF TypeInv, RaftTypes
    <3> QED BY <1>0, <1>1, <2>1, <3>1 DEF Installs, Applicable, TypeInv, HandedOver, HandedAt
  <2>3. UNCHANGED <<committed, applying>>
    BY <1>8 DEF InstallSnapshot
  <2>4. snapshotIndex'[t] = i /\ lastApplied'[t] \in {i, last}
    BY <2>1 DEF Installs, TypeInv, SnapTypes, ApplyTypes
  <2>5. PICK news : news = Commands(lastApplied[t], last)
    OBVIOUS
  <2>6. news \in Seq(Command) /\ Len(news) = last - lastApplied[t]
        /\ \A j \in 1 .. last - lastApplied[t] :
              /\ lastApplied[t] + j \in 1 .. Len(committed)
              /\ news[j].index = lastApplied[t] + j /\ news[j].op = committed[lastApplied[t] + j]
    <3>1. last = lastApplied[t] \/ last \in lastApplied[t] + 1 .. Len(committed)
      BY <2>1 DEF Installs, Applicable
    <3> QED BY <1>1, <2>2, <2>5, <3>1, CommandsHandedOver DEF TypeInv, RaftTypes
  <2>7. \A j \in 1 .. Len(news) : IsCommitted(news[j])
    BY <2>6 DEF IsCommitted
  <2>8. PICK q : q = collected[t] \o news
    OBVIOUS
  <2>9. collected'[t] = q
    BY <2>1, <2>5, <2>8 DEF Installs, TypeInv, ApplyTypes
  <2>10. Len(news) \in Nat
    BY <2>6, LenProperties
  <2>11. Len(q) = Len(collected[t]) + Len(news)
         /\ \A j \in 1 .. Len(collected[t]) + Len(news) :
                q[j] = IF j <= Len(collected[t]) THEN collected[t][j] ELSE news[j - Len(collected[t])]
    BY <1>1, <2>6, <2>8, ConcatProperties, Zenon
  <2>12. ASSUME NEW j \in 1 .. Len(q) PROVE IsCommitted(q[j])
    <3>1. CASE j <= Len(collected[t])
      <4>1. q[j] = collected[t][j] /\ j \in 1 .. Len(collected[t])
        BY <1>1, <2>10, <2>11, <3>1
      <4> QED BY <1>1, <4>1 DEF HandedAt
    <3>2. CASE ~(j <= Len(collected[t]))
      <4>1. q[j] = news[j - Len(collected[t])] /\ j - Len(collected[t]) \in 1 .. Len(news)
        BY <1>1, <2>10, <2>11, <3>2
      <4> QED BY <2>7, <4>1
    <3> QED BY <3>1, <3>2
  <2> QED BY <1>1, <2>2, <2>3, <2>4, <2>9, <2>12 DEF HandedAt, IsCommitted
<1>9. ASSUME NEW s \in Server, ApplyStep(s) \/ InstallSnapshot(s), s # t
      PROVE  /\ lastApplied'[t] = lastApplied[t] /\ collected'[t] = collected[t] /\ applying'[t] = applying[t]
  <2>1. CASE GetCommandFromRaft(s)
    <3>1. PICK m : Takes(s, m)
      BY <2>1, CommandTaken
    <3> QED BY <1>9, <3>1 DEF Takes, TypeInv, ApplyTypes
  <2>2. CASE InstallSnapshot(s)
    <3>1. PICK i, last : Installs(s, i, last)
      BY <2>2, SnapshotInstalled
    <3> QED BY <1>9, <2>2, <3>1 DEF Installs, InstallSnapshot, TypeInv, ApplyTypes
  <2>3. CASE ExecuteOp(s) \/ SendMessageToWaitChan(s) \/ InstalledAt(s)
    BY <1>9, <2>3 DEF ExecuteOp, SendMessageToWaitChan, InstalledAt, GetSnapShotFromRaft, TypeInv, ApplyTypes
  <2> QED BY <1>9, <2>1, <2>2, <2>3 DEF ApplyStep, InstalledAt
<1>10. ASSUME NEW s \in Server, InstallSnapshot(s) \/ SendMessageToWaitChan(s), s # t
       PROVE  snapshotIndex'[t] = snapshotIndex[t]
  BY <1>10 DEF InstallSnapshot, SendMessageToWaitChan, IfNeedToSendSnapShotCommand, TypeInv, SnapTypes
<1>11. CASE InstalledAt(t)
  BY <1>4, <1>11 DEF InstalledAt, GetSnapShotFromRaft
<1>12. \/ GetCommandFromRaft(t) \/ ExecuteOp(t) \/ SendMessageToWaitChan(t) \/ InstalledAt(t) \/ InstallSnapshot(t)
       \/ lastApplied'[t] = lastApplied[t] /\ collected'[t] = collected[t] /\ applying'[t] = applying[t]
  BY <1>9, ApplySteps DEF applyVars, ApplyStep, InstalledAt
<1>13. SendMessageToWaitChan(t) \/ InstallSnapshot(t) \/ snapshotIndex'[t] = snapshotIndex[t]
  BY <1>10, SnapSteps DEF snapVars, SnapshotLost, InstalledAt, GetSnapShotFromRaft
<1> QED BY <1>4, <1>5, <1>6, <1>7, <1>8, <1>11, <1>12, <1>13

LEMMA TypesKept == TypeInv /\ [Next]_vars => TypeInv'
BY ClerkTypesKept, CallTypesKept, ChannelTypesKept, StoreTypesKept, RaftTypesKept, ApplyTypesKept, SnapTypesKept,
   HandedOverKept DEF TypeInv

LEMMA TypesMean == TypeInv => TypeOK
<1> SUFFICES ASSUME TypeInv PROVE TypeOK
  OBVIOUS
<1>0. setup.maxBreaks \in Nat /\ setup.maxLog \in Nat
  BY SetupTypes DEF TypeInv, ClerkTypes
<1>1. ASSUME NEW x \in calls
      PROVE  /\ x.op \in Op /\ x.server \in Server /\ x.try \in 0 .. setup.maxBreaks
             /\ x.phase \in Phases /\ x.index \in 0 .. setup.maxLog
             /\ x.err \in {"", "OK", "ErrNoKey", "ErrWrongLeader", "failed"} /\ x.value \in Seq(Op)
  <2>1. x \in CallRecord /\ x.try <= setup.maxBreaks /\ x.index <= setup.maxLog
    BY DEF TypeInv, CallTypes
  <2>2. x.index \in 0 .. setup.maxLog /\ x.try \in 0 .. setup.maxBreaks
    BY <1>0, <2>1, CallHasTypes
  <2> QED BY <2>1, <2>2 DEF CallRecord
<1>2. collected \in [Server -> Seq([index : Nat, op : Op])]
  BY DEF TypeInv, ApplyTypes, Command
<1> QED BY <1>1, <1>2 DEF TypeOK, TypeInv, ClerkTypes, ChannelTypes, StoreTypes, RaftTypes, ApplyTypes, SnapTypes

\* The types hold in every state: no request number passes a clerk's program, no
\* wait channel or call has an index outside the log, and no server takes, applies
\* or restores what is not committed (clerk.cpp, kvServer.cpp).
THEOREM TypeOKHolds == Spec => []TypeOK
<1>1. Spec => []TypeInv
  BY TypesAtStart, TypesKept, PTL DEF Spec
<1> QED BY <1>1, TypesMean, PTL
---------------------------------------------------------------------------
(* Wait channels.  No two calls in service at a server have the same index,  *)
(* because each has put its own command into the log, and logs never shrink: *)
(* what a leader sends overwrites entries but cuts nothing off.              *)

Channels ==
    /\ \A x \in calls : InService(x) => x.index \in 1 .. Len(log[x.server])
    /\ \A x, y \in calls :
            InService(x) /\ InService(y) /\ x.server = y.server /\ x.index = y.index => x = y
    /\ \A x \in calls : Holds(x) => x.index \in DOMAIN waitApplyCh[x.server]

LEMMA LogsGrow ==
    ASSUME TypeInv, [Next]_vars, NEW s \in Server
    PROVE  Len(log[s]) \in Nat /\ Len(log'[s]) \in Nat /\ Len(log[s]) <= Len(log'[s])
<1>0. /\ log[s] \in Seq(Op) /\ log'[s] \in Seq(Op) /\ Len(log[s]) \in Nat /\ Len(log'[s]) \in Nat
  BY RaftTypesKept, LenProperties DEF TypeInv, RaftTypes
<1>1. CASE log' = log
  BY <1>0, <1>1
<1>2. ASSUME NEW x \in calls, Start(x), log' # log PROVE Len(log[s]) <= Len(log'[s])
  <2>1. log' = [log EXCEPT ![x.server] = Append(log[x.server], x.op)] /\ x.server \in Server /\ x.op \in Op
    BY <1>2, CallHasTypes DEF Start
  <2>2. log'[s] = log[s] \/ log'[s] = Append(log[s], x.op)
    BY <2>1 DEF TypeInv, RaftTypes
  <2> QED BY <1>0, <2>1, <2>2, AppendProperties
<1>3. ASSUME NEW t \in Server, NEW part \in Seq(Op), log' = [log EXCEPT ![t] = Overwritten(part, log[t])]
      PROVE  Len(log[s]) <= Len(log'[s])
  <2>1. log'[s] = log[s] \/ log'[s] = Overwritten(part, log[s])
    BY <1>3 DEF TypeInv, RaftTypes
  <2>2. Len(Overwritten(part, log[s])) >= Len(log[s])
    BY <1>0, OverwrittenLog
  <2> QED BY <1>0, <2>1, <2>2
<1>4. ASSUME NEW t \in Server, Replicate(t) PROVE Len(log[s]) <= Len(log'[s])
  <2>1. log' = [log EXCEPT ![t] = Overwritten(log[leader], log[t])] /\ log[leader] \in Seq(Op)
    BY <1>4 DEF Replicate, TypeInv, RaftTypes
  <2> QED BY <1>3, <2>1
<1>5. ASSUME NEW t \in Server, InstallSnapshot(t) PROVE Len(log[s]) <= Len(log'[s])
  <2>1. PICK part : part = SubSeq(committed, 1, snapshotIndex[leader])
    OBVIOUS
  <2>2. part \in Seq(Op)
    BY <2>1, SnapshotCommands DEF TypeInv, RaftTypes
  <2>3. log' = [log EXCEPT ![t] = Overwritten(part, log[t])]
    BY <1>5, <2>1 DEF InstallSnapshot
  <2> QED BY <1>3, <2>2, <2>3
<1>6. \/ log' = log \/ \E x \in calls : Start(x)
      \/ \E t \in Server : Replicate(t) \/ InstallSnapshot(t)
  BY RaftSteps DEF raftVars, InstalledAt, GetSnapShotFromRaft, Commit, Elect
<1> QED BY <1>0, <1>1, <1>2, <1>4, <1>5, <1>6

\* A call in service was there before, or one stage back.
LEMMA ServiceSteps ==
    ASSUME TypeInv, [Next]_vars
    PROVE  \/ \A y \in calls' : InService(y) => y \in calls
           \/ \E x \in calls : /\ ServeStep(x)
                               /\ \A y \in calls' : y \in calls \ {x} \/ Moved(x, y)
                               /\ \A y, z \in calls' : y \notin calls \ {x} /\ z \notin calls \ {x} => y = z
<1>1. ASSUME NEW x \in calls, ServeStep(x)
      PROVE  /\ \A y \in calls' : y \in calls \ {x} \/ Moved(x, y)
             /\ \A y, z \in calls' : y \notin calls \ {x} /\ z \notin calls \ {x} => y = z
  BY <1>1, ServeMoves
<1>2. ASSUME NEW y \in calls', InService(y), \A x \in calls : ~ServeStep(x) PROVE y \in calls
  <2>1. ASSUME NEW c \in Client, Call(c) PROVE y \in calls
    <3>1. PICK op, z : Begins(c, op, z)
      BY <2>1, CallBegins
    <3>2. z.phase = "sent" /\ (y \in calls \/ y = z)
      BY <3>1 DEF Begins, Fresh
    <3> QED BY <1>2, <3>2 DEF InService
  <2>2. ASSUME NEW x \in calls, TakeReply(x) PROVE y \in calls
    <3>1. Ends(x) \/ \E z : AsksAgain(x, z)
      BY <2>2, ReplyTaken
    <3>2. ASSUME NEW z, AsksAgain(x, z) PROVE y \in calls
      BY <1>2, <3>2 DEF AsksAgain, Fresh, InService
    <3> QED BY <3>1, <3>2 DEF Ends
  <2>3. ASSUME NEW x \in calls, Break(x) PROVE y \in calls
    <3>1. PICK z : BreaksOff(x, z)
      BY <2>3, ConnectionBreaks
    <3>2. z.phase = "sent" /\ (y \in calls \/ y = z)
      BY <3>1 DEF BreaksOff, Fresh
    <3> QED BY <1>2, <3>2 DEF InService
  <2>4. ASSUME NEW s \in Server, InstalledAt(s) PROVE y \in calls
    BY <1>2, <2>4, InstallMoves DEF Failed, InService
  <2> QED BY <1>2, <2>1, <2>2, <2>3, <2>4, CallSteps
<1> QED BY <1>1, <1>2

LEMMA ChannelsAtStart == Init => Channels
BY DEF Init, Channels

LEMMA ChannelsKept == TypeInv /\ Channels /\ [Next]_vars => Channels'
<1> SUFFICES ASSUME TypeInv, Channels, [Next]_vars PROVE Channels'
  OBVIOUS
<1>1. ASSUME NEW y \in calls, InService(y)
      PROVE  /\ y.server \in Server /\ y.index \in 1 .. Len(log[y.server]) /\ Len(log[y.server]) \in Nat
             /\ y.index \in 1 .. Len(log'[y.server])
  <2>1. y.server \in Server
    BY CallHasTypes
  <2> QED BY <1>1, <2>1, LogsGrow DEF Channels
<1>2. ASSUME NEW x \in calls, NEW y \in calls', ServeStep(x), Moved(x, y), InService(y)
      PROVE  /\ y.server = x.server /\ y.index \in 1 .. Len(log'[y.server])
             /\ (InService(x) /\ y.index = x.index) \/ y.index = Len(log[x.server]) + 1
  <2>1. y.server = x.server /\ x.server \in Server /\ y.op \in Op /\ x.op \in Op
    BY <1>2, CallHasTypes DEF Moved, SameCall, CallRecord
  <2>2. CASE InService(x) /\ y.index = x.index
    BY <1>1, <2>1, <2>2
  <2>3. CASE y.index = Len(log[x.server]) + 1 /\ log' = [log EXCEPT ![x.server] = Append(@, x.op)]
    <3>1. log'[x.server] = Append(log[x.server], x.op) /\ log[x.server] \in Seq(Op)
      BY <2>1, <2>3 DEF TypeInv, RaftTypes
    <3>2. Len(log'[x.server]) = Len(log[x.server]) + 1 /\ Len(log[x.server]) \in Nat
      BY <2>1, <3>1, AppendProperties, LenProperties
    <3> QED BY <2>1, <2>3, <3>2
  <2> QED BY <1>2, <2>2, <2>3 DEF Moved, InService
<1>3. \A y \in calls' : InService(y) => y.index \in 1 .. Len(log'[y.server])
  BY <1>1, <1>2, ServiceSteps
<1>4. ASSUME NEW y \in calls', NEW z \in calls', InService(y), InService(z), y.server = z.server, y.index = z.index
      PROVE  y = z
  <2>1. CASE y \in calls /\ z \in calls
    BY <1>4, <2>1 DEF Channels
  <2>2. ASSUME NEW x \in calls, ServeStep(x), NEW v \in calls', NEW w \in calls \ {x}, Moved(x, v),
               InService(v), InService(w), v.server = w.server, v.index = w.index
        PROVE  FALSE
    <3>1. CASE InService(x) /\ v.index = x.index
      BY <1>2, <2>2, <3>1 DEF Channels
    <3>2. CASE v.index = Len(log[x.server]) + 1
      <4>1. w \in calls /\ w.server = x.server /\ w.index = Len(log[x.server]) + 1
        BY <1>2, <2>2, <3>2
      <4>2. w.index \in 1 .. Len(log[w.server]) /\ Len(log[w.server]) \in Nat
        BY <1>1, <2>2, <4>1
      <4> QED BY <4>1, <4>2
    <3> QED BY <1>2, <2>2, <3>1, <3>2
  <2>3. ASSUME NEW x \in calls, ServeStep(x), \A u \in calls' : u \in calls \ {x} \/ Moved(x, u),
               \A v, w \in calls' : v \notin calls \ {x} /\ w \notin calls \ {x} => v = w
        PROVE  y = z
    <3>1. CASE y \in calls \ {x} /\ z \in calls \ {x}
      BY <2>1, <3>1
    <3>2. CASE y \in calls \ {x} /\ z \notin calls \ {x}
      BY <1>4, <2>2, <2>3, <3>2
    <3>3. CASE z \in calls \ {x} /\ y \notin calls \ {x}
      BY <1>4, <2>2, <2>3, <3>3
    <3> QED BY <2>3, <3>1, <3>2, <3>3
  <2> QED BY <1>4, <2>1, <2>3, ServiceSteps
<1>5. ASSUME NEW y \in calls', Holds(y) PROVE y.index \in DOMAIN waitApplyCh'[y.server]
  <2>0. InService(y) /\ y.server \in Server
    BY <1>5, TypesKept DEF Holds, InService, TypeInv, CallTypes, CallRecord
  <2>1. CASE y \in calls
    <3>1. y.index \in DOMAIN waitApplyCh[y.server]
      BY <1>5, <2>1 DEF Channels
    <3>2. ASSUME NEW x \in calls, Cleanup(x) PROVE x.server # y.server \/ x.index # y.index
      <4>1. InService(x)
        BY <3>2 DEF Cleanup, InService
      <4>2. CASE x # y
        BY <2>0, <2>1, <4>1, <4>2 DEF Channels
      <4>3. CASE x = y
        <5>1. calls' = calls \ {x} \/ \E v : calls' = (calls \ {x}) \cup {v} /\ v.phase = "replied"
          BY <3>2, CleanupEnds
        <5> QED BY <1>5, <4>3, <5>1 DEF Holds
      <4> QED BY <4>2, <4>3
    <3>3. ASSUME NEW x \in calls, MakeChannel(x) PROVE y.index \in DOMAIN waitApplyCh'[y.server]
      BY <2>0, <3>1, <3>3 DEF MakeChannel, TypeInv, ChannelTypes
    <3>4. ASSUME NEW x \in calls, PopOp(x) PROVE y.index \in DOMAIN waitApplyCh'[y.server]
      BY <2>0, <3>1, <3>4 DEF PopOp, TypeInv, ChannelTypes
    <3>5. ASSUME NEW x \in calls, Cleanup(x) PROVE y.index \in DOMAIN waitApplyCh'[y.server]
      BY <2>0, <3>1, <3>2, <3>5 DEF Cleanup, TypeInv, ChannelTypes
    <3>6. ASSUME NEW s \in Server, SendMessageToWaitChan(s) PROVE y.index \in DOMAIN waitApplyCh'[y.server]
      BY <2>0, <3>1, <3>6 DEF SendMessageToWaitChan, TypeInv, ChannelTypes
    <3> QED BY <3>1, <3>3, <3>4, <3>5, <3>6, ChannelSteps
  <2>2. CASE y \notin calls
    <3>1. PICK x \in calls : ServeStep(x) /\ Moved(x, y)
      BY <2>0, <2>2, ServiceSteps
    <3>2. /\ InService(x) /\ y.index = x.index /\ y.server = x.server /\ x.server \in Server
      BY <1>5, <2>0, <3>1, CallHasTypes DEF Moved, SameCall, Holds
    <3>3. CASE MakeChannel(x)
      <4>1. PICK s, j : s = x.server /\ j = x.index
        OBVIOUS
      <4>2. \/ j \in DOMAIN waitApplyCh[s] /\ waitApplyCh' = waitApplyCh
            \/ waitApplyCh' = [waitApplyCh EXCEPT ![s] = [k \in DOMAIN waitApplyCh[s] \cup {j} |-> IF k = j THEN <<>> ELSE waitApplyCh[s][k]]]
        BY <3>3, <4>1 DEF MakeChannel
      <4>3. j \in DOMAIN waitApplyCh'[s]
        BY <3>2, <4>1, <4>2 DEF TypeInv, ChannelTypes
      <4> QED BY <3>2, <4>1, <4>3
    <3>4. CASE PopOp(x) \/ TimeOutPutAppend(x) \/ TimeOutGet(x) \/ RetryGet(x) \/ ExecuteGetOpOnKVDB(x)
      <4>1. Holds(x)
        BY <3>4 DEF Holds, PopOp, TimeOutPutAppend, TimeOutGet, RetryGet, ExecuteGetOpOnKVDB
      <4>2. x.index \in DOMAIN waitApplyCh[x.server]
        BY <4>1 DEF Channels
      <4>3. x.index \in DOMAIN waitApplyCh'[x.server]
        BY <3>2, <3>4, <4>2 DEF PopOp, TimeOutPutAppend, TimeOutGet, RetryGet, ExecuteGetOpOnKVDB, TypeInv, ChannelTypes
      <4> QED BY <3>2, <4>3
    <3>5. ~Start(x) /\ ~Cleanup(x)
      <4>1. ~Start(x)
        BY <3>2 DEF Start, InService
      <4>2. CASE Cleanup(x)
        <5>1. y.phase = "replied"
          BY <2>2, <4>2, CleanupEnds
        <5> QED BY <1>5, <5>1 DEF Holds
      <4> QED BY <4>1, <4>2
    <3> QED BY <3>1, <3>3, <3>4, <3>5 DEF ServeStep
  <2> QED BY <2>1, <2>2
<1> QED BY <1>3, <1>4, <1>5 DEF Channels

\* A call that waits finds its channel, and no other call of its server waits on,
\* takes from or deletes the same one (KvServer::Get and KvServer::PutAppend).
THEOREM WaitChannelOwnedHolds == Spec => []WaitChannelOwned
<1>1. Spec => [](TypeInv /\ Channels)
  BY TypesAtStart, TypesKept, ChannelsAtStart, ChannelsKept, PTL DEF Spec
<1>2. Channels => WaitChannelOwned
  BY DEF Channels, WaitChannelOwned, InService
<1> QED BY <1>1, <1>2, PTL
---------------------------------------------------------------------------
(* Requests.  Whatever is on its way, in a log or committed is an operation  *)
(* of its clerk's program that the clerk has begun, so the client and the id *)
(* name it.                                                                  *)

Issued(op) ==
    /\ op \in Op /\ op.id <= m_requestId[op.client]
    /\ op.kind = setup.program[op.client][op.id]

Requests ==
    /\ \A c \in Client : request[c] # NoOp =>
            Issued(request[c]) /\ request[c].client = c /\ request[c].id = m_requestId[c]
    /\ \A x \in calls : Issued(x.op)
    /\ \A s \in Server : \A i \in 1 .. Len(log[s]) : Issued(log[s][i])
    /\ \A i \in 1 .. Len(committed) : Issued(committed[i])
    /\ \A s \in Server : \A c \in Client : m_lastRequestId[s][c] <= m_requestId[c]

LEMMA OpHasTypes ==
    ASSUME NEW op \in Op
    PROVE  op.client \in Client /\ op.id \in Nat /\ op.id >= 1 /\ op.id <= MaxRequests /\ op # NoOp
BY RequestsAssumption DEF Op, NoOp

LEMMA NamedByIds ==
    ASSUME NEW a, NEW b, Issued(a), Issued(b), a.client = b.client, a.id = b.id
    PROVE  a = b
BY DEF Issued, Op

LEMMA IdsGrow ==
    ASSUME TypeInv, [Next]_vars, NEW c \in Client
    PROVE  /\ m_requestId[c] \in Nat /\ m_requestId'[c] \in Nat /\ m_requestId[c] <= m_requestId'[c]
<1>0. m_requestId[c] \in 0 .. MaxRequests /\ m_requestId'[c] \in 0 .. MaxRequests
  BY ClerkTypesKept DEF TypeInv, ClerkTypes
<1>1. ASSUME NEW d \in Client, Call(d) PROVE m_requestId[c] <= m_requestId'[c]
  <2>1. m_requestId' = [m_requestId EXCEPT ![d] = m_requestId[d] + 1]
    BY <1>1 DEF Call
  <2> QED BY <1>0, <2>1, RequestsAssumption DEF TypeInv, ClerkTypes
<1>2. (\E d \in Client : Call(d)) \/ m_requestId' = m_requestId
  BY ClerkSteps DEF clerkVars, TakeReply, Break
<1> QED BY <1>0, <1>1, <1>2, RequestsAssumption

LEMMA IssuedStays ==
    ASSUME TypeInv, [Next]_vars, NEW op, Issued(op)
    PROVE  Issued(op)'
<1>1. op \in Op /\ op.client \in Client /\ op.id \in Nat
  BY OpHasTypes DEF Issued
<1>2. m_requestId[op.client] <= m_requestId'[op.client] /\ m_requestId[op.client] \in Nat /\ m_requestId'[op.client] \in Nat
  BY <1>1, IdsGrow
<1> QED BY <1>1, <1>2, SetupStays DEF Issued

LEMMA RequestsAtStart == Init => Requests
BY LenProperties, EmptySeq DEF Init, Requests

\* What an apply thread is about to do was issued by a clerk.
LEMMA ExecutedIsIssued ==
    ASSUME TypeInv, Requests, NEW s \in Server, applying[s].pc # "idle"
    PROVE  applying[s].op \in Op /\ Issued(applying[s].op)
<1>1. IsCommitted(applying[s])
  BY DEF TypeInv, HandedOver, HandedAt
<1>2. PICK i : i \in 1 .. Len(committed) /\ applying[s].op = committed[i]
  BY <1>1 DEF IsCommitted
<1>3. Issued(committed[i])
  BY <1>2 DEF Requests
<1>4. applying[s].op \in Op
  BY DEF TypeInv, ApplyTypes
<1> QED BY <1>2, <1>3, <1>4


LEMMA RequestsKept == TypeInv /\ Requests /\ [Next]_vars => Requests'
<1> SUFFICES ASSUME TypeInv, Requests, [Next]_vars PROVE Requests'
  OBVIOUS
<1>1. ASSUME NEW c \in Client, request'[c] # NoOp
      PROVE  Issued(request[c])' /\ request'[c].client = c /\ request'[c].id = m_requestId'[c]
  <2>1. CASE request'[c] = request[c] /\ m_requestId'[c] = m_requestId[c]
    <3>1. PICK op : op = request[c]
      OBVIOUS
    <3>2. Issued(op)' /\ op.client = c /\ op.id = m_requestId[c]
      BY <1>1, <2>1, <3>1, IssuedStays DEF Requests
    <3> QED BY <2>1, <3>1, <3>2 DEF Issued
  <2>2. ASSUME NEW d \in Client, Call(d) PROVE Issued(request[c])' /\ request'[c].client = c /\ request'[c].id = m_requestId'[c]
    <3>1. PICK op, y : Begins(d, op, y)
      BY <2>2, CallBegins
    <3>2. CASE d # c
      BY <2>1, <3>1, <3>2 DEF Begins, TypeInv, ClerkTypes
    <3>3. CASE d = c
      <4>1. request'[c] = op /\ m_requestId'[c] = op.id /\ op.client = c /\ op \in Op
        BY <3>1, <3>3 DEF Begins, TypeInv, ClerkTypes
      <4>2. op.kind = setup.program[c][op.id] /\ op.id \in Nat
        BY <3>1, <3>3, OpHasTypes DEF Begins
      <4> QED BY <4>1, <4>2, SetupStays DEF Issued
    <3> QED BY <3>2, <3>3
  <2>3. ASSUME NEW x \in calls, TakeReply(x) PROVE request'[c] = request[c] /\ m_requestId'[c] = m_requestId[c]
    BY <1>1, <2>3, ReplyTaken DEF Ends, AsksAgain, TypeInv, ClerkTypes
  <2>4. ASSUME NEW x \in calls, Break(x) PROVE request'[c] = request[c] /\ m_requestId'[c] = m_requestId[c]
    BY <2>4 DEF Break
  <2> QED BY <2>1, <2>2, <2>3, <2>4, ClerkSteps DEF clerkVars
<1>2. ASSUME NEW y \in calls' PROVE Issued(y.op)'
  <2>1. CASE y \in calls
    BY <2>1, IssuedStays DEF Requests
  <2>2. CASE Fresh(y) /\ Awaited(y)'
    <3>1. y.op \in Op /\ y.op.client \in Client /\ y.op # NoOp
      BY <2>2, OpHasTypes DEF Fresh, CallRecord
    <3>2. y.op = request'[y.op.client]
      BY <2>2 DEF Awaited
    <3> QED BY <1>1, <3>1, <3>2
  <2>3. ASSUME NEW x \in calls, Moved(x, y) \/ Failed(x, y) PROVE Issued(y.op)'
    <3>1. y.op = x.op /\ Issued(x.op)
      BY <2>3 DEF Moved, Failed, SameCall, Requests
    <3> QED BY <3>1, IssuedStays
  <2> QED BY <2>1, <2>2, <2>3, CallsAfter
<1>3. ASSUME NEW s \in Server, NEW i \in 1 .. Len(log'[s]) PROVE Issued(log[s][i])'
  <2>0. log[s] \in Seq(Op) /\ Len(log[s]) \in Nat /\ log \in [Server -> Seq(Op)] /\ leader \in Server
    BY LenProperties DEF TypeInv, RaftTypes
  <2>1. CASE log'[s] = log[s]
    <3>1. Issued(log[s][i])
      BY <1>3, <2>1 DEF Requests
    <3>2. PICK op : op = log[s][i]
      OBVIOUS
    <3>3. Issued(op)'
      BY <3>1, <3>2, IssuedStays
    <3> QED BY <2>1, <3>2, <3>3 DEF Issued
  <2>2. ASSUME NEW op, Issued(op), op = log'[s][i] PROVE Issued(log[s][i])'
    <3>1. Issued(op)'
      BY <2>2, IssuedStays
    <3> QED BY <2>2, <3>1 DEF Issued
  <2>3. ASSUME NEW x \in calls, Start(x), log'[s] # log[s] PROVE Issued(log'[s][i])
    <3>1. log'[s] = Append(log[s], x.op) /\ x.op \in Op
      BY <2>0, <2>3, CallHasTypes DEF Start
    <3>2. log'[s][i] = x.op \/ (i \in 1 .. Len(log[s]) /\ log'[s][i] = log[s][i])
      BY <1>3, <2>0, <3>1, AppendProperties
    <3> QED BY <3>2 DEF Requests
  <2>4. ASSUME NEW part \in Seq(Op), \A j \in 1 .. Len(part) : Issued(part[j]), log'[s] = Overwritten(part, log[s])
        PROVE  Issued(log'[s][i])
    <3>1. /\ Len(part) \in Nat /\ Len(log'[s]) \in Nat /\ i \in 1 .. Len(log'[s])
          /\ Len(log'[s]) <= Len(part) \/ Len(log'[s]) <= Len(log[s])
          /\ log'[s][i] = IF i <= Len(part) THEN part[i] ELSE log[s][i]
      BY <1>3, <2>0, <2>4, OverwrittenLog, LenProperties
    <3>2. i <= Len(part) => i \in 1 .. Len(part)
      BY <3>1
    <3>3. ~(i <= Len(part)) => i \in 1 .. Len(log[s])
      BY <2>0, <3>1
    <3> QED BY <2>4, <3>1, <3>2, <3>3 DEF Requests
  <2>5. ASSUME NEW t \in Server, Replicate(t), log'[s] # log[s] PROVE Issued(log'[s][i])
    <3>1. log'[s] = Overwritten(log[leader], log[s])
      BY <2>0, <2>5 DEF Replicate
    <3> QED BY <2>0, <2>4, <3>1 DEF Requests
  <2>6. ASSUME NEW t \in Server, InstallSnapshot(t), log'[s] # log[s] PROVE Issued(log'[s][i])
    <3>1. PICK part : part = SubSeq(committed, 1, snapshotIndex[leader])
      OBVIOUS
    <3>2. part \in Seq(Op) /\ Len(part) = snapshotIndex[leader] /\ \A j \in 1 .. Len(part) : part[j] = committed[j]
      BY <2>0, <3>1, SnapshotCommands
    <3>3. snapshotIndex[leader] <= Len(committed) /\ snapshotIndex[leader] \in Nat /\ Len(committed) \in Nat
      BY <2>0, LenProperties DEF TypeInv, HandedOver, HandedAt, SnapTypes, RaftTypes
    <3>4. \A j \in 1 .. Len(part) : Issued(part[j])
      BY <3>2, <3>3 DEF Requests
    <3>5. log'[s] = Overwritten(part, log[s])
      BY <2>0, <2>6, <3>1 DEF InstallSnapshot
    <3> QED BY <2>4, <3>2, <3>4, <3>5
  <2>7. \/ log'[s] = log[s] \/ \E x \in calls : Start(x)
        \/ \E t \in Server : Replicate(t) \/ InstallSnapshot(t)
    BY RaftSteps DEF raftVars, InstalledAt, GetSnapShotFromRaft, Commit, Elect
  <2>8. CASE log'[s] # log[s]
    <3>1. Issued(log'[s][i])
      BY <2>3, <2>5, <2>6, <2>7, <2>8
    <3>2. PICK op : op = log'[s][i]
      OBVIOUS
    <3> QED BY <2>2, <3>1, <3>2
  <2> QED BY <2>1, <2>8
<1>4. ASSUME NEW i \in 1 .. Len(committed') PROVE Issued(committed[i])'
  <2>1. PICK op : op = committed'[i]
    OBVIOUS
  <2>2. Issued(op)
    <3>0. committed \in Seq(Op) /\ Len(committed) \in Nat /\ leader \in Server
      BY LenProperties DEF TypeInv, RaftTypes
    <3>1. CASE committed' = committed
      BY <1>4, <2>1, <3>1 DEF Requests
    <3>2. CASE Commit
      <4>1. PICK new \in Op : /\ new = log[leader][Len(committed) + 1] /\ Len(committed) + 1 \in 1 .. Len(log[leader])
                              /\ committed' = Append(committed, new)
        BY <3>2, CommandCommits
      <4>2. Issued(new)
        BY <3>0, <4>1 DEF Requests
      <4>3. op = new \/ (i \in 1 .. Len(committed) /\ op = committed[i])
        BY <1>4, <2>1, <3>0, <4>1, AppendProperties
      <4> QED BY <4>2, <4>3 DEF Requests
    <3>3. committed' = committed \/ Commit
      BY RaftSteps DEF raftVars, Start, InstalledAt, GetSnapShotFromRaft, Elect, Replicate, InstallSnapshot
    <3> QED BY <3>1, <3>2, <3>3
  <2>3. Issued(op)'
    BY <2>2, IssuedStays
  <2> QED BY <2>1, <2>3 DEF Issued
<1>5. ASSUME NEW s \in Server, NEW c \in Client PROVE m_lastRequestId'[s][c] <= m_requestId'[c]
  <2>0. /\ m_requestId[c] <= m_requestId'[c] /\ m_requestId[c] \in Nat /\ m_requestId'[c] \in Nat
        /\ m_lastRequestId[s][c] <= m_requestId[c] /\ m_lastRequestId[s][c] \in 0 .. MaxRequests
    BY IdsGrow DEF Requests, TypeInv, StoreTypes
  <2>1. CASE m_lastRequestId'[s][c] = m_lastRequestId[s][c]
    BY <2>0, <2>1, RequestsAssumption
  <2>2. ASSUME NEW op, Issued(op), op.client = c, m_lastRequestId'[s][c] = op.id PROVE m_lastRequestId'[s][c] <= m_requestId'[c]
    <3>1. op.id <= m_requestId[c] /\ op.id \in Nat
      BY <2>2, OpHasTypes DEF Issued
    <3> QED BY <2>0, <2>2, <3>1
  <2>3. ASSUME NEW x \in calls, ExecuteGetOpOnKVDB(x)
        PROVE  m_lastRequestId'[s][c] = m_lastRequestId[s][c] \/ (x.op.client = c /\ m_lastRequestId'[s][c] = x.op.id)
    BY <2>3 DEF ExecuteGetOpOnKVDB, TypeInv, StoreTypes
  <2>4. ASSUME NEW t \in Server, ExecuteOp(t)
        PROVE  \/ m_lastRequestId'[s][c] = m_lastRequestId[s][c]
               \/ \E op : Issued(op) /\ op.client = c /\ m_lastRequestId'[s][c] = op.id
    <3>1. PICK op : op = applying[t].op
      OBVIOUS
    <3>2. Issued(op)
      BY <2>4, <3>1, ExecutedIsIssued DEF ExecuteOp
    <3>3. m_lastRequestId'[s][c] = m_lastRequestId[s][c] \/ (op.client = c /\ m_lastRequestId'[s][c] = op.id)
      BY <2>4, <3>1 DEF ExecuteOp, TypeInv, StoreTypes
    <3> QED BY <3>2, <3>3
  <2> QED BY <2>1, <2>2, <2>3, <2>4, StoreSteps DEF storeVars, Requests
<1> QED BY <1>1, <1>2, <1>3, <1>4, <1>5 DEF Requests
---------------------------------------------------------------------------
(* Writes once.  The last id of a clerk at a server goes back only when a    *)
(* thread sets it whose clerk has moved on, so only after a connection broke; *)
(* until then it bounds the ids of all that was executed there for the clerk.*)

OneCall ==
    \A c \in Client : breaks[c] = 0 =>
        /\ \A x \in calls : x.op.client = c => x.op = request[c]
        /\ \A x, y \in calls : x.op.client = c /\ y.op.client = c => x = y

Executions ==
    /\ \A s \in Server : \A c \in rolledBack[s] : breaks[c] > 0
    /\ \A s \in Server : applying[s].pc = "execute" => IsWrite(applying[s].op)
    /\ \A s \in Server : \A i \in 1 .. Len(executed[s]) :
        executed[s][i].client \notin rolledBack[s] =>
            /\ executed[s][i].id <= m_lastRequestId[s][executed[s][i].client]
            /\ applying[s].pc = "execute" /\ applying[s].op.client = executed[s][i].client =>
                    executed[s][i].id < applying[s].op.id
            /\ \A j \in 1 .. i - 1 : executed[s][j] # executed[s][i]

LEMMA InstallEnds ==
    ASSUME TypeInv, NEW s \in Server, InstalledAt(s)
    PROVE  \/ calls' = calls
           \/ \A y \in calls' :
                \/ y \in calls /\ (y.server # s \/ ~InService(y))
                \/ \E x \in calls : Failed(x, y) /\ x.server = s /\ InService(x)
<1>1. CASE calls' = {x \in calls : x.server # s \/ x.phase \in {"sent", "replied"}} \cup
                      {[x EXCEPT !.phase = "replied", !.index = 0, !.err = "failed", !.value = <<>>] :
                          x \in {z \in calls : z.server = s /\ Awaited(z) /\ z.phase \notin {"sent", "replied"}}}
  <2>1. ASSUME NEW y \in calls', ~(y \in calls /\ (y.server # s \/ ~InService(y)))
        PROVE  \E x \in calls : Failed(x, y) /\ x.server = s /\ InService(x)
    <3>1. PICK x \in calls : /\ y = [x EXCEPT !.phase = "replied", !.index = 0, !.err = "failed", !.value = <<>>]
                             /\ Awaited(x) /\ x.server = s /\ InService(x)
      BY <1>1, <2>1 DEF InService
    <3>2. x \in CallRecord
      BY CallHasTypes
    <3>3. Failed(x, y)
      BY <3>1, <3>2, EmptySeq DEF Failed, SameCall, CallRecord, Phases
    <3> QED BY <3>1, <3>3
  <2> QED BY <2>1
<1> QED BY <1>1 DEF InstalledAt, GetSnapShotFromRaft

LEMMA OneCallKept == TypeInv /\ OneCall /\ [Next]_vars => OneCall'
<1> SUFFICES ASSUME TypeInv, OneCall, [Next]_vars, NEW c \in Client, breaks'[c] = 0
             PROVE  /\ \A x \in calls' : x.op.client = c => x.op = request'[c]
                    /\ \A x, y \in calls' : x.op.client = c /\ y.op.client = c => x = y
  BY DEF OneCall
<1> DEFINE Goal == /\ \A x \in calls' : x.op.client = c => x.op = request'[c]
                   /\ \A x, y \in calls' : x.op.client = c /\ y.op.client = c => x = y
<1>1. CASE UNCHANGED <<request, breaks, calls>>
  BY <1>1 DEF OneCall
<1>2. ASSUME NEW d \in Client, Call(d) PROVE Goal
  <2>1. PICK op, y : Begins(d, op, y)
    BY <1>2, CallBegins
  <2>2. breaks' = breaks
    BY <1>2 DEF Call
  <2>3. CASE d = c
    <3>1. ASSUME NEW x \in calls PROVE x.op.client # c
      <4>1. x.op # NoOp
        BY CallHasTypes, OpHasTypes
      <4> QED BY <2>1, <2>2, <2>3, <4>1 DEF Begins, OneCall
    <3>2. request'[c] = op
      BY <2>1, <2>3 DEF Begins, TypeInv, ClerkTypes
    <3> QED BY <2>1, <3>1, <3>2 DEF Begins
  <2>4. CASE d # c
    <3>1. request'[c] = request[c] /\ y.op.client = d /\ calls' = calls \cup {y}
      BY <2>1, <2>4 DEF Begins, TypeInv, ClerkTypes
    <3> QED BY <2>2, <2>4, <3>1 DEF OneCall
  <2> QED BY <2>3, <2>4
<1>3. ASSUME NEW x \in calls, TakeReply(x) PROVE Goal
  <2>1. x.op.client \in Client /\ breaks' = breaks /\ (Ends(x) \/ \E y : AsksAgain(x, y))
    BY <1>3, ReplyTaken
  <2>2. CASE Ends(x)
    <3>1. CASE x.op.client = c
      BY <2>1, <2>2, <3>1 DEF Ends, OneCall
    <3>2. CASE x.op.client # c
      <4>1. request'[c] = request[c]
        BY <2>2, <3>2 DEF Ends, TypeInv, ClerkTypes
      <4> QED BY <2>1, <2>2, <4>1 DEF Ends, OneCall
    <3> QED BY <3>1, <3>2
  <2>3. ASSUME NEW y, AsksAgain(x, y) PROVE Goal
    BY <2>1, <2>3 DEF AsksAgain, OneCall
  <2> QED BY <2>1, <2>2, <2>3
<1>4. ASSUME NEW x \in calls, Break(x) PROVE Goal
  <2>1. PICK y : BreaksOff(x, y)
    BY <1>4, ConnectionBreaks
  <2>2. x.op.client \in Client /\ y.op = x.op /\ request' = request /\ calls' \subseteq calls \cup {y}
        /\ breaks[x.op.client] \in 0 .. setup.maxBreaks /\ setup.maxBreaks \in Nat
    BY <1>4, <2>1, ConnectionBreaks, SetupTypes DEF BreaksOff, TypeInv, ClerkTypes
  <2>3. breaks'[c] = IF x.op.client = c THEN breaks[c] + 1 ELSE breaks[c]
    BY <2>1, <2>2 DEF BreaksOff, TypeInv, ClerkTypes
  <2>4. x.op.client # c /\ breaks[c] = 0
    BY <2>2, <2>3
  <2> QED BY <2>2, <2>4 DEF OneCall
<1>5. ASSUME NEW x \in calls, ServeStep(x) PROVE Goal
  <2>1. UNCHANGED <<request, breaks>>
    BY <1>5, ServeChanges DEF clerkVars
  <2>2. CASE calls' = calls \ {x}
    BY <2>1, <2>2 DEF OneCall
  <2>3. ASSUME NEW y, calls' = (calls \ {x}) \cup {y}, Moved(x, y) PROVE Goal
    BY <2>1, <2>3 DEF OneCall, Moved, SameCall
  <2> QED BY <1>5, <2>2, <2>3, ServeMoves
<1>6. ASSUME NEW s \in Server, InstalledAt(s), UNCHANGED <<request, breaks>> PROVE Goal
  <2>1. CASE calls' = calls
    BY <1>1, <1>6, <2>1
  <2>2. CASE \A y \in calls' : \/ y \in calls /\ (y.server # s \/ ~InService(y))
                               \/ \E x \in calls : Failed(x, y) /\ x.server = s /\ InService(x)
    <3>1. ASSUME NEW y \in calls', y.op.client = c PROVE y.op = request'[c]
      <4>1. PICK v \in calls : v.op = y.op
        BY <2>2 DEF Failed, SameCall
      <4>2. breaks[c] = 0 /\ request'[c] = request[c]
        BY <1>6
      <4> QED BY <3>1, <4>1, <4>2 DEF OneCall
    <3>2. ASSUME NEW x, NEW y, NEW z, Failed(x, y), Failed(x, z) PROVE y = z
      <4>1. ASSUME NEW v, Failed(x, v)
            PROVE  v = [op |-> x.op, server |-> x.server, try |-> x.try, phase |-> "replied", index |-> 0,
                        err |-> "failed", value |-> <<>>]
        BY <4>1 DEF Failed, SameCall, CallRecord
      <4> QED BY <3>2, <4>1, Zenon
    <3>3. ASSUME NEW y \in calls', NEW z \in calls', y.op.client = c, z.op.client = c PROVE y = z
      <4>1. PICK v \in calls : v.op = y.op /\ ((y = v /\ (v.server # s \/ ~InService(v))) \/ (Failed(v, y) /\ v.server = s /\ InService(v)))
        BY <2>2 DEF Failed, SameCall
      <4>2. PICK w \in calls : w.op = z.op /\ ((z = w /\ (w.server # s \/ ~InService(w))) \/ (Failed(w, z) /\ w.server = s /\ InService(w)))
        BY <2>2 DEF Failed, SameCall
      <4>3. v = w
        BY <1>6, <3>3, <4>1, <4>2 DEF OneCall
      <4> QED BY <3>2, <4>1, <4>2, <4>3
    <3> QED BY <3>1, <3>3
  <2> QED BY <1>6, <2>1, <2>2, InstallEnds
<1>7. ASSUME NEW s \in Server, ApplyStep(s) PROVE Goal
  <2>1. UNCHANGED <<request, breaks>> /\ (calls' = calls \/ InstalledAt(s))
    BY <1>7, ApplyChanges DEF clerkVars
  <2> QED BY <1>1, <1>6, <2>1
<1>8. CASE RaftStep
  BY <1>1, <1>8, RaftChanges DEF clerkVars
<1>9. CASE UNCHANGED vars
  BY <1>1, <1>9 DEF vars, clerkVars
<1> QED BY <1>2, <1>3, <1>4, <1>5, <1>7, <1>8, <1>9, StepCases

LEMMA BreaksGrow ==
    ASSUME TypeInv, [Next]_vars, NEW c \in Client
    PROVE  breaks[c] \in Nat /\ breaks'[c] \in Nat /\ breaks[c] <= breaks'[c]
<1>0. breaks[c] \in Nat /\ breaks'[c] \in Nat
  BY ClerkTypesKept, SetupTypes, SetupStays DEF TypeInv, ClerkTypes
<1>1. ASSUME NEW x \in calls, Break(x) PROVE breaks[c] <= breaks'[c]
  <2>1. PICK y : BreaksOff(x, y)
    BY <1>1, ConnectionBreaks
  <2>2. breaks'[c] = breaks[c] \/ breaks'[c] = breaks[c] + 1
    BY <2>1 DEF BreaksOff, TypeInv, ClerkTypes
  <2> QED BY <1>0, <2>2
<1>2. (\E x \in calls : Break(x)) \/ breaks' = breaks
  BY ClerkSteps DEF clerkVars, TakeReply, Call
<1> QED BY <1>0, <1>1, <1>2

LEMMA ExecutionsAtStart == Init => Executions /\ OneCall
BY EmptySeq DEF Init, Executions, OneCall, Idle

LEMMA ExecutionsKept == TypeInv /\ Requests /\ OneCall /\ Executions /\ [Next]_vars => Executions'
<1> SUFFICES ASSUME TypeInv, Requests, OneCall, Executions, [Next]_vars PROVE Executions'
  OBVIOUS
<1>1. ASSUME NEW s \in Server, NEW c \in rolledBack'[s] PROVE breaks'[c] > 0
  <2>0. c \in Client
    BY <1>1, StoreTypesKept DEF StoreTypes
  <2>1. CASE c \in rolledBack[s]
    BY <2>0, <2>1, BreaksGrow DEF Executions
  <2>2. ASSUME NEW x \in calls, ExecuteGetOpOnKVDB(x), c \notin rolledBack[s] PROVE breaks[c] > 0
    <3>1. x.server = s /\ x.op.client = c /\ x.op.id < m_lastRequestId[s][c]
      BY <1>1, <2>2 DEF ExecuteGetOpOnKVDB, TypeInv, StoreTypes
    <3>2. x.op.id \in Nat /\ m_lastRequestId[s][c] \in 0 .. MaxRequests /\ m_lastRequestId[s][c] <= m_requestId[c]
          /\ m_requestId[c] \in Nat
      BY <2>0, CallHasTypes, IdsGrow, RequestsAssumption DEF TypeInv, StoreTypes, Requests
    <3>3. x.op # NoOp
      BY CallHasTypes, OpHasTypes
    <3>4. x.op # request[c]
      BY <2>0, <3>1, <3>2, <3>3, RequestsAssumption DEF Requests
    <3>5. breaks[c] # 0
      BY <2>0, <3>1, <3>4 DEF OneCall
    <3> QED BY <2>0, <3>5, BreaksGrow
  <2>3. c \in rolledBack[s] \/ \E x \in calls : ExecuteGetOpOnKVDB(x)
    BY <1>1, StoreSteps DEF storeVars, ExecuteOp
  <2> QED BY <2>0, <2>1, <2>2, <2>3, BreaksGrow
<1>2. ASSUME NEW s \in Server
      PROVE  \/ applying'[s] = applying[s] \/ applying'[s].pc # "execute"
             \/ /\ IsWrite(applying'[s].op) /\ ~ifRequestDuplicate(s, applying'[s].op)
                /\ UNCHANGED storeVars
  <2>1. ASSUME NEW t \in Server, GetCommandFromRaft(t), applying'[s] # applying[s], applying'[s].pc = "execute"
        PROVE  /\ IsWrite(applying'[s].op) /\ ~ifRequestDuplicate(s, applying'[s].op)
               /\ UNCHANGED storeVars
    <3>1. PICK m : Takes(t, m)
      BY <2>1, CommandTaken
    <3>2. PICK pc \in {"execute", "notify"} :
                /\ applying' = [applying EXCEPT ![t] = [pc |-> pc, op |-> m.op, index |-> m.index]]
                /\ pc = "execute" <=> IsWrite(m.op) /\ ~ifRequestDuplicate(t, m.op)
      BY <2>1, <3>1 DEF Takes
    <3>3. s = t /\ applying'[s] = [pc |-> pc, op |-> m.op, index |-> m.index]
      BY <2>1, <3>2 DEF TypeInv, ApplyTypes
    <3> QED BY <2>1, <3>2, <3>3 DEF GetCommandFromRaft
  <2>2. ASSUME NEW t \in Server, ExecuteOp(t) \/ SendMessageToWaitChan(t)
        PROVE  applying'[s] = applying[s] \/ applying'[s].pc # "execute"
    BY <2>2 DEF ExecuteOp, SendMessageToWaitChan, Idle, TypeInv, ApplyTypes
  <2>3. \/ applying' = applying
        \/ \E t \in Server : GetCommandFromRaft(t) \/ ExecuteOp(t) \/ SendMessageToWaitChan(t)
    BY ApplySteps DEF applyVars, ApplyStep, GetSnapShotFromRaft, InstallSnapshot
  <2> QED BY <2>1, <2>2, <2>3
<1>3. ASSUME NEW s \in Server, applying'[s].pc = "execute" PROVE IsWrite(applying'[s].op)
  BY <1>2, <1>3 DEF Executions
<1>4. ASSUME NEW s \in Server, NEW i \in 1 .. Len(executed'[s]), NEW op, op = executed'[s][i], op.client \notin rolledBack'[s]
      PROVE  /\ op.id <= m_lastRequestId'[s][op.client]
             /\ applying'[s].pc = "execute" /\ applying'[s].op.client = op.client => op.id < applying'[s].op.id
             /\ \A j \in 1 .. i - 1 : executed'[s][j] # op
  <2>0. executed[s] \in Seq(Op) /\ Len(executed[s]) \in Nat /\ executed'[s] \in Seq(Op) /\ Len(executed'[s]) \in Nat
        /\ op \in Op /\ op.client \in Client /\ op.id \in Nat
    <3>1. executed[s] \in Seq(Op) /\ executed'[s] \in Seq(Op)
      BY StoreTypesKept DEF TypeInv, StoreTypes
    <3>2. op \in Op
      BY <1>4, <3>1, LenProperties
    <3> QED BY <3>1, <3>2, LenProperties, OpHasTypes
  <2>1. op.client \notin rolledBack[s]
    <3>1. ASSUME NEW x \in calls, ExecuteGetOpOnKVDB(x) PROVE rolledBack[s] \subseteq rolledBack'[s]
      BY <3>1 DEF ExecuteGetOpOnKVDB, TypeInv, StoreTypes
    <3> QED BY <1>4, <3>1, StoreSteps DEF storeVars, ExecuteOp
  <2>2. PICK last : last = m_lastRequestId[s][op.client]
    OBVIOUS
  <2>3. last \in Nat
    BY <2>0, <2>2, RequestsAssumption DEF TypeInv, StoreTypes
  <2>4. ASSUME UNCHANGED executed
        PROVE  /\ op.id <= last
               /\ applying[s].pc = "execute" /\ applying[s].op.client = op.client => op.id < applying[s].op.id
               /\ \A j \in 1 .. i - 1 : executed'[s][j] # op
    BY <1>4, <2>1, <2>2, <2>4 DEF Executions
  <2>5. applying'[s].pc = "execute" => applying'[s].op.id \in Nat /\ applying'[s].op.client \in Client
    BY ApplyTypesKept, OpHasTypes DEF ApplyTypes
  <2>6. CASE UNCHANGED storeVars
    <3>1. UNCHANGED <<executed, m_lastRequestId>>
      BY <2>6 DEF storeVars
    <3>2. ASSUME applying'[s].pc = "execute", applying'[s].op.client = op.client PROVE op.id < applying'[s].op.id
      <4>1. CASE applying'[s] = applying[s]
        BY <2>4, <3>1, <3>2, <4>1
      <4>2. CASE ~ifRequestDuplicate(s, applying'[s].op)
        BY <2>0, <2>2, <2>3, <2>4, <2>5, <3>1, <3>2, <4>2 DEF ifRequestDuplicate
      <4> QED BY <1>2, <3>2, <4>1, <4>2
    <3> QED BY <2>2, <2>4, <3>1, <3>2
  <2>7. ASSUME NEW x \in calls, ExecuteGetOpOnKVDB(x)
        PROVE  /\ op.id <= m_lastRequestId'[s][op.client]
               /\ applying'[s].pc = "execute" /\ applying'[s].op.client = op.client => op.id < applying'[s].op.id
               /\ \A j \in 1 .. i - 1 : executed'[s][j] # op
    <3>1. UNCHANGED <<executed, applying>>
      BY <2>7 DEF ExecuteGetOpOnKVDB, applyVars
    <3>2. op.id <= m_lastRequestId'[s][op.client]
      <4>1. CASE x.server = s /\ x.op.client = op.client
        <5>1. ~(x.op.id < last)
          BY <1>4, <2>2, <2>7, <4>1 DEF ExecuteGetOpOnKVDB, TypeInv, StoreTypes
        <5>2. m_lastRequestId'[s][op.client] = x.op.id
          BY <2>0, <2>7, <4>1 DEF ExecuteGetOpOnKVDB, TypeInv, StoreTypes
        <5>3. x.op.id \in Nat
          BY CallHasTypes, RequestsAssumption
        <5> QED BY <2>0, <2>3, <2>4, <3>1, <5>1, <5>2, <5>3
      <4>2. CASE ~(x.server = s /\ x.op.client = op.client)
        <5>1. m_lastRequestId'[s][op.client] = last
          BY <2>0, <2>2, <2>7, <4>2 DEF ExecuteGetOpOnKVDB, TypeInv, StoreTypes
        <5> QED BY <2>4, <3>1, <5>1
      <4> QED BY <4>1, <4>2
    <3> QED BY <2>4, <3>1, <3>2
  <2>8. ASSUME NEW t \in Server, ExecuteOp(t)
        PROVE  /\ op.id <= m_lastRequestId'[s][op.client]
               /\ applying'[s].pc = "execute" /\ applying'[s].op.client = op.client => op.id < applying'[s].op.id
               /\ \A j \in 1 .. i - 1 : executed'[s][j] # op
    <3>1. CASE s # t
      <4>1. executed'[s] = executed[s] /\ m_lastRequestId'[s] = m_lastRequestId[s] /\ applying'[s] = applying[s]
        BY <2>8, <3>1 DEF ExecuteOp, TypeInv, StoreTypes, ApplyTypes
      <4> QED BY <1>4, <2>1, <4>1 DEF Executions
    <3>2. CASE s = t
      <4>1. PICK new : new = applying[s].op
        OBVIOUS
      <4>2. /\ applying[s].pc = "execute" /\ executed'[s] = Append(executed[s], new) /\ applying'[s].pc # "execute"
            /\ new \in Op
        BY <2>8, <3>2, <4>1 DEF ExecuteOp, TypeInv, StoreTypes, ApplyTypes
      <4>3. new.client \in Client /\ new.id \in Nat
        BY <4>2, OpHasTypes
      <4>4. m_lastRequestId'[s][op.client] = IF op.client = new.client THEN new.id ELSE last
        BY <2>0, <2>2, <2>8, <3>2, <4>1, <4>3 DEF ExecuteOp, TypeInv, StoreTypes
      <4>5. \A j \in 1 .. Len(executed[s]) : executed'[s][j] = executed[s][j]
        BY <2>0, <4>2, AppendProperties
      <4>6. CASE i \in 1 .. Len(executed[s])
        <5>1. /\ op = executed[s][i] /\ op.id <= last /\ (new.client = op.client => op.id < new.id)
              /\ \A j \in 1 .. i - 1 : executed[s][j] # op
          BY <1>4, <2>1, <2>2, <4>1, <4>2, <4>5, <4>6 DEF Executions
        <5>2. \A j \in 1 .. i - 1 : executed'[s][j] = executed[s][j]
          BY <2>0, <4>5, <4>6
        <5>3. op.id <= m_lastRequestId'[s][op.client]
          BY <2>0, <4>3, <4>4, <5>1
        <5> QED BY <4>2, <5>1, <5>2, <5>3
      <4>7. CASE i \notin 1 .. Len(executed[s])
        <5>1. i = Len(executed[s]) + 1 /\ op = new
          BY <1>4, <2>0, <4>2, <4>7, AppendProperties
        <5>2. ASSUME NEW j \in 1 .. i - 1 PROVE executed'[s][j] # op
          <6>1. j \in 1 .. Len(executed[s]) /\ executed'[s][j] = executed[s][j]
            BY <2>0, <4>5, <5>1
          <6>2. CASE executed[s][j] = op
            <7>1. executed[s][j].id < new.id
              BY <2>1, <4>1, <4>2, <5>1, <6>1, <6>2 DEF Executions
            <7> QED BY <4>3, <5>1, <6>2, <7>1
          <6> QED BY <6>1, <6>2
        <5> QED BY <2>0, <4>2, <4>4, <5>1, <5>2
      <4> QED BY <4>6, <4>7
    <3> QED BY <3>1, <3>2
  <2> QED BY <2>6, <2>7, <2>8, StoreSteps
<1> QED BY <1>1, <1>3, <1>4 DEF Executions

\* A server executes a write a second time only for a clerk whose last id a Get
\* of a broken connection set back there (KvServer::ifRequestDuplicate).
THEOREM WritesOnceHolds == Spec => []WritesOnce
<1>1. Spec => [](TypeInv /\ Requests /\ OneCall /\ Executions)
  BY TypesAtStart, TypesKept, RequestsAtStart, RequestsKept, ExecutionsAtStart, OneCallKept, ExecutionsKept, PTL DEF Spec
<1>2. TypeInv /\ Executions => WritesOnce
  <2> SUFFICES ASSUME TypeInv, Executions, NEW s \in Server, NEW op \in Op, op.client \notin rolledBack[s]
               PROVE  ~(Occurrences(executed[s], op) > 1)
    BY DEF WritesOnce, Executions
  <2> DEFINE places == {i \in DOMAIN executed[s] : executed[s][i] = op}
  <2>1. executed[s] \in Seq(Op) /\ DOMAIN executed[s] = 1 .. Len(executed[s]) /\ Len(executed[s]) \in Nat
    BY LenProperties DEF TypeInv, StoreTypes
  <2>2. \A i, j \in places : ~(j < i)
    BY <2>1 DEF Executions
  <2>3. \A i, j \in places : i = j
    BY <2>1, <2>2
  <2>4. places = {} \/ \E i : places = {i}
    BY <2>3
  <2>5. Cardinality(places) = 0 \/ Cardinality(places) = 1
    BY <2>4, FS_EmptySet, FS_Singleton
  <2> QED BY <2>5 DEF Occurrences
<1> QED BY <1>1, <1>2, PTL
---------------------------------------------------------------------------
(* Acknowledged writes.  The argument goes round: a clerk moves on only after *)
(* its write is committed (WritesDone), so an id in the duplicate table above  *)
(* that of a write means that the write is committed, and an equal one that it *)
(* has been executed there (LastExecuted).                                     *)

Current(op) == IsWrite(op) /\ op.id = m_requestId[op.client]

\* What a notification of op, or an OK for it, at server s promises.
Sound(s, op) == Among(op, committed) /\ (Current(op) => Among(op, executed[s]))

LastExecuted ==
    \A s \in Server : \A op \in Op :
        Issued(op) /\ IsWrite(op) /\ op.id = m_lastRequestId[s][op.client] => Among(op, executed[s])
NotificationsSound ==
    \A s \in Server :
        /\ \A i \in 1 .. Len(executed[s]) : Among(executed[s][i], committed)
        /\ applying[s].pc = "notify" => Sound(s, applying[s].op)
        /\ \A i \in DOMAIN waitApplyCh[s] : \A j \in 1 .. Len(waitApplyCh[s][i]) : Sound(s, waitApplyCh[s][i][j])
WritesDone ==
    \A op \in Op :
        Issued(op) /\ IsWrite(op) /\ (op.id < m_requestId[op.client] \/ request[op.client] = NoOp) => Among(op, committed)
AnswerSound(x) ==
    /\ x.phase \in {"timedOut", "execute"} => ~IsWrite(x.op)
    /\ x.phase \in {"cleanup", "replied"} => x.err # "" /\ (IsWrite(x.op) => x.err # "ErrNoKey")
    /\ x.phase \in {"cleanup", "replied"} /\ IsWrite(x.op) /\ x.err = "OK" => Sound(x.server, x.op)
AnswersSound == \A x \in calls : AnswerSound(x)

AckInv == LastExecuted /\ NotificationsSound /\ WritesDone /\ AnswersSound

LEMMA AmongCommittedStays ==
    ASSUME TypeInv, [Next]_vars, NEW op, Among(op, committed)
    PROVE  Among(op, committed')
<1>1. DOMAIN committed = 1 .. Len(committed) /\ DOMAIN committed' = 1 .. Len(committed')
  BY CommittedGrows, LenProperties DEF TypeInv, RaftTypes
<1>2. PICK i \in 1 .. Len(committed) : committed[i] = op
  BY <1>1 DEF Among
<1>3. i \in 1 .. Len(committed') /\ committed'[i] = op
  BY <1>2, CommittedGrows
<1> QED BY <1>1, <1>3 DEF Among

LEMMA AmongAppended ==
    ASSUME NEW ops \in Seq(Op), NEW new \in Op, NEW op, Among(op, ops) \/ op = new
    PROVE  Among(op, Append(ops, new))
<1>1. /\ Append(ops, new) \in Seq(Op) /\ Len(Append(ops, new)) = Len(ops) + 1 /\ Len(ops) \in Nat
      /\ \A i \in 1 .. Len(ops) : Append(ops, new)[i] = ops[i]
      /\ Append(ops, new)[Len(ops) + 1] = new
      /\ DOMAIN ops = 1 .. Len(ops)
  BY AppendProperties, LenProperties
<1>2. DOMAIN Append(ops, new) = 1 .. Len(ops) + 1
  BY <1>1, LenProperties
<1>3. CASE op = new
  BY <1>1, <1>2, <1>3 DEF Among
<1>4. CASE Among(op, ops)
  <2>1. PICK i \in 1 .. Len(ops) : ops[i] = op
    BY <1>1, <1>4 DEF Among
  <2> QED BY <1>1, <1>2, <2>1 DEF Among
<1> QED BY <1>3, <1>4

\* The write a server executes is the only news in its history.
LEMMA ExecutedGrows ==
    ASSUME TypeInv, [Next]_vars, NEW s \in Server
    PROVE  /\ \A op : Among(op, executed[s]) => Among(op, executed'[s])
           /\ \A i \in 1 .. Len(executed'[s]) :
                \/ i \in 1 .. Len(executed[s]) /\ executed'[s][i] = executed[s][i]
                \/ ExecuteOp(s) /\ executed'[s][i] = applying[s].op
<1>0. executed[s] \in Seq(Op) /\ Len(executed[s]) \in Nat
  BY LenProperties DEF TypeInv, StoreTypes
<1>1. CASE executed'[s] = executed[s]
  BY <1>1
<1>2. CASE ExecuteOp(s)
  <2>1. PICK new : new = applying[s].op
    OBVIOUS
  <2>2. new \in Op /\ executed'[s] = Append(executed[s], new)
    BY <1>2, <2>1 DEF ExecuteOp, TypeInv, StoreTypes, ApplyTypes
  <2>3. \A op : Among(op, executed[s]) => Among(op, executed'[s])
    BY <1>0, <2>2, AmongAppended
  <2>4. \A i \in 1 .. Len(executed'[s]) :
            (i \in 1 .. Len(executed[s]) /\ executed'[s][i] = executed[s][i]) \/ executed'[s][i] = new
    BY <1>0, <2>2, AppendProperties
  <2> QED BY <1>2, <2>1, <2>3, <2>4
<1>3. ExecuteOp(s) \/ executed'[s] = executed[s]
  <2>1. ASSUME NEW t \in Server, ExecuteOp(t), t # s PROVE executed'[s] = executed[s]
    BY <2>1 DEF ExecuteOp, TypeInv, StoreTypes
  <2> QED BY <2>1, StoreSteps DEF storeVars, ExecuteGetOpOnKVDB
<1> QED BY <1>1, <1>2, <1>3

LEMMA CommittedIsIssued ==
    ASSUME TypeInv, Requests, NEW op, Among(op, committed)
    PROVE  Issued(op) /\ op \in Op
<1>1. \E i \in 1 .. Len(committed) : committed[i] = op
  BY LenProperties DEF Among, TypeInv, RaftTypes
<1> QED BY <1>1 DEF Requests, Issued

LEMMA CurrentBefore ==
    ASSUME TypeInv, [Next]_vars, NEW op, Issued(op), Current(op)'
    PROVE  Current(op)
<1>1. op.client \in Client /\ op.id \in Nat /\ op.id <= m_requestId[op.client]
  BY OpHasTypes DEF Issued
<1>2. m_requestId[op.client] <= m_requestId'[op.client] /\ m_requestId[op.client] \in Nat /\ m_requestId'[op.client] \in Nat
  BY <1>1, IdsGrow
<1> QED BY <1>1, <1>2 DEF Current

LEMMA SoundStays ==
    ASSUME TypeInv, Requests, [Next]_vars, NEW s \in Server, NEW op, Sound(s, op)
    PROVE  Sound(s, op)'
<1>1. Among(op, committed') /\ Issued(op)
  BY AmongCommittedStays, CommittedIsIssued DEF Sound
<1>2. ASSUME Current(op)' PROVE Among(op, executed'[s])
  BY <1>1, <1>2, CurrentBefore, ExecutedGrows DEF Sound
<1> QED BY <1>1, <1>2 DEF Sound

\* What is in a queue was there, or the apply thread has just put it there.
LEMMA QueuesAfter ==
    ASSUME TypeInv, [Next]_vars, NEW s \in Server, NEW i \in DOMAIN waitApplyCh'[s],
           NEW j \in 1 .. Len(waitApplyCh'[s][i])
    PROVE  \/ /\ i \in DOMAIN waitApplyCh[s]
              /\ \E k \in 1 .. Len(waitApplyCh[s][i]) : waitApplyCh'[s][i][j] = waitApplyCh[s][i][k]
           \/ SendMessageToWaitChan(s) /\ i = applying[s].index /\ waitApplyCh'[s][i][j] = applying[s].op
<1> DEFINE Old == /\ i \in DOMAIN waitApplyCh[s]
                  /\ \E k \in 1 .. Len(waitApplyCh[s][i]) : waitApplyCh'[s][i][j] = waitApplyCh[s][i][k]
<1>0. DOMAIN waitApplyCh = Server /\ \A k \in DOMAIN waitApplyCh[s] : waitApplyCh[s][k] \in Seq(Op)
  BY DEF TypeInv, ChannelTypes
<1>1. CASE i \in DOMAIN waitApplyCh[s] /\ waitApplyCh'[s][i] = waitApplyCh[s][i]
  BY <1>1
<1>2. ASSUME NEW x \in calls, MakeChannel(x) PROVE Old
  <2>1. PICK t, k : t = x.server /\ k = x.index
    OBVIOUS
  <2>2. waitApplyCh' = waitApplyCh \/
           waitApplyCh' = [waitApplyCh EXCEPT ![t] = [n \in DOMAIN waitApplyCh[t] \cup {k} |-> IF n = k THEN <<>> ELSE waitApplyCh[t][n]]]
    BY <1>2, <2>1 DEF MakeChannel
  <2>3. waitApplyCh'[s][i] # <<>>
    <3>1. CASE waitApplyCh'[s][i] = <<>>
      <4>1. Len(waitApplyCh'[s][i]) = 0
        BY <3>1, EmptySeq
      <4> QED BY <4>1
    <3> QED BY <3>1
  <2> QED BY <1>0, <1>1, <2>2, <2>3
<1>3. ASSUME NEW x \in calls, PopOp(x) PROVE Old
  <2>1. PICK t, k : t = x.server /\ k = x.index
    OBVIOUS
  <2>2. PICK q : q = waitApplyCh[t][k]
    OBVIOUS
  <2>3. q # <<>> /\ waitApplyCh' = [waitApplyCh EXCEPT ![t] = [waitApplyCh[t] EXCEPT ![k] = Tail(q)]]
    BY <1>3, <2>1, <2>2 DEF PopOp
  <2>4. i \in DOMAIN waitApplyCh[s] /\ (waitApplyCh'[s][i] = waitApplyCh[s][i] \/ (s = t /\ i = k /\ waitApplyCh'[s][i] = Tail(q)))
    BY <1>0, <2>3
  <2>5. CASE s = t /\ i = k /\ waitApplyCh'[s][i] = Tail(q)
    <3>1. q \in Seq(Op) /\ Len(q) \in Nat
      BY <1>0, <2>2, <2>4, <2>5, LenProperties
    <3>2. Len(Tail(q)) = Len(q) - 1 /\ Tail(q)[j] = q[j + 1]
      BY <2>3, <2>5, <3>1, HeadTailProperties
    <3>3. j + 1 \in 1 .. Len(q)
      BY <2>5, <3>1, <3>2
    <3> QED BY <2>2, <2>4, <2>5, <3>2, <3>3
  <2> QED BY <1>1, <2>4, <2>5
<1>4. ASSUME NEW x \in calls, Cleanup(x) PROVE Old
  <2>1. PICK t, k : t = x.server /\ k = x.index
    OBVIOUS
  <2>2. waitApplyCh' = [waitApplyCh EXCEPT ![t] = [n \in DOMAIN waitApplyCh[t] \ {k} |-> waitApplyCh[t][n]]]
    BY <1>4, <2>1 DEF Cleanup
  <2> QED BY <1>0, <1>1, <2>2
<1>5. ASSUME NEW t \in Server, SendMessageToWaitChan(t)
      PROVE  Old \/ (t = s /\ i = applying[s].index /\ waitApplyCh'[s][i][j] = applying[s].op)
  <2>1. PICK a, q : a = applying[t] /\ q = waitApplyCh[t][a.index]
    OBVIOUS
  <2>2. \/ waitApplyCh' = waitApplyCh
        \/ /\ a.index \in DOMAIN waitApplyCh[t]
           /\ waitApplyCh' = [waitApplyCh EXCEPT ![t] = [waitApplyCh[t] EXCEPT ![a.index] = Append(q, a.op)]]
    BY <1>5, <2>1 DEF SendMessageToWaitChan
  <2>3. i \in DOMAIN waitApplyCh[s]
        /\ (waitApplyCh'[s][i] = waitApplyCh[s][i] \/ (s = t /\ i = a.index /\ waitApplyCh'[s][i] = Append(q, a.op)))
    BY <1>0, <2>2
  <2>4. CASE s = t /\ i = a.index /\ waitApplyCh'[s][i] = Append(q, a.op)
    <3>1. q \in Seq(Op) /\ a.op \in Op
      BY <1>0, <1>5, <2>1, <2>3, <2>4 DEF SendMessageToWaitChan, TypeInv, ApplyTypes
    <3>2. PICK p : p = Append(q, a.op)
      OBVIOUS
    <3>3. /\ Len(q) \in Nat /\ Len(p) = Len(q) + 1 /\ p[Len(q) + 1] = a.op
          /\ \A n \in 1 .. Len(q) : p[n] = q[n]
      BY <3>1, <3>2, AppendProperties, LenProperties
    <3>4. waitApplyCh'[s][i] = p /\ waitApplyCh[s][i] = q
      BY <2>1, <2>4, <3>2
    <3>5. j \in 1 .. Len(q) + 1
      BY <3>3, <3>4
    <3>6. CASE j \in 1 .. Len(q)
      BY <2>3, <3>3, <3>4, <3>6
    <3>7. CASE j = Len(q) + 1
      BY <2>1, <2>4, <3>3, <3>4, <3>7
    <3> QED BY <3>3, <3>5, <3>6, <3>7
  <2> QED BY <1>1, <2>3, <2>4
<1> QED BY <1>1, <1>2, <1>3, <1>4, <1>5, ChannelSteps
LEMMA AckAtStart == Init => AckInv
<1> SUFFICES ASSUME Init PROVE AckInv
  OBVIOUS
<1>1. ASSUME NEW op \in Op PROVE ~Issued(op) /\ \A s \in Server : op.id # m_lastRequestId[s][op.client]
  BY OpHasTypes DEF Init, Issued
<1>2. NotificationsSound
  BY EmptySeq DEF Init, NotificationsSound, Idle
<1> QED BY <1>1, <1>2 DEF Init, AckInv, LastExecuted, WritesDone, AnswersSound

\* An operation that is issued in the step is the clerk's new request.
LEMMA IssuedBefore ==
    ASSUME TypeInv, Requests, [Next]_vars, NEW op \in Op, Issued(op)', ~Issued(op)
    PROVE  /\ m_requestId[op.client] < op.id /\ op.id = m_requestId'[op.client]
           /\ request'[op.client] # NoOp /\ UNCHANGED <<storeVars, committed>>
<1>0. op.client \in Client /\ op.id \in Nat
  BY OpHasTypes
<1>1. m_requestId[op.client] < op.id /\ op.id <= m_requestId'[op.client]
  BY <1>0, IdsGrow, SetupStays DEF Issued
<1>2. PICK c \in Client : Call(c)
  BY <1>0, <1>1, IdsGrow, ClerkSteps DEF clerkVars, TakeReply, Break
<1>3. PICK new, y : Begins(c, new, y)
  BY <1>2, CallBegins
<1>4. new.client = c /\ new # NoOp /\ new.id = m_requestId[c] + 1
      /\ m_requestId' = [m_requestId EXCEPT ![c] = new.id] /\ request' = [request EXCEPT ![c] = new]
  BY <1>3, OpHasTypes DEF Begins
<1>5. c = op.client
  BY <1>0, <1>1, <1>4, IdsGrow DEF TypeInv, ClerkTypes
<1>6. request'[c] # NoOp /\ m_requestId'[c] = m_requestId[c] + 1
  BY <1>4 DEF TypeInv, ClerkTypes
<1>7. op.id = m_requestId'[c]
  BY <1>0, <1>1, <1>5, <1>6, IdsGrow
<1>8. UNCHANGED <<storeVars, committed>>
  BY <1>2 DEF Call, raftVars
<1> QED BY <1>1, <1>5, <1>6, <1>7, <1>8

LEMMA LastExecutedKept == TypeInv /\ Requests /\ AckInv /\ [Next]_vars => LastExecuted'
<1> SUFFICES ASSUME TypeInv, Requests, AckInv, [Next]_vars, NEW s \in Server, NEW op \in Op,
                    Issued(op)', IsWrite(op), op.id = m_lastRequestId'[s][op.client]
             PROVE  Among(op, executed'[s])
  BY DEF LastExecuted, IsWrite
<1>0. op.client \in Client /\ op.id \in Nat
  BY OpHasTypes
<1>1. CASE ~Issued(op)
  <2>1. m_lastRequestId'[s][op.client] = m_lastRequestId[s][op.client] /\ m_requestId[op.client] < op.id
    BY <1>1, IssuedBefore DEF storeVars
  <2> QED BY <1>0, <2>1, IdsGrow DEF Requests
<1>2. CASE Issued(op)
  <2>1. CASE op.id = m_lastRequestId[s][op.client]
    BY <1>2, <2>1, ExecutedGrows DEF AckInv, LastExecuted
  <2>2. ASSUME NEW x \in calls, ExecuteGetOpOnKVDB(x) PROVE op.id = m_lastRequestId[s][op.client]
    <3>1. CASE x.server = s /\ x.op.client = op.client
      <4>1. m_lastRequestId'[s][op.client] = x.op.id
        BY <1>0, <2>2, <3>1 DEF ExecuteGetOpOnKVDB, TypeInv, StoreTypes
      <4>2. Issued(x.op) /\ ~IsWrite(x.op)
        BY <2>2 DEF ExecuteGetOpOnKVDB, Requests, AckInv, AnswersSound, AnswerSound
      <4> QED BY <1>2, <3>1, <4>1, <4>2, NamedByIds
    <3>2. CASE ~(x.server = s /\ x.op.client = op.client)
      <4>1. m_lastRequestId'[s][op.client] = m_lastRequestId[s][op.client]
        BY <1>0, <2>2, <3>2 DEF ExecuteGetOpOnKVDB, TypeInv, StoreTypes
      <4> QED BY <4>1
    <3> QED BY <3>1, <3>2
  <2>3. ASSUME NEW t \in Server, ExecuteOp(t) PROVE op.id = m_lastRequestId[s][op.client] \/ Among(op, executed'[s])
    <3>1. PICK new : new = applying[t].op
      OBVIOUS
    <3>2. Issued(new) /\ new \in Op
      BY <2>3, <3>1, ExecutedIsIssued DEF ExecuteOp
    <3>3. CASE t = s /\ new.client = op.client
      <4>1. m_lastRequestId'[s][op.client] = new.id
        BY <1>0, <2>3, <3>1, <3>3 DEF ExecuteOp, TypeInv, StoreTypes
      <4>2. op = new
        BY <1>2, <3>2, <3>3, <4>1, NamedByIds
      <4>3. executed'[s] = Append(executed[s], new) /\ executed[s] \in Seq(Op)
        BY <2>3, <3>1, <3>3 DEF ExecuteOp, TypeInv, StoreTypes
      <4> QED BY <3>2, <4>2, <4>3, AmongAppended
    <3>4. CASE ~(t = s /\ new.client = op.client)
      <4>1. m_lastRequestId'[s][op.client] = m_lastRequestId[s][op.client]
        BY <1>0, <2>3, <3>1, <3>4 DEF ExecuteOp, TypeInv, StoreTypes
      <4> QED BY <4>1
    <3> QED BY <3>3, <3>4
  <2> QED BY <2>1, <2>2, <2>3, StoreSteps DEF storeVars
<1> QED BY <1>1, <1>2

LEMMA NotificationsKept == TypeInv /\ Requests /\ AckInv /\ [Next]_vars => NotificationsSound'
<1> SUFFICES ASSUME TypeInv, Requests, AckInv, [Next]_vars, NEW s \in Server
             PROVE  /\ \A i \in 1 .. Len(executed'[s]) : Among(executed'[s][i], committed')
                    /\ applying'[s].pc = "notify" => Sound(s, applying[s].op)'
                    /\ \A i \in DOMAIN waitApplyCh'[s] : \A j \in 1 .. Len(waitApplyCh'[s][i]) :
                            Sound(s, waitApplyCh[s][i][j])'
  BY DEF NotificationsSound
<1>0. ASSUME applying[s].pc # "idle" PROVE Among(applying[s].op, committed) /\ Issued(applying[s].op)
  <2>1. Among(applying[s].op, committed)
    BY <1>0, LenProperties DEF TypeInv, RaftTypes, HandedOver, HandedAt, IsCommitted, Among
  <2> QED BY <2>1, CommittedIsIssued
<1>1. ASSUME NEW i \in 1 .. Len(executed'[s]) PROVE Among(executed'[s][i], committed')
  <2>1. PICK op : op = executed'[s][i]
    OBVIOUS
  <2>2. Among(op, committed)
    <3>1. CASE i \in 1 .. Len(executed[s]) /\ executed'[s][i] = executed[s][i]
      BY <2>1, <3>1 DEF AckInv, NotificationsSound
    <3>2. CASE ExecuteOp(s) /\ executed'[s][i] = applying[s].op
      BY <1>0, <2>1, <3>2 DEF ExecuteOp
    <3> QED BY <3>1, <3>2, ExecutedGrows
  <2> QED BY <2>1, <2>2, AmongCommittedStays
<1>2. ASSUME NEW op, Sound(s, op) PROVE Among(op, committed') /\ (Current(op)' => Among(op, executed'[s]))
  BY <1>2, SoundStays DEF Sound
<1>3. ASSUME applying'[s].pc = "notify" PROVE Sound(s, applying[s].op)'
  <2>1. PICK op : op = applying'[s].op
    OBVIOUS
  <2>2. CASE applying'[s] = applying[s]
    <3>1. Sound(s, op)
      BY <1>3, <2>1, <2>2 DEF AckInv, NotificationsSound
    <3> QED BY <1>2, <2>1, <3>1 DEF Sound, Current
  <2>3. ASSUME NEW t \in Server, GetCommandFromRaft(t), applying'[s] # applying[s] PROVE Sound(s, applying[s].op)'
    <3>1. PICK m : Takes(t, m)
      BY <2>3, CommandTaken
    <3>2. PICK pc \in {"execute", "notify"} :
                /\ applying' = [applying EXCEPT ![t] = [pc |-> pc, op |-> m.op, index |-> m.index]]
                /\ pc = "execute" <=> IsWrite(m.op) /\ ~ifRequestDuplicate(t, m.op)
      BY <2>3, <3>1 DEF Takes
    <3>3. s = t /\ op = m.op /\ pc = "notify"
      BY <1>3, <2>1, <2>3, <3>2 DEF TypeInv, ApplyTypes
    <3>4. UNCHANGED <<committed, m_requestId, executed>> /\ committed \in Seq(Op)
      BY <2>3 DEF GetCommandFromRaft, raftVars, clerkVars, storeVars, TypeInv, RaftTypes
    <3>5. Among(op, committed)
      <4>1. HandedOver'
        BY HandedOverKept
      <4>2. op = committed[applying'[s].index] /\ applying'[s].index \in 1 .. Len(committed)
        BY <1>3, <2>1, <3>4, <4>1 DEF HandedOver, HandedAt, IsCommitted
      <4> QED BY <3>4, <4>2, LenProperties DEF Among
    <3>6. Issued(op) /\ op \in Op /\ op.client \in Client /\ op.id \in Nat
      BY <3>5, CommittedIsIssued, OpHasTypes
    <3>7. ASSUME Current(op) PROVE Among(op, executed[s])
      <4>1. op.id <= m_lastRequestId[s][op.client]
        BY <3>2, <3>3, <3>7 DEF Current, ifRequestDuplicate
      <4>2. /\ m_lastRequestId[s][op.client] <= m_requestId[op.client] /\ m_requestId[op.client] \in Nat
            /\ m_lastRequestId[s][op.client] \in Nat
        BY <3>6, IdsGrow, RequestsAssumption DEF Requests, TypeInv, StoreTypes
      <4>3. op.id = m_lastRequestId[s][op.client]
        BY <3>6, <3>7, <4>1, <4>2 DEF Current
      <4> QED BY <3>6, <3>7, <4>3 DEF AckInv, LastExecuted, Current
    <3>8. Sound(s, op)
      BY <3>5, <3>7 DEF Sound
    <3> QED BY <1>2, <2>1, <3>8 DEF Sound, Current
  <2>4. CASE ExecuteOp(s)
    <3>1. op = applying[s].op /\ applying[s].pc = "execute" /\ executed'[s] = Append(executed[s], op)
          /\ executed[s] \in Seq(Op) /\ op \in Op
      BY <2>1, <2>4 DEF ExecuteOp, TypeInv, StoreTypes, ApplyTypes
    <3>2. Among(op, executed'[s])
      BY <3>1, AmongAppended
    <3>3. Among(op, committed')
      BY <1>0, <3>1, AmongCommittedStays
    <3> QED BY <2>1, <3>2, <3>3 DEF Sound
  <2>5. ASSUME NEW t \in Server, ExecuteOp(t) \/ SendMessageToWaitChan(t)
        PROVE  applying'[s] = applying[s] \/ applying'[s].pc # "notify" \/ ExecuteOp(s)
    BY <2>5 DEF ExecuteOp, SendMessageToWaitChan, Idle, TypeInv, ApplyTypes
  <2>6. \/ applying' = applying
        \/ \E t \in Server : GetCommandFromRaft(t) \/ ExecuteOp(t) \/ SendMessageToWaitChan(t)
    BY ApplySteps DEF applyVars, ApplyStep, GetSnapShotFromRaft, InstallSnapshot
  <2> QED BY <1>3, <2>2, <2>3, <2>4, <2>5, <2>6
<1>4. ASSUME NEW i \in DOMAIN waitApplyCh'[s], NEW j \in 1 .. Len(waitApplyCh'[s][i])
      PROVE  Sound(s, waitApplyCh[s][i][j])'
  <2>1. PICK op : op = waitApplyCh'[s][i][j]
    OBVIOUS
  <2>2. Sound(s, op)
    <3>1. CASE /\ i \in DOMAIN waitApplyCh[s]
               /\ \E k \in 1 .. Len(waitApplyCh[s][i]) : waitApplyCh'[s][i][j] = waitApplyCh[s][i][k]
      BY <2>1, <3>1 DEF AckInv, NotificationsSound
    <3>2. CASE SendMessageToWaitChan(s) /\ waitApplyCh'[s][i][j] = applying[s].op
      BY <2>1, <3>2 DEF SendMessageToWaitChan, AckInv, NotificationsSound
    <3> QED BY <3>1, <3>2, QueuesAfter
  <2> QED BY <1>2, <2>1, <2>2 DEF Sound, Current
<1> QED BY <1>1, <1>3, <1>4

LEMMA WritesDoneKept == TypeInv /\ Requests /\ AckInv /\ [Next]_vars => WritesDone'
<1> SUFFICES ASSUME TypeInv, Requests, AckInv, [Next]_vars, NEW op \in Op, Issued(op)', IsWrite(op),
                    op.id < m_requestId'[op.client] \/ request'[op.client] = NoOp
             PROVE  Among(op, committed)
  BY AmongCommittedStays DEF WritesDone, IsWrite
<1> DEFINE c == op.client
<1>0. c \in Client /\ op.id \in Nat /\ m_requestId[c] \in Nat /\ m_requestId'[c] \in Nat
  BY OpHasTypes, IdsGrow
<1>1. Issued(op)
  BY <1>0, IssuedBefore
<1>2. CASE op.id < m_requestId[c] \/ request[c] = NoOp
  BY <1>1, <1>2 DEF AckInv, WritesDone
<1>3. CASE op.id = m_requestId[c] /\ request[c] # NoOp
  <2>1. op = request[c]
    BY <1>0, <1>1, <1>3, NamedByIds DEF Requests
  <2>2. ASSUME NEW d \in Client, Call(d) PROVE m_requestId'[c] = m_requestId[c] /\ request'[c] = request[c]
    <3>1. d # c
      BY <1>3, <2>2 DEF Call
    <3>2. PICK new, y : Begins(d, new, y)
      BY <2>2, CallBegins
    <3> QED BY <3>1, <3>2 DEF Begins, TypeInv, ClerkTypes
  <2>3. ASSUME NEW x \in calls, TakeReply(x)
        PROVE  m_requestId'[c] = m_requestId[c] /\ (request'[c] = request[c] \/ (Ends(x) /\ x.op.client = c))
    <3>1. m_requestId' = m_requestId /\ (Ends(x) \/ \E y : AsksAgain(x, y))
      BY <2>3, ReplyTaken
    <3>2. Ends(x) => request'[c] = request[c] \/ x.op.client = c
      BY DEF Ends, TypeInv, ClerkTypes
    <3> QED BY <3>1, <3>2 DEF AsksAgain
  <2>4. PICK x \in calls : TakeReply(x) /\ Ends(x) /\ x.op.client = c
    BY <1>0, <1>3, <2>2, <2>3, ClerkSteps DEF clerkVars, Break
  <2>5. x.op = op /\ x.phase = "replied" /\ x.err \notin {"ErrWrongLeader", "failed"} /\ x \in CallRecord
    BY <2>1, <2>4, ReplyTaken, CallHasTypes DEF Ends
  <2>6. x.err = "OK"
    BY <2>5 DEF AckInv, AnswersSound, AnswerSound, CallRecord
  <2> QED BY <2>5, <2>6 DEF AckInv, AnswersSound, AnswerSound, Sound
<1>4. op.id <= m_requestId[c]
  BY <1>1 DEF Issued
<1> QED BY <1>0, <1>2, <1>3, <1>4

LEMMA AnswersKept == TypeInv /\ Channels /\ Requests /\ AckInv /\ [Next]_vars => AnswersSound'
<1> SUFFICES ASSUME TypeInv, Channels, Requests, AckInv, [Next]_vars, NEW y \in calls' PROVE AnswerSound(y)'
  BY DEF AnswersSound
<1>0. ASSUME AnswerSound(y), y.server \in Server PROVE AnswerSound(y)'
  <2>1. Sound(y.server, y.op) => Sound(y.server, y.op)'
    BY <1>0, SoundStays
  <2> QED BY <1>0, <2>1 DEF AnswerSound, IsWrite
<1>1. CASE y \in calls
  BY <1>0, <1>1, CallHasTypes DEF AckInv, AnswersSound
<1>2. ASSUME y.phase \in {"sent", "started", "waiting"} \/ (y.phase \in {"cleanup", "replied"} /\ y.err \in {"ErrWrongLeader", "failed"})
      PROVE  AnswerSound(y)'
  BY <1>2 DEF AnswerSound
<1>3. CASE Fresh(y)
  BY <1>2, <1>3 DEF Fresh
<1>4. ASSUME NEW x \in calls, Failed(x, y) PROVE AnswerSound(y)'
  BY <1>2, <1>4 DEF Failed
<1>5. ASSUME NEW x \in calls, ServeStep(x), y \notin calls PROVE AnswerSound(y)'
  <2>0. x \in CallRecord /\ Issued(x.op) /\ x.op.client \in Client /\ x.server \in Server /\ AnswerSound(x) /\ x.op.id \in Nat
        /\ x.op \in Op
    BY CallHasTypes, OpHasTypes DEF Requests, AckInv, AnswersSound
  <2>1. y.server \in Server /\ Moved(x, y)
    <3>1. y \in calls' /\ (calls' = calls \ {x} \/ \E z : calls' = (calls \ {x}) \cup {z} /\ Moved(x, z))
      BY <1>5, ServeMoves
    <3>2. PICK z : calls' = (calls \ {x}) \cup {z} /\ Moved(x, z)
      BY <1>5, <3>1
    <3>3. y = z
      BY <1>5, <3>1, <3>2
    <3>4. y \in CallRecord
      BY <3>2, <3>3 DEF Moved, SameCall
    <3> QED BY <3>2, <3>3, <3>4 DEF CallRecord
  <2>2. ASSUME NEW v, MoveTo(x, v) PROVE y = v
    BY <1>5, <2>2 DEF MoveTo
  <2>3. CASE Start(x)
    <3>1. x.phase = "sent"
      BY <2>3 DEF Start
    <3>2. ASSUME NEW err \in {"failed", "ErrWrongLeader"}, Reply(x, err, <<>>) PROVE AnswerSound(y)'
      <4>1. y = [x EXCEPT !.phase = "replied", !.index = 0, !.err = err, !.value = <<>>]
        BY <1>5, <3>2 DEF Reply
      <4>2. y.phase = "replied" /\ y.err = err
        BY <2>0, <4>1 DEF CallRecord
      <4> QED BY <1>2, <4>2
    <3>3. ASSUME MoveTo(x, [x EXCEPT !.phase = "started", !.index = NewCommandIndex(x.server)]) PROVE AnswerSound(y)'
      <4>1. PICK n : n = NewCommandIndex(x.server)
        OBVIOUS
      <4>2. y = [x EXCEPT !.phase = "started", !.index = n]
        BY <2>2, <3>3, <4>1
      <4>3. y.phase = "started"
        BY <2>0, <4>2 DEF CallRecord
      <4> QED BY <1>2, <4>3
    <3> QED BY <2>3, <3>2, <3>3 DEF Start
  <2>4. CASE MakeChannel(x)
    <3>1. y = [x EXCEPT !.phase = "waiting"]
      BY <2>2, <2>4 DEF MakeChannel
    <3>2. y.phase = "waiting"
      BY <2>0, <3>1 DEF CallRecord
    <3> QED BY <1>2, <3>2
  <2>5. ASSUME NEW err, y = [x EXCEPT !.phase = "cleanup", !.err = err], err \in {"OK", "ErrWrongLeader"},
               err = "OK" => IsWrite(x.op) /\ Sound(x.server, x.op)
        PROVE  AnswerSound(y)'
    <3>1. y.phase = "cleanup" /\ y.err = err /\ y.op = x.op /\ y.server = x.server
      BY <2>0, <2>5 DEF CallRecord
    <3>2. AnswerSound(y)
      BY <2>5, <3>1 DEF AnswerSound
    <3> QED BY <1>0, <2>1, <3>2
  <2>6. ASSUME y = [x EXCEPT !.phase = "execute"] \/ y = [x EXCEPT !.phase = "timedOut"], ~IsWrite(x.op) PROVE AnswerSound(y)'
    <3>1. y.phase \in {"execute", "timedOut"} /\ y.op = x.op
      BY <2>0, <2>6 DEF CallRecord
    <3>2. AnswerSound(y)
      BY <2>6, <3>1 DEF AnswerSound
    <3> QED BY <1>0, <2>1, <3>2
  <2>7. CASE PopOp(x)
    <3>1. PICK q : q = waitApplyCh[x.server][x.index]
      OBVIOUS
    <3>2. PICK op : op = Head(q)
      OBVIOUS
    <3>3. q # <<>> /\ x.index \in DOMAIN waitApplyCh[x.server] /\ q \in Seq(Op)
      BY <2>0, <2>7, <3>1 DEF PopOp, Channels, Holds, TypeInv, ChannelTypes
    <3>4. Len(q) \in Nat /\ Len(q) # 0 /\ op = q[1]
      BY <3>2, <3>3, LenProperties, EmptySeq
    <3>5. Sound(x.server, op)
      BY <2>0, <3>1, <3>3, <3>4 DEF AckInv, NotificationsSound
    <3>6. IsOwnOp(x, op) => op = x.op
      BY <2>0, <3>5, CommittedIsIssued, NamedByIds DEF IsOwnOp, Sound
    <3>7. CASE ~IsOwnOp(x, op)
      <4>1. y = [x EXCEPT !.phase = "cleanup", !.err = "ErrWrongLeader"]
        BY <2>2, <2>7, <3>1, <3>2, <3>7 DEF PopOp
      <4> QED BY <2>5, <4>1
    <3>8. CASE IsOwnOp(x, op) /\ IsWrite(x.op)
      <4>1. y = [x EXCEPT !.phase = "cleanup", !.err = "OK"]
        BY <2>2, <2>7, <3>1, <3>2, <3>8 DEF PopOp
      <4> QED BY <2>5, <3>5, <3>6, <3>8, <4>1
    <3>9. CASE IsOwnOp(x, op) /\ ~IsWrite(x.op)
      <4>1. y = [x EXCEPT !.phase = "execute"]
        BY <2>2, <2>7, <3>1, <3>2, <3>9 DEF PopOp
      <4> QED BY <2>6, <3>9, <4>1
    <3> QED BY <3>7, <3>8, <3>9
  <2>8. CASE TimeOutPutAppend(x)
    <3>1. CASE ~ifRequestDuplicate(x.server, x.op)
      <4>1. y = [x EXCEPT !.phase = "cleanup", !.err = "ErrWrongLeader"]
        BY <2>2, <2>8, <3>1 DEF TimeOutPutAppend
      <4> QED BY <2>5, <4>1
    <3>2. CASE ifRequestDuplicate(x.server, x.op)
      <4>1. y = [x EXCEPT !.phase = "cleanup", !.err = "OK"] /\ IsWrite(x.op)
        BY <2>2, <2>8, <3>2 DEF TimeOutPutAppend
      <4>2. PICK last : last = m_lastRequestId[x.server][x.op.client]
        OBVIOUS
      <4>3. last \in Nat /\ x.op.id <= last /\ last <= m_requestId[x.op.client] /\ m_requestId[x.op.client] \in Nat
        BY <2>0, <3>2, <4>2, IdsGrow, RequestsAssumption DEF ifRequestDuplicate, Requests, TypeInv, StoreTypes
      <4>4. CASE x.op.id = last
        <5>1. Among(x.op, executed[x.server])
          BY <2>0, <4>1, <4>2, <4>4 DEF AckInv, LastExecuted
        <5>2. Among(x.op, committed)
          <6>1. DOMAIN executed[x.server] = 1 .. Len(executed[x.server])
            BY <2>0, LenProperties DEF TypeInv, StoreTypes
          <6>2. PICK i \in 1 .. Len(executed[x.server]) : executed[x.server][i] = x.op
            BY <5>1, <6>1 DEF Among
          <6>3. Among(executed[x.server][i], committed)
            BY <2>0, <6>2 DEF AckInv, NotificationsSound
          <6> QED BY <6>2, <6>3
        <5> QED BY <2>5, <4>1, <5>1, <5>2 DEF Sound
      <4>5. CASE x.op.id < last
        <5>1. x.op.id < m_requestId[x.op.client]
          BY <2>0, <4>3, <4>5
        <5>2. Among(x.op, committed) /\ ~Current(x.op)
          BY <2>0, <4>1, <4>3, <5>1 DEF AckInv, WritesDone, Current
        <5> QED BY <2>5, <4>1, <5>2 DEF Sound
      <4> QED BY <2>0, <4>3, <4>4, <4>5
    <3> QED BY <3>1, <3>2
  <2>9. CASE TimeOutGet(x)
    <3>1. ~IsWrite(x.op) /\ (y = [x EXCEPT !.phase = "timedOut"] \/ y = [x EXCEPT !.phase = "cleanup", !.err = "ErrWrongLeader"])
      BY <2>2, <2>9 DEF TimeOutGet
    <3> QED BY <2>5, <2>6, <3>1
  <2>10. CASE RetryGet(x)
    <3>1. ~IsWrite(x.op)
      BY <2>0, <2>10 DEF RetryGet, AnswerSound
    <3>2. y = [x EXCEPT !.phase = "execute"] \/ y = [x EXCEPT !.phase = "cleanup", !.err = "ErrWrongLeader"]
      BY <2>2, <2>10 DEF RetryGet
    <3> QED BY <2>5, <2>6, <3>1, <3>2
  <2>11. CASE ExecuteGetOpOnKVDB(x)
    <3>1. ~IsWrite(x.op)
      BY <2>0, <2>11 DEF ExecuteGetOpOnKVDB, AnswerSound
    <3>2. PICK value, err : value = m_skipList[x.server] /\ err = IF value = <<>> THEN "ErrNoKey" ELSE "OK"
      OBVIOUS
    <3>3. y = [x EXCEPT !.phase = "cleanup", !.value = value, !.err = err]
      BY <2>2, <2>11, <3>2 DEF ExecuteGetOpOnKVDB
    <3>4. y.phase = "cleanup" /\ y.err = err /\ y.op = x.op
      BY <2>0, <3>3 DEF CallRecord
    <3>5. AnswerSound(y)
      BY <3>1, <3>2, <3>4 DEF AnswerSound
    <3> QED BY <1>0, <2>1, <3>5
  <2>12. CASE Cleanup(x)
    <3>1. y.phase = "replied" /\ y.err = x.err /\ y.op = x.op /\ y.server = x.server /\ x.phase = "cleanup"
      BY <1>5, <2>1, <2>12, CleanupEnds DEF Moved, SameCall, Cleanup
    <3>2. AnswerSound(y)
      BY <2>0, <3>1 DEF AnswerSound
    <3> QED BY <1>0, <2>1, <3>2
  <2> QED BY <1>5, <2>3, <2>4, <2>7, <2>8, <2>9, <2>10, <2>11, <2>12 DEF ServeStep
<1>6. y \in calls \/ Fresh(y) \/ (\E x \in calls : Failed(x, y)) \/ \E x \in calls : ServeStep(x)
  <2>1. ASSUME NEW s \in Server, InstalledAt(s) PROVE y \in calls \/ \E x \in calls : Failed(x, y)
    BY <2>1, InstallMoves
  <2>2. ASSUME NEW c \in Client, Call(c) PROVE y \in calls \/ Fresh(y)
    <3>1. PICK op, z : Begins(c, op, z)
      BY <2>2, CallBegins
    <3> QED BY <3>1 DEF Begins
  <2>3. ASSUME NEW x \in calls, TakeReply(x) PROVE y \in calls \/ Fresh(y)
    <3>1. Ends(x) \/ \E z : AsksAgain(x, z)
      BY <2>3, ReplyTaken
    <3> QED BY <3>1 DEF Ends, AsksAgain
  <2>4. ASSUME NEW x \in calls, Break(x) PROVE y \in calls \/ Fresh(y)
    <3>1. PICK z : BreaksOff(x, z)
      BY <2>4, ConnectionBreaks
    <3> QED BY <3>1 DEF BreaksOff
  <2> QED BY <2>1, <2>2, <2>3, <2>4, CallSteps
<1> QED BY <1>1, <1>3, <1>4, <1>5, <1>6

\* A write answered with OK is committed, and executed by the server that answers
\* while its clerk waits for it (KvServer::PutAppend, both its branches).
THEOREM AcknowledgedIsDoneHolds == Spec => []AcknowledgedIsDone
<1>1. TypeInv /\ Channels /\ Requests /\ AckInv /\ [Next]_vars => AckInv'
  BY LastExecutedKept, NotificationsKept, WritesDoneKept, AnswersKept DEF AckInv
<1>2. Spec => [](TypeInv /\ Channels /\ Requests /\ AckInv)
  BY <1>1, TypesAtStart, TypesKept, ChannelsAtStart, ChannelsKept, RequestsAtStart, RequestsKept, AckAtStart, PTL DEF Spec
<1>3. TypeInv /\ Requests /\ AckInv => AcknowledgedIsDone
  <2> SUFFICES ASSUME TypeInv, Requests, AckInv, NEW x \in calls,
                      x.phase \in {"cleanup", "replied"}, IsWrite(x.op), x.err = "OK"
               PROVE  Among(x.op, committed) /\ (x.op = request[x.op.client] => Among(x.op, executed[x.server]))
    BY DEF AcknowledgedIsDone
  <2>1. Sound(x.server, x.op)
    BY DEF AckInv, AnswersSound, AnswerSound
  <2>2. x.op = request[x.op.client] => Current(x.op)
    BY CallHasTypes, OpHasTypes DEF Requests, Current
  <2> QED BY <2>1, <2>2 DEF Sound
<1> QED BY <1>2, <1>3, PTL
=============================================================================
