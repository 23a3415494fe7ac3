----------------------------- MODULE RpcChannel -----------------------------
(***************************************************************************)
(* MprpcChannel::CallMethod and RpcProvider: the way of an RPC between two *)
(* Raft nodes.  Threads of a node that call the same peer share one        *)
(* MprpcChannel, that is one socket in m_clientFd, without a lock.  A TCP  *)
(* connection is a queue in each direction; where a recv ends in it is     *)
(* open: between two replies, between two fields of one, inside a field.   *)
(* The peer's provider serves a connection in one I/O thread.  Of the      *)
(* peer's Raft handlers the term and the freedom of the answer are kept.   *)
(***************************************************************************)
EXTENDS Wire, FiniteSets

CONSTANTS
    Thread,         \* threads of the node that call the peer, one call each
    MethodOf,       \* the method a thread calls
    TermOf,         \* the term in its arguments
    MaxConns,       \* bound: connections made
    MaxFaults,      \* bound: connections broken by the peer or the network
    MaxCuts,        \* bound: connections on which a recv ends inside a reply
    Garbage         \* numbers that bytes from the middle of a field are read as

ASSUME MethodsAssumption ==
    /\ IsFiniteSet(Thread) /\ "none" \notin Thread
    /\ MethodOf \in [Thread -> DOMAIN raftRpc]
    /\ TermOf \in [Thread -> Nat \ {0}]
    /\ {MaxConns, MaxFaults, MaxCuts} \subseteq Nat

Conn == 1 .. MaxConns
NoConn == 0                     \* m_clientFd = -1
ReplyType(t) == raftRpc[MethodOf[t]].reply
ArgsType(t) == raftRpc[MethodOf[t]].args

VARIABLES
    m_clientFd,     \* the channel's connection, or NoConn
    pc,             \* where a thread is in CallMethod
    fd,             \* the connection a thread is blocked on in recv
    result,         \* what became of its call: how it ended, and the response
    made,           \* connections made
    state,          \* of a connection: open, closed by the peer, or reset
    toServer,       \* what was sent and not yet taken by the provider
    toClient,       \* replies sent and not yet received
    serving,        \* the call a connection's I/O thread is busy with, or "none"
    faults,         \* connections broken
    peerTerm,       \* the peer's m_currentTerm
    served,         \* history: the replies a call's handler gave (one, at most)
    cut,            \* history: connections on which a recv ended inside a reply
    overlapped,     \* history: threads that were not alone in the channel
    unserved        \* history: calls thrown away by OnMessage or answered with no bytes

clientVars == <<m_clientFd, pc, fd, result, overlapped>>
connVars == <<made, state, toServer, toClient, faults, cut>>
peerVars == <<serving, peerTerm, served, unserved>>
vars == <<clientVars, connVars, peerVars>>

Init ==
    /\ m_clientFd = NoConn
    /\ pc = [t \in Thread |-> "idle"]
    /\ fd = [t \in Thread |-> NoConn]
    /\ result = [t \in Thread |-> [how |-> "none"]]
    /\ made = 0
    /\ state = [c \in Conn |-> "open"]
    /\ toServer = [c \in Conn |-> <<>>]
    /\ toClient = [c \in Conn |-> <<>>]
    /\ serving = [c \in Conn |-> "none"]
    /\ faults = 0
    /\ cut = {}
    /\ peerTerm = 1
    /\ served = [t \in Thread |-> {}]
    /\ overlapped = {}
    /\ unserved = {}

-----------------------------------------------------------------------------
(* The caller.                                                               *)

Goto(t, l) == pc' = [pc EXCEPT ![t] = l]
Return(t, how, msg) ==
    /\ Goto(t, "done")
    /\ result' = [result EXCEPT ![t] = [how |-> how, msg |-> msg]]
\* What a failed call leaves in its response nobody reads.
Fails(t) == Return(t, "failed", Default(ReplyType(t)))

Active == {t \in Thread : pc[t] \notin {"idle", "done"}}

CallMethod(t) ==
    /\ pc[t] = "idle"
    /\ Goto(t, IF m_clientFd = NoConn THEN "connect" ELSE "send")
    /\ overlapped' = IF Active = {} THEN overlapped ELSE overlapped \cup Active \cup {t}
    /\ UNCHANGED <<m_clientFd, fd, result, connVars, peerVars>>

\* newConnect sets m_clientFd whatever another thread has put there meanwhile.
NewConnect(t) ==
    /\ pc[t] = "connect"
    /\ \/ /\ made < MaxConns
          /\ made' = made + 1 /\ m_clientFd' = made + 1
          /\ Goto(t, "send") /\ UNCHANGED result
       \/ m_clientFd' = NoConn /\ Fails(t) /\ UNCHANGED made
    /\ UNCHANGED <<fd, overlapped, state, toServer, toClient, faults, cut, peerVars>>

Args(t) == [Default(ArgsType(t)) EXCEPT !.Term = TermOf[t]]

\* The bytes of a request: the header, then the arguments.  What OnMessage can
\* tell apart is whether it holds the beginning and whether it holds all of it.
Request == [t \in Thread |->
    LET args == SerializeToString(ArgsType(t), Args(t))
        header == [service_name |-> "raftRpc", method_name |-> MethodOf[t], args_size |-> Len(args)]
    IN  <<[caller |-> t, header |-> SerializeToString("RpcHeader", header)]>>
            \o [i \in DOMAIN args |-> [caller |-> t, arg |-> args[i]]]]

\* A send on a connection the peer has closed succeeds, and is answered by a
\* reset; on a reset connection, and on none, it fails, and the thread closes
\* whatever m_clientFd is and connects again.
Send(t) ==
    /\ pc[t] = "send"
    /\ LET c == m_clientFd
       IN  IF c = NoConn \/ (c # NoConn /\ state[c] = "reset")
           THEN m_clientFd' = NoConn /\ Goto(t, "connect") /\ UNCHANGED <<state, toServer>>
           ELSE /\ Goto(t, "recv") /\ UNCHANGED m_clientFd
                /\ IF state[c] = "open"
                   THEN toServer' = [toServer EXCEPT ![c] = @ \o Request[t]] /\ UNCHANGED state
                   ELSE state' = [state EXCEPT ![c] = "reset"] /\ UNCHANGED toServer
    /\ UNCHANGED <<fd, result, overlapped, made, toClient, faults, cut, peerVars>>

\* Deliberately wrong: waits for a reply on no connection.
Faulty_RecvUnchecked(t) ==
    /\ pc[t] = "recv"
    /\ Goto(t, "wait") /\ fd' = [fd EXCEPT ![t] = m_clientFd]
    /\ UNCHANGED <<m_clientFd, result, overlapped, connVars, peerVars>>

\* recv reads m_clientFd once more; without a connection it fails at once.
Recv(t) ==
    /\ pc[t] = "recv"
    /\ IF m_clientFd = NoConn
       THEN Fails(t) /\ UNCHANGED fd
       ELSE Goto(t, "wait") /\ fd' = [fd EXCEPT ![t] = m_clientFd] /\ UNCHANGED result
    /\ UNCHANGED <<m_clientFd, overlapped, connVars, peerVars>>

\* What is left of a field that a recv ended in.
Torn == [number |-> 0, wire |-> "torn", value |-> 0]

Garbled(msg) ==
    {[f \in DOMAIN Types[msg] |-> FromWire(Types[msg][f], value[f])] : value \in [DOMAIN Types[msg] -> Garbage]}

\* ParseFromArray.  Bytes that begin in the middle of a field are no message,
\* or any message.
Parse(t, bytes) ==
    IF bytes # <<>> /\ bytes[1] = Torn
    THEN Fails(t) \/ \E msg \in Garbled(ReplyType(t)) : Return(t, "garbled", msg)
    ELSE Return(t, "reply", ParseFromString(ReplyType(t), bytes))

Arriving(t) == pc[t] = "wait" /\ state[fd[t]] # "reset"

\* recv returns the replies that have arrived, be it none of this call's or
\* several, and what it returns is parsed as one message.
Receive(t) ==
    /\ Arriving(t)
    /\ \E n \in 1 .. Len(toClient[fd[t]]) :
          /\ Parse(t, FlattenSeq(SubSeq(toClient[fd[t]], 1, n)))
          /\ toClient' = [toClient EXCEPT ![fd[t]] = SubSeq(@, n + 1, Len(@))]
    /\ UNCHANGED <<m_clientFd, fd, overlapped, made, state, toServer, faults, cut, peerVars>>

\* Or it ends after the first k fields of a reply, or inside the next field:
\* the parse fails, and the call returns with m_clientFd as it was.  In either
\* case the rest of the reply is left for the next recv.
ReceiveCut(t) ==
    /\ Arriving(t)
    /\ fd[t] \in cut \/ Cardinality(cut) < MaxCuts
    /\ \E n \in 1 .. Len(toClient[fd[t]]), inField \in BOOLEAN :
          LET reply == toClient[fd[t]][n]
              before == FlattenSeq(SubSeq(toClient[fd[t]], 1, n - 1))
          IN  \E k \in (IF inField THEN 0 ELSE 1) .. Len(reply) - 1 :
                /\ IF inField THEN Fails(t) ELSE Parse(t, before \o SubSeq(reply, 1, k))
                /\ toClient' = [toClient EXCEPT ![fd[t]] =
                        <<(IF inField THEN <<Torn>> ELSE <<reply[k + 1]>>) \o SubSeq(reply, k + 2, Len(reply))>>
                            \o SubSeq(@, n + 1, Len(@))]
    /\ cut' = cut \cup {fd[t]}
    /\ UNCHANGED <<m_clientFd, fd, overlapped, made, state, toServer, faults, peerVars>>

\* Deliberately wrong: waits on after the end of the stream.
Faulty_WaitsAfterEof(t) == FALSE

\* recv returns 0: no bytes, which parse as a message of zeros; m_clientFd stays.
ReceiveEof(t) ==
    /\ pc[t] = "wait" /\ state[fd[t]] = "closed" /\ toClient[fd[t]] = <<>>
    /\ Return(t, "eof", ParseFromString(ReplyType(t), <<>>))
    /\ UNCHANGED <<m_clientFd, fd, overlapped, connVars, peerVars>>

\* Deliberately wrong: gives up waiting and keeps the connection.
Faulty_GivesUp(t) ==
    /\ pc[t] = "wait"
    /\ Fails(t)
    /\ UNCHANGED <<m_clientFd, fd, overlapped, connVars, peerVars>>

\* recv returns -1: the thread closes m_clientFd, which another thread may have
\* set to a connection of its own meanwhile.
ReceiveError(t) ==
    /\ pc[t] = "wait" /\ state[fd[t]] = "reset"
    /\ m_clientFd' = NoConn
    /\ Fails(t)
    /\ UNCHANGED <<fd, overlapped, connVars, peerVars>>

-----------------------------------------------------------------------------
(* The provider.                                                             *)

\* The first request in the bytes taken is there from its header to the last of
\* its arguments.
Complete(units) ==
    /\ units # <<>> /\ "header" \in DOMAIN units[1]
    /\ LET header == ParseFromString("RpcHeader", units[1].header)
       IN  header.args_size < Len(units)

\* OnMessage takes everything that has arrived out of the buffer and serves the
\* first request in it, if that one is complete; the rest is gone.
OnMessage(c) ==
    /\ state[c] = "open" /\ serving[c] = "none"
    /\ \E n \in 1 .. Len(toServer[c]) :
          LET units == SubSeq(toServer[c], 1, n)
              caller == units[1].caller
          IN  /\ toServer' = [toServer EXCEPT ![c] = SubSeq(@, n + 1, Len(@))]
              /\ serving' = IF Complete(units) THEN [serving EXCEPT ![c] = caller] ELSE serving
              /\ unserved' = unserved \cup ({units[i].caller : i \in 1 .. n}
                                              \ IF Complete(units) THEN {caller} ELSE {})
    /\ UNCHANGED <<clientVars, made, state, toClient, faults, cut, peerTerm, served>>

\* What the Raft handler may answer a request of this term when its own term is
\* the given one.  An InstallSnapshot for an old snapshot sets no field.
Replies(t, term) ==
    LET stale == TermOf[t] < term
        answers == IF stale THEN {FALSE} ELSE BOOLEAN
    IN  CASE MethodOf[t] = "AppendEntries" ->
                {[Term |-> term, Success |-> b, UpdateNextIndex |-> IF stale THEN -100 ELSE 0, AppState |-> 1] : b \in answers}
          [] MethodOf[t] = "RequestVote" ->
                {[Term |-> term, VoteGranted |-> b, VoteState |-> IF b THEN 3 ELSE 1] : b \in answers}
          [] MethodOf[t] = "InstallSnapshot" ->
                {[Term |-> term]} \cup IF stale THEN {} ELSE {[Term |-> 0]}

\* The handler runs and SendRpcResponse sends what the response serializes to;
\* an empty string sends nothing.
Serve(c) ==
    /\ state[c] = "open" /\ serving[c] # "none"
    /\ LET t == serving[c]
           term == IF TermOf[t] > peerTerm THEN TermOf[t] ELSE peerTerm
       IN  /\ peerTerm' = term
           /\ \E reply \in Replies(t, term) :
                LET bytes == SerializeToString(ReplyType(t), reply)
                IN  /\ served' = [served EXCEPT ![t] = @ \cup {reply}]
                    /\ toClient' = IF bytes = <<>> THEN toClient ELSE [toClient EXCEPT ![c] = Append(@, bytes)]
                    /\ unserved' = IF bytes = <<>> THEN unserved \cup {t} ELSE unserved
    /\ serving' = [serving EXCEPT ![c] = "none"]
    /\ UNCHANGED <<clientVars, made, state, toServer, faults, cut>>

\* The peer closes a connection, or the network breaks it: what was not yet
\* taken or answered is lost; after a reset, what was answered as well.
Break(c) ==
    /\ faults < MaxFaults /\ c <= made /\ state[c] = "open"
    /\ faults' = faults + 1
    /\ \E s \in {"closed", "reset"} : state' = [state EXCEPT ![c] = s]
    /\ toServer' = [toServer EXCEPT ![c] = <<>>]
    /\ serving' = [serving EXCEPT ![c] = "none"]
    /\ UNCHANGED <<clientVars, made, toClient, cut, peerTerm, served, unserved>>

-----------------------------------------------------------------------------

CallerStep(t) ==
    \/ NewConnect(t) \/ Send(t) \/ Recv(t)
    \/ Receive(t) \/ ReceiveCut(t) \/ ReceiveEof(t) \/ ReceiveError(t)

ProviderStep(c) == OnMessage(c) \/ Serve(c)

Next ==
    \/ \E t \in Thread : CallMethod(t) \/ CallerStep(t)
    \/ \E c \in Conn : ProviderStep(c) \/ Break(c)

\* While threads can run, here or at the peer, one of them does, and bytes sent
\* arrive.  No more is needed: there are finitely many steps to take.
Spec ==
    /\ Init /\ [][Next]_vars
    /\ WF_vars((\E t \in Thread : CallerStep(t)) \/ (\E c \in Conn : ProviderStep(c)))

-----------------------------------------------------------------------------
(* Properties.                                                               *)

\* Every variable keeps its type: a thread that waits does so on a connection
\* that was made, whoever has cleared m_clientFd, and a call that is done has a
\* response of its own kind.
TypeOK ==
    /\ m_clientFd \in Conn \cup {NoConn}
    /\ pc \in [Thread -> {"idle", "connect", "send", "recv", "wait", "done"}]
    /\ fd \in [Thread -> Conn \cup {NoConn}]
    /\ \A t \in Thread : pc[t] = "done" =>
            /\ result[t].how \in {"failed", "eof", "reply", "garbled"}
            /\ DOMAIN result[t].msg = DOMAIN Types[ReplyType(t)]
    /\ \A t \in Thread : pc[t] = "wait" => fd[t] \in 1 .. made
    /\ made \in 0 .. MaxConns /\ faults \in 0 .. MaxFaults /\ cut \subseteq Conn /\ peerTerm \in Nat \ {0}
    /\ state \in [Conn -> {"open", "closed", "reset"}]
    /\ serving \in [Conn -> Thread \cup {"none"}]
    /\ overlapped \subseteq Thread /\ unserved \subseteq Thread

\* A call that had the channel to itself returns the reply of its own handler,
\* whatever connections broke before, as long as on its connection no recv ended
\* inside a reply.  KvServer.tla takes this, with its proviso, of a clerk's calls.
OwnReplyWhenAlone ==
    \A t \in Thread \ overlapped :
        pc[t] = "done" /\ result[t].how = "reply" /\ fd[t] \notin cut => result[t].msg \in served[t]

\* However replies are joined, and cut between their fields, the term in a
\* response is 0 or one the peer has answered with: a caller never steps down
\* for a term nobody has, unless its recv began inside a field.
TermIsReal ==
    \A t \in Thread : pc[t] = "done" /\ result[t].how # "garbled" =>
        result[t].msg.Term \in {0} \cup {reply.Term : reply \in UNION {served[u] : u \in Thread}}

\* Every call returns, also when its connection breaks, unless it was not alone
\* in the channel or the provider threw it away or answered it with no bytes.
\* (Each of these is for ever, so "again and again" says "from some time on".)
LoneCallReturns ==
    []<>(\A t \in Thread : pc[t] \in {"idle", "done"} \/ t \in overlapped \/ t \in unserved)

\* A RequestVote that reports a granted vote of its own term was granted by the
\* peer: "VoteGranted" of raftRPC.proto says whether the peer agreed, and
\* CallMethod fills the response with the peer's answer.
VoteWasGranted ==
    \A t \in Thread :
        /\ MethodOf[t] = "RequestVote" /\ pc[t] = "done"
        /\ result[t].msg.VoteGranted /\ result[t].msg.Term = TermOf[t]
        => \E reply \in served[t] : reply.VoteGranted
=============================================================================
