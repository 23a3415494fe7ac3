---------------------------- MODULE MCRpcChannel ----------------------------
(***************************************************************************)
(* Instances of RpcChannel for TLC: the threads of a node that was leader  *)
(* of term 1 and campaigns in term 2.                                      *)
(***************************************************************************)
EXTENDS RpcChannel

CONSTANTS heartBeat, snapshot, vote

MCMethodOf ==
    [t \in Thread |-> CASE t = heartBeat -> "AppendEntries" [] t = snapshot -> "InstallSnapshot" [] t = vote -> "RequestVote"]
\* Replies of four fields and of one are enough to be read as one another.
MCTwoKinds == [t \in Thread |-> IF t = heartBeat THEN "AppendEntries" ELSE "InstallSnapshot"]
MCTermOf == [t \in Thread |-> IF t = vote THEN 2 ELSE 1]

\* Parsing gives back what was serialized, for messages with zero and other
\* values in every field.
SampleValues(type) ==
    CASE type = "bool" -> BOOLEAN
      [] type \in {"int32", "uint32"} -> {0, 1}
      [] type = "bytes" -> {"", "x"}
      [] type = "messages" -> {<<>>, <<"m", "n">>}

Messages(msg) ==
    FoldLeft(LAMBDA ms, f : {[m EXCEPT ![f] = v] : m \in ms, v \in SampleValues(Types[msg][f])},
             {Default(msg)}, Fields[msg])

ASSUME RoundTrip ==
    \A msg \in DOMAIN Types : \A m \in Messages(msg) : ParseFromString(msg, SerializeToString(msg, m)) = m
=============================================================================
