-------------------------------- MODULE Wire --------------------------------
(***************************************************************************)
(* The protobuf messages of the RPCs and what serializing and parsing them *)
(* does.  A serialized message is the sequence of its fields on the wire,  *)
(* each a number, a wire type and a value; the bytes of two messages one   *)
(* behind the other are the two sequences one behind the other.            *)
(* For each message, the accessors of the header give the fields and their *)
(* types, and Clear, _InternalParse, _InternalSerialize and ByteSizeLong   *)
(* give the numbers under which they travel (here: the positions).         *)
(***************************************************************************)
EXTENDS Integers, Sequences, SequencesExt

LogEntry == [Command |-> "bytes", LogTerm |-> "int32", LogIndex |-> "int32"]
LogEntryFields == <<"Command", "LogTerm", "LogIndex">>

AppendEntriesArgs == [Term |-> "int32", LeaderId |-> "int32", PrevLogIndex |-> "int32",
                      PrevLogTerm |-> "int32", Entries |-> "messages", LeaderCommit |-> "int32"]
AppendEntriesArgsFields ==
    <<"Term", "LeaderId", "PrevLogIndex", "PrevLogTerm", "Entries", "LeaderCommit">>

\* Deliberately wrong: the hint for the next index comes first.
Faulty_HintFirst == <<"UpdateNextIndex", "Success", "Term", "AppState">>

AppendEntriesReply == [Term |-> "int32", Success |-> "bool", UpdateNextIndex |-> "int32", AppState |-> "int32"]
AppendEntriesReplyFields == <<"Term", "Success", "UpdateNextIndex", "AppState">>

RequestVoteArgs == [Term |-> "int32", CandidateId |-> "int32", LastLogIndex |-> "int32", LastLogTerm |-> "int32"]
RequestVoteArgsFields == <<"Term", "CandidateId", "LastLogIndex", "LastLogTerm">>

RequestVoteReply == [Term |-> "int32", VoteGranted |-> "bool", VoteState |-> "int32"]
RequestVoteReplyFields == <<"Term", "VoteGranted", "VoteState">>

InstallSnapshotRequest == [LeaderId |-> "int32", Term |-> "int32", LastSnapShotIncludeIndex |-> "int32",
                           LastSnapShotIncludeTerm |-> "int32", Data |-> "bytes"]
InstallSnapshotRequestFields ==
    <<"LeaderId", "Term", "LastSnapShotIncludeIndex", "LastSnapShotIncludeTerm", "Data">>

InstallSnapshotResponse == [Term |-> "int32"]
InstallSnapshotResponseFields == <<"Term">>

GetArgs == [Key |-> "bytes", ClientId |-> "bytes", RequestId |-> "int32"]
GetArgsFields == <<"Key", "ClientId", "RequestId">>

GetReply == [Err |-> "bytes", Value |-> "bytes"]
GetReplyFields == <<"Err", "Value">>

PutAppendArgs == [Key |-> "bytes", Value |-> "bytes", Op |-> "bytes", ClientId |-> "bytes", RequestId |-> "int32"]
PutAppendArgsFields == <<"Key", "Value", "Op", "ClientId", "RequestId">>

PutAppendReply == [Err |-> "bytes"]
PutAppendReplyFields == <<"Err">>

RpcHeader == [service_name |-> "bytes", method_name |-> "bytes", args_size |-> "uint32"]
RpcHeaderFields == <<"service_name", "method_name", "args_size">>

Types == [
    LogEntry |-> LogEntry, AppendEntriesArgs |-> AppendEntriesArgs, AppendEntriesReply |-> AppendEntriesReply,
    RequestVoteArgs |-> RequestVoteArgs, RequestVoteReply |-> RequestVoteReply,
    InstallSnapshotRequest |-> InstallSnapshotRequest, InstallSnapshotResponse |-> InstallSnapshotResponse,
    GetArgs |-> GetArgs, GetReply |-> GetReply, PutAppendArgs |-> PutAppendArgs,
    PutAppendReply |-> PutAppendReply, RpcHeader |-> RpcHeader]

Fields == [
    LogEntry |-> LogEntryFields, AppendEntriesArgs |-> AppendEntriesArgsFields,
    AppendEntriesReply |-> AppendEntriesReplyFields, RequestVoteArgs |-> RequestVoteArgsFields,
    RequestVoteReply |-> RequestVoteReplyFields, InstallSnapshotRequest |-> InstallSnapshotRequestFields,
    InstallSnapshotResponse |-> InstallSnapshotResponseFields, GetArgs |-> GetArgsFields,
    GetReply |-> GetReplyFields, PutAppendArgs |-> PutAppendArgsFields,
    PutAppendReply |-> PutAppendReplyFields, RpcHeader |-> RpcHeaderFields]

\* The methods of the two services, with the messages they take and return.
raftRpc == [
    AppendEntries |-> [args |-> "AppendEntriesArgs", reply |-> "AppendEntriesReply"],
    InstallSnapshot |-> [args |-> "InstallSnapshotRequest", reply |-> "InstallSnapshotResponse"],
    RequestVote |-> [args |-> "RequestVoteArgs", reply |-> "RequestVoteReply"]]

kvServerRpc == [
    PutAppend |-> [args |-> "PutAppendArgs", reply |-> "PutAppendReply"],
    Get |-> [args |-> "GetArgs", reply |-> "GetReply"]]

WireType(type) == IF type \in {"int32", "uint32", "bool"} THEN "varint" ELSE "length"

Zero(type) ==
    CASE type = "bool" -> FALSE
      [] type \in {"int32", "uint32"} -> 0
      [] type = "bytes" -> ""
      [] type = "messages" -> <<>>

\* A message with all its fields cleared, as a parse begins with.
Default(msg) == [f \in DOMAIN Types[msg] |-> Zero(Types[msg][f])]

OnWire(type, value) == IF type = "bool" THEN 1 ELSE value
FromWire(type, value) == IF type = "bool" THEN value # 0 ELSE value

\* What SerializeToString writes of field number n: nothing for a zero value,
\* one item for each element of a repeated field.
FieldItems(msg, m, n) ==
    LET f == Fields[msg][n]
        type == Types[msg][f]
        item(value) == [number |-> n, wire |-> WireType(type), value |-> OnWire(type, value)]
    IN  CASE type = "messages" -> [i \in DOMAIN m[f] |-> item(m[f][i])]
          [] type # "messages" /\ m[f] = Zero(type) -> <<>>
          [] OTHER -> <<item(m[f])>>

SerializeToString(msg, m) == FlattenSeq([n \in DOMAIN Fields[msg] |-> FieldItems(msg, m, n)])

\* A field read: the last occurrence wins, a repeated field grows, and a number
\* or wire type that the message does not have is set aside as unknown.
ReadField(msg, m, item) ==
    LET f == Fields[msg][item.number]
        type == Types[msg][f]
    IN  CASE item.number \notin DOMAIN Fields[msg] -> m
          [] item.number \in DOMAIN Fields[msg] /\ WireType(type) # item.wire -> m
          [] item.number \in DOMAIN Fields[msg] /\ WireType(type) = item.wire /\ type = "messages" ->
                [m EXCEPT ![f] = Append(@, item.value)]
          [] OTHER -> [m EXCEPT ![f] = FromWire(type, item.value)]

ParseFromString(msg, items) ==
    LET after[n \in 0 .. Len(items)] ==      \* the message after n items
            IF n = 0 THEN Default(msg) ELSE ReadField(msg, after[n - 1], items[n])
    IN  after[Len(items)]
=============================================================================
