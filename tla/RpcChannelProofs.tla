-------------------------- MODULE RpcChannelProofs --------------------------
(***************************************************************************)
(* What a caller gets from the channel, for every number of threads,       *)
(* connections and faults; before that, parsing and serializing, for every *)
(* message and every input.  The library's induction theorems cannot be    *)
(* used here, so induction is over the set of the numbers for which a      *)
(* claim holds (Induction, below).                                         *)
(***************************************************************************)
EXTENDS RpcChannel, NaturalsInduction, WellFoundedInduction, SequenceTheorems, FiniteSetTheorems, TLAPS

---------------------------------------------------------------------------
(* Induction.  A set of numbers that is not empty has a least element, so    *)
(* one that has 0 and with a number the next has them all.                   *)

LEMMA LeastNumber ==
    ASSUME NEW T, T \subseteq Nat, T # {}
    PROVE  \E x \in T : \A y \in T : x <= y
<1>1. IsWellFoundedOn(OpToRel(<,Nat), Nat)
  BY NatLessThanWellFounded
<1>2. PICK x \in T : \A y \in T : ~(<<y, x>> \in OpToRel(<, Nat))
  BY <1>1, WFMin
<1>3. ASSUME NEW y \in T PROVE x <= y
  <2>1. <<y, x>> \in OpToRel(<, Nat) <=> y < x
    BY <1>2 DEF OpToRel
  <2>2. ~(y < x)
    BY <1>2, <2>1, Zenon
  <2>3. x \in Nat /\ y \in Nat
    OBVIOUS
  <2> HIDE <1>2, <2>1
  <2> QED BY <2>2, <2>3
<1> QED BY <1>3

LEMMA Induction ==
    ASSUME NEW S, 0 \in S, \A n \in Nat : n \in S => n + 1 \in S
    PROVE  Nat \subseteq S
<1> SUFFICES ASSUME Nat \ S # {} PROVE FALSE
  OBVIOUS
<1>1. PICK x : x \in Nat \ S /\ \A y \in Nat \ S : x <= y
  <2>1. \E x \in Nat \ S : \A y \in Nat \ S : x <= y
    BY LeastNumber
  <2> QED BY <2>1
<1>2. x # 0 /\ x - 1 \in Nat
  BY <1>1
<1>3. x - 1 \in S
  BY <1>1, <1>2
<1>4. (x - 1) + 1 \in S /\ (x - 1) + 1 = x
  BY <1>1, <1>2, <1>3
<1> QED BY <1>1, <1>4

---------------------------------------------------------------------------
(* Parsing, step by step.                                                    *)

ReadsAs(msg, items, n, f) ==
    f = [k \in 0 .. n |-> IF k = 0 THEN Default(msg) ELSE ReadField(msg, f[k - 1], items[k])]

\* f[k] is the message after k items.
Reading(msg, items, f) ==
    /\ f[0] = Default(msg)
    /\ \A k \in 1 .. Len(items) : f[k] = ReadField(msg, f[k - 1], items[k])
    /\ ParseFromString(msg, items) = f[Len(items)]

LEMMA ReadsToTheEnd ==
    ASSUME NEW msg, NEW items, NEW N \in Nat
    PROVE  \E f : ReadsAs(msg, items, N, f)
<1> DEFINE S == {n \in Nat : \E f : ReadsAs(msg, items, n, f)}
<1>1. 0 \in S
  <2> DEFINE g == [k \in 0 .. 0 |-> Default(msg)]
  <2>1. ReadsAs(msg, items, 0, g)
    BY DEF ReadsAs
  <2> QED BY <2>1
<1>2. ASSUME NEW n \in Nat, n \in S PROVE n + 1 \in S
  <2>1. PICK f : ReadsAs(msg, items, n, f)
    BY <1>2
  <2> DEFINE g == [k \in 0 .. n + 1 |-> IF k = n + 1 THEN ReadField(msg, f[n], items[n + 1]) ELSE f[k]]
  <2>2. g = [k \in 0 .. n + 1 |-> IF k = 0 THEN Default(msg) ELSE ReadField(msg, g[k - 1], items[k])]
    BY <2>1 DEF ReadsAs
  <2>3. ReadsAs(msg, items, n + 1, g)
    BY <2>2 DEF ReadsAs
  <2> QED BY <2>3
<1> HIDE DEF S
<1>3. N \in S
  BY <1>1, <1>2, Induction
<1> QED BY <1>3 DEF S

LEMMA Parsing ==
    ASSUME NEW msg, NEW items, Len(items) \in Nat
    PROVE  \E f : Reading(msg, items, f)
<1> DEFINE f == CHOOSE f : f = [n \in 0 .. Len(items) |-> IF n = 0 THEN Default(msg) ELSE ReadField(msg, f[n - 1], items[n])]
<1>1. ParseFromString(msg, items) = f[Len(items)]
  BY DEF ParseFromString
<1>2. \E g : g = [n \in 0 .. Len(items) |-> IF n = 0 THEN Default(msg) ELSE ReadField(msg, g[n - 1], items[n])]
  <2>1. PICK g : ReadsAs(msg, items, Len(items), g)
    BY ReadsToTheEnd
  <2>2. g = [n \in 0 .. Len(items) |-> IF n = 0 THEN Default(msg) ELSE ReadField(msg, g[n - 1], items[n])]
    BY <2>1, Zenon DEF ReadsAs
  <2> QED BY <2>2, Zenon
<1>3. f = [n \in 0 .. Len(items) |-> IF n = 0 THEN Default(msg) ELSE ReadField(msg, f[n - 1], items[n])]
  BY <1>2, Zenon
<1> HIDE DEF f
<1>4. f[0] = Default(msg) /\ \A k \in 1 .. Len(items) : f[k] = ReadField(msg, f[k - 1], items[k])
  BY <1>3
<1> QED BY <1>1, <1>4 DEF Reading

LEMMA ParseNothing ==
    ASSUME NEW msg
    PROVE  ParseFromString(msg, <<>>) = Default(msg)
<1>1. PICK f : Reading(msg, <<>>, f)
  BY Parsing
<1> QED BY <1>1 DEF Reading

\* g[k] is the message m after k more items.
ReadsOn(msg, m, items, g) ==
    /\ g[0] = m
    /\ \A k \in 1 .. Len(items) : g[k] = ReadField(msg, g[k - 1], items[k])

\* all is items with more behind them.
Behind(items, more, all) ==
    /\ Len(items) \in Nat /\ Len(more) \in Nat /\ Len(all) = Len(items) + Len(more)
    /\ \A k \in 1 .. Len(items) : all[k] = items[k]
    /\ \A k \in 1 .. Len(more) : all[Len(items) + k] = more[k]

LEMMA Concatenated ==
    ASSUME NEW V, NEW items \in Seq(V), NEW more \in Seq(V)
    PROVE  Behind(items, more, items \o more)
<1>0. PICK all : all = items \o more
  OBVIOUS
<1>1. /\ Len(items \o more) = Len(items) + Len(more)
      /\ \A i \in 1 .. Len(items) + Len(more) :
            (items \o more)[i] = IF i <= Len(items) THEN items[i] ELSE more[i - Len(items)]
  BY ConcatProperties, Zenon
<1>2. Len(items) \in Nat /\ Len(more) \in Nat
  BY LenProperties
<1>3. /\ Len(all) = Len(items) + Len(more)
      /\ \A i \in 1 .. Len(items) + Len(more) :
            all[i] = IF i <= Len(items) THEN items[i] ELSE more[i - Len(items)]
  BY <1>0, <1>1, Zenon
<1>4. ASSUME NEW k \in 1 .. Len(items) PROVE all[k] = items[k]
  <2>1. k \in 1 .. Len(items) + Len(more) /\ k <= Len(items)
    BY <1>2
  <2> QED BY <1>3, <2>1, Zenon
<1>5. ASSUME NEW k \in 1 .. Len(more) PROVE all[Len(items) + k] = more[k]
  <2>1. /\ Len(items) + k \in 1 .. Len(items) + Len(more) /\ ~(Len(items) + k <= Len(items))
        /\ (Len(items) + k) - Len(items) = k
    BY <1>2
  <2> QED BY <1>3, <2>1, Zenon
<1>6. Behind(items, more, all)
  BY <1>2, <1>3, <1>4, <1>5 DEF Behind
<1> QED BY <1>0, <1>6, Zenon

ReadsBehind(msg, items, more, all) ==
    \E g : /\ ReadsOn(msg, ParseFromString(msg, items), more, g)
          /\ ParseFromString(msg, all) = g[Len(more)]

LEMMA ParseBehind ==
    ASSUME NEW msg, NEW items, NEW more, NEW all, Behind(items, more, all)
    PROVE  ReadsBehind(msg, items, more, all)
<1>1. /\ Len(items) \in Nat /\ Len(more) \in Nat /\ Len(all) = Len(items) + Len(more)
      /\ \A k \in 1 .. Len(items) : all[k] = items[k]
      /\ \A k \in 1 .. Len(more) : all[Len(items) + k] = more[k]
  BY DEF Behind
<1>2. PICK f : Reading(msg, items, f)
  BY <1>1, Parsing, Zenon
<1>3. PICK h : Reading(msg, all, h)
  <2>1. Len(all) \in Nat
    BY <1>1
  <2> QED BY <2>1, Parsing, Zenon
<1> DEFINE S == {n \in Nat : n <= Len(items) => h[n] = f[n]}
<1>4. 0 \in S
  BY <1>2, <1>3 DEF Reading
<1>5. ASSUME NEW n \in Nat, n \in S PROVE n + 1 \in S
  <2> SUFFICES ASSUME n + 1 <= Len(items) PROVE h[n + 1] = f[n + 1]
    OBVIOUS
  <2>1. h[n] = f[n] /\ n + 1 \in 1 .. Len(items) /\ n + 1 \in 1 .. Len(all) /\ (n + 1) - 1 = n
    BY <1>1, <1>5
  <2>2. h[n + 1] = ReadField(msg, h[n], items[n + 1])
    BY <1>1, <1>3, <2>1 DEF Reading
  <2>3. f[n + 1] = ReadField(msg, f[n], items[n + 1])
    BY <1>2, <2>1 DEF Reading
  <2> QED BY <2>1, <2>2, <2>3
<1>6. h[Len(items)] = ParseFromString(msg, items)
  <2> HIDE DEF S
  <2>1. Len(items) \in S
    BY <1>1, <1>4, <1>5, Induction
  <2> QED BY <1>1, <1>2, <2>1 DEF S, Reading
<1> DEFINE g == [k \in 0 .. Len(more) |-> h[Len(items) + k]]
<1>7. g[0] = ParseFromString(msg, items)
  <2>1. 0 \in 0 .. Len(more) /\ Len(items) + 0 = Len(items)
    BY <1>1
  <2> QED BY <1>6, <2>1
<1>8. ASSUME NEW k \in 1 .. Len(more) PROVE g[k] = ReadField(msg, g[k - 1], more[k])
  <2>1. /\ k \in 0 .. Len(more) /\ k - 1 \in 0 .. Len(more)
        /\ Len(items) + (k - 1) = (Len(items) + k) - 1 /\ Len(items) + k \in 1 .. Len(all)
    BY <1>1
  <2>2. h[Len(items) + k] = ReadField(msg, h[(Len(items) + k) - 1], more[k])
    BY <1>1, <1>3, <2>1, Zenon DEF Reading
  <2>3. g[k] = h[Len(items) + k] /\ g[k - 1] = h[(Len(items) + k) - 1]
    BY <2>1
  <2> HIDE DEF g
  <2> QED BY <2>2, <2>3, Zenon
<1>9. ParseFromString(msg, all) = g[Len(more)]
  <2>1. Len(more) \in 0 .. Len(more)
    BY <1>1
  <2> QED BY <1>1, <1>3, <2>1 DEF Reading
<1>10. ReadsOn(msg, ParseFromString(msg, items), more, g)
  BY <1>7, <1>8 DEF ReadsOn
<1> HIDE DEF g
<1> QED BY <1>9, <1>10, Zenon DEF ReadsBehind

\* Whatever arrives, a message has the fields of its type.
LEMMA ParsedFields ==
    ASSUME NEW msg, NEW items, Len(items) \in Nat
    PROVE  DOMAIN ParseFromString(msg, items) = DOMAIN Types[msg]
<1>1. PICK f : Reading(msg, items, f)
  BY Parsing
<1> DEFINE S == {n \in Nat : n <= Len(items) => DOMAIN f[n] = DOMAIN Types[msg]}
<1>2. 0 \in S
  BY <1>1 DEF Reading, Default
<1>3. ASSUME NEW n \in Nat, n \in S PROVE n + 1 \in S
  <2> SUFFICES ASSUME n + 1 <= Len(items) PROVE DOMAIN f[n + 1] = DOMAIN Types[msg]
    OBVIOUS
  <2>1. DOMAIN f[n] = DOMAIN Types[msg] /\ n + 1 \in 1 .. Len(items) /\ (n + 1) - 1 = n
    BY <1>3
  <2>2. PICK item : item = items[n + 1]
    OBVIOUS
  <2>3. f[n + 1] = ReadField(msg, f[n], item)
    BY <1>1, <2>1, <2>2 DEF Reading
  <2>4. DOMAIN ReadField(msg, f[n], item) = DOMAIN f[n]
    BY DEF ReadField
  <2> QED BY <2>1, <2>3, <2>4
<1> HIDE DEF S
<1>4. Len(items) \in S
  BY <1>2, <1>3, Induction
<1> QED BY <1>1, <1>4 DEF S, Reading

\* The kinds of response of the Raft service.  All begin with the term.
RaftReply == {"AppendEntriesReply", "RequestVoteReply", "InstallSnapshotResponse"}

\* The term of a response is 0 or came as field 1.
LEMMA ParsedTerm ==
    ASSUME NEW msg \in RaftReply, NEW items, Len(items) \in Nat, NEW T,
           \A k \in 1 .. Len(items) : items[k].number = 1 => items[k].value \in T
    PROVE  ParseFromString(msg, items).Term \in {0} \cup T
<1>1. PICK f : Reading(msg, items, f)
  BY Parsing
<1>2. /\ Types[msg]["Term"] = "int32" /\ "Term" \in DOMAIN Types[msg]
      /\ Fields[msg][1] = "Term" /\ \A n \in DOMAIN Fields[msg] : n # 1 => Fields[msg][n] # "Term"
  BY DEF RaftReply, Types, Fields, AppendEntriesReply, RequestVoteReply, InstallSnapshotResponse,
         AppendEntriesReplyFields, RequestVoteReplyFields, InstallSnapshotResponseFields
<1> DEFINE S == {n \in Nat : n <= Len(items) => f[n].Term \in {0} \cup T /\ DOMAIN f[n] = DOMAIN Types[msg]}
<1>3. 0 \in S
  <2>1. f[0].Term = 0 /\ DOMAIN f[0] = DOMAIN Types[msg]
    BY <1>1, <1>2 DEF Reading, Default, Zero
  <2> QED BY <2>1
<1>4. ASSUME NEW n \in Nat, n \in S PROVE n + 1 \in S
  <2> SUFFICES ASSUME n + 1 <= Len(items)
               PROVE  f[n + 1].Term \in {0} \cup T /\ DOMAIN f[n + 1] = DOMAIN Types[msg]
    OBVIOUS
  <2>1. f[n].Term \in {0} \cup T /\ DOMAIN f[n] = DOMAIN Types[msg] /\ n + 1 \in 1 .. Len(items) /\ (n + 1) - 1 = n
    BY <1>4
  <2>2. PICK item : item = items[n + 1]
    OBVIOUS
  <2>3. f[n + 1] = ReadField(msg, f[n], item)
    BY <1>1, <2>1, <2>2 DEF Reading
  <2>4. PICK m : m = f[n]
    OBVIOUS
  <2>5. \/ ReadField(msg, m, item) = m
        \/ /\ item.number \in DOMAIN Fields[msg]
           /\ \E v : /\ ReadField(msg, m, item) = [m EXCEPT ![Fields[msg][item.number]] = v]
                     /\ item.number = 1 => v = item.value
    BY <1>2 DEF ReadField, FromWire
  <2>6. item.number = 1 => item.value \in T
    BY <2>1, <2>2
  <2> QED BY <1>2, <2>1, <2>3, <2>4, <2>5, <2>6
<1> HIDE DEF S
<1>5. Len(items) \in S
  BY <1>3, <1>4, Induction
<1> QED BY <1>1, <1>5 DEF S, Reading

---------------------------------------------------------------------------
(* Messages one behind the other.                                            *)

FlattensAs(seqs, n, f) == f = [i \in 1 .. n |-> IF i = 1 THEN seqs[i] ELSE f[i - 1] \o seqs[i]]

\* f[i] is the first i of them.
Flattening(seqs, f) ==
    /\ f[1] = seqs[1]
    /\ \A i \in 2 .. Len(seqs) : f[i] = f[i - 1] \o seqs[i]
    /\ FlattenSeq(seqs) = f[Len(seqs)]

LEMMA FlattensToTheEnd ==
    ASSUME NEW seqs, NEW N \in Nat
    PROVE  \E f : FlattensAs(seqs, N, f)
<1> DEFINE S == {n \in Nat : \E f : FlattensAs(seqs, n, f)}
<1>1. 0 \in S
  <2> DEFINE g == [i \in 1 .. 0 |-> 0]
  <2>1. FlattensAs(seqs, 0, g)
    BY DEF FlattensAs
  <2> QED BY <2>1
<1>2. ASSUME NEW n \in Nat, n \in S PROVE n + 1 \in S
  <2>1. PICK f : FlattensAs(seqs, n, f)
    BY <1>2
  <2>2. PICK last : last = IF n = 0 THEN seqs[1] ELSE f[n] \o seqs[n + 1]
    OBVIOUS
  <2> DEFINE g == [i \in 1 .. n + 1 |-> IF i = n + 1 THEN last ELSE f[i]]
  <2>3. \A i \in 1 .. n + 1 : g[i] = IF i = 1 THEN seqs[i] ELSE g[i - 1] \o seqs[i]
    <3> TAKE i \in 1 .. n + 1
    <3>1. CASE i = n + 1
      <4>1. n # 0 => g[n] = f[n]
        OBVIOUS
      <4>2. g[n + 1] = last
        OBVIOUS
      <4>3. (n + 1) - 1 = n
        OBVIOUS
      <4> HIDE DEF g
      <4>4. CASE n = 0
        BY <2>2, <3>1, <4>2, <4>4
      <4>5. CASE n # 0
        <5>1. i # 1
          BY <3>1, <4>5
        <5>2. last = f[n] \o seqs[n + 1]
          BY <2>2, <4>5, Zenon
        <5> QED BY <3>1, <4>1, <4>2, <4>3, <4>5, <5>1, <5>2, Zenon
      <4> QED BY <4>4, <4>5
    <3>2. CASE i # n + 1
      <4>1. i \in 1 .. n /\ (i # 1 => i - 1 \in 1 .. n)
        BY <3>2
      <4>2. f[i] = IF i = 1 THEN seqs[i] ELSE f[i - 1] \o seqs[i]
        BY <2>1, <4>1, Zenon DEF FlattensAs
      <4>3. g[i] = f[i] /\ (i # 1 => g[i - 1] = f[i - 1])
        BY <4>1
      <4> HIDE DEF g
      <4> QED BY <4>2, <4>3
    <3> QED BY <3>1, <3>2
  <2>5. g = [i \in 1 .. n + 1 |-> g[i]]
    OBVIOUS
  <2> HIDE DEF g
  <2>6. g = [i \in 1 .. n + 1 |-> IF i = 1 THEN seqs[i] ELSE g[i - 1] \o seqs[i]]
    BY <2>3, <2>5
  <2>4. FlattensAs(seqs, n + 1, g)
    BY <2>6 DEF FlattensAs
  <2> QED BY <2>4
<1> HIDE DEF S
<1>3. N \in S
  BY <1>1, <1>2, Induction
<1> QED BY <1>3 DEF S

LEMMA Flattened ==
    ASSUME NEW seqs, Len(seqs) \in Nat, Len(seqs) > 0
    PROVE  \E f : Flattening(seqs, f)
<1> DEFINE f == CHOOSE f : f = [i \in 1 .. Len(seqs) |-> IF i = 1 THEN seqs[i] ELSE f[i - 1] \o seqs[i]]
<1>1. FlattenSeq(seqs) = f[Len(seqs)]
  BY DEF FlattenSeq
<1>2. \E g : g = [i \in 1 .. Len(seqs) |-> IF i = 1 THEN seqs[i] ELSE g[i - 1] \o seqs[i]]
  <2>1. PICK g : FlattensAs(seqs, Len(seqs), g)
    BY FlattensToTheEnd
  <2>2. g = [i \in 1 .. Len(seqs) |-> IF i = 1 THEN seqs[i] ELSE g[i - 1] \o seqs[i]]
    BY <2>1, Zenon DEF FlattensAs
  <2> QED BY <2>2, Zenon
<1>3. f = [i \in 1 .. Len(seqs) |-> IF i = 1 THEN seqs[i] ELSE f[i - 1] \o seqs[i]]
  BY <1>2, Zenon
<1> HIDE DEF f
<1>4. f[1] = seqs[1]
  <2>1. 1 \in 1 .. Len(seqs)
    OBVIOUS
  <2> QED BY <1>3, <2>1, Zenon
<1>5. \A i \in 2 .. Len(seqs) : f[i] = f[i - 1] \o seqs[i]
  <2>1. \A i \in 2 .. Len(seqs) : i \in 1 .. Len(seqs) /\ i # 1
    OBVIOUS
  <2> QED BY <1>3, <2>1, Zenon
<1> QED BY <1>1, <1>4, <1>5 DEF Flattening

LEMMA FlattenOne ==
    ASSUME NEW s
    PROVE  FlattenSeq(<<s>>) = s
<1>1. PICK f : Flattening(<<s>>, f)
  BY Flattened
<1> QED BY <1>1 DEF Flattening

\* All of it came in one of the parts.
LEMMA FlattenTypes ==
    ASSUME NEW V, NEW seqs \in Seq(Seq(V))
    PROVE  FlattenSeq(seqs) \in Seq(V)
<1>0. Len(seqs) \in Nat /\ \A i \in 1 .. Len(seqs) : seqs[i] \in Seq(V)
  BY LenProperties
<1>1. CASE Len(seqs) = 0
  <2>1. FlattenSeq(seqs) = seqs /\ seqs = <<>>
    BY <1>1, EmptySeq DEF FlattenSeq
  <2> QED BY <2>1
<1>2. CASE Len(seqs) > 0
  <2>1. PICK f : Flattening(seqs, f)
    BY <1>0, <1>2, Flattened
  <2> DEFINE S == {n \in Nat : 1 <= n /\ n <= Len(seqs) => f[n] \in Seq(V)}
  <2>2. 0 \in S
    OBVIOUS
  <2>3. ASSUME NEW n \in Nat, n \in S PROVE n + 1 \in S
    <3> SUFFICES ASSUME n + 1 <= Len(seqs) PROVE f[n + 1] \in Seq(V)
      OBVIOUS
    <3>1. CASE n = 0
      BY <1>0, <2>1, <3>1 DEF Flattening
    <3>2. CASE n # 0
      <4>1. f[n] \in Seq(V) /\ seqs[n + 1] \in Seq(V) /\ n + 1 \in 2 .. Len(seqs) /\ (n + 1) - 1 = n
        BY <1>0, <2>3, <3>2
      <4>2. f[n + 1] = f[n] \o seqs[n + 1]
        BY <2>1, <4>1 DEF Flattening
      <4> QED BY <4>1, <4>2, ConcatProperties
    <3> QED BY <3>1, <3>2
  <2> HIDE DEF S
  <2>4. Len(seqs) \in S
    BY <1>0, <2>2, <2>3, Induction
  <2> QED BY <1>0, <1>2, <2>1, <2>4 DEF S, Flattening
<1> QED BY <1>0, <1>1, <1>2
---------------------------------------------------------------------------
(* Parsing undoes serializing.                                               *)

Scalar == {"int32", "uint32", "bool", "bytes"}

\* A message of the named kind, with elements of X in its repeated fields.
IsMessage(msg, m, X) ==
    /\ m = [f \in DOMAIN Types[msg] |-> m[f]]
    /\ \A f \in DOMAIN Types[msg] :
            /\ Types[msg][f] = "bool" => m[f] \in BOOLEAN
            /\ Types[msg][f] = "messages" => m[f] \in Seq(X)

\* The fields of a message are numbered from 1 on, each once.
Numbered(msg) ==
    /\ Len(Fields[msg]) \in Nat \ {0} /\ DOMAIN Fields[msg] = 1 .. Len(Fields[msg])
    /\ \A i, j \in DOMAIN Fields[msg] : Fields[msg][i] = Fields[msg][j] => i = j
    /\ \A f : f \in DOMAIN Types[msg] <=> \E i \in DOMAIN Fields[msg] : Fields[msg][i] = f
    /\ \A f \in DOMAIN Types[msg] : Types[msg][f] \in Scalar \cup {"messages"}

LEMMA FieldsNumbered == \A msg \in DOMAIN Types : Numbered(msg)
<1> SUFFICES ASSUME NEW msg \in DOMAIN Types PROVE Numbered(msg)
  OBVIOUS
<1>1. CASE msg = "LogEntry"
  <2>1. Fields[msg] = LogEntryFields /\ Types[msg] = LogEntry
    BY <1>1 DEF Types, Fields
  <2> QED BY <2>1 DEF Numbered, Scalar, LogEntry, LogEntryFields
<1>2. CASE msg = "AppendEntriesArgs"
  <2>1. Fields[msg] = AppendEntriesArgsFields /\ Types[msg] = AppendEntriesArgs
    BY <1>2 DEF Types, Fields
  <2> QED BY <2>1 DEF Numbered, Scalar, AppendEntriesArgs, AppendEntriesArgsFields
<1>3. CASE msg = "AppendEntriesReply"
  <2>1. Fields[msg] = AppendEntriesReplyFields /\ Types[msg] = AppendEntriesReply
    BY <1>3 DEF Types, Fields
  <2> QED BY <2>1 DEF Numbered, Scalar, AppendEntriesReply, AppendEntriesReplyFields
<1>4. CASE msg = "RequestVoteArgs"
  <2>1. Fields[msg] = RequestVoteArgsFields /\ Types[msg] = RequestVoteArgs
    BY <1>4 DEF Types, Fields
  <2> QED BY <2>1 DEF Numbered, Scalar, RequestVoteArgs, RequestVoteArgsFields
<1>5. CASE msg = "RequestVoteReply"
  <2>1. Fields[msg] = RequestVoteReplyFields /\ Types[msg] = RequestVoteReply
    BY <1>5 DEF Types, Fields
  <2> QED BY <2>1 DEF Numbered, Scalar, RequestVoteReply, RequestVoteReplyFields
<1>6. CASE msg = "InstallSnapshotRequest"
  <2>1. Fields[msg] = InstallSnapshotRequestFields /\ Types[msg] = InstallSnapshotRequest
    BY <1>6 DEF Types, Fields
  <2> QED BY <2>1 DEF Numbered, Scalar, InstallSnapshotRequest, InstallSnapshotRequestFields
<1>7. CASE msg = "InstallSnapshotResponse"
  <2>1. Fields[msg] = InstallSnapshotResponseFields /\ Types[msg] = InstallSnapshotResponse
    BY <1>7 DEF Types, Fields
  <2> QED BY <2>1 DEF Numbered, Scalar, InstallSnapshotResponse, InstallSnapshotResponseFields
<1>8. CASE msg = "GetArgs"
  <2>1. Fields[msg] = GetArgsFields /\ Types[msg] = GetArgs
    BY <1>8 DEF Types, Fields
  <2> QED BY <2>1 DEF Numbered, Scalar, GetArgs, GetArgsFields
<1>9. CASE msg = "GetReply"
  <2>1. Fields[msg] = GetReplyFields /\ Types[msg] = GetReply
    BY <1>9 DEF Types, Fields
  <2> QED BY <2>1 DEF Numbered, Scalar, GetReply, GetReplyFields
<1>10. CASE msg = "PutAppendArgs"
  <2>1. Fields[msg] = PutAppendArgsFields /\ Types[msg] = PutAppendArgs
    BY <1>10 DEF Types, Fields
  <2> QED BY <2>1 DEF Numbered, Scalar, PutAppendArgs, PutAppendArgsFields
<1>11. CASE msg = "PutAppendReply"
  <2>1. Fields[msg] = PutAppendReplyFields /\ Types[msg] = PutAppendReply
    BY <1>11 DEF Types, Fields
  <2> QED BY <2>1 DEF Numbered, Scalar, PutAppendReply, PutAppendReplyFields
<1>12. CASE msg = "RpcHeader"
  <2>1. Fields[msg] = RpcHeaderFields /\ Types[msg] = RpcHeader
    BY <1>12 DEF Types, Fields
  <2> QED BY <2>1 DEF Numbered, Scalar, RpcHeader, RpcHeaderFields
<1> QED BY <1>1, <1>2, <1>3, <1>4, <1>5, <1>6, <1>7, <1>8, <1>9, <1>10, <1>11, <1>12 DEF Types

Item(msg, n, v) == [number |-> n, wire |-> WireType(Types[msg][Fields[msg][n]]), value |-> OnWire(Types[msg][Fields[msg][n]], v)]

\* One field read behind others that do not hold it.
FieldRead(msg, m, n, V, items) ==
    LET f == Fields[msg][n]
    IN  /\ items \o FieldItems(msg, m, n) \in Seq(V)
        /\ ParseFromString(msg, items \o FieldItems(msg, m, n)) = [ParseFromString(msg, items) EXCEPT ![f] = m[f]]

LEMMA ReadScalar ==
    ASSUME NEW msg \in DOMAIN Types, NEW X, NEW m, IsMessage(msg, m, X), NEW n \in DOMAIN Fields[msg],
           Types[msg][Fields[msg][n]] # "messages",
           NEW V, FieldItems(msg, m, n) \in Seq(V), NEW items \in Seq(V),
           NEW p, p = ParseFromString(msg, items), p = [f \in DOMAIN Types[msg] |-> p[f]],
           p[Fields[msg][n]] = Zero(Types[msg][Fields[msg][n]])
    PROVE  FieldRead(msg, m, n, V, items)
<1>0. PICK f : f = Fields[msg][n]
  OBVIOUS
<1>1. f \in DOMAIN Types[msg] /\ Types[msg][f] \in Scalar
  BY <1>0, FieldsNumbered DEF Numbered
<1>2. CASE m[f] = Zero(Types[msg][f])
  <2>1. FieldItems(msg, m, n) = <<>>
    BY <1>0, <1>2 DEF FieldItems
  <2>2. items \o FieldItems(msg, m, n) = items
    BY <2>1, ConcatEmptySeq, Zenon
  <2>3. p = [p EXCEPT ![f] = m[f]]
    BY <1>0, <1>1, <1>2
  <2> QED BY <1>0, <2>2, <2>3 DEF FieldRead
<1>3. CASE m[f] # Zero(Types[msg][f])
  <2>1. PICK item : item = Item(msg, n, m[f])
    OBVIOUS
  <2>2. FieldItems(msg, m, n) = <<item>>
    BY <1>0, <1>3, <2>1 DEF FieldItems, Item
  <2>4. ReadField(msg, p, item) = [p EXCEPT ![f] = FromWire(Types[msg][f], OnWire(Types[msg][f], m[f]))]
    BY <1>0, <1>1, <2>1 DEF ReadField, Item, Scalar
  <2>5. FromWire(Types[msg][f], OnWire(Types[msg][f], m[f])) = m[f]
    <3>1. CASE Types[msg][f] = "bool"
      <4>1. m[f] = TRUE
        BY <1>1, <1>3, <3>1, Zenon DEF IsMessage, Zero
      <4>2. (1 # 0) = TRUE
        OBVIOUS
      <4>3. FromWire(Types[msg][f], OnWire(Types[msg][f], m[f])) = (1 # 0)
        BY <3>1, Zenon DEF FromWire, OnWire
      <4> QED BY <4>1, <4>2, <4>3, Zenon
    <3>2. CASE Types[msg][f] # "bool"
      BY <3>2, Zenon DEF FromWire, OnWire
    <3> QED BY <3>1, <3>2
  <2>6. ParseFromString(msg, items \o FieldItems(msg, m, n)) = ReadField(msg, p, item)
    <3>1. PICK more : more = FieldItems(msg, m, n)
      OBVIOUS
    <3>2. more \in Seq(V) /\ Len(more) = 1 /\ more[1] = item
      BY <2>2, <3>1
    <3>5. PICK all : all = items \o more /\ Behind(items, more, all)
      <4>1. Behind(items, more, items \o more)
        BY <3>2, Concatenated, Zenon
      <4> QED BY <4>1
    <3>3. PICK g : ReadsOn(msg, p, more, g) /\ ParseFromString(msg, all) = g[Len(more)]
      <4>1. ReadsBehind(msg, items, more, all)
        BY <3>5, ParseBehind
      <4> QED BY <4>1 DEF ReadsBehind
    <3>4. g[0] = p /\ g[1] = ReadField(msg, g[0], item)
      BY <3>2, <3>3 DEF ReadsOn
    <3> QED BY <3>1, <3>2, <3>3, <3>4, <3>5
  <2>7. items \o FieldItems(msg, m, n) \in Seq(V)
    BY ConcatProperties, Zenon
  <2> QED BY <1>0, <2>4, <2>5, <2>6, <2>7 DEF FieldRead
<1> QED BY <1>2, <1>3

LEMMA ReadRepeated ==
    ASSUME NEW msg \in DOMAIN Types, NEW X, NEW m, IsMessage(msg, m, X), NEW n \in DOMAIN Fields[msg],
           Types[msg][Fields[msg][n]] = "messages",
           NEW V, FieldItems(msg, m, n) \in Seq(V), NEW items \in Seq(V),
           NEW p, p = ParseFromString(msg, items), p = [f \in DOMAIN Types[msg] |-> p[f]],
           p[Fields[msg][n]] = Zero(Types[msg][Fields[msg][n]])
    PROVE  FieldRead(msg, m, n, V, items)
<1>0. PICK f, list : f = Fields[msg][n] /\ list = m[f]
  OBVIOUS
<1>1. /\ f \in DOMAIN Types[msg] /\ Types[msg][f] = "messages" /\ list \in Seq(X)
      /\ Len(list) \in Nat /\ DOMAIN list = 1 .. Len(list) /\ p[f] = <<>>
  <2>1. f \in DOMAIN Types[msg] /\ Types[msg][f] = "messages"
    BY <1>0, FieldsNumbered DEF Numbered
  <2>2. list \in Seq(X)
    BY <1>0, <2>1 DEF IsMessage
  <2> QED BY <1>0, <2>1, <2>2, LenProperties DEF Zero
<1> DEFINE more == FieldItems(msg, m, n)
<1>2. Len(more) = Len(list) /\ \A i \in 1 .. Len(list) : more[i] = Item(msg, n, list[i])
  <2>1. more = [i \in DOMAIN list |-> Item(msg, n, list[i])]
    BY <1>0, <1>1 DEF FieldItems, Item
  <2>2. more \in Seq(V) /\ DOMAIN more = 1 .. Len(list)
    BY <1>1, <2>1
  <2> HIDE DEF more
  <2>3. DOMAIN more = 1 .. Len(more) /\ Len(more) \in Nat
    BY <2>2, LenProperties
  <2>4. Len(more) = Len(list)
    BY <1>1, <2>2, <2>3
  <2> QED BY <1>1, <2>1, <2>4
<1> HIDE DEF more
<1> PICK tail : tail = more
  OBVIOUS
<1> PICK all : all = items \o tail /\ Behind(items, tail, all)
  <2>1. tail \in Seq(V)
    BY DEF more
  <2>2. Behind(items, tail, items \o tail)
    BY <2>1, Concatenated, Zenon
  <2> QED BY <2>2
<1>3. PICK g : ReadsOn(msg, p, tail, g) /\ ParseFromString(msg, all) = g[Len(tail)]
  <2>1. ReadsBehind(msg, items, tail, all)
    BY ParseBehind
  <2> QED BY <2>1 DEF ReadsBehind
<1> DEFINE after(k) == [p EXCEPT ![f] = SubSeq(list, 1, k)]
           S == {k \in Nat : k <= Len(list) => g[k] = after(k)}
<1>4. 0 \in S
  <2>1. SubSeq(list, 1, 0) = <<>>
    BY <1>1
  <2>2. after(0) = p
    BY <1>1, <2>1
  <2> HIDE DEF after
  <2> QED BY <1>3, <2>2 DEF ReadsOn
<1>5. ASSUME NEW k \in Nat, k \in S PROVE k + 1 \in S
  <2> SUFFICES ASSUME k + 1 <= Len(list) PROVE g[k + 1] = after(k + 1)
    OBVIOUS
  <2>1. g[k] = after(k) /\ k + 1 \in 1 .. Len(list) /\ (k + 1) - 1 = k
    BY <1>1, <1>5
  <2>2. PICK item : item = Item(msg, n, list[k + 1])
    OBVIOUS
  <2>3. g[k + 1] = ReadField(msg, g[k], item)
    <3> HIDE DEF after
    <3> QED BY <1>2, <1>3, <2>1, <2>2 DEF ReadsOn
  <2>4. ReadField(msg, after(k), item) = [after(k) EXCEPT ![f] = Append(after(k)[f], list[k + 1])]
    <3> HIDE DEF after
    <3>1. item.number = n /\ item.wire = WireType("messages") /\ item.value = list[k + 1]
      BY <1>0, <1>1, <2>2 DEF Item, OnWire
    <3> QED BY <1>0, <1>1, <3>1 DEF ReadField
  <2>5. after(k)[f] = SubSeq(list, 1, k)
    BY <1>1
  <2>6. Append(SubSeq(list, 1, k), list[k + 1]) = SubSeq(list, 1, k + 1)
    BY <1>1, <2>1
  <2> QED BY <1>1, <2>1, <2>3, <2>4, <2>5, <2>6
<1>6. g[Len(list)] = after(Len(list))
  <2> HIDE DEF S, after
  <2>1. Len(list) \in S
    BY <1>1, <1>4, <1>5, Induction
  <2> QED BY <1>1, <2>1 DEF S
<1>7. after(Len(list)) = [p EXCEPT ![f] = list]
  <2>1. SubSeq(list, 1, Len(list)) = list
    BY <1>1
  <2> QED BY <2>1
<1>8. items \o FieldItems(msg, m, n) \in Seq(V)
  BY ConcatProperties, Zenon
<1> HIDE DEF after
<1> QED BY <1>0, <1>2, <1>3, <1>6, <1>7, <1>8 DEF FieldRead, more

LEMMA FieldReads ==
    ASSUME NEW msg \in DOMAIN Types, NEW X, NEW m, IsMessage(msg, m, X), NEW n \in DOMAIN Fields[msg],
           NEW V, FieldItems(msg, m, n) \in Seq(V), NEW items \in Seq(V),
           NEW p, p = ParseFromString(msg, items), p = [f \in DOMAIN Types[msg] |-> p[f]],
           p[Fields[msg][n]] = Zero(Types[msg][Fields[msg][n]])
    PROVE  FieldRead(msg, m, n, V, items)
<1>1. CASE Types[msg][Fields[msg][n]] = "messages"
  BY <1>1, ReadRepeated
<1>2. CASE Types[msg][Fields[msg][n]] # "messages"
  BY <1>2, ReadScalar
<1> QED BY <1>1, <1>2

LEMMA FieldItemsAreListed ==
    ASSUME NEW msg \in DOMAIN Types, NEW X, NEW m, IsMessage(msg, m, X), NEW n \in DOMAIN Fields[msg]
    PROVE  \E L \in Nat : FieldItems(msg, m, n) = [i \in 1 .. L |-> FieldItems(msg, m, n)[i]]
<1>0. PICK f : f = Fields[msg][n] /\ f \in DOMAIN Types[msg]
  BY FieldsNumbered DEF Numbered
<1>1. CASE Types[msg][f] = "messages"
  <2>1. m[f] \in Seq(X)
    BY <1>0, <1>1 DEF IsMessage
  <2>2. Len(m[f]) \in Nat /\ DOMAIN m[f] = 1 .. Len(m[f])
    BY <2>1, LenProperties
  <2>3. FieldItems(msg, m, n) = [i \in DOMAIN m[f] |-> Item(msg, n, m[f][i])]
    BY <1>0, <1>1 DEF FieldItems, Item
  <2> QED BY <2>2, <2>3
<1>2. CASE Types[msg][f] # "messages" /\ m[f] = Zero(Types[msg][f])
  <2>1. FieldItems(msg, m, n) = <<>>
    BY <1>0, <1>2 DEF FieldItems
  <2>2. <<>> = [i \in 1 .. 0 |-> <<>>[i]]
    OBVIOUS
  <2> QED BY <2>1, <2>2
<1>3. CASE Types[msg][f] # "messages" /\ m[f] # Zero(Types[msg][f])
  <2>1. PICK item : FieldItems(msg, m, n) = <<item>>
    BY <1>0, <1>3 DEF FieldItems
  <2>2. <<item>> = [i \in 1 .. 1 |-> <<item>>[i]]
    OBVIOUS
  <2> QED BY <2>1, <2>2
<1> QED BY <1>1, <1>2, <1>3

\* A message parsed from what it was serialized to is the message, for every
\* kind of message and whatever its fields hold: what the RPC stubs rely on.
THEOREM ParseUndoesSerialize ==
    ASSUME NEW msg \in DOMAIN Types, NEW X, NEW m, IsMessage(msg, m, X)
    PROVE  ParseFromString(msg, SerializeToString(msg, m)) = m
<1>0. PICK N \in Nat \ {0} : N = Len(Fields[msg]) /\ DOMAIN Fields[msg] = 1 .. N
  BY FieldsNumbered DEF Numbered
<1>1. PICK seqs : seqs = [n \in 1 .. N |-> FieldItems(msg, m, n)]
  OBVIOUS
<1>2. SerializeToString(msg, m) = FlattenSeq(seqs)
  BY <1>0, <1>1 DEF SerializeToString
<1>3. PICK V : \A n \in 1 .. N : \A i \in DOMAIN seqs[n] : seqs[n][i] \in V
  <2>1. \A n \in 1 .. N : \A i \in DOMAIN seqs[n] :
            seqs[n][i] \in UNION {{seqs[k][j] : j \in DOMAIN seqs[k]} : k \in 1 .. N}
    OBVIOUS
  <2> QED BY <2>1
<1>4. ASSUME NEW n \in 1 .. N PROVE seqs[n] \in Seq(V) /\ seqs[n] = FieldItems(msg, m, n)
  <2>1. seqs[n] = FieldItems(msg, m, n)
    BY <1>1
  <2>2. PICK s : s = seqs[n]
    OBVIOUS
  <2>3. PICK L \in Nat : s = [i \in 1 .. L |-> s[i]]
    BY <1>0, <2>1, <2>2, FieldItemsAreListed
  <2>4. \A i \in 1 .. L : s[i] \in V
    BY <1>3, <2>2, <2>3
  <2>5. s \in Seq(V)
    BY <2>3, <2>4
  <2> QED BY <2>1, <2>2, <2>5
<1>5. Len(seqs) = N
  BY <1>1
<1>6. PICK f : Flattening(seqs, f)
  BY <1>0, <1>5, Flattened
<1> DEFINE partial(n) == [g \in DOMAIN Types[msg] |->
                              IF \E i \in 1 .. n : Fields[msg][i] = g THEN m[g] ELSE Zero(Types[msg][g])]
           P(n) == f[n] \in Seq(V) /\ ParseFromString(msg, f[n]) = partial(n)
<1>7. ASSUME NEW n \in Nat, n + 1 \in 1 .. N, NEW items \in Seq(V), ParseFromString(msg, items) = partial(n),
             f[n + 1] = items \o seqs[n + 1]
      PROVE  P(n + 1)
  <2>1. PICK p, h : p = partial(n) /\ h = Fields[msg][n + 1]
    OBVIOUS
  <2>2. h \in DOMAIN Types[msg] /\ \A i \in 1 .. N : Fields[msg][i] = h => i = n + 1
    BY <1>0, <1>7, <2>1, FieldsNumbered DEF Numbered
  <2>3. p[h] = Zero(Types[msg][h]) /\ p = [g \in DOMAIN Types[msg] |-> p[g]]
    <3>1. ~ \E i \in 1 .. n : Fields[msg][i] = h
      BY <1>0, <1>7, <2>2
    <3> QED BY <2>1, <2>2, <3>1
  <2>4. partial(n + 1) = [p EXCEPT ![h] = m[h]]
    <3>1. \A g : (\E i \in 1 .. n + 1 : Fields[msg][i] = g) <=> g = h \/ \E i \in 1 .. n : Fields[msg][i] = g
      BY <1>0, <1>7, <2>1
    <3> QED BY <2>1, <2>2, <3>1
  <2> HIDE DEF partial
  <2>5. FieldRead(msg, m, n + 1, V, items)
    BY <1>0, <1>4, <1>7, <2>1, <2>3, FieldReads
  <2> QED BY <1>4, <1>7, <2>1, <2>4, <2>5 DEF FieldRead
<1> DEFINE S == {n \in Nat : n \in 1 .. N => P(n)}
<1>8. 0 \in S
  OBVIOUS
<1>9. ASSUME NEW n \in Nat, n \in S PROVE n + 1 \in S
  <2> SUFFICES ASSUME n + 1 \in 1 .. N PROVE P(n + 1)
    OBVIOUS
  <2>1. CASE n = 0
    <3>1. f[1] = <<>> \o seqs[1]
      <4>1. seqs[1] \in Seq(V)
        BY <1>0, <1>4
      <4>2. <<>> \o seqs[1] = seqs[1]
        BY <4>1, ConcatEmptySeq, Zenon
      <4> QED BY <1>6, <4>2 DEF Flattening
    <3>2. ParseFromString(msg, <<>>) = partial(0)
      <4>1. Default(msg) = partial(0)
        BY DEF Default
      <4> HIDE DEF partial
      <4> QED BY <4>1, ParseNothing, Zenon
    <3>3. PICK items : items = <<>>
      OBVIOUS
    <3>4. items \in Seq(V)
      BY <3>3, EmptySeq, Zenon
    <3>5. ParseFromString(msg, items) = partial(0)
      <4> HIDE DEF partial
      <4> QED BY <3>2, <3>3, Zenon
    <3>6. f[1] = items \o seqs[1]
      BY <3>1, <3>3, Zenon
    <3>7. 0 + 1 = 1
      OBVIOUS
    <3> HIDE DEF P, partial
    <3> QED BY <1>7, <2>1, <3>4, <3>5, <3>6, <3>7
  <2>2. CASE n # 0
    <3>1. n \in 1 .. N /\ n + 1 \in 2 .. Len(seqs) /\ (n + 1) - 1 = n
      BY <1>5, <2>2
    <3>2. f[n] \in Seq(V) /\ ParseFromString(msg, f[n]) = partial(n)
      BY <1>9, <3>1
    <3>3. f[n + 1] = f[n] \o seqs[n + 1]
      BY <1>6, <3>1 DEF Flattening
    <3>4. PICK items : items = f[n]
      OBVIOUS
    <3> HIDE DEF P, partial
    <3> QED BY <1>7, <3>2, <3>3, <3>4
  <2> QED BY <2>1, <2>2
<1>10. P(N)
  <2> HIDE DEF S, P
  <2>1. N \in S
    BY <1>8, <1>9, Induction
  <2> QED BY <2>1 DEF S
<1>11. partial(N) = m
  <2>1. \A g \in DOMAIN Types[msg] : \E i \in 1 .. N : Fields[msg][i] = g
    BY <1>0, FieldsNumbered DEF Numbered
  <2> QED BY <2>1 DEF IsMessage
<1> HIDE DEF partial
<1> QED BY <1>2, <1>5, <1>6, <1>10, <1>11 DEF Flattening

---------------------------------------------------------------------------
(* The invariants.                                                         *)

Unit == UNION {{Request[t][i] : i \in DOMAIN Request[t]} : t \in Thread}
Wired == [number : Nat, wire : {"varint", "length", "torn"}, value : Int]
Endings == {"failed", "eof", "reply", "garbled"}

TypeInv ==
    /\ m_clientFd \in 0 .. made /\ made \in 0 .. MaxConns
    /\ pc \in [Thread -> {"idle", "connect", "send", "recv", "wait", "done"}]
    /\ fd \in [Thread -> 0 .. made]
    /\ \A t \in Thread : pc[t] = "wait" => fd[t] # NoConn
    /\ result = [t \in Thread |-> result[t]]
    /\ \A t \in Thread : pc[t] = "done" =>
            /\ result[t].how \in Endings
            /\ DOMAIN result[t].msg = DOMAIN Types[ReplyType(t)]
    /\ faults \in 0 .. MaxFaults /\ peerTerm \in Nat \ {0}
    /\ state \in [Conn -> {"open", "closed", "reset"}]
    /\ serving \in [Conn -> Thread \cup {"none"}]
    /\ overlapped \subseteq Thread /\ unserved \subseteq Thread /\ cut \subseteq Conn
    /\ toServer \in [Conn -> Seq(Unit)]
    /\ toClient \in [Conn -> Seq(Seq(Wired))]
    /\ served = [t \in Thread |-> served[t]]

Terms == {reply.Term : reply \in UNION {served[u] : u \in Thread}}
Carrying(T) == {item \in Wired : item.number = 1 => item.value \in T}

\* Every term on its way to a caller, or with it, is one the peer answered with.
TermInv ==
    /\ \A c \in Conn : \A i \in 1 .. Len(toClient[c]) : toClient[c][i] \in Seq(Carrying(Terms))
    /\ TermIsReal

\* There is nothing on the way to the peer on a connection that is not open, and
\* nothing at all on one that was not made.
Connections ==
    \A c \in Conn :
        /\ c > made => toClient[c] = <<>>
        /\ c > made \/ state[c] # "open" => toServer[c] = <<>> /\ serving[c] = "none"

Headers(units) == {i \in 1 .. Len(units) : "header" \in DOMAIN units[i]}
Askers(units) == {units[i].caller : i \in Headers(units)}
AsksOnce(units) == \A i, j \in Headers(units) : units[i].caller = units[j].caller => i = j

\* A call is sent once.
SentOnce ==
    \A c \in Conn :
        /\ AsksOnce(toServer[c])
        /\ \A t \in Askers(toServer[c]) : pc[t] \in {"recv", "wait", "done"}

Busy(c) == IF serving[c] = "none" THEN 0 ELSE 1
Waiting(c) == {t \in Thread : pc[t] = "recv" \/ (pc[t] = "wait" /\ fd[t] = c)}

\* Of the calls on the channel's connection, no more are on their way, at the
\* peer or on the way back than threads wait for: who comes when nobody waits
\* finds the connection empty.  (Unless a recv ended inside a reply: the rest of
\* it is still there and nobody waits for it.)
Counted ==
    m_clientFd # NoConn /\ m_clientFd \notin cut =>
        Cardinality(Askers(toServer[m_clientFd])) + Busy(m_clientFd) + Len(toClient[m_clientFd])
            <= Cardinality(Waiting(m_clientFd))

\* What one of these replies of t's handler travels as.
Carries(t, bytes, replies) == \E reply \in replies : bytes = SerializeToString(ReplyType(t), reply)

\* While a call has the channel to itself, what is on its connection is its own,
\* with the same exception.
Alone ==
    \A t \in Active \ overlapped :
        /\ Active = {t}
        /\ pc[t] = "wait" => m_clientFd = fd[t]
        /\ pc[t] \in {"recv", "wait"} /\ m_clientFd # NoConn /\ m_clientFd \notin cut =>
                /\ Askers(toServer[m_clientFd]) \subseteq {t}
                /\ serving[m_clientFd] \in {"none", t}
                /\ \A i \in 1 .. Len(toClient[m_clientFd]) : Carries(t, toClient[m_clientFd][i], served[t])

\* What the handlers answered are messages of the method's reply type.
ServedTyped == \A t \in Thread : \A reply \in served[t] : \E term \in Nat \ {0} : reply \in Replies(t, term)

---------------------------------------------------------------------------
(* Requests and replies.                                                   *)

LEMMA MessageKinds ==
    ASSUME NEW t \in Thread
    PROVE  /\ ReplyType(t) \in DOMAIN Types /\ ReplyType(t) \in RaftReply
           /\ Default(ReplyType(t)).Term = 0
           /\ DOMAIN Default(ReplyType(t)) = DOMAIN Types[ReplyType(t)]
           /\ ArgsType(t) \in DOMAIN Types
<1>1. MethodOf[t] \in {"AppendEntries", "InstallSnapshot", "RequestVote"}
  BY MethodsAssumption DEF raftRpc
<1>2. ReplyType(t) \in {"AppendEntriesReply", "InstallSnapshotResponse", "RequestVoteReply"}
  BY <1>1 DEF ReplyType, raftRpc
<1>3. ArgsType(t) \in {"AppendEntriesArgs", "InstallSnapshotRequest", "RequestVoteArgs"}
  BY <1>1 DEF ArgsType, raftRpc
<1>4. Types[ReplyType(t)]["Term"] = "int32" /\ "Term" \in DOMAIN Types[ReplyType(t)]
  BY <1>2 DEF Types, AppendEntriesReply, InstallSnapshotResponse, RequestVoteReply
<1>5. Default(ReplyType(t)).Term = 0
  BY <1>4 DEF Default, Zero
<1> QED BY <1>2, <1>3, <1>5 DEF Types, RaftReply, Default

\* A reply has the fields of its type, each of the type it has on the wire.
LEMMA RepliesAreMessages ==
    ASSUME NEW t \in Thread, NEW term \in Nat, NEW reply \in Replies(t, term)
    PROVE  /\ IsMessage(ReplyType(t), reply, {})
           /\ \A f \in DOMAIN Types[ReplyType(t)] :
                  Types[ReplyType(t)][f] = "bool" \/ (Types[ReplyType(t)][f] = "int32" /\ reply[f] \in Int)
<1>1. CASE MethodOf[t] = "AppendEntries"
  <2>1. Types[ReplyType(t)] = AppendEntriesReply
    BY <1>1 DEF ReplyType, raftRpc, Types
  <2>2. PICK b \in BOOLEAN, hint \in {-100, 0} :
            reply = [Term |-> term, Success |-> b, UpdateNextIndex |-> hint, AppState |-> 1]
    BY <1>1 DEF Replies
  <2> QED BY <2>1, <2>2 DEF IsMessage, AppendEntriesReply
<1>2. CASE MethodOf[t] = "RequestVote"
  <2>1. Types[ReplyType(t)] = RequestVoteReply
    BY <1>2 DEF ReplyType, raftRpc, Types
  <2>2. PICK b \in BOOLEAN, s \in {1, 3} : reply = [Term |-> term, VoteGranted |-> b, VoteState |-> s]
    BY <1>2 DEF Replies
  <2> QED BY <2>1, <2>2 DEF IsMessage, RequestVoteReply
<1>3. CASE MethodOf[t] = "InstallSnapshot"
  <2>1. Types[ReplyType(t)] = InstallSnapshotResponse
    BY <1>3 DEF ReplyType, raftRpc, Types
  <2>2. PICK n \in {0, term} : reply = [Term |-> n]
    BY <1>3 DEF Replies
  <2> QED BY <2>1, <2>2 DEF IsMessage, InstallSnapshotResponse
<1> QED BY <1>1, <1>2, <1>3, MethodsAssumption DEF raftRpc

LEMMA NoneOrOne ==
    ASSUME NEW V, NEW item \in V, NEW s, s = <<>> \/ s = <<item>>
    PROVE  s \in Seq(V)
<1>1. <<>> \in Seq(V)
  BY EmptySeq, Zenon
<1>2. <<item>> \in Seq(V)
  OBVIOUS
<1> QED BY <1>1, <1>2, Zenon

LEMMA ListIsSeq ==
    ASSUME NEW V, NEW N \in Nat, NEW s, s = [i \in 1 .. N |-> s[i]], \A i \in 1 .. N : s[i] \in V
    PROVE  s \in Seq(V)
  OBVIOUS

\* What a reply travels as carries its own term and no other.
LEMMA ReplyCarriesTerm ==
    ASSUME NEW t \in Thread, NEW term \in Nat, NEW reply \in Replies(t, term)
    PROVE  SerializeToString(ReplyType(t), reply) \in Seq(Carrying({reply.Term}))
<1>0. PICK msg \in DOMAIN Types : msg = ReplyType(t) /\ msg \in RaftReply
  BY MessageKinds
<1>1. Numbered(msg)
  BY <1>0, FieldsNumbered
<1>2. Fields[msg][1] = "Term"
  BY <1>0 DEF RaftReply, Fields, AppendEntriesReplyFields, RequestVoteReplyFields, InstallSnapshotResponseFields
<1> DEFINE C == Carrying({reply.Term})
<1> HIDE DEF C
<1>3. ASSUME NEW n \in DOMAIN Fields[msg] PROVE FieldItems(msg, reply, n) \in Seq(C)
  <2>0. PICK f : f = Fields[msg][n] /\ f \in DOMAIN Types[msg] /\ n \in Nat
    BY <1>1 DEF Numbered
  <2>1. Types[msg][f] = "bool" \/ (Types[msg][f] = "int32" /\ reply[f] \in Int)
    BY <1>0, <2>0, RepliesAreMessages
  <2>2. PICK item : item = [number |-> n, wire |-> WireType(Types[msg][f]), value |-> OnWire(Types[msg][f], reply[f])]
    OBVIOUS
  <2>3. item \in Wired
    BY <2>0, <2>1, <2>2 DEF Wired, WireType, OnWire
  <2>4. item.number = 1 => item.value = reply.Term
    <3>1. "Term" \in DOMAIN Types[msg] /\ Types[msg]["Term"] = "int32"
      BY <1>0 DEF RaftReply, Types, AppendEntriesReply, InstallSnapshotResponse, RequestVoteReply
    <3>2. n = 1 => f = "Term"
      BY <1>2, <2>0
    <3> QED BY <2>2, <3>1, <3>2, Zenon DEF OnWire
  <2>5. item \in C
    BY <2>3, <2>4 DEF Carrying, C
  <2>6. FieldItems(msg, reply, n) = <<>> \/ FieldItems(msg, reply, n) = <<item>>
    BY <2>0, <2>1, <2>2 DEF FieldItems
  <2> QED BY <2>5, <2>6, NoneOrOne
<1> DEFINE parts == [n \in DOMAIN Fields[msg] |-> FieldItems(msg, reply, n)]
<1>4. parts \in Seq(Seq(C))
  <2>1. PICK N \in Nat : DOMAIN Fields[msg] = 1 .. N
    BY <1>1 DEF Numbered
  <2>2. parts = [n \in 1 .. N |-> parts[n]] /\ \A n \in 1 .. N : parts[n] \in Seq(C)
    BY <1>3, <2>1
  <2> HIDE DEF parts
  <2> QED BY <2>2, ListIsSeq
<1>5. SerializeToString(msg, reply) = FlattenSeq(parts)
  BY DEF SerializeToString
<1> HIDE DEF parts
<1> QED BY <1>0, <1>4, <1>5, FlattenTypes DEF C

LEMMA SerializedArgs ==
    ASSUME NEW t \in Thread
    PROVE  \E L \in Nat : \E args : /\ args = [i \in 1 .. L |-> args[i]]
                                 /\ SerializeToString(ArgsType(t), Args(t)) = args
<1>0. PICK msg \in DOMAIN Types : msg = ArgsType(t)
  BY MessageKinds
<1>1. Numbered(msg)
  BY FieldsNumbered
<1>2. PICK N \in Nat : N > 0 /\ DOMAIN Fields[msg] = 1 .. N
  BY <1>1 DEF Numbered
<1>3. PICK m : m = Args(t)
  OBVIOUS
<1>4. IsMessage(msg, m, {})
  <2>1. m = [Default(msg) EXCEPT !.Term = TermOf[t]]
    BY <1>0, <1>3 DEF Args
  <2>2. Types[msg]["Term"] = "int32"
    <3>1. MethodOf[t] \in {"AppendEntries", "InstallSnapshot", "RequestVote"}
      BY MethodsAssumption DEF raftRpc
    <3>2. ArgsType(t) \in {"AppendEntriesArgs", "InstallSnapshotRequest", "RequestVoteArgs"}
      BY <3>1 DEF ArgsType, raftRpc
    <3> QED BY <1>0, <3>2 DEF Types, AppendEntriesArgs, InstallSnapshotRequest, RequestVoteArgs
  <2>3. \A f \in DOMAIN Types[msg] : f # "Term" => m[f] = Zero(Types[msg][f])
    BY <2>1 DEF Default
  <2>4. m = [f \in DOMAIN Types[msg] |-> m[f]]
    BY <2>1 DEF Default
  <2>5. Zero("bool") \in BOOLEAN /\ Zero("messages") = <<>>
    BY Zenon DEF Zero
  <2>6. <<>> \in Seq({})
    BY EmptySeq, Zenon
  <2>7. ASSUME NEW f \in DOMAIN Types[msg], f # "Term"
        PROVE  /\ Types[msg][f] = "bool" => m[f] \in BOOLEAN
               /\ Types[msg][f] = "messages" => m[f] \in Seq({})
    BY <2>3, <2>5, <2>6, <2>7, Zenon
  <2> QED BY <2>2, <2>4, <2>7 DEF IsMessage
<1>5. PICK V : \A n \in 1 .. N : \A i \in DOMAIN FieldItems(msg, m, n) : FieldItems(msg, m, n)[i] \in V
  <2>1. \A n \in 1 .. N : \A i \in DOMAIN FieldItems(msg, m, n) :
            FieldItems(msg, m, n)[i] \in UNION {{FieldItems(msg, m, k)[j] : j \in DOMAIN FieldItems(msg, m, k)} : k \in 1 .. N}
    OBVIOUS
  <2> QED BY <2>1
<1>6. ASSUME NEW n \in 1 .. N PROVE FieldItems(msg, m, n) \in Seq(V)
  <2>1. PICK s : s = FieldItems(msg, m, n)
    OBVIOUS
  <2>2. PICK L \in Nat : s = [i \in 1 .. L |-> s[i]]
    BY <1>2, <1>4, <2>1, FieldItemsAreListed
  <2>3. \A i \in 1 .. L : s[i] \in V
    BY <1>5, <2>1, <2>2
  <2> QED BY <2>1, <2>2, <2>3
<1> DEFINE parts == [n \in DOMAIN Fields[msg] |-> FieldItems(msg, m, n)]
<1>7. parts \in Seq(Seq(V))
  BY <1>2, <1>6
<1>8. SerializeToString(msg, m) = FlattenSeq(parts)
  BY DEF SerializeToString
<1> HIDE DEF parts
<1>9. PICK args : args \in Seq(V) /\ SerializeToString(msg, m) = args
  BY <1>7, <1>8, FlattenTypes
<1>10. Len(args) \in Nat /\ args = [i \in 1 .. Len(args) |-> args[i]]
  BY <1>9
<1> QED BY <1>0, <1>3, <1>9, <1>10

\* A request is a header and what follows it, all of one caller.
LEMMA RequestUnits ==
    ASSUME NEW t \in Thread
    PROVE  /\ Request[t] \in Seq(Unit) /\ Len(Request[t]) > 0
           /\ \A i \in 1 .. Len(Request[t]) : Request[t][i].caller = t
           /\ Headers(Request[t]) = {1}
<1>0. PICK L \in Nat : \E args : /\ args = [i \in 1 .. L |-> args[i]]
                                  /\ SerializeToString(ArgsType(t), Args(t)) = args
  BY SerializedArgs
<1>1. PICK args : /\ args = [i \in 1 .. L |-> args[i]]
                  /\ SerializeToString(ArgsType(t), Args(t)) = args
  BY <1>0
<1>2. PICK first, rest :
          /\ Request[t] = <<first>> \o rest
          /\ first.caller = t /\ "header" \in DOMAIN first
          /\ rest = [i \in DOMAIN args |-> [caller |-> t, arg |-> args[i]]]
  <2>1. PICK h : h = SerializeToString("RpcHeader",
                        [service_name |-> "raftRpc", method_name |-> MethodOf[t], args_size |-> Len(args)])
    OBVIOUS
  <2>2. Request[t] = <<[caller |-> t, header |-> h]>> \o [i \in DOMAIN args |-> [caller |-> t, arg |-> args[i]]]
    BY <1>1, <2>1 DEF Request
  <2>3. PICK first : first = [caller |-> t, header |-> h]
    OBVIOUS
  <2>4. PICK rest : rest = [i \in DOMAIN args |-> [caller |-> t, arg |-> args[i]]]
    OBVIOUS
  <2>5. Request[t] = <<first>> \o rest
    BY <2>2, <2>3, <2>4, Zenon
  <2>6. first.caller = t /\ "header" \in DOMAIN first
    BY <2>3
  <2> QED BY <2>4, <2>5, <2>6
<1>3. PICK V : first \in V /\ \A i \in 1 .. L : rest[i] \in V
  <2>1. first \in {first} \cup {rest[i] : i \in 1 .. L} /\ \A i \in 1 .. L : rest[i] \in {first} \cup {rest[k] : k \in 1 .. L}
    OBVIOUS
  <2> QED BY <2>1
<1>4. PICK one : one = <<first>>
  OBVIOUS
<1>5. one \in Seq(V) /\ Len(one) = 1 /\ one[1] = first /\ rest \in Seq(V) /\ Len(rest) = L
  <2>1. one \in Seq(V) /\ Len(one) = 1 /\ one[1] = first
    BY <1>3, <1>4
  <2>2. DOMAIN args = 1 .. L
    BY <1>1
  <2>3. rest = [i \in 1 .. L |-> [caller |-> t, arg |-> args[i]]]
    BY <1>2, <2>2
  <2>4. rest \in Seq(V) /\ Len(rest) = L
    BY <1>3, <2>3
  <2> QED BY <2>1, <2>4
<1>6. PICK r : r = Request[t] /\ r = one \o rest
  BY <1>2, <1>4
<1>7. r \in Seq(V) /\ Behind(one, rest, r)
  BY <1>5, <1>6, Concatenated, ConcatProperties
<1>8. Len(r) = L + 1 /\ r[1] = first /\ \A i \in 2 .. L + 1 : r[i] = rest[i - 1]
  <2>1. Len(r) = 1 + L /\ r[1] = first /\ \A k \in 1 .. L : r[1 + k] = rest[k]
    BY <1>5, <1>7 DEF Behind
  <2>2. \A i \in 2 .. L + 1 : i - 1 \in 1 .. L /\ 1 + (i - 1) = i
    OBVIOUS
  <2> QED BY <2>1, <2>2
<1>9. \A i \in 2 .. L + 1 : r[i].caller = t /\ "header" \notin DOMAIN r[i]
  <2>1. \A k \in 1 .. L : rest[k].caller = t /\ "header" \notin DOMAIN rest[k]
    BY <1>1, <1>2
  <2>2. \A i \in 2 .. L + 1 : i - 1 \in 1 .. L
    OBVIOUS
  <2> QED BY <1>8, <2>1, <2>2
<1>10. \A i \in 1 .. Len(r) : r[i].caller = t
  BY <1>2, <1>8, <1>9
<1>11. Headers(r) = {1}
  BY <1>2, <1>8, <1>9 DEF Headers
<1>12. r \in Seq(Unit)
  <2>1. \A i \in DOMAIN r : r[i] \in Unit
    <3> SUFFICES ASSUME NEW i \in DOMAIN Request[t] PROVE Request[t][i] \in Unit
      BY <1>6
    <3>1. PICK of : of = [u \in Thread |-> {Request[u][j] : j \in DOMAIN Request[u]}]
      OBVIOUS
    <3>2. Unit = UNION {of[u] : u \in Thread}
      BY <3>1 DEF Unit
    <3>3. Request[t][i] \in of[t]
      BY <3>1
    <3> QED BY <3>2, <3>3
  <2>2. r = [i \in 1 .. L + 1 |-> r[i]] /\ L + 1 \in Nat
    BY <1>7, <1>8
  <2> QED BY <2>1, <2>2
<1> QED BY <1>6, <1>8, <1>10, <1>11, <1>12
---------------------------------------------------------------------------
(* Queues.                                                                 *)

LEMMA Taken ==
    ASSUME NEW V, NEW s \in Seq(V), NEW n \in 1 .. Len(s)
    PROVE  /\ SubSeq(s, n + 1, Len(s)) \in Seq(V) /\ Len(SubSeq(s, n + 1, Len(s))) = Len(s) - n
           /\ \A i \in 1 .. Len(s) - n : SubSeq(s, n + 1, Len(s))[i] = s[n + i]
           /\ SubSeq(s, 1, n) \in Seq(V) /\ Len(SubSeq(s, 1, n)) = n
           /\ \A i \in 1 .. n : SubSeq(s, 1, n)[i] = s[i]
  BY LenProperties

\* The first n of the answers on the way to thread t are parsed as its response.
Receives(t, n) ==
    LET bytes == FlattenSeq(SubSeq(toClient[fd[t]], 1, n))
    IN  /\ Parse(t, bytes)
        /\ toClient' = [toClient EXCEPT ![fd[t]] = SubSeq(@, n + 1, Len(@))]

LEMMA ReceiveTakes ==
    ASSUME NEW t, Receive(t)
    PROVE  /\ pc[t] = "wait" /\ \E n \in 1 .. Len(toClient[fd[t]]) : Receives(t, n)
           /\ UNCHANGED <<m_clientFd, fd, overlapped, made, state, toServer, faults, cut, peerVars>>
  BY DEF Receive, Receives, Arriving

\* What is left of a reply after its first k fields, or of the field behind them.
Left(reply, k, inField) == (IF inField THEN <<Torn>> ELSE <<reply[k + 1]>>) \o SubSeq(reply, k + 2, Len(reply))

\* A recv of thread t ends inside the n-th answer, behind its first k fields.
CutAt(t, n, inField, k) ==
    LET reply == toClient[fd[t]][n]
        before == FlattenSeq(SubSeq(toClient[fd[t]], 1, n - 1))
    IN  /\ IF inField THEN Fails(t) ELSE Parse(t, before \o SubSeq(reply, 1, k))
        /\ toClient' = [toClient EXCEPT ![fd[t]] = <<Left(reply, k, inField)>> \o SubSeq(@, n + 1, Len(@))]

LEMMA ReceiveCutTakes ==
    ASSUME NEW t, ReceiveCut(t)
    PROVE  /\ pc[t] = "wait" /\ cut' = cut \cup {fd[t]}
           /\ \E n \in 1 .. Len(toClient[fd[t]]), inField \in BOOLEAN :
                  \E k \in (IF inField THEN 0 ELSE 1) .. Len(toClient[fd[t]][n]) - 1 : CutAt(t, n, inField, k)
           /\ UNCHANGED <<m_clientFd, fd, overlapped, made, state, toServer, faults, peerVars>>
  BY DEF ReceiveCut, CutAt, Left, Arriving

\* How a call ends whose response is parsed from the bytes.
LEMMA Parses ==
    ASSUME NEW t \in Thread, NEW bytes, Len(bytes) \in Nat, Parse(t, bytes)
    PROVE  \E how, msg :
              /\ how \in Endings
              /\ Return(t, how, msg) /\ DOMAIN msg = DOMAIN Types[ReplyType(t)]
              /\ \/ how = "reply" /\ msg = ParseFromString(ReplyType(t), bytes)
                 \/ how = "failed" /\ msg = Default(ReplyType(t))
                 \/ how = "garbled"
<1>1. CASE Return(t, "reply", ParseFromString(ReplyType(t), bytes))
  <2>1. DOMAIN ParseFromString(ReplyType(t), bytes) = DOMAIN Types[ReplyType(t)]
    BY ParsedFields
  <2> QED BY <1>1, <2>1 DEF Endings
<1>2. CASE Fails(t)
  BY <1>2, MessageKinds DEF Fails, Endings
<1>3. CASE \E msg \in Garbled(ReplyType(t)) : Return(t, "garbled", msg)
  <2>1. PICK msg \in Garbled(ReplyType(t)) : Return(t, "garbled", msg)
    BY <1>3
  <2>2. DOMAIN msg = DOMAIN Types[ReplyType(t)]
    BY DEF Garbled
  <2> QED BY <2>1, <2>2 DEF Endings
<1> QED BY <1>1, <1>2, <1>3 DEF Parse

\* What a cut leaves is made of the items that were there, and the torn one.
LEMMA CutLeaves ==
    ASSUME NEW V, Torn \in V, NEW s \in Seq(Seq(V)), NEW n \in 1 .. Len(s), NEW inField \in BOOLEAN,
           NEW k \in (IF inField THEN 0 ELSE 1) .. Len(s[n]) - 1
    PROVE  /\ <<Left(s[n], k, inField)>> \o SubSeq(s, n + 1, Len(s)) \in Seq(Seq(V))
           /\ FlattenSeq(SubSeq(s, 1, n - 1)) \o SubSeq(s[n], 1, k) \in Seq(V)
<1>1. PICK reply \in Seq(V) : reply = s[n] /\ Len(reply) \in Nat
  BY ElementOfSeq, LenProperties
<1>2. k \in 0 .. Len(reply) - 1 /\ k + 1 \in 1 .. Len(reply)
  BY <1>1
<1>3. PICK first : first = IF inField THEN Torn ELSE reply[k + 1]
  OBVIOUS
<1>4. first \in V
  BY <1>1, <1>2, <1>3, ElementOfSeq
<1>5. PICK rest : rest = SubSeq(reply, k + 2, Len(reply))
  OBVIOUS
<1>6. rest \in Seq(V)
  <2>1. k + 1 \in 1 .. Len(reply) /\ (k + 1) + 1 = k + 2
    BY <1>2
  <2>2. SubSeq(reply, (k + 1) + 1, Len(reply)) \in Seq(V)
    BY <1>1, <2>1, Taken
  <2> QED BY <1>5, <2>1, <2>2
<1>7. PICK left : left = Left(s[n], k, inField)
  OBVIOUS
<1>8. left \in Seq(V)
  <2>1. left = <<first>> \o rest
    BY <1>1, <1>3, <1>5, <1>7 DEF Left
  <2>2. <<first>> \in Seq(V)
    BY <1>4
  <2> QED BY <1>6, <2>1, <2>2, ConcatProperties
<1>9. <<left>> \o SubSeq(s, n + 1, Len(s)) \in Seq(Seq(V))
  <2>1. SubSeq(s, n + 1, Len(s)) \in Seq(Seq(V))
    BY Taken
  <2>2. <<left>> \in Seq(Seq(V))
    BY <1>8
  <2> QED BY <2>1, <2>2, ConcatProperties
<1>10. FlattenSeq(SubSeq(s, 1, n - 1)) \in Seq(V)
  <2>1. SubSeq(s, 1, n - 1) \in Seq(Seq(V))
    BY LenProperties
  <2> QED BY <2>1, FlattenTypes
<1>11. SubSeq(reply, 1, k) \in Seq(V)
  BY <1>1, <1>2, LenProperties
<1> QED BY <1>1, <1>7, <1>9, <1>10, <1>11, ConcatProperties

\* The provider takes the first n units that arrived.
Takes(c, n) ==
    LET units == SubSeq(toServer[c], 1, n)
        caller == units[1].caller
    IN  /\ toServer' = [toServer EXCEPT ![c] = SubSeq(@, n + 1, Len(@))]
        /\ serving' = IF Complete(units) THEN [serving EXCEPT ![c] = caller] ELSE serving
        /\ unserved' = unserved \cup ({units[i].caller : i \in 1 .. n}
                                        \ IF Complete(units) THEN {caller} ELSE {})

LEMMA MessageTaken ==
    ASSUME NEW c, OnMessage(c)
    PROVE  /\ state[c] = "open" /\ serving[c] = "none" /\ \E n \in 1 .. Len(toServer[c]) : Takes(c, n)
           /\ UNCHANGED <<clientVars, made, state, toClient, faults, cut, peerTerm, served>>
  BY DEF OnMessage, Takes

LEMMA UnitsHaveCallers == \A u \in Unit : u.caller \in Thread
<1> SUFFICES ASSUME NEW u \in Unit PROVE u.caller \in Thread
  OBVIOUS
<1>1. PICK t \in Thread : u \in {Request[t][i] : i \in DOMAIN Request[t]}
  BY Zenon DEF Unit
<1>2. PICK r : r = Request[t]
  OBVIOUS
<1>3. r \in Seq(Unit) /\ \A i \in 1 .. Len(r) : r[i].caller = t
  BY <1>2, RequestUnits
<1>4. DOMAIN r = 1 .. Len(r)
  BY <1>3, LenProperties
<1>5. PICK i \in DOMAIN r : u = r[i]
  BY <1>1, <1>2
<1> QED BY <1>3, <1>4, <1>5

\* The answer of a handler, with the term its node has then.
Answers(c, t, term, reply) ==
    LET bytes == SerializeToString(ReplyType(t), reply)
    IN  /\ served' = [served EXCEPT ![t] = @ \cup {reply}]
        /\ toClient' = IF bytes = <<>> THEN toClient ELSE [toClient EXCEPT ![c] = Append(@, bytes)]
        /\ unserved' = IF bytes = <<>> THEN unserved \cup {t} ELSE unserved
        /\ peerTerm' = term
        /\ serving' = [serving EXCEPT ![c] = "none"]

LEMMA ServeAnswers ==
    ASSUME TypeInv, NEW c \in Conn, Serve(c)
    PROVE  /\ state[c] = "open" /\ serving[c] \in Thread
           /\ \E term \in Nat \ {0} : \E reply \in Replies(serving[c], term) : Answers(c, serving[c], term, reply)
           /\ UNCHANGED <<clientVars, made, state, toServer, faults, cut>>
<1>1. serving[c] \in Thread /\ state[c] = "open"
  BY DEF Serve, TypeInv
<1>2. PICK t, term : /\ t = serving[c]
                     /\ term = IF TermOf[t] > peerTerm THEN TermOf[t] ELSE peerTerm
  OBVIOUS
<1>3. term \in Nat \ {0}
  BY <1>1, <1>2, MethodsAssumption DEF TypeInv
<1>4. \E reply \in Replies(t, term) : Answers(c, t, term, reply)
  BY <1>2, Zenon DEF Serve, Answers
<1> QED BY <1>1, <1>2, <1>3, <1>4 DEF Serve

LEMMA BytesWired ==
    ASSUME NEW t \in Thread, NEW term \in Nat, NEW reply \in Replies(t, term)
    PROVE  SerializeToString(ReplyType(t), reply) \in Seq(Wired)
<1>1. Carrying({reply.Term}) \subseteq Wired
  BY DEF Carrying
<1> QED BY <1>1, ReplyCarriesTerm, SeqMonotonic

---------------------------------------------------------------------------
(* Types.                                                                  *)

LEMMA TypesAtStart == Init => TypeInv
<1> SUFFICES ASSUME Init PROVE TypeInv
  OBVIOUS
<1>1. <<>> \in Seq(Unit) /\ <<>> \in Seq(Seq(Wired))
  BY EmptySeq, Zenon
<1>2. toServer \in [Conn -> Seq(Unit)] /\ toClient \in [Conn -> Seq(Seq(Wired))]
  BY <1>1 DEF Init
<1> QED BY <1>2, MethodsAssumption DEF Init, TypeInv, NoConn

\* A step to pc l that leaves the response alone, or ends the call.
LEMMA MovesOn ==
    ASSUME TypeInv, NEW t \in Thread, NEW l \in {"connect", "send", "recv", "wait"}, Goto(t, l)
    PROVE  /\ pc' \in [Thread -> {"idle", "connect", "send", "recv", "wait", "done"}]
           /\ \A u \in Thread : pc'[u] = IF u = t THEN l ELSE pc[u]
  BY DEF Goto, TypeInv

LEMMA Returns ==
    ASSUME TypeInv, NEW t \in Thread, NEW how \in Endings, NEW msg, Return(t, how, msg),
           DOMAIN msg = DOMAIN Types[ReplyType(t)]
    PROVE  /\ pc' \in [Thread -> {"idle", "connect", "send", "recv", "wait", "done"}]
           /\ \A u \in Thread : pc'[u] = IF u = t THEN "done" ELSE pc[u]
           /\ result' = [u \in Thread |-> result'[u]]
           /\ \A u \in Thread : result'[u] = IF u = t THEN [how |-> how, msg |-> msg] ELSE result[u]
           /\ \A u \in Thread : pc'[u] = "done" =>
                  /\ result'[u].how \in Endings
                  /\ DOMAIN result'[u].msg = DOMAIN Types[ReplyType(u)]
<1>1. \A u \in Thread : pc'[u] = IF u = t THEN "done" ELSE pc[u]
  BY DEF Return, Goto, TypeInv
<1>2. \A u \in Thread : result'[u] = IF u = t THEN [how |-> how, msg |-> msg] ELSE result[u]
  BY DEF Return, TypeInv
<1>3. result' = [u \in Thread |-> result'[u]]
  BY DEF Return, TypeInv
<1>4. pc' \in [Thread -> {"idle", "connect", "send", "recv", "wait", "done"}]
  BY DEF Return, Goto, TypeInv
<1>5. \A u \in Thread : pc[u] = "done" =>
          result[u].how \in Endings /\ DOMAIN result[u].msg = DOMAIN Types[ReplyType(u)]
  BY DEF TypeInv
<1> QED BY <1>1, <1>2, <1>3, <1>4, <1>5

LEMMA DefaultTyped ==
    ASSUME NEW t \in Thread
    PROVE  DOMAIN Default(ReplyType(t)) = DOMAIN Types[ReplyType(t)]
  BY MessageKinds

LEMMA CallerStepKeepsTypes ==
    ASSUME TypeInv, NEW t \in Thread, CallMethod(t) \/ NewConnect(t) \/ Send(t) \/ Recv(t)
    PROVE  TypeInv'
<1>1. CASE CallMethod(t)
  <2>1. PICK l \in {"connect", "send"} : Goto(t, l)
    BY <1>1 DEF CallMethod
  <2>2. overlapped' \subseteq Thread
    BY <1>1 DEF CallMethod, Active, TypeInv
  <2>3. UNCHANGED <<m_clientFd, fd, result, connVars, peerVars>>
    BY <1>1 DEF CallMethod
  <2> QED BY <2>1, <2>2, <2>3, MovesOn DEF TypeInv, connVars, peerVars
<1>2. CASE NewConnect(t)
  <2>0. UNCHANGED <<fd, overlapped, state, toServer, toClient, faults, cut, peerVars>>
    BY <1>2 DEF NewConnect
  <2>1. CASE made < MaxConns /\ made' = made + 1 /\ m_clientFd' = made + 1 /\ Goto(t, "send") /\ UNCHANGED result
    <3>1. made' \in 0 .. MaxConns /\ m_clientFd' \in 0 .. made' /\ fd' \in [Thread -> 0 .. made']
      BY <2>0, <2>1, MethodsAssumption DEF TypeInv
    <3> QED BY <2>0, <2>1, <3>1, MovesOn DEF TypeInv, peerVars
  <2>2. CASE m_clientFd' = NoConn /\ Fails(t) /\ UNCHANGED made
    <3>1. m_clientFd' \in 0 .. made'
      BY <2>2 DEF TypeInv, NoConn
    <3>2. Return(t, "failed", Default(ReplyType(t)))
      BY <2>2 DEF Fails
    <3>3. /\ pc' \in [Thread -> {"idle", "connect", "send", "recv", "wait", "done"}]
          /\ \A u \in Thread : pc'[u] = IF u = t THEN "done" ELSE pc[u]
          /\ result' = [u \in Thread |-> result'[u]]
          /\ \A u \in Thread : pc'[u] = "done" =>
                  /\ result'[u].how \in Endings
                  /\ DOMAIN result'[u].msg = DOMAIN Types[ReplyType(u)]
      BY <3>2, DefaultTyped, Returns DEF Endings
    <3> QED BY <2>0, <2>2, <3>1, <3>3 DEF TypeInv, peerVars
  <2> QED BY <1>2, <2>1, <2>2 DEF NewConnect
<1>3. CASE Send(t)
  <2>0. UNCHANGED <<fd, result, overlapped, made, toClient, faults, cut, peerVars>>
    BY <1>3 DEF Send
  <2>1. CASE m_clientFd' = NoConn /\ Goto(t, "connect") /\ UNCHANGED <<state, toServer>>
    <3>1. m_clientFd' \in 0 .. made'
      BY <2>0, <2>1 DEF TypeInv, NoConn
    <3> QED BY <2>0, <2>1, <3>1, MovesOn DEF TypeInv, peerVars
  <2>2. CASE /\ m_clientFd # NoConn /\ Goto(t, "recv") /\ UNCHANGED m_clientFd
             /\ \/ toServer' = [toServer EXCEPT ![m_clientFd] = @ \o Request[t]] /\ UNCHANGED state
                \/ state' = [state EXCEPT ![m_clientFd] = "reset"] /\ UNCHANGED toServer
    <3>1. m_clientFd \in Conn
      BY <2>2, MethodsAssumption DEF TypeInv, Conn, NoConn
    <3>2. toServer' \in [Conn -> Seq(Unit)]
      <4>1. PICK s, r : s = toServer[m_clientFd] /\ r = Request[t]
        OBVIOUS
      <4>2. s \in Seq(Unit) /\ r \in Seq(Unit)
        BY <3>1, <4>1, RequestUnits DEF TypeInv
      <4>3. s \o r \in Seq(Unit)
        BY <4>2, ConcatProperties
      <4> QED BY <2>2, <3>1, <4>1, <4>3 DEF TypeInv
    <3>3. state' \in [Conn -> {"open", "closed", "reset"}]
      BY <2>2, <3>1 DEF TypeInv
    <3> QED BY <2>0, <2>2, <3>2, <3>3, MovesOn DEF TypeInv, peerVars
  <2> QED BY <1>3, <2>1, <2>2 DEF Send
<1>4. CASE Recv(t)
  <2>0. UNCHANGED <<m_clientFd, overlapped, connVars, peerVars>>
    BY <1>4 DEF Recv
  <2>1. CASE Fails(t) /\ UNCHANGED fd
    <3>2. Return(t, "failed", Default(ReplyType(t)))
      BY <2>1 DEF Fails
    <3>3. /\ pc' \in [Thread -> {"idle", "connect", "send", "recv", "wait", "done"}]
          /\ \A u \in Thread : pc'[u] = IF u = t THEN "done" ELSE pc[u]
          /\ result' = [u \in Thread |-> result'[u]]
          /\ \A u \in Thread : pc'[u] = "done" =>
                  /\ result'[u].how \in Endings
                  /\ DOMAIN result'[u].msg = DOMAIN Types[ReplyType(u)]
      BY <3>2, DefaultTyped, Returns DEF Endings
    <3> QED BY <2>0, <2>1, <3>3 DEF TypeInv, connVars, peerVars
  <2>2. CASE m_clientFd # NoConn /\ Goto(t, "wait") /\ fd' = [fd EXCEPT ![t] = m_clientFd] /\ UNCHANGED result
    <3>1. fd' \in [Thread -> 0 .. made] /\ \A u \in Thread : fd'[u] = IF u = t THEN m_clientFd ELSE fd[u]
      BY <2>2 DEF TypeInv
    <3> QED BY <2>0, <2>2, <3>1, MovesOn DEF TypeInv, connVars, peerVars
  <2> QED BY <1>4, <2>1, <2>2 DEF Recv
<1> QED BY <1>1, <1>2, <1>3, <1>4

LEMMA TornWired == Torn \in Wired
  BY DEF Torn, Wired

LEMMA ReceiveKeepsTypes ==
    ASSUME TypeInv, NEW t \in Thread, Receive(t) \/ ReceiveCut(t) \/ ReceiveEof(t) \/ ReceiveError(t)
    PROVE  TypeInv'
<1>1. ASSUME NEW how \in Endings, NEW msg, Return(t, how, msg),
             DOMAIN msg = DOMAIN Types[ReplyType(t)], UNCHANGED <<fd, overlapped, made, state, toServer, faults, peerVars>>,
             cut' \subseteq Conn, m_clientFd' \in {m_clientFd, NoConn}, toClient' \in [Conn -> Seq(Seq(Wired))]
      PROVE  TypeInv'
  <2>1. m_clientFd' \in 0 .. made'
    BY <1>1 DEF TypeInv, NoConn
  <2>2. /\ pc' \in [Thread -> {"idle", "connect", "send", "recv", "wait", "done"}]
        /\ \A u \in Thread : pc'[u] = IF u = t THEN "done" ELSE pc[u]
        /\ result' = [u \in Thread |-> result'[u]]
        /\ \A u \in Thread : result'[u] = IF u = t THEN [how |-> how, msg |-> msg] ELSE result[u]
        /\ \A u \in Thread : pc'[u] = "done" =>
                /\ result'[u].how \in Endings
                /\ DOMAIN result'[u].msg = DOMAIN Types[ReplyType(u)]
    <3>1. Return(t, how, msg) /\ DOMAIN msg = DOMAIN Types[ReplyType(t)]
      BY <1>1
    <3> QED BY <3>1, Returns
  <2> QED BY <1>1, <2>1, <2>2 DEF TypeInv, peerVars
<1>2. CASE Receive(t)
  <2>1. PICK n \in 1 .. Len(toClient[fd[t]]) : Receives(t, n)
    BY <1>2, ReceiveTakes
  <2>2. fd[t] \in Conn
    BY <1>2, ReceiveTakes, MethodsAssumption DEF TypeInv, Conn, NoConn
  <2>3. PICK s, c : c = fd[t] /\ s = toClient[c]
    OBVIOUS
  <2>4. s \in Seq(Seq(Wired))
    BY <2>2, <2>3 DEF TypeInv
  <2>5. PICK bytes, rest : bytes = FlattenSeq(SubSeq(s, 1, n)) /\ rest = SubSeq(s, n + 1, Len(s))
    OBVIOUS
  <2>6. bytes \in Seq(Wired) /\ rest \in Seq(Seq(Wired))
    BY <2>1, <2>3, <2>4, <2>5, Taken, FlattenTypes
  <2>7. toClient' \in [Conn -> Seq(Seq(Wired))]
    <3>1. toClient' = [toClient EXCEPT ![c] = rest]
      BY <2>1, <2>3, <2>5 DEF Receives
    <3> QED BY <2>2, <2>3, <2>6, <3>1 DEF TypeInv
  <2>8. Len(bytes) \in Nat /\ Parse(t, bytes)
    BY <2>1, <2>3, <2>5, <2>6, LenProperties DEF Receives
  <2>9. PICK how, msg : how \in Endings /\ Return(t, how, msg) /\ DOMAIN msg = DOMAIN Types[ReplyType(t)]
    BY <2>8, Parses
  <2>10. UNCHANGED <<m_clientFd, fd, overlapped, made, state, toServer, faults, cut, peerVars>>
    BY <1>2, ReceiveTakes
  <2> QED BY <1>1, <2>7, <2>9, <2>10 DEF TypeInv
<1>3. CASE ReceiveEof(t)
  <2>1. ParseFromString(ReplyType(t), <<>>) = Default(ReplyType(t))
    BY ParseNothing
  <2>2. Return(t, "eof", Default(ReplyType(t)))
    BY <1>3, <2>1 DEF ReceiveEof
  <2>3. UNCHANGED <<m_clientFd, fd, overlapped, connVars, peerVars>>
    BY <1>3 DEF ReceiveEof
  <2> QED BY <1>1, <2>2, <2>3, DefaultTyped DEF connVars, TypeInv, Endings
<1>4. CASE ReceiveError(t)
  <2>1. Return(t, "failed", Default(ReplyType(t)))
    BY <1>4 DEF ReceiveError, Fails
  <2>2. UNCHANGED <<fd, overlapped, connVars, peerVars>> /\ m_clientFd' = NoConn
    BY <1>4 DEF ReceiveError
  <2> QED BY <1>1, <2>1, <2>2, DefaultTyped DEF connVars, TypeInv, Endings
<1>5. CASE ReceiveCut(t)
  <2>1. PICK n \in 1 .. Len(toClient[fd[t]]), inField \in BOOLEAN :
            \E k \in (IF inField THEN 0 ELSE 1) .. Len(toClient[fd[t]][n]) - 1 : CutAt(t, n, inField, k)
    BY <1>5, ReceiveCutTakes
  <2>2. PICK k \in (IF inField THEN 0 ELSE 1) .. Len(toClient[fd[t]][n]) - 1 : CutAt(t, n, inField, k)
    BY <2>1
  <2>3. UNCHANGED <<m_clientFd, fd, overlapped, made, state, toServer, faults, peerVars>> /\ cut' = cut \cup {fd[t]}
    BY <1>5, ReceiveCutTakes
  <2>4. PICK c \in Conn : c = fd[t]
    <3>1. pc[t] = "wait"
      BY <1>5, ReceiveCutTakes
    <3> QED BY <3>1, MethodsAssumption DEF TypeInv, Conn, NoConn
  <2>5. PICK s : s = toClient[c] /\ s \in Seq(Seq(Wired))
    BY DEF TypeInv
  <2>6. PICK bytes, rest : /\ bytes = FlattenSeq(SubSeq(s, 1, n - 1)) \o SubSeq(s[n], 1, k)
                           /\ rest = <<Left(s[n], k, inField)>> \o SubSeq(s, n + 1, Len(s))
    OBVIOUS
  <2>7. bytes \in Seq(Wired) /\ rest \in Seq(Seq(Wired))
    BY <2>2, <2>4, <2>5, <2>6, TornWired, CutLeaves
  <2>8. toClient' = [toClient EXCEPT ![c] = rest] /\ (Fails(t) \/ Parse(t, bytes))
    BY <2>2, <2>4, <2>5, <2>6 DEF CutAt
  <2>9. toClient' \in [Conn -> Seq(Seq(Wired))]
    BY <2>4, <2>7, <2>8 DEF TypeInv
  <2>10. PICK how, msg : how \in Endings /\ Return(t, how, msg) /\ DOMAIN msg = DOMAIN Types[ReplyType(t)]
    <3>1. CASE Fails(t)
      BY <3>1, MessageKinds DEF Fails, Endings
    <3>2. CASE Parse(t, bytes)
      BY <2>7, <3>2, Parses, LenProperties
    <3> QED BY <2>8, <3>1, <3>2
  <2>11. cut' \subseteq Conn
    BY <2>3, <2>4 DEF TypeInv
  <2> QED BY <1>1, <2>3, <2>9, <2>10, <2>11
<1> QED BY <1>2, <1>3, <1>4, <1>5

LEMMA ProviderKeepsTypes ==
    ASSUME TypeInv, NEW c \in Conn, OnMessage(c) \/ Serve(c) \/ Break(c)
    PROVE  TypeInv'
<1>1. CASE OnMessage(c)
  <2>1. PICK n \in 1 .. Len(toServer[c]) : Takes(c, n)
    BY <1>1, MessageTaken
  <2>2. PICK s : s = toServer[c] /\ s \in Seq(Unit)
    BY DEF TypeInv
  <2>3. PICK units, rest : units = SubSeq(s, 1, n) /\ rest = SubSeq(s, n + 1, Len(s))
    OBVIOUS
  <2>4. rest \in Seq(Unit) /\ units \in Seq(Unit) /\ Len(units) = n
    BY <2>1, <2>2, <2>3, Taken
  <2>5. \A i \in 1 .. n : units[i].caller \in Thread
    BY <2>1, <2>4, ElementOfSeq, UnitsHaveCallers
  <2>6. /\ toServer' = [toServer EXCEPT ![c] = rest]
        /\ serving' = IF Complete(units) THEN [serving EXCEPT ![c] = units[1].caller] ELSE serving
        /\ unserved' = unserved \cup ({units[i].caller : i \in 1 .. n}
                                        \ IF Complete(units) THEN {units[1].caller} ELSE {})
    BY <2>1, <2>2, <2>3, Zenon DEF Takes
  <2>7. toServer' \in [Conn -> Seq(Unit)]
    BY <2>4, <2>6 DEF TypeInv
  <2>8. 1 \in 1 .. n
    BY <2>1, <2>2, LenProperties
  <2>9. serving' \in [Conn -> Thread \cup {"none"}]
    BY <2>5, <2>6, <2>8 DEF TypeInv
  <2>10. unserved' \subseteq Thread
    BY <2>5, <2>6 DEF TypeInv
  <2>11. UNCHANGED <<clientVars, made, state, toClient, faults, cut, peerTerm, served>>
    BY <1>1, MessageTaken
  <2> QED BY <2>7, <2>9, <2>10, <2>11 DEF TypeInv, clientVars
<1>2. CASE Serve(c)
  <2>1. PICK t \in Thread, term \in Nat \ {0} : t = serving[c] /\ \E reply \in Replies(t, term) : Answers(c, t, term, reply)
    BY <1>2, ServeAnswers
  <2>2. PICK reply \in Replies(t, term) : Answers(c, t, term, reply)
    BY <2>1
  <2>3. PICK bytes : bytes = SerializeToString(ReplyType(t), reply) /\ bytes \in Seq(Wired)
    BY BytesWired
  <2>4. toClient' \in [Conn -> Seq(Seq(Wired))]
    <3>1. toClient' = toClient \/ toClient' = [toClient EXCEPT ![c] = Append(@, bytes)]
      BY <2>2, <2>3 DEF Answers
    <3>2. Append(toClient[c], bytes) \in Seq(Seq(Wired))
      BY <2>3, AppendProperties DEF TypeInv
    <3> QED BY <3>1, <3>2 DEF TypeInv
  <2>5. served' = [u \in Thread |-> served'[u]]
    BY <2>2 DEF Answers, TypeInv
  <2>6. unserved' \subseteq Thread /\ peerTerm' \in Nat \ {0} /\ serving' \in [Conn -> Thread \cup {"none"}]
    BY <2>2 DEF Answers, TypeInv
  <2>7. UNCHANGED <<clientVars, made, state, toServer, faults, cut>>
    BY <1>2, ServeAnswers
  <2> QED BY <2>4, <2>5, <2>6, <2>7 DEF TypeInv, clientVars
<1>3. CASE Break(c)
  <2>1. toServer' \in [Conn -> Seq(Unit)]
    <3>1. <<>> \in Seq(Unit)
      BY EmptySeq, Zenon
    <3>2. toServer' = [toServer EXCEPT ![c] = <<>>]
      BY <1>3 DEF Break
    <3> QED BY <3>1, <3>2 DEF TypeInv
  <2>2. state' \in [Conn -> {"open", "closed", "reset"}] /\ serving' \in [Conn -> Thread \cup {"none"}]
    BY <1>3 DEF Break, TypeInv
  <2>3. faults' \in 0 .. MaxFaults
    BY <1>3, MethodsAssumption DEF Break, TypeInv
  <2>4. UNCHANGED <<clientVars, made, toClient, cut, peerTerm, served, unserved>>
    BY <1>3 DEF Break
  <2> QED BY <2>1, <2>2, <2>3, <2>4 DEF TypeInv, clientVars
<1> QED BY <1>1, <1>2, <1>3

LEMMA TypesKept == TypeInv /\ [Next]_vars => TypeInv'
<1>1. ASSUME TypeInv, UNCHANGED vars PROVE TypeInv'
  BY <1>1 DEF TypeInv, vars, clientVars, connVars, peerVars
<1>2. ASSUME TypeInv, Next PROVE TypeInv'
  BY <1>2, CallerStepKeepsTypes, ReceiveKeepsTypes, ProviderKeepsTypes DEF Next, CallerStep, ProviderStep
<1> QED BY <1>1, <1>2

\* Every variable keeps its type (what a call leaves in CallMethod's response and
\* controller, and the sockets and buffers it goes through).
THEOREM TypeOKHolds == Spec => []TypeOK
<1>1. TypeInv => TypeOK
  <2> SUFFICES ASSUME TypeInv PROVE TypeOK
    OBVIOUS
  <2>1. m_clientFd \in Conn \cup {NoConn}
    BY MethodsAssumption DEF TypeInv, Conn, NoConn
  <2>2. fd \in [Thread -> Conn \cup {NoConn}]
    <3>1. 0 .. made \subseteq Conn \cup {NoConn}
      BY MethodsAssumption DEF TypeInv, Conn, NoConn
    <3> QED BY <3>1 DEF TypeInv
  <2>3. \A t \in Thread : pc[t] = "wait" => fd[t] \in 1 .. made
    BY DEF TypeInv, NoConn
  <2> QED BY <2>1, <2>2, <2>3 DEF TypeInv, TypeOK, Endings
<1> QED BY <1>1, TypesAtStart, TypesKept, PTL DEF Spec
---------------------------------------------------------------------------
(* Who has a request on the way.                                           *)

LEMMA NobodyAsks == Askers(<<>>) = {} /\ AsksOnce(<<>>)
<1>1. Headers(<<>>) = {}
  BY DEF Headers
<1> QED BY <1>1 DEF Askers, AsksOnce

LEMMA AskersSent ==
    ASSUME NEW s \in Seq(Unit), NEW t \in Thread, t \notin Askers(s), AsksOnce(s)
    PROVE  Askers(s \o Request[t]) = Askers(s) \cup {t} /\ AsksOnce(s \o Request[t])
<1>1. PICK r : r = Request[t]
  OBVIOUS
<1>2. r \in Seq(Unit) /\ Len(r) > 0 /\ Headers(r) = {1} /\ \A i \in 1 .. Len(r) : r[i].caller = t
  BY <1>1, RequestUnits
<1>3. PICK all : all = s \o r /\ Behind(s, r, all)
  <2>1. Behind(s, r, s \o r)
    BY <1>2, Concatenated, Zenon
  <2> QED BY <2>1
<1>4. Headers(all) = Headers(s) \cup {Len(s) + 1}
  <2>1. ASSUME NEW i \in 1 .. Len(all) PROVE i \in Headers(all) <=> i \in Headers(s) \/ i = Len(s) + 1
    <3>1. CASE i <= Len(s)
      <4>1. i \in 1 .. Len(s) /\ i # Len(s) + 1 /\ all[i] = s[i]
        BY <1>3, <2>1, <3>1 DEF Behind
      <4> QED BY <2>1, <4>1 DEF Headers
    <3>2. CASE ~(i <= Len(s))
      <4>1. PICK k : k = i - Len(s)
        OBVIOUS
      <4>2. k \in 1 .. Len(r) /\ i = Len(s) + k /\ all[i] = r[k] /\ i \notin 1 .. Len(s)
        BY <1>3, <2>1, <3>2, <4>1 DEF Behind
      <4>3. i \in Headers(all) <=> k \in Headers(r)
        BY <2>1, <4>2 DEF Headers
      <4>4. k \in Headers(r) <=> k = 1
        BY <1>2
      <4>5. k = 1 <=> i = Len(s) + 1
        BY <1>3, <4>2 DEF Behind
      <4> QED BY <4>2, <4>3, <4>4, <4>5 DEF Headers
    <3> QED BY <3>1, <3>2
  <2>2. Headers(s) \subseteq 1 .. Len(all) /\ Len(s) + 1 \in 1 .. Len(all)
    BY <1>2, <1>3 DEF Headers, Behind
  <2> QED BY <2>1, <2>2 DEF Headers
<1>5. /\ \A i \in Headers(s) : all[i] = s[i] /\ i # Len(s) + 1
      /\ all[Len(s) + 1].caller = t
  <2>1. \A i \in Headers(s) : all[i] = s[i] /\ i # Len(s) + 1
    BY <1>3 DEF Headers, Behind
  <2>2. all[Len(s) + 1] = r[1] /\ 1 \in 1 .. Len(r)
    BY <1>2, <1>3 DEF Behind
  <2> QED BY <1>2, <2>1, <2>2
<1>6. Askers(all) = Askers(s) \cup {t}
  BY <1>4, <1>5 DEF Askers
<1>7. AsksOnce(all)
  <2> SUFFICES ASSUME NEW i \in Headers(all), NEW j \in Headers(all), all[i].caller = all[j].caller PROVE i = j
    BY DEF AsksOnce
  <2>1. CASE i \in Headers(s) /\ j \in Headers(s)
    BY <1>5, <2>1 DEF AsksOnce
  <2>2. \A k \in Headers(s) : s[k].caller # t
    BY DEF Askers
  <2> QED BY <1>4, <1>5, <2>1, <2>2
<1> QED BY <1>1, <1>3, <1>6, <1>7

LEMMA AskersTaken ==
    ASSUME NEW s \in Seq(Unit), NEW n \in 1 .. Len(s), AsksOnce(s)
    PROVE  /\ Askers(SubSeq(s, n + 1, Len(s))) \subseteq Askers(s)
           /\ AsksOnce(SubSeq(s, n + 1, Len(s)))
           /\ Complete(SubSeq(s, 1, n)) =>
                  /\ SubSeq(s, 1, n)[1].caller \in Askers(s)
                  /\ SubSeq(s, 1, n)[1].caller \notin Askers(SubSeq(s, n + 1, Len(s)))
<1>1. PICK rest, units : rest = SubSeq(s, n + 1, Len(s)) /\ units = SubSeq(s, 1, n)
  OBVIOUS
<1>2. /\ Len(s) \in Nat /\ Len(rest) = Len(s) - n
      /\ \A i \in 1 .. Len(s) - n : rest[i] = s[n + i]
      /\ \A i \in 1 .. n : units[i] = s[i]
  BY <1>1, Taken, LenProperties
<1>3. \A i \in Headers(rest) : i \in Nat /\ n + i \in Headers(s) /\ rest[i] = s[n + i] /\ n + i # 1
  BY <1>2 DEF Headers
<1>4. Askers(rest) \subseteq Askers(s)
  BY <1>3 DEF Askers
<1>5. AsksOnce(rest)
  <2> SUFFICES ASSUME NEW i \in Headers(rest), NEW j \in Headers(rest), rest[i].caller = rest[j].caller PROVE i = j
    BY DEF AsksOnce
  <2>1. n + i = n + j
    BY <1>3 DEF AsksOnce
  <2> QED BY <1>3, <2>1
<1>6. ASSUME Complete(units) PROVE units[1].caller \in Askers(s) /\ units[1].caller \notin Askers(rest)
  <2>1. "header" \in DOMAIN units[1] /\ 1 \in 1 .. n /\ 1 \in 1 .. Len(s)
    BY <1>2, <1>6 DEF Complete
  <2>2. 1 \in Headers(s) /\ units[1] = s[1]
    BY <1>2, <2>1 DEF Headers
  <2>3. s[1].caller \in Askers(s)
    BY <2>2 DEF Askers
  <2>4. \A i \in Headers(rest) : rest[i].caller # s[1].caller
    BY <1>3, <2>2 DEF AsksOnce
  <2>5. s[1].caller \notin Askers(rest)
    BY <2>4 DEF Askers
  <2> QED BY <2>2, <2>3, <2>5
<1> QED BY <1>1, <1>4, <1>5, <1>6

LEMMA AskersAreThreads ==
    ASSUME NEW s \in Seq(Unit)
    PROVE  Askers(s) \subseteq Thread
<1>1. \A i \in 1 .. Len(s) : s[i].caller \in Thread
  BY ElementOfSeq, UnitsHaveCallers
<1> QED BY <1>1 DEF Askers, Headers

---------------------------------------------------------------------------
(* What a step changes.                                                    *)

\* Nothing on the connections, and of the callers only where t is.
OnlyMoves(t) ==
    /\ UNCHANGED <<state, toServer, toClient, serving, served, cut>>
    /\ \A u \in Thread \ {t} : pc'[u] = pc[u] /\ fd'[u] = fd[u] /\ result'[u] = result[u]

LEMMA CallStarts ==
    ASSUME TypeInv, NEW t \in Thread, CallMethod(t)
    PROVE  /\ OnlyMoves(t) /\ pc[t] = "idle" /\ pc'[t] \in {"connect", "send"}
           /\ UNCHANGED <<m_clientFd, made, fd>>
           /\ overlapped' = IF Active = {} THEN overlapped ELSE overlapped \cup Active \cup {t}
<1>1. PICK l \in {"connect", "send"} : Goto(t, l)
  BY DEF CallMethod
<1>2. \A u \in Thread : pc'[u] = IF u = t THEN l ELSE pc[u]
  BY <1>1, MovesOn
<1>3. UNCHANGED <<m_clientFd, fd, result, connVars, peerVars>>
  BY DEF CallMethod
<1>4. pc[t] = "idle" /\ overlapped' = IF Active = {} THEN overlapped ELSE overlapped \cup Active \cup {t}
  BY DEF CallMethod
<1> QED BY <1>2, <1>3, <1>4 DEF OnlyMoves, connVars, peerVars

\* Giving up ends the call of one thread.
LEMMA FailsAlone ==
    ASSUME TypeInv, NEW t \in Thread, Fails(t)
    PROVE  /\ \A u \in Thread : pc'[u] = IF u = t THEN "done" ELSE pc[u]
           /\ \A u \in Thread \ {t} : result'[u] = result[u]
<1>1. \A u \in Thread : pc'[u] = IF u = t THEN "done" ELSE pc[u]
  BY DEF Fails, Return, Goto, TypeInv
<1>2. \A u \in Thread \ {t} : result'[u] = result[u]
  BY DEF Fails, Return, TypeInv
<1> QED BY <1>1, <1>2

LEMMA Connects ==
    ASSUME TypeInv, NEW t \in Thread, NewConnect(t)
    PROVE  /\ OnlyMoves(t) /\ pc[t] = "connect" /\ UNCHANGED <<fd, overlapped>>
           /\ \/ m_clientFd' = made + 1 /\ made' = made + 1 /\ made + 1 \in Conn /\ pc'[t] = "send"
              \/ m_clientFd' = NoConn /\ made' = made /\ pc'[t] = "done" /\ Fails(t)
<1>0. UNCHANGED <<fd, overlapped, state, toServer, toClient, faults, cut, peerVars>> /\ pc[t] = "connect"
  BY DEF NewConnect
<1>1. CASE made < MaxConns /\ made' = made + 1 /\ m_clientFd' = made + 1 /\ Goto(t, "send") /\ UNCHANGED result
  <2>1. \A u \in Thread : pc'[u] = IF u = t THEN "send" ELSE pc[u]
    BY <1>1, MovesOn
  <2>2. made + 1 \in Conn
    BY <1>1, MethodsAssumption DEF TypeInv, Conn
  <2> QED BY <1>0, <1>1, <2>1, <2>2 DEF OnlyMoves, peerVars
<1>2. CASE m_clientFd' = NoConn /\ Fails(t) /\ UNCHANGED made
  <2>1. /\ \A u \in Thread : pc'[u] = IF u = t THEN "done" ELSE pc[u]
        /\ \A u \in Thread \ {t} : result'[u] = result[u]
    BY <1>2, FailsAlone
  <2> QED BY <1>0, <1>2, <2>1 DEF OnlyMoves, peerVars
<1> QED BY <1>1, <1>2 DEF NewConnect

LEMMA Sends ==
    ASSUME TypeInv, NEW t \in Thread, Send(t)
    PROVE  /\ pc[t] = "send"
           /\ UNCHANGED <<fd, result, overlapped, cut, made, toClient, serving, served>>
           /\ \A u \in Thread \ {t} : pc'[u] = pc[u]
           /\ \/ m_clientFd' = NoConn /\ pc'[t] = "connect" /\ UNCHANGED <<state, toServer>>
              \/ /\ m_clientFd' = m_clientFd /\ m_clientFd \in Conn /\ m_clientFd # NoConn /\ m_clientFd <= made /\ pc'[t] = "recv"
                 /\ \/ /\ state[m_clientFd] = "open" /\ UNCHANGED state
                       /\ toServer' = [toServer EXCEPT ![m_clientFd] = @ \o Request[t]]
                    \/ /\ state[m_clientFd] # "open" /\ UNCHANGED toServer
                       /\ state' = [state EXCEPT ![m_clientFd] = "reset"]
<1>0. UNCHANGED <<fd, result, overlapped, made, toClient, faults, cut, peerVars>> /\ pc[t] = "send"
  BY DEF Send
<1>1. CASE m_clientFd' = NoConn /\ Goto(t, "connect") /\ UNCHANGED <<state, toServer>>
  BY <1>0, <1>1, MovesOn DEF peerVars
<1>2. CASE /\ m_clientFd # NoConn /\ Goto(t, "recv") /\ UNCHANGED m_clientFd
           /\ IF state[m_clientFd] = "open"
              THEN toServer' = [toServer EXCEPT ![m_clientFd] = @ \o Request[t]] /\ UNCHANGED state
              ELSE state' = [state EXCEPT ![m_clientFd] = "reset"] /\ UNCHANGED toServer
  <2>1. \A u \in Thread : pc'[u] = IF u = t THEN "recv" ELSE pc[u]
    BY <1>2, MovesOn
  <2>2. m_clientFd \in Conn /\ m_clientFd <= made
    BY <1>2, MethodsAssumption DEF TypeInv, Conn, NoConn
  <2> QED BY <1>0, <1>2, <2>1, <2>2 DEF peerVars
<1> QED BY <1>1, <1>2 DEF Send

LEMMA Recvs ==
    ASSUME TypeInv, NEW t \in Thread, Recv(t)
    PROVE  /\ OnlyMoves(t) /\ pc[t] = "recv" /\ UNCHANGED <<m_clientFd, made, overlapped>>
           /\ \/ m_clientFd = NoConn /\ pc'[t] = "done" /\ Fails(t) /\ UNCHANGED fd
              \/ m_clientFd # NoConn /\ pc'[t] = "wait" /\ fd'[t] = m_clientFd
<1>0. UNCHANGED <<m_clientFd, overlapped, connVars, peerVars>> /\ pc[t] = "recv"
  BY DEF Recv
<1>1. CASE m_clientFd = NoConn /\ Fails(t) /\ UNCHANGED fd
  <2>1. /\ \A u \in Thread : pc'[u] = IF u = t THEN "done" ELSE pc[u]
        /\ \A u \in Thread \ {t} : result'[u] = result[u]
    BY <1>1, FailsAlone
  <2> QED BY <1>0, <1>1, <2>1 DEF OnlyMoves, peerVars, connVars
<1>2. CASE m_clientFd # NoConn /\ Goto(t, "wait") /\ fd' = [fd EXCEPT ![t] = m_clientFd] /\ UNCHANGED result
  <2>1. \A u \in Thread : fd'[u] = IF u = t THEN m_clientFd ELSE fd[u]
    BY <1>2 DEF TypeInv
  <2>2. \A u \in Thread : pc'[u] = IF u = t THEN "wait" ELSE pc[u]
    BY <1>2, MovesOn
  <2> QED BY <1>0, <1>2, <2>1, <2>2 DEF OnlyMoves, peerVars, connVars
<1> QED BY <1>1, <1>2 DEF Recv

\* The response of t is parsed from the bytes, or its call fails.
Outcome(t, bytes) ==
    \/ result'[t] = [how |-> "reply", msg |-> ParseFromString(ReplyType(t), bytes)]
    \/ result'[t].how # "reply" /\ result'[t].msg = Default(ReplyType(t))
    \/ result'[t].how = "garbled"

LEMMA Outcomes ==
    ASSUME TypeInv, NEW t \in Thread, NEW bytes, Len(bytes) \in Nat, Parse(t, bytes) \/ Fails(t)
    PROVE  /\ Outcome(t, bytes) /\ pc'[t] = "done"
           /\ \A u \in Thread \ {t} : pc'[u] = pc[u] /\ result'[u] = result[u]
<1>1. PICK how, msg :
          /\ Return(t, how, msg)
          /\ \/ how = "reply" /\ msg = ParseFromString(ReplyType(t), bytes)
             \/ how = "failed" /\ msg = Default(ReplyType(t))
             \/ how = "garbled"
  BY Parses DEF Fails
<1>2. \A u \in Thread : /\ pc'[u] = IF u = t THEN "done" ELSE pc[u]
                        /\ result'[u] = IF u = t THEN [how |-> how, msg |-> msg] ELSE result[u]
  BY <1>1 DEF Return, Goto, TypeInv
<1> QED BY <1>1, <1>2 DEF Outcome

\* The response of t is made of the first n answers on its connection.
ResponseFrom(t, n) ==
    /\ Outcome(t, FlattenSeq(SubSeq(toClient[fd[t]], 1, n)))
    /\ toClient' = [toClient EXCEPT ![fd[t]] = SubSeq(@, n + 1, Len(@))]

LEMMA ReceivesEnd ==
    ASSUME TypeInv, NEW t \in Thread, Receive(t)
    PROVE  /\ pc[t] = "wait" /\ pc'[t] = "done" /\ fd[t] \in Conn /\ fd[t] <= made
           /\ \A u \in Thread \ {t} : pc'[u] = pc[u] /\ result'[u] = result[u]
           /\ UNCHANGED <<m_clientFd, fd, overlapped, cut, made, state, toServer, serving, served>>
           /\ \E n \in 1 .. Len(toClient[fd[t]]) : ResponseFrom(t, n)
<1>1. PICK n \in 1 .. Len(toClient[fd[t]]) : Receives(t, n)
  BY ReceiveTakes
<1>2. fd[t] \in Conn /\ fd[t] <= made
  BY ReceiveTakes, MethodsAssumption DEF TypeInv, Conn, NoConn
<1>3. PICK bytes : bytes = FlattenSeq(SubSeq(toClient[fd[t]], 1, n))
  OBVIOUS
<1>4. Len(bytes) \in Nat
  <2>1. PICK s \in Seq(Seq(Wired)) : s = toClient[fd[t]]
    BY <1>2 DEF TypeInv
  <2>2. SubSeq(s, 1, n) \in Seq(Seq(Wired))
    BY <1>1, <2>1, Taken
  <2>3. bytes \in Seq(Wired)
    BY <1>3, <2>1, <2>2, FlattenTypes
  <2> QED BY <2>3, LenProperties
<1>5. /\ Outcome(t, bytes) /\ pc'[t] = "done"
      /\ \A u \in Thread \ {t} : pc'[u] = pc[u] /\ result'[u] = result[u]
  BY <1>1, <1>3, <1>4, Outcomes DEF Receives
<1>6. ResponseFrom(t, n)
  BY <1>1, <1>3, <1>5 DEF ResponseFrom, Receives
<1> QED BY <1>2, <1>5, <1>6, ReceiveTakes DEF peerVars

\* A thread that waits for its response does so on a connection that was made.
LEMMA WaitsOnMade ==
    ASSUME TypeInv, NEW t \in Thread, pc[t] = "wait"
    PROVE  fd[t] \in Conn /\ fd[t] <= made
<1>1. fd[t] \in 0 .. made /\ fd[t] # 0
  BY DEF TypeInv, NoConn
<1>2. made \in 0 .. MaxConns /\ MaxConns \in Nat
  BY MethodsAssumption DEF TypeInv
<1> QED BY <1>1, <1>2 DEF Conn

\* What is left on the connection of t, and what its response is made of.
LEMMA CutsEnd ==
    ASSUME TypeInv, NEW t \in Thread, ReceiveCut(t), NEW V, Torn \in V, toClient[fd[t]] \in Seq(Seq(V))
    PROVE  /\ pc[t] = "wait" /\ pc'[t] = "done" /\ fd[t] \in Conn /\ fd[t] <= made
           /\ \A u \in Thread \ {t} : pc'[u] = pc[u] /\ result'[u] = result[u]
           /\ UNCHANGED <<m_clientFd, fd, overlapped, made, state, toServer, serving, served>>
           /\ cut' = cut \cup {fd[t]}
           /\ \A c \in Conn \ {fd[t]} : toClient'[c] = toClient[c]
           /\ toClient'[fd[t]] \in Seq(Seq(V)) /\ \E bytes \in Seq(V) : Outcome(t, bytes)
<1>1. PICK n \in 1 .. Len(toClient[fd[t]]), inField \in BOOLEAN :
          \E k \in (IF inField THEN 0 ELSE 1) .. Len(toClient[fd[t]][n]) - 1 : CutAt(t, n, inField, k)
  BY ReceiveCutTakes
<1>2. PICK k \in (IF inField THEN 0 ELSE 1) .. Len(toClient[fd[t]][n]) - 1 : CutAt(t, n, inField, k)
  BY <1>1
<1>3. PICK c \in Conn : c = fd[t] /\ c <= made
  <2>1. pc[t] = "wait"
    BY ReceiveCutTakes
  <2> QED BY <2>1, WaitsOnMade
<1>4. PICK s \in Seq(Seq(V)) : s = toClient[c]
  BY <1>3
<1>5. PICK bytes, rest : /\ bytes = FlattenSeq(SubSeq(s, 1, n - 1)) \o SubSeq(s[n], 1, k)
                         /\ rest = <<Left(s[n], k, inField)>> \o SubSeq(s, n + 1, Len(s))
  OBVIOUS
<1>6. bytes \in Seq(V) /\ rest \in Seq(Seq(V))
  BY <1>2, <1>3, <1>4, <1>5, CutLeaves
<1>7. toClient' = [toClient EXCEPT ![c] = rest] /\ (Fails(t) \/ Parse(t, bytes))
  BY <1>2, <1>3, <1>4, <1>5 DEF CutAt
<1>8. /\ Outcome(t, bytes) /\ pc'[t] = "done"
      /\ \A u \in Thread \ {t} : pc'[u] = pc[u] /\ result'[u] = result[u]
  BY <1>6, <1>7, Outcomes, LenProperties
<1>9. toClient'[c] = rest /\ \A d \in Conn \ {c} : toClient'[d] = toClient[d]
  BY <1>7 DEF TypeInv
<1> QED BY <1>3, <1>6, <1>8, <1>9, ReceiveCutTakes DEF peerVars

\* The same, whatever the bytes.
LEMMA CutEnds ==
    ASSUME TypeInv, NEW t \in Thread, ReceiveCut(t)
    PROVE  /\ pc[t] = "wait" /\ pc'[t] = "done" /\ fd[t] \in Conn /\ fd[t] <= made
           /\ \A u \in Thread \ {t} : pc'[u] = pc[u] /\ result'[u] = result[u]
           /\ UNCHANGED <<m_clientFd, fd, overlapped, made, state, toServer, serving, served>>
           /\ cut' = cut \cup {fd[t]}
           /\ \A c \in Conn \ {fd[t]} : toClient'[c] = toClient[c]
<1>1. fd[t] \in Conn
  <2>1. pc[t] = "wait"
    BY ReceiveCutTakes
  <2> QED BY <2>1, MethodsAssumption DEF TypeInv, Conn, NoConn
<1>2. toClient[fd[t]] \in Seq(Seq(Wired))
  BY <1>1 DEF TypeInv
<1> QED BY <1>2, TornWired, CutsEnd

LEMMA Stops ==
    ASSUME TypeInv, NEW t \in Thread, ReceiveEof(t) \/ ReceiveError(t)
    PROVE  /\ OnlyMoves(t) /\ pc[t] = "wait" /\ pc'[t] = "done" /\ UNCHANGED <<made, overlapped, fd>>
           /\ result'[t].how # "reply" /\ result'[t].msg = Default(ReplyType(t))
           /\ \/ m_clientFd' = NoConn
              \/ m_clientFd' = m_clientFd /\ state[fd[t]] = "closed" /\ toClient[fd[t]] = <<>>
<1>1. PICK how \in {"failed", "eof"} : Return(t, how, Default(ReplyType(t)))
  <2>1. CASE ReceiveError(t)
    BY <2>1 DEF ReceiveError, Fails
  <2>2. CASE ReceiveEof(t)
    BY <2>2, ParseNothing DEF ReceiveEof
  <2> QED BY <2>1, <2>2
<1>2. /\ \A u \in Thread : pc'[u] = IF u = t THEN "done" ELSE pc[u]
      /\ \A u \in Thread : result'[u] = IF u = t THEN [how |-> how, msg |-> Default(ReplyType(t))] ELSE result[u]
  BY <1>1, DefaultTyped, Returns DEF Endings
<1>3. UNCHANGED <<fd, overlapped, connVars, peerVars>> /\ pc[t] = "wait"
  BY DEF ReceiveEof, ReceiveError
<1>4. m_clientFd' = NoConn \/ (m_clientFd' = m_clientFd /\ state[fd[t]] = "closed" /\ toClient[fd[t]] = <<>>)
  BY DEF ReceiveEof, ReceiveError
<1> QED BY <1>2, <1>3, <1>4 DEF OnlyMoves, connVars, peerVars

LEMMA Unpacks ==
    ASSUME TypeInv, NEW c \in Conn, OnMessage(c), AsksOnce(toServer[c])
    PROVE  /\ state[c] = "open" /\ serving[c] = "none" /\ toServer[c] # <<>>
           /\ UNCHANGED <<m_clientFd, pc, fd, result, overlapped, cut, made, state, toClient, served>>
           /\ \A d \in Conn \ {c} : toServer'[d] = toServer[d] /\ serving'[d] = serving[d]
           /\ Askers(toServer'[c]) \subseteq Askers(toServer[c]) /\ AsksOnce(toServer'[c])
           /\ \/ serving'[c] = "none"
              \/ serving'[c] \in Askers(toServer[c]) /\ serving'[c] \notin Askers(toServer'[c])
<1>1. PICK n \in 1 .. Len(toServer[c]) : Takes(c, n)
  BY MessageTaken
<1>2. PICK s : s = toServer[c] /\ s \in Seq(Unit)
  BY DEF TypeInv
<1>3. PICK units, rest : units = SubSeq(s, 1, n) /\ rest = SubSeq(s, n + 1, Len(s))
  OBVIOUS
<1>4. /\ toServer' = [toServer EXCEPT ![c] = rest]
      /\ serving' = IF Complete(units) THEN [serving EXCEPT ![c] = units[1].caller] ELSE serving
  BY <1>1, <1>2, <1>3, Zenon DEF Takes
<1>5. toServer'[c] = rest /\ \A d \in Conn \ {c} : toServer'[d] = toServer[d] /\ serving'[d] = serving[d]
  BY <1>4 DEF TypeInv
<1>6. /\ Askers(rest) \subseteq Askers(s) /\ AsksOnce(rest)
      /\ Complete(units) => units[1].caller \in Askers(s) /\ units[1].caller \notin Askers(rest)
  BY <1>1, <1>2, <1>3, AskersTaken
<1>7. s # <<>>
  BY <1>1, <1>2, LenProperties
<1>8. serving'[c] = IF Complete(units) THEN units[1].caller ELSE serving[c]
  BY <1>4 DEF TypeInv
<1> QED BY <1>2, <1>5, <1>6, <1>7, <1>8, MessageTaken DEF clientVars

\* The reply of t's handler is on its way on c, unless it has no bytes.
GivesReply(c, t, reply) ==
    /\ \A u \in Thread : served'[u] = IF u = t THEN served[u] \cup {reply} ELSE served[u]
    /\ \/ toClient'[c] = toClient[c]
       \/ toClient'[c] = Append(toClient[c], SerializeToString(ReplyType(t), reply))

LEMMA Serves ==
    ASSUME TypeInv, NEW c \in Conn, Serve(c)
    PROVE  /\ state[c] = "open" /\ serving[c] \in Thread /\ serving'[c] = "none"
           /\ UNCHANGED <<m_clientFd, pc, fd, result, overlapped, cut, made, state, toServer>>
           /\ \A d \in Conn \ {c} : toClient'[d] = toClient[d] /\ serving'[d] = serving[d]
           /\ \E term \in Nat \ {0} : \E reply \in Replies(serving[c], term) : GivesReply(c, serving[c], reply)
<1>1. PICK t \in Thread : t = serving[c]
  BY ServeAnswers
<1>0. PICK term \in Nat \ {0} : \E reply \in Replies(t, term) : Answers(c, t, term, reply)
  BY <1>1, ServeAnswers
<1>2. PICK reply \in Replies(t, term) : Answers(c, t, term, reply)
  BY <1>0
<1>3. PICK bytes : bytes = SerializeToString(ReplyType(t), reply)
  OBVIOUS
<1>4. /\ served' = [served EXCEPT ![t] = @ \cup {reply}]
      /\ toClient' = toClient \/ toClient' = [toClient EXCEPT ![c] = Append(@, bytes)]
      /\ serving' = [serving EXCEPT ![c] = "none"]
  BY <1>2, <1>3 DEF Answers
<1>5. \A u \in Thread : served'[u] = IF u = t THEN served[u] \cup {reply} ELSE served[u]
  BY <1>4 DEF TypeInv
<1>6. /\ \A d \in Conn \ {c} : toClient'[d] = toClient[d] /\ serving'[d] = serving[d]
      /\ toClient'[c] = toClient[c] \/ toClient'[c] = Append(toClient[c], bytes)
      /\ serving'[c] = "none"
  BY <1>4 DEF TypeInv
<1>7. state[c] = "open" /\ UNCHANGED <<m_clientFd, pc, fd, result, overlapped, cut, made, state, toServer>>
  BY ServeAnswers DEF clientVars
<1>8. GivesReply(c, t, reply)
  BY <1>3, <1>5, <1>6 DEF GivesReply
<1>9. \E n \in Nat \ {0} : \E r \in Replies(t, n) : GivesReply(c, t, r)
  BY <1>8
<1> QED BY <1>1, <1>6, <1>7, <1>9

LEMMA Breaks ==
    ASSUME TypeInv, NEW c \in Conn, Break(c)
    PROVE  /\ c <= made /\ toServer'[c] = <<>> /\ serving'[c] = "none"
           /\ UNCHANGED <<m_clientFd, pc, fd, result, overlapped, cut, made, toClient, served>>
           /\ \A d \in Conn \ {c} : toServer'[d] = toServer[d] /\ serving'[d] = serving[d] /\ state'[d] = state[d]
  BY DEF Break, TypeInv, clientVars

\* Which steps there are.
LEMMA Steps ==
    ASSUME [Next]_vars
    PROVE  \/ UNCHANGED vars
           \/ \E t \in Thread : \/ CallMethod(t) \/ NewConnect(t) \/ Send(t) \/ Recv(t)
                                \/ Receive(t) \/ ReceiveCut(t) \/ ReceiveEof(t) \/ ReceiveError(t)
           \/ \E c \in Conn : OnMessage(c) \/ Serve(c) \/ Break(c)
  BY DEF Next, CallerStep, ProviderStep

---------------------------------------------------------------------------
(* Connections.                                                            *)

LEMMA ConnectionsAtStart == Init => Connections /\ SentOnce /\ ServedTyped
<1> SUFFICES ASSUME Init PROVE Connections /\ SentOnce /\ ServedTyped
  OBVIOUS
<1>1. Connections
  BY DEF Init, Connections
<1>2. SentOnce
  <2>1. \A c \in Conn : toServer[c] = <<>>
    BY DEF Init
  <2> QED BY <2>1, NobodyAsks DEF SentOnce
<1>3. ServedTyped
  BY DEF Init, ServedTyped
<1> QED BY <1>1, <1>2, <1>3

LEMMA ConnectionsKept ==
    ASSUME TypeInv, Connections, SentOnce, [Next]_vars
    PROVE  Connections'
<1>1. CASE UNCHANGED vars
  BY <1>1 DEF vars, connVars, peerVars, Connections
<1>2. ASSUME UNCHANGED <<state, toServer, toClient, serving>>, made' \in {made, made + 1} PROVE Connections'
  BY <1>2, MethodsAssumption DEF Connections, Conn, TypeInv
<1>3. ASSUME NEW t \in Thread, Send(t) PROVE Connections'
  <2>1. UNCHANGED <<made, toClient, serving>>
    BY <1>3, Sends
  <2>2. \A c \in Conn : c > made' \/ state'[c] # "open" => toServer'[c] = <<>>
    <3>1. CASE UNCHANGED <<state, toServer>>
      BY <2>1, <3>1 DEF Connections
    <3>2. CASE /\ m_clientFd \in Conn /\ m_clientFd <= made /\ state[m_clientFd] = "open" /\ UNCHANGED state
               /\ toServer' = [toServer EXCEPT ![m_clientFd] = @ \o Request[t]]
      <4>1. \A c \in Conn : c # m_clientFd => toServer'[c] = toServer[c]
        BY <3>2 DEF TypeInv
      <4>2. ~(m_clientFd > made)
        BY <3>2, MethodsAssumption DEF TypeInv, Conn
      <4> QED BY <2>1, <3>2, <4>1, <4>2 DEF Connections
    <3>3. CASE /\ m_clientFd \in Conn /\ state[m_clientFd] # "open" /\ UNCHANGED toServer
               /\ state' = [state EXCEPT ![m_clientFd] = "reset"]
      <4>1. \A c \in Conn : state'[c] # "open" => state[c] # "open"
        BY <3>3 DEF TypeInv
      <4> QED BY <2>1, <3>3, <4>1 DEF Connections
    <3> QED BY <1>3, <3>1, <3>2, <3>3, Sends
  <2>3. \A c \in Conn : state'[c] # "open" => serving[c] = "none"
    <3>1. \A c \in Conn : state'[c] # "open" => state[c] # "open"
      BY <1>3, Sends DEF TypeInv
    <3> QED BY <3>1 DEF Connections
  <2> QED BY <2>1, <2>2, <2>3 DEF Connections
<1>4. ASSUME NEW t \in Thread, Receive(t) PROVE Connections'
  <2>1. PICK d \in Conn : d = fd[t] /\ d <= made
    BY <1>4, ReceivesEnd
  <2>2. \A c \in Conn : c # d => toClient'[c] = toClient[c]
    <3>1. PICK n \in 1 .. Len(toClient[d]) : ResponseFrom(t, n)
      BY <1>4, <2>1, ReceivesEnd
    <3> QED BY <2>1, <3>1 DEF TypeInv, ResponseFrom
  <2>3. UNCHANGED <<made, state, toServer, serving>>
    BY <1>4, ReceivesEnd
  <2>4. ~(d > made)
    BY <2>1, MethodsAssumption DEF TypeInv, Conn
  <2> QED BY <2>2, <2>3, <2>4 DEF Connections
<1>5. ASSUME NEW c \in Conn, OnMessage(c) PROVE Connections'
  <2>1. AsksOnce(toServer[c])
    BY DEF SentOnce
  <2>2. /\ state[c] = "open" /\ toServer[c] # <<>> /\ UNCHANGED <<made, state, toClient>>
        /\ \A d \in Conn \ {c} : toServer'[d] = toServer[d] /\ serving'[d] = serving[d]
    BY <1>5, <2>1, Unpacks
  <2> QED BY <2>2 DEF Connections
<1>6. ASSUME NEW c \in Conn, Serve(c) PROVE Connections'
  <2>1. /\ state[c] = "open" /\ serving[c] # "none" /\ UNCHANGED <<made, state, toServer>>
        /\ \A d \in Conn \ {c} : toClient'[d] = toClient[d] /\ serving'[d] = serving[d]
    BY <1>6, Serves, MethodsAssumption
  <2> QED BY <2>1 DEF Connections
<1>7. ASSUME NEW c \in Conn, Break(c) PROVE Connections'
  <2>1. ~(c > made)
    <3>1. c <= made
      BY <1>7, Breaks
    <3>2. made \in Int /\ c \in Int
      BY DEF TypeInv, Conn
    <3> QED BY <3>1, <3>2
  <2> QED BY <1>7, <2>1, Breaks DEF Connections
<1>8. ASSUME NEW t \in Thread, CallMethod(t) \/ NewConnect(t) \/ Recv(t) \/ ReceiveEof(t) \/ ReceiveError(t) PROVE Connections'
  BY <1>2, <1>8, CallStarts, Connects, Recvs, Stops DEF OnlyMoves
<1>9. ASSUME NEW t \in Thread, ReceiveCut(t) PROVE Connections'
  <2>1. PICK d \in Conn : d = fd[t] /\ d <= made
    BY <1>9, CutEnds
  <2>2. \A c \in Conn : c # d => toClient'[c] = toClient[c]
    BY <1>9, <2>1, CutEnds
  <2>3. ~(d > made)
    BY <2>1, MethodsAssumption DEF TypeInv, Conn
  <2>4. UNCHANGED <<made, state, toServer, serving>>
    BY <1>9, CutEnds
  <2> QED BY <2>1, <2>2, <2>3, <2>4 DEF Connections
<1> QED BY <1>1, <1>3, <1>4, <1>5, <1>6, <1>7, <1>8, <1>9, Steps

LEMMA SentOnceKept ==
    ASSUME TypeInv, SentOnce, [Next]_vars
    PROVE  SentOnce'
<1>1. CASE UNCHANGED vars
  BY <1>1 DEF vars, connVars, clientVars, SentOnce
<1>2. ASSUME NEW t \in Thread, pc[t] \notin {"recv", "wait", "done"} \/ pc'[t] \in {"recv", "wait", "done"},
             UNCHANGED toServer, \A u \in Thread \ {t} : pc'[u] = pc[u]
      PROVE  SentOnce'
  <2>1. ASSUME NEW c \in Conn, NEW u \in Askers(toServer[c]) PROVE pc'[u] \in {"recv", "wait", "done"}
    <3>1. u \in Thread /\ pc[u] \in {"recv", "wait", "done"}
      BY <2>1, AskersAreThreads DEF SentOnce, TypeInv
    <3> QED BY <1>2, <3>1
  <2> QED BY <1>2, <2>1 DEF SentOnce
<1>3. ASSUME NEW t \in Thread, Send(t) PROVE SentOnce'
  <2>1. CASE UNCHANGED toServer
    BY <1>2, <1>3, <2>1, Sends
  <2>2. CASE /\ m_clientFd \in Conn /\ pc'[t] = "recv"
             /\ toServer' = [toServer EXCEPT ![m_clientFd] = @ \o Request[t]]
    <3>0. PICK c \in Conn : c = m_clientFd
      BY <2>2
    <3>1. PICK s : c = m_clientFd /\ s = toServer[c] /\ s \in Seq(Unit)
      BY <3>0 DEF TypeInv
    <3>2. t \notin Askers(s) /\ AsksOnce(s)
      BY <1>3, <3>1, Sends DEF SentOnce
    <3>3. PICK all : all = s \o Request[t]
      OBVIOUS
    <3>4. Askers(all) = Askers(s) \cup {t} /\ AsksOnce(all)
      BY <3>1, <3>2, <3>3, AskersSent
    <3>5. toServer'[c] = all /\ \A d \in Conn \ {c} : toServer'[d] = toServer[d]
      BY <2>2, <3>1, <3>3 DEF TypeInv
    <3>6. ASSUME NEW d \in Conn, NEW u \in Askers(toServer'[d]) PROVE pc'[u] \in {"recv", "wait", "done"}
      <4>1. u = t \/ u \in Askers(toServer[d])
        BY <3>1, <3>4, <3>5, <3>6
      <4>2. u \in Askers(toServer[d]) => u \in Thread /\ pc[u] \in {"recv", "wait", "done"}
        BY AskersAreThreads DEF SentOnce, TypeInv
      <4> QED BY <1>3, <2>2, <4>1, <4>2, Sends
    <3>7. \A d \in Conn : AsksOnce(toServer'[d])
      BY <3>4, <3>5 DEF SentOnce
    <3> QED BY <3>6, <3>7 DEF SentOnce
  <2> QED BY <1>3, <2>1, <2>2, Sends
<1>4. ASSUME NEW c \in Conn, OnMessage(c) PROVE SentOnce'
  <2>1. AsksOnce(toServer[c])
    BY DEF SentOnce
  <2>2. /\ UNCHANGED pc /\ \A d \in Conn \ {c} : toServer'[d] = toServer[d]
        /\ Askers(toServer'[c]) \subseteq Askers(toServer[c]) /\ AsksOnce(toServer'[c])
    BY <1>4, <2>1, Unpacks
  <2>3. \A d \in Conn : Askers(toServer'[d]) \subseteq Askers(toServer[d]) /\ AsksOnce(toServer'[d])
    BY <2>2 DEF SentOnce
  <2> QED BY <2>2, <2>3 DEF SentOnce
<1>5. ASSUME NEW c \in Conn, Break(c) PROVE SentOnce'
  <2>1. \A d \in Conn : toServer'[d] = toServer[d] \/ (Askers(toServer'[d]) = {} /\ AsksOnce(toServer'[d]))
    BY <1>5, Breaks, NobodyAsks
  <2> QED BY <1>5, <2>1, Breaks DEF SentOnce
<1>6. ASSUME NEW c \in Conn, Serve(c) PROVE SentOnce'
  BY <1>6, Serves DEF SentOnce
<1>7. ASSUME NEW t \in Thread, CallMethod(t) \/ NewConnect(t) \/ Recv(t) \/ ReceiveEof(t) \/ ReceiveError(t) PROVE SentOnce'
  BY <1>2, <1>7, CallStarts, Connects, Recvs, Stops DEF OnlyMoves
<1>8. ASSUME NEW t \in Thread, Receive(t) \/ ReceiveCut(t) PROVE SentOnce'
  BY <1>2, <1>8, ReceivesEnd, CutEnds
<1> QED BY <1>1, <1>3, <1>4, <1>5, <1>6, <1>7, <1>8, Steps

LEMMA ServedTypedKept ==
    ASSUME TypeInv, SentOnce, ServedTyped, [Next]_vars
    PROVE  /\ ServedTyped'
           /\ \A t \in Thread : served[t] \subseteq served'[t]
<1>1. CASE UNCHANGED served
  BY <1>1 DEF ServedTyped
<1>2. ASSUME NEW c \in Conn, Serve(c) PROVE ServedTyped' /\ \A t \in Thread : served[t] \subseteq served'[t]
  <2>0. PICK t \in Thread : t = serving[c]
    BY <1>2, Serves
  <2>1. PICK term \in Nat \ {0} : \E reply \in Replies(t, term) : GivesReply(c, t, reply)
    BY <1>2, <2>0, Serves
  <2>2. PICK reply \in Replies(t, term) : GivesReply(c, t, reply)
    BY <2>1
  <2>3. \A u \in Thread : \A r \in served'[u] : \E n \in Nat \ {0} : r \in Replies(u, n)
    BY <2>2 DEF ServedTyped, GivesReply
  <2>4. ServedTyped'
    BY <2>3 DEF ServedTyped
  <2> QED BY <2>2, <2>4 DEF GivesReply
<1>3. ASSUME NEW c \in Conn, OnMessage(c) PROVE UNCHANGED served
  BY <1>3, Unpacks DEF SentOnce
<1>4. ASSUME NEW c \in Conn, Break(c) PROVE UNCHANGED served
  BY <1>4, Breaks
<1>5. ASSUME NEW t \in Thread, \/ CallMethod(t) \/ NewConnect(t) \/ Send(t) \/ Recv(t)
                               \/ Receive(t) \/ ReceiveCut(t) \/ ReceiveEof(t) \/ ReceiveError(t)
      PROVE  UNCHANGED served
  BY <1>5, CallStarts, Connects, Sends, Recvs, ReceivesEnd, CutEnds, Stops DEF OnlyMoves
<1>6. UNCHANGED vars => UNCHANGED served
  BY DEF vars, peerVars
<1> QED BY <1>1, <1>2, <1>3, <1>4, <1>5, <1>6, Steps
---------------------------------------------------------------------------
(* No more on the way than threads wait for.                               *)

InFlight(c) == Cardinality(Askers(toServer[c])) + Busy(c) + Len(toClient[c])

LEMMA Counts ==
    ASSUME TypeInv, NEW c \in Conn
    PROVE  /\ IsFiniteSet(Askers(toServer[c])) /\ Cardinality(Askers(toServer[c])) \in Nat
           /\ IsFiniteSet(Waiting(c)) /\ Cardinality(Waiting(c)) \in Nat
           /\ Len(toClient[c]) \in Nat /\ Busy(c) \in {0, 1} /\ InFlight(c) \in Nat
<1>1. Askers(toServer[c]) \subseteq Thread /\ Waiting(c) \subseteq Thread
  <2>1. toServer[c] \in Seq(Unit)
    BY DEF TypeInv
  <2> QED BY <2>1, AskersAreThreads DEF Waiting
<1>2. IsFiniteSet(Askers(toServer[c])) /\ IsFiniteSet(Waiting(c))
  BY <1>1, MethodsAssumption, FS_Subset
<1>3. Cardinality(Askers(toServer[c])) \in Nat /\ Cardinality(Waiting(c)) \in Nat
  BY <1>2, FS_CardinalityType
<1>4. Len(toClient[c]) \in Nat
  BY LenProperties DEF TypeInv
<1>5. Busy(c) \in {0, 1}
  BY DEF Busy
<1> QED BY <1>2, <1>3, <1>4, <1>5 DEF InFlight

LEMMA NothingInFlight ==
    ASSUME NEW c, toServer[c] = <<>>, serving[c] = "none", toClient[c] = <<>>
    PROVE  InFlight(c) = 0
<1>1. Cardinality(Askers(toServer[c])) = 0
  BY NobodyAsks, FS_EmptySet
<1>2. Len(toClient[c]) = 0
  OBVIOUS
<1> QED BY <1>1, <1>2 DEF InFlight, Busy

LEMMA CountedAtStart == Init => Counted
  BY DEF Init, Counted

\* A step that leaves the connection's traffic or lessens it, and loses no thread
\* that waits.
LEMMA CountedStays ==
    ASSUME TypeInv, TypeInv', NEW c \in Conn, InFlight(c) <= Cardinality(Waiting(c)),
           Askers(toServer'[c]) \subseteq Askers(toServer[c]),
           serving'[c] \in {serving[c], "none"}, toClient'[c] = toClient[c], Waiting(c) \subseteq Waiting(c)'
    PROVE  InFlight(c)' <= Cardinality(Waiting(c)')
<1>1. Cardinality(Askers(toServer'[c])) <= Cardinality(Askers(toServer[c]))
  BY Counts, FS_Subset
<1>2. /\ IsFiniteSet(Waiting(c)') /\ Cardinality(Waiting(c)') \in Nat
      /\ Cardinality(Askers(toServer'[c])) \in Nat
  <2>1. Waiting(c)' \subseteq Thread /\ Askers(toServer'[c]) \subseteq Thread
    BY AskersAreThreads, Counts DEF Waiting, TypeInv
  <2> QED BY <2>1, MethodsAssumption, FS_Subset, FS_CardinalityType
<1>3. Cardinality(Waiting(c)) <= Cardinality(Waiting(c)')
  BY <1>2, FS_Subset
<1>4. Busy(c)' <= Busy(c) /\ Busy(c)' \in {0, 1} /\ Busy(c) \in {0, 1}
  BY DEF Busy
<1>5. InFlight(c)' = Cardinality(Askers(toServer'[c])) + Busy(c)' + Len(toClient[c])
  BY DEF InFlight
<1>6. InFlight(c) = Cardinality(Askers(toServer[c])) + Busy(c) + Len(toClient[c])
  BY DEF InFlight
<1>7. Len(toClient[c]) \in Nat /\ Cardinality(Waiting(c)) \in Nat /\ Cardinality(Askers(toServer[c])) \in Nat
  BY Counts
<1> QED BY <1>1, <1>2, <1>3, <1>4, <1>5, <1>6, <1>7

LEMMA CountedSent ==
    ASSUME TypeInv, SentOnce, NEW t \in Thread, Send(t), m_clientFd \in Conn,
           InFlight(m_clientFd) <= Cardinality(Waiting(m_clientFd)), m_clientFd' # NoConn, TypeInv'
    PROVE  InFlight(m_clientFd)' <= Cardinality(Waiting(m_clientFd)')
<1>0. PICK c \in Conn : c = m_clientFd
  OBVIOUS
<1>1. /\ m_clientFd' = m_clientFd /\ pc[t] = "send" /\ pc'[t] = "recv" /\ UNCHANGED <<fd, toClient, serving>>
      /\ \A u \in Thread \ {t} : pc'[u] = pc[u]
  BY Sends
<1>2. Waiting(c)' = Waiting(c) \cup {t} /\ t \notin Waiting(c)
  BY <1>1 DEF Waiting
<1>3. CASE UNCHANGED toServer
  <2>1. InFlight(c)' <= Cardinality(Waiting(c)')
    BY <1>0, <1>1, <1>2, <1>3, CountedStays
  <2> QED BY <1>0, <1>1, <2>1
<1>4. CASE toServer' = [toServer EXCEPT ![m_clientFd] = @ \o Request[t]]
  <2>1. PICK s : s = toServer[c] /\ s \in Seq(Unit)
    BY DEF TypeInv
  <2>2. t \notin Askers(s) /\ AsksOnce(s)
    BY <1>1, <2>1 DEF SentOnce
  <2>3. PICK all : all = s \o Request[t]
    OBVIOUS
  <2>4. Askers(all) = Askers(s) \cup {t}
    BY <2>1, <2>2, <2>3, AskersSent
  <2>5. toServer'[c] = all
    BY <1>0, <1>4, <2>1, <2>3 DEF TypeInv
  <2>6. Cardinality(Askers(all)) = Cardinality(Askers(s)) + 1
    BY <2>1, <2>2, <2>4, Counts, FS_AddElement
  <2>7. Cardinality(Waiting(c)') = Cardinality(Waiting(c)) + 1
    BY <1>2, Counts, FS_AddElement
  <2>8. InFlight(c)' = Cardinality(Askers(all)) + Busy(c) + Len(toClient[c])
    BY <1>1, <2>5 DEF InFlight, Busy
  <2>9. InFlight(c) = Cardinality(Askers(s)) + Busy(c) + Len(toClient[c])
    BY <2>1 DEF InFlight
  <2>10. /\ Len(toClient[c]) \in Nat /\ Busy(c) \in {0, 1} /\ Cardinality(Waiting(c)) \in Nat
         /\ Cardinality(Askers(s)) \in Nat
    BY <2>1, Counts
  <2>11. InFlight(c) <= Cardinality(Waiting(c))
    BY <1>0
  <2>12. InFlight(c)' <= Cardinality(Waiting(c)')
    BY <2>6, <2>7, <2>8, <2>9, <2>10, <2>11
  <2> QED BY <1>0, <1>1, <2>12
<1> QED BY <1>1, <1>3, <1>4, Sends

LEMMA CountedReceived ==
    ASSUME TypeInv, TypeInv', NEW t \in Thread, Receive(t), NEW c \in Conn, InFlight(c) <= Cardinality(Waiting(c))
    PROVE  InFlight(c)' <= Cardinality(Waiting(c)')
<1>1. /\ pc[t] = "wait" /\ pc'[t] = "done" /\ UNCHANGED <<fd, toServer, serving>>
      /\ \A u \in Thread \ {t} : pc'[u] = pc[u]
  BY ReceivesEnd
<1>2. PICK n \in 1 .. Len(toClient[fd[t]]) : toClient' = [toClient EXCEPT ![fd[t]] = SubSeq(@, n + 1, Len(@))]
  BY ReceivesEnd DEF ResponseFrom
<1>3. CASE fd[t] = c
  <2>1. Waiting(c)' = Waiting(c) \ {t} /\ t \in Waiting(c)
    BY <1>1, <1>3 DEF Waiting
  <2>2. Cardinality(Waiting(c)') = Cardinality(Waiting(c)) - 1
    BY <2>1, Counts, FS_RemoveElement
  <2>3. PICK s : s = toClient[c] /\ s \in Seq(Seq(Wired))
    BY DEF TypeInv
  <2>4. toClient'[c] = SubSeq(s, n + 1, Len(s)) /\ n \in 1 .. Len(s)
    BY <1>2, <1>3, <2>3 DEF TypeInv
  <2>5. Len(toClient'[c]) = Len(s) - n /\ n >= 1 /\ n \in Nat
    BY <2>3, <2>4, Taken, LenProperties
  <2>6. InFlight(c)' = Cardinality(Askers(toServer[c])) + Busy(c) + Len(toClient'[c])
    BY <1>1 DEF InFlight, Busy
  <2>7. InFlight(c) = Cardinality(Askers(toServer[c])) + Busy(c) + Len(s)
    BY <2>3 DEF InFlight
  <2>8. /\ Len(s) \in Nat /\ Busy(c) \in {0, 1} /\ Cardinality(Waiting(c)) \in Nat
        /\ Cardinality(Askers(toServer[c])) \in Nat
    BY <2>3, Counts
  <2> QED BY <2>2, <2>5, <2>6, <2>7, <2>8
<1>4. CASE fd[t] # c
  <2>1. Waiting(c)' = Waiting(c)
    BY <1>1, <1>4 DEF Waiting
  <2>2. toClient'[c] = toClient[c]
    BY <1>2, <1>4 DEF TypeInv
  <2> QED BY <1>1, <2>1, <2>2, CountedStays
<1> QED BY <1>3, <1>4

\* A recv that ends inside a reply matters to its own connection only.
LEMMA CountedCut ==
    ASSUME TypeInv, TypeInv', NEW t \in Thread, ReceiveCut(t), NEW c \in Conn, c # fd[t],
           InFlight(c) <= Cardinality(Waiting(c))
    PROVE  InFlight(c)' <= Cardinality(Waiting(c)')
<1>1. /\ pc[t] = "wait" /\ pc'[t] = "done" /\ UNCHANGED <<fd, toServer, serving>>
      /\ \A u \in Thread \ {t} : pc'[u] = pc[u]
      /\ toClient'[c] = toClient[c]
  BY CutEnds
<1>2. Waiting(c)' = Waiting(c)
  BY <1>1 DEF Waiting
<1> QED BY <1>1, <1>2, CountedStays

LEMMA CountedTaken ==
    ASSUME TypeInv, TypeInv', SentOnce, NEW d \in Conn, OnMessage(d), NEW c \in Conn, InFlight(c) <= Cardinality(Waiting(c))
    PROVE  InFlight(c)' <= Cardinality(Waiting(c)')
<1>1. /\ serving[d] = "none" /\ UNCHANGED <<pc, fd, toClient>>
      /\ \A e \in Conn \ {d} : toServer'[e] = toServer[e] /\ serving'[e] = serving[e]
      /\ Askers(toServer'[d]) \subseteq Askers(toServer[d])
      /\ \/ serving'[d] = "none"
         \/ serving'[d] \in Askers(toServer[d]) /\ serving'[d] \notin Askers(toServer'[d])
  BY Unpacks DEF SentOnce
<1>2. Waiting(c)' = Waiting(c)
  BY <1>1 DEF Waiting
<1>3. CASE c # d \/ serving'[d] = "none"
  BY <1>1, <1>2, <1>3, CountedStays
<1>4. CASE c = d /\ serving'[d] # "none"
  <2>1. PICK u, A, B : u = serving'[c] /\ A = Askers(toServer[c]) /\ B = Askers(toServer'[c])
    OBVIOUS
  <2>2. u \in A /\ B \subseteq A \ {u} /\ IsFiniteSet(A) /\ Cardinality(A) \in Nat
    BY <1>1, <1>4, <2>1, Counts
  <2>3. IsFiniteSet(A \ {u}) /\ Cardinality(A \ {u}) = Cardinality(A) - 1
    BY <2>2, FS_RemoveElement
  <2>4. IsFiniteSet(B) /\ Cardinality(B) <= Cardinality(A) - 1
    BY <2>2, <2>3, FS_Subset
  <2>5. Cardinality(B) \in Nat
    BY <2>4, FS_CardinalityType
  <2>6. InFlight(c) = Cardinality(A) + 0 + Len(toClient[c])
    BY <1>1, <1>4, <2>1 DEF InFlight, Busy
  <2>7. InFlight(c)' = Cardinality(B) + 1 + Len(toClient[c])
    BY <1>1, <1>4, <2>1 DEF InFlight, Busy
  <2>8. Len(toClient[c]) \in Nat /\ Cardinality(Waiting(c)) \in Nat
    BY Counts
  <2> QED BY <1>2, <2>2, <2>4, <2>5, <2>6, <2>7, <2>8
<1> QED BY <1>3, <1>4

LEMMA CountedServed ==
    ASSUME TypeInv, TypeInv', NEW d \in Conn, Serve(d), NEW c \in Conn, InFlight(c) <= Cardinality(Waiting(c))
    PROVE  InFlight(c)' <= Cardinality(Waiting(c)')
<1>1. /\ serving[d] # "none" /\ serving'[d] = "none" /\ UNCHANGED <<pc, fd, toServer>>
      /\ \A e \in Conn \ {d} : toClient'[e] = toClient[e] /\ serving'[e] = serving[e]
  BY Serves, MethodsAssumption
<1>2. Waiting(c)' = Waiting(c)
  BY <1>1 DEF Waiting
<1>3. PICK t \in Thread : t = serving[d]
  BY Serves
<1>4. PICK term \in Nat \ {0} : \E reply \in Replies(t, term) : GivesReply(d, t, reply)
  BY <1>3, Serves
<1>5. PICK reply \in Replies(t, term) : GivesReply(d, t, reply)
  BY <1>4
<1>6. PICK bytes : bytes = SerializeToString(ReplyType(t), reply) /\ bytes \in Seq(Wired)
  BY BytesWired
<1>7. CASE c # d \/ toClient'[d] = toClient[d]
  BY <1>1, <1>2, <1>7, CountedStays
<1>8. CASE c = d /\ toClient'[d] = Append(toClient[d], bytes)
  <2>1. PICK s : s = toClient[c] /\ s \in Seq(Seq(Wired))
    BY DEF TypeInv
  <2>2. Len(toClient'[c]) = Len(s) + 1
    BY <1>6, <1>8, <2>1, AppendProperties
  <2>3. InFlight(c)' = Cardinality(Askers(toServer[c])) + 0 + Len(toClient'[c])
    BY <1>1, <1>8 DEF InFlight, Busy
  <2>4. InFlight(c) = Cardinality(Askers(toServer[c])) + 1 + Len(s)
    BY <1>1, <1>8, <2>1 DEF InFlight, Busy
  <2>5. Len(s) \in Nat /\ Cardinality(Waiting(c)) \in Nat /\ Cardinality(Askers(toServer[c])) \in Nat
    BY <2>1, Counts
  <2> QED BY <1>2, <2>2, <2>3, <2>4, <2>5
<1> QED BY <1>5, <1>6, <1>7, <1>8 DEF GivesReply

\* A connection stays cut; only a recv cuts one.
LEMMA CutGrows ==
    ASSUME TypeInv, SentOnce, [Next]_vars
    PROVE  /\ cut \subseteq cut'
           /\ \A t \in Thread : ReceiveCut(t) => fd[t] \in cut'
<1>1. \A t \in Thread : ReceiveCut(t) => cut' = cut \cup {fd[t]}
  BY CutEnds
<1>2. \A t \in Thread : \/ CallMethod(t) \/ NewConnect(t) \/ Send(t) \/ Recv(t)
                         \/ Receive(t) \/ ReceiveEof(t) \/ ReceiveError(t) => UNCHANGED cut
  BY CallStarts, Connects, Sends, Recvs, ReceivesEnd, Stops DEF OnlyMoves
<1>3. \A c \in Conn : OnMessage(c) \/ Serve(c) \/ Break(c) => UNCHANGED cut
  BY Unpacks, Serves, Breaks DEF SentOnce
<1>4. UNCHANGED vars => UNCHANGED cut
  BY DEF vars, connVars
<1> QED BY <1>1, <1>2, <1>3, <1>4, Steps

LEMMA CountedKept ==
    ASSUME TypeInv, Connections, SentOnce, Counted, [Next]_vars
    PROVE  Counted'
<1>0. TypeInv'
  BY TypesKept
<1> SUFFICES ASSUME m_clientFd' # NoConn, m_clientFd' \notin cut'
             PROVE  Cardinality(Askers(toServer[m_clientFd])) ' + Busy(m_clientFd)' + Len(toClient[m_clientFd])'
                        <= Cardinality(Waiting(m_clientFd))'
  BY DEF Counted
<1> PICK c \in Conn : c = m_clientFd'
  BY <1>0, MethodsAssumption DEF TypeInv, Conn, NoConn
<1>3. c \notin cut /\ \A t \in Thread : ReceiveCut(t) => c # fd[t]
  BY CutGrows
<1> SUFFICES InFlight(c)' <= Cardinality(Waiting(c)')
  BY DEF InFlight, Busy, Waiting
<1>1. CASE m_clientFd' # m_clientFd
  <2>1. PICK t \in Thread : NewConnect(t)
    BY <1>1, Steps, CallStarts, Connects, Sends, Recvs, ReceivesEnd, CutEnds, Stops, Unpacks, Serves, Breaks DEF vars, clientVars, SentOnce
  <2>2. c = made + 1 /\ UNCHANGED <<toServer, toClient, serving>>
    BY <1>1, <2>1, Connects DEF OnlyMoves
  <2>3. c > made
    BY <2>2, MethodsAssumption DEF TypeInv
  <2>4. toServer[c] = <<>> /\ serving[c] = "none" /\ toClient[c] = <<>>
    BY <2>3 DEF Connections
  <2>5. InFlight(c) = 0 /\ InFlight(c)' = InFlight(c)
    BY <2>2, <2>4, NothingInFlight DEF InFlight, Busy
  <2>6. Cardinality(Waiting(c)') \in Nat
    <3>1. Waiting(c)' \subseteq Thread
      BY DEF Waiting
    <3> QED BY <3>1, MethodsAssumption, FS_Subset, FS_CardinalityType
  <2> QED BY <2>5, <2>6
<1>2. CASE m_clientFd' = m_clientFd
  <2>0. InFlight(c) <= Cardinality(Waiting(c))
    BY <1>2, <1>3 DEF Counted, InFlight
  <2>1. CASE UNCHANGED vars
    BY <2>0, <2>1 DEF vars, clientVars, connVars, peerVars, InFlight, Busy, Waiting
  <2>2. ASSUME NEW t \in Thread, CallMethod(t) \/ NewConnect(t) \/ Recv(t)
        PROVE  InFlight(c)' <= Cardinality(Waiting(c)')
    <3>1. OnlyMoves(t) /\ (pc[t] \in {"idle", "connect"} \/ (pc[t] = "recv" /\ pc'[t] = "wait" /\ fd'[t] = c))
      BY <1>2, <2>2, CallStarts, Connects, Recvs
    <3>2. Waiting(c) \subseteq Waiting(c)'
      BY <3>1 DEF OnlyMoves, Waiting
    <3> QED BY <1>0, <2>0, <3>1, <3>2, CountedStays DEF OnlyMoves
  <2>3. ASSUME NEW t \in Thread, Send(t) PROVE InFlight(c)' <= Cardinality(Waiting(c)')
    <3>1. m_clientFd \in Conn /\ InFlight(m_clientFd) <= Cardinality(Waiting(m_clientFd))
      BY <1>2, <2>0
    <3>2. InFlight(m_clientFd)' <= Cardinality(Waiting(m_clientFd)')
      BY <1>0, <2>3, <3>1, CountedSent
    <3> QED BY <3>2 DEF InFlight, Busy, Waiting
  <2>4. ASSUME NEW t \in Thread, ReceiveEof(t) \/ ReceiveError(t) PROVE InFlight(c)' <= Cardinality(Waiting(c)')
    <3>1. /\ OnlyMoves(t) /\ pc[t] = "wait" /\ pc'[t] = "done" /\ UNCHANGED fd
          /\ state[fd[t]] = "closed" /\ toClient[fd[t]] = <<>>
      BY <1>2, <2>4, Stops
    <3>2. CASE fd[t] = c
      <4>1. toServer[c] = <<>> /\ serving[c] = "none" /\ toClient[c] = <<>>
        BY <3>1, <3>2 DEF Connections
      <4>2. InFlight(c) = 0 /\ InFlight(c)' = InFlight(c)
        BY <3>1, <4>1, NothingInFlight DEF InFlight, Busy, OnlyMoves
      <4>3. Cardinality(Waiting(c)') \in Nat
        <5>1. Waiting(c)' \subseteq Thread
          BY DEF Waiting
        <5> QED BY <5>1, MethodsAssumption, FS_Subset, FS_CardinalityType
      <4> QED BY <4>2, <4>3
    <3>3. CASE fd[t] # c
      <4>1. Waiting(c)' = Waiting(c)
        BY <3>1, <3>3 DEF Waiting, OnlyMoves
      <4> QED BY <1>0, <2>0, <3>1, <4>1, CountedStays DEF OnlyMoves
    <3> QED BY <3>2, <3>3
  <2>5. ASSUME NEW d \in Conn, Break(d) PROVE InFlight(c)' <= Cardinality(Waiting(c)')
    <3>1. /\ UNCHANGED <<pc, fd, toClient>> /\ serving'[c] \in {serving[c], "none"}
          /\ Askers(toServer'[c]) \subseteq Askers(toServer[c])
      BY <2>5, Breaks, NobodyAsks
    <3>2. Waiting(c)' = Waiting(c)
      BY <3>1 DEF Waiting
    <3> QED BY <1>0, <2>0, <3>1, <3>2, CountedStays
  <2>6. ASSUME NEW t \in Thread, ReceiveCut(t) PROVE InFlight(c)' <= Cardinality(Waiting(c)')
    BY <1>0, <1>3, <2>0, <2>6, CountedCut
  <2> QED BY <1>0, <2>0, <2>1, <2>2, <2>3, <2>4, <2>5, <2>6, CountedReceived, CountedTaken, CountedServed, Steps
<1> QED BY <1>1, <1>2
---------------------------------------------------------------------------
(* A call that has the channel to itself.                                  *)

LEMMA AloneAtStart == Init => Alone /\ OwnReplyWhenAlone
<1> SUFFICES ASSUME Init PROVE Alone /\ OwnReplyWhenAlone
  OBVIOUS
<1>1. \A t \in Thread : pc[t] = "idle"
  BY DEF Init
<1> QED BY <1>1 DEF Alone, OwnReplyWhenAlone, Active

\* A call alone and about to send finds its connection empty.
LEMMA EmptyWhenAlone ==
    ASSUME TypeInv, Counted, NEW t \in Thread, Active = {t}, pc[t] = "send",
           m_clientFd \in Conn, m_clientFd # NoConn, m_clientFd \notin cut
    PROVE  Askers(toServer[m_clientFd]) = {} /\ serving[m_clientFd] = "none" /\ Len(toClient[m_clientFd]) = 0
<1> PICK c \in Conn : c = m_clientFd
  OBVIOUS
<1>1. Waiting(c) = {}
  <2>1. \A u \in Thread : pc[u] \in {"recv", "wait"} => u = t
    BY DEF Active
  <2> QED BY <2>1 DEF Waiting
<1>2. Cardinality(Waiting(c)) = 0
  BY <1>1, FS_EmptySet
<1>3. Cardinality(Askers(toServer[c])) + Busy(c) + Len(toClient[c]) <= 0
  BY <1>2 DEF Counted
<1>4. /\ Cardinality(Askers(toServer[c])) \in Nat /\ Busy(c) \in {0, 1} /\ Len(toClient[c]) \in Nat
      /\ IsFiniteSet(Askers(toServer[c]))
  BY Counts
<1>5. Cardinality(Askers(toServer[c])) = 0 /\ Busy(c) = 0 /\ Len(toClient[c]) = 0
  BY <1>3, <1>4
<1>6. Askers(toServer[c]) = {}
  BY <1>4, <1>5, FS_EmptySet
<1> QED BY <1>5, <1>6 DEF Busy

\* What Alone says of the call u.
IsAlone(u) ==
    /\ Active = {u}
    /\ pc[u] = "wait" => m_clientFd = fd[u]
    /\ pc[u] \in {"recv", "wait"} /\ m_clientFd # NoConn /\ m_clientFd \notin cut =>
            /\ Askers(toServer[m_clientFd]) \subseteq {u}
            /\ serving[m_clientFd] \in {"none", u}
            /\ \A i \in 1 .. Len(toClient[m_clientFd]) : Carries(u, toClient[m_clientFd][i], served[u])

LEMMA AloneSends ==
    ASSUME TypeInv, TypeInv', SentOnce, Counted, NEW u \in Thread, IsAlone(u), Send(u)
    PROVE  IsAlone(u)'
<1>1. /\ pc[u] = "send" /\ UNCHANGED <<fd, toClient, serving, served, cut>> /\ \A v \in Thread \ {u} : pc'[v] = pc[v]
      /\ pc'[u] \in {"connect", "recv"}
  BY Sends
<1>2. Active' = {u}
  BY <1>1 DEF IsAlone, Active
<1>3. CASE pc'[u] = "connect"
  BY <1>2, <1>3 DEF IsAlone
<1>5. CASE m_clientFd' \in cut
  BY <1>1, <1>2, <1>5 DEF IsAlone
<1>4. CASE pc'[u] = "recv" /\ m_clientFd' \notin cut
  <2>1. PICK c \in Conn : /\ c = m_clientFd /\ m_clientFd' = m_clientFd /\ m_clientFd # NoConn
                          /\ \/ UNCHANGED toServer
                             \/ toServer' = [toServer EXCEPT ![c] = @ \o Request[u]]
    BY <1>4, Sends
  <2>2. Askers(toServer[c]) = {} /\ serving[c] = "none" /\ Len(toClient[c]) = 0
    BY <1>1, <1>4, <2>1, EmptyWhenAlone DEF IsAlone
  <2>3. Askers(toServer'[c]) \subseteq {u}
    <3>1. CASE UNCHANGED toServer
      BY <2>2, <3>1
    <3>2. CASE toServer' = [toServer EXCEPT ![c] = @ \o Request[u]]
      <4>1. PICK s : s = toServer[c] /\ s \in Seq(Unit)
        BY DEF TypeInv
      <4>2. PICK all : all = s \o Request[u]
        OBVIOUS
      <4>3. Askers(s) = {} /\ AsksOnce(s)
        BY <2>2, <4>1 DEF SentOnce
      <4>4. Askers(all) = {u}
        BY <4>1, <4>2, <4>3, AskersSent
      <4>5. toServer'[c] = all
        BY <3>2, <4>1, <4>2 DEF TypeInv
      <4> QED BY <4>4, <4>5
    <3> QED BY <2>1, <3>1, <3>2
  <2>4. serving'[c] = "none" /\ Len(toClient'[c]) = 0
    BY <1>1, <2>2
  <2>5. \A i \in 1 .. Len(toClient'[c]) : FALSE
    BY <2>4
  <2> HIDE <2>4
  <2>6. m_clientFd' = c
    BY <2>1
  <2> QED BY <1>2, <1>4, <2>3, <2>4, <2>5, <2>6 DEF IsAlone
<1> QED BY <1>1, <1>3, <1>4, <1>5

\* The provider works on: what is on the connection stays the call's own.
LEMMA AloneServed ==
    ASSUME TypeInv, SentOnce, NEW u \in Thread, IsAlone(u), NEW d \in Conn, OnMessage(d) \/ Serve(d) \/ Break(d),
           served[u] \subseteq served'[u]
    PROVE  IsAlone(u)'
<1>1. UNCHANGED <<m_clientFd, pc, fd, cut>>
  BY Unpacks, Serves, Breaks DEF SentOnce
<1>2. Active' = {u}
  BY <1>1 DEF IsAlone, Active
<1> SUFFICES ASSUME pc[u] \in {"recv", "wait"}, m_clientFd # NoConn, m_clientFd \notin cut
             PROVE  /\ Askers(toServer'[m_clientFd]) \subseteq {u}
                    /\ serving'[m_clientFd] \in {"none", u}
                    /\ \A i \in 1 .. Len(toClient'[m_clientFd]) : Carries(u, toClient'[m_clientFd][i], served'[u])
  BY <1>1, <1>2 DEF IsAlone
<1> PICK c \in Conn : c = m_clientFd
  BY MethodsAssumption DEF TypeInv, Conn, NoConn
<1>3. /\ Askers(toServer[c]) \subseteq {u} /\ serving[c] \in {"none", u}
      /\ \A i \in 1 .. Len(toClient[c]) : Carries(u, toClient[c][i], served[u])
  BY DEF IsAlone
<1>4. \A i \in 1 .. Len(toClient[c]) : Carries(u, toClient[c][i], served'[u])
  BY <1>3 DEF Carries
<1>5. CASE OnMessage(d)
  <2>1. /\ UNCHANGED toClient /\ \A e \in Conn \ {d} : toServer'[e] = toServer[e] /\ serving'[e] = serving[e]
        /\ Askers(toServer'[d]) \subseteq Askers(toServer[d])
        /\ serving'[d] = "none" \/ serving'[d] \in Askers(toServer[d])
    BY <1>5, Unpacks DEF SentOnce
  <2>2. Askers(toServer'[c]) \subseteq {u} /\ serving'[c] \in {"none", u}
    BY <1>3, <2>1
  <2> QED BY <1>4, <2>1, <2>2
<1>6. CASE Break(d)
  <2>1. UNCHANGED toClient /\ Askers(toServer'[c]) \subseteq {u} /\ serving'[c] \in {"none", u}
    BY <1>3, <1>6, Breaks, NobodyAsks
  <2> QED BY <1>4, <2>1
<1>7. CASE Serve(d)
  <2>1. /\ UNCHANGED toServer /\ serving'[d] = "none" /\ serving[d] \in Thread
        /\ \A e \in Conn \ {d} : toClient'[e] = toClient[e] /\ serving'[e] = serving[e]
    BY <1>7, Serves
  <2>2. Askers(toServer'[c]) \subseteq {u} /\ serving'[c] \in {"none", u}
    BY <1>3, <2>1
  <2>3. CASE toClient'[c] = toClient[c]
    BY <1>4, <2>2, <2>3
  <2>4. CASE toClient'[c] # toClient[c]
    <3>1. d = c /\ serving[c] = u
      BY <1>3, <2>1, <2>4, MethodsAssumption
    <3>2. PICK term \in Nat \ {0} : \E reply \in Replies(u, term) : GivesReply(c, u, reply)
      BY <1>7, <3>1, Serves
    <3>3. PICK reply \in Replies(u, term) : GivesReply(c, u, reply)
      BY <3>2
    <3>4. PICK bytes : bytes = SerializeToString(ReplyType(u), reply) /\ bytes \in Seq(Wired)
      BY BytesWired
    <3>5. reply \in served'[u] /\ toClient'[c] = Append(toClient[c], bytes)
      BY <2>4, <3>3, <3>4 DEF GivesReply
    <3>6. Carries(u, bytes, served'[u])
      BY <3>4, <3>5 DEF Carries
    <3>7. PICK s, s2 : s = toClient[c] /\ s \in Seq(Seq(Wired)) /\ s2 = toClient'[c]
      BY DEF TypeInv
    <3>8. Len(s) \in Nat /\ Len(s2) = Len(s) + 1 /\ s2[Len(s) + 1] = bytes /\ \A i \in 1 .. Len(s) : s2[i] = s[i]
      BY <3>4, <3>5, <3>7, AppendProperties, LenProperties
    <3>9. ASSUME NEW i \in 1 .. Len(s2) PROVE Carries(u, s2[i], served'[u])
      <4>1. CASE i \in 1 .. Len(s)
        BY <1>4, <3>7, <3>8, <4>1
      <4>2. CASE i = Len(s) + 1
        BY <3>6, <3>8, <4>2
      <4> QED BY <3>8, <3>9, <4>1, <4>2
    <3> QED BY <2>2, <3>7, <3>9
  <2> QED BY <2>3, <2>4
<1> QED BY <1>5, <1>6, <1>7

LEMMA AloneKept ==
    ASSUME TypeInv, SentOnce, ServedTyped, Counted, Alone, [Next]_vars
    PROVE  Alone'
<1>0. TypeInv' /\ \A t \in Thread : served[t] \subseteq served'[t]
  BY TypesKept, ServedTypedKept
<1>1. \A u \in Active \ overlapped : IsAlone(u)
  BY DEF Alone, IsAlone
<1> SUFFICES ASSUME NEW u \in Thread, u \in Active', u \notin overlapped' PROVE IsAlone(u)'
  <2>1. Active' \subseteq Thread
    BY DEF Active
  <2> QED BY <2>1 DEF Alone, IsAlone
<1>2. CASE UNCHANGED vars
  <2>1. IsAlone(u)
    BY <1>1, <1>2 DEF vars, clientVars, Active
  <2> QED BY <1>2, <2>1 DEF vars, clientVars, connVars, peerVars, IsAlone, Active
<1>3. ASSUME NEW t \in Thread, CallMethod(t) PROVE IsAlone(u)'
  <2>1. /\ pc'[t] \in {"connect", "send"} /\ \A v \in Thread \ {t} : pc'[v] = pc[v]
        /\ overlapped' = IF Active = {} THEN overlapped ELSE overlapped \cup Active \cup {t}
    BY <1>3, CallStarts DEF OnlyMoves
  <2>2. Active' \subseteq Active \cup {t} /\ t \in Active'
    BY <2>1 DEF Active
  <2>3. Active = {}
    BY <2>1, <2>2
  <2>4. u = t /\ Active' = {u}
    BY <2>2, <2>3
  <2> QED BY <2>1, <2>4 DEF IsAlone
<1>4. ASSUME NEW t \in Thread, \/ NewConnect(t) \/ Send(t) \/ Recv(t)
                               \/ Receive(t) \/ ReceiveCut(t) \/ ReceiveEof(t) \/ ReceiveError(t)
      PROVE  IsAlone(u)'
  <2>1. /\ pc[t] \in {"connect", "send", "recv", "wait"} /\ \A v \in Thread \ {t} : pc'[v] = pc[v]
        /\ UNCHANGED overlapped
    <3>1. CASE NewConnect(t) \/ Send(t)
      BY <3>1, Connects, Sends DEF OnlyMoves
    <3>2. CASE Recv(t) \/ ReceiveEof(t) \/ ReceiveError(t)
      BY <3>2, Recvs, Stops DEF OnlyMoves
    <3>3. CASE Receive(t) \/ ReceiveCut(t)
      BY <3>3, ReceivesEnd, CutEnds
    <3> QED BY <1>4, <3>1, <3>2, <3>3
  <2>2. IsAlone(u) /\ u = t
    <3>1. t \in Active /\ u \in Active
      BY <2>1 DEF Active
    <3> QED BY <1>1, <2>1, <3>1 DEF IsAlone
  <2>3. pc'[u] # "done"
    BY DEF Active
  <2>4. Active' = {u}
    BY <2>1, <2>2 DEF IsAlone, Active
  <2>5. CASE NewConnect(t)
    BY <2>2, <2>3, <2>4, <2>5, Connects DEF IsAlone
  <2>6. CASE Send(t)
    BY <1>0, <2>2, <2>6, AloneSends
  <2>7. CASE Recv(t)
    <3>1. /\ pc[u] = "recv" /\ pc'[u] = "wait" /\ fd'[u] = m_clientFd /\ UNCHANGED m_clientFd
          /\ UNCHANGED <<toServer, toClient, serving, served, cut>>
      BY <2>2, <2>3, <2>7, Recvs DEF OnlyMoves
    <3> QED BY <2>2, <2>4, <3>1 DEF IsAlone
  <2>8. CASE Receive(t) \/ ReceiveCut(t) \/ ReceiveEof(t) \/ ReceiveError(t)
    BY <2>2, <2>3, <2>8, ReceivesEnd, CutEnds, Stops
  <2> QED BY <1>4, <2>5, <2>6, <2>7, <2>8
<1>5. ASSUME NEW d \in Conn, OnMessage(d) \/ Serve(d) \/ Break(d) PROVE IsAlone(u)'
  <2>1. UNCHANGED <<pc, overlapped>>
    BY <1>5, Unpacks, Serves, Breaks DEF SentOnce
  <2>2. IsAlone(u)
    BY <1>1, <2>1 DEF Active
  <2> QED BY <1>0, <1>5, <2>2, AloneServed
<1> QED BY <1>2, <1>3, <1>4, <1>5, Steps

LEMMA TheOnlyOne ==
    ASSUME NEW L \in Nat, L <= 1, NEW n \in 1 .. L
    PROVE  n = 1 /\ L = 1
  OBVIOUS

\* What the call gets is what its handler answered.
LEMMA AloneReceives ==
    ASSUME TypeInv, ServedTyped, Counted, NEW t \in Thread, IsAlone(t), Receive(t),
           fd[t] \notin cut, result'[t].how = "reply"
    PROVE  result'[t].msg \in served[t]
<1>0. pc[t] = "wait" /\ fd[t] \in Conn /\ fd[t] # NoConn
  BY ReceivesEnd DEF TypeInv
<1> PICK c \in Conn : c = fd[t] /\ c = m_clientFd /\ c # NoConn
  BY <1>0 DEF IsAlone
<1>1. PICK s : s = toClient[c] /\ s \in Seq(Seq(Wired))
  BY DEF TypeInv
<1>2. PICK n \in 1 .. Len(s) :
          result'[t] = [how |-> "reply", msg |-> ParseFromString(ReplyType(t), FlattenSeq(SubSeq(s, 1, n)))]
  <2>1. PICK n \in 1 .. Len(toClient[fd[t]]) : ResponseFrom(t, n)
    BY ReceivesEnd
  <2>2. PICK bytes : bytes = FlattenSeq(SubSeq(s, 1, n)) /\ Outcome(t, bytes)
    BY <1>1, <2>1 DEF ResponseFrom
  <2> QED BY <1>1, <2>1, <2>2 DEF Outcome
<1>3. n = 1 /\ Len(s) = 1
  <2>1. Waiting(c) = {t}
    <3>1. \A u \in Thread : pc[u] \in {"recv", "wait"} => u = t
      BY DEF IsAlone, Active
    <3> QED BY <1>0, <3>1 DEF Waiting
  <2>2. Cardinality(Waiting(c)) = 1
    BY <2>1, FS_Singleton
  <2>3. Cardinality(Askers(toServer[c])) + Busy(c) + Len(s) <= 1
    BY <1>1, <2>2 DEF Counted
  <2>4. Cardinality(Askers(toServer[c])) \in Nat /\ Busy(c) \in {0, 1} /\ Len(s) \in Nat
    BY <1>1, Counts
  <2>5. Len(s) <= 1
    BY <2>3, <2>4
  <2>6. n \in 1 .. Len(s)
    BY <1>2
  <2>7. Len(s) \in Nat
    BY <2>4
  <2> QED BY <2>5, <2>6, <2>7, TheOnlyOne, Zenon
<1>4. PICK bytes : bytes = s[1] /\ Carries(t, bytes, served[t])
  BY <1>0, <1>1, <1>3 DEF IsAlone
<1>5. FlattenSeq(SubSeq(s, 1, n)) = bytes
  <2>1. PICK one : one = SubSeq(s, 1, n)
    OBVIOUS
  <2>2. one \in Seq(Seq(Wired)) /\ Len(one) = 1 /\ one[1] = bytes
    BY <1>1, <1>2, <1>3, <1>4, <2>1, Taken
  <2>3. one = <<bytes>>
    BY <2>2
  <2> QED BY <2>1, <2>3, FlattenOne
<1>6. PICK reply \in served[t] : bytes = SerializeToString(ReplyType(t), reply)
  BY <1>4 DEF Carries
<1>7. PICK term \in Nat \ {0} : reply \in Replies(t, term)
  BY <1>6 DEF ServedTyped
<1>8. IsMessage(ReplyType(t), reply, {})
  BY <1>7, RepliesAreMessages
<1>9. ParseFromString(ReplyType(t), bytes) = reply
  BY <1>6, <1>8, MessageKinds, ParseUndoesSerialize
<1>10. result'[t] = [how |-> "reply", msg |-> reply]
  BY <1>2, <1>5, <1>9
<1> QED BY <1>6, <1>10

\* Which steps end a call, and with what.
LEMMA Ends ==
    ASSUME TypeInv, SentOnce, [Next]_vars, NEW u \in Thread, pc'[u] = "done"
    PROVE  \/ pc[u] = "done" /\ result'[u] = result[u] /\ fd'[u] = fd[u]
           \/ Receive(u) \/ ReceiveCut(u)
           \/ result'[u].how # "reply" /\ result'[u].msg = Default(ReplyType(u))
<1>1. CASE UNCHANGED vars
  BY <1>1 DEF vars, clientVars
<1>2. ASSUME NEW c \in Conn, OnMessage(c) \/ Serve(c) \/ Break(c) PROVE pc[u] = "done" /\ result'[u] = result[u] /\ fd'[u] = fd[u]
  BY <1>2, Unpacks, Serves, Breaks DEF SentOnce
<1>3. ASSUME NEW t \in Thread, CallMethod(t) PROVE pc[u] = "done" /\ result'[u] = result[u] /\ fd'[u] = fd[u]
  BY <1>3, CallStarts DEF OnlyMoves
<1>4. ASSUME NEW t \in Thread, Send(t) PROVE pc[u] = "done" /\ result'[u] = result[u] /\ fd'[u] = fd[u]
  BY <1>4, Sends
<1>5. ASSUME NEW t \in Thread, ReceiveEof(t) \/ ReceiveError(t)
      PROVE  \/ pc[u] = "done" /\ result'[u] = result[u] /\ fd'[u] = fd[u]
             \/ result'[u].how # "reply" /\ result'[u].msg = Default(ReplyType(u))
  BY <1>5, Stops DEF OnlyMoves
<1>6. ASSUME NEW t \in Thread, Receive(t) \/ ReceiveCut(t) PROVE (pc[u] = "done" /\ result'[u] = result[u] /\ fd'[u] = fd[u]) \/ Receive(u) \/ ReceiveCut(u)
  BY <1>6, ReceivesEnd, CutEnds
<1>7. ASSUME NEW t \in Thread, NewConnect(t) \/ Recv(t)
      PROVE  \/ pc[u] = "done" /\ result'[u] = result[u] /\ fd'[u] = fd[u]
             \/ result'[u].how # "reply" /\ result'[u].msg = Default(ReplyType(u))
  <2>1. CASE u # t
    BY <1>7, <2>1, Connects, Recvs DEF OnlyMoves
  <2>2. CASE u = t
    <3>1. Fails(t)
      BY <1>7, <2>2, Connects, Recvs
    <3>2. Return(t, "failed", Default(ReplyType(t)))
      BY <3>1 DEF Fails
    <3>3. result'[t].how = "failed" /\ result'[t].msg = Default(ReplyType(t))
      BY <3>2 DEF Return, TypeInv
    <3> QED BY <2>2, <3>3
  <2> QED BY <2>1, <2>2
<1> QED BY <1>1, <1>2, <1>3, <1>4, <1>5, <1>6, <1>7, Steps

LEMMA OwnReplyKept ==
    ASSUME TypeInv, SentOnce, ServedTyped, Counted, Alone, OwnReplyWhenAlone, [Next]_vars
    PROVE  OwnReplyWhenAlone'
<1>0. \A t \in Thread : served[t] \subseteq served'[t]
  BY ServedTypedKept
<1> SUFFICES ASSUME NEW u \in Thread, u \notin overlapped', pc'[u] = "done", result'[u].how = "reply",
                    fd'[u] \notin cut'
             PROVE  result'[u].msg \in served'[u]
  BY DEF OwnReplyWhenAlone
<1>1. overlapped \subseteq overlapped'
  <2>1. \A t \in Thread : CallMethod(t) => overlapped \subseteq overlapped'
    BY CallStarts
  <2>2. \A t \in Thread : NewConnect(t) \/ Send(t) \/ Recv(t) \/ Receive(t) \/ ReceiveCut(t) \/ ReceiveEof(t) \/ ReceiveError(t)
            => UNCHANGED overlapped
    BY Connects, Sends, Recvs, ReceivesEnd, CutEnds, Stops
  <2>3. \A c \in Conn : OnMessage(c) \/ Serve(c) \/ Break(c) => UNCHANGED overlapped
    BY Unpacks, Serves, Breaks DEF SentOnce
  <2> QED BY <2>1, <2>2, <2>3, Steps DEF vars, clientVars
<1>4. cut \subseteq cut' /\ (ReceiveCut(u) => fd'[u] \in cut')
  BY CutGrows, CutEnds
<1>2. CASE pc[u] = "done" /\ result'[u] = result[u] /\ fd'[u] = fd[u]
  BY <1>0, <1>1, <1>2, <1>4 DEF OwnReplyWhenAlone
<1>3. CASE Receive(u)
  <2>1. u \in Active /\ u \notin overlapped
    BY <1>1, <1>3, ReceivesEnd DEF Active
  <2>2. IsAlone(u)
    BY <2>1 DEF Alone, IsAlone
  <2>3. result'[u].msg \in served[u]
    BY <1>3, <1>4, <2>2, ReceivesEnd, AloneReceives
  <2> QED BY <1>0, <2>3
<1> QED BY <1>2, <1>3, <1>4, Ends
---------------------------------------------------------------------------
(* Which terms are on their way.                                           *)

LEMMA CarryingMore ==
    ASSUME NEW S, NEW T, S \subseteq T
    PROVE  Seq(Carrying(S)) \subseteq Seq(Carrying(T))
<1>1. Carrying(S) \subseteq Carrying(T)
  BY DEF Carrying
<1> QED BY <1>1, SeqMonotonic

LEMMA TermAtStart == Init => TermInv
<1> SUFFICES ASSUME Init PROVE TermInv
  OBVIOUS
<1>1. \A c \in Conn : \A i \in 1 .. Len(toClient[c]) : toClient[c][i] \in Seq(Carrying(Terms))
  <2>1. \A c \in Conn : toClient[c] = <<>> /\ Len(<<>>) = 0
    BY DEF Init
  <2> QED BY <2>1
<1>2. TermIsReal
  BY DEF Init, TermIsReal
<1> QED BY <1>1, <1>2 DEF TermInv

LEMMA TermsGrow ==
    ASSUME TypeInv, SentOnce, ServedTyped, [Next]_vars
    PROVE  Terms \subseteq Terms'
<1>1. \A t \in Thread : served[t] \subseteq served'[t]
  BY ServedTypedKept
<1> SUFFICES ASSUME NEW term \in Terms PROVE term \in Terms'
  OBVIOUS
<1>2. PICK reply \in UNION {served[u] : u \in Thread} : term = reply.Term
  BY DEF Terms
<1>3. PICK t \in Thread : reply \in served[t]
  OBVIOUS
<1>4. reply \in served'[t]
  BY <1>1, <1>3
<1>5. reply \in UNION {served'[u] : u \in Thread}
  BY <1>4
<1> QED BY <1>2, <1>5 DEF Terms

LEMMA TornCarries == \A T : Torn \in Carrying(T)
  BY TornWired DEF Torn, Carrying

\* What answers are made of, and what is left of one that was cut, has their terms.
LEMMA AnswersCarry ==
    ASSUME TypeInv, TermInv, NEW c \in Conn
    PROVE  toClient[c] \in Seq(Seq(Carrying(Terms)))
<1>1. PICK s : s = toClient[c] /\ s \in Seq(Seq(Wired)) /\ \A i \in 1 .. Len(s) : s[i] \in Seq(Carrying(Terms))
  BY DEF TypeInv, TermInv
<1> DEFINE C == Carrying(Terms)
<1>2. Len(s) \in Nat /\ s = [i \in 1 .. Len(s) |-> s[i]]
  BY <1>1
<1> HIDE DEF C
<1> QED BY <1>1, <1>2, ListIsSeq DEF C

\* A response put together from answers has the term of one of them.
LEMMA ResponseTerm ==
    ASSUME TypeInv, TermInv, NEW t \in Thread, Receive(t) \/ ReceiveCut(t), result'[t].how # "garbled"
    PROVE  result'[t].msg.Term \in {0} \cup Terms
<1> DEFINE C == Carrying(Terms)
<1>1. fd[t] \in Conn
  BY ReceivesEnd, CutEnds
<1>2. toClient[fd[t]] \in Seq(Seq(C))
  BY <1>1, AnswersCarry
<1>3. PICK bytes \in Seq(C) : Outcome(t, bytes)
  <2>1. Torn \in C
    BY TornCarries
  <2> HIDE DEF C
  <2>2. CASE Receive(t)
    <3>1. PICK n \in 1 .. Len(toClient[fd[t]]) : ResponseFrom(t, n)
      BY <2>2, ReceivesEnd
    <3>2. PICK s \in Seq(Seq(C)) : s = toClient[fd[t]]
      BY <1>2
    <3>3. SubSeq(s, 1, n) \in Seq(Seq(C))
      BY <3>1, <3>2, Taken
    <3> QED BY <3>1, <3>2, <3>3, FlattenTypes DEF ResponseFrom
  <2>3. CASE ReceiveCut(t)
    BY <1>2, <2>1, <2>3, CutsEnd
  <2> QED BY <2>2, <2>3
<1>4. CASE result'[t] = [how |-> "reply", msg |-> ParseFromString(ReplyType(t), bytes)]
  <2>1. Len(bytes) \in Nat /\ \A k \in 1 .. Len(bytes) : bytes[k] \in C
    BY <1>3
  <2>2. \A k \in 1 .. Len(bytes) : bytes[k].number = 1 => bytes[k].value \in Terms
    BY <2>1 DEF Carrying
  <2>3. ParseFromString(ReplyType(t), bytes).Term \in {0} \cup Terms
    BY <2>1, <2>2, MessageKinds, ParsedTerm
  <2> QED BY <1>4, <2>3
<1>5. CASE result'[t].msg = Default(ReplyType(t))
  BY <1>5, MessageKinds
<1> QED BY <1>3, <1>4, <1>5 DEF Outcome

\* An answer on its way is one that was there, or that of the handler that ran.
LEMMA AnswersKept ==
    ASSUME TypeInv, SentOnce, ServedTyped, TermInv, [Next]_vars, NEW c \in Conn, NEW i \in 1 .. Len(toClient'[c])
    PROVE  toClient'[c][i] \in Seq(Carrying(Terms'))
<1>0. Seq(Carrying(Terms)) \subseteq Seq(Carrying(Terms'))
  BY TermsGrow, CarryingMore
<1>1. PICK s, s2 : s = toClient[c] /\ s \in Seq(Seq(Wired)) /\ s2 = toClient'[c]
  BY DEF TypeInv
<1>2. \A k \in 1 .. Len(s) : s[k] \in Seq(Carrying(Terms'))
  BY <1>0, <1>1 DEF TermInv
<1>3. CASE s2 = s
  BY <1>1, <1>2, <1>3
<1>4. ASSUME NEW t \in Thread, Receive(t), fd[t] = c PROVE s2[i] \in Seq(Carrying(Terms'))
  <2>1. PICK n \in 1 .. Len(toClient[fd[t]]) : ResponseFrom(t, n)
    BY <1>4, ReceivesEnd
  <2>2. n \in 1 .. Len(s) /\ s2 = SubSeq(s, n + 1, Len(s))
    BY <1>1, <1>4, <2>1 DEF ResponseFrom, TypeInv
  <2>3. Len(s2) = Len(s) - n /\ \A k \in 1 .. Len(s) - n : s2[k] = s[n + k]
    <3>1. PICK V : s \in Seq(V)
      BY <1>1
    <3>2. PICK rest : rest = SubSeq(s, n + 1, Len(s))
      OBVIOUS
    <3>3. Len(rest) = Len(s) - n /\ \A k \in 1 .. Len(s) - n : rest[k] = s[n + k]
      BY <2>2, <3>1, <3>2, Taken
    <3> QED BY <2>2, <3>2, <3>3
  <2>4. i \in 1 .. Len(s) - n
    BY <1>1, <2>3
  <2>5. n + i \in 1 .. Len(s)
    BY <1>1, <2>2, <2>4, LenProperties
  <2> QED BY <1>2, <2>3, <2>4, <2>5
<1>5. ASSUME Serve(c) PROVE s2[i] \in Seq(Carrying(Terms'))
  <2>0. PICK t \in Thread : t = serving[c]
    BY <1>5, Serves
  <2>1. PICK term \in Nat \ {0} : \E reply \in Replies(t, term) : GivesReply(c, t, reply)
    BY <1>5, <2>0, Serves
  <2>2. PICK reply \in Replies(t, term) : GivesReply(c, t, reply)
    BY <2>1
  <2>3. reply.Term \in Terms'
    <3>1. reply \in served'[t]
      BY <2>2 DEF GivesReply
    <3> QED BY <3>1, Zenon DEF Terms
  <2>4. PICK bytes : bytes = SerializeToString(ReplyType(t), reply) /\ bytes \in Seq(Wired)
    BY BytesWired
  <2>5. bytes \in Seq(Carrying(Terms'))
    <3>1. bytes \in Seq(Carrying({reply.Term}))
      BY <2>4, ReplyCarriesTerm
    <3>2. {reply.Term} \subseteq Terms'
      BY <2>3
    <3> QED BY <3>1, <3>2, CarryingMore
  <2>6. CASE s2 = Append(s, bytes)
    <3>1. Len(s) \in Nat /\ Len(s2) = Len(s) + 1 /\ s2[Len(s) + 1] = bytes /\ \A k \in 1 .. Len(s) : s2[k] = s[k]
      BY <1>1, <2>4, <2>6, AppendProperties, LenProperties
    <3>2. i \in 1 .. Len(s) \/ i = Len(s) + 1
      BY <1>1, <3>1
    <3> QED BY <1>2, <2>5, <3>1, <3>2
  <2> QED BY <1>1, <1>3, <2>2, <2>4, <2>6 DEF GivesReply
<1>6. ASSUME NEW t \in Thread, Receive(t), fd[t] # c PROVE s2 = s
  <2>1. PICK n \in 1 .. Len(toClient[fd[t]]) : ResponseFrom(t, n)
    BY <1>6, ReceivesEnd
  <2> QED BY <1>1, <1>6, <2>1 DEF ResponseFrom, TypeInv
<1>7. ASSUME NEW d \in Conn, Serve(d), d # c PROVE s2 = s
  BY <1>1, <1>7, Serves
<1>8. ASSUME NEW d \in Conn, OnMessage(d) \/ Break(d) PROVE s2 = s
  BY <1>1, <1>8, Unpacks, Breaks DEF SentOnce
<1>9. ASSUME NEW t \in Thread, CallMethod(t) \/ NewConnect(t) \/ Send(t) \/ Recv(t) \/ ReceiveEof(t) \/ ReceiveError(t)
      PROVE  s2 = s
  BY <1>1, <1>9, CallStarts, Connects, Sends, Recvs, Stops DEF OnlyMoves
<1>11. ASSUME NEW t \in Thread, ReceiveCut(t) PROVE s2[i] \in Seq(Carrying(Terms'))
  <2>1. CASE fd[t] = c
    <3>1. toClient[fd[t]] \in Seq(Seq(Carrying(Terms)))
      BY <2>1, AnswersCarry
    <3>2. s2 \in Seq(Seq(Carrying(Terms)))
      BY <1>1, <1>11, <2>1, <3>1, TornCarries, CutsEnd
    <3>3. s2[i] \in Seq(Carrying(Terms))
      BY <1>1, <3>2, ElementOfSeq
    <3> QED BY <1>0, <3>3
  <2>2. CASE fd[t] # c
    <3>1. s2 = s
      BY <1>1, <1>11, <2>2, CutEnds
    <3> QED BY <1>1, <1>3, <3>1
  <2> QED BY <2>1, <2>2
<1>10. UNCHANGED vars => s2 = s
  BY <1>1 DEF vars, connVars
<1> QED BY <1>1, <1>3, <1>4, <1>5, <1>6, <1>7, <1>8, <1>9, <1>10, <1>11, Steps

LEMMA TermKept ==
    ASSUME TypeInv, SentOnce, ServedTyped, TermInv, [Next]_vars
    PROVE  TermInv'
<1>1. \A c \in Conn : \A i \in 1 .. Len(toClient'[c]) : toClient'[c][i] \in Seq(Carrying(Terms'))
  BY AnswersKept
<1>2. ASSUME NEW u \in Thread, pc'[u] = "done", result'[u].how # "garbled" PROVE result'[u].msg.Term \in {0} \cup Terms'
  <2>1. CASE pc[u] = "done" /\ result'[u] = result[u]
    BY <1>2, <2>1, TermsGrow DEF TermInv, TermIsReal, Terms
  <2>2. CASE Receive(u) \/ ReceiveCut(u)
    BY <1>2, <2>2, ResponseTerm, TermsGrow
  <2>3. CASE result'[u].msg = Default(ReplyType(u))
    BY <2>3, MessageKinds
  <2> QED BY <1>2, <2>1, <2>2, <2>3, Ends
<1>3. TermIsReal'
  BY <1>2 DEF TermIsReal, Terms
<1> QED BY <1>1, <1>3 DEF TermInv

\* A call that had the channel to itself returns the reply of its own handler
\* (CallMethod of MprpcChannel, and what OnMessage and SendRpcResponse of
\* RpcProvider answer it), however connections break, if on its connection no
\* recv ended inside a reply: CallMethod keeps a connection it failed to parse.
THEOREM OwnReplyWhenAloneHolds == Spec => []OwnReplyWhenAlone
<1>1. Init => TypeInv /\ Connections /\ SentOnce /\ ServedTyped /\ Counted /\ Alone /\ OwnReplyWhenAlone
  BY TypesAtStart, ConnectionsAtStart, CountedAtStart, AloneAtStart
<1>2. /\ TypeInv /\ Connections /\ SentOnce /\ ServedTyped /\ Counted /\ Alone /\ OwnReplyWhenAlone
      /\ [Next]_vars
      => (TypeInv /\ Connections /\ SentOnce /\ ServedTyped /\ Counted /\ Alone /\ OwnReplyWhenAlone)'
  BY TypesKept, ConnectionsKept, SentOnceKept, ServedTypedKept, CountedKept, AloneKept, OwnReplyKept
<1> QED BY <1>1, <1>2, PTL DEF Spec

\* The term in a response is 0 or one the peer has answered with, whichever
\* replies recv returned together and between which fields it ended: no caller
\* steps down for a term nobody has, unless its recv began inside a field.
THEOREM TermIsRealHolds == Spec => []TermIsReal
<1>1. Init => TypeInv /\ SentOnce /\ ServedTyped /\ TermInv
  BY TypesAtStart, ConnectionsAtStart, TermAtStart
<1>2. TypeInv /\ SentOnce /\ ServedTyped /\ TermInv /\ [Next]_vars => (TypeInv /\ SentOnce /\ ServedTyped /\ TermInv)'
  BY TypesKept, SentOnceKept, ServedTypedKept, TermKept
<1>3. TermInv => TermIsReal
  BY DEF TermInv
<1> QED BY <1>1, <1>2, <1>3, PTL DEF Spec
=============================================================================
