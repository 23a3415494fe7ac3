------------------------------ MODULE SkipList ------------------------------
(***************************************************************************)
(* The store of KvServer: skipList.h as operators on a value of the list.  *)
(* A node is its key; forward[n][i] is the node after n on level i.  The   *)
(* level drawn for a new node is a parameter.                              *)
(***************************************************************************)
EXTENDS Integers, Sequences, SequencesExt

CONSTANT max_level          \* positive

Header == 0                 \* keys are larger
Null == -1

RandomLevel == 1 .. max_level

Empty ==
    [level |-> 0, element_count |-> 0, value |-> <<>>,
     forward |-> (Header :> [i \in 0 .. max_level |-> Null])]

\* On each level the last node before the key, found from the top: one goes on
\* to the right where the level above has ended.
Update(list, key) ==
    LET last[n \in DOMAIN list.forward, i \in 0 .. max_level] ==
            LET next == list.forward[n][i]
            IN  IF next # Null /\ next < key THEN last[next, i] ELSE n
        update[i \in 0 .. list.level] ==
            last[IF i = list.level THEN Header ELSE update[i + 1], i]
    IN  update

\* The node on the lowest level that the key is, or comes before.
Current(list, key) == list.forward[Update(list, key)[0]][0]

HasKey(list, key) == Current(list, key) = key

search_element(list, key) ==
    IF HasKey(list, key) THEN [found |-> TRUE, value |-> list.value[key]] ELSE [found |-> FALSE]

\* A key that is there keeps its value.
insert_element(list, key, value, random_level) ==
    LET update == Update(list, key)
        before(i) == IF i > list.level THEN Header ELSE update[i]
        linked(n, i) == IF i <= random_level /\ before(i) = n THEN key ELSE list.forward[n][i]
    IN  IF HasKey(list, key) THEN list
        ELSE [level |-> IF random_level > list.level THEN random_level ELSE list.level,
              element_count |-> list.element_count + 1,
              value |-> key :> value @@ list.value,
              forward |-> key :> [i \in 0 .. random_level |-> list.forward[before(i)][i]]
                          @@ [n \in DOMAIN list.forward |->
                                [i \in DOMAIN list.forward[n] |-> linked(n, i)]]]

\* The node is bridged from the lowest level up to the first that passes it by,
\* and empty levels at the top are given up.
delete_element(list, key) ==
    LET update == Update(list, key)
        passes(i) == list.forward[update[i]][i] # key
        bridged(i) == i <= list.level /\ \A j \in 0 .. i : ~passes(j)
        nodes == DOMAIN list.forward \ {key}
        forward == [n \in nodes |-> [i \in DOMAIN list.forward[n] |->
                        IF bridged(i) /\ update[i] = n THEN list.forward[key][i] ELSE list.forward[n][i]]]
        used == {i \in 1 .. list.level : forward[Header][i] # Null}
    IN  IF ~HasKey(list, key) THEN list
        ELSE [level |-> CHOOSE i \in used \cup {0} : \A j \in used : j <= i,
              element_count |-> list.element_count - 1,
              value |-> [n \in nodes \ {Header} |-> list.value[n]],
              forward |-> forward]

insert_set_element(list, key, value, random_level) ==
    insert_element(IF HasKey(list, key) THEN delete_element(list, key) ELSE list, key, value, random_level)

\* The keys and values along the lowest level.
dump_file(list) ==
    LET from[n \in DOMAIN list.forward \cup {Null}] ==
            IF n = Null THEN <<>> ELSE <<<<n, list.value[n]>>>> \o from[list.forward[n][0]]
    IN  from[list.forward[Header][0]]

\* The pairs of a dump are inserted one after the other, into what is there.
load_file(list, dump, random_level) ==
    FoldLeft(LAMBDA l, pair : insert_element(l, pair[1], pair[2], random_level), list, dump)

-----------------------------------------------------------------------------
(* What the list promises.                                                   *)

\* Each level holds, in the order of the keys, the nodes that reach it; the list
\* is as high as its highest node, and the count is the number of keys.
WellFormed(list) ==
    LET keys == DOMAIN list.value
        height(n) == Cardinality(DOMAIN list.forward[n]) - 1
        after(n, i) == {m \in keys : m > n /\ height(m) >= i}
        next(n, i) == IF after(n, i) = {} THEN Null
                      ELSE CHOOSE m \in after(n, i) : \A o \in after(n, i) : m <= o
    IN  /\ DOMAIN list.forward = keys \cup {Header}
        /\ \A n \in DOMAIN list.forward : \A i \in DOMAIN list.forward[n] :
              list.forward[n][i] = next(n, i)
        /\ list.level \in {height(n) : n \in keys} \cup (IF keys = {} THEN {0} ELSE {})
        /\ \A n \in keys : height(n) <= list.level
        /\ list.element_count = Cardinality(keys)

\* The list finds, for each of these keys, what the map has there, and dumps it
\* in order.
Shows(list, map, keys) ==
    /\ \A k \in keys : search_element(list, k) =
            IF k \in DOMAIN map THEN [found |-> TRUE, value |-> map[k]] ELSE [found |-> FALSE]
    /\ LET dump == dump_file(list)
       IN  /\ {dump[i] : i \in DOMAIN dump} = {<<k, map[k]>> : k \in DOMAIN map}
           /\ \A i, j \in DOMAIN dump : i < j => dump[i][1] < dump[j][1]
=============================================================================
