----------------------------- MODULE MCKvServer -----------------------------
(***************************************************************************)
(* The situations of KvServer that TLC looks at.                           *)
(***************************************************************************)
EXTENDS KvServer

CONSTANTS c1, c2

Situation(p1, p2, snapshots_, down, maxLog, maxElections, maxBreaks) ==
    [program |-> c1 :> p1 @@ c2 :> p2, takesSnapshots |-> snapshots_, down |-> down,
     maxLog |-> maxLog, maxElections |-> maxElections, maxBreaks |-> maxBreaks]

\* One server leads throughout.
OneLeader == {
    \* a Get whose connection breaks, repeated, then a write: each may be logged twice
    Situation(<<"Get", "Append">>, <<>>, FALSE, {1}, 4, 0, 1),
    \* two writers with retries at one leader
    Situation(<<"Put", "Append">>, <<"Append">>, FALSE, {1}, 3, 0, 0) }

\* The leader changes.
LeaderChange == {
    \* a write and a Get around a change of leader
    Situation(<<"Append">>, <<"Get">>, FALSE, {}, 2, 1, 0),
    \* snapshots taken, sent, lost and installed around a change of leader
    Situation(<<"Append", "Get">>, <<>>, TRUE, {}, 2, 1, 0) }

AllSituations == OneLeader \cup LeaderChange

-----------------------------------------------------------------------------
(* The store, apart from the protocol: all lists over three keys.            *)

Store == INSTANCE SkipList WITH max_level <- 2

Keys == 1 .. 3
Values == {"old", "new"}

Lists ==
    LET after[n \in 0 .. Cardinality(Keys)] ==     \* n keys inserted or replaced
            IF n = 0 THEN {Store!Empty}
            ELSE after[n - 1] \cup {Store!insert_set_element(l, k, v, h) :
                    l \in after[n - 1], k \in Keys, v \in Values, h \in Store!RandomLevel}
    IN  after[Cardinality(Keys)]

\* Whatever levels were drawn, each operation does to the list what it does to a
\* map: a set replaces, an insert keeps what is there, and a dump that is loaded
\* is added to what is there, without replacing it.
ASSUME StoreIsMap ==
    \A l \in Lists :
        LET map == l.value
            is(list, m) == Store!WellFormed(list) /\ Store!Shows(list, m, Keys)
        IN  /\ is(l, map)
            /\ \A k \in Keys :
                  /\ is(Store!delete_element(l, k), [j \in DOMAIN map \ {k} |-> map[j]])
                  /\ \A v \in Values, h \in Store!RandomLevel :
                        /\ is(Store!insert_element(l, k, v, h), map @@ k :> v)
                        /\ is(Store!insert_set_element(l, k, v, h), k :> v @@ map)
            /\ \A other \in Lists, h \in Store!RandomLevel :
                  is(Store!load_file(l, Store!dump_file(other), h), map @@ other.value)
=============================================================================
