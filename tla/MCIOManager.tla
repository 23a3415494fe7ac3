---------------------------- MODULE MCIOManager ----------------------------
(***************************************************************************)
(* Instances of IOManager for TLC.                                         *)
(***************************************************************************)
EXTENDS IOManager, TLC

CONSTANTS w1, w2, f1, f2, f3, s1

\* Of n ticks: with two to a millisecond, an odd number is rounded down.
sleep(n) == [call |-> "sleep", fd |-> s1, ticks |-> n]
read(n) == [call |-> "read", fd |-> s1, ms |-> n]
close == [call |-> "close", fd |-> s1]
Program(p1, p2, p3) == (f1 :> p1) @@ (f2 :> p2) @@ (f3 :> p3)

MCSetups == {
    \* two tickers, as Raft::init has them, and a third fiber
    [workers |-> {w1}, caller |-> None, arrivals |-> 0, peerSends |-> FALSE,
     program |-> Program(<<sleep(2), sleep(5)>>, <<sleep(3)>>, <<>>)],
    \* reads with a time limit against messages, or none, and a close
    [workers |-> {w1}, caller |-> None, arrivals |-> 2, peerSends |-> FALSE,
     program |-> Program(<<read(1), read(1)>>, <<sleep(3), close>>, <<>>)],
    \* a read that only a close ends; the caller runs the fibers
    [workers |-> {w1}, caller |-> w1, arrivals |-> 0, peerSends |-> FALSE,
     program |-> Program(<<read(0), sleep(3)>>, <<sleep(2), close>>, <<>>)],
    \* a read that only a message ends
    [workers |-> {w1}, caller |-> None, arrivals |-> 1, peerSends |-> TRUE,
     program |-> Program(<<read(0)>>, <<sleep(1)>>, <<>>)],
    \* fibers that do not wait, on two workers, one of them the caller's or not
    [workers |-> {w1, w2}, caller |-> None, arrivals |-> 0, peerSends |-> FALSE,
     program |-> Program(<<>>, <<>>, <<>>)],
    [workers |-> {w1, w2}, caller |-> w1, arrivals |-> 0, peerSends |-> FALSE,
     program |-> Program(<<>>, <<>>, <<>>)]}

\* All of them are situations the properties promise something about.
ASSUME SituationsAssumption == \A s \in Setups : OneAtATime(s) /\ OneReader(s)
=============================================================================
