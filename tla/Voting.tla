------------------------------- MODULE Voting -------------------------------
(***************************************************************************)
(* What the elections of Raft promise, without messages, counters, logs or *)
(* timers: ballots are cast for good, a node casts at most one per term    *)
(* and never one of an earlier term, and a node leads a term only while it *)
(* holds the ballots of a quorum for that very term.                       *)
(***************************************************************************)
EXTENDS Naturals

CONSTANTS
    Node,       \* the voters, who are also the candidates
    Quorum,     \* the sets of voters that elect
    Term        \* the terms an election may be held for, none of them 0

VARIABLES
    ballots,    \* every <<voter, term, candidate>> cast so far
    leads       \* the term each node leads, 0 when it leads none

votingVars == <<ballots, leads>>

VotersOf(candidate, term) == {v \in Node : <<v, term, candidate>> \in ballots}

Init ==
    /\ ballots = {}
    /\ leads = [n \in Node |-> 0]

\* A voter moves on to the term, for itself or for a node that stands in it, and
\* leads no earlier one any more.
Cast(voter, term, candidate) ==
    /\ \A b \in ballots : b[1] = voter => b[2] < term
    /\ candidate = voter \/ <<candidate, term, candidate>> \in ballots
    /\ ballots' = ballots \cup {<<voter, term, candidate>>}
    /\ leads' = [leads EXCEPT ![voter] = 0]

\* The candidate of the term, which it has not left, has a quorum for it.
Lead(candidate, term) ==
    /\ leads[candidate] = 0
    /\ \A b \in ballots : b[1] = candidate => b[2] <= term
    /\ VotersOf(candidate, term) \in Quorum
    /\ leads' = [leads EXCEPT ![candidate] = term]
    /\ UNCHANGED ballots

Resign(node) ==
    /\ leads' = [leads EXCEPT ![node] = 0]
    /\ UNCHANGED ballots

Next ==
    \/ \E voter, candidate \in Node, term \in Term : Cast(voter, term, candidate)
    \/ \E b \in ballots : Lead(b[3], b[2])
    \/ \E node \in Node : Resign(node)

Spec == Init /\ [][Next]_votingVars
=============================================================================
