---------------------------- MODULE PhaseBarrier ----------------------------
(***************************************************************************)
(* What a reusable barrier promises to the threads that call it            *)
(* (exercise 06): each thread runs a fixed number of rounds, meets the     *)
(* others at the end of each, and nobody leaves a round that somebody has  *)
(* not reached.  How waiting is done is not said here; module Barrier is   *)
(* the code's mutex/condition-variable version and implements this one.    *)
(***************************************************************************)
EXTENDS Naturals

CONSTANTS Threads,     \* the participants
          NumPhases    \* rounds each participant runs

VARIABLES round,       \* round[t]: rounds t has completed
          at           \* threads that have reached the barrier of their round

vars == <<round, at>>

Init == round = [t \in Threads |-> 0] /\ at = {}

\* t reaches the barrier at the end of its current round.
Reach(t) == /\ t \notin at
            /\ round[t] < NumPhases
            /\ at' = at \cup {t}
            /\ UNCHANGED round

\* u has reached the barrier of round r, or is beyond it.
Reached(u, r) == round[u] > r \/ (round[u] = r /\ u \in at)

\* t goes on to its next round: only once everybody has reached this one.
Leave(t) == /\ t \in at
            /\ \A u \in Threads : Reached(u, round[t])
            /\ at' = at \ {t}
            /\ round' = [round EXCEPT ![t] = @ + 1]

Next == \E t \in Threads : Reach(t) \/ Leave(t)

Spec == Init /\ [][Next]_vars

\* With fairness: every round is reached and left.
FairSpec == Spec /\ \A t \in Threads : WF_vars(Reach(t)) /\ WF_vars(Leave(t))
=============================================================================
