---------------------------- MODULE AtomicCounter ----------------------------
(***************************************************************************)
(* What a correctly shared counter promises (exercises 00, 01, 03 and 05): *)
(* each thread adds one a fixed number of times, each addition takes       *)
(* effect once and at once, and none is lost.                              *)
(***************************************************************************)
EXTENDS Naturals

CONSTANTS Threads, Iterations

VARIABLES total,  \* value of the counter
          done    \* done[t]: additions of t that took effect

vars == <<total, done>>

Init == total = 0 /\ done = [t \in Threads |-> 0]

Add(t) == /\ done[t] < Iterations
          /\ total' = total + 1
          /\ done' = [done EXCEPT ![t] = @ + 1]

Next == \E t \in Threads : Add(t)

Spec == Init /\ [][Next]_vars

FairSpec == Spec /\ \A t \in Threads : WF_vars(Add(t))
==============================================================================
