------------------------------ MODULE Barrier ------------------------------
(***************************************************************************)
(* Exercise 06: the reusable barrier built from a mutex, a condition       *)
(* variable, a count and a serial number, the worker threads that meet at  *)
(* it once per phase, and main, which creates, joins and destroys.         *)
(*                                                                         *)
(* The mutex makes the code between lock and unlock sequentially           *)
(* consistent; the steps are the code's, one per access to shared state,   *)
(* so every interleaving of arrivals, wake-ups (spurious ones included)    *)
(* and re-entries into the next phase is explored.                         *)
(***************************************************************************)
EXTENDS Naturals, FiniteSets

CONSTANTS Threads,      \* the NUM_THREADS workers
          NumPhases,    \* NUM_PHASES
          MaxSpurious,  \* bound: spurious returns of pthread_cond_wait
          NoThread      \* mutex owner when it is free

ASSUME BarrierAssumption == /\ IsFiniteSet(Threads) /\ Threads # {}
                            /\ NumPhases \in Nat
                            /\ MaxSpurious \in Nat
                            /\ NoThread \notin Threads

VARIABLES
  pc,         \* pc[t]: where worker t is (see States)
  phase,      \* phase[t]: loop variable of worker; barrier_waits returned
  my_serial,  \* my_serial[t]: local of barrier_wait
  mutex,      \* owner of barrier->mutex, or NoThread
  count,      \* barrier->count
  serial,     \* barrier->serial
  spurious,   \* spurious wake-ups so far
  main        \* "create", "join", "destroy", "returned"

vars == <<pc, phase, my_serial, mutex, count, serial, spurious, main>>

threshold == Cardinality(Threads)

States == {"unborn",   \* not created yet
           "work",     \* in the phase's work, about to lock the mutex
           "enter",    \* holds the mutex, has not counted itself
           "test",     \* holds the mutex, at the while condition
           "sleep",    \* in pthread_cond_wait, not woken
           "woken",    \* woken, must get the mutex back
           "unlock",   \* holds the mutex, about to leave barrier_wait
           "done"}     \* returned from worker

\* Where the phase loop of worker stands when its variable is p.
LoopAt(p) == IF p < NumPhases THEN "work" ELSE "done"

Init == /\ pc = [t \in Threads |-> "unborn"]
        /\ phase = [t \in Threads |-> 0]
        /\ my_serial = [t \in Threads |-> 0]
        /\ mutex = NoThread
        /\ count = 0
        /\ serial = 0
        /\ spurious = 0
        /\ main = "create"
----------------------------------------------------------------------------
\* pthread_create; the order of creation does not matter to the workers.
Create(t) == /\ main = "create"
             /\ pc[t] = "unborn"
             /\ pc' = [pc EXCEPT ![t] = LoopAt(0)]
             /\ main' = IF \E u \in Threads \ {t} : pc[u] = "unborn"
                          THEN "create" ELSE "join"
             /\ UNCHANGED <<phase, my_serial, mutex, count, serial, spurious>>

\* pthread_mutex_lock on entry to barrier_wait.
LockMutex(t) == /\ pc[t] = "work"
                /\ mutex = NoThread
                /\ mutex' = t
                /\ pc' = [pc EXCEPT ![t] = "enter"]
                /\ UNCHANGED <<phase, my_serial, count, serial, spurious, main>>

\* Mutant of Broadcast: pthread_cond_signal wakes one waiter only.
Signal(p) == IF \E u \in Threads : p[u] = "sleep"
               THEN [p EXCEPT ![CHOOSE u \in Threads : p[u] = "sleep"] = "woken"]
               ELSE p

\* pthread_cond_broadcast: everyone in pthread_cond_wait is woken.
Broadcast(p) == [u \in Threads |-> IF p[u] = "sleep" THEN "woken" ELSE p[u]]

\* Mutant of LastToArrive: off by one.
LastToArriveEarly(c) == c + 1 = threshold

\* barrier->count == barrier->threshold, after the increment
LastToArrive(c) == c = threshold

\* Mutant of Arrive: the count is not reset for the next round.
ArriveKeepsCount(t) ==
  /\ pc[t] = "enter"
  /\ my_serial' = [my_serial EXCEPT ![t] = serial]
  /\ count' = count + 1
  /\ IF LastToArrive(count + 1)
       THEN /\ serial' = serial + 1
            /\ pc' = Broadcast([pc EXCEPT ![t] = "unlock"])
       ELSE /\ pc' = [pc EXCEPT ![t] = "test"]
            /\ UNCHANGED serial
  /\ UNCHANGED <<phase, mutex, spurious, main>>

\* Remember the serial and count myself; the last one closes the round.
Arrive(t) ==
  /\ pc[t] = "enter"
  /\ my_serial' = [my_serial EXCEPT ![t] = serial]
  /\ IF LastToArrive(count + 1)
       THEN /\ count' = 0
            /\ serial' = serial + 1
            /\ pc' = Broadcast([pc EXCEPT ![t] = "unlock"])
       ELSE /\ count' = count + 1
            /\ pc' = [pc EXCEPT ![t] = "test"]
            /\ UNCHANGED serial
  /\ UNCHANGED <<phase, mutex, spurious, main>>

\* Mutant of MustWait: a barrier without a serial number.
MustWaitOnCount(t) == count # 0

\* while (my_serial == barrier->serial)
MustWait(t) == my_serial[t] = serial

\* The while test: pthread_cond_wait gives up the mutex and sleeps in one step.
TestSerial(t) == /\ pc[t] = "test"
                 /\ IF MustWait(t)
                      THEN /\ pc' = [pc EXCEPT ![t] = "sleep"]
                           /\ mutex' = NoThread
                      ELSE /\ pc' = [pc EXCEPT ![t] = "unlock"]
                           /\ UNCHANGED mutex
                 /\ UNCHANGED <<phase, my_serial, count, serial, spurious, main>>

\* A condition variable may wake a thread nobody signalled.
SpuriousWakeup(t) ==
  /\ pc[t] = "sleep"
  /\ spurious < MaxSpurious
  /\ spurious' = spurious + 1
  /\ pc' = [pc EXCEPT ![t] = "woken"]
  /\ UNCHANGED <<phase, my_serial, mutex, count, serial, main>>

\* Mutant of Reacquire: if instead of while around pthread_cond_wait.
ReacquireNoRetest(t) ==
  /\ pc[t] = "woken"
  /\ mutex = NoThread
  /\ mutex' = t
  /\ pc' = [pc EXCEPT ![t] = "unlock"]
  /\ UNCHANGED <<phase, my_serial, count, serial, spurious, main>>

\* pthread_cond_wait returns with the mutex held; the while tests again.
Reacquire(t) ==
  /\ pc[t] = "woken"
  /\ mutex = NoThread
  /\ mutex' = t
  /\ pc' = [pc EXCEPT ![t] = "test"]
  /\ UNCHANGED <<phase, my_serial, count, serial, spurious, main>>

\* pthread_mutex_unlock, return from barrier_wait, next turn of the loop.
Unlock(t) ==
  /\ pc[t] = "unlock"
  /\ mutex' = NoThread
  /\ phase' = [phase EXCEPT ![t] = @ + 1]
  /\ pc' = [pc EXCEPT ![t] = LoopAt(phase[t] + 1)]
  /\ UNCHANGED <<my_serial, count, serial, spurious, main>>

\* Mutant of Joined: main waits for one worker only.
JoinedOnlyOne == \E t \in Threads : pc[t] = "done"

\* Every pthread_join has returned.
Joined == \A t \in Threads : pc[t] = "done"

Join == /\ main = "join"
        /\ Joined
        /\ main' = "destroy"
        /\ UNCHANGED <<pc, phase, my_serial, mutex, count, serial, spurious>>

\* barrier_destroy, then main returns.
Destroy == /\ main = "destroy"
           /\ main' = "returned"
           /\ UNCHANGED <<pc, phase, my_serial, mutex, count, serial, spurious>>

\* The program has ended.
Terminating == main = "returned" /\ UNCHANGED vars

Worker(t) == \/ LockMutex(t) \/ Arrive(t) \/ TestSerial(t)
             \/ Reacquire(t) \/ Unlock(t)

Next == \/ \E t \in Threads : Create(t) \/ Worker(t) \/ SpuriousWakeup(t)
        \/ Join \/ Destroy \/ Terminating

Spec == Init /\ [][Next]_vars

\* The scheduler runs every thread that can run; nothing obliges a
\* condition variable to wake anyone spuriously.
FairSpec == /\ Spec
            /\ WF_vars((\E t \in Threads : Create(t)) \/ Join \/ Destroy)
            /\ \A t \in Threads : WF_vars(Worker(t))
----------------------------------------------------------------------------
\* The fields of barrier_t and the locals of worker and barrier_wait stay in
\* range: outside the mutex count is below threshold.
TypeOK == /\ pc \in [Threads -> States]
          /\ phase \in [Threads -> 0..NumPhases]
          /\ my_serial \in [Threads -> 0..NumPhases]
          /\ mutex \in Threads \cup {NoThread}
          /\ count \in 0..(threshold - 1)
          /\ serial \in 0..NumPhases
          /\ spurious \in 0..MaxSpurious
          /\ main \in {"create", "join", "destroy", "returned"}

\* t has counted itself in the barrier of its phase and not left it yet.
InBarrier(t) == pc[t] \in {"test", "sleep", "woken", "unlock"}

\* How many times t has counted itself.
Arrivals(t) == phase[t] + (IF InBarrier(t) THEN 1 ELSE 0)

\* The point of the barrier: no worker is past a phase that another worker
\* has not reached the end of (barrier_wait called by worker).
PhaseSync == \A s, t \in Threads : phase[s] <= Arrivals(t)

\* barrier->serial counts the completed rounds: every worker that left a
\* round left a completed one, every worker counted itself in all completed
\* rounds, and so nobody is ever two rounds behind (the serial compared in
\* the while loop cannot come round again).
SerialIsRound == \A t \in Threads : phase[t] <= serial /\ serial <= Arrivals(t)

\* barrier->count is the number of workers counted in the open round, never
\* a leftover of the round before, although fast workers re-enter while slow
\* ones are still on their way out.
CountIsArrived ==
  count = Cardinality({t \in Threads : Arrivals(t) = serial + 1})

\* No lost wake-up: a worker asleep in pthread_cond_wait belongs to the open
\* round; the one that closed its round did not miss it.
NoLostWakeup == \A t \in Threads : pc[t] = "sleep" => my_serial[t] = serial

\* barrier_destroy runs only when nobody holds the mutex, sleeps on the
\* condition variable or will use either again.
DestroyedUnused ==
  main \in {"destroy", "returned"} =>
    /\ mutex = NoThread
    /\ \A t \in Threads : pc[t] = "done" /\ phase[t] = NumPhases

\* A round is closed only by the last arrival and exactly once: the serial
\* grows by one, in a step that finds every worker counted, and the count
\* starts again at zero.
RoundClosedByLast ==
  [][serial' # serial =>
       /\ serial' = serial + 1
       /\ count' = 0
       /\ \A t \in Threads : Arrivals(t)' = serial']_vars

\* Every phase of every worker ends and main returns: no deadlock in the
\* barrier, no waiter left behind.
Terminates == <>(main = "returned")

\* The barrier implements PhaseBarrier, its liveness included: a worker is
\* "at" the barrier from counting itself to leaving barrier_wait.
PB == INSTANCE PhaseBarrier
        WITH round <- phase, at <- {t \in Threads : InBarrier(t)}

ImplementsPhaseBarrier == PB!FairSpec
============================================================================
