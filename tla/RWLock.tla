------------------------------- MODULE RWLock -------------------------------
(***************************************************************************)
(* Exercise 02: readers and writers that share an int under a              *)
(* pthread_rwlock_t, and main, which initialises the lock, creates, joins  *)
(* and destroys.  The lock is external: a read lock is granted whenever    *)
(* no writer holds it, also past waiting writers (the default preference   *)
(* of glibc), a write lock when nobody holds it.  Sleeping changes nothing *)
(* and can take any time, like every other step.                           *)
(***************************************************************************)
EXTENDS Naturals, FiniteSets

CONSTANTS Readers, Writers,  \* NUM_READERS, NUM_WRITERS
          OPERATIONS

ASSUME RWLockAssumption == /\ IsFiniteSet(Readers) /\ IsFiniteSet(Writers)
                           /\ Readers \cap Writers = {}
                           /\ Readers \cup Writers # {}
                           /\ OPERATIONS \in Nat

Threads == Readers \cup Writers

VARIABLES
  shared_data,
  rwlock,   \* the threads that hold the lock
  pc,       \* pc[t]: where t is (see States)
  ops,      \* ops[t]: turns of its loop t has made
  reg,      \* reg[t]: value t loaded last; for a reader, the one it printed
  wrote,    \* the values writers have printed
  main      \* "create", "join", "destroyed"

vars == <<shared_data, rwlock, pc, ops, reg, wrote, main>>

States == {"unborn", "lock", "read",         \* reader
           "load", "store", "wrote",         \* writer: shared_data++, printf
           "unlock", "done"}

\* Where the loop stands after n turns.
LoopAt(n) == IF n < OPERATIONS THEN "lock" ELSE "done"

Init == /\ shared_data = 0
        /\ rwlock = {}
        /\ pc = [t \in Threads |-> "unborn"]
        /\ ops = [t \in Threads |-> 0]
        /\ reg = [t \in Threads |-> 0]
        /\ wrote = {}
        /\ main = "create"
-----------------------------------------------------------------------------
\* pthread_create
Create(t) == /\ main = "create"
             /\ pc[t] = "unborn"
             /\ pc' = [pc EXCEPT ![t] = LoopAt(0)]
             /\ main' = IF \E u \in Threads \ {t} : pc[u] = "unborn"
                          THEN "create" ELSE "join"
             /\ UNCHANGED <<shared_data, rwlock, ops, reg, wrote>>

\* pthread_rwlock_rdlock
RdLock(t) == /\ pc[t] = "lock" /\ t \in Readers
             /\ rwlock \cap Writers = {}
             /\ rwlock' = rwlock \cup {t}
             /\ pc' = [pc EXCEPT ![t] = "read"]
             /\ UNCHANGED <<shared_data, ops, reg, wrote, main>>

\* The reader prints shared_data and sleeps.
Read(t) == /\ pc[t] = "read"
           /\ reg' = [reg EXCEPT ![t] = shared_data]
           /\ pc' = [pc EXCEPT ![t] = "unlock"]
           /\ UNCHANGED <<shared_data, rwlock, ops, wrote, main>>

\* Mutants of MayWrite: waiting for writers only, and for readers only.
MayWriteShared == rwlock \cap Writers = {}
MayWriteTogether == rwlock \cap Readers = {}

\* What pthread_rwlock_wrlock waits for.
MayWrite == rwlock = {}

\* pthread_rwlock_wrlock
WrLock(t) == /\ pc[t] = "lock" /\ t \in Writers
             /\ MayWrite
             /\ rwlock' = rwlock \cup {t}
             /\ pc' = [pc EXCEPT ![t] = "load"]
             /\ UNCHANGED <<shared_data, ops, reg, wrote, main>>

\* shared_data++
LoadData(t) == /\ pc[t] = "load"
               /\ reg' = [reg EXCEPT ![t] = shared_data]
               /\ pc' = [pc EXCEPT ![t] = "store"]
               /\ UNCHANGED <<shared_data, rwlock, ops, wrote, main>>
StoreData(t) == /\ pc[t] = "store"
                /\ shared_data' = reg[t] + 1
                /\ pc' = [pc EXCEPT ![t] = "wrote"]
                /\ UNCHANGED <<rwlock, ops, reg, wrote, main>>

\* The writer prints shared_data, read once more, and sleeps.
PrintData(t) == /\ pc[t] = "wrote"
                /\ wrote' = wrote \cup {shared_data}
                /\ pc' = [pc EXCEPT ![t] = "unlock"]
                /\ UNCHANGED <<shared_data, rwlock, ops, reg, main>>

\* Mutant of Unlock: a writer leaves without unlocking.
UnlockForgotten(t) ==
  /\ pc[t] = "unlock"
  /\ rwlock' = IF t \in Readers THEN rwlock \ {t} ELSE rwlock
  /\ ops' = [ops EXCEPT ![t] = @ + 1]
  /\ pc' = [pc EXCEPT ![t] = LoopAt(ops[t] + 1)]
  /\ UNCHANGED <<shared_data, reg, wrote, main>>

\* pthread_rwlock_unlock, sleep and the next turn.
Unlock(t) == /\ pc[t] = "unlock"
             /\ rwlock' = rwlock \ {t}
             /\ ops' = [ops EXCEPT ![t] = @ + 1]
             /\ pc' = [pc EXCEPT ![t] = LoopAt(ops[t] + 1)]
             /\ UNCHANGED <<shared_data, reg, wrote, main>>

\* Mutant of Joined: main joins the readers only.
JoinedReaders == \A t \in Readers : pc[t] = "done"

\* All pthread_join calls have returned.
Joined == \A t \in Threads : pc[t] = "done"

\* main prints the final value and destroys the lock.
Destroy == /\ main = "join"
           /\ Joined
           /\ main' = "destroyed"
           /\ UNCHANGED <<shared_data, rwlock, pc, ops, reg, wrote>>

Terminating == main = "destroyed" /\ UNCHANGED vars

Worker(t) == \/ RdLock(t) \/ Read(t)
             \/ WrLock(t) \/ LoadData(t) \/ StoreData(t) \/ PrintData(t)
             \/ Unlock(t)

Next == \/ \E t \in Threads : Create(t) \/ Worker(t)
        \/ Destroy \/ Terminating

Spec == Init /\ [][Next]_vars

\* Every thread that can run is run.  The loops are finite, so that readers
\* cannot keep a writer out for ever.
FairSpec == /\ Spec
            /\ WF_vars((\E t \in Threads : Create(t)) \/ Destroy)
            /\ \A t \in Threads : WF_vars(Worker(t))
-----------------------------------------------------------------------------
\* Types; shared_data never exceeds the number of writes.
TypeOK == /\ shared_data \in 0..(Cardinality(Writers) * OPERATIONS)
          /\ rwlock \in SUBSET Threads
          /\ pc \in [Threads -> States]
          /\ ops \in [Threads -> 0..OPERATIONS]
          /\ reg \in [Threads -> 0..(Cardinality(Writers) * OPERATIONS)]
          /\ wrote \in SUBSET (1..(Cardinality(Writers) * OPERATIONS))
          /\ main \in {"create", "join", "destroyed"}

\* What a reader printed stays true until it unlocks: no write happens
\* during the read it simulates by sleeping.
ReadStable == \A t \in Readers : pc[t] = "unlock" => reg[t] = shared_data

\* Writers print the values 1, 2, 3, ... and each value once: a writer that
\* prints after its increment prints its own value, not somebody else's.
WritesNumbered ==
  [][wrote' # wrote =>
       /\ wrote = 1..(shared_data - 1)
       /\ wrote' = 1..shared_data]_vars

\* The lock is destroyed when nobody holds it or will ask for it, and the
\* final value main prints just before is the number of writes.
DestroyedUnused ==
  main = "destroyed" => /\ rwlock = {}
                        /\ \A t \in Threads : pc[t] = "done"
                        /\ shared_data = Cardinality(Writers) * OPERATIONS

\* Writers are not starved for ever, readers neither, and main returns.
Terminates == <>(main = "destroyed")

AC == INSTANCE AtomicCounter
        WITH Threads <- Writers, Iterations <- OPERATIONS, total <- shared_data,
             done <- [t \in Writers |->
                        ops[t] + IF pc[t] \in {"wrote", "unlock"} THEN 1 ELSE 0]

\* The writes behave as atomic increments.
ImplementsAtomicCounter == AC!FairSpec
=============================================================================
