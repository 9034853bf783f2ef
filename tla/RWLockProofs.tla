---------------------------- MODULE RWLockProofs ----------------------------
(***************************************************************************)
(* Proofs about exercise 02, for any finite sets of readers and writers    *)
(* and any number of operations.                                           *)
(***************************************************************************)
EXTENDS RWLock, FiniteSetTheorems, TLAPS

Holds(t) == pc[t] \in {"read", "load", "store", "wrote", "unlock"}

\* The writes each writer has made, and all of them as a set, to be counted.
Made == [t \in Writers |-> ops[t] + IF pc[t] \in {"wrote", "unlock"} THEN 1 ELSE 0]
Writes == {p \in Writers \X (1..OPERATIONS) : p[2] <= Made[p[1]]}

\* Types, without the bound on the values, which takes counting.
Types == /\ shared_data \in Nat
         /\ rwlock \in SUBSET Threads
         /\ pc \in [Threads -> States]
         /\ ops \in [Threads -> 0..OPERATIONS]
         /\ reg \in [Threads -> Nat]
         /\ main \in {"create", "join", "destroyed"}

\* Where a thread can be, and how far its loop is there.
LoopInv ==
  /\ \A t \in Threads : /\ pc[t] \notin {"unborn", "done"} => ops[t] < OPERATIONS
                        /\ pc[t] = "done" => ops[t] = OPERATIONS
                        /\ pc[t] = "unborn" => ops[t] = 0
  /\ \A t \in Readers : pc[t] \notin {"load", "store", "wrote"}
  /\ \A t \in Writers : pc[t] # "read"
  /\ main = "destroyed" => \A t \in Threads : pc[t] = "done"

\* The lock is held by those who are past it, and by a writer alone.
LockInv == /\ \A t \in Threads : t \in rwlock <=> Holds(t)
           /\ \A t \in Writers : t \in rwlock => rwlock = {t}

\* The value is the number of writes; what was loaded under the lock is still
\* the value; every value but one about to be printed has been printed.
DataInv ==
  /\ shared_data = Cardinality(Writes)
  /\ \A t \in Threads : reg[t] <= shared_data
  /\ \A t \in Threads : pc[t] = "store" => reg[t] = shared_data
  /\ ReadStable
  /\ wrote = 1..(shared_data - IF \E t \in Threads : pc[t] = "wrote" THEN 1 ELSE 0)

IndInv == Types /\ LoopInv /\ LockInv /\ DataInv
-----------------------------------------------------------------------------
\* Readers are not writers.
LEMMA Sorts == /\ \A t \in Threads : t \in Readers \/ t \in Writers
               /\ \A t \in Readers : t \in Threads /\ t \notin Writers
               /\ \A t \in Writers : t \in Threads /\ t \notin Readers
  BY RWLockAssumption DEF Threads

\* No writer makes more writes than its loop has turns.
LEMMA MadeType == ASSUME Types, LoopInv PROVE Made \in [Writers -> 0..OPERATIONS]
<1>1. ASSUME NEW t \in Writers
      PROVE  ops[t] + (IF pc[t] \in {"wrote", "unlock"} THEN 1 ELSE 0) \in 0..OPERATIONS
  <2>1. /\ ops[t] \in Nat /\ ops[t] <= OPERATIONS
        /\ pc[t] \notin {"unborn", "done"} => ops[t] < OPERATIONS
    BY Sorts DEF Types, LoopInv
  <2> QED  BY <2>1, RWLockAssumption
<1> QED  BY <1>1 DEF Made

\* The number of writes is a number, at most all of them.
LEMMA WritesFinite ==
  /\ IsFiniteSet(Writes) /\ Cardinality(Writes) \in Nat
  /\ Cardinality(Writes) <= Cardinality(Writers) * OPERATIONS
  /\ Cardinality(Writers) * OPERATIONS \in Nat
<1>1. IsFiniteSet(1..OPERATIONS) /\ Cardinality(1..OPERATIONS) = OPERATIONS
  BY FS_Interval, RWLockAssumption
<1> DEFINE turns == 1..OPERATIONS
           all == Writers \X turns
<1>2. IsFiniteSet(turns) /\ Cardinality(turns) = OPERATIONS  BY <1>1
<1> HIDE DEF turns
<1>3. IsFiniteSet(all) /\ Cardinality(all) = Cardinality(Writers) * OPERATIONS
  BY <1>2, FS_Product, RWLockAssumption
<1>4. Writes \subseteq all  BY DEF Writes, turns
<1> HIDE DEF all
<1>5. /\ IsFiniteSet(Writes) /\ Cardinality(Writes) <= Cardinality(all)
  BY <1>3, <1>4, FS_Subset
<1>6. Cardinality(Writes) \in Nat /\ Cardinality(all) \in Nat
  BY <1>3, <1>5, FS_CardinalityType
<1> QED  BY <1>3, <1>5, <1>6

\* A store is one more write.
LEMMA OneWriteMore ==
  ASSUME Types, LoopInv, NEW t \in Writers, Made[t] + 1 <= OPERATIONS,
         Made' = [Made EXCEPT ![t] = @ + 1]
  PROVE  Cardinality(Writes') = Cardinality(Writes) + 1
<1> DEFINE new == <<t, Made[t] + 1>>
<1>1. Made \in [Writers -> 0..OPERATIONS] /\ Made[t] \in Nat /\ OPERATIONS \in Nat
  BY MadeType, RWLockAssumption
<1>2. new \in Writers \X (1..OPERATIONS) /\ new[1] = t /\ new[2] = Made[t] + 1
  BY <1>1
<1>3. new \notin Writes  BY <1>1, <1>2 DEF Writes
<1>4. Writes' = Writes \cup {new}
  <2> HIDE DEF new
  <2>1. ASSUME NEW q \in Writers \X (1..OPERATIONS)
        PROVE  q[2] <= Made'[q[1]] <=> q[2] <= Made[q[1]] \/ q = new
    <3>1. q[1] \in Writers /\ q[2] \in 1..OPERATIONS /\ q = <<q[1], q[2]>>
      OBVIOUS
    <3>2. new = <<t, Made[t] + 1>>  BY DEF new
    <3>3. CASE q[1] = t
      <4>1. Made'[q[1]] = Made[t] + 1  BY <1>1, <3>3
      <4>2. q = new <=> q[2] = Made[t] + 1  BY <3>1, <3>2, <3>3
      <4> QED  BY <1>1, <3>1, <3>3, <4>1, <4>2
    <3>4. CASE q[1] # t
      <4>1. Made'[q[1]] = Made[q[1]] /\ q # new  BY <1>1, <1>2, <3>1, <3>4
      <4> QED  BY <4>1
    <3> QED  BY <3>3, <3>4
  <2> QED  BY <2>1, <1>2 DEF Writes
<1> QED  BY <1>3, <1>4, WritesFinite, FS_AddElement

\* Once all writers are done they have made all writes.
LEMMA AllWrites ==
  ASSUME Types, LoopInv, \A t \in Writers : pc[t] = "done"
  PROVE  Cardinality(Writes) = Cardinality(Writers) * OPERATIONS
<1>1. \A t \in Writers : Made[t] = OPERATIONS
  BY Sorts, RWLockAssumption DEF Types, LoopInv, Made
<1>2. Writes = Writers \X (1..OPERATIONS)  BY <1>1, RWLockAssumption DEF Writes
<1> DEFINE turns == 1..OPERATIONS
<1>3. IsFiniteSet(turns) /\ Cardinality(turns) = OPERATIONS
  BY FS_Interval, RWLockAssumption
<1>4. Writes = Writers \X turns  BY <1>2
<1> HIDE DEF turns
<1> QED  BY <1>3, <1>4, FS_Product, RWLockAssumption

\* What the loop test leads to.
LEMMA LoopAtFacts ==
  ASSUME NEW n \in 0..OPERATIONS
  PROVE  /\ LoopAt(n) \in {"lock", "done"} /\ LoopAt(n) \in States
         /\ LoopAt(n) = "lock" => n < OPERATIONS
         /\ LoopAt(n) = "done" => n = OPERATIONS
  BY RWLockAssumption DEF LoopAt, States

\* A step that neither writes, loads nor prints keeps what is said of the
\* data, as long as nobody gets to a store or past a load by it.
LEMMA QuietStep ==
  ASSUME IndInv, UNCHANGED <<shared_data, reg, wrote>>, Made' = Made,
         \A u \in Threads : /\ pc'[u] = "store" <=> pc[u] = "store"
                            /\ pc'[u] = "wrote" <=> pc[u] = "wrote"
                            /\ u \in Readers /\ pc'[u] = "unlock" => pc[u] = "unlock"
  PROVE  DataInv'
<1>1. Writes' = Writes  BY DEF Writes
<1> QED  BY <1>1, Sorts DEF IndInv, DataInv, ReadStable

\* Creating a thread.
LEMMA CreateStep == ASSUME IndInv, NEW t \in Threads, Create(t)
                    PROVE  IndInv' /\ Made' = Made
<1> USE DEF IndInv
<1>1. 0 \in 0..OPERATIONS  BY RWLockAssumption
<1>2. LoopAt(0) \in {"lock", "done"} /\ LoopAt(0) \in States  BY <1>1, LoopAtFacts
<1>3. main' # "destroyed" /\ main' \in {"create", "join"} /\ pc[t] = "unborn"
      /\ pc' = [pc EXCEPT ![t] = LoopAt(0)]
      /\ UNCHANGED <<shared_data, rwlock, ops, reg, wrote>>
  BY DEF Create
<1>4. Types'  BY <1>2, <1>3 DEF Types
<1>5. LoopInv'
  BY <1>1, <1>2, <1>3, LoopAtFacts, Sorts DEF Types, LoopInv
<1>6. LockInv'  BY <1>2, <1>3 DEF Types, LockInv, Holds
<1>7. Made' = Made  BY <1>2, <1>3, Sorts DEF Types, Made
<1>8. DataInv'  BY <1>2, <1>3, <1>7, QuietStep DEF Types
<1> QED  BY <1>4, <1>5, <1>6, <1>7, <1>8

\* Taking the lock, for a read or for a write.
LEMMA LockStep ==
  ASSUME IndInv, NEW t \in Threads, RdLock(t) \/ WrLock(t)
  PROVE  IndInv' /\ Made' = Made
<1> USE DEF IndInv
<1>1. /\ pc[t] = "lock" /\ rwlock' = rwlock \cup {t}
      /\ \/ t \in Readers /\ rwlock \cap Writers = {} /\ pc' = [pc EXCEPT ![t] = "read"]
         \/ t \in Writers /\ rwlock = {} /\ pc' = [pc EXCEPT ![t] = "load"]
      /\ UNCHANGED <<shared_data, ops, reg, wrote, main>>
  BY DEF RdLock, WrLock, MayWrite
<1>2. Types'  BY <1>1 DEF Types, States
<1>3. LoopInv'  BY <1>1, Sorts DEF Types, LoopInv
<1>4. LockInv'  BY <1>1, Sorts DEF Types, LockInv, Holds
<1>5. Made' = Made  BY <1>1, Sorts DEF Types, Made
<1>6. DataInv'  BY <1>1, <1>5, QuietStep DEF Types
<1> QED  BY <1>2, <1>3, <1>4, <1>5, <1>6

\* Loading the value, to print it or to add to it.
LEMMA LoadStep ==
  ASSUME IndInv, NEW t \in Threads, Read(t) \/ LoadData(t)
  PROVE  IndInv' /\ Made' = Made
<1> USE DEF IndInv
<1>1. /\ reg' = [reg EXCEPT ![t] = shared_data]
      /\ \/ pc[t] = "read" /\ pc' = [pc EXCEPT ![t] = "unlock"]
         \/ pc[t] = "load" /\ pc' = [pc EXCEPT ![t] = "store"]
      /\ UNCHANGED <<shared_data, rwlock, ops, wrote, main>>
  BY DEF Read, LoadData
<1>2. (pc[t] = "read" => t \in Readers) /\ (pc[t] = "load" => t \in Writers)
  BY Sorts DEF LoopInv
<1>3. Types'  BY <1>1 DEF Types, States
<1>4. LoopInv'  BY <1>1, <1>2, Sorts DEF Types, LoopInv
<1>5. LockInv'  BY <1>1 DEF Types, LockInv, Holds
<1>6. Made' = Made  BY <1>1, <1>2, Sorts DEF Types, Made
<1>7. Writes' = Writes  BY <1>6 DEF Writes
<1>8. DataInv'
  <2>1. shared_data' = Cardinality(Writes')  BY <1>1, <1>7 DEF DataInv
  <2>2. /\ \A u \in Threads : reg'[u] <= shared_data'
        /\ \A u \in Threads : pc'[u] = "store" => reg'[u] = shared_data'
    BY <1>1 DEF Types, DataInv
  <2>3. ReadStable'  BY <1>1, Sorts DEF Types, DataInv, ReadStable
  <2>4. \A u \in Threads : pc'[u] = "wrote" <=> pc[u] = "wrote"  BY <1>1 DEF Types
  <2> QED  BY <1>1, <2>1, <2>2, <2>3, <2>4 DEF DataInv
<1> QED  BY <1>3, <1>4, <1>5, <1>6, <1>8

\* While a writer has the lock nobody else is past it.
LEMMA WriterAlone ==
  ASSUME IndInv, NEW t \in Writers, Holds(t), NEW u \in Threads, Holds(u)
  PROVE  u = t
  BY Sorts DEF IndInv, LockInv

\* Storing the value: the one step that writes.
LEMMA StoreStep == ASSUME IndInv, NEW t \in Threads, StoreData(t)
                   PROVE  /\ IndInv' /\ t \in Writers /\ Made[t] < OPERATIONS
                          /\ shared_data' = shared_data + 1
                          /\ Made' = [Made EXCEPT ![t] = @ + 1]
<1> USE DEF IndInv
<1>1. /\ pc[t] = "store" /\ shared_data' = reg[t] + 1
      /\ pc' = [pc EXCEPT ![t] = "wrote"]
      /\ UNCHANGED <<rwlock, ops, reg, wrote, main>>
  BY DEF StoreData
<1>2. t \in Writers /\ reg[t] = shared_data /\ shared_data \in Nat
  BY <1>1, Sorts DEF Types, LoopInv, DataInv
<1>3. Types'  BY <1>1, <1>2 DEF Types, States
<1>4. LoopInv'  BY <1>1, <1>2, Sorts DEF Types, LoopInv
<1>5. LockInv'  BY <1>1 DEF Types, LockInv, Holds
<1>6. \A u \in Threads \ {t} : ~Holds(u)  BY <1>1, <1>2, WriterAlone DEF Holds
<1>7. /\ Made[t] = ops[t] /\ ops[t] \in Nat /\ ops[t] + 1 <= OPERATIONS
      /\ Made' = [Made EXCEPT ![t] = @ + 1]
  <2>1. Made[t] = ops[t] /\ ops[t] \in Nat /\ ops[t] + 1 <= OPERATIONS
    BY <1>1, <1>2, Sorts, RWLockAssumption DEF Types, LoopInv, Made
  <2>2. ASSUME NEW u \in Writers
        PROVE  Made'[u] = IF u = t THEN Made[t] + 1 ELSE Made[u]
    BY <1>1, <1>2, Sorts DEF Types, Made
  <2> QED  BY <2>1, <2>2, <1>2 DEF Made
<1>8. Cardinality(Writes') = Cardinality(Writes) + 1  BY <1>2, <1>7, OneWriteMore
<1>9. DataInv'
  <2>1. shared_data' = Cardinality(Writes')  BY <1>1, <1>2, <1>8 DEF DataInv
  <2>2. \A u \in Threads : reg'[u] <= shared_data'
    BY <1>1, <1>2 DEF Types, DataInv
  <2>3. /\ \A u \in Threads : pc'[u] # "store" /\ (u \in Readers => pc'[u] # "unlock")
        /\ ~\E u \in Threads : pc[u] = "wrote"
        /\ pc'[t] = "wrote"
    BY <1>1, <1>2, <1>6, Sorts DEF Types, Holds
  <2>4. wrote = 1..shared_data  BY <1>2, <2>3 DEF DataInv
  <2> QED  BY <1>1, <1>2, <2>1, <2>2, <2>3, <2>4, Sorts DEF DataInv, ReadStable
<1> QED  BY <1>1, <1>2, <1>3, <1>4, <1>5, <1>7, <1>9, RWLockAssumption

\* Printing the value that was written.
LEMMA PrintStep == ASSUME IndInv, NEW t \in Threads, PrintData(t)
                   PROVE  /\ IndInv' /\ Made' = Made
                          /\ wrote = 1..(shared_data - 1)
                          /\ wrote' = 1..shared_data
<1> USE DEF IndInv
<1>1. /\ pc[t] = "wrote" /\ wrote' = wrote \cup {shared_data}
      /\ pc' = [pc EXCEPT ![t] = "unlock"]
      /\ UNCHANGED <<shared_data, rwlock, ops, reg, main>>
  BY DEF PrintData
<1>2. t \in Writers  BY <1>1, Sorts DEF LoopInv
<1>3. Types'  BY <1>1 DEF Types, States
<1>4. LoopInv'  BY <1>1, <1>2, Sorts DEF Types, LoopInv
<1>5. LockInv'  BY <1>1 DEF Types, LockInv, Holds
<1>6. Made' = Made  BY <1>1, <1>2, Sorts DEF Types, Made
<1>7. Writes' = Writes  BY <1>6 DEF Writes
<1>8. \A u \in Threads \ {t} : ~Holds(u)  BY <1>1, <1>2, WriterAlone DEF Holds
<1>9. shared_data \in Nat /\ shared_data >= 1
  <2>1. Made[t] \in 1..OPERATIONS
    BY <1>1, <1>2, Sorts, RWLockAssumption DEF Types, LoopInv, Made
  <2>2. <<t, 1>> \in Writes  BY <1>2, <2>1, RWLockAssumption DEF Writes
  <2>3. Cardinality(Writes) # 0  BY <2>2, WritesFinite, FS_EmptySet
  <2> QED  BY <2>3, WritesFinite DEF DataInv
<1>10. wrote = 1..(shared_data - 1)  BY <1>1 DEF DataInv
<1>11. wrote' = 1..shared_data  BY <1>1, <1>9, <1>10
<1>12. DataInv'
  <2>1. shared_data' = Cardinality(Writes')  BY <1>1, <1>7 DEF DataInv
  <2>2. /\ \A u \in Threads : reg'[u] <= shared_data'
        /\ \A u \in Threads : pc'[u] = "store" => reg'[u] = shared_data'
    BY <1>1 DEF Types, DataInv
  <2>3. ReadStable'  BY <1>1, <1>2, Sorts DEF Types, DataInv, ReadStable
  <2>4. ~\E u \in Threads : pc'[u] = "wrote"  BY <1>1, <1>8 DEF Types, Holds
  <2>5. wrote' = 1..(shared_data' - 0)  BY <1>1, <1>9, <1>11
  <2> QED  BY <2>1, <2>2, <2>3, <2>4, <2>5 DEF DataInv
<1> QED  BY <1>3, <1>4, <1>5, <1>6, <1>10, <1>11, <1>12

\* Giving the lock back.
LEMMA UnlockStep == ASSUME IndInv, NEW t \in Threads, Unlock(t)
                    PROVE  IndInv' /\ Made' = Made
<1> USE DEF IndInv
<1> DEFINE n == ops[t] + 1
<1>1. /\ pc[t] = "unlock" /\ rwlock' = rwlock \ {t}
      /\ ops' = [ops EXCEPT ![t] = n]
      /\ pc' = [pc EXCEPT ![t] = LoopAt(n)]
      /\ UNCHANGED <<shared_data, reg, wrote, main>>
  BY DEF Unlock
<1>2. n \in 0..OPERATIONS /\ n = ops[t] + 1 /\ n > 0 /\ ops[t] \in Nat
  BY <1>1, RWLockAssumption DEF Types, LoopInv
<1>3. /\ LoopAt(n) \in {"lock", "done"} /\ LoopAt(n) \in States
      /\ LoopAt(n) = "lock" => n < OPERATIONS
      /\ LoopAt(n) = "done" => n = OPERATIONS
  BY <1>2, LoopAtFacts
<1> HIDE DEF n
<1>4. Types'  BY <1>1, <1>2, <1>3 DEF Types
<1>5. LoopInv'  BY <1>1, <1>2, <1>3, Sorts DEF Types, LoopInv
<1>6. LockInv'  BY <1>1, <1>3, Sorts DEF Types, LockInv, Holds
<1>7. Made' = Made
  <2>1. ASSUME NEW u \in Writers PROVE Made'[u] = Made[u]
    <3>1. CASE u = t  BY <1>1, <1>2, <1>3, <3>1 DEF Types, Made
    <3>2. CASE u # t  BY <1>1, <3>2, Sorts DEF Types, Made
    <3> QED  BY <3>1, <3>2
  <2> QED  BY <2>1 DEF Made
<1>8. DataInv'  BY <1>1, <1>3, <1>7, QuietStep DEF Types
<1> QED  BY <1>4, <1>5, <1>6, <1>7, <1>8

\* main prints the final value and destroys the lock.
LEMMA DestroyStep == ASSUME IndInv, Destroy PROVE IndInv' /\ Made' = Made
<1> USE DEF IndInv, Destroy, Joined
<1>1. Types' /\ LoopInv' /\ LockInv'  BY DEF Types, LoopInv, LockInv, Holds
<1>2. Made' = Made  BY DEF Made
<1>3. DataInv'  BY <1>2, QuietStep
<1> QED  BY <1>1, <1>2, <1>3

\* Nobody has the lock and nothing is written.
LEMMA IndInit == Init => IndInv
<1> SUFFICES ASSUME Init PROVE IndInv  OBVIOUS
<1> USE DEF Init
<1>1. Types  BY RWLockAssumption DEF Types, States
<1>2. LoopInv /\ LockInv  BY Sorts DEF LoopInv, LockInv, Holds
<1>3. \A t \in Writers : Made[t] = 0  BY Sorts DEF Made
<1>4. Writes = {}  BY <1>3 DEF Writes
<1>5. Cardinality(Writes) = 0  BY <1>4, FS_EmptySet
<1>6. wrote = 1..(0 - 0)  OBVIOUS
<1>7. DataInv  BY <1>5, <1>6, Sorts DEF DataInv, ReadStable
<1> QED  BY <1>1, <1>2, <1>7 DEF IndInv

\* Nothing changes.
LEMMA Stutter == ASSUME IndInv, UNCHANGED vars PROVE IndInv' /\ Made' = Made
<1> USE DEF IndInv, vars
<1>1. Types' /\ LoopInv' /\ LockInv'  BY DEF Types, LoopInv, LockInv, Holds
<1>2. Made' = Made  BY DEF Made
<1>3. DataInv'  BY <1>2, QuietStep
<1> QED  BY <1>1, <1>2, <1>3

\* Every step keeps the invariant.
LEMMA IndNext == IndInv /\ [Next]_vars => IndInv'
<1> SUFFICES ASSUME IndInv, [Next]_vars PROVE IndInv'  OBVIOUS
<1>1. ASSUME NEW t \in Threads, Worker(t) PROVE IndInv'
  BY <1>1, LockStep, LoadStep, StoreStep, PrintStep, UnlockStep DEF Worker
<1> QED  BY <1>1, CreateStep, DestroyStep, Stutter DEF Next, Terminating
-----------------------------------------------------------------------------
\* The inductive invariant holds throughout.
THEOREM RWLockInvariant == Spec => []IndInv
  BY IndInit, IndNext, PTL DEF Spec

\* Types; in particular no value goes beyond the number of writes there are.
THEOREM RWLockTypes == Spec => []TypeOK
<1>1. IndInv => TypeOK
  <2> SUFFICES ASSUME IndInv PROVE TypeOK  OBVIOUS
  <2> DEFINE Max == Cardinality(Writers) * OPERATIONS
  <2>1. Max \in Nat /\ shared_data \in Nat /\ shared_data <= Max
    BY WritesFinite DEF IndInv, DataInv
  <2> HIDE DEF Max
  <2>2. reg \in [Threads -> 0..Max]  BY <2>1 DEF IndInv, Types, DataInv
  <2>3. wrote \in SUBSET (1..Max)  BY <2>1 DEF IndInv, DataInv
  <2>4. shared_data \in 0..Max  BY <2>1
  <2> QED  BY <2>2, <2>3, <2>4 DEF IndInv, Types, TypeOK, Max
<1> QED  BY <1>1, RWLockInvariant, PTL

\* No write happens between a reader's printf and its unlock, for any number
\* of readers and writers (reader_thread, writer_thread).
THEOREM RWLockReadStable == Spec => []ReadStable
<1>1. IndInv => ReadStable  BY DEF IndInv, DataInv
<1> QED  BY <1>1, RWLockInvariant, PTL

\* When main destroys the lock nobody holds it or will ask for it, and
\* shared_data is the number of all writes (main).
THEOREM RWLockDestroyedUnused == Spec => []DestroyedUnused
<1>1. IndInv => DestroyedUnused
  <2> SUFFICES ASSUME IndInv, main = "destroyed"
               PROVE  /\ rwlock = {}
                      /\ \A t \in Threads : pc[t] = "done"
                      /\ shared_data = Cardinality(Writers) * OPERATIONS
    BY DEF DestroyedUnused
  <2>1. \A t \in Threads : pc[t] = "done"  BY DEF IndInv, LoopInv
  <2>2. rwlock = {}  BY <2>1 DEF IndInv, Types, LockInv, Holds
  <2>3. Cardinality(Writes) = Cardinality(Writers) * OPERATIONS
    BY <2>1, AllWrites, Sorts DEF IndInv
  <2> QED  BY <2>1, <2>2, <2>3 DEF IndInv, DataInv
<1> QED  BY <1>1, RWLockInvariant, PTL

\* Writers print 1, 2, 3, ..., each value once (writer_thread).
THEOREM RWLockWritesNumbered == Spec => WritesNumbered
<1> DEFINE Numbered == wrote' # wrote => /\ wrote = 1..(shared_data - 1)
                                        /\ wrote' = 1..shared_data
<1>1. ASSUME IndInv, [Next]_vars PROVE Numbered
  <2>1. ASSUME NEW t \in Threads, PrintData(t) PROVE Numbered
    BY <1>1, <2>1, PrintStep
  <2> QED
    BY <1>1, <2>1
    DEF Next, Worker, Create, RdLock, Read, WrLock, LoadData, StoreData, Unlock,
        Destroy, Terminating, vars
<1>2. IndInv /\ [Next]_vars => [Numbered]_vars  BY <1>1
<1> QED  BY <1>2, RWLockInvariant, PTL DEF Spec, WritesNumbered

\* The writes under the lock implement AtomicCounter: each store adds one in
\* one step, and nothing else changes the value.
THEOREM RWLockRefinesAtomicCounter == Spec => AC!Spec
<1> DEFINE Quiet == shared_data' = shared_data /\ Made' = Made
<1>1. Init => AC!Init  BY Sorts DEF Init, AC!Init
<1>2. ASSUME IndInv, NEW t \in Threads, StoreData(t) PROVE AC!Next
  <2>1. /\ t \in Writers /\ Made[t] < OPERATIONS
        /\ shared_data' = shared_data + 1 /\ Made' = [Made EXCEPT ![t] = @ + 1]
    BY <1>2, StoreStep
  <2>2. AC!Add(t)  BY <2>1 DEF AC!Add, Made
  <2> QED  BY <2>1, <2>2 DEF AC!Next
<1>3. ASSUME IndInv, NEW t \in Threads, Create(t) \/ Worker(t), ~StoreData(t)
      PROVE  Quiet
  <2>1. Made' = Made
    BY <1>3, CreateStep, LockStep, LoadStep, PrintStep, UnlockStep DEF Worker
  <2>2. shared_data' = shared_data
    BY <1>3 DEF Worker, Create, RdLock, Read, WrLock, LoadData, PrintData, Unlock
  <2> QED  BY <2>1, <2>2
<1>4. ASSUME IndInv, Destroy \/ UNCHANGED vars PROVE Quiet
  BY <1>4, DestroyStep, Stutter DEF Destroy, vars
<1>5. Quiet => UNCHANGED AC!vars  BY DEF Made, AC!vars
<1> HIDE DEF Quiet
<1>6. IndInv /\ [Next]_vars => [AC!Next]_(AC!vars)
  BY <1>2, <1>3, <1>4, <1>5 DEF Next, Terminating
<1> QED  BY <1>1, <1>6, RWLockInvariant, PTL DEF Spec, AC!Spec
-----------------------------------------------------------------------------
\* Main creates as long as there is a thread to create.
MainInv == main = "create" <=> \E t \in Threads : pc[t] = "unborn"

\* Thread t can be created or can take a step of its own.
CanRun(t) == \/ main = "create" /\ pc[t] = "unborn"
             \/ pc[t] = "lock" /\ t \in Readers /\ rwlock \cap Writers = {}
             \/ pc[t] = "lock" /\ t \in Writers /\ MayWrite
             \/ Holds(t)

\* Somebody can go on, or main has destroyed the lock.
NeverStuck == \/ \E t \in Threads : CanRun(t)
              \/ main = "join" /\ Joined
              \/ main = "destroyed"

\* How far main and thread t are.
MainRank == CASE main = "create" -> 0 [] main = "join" -> 1 [] OTHER -> 2
Place(t) == CASE pc[t] = "unborn" -> 0
              [] pc[t] \in {"lock", "done"} -> 1
              [] pc[t] \in {"read", "load"} -> 2
              [] pc[t] = "store" -> 3
              [] pc[t] = "wrote" -> 4
              [] OTHER -> 5
Rank(t) == 6 * ops[t] + Place(t)

\* Somebody gets ahead and nobody back.
StepsAhead == /\ MainRank <= MainRank'
              /\ \A t \in Threads : Rank(t) <= Rank(t)'
              /\ MainRank < MainRank' \/ \E t \in Threads : Rank(t) < Rank(t)'

\* The last place there is.
RankBounded == \A t \in Threads : Rank(t) \in 0..(6 * OPERATIONS + 1)

\* Nobody is created but by Create.
LEMMA MainNext == IndInv /\ MainInv /\ [Next]_vars => MainInv'
<1> SUFFICES ASSUME IndInv, MainInv, [Next]_vars PROVE MainInv'  OBVIOUS
<1>1. pc \in [Threads -> States]  BY DEF IndInv, Types
<1>2. ASSUME NEW t \in Threads, Create(t) PROVE MainInv'
  BY <1>1, <1>2 DEF Create, MainInv, LoopAt
<1>3. ASSUME NEW t \in Threads, Worker(t) PROVE MainInv'
  <2>1. /\ main' = main /\ pc[t] # "unborn"
        /\ \E s \in States \ {"unborn"} : pc' = [pc EXCEPT ![t] = s]
    BY <1>3
    DEF Worker, RdLock, Read, WrLock, LoadData, StoreData, PrintData, Unlock, LoopAt, States
  <2> QED  BY <1>1, <2>1 DEF MainInv
<1>4. CASE Destroy  BY <1>4 DEF Destroy, Joined, MainInv
<1>5. CASE UNCHANGED vars  BY <1>5 DEF vars, MainInv
<1> QED  BY <1>2, <1>3, <1>4, <1>5 DEF Next, Terminating

\* No deadlock: until the lock is destroyed somebody has a step to take, for
\* any number of readers, writers and operations (reader, writer, main).
THEOREM RWLockNeverStuck == Spec => []NeverStuck
<1>1. Init => MainInv  BY RWLockAssumption DEF Init, MainInv, Threads
<1>2. IndInv /\ MainInv => NeverStuck
  <2> SUFFICES ASSUME IndInv, MainInv, main \in {"create", "join"},
                      \A t \in Threads : ~CanRun(t)
               PROVE  main = "join" /\ Joined
    BY DEF NeverStuck, IndInv, Types
  <2>1. main = "join" /\ \A t \in Threads : pc[t] # "unborn"  BY DEF MainInv, CanRun
  <2>2. rwlock = {}  BY DEF IndInv, Types, LockInv, CanRun
  <2>3. \A t \in Threads : pc[t] # "lock"  BY <2>2, Sorts DEF CanRun, MayWrite
  <2>4. \A t \in Threads : pc[t] = "done"
    BY <2>1, <2>3 DEF IndInv, Types, States, CanRun, Holds
  <2> QED  BY <2>1, <2>4 DEF Joined
<1> QED  BY <1>1, <1>2, MainNext, RWLockInvariant, PTL DEF Spec

\* A thread that moves is ahead of where it was and moves nobody else.
LEMMA ThreadAhead ==
  ASSUME IndInv, IndInv', NEW t \in Threads, Create(t) \/ Worker(t) PROVE StepsAhead
<1>1. /\ pc \in [Threads -> States] /\ ops \in [Threads -> 0..OPERATIONS]
      /\ ops' \in [Threads -> 0..OPERATIONS] /\ OPERATIONS \in Nat
  BY RWLockAssumption DEF IndInv, Types
<1>2. ASSUME \A u \in Threads \ {t} : pc'[u] = pc[u] /\ ops'[u] = ops[u],
             Rank(t) < Rank(t)', MainRank <= MainRank'
      PROVE  StepsAhead
  <2>1. \A u \in Threads : Rank(u) \in Nat /\ Rank(u)' \in Nat
    BY <1>1 DEF Rank, Place
  <2>2. \A u \in Threads \ {t} : Rank(u)' = Rank(u)  BY <1>2 DEF Rank, Place
  <2> QED  BY <1>2, <2>1, <2>2 DEF StepsAhead
<1>3. main' = main => MainRank <= MainRank'  BY DEF MainRank
<1>4. CASE Create(t)  BY <1>1, <1>2, <1>4 DEF Create, LoopAt, Rank, Place, MainRank
<1>5. CASE Unlock(t)  BY <1>1, <1>2, <1>3, <1>5 DEF Unlock, LoopAt, Rank, Place
<1>6. CASE RdLock(t) \/ Read(t)
  BY <1>1, <1>2, <1>3, <1>6 DEF RdLock, Read, Rank, Place
<1>7. CASE WrLock(t) \/ LoadData(t) \/ StoreData(t) \/ PrintData(t)
  BY <1>1, <1>2, <1>3, <1>7
  DEF WrLock, LoadData, StoreData, PrintData, Rank, Place
<1> QED  BY <1>4, <1>5, <1>6, <1>7 DEF Worker

\* So is main.
LEMMA MainAhead == ASSUME IndInv, Destroy PROVE StepsAhead
<1>1. \A t \in Threads : Rank(t)' = Rank(t) /\ Rank(t) \in Nat
  BY DEF Destroy, Rank, Place, IndInv, Types
<1>2. MainRank < MainRank' /\ MainRank <= MainRank'  BY DEF Destroy, MainRank
<1> QED  BY <1>1, <1>2 DEF StepsAhead

\* No livelock: every step gets main or a thread ahead and none of them back,
\* and there is an end to it; with RWLockNeverStuck, the lock is destroyed,
\* however unfair it is to the writers.
THEOREM RWLockProgress == Spec => []RankBounded /\ [][StepsAhead]_vars
<1>1. IndInv => RankBounded
  BY RWLockAssumption DEF IndInv, Types, States, LoopInv, RankBounded, Rank, Place
<1>2. IndInv /\ IndInv' /\ [Next]_vars => [StepsAhead]_vars
  BY ThreadAhead, MainAhead DEF Next, Terminating
<1> QED  BY <1>1, <1>2, RWLockInvariant, PTL DEF Spec
=============================================================================
