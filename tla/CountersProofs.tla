--------------------------- MODULE CountersProofs ---------------------------
(***************************************************************************)
(* Proofs about the shared counters of exercises 00 and 01, for any finite *)
(* set of workers, any number of turns and every kind of increment.        *)
(***************************************************************************)
EXTENDS Counters, FiniteSetTheorems, TLAPS

\* The turns whose store was made, as a set, so that they can be counted.
Increments == {p \in Threads \X (1..Iterations) : p[2] <= done[p[1]]}

\* Where a worker can be and how far its loop is there.
LoopInv ==
  /\ \A t \in Threads :
       /\ pc[t] = "unborn" => done[t] = 0
       /\ pc[t] \in {"lock", "unlock"} => kind = "mutex"
       /\ pc[t] = "add" <=> kind = "atomic" /\ pc[t] \notin {"unborn", "done", "joined"}
       /\ kind = "mutex" => chunk[t] = 1
       /\ pc[t] \in {"lock", "load", "store", "add"} => done[t] < Iterations
       /\ pc[t] = "store" => done[t] + chunk[t] <= Iterations
       /\ pc[t] \in {"done", "joined"} => done[t] = Iterations
  /\ main = "joined" => \A t \in Threads : pc[t] = "joined"

\* Only the owner of the mutex is between lock and unlock.
MutexInv == kind = "mutex" =>
  \A t \in Threads : pc[t] \in {"load", "store", "unlock"} => mutex = t

\* Without a race the counter is the number of turns.
ExactInv == kind # "plain" =>
  /\ counter = Cardinality(Increments)
  /\ \A t \in Threads : pc[t] = "store" => reg[t] = counter

\* With one it is never more: neither is a value loaded earlier.
UpperInv == /\ counter <= Cardinality(Increments)
            /\ \A t \in Threads : pc[t] = "store" => reg[t] <= Cardinality(Increments)

\* And it is never less than what the last store of a loop must have added.
LowerInv == /\ (\E t \in Threads : done[t] > 0) => counter >= 1
            /\ \A t \in Threads : pc[t] = "store" /\ done[t] > 0 => reg[t] >= 1
            /\ Iterations > 1 /\ (\A t \in Threads : done[t] = Iterations) => counter >= 2

IndInv == TypeOK /\ LoopInv /\ MutexInv /\ ExactInv /\ UpperInv /\ LowerInv
-----------------------------------------------------------------------------
\* The number of turns is a number.
LEMMA IncrementsFinite ==
  IsFiniteSet(Increments) /\ Cardinality(Increments) \in Nat
<1>1. IsFiniteSet(1..Iterations)  BY FS_Interval, CountersAssumption
<1>2. IsFiniteSet(Threads \X (1..Iterations))
  BY <1>1, FS_Product, CountersAssumption
<1> QED  BY <1>2, FS_Subset, FS_CardinalityType DEF Increments

\* A store that stands for c turns adds c increments.
LEMMA MoreIncrements ==
  ASSUME TypeOK, NEW t \in Threads, NEW c \in Nat \ {0}, done[t] + c <= Iterations,
         done' = [done EXCEPT ![t] = @ + c]
  PROVE  Cardinality(Increments') = Cardinality(Increments) + c
<1> DEFINE new == {t} \X ((done[t] + 1)..(done[t] + c))
<1>1. done[t] \in Nat /\ Iterations \in Nat /\ done \in [Threads -> 0..Iterations]
  BY CountersAssumption DEF TypeOK
<1>2. new \subseteq Threads \X (1..Iterations)  BY <1>1
<1>3. Increments \cap new = {}  BY <1>1 DEF Increments
<1>4. Increments' = Increments \cup new
  <2>1. ASSUME NEW q \in Threads \X (1..Iterations)
        PROVE  q[2] <= done'[q[1]] <=> q[2] <= done[q[1]] \/ q \in new
    <3>1. q[1] \in Threads /\ q[2] \in 1..Iterations /\ q = <<q[1], q[2]>>
      OBVIOUS
    <3>2. q \in new <=> q[1] = t /\ done[t] + 1 <= q[2] /\ q[2] <= done[t] + c
      BY <3>1, <1>1
    <3> HIDE DEF new
    <3>3. CASE q[1] = t  BY <3>1, <3>2, <3>3, <1>1
    <3>4. CASE q[1] # t  BY <3>1, <3>2, <3>4, <1>1
    <3> QED  BY <3>3, <3>4
  <2> QED  BY <2>1, <1>2 DEF Increments
<1>5. IsFiniteSet(new) /\ Cardinality(new) = c
  <2> DEFINE a == done[t] + 1
             b == done[t] + c
  <2>1. a \in Int /\ b \in Int /\ a <= b /\ b - a + 1 = c  BY <1>1
  <2> HIDE DEF a, b
  <2>2. IsFiniteSet(a..b) /\ Cardinality(a..b) = c
    <3>1. /\ IsFiniteSet(a..b)
          /\ Cardinality(a..b) = IF a > b THEN 0 ELSE b - a + 1
      BY <2>1, FS_Interval, Zenon
    <3> QED  BY <2>1, <3>1
  <2>3. IsFiniteSet({t}) /\ Cardinality({t}) = 1  BY FS_Singleton
  <2> DEFINE turns == a..b
  <2>4. new = {t} \X turns  BY DEF a, b
  <2> HIDE DEF turns, new
  <2>5. IsFiniteSet(turns) /\ Cardinality(turns) = c  BY <2>2 DEF turns
  <2>6. /\ IsFiniteSet({t} \X turns)
        /\ Cardinality({t} \X turns) = Cardinality({t}) * Cardinality(turns)
    BY <2>3, <2>5, FS_Product
  <2> QED  BY <2>3, <2>4, <2>5, <2>6
<1> HIDE DEF new
<1>6. IsFiniteSet(Increments) /\ Cardinality(Increments) \in Nat  BY IncrementsFinite
<1>7. Cardinality(Increments \cup new) =
        Cardinality(Increments) + Cardinality(new) - Cardinality(Increments \cap new)
  BY <1>5, <1>6, FS_Union
<1>8. Cardinality(Increments \cap new) = 0  BY <1>3, FS_EmptySet
<1> QED  BY <1>4, <1>5, <1>6, <1>7, <1>8

\* When all loops have ended there are NUM_THREADS * ITERATIONS of them.
LEMMA AllIncrements ==
  ASSUME \A t \in Threads : done[t] = Iterations
  PROVE  Cardinality(Increments) = Expected
<1>1. Increments = Threads \X (1..Iterations)  BY DEF Increments
<1>2. IsFiniteSet(1..Iterations) /\ Cardinality(1..Iterations) = Iterations
  BY FS_Interval, CountersAssumption
<1> QED  BY <1>1, <1>2, FS_Product, CountersAssumption DEF Expected

\* What the loop test leads to.
LEMMA LoopAtFacts ==
  ASSUME TypeOK, NEW n \in 0..Iterations
  PROVE  /\ LoopAt(n) \in States
         /\ LoopAt(n) \in {"lock", "load", "add", "done"}
         /\ LoopAt(n) = "lock" => kind = "mutex"
         /\ LoopAt(n) = "load" => kind = "plain"
         /\ LoopAt(n) = "add" => kind = "atomic"
         /\ n = Iterations <=> LoopAt(n) = "done"
  BY CountersAssumption DEF TypeOK, LoopAt, Turn, States

\* A step that stores nothing keeps what is said of the counter, as long as
\* nobody gets to the store by it.
LEMMA QuietStep ==
  ASSUME IndInv, UNCHANGED <<kind, counter, done, reg>>,
         \A u \in Threads : pc'[u] = "store" => pc[u] = "store"
  PROVE  ExactInv' /\ UpperInv' /\ LowerInv'
<1>1. Increments' = Increments  BY DEF Increments
<1> QED  BY <1>1 DEF IndInv, ExactInv, UpperInv, LowerInv

\* Creating a worker.
LEMMA CreateStep == ASSUME IndInv, NEW t \in Threads, Create(t) PROVE IndInv'
<1> USE DEF IndInv
<1>0. 0 \in 0..Iterations  BY CountersAssumption
<1>a. main' # "joined"  BY DEF Create
<1>1. TypeOK'  BY <1>0, LoopAtFacts DEF Create, TypeOK
<1>2. LoopInv'
  <2>1. done[t] = 0  BY DEF Create, LoopInv
  <2> QED
    BY <1>0, <1>a, <2>1, LoopAtFacts, CountersAssumption DEF Create, TypeOK, LoopInv
<1>3. MutexInv'  BY <1>0, LoopAtFacts DEF Create, TypeOK, MutexInv
<1>4. ExactInv' /\ UpperInv' /\ LowerInv'
  BY <1>0, LoopAtFacts, QuietStep DEF Create, TypeOK
<1> QED  BY <1>1, <1>2, <1>3, <1>4

\* Taking the mutex.
LEMMA LockStep == ASSUME IndInv, NEW t \in Threads, Lock(t) PROVE IndInv'
<1> USE DEF IndInv
<1>1. TypeOK'  BY DEF Lock, TypeOK, States
<1>2. LoopInv'  BY DEF Lock, TypeOK, LoopInv
<1>3. MutexInv'
  BY CountersAssumption DEF Lock, MayLock, TypeOK, MutexInv
<1>4. ExactInv' /\ UpperInv' /\ LowerInv'  BY QuietStep DEF Lock, TypeOK
<1> QED  BY <1>1, <1>2, <1>3, <1>4

\* Giving it back.
LEMMA UnlockStep == ASSUME IndInv, NEW t \in Threads, Unlock(t) PROVE IndInv'
<1> USE DEF IndInv
<1>0. done[t] \in 0..Iterations  BY DEF TypeOK
<1>1. TypeOK'  BY <1>0, LoopAtFacts DEF Unlock, TypeOK
<1>2. LoopInv'  BY <1>0, LoopAtFacts, CountersAssumption DEF Unlock, TypeOK, LoopInv
<1>3. MutexInv'
  <2>1. kind = "mutex" /\ mutex = t  BY DEF Unlock, LoopInv, MutexInv
  <2>2. pc'[t] \notin {"load", "store", "unlock"}
    BY <1>0, <2>1, LoopAtFacts DEF Unlock, TypeOK
  <2> QED  BY <2>1, <2>2 DEF Unlock, TypeOK, MutexInv
<1>4. ExactInv' /\ UpperInv' /\ LowerInv'
  BY <1>0, LoopAtFacts, QuietStep DEF Unlock, TypeOK
<1> QED  BY <1>1, <1>2, <1>3, <1>4

\* Loading the counter.
LEMMA LoadStep ==
  ASSUME IndInv, NEW t \in Threads, NEW c \in Chunks(t), LoadCounter(t, c)
  PROVE  IndInv'
<1> USE DEF IndInv
<1>0. /\ done[t] \in Nat /\ Iterations \in Nat /\ done[t] < Iterations
      /\ c \in Nat \ {0} /\ done[t] + c <= Iterations
      /\ kind = "mutex" => c = 1
  BY CountersAssumption DEF LoadCounter, Chunks, TypeOK, LoopInv
<1>1. TypeOK'  BY <1>0 DEF LoadCounter, TypeOK, States
<1>2. LoopInv'  BY <1>0 DEF LoadCounter, TypeOK, LoopInv
<1>3. MutexInv'  BY DEF LoadCounter, TypeOK, MutexInv
<1>4. Increments' = Increments  BY DEF LoadCounter, Increments
<1>5. ExactInv'  BY <1>4 DEF LoadCounter, TypeOK, ExactInv
<1>6. UpperInv'  BY <1>4 DEF LoadCounter, TypeOK, UpperInv
<1>7. LowerInv'  BY DEF LoadCounter, TypeOK, LowerInv
<1> QED  BY <1>1, <1>2, <1>3, <1>5, <1>6, <1>7

\* Joining a worker.
LEMMA JoinStep == ASSUME IndInv, NEW t \in Threads, Join(t) PROVE IndInv'
<1> USE DEF IndInv
<1>1. TypeOK'  BY DEF Join, TypeOK, States
<1>2. LoopInv'  BY DEF Join, TypeOK, LoopInv
<1>3. MutexInv'  BY DEF Join, TypeOK, MutexInv
<1>4. ExactInv' /\ UpperInv' /\ LowerInv'  BY QuietStep DEF Join, TypeOK
<1> QED  BY <1>1, <1>2, <1>3, <1>4

\* Storing it: the only step that can lose increments.
LEMMA StoreStep == ASSUME IndInv, NEW t \in Threads, StoreCounter(t) PROVE IndInv'
<1> USE DEF IndInv
<1> DEFINE n == done[t] + chunk[t]
<1>0. /\ done[t] \in Nat /\ chunk[t] \in Nat \ {0} /\ reg[t] \in Nat
      /\ Iterations \in Nat /\ n \in 0..Iterations /\ n > 0
      /\ pc[t] = "store" /\ kind # "atomic" /\ (kind = "mutex" => chunk[t] = 1)
      /\ counter' = reg[t] + chunk[t]
      /\ done' = [done EXCEPT ![t] = n]
      /\ pc' = [pc EXCEPT ![t] = IF kind = "mutex" THEN "unlock" ELSE LoopAt(n)]
      /\ UNCHANGED <<kind, mutex, reg, chunk, main>>
  BY CountersAssumption DEF StoreCounter, Incremented, TypeOK, LoopInv
<1>1. Cardinality(Increments') = Cardinality(Increments) + chunk[t]
  <2> DEFINE c == chunk[t]
  <2>1. /\ c \in Nat \ {0} /\ done[t] + c <= Iterations
        /\ done' = [done EXCEPT ![t] = @ + c]
    BY <1>0
  <2> HIDE DEF c
  <2>2. Cardinality(Increments') = Cardinality(Increments) + c
    BY <2>1, MoreIncrements
  <2> QED  BY <2>2 DEF c
<1>2. Cardinality(Increments) \in Nat  BY IncrementsFinite
<1>3. /\ LoopAt(n) \in States
      /\ LoopAt(n) \in {"lock", "load", "add", "done"}
      /\ LoopAt(n) = "lock" => kind = "mutex"
      /\ LoopAt(n) = "load" => kind = "plain"
      /\ LoopAt(n) = "add" => kind = "atomic"
      /\ n = Iterations <=> LoopAt(n) = "done"
  BY <1>0, LoopAtFacts
<1> HIDE DEF n
<1>4. TypeOK'
  <2>1. "unlock" \in States  BY DEF States
  <2> QED  BY <1>0, <1>3, <2>1 DEF TypeOK
<1>5. LoopInv'
  BY <1>0, <1>3, CountersAssumption DEF TypeOK, LoopInv
<1>6. MutexInv'  BY <1>0 DEF TypeOK, MutexInv
<1>7. ExactInv'
  <2> SUFFICES ASSUME kind = "mutex" PROVE ExactInv'
    BY <1>0, CountersAssumption DEF ExactInv, TypeOK
  <2>1. reg[t] = Cardinality(Increments)  BY <1>0 DEF ExactInv
  <2>2. \A u \in Threads : pc'[u] # "store"
    BY <1>0, CountersAssumption DEF TypeOK, MutexInv
  <2> QED  BY <1>0, <1>1, <2>1, <2>2 DEF ExactInv
<1>8. UpperInv'
  <2>1. counter' <= Cardinality(Increments')  BY <1>0, <1>1, <1>2 DEF UpperInv
  <2>2. ASSUME NEW u \in Threads, pc'[u] = "store"
        PROVE  reg'[u] <= Cardinality(Increments')
    <3>1. u # t /\ pc[u] = "store"  BY <1>0, <1>3, <2>2 DEF TypeOK
    <3>2. reg[u] \in Nat  BY DEF TypeOK
    <3> QED  BY <1>0, <1>1, <1>2, <3>1, <3>2 DEF UpperInv
  <2> QED  BY <2>1, <2>2 DEF UpperInv
<1>9. LowerInv'
  <2>1. counter' >= 1  BY <1>0
  <2>2. \A u \in Threads : pc'[u] = "store" => u # t /\ pc[u] = "store" /\ done'[u] = done[u]
    BY <1>0, <1>3 DEF TypeOK
  <2>3. ASSUME Iterations > 1, \A u \in Threads : done'[u] = Iterations
        PROVE  counter' >= 2
    <3>1. n = Iterations  BY <1>0, <2>3 DEF TypeOK
    <3>2. CASE done[t] = 0  BY <1>0, <2>3, <3>1, <3>2 DEF n
    <3>3. CASE done[t] > 0  BY <1>0, <3>3 DEF LowerInv
    <3> QED  BY <1>0, <3>2, <3>3
  <2> QED  BY <1>0, <2>1, <2>2, <2>3 DEF LowerInv
<1> QED  BY <1>4, <1>5, <1>6, <1>7, <1>8, <1>9

\* One fetch_add is one increment.
LEMMA FetchAddStep == ASSUME IndInv, NEW t \in Threads, FetchAdd(t) PROVE IndInv'
<1> USE DEF IndInv
<1> DEFINE n == done[t] + 1
<1>0. /\ done[t] \in Nat /\ Iterations \in Nat /\ n \in 0..Iterations /\ counter \in Nat
      /\ pc[t] = "add" /\ kind = "atomic"
      /\ counter' = counter + 1
      /\ done' = [done EXCEPT ![t] = n]
      /\ pc' = [pc EXCEPT ![t] = LoopAt(n)]
      /\ UNCHANGED <<kind, mutex, reg, chunk, main>>
  BY CountersAssumption DEF FetchAdd, TypeOK, LoopInv
<1>1. Cardinality(Increments') = Cardinality(Increments) + 1
  <2> DEFINE c == 1
  <2>1. /\ c \in Nat \ {0} /\ done[t] + c <= Iterations
        /\ done' = [done EXCEPT ![t] = @ + c]
    BY <1>0
  <2> HIDE DEF c
  <2>2. Cardinality(Increments') = Cardinality(Increments) + c
    BY <2>1, MoreIncrements
  <2> QED  BY <2>2 DEF c
<1>2. Cardinality(Increments) \in Nat  BY IncrementsFinite
<1>3. /\ LoopAt(n) \in States
      /\ LoopAt(n) \in {"add", "done"}
      /\ n = Iterations <=> LoopAt(n) = "done"
  BY <1>0, LoopAtFacts
<1> HIDE DEF n
<1>4. TypeOK'  BY <1>0, <1>3 DEF TypeOK
<1>5. LoopInv'  BY <1>0, <1>3 DEF TypeOK, LoopInv
<1>6. MutexInv'  BY <1>0 DEF MutexInv
<1>7. \A u \in Threads : pc'[u] # "store"  BY <1>0, <1>3 DEF TypeOK, LoopInv
<1>8. ExactInv'  BY <1>0, <1>1, <1>7 DEF ExactInv
<1>9. UpperInv'  BY <1>0, <1>1, <1>2, <1>7 DEF UpperInv
<1>10. LowerInv'
  <2>1. ASSUME Iterations > 1, \A u \in Threads : done'[u] = Iterations
        PROVE  counter >= 1
    <3>1. n = Iterations  BY <1>0, <2>1 DEF TypeOK
    <3>2. done[t] > 0  BY <1>0, <2>1, <3>1 DEF n
    <3> QED  BY <3>2 DEF LowerInv
  <2> QED  BY <1>0, <1>7, <2>1 DEF LowerInv
<1> QED  BY <1>4, <1>5, <1>6, <1>8, <1>9, <1>10

\* The counter starts at zero with nothing done.
LEMMA IndInit == Init => IndInv
<1> SUFFICES ASSUME Init PROVE IndInv  OBVIOUS
<1> USE DEF Init
<1>1. TypeOK  BY CountersAssumption DEF TypeOK, States
<1>2. LoopInv /\ MutexInv  BY CountersAssumption DEF LoopInv, MutexInv
<1>3. Increments = {}  BY CountersAssumption DEF Increments
<1>4. Cardinality(Increments) = 0  BY <1>3, FS_EmptySet
<1>5. ExactInv /\ UpperInv  BY <1>4 DEF ExactInv, UpperInv
<1>6. LowerInv  BY CountersAssumption DEF LowerInv
<1> QED  BY <1>1, <1>2, <1>5, <1>6 DEF IndInv

\* Every step keeps the invariant.
LEMMA IndNext == IndInv /\ [Next]_vars => IndInv'
<1> SUFFICES ASSUME IndInv, [Next]_vars PROVE IndInv'  OBVIOUS
<1>1. CASE UNCHANGED vars
  <2> USE <1>1 DEF vars, IndInv
  <2>1. TypeOK' /\ LoopInv' /\ MutexInv'  BY DEF TypeOK, LoopInv, MutexInv
  <2>2. ExactInv' /\ UpperInv' /\ LowerInv'  BY QuietStep
  <2> QED  BY <2>1, <2>2
<1>2. ASSUME NEW t \in Threads, Worker(t) PROVE IndInv'
  BY <1>2, LockStep, LoadStep, StoreStep, UnlockStep, FetchAddStep DEF Worker
<1> QED  BY <1>1, <1>2, CreateStep, JoinStep DEF Next, Terminating
-----------------------------------------------------------------------------
\* The inductive invariant holds throughout.
THEOREM CountersInvariant == Spec => []IndInv
  BY IndInit, IndNext, PTL DEF Spec

\* Types; in particular no worker makes more turns than its loop has.
THEOREM CountersTypes == Spec => []TypeOK
<1>1. IndInv => TypeOK  BY DEF IndInv
<1> QED  BY <1>1, CountersInvariant, PTL

\* The total is exact with the mutex (mutex_increment) and with fetch_add,
\* whatever its memory order (atomic_, seqcst_ and relaxed_increment).
THEOREM CountersTotalExact == Spec => []TotalExact
<1>1. IndInv => TotalExact
  BY AllIncrements DEF IndInv, LoopInv, ExactInv, TotalExact
<1> QED  BY <1>1, CountersInvariant, PTL

\* The racy total lies between 2 and NUM_THREADS * ITERATIONS, for any number
\* of threads and turns and however the compiler joins turns
\* (race_increment, broken_increment).
THEOREM CountersRacyTotal == Spec => []RacyTotal
<1>1. IndInv => RacyTotal
  <2> SUFFICES ASSUME IndInv, main = "joined"
               PROVE  /\ counter <= Expected
                      /\ Iterations > 0 => counter >= 1
                      /\ Iterations > 1 => counter >= 2
    BY DEF RacyTotal
  <2>1. \A t \in Threads : done[t] = Iterations  BY DEF IndInv, LoopInv
  <2>2. counter <= Expected  BY <2>1, AllIncrements DEF IndInv, UpperInv
  <2>3. Iterations > 0 => counter >= 1
    BY <2>1, CountersAssumption DEF IndInv, LowerInv
  <2>4. Iterations > 1 => counter >= 2  BY <2>1 DEF IndInv, LowerInv
  <2> QED  BY <2>2, <2>3, <2>4
<1> QED  BY <1>1, CountersInvariant, PTL

\* Locked and atomic increments implement AtomicCounter: each adds one to
\* the counter in one step.
THEOREM CountersRefineAtomicCounter == Spec => ImplementsAtomicCounter
<1>1. Init => AC!Init  BY DEF Init, AC!Init
<1>2. ASSUME IndInv, kind # "plain", NEW t \in Threads, StoreCounter(t)
      PROVE  AC!Add(t)
  <2>1. kind = "mutex" /\ chunk[t] = 1 /\ reg[t] = counter /\ done[t] < Iterations
    BY <1>2, CountersAssumption DEF StoreCounter, IndInv, LoopInv, ExactInv, TypeOK
  <2> QED  BY <1>2, <2>1 DEF StoreCounter, Incremented, AC!Add
<1>3. ASSUME IndInv, NEW t \in Threads, FetchAdd(t) PROVE AC!Add(t)
  BY <1>3 DEF FetchAdd, AC!Add, IndInv, LoopInv
<1>4. ASSUME IndInv, kind # "plain", [Next]_vars PROVE [AC!Next]_(AC!vars)
  BY <1>2, <1>3, <1>4
  DEF Next, Worker, Create, Lock, LoadCounter, Unlock, Join, Terminating, vars,
      AC!Next, AC!vars
<1>5. IndInv /\ [Next]_vars => [kind # "plain" => [AC!Next]_(AC!vars)]_vars
  BY <1>4
<1> QED  BY <1>1, <1>5, CountersInvariant, PTL DEF Spec, ImplementsAtomicCounter
-----------------------------------------------------------------------------
\* Main creates as long as there is a worker to create and joins until all
\* are joined; the owner of the mutex is between lock and unlock.
MainInv == /\ main = "create" <=> \E t \in Threads : pc[t] = "unborn"
           /\ main = "joined" <=> \A t \in Threads : pc[t] = "joined"
           /\ \A t \in Threads :
                mutex = t => kind = "mutex" /\ pc[t] \in {"load", "store", "unlock"}

\* Worker t can be created or joined or can take a step of its own.
CanRun(t) == \/ main = "create" /\ pc[t] = "unborn"
             \/ pc[t] = "lock" /\ MayLock
             \/ pc[t] = "load" /\ Chunks(t) # {}
             \/ pc[t] \in {"store", "unlock", "add"}
             \/ main = "join" /\ pc[t] = "done"

\* Somebody can go on, or main has joined all.
NeverStuck == main = "joined" \/ \E t \in Threads : CanRun(t)

\* How far main and worker t are.
MainRank == CASE main = "create" -> 0 [] main = "join" -> 1 [] OTHER -> 2
Place(t) == CASE pc[t] \in {"unborn", "unlock"} -> 0
              [] pc[t] \in {"lock", "add", "done"} -> 1
              [] pc[t] \in {"load", "joined"} -> 2
              [] OTHER -> 3
Rank(t) == 5 * done[t] + Place(t)

\* Somebody gets ahead and nobody back.
StepsAhead == /\ MainRank <= MainRank'
              /\ \A t \in Threads : Rank(t) <= Rank(t)'
              /\ MainRank < MainRank' \/ \E t \in Threads : Rank(t) < Rank(t)'

\* The last place there is.
RankBounded == \A t \in Threads : Rank(t) \in 0..(5 * Iterations + 2)

\* Only Lock and Unlock change the owner, only Create and Join move main.
LEMMA MainNext == IndInv /\ MainInv /\ [Next]_vars => MainInv'
<1> SUFFICES ASSUME IndInv, MainInv, [Next]_vars PROVE MainInv'  OBVIOUS
<1>1. /\ pc \in [Threads -> States] /\ kind \in {"plain", "mutex", "atomic"}
      /\ NoThread \notin Threads
  BY CountersAssumption DEF IndInv, TypeOK
<1>2. ASSUME NEW t \in Threads, Create(t) PROVE MainInv'
  BY <1>1, <1>2 DEF Create, MainInv, LoopAt, Turn
<1>3. ASSUME NEW t \in Threads, Join(t) PROVE MainInv'
  BY <1>1, <1>3 DEF Join, MainInv
<1>4. ASSUME NEW t \in Threads, Worker(t) PROVE MainInv'
  <2> USE <1>1 DEF MainInv, LoopAt, Turn
  <2>1. CASE Lock(t)
    <3>1. kind = "mutex"  BY <2>1 DEF Lock, IndInv, LoopInv
    <3> QED  BY <2>1, <3>1 DEF Lock, MayLock
  <2>2. ASSUME NEW c, LoadCounter(t, c) PROVE MainInv'  BY <2>2 DEF LoadCounter
  <2>3. CASE StoreCounter(t)  BY <2>3 DEF StoreCounter
  <2>4. CASE Unlock(t)  BY <2>4 DEF Unlock
  <2>5. CASE FetchAdd(t)  BY <2>5 DEF FetchAdd
  <2> QED  BY <1>4, <2>1, <2>2, <2>3, <2>4, <2>5 DEF Worker
<1>5. CASE UNCHANGED vars  BY <1>5 DEF vars, MainInv
<1> QED  BY <1>2, <1>3, <1>4, <1>5 DEF Next, Terminating

\* No deadlock: until main has joined all, somebody has a step to take, for
\* any number of workers and turns (the increment functions, the mains).
THEOREM CountersNeverStuck == Spec => []NeverStuck
<1>1. Init => MainInv  BY CountersAssumption DEF Init, MainInv
<1>2. IndInv /\ MainInv => NeverStuck
  <2> SUFFICES ASSUME IndInv, MainInv, main # "joined", \A t \in Threads : ~CanRun(t)
               PROVE  FALSE
    BY DEF NeverStuck
  <2>1. main = "join"  BY DEF IndInv, TypeOK, MainInv, CanRun
  <2>2. PICK t \in Threads : pc[t] # "joined"  BY <2>1 DEF MainInv
  <2>3. ASSUME NEW u \in Threads PROVE pc[u] # "load"
    <3>1. pc[u] = "load" => 1 \in Chunks(u)
      BY CountersAssumption DEF IndInv, TypeOK, LoopInv, Chunks
    <3> QED  BY <3>1 DEF CanRun
  <2>4. pc[t] = "lock"
    BY <2>1, <2>2, <2>3 DEF IndInv, TypeOK, States, MainInv, CanRun
  <2>5. mutex \in Threads  BY <2>4 DEF CanRun, MayLock, IndInv, TypeOK
  <2> QED  BY <2>3, <2>5 DEF MainInv, CanRun
<1> QED  BY <1>1, <1>2, MainNext, CountersInvariant, PTL DEF Spec

\* A worker that moves is ahead of where it was and moves nobody else.
LEMMA WorkerAhead ==
  ASSUME IndInv, IndInv', NEW t \in Threads, Create(t) \/ Worker(t) \/ Join(t)
  PROVE  StepsAhead
<1>1. /\ pc \in [Threads -> States] /\ done \in [Threads -> 0..Iterations]
      /\ done' \in [Threads -> 0..Iterations] /\ Iterations \in Nat
      /\ chunk[t] \in Nat \ {0} /\ kind \in {"plain", "mutex", "atomic"}
  BY CountersAssumption DEF IndInv, TypeOK
<1>2. ASSUME \A u \in Threads \ {t} : pc'[u] = pc[u] /\ done'[u] = done[u],
             Rank(t) < Rank(t)', MainRank <= MainRank'
      PROVE  StepsAhead
  <2>1. \A u \in Threads : Rank(u) \in Nat /\ Rank(u)' \in Nat
    BY <1>1 DEF Rank, Place
  <2>2. \A u \in Threads \ {t} : Rank(u)' = Rank(u)  BY <1>2 DEF Rank, Place
  <2> QED  BY <1>2, <2>1, <2>2 DEF StepsAhead
<1>3. main' = main => MainRank <= MainRank'  BY DEF MainRank
<1>4. CASE Create(t)
  BY <1>1, <1>2, <1>4 DEF Create, LoopAt, Turn, Rank, Place, MainRank
<1>5. CASE Join(t)  BY <1>1, <1>2, <1>5 DEF Join, Rank, Place, MainRank
<1>6. CASE Lock(t)  BY <1>1, <1>2, <1>3, <1>6 DEF Lock, Rank, Place
<1>7. ASSUME NEW c, LoadCounter(t, c) PROVE StepsAhead
  BY <1>1, <1>2, <1>3, <1>7 DEF LoadCounter, Rank, Place
<1>8. CASE StoreCounter(t)
  BY <1>1, <1>2, <1>3, <1>8 DEF StoreCounter, LoopAt, Turn, Rank, Place
<1>9. CASE Unlock(t)
  BY <1>1, <1>2, <1>3, <1>9 DEF Unlock, LoopAt, Turn, Rank, Place
<1>10. CASE FetchAdd(t)
  BY <1>1, <1>2, <1>3, <1>10 DEF FetchAdd, LoopAt, Turn, Rank, Place
<1> QED  BY <1>4, <1>5, <1>6, <1>7, <1>8, <1>9, <1>10 DEF Worker

\* No livelock: every step gets main or a worker ahead and none of them back,
\* and there is an end to it; with CountersNeverStuck, main joins all.
THEOREM CountersProgress == Spec => []RankBounded /\ [][StepsAhead]_vars
<1>1. IndInv => RankBounded
  BY CountersAssumption DEF IndInv, TypeOK, States, LoopInv, RankBounded, Rank, Place
<1>2. IndInv /\ IndInv' /\ [Next]_vars => [StepsAhead]_vars
  BY WorkerAhead DEF Next, Terminating
<1> QED  BY <1>1, <1>2, CountersInvariant, PTL DEF Spec
=============================================================================
