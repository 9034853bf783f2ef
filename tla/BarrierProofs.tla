--------------------------- MODULE BarrierProofs ---------------------------
(***************************************************************************)
(* Proofs about the barrier of exercise 06 for any finite set of threads,  *)
(* any number of phases and any number of spurious wake-ups.               *)
(***************************************************************************)
EXTENDS Barrier, FiniteSetTheorems, TLAPS

\* A thread holds the mutex exactly in the code between lock and unlock.
MutexInv == \A t \in Threads : mutex = t <=> pc[t] \in {"enter", "test", "unlock"}

\* What a thread's place in the code says about its locals.
LocalInv == \A t \in Threads :
  /\ InBarrier(t) => my_serial[t] = phase[t] /\ phase[t] < NumPhases
  /\ pc[t] \in {"work", "enter"} => phase[t] < NumPhases
  /\ pc[t] = "unborn" => phase[t] = 0
  /\ pc[t] = "done" => phase[t] = NumPhases
  /\ pc[t] = "unlock" => serial = phase[t] + 1

\* Threads counted in the open round.
Counted == {t \in Threads : Arrivals(t) = serial + 1}

\* The inductive invariant.  SerialIsRound ties each thread's place to the
\* shared serial, CountIsArrived ties the count to the set of threads
\* counted; the others say who may be where when they change.
IndInv == /\ TypeOK /\ MutexInv /\ LocalInv
          /\ SerialIsRound /\ CountIsArrived /\ NoLostWakeup /\ DestroyedUnused

\* The number of workers is a positive number.
LEMMA ThresholdType == threshold \in Nat /\ threshold > 0
  BY BarrierAssumption, FS_CardinalityType, FS_EmptySet DEF threshold

\* Initially the invariant holds: nobody is counted.
LEMMA IndInit == Init => IndInv
<1> SUFFICES ASSUME Init PROVE IndInv OBVIOUS
<1> USE BarrierAssumption, ThresholdType DEF Init
<1>1. Counted = {}  BY DEF Counted, Arrivals, InBarrier
<1>2. CountIsArrived  BY <1>1, FS_EmptySet DEF CountIsArrived, Counted
<1>3. TypeOK  BY DEF TypeOK, States
<1>4. MutexInv /\ LocalInv  BY DEF MutexInv, LocalInv, InBarrier
<1>5. SerialIsRound /\ NoLostWakeup /\ DestroyedUnused
  BY DEF SerialIsRound, NoLostWakeup, DestroyedUnused, Arrivals, InBarrier
<1> QED  BY <1>2, <1>3, <1>4, <1>5 DEF IndInv

\* A step that moves nobody into or out of a round leaves Counted alone.
LEMMA CountUndisturbed ==
  ASSUME IndInv, count' = count, serial' = serial,
         \A t \in Threads : Arrivals(t)' = Arrivals(t)
  PROVE  CountIsArrived'
<1>1. {t \in Threads : Arrivals(t)' = serial' + 1}
        = {t \in Threads : Arrivals(t) = serial + 1}
  OBVIOUS
<1> QED  BY <1>1 DEF IndInv, CountIsArrived

\* Creating a worker.
LEMMA CreateStep == ASSUME IndInv, NEW t \in Threads, Create(t) PROVE IndInv'
<1> USE DEF Create
<1>1. \A u \in Threads : Arrivals(u)' = Arrivals(u)
  BY DEF IndInv, TypeOK, Arrivals, InBarrier, LoopAt
<1>2. CountIsArrived'  BY <1>1, CountUndisturbed
<1>3. TypeOK'  BY DEF IndInv, TypeOK, States, LoopAt
<1>4. MutexInv'  BY DEF IndInv, TypeOK, MutexInv, LoopAt
<1>5. LocalInv'  BY BarrierAssumption DEF IndInv, TypeOK, LocalInv, InBarrier, LoopAt
<1>6. SerialIsRound'  BY <1>1 DEF IndInv, SerialIsRound
<1>7. NoLostWakeup'  BY DEF IndInv, TypeOK, NoLostWakeup, LoopAt
<1>8. DestroyedUnused'  BY DEF DestroyedUnused
<1> QED  BY <1>2, <1>3, <1>4, <1>5, <1>6, <1>7, <1>8 DEF IndInv

\* Entering barrier_wait.
LEMMA LockMutexStep == ASSUME IndInv, NEW t \in Threads, LockMutex(t) PROVE IndInv'
<1> USE BarrierAssumption DEF LockMutex
<1>1. \A u \in Threads : Arrivals(u)' = Arrivals(u)
  BY DEF IndInv, TypeOK, Arrivals, InBarrier
<1>2. CountIsArrived'  BY <1>1, CountUndisturbed
<1>3. TypeOK'  BY DEF IndInv, TypeOK, States
<1>4. MutexInv'  BY DEF IndInv, TypeOK, MutexInv
<1>5. LocalInv'  BY DEF IndInv, TypeOK, LocalInv, InBarrier
<1>6. SerialIsRound'  BY <1>1 DEF IndInv, SerialIsRound
<1>7. NoLostWakeup'  BY DEF IndInv, TypeOK, NoLostWakeup
<1>8. DestroyedUnused'  BY DEF IndInv, TypeOK, DestroyedUnused
<1> QED  BY <1>2, <1>3, <1>4, <1>5, <1>6, <1>7, <1>8 DEF IndInv

\* The while test, and falling asleep.
LEMMA TestSerialStep == ASSUME IndInv, NEW t \in Threads, TestSerial(t) PROVE IndInv'
<1> USE BarrierAssumption DEF TestSerial, MustWait
<1>1. \A u \in Threads : Arrivals(u)' = Arrivals(u)
  BY DEF IndInv, TypeOK, Arrivals, InBarrier
<1>2. CountIsArrived'  BY <1>1, CountUndisturbed
<1>3. TypeOK'  BY DEF IndInv, TypeOK, States
<1>4. MutexInv'  BY DEF IndInv, TypeOK, MutexInv
<1>5. LocalInv'
  BY DEF IndInv, TypeOK, LocalInv, InBarrier, SerialIsRound, Arrivals
<1>6. SerialIsRound'  BY <1>1 DEF IndInv, SerialIsRound
<1>7. NoLostWakeup'  BY DEF IndInv, TypeOK, NoLostWakeup
<1>8. DestroyedUnused'  BY DEF IndInv, TypeOK, DestroyedUnused
<1> QED  BY <1>2, <1>3, <1>4, <1>5, <1>6, <1>7, <1>8 DEF IndInv

\* A spurious wake-up.
LEMMA SpuriousWakeupStep ==
  ASSUME IndInv, NEW t \in Threads, SpuriousWakeup(t) PROVE IndInv'
<1> USE BarrierAssumption DEF SpuriousWakeup
<1>1. \A u \in Threads : Arrivals(u)' = Arrivals(u)
  BY DEF IndInv, TypeOK, Arrivals, InBarrier
<1>2. CountIsArrived'  BY <1>1, CountUndisturbed
<1>3. TypeOK'  BY DEF IndInv, TypeOK, States
<1>4. MutexInv'  BY DEF IndInv, TypeOK, MutexInv
<1>5. LocalInv'  BY DEF IndInv, TypeOK, LocalInv, InBarrier
<1>6. SerialIsRound'  BY <1>1 DEF IndInv, SerialIsRound
<1>7. NoLostWakeup'  BY DEF IndInv, TypeOK, NoLostWakeup
<1>8. DestroyedUnused'  BY DEF IndInv, TypeOK, DestroyedUnused
<1> QED  BY <1>2, <1>3, <1>4, <1>5, <1>6, <1>7, <1>8 DEF IndInv

\* Waking up with the mutex.
LEMMA ReacquireStep == ASSUME IndInv, NEW t \in Threads, Reacquire(t) PROVE IndInv'
<1> USE BarrierAssumption DEF Reacquire
<1>1. \A u \in Threads : Arrivals(u)' = Arrivals(u)
  BY DEF IndInv, TypeOK, Arrivals, InBarrier
<1>2. CountIsArrived'  BY <1>1, CountUndisturbed
<1>3. TypeOK'  BY DEF IndInv, TypeOK, States
<1>4. MutexInv'  BY DEF IndInv, TypeOK, MutexInv
<1>5. LocalInv'  BY DEF IndInv, TypeOK, LocalInv, InBarrier
<1>6. SerialIsRound'  BY <1>1 DEF IndInv, SerialIsRound
<1>7. NoLostWakeup'  BY DEF IndInv, TypeOK, NoLostWakeup
<1>8. DestroyedUnused'  BY DEF IndInv, TypeOK, DestroyedUnused
<1> QED  BY <1>2, <1>3, <1>4, <1>5, <1>6, <1>7, <1>8 DEF IndInv

\* Leaving barrier_wait.
LEMMA UnlockStep == ASSUME IndInv, NEW t \in Threads, Unlock(t) PROVE IndInv'
<1> USE BarrierAssumption DEF Unlock
<1>1. \A u \in Threads : Arrivals(u)' = Arrivals(u)
  BY DEF IndInv, TypeOK, Arrivals, InBarrier, LoopAt
<1>2. CountIsArrived'  BY <1>1, CountUndisturbed
<1>3. TypeOK'  BY DEF IndInv, TypeOK, States, LocalInv, InBarrier, LoopAt
<1>4. MutexInv'  BY DEF IndInv, TypeOK, MutexInv, LoopAt
<1>5. LocalInv'  BY DEF IndInv, TypeOK, LocalInv, InBarrier, LoopAt, MutexInv
<1>6. SerialIsRound'
  BY <1>1 DEF IndInv, TypeOK, SerialIsRound, LocalInv
<1>7. NoLostWakeup'  BY DEF IndInv, TypeOK, NoLostWakeup, LoopAt
<1>8. DestroyedUnused'  BY DEF IndInv, TypeOK, DestroyedUnused
<1> QED  BY <1>2, <1>3, <1>4, <1>5, <1>6, <1>7, <1>8 DEF IndInv

\* The arriving thread was not counted, and the round it joins is its own.
LEMMA ArriveFacts ==
  ASSUME IndInv, NEW t \in Threads, Arrive(t)
  PROVE  /\ serial = phase[t] /\ serial < NumPhases
         /\ t \notin Counted
         /\ IsFiniteSet(Counted) /\ count = Cardinality(Counted)
         /\ IsFiniteSet(Counted \cup {t})
         /\ Cardinality(Counted \cup {t}) = count + 1
<1> USE DEF IndInv
<1>1. serial = phase[t] /\ serial < NumPhases /\ t \notin Counted
  BY DEF Arrive, TypeOK, SerialIsRound, Arrivals, InBarrier, LocalInv, Counted
<1>2. Counted \in SUBSET Threads  BY DEF Counted
<1>3. IsFiniteSet(Counted)  BY <1>2, FS_Subset, BarrierAssumption
<1>4. count = Cardinality(Counted)  BY DEF CountIsArrived, Counted
<1> QED  BY <1>1, <1>3, <1>4, FS_AddElement

\* The last arrival finds every thread counted.
LEMMA LastFindsAll ==
  ASSUME IndInv, NEW t \in Threads, Arrive(t), LastToArrive(count + 1)
  PROVE  \A u \in Threads : u = t \/ Arrivals(u) = serial + 1
<1>1. Counted \cup {t} \in SUBSET Threads  BY DEF Counted
<1>2. Cardinality(Threads) = Cardinality(Counted \cup {t})
  BY ArriveFacts DEF LastToArrive, threshold
<1>3. Threads = Counted \cup {t}  BY <1>1, <1>2, FS_Subset, BarrierAssumption
<1> QED  BY <1>3 DEF Counted

\* Closing a round: the serial advances and the count starts again.
LEMMA ArriveLast ==
  ASSUME IndInv, NEW t \in Threads, Arrive(t), LastToArrive(count + 1)
  PROVE  IndInv' /\ \A u \in Threads : Arrivals(u)' = serial'
<1> USE BarrierAssumption, ThresholdType
<1>0. /\ my_serial' = [my_serial EXCEPT ![t] = serial]
      /\ count' = 0 /\ serial' = serial + 1
      /\ pc' = Broadcast([pc EXCEPT ![t] = "unlock"])
      /\ UNCHANGED <<phase, mutex, spurious, main>>
      /\ pc[t] = "enter"
  BY DEF Arrive
<1>a. /\ pc' \in [Threads -> States] /\ pc'[t] = "unlock"
      /\ \A u \in Threads \ {t} : pc'[u] = IF pc[u] = "sleep" THEN "woken" ELSE pc[u]
  BY <1>0 DEF Broadcast, IndInv, TypeOK, States
<1>b. serial = phase[t] /\ serial < NumPhases  BY ArriveFacts
<1>1. \A u \in Threads : Arrivals(u)' = serial'
  <2> TAKE u \in Threads
  <2>1. CASE u = t
    BY <2>1, <1>0, <1>a, <1>b DEF Arrivals, InBarrier
  <2>2. CASE u # t
    <3>1. Arrivals(u)' = Arrivals(u)
      BY <2>2, <1>0, <1>a DEF Arrivals, InBarrier
    <3> QED  BY <3>1, <2>2, <1>0, LastFindsAll
  <2> QED  BY <2>1, <2>2
<1>2. CountIsArrived'
  <2>1. {u \in Threads : Arrivals(u)' = serial' + 1} = {}
    BY <1>0, <1>1 DEF IndInv, TypeOK
  <2> QED  BY <2>1, <1>0, FS_EmptySet DEF CountIsArrived
<1>3. TypeOK'
  <2>1. count' \in 0..(threshold - 1) /\ serial' \in 0..NumPhases
    BY <1>0, <1>b DEF IndInv, TypeOK
  <2>2. my_serial' \in [Threads -> 0..NumPhases]
    BY <1>0, <1>b DEF IndInv, TypeOK
  <2> QED  BY <2>1, <2>2, <1>0, <1>a DEF IndInv, TypeOK
<1>4. MutexInv'  BY <1>0, <1>a DEF IndInv, TypeOK, MutexInv
<1>5. LocalInv'
  BY <1>0, <1>a, <1>b DEF IndInv, TypeOK, MutexInv, LocalInv, InBarrier
<1>6. SerialIsRound'  BY <1>0, <1>1 DEF IndInv, TypeOK, SerialIsRound
<1>7. NoLostWakeup'  BY <1>a DEF NoLostWakeup
<1>8. DestroyedUnused'  BY <1>0, <1>a DEF IndInv, TypeOK, DestroyedUnused
<1> QED  BY <1>1, <1>2, <1>3, <1>4, <1>5, <1>6, <1>7, <1>8 DEF IndInv

\* Joining an open round: one more thread is counted.
LEMMA ArriveNotLast ==
  ASSUME IndInv, NEW t \in Threads, Arrive(t), ~LastToArrive(count + 1)
  PROVE  IndInv'
<1> USE BarrierAssumption, ThresholdType
<1>0. /\ my_serial' = [my_serial EXCEPT ![t] = serial]
      /\ count' = count + 1
      /\ pc' = [pc EXCEPT ![t] = "test"]
      /\ UNCHANGED <<phase, mutex, spurious, main, serial>>
      /\ pc[t] = "enter"
  BY DEF Arrive
<1>b. serial = phase[t] /\ serial < NumPhases  BY ArriveFacts
<1>1. /\ Arrivals(t)' = serial + 1
      /\ \A u \in Threads \ {t} : Arrivals(u)' = Arrivals(u)
  BY <1>0, <1>b DEF Arrivals, InBarrier, IndInv, TypeOK
<1>2. CountIsArrived'
  <2>1. {u \in Threads : Arrivals(u)' = serial' + 1} = Counted \cup {t}
    BY <1>0, <1>1 DEF Counted
  <2> QED  BY <2>1, <1>0, ArriveFacts DEF CountIsArrived
<1>3. TypeOK'
  BY <1>0, <1>b DEF IndInv, TypeOK, States, LastToArrive
<1>4. MutexInv'  BY <1>0 DEF IndInv, TypeOK, MutexInv
<1>5. LocalInv'  BY <1>0, <1>b DEF IndInv, TypeOK, LocalInv, InBarrier
<1>6. SerialIsRound'  BY <1>0, <1>1, <1>b DEF IndInv, TypeOK, SerialIsRound
<1>7. NoLostWakeup'  BY <1>0 DEF IndInv, TypeOK, NoLostWakeup
<1>8. DestroyedUnused'  BY <1>0 DEF IndInv, TypeOK, DestroyedUnused
<1> QED  BY <1>2, <1>3, <1>4, <1>5, <1>6, <1>7, <1>8 DEF IndInv

\* main's own steps and stuttering.
LEMMA MainStep ==
  ASSUME IndInv, Join \/ Destroy \/ UNCHANGED vars PROVE IndInv'
<1>1. /\ UNCHANGED <<pc, phase, my_serial, mutex, count, serial, spurious>>
      /\ main' \in {"create", "join", "destroy", "returned"}
      /\ main' \in {"destroy", "returned"} =>
           main \in {"destroy", "returned"} \/ Joined
  BY DEF Join, Destroy, vars, IndInv, TypeOK
<1>2. \A u \in Threads : Arrivals(u)' = Arrivals(u)
  BY <1>1 DEF Arrivals, InBarrier
<1>3. CountIsArrived'  BY <1>1, <1>2, CountUndisturbed
<1>4. TypeOK' /\ MutexInv' /\ LocalInv' /\ NoLostWakeup'
  BY <1>1 DEF IndInv, TypeOK, MutexInv, LocalInv, InBarrier, NoLostWakeup
<1>5. SerialIsRound'  BY <1>1, <1>2 DEF IndInv, SerialIsRound
<1>6. DestroyedUnused'
  BY <1>1, BarrierAssumption
  DEF IndInv, TypeOK, DestroyedUnused, Joined, LocalInv, MutexInv
<1> QED  BY <1>3, <1>4, <1>5, <1>6 DEF IndInv

\* Counting oneself, as the last one or not.
LEMMA ArriveStep == ASSUME IndInv, NEW t \in Threads, Arrive(t) PROVE IndInv'
  BY ArriveLast, ArriveNotLast

\* Every step keeps the invariant.
LEMMA IndNext == IndInv /\ [Next]_vars => IndInv'
<1> SUFFICES ASSUME IndInv, [Next]_vars PROVE IndInv'  OBVIOUS
<1>1. ASSUME NEW t \in Threads, Create(t) PROVE IndInv'  BY <1>1, CreateStep
<1>2. ASSUME NEW t \in Threads, Worker(t) PROVE IndInv'
  BY <1>2, LockMutexStep, ArriveStep, TestSerialStep, ReacquireStep, UnlockStep
  DEF Worker
<1>3. ASSUME NEW t \in Threads, SpuriousWakeup(t) PROVE IndInv'
  BY <1>3, SpuriousWakeupStep
<1>4. CASE Join \/ Destroy \/ Terminating \/ UNCHANGED vars
  BY <1>4, MainStep DEF Terminating
<1> QED  BY <1>1, <1>2, <1>3, <1>4 DEF Next

\* The inductive invariant holds throughout.
THEOREM BarrierInvariant == Spec => []IndInv
  BY IndInit, IndNext, PTL DEF Spec

\* Types, and with them the bounds: count stays below the threshold and the
\* serial within the number of phases.
THEOREM BarrierTypes == Spec => []TypeOK
<1>1. IndInv => TypeOK  BY DEF IndInv
<1> QED  BY <1>1, BarrierInvariant, PTL

\* For any number of threads and phases no thread leaves a phase that some
\* thread has not finished (the reason barrier_wait exists).
THEOREM BarrierPhaseSync == Spec => []PhaseSync
<1>1. IndInv => PhaseSync
  <2> SUFFICES ASSUME IndInv, NEW s \in Threads, NEW t \in Threads
               PROVE  phase[s] <= Arrivals(t)
    BY DEF PhaseSync
  <2>1. phase[s] \in Nat /\ serial \in Nat /\ Arrivals(t) \in Nat
    BY BarrierAssumption DEF IndInv, TypeOK, Arrivals
  <2>2. phase[s] <= serial /\ serial <= Arrivals(t)
    BY DEF IndInv, SerialIsRound
  <2> QED  BY <2>1, <2>2
<1> QED  BY <1>1, BarrierInvariant, PTL

\* The serial is the round every worker's arrivals say it is; nobody is more
\* than one round behind (my_serial in barrier_wait).
THEOREM BarrierSerialIsRound == Spec => []SerialIsRound
<1>1. IndInv => SerialIsRound  BY DEF IndInv
<1> QED  BY <1>1, BarrierInvariant, PTL

\* barrier->count is the number of workers in the open round, also while
\* workers of the round before are still leaving barrier_wait.
THEOREM BarrierCountExact == Spec => []CountIsArrived
<1>1. IndInv => CountIsArrived  BY DEF IndInv
<1> QED  BY <1>1, BarrierInvariant, PTL

\* Nobody sleeps in a round that is over (pthread_cond_broadcast reaches all).
THEOREM BarrierNoLostWakeup == Spec => []NoLostWakeup
<1>1. IndInv => NoLostWakeup  BY DEF IndInv
<1> QED  BY <1>1, BarrierInvariant, PTL

\* barrier_destroy finds the mutex and the condition variable unused.
THEOREM BarrierDestroyedUnused == Spec => []DestroyedUnused
<1>1. IndInv => DestroyedUnused  BY DEF IndInv
<1> QED  BY <1>1, BarrierInvariant, PTL

\* Only an arrival that finds everybody counted changes the serial.
LEMMA SerialStep ==
  ASSUME IndInv, [Next]_vars, serial' # serial
  PROVE  \E t \in Threads : Arrive(t) /\ LastToArrive(count + 1)
  BY DEF Next, Worker, Create, LockMutex, Arrive, TestSerial, Reacquire, Unlock,
         SpuriousWakeup, Join, Destroy, Terminating, vars

\* A round is closed once, by its last arrival, with everybody counted.
THEOREM BarrierRoundClosedByLast == Spec => RoundClosedByLast
<1>1. IndInv /\ [Next]_vars =>
        [serial' # serial => /\ serial' = serial + 1
                             /\ count' = 0
                             /\ \A t \in Threads : Arrivals(t)' = serial']_vars
  <2> SUFFICES ASSUME IndInv, [Next]_vars, serial' # serial
               PROVE  /\ serial' = serial + 1
                      /\ count' = 0
                      /\ \A t \in Threads : Arrivals(t)' = serial'
    OBVIOUS
  <2>1. PICK t \in Threads : Arrive(t) /\ LastToArrive(count + 1)  BY SerialStep
  <2>2. serial' = serial + 1 /\ count' = 0  BY <2>1 DEF Arrive
  <2> QED  BY <2>1, <2>2, ArriveLast
<1> QED  BY <1>1, BarrierInvariant, PTL DEF Spec, RoundClosedByLast

\* Only Arrive moves a thread to the barrier and only Unlock takes it away.
LEMMA OtherStepsStutter ==
  ASSUME IndInv, NEW t \in Threads,
         Create(t) \/ LockMutex(t) \/ TestSerial(t) \/ Reacquire(t)
           \/ SpuriousWakeup(t)
  PROVE  UNCHANGED PB!vars
<1>1. phase' = phase /\ \A u \in Threads : InBarrier(u)' <=> InBarrier(u)
  BY DEF Create, LockMutex, TestSerial, Reacquire, SpuriousWakeup, InBarrier,
         IndInv, TypeOK, LoopAt
<1>2. {u \in Threads : InBarrier(u)'} = {u \in Threads : InBarrier(u)}  BY <1>1
<1> QED  BY <1>1, <1>2 DEF PB!vars

\* Counting oneself is reaching the abstract barrier.
LEMMA ArriveReaches ==
  ASSUME IndInv, NEW t \in Threads, Arrive(t) PROVE PB!Reach(t)
<1>1. /\ ~InBarrier(t) /\ InBarrier(t)' /\ phase[t] < NumPhases /\ phase' = phase
      /\ \A u \in Threads \ {t} : InBarrier(u)' <=> InBarrier(u)
  BY DEF Arrive, Broadcast, InBarrier, IndInv, TypeOK, LocalInv
<1>2. {u \in Threads : InBarrier(u)'} = {u \in Threads : InBarrier(u)} \cup {t}
  BY <1>1
<1> QED  BY <1>1, <1>2 DEF PB!Reach

\* Leaving barrier_wait is leaving the abstract barrier.
LEMMA UnlockLeaves ==
  ASSUME IndInv, NEW t \in Threads, Unlock(t) PROVE PB!Leave(t)
<1>1. /\ InBarrier(t) /\ ~InBarrier(t)' /\ phase' = [phase EXCEPT ![t] = @ + 1]
      /\ \A u \in Threads \ {t} : InBarrier(u)' <=> InBarrier(u)
  BY DEF Unlock, LoopAt, InBarrier, IndInv, TypeOK
<1>2. {u \in Threads : InBarrier(u)'} = {u \in Threads : InBarrier(u)} \ {t}
  BY <1>1
<1>3. \A u \in Threads : phase[u] > phase[t] \/ (phase[u] = phase[t] /\ InBarrier(u))
  <2> TAKE u \in Threads
  <2>1. serial = phase[t] + 1  BY DEF Unlock, IndInv, LocalInv
  <2>2. serial <= Arrivals(u)  BY DEF IndInv, SerialIsRound
  <2> QED  BY <2>1, <2>2 DEF Arrivals, IndInv, TypeOK
<1>4. \A u \in Threads : PB!Reached(u, phase[t])  BY <1>3 DEF PB!Reached
<1> QED  BY <1>1, <1>2, <1>4 DEF PB!Leave

\* The barrier implements the safety part of PhaseBarrier: counting oneself
\* is reaching the barrier, leaving barrier_wait is leaving it, and nothing
\* else shows.
THEOREM BarrierRefinesPhaseBarrier == Spec => PB!Spec
<1>1. Init => PB!Init
  BY DEF Init, PB!Init, InBarrier
<1>2. IndInv /\ [Next]_vars => [PB!Next]_(PB!vars)
  <2> SUFFICES ASSUME IndInv, [Next]_vars PROVE [PB!Next]_(PB!vars)  OBVIOUS
  <2>1. ASSUME NEW t \in Threads, Create(t) \/ Worker(t) \/ SpuriousWakeup(t)
        PROVE  [PB!Next]_(PB!vars)
    BY <2>1, OtherStepsStutter, ArriveReaches, UnlockLeaves DEF Worker, PB!Next
  <2>2. CASE Join \/ Destroy \/ Terminating \/ UNCHANGED vars
    <3>1. phase' = phase /\ pc' = pc
      BY <2>2 DEF Join, Destroy, Terminating, vars
    <3> QED  BY <3>1 DEF PB!vars, InBarrier
  <2> QED  BY <2>1, <2>2 DEF Next
<1> QED  BY <1>1, <1>2, BarrierInvariant, PTL DEF Spec, PB!Spec
----------------------------------------------------------------------------
\* Main creates as long as there is a worker to create.
MainInv == main = "create" <=> \E t \in Threads : pc[t] = "unborn"

\* Worker t can be created or can take a step of its own.
CanRun(t) == \/ main = "create" /\ pc[t] = "unborn"
             \/ pc[t] \in {"work", "woken"} /\ mutex = NoThread
             \/ pc[t] \in {"enter", "test", "unlock"}

\* Some worker or main can go on, or main has returned; nobody has to be
\* woken spuriously for it.
NeverStuck == \/ \E t \in Threads : CanRun(t)
              \/ main = "join" /\ Joined
              \/ main \in {"destroy", "returned"}

\* Nobody is created but by Create.
LEMMA MainNext == IndInv /\ MainInv /\ [Next]_vars => MainInv'
<1> SUFFICES ASSUME IndInv, MainInv, [Next]_vars PROVE MainInv'  OBVIOUS
<1>1. pc \in [Threads -> States]  BY DEF IndInv, TypeOK
<1>2. ASSUME NEW t \in Threads, Create(t) PROVE MainInv'
  BY <1>1, <1>2 DEF Create, MainInv, LoopAt
<1>3. ASSUME main' = main, \A u \in Threads : pc'[u] = "unborn" <=> pc[u] = "unborn"
      PROVE  MainInv'
  BY <1>3 DEF MainInv
<1>4. ASSUME NEW t \in Threads, Arrive(t) PROVE MainInv'
  BY <1>1, <1>3, <1>4 DEF Arrive, Broadcast
<1>5. ASSUME NEW t \in Threads, Worker(t) \/ SpuriousWakeup(t) PROVE MainInv'
  BY <1>1, <1>3, <1>4, <1>5
  DEF Worker, LockMutex, TestSerial, Reacquire, Unlock, SpuriousWakeup, LoopAt
<1>6. CASE Join \/ Destroy
  BY <1>6 DEF Join, Destroy, Joined, MainInv
<1> QED  BY <1>2, <1>3, <1>5, <1>6 DEF Next, Terminating, vars

\* If everybody slept, everybody would be counted and the round closed.
LEMMA NotAllWait == ASSUME IndInv, MainInv PROVE NeverStuck
<1> SUFFICES ASSUME main \in {"create", "join"}, ~Joined,
                    \A t \in Threads : ~CanRun(t)
             PROVE  FALSE
  <2>1. main \in {"create", "join", "destroy", "returned"}  BY DEF IndInv, TypeOK
  <2>2. main = "create" => ~Joined  BY DEF MainInv, Joined
  <2> QED  BY <2>1, <2>2 DEF NeverStuck
<1>1. main = "join" /\ \A t \in Threads : pc[t] # "unborn"
  BY DEF CanRun, MainInv
<1>2. mutex = NoThread  BY DEF IndInv, TypeOK, MutexInv, CanRun
<1>3. \A t \in Threads : pc[t] \in {"sleep", "done"}
  BY <1>1, <1>2 DEF IndInv, TypeOK, States, CanRun
<1>4. PICK s \in Threads : pc[s] = "sleep"  BY <1>3 DEF Joined
<1>5. /\ serial = phase[s] /\ phase[s] < NumPhases
      /\ serial \in Nat /\ NumPhases \in Nat
  BY <1>4, BarrierAssumption DEF IndInv, TypeOK, NoLostWakeup, LocalInv, InBarrier
<1>6. \A t \in Threads : pc[t] = "sleep"
  BY <1>3, <1>5 DEF IndInv, TypeOK, LocalInv, SerialIsRound
<1>7. \A t \in Threads : Arrivals(t) = serial + 1
  BY <1>6 DEF IndInv, TypeOK, NoLostWakeup, LocalInv, InBarrier, Arrivals
<1>8. {t \in Threads : Arrivals(t) = serial + 1} = Threads  BY <1>7
<1>9. count = threshold  BY <1>8 DEF IndInv, CountIsArrived, threshold
<1> QED  BY <1>9, ThresholdType DEF IndInv, TypeOK

\* No deadlock: until main returns, a worker or main has a step to take, for
\* any number of workers and phases (barrier_wait, worker, main).
THEOREM BarrierNeverStuck == Spec => []NeverStuck
<1>1. Init => MainInv  BY BarrierAssumption DEF Init, MainInv
<1> QED  BY <1>1, MainNext, NotAllWait, BarrierInvariant, PTL DEF Spec
----------------------------------------------------------------------------
\* How far main and worker t are.  A worker that is still waited for comes
\* before the place where it sleeps, one whose round is closed after it.
MainRank == CASE main = "create" -> 0 [] main = "join" -> 1
              [] main = "destroy" -> 2 [] OTHER -> 3
Place(t) == CASE pc[t] = "unborn" -> 0
              [] pc[t] \in {"work", "done"} -> 1
              [] pc[t] = "enter" -> 2
              [] pc[t] = "woken" -> IF MustWait(t) THEN 3 ELSE 6
              [] pc[t] = "test" -> IF MustWait(t) THEN 4 ELSE 7
              [] pc[t] = "sleep" -> 5
              [] OTHER -> 8
Rank(t) == 8 * phase[t] + Place(t)

\* Somebody gets ahead and nobody back.
StepsAhead == /\ MainRank <= MainRank'
              /\ \A t \in Threads : Rank(t) <= Rank(t)'
              /\ MainRank < MainRank' \/ \E t \in Threads : Rank(t) < Rank(t)'

\* The last place there is.
RankBounded == \A t \in Threads : Rank(t) \in 0..(8 * NumPhases + 1)

\* A place is one of nine.
LEMMA PlaceType ==
  ASSUME IndInv, NEW t \in Threads
  PROVE  /\ Place(t) \in 0..8 /\ phase[t] \in Nat
         /\ Place(t) > 1 => phase[t] < NumPhases
<1>1. phase[t] \in Nat  BY DEF IndInv, TypeOK
<1>2. Place(t) \in 0..8  BY DEF Place
<1>3. Place(t) > 1 => phase[t] < NumPhases
  BY DEF Place, IndInv, TypeOK, States, LocalInv, InBarrier
<1> QED  BY <1>1, <1>2, <1>3

\* A worker that moves moves nobody else and is ahead of where it was.
LEMMA OneAhead ==
  ASSUME IndInv, IndInv', NEW t \in Threads, main' = main, Rank(t) < Rank(t)',
         \A u \in Threads \ {t} :
            phase'[u] = phase[u] /\ Place(u) <= Place(u)'
  PROVE  StepsAhead
<1>1. ASSUME NEW u \in Threads PROVE Rank(u) <= Rank(u)'
  <2>1. /\ phase[u] \in Nat /\ phase'[u] \in Nat
        /\ Place(u) \in Nat /\ Place(u)' \in Nat
    BY DEF Place, IndInv, TypeOK
  <2> QED  BY <2>1 DEF Rank
<1>2. MainRank <= MainRank'  BY DEF MainRank
<1> QED  BY <1>1, <1>2 DEF StepsAhead

\* Each step of a worker gets it ahead.  The last to arrive also gets those
\* ahead whose round it closes: they are found to wait no longer.
LEMMA WorkerAhead ==
  ASSUME IndInv, IndInv', NEW t \in Threads, Create(t) \/ Worker(t) PROVE StepsAhead
<1>1. /\ pc \in [Threads -> States] /\ phase \in [Threads -> 0..NumPhases]
      /\ my_serial \in [Threads -> 0..NumPhases]
      /\ NumPhases \in Nat /\ serial \in Nat
  BY BarrierAssumption DEF IndInv, TypeOK
<1>2. phase[t] \in Nat /\ phase'[t] \in Nat  BY DEF IndInv, TypeOK
<1>3. ASSUME main' = main, phase'[t] = phase[t], Place(t) < Place(t)',
             serial' = serial, \A u \in Threads \ {t} :
               pc'[u] = pc[u] /\ phase'[u] = phase[u] /\ my_serial'[u] = my_serial[u]
      PROVE  StepsAhead
  <2>1. \A u \in Threads \ {t} : Place(u)' = Place(u) /\ Place(u) \in Nat
    BY <1>3 DEF Place, MustWait
  <2>2. Place(t) \in Nat /\ Place(t)' \in Nat  BY DEF Place
  <2>3. Rank(t) < Rank(t)'  BY <1>2, <1>3, <2>2 DEF Rank
  <2> QED  BY <1>3, <2>1, <2>3, OneAhead
<1>4. CASE LockMutex(t)  BY <1>1, <1>3, <1>4 DEF LockMutex, Place
<1>5. CASE Reacquire(t)  BY <1>1, <1>3, <1>5 DEF Reacquire, Place, MustWait
<1>6. CASE TestSerial(t)  BY <1>1, <1>3, <1>6 DEF TestSerial, Place, MustWait
<1>7. CASE Unlock(t)
  <2>1. \A u \in Threads \ {t} : /\ phase'[u] = phase[u]
                                 /\ Place(u)' = Place(u) /\ Place(u) \in Nat
    BY <1>1, <1>7 DEF Unlock, Place, MustWait
  <2>2. Place(t) = 8 /\ Place(t)' = 1 /\ phase'[t] = phase[t] + 1
    BY <1>1, <1>7 DEF Unlock, Place, LoopAt
  <2>3. Rank(t) < Rank(t)'  BY <1>2, <2>2 DEF Rank
  <2> QED  BY <1>7, <2>1, <2>3, OneAhead DEF Unlock
<1>8. CASE Arrive(t)
  <2>1. CASE ~LastToArrive(count + 1)
    BY <1>1, <1>3, <1>8, <2>1 DEF Arrive, Place, MustWait
  <2>2. CASE LastToArrive(count + 1)
    <3>1. /\ serial' = serial + 1 /\ phase' = phase /\ main' = main
          /\ pc' = [u \in Threads |-> IF u = t THEN "unlock"
                                      ELSE IF pc[u] = "sleep" THEN "woken" ELSE pc[u]]
          /\ my_serial' = [my_serial EXCEPT ![t] = serial] /\ pc[t] = "enter"
      BY <1>1, <1>8, <2>2 DEF Arrive, Broadcast
    <3>2. ASSUME NEW u \in Threads \ {t} PROVE Place(u) <= Place(u)'
      <4>1. pc[u] # "test"  BY <3>1 DEF IndInv, MutexInv
      <4>2. InBarrier(u) => my_serial[u] <= serial
        BY DEF IndInv, LocalInv, SerialIsRound
      <4>3. pc[u] \in {"woken", "sleep"} => my_serial'[u] # serial'
        BY <1>1, <3>1, <4>2 DEF InBarrier
      <4> QED  BY <1>1, <3>1, <4>1, <4>3 DEF Place, MustWait, States
    <3>3. Place(t) = 2 /\ Place(t)' = 8  BY <3>1 DEF Place
    <3>4. Rank(t) < Rank(t)'  BY <1>2, <3>1, <3>3 DEF Rank
    <3> QED  BY <3>1, <3>2, <3>4, OneAhead
  <2> QED  BY <2>1, <2>2
<1>9. CASE Create(t)
  <2>1. \A u \in Threads \ {t} : Rank(u)' = Rank(u)
    BY <1>1, <1>9 DEF Create, Place, MustWait, Rank
  <2>2. \A u \in Threads \ {t} : Rank(u) <= Rank(u)'
    BY <2>1, PlaceType DEF Rank
  <2>3. Place(t) = 0 /\ Place(t)' = 1 /\ phase'[t] = phase[t]
    BY <1>1, <1>9 DEF Create, Place, LoopAt
  <2>4. Rank(t) < Rank(t)' /\ Rank(t) <= Rank(t)'  BY <1>2, <2>3 DEF Rank
  <2>5. MainRank <= MainRank'  BY <1>9 DEF Create, MainRank
  <2> QED  BY <2>2, <2>4, <2>5 DEF StepsAhead
<1> QED  BY <1>4, <1>5, <1>6, <1>7, <1>8, <1>9 DEF Worker

\* So do the steps of main.
LEMMA MainAhead == ASSUME IndInv, IndInv', Join \/ Destroy PROVE StepsAhead
<1>1. pc' = pc /\ phase' = phase /\ my_serial' = my_serial /\ serial' = serial
  BY DEF Join, Destroy
<1>2. \A t \in Threads : Rank(t)' = Rank(t)  BY <1>1 DEF Rank, Place, MustWait
<1>3. \A t \in Threads : Rank(t) <= Rank(t)'  BY <1>2, PlaceType DEF Rank
<1>4. MainRank < MainRank' /\ MainRank <= MainRank'  BY DEF Join, Destroy, MainRank
<1> QED  BY <1>3, <1>4 DEF StepsAhead

\* No livelock: every step but a spurious wake-up gets main or a worker ahead
\* and none of them back, and there is an end to it, so that the barrier
\* makes finitely many steps; with BarrierNeverStuck, main returns.
THEOREM BarrierProgress ==
  Spec => /\ []RankBounded
          /\ [][spurious < spurious' \/ (spurious' = spurious /\ StepsAhead)]_vars
<1>1. IndInv => RankBounded
  <2> SUFFICES ASSUME IndInv, NEW t \in Threads PROVE Rank(t) \in 0..(8 * NumPhases + 1)
    BY DEF RankBounded
  <2>1. phase[t] <= NumPhases /\ NumPhases \in Nat
    BY BarrierAssumption DEF IndInv, TypeOK
  <2> QED  BY <2>1, PlaceType DEF Rank
<1>2. IndInv /\ IndInv' /\ [Next]_vars
        => [spurious < spurious' \/ (spurious' = spurious /\ StepsAhead)]_vars
  <2> SUFFICES ASSUME IndInv, IndInv', Next
               PROVE  \/ spurious < spurious'
                      \/ spurious' = spurious /\ StepsAhead
                      \/ UNCHANGED vars
    OBVIOUS
  <2>1. ASSUME NEW t \in Threads, SpuriousWakeup(t) PROVE spurious < spurious'
    BY <2>1 DEF SpuriousWakeup, IndInv, TypeOK
  <2>2. ASSUME NEW t \in Threads, Create(t) \/ Worker(t) PROVE spurious' = spurious
    BY <2>2 DEF Create, Worker, LockMutex, Arrive, TestSerial, Reacquire, Unlock
  <2>3. Join \/ Destroy => spurious' = spurious  BY DEF Join, Destroy
  <2> QED  BY <2>1, <2>2, <2>3, WorkerAhead, MainAhead DEF Next, Terminating
<1> QED  BY <1>1, <1>2, BarrierInvariant, PTL DEF Spec
====
