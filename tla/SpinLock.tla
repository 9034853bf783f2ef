------------------------------ MODULE SpinLock ------------------------------
(***************************************************************************)
(* Exercise 05: the spinlocks and the workers that increment a plain long  *)
(* under them, on C11 memory.  kind is the lock of the test that runs:     *)
(*   "tas"      atomic_flag test-and-set; also pthread_spin_lock, which    *)
(*              the worker uses as an exchange with acquire order          *)
(*   "ttas"     relaxed test, then weak compare-exchange (ttas_lock and    *)
(*              ttas_pause_lock, which have the same body)                 *)
(*   "backoff"  ttas with an exponentially growing pause                   *)
(***************************************************************************)
EXTENDS Naturals, Sequences, FiniteSets

CONSTANTS Threads,        \* the NUM_THREADS workers
          Main,           \* the thread that runs main
          Iterations,     \* ITERATIONS
          Kinds,          \* the locks
          BACKOFF_MIN, BACKOFF_MAX,
          MaxSpurious     \* bound: spurious failures of the weak CAS

Locs == {"locked", "shared_counter"}

ASSUME SpinLockAssumption ==
  /\ IsFiniteSet(Threads) /\ Threads # {} /\ Main \notin Threads
  /\ Iterations \in Nat /\ MaxSpurious \in Nat
  /\ Kinds \subseteq {"tas", "ttas", "backoff"}
  /\ BACKOFF_MIN \in Nat \ {0} /\ BACKOFF_MAX \in Nat
  /\ BACKOFF_MIN <= BACKOFF_MAX

VARIABLES
  kind,       \* which lock the workers use
  mem, view,  \* C11 memory: locations "locked" and "shared_counter"
  pc,         \* pc[t]: where worker t is (see States)
  done,       \* done[t]: increments t has stored
  reg,        \* reg[t]: value loaded by shared_counter++
  backoff,    \* backoff[t]: local of backoff_lock
  spurious,   \* spurious CAS failures so far
  main        \* "create", "join", "joined"

vars == <<kind, mem, view, pc, done, reg, backoff, spurious, main>>

INSTANCE C11Memory WITH Loc <- Locs, Agents <- Threads \cup {Main}

States == {"unborn", "tas", "test", "cas",      \* acquiring
           "load", "store", "unlock",           \* shared_counter++, release
           "done", "joined"}

Critical(t) == pc[t] \in {"load", "store", "unlock"}

\* First step of the lock function.
Acquire == IF kind = "tas" THEN "tas" ELSE "test"

\* Where the loop of the worker stands after n increments.
LoopAt(n) == IF n < Iterations THEN Acquire ELSE "done"

Init == /\ kind \in Kinds
        /\ MemInit([l \in Locs |-> 0])
        /\ pc = [t \in Threads |-> "unborn"]
        /\ done = [t \in Threads |-> 0]
        /\ reg = [t \in Threads |-> 0]
        /\ backoff = [t \in Threads |-> BACKOFF_MIN]
        /\ spurious = 0
        /\ main = "create"
-----------------------------------------------------------------------------
\* pthread_create
Create(t) == /\ main = "create"
             /\ pc[t] = "unborn"
             /\ Fork(Main, t)
             /\ pc' = [pc EXCEPT ![t] = LoopAt(0)]
             /\ main' = IF \E u \in Threads \ {t} : pc[u] = "unborn"
                          THEN "create" ELSE "join"
             /\ UNCHANGED <<kind, mem, done, reg, backoff, spurious>>

\* Mutant of AcquireOrder and of ReleaseOrder: no ordering.
RelaxedOrder == "relaxed"

\* Order of a successful test-and-set or compare-exchange.
AcquireOrder == "acquire"

\* Mutant of LockFree: the old value is not looked at.
LockBlind == TRUE

\* What a read-modify-write finds: the newest value, 0 (false) when free.
LockFree == NewestVal("locked") = 0

\* test_and_set finds the flag clear.  (When it finds it set it writes true
\* over true and the loop goes on: nothing changes that anyone could see.)
TestAndSet(t) == /\ pc[t] = "tas"
                 /\ LockFree
                 /\ Update(t, "locked", 1, AcquireOrder)
                 /\ pc' = [pc EXCEPT ![t] = "load"]
                 /\ UNCHANGED <<kind, done, reg, backoff, spurious, main>>

\* Mutant of NextBackoff: doubles first and tests too late.
BackoffUncapped(b) == IF b > BACKOFF_MAX THEN BACKOFF_MAX ELSE b * 2

\* backoff = (backoff * 2 > BACKOFF_MAX) ? BACKOFF_MAX : backoff * 2
NextBackoff(b) == IF b * 2 > BACKOFF_MAX THEN BACKOFF_MAX ELSE b * 2

\* A failed attempt: pause, and with backoff pause longer next time.
Retry(t) == /\ pc' = [pc EXCEPT ![t] = "test"]
            /\ backoff' = IF kind = "backoff"
                            THEN [backoff EXCEPT ![t] = NextBackoff(@)]
                            ELSE backoff

\* The relaxed test reads message i, perhaps an old one.
Test(t, i) == /\ pc[t] = "test"
              /\ Load(t, "locked", i, "relaxed")
              /\ IF mem["locked"][i].val = 1
                   THEN Retry(t)
                   ELSE pc' = [pc EXCEPT ![t] = "cas"] /\ UNCHANGED backoff
              /\ UNCHANGED <<kind, done, reg, spurious, main>>

CasSucceeds(t) == /\ pc[t] = "cas"
                  /\ LockFree
                  /\ Update(t, "locked", 1, AcquireOrder)
                  /\ pc' = [pc EXCEPT ![t] = "load"]
                  /\ UNCHANGED <<kind, done, reg, backoff, spurious, main>>

\* It fails because it reads true, or, being the weak one, for no reason.
CasFails(t, i) == /\ pc[t] = "cas"
                  /\ Load(t, "locked", i, "relaxed")
                  /\ \/ mem["locked"][i].val = 1 /\ UNCHANGED spurious
                     \/ spurious < MaxSpurious /\ spurious' = spurious + 1
                  /\ Retry(t)
                  /\ UNCHANGED <<kind, done, reg, main>>

\* shared_counter++: the load (message i) ...
LoadCounter(t, i) == /\ pc[t] = "load"
                     /\ PlainLoad(t, "shared_counter", i)
                     /\ reg' = [reg EXCEPT ![t] = mem["shared_counter"][i].val]
                     /\ pc' = [pc EXCEPT ![t] = "store"]
                     /\ UNCHANGED <<kind, done, backoff, spurious, main>>

\* ... and the store.
StoreCounter(t) == /\ pc[t] = "store"
                   /\ PlainStore(t, "shared_counter", reg[t] + 1)
                   /\ done' = [done EXCEPT ![t] = @ + 1]
                   /\ pc' = [pc EXCEPT ![t] = "unlock"]
                   /\ UNCHANGED <<kind, reg, backoff, spurious, main>>

\* Order of the store that releases the lock.
ReleaseOrder == "release"

\* Mutant of Unlock: the lock word is not cleared.
UnlockForgotten(t) == /\ pc[t] = "unlock"
                      /\ pc' = [pc EXCEPT ![t] = LoopAt(done[t])]
                      /\ backoff' = [backoff EXCEPT ![t] = BACKOFF_MIN]
                      /\ UNCHANGED <<kind, mem, view, done, reg, spurious, main>>

\* The unlock functions, and the next turn of the worker's loop: the next
\* call of backoff_lock starts again at BACKOFF_MIN.
Unlock(t) == /\ pc[t] = "unlock"
             /\ Store(t, "locked", 0, ReleaseOrder)
             /\ pc' = [pc EXCEPT ![t] = LoopAt(done[t])]
             /\ backoff' = [backoff EXCEPT ![t] = BACKOFF_MIN]
             /\ UNCHANGED <<kind, done, reg, spurious, main>>

\* Mutant of Join: main does not learn what the worker did.
JoinUnsynchronised(t) ==
  /\ main = "join"
  /\ pc[t] = "done"
  /\ pc' = [pc EXCEPT ![t] = "joined"]
  /\ main' = IF \A u \in Threads \ {t} : pc[u] = "joined"
               THEN "joined" ELSE "join"
  /\ UNCHANGED <<kind, mem, view, done, reg, backoff, spurious>>

\* pthread_join; the last one lets main go on.
Join(t) == /\ main = "join"
           /\ pc[t] = "done"
           /\ Await(Main, t)
           /\ pc' = [pc EXCEPT ![t] = "joined"]
           /\ main' = IF \A u \in Threads \ {t} : pc[u] = "joined"
                        THEN "joined" ELSE "join"
           /\ UNCHANGED <<kind, mem, done, reg, backoff, spurious>>

Terminating == main = "joined" /\ UNCHANGED vars

Worker(t) == \/ TestAndSet(t)
             \/ \E i \in Readable(t, "locked") : Test(t, i) \/ CasFails(t, i)
             \/ CasSucceeds(t)
             \/ \E i \in Readable(t, "shared_counter") : LoadCounter(t, i)
             \/ StoreCounter(t) \/ Unlock(t)

Next == \/ \E t \in Threads : Create(t) \/ Worker(t) \/ Join(t)
        \/ Terminating

Spec == Init /\ [][Next]_vars

\* Every thread that can step is scheduled, and a polling load does not
\* return an old value for ever (C11 7.17.3: stores become visible to
\* atomic loads within a reasonable time).
FairSpec == /\ Spec
            /\ WF_vars(\E t \in Threads : Create(t) \/ Join(t))
            /\ \A t \in Threads : /\ WF_vars(Worker(t))
                                  /\ WF_vars(Test(t, Newest("locked")))
-----------------------------------------------------------------------------
Views == [Locs -> Nat \ {0}]
Messages == [val : Nat, view : Views]

\* Types; done within the loop of the worker, backoff within its bounds.
TypeOK == /\ kind \in Kinds
          /\ mem \in [Locs -> Seq(Messages)]
          /\ view \in [Threads \cup {Main} -> Views]
          /\ pc \in [Threads -> States]
          /\ done \in [Threads -> 0..Iterations]
          /\ reg \in [Threads -> Nat]
          /\ backoff \in [Threads -> BACKOFF_MIN..BACKOFF_MAX]
          /\ spurious \in 0..MaxSpurious
          /\ main \in {"create", "join", "joined"}

\* At most one worker is between lock and unlock.
MutualExclusion == \A s, t \in Threads : Critical(s) /\ Critical(t) => s = t

\* shared_counter++ under the lock is free of data races: whoever holds the
\* lock has seen every earlier increment.  This is what acquire and release
\* are for; mutual exclusion alone does not give it.
NoDataRace == \A t \in Threads : Critical(t) => ~Races(t, "shared_counter")

\* After the joins main sees, without a race, every increment: the total that
\* the tests print (most are commented out) is NUM_THREADS * ITERATIONS.
TotalExact == main = "joined" =>
  /\ ~Races(Main, "shared_counter")
  /\ NewestVal("shared_counter") = Cardinality(Threads) * Iterations

\* While a worker is trying, its pause never shrinks, grows at most to
\* double and stays within BACKOFF_MAX; it starts again at BACKOFF_MIN with
\* the next acquisition and not before.
BackoffGrows ==
  [][\A t \in Threads : backoff'[t] # backoff[t] =>
       \/ /\ backoff[t] < backoff'[t]
          /\ backoff'[t] <= 2 * backoff[t]
          /\ backoff'[t] <= BACKOFF_MAX
          /\ pc'[t] = "test"
       \/ backoff'[t] = BACKOFF_MIN /\ Critical(t)]_vars

\* Every worker gets the lock as often as it needs and main returns.
Terminates == <>(main = "joined")

AC == INSTANCE AtomicCounter WITH total <- NewestVal("shared_counter")

\* The locked increments behave as atomic ones.
ImplementsAtomicCounter == AC!FairSpec
=============================================================================
