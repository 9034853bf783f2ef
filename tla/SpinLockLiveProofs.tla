------------------------ MODULE SpinLockLiveProofs ------------------------
(***************************************************************************)
(* What termination of exercise 05 rests on, for any finite set of workers *)
(* and every kind of lock: somebody can always get ahead, and every step   *)
(* gets somebody ahead.                                                    *)
(***************************************************************************)
EXTENDS SpinLockProofs

\* Main creates as long as there is a worker to create and joins until all
\* are joined.
MainInv == /\ main = "create" <=> \E t \in Threads : pc[t] = "unborn"
           /\ main = "joined" <=> \A t \in Threads : pc[t] = "joined"

\* A worker at the compare-exchange last saw the lock free.
SawFree == \A t \in Threads :
             pc[t] = "cas" => mem["locked"][view[t]["locked"]].val = 0

\* The lock word is written twice for each increment.
LengthInv == Newest("locked") = 2 * Cardinality(Increments)
               + IF LockFree THEN 1
                 ELSE IF \E t \in Threads : pc[t] = "unlock" THEN 0 ELSE 2

LiveInv == MainInv /\ SawFree /\ LengthInv

\* A write adds a message and leaves the others.
LEMMA WordGrows ==
  ASSUME TypeOK, BoundInv, NEW a \in Agent, NEW l \in Locs, NEW val \in Nat,
         NEW v \in Views, NEW carried \in Views, NEW order,
         Append1(a, l, val, v, carried, order)
  PROVE  /\ Newest(l)' = Newest(l) + 1
         /\ NewestVal(l)' = val
         /\ view'[a][l] = Newest(l) + 1
         /\ \A b \in Agent \ {a} : view'[b] = view[b]
         /\ \A i \in 1..Newest(l) : mem'[l][i] = mem[l][i]
<1>1. /\ \A b \in Agent \ {a} : view'[b] = view[b]
      /\ view'[a] = [v EXCEPT ![l] = Newest(l) + 1]
      /\ \A m \in Locs \ {l} : mem'[m] = mem[m]
      /\ Len(mem'[l]) = Newest(l) + 1
      /\ \A i \in 1..Newest(l) : mem'[l][i] = mem[l][i]
      /\ mem'[l][Newest(l) + 1].val = val
      /\ \/ mem'[l][Newest(l) + 1].view = [v EXCEPT ![l] = Newest(l) + 1]
         \/ mem'[l][Newest(l) + 1].view = [carried EXCEPT ![l] = Newest(l) + 1]
  BY AppendFacts
<1>2. view'[a][l] = Newest(l) + 1  BY <1>1 DEF Views
<1> QED  BY <1>1, <1>2 DEF Newest, NewestVal

\* Taking the lock writes the word.
LEMMA TakeGrows ==
  ASSUME IndInv, NEW t \in Threads, Update(t, "locked", 1, AcquireOrder)
  PROVE  /\ Newest("locked")' = Newest("locked") + 1
         /\ NewestVal("locked")' = 1
         /\ view'[t]["locked"] = Newest("locked") + 1
         /\ \A u \in Threads \ {t} : view'[u] = view[u]
         /\ \A i \in 1..Newest("locked") : mem'["locked"][i] = mem["locked"][i]
<1> DEFINE n == Newest("locked")
           lv == mem["locked"][n].view
           v == Merge([view[t] EXCEPT !["locked"] = n], lv)
<1> USE DEF IndInv
<1>1. /\ t \in Agent /\ "locked" \in Locs /\ n \in Nat /\ n >= 1
      /\ lv \in Views /\ view[t] \in Views
  <2>1. t \in Agent /\ "locked" \in Locs  BY DEF Agent, Locs
  <2> QED  BY <2>1, MemFacts DEF Messages
<1>2. v \in Views  BY <1>1 DEF Merge, Views
<1>3. Append1(t, "locked", 1, v, lv, "acquire")
  BY DEF Update, Seen, AcquireOrder, Acquiring
<1>4. Threads \subseteq Agent  BY DEF Agent
<1> HIDE DEF v, lv
<1> QED  BY <1>1, <1>2, <1>3, <1>4, WordGrows

\* So does releasing it.
LEMMA UnlockGrows ==
  ASSUME IndInv, NEW t \in Threads, Store(t, "locked", 0, ReleaseOrder)
  PROVE  /\ Newest("locked")' = Newest("locked") + 1
         /\ NewestVal("locked")' = 0
         /\ view'[t]["locked"] = Newest("locked") + 1
         /\ \A u \in Threads \ {t} : view'[u] = view[u]
         /\ \A i \in 1..Newest("locked") : mem'["locked"][i] = mem["locked"][i]
<1> DEFINE v == view[t]
           bot == Bottom
<1>1. /\ v \in Views /\ bot \in Views
      /\ t \in Agent /\ "locked" \in Locs /\ Threads \subseteq Agent
  BY DEF IndInv, TypeOK, Views, Bottom, Agent, Locs
<1>2. Append1(t, "locked", 0, v, bot, ReleaseOrder)  BY DEF Store
<1> HIDE DEF v, bot
<1> QED  BY <1>1, <1>2, WordGrows DEF IndInv

\* Steps that leave the lock word and the views of it alone.
LEMMA WordKept ==
  ASSUME IndInv, SawFree, mem'["locked"] = mem["locked"],
         \A u \in Threads : pc'[u] = "cas" =>
            pc[u] = "cas" /\ view'[u]["locked"] = view[u]["locked"]
  PROVE  /\ SawFree' /\ Newest("locked")' = Newest("locked") /\ LockFree' = LockFree
  BY DEF SawFree, Newest, NewestVal, LockFree

\* A worker takes the lock, which was free.
LEMMA TakeLive ==
  ASSUME IndInv, LiveInv, NEW t \in Threads, TestAndSet(t) \/ CasSucceeds(t)
  PROVE  LiveInv'
<1> USE DEF IndInv, LiveInv
<1>1. /\ pc[t] \in {"tas", "cas"} /\ pc' = [pc EXCEPT ![t] = "load"]
      /\ Update(t, "locked", 1, AcquireOrder) /\ LockFree
      /\ main' = main /\ done' = done /\ pc \in [Threads -> States]
  BY DEF TestAndSet, CasSucceeds, TypeOK
<1>2. /\ Newest("locked")' = Newest("locked") + 1 /\ NewestVal("locked")' = 1
      /\ \A u \in Threads \ {t} : view'[u] = view[u]
      /\ \A i \in 1..Newest("locked") : mem'["locked"][i] = mem["locked"][i]
  BY <1>1, TakeGrows
<1>3. MainInv'  BY <1>1 DEF MainInv
<1>4. SawFree'
  <2> SUFFICES ASSUME NEW u \in Threads, pc'[u] = "cas"
               PROVE  mem'["locked"][view'[u]["locked"]].val = 0
    BY DEF SawFree
  <2>1. u # t /\ pc[u] = "cas" /\ view'[u] = view[u]  BY <1>1, <1>2
  <2>2. view[u]["locked"] \in 1..Newest("locked")
    BY MemFacts DEF BoundInv, Agent, Locs
  <2> QED  BY <1>2, <2>1, <2>2 DEF SawFree
<1>5. LengthInv'
  <2>1. Increments' = Increments  BY <1>1 DEF Increments
  <2>2. \A u \in Threads : pc'[u] # "unlock"
    BY <1>1 DEF LockInv, Critical
  <2>3. ~LockFree'  BY <1>2 DEF LockFree
  <2>4. Newest("locked") = 2 * Cardinality(Increments) + 1  BY <1>1 DEF LengthInv
  <2>5. Cardinality(Increments) \in Nat
    <3>1. "shared_counter" \in Locs  BY DEF Locs
    <3> QED  BY <3>1, MemFacts DEF ValueInv
  <2> QED  BY <1>2, <2>1, <2>2, <2>3, <2>4, <2>5 DEF LengthInv
<1> QED  BY <1>3, <1>4, <1>5

\* A worker releases the lock.
LEMMA UnlockLive ==
  ASSUME IndInv, LiveInv, NEW t \in Threads, Unlock(t) PROVE LiveInv'
<1> USE DEF IndInv, LiveInv
<1>1. /\ pc[t] = "unlock" /\ pc' = [pc EXCEPT ![t] = LoopAt(done[t])]
      /\ Store(t, "locked", 0, ReleaseOrder)
      /\ main' = main /\ done' = done /\ pc \in [Threads -> States]
      /\ LoopAt(done[t]) \in {"tas", "test", "done"}
  BY DEF Unlock, TypeOK, LoopAt, Acquire
<1>2. /\ Newest("locked")' = Newest("locked") + 1 /\ NewestVal("locked")' = 0
      /\ \A u \in Threads \ {t} : view'[u] = view[u]
      /\ \A i \in 1..Newest("locked") : mem'["locked"][i] = mem["locked"][i]
  BY <1>1, UnlockGrows
<1>3. MainInv'  BY <1>1 DEF MainInv
<1>4. SawFree'
  <2> SUFFICES ASSUME NEW u \in Threads, pc'[u] = "cas"
               PROVE  mem'["locked"][view'[u]["locked"]].val = 0
    BY DEF SawFree
  <2>1. u # t /\ pc[u] = "cas" /\ view'[u] = view[u]  BY <1>1, <1>2
  <2>2. view[u]["locked"] \in 1..Newest("locked")
    BY MemFacts DEF BoundInv, Agent, Locs
  <2> QED  BY <1>2, <2>1, <2>2 DEF SawFree
<1>5. LengthInv'
  <2>1. Increments' = Increments  BY <1>1 DEF Increments
  <2>2. ~LockFree  BY <1>1 DEF LockInv, Critical
  <2>3. LockFree'  BY <1>2 DEF LockFree
  <2>4. Newest("locked") = 2 * Cardinality(Increments) + 0
    BY <1>1, <2>2 DEF LengthInv
  <2>5. Cardinality(Increments) \in Nat
    <3>1. "shared_counter" \in Locs  BY DEF Locs
    <3> QED  BY <3>1, MemFacts DEF ValueInv
  <2> QED  BY <1>2, <2>1, <2>3, <2>4, <2>5 DEF LengthInv
<1> QED  BY <1>3, <1>4, <1>5

\* A worker stores the counter: one more increment, the lock word as before.
LEMMA StoreLive ==
  ASSUME IndInv, LiveInv, NEW t \in Threads, StoreCounter(t) PROVE LiveInv'
<1> USE DEF IndInv, LiveInv
<1>0. t \in Agent /\ "shared_counter" \in Locs /\ "locked" \in Locs
  BY DEF Agent, Locs
<1>1. /\ pc[t] = "store" /\ pc' = [pc EXCEPT ![t] = "unlock"] /\ main' = main
      /\ done' = [done EXCEPT ![t] = @ + 1] /\ done[t] < Iterations
      /\ pc \in [Threads -> States] /\ reg[t] + 1 \in Nat
      /\ Store(t, "shared_counter", reg[t] + 1, "relaxed")
  BY DEF StoreCounter, PlainStore, ValueInv, TypeOK
<1>2. /\ \A m \in Locs \ {"shared_counter"} : mem'[m] = mem[m]
      /\ \A b \in Agent \ {t} : view'[b] = view[b]
  BY <1>0, <1>1, StoreFacts
<1>3. MainInv'  BY <1>1 DEF MainInv
<1>4. SawFree' /\ Newest("locked")' = Newest("locked") /\ LockFree' = LockFree
  <2>1. mem'["locked"] = mem["locked"]  BY <1>0, <1>2
  <2>2. ASSUME NEW u \in Threads, pc'[u] = "cas"
        PROVE  pc[u] = "cas" /\ view'[u]["locked"] = view[u]["locked"]
    BY <1>1, <1>2, <2>2 DEF Agent
  <2> QED  BY <2>1, <2>2, WordKept
<1>5. LengthInv'
  <2>1. Cardinality(Increments') = Cardinality(Increments) + 1  BY <1>1, OneMoreIncrement
  <2>2. ~LockFree  BY <1>1 DEF LockInv, Critical
  <2>3. \A u \in Threads : pc[u] # "unlock"
    BY <1>1 DEF LockInv, MutualExclusion, Critical
  <2>4. Newest("locked") = 2 * Cardinality(Increments) + 2
    BY <2>2, <2>3 DEF LengthInv
  <2>5. Cardinality(Increments) \in Nat  BY <1>0, MemFacts DEF ValueInv
  <2>6. \E u \in Threads : pc'[u] = "unlock"  BY <1>1
  <2>7. Newest("locked")' = 2 * Cardinality(Increments') + 0
    BY <1>4, <2>1, <2>4, <2>5
  <2> QED  BY <1>4, <2>2, <2>6, <2>7 DEF LengthInv
<1> QED  BY <1>3, <1>4, <1>5

\* A step that neither writes the lock word nor stores the counter.
LEMMA QuietLive ==
  ASSUME IndInv, LiveInv, mem'["locked"] = mem["locked"], done' = done,
         \A u \in Threads : pc'[u] = "unlock" <=> pc[u] = "unlock",
         MainInv', SawFree'
  PROVE  LiveInv'
<1>1. Increments' = Increments  BY DEF Increments
<1>2. Newest("locked")' = Newest("locked") /\ LockFree' = LockFree
  BY DEF Newest, NewestVal, LockFree
<1>3. (\E u \in Threads : pc'[u] = "unlock") <=> (\E u \in Threads : pc[u] = "unlock")
  OBVIOUS
<1>4. LengthInv'  BY <1>1, <1>2, <1>3 DEF LiveInv, LengthInv
<1> QED  BY <1>4 DEF LiveInv

\* A worker looks at the lock word.
LEMMA PollLive ==
  ASSUME IndInv, LiveInv, NEW t \in Threads, NEW i \in Readable(t, "locked"),
         Test(t, i) \/ CasFails(t, i)
  PROVE  LiveInv'
<1> USE DEF IndInv
<1>0. t \in Agent /\ "locked" \in Locs /\ Threads \subseteq Agent  BY DEF Agent, Locs
<1>1. /\ Load(t, "locked", i, "relaxed") /\ main' = main /\ done' = done
      /\ pc[t] \in {"test", "cas"} /\ pc \in [Threads -> States]
      /\ \/ pc' = [pc EXCEPT ![t] = "test"]
         \/ pc' = [pc EXCEPT ![t] = "cas"] /\ mem["locked"][i].val # 1
  BY DEF Test, CasFails, Retry, TypeOK
<1>2. /\ mem' = mem /\ view'[t] = [view[t] EXCEPT !["locked"] = i]
      /\ \A b \in Agent \ {t} : view'[b] = view[b]
  BY <1>0, <1>1, LoadFacts
<1>3. view'[t]["locked"] = i /\ i \in 1..Newest("locked")
  BY <1>0, <1>1, <1>2, LoadFacts, MemFacts DEF Views
<1>4. SawFree'
  <2> SUFFICES ASSUME NEW u \in Threads, pc'[u] = "cas"
               PROVE  mem["locked"][view'[u]["locked"]].val = 0
    BY <1>2 DEF SawFree
  <2>1. CASE u = t
    BY <1>1, <1>3, <2>1 DEF BoundInv
  <2>2. CASE u # t
    BY <1>0, <1>1, <1>2, <2>2 DEF LiveInv, SawFree
  <2> QED  BY <2>1, <2>2
<1>5. MainInv'  BY <1>1 DEF LiveInv, MainInv
<1>6. \A u \in Threads : pc'[u] = "unlock" <=> pc[u] = "unlock"  BY <1>1
<1> QED  BY <1>1, <1>2, <1>4, <1>5, <1>6, QuietLive

\* The other steps leave the lock word alone.
LEMMA OtherLive ==
  ASSUME IndInv, LiveInv, NEW t \in Threads,
         \/ \E i \in Readable(t, "shared_counter") : LoadCounter(t, i)
         \/ Create(t) \/ Join(t)
  PROVE  LiveInv'
<1> USE DEF IndInv
<1>0. /\ t \in Agent /\ Main \in Agent /\ Threads \subseteq Agent /\ Main \notin Threads
      /\ "locked" \in Locs /\ "shared_counter" \in Locs
  BY SpinLockAssumption DEF Agent, Locs
<1>1. pc \in [Threads -> States]  BY DEF TypeOK
<1>2. ASSUME mem' = mem, done' = done, MainInv',
             NEW s \in States \ {"cas", "unlock"}, pc' = [pc EXCEPT ![t] = s],
             pc[t] # "unlock", \A u \in Threads \ {t} : view'[u] = view[u]
      PROVE  LiveInv'
  <2>1. SawFree'  BY <1>1, <1>2, WordKept DEF LiveInv
  <2>2. \A u \in Threads : pc'[u] = "unlock" <=> pc[u] = "unlock"  BY <1>1, <1>2
  <2> QED  BY <1>2, <2>1, <2>2, QuietLive
<1>3. ASSUME NEW i \in Readable(t, "shared_counter"), LoadCounter(t, i) PROVE LiveInv'
  <2>1. mem' = mem /\ \A b \in Agent \ {t} : view'[b] = view[b]
    BY <1>0, <1>3, LoadFacts DEF LoadCounter, PlainLoad
  <2>2. MainInv'  BY <1>1, <1>3 DEF LoadCounter, LiveInv, MainInv
  <2> QED  BY <1>0, <1>2, <1>3, <2>1, <2>2 DEF LoadCounter, States
<1>4. CASE Create(t)
  <2>1. LoopAt(0) \in {"tas", "test", "done"}  BY DEF LoopAt, Acquire
  <2>2. \A u \in Threads \ {t} : view'[u] = view[u]
    BY <1>0, <1>4 DEF Create, Fork, TypeOK, Agent
  <2>3. MainInv'  BY <1>1, <1>4, <2>1 DEF Create, LiveInv, MainInv
  <2> QED  BY <1>2, <1>4, <2>1, <2>2, <2>3 DEF Create, States
<1>5. CASE Join(t)
  <2>1. \A u \in Threads \ {t} : view'[u] = view[u]
    BY <1>0, <1>5 DEF Join, Await, TypeOK, Agent
  <2>2. MainInv'  BY <1>1, <1>5 DEF Join, LiveInv, MainInv
  <2> QED  BY <1>2, <1>5, <2>1, <2>2 DEF Join, States
<1> QED  BY <1>3, <1>4, <1>5

\* Every step keeps these facts.
LEMMA LiveNext == IndInv /\ LiveInv /\ [Next]_vars => LiveInv'
<1> SUFFICES ASSUME IndInv, LiveInv, [Next]_vars PROVE LiveInv'  OBVIOUS
<1>1. CASE UNCHANGED vars
  BY <1>1 DEF vars, LiveInv, MainInv, SawFree, LengthInv, Newest, NewestVal, LockFree,
              Increments
<1>2. ASSUME NEW t \in Threads, Worker(t) PROVE LiveInv'
  BY <1>2, TakeLive, UnlockLive, StoreLive, PollLive, OtherLive DEF Worker
<1> QED  BY <1>1, <1>2, OtherLive DEF Next, Terminating

\* They hold at first.
LEMMA LiveInit == Init => LiveInv
<1> SUFFICES ASSUME Init PROVE LiveInv  OBVIOUS
<1>1. MainInv /\ SawFree  BY SpinLockAssumption DEF Init, MainInv, SawFree
<1>2. mem["locked"] = <<[val |-> 0, view |-> Bottom]>>  BY DEF Init, MemInit, Locs
<1>3. Newest("locked") = 1 /\ LockFree  BY <1>2 DEF Newest, LockFree, NewestVal
<1>4. Increments = {}  BY SpinLockAssumption DEF Init, Increments
<1>5. Cardinality(Increments) = 0  BY <1>4, FS_EmptySet
<1> QED  BY <1>1, <1>3, <1>5 DEF LiveInv, LengthInv

\* Worker t can be created or joined, or can take a step that gets it ahead
\* if its test looks at the newest value of the lock word.
CanAdvance(t) ==
  \/ main = "create" /\ pc[t] = "unborn"
  \/ pc[t] \in {"tas", "cas"} /\ LockFree
  \/ pc[t] = "test" /\ LockFree /\ Newest("locked") \in Readable(t, "locked")
  \/ pc[t] = "load" /\ Readable(t, "shared_counter") # {}
  \/ pc[t] \in {"store", "unlock"}
  \/ main = "join" /\ pc[t] = "done"

\* Somebody can get ahead, or main has joined all.
NeverStuck == main = "joined" \/ \E t \in Threads : CanAdvance(t)

\* No deadlock: while some worker waits, the lock is free for it or its
\* holder can go on to release it (all lock and unlock functions, any number
\* of workers).
THEOREM SpinLockNeverStuck == Spec => []NeverStuck
<1>1. IndInv /\ LiveInv => NeverStuck
  <2> SUFFICES ASSUME IndInv, LiveInv, main # "joined",
                      \A t \in Threads : ~CanAdvance(t)
               PROVE  FALSE
    BY DEF NeverStuck
  <2> USE DEF IndInv
  <2>1. main = "join" /\ \A t \in Threads : pc[t] # "unborn"
    BY DEF TypeOK, LiveInv, MainInv, CanAdvance
  <2>2. \A t \in Threads, l \in Locs : Newest(l) \in Readable(t, l)
    BY MemFacts DEF BoundInv, Readable, Agent
  <2>3. "locked" \in Locs /\ "shared_counter" \in Locs  BY DEF Locs
  <2>4. \A t \in Threads : ~Critical(t)  BY <2>2, <2>3 DEF CanAdvance, Critical
  <2>5. LockFree  BY <2>4 DEF LockInv
  <2>6. \A t \in Threads : pc[t] = "joined"
    BY <2>1, <2>2, <2>3, <2>4, <2>5 DEF TypeOK, States, CanAdvance, Critical
  <2> QED  BY <2>6 DEF LiveInv, MainInv
<1> QED  BY <1>1, LiveInit, LiveNext, SpinLockInvariant, PTL DEF Spec

\* How far worker t is in its loop.
Rank(t) == 4 * done[t] + CASE pc[t] \in {"unborn", "unlock"} -> 0
                           [] pc[t] \in {"tas", "test", "cas", "done"} -> 1
                           [] pc[t] \in {"load", "joined"} -> 2
                           [] OTHER -> 3

\* The step gets worker t ahead in its loop; or, while it tries to get the
\* lock, to a newer value of the lock word, a longer pause or from the test to
\* the compare-exchange.
Ahead(t) ==
  \/ Rank(t) < Rank(t)'
  \/ /\ Rank(t) = Rank(t)'
     /\ \/ view[t]["locked"] < view'[t]["locked"]
        \/ /\ view[t]["locked"] = view'[t]["locked"]
           /\ \/ backoff[t] < backoff'[t]
              \/ backoff[t] = backoff'[t] /\ pc[t] = "test" /\ pc'[t] = "cas"

\* One worker gets ahead and the others stay where they are.
StepsAhead == \E t \in Threads :
  /\ Ahead(t)
  /\ \A u \in Threads \ {t} : /\ pc'[u] = pc[u] /\ done'[u] = done[u]
                              /\ view'[u]["locked"] = view[u]["locked"]
                              /\ backoff'[u] = backoff[u]

\* There is an end to each of them.
Bounded == \A t \in Threads :
  /\ Rank(t) \in 0..(4 * Iterations + 2)
  /\ view[t]["locked"] \in 0..(2 * (Cardinality(Threads) * Iterations) + 2)
  /\ backoff[t] \in 0..BACKOFF_MAX

\* Looking at the lock word: nothing new, or ahead; a compare-exchange that
\* fails without need is told by spurious.
LEMMA PollAhead ==
  ASSUME IndInv, LiveInv, NEW t \in Threads, NEW i \in Readable(t, "locked"),
         Test(t, i) \/ CasFails(t, i), spurious' = spurious
  PROVE  StepsAhead \/ UNCHANGED vars
<1> USE DEF IndInv
<1>0. t \in Agent /\ "locked" \in Locs /\ Threads \subseteq Agent  BY DEF Agent, Locs
<1>1. /\ Load(t, "locked", i, "relaxed")
      /\ UNCHANGED <<kind, done, reg, spurious, main>>
      /\ pc \in [Threads -> States] /\ pc[t] \in {"test", "cas"}
      /\ backoff \in [Threads -> BACKOFF_MIN..BACKOFF_MAX]
  BY DEF Test, CasFails, Retry, TypeOK
<1>2. /\ mem' = mem /\ view'[t] = [view[t] EXCEPT !["locked"] = i]
      /\ \A b \in Agent \ {t} : view'[b] = view[b]
      /\ view \in [Agent -> Views] /\ view' \in [Agent -> Views]
  BY <1>0, <1>1, LoadFacts DEF TypeOK, Agent
<1>3. /\ view'[t]["locked"] = i /\ i \in Nat /\ view[t]["locked"] \in Nat
      /\ view[t]["locked"] <= i
  BY <1>0, <1>2, MemFacts DEF Views, Readable
<1>4. /\ \A u \in Threads \ {t} : pc'[u] = pc[u] /\ backoff'[u] = backoff[u]
      /\ pc'[t] \in {"test", "cas"}
  BY <1>1 DEF Test, CasFails, Retry
<1>5. Rank(t)' = Rank(t)  BY <1>1, <1>4 DEF Rank
<1>6. Ahead(t) => StepsAhead  BY <1>0, <1>1, <1>2, <1>4 DEF StepsAhead
<1>7. CASE view[t]["locked"] < i  BY <1>3, <1>5, <1>6, <1>7 DEF Ahead
<1>8. CASE view[t]["locked"] = i
  <2>1. CASE CasFails(t, i)
    <3>1. pc[t] = "cas" /\ mem["locked"][i].val = 1
      BY <2>1, SpinLockAssumption DEF CasFails, TypeOK
    <3> QED  BY <1>8, <3>1 DEF LiveInv, SawFree
  <2>2. CASE Test(t, i) /\ mem["locked"][i].val # 1
    BY <1>1, <1>3, <1>5, <1>6, <1>8, <2>2 DEF Test, Ahead
  <2>3. CASE Test(t, i) /\ mem["locked"][i].val = 1
    <3>1. backoff[t] <= backoff'[t] /\ backoff[t] \in Nat /\ backoff'[t] \in Nat
      <4> DEFINE b == backoff[t]
      <4>1. b \in BACKOFF_MIN..BACKOFF_MAX  BY <1>1
      <4>2. backoff'[t] = b \/ backoff'[t] = NextBackoff(b)
        BY <1>1, <2>3 DEF Test, Retry
      <4> HIDE DEF b
      <4>3. NextBackoff(b) \in BACKOFF_MIN..BACKOFF_MAX /\ b <= NextBackoff(b)
        BY <4>1, BackoffBounds
      <4>4. b \in Nat /\ backoff'[t] \in Nat /\ b <= backoff'[t]
        BY <4>1, <4>2, <4>3, SpinLockAssumption
      <4> QED  BY <4>4 DEF b
    <3>2. CASE backoff[t] < backoff'[t]
      BY <1>3, <1>5, <1>6, <1>8, <3>2 DEF Ahead
    <3>3. CASE backoff[t] = backoff'[t]
      <4>1. backoff' = backoff
        <5>1. backoff' \in [Threads -> BACKOFF_MIN..BACKOFF_MAX]
          BY <2>3, RetryType DEF Test
        <5> QED  BY <1>1, <1>4, <3>3, <5>1
      <4>2. pc' = pc  BY <1>1, <2>3 DEF Test, Retry
      <4>3. view'[t] = view[t]  BY <1>0, <1>2, <1>8 DEF Views
      <4>4. view' = view  BY <1>2, <4>3
      <4> QED  BY <1>1, <1>2, <4>1, <4>2, <4>4 DEF vars
    <3> QED  BY <3>1, <3>2, <3>3
  <2> QED  BY <2>1, <2>2, <2>3
<1> QED  BY <1>3, <1>7, <1>8

\* Every other step of a worker, its creation and its join get it ahead in
\* its loop.
LEMMA LoopAhead ==
  ASSUME IndInv, NEW t \in Threads,
         \/ TestAndSet(t) \/ CasSucceeds(t) \/ StoreCounter(t) \/ Unlock(t)
         \/ \E i \in Readable(t, "shared_counter") : LoadCounter(t, i)
         \/ Create(t) \/ Join(t)
  PROVE  StepsAhead /\ spurious' = spurious
<1> USE DEF IndInv
<1>0. /\ t \in Agent /\ Main \in Agent /\ Threads \subseteq Agent /\ Main \notin Threads
      /\ "locked" \in Locs /\ "shared_counter" \in Locs
  BY SpinLockAssumption DEF Agent, Locs
<1>1. /\ pc \in [Threads -> States] /\ done \in [Threads -> 0..Iterations]
      /\ backoff \in [Threads -> BACKOFF_MIN..BACKOFF_MAX]
      /\ Iterations \in Nat
  BY SpinLockAssumption DEF TypeOK
<1>a. done[t] \in Nat  BY <1>1
<1>2. spurious' = spurious /\ \A u \in Threads \ {t} :
         pc'[u] = pc[u] /\ done'[u] = done[u] /\ backoff'[u] = backoff[u]
  <2>1. CASE TestAndSet(t) \/ CasSucceeds(t)
    BY <1>1, <2>1 DEF TestAndSet, CasSucceeds
  <2>2. CASE StoreCounter(t) \/ Unlock(t)  BY <1>1, <2>2 DEF StoreCounter, Unlock
  <2>3. CASE \E i \in Readable(t, "shared_counter") : LoadCounter(t, i)
    BY <1>1, <2>3 DEF LoadCounter
  <2>4. CASE Create(t) \/ Join(t)  BY <1>1, <2>4 DEF Create, Join
  <2> QED  BY <2>1, <2>2, <2>3, <2>4
<1>3. \A u \in Threads \ {t} : view'[u] = view[u]
  <2>1. CASE TestAndSet(t) \/ CasSucceeds(t)
    BY <2>1, TakeGrows DEF TestAndSet, CasSucceeds
  <2>2. CASE StoreCounter(t)
    <3> DEFINE r == reg[t] + 1
    <3>1. Store(t, "shared_counter", r, "relaxed")
      BY <2>2 DEF StoreCounter, PlainStore
    <3>2. r \in Nat
      <4>1. reg[t] \in Nat  BY DEF TypeOK
      <4> QED  BY <4>1
    <3> HIDE DEF r
    <3>3. \A b \in Agent \ {t} : view'[b] = view[b]
      BY <1>0, <3>1, <3>2, StoreFacts
    <3> QED  BY <1>0, <3>3
  <2>3. CASE Unlock(t)  BY <2>3, UnlockGrows DEF Unlock
  <2>4. ASSUME NEW i \in Readable(t, "shared_counter"), LoadCounter(t, i)
        PROVE  \A u \in Threads \ {t} : view'[u] = view[u]
    <3>1. \A b \in Agent \ {t} : view'[b] = view[b]
      BY <1>0, <2>4, LoadFacts DEF LoadCounter, PlainLoad
    <3> QED  BY <1>0, <3>1
  <2>5. CASE Create(t)  BY <1>0, <2>5 DEF Create, Fork, TypeOK, Agent
  <2>6. CASE Join(t)  BY <1>0, <2>6 DEF Join, Await, TypeOK, Agent
  <2> QED  BY <2>1, <2>2, <2>3, <2>4, <2>5, <2>6
<1>4. Rank(t) < Rank(t)'
  <2>1. CASE StoreCounter(t)  BY <1>1, <1>a, <2>1 DEF StoreCounter, Rank
  <2>2. CASE ~StoreCounter(t)
    <3>1. done' = done
      BY <2>2 DEF TestAndSet, CasSucceeds, Unlock, LoadCounter, Create, Join
    <3>2. CASE TestAndSet(t) \/ CasSucceeds(t)
      BY <1>1, <1>a, <3>1, <3>2 DEF TestAndSet, CasSucceeds, Rank
    <3>3. CASE Unlock(t)  BY <1>1, <1>a, <3>1, <3>3 DEF Unlock, LoopAt, Acquire, Rank
    <3>4. ASSUME NEW i, LoadCounter(t, i) PROVE Rank(t) < Rank(t)'
      BY <1>1, <1>a, <3>1, <3>4 DEF LoadCounter, Rank
    <3>5. CASE Create(t)  BY <1>1, <1>a, <3>1, <3>5 DEF Create, LoopAt, Acquire, Rank
    <3>6. CASE Join(t)  BY <1>1, <1>a, <3>1, <3>6 DEF Join, Rank
    <3> QED  BY <2>2, <3>2, <3>3, <3>4, <3>5, <3>6
  <2> QED  BY <2>1, <2>2
<1> QED  BY <1>2, <1>3, <1>4 DEF StepsAhead, Ahead

\* The lock word is written at most twice for each increment there is to make.
LEMMA WordBounded ==
  ASSUME IndInv, LiveInv
  PROVE  Newest("locked") \in 0..(2 * (Cardinality(Threads) * Iterations) + 2)
<1> DEFINE all == Cardinality(Threads) * Iterations
           made == Cardinality(Increments)
<1>1. IsFiniteSet(1..Iterations) /\ Cardinality(1..Iterations) = Iterations
  BY FS_Interval, SpinLockAssumption
<1>2. /\ IsFiniteSet(Threads \X (1..Iterations))
      /\ Cardinality(Threads \X (1..Iterations)) = all
  BY <1>1, FS_Product, SpinLockAssumption
<1>3. Increments \subseteq Threads \X (1..Iterations)  BY DEF Increments
<1>4. made <= all /\ made \in Nat /\ all \in Nat
  BY <1>2, <1>3, FS_Subset, FS_CardinalityType
<1>5. Newest("locked") \in {2 * made, 2 * made + 1, 2 * made + 2}
  BY <1>4 DEF LiveInv, LengthInv
<1> HIDE DEF all, made
<1>6. Newest("locked") \in 0..(2 * all + 2)  BY <1>4, <1>5
<1> QED  BY <1>6 DEF all

\* No livelock: every step but a compare-exchange that fails for no reason
\* gets one worker ahead and none back, and there is an end to it.  Spinning
\* changes nothing but a pause that has a longest, so that with
\* SpinLockNeverStuck all workers get the lock as often as they ask for it.
THEOREM SpinLockProgress ==
  Spec => /\ []Bounded
          /\ [][spurious < spurious' \/ (spurious' = spurious /\ StepsAhead)]_vars
<1>1. IndInv /\ LiveInv => Bounded
  <2> SUFFICES ASSUME IndInv, LiveInv, NEW t \in Threads
               PROVE  /\ Rank(t) \in 0..(4 * Iterations + 2)
                      /\ view[t]["locked"] \in
                           0..(2 * (Cardinality(Threads) * Iterations) + 2)
                      /\ backoff[t] \in 0..BACKOFF_MAX
    BY DEF Bounded
  <2>1. Rank(t) \in 0..(4 * Iterations + 2)
    <3>1. /\ done[t] \in Nat /\ done[t] <= Iterations /\ Iterations \in Nat
          /\ pc[t] \in {"tas", "test", "cas", "load", "store"} => done[t] < Iterations
          /\ pc[t] \in States
      BY SpinLockAssumption DEF IndInv, TypeOK, ValueInv
    <3> QED  BY <3>1 DEF Rank, States
  <2>2. /\ view[t]["locked"] \in Nat /\ view[t]["locked"] <= Newest("locked")
        /\ Newest("locked") \in Nat
    BY MemFacts DEF IndInv, BoundInv, Agent, Locs
  <2>3. backoff[t] \in 0..BACKOFF_MAX
    BY SpinLockAssumption DEF IndInv, TypeOK
  <2> DEFINE end == 2 * (Cardinality(Threads) * Iterations) + 2
  <2>4. Newest("locked") \in 0..end /\ end \in Int
    <3>1. Cardinality(Threads) \in Nat /\ Iterations \in Nat
      BY FS_CardinalityType, SpinLockAssumption
    <3>2. end \in Int  BY <3>1
    <3> QED  BY <3>2, WordBounded
  <2> HIDE DEF end
  <2>5. view[t]["locked"] \in 0..end  BY <2>2, <2>4
  <2> QED  BY <2>1, <2>3, <2>5 DEF end
<1>2. IndInv /\ LiveInv /\ [Next]_vars
        => [spurious < spurious' \/ (spurious' = spurious /\ StepsAhead)]_vars
  <2> SUFFICES ASSUME IndInv, LiveInv, Next
               PROVE  \/ spurious < spurious'
                      \/ spurious' = spurious /\ StepsAhead
                      \/ UNCHANGED vars
    OBVIOUS
  <2>1. ASSUME NEW t \in Threads, NEW i \in Readable(t, "locked"),
               Test(t, i) \/ CasFails(t, i)
        PROVE  \/ spurious < spurious'
               \/ spurious' = spurious /\ StepsAhead
               \/ UNCHANGED vars
    <3>1. spurious' = spurious \/ spurious' = spurious + 1
      BY <2>1 DEF Test, CasFails
    <3>2. spurious \in Nat
      BY SpinLockAssumption DEF IndInv, TypeOK
    <3>3. spurious' = spurious \/ spurious < spurious'  BY <3>1, <3>2
    <3> QED  BY <2>1, <3>3, PollAhead
  <2> QED  BY <2>1, LoopAhead DEF Next, Worker, Terminating
<1> QED  BY <1>1, <1>2, LiveInit, LiveNext, SpinLockInvariant, PTL DEF Spec
=============================================================================
