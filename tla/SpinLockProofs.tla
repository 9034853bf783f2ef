--------------------------- MODULE SpinLockProofs ---------------------------
(***************************************************************************)
(* Proofs about the spinlocks of exercise 05 on C11 memory, for any finite *)
(* set of workers, any number of iterations, every kind of lock and any    *)
(* bounds on the backoff.                                                  *)
(***************************************************************************)
EXTENDS SpinLock, FiniteSetTheorems, TLAPS

Agent == Threads \cup {Main}

\* The increments that took effect, as a set, so that they can be counted.
Increments == {p \in Threads \X (1..Iterations) : p[2] <= done[p[1]]}

\* No view reaches past the end of a modification order.
BoundInv ==
  /\ \A l \in Locs : Newest(l) >= 1
  /\ \A a \in Agent, l \in Locs : view[a][l] <= Newest(l)
  /\ \A i \in 1..Newest("locked"), l \in Locs : mem["locked"][i].view[l] <= Newest(l)
  /\ \A i \in 1..Newest("locked") : mem["locked"][i].val \in {0, 1}

\* The lock word is set exactly while some worker is in its critical section.
LockInv == /\ MutualExclusion
           /\ LockFree <=> \A t \in Threads : ~Critical(t)

\* The newest write of the counter is known to the holder of the lock or,
\* when the lock is free, carried by the message that freed it.
HandOverInv ==
  /\ NoDataRace
  /\ LockFree =>
       mem["locked"][Newest("locked")].view["shared_counter"] = Newest("shared_counter")

\* The counter's value is the number of increments.
ValueInv ==
  /\ NewestVal("shared_counter") = Cardinality(Increments)
  /\ \A t \in Threads : pc[t] = "store" => reg[t] = NewestVal("shared_counter")
  /\ \A t \in Threads : pc[t] \in {"tas", "test", "cas", "load", "store"} =>
                          done[t] < Iterations
  /\ \A t \in Threads : pc[t] \in {"done", "joined"} => done[t] = Iterations

\* Somebody knows the newest write, and main knows what joined workers know.
JoinInv ==
  /\ \E a \in Agent : view[a]["shared_counter"] = Newest("shared_counter")
  /\ \A t \in Threads : pc[t] = "joined" =>
       view[t]["shared_counter"] <= view[Main]["shared_counter"]
  /\ main = "joined" => \A t \in Threads : pc[t] = "joined"
  /\ \A t \in Threads : pc[t] = "unborn" => done[t] = 0

IndInv == TypeOK /\ BoundInv /\ LockInv /\ HandOverInv /\ ValueInv /\ JoinInv

-----------------------------------------------------------------------------
\* Facts about the memory.

\* Types of what is read from the memory.
LEMMA MemFacts ==
  ASSUME TypeOK, BoundInv
  PROVE  /\ \A l \in Locs : /\ mem[l] \in Seq(Messages)
                            /\ Newest(l) \in Nat /\ Newest(l) >= 1
                            /\ mem[l][Newest(l)] \in Messages
                            /\ NewestVal(l) \in Nat
         /\ \A a \in Agent : view[a] \in Views
         /\ \A a \in Agent, l \in Locs : view[a][l] \in Nat /\ view[a][l] >= 1
<1>1. \A l \in Locs : mem[l] \in Seq(Messages) /\ Newest(l) \in Nat /\ Newest(l) >= 1
  BY DEF TypeOK, BoundInv, Newest
<1>2. \A l \in Locs : mem[l][Newest(l)] \in Messages
  BY <1>1 DEF Newest
<1>3. \A l \in Locs : NewestVal(l) \in Nat
  BY <1>2 DEF NewestVal, Messages
<1>4. \A a \in Agent : view[a] \in Views  BY DEF TypeOK, Agent
<1>5. \A a \in Agent, l \in Locs : view[a][l] \in Nat /\ view[a][l] >= 1
  BY <1>4 DEF Views
<1> QED  BY <1>1, <1>2, <1>3, <1>4, <1>5

\* A relaxed load of message i.
LEMMA LoadFacts ==
  ASSUME TypeOK, BoundInv, NEW a \in Agent, NEW l \in Locs, NEW i \in Readable(a, l),
         Load(a, l, i, "relaxed")
  PROVE  /\ mem' = mem
         /\ view' \in [Agent -> Views]
         /\ \A b \in Agent \ {a} : view'[b] = view[b]
         /\ view'[a] = [view[a] EXCEPT ![l] = i]
         /\ i \in 1..Newest(l)
<1>1. i \in 1..Newest(l)  BY MemFacts DEF Readable
<1>2. view' = [view EXCEPT ![a] = [view[a] EXCEPT ![l] = i]] /\ mem' = mem
  BY DEF Load, Seen, Acquiring
<1>3. [view[a] EXCEPT ![l] = i] \in Views  BY <1>1, MemFacts DEF Views
<1> QED  BY <1>1, <1>2, <1>3 DEF TypeOK, Agent

\* A new message at the end of l, whatever it carries.
LEMMA AppendFacts ==
  ASSUME TypeOK, BoundInv, NEW a \in Agent, NEW l \in Locs, NEW val \in Nat,
         NEW v \in Views, NEW carried \in Views, NEW order,
         Append1(a, l, val, v, carried, order)
  PROVE  /\ mem' \in [Locs -> Seq(Messages)]
         /\ view' \in [Agent -> Views]
         /\ \A b \in Agent \ {a} : view'[b] = view[b]
         /\ view'[a] = [v EXCEPT ![l] = Newest(l) + 1]
         /\ \A m \in Locs \ {l} : mem'[m] = mem[m]
         /\ Len(mem'[l]) = Newest(l) + 1
         /\ \A i \in 1..Newest(l) : mem'[l][i] = mem[l][i]
         /\ mem'[l][Newest(l) + 1].val = val
         /\ mem'[l][Newest(l) + 1].view =
              IF order \in Releasing THEN [v EXCEPT ![l] = Newest(l) + 1]
              ELSE [carried EXCEPT ![l] = Newest(l) + 1]
<1> DEFINE w == [v EXCEPT ![l] = Newest(l) + 1]
           c == [carried EXCEPT ![l] = Newest(l) + 1]
           m == [val |-> val, view |-> IF order \in Releasing THEN w ELSE c]
<1>1. Newest(l) + 1 \in Nat \ {0}  BY MemFacts
<1>2. w \in Views /\ c \in Views  BY <1>1 DEF Views
<1>3. m \in Messages  BY <1>2 DEF Messages
<1>4. mem' = [mem EXCEPT ![l] = Append(@, m)] /\ view' = [view EXCEPT ![a] = w]
  BY DEF Append1
<1>5. mem \in [Locs -> Seq(Messages)] /\ view \in [Agent -> Views]
  BY DEF TypeOK, Agent
<1> HIDE DEF w, c, m
<1>6. mem'[l] = Append(mem[l], m) /\ \A k \in Locs \ {l} : mem'[k] = mem[k]
  BY <1>4, <1>5
<1>7. /\ Append(mem[l], m) \in Seq(Messages)
      /\ Len(Append(mem[l], m)) = Newest(l) + 1
      /\ \A i \in 1..Newest(l) : Append(mem[l], m)[i] = mem[l][i]
      /\ Append(mem[l], m)[Newest(l) + 1] = m
  BY <1>3, <1>5 DEF Newest
<1>8. mem' \in [Locs -> Seq(Messages)]  BY <1>4, <1>5, <1>7
<1>9. m.val = val /\ m.view = IF order \in Releasing THEN w ELSE c  BY DEF m
<1>10. view' \in [Agent -> Views] /\ view'[a] = w
       /\ \A b \in Agent \ {a} : view'[b] = view[b]
  BY <1>2, <1>4, <1>5
<1> QED  BY <1>6, <1>7, <1>8, <1>9, <1>10 DEF w, c

\* The bounds survive a new message whose views respect them.
LEMMA AppendBound ==
  ASSUME TypeOK, BoundInv, NEW a \in Agent, NEW l \in Locs, NEW val \in Nat,
         NEW v \in Views, NEW carried \in Views, NEW order,
         Append1(a, l, val, v, carried, order),
         \A k \in Locs : v[k] <= Newest(k) /\ carried[k] <= Newest(k),
         l = "locked" => val \in {0, 1}
  PROVE  BoundInv'
<1>0. \A k \in Locs : Newest(k) \in Nat /\ Newest(k) >= 1  BY MemFacts
<1>a. /\ \A b \in Agent \ {a} : view'[b] = view[b]
      /\ view'[a] = [v EXCEPT ![l] = Newest(l) + 1]
      /\ \A m \in Locs \ {l} : mem'[m] = mem[m]
      /\ Len(mem'[l]) = Newest(l) + 1
      /\ \A i \in 1..Newest(l) : mem'[l][i] = mem[l][i]
      /\ mem'[l][Newest(l) + 1].val = val
      /\ \/ mem'[l][Newest(l) + 1].view = [v EXCEPT ![l] = Newest(l) + 1]
         \/ mem'[l][Newest(l) + 1].view = [carried EXCEPT ![l] = Newest(l) + 1]
  BY AppendFacts
<1>1. Newest(l)' = Newest(l) + 1 /\ \A k \in Locs \ {l} : Newest(k)' = Newest(k)
  BY <1>a DEF Newest
<1>2. \A b \in Agent, k \in Locs : view'[b][k] <= Newest(k)'
  <2> TAKE b \in Agent, k \in Locs
  <2>1. CASE b = a
    <3>1. view'[b][k] = IF k = l THEN Newest(l) + 1 ELSE v[k]
      BY <2>1, <1>a DEF Views
    <3> QED  BY <3>1, <1>0, <1>1
  <2>2. CASE b # a
    <3>1. view'[b] = view[b] /\ view[b][k] <= Newest(k) /\ view[b][k] \in Nat
      BY <2>2, <1>a, MemFacts DEF BoundInv
    <3> QED  BY <3>1, <1>0, <1>1
  <2> QED  BY <2>1, <2>2
<1>3. ASSUME NEW i \in 1..Newest("locked")', NEW k \in Locs
      PROVE  /\ mem'["locked"][i].view[k] <= Newest(k)'
             /\ mem'["locked"][i].val \in {0, 1}
  <2>0. "locked" \in Locs  BY DEF Locs
  <2>1. CASE i \in 1..Newest("locked")
    <3>1. mem'["locked"][i] = mem["locked"][i]  BY <2>0, <2>1, <1>a
    <3>2. mem["locked"][i] \in Messages  BY <2>0, <2>1 DEF TypeOK, Newest
    <3>3. mem["locked"][i].view[k] \in Nat  BY <3>2 DEF Messages, Views
    <3>4. mem["locked"][i].view[k] <= Newest(k) /\ mem["locked"][i].val \in {0, 1}
      BY <2>1 DEF BoundInv
    <3> QED  BY <3>1, <3>3, <3>4, <1>0, <1>1
  <2>2. CASE l = "locked" /\ i = Newest("locked") + 1
    <3> DEFINE w == mem'["locked"][i].view
    <3>1. w = [v EXCEPT ![l] = Newest(l) + 1] \/ w = [carried EXCEPT ![l] = Newest(l) + 1]
      BY <2>2, <1>a
    <3>2. w[k] = IF k = l THEN Newest(l) + 1 ELSE w[k]
      BY <3>1 DEF Views
    <3>3. k # l => w[k] = v[k] \/ w[k] = carried[k]  BY <3>1 DEF Views
    <3>4. mem'["locked"][i].val \in {0, 1}  BY <2>2, <1>a
    <3> HIDE DEF w
    <3>5. w[k] <= Newest(k)'  BY <3>2, <3>3, <1>0, <1>1
    <3> QED  BY <3>4, <3>5 DEF w
  <2> QED  BY <2>0, <2>1, <2>2, <1>0, <1>1
<1>4. \A k \in Locs : Newest(k)' >= 1  BY <1>0, <1>1
<1> QED  BY <1>2, <1>3, <1>4 DEF BoundInv

\* A store by a thread whose view is current: what AppendFacts and
\* AppendBound say of it.
LEMMA StoreFacts ==
  ASSUME TypeOK, BoundInv, NEW a \in Agent, NEW l \in Locs, NEW val \in Nat,
         NEW order, Store(a, l, val, order), l = "locked" => val \in {0, 1}
  PROVE  /\ BoundInv'
         /\ mem' \in [Locs -> Seq(Messages)]
         /\ view' \in [Agent -> Views]
         /\ \A b \in Agent \ {a} : view'[b] = view[b]
         /\ view'[a][l] = Newest(l) + 1
         /\ \A m \in Locs \ {l} : view'[a][m] = view[a][m]
         /\ \A m \in Locs \ {l} : mem'[m] = mem[m]
         /\ Len(mem'[l]) = Newest(l) + 1
         /\ mem'[l][Newest(l) + 1].val = val
         /\ order \in Releasing => mem'[l][Newest(l) + 1].view = view'[a]
<1> DEFINE v == view[a]
           bot == Bottom
<1>1. v \in Views /\ \A m \in Locs : v[m] <= Newest(m)  BY MemFacts DEF BoundInv
<1>2. bot \in Views /\ \A m \in Locs : bot[m] <= Newest(m)
  BY MemFacts DEF Bottom, Views
<1>3. Append1(a, l, val, v, bot, order)  BY DEF Store
<1> HIDE DEF v, bot
<1>4. BoundInv'  BY <1>1, <1>2, <1>3, AppendBound
<1>5. /\ mem' \in [Locs -> Seq(Messages)]
      /\ view' \in [Agent -> Views]
      /\ \A b \in Agent \ {a} : view'[b] = view[b]
      /\ view'[a] = [v EXCEPT ![l] = Newest(l) + 1]
      /\ \A m \in Locs \ {l} : mem'[m] = mem[m]
      /\ Len(mem'[l]) = Newest(l) + 1
      /\ mem'[l][Newest(l) + 1].val = val
      /\ mem'[l][Newest(l) + 1].view =
           IF order \in Releasing THEN [v EXCEPT ![l] = Newest(l) + 1]
           ELSE [bot EXCEPT ![l] = Newest(l) + 1]
  BY <1>1, <1>2, <1>3, AppendFacts
<1>6. view'[a][l] = Newest(l) + 1 /\ \A m \in Locs \ {l} : view'[a][m] = v[m]
  BY <1>1, <1>5 DEF Views
<1> QED  BY <1>4, <1>5, <1>6 DEF v

-----------------------------------------------------------------------------
\* One lemma per kind of step.

\* A successful test-and-set or compare-exchange: the taker's view takes in
\* the counter's newest write from the message that freed the lock.
LEMMA TakeLock ==
  ASSUME IndInv, NEW t \in Threads, pc[t] \in {"tas", "cas"}, LockFree,
         Update(t, "locked", 1, AcquireOrder),
         pc' = [pc EXCEPT ![t] = "load"],
         UNCHANGED <<kind, done, reg, backoff, spurious, main>>
  PROVE  IndInv'
<1> DEFINE n == Newest("locked")
           k == Newest("shared_counter")
           lv == mem["locked"][n].view
           v == Merge([view[t] EXCEPT !["locked"] = n], lv)
<1> USE DEF IndInv
<1>0. t \in Agent /\ {"locked", "shared_counter"} = Locs /\ Main \in Agent
  BY DEF Agent, Locs
<1>1. /\ n \in Nat /\ k \in Nat /\ n >= 1 /\ k >= 1
      /\ lv \in Views /\ lv["shared_counter"] = k /\ lv["locked"] <= n
      /\ view[t] \in Views /\ view[t]["shared_counter"] <= k
  BY <1>0, MemFacts DEF HandOverInv, BoundInv, Messages
<1>2. v \in Views /\ v["shared_counter"] = k /\ v["locked"] = n
  BY <1>0, <1>1 DEF Merge, Views
<1>3. Append1(t, "locked", 1, v, lv, "acquire")
  BY DEF Update, Seen, AcquireOrder, Acquiring
<1> HIDE DEF v, lv
<1>4. /\ mem' \in [Locs -> Seq(Messages)] /\ view' \in [Agent -> Views]
      /\ \A b \in Agent \ {t} : view'[b] = view[b]
      /\ view'[t] = [v EXCEPT !["locked"] = n + 1]
      /\ mem'["shared_counter"] = mem["shared_counter"]
      /\ Len(mem'["locked"]) = n + 1
      /\ \A i \in 1..n : mem'["locked"][i] = mem["locked"][i]
      /\ mem'["locked"][n + 1].val = 1
      /\ mem'["locked"][n + 1].view = [lv EXCEPT !["locked"] = n + 1]
  <2>1. "acquire" \notin Releasing  BY DEF Releasing
  <2> QED  BY <1>0, <1>1, <1>2, <1>3, <2>1, AppendFacts
<1>5. /\ Newest("locked")' = n + 1 /\ Newest("shared_counter")' = k
      /\ NewestVal("locked")' = 1
      /\ NewestVal("shared_counter")' = NewestVal("shared_counter")
  BY <1>4 DEF Newest, NewestVal
<1>6. /\ view'[t]["shared_counter"] = k /\ view'[t]["locked"] = n + 1
      /\ mem'["locked"][n + 1].view["shared_counter"] = k
      /\ mem'["locked"][n + 1].view["locked"] = n + 1
  BY <1>0, <1>1, <1>2, <1>4 DEF Views
<1> HIDE DEF n, k
<1>7. TypeOK'
  BY <1>4 DEF TypeOK, States, Agent
<1>8. BoundInv'
  <2>1. \A l \in Locs : v[l] <= Newest(l) /\ lv[l] <= Newest(l)
    BY <1>0, <1>1, <1>2 DEF n, k
  <2> QED  BY <2>1, <1>0, <1>1, <1>2, <1>3, AppendBound
<1>9. LockInv'
  BY <1>5 DEF TypeOK, LockInv, MutualExclusion, LockFree, Critical
<1>10. HandOverInv'
  BY <1>0, <1>5, <1>6 DEF TypeOK, HandOverInv, NoDataRace, LockInv, LockFree,
     Critical, Races, k
<1>11. ValueInv'
  <2>1. Increments' = Increments  BY DEF Increments
  <2> QED  BY <2>1, <1>5 DEF ValueInv, TypeOK
<1>12. JoinInv'
  <2>1. view'[t]["shared_counter"] = Newest("shared_counter")'
    BY <1>5, <1>6
  <2>2. \A u \in Threads : pc'[u] = "joined" => u # t /\ pc[u] = "joined"
    BY DEF TypeOK
  <2>3. view'[Main] = view[Main]  BY <1>0, <1>4, SpinLockAssumption
  <2>4. \A u \in Threads : u # t => view'[u] = view[u]  BY <1>4 DEF Agent
  <2> QED  BY <1>0, <2>1, <2>2, <2>3, <2>4 DEF JoinInv, TypeOK
<1> QED  BY <1>7, <1>8, <1>9, <1>10, <1>11, <1>12

\* Reading the lock word without taking it.
LEMMA Poll ==
  ASSUME IndInv, NEW t \in Threads, NEW i \in Readable(t, "locked"),
         Load(t, "locked", i, "relaxed"),
         pc[t] \in {"test", "cas"}, NEW p \in {"test", "cas"},
         pc' = [pc EXCEPT ![t] = p],
         backoff' \in [Threads -> BACKOFF_MIN..BACKOFF_MAX],
         spurious' \in 0..MaxSpurious,
         UNCHANGED <<kind, done, reg, main>>
  PROVE  IndInv'
<1> USE DEF IndInv
<1>0. t \in Agent /\ {"locked", "shared_counter"} = Locs /\ Main \in Agent
  BY DEF Agent, Locs
<1>1. /\ mem' = mem /\ view' \in [Agent -> Views] /\ i \in 1..Newest("locked")
      /\ \A b \in Agent \ {t} : view'[b] = view[b]
      /\ view'[t] = [view[t] EXCEPT !["locked"] = i]
  BY <1>0, LoadFacts
<1>2. /\ \A b \in Agent : view'[b]["shared_counter"] = view[b]["shared_counter"]
      /\ \A b \in Agent \ {t} : view'[b]["locked"] = view[b]["locked"]
      /\ view'[t]["locked"] = i
  BY <1>0, <1>1, MemFacts DEF Views
<1>3. \A l \in Locs : Newest(l)' = Newest(l) /\ NewestVal(l)' = NewestVal(l)
  BY <1>1 DEF Newest, NewestVal
<1>4. TypeOK'  BY <1>1 DEF TypeOK, States, Agent
<1>5. BoundInv'
  <2>1. \A a \in Agent, l \in Locs : view'[a][l] <= Newest(l)'
    <3> TAKE a \in Agent, l \in Locs
    <3>1. CASE a = t /\ l = "locked"  BY <3>1, <1>0, <1>1, <1>2, <1>3, MemFacts
    <3>2. CASE a # t \/ l # "locked"
      <4>1. view'[a][l] = view[a][l]  BY <3>2, <1>0, <1>2
      <4> QED  BY <4>1, <1>3 DEF BoundInv
    <3> QED  BY <3>1, <3>2
  <2> QED  BY <2>1, <1>1, <1>3, <1>0 DEF BoundInv
<1>6. \A u \in Threads : Critical(u)' <=> Critical(u)  BY DEF Critical, TypeOK
<1>7. LockInv'
  BY <1>0, <1>3, <1>6 DEF LockInv, MutualExclusion, LockFree
<1>8. HandOverInv'
  BY <1>0, <1>1, <1>2, <1>3, <1>6 DEF HandOverInv, NoDataRace, LockFree, Races, Agent
<1>9. ValueInv'
  <2>1. Increments' = Increments  BY DEF Increments
  <2> QED  BY <2>1, <1>0, <1>3 DEF ValueInv, TypeOK
<1>10. JoinInv'
  BY <1>0, <1>2, <1>3 DEF JoinInv, TypeOK, Agent
<1> QED  BY <1>4, <1>5, <1>7, <1>8, <1>9, <1>10

\* Under the lock the counter is read without a race.
LEMMA LoadCounterStep ==
  ASSUME IndInv, NEW t \in Threads, NEW i \in Readable(t, "shared_counter"),
         LoadCounter(t, i)
  PROVE  IndInv'
<1> USE DEF IndInv
<1>0. t \in Agent /\ {"locked", "shared_counter"} = Locs /\ Main \in Agent
  BY DEF Agent, Locs
<1>1. /\ mem' = mem /\ view' \in [Agent -> Views]
      /\ \A b \in Agent \ {t} : view'[b] = view[b]
      /\ view'[t] = [view[t] EXCEPT !["shared_counter"] = i]
  BY <1>0, LoadFacts DEF LoadCounter, PlainLoad
<1>2. i = Newest("shared_counter") /\ view[t]["shared_counter"] = i
  <2>1. view[t]["shared_counter"] = Newest("shared_counter")
    BY DEF LoadCounter, HandOverInv, NoDataRace, Races, Critical
  <2> QED  BY <2>1, <1>0, MemFacts DEF Readable
<1>3. view' = view
  <2>1. view'[t] = view[t]  BY <1>0, <1>1, <1>2, MemFacts DEF Views
  <2>2. \A b \in Agent : view'[b] = view[b]  BY <2>1, <1>1
  <2>3. view \in [Agent -> Views]  BY DEF TypeOK, Agent
  <2> QED  BY <2>2, <2>3, <1>1
<1>4. \A l \in Locs : Newest(l)' = Newest(l) /\ NewestVal(l)' = NewestVal(l)
  BY <1>1 DEF Newest, NewestVal
<1>5. reg' = [reg EXCEPT ![t] = NewestVal("shared_counter")]
  BY <1>2 DEF LoadCounter, NewestVal
<1>6. /\ pc' = [pc EXCEPT ![t] = "store"] /\ pc[t] = "load"
      /\ UNCHANGED <<kind, done, backoff, spurious, main>>
  BY DEF LoadCounter
<1>7. TypeOK'
  BY <1>0, <1>1, <1>3, <1>5, <1>6, MemFacts DEF TypeOK, States
<1>8. BoundInv'  BY <1>0, <1>1, <1>3, <1>4 DEF BoundInv
<1>9. \A u \in Threads : Critical(u)' <=> Critical(u)
  BY <1>6 DEF Critical, TypeOK
<1>10. LockInv'  BY <1>0, <1>4, <1>9 DEF LockInv, MutualExclusion, LockFree
<1>11. HandOverInv'
  BY <1>0, <1>1, <1>3, <1>4, <1>9 DEF HandOverInv, NoDataRace, LockFree, Races
<1>12. ValueInv'
  <2>1. Increments' = Increments  BY <1>6 DEF Increments
  <2> QED  BY <2>1, <1>0, <1>4, <1>5, <1>6 DEF ValueInv, TypeOK
<1>13. JoinInv'  BY <1>0, <1>3, <1>4, <1>6 DEF JoinInv, TypeOK
<1> QED  BY <1>7, <1>8, <1>10, <1>11, <1>12, <1>13

\* One more increment: the counter's value keeps up with their number.
LEMMA OneMoreIncrement ==
  ASSUME IndInv, NEW t \in Threads, done[t] < Iterations,
         done' = [done EXCEPT ![t] = @ + 1]
  PROVE  Cardinality(Increments') = Cardinality(Increments) + 1
<1> DEFINE new == <<t, done[t] + 1>>
<1>1. done[t] \in Nat /\ Iterations \in Nat
  BY SpinLockAssumption DEF IndInv, TypeOK
<1>2. new \in Threads \X (1..Iterations)  BY <1>1
<1>3. new \notin Increments  BY <1>1 DEF Increments
<1>4. Increments' = Increments \cup {new}
  <2>1. ASSUME NEW q \in Threads \X (1..Iterations)
        PROVE  q[2] <= done'[q[1]] <=> q[2] <= done[q[1]] \/ q = new
    <3>1. q[1] \in Threads /\ q[2] \in 1..Iterations /\ q = <<q[1], q[2]>>
      OBVIOUS
    <3>2. CASE q[1] = t
      BY <3>1, <3>2, <1>1 DEF IndInv, TypeOK
    <3>3. CASE q[1] # t
      BY <3>1, <3>3 DEF IndInv, TypeOK
    <3> QED  BY <3>2, <3>3
  <2> QED  BY <2>1, <1>2 DEF Increments
<1>5. IsFiniteSet(Threads \X (1..Iterations))
  <2>1. IsFiniteSet(1..Iterations)  BY <1>1, FS_Interval
  <2>2. IsFiniteSet(Threads)  BY SpinLockAssumption
  <2> QED  BY <2>1, <2>2, FS_Product
<1>6. IsFiniteSet(Increments)
  BY <1>5, FS_Subset DEF Increments
<1> QED  BY <1>3, <1>4, <1>6, FS_AddElement

\* The increment is stored: the holder alone writes and knows of it.
LEMMA StoreCounterStep ==
  ASSUME IndInv, NEW t \in Threads, StoreCounter(t) PROVE IndInv'
<1> DEFINE n == Newest("locked")
           k == Newest("shared_counter")
<1> USE DEF IndInv
<1>0. t \in Agent /\ {"locked", "shared_counter"} = Locs /\ Main \in Agent
  BY DEF Agent, Locs
<1>1. /\ pc[t] = "store" /\ pc' = [pc EXCEPT ![t] = "unlock"]
      /\ done' = [done EXCEPT ![t] = @ + 1]
      /\ UNCHANGED <<kind, reg, backoff, spurious, main>>
      /\ reg[t] = NewestVal("shared_counter") /\ done[t] < Iterations
  BY DEF StoreCounter, ValueInv
<1>2. /\ n \in Nat /\ k \in Nat /\ n >= 1 /\ k >= 1
      /\ reg[t] \in Nat /\ reg[t] + 1 \in Nat
      /\ "shared_counter" \in Locs
  BY <1>0, <1>1, MemFacts
<1>3. Store(t, "shared_counter", reg[t] + 1, "relaxed")
  BY DEF StoreCounter, PlainStore
<1>4. /\ BoundInv'
      /\ mem' \in [Locs -> Seq(Messages)] /\ view' \in [Agent -> Views]
      /\ \A b \in Agent \ {t} : view'[b] = view[b]
      /\ view'[t]["shared_counter"] = k + 1
      /\ \A m \in Locs \ {"shared_counter"} : mem'[m] = mem[m]
      /\ Len(mem'["shared_counter"]) = k + 1
      /\ mem'["shared_counter"][k + 1].val = reg[t] + 1
  BY <1>0, <1>2, <1>3, StoreFacts
<1>5. mem'["locked"] = mem["locked"]  BY <1>0, <1>4
<1>6. /\ Newest("locked")' = n /\ Newest("shared_counter")' = k + 1
      /\ NewestVal("locked")' = NewestVal("locked")
      /\ NewestVal("shared_counter")' = NewestVal("shared_counter") + 1
  BY <1>1, <1>4, <1>5 DEF Newest, NewestVal
<1>8. TypeOK'
  <2>1. done' \in [Threads -> 0..Iterations]
    BY <1>1, SpinLockAssumption DEF TypeOK
  <2> QED  BY <1>1, <1>4, <2>1 DEF TypeOK, States, Agent
<1>9. \A u \in Threads : Critical(u)' <=> Critical(u)
  BY <1>1 DEF Critical, TypeOK
<1>10. Critical(t) /\ \A u \in Threads : Critical(u) => u = t
  BY <1>1 DEF Critical, LockInv, MutualExclusion
<1>11. LockInv'  BY <1>6, <1>9 DEF LockInv, MutualExclusion, LockFree
<1>12. ~LockFree'  BY <1>9, <1>10, <1>11 DEF LockInv
<1>13. HandOverInv'
  BY <1>4, <1>6, <1>9, <1>10, <1>12 DEF HandOverInv, NoDataRace, Races
<1>14. ValueInv'
  <2>1. NewestVal("shared_counter")' = Cardinality(Increments)'
    BY <1>1, <1>6, OneMoreIncrement DEF ValueInv
  <2>2. \A u \in Threads : pc'[u] # "store"
    BY <1>1, <1>10 DEF Critical, TypeOK
  <2> QED  BY <2>1, <2>2, <1>1 DEF ValueInv, TypeOK
<1>15. JoinInv'
  <2>1. \E a \in Agent : view'[a]["shared_counter"] = Newest("shared_counter")'
    BY <1>0, <1>4, <1>6
  <2>2. \A u \in Threads : pc'[u] = "joined" => u # t /\ pc[u] = "joined"
    BY <1>1 DEF TypeOK
  <2>3. view'[Main] = view[Main]  BY <1>0, <1>4, SpinLockAssumption
  <2>4. \A u \in Threads : u # t => view'[u] = view[u]  BY <1>4 DEF Agent
  <2> QED  BY <1>1, <2>1, <2>2, <2>3, <2>4 DEF JoinInv, TypeOK
<1> QED  BY <1>4, <1>8, <1>11, <1>13, <1>14, <1>15

\* The release store hands the holder's view to the next taker.
LEMMA UnlockStep ==
  ASSUME IndInv, NEW t \in Threads, Unlock(t) PROVE IndInv'
<1> DEFINE n == Newest("locked")
           k == Newest("shared_counter")
<1> USE DEF IndInv
<1>0. t \in Agent /\ {"locked", "shared_counter"} = Locs /\ Main \in Agent
  BY DEF Agent, Locs
<1>1. /\ pc[t] = "unlock" /\ pc' = [pc EXCEPT ![t] = LoopAt(done[t])]
      /\ backoff' = [backoff EXCEPT ![t] = BACKOFF_MIN]
      /\ UNCHANGED <<kind, done, reg, spurious, main>>
  BY DEF Unlock
<1>2. /\ n \in Nat /\ k \in Nat /\ n >= 1 /\ k >= 1
      /\ view[t]["shared_counter"] = k
      /\ "locked" \in Locs
  BY <1>0, <1>1, MemFacts DEF HandOverInv, NoDataRace, Races, Critical
<1>3. Store(t, "locked", 0, "release") /\ "release" \in Releasing
  BY DEF Unlock, ReleaseOrder, Releasing
<1>4. /\ BoundInv'
      /\ mem' \in [Locs -> Seq(Messages)] /\ view' \in [Agent -> Views]
      /\ \A b \in Agent \ {t} : view'[b] = view[b]
      /\ \A m \in Locs \ {"locked"} : view'[t][m] = view[t][m]
      /\ \A m \in Locs \ {"locked"} : mem'[m] = mem[m]
      /\ Len(mem'["locked"]) = n + 1
      /\ mem'["locked"][n + 1].val = 0
      /\ mem'["locked"][n + 1].view = view'[t]
  BY <1>0, <1>2, <1>3, StoreFacts
<1>5. mem'["shared_counter"] = mem["shared_counter"]
  BY <1>0, <1>4
<1>6. /\ Newest("locked")' = n + 1 /\ Newest("shared_counter")' = k
      /\ NewestVal("locked")' = 0
      /\ NewestVal("shared_counter")' = NewestVal("shared_counter")
  BY <1>4, <1>5 DEF Newest, NewestVal
<1>7. /\ mem'["locked"][n + 1].view["shared_counter"] = k
      /\ \A b \in Agent : view'[b]["shared_counter"] = view[b]["shared_counter"]
  BY <1>0, <1>2, <1>4
<1>8. LoopAt(done[t]) \in {"tas", "test", "done"}  BY DEF LoopAt, Acquire
<1>9. TypeOK'
  <2>1. backoff' \in [Threads -> BACKOFF_MIN..BACKOFF_MAX]
    BY <1>1, SpinLockAssumption DEF TypeOK
  <2>2. pc' \in [Threads -> States]  BY <1>1, <1>8 DEF TypeOK, States
  <2> QED  BY <1>1, <1>4, <2>1, <2>2 DEF TypeOK, Agent
<1>10. \A u \in Threads : ~Critical(u)'
  <2>1. \A u \in Threads : Critical(u) => u = t
    BY <1>1 DEF Critical, LockInv, MutualExclusion
  <2> QED  BY <2>1, <1>1, <1>8 DEF Critical, TypeOK
<1>11. LockInv'  BY <1>6, <1>10 DEF LockInv, MutualExclusion, LockFree
<1>12. HandOverInv'  BY <1>6, <1>7, <1>10 DEF HandOverInv, NoDataRace
<1>13. ValueInv'
  <2>1. Increments' = Increments  BY <1>1 DEF Increments
  <2>2. \A u \in Threads : pc'[u] # "store"  BY <1>10 DEF Critical
  <2>3. /\ pc'[t] \in {"tas", "test"} => done[t] < Iterations
        /\ pc'[t] \notin {"cas", "load", "store", "joined"}
        /\ pc'[t] = "done" => done[t] = Iterations
    BY <1>1, <1>8, SpinLockAssumption DEF LoopAt, Acquire, TypeOK
  <2>4. \A u \in Threads \ {t} : pc'[u] = pc[u]  BY <1>1 DEF TypeOK
  <2> QED  BY <2>1, <2>2, <2>3, <2>4, <1>1, <1>6 DEF ValueInv
<1>14. JoinInv'
  <2>1. \E a \in Agent : view'[a]["shared_counter"] = Newest("shared_counter")'
    BY <1>6, <1>7 DEF JoinInv
  <2>2. \A u \in Threads : pc'[u] \in {"joined", "unborn"} => pc'[u] = pc[u]
    BY <1>1, <1>8 DEF TypeOK
  <2>3. main' # "joined"  BY <1>1 DEF JoinInv
  <2> QED  BY <1>0, <1>1, <1>7, <2>1, <2>2, <2>3 DEF JoinInv, Agent
<1> QED  BY <1>4, <1>9, <1>11, <1>12, <1>13, <1>14

\* pthread_create and pthread_join: a gains what b knows, memory is as it was.
LEMMA SyncFacts ==
  ASSUME TypeOK, BoundInv, NEW a \in Agent, NEW b \in Agent,
         view' = [view EXCEPT ![a] = Merge(@, view[b])], mem' = mem
  PROVE  /\ BoundInv'
         /\ view' \in [Agent -> Views]
         /\ \A c \in Agent \ {a} : view'[c] = view[c]
         /\ \A l \in Locs : /\ view'[a][l] \in Nat /\ view'[a][l] <= Newest(l)
                            /\ view[a][l] <= view'[a][l] /\ view[b][l] <= view'[a][l]
         /\ \A l \in Locs : Newest(l)' = Newest(l) /\ NewestVal(l)' = NewestVal(l)
<1>1. \A l \in Locs : Newest(l)' = Newest(l) /\ NewestVal(l)' = NewestVal(l)
  BY DEF Newest, NewestVal
<1>2. \A c \in Agent, l \in Locs :
        view[c] \in Views /\ view[c][l] \in Nat /\ view[c][l] <= Newest(l)
        /\ Newest(l) \in Nat
  BY MemFacts DEF BoundInv
<1>3. Merge(view[a], view[b]) \in Views  BY <1>2 DEF Merge, Views
<1>4. view' = [view EXCEPT ![a] = Merge(view[a], view[b])]
      /\ view \in [Agent -> Views]
  BY DEF TypeOK, Agent
<1>5. /\ view' \in [Agent -> Views] /\ view'[a] = Merge(view[a], view[b])
      /\ \A c \in Agent \ {a} : view'[c] = view[c]
  BY <1>3, <1>4
<1>6. \A l \in Locs : /\ view'[a][l] \in Nat /\ view'[a][l] <= Newest(l)
                      /\ view[a][l] <= view'[a][l] /\ view[b][l] <= view'[a][l]
  BY <1>2, <1>5 DEF Merge
<1>7. \A c \in Agent, l \in Locs : view'[c][l] <= Newest(l)'
  <2> TAKE c \in Agent, l \in Locs
  <2>1. CASE c = a  BY <2>1, <1>1, <1>6
  <2>2. CASE c # a  BY <2>2, <1>1, <1>2, <1>5
  <2> QED  BY <2>1, <2>2
<1>8. BoundInv'
  <2>1. "locked" \in Locs  BY DEF Locs
  <2> QED  BY <1>1, <1>7, <2>1 DEF BoundInv
<1> QED  BY <1>1, <1>5, <1>6, <1>8

\* What every step that leaves memory and the critical sections alone keeps.
LEMMA QuietStep ==
  ASSUME IndInv, mem' = mem, done' = done,
         \A l \in Locs : Newest(l)' = Newest(l) /\ NewestVal(l)' = NewestVal(l),
         \A u \in Threads : Critical(u)' <=> Critical(u),
         \A u \in Threads : Critical(u) =>
            view'[u]["shared_counter"] = view[u]["shared_counter"]
  PROVE  LockInv' /\ HandOverInv' /\ Increments' = Increments
<1> USE DEF IndInv
<1>0. {"locked", "shared_counter"} = Locs  BY DEF Locs
<1>1. LockInv'  BY <1>0 DEF LockInv, MutualExclusion, LockFree
<1>2. HandOverInv'  BY <1>0 DEF HandOverInv, NoDataRace, LockFree, Races
<1> QED  BY <1>1, <1>2 DEF Increments

\* Creating a worker: it starts with what main knows.
LEMMA CreateStep == ASSUME IndInv, NEW t \in Threads, Create(t) PROVE IndInv'
<1> USE DEF IndInv
<1>0. t \in Agent /\ {"locked", "shared_counter"} = Locs /\ Main \in Agent /\ t # Main
  BY SpinLockAssumption DEF Agent, Locs
<1>1. /\ pc[t] = "unborn" /\ main = "create" /\ main' \in {"create", "join"}
      /\ pc' = [pc EXCEPT ![t] = LoopAt(0)]
      /\ UNCHANGED <<kind, mem, done, reg, backoff, spurious>>
      /\ view' = [view EXCEPT ![t] = Merge(@, view[Main])]
  BY DEF Create, Fork
<1>2. /\ BoundInv' /\ view' \in [Agent -> Views]
      /\ \A c \in Agent \ {t} : view'[c] = view[c]
      /\ \A l \in Locs : /\ view'[t][l] \in Nat /\ view'[t][l] <= Newest(l)
                         /\ view[t][l] <= view'[t][l]
      /\ \A l \in Locs : Newest(l)' = Newest(l) /\ NewestVal(l)' = NewestVal(l)
  BY <1>0, <1>1, SyncFacts
<1>3. /\ LoopAt(0) \in {"tas", "test"} => 0 < Iterations
      /\ LoopAt(0) = "done" => Iterations = 0
      /\ LoopAt(0) \in {"tas", "test", "done"}
  BY SpinLockAssumption DEF LoopAt, Acquire
<1>4. TypeOK'
  <2>1. pc' \in [Threads -> States]  BY <1>1, <1>3 DEF TypeOK, States
  <2> QED  BY <1>1, <1>2, <2>1 DEF TypeOK, Agent
<1>5. \A u \in Threads : Critical(u)' <=> Critical(u)
  BY <1>1, <1>3 DEF Critical, TypeOK
<1>6. LockInv' /\ HandOverInv' /\ Increments' = Increments
  <2>1. \A u \in Threads : Critical(u) => view'[u] = view[u]
    BY <1>0, <1>1, <1>2 DEF Critical, Agent
  <2> QED  BY <2>1, <1>1, <1>2, <1>5, QuietStep
<1>7. \A u \in Threads \ {t} : pc'[u] = pc[u]  BY <1>1 DEF TypeOK
<1>8. pc'[t] = LoopAt(0) /\ done[t] = 0  BY <1>1 DEF TypeOK, JoinInv
<1>9. ValueInv'
  BY <1>0, <1>1, <1>2, <1>3, <1>6, <1>7, <1>8 DEF ValueInv
<1>10. JoinInv'
  <2>1. \E a \in Agent : view'[a]["shared_counter"] = Newest("shared_counter")'
    <3>1. PICK a \in Agent : view[a]["shared_counter"] = Newest("shared_counter")
      BY DEF JoinInv
    <3>2. view'[a]["shared_counter"] = Newest("shared_counter")
      <4>1. CASE a = t  BY <4>1, <3>1, <1>0, <1>2, MemFacts
      <4>2. CASE a # t  BY <4>2, <3>1, <1>2
      <4> QED  BY <4>1, <4>2
    <3> QED  BY <3>2, <1>0, <1>2
  <2>2. \A u \in Threads : u # t => view'[u] = view[u]  BY <1>2 DEF Agent
  <2>3. view'[Main] = view[Main]  BY <1>0, <1>2
  <2>4. \A u \in Threads : pc'[u] = "joined" =>
          view'[u]["shared_counter"] <= view'[Main]["shared_counter"]
    BY <1>3, <1>7, <1>8, <2>2, <2>3 DEF JoinInv
  <2>5. \A u \in Threads : pc'[u] = "unborn" => done'[u] = 0
    BY <1>1, <1>7, <1>8 DEF JoinInv
  <2> QED  BY <2>1, <2>4, <2>5, <1>1 DEF JoinInv
<1> QED  BY <1>2, <1>4, <1>6, <1>9, <1>10

\* Joining a worker: main learns what it knew.
LEMMA JoinStep == ASSUME IndInv, NEW t \in Threads, Join(t) PROVE IndInv'
<1> USE DEF IndInv
<1>0. t \in Agent /\ {"locked", "shared_counter"} = Locs /\ Main \in Agent /\ t # Main
  BY SpinLockAssumption DEF Agent, Locs
<1>1. /\ pc[t] = "done" /\ pc' = [pc EXCEPT ![t] = "joined"]
      /\ main' \in {"join", "joined"}
      /\ main' = "joined" => \A u \in Threads \ {t} : pc[u] = "joined"
      /\ UNCHANGED <<kind, mem, done, reg, backoff, spurious>>
      /\ view' = [view EXCEPT ![Main] = Merge(@, view[t])]
  BY DEF Join, Await
<1>2. /\ BoundInv' /\ view' \in [Agent -> Views]
      /\ \A c \in Agent \ {Main} : view'[c] = view[c]
      /\ \A l \in Locs : /\ view'[Main][l] \in Nat /\ view'[Main][l] <= Newest(l)
                         /\ view[Main][l] <= view'[Main][l]
                         /\ view[t][l] <= view'[Main][l]
      /\ \A l \in Locs : Newest(l)' = Newest(l) /\ NewestVal(l)' = NewestVal(l)
  BY <1>0, <1>1, SyncFacts
<1>3. TypeOK'  BY <1>1, <1>2 DEF TypeOK, States, Agent
<1>4. \A u \in Threads : Critical(u)' <=> Critical(u)
  BY <1>1 DEF Critical, TypeOK
<1>5. \A u \in Threads : view'[u] = view[u]
  BY <1>2, SpinLockAssumption DEF Agent
<1>6. LockInv' /\ HandOverInv' /\ Increments' = Increments
  BY <1>1, <1>2, <1>4, <1>5, QuietStep
<1>7. ValueInv'  BY <1>0, <1>1, <1>2, <1>6 DEF ValueInv, TypeOK
<1>8. JoinInv'
  <2>1. \E a \in Agent : view'[a]["shared_counter"] = Newest("shared_counter")'
    <3>1. PICK a \in Agent : view[a]["shared_counter"] = Newest("shared_counter")
      BY DEF JoinInv
    <3>2. view'[a]["shared_counter"] = Newest("shared_counter")
      <4>1. CASE a = Main  BY <4>1, <3>1, <1>0, <1>2, MemFacts
      <4>2. CASE a # Main  BY <4>2, <3>1, <1>2
      <4> QED  BY <4>1, <4>2
    <3> QED  BY <3>2, <1>0, <1>2
  <2>2. \A u \in Threads : pc'[u] = "joined" =>
          view'[u]["shared_counter"] <= view'[Main]["shared_counter"]
    <3> SUFFICES ASSUME NEW u \in Threads, pc'[u] = "joined"
                 PROVE  view[u]["shared_counter"] <= view'[Main]["shared_counter"]
      BY <1>5
    <3>1. CASE u = t  BY <3>1, <1>0, <1>2
    <3>2. CASE u # t
      <4>1. pc[u] = "joined" /\ u \in Agent  BY <3>2, <1>1 DEF TypeOK, Agent
      <4>2. view[u]["shared_counter"] <= view[Main]["shared_counter"]
        BY <4>1 DEF JoinInv
      <4> QED  BY <4>1, <4>2, <1>0, <1>2, MemFacts
    <3> QED  BY <3>1, <3>2
  <2>3. main' = "joined" => \A u \in Threads : pc'[u] = "joined"
    BY <1>1 DEF TypeOK
  <2>4. \A u \in Threads : pc'[u] = "unborn" => done'[u] = 0
    BY <1>1 DEF JoinInv, TypeOK
  <2> QED  BY <2>1, <2>2, <2>3, <2>4 DEF JoinInv
<1> QED  BY <1>2, <1>3, <1>6, <1>7, <1>8

\* Nothing happens.
LEMMA StutterStep == ASSUME IndInv, UNCHANGED vars PROVE IndInv'
  BY DEF vars, IndInv, TypeOK, BoundInv, LockInv, MutualExclusion, HandOverInv,
         NoDataRace, ValueInv, JoinInv, Newest, NewestVal, LockFree, Critical,
         Races, Increments

\* The lock is free and the counter zero at first.
LEMMA IndInit == Init => IndInv
<1> SUFFICES ASSUME Init PROVE IndInv  OBVIOUS
<1> USE SpinLockAssumption DEF Init, MemInit
<1>1. Bottom \in Views /\ \A l \in Locs : Bottom[l] = 1  BY DEF Bottom, Views
<1>2. \A l \in Locs : mem[l] = <<[val |-> 0, view |-> Bottom]>>  OBVIOUS
<1>3. \A l \in Locs : /\ Len(mem[l]) = 1 /\ mem[l][1].val = 0
                      /\ mem[l][1].view = Bottom /\ mem[l] \in Seq(Messages)
  <2>1. [val |-> 0, view |-> Bottom] \in Messages  BY <1>1 DEF Messages
  <2> QED  BY <1>2, <2>1
<1>4. \A l \in Locs : Newest(l) = 1 /\ NewestVal(l) = 0
  BY <1>3 DEF Newest, NewestVal
<1>5. {"locked", "shared_counter"} = Locs /\ Main \in Agent  BY DEF Locs, Agent
<1>6. TypeOK
  <2>1. mem \in [Locs -> Seq(Messages)]  BY <1>3
  <2> QED  BY <1>1, <2>1 DEF TypeOK, States
<1>7. BoundInv  BY <1>1, <1>3, <1>4, <1>5 DEF BoundInv, Agent
<1>8. LockInv  BY <1>4, <1>5 DEF LockInv, MutualExclusion, LockFree, Critical
<1>9. HandOverInv
  BY <1>1, <1>3, <1>4, <1>5 DEF HandOverInv, NoDataRace, Critical
<1>10. ValueInv
  <2>1. Increments = {}
    <3> SUFFICES ASSUME NEW q \in Increments PROVE FALSE  OBVIOUS
    <3>1. q[1] \in Threads /\ q[2] \in 1..Iterations /\ q[2] <= done[q[1]]
      BY DEF Increments
    <3> QED  BY <3>1
  <2> QED  BY <2>1, <1>4, <1>5, FS_EmptySet DEF ValueInv
<1>11. JoinInv  BY <1>1, <1>4, <1>5 DEF JoinInv, Agent
<1> QED  BY <1>6, <1>7, <1>8, <1>9, <1>10, <1>11 DEF IndInv

\* The pause after a failed attempt stays within its bounds.
LEMMA BackoffBounds ==
  ASSUME NEW b \in BACKOFF_MIN..BACKOFF_MAX
  PROVE  /\ NextBackoff(b) \in BACKOFF_MIN..BACKOFF_MAX
         /\ b <= NextBackoff(b) /\ NextBackoff(b) <= 2 * b
  BY SpinLockAssumption DEF NextBackoff

\* A failed attempt keeps the types.
LEMMA RetryType ==
  ASSUME IndInv, NEW t \in Threads, Retry(t)
  PROVE  backoff' \in [Threads -> BACKOFF_MIN..BACKOFF_MAX]
  BY BackoffBounds DEF IndInv, TypeOK, Retry

\* The steps of a worker.
LEMMA WorkerStep == ASSUME IndInv, NEW t \in Threads, Worker(t) PROVE IndInv'
<1>1. CASE TestAndSet(t)  BY <1>1, TakeLock DEF TestAndSet
<1>2. CASE CasSucceeds(t)  BY <1>2, TakeLock DEF CasSucceeds
<1>3. ASSUME NEW i \in Readable(t, "locked"), Test(t, i) PROVE IndInv'
  <2>1. backoff' \in [Threads -> BACKOFF_MIN..BACKOFF_MAX]
    BY <1>3, RetryType DEF Test, IndInv, TypeOK
  <2>2. spurious' \in 0..MaxSpurious  BY <1>3 DEF Test, IndInv, TypeOK
  <2>3. \E p \in {"test", "cas"} : pc' = [pc EXCEPT ![t] = p]
    BY <1>3 DEF Test, Retry
  <2> QED  BY <1>3, <2>1, <2>2, <2>3, Poll DEF Test
<1>4. ASSUME NEW i \in Readable(t, "locked"), CasFails(t, i) PROVE IndInv'
  <2>1. backoff' \in [Threads -> BACKOFF_MIN..BACKOFF_MAX]
    BY <1>4, RetryType DEF CasFails
  <2>2. spurious' \in 0..MaxSpurious
    BY <1>4, SpinLockAssumption DEF CasFails, IndInv, TypeOK
  <2>3. pc' = [pc EXCEPT ![t] = "test"]  BY <1>4 DEF CasFails, Retry
  <2> QED  BY <1>4, <2>1, <2>2, <2>3, Poll DEF CasFails
<1>5. ASSUME NEW i \in Readable(t, "shared_counter"), LoadCounter(t, i) PROVE IndInv'
  BY <1>5, LoadCounterStep
<1>6. CASE StoreCounter(t)  BY <1>6, StoreCounterStep
<1>7. CASE Unlock(t)  BY <1>7, UnlockStep
<1> QED  BY <1>1, <1>2, <1>3, <1>4, <1>5, <1>6, <1>7 DEF Worker

\* Every step keeps the invariant.
LEMMA IndNext == IndInv /\ [Next]_vars => IndInv'
  BY CreateStep, WorkerStep, JoinStep, StutterStep DEF Next, Terminating

\* The inductive invariant holds throughout.
THEOREM SpinLockInvariant == Spec => []IndInv
  BY IndInit, IndNext, PTL DEF Spec

\* Types; with them, backoff stays between BACKOFF_MIN and BACKOFF_MAX.
THEOREM SpinLockTypes == Spec => []TypeOK
<1>1. IndInv => TypeOK  BY DEF IndInv
<1> QED  BY <1>1, SpinLockInvariant, PTL

\* No two workers are between lock and unlock, whichever lock is used.
THEOREM SpinLockMutualExclusion == Spec => []MutualExclusion
<1>1. IndInv => MutualExclusion  BY DEF IndInv, LockInv
<1> QED  BY <1>1, SpinLockInvariant, PTL

\* shared_counter++ under the lock is free of data races.
THEOREM SpinLockNoDataRace == Spec => []NoDataRace
<1>1. IndInv => NoDataRace  BY DEF IndInv, HandOverInv
<1> QED  BY <1>1, SpinLockInvariant, PTL

\* The total main sees after the joins is NUM_THREADS * ITERATIONS.
THEOREM SpinLockTotalExact == Spec => []TotalExact
<1>1. IndInv => TotalExact
  <2> SUFFICES ASSUME IndInv, main = "joined"
               PROVE  /\ ~Races(Main, "shared_counter")
                      /\ NewestVal("shared_counter") = Cardinality(Threads) * Iterations
    BY DEF TotalExact
  <2> USE DEF IndInv
  <2>0. "shared_counter" \in Locs /\ Main \in Agent  BY DEF Locs, Agent
  <2>1. \A t \in Threads : pc[t] = "joined" /\ done[t] = Iterations
    BY DEF JoinInv, ValueInv
  <2>2. view[Main]["shared_counter"] = Newest("shared_counter")
    <3>1. PICK a \in Agent : view[a]["shared_counter"] = Newest("shared_counter")
      BY DEF JoinInv
    <3>2. view[a]["shared_counter"] <= view[Main]["shared_counter"]
      BY <2>0, <2>1, MemFacts DEF JoinInv, Agent
    <3>3. view[Main]["shared_counter"] <= Newest("shared_counter")
      BY <2>0 DEF BoundInv
    <3> QED  BY <2>0, <3>1, <3>2, <3>3, MemFacts
  <2>3. Increments = Threads \X (1..Iterations)
    BY <2>1 DEF Increments
  <2>4. IsFiniteSet(1..Iterations) /\ Cardinality(1..Iterations) = Iterations
    BY FS_Interval, SpinLockAssumption
  <2>5. Cardinality(Increments) = Cardinality(Threads) * Iterations
    BY <2>3, <2>4, FS_Product, SpinLockAssumption
  <2> QED  BY <2>2, <2>5 DEF Races, ValueInv
<1> QED  BY <1>1, SpinLockInvariant, PTL

\* The pause only grows during an acquisition and is reset only by a holder.
THEOREM SpinLockBackoffGrows == Spec => BackoffGrows
<1>1. ASSUME IndInv, [Next]_vars, NEW t \in Threads, backoff'[t] # backoff[t]
      PROVE  \/ /\ backoff[t] < backoff'[t]
                /\ backoff'[t] <= 2 * backoff[t]
                /\ backoff'[t] <= BACKOFF_MAX
                /\ pc'[t] = "test"
             \/ backoff'[t] = BACKOFF_MIN /\ Critical(t)
  <2>1. (\E u \in Threads : Retry(u) \/ Unlock(u)) \/ backoff' = backoff
    <3>1. ASSUME NEW u \in Threads, Worker(u)
          PROVE  Retry(u) \/ Unlock(u) \/ backoff' = backoff
      BY <3>1 DEF Worker, TestAndSet, Test, CasSucceeds, CasFails, LoadCounter,
                  StoreCounter
    <3>2. ASSUME NEW u \in Threads, Create(u) \/ Join(u) PROVE backoff' = backoff
      BY <3>2 DEF Create, Join
    <3> QED  BY <1>1, <3>1, <3>2 DEF Next, Terminating, vars
  <2>2. PICK u \in Threads : Retry(u) \/ Unlock(u)  BY <1>1, <2>1
  <2>3. backoff \in [Threads -> BACKOFF_MIN..BACKOFF_MAX] /\ pc \in [Threads -> States]
    BY <1>1 DEF IndInv, TypeOK
  <2>4. CASE Retry(u)
    <3>1. u = t /\ backoff'[t] = NextBackoff(backoff[t]) /\ pc'[t] = "test"
      BY <1>1, <2>3, <2>4 DEF Retry
    <3>2. backoff[t] \in BACKOFF_MIN..BACKOFF_MAX  BY <2>3
    <3> QED  BY <1>1, <3>1, <3>2, BackoffBounds, SpinLockAssumption
  <2>5. CASE Unlock(u)
    BY <1>1, <2>3, <2>5 DEF Unlock, Critical
  <2> QED  BY <2>2, <2>4, <2>5
<1>2. IndInv /\ [Next]_vars =>
        [\A t \in Threads : backoff'[t] # backoff[t] =>
           \/ /\ backoff[t] < backoff'[t]
              /\ backoff'[t] <= 2 * backoff[t]
              /\ backoff'[t] <= BACKOFF_MAX
              /\ pc'[t] = "test"
           \/ backoff'[t] = BACKOFF_MIN /\ Critical(t)]_vars
  BY <1>1
<1> QED  BY <1>2, SpinLockInvariant, PTL DEF Spec, BackoffGrows

\* Storing the increment is the step that counts.
LEMMA StoreAdds ==
  ASSUME IndInv, NEW t \in Threads, StoreCounter(t) PROVE AC!Add(t)
<1> USE DEF IndInv
<1>0. t \in Agent /\ "shared_counter" \in Locs  BY DEF Agent, Locs
<1>1. /\ reg[t] = NewestVal("shared_counter") /\ done[t] < Iterations
      /\ reg[t] \in Nat /\ reg[t] + 1 \in Nat
  BY <1>0, MemFacts DEF StoreCounter, ValueInv
<1>2. Store(t, "shared_counter", reg[t] + 1, "relaxed")
      /\ done' = [done EXCEPT ![t] = @ + 1]
  BY DEF StoreCounter, PlainStore
<1>3. /\ Len(mem'["shared_counter"]) = Newest("shared_counter") + 1
      /\ mem'["shared_counter"][Newest("shared_counter") + 1].val = reg[t] + 1
  BY <1>0, <1>1, <1>2, StoreFacts
<1>4. NewestVal("shared_counter")' = NewestVal("shared_counter") + 1
  BY <1>1, <1>3 DEF Newest, NewestVal
<1> QED  BY <1>1, <1>2, <1>4 DEF AC!Add

\* No other step touches the counter.
LEMMA OthersKeepCounter ==
  ASSUME IndInv, [Next]_vars, ~\E t \in Threads : StoreCounter(t)
  PROVE  mem'["shared_counter"] = mem["shared_counter"] /\ done' = done
<1>0. mem \in [Locs -> Seq(Messages)] /\ {"locked", "shared_counter"} = Locs
  BY DEF IndInv, TypeOK, Locs
<1>1. \A t, val, v, carried, order :
        Append1(t, "locked", val, v, carried, order) =>
          mem'["shared_counter"] = mem["shared_counter"]
  BY <1>0 DEF Append1
<1>2. ASSUME NEW t \in Threads, TestAndSet(t) \/ CasSucceeds(t) \/ Unlock(t)
      PROVE  mem'["shared_counter"] = mem["shared_counter"] /\ done' = done
  BY <1>1, <1>2 DEF TestAndSet, CasSucceeds, Unlock, Update, Store
<1>3. ASSUME NEW t \in Threads, NEW i, Test(t, i) \/ CasFails(t, i) \/ LoadCounter(t, i)
      PROVE  mem'["shared_counter"] = mem["shared_counter"] /\ done' = done
  BY <1>3 DEF Test, CasFails, LoadCounter, PlainLoad, Load
<1>4. ASSUME NEW t \in Threads, Create(t) \/ Join(t)
      PROVE  mem'["shared_counter"] = mem["shared_counter"] /\ done' = done
  BY <1>4 DEF Create, Join
<1>5. CASE UNCHANGED vars  BY <1>5 DEF vars
<1> QED  BY <1>2, <1>3, <1>4, <1>5 DEF Next, Worker, Terminating

\* Whatever the lock, its increments implement atomic ones.
THEOREM SpinLockRefinesAtomicCounter == Spec => AC!Spec
<1>1. Init => AC!Init
  <2> SUFFICES ASSUME Init PROVE AC!Init  OBVIOUS
  <2>1. mem["shared_counter"] = <<[val |-> 0, view |-> Bottom]>>
    BY DEF Init, MemInit, Locs
  <2>2. NewestVal("shared_counter") = 0  BY <2>1 DEF NewestVal, Newest
  <2> QED  BY <2>2 DEF Init, AC!Init
<1>2. IndInv /\ [Next]_vars => [AC!Next]_(AC!vars)
  <2> SUFFICES ASSUME IndInv, [Next]_vars PROVE [AC!Next]_(AC!vars)  OBVIOUS
  <2>1. CASE \E t \in Threads : StoreCounter(t)  BY <2>1, StoreAdds DEF AC!Next
  <2>2. CASE ~\E t \in Threads : StoreCounter(t)
    <3>1. mem'["shared_counter"] = mem["shared_counter"] /\ done' = done
      BY <2>2, OthersKeepCounter
    <3> QED  BY <3>1 DEF AC!vars, NewestVal, Newest
  <2> QED  BY <2>1, <2>2
<1> QED  BY <1>1, <1>2, SpinLockInvariant, PTL DEF Spec, AC!Spec
=============================================================================
