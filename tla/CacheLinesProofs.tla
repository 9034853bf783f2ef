-------------------------- MODULE CacheLinesProofs --------------------------
(***************************************************************************)
(* Proofs about exercise 03: false sharing is there in the packed array    *)
(* and gone in the padded one, both totals are exact, each array is an     *)
(* atomic counter and main gets on to its end, for any number of threads   *)
(* and turns and every address calloc may return.                          *)
(***************************************************************************)
EXTENDS CacheLines, FiniteSetTheorems, TLAPS

\* A worker is in its loop only as long as it has turns to make, and main adds
\* up the counters, and goes on to the next test, when all are joined.
LoopInv == \A t \in Threads : /\ pc[t] = "loop" => turns[test][t] < ITERATIONS
                              /\ main = "join" /\ t < i => pc[t] = "joined"
                              /\ main = "sum" => pc[t] = "joined"

\* Who has not got its line has not fetched it yet.
AlignedInv == test = "aligned" /\ main # "calloc" =>
  \A t \in Threads : misses[t] <= IF owner[LineOf("aligned", t)] = t THEN 1 ELSE 0

\* Who shall fetch its line has lost it, in the packed test.
PackedInv == test = "packed" =>
  \A t \in Threads : /\ t \in foreign => owner[LineOf("packed", t)] # t
                     /\ handed[t] <= misses[t]

IndInv == TypeOK /\ LoopInv /\ AlignedInv /\ PackedInv
-----------------------------------------------------------------------------
\* Element t of the padded array begins on line t, and nobody else's does.
LEMMA AlignedLine ==
  ASSUME TypeOK, NEW t \in Threads
  PROVE  LineOf("aligned", t) = t /\ t \in Lines
<1>1. base["aligned"] \in {0, 16, 32, 48}  BY DEF TypeOK, Bases, Arrays
<1>2. t \in Nat /\ t < NUM_THREADS  BY CacheLinesAssumption DEF Threads
<1>3. (base["aligned"] + 64 * t) \div 64 = t  BY <1>1, <1>2
<1> QED
  BY <1>2, <1>3, CacheLinesAssumption DEF LineOf, SizeOf, CACHE_LINE_SIZE, Lines

\* The packed array lies on the lines there are, wherever it begins.
LEMMA PackedOnLines ==
  ASSUME NEW b \in Bases, NEW t \in Threads
  PROVE  (b + 8 * t) \div 64 \in Lines
<1>1. b \in {0, 16, 32, 48}  BY DEF Bases
<1>2. t \in Nat /\ t < NUM_THREADS /\ NUM_THREADS \in Nat
  BY CacheLinesAssumption DEF Threads
<1>3. (b + 8 * t) \div 64 \in Nat /\ (b + 8 * t) \div 64 <= t + 1  BY <1>1, <1>2
<1> QED  BY <1>2, <1>3 DEF Lines

\* calloc aligns to two packed counters, so counters 2k and 2k+1 share a line.
LEMMA PackedLine ==
  ASSUME TypeOK, NEW t \in Threads
  PROVE  /\ LineOf("packed", t) \in Lines
         /\ Neighbour(t) # t
         /\ LineOf("packed", Neighbour(t)) = LineOf("packed", t)
<1>1. base["packed"] \in {0, 16, 32, 48}  BY DEF TypeOK, Bases, Arrays
<1>2. t \in Nat /\ t < NUM_THREADS /\ NUM_THREADS \in Nat
  BY CacheLinesAssumption DEF Threads
<1>4. LineOf("packed", t) \in Lines
  BY PackedOnLines DEF LineOf, SizeOf, CACHE_LINE_SIZE, TypeOK, Arrays
<1>5. CASE t % 2 = 0
  <2>1. Neighbour(t) = t + 1  BY <1>5 DEF Neighbour
  <2>2. (base["packed"] + 8 * t) \div 64 = (base["packed"] + 8 * (t + 1)) \div 64
    <3>1. PICK k \in Nat : t = 2 * k
      <4>1. t \div 2 \in Nat /\ t = 2 * (t \div 2)  BY <1>2, <1>5
      <4> QED  BY <4>1
    <3>2. CASE base["packed"] = 0  BY <3>1, <3>2
    <3>3. CASE base["packed"] = 16  BY <3>1, <3>3
    <3>4. CASE base["packed"] = 32  BY <3>1, <3>4
    <3>5. CASE base["packed"] = 48  BY <3>1, <3>5
    <3> QED  BY <1>1, <3>2, <3>3, <3>4, <3>5
  <2>3. t + 1 # t  BY <1>2
  <2> QED  BY <1>4, <2>1, <2>2, <2>3 DEF LineOf, SizeOf, CACHE_LINE_SIZE
<1>6. CASE t % 2 = 1
  <2>1. Neighbour(t) = t - 1  BY <1>6 DEF Neighbour
  <2>2. (base["packed"] + 8 * t) \div 64 = (base["packed"] + 8 * (t - 1)) \div 64
    BY <1>1, <1>2, <1>6
  <2>3. t - 1 # t  BY <1>2
  <2> QED  BY <1>4, <2>1, <2>2, <2>3 DEF LineOf, SizeOf, CACHE_LINE_SIZE
<1> QED  BY <1>2, <1>5, <1>6

\* The loop index of main stays an index of a thread.
LEMMA StepTypes ==
  ASSUME TypeOK, NEW after, Step(after)
  PROVE  i' \in Threads /\ main' \in {main, after}
  BY CacheLinesAssumption DEF TypeOK, Step, Threads

\* A fetch_add takes its line away from nobody in the padded array.
LEMMA FetchAddStep == ASSUME IndInv, NEW t \in Threads, FetchAdd(t) PROVE IndInv'
<1> USE DEF IndInv
<1>1. /\ turns[test][t] \in Nat /\ turns[test][t] < ITERATIONS /\ ITERATIONS \in Nat
      /\ turns' = [turns EXCEPT ![test] = [turns[test] EXCEPT ![t] = turns[test][t] + 1]]
      /\ turns \in [Arrays -> [Threads -> 0..ITERATIONS]] /\ test \in Arrays
  BY CacheLinesAssumption DEF FetchAdd, LoopInv, TypeOK
<1>2. TypeOK'
  <2>1. counters' \in [Arrays -> [Threads -> Nat]]
    <3>1. /\ counters' = [counters EXCEPT ![test] =
                            [counters[test] EXCEPT ![t] = counters[test][t] + 1]]
          /\ counters \in [Arrays -> [Threads -> Nat]] /\ test \in Arrays
      BY DEF FetchAdd, Cell, TypeOK
    <3>2. [counters[test] EXCEPT ![t] = counters[test][t] + 1] \in [Threads -> Nat]
      BY <3>1
    <3> QED  BY <3>1, <3>2
  <2>2. owner' \in [Lines -> Threads \cup {MainCore}]
    <3> DEFINE l == LineOf(test, Cell(t))
               cores == Threads \cup {MainCore}
    <3>1. /\ owner' = [owner EXCEPT ![l] = t] /\ t \in cores
          /\ owner \in [Lines -> cores]
      BY DEF FetchAdd, TypeOK
    <3> HIDE DEF l, cores
    <3>2. owner' \in [Lines -> cores]  BY <3>1
    <3> QED  BY <3>2 DEF cores
  <2>5. misses' \in [Threads -> Nat]
    <3> DEFINE miss == IF owner[LineOf(test, Cell(t))] = t THEN misses[t] ELSE misses[t] + 1
    <3>1. /\ misses' = [misses EXCEPT ![t] = miss]
          /\ misses \in [Threads -> Nat] /\ miss \in Nat
      BY DEF FetchAdd, TypeOK
    <3> QED  BY <3>1
  <2>3. turns' \in [Arrays -> [Threads -> 0..ITERATIONS]]
    <3>1. [turns[test] EXCEPT ![t] = turns[test][t] + 1] \in [Threads -> 0..ITERATIONS]
      BY <1>1
    <3> QED  BY <1>1, <3>1
  <2>4. pc' \in [Threads -> {"unborn", "loop", "done", "joined"}]
    BY DEF FetchAdd, TypeOK, LoopAt
  <2>6. foreign' \subseteq Threads /\ handed' \in [Threads -> Nat]
    BY DEF FetchAdd, TypeOK
  <2> QED  BY <2>1, <2>2, <2>3, <2>4, <2>5, <2>6 DEF FetchAdd, TypeOK
<1>3. LoopInv'
  <2>1. turns'[test] = [turns[test] EXCEPT ![t] = turns[test][t] + 1]  BY <1>1
  <2>2. pc' = [pc EXCEPT ![t] = IF turns[test][t] + 1 < ITERATIONS THEN "loop" ELSE "done"]
    BY DEF FetchAdd, LoopAt
  <2> QED  BY <1>1, <2>1, <2>2 DEF FetchAdd, TypeOK, LoopInv
<1>4. AlignedInv'
  <2> SUFFICES ASSUME test = "aligned", main # "calloc", NEW u \in Threads
               PROVE  misses'[u] <= IF owner'[LineOf("aligned", u)'] = u THEN 1 ELSE 0
    BY DEF FetchAdd, AlignedInv
  <2>1. LineOf("aligned", u)' = u  BY <1>2, AlignedLine DEF FetchAdd, LineOf
  <2>2. /\ owner' = [owner EXCEPT ![t] = t]
        /\ misses' = [misses EXCEPT ![t] = IF owner[t] = t THEN @ ELSE @ + 1]
    BY AlignedLine DEF FetchAdd, Cell
  <2>3. misses[u] \in Nat /\ u \in Lines /\ misses[u] <= IF owner[u] = u THEN 1 ELSE 0
    BY AlignedLine DEF AlignedInv, TypeOK
  <2> QED  BY <2>1, <2>2, <2>3 DEF TypeOK
<1>5. PackedInv'
  <2> SUFFICES ASSUME test = "packed", NEW u \in Threads
               PROVE  /\ u \in foreign' => owner'[LineOf("packed", u)'] # u
                      /\ handed'[u] <= misses'[u]
    BY DEF FetchAdd, PackedInv
  <2> DEFINE l == LineOf("packed", t)
  <2>1. LineOf("packed", u)' = LineOf("packed", u)  BY DEF FetchAdd, LineOf
  <2>2. /\ owner' = [owner EXCEPT ![l] = t]
        /\ misses' = [misses EXCEPT ![t] = IF owner[l] = t THEN @ ELSE @ + 1]
        /\ foreign' = (foreign \ {t}) \cup (Threads \cap {Neighbour(t)})
        /\ handed' = [handed EXCEPT ![t] = IF t \in foreign THEN @ + 1 ELSE @]
    BY DEF FetchAdd, Cell
  <2>3. /\ l \in Lines /\ Neighbour(t) # t /\ LineOf("packed", Neighbour(t)) = l
    BY PackedLine
  <2>4. /\ t \in foreign => owner[l] # t
        /\ u \in foreign => owner[LineOf("packed", u)] # u
        /\ handed[t] <= misses[t] /\ handed[u] <= misses[u]
        /\ handed[t] \in Nat /\ misses[t] \in Nat
        /\ owner \in [Lines -> Threads \cup {MainCore}]
        /\ misses \in [Threads -> Nat] /\ handed \in [Threads -> Nat]
    BY DEF PackedInv, TypeOK
  <2> HIDE DEF l
  <2>5. u \in foreign' => owner'[LineOf("packed", u)] # u
    <3>1. CASE u = t  BY <2>2, <2>3, <3>1
    <3>2. CASE u = Neighbour(t)  BY <2>2, <2>3, <2>4, <3>2
    <3>3. CASE u # t /\ u # Neighbour(t)
      <4>1. LineOf("packed", u) \in Lines  BY PackedLine
      <4> QED  BY <2>2, <2>4, <3>3, <4>1
    <3> QED  BY <3>1, <3>2, <3>3
  <2>6. handed'[u] <= misses'[u]  BY <2>2, <2>4
  <2> QED  BY <2>1, <2>5, <2>6
<1> QED  BY <1>2, <1>3, <1>4, <1>5

\* A new array: nothing is fetched yet.
LEMMA CallocStep == ASSUME IndInv, NEW b \in Bases, Calloc(b) PROVE IndInv'
<1> USE DEF IndInv
<1>1. TypeOK'  BY DEF Calloc, TypeOK
<1>2. LoopInv'  BY DEF Calloc, LoopInv
<1>3. AlignedInv'  BY DEF Calloc, AlignedInv
<1>4. PackedInv'
  <2> SUFFICES ASSUME test = "packed", NEW t \in Threads
               PROVE  owner'[LineOf("packed", t)'] # t /\ handed'[t] <= misses'[t]
    BY DEF Calloc, PackedInv
  <2>1. LineOf("packed", t)' = (b + 8 * t) \div 64
    BY DEF Calloc, LineOf, SizeOf, CACHE_LINE_SIZE, TypeOK, Arrays
  <2>2. owner'[LineOf("packed", t)'] = MainCore  BY <2>1, PackedOnLines DEF Calloc
  <2>3. t # MainCore  BY CacheLinesAssumption DEF Threads, MainCore
  <2>4. handed'[t] = 0 /\ misses'[t] = 0  BY DEF Calloc
  <2> QED  BY <2>2, <2>3, <2>4
<1> QED  BY <1>1, <1>2, <1>3, <1>4

\* What is said of the lines stays true while they stay as they are.
LEMMA LinesAlone ==
  ASSUME IndInv, UNCHANGED <<base, owner, misses, foreign, handed>>,
         test' = test \/ (test' = "aligned" /\ main' = "calloc"),
         main' # "calloc" => main # "calloc"
  PROVE  AlignedInv' /\ PackedInv'
<1>1. \A a, t : LineOf(a, t)' = LineOf(a, t)  BY DEF LineOf
<1>2. AlignedInv'  BY <1>1 DEF IndInv, AlignedInv
<1>3. PackedInv'  BY <1>1 DEF IndInv, PackedInv
<1> QED  BY <1>2, <1>3

\* The steps of main that leave the lines alone.
LEMMA MainLoops == ASSUME IndInv, Create \/ Join \/ Sum \/ Free PROVE IndInv'
<1> USE DEF IndInv
<1>0. i \in Nat /\ NUM_THREADS \in Nat /\ \A t \in Threads : t \in Nat /\ t < NUM_THREADS
  BY CacheLinesAssumption DEF TypeOK, Threads
<1>1. CASE Create
  <2>1. i' \in Threads /\ main' \in {"create", "join"} /\ main = "create"
    BY <1>1, StepTypes DEF Create
  <2>2. /\ turns' = [turns EXCEPT ![test] = [turns[test] EXCEPT ![i] = 0]]
        /\ test' = test /\ test \in Arrays /\ i \in Threads
        /\ turns \in [Arrays -> [Threads -> 0..ITERATIONS]]
    BY <1>1 DEF Create, TypeOK
  <2>3. TypeOK'
    <3>1. [turns[test] EXCEPT ![i] = 0] \in [Threads -> 0..ITERATIONS]
      BY <2>2, CacheLinesAssumption
    <3>2. turns' \in [Arrays -> [Threads -> 0..ITERATIONS]]  BY <2>2, <3>1
    <3> QED  BY <1>1, <2>1, <3>2 DEF Create, TypeOK, LoopAt, history
  <2>4. LoopInv'
    <3>1. turns'[test] = [turns[test] EXCEPT ![i] = 0]  BY <2>2
    <3>2. main' = "join" => i' = 0  BY <1>1 DEF Create, Step
    <3> QED
      BY <1>0, <1>1, <2>1, <2>2, <3>1, <3>2, CacheLinesAssumption
      DEF Create, TypeOK, LoopInv, LoopAt
  <2> QED  BY <1>1, <2>1, <2>3, <2>4, LinesAlone DEF Create, history
<1>2. CASE Join
  <2>1. i' \in Threads /\ main' \in {"join", "sum"} /\ main = "join"
    BY <1>2, StepTypes DEF Join
  <2>2. TypeOK'  BY <1>2, <2>1 DEF Join, TypeOK, history
  <2>3. LoopInv'
    <3>1. \/ i + 1 < NUM_THREADS /\ i' = i + 1 /\ main' = "join"
          \/ i + 1 = NUM_THREADS /\ main' = "sum"
      BY <1>0, <1>2 DEF Join, Step, TypeOK, Threads
    <3> QED  BY <1>0, <1>2, <3>1 DEF Join, TypeOK, LoopInv
  <2> QED  BY <1>2, <2>1, <2>2, <2>3, LinesAlone DEF Join, history
<1>3. CASE Sum
  <2>1. i' \in Threads /\ main' \in {"sum", "calloc", "free"} /\ main = "sum"
    BY <1>3, StepTypes DEF Sum
  <2>2. TypeOK'  BY <1>3, <2>1 DEF Sum, TypeOK, Arrays, history
  <2>3. LoopInv'  BY <1>3, <2>1 DEF Sum, TypeOK, LoopInv
  <2>4. test' = test \/ (test' = "aligned" /\ main' = "calloc")  BY <1>3 DEF Sum
  <2> QED  BY <1>3, <2>1, <2>2, <2>3, <2>4, LinesAlone DEF Sum, history
<1>4. CASE Free
  <2>1. TypeOK' /\ LoopInv'  BY <1>4 DEF Free, TypeOK, LoopInv, history
  <2> QED  BY <1>4, <2>1, LinesAlone DEF Free, history
<1> QED  BY <1>1, <1>2, <1>3, <1>4

\* Nothing is fetched and nobody runs at the start.
LEMMA IndInit == Init => IndInv
<1> SUFFICES ASSUME Init PROVE IndInv  OBVIOUS
<1>1. TypeOK
  BY CacheLinesAssumption DEF Init, TypeOK, Arrays, Bases, Threads, MainCore
<1>2. LoopInv /\ AlignedInv  BY DEF Init, LoopInv, AlignedInv
<1>3. PackedInv
  <2>1. \A t \in Threads : t # MainCore /\ LineOf("packed", t) \in Lines
    BY <1>1, PackedLine, CacheLinesAssumption DEF Threads, MainCore
  <2> QED  BY <2>1 DEF Init, PackedInv
<1> QED  BY <1>1, <1>2, <1>3 DEF IndInv

\* Every step keeps the invariant.
LEMMA IndNext == IndInv /\ [Next]_vars => IndInv'
<1> SUFFICES ASSUME IndInv, [Next]_vars PROVE IndInv'  OBVIOUS
<1>1. CASE UNCHANGED vars
  <2>1. TypeOK' /\ LoopInv'  BY <1>1 DEF vars, IndInv, TypeOK, LoopInv
  <2> QED  BY <1>1, <2>1, LinesAlone DEF vars, IndInv
<1> QED
  BY <1>1, FetchAddStep, CallocStep, MainLoops DEF Next, MainStep, Terminating

\* The inductive invariant holds throughout.
THEOREM CacheLinesInvariant == Spec => []IndInv
  BY IndInit, IndNext, PTL DEF Spec

\* In the padded array no worker loses its line, however calloc aligns it.
THEOREM CacheLinesNoFalseSharing == Spec => []NoFalseSharing
<1>1. IndInv => NoFalseSharing
  BY DEF IndInv, TypeOK, AlignedInv, NoFalseSharing
<1> QED  BY <1>1, CacheLinesInvariant, PTL

\* In the packed array a worker fetches its line for every turn that follows
\* one of its neighbour, for any number of threads.
THEOREM CacheLinesFalseSharing == Spec => []FalseSharing
<1>1. IndInv => FalseSharing  BY DEF IndInv, PackedInv, FalseSharing
<1> QED  BY <1>1, CacheLinesInvariant, PTL
-----------------------------------------------------------------------------
\* Worker t has been created in this test.
Started(t) == main # "calloc" /\ (main = "create" => t < i)

\* The counter of a worker is the number of turns of its loop.
TurnsInv == \A a \in Arrays : \A t \in Threads : counters[a][t] = turns[a][t]

\* Main is where the workers it has created and joined let it be.
WorkInv == \A t \in Threads :
  /\ ~Started(t) => pc[t] \in {"unborn", "joined"} /\ turns[test][t] = 0
  /\ Started(t) => /\ pc[t] \in {"loop", "done", "joined"}
                   /\ pc[t] = "loop" <=> turns[test][t] < ITERATIONS
  /\ main = "create" /\ t < i => pc[t] # "joined"
  /\ main = "join" => (pc[t] = "joined" <=> t < i)
  /\ main \in {"sum", "free", "end"} => pc[t] = "joined"

\* The second test has not begun before the first has ended.
TestInv == /\ main \in {"calloc", "free", "end"} => i = 0
           /\ main \in {"free", "end"} => test = "aligned"
           /\ test = "packed" => \A t \in Threads : turns["aligned"][t] = 0

\* What main has added up so far.
TotalOf(a) == IF test # a THEN IF a = "packed" THEN NUM_THREADS * ITERATIONS ELSE 0
              ELSE CASE main = "sum" -> i * ITERATIONS
                     [] main \in {"free", "end"} -> NUM_THREADS * ITERATIONS
                     [] OTHER -> 0
TotalInv == \A a \in Arrays : total[a] = TotalOf(a)

CountInv == TurnsInv /\ WorkInv /\ TestInv /\ TotalInv

\* A worker's turn is in its counter.
LEMMA FetchAddCount ==
  ASSUME IndInv, CountInv, NEW t \in Threads, FetchAdd(t) PROVE CountInv'
<1>1. /\ pc \in [Threads -> {"unborn", "loop", "done", "joined"}] /\ ITERATIONS \in Nat
      /\ turns \in [Arrays -> [Threads -> 0..ITERATIONS]] /\ test \in Arrays
      /\ counters \in [Arrays -> [Threads -> Nat]]
      /\ turns[test] \in [Threads -> 0..ITERATIONS] /\ counters[test] \in [Threads -> Nat]
  BY CacheLinesAssumption DEF IndInv, TypeOK
<1>2. /\ test' = test /\ main' = main /\ i' = i /\ total' = total /\ pc[t] = "loop"
      /\ pc' = [pc EXCEPT ![t] = IF turns[test][t] + 1 < ITERATIONS THEN "loop" ELSE "done"]
  BY DEF FetchAdd, LoopAt
<1>3. /\ counters'[test] = [counters[test] EXCEPT ![t] = counters[test][t] + 1]
      /\ turns'[test] = [turns[test] EXCEPT ![t] = turns[test][t] + 1]
      /\ \A a \in Arrays \ {test} : counters'[a] = counters[a] /\ turns'[a] = turns[a]
  BY <1>1 DEF FetchAdd, Cell
<1>4. Started(t) /\ turns[test][t] < ITERATIONS  BY <1>2 DEF CountInv, WorkInv
<1>a. TurnsInv'
  <2> SUFFICES ASSUME NEW a \in Arrays, NEW u \in Threads
               PROVE  counters'[a][u] = turns'[a][u]
    BY DEF TurnsInv
  <2>1. counters[a][u] = turns[a][u] /\ counters[test][u] = turns[test][u]
    BY <1>1 DEF CountInv, TurnsInv
  <2>2. CASE a = test
    <3>1. counters'[test][u] = turns'[test][u]
      <4>1. CASE u = t  BY <1>1, <1>3, <2>1, <4>1
      <4>2. CASE u # t  BY <1>1, <1>3, <2>1, <4>2
      <4> QED  BY <4>1, <4>2
    <3> QED  BY <2>2, <3>1
  <2>3. CASE a # test  BY <1>3, <2>1, <2>3
  <2> QED  BY <2>2, <2>3
<1>5. WorkInv'
  <2> SUFFICES ASSUME NEW u \in Threads
               PROVE  /\ ~Started(u) => /\ pc'[u] \in {"unborn", "joined"}
                                        /\ turns'[test][u] = 0
                      /\ Started(u) => /\ pc'[u] \in {"loop", "done", "joined"}
                                       /\ pc'[u] = "loop" <=> turns'[test][u] < ITERATIONS
                      /\ main = "create" /\ u < i => pc'[u] # "joined"
                      /\ main = "join" => (pc'[u] = "joined" <=> u < i)
                      /\ main \in {"sum", "free", "end"} => pc'[u] = "joined"
    BY <1>2 DEF WorkInv, Started
  <2>1. CASE u = t  BY <1>1, <1>2, <1>3, <1>4, <2>1 DEF CountInv, WorkInv
  <2>2. CASE u # t  BY <1>1, <1>2, <1>3, <2>2 DEF CountInv, WorkInv
  <2> QED  BY <2>1, <2>2
<1>6. TestInv'  BY <1>1, <1>2, <1>3 DEF CountInv, TestInv, Arrays
<1>7. TotalInv'  BY <1>2 DEF CountInv, TotalInv, TotalOf
<1> QED  BY <1>a, <1>5, <1>6, <1>7 DEF CountInv

\* A new array is all zeros, and nobody works on it yet.
LEMMA CallocCount == ASSUME IndInv, CountInv, NEW b \in Bases, Calloc(b) PROVE CountInv'
<1> USE DEF Calloc, CountInv
<1>1. i = 0 /\ \A t \in Threads : t \in Nat
  BY CacheLinesAssumption DEF TestInv, Threads
<1>2. WorkInv'  BY <1>1 DEF WorkInv, Started
<1>3. TurnsInv' /\ TestInv'  BY DEF TurnsInv, TestInv
<1>4. TotalInv'  BY DEF TotalInv, TotalOf
<1> QED  BY <1>2, <1>3, <1>4

\* Main creates worker i.
LEMMA CreateCount == ASSUME IndInv, CountInv, Create PROVE CountInv'
<1>1. /\ pc \in [Threads -> {"unborn", "loop", "done", "joined"}]
      /\ turns \in [Arrays -> [Threads -> 0..ITERATIONS]] /\ ITERATIONS \in Nat
      /\ test \in Arrays /\ turns[test] \in [Threads -> 0..ITERATIONS] /\ i \in Threads
      /\ i \in Nat /\ i < NUM_THREADS /\ NUM_THREADS \in Nat
      /\ \A t \in Threads : t \in Nat /\ t < NUM_THREADS
  BY CacheLinesAssumption DEF IndInv, TypeOK, Threads
<1>2. /\ test' = test /\ counters' = counters /\ total' = total /\ main = "create"
      /\ pc' = [pc EXCEPT ![i] = IF 0 < ITERATIONS THEN "loop" ELSE "done"]
      /\ \/ i + 1 < NUM_THREADS /\ i' = i + 1 /\ main' = "create"
         \/ i + 1 = NUM_THREADS /\ i' = 0 /\ main' = "join"
  BY <1>1 DEF Create, LoopAt, Step
<1>a. turns' = turns
  <2>1. turns' = [turns EXCEPT ![test] = [turns[test] EXCEPT ![i] = 0]]  BY DEF Create
  <2>2. ~Started(i)  BY <1>1, <1>2 DEF Started
  <2>3. turns[test][i] = 0  BY <1>1, <2>2 DEF CountInv, WorkInv
  <2>4. [turns[test] EXCEPT ![i] = 0] = turns[test]  BY <1>1, <2>3
  <2> QED  BY <1>1, <2>1, <2>4
<1>3. WorkInv'
  <2>1. \A t \in Threads : Started(t)' <=> t = i \/ Started(t)
    BY <1>1, <1>2 DEF Started
  <2>2. ASSUME NEW t \in Threads, ~Started(t)'
        PROVE  pc'[t] \in {"unborn", "joined"} /\ turns[test][t] = 0
    BY <1>1, <1>2, <2>1, <2>2 DEF CountInv, WorkInv
  <2>3. ASSUME NEW t \in Threads, Started(t)'
        PROVE  /\ pc'[t] \in {"loop", "done"}
               /\ pc'[t] = "loop" <=> turns[test][t] < ITERATIONS
    <3>1. CASE t = i  BY <1>1, <1>2, <3>1 DEF CountInv, WorkInv, Started
    <3>2. CASE t # i  BY <1>1, <1>2, <2>1, <2>3, <3>2 DEF CountInv, WorkInv, Started
    <3> QED  BY <3>1, <3>2
  <2>4. main' = "join" => i' = 0 /\ \A t \in Threads : Started(t)' /\ ~(t < 0)
    BY <1>1, <1>2 DEF Started
  <2>5. \A t \in Threads : main' = "create" /\ t < i' => Started(t)'
    BY <1>2 DEF Started
  <2>6. main' \in {"create", "join"}  BY <1>2
  <2> QED  BY <1>2, <1>a, <2>2, <2>3, <2>4, <2>5, <2>6 DEF WorkInv
<1>4. TurnsInv' /\ TestInv'  BY <1>2, <1>a DEF CountInv, TurnsInv, TestInv
<1>5. TotalInv'  BY <1>2 DEF CountInv, TotalInv, TotalOf
<1> QED  BY <1>3, <1>4, <1>5 DEF CountInv

\* Main joins worker i.
LEMMA JoinCount == ASSUME IndInv, CountInv, Join PROVE CountInv'
<1>1. /\ pc \in [Threads -> {"unborn", "loop", "done", "joined"}]
      /\ i \in Nat /\ i < NUM_THREADS /\ NUM_THREADS \in Nat
      /\ \A t \in Threads : t \in Nat /\ t < NUM_THREADS
  BY CacheLinesAssumption DEF IndInv, TypeOK, Threads
<1>2. /\ test' = test /\ counters' = counters /\ total' = total /\ turns' = turns
      /\ main = "join" /\ pc[i] = "done" /\ pc' = [pc EXCEPT ![i] = "joined"]
      /\ \/ i + 1 < NUM_THREADS /\ i' = i + 1 /\ main' = "join"
         \/ i + 1 = NUM_THREADS /\ i' = 0 /\ main' = "sum"
  BY <1>1 DEF Join, Step
<1>3. WorkInv'
  <2>1. ASSUME NEW t \in Threads
        PROVE  /\ Started(t)' /\ pc'[t] \in {"loop", "done", "joined"}
               /\ pc'[t] = "loop" <=> turns[test][t] < ITERATIONS
               /\ pc'[t] = "joined" <=> t < i + 1
    <3>1. Started(t) /\ Started(t)'  BY <1>2 DEF Started
    <3>2. CASE t = i  BY <1>1, <1>2, <3>1, <3>2 DEF CountInv, WorkInv
    <3>3. CASE t # i  BY <1>1, <1>2, <3>1, <3>3 DEF CountInv, WorkInv
    <3> QED  BY <3>2, <3>3
  <2>2. CASE main' = "join"  BY <1>2, <2>1, <2>2 DEF WorkInv
  <2>3. CASE main' = "sum"  BY <1>1, <1>2, <2>1, <2>3 DEF WorkInv
  <2> QED  BY <1>2, <2>2, <2>3
<1>4. TurnsInv' /\ TestInv'  BY <1>2 DEF CountInv, TurnsInv, TestInv
<1>5. TotalInv'
  <2>1. main' = "sum" => i' * ITERATIONS = 0  BY <1>2, CacheLinesAssumption
  <2>2. \A a \in Arrays : TotalOf(a)' = TotalOf(a)  BY <1>2, <2>1 DEF TotalOf
  <2> QED  BY <1>2, <2>2 DEF CountInv, TotalInv
<1> QED  BY <1>3, <1>4, <1>5 DEF CountInv

\* Main adds counter i, which is ITERATIONS: everybody is joined.
LEMMA SumCount == ASSUME IndInv, CountInv, Sum PROVE CountInv'
<1>1. /\ test \in Arrays /\ total \in [Arrays -> Nat] /\ ITERATIONS \in Nat
      /\ turns \in [Arrays -> [Threads -> 0..ITERATIONS]]
      /\ i \in Threads /\ i \in Nat /\ i < NUM_THREADS /\ NUM_THREADS \in Nat
      /\ \A t \in Threads : t \in Nat /\ t < NUM_THREADS
  BY CacheLinesAssumption DEF IndInv, TypeOK, Threads
<1>2. /\ counters' = counters /\ pc' = pc /\ turns' = turns /\ main = "sum"
      /\ total' = [total EXCEPT ![test] = @ + counters[test][i]]
      /\ \/ i + 1 < NUM_THREADS /\ i' = i + 1 /\ main' = "sum" /\ test' = test
         \/ /\ i + 1 = NUM_THREADS /\ i' = 0
            /\ \/ test = "packed" /\ test' = "aligned" /\ main' = "calloc"
               \/ test = "aligned" /\ test' = "aligned" /\ main' = "free"
  BY <1>1 DEF Sum, Step, Arrays
<1>3. \A t \in Threads : /\ pc[t] = "joined" /\ turns[test][t] = ITERATIONS
                         /\ counters[test][t] = ITERATIONS
  <2>1. ASSUME NEW t \in Threads
        PROVE  /\ pc[t] = "joined" /\ counters[test][t] = turns[test][t]
               /\ ~(turns[test][t] < ITERATIONS) /\ turns[test][t] \in 0..ITERATIONS
    BY <1>1, <1>2 DEF CountInv, TurnsInv, WorkInv, Started
  <2> QED  BY <1>1, <2>1
<1>4. total[test] = i * ITERATIONS  BY <1>1, <1>2 DEF CountInv, TotalInv, TotalOf
<1>5. total' = [total EXCEPT ![test] = (i + 1) * ITERATIONS]
  <2>1. i * ITERATIONS + ITERATIONS = (i + 1) * ITERATIONS  BY <1>1
  <2> QED  BY <1>1, <1>2, <1>3, <1>4, <2>1
<1>6. WorkInv'
  <2>1. CASE test' = test
    BY <1>1, <1>2, <1>3, <2>1 DEF WorkInv, Started
  <2>2. CASE test' # test
    <3>1. main' = "calloc" /\ test' = "aligned" /\ test = "packed"  BY <1>2, <2>2
    <3> QED  BY <1>2, <1>3, <3>1 DEF CountInv, TestInv, WorkInv, Started
  <2> QED  BY <2>1, <2>2
<1>7. TurnsInv' /\ TestInv'  BY <1>2 DEF CountInv, TurnsInv, TestInv
<1>8. TotalInv'
  <2> SUFFICES ASSUME NEW a \in Arrays PROVE total'[a] = TotalOf(a)'  BY DEF TotalInv
  <2> DEFINE all == NUM_THREADS * ITERATIONS
             next == (i + 1) * ITERATIONS
  <2>1. a # test => total'[a] = IF a = "packed" THEN all ELSE 0
    <3>1. a # test => TotalOf(a) = IF a = "packed" THEN all ELSE 0  BY DEF TotalOf
    <3>2. total[a] = TotalOf(a)  BY DEF CountInv, TotalInv
    <3>3. a # test => total'[a] = total[a]  BY <1>1, <1>5
    <3> QED  BY <3>1, <3>2, <3>3
  <2>2. a = test => total'[a] = next  BY <1>1, <1>5
  <2>3. CASE i + 1 < NUM_THREADS
    <3>1. i' = i + 1 /\ main' = "sum" /\ test' = test  BY <1>1, <1>2, <2>3
    <3>2. TotalOf(a)' = IF test # a THEN IF a = "packed" THEN all ELSE 0 ELSE next
      BY <3>1 DEF TotalOf
    <3> HIDE DEF all, next
    <3> QED  BY <2>1, <2>2, <3>2
  <2>4. CASE i + 1 = NUM_THREADS
    <3>1. next = all /\ i' = 0 /\ test' = "aligned"  BY <1>1, <1>2, <2>4
    <3>2. \/ test = "packed" /\ main' = "calloc"
          \/ test = "aligned" /\ main' = "free"
      BY <1>1, <1>2, <2>4
    <3>3. TotalOf(a)' = IF a = "aligned" /\ main' = "calloc" THEN 0 ELSE all
      BY <3>1, <3>2 DEF TotalOf, Arrays
    <3> HIDE DEF next, all
    <3> QED  BY <2>1, <2>2, <3>1, <3>2, <3>3 DEF Arrays
  <2> QED  BY <1>1, <2>3, <2>4
<1> QED  BY <1>6, <1>7, <1>8 DEF CountInv

\* Every step keeps the counts.
LEMMA CountNext == IndInv /\ CountInv /\ [Next]_vars => CountInv'
<1> SUFFICES ASSUME IndInv, CountInv, [Next]_vars PROVE CountInv'  OBVIOUS
<1>1. CASE Free
  BY <1>1 DEF Free, CountInv, TurnsInv, WorkInv, TestInv, TotalInv, TotalOf, Started
<1>2. CASE UNCHANGED vars
  BY <1>2 DEF vars, CountInv, TurnsInv, WorkInv, TestInv, TotalInv, TotalOf, Started
<1> QED
  BY <1>1, <1>2, FetchAddCount, CallocCount, CreateCount, JoinCount, SumCount
  DEF Next, MainStep, Terminating

\* So they hold throughout.
THEOREM CacheLinesCounts == Spec => []CountInv
<1>1. Init => CountInv
  BY CacheLinesAssumption
  DEF Init, CountInv, TurnsInv, WorkInv, TestInv, TotalInv, TotalOf, Started, Arrays
<1> QED  BY <1>1, CountNext, CacheLinesInvariant, PTL DEF Spec

\* packed_total and aligned_total are NUM_THREADS * ITERATIONS when main
\* returns: what EndsExact says but for the ending.
THEOREM CacheLinesTotalsExact ==
  Spec => [](main = "end" => \A a \in Arrays : total[a] = NUM_THREADS * ITERATIONS)
<1>1. CountInv => (main = "end" => \A a \in Arrays : total[a] = NUM_THREADS * ITERATIONS)
  BY DEF CountInv, TestInv, TotalInv, TotalOf, Arrays
<1> QED  BY <1>1, CacheLinesCounts, PTL
-----------------------------------------------------------------------------
\* One more turn in an array is one more in its sum.
LEMMA SumGrows ==
  ASSUME NEW f \in [Threads -> Nat], NEW t \in Threads, f[t] < ITERATIONS
  PROVE  SumOf([f EXCEPT ![t] = @ + 1]) = SumOf(f) + 1
<1> DEFINE g == [f EXCEPT ![t] = @ + 1]
           all == Threads \X (1..ITERATIONS)
           in(h) == {p \in all : p[2] <= h[p[1]]}
           new == <<t, f[t] + 1>>
<1>1. f[t] \in Nat /\ ITERATIONS \in Nat /\ f[t] + 1 \in 1..ITERATIONS
  BY CacheLinesAssumption
<1>2. IsFiniteSet(all)
  <2>1. NUM_THREADS - 1 \in Int /\ ITERATIONS \in Int  BY CacheLinesAssumption
  <2>2. IsFiniteSet(Threads) /\ IsFiniteSet(1..ITERATIONS)
    BY <2>1, FS_Interval DEF Threads
  <2> QED  BY <2>2, FS_Product
<1>3. IsFiniteSet(in(f))  BY <1>2, FS_Subset
<1>4. new \notin in(f)  BY <1>1
<1>5. in(g) = in(f) \cup {new}
  <2>1. ASSUME NEW p \in all PROVE p \in in(g) <=> p \in in(f) \/ p = new
    <3>1. p = <<p[1], p[2]>> /\ p[1] \in Threads /\ p[2] \in Nat  BY <1>1
    <3>2. CASE p[1] = t  BY <1>1, <3>1, <3>2
    <3>3. CASE p[1] # t  BY <1>1, <3>1, <3>3
    <3> QED  BY <3>2, <3>3
  <2>2. new \in all  BY <1>1
  <2> QED  BY <2>1, <2>2
<1>6. Cardinality(in(g)) = Cardinality(in(f)) + 1
  <2> HIDE DEF in, new
  <2> QED  BY <1>3, <1>4, <1>5, FS_AddElement
<1> QED  BY <1>6 DEF SumOf

\* A step is a turn of one loop and adds one to the sum of the array, or it
\* leaves both alone.
LEMMA ArrayStep ==
  ASSUME IndInv, CountInv, [Next]_vars, NEW a \in Arrays
  PROVE  \/ counters'[a] = counters[a] /\ turns'[a] = turns[a]
         \/ \E t \in Threads :
              /\ turns[a][t] < ITERATIONS
              /\ turns'[a] = [turns[a] EXCEPT ![t] = @ + 1]
              /\ SumOf(counters'[a]) = SumOf(counters[a]) + 1
<1>0. /\ counters \in [Arrays -> [Threads -> Nat]] /\ test \in Arrays
      /\ turns \in [Arrays -> [Threads -> 0..ITERATIONS]]
  BY DEF IndInv, TypeOK
<1>1. ASSUME NEW t \in Threads, FetchAdd(t)
      PROVE  \/ counters'[a] = counters[a] /\ turns'[a] = turns[a]
             \/ /\ turns[a][t] < ITERATIONS
                /\ turns'[a] = [turns[a] EXCEPT ![t] = @ + 1]
                /\ SumOf(counters'[a]) = SumOf(counters[a]) + 1
  <2>1. /\ counters' = [counters EXCEPT ![test] =
                          [counters[test] EXCEPT ![t] = counters[test][t] + 1]]
        /\ turns' = [turns EXCEPT ![test] = [turns[test] EXCEPT ![t] = turns[test][t] + 1]]
    BY <1>1 DEF FetchAdd, Cell
  <2>2. CASE a # test  BY <1>0, <2>1, <2>2
  <2>3. CASE a = test
    <3>1. turns[a][t] < ITERATIONS /\ counters[a][t] = turns[a][t]
      BY <1>1, <2>3 DEF FetchAdd, CountInv, WorkInv, TurnsInv
    <3>2. counters[a] \in [Threads -> Nat]  BY <1>0
    <3>3. /\ counters'[a] = [counters[a] EXCEPT ![t] = @ + 1]
          /\ turns'[a] = [turns[a] EXCEPT ![t] = @ + 1]
      BY <1>0, <2>1, <2>3
    <3> QED  BY <3>1, <3>2, <3>3, SumGrows
  <2> QED  BY <2>2, <2>3
<1>2. CASE Create
  <2>1. turns' = [turns EXCEPT ![test] = [turns[test] EXCEPT ![i] = 0]] /\ counters' = counters
    BY <1>2 DEF Create
  <2>2. i \in Threads /\ ~Started(i)
    BY <1>2, CacheLinesAssumption DEF Create, Started, IndInv, TypeOK, Threads
  <2>3. turns[test][i] = 0  BY <2>2 DEF CountInv, WorkInv
  <2>4. turns[test] \in [Threads -> 0..ITERATIONS]  BY <1>0
  <2>5. [turns[test] EXCEPT ![i] = 0] = turns[test]  BY <2>3, <2>4
  <2> QED  BY <1>0, <2>1, <2>5
<1>3. ASSUME counters' = counters, turns' = turns
      PROVE  counters'[a] = counters[a] /\ turns'[a] = turns[a]
  BY <1>3
<1> QED
  BY <1>1, <1>2, <1>3
  DEF Next, MainStep, Calloc, Join, Sum, Free, Terminating, vars

\* The sum of an array of zeros.
LEMMA SumZero == SumOf([t \in Threads |-> 0]) = 0
<1>1. {p \in Threads \X (1..ITERATIONS) : p[2] <= [t \in Threads |-> 0][p[1]]} = {}
  BY CacheLinesAssumption
<1> QED  BY <1>1, FS_EmptySet DEF SumOf

\* Each array of counters implements the safety part of AtomicCounter: a
\* fetch_add of packed_worker or aligned_worker is an Add, nothing else shows.
THEOREM CacheLinesRefinesAtomicCounter == Spec => Packed!Spec /\ Aligned!Spec
<1>1. Init => Packed!Init /\ Aligned!Init
  BY SumZero DEF Init, Packed!Init, Aligned!Init, Arrays
<1>2. IndInv /\ CountInv /\ [Next]_vars => [Packed!Next]_(Packed!vars)
  BY ArrayStep DEF Arrays, Packed!Next, Packed!Add, Packed!vars
<1>3. IndInv /\ CountInv /\ [Next]_vars => [Aligned!Next]_(Aligned!vars)
  BY ArrayStep DEF Arrays, Aligned!Next, Aligned!Add, Aligned!vars
<1> QED
  BY <1>1, <1>2, <1>3, CacheLinesInvariant, CacheLinesCounts, PTL
  DEF Spec, Packed!Spec, Aligned!Spec
-----------------------------------------------------------------------------
\* Main or a worker can go on, or main has ended.
NeverStuck == \/ main \in {"calloc", "create", "sum", "free", "end"}
              \/ main = "join" /\ pc[i] = "done"
              \/ \E t \in Threads : pc[t] = "loop"

\* How far main is: its test, its loop in the test and its place in the loop.
MainLoop == (IF test = "packed" THEN 0 ELSE 6)
              + CASE main = "calloc" -> 0 [] main = "create" -> 1
                  [] main = "join" -> 2 [] main = "sum" -> 3
                  [] main = "free" -> 4 [] OTHER -> 5

\* Main gets ahead, or a worker while main stays.
StepsAhead ==
  \/ MainLoop < MainLoop'
  \/ MainLoop = MainLoop' /\ i < i'
  \/ /\ MainLoop = MainLoop' /\ i = i'
     /\ \A t \in Threads : turns[test][t] <= turns'[test][t]
     /\ \E t \in Threads : turns[test][t] < turns'[test][t]

\* No deadlock: main never joins a worker that cannot go on.
THEOREM CacheLinesNeverStuck == Spec => []NeverStuck
<1>1. IndInv /\ CountInv => NeverStuck
  <2> SUFFICES ASSUME IndInv, CountInv, main = "join"
               PROVE  pc[i] \in {"loop", "done"}
    BY DEF NeverStuck, IndInv, TypeOK
  <2>1. i \in Threads /\ ~(i < i)
    BY CacheLinesAssumption DEF IndInv, TypeOK, Threads
  <2> QED  BY <2>1 DEF CountInv, WorkInv, Started
<1> QED  BY <1>1, CacheLinesInvariant, CacheLinesCounts, PTL

\* No livelock: every step gets main ahead in its two tests, or a worker in
\* its loop of ITERATIONS turns; with CacheLinesNeverStuck, main ends.
THEOREM CacheLinesProgress == Spec => [][StepsAhead]_vars
<1>1. IndInv /\ CountInv /\ [Next]_vars => [StepsAhead]_vars
  <2> SUFFICES ASSUME IndInv, CountInv, Next PROVE StepsAhead \/ UNCHANGED vars  OBVIOUS
  <2>1. i \in Nat /\ NUM_THREADS \in Nat /\ i < NUM_THREADS /\ test \in Arrays
    BY CacheLinesAssumption DEF IndInv, TypeOK, Threads
  <2>2. ASSUME NEW t \in Threads, FetchAdd(t) PROVE StepsAhead
    <3>1. /\ turns[test] \in [Threads -> Nat]
          /\ turns'[test] = [turns[test] EXCEPT ![t] = turns[test][t] + 1]
      BY <2>2, CacheLinesAssumption DEF FetchAdd, IndInv, TypeOK
    <3>2. \A u \in Threads : turns[test][u] <= turns'[test][u]  BY <3>1
    <3>3. turns[test][t] < turns'[test][t]  BY <3>1
    <3>4. MainLoop = MainLoop' /\ i = i'  BY <2>2 DEF FetchAdd, MainLoop
    <3> QED  BY <3>2, <3>3, <3>4 DEF StepsAhead
  <2>3. CASE \E b \in Bases : Calloc(b)
    BY <2>1, <2>3 DEF Calloc, StepsAhead, MainLoop
  <2>4. CASE Create  BY <2>1, <2>4 DEF Create, Step, StepsAhead, MainLoop
  <2>5. CASE Join  BY <2>1, <2>5 DEF Join, Step, StepsAhead, MainLoop
  <2>6. CASE Sum  BY <2>1, <2>6 DEF Sum, Step, StepsAhead, MainLoop, Arrays
  <2>7. CASE Free  BY <2>1, <2>7 DEF Free, StepsAhead, MainLoop
  <2> QED
    BY <2>2, <2>3, <2>4, <2>5, <2>6, <2>7 DEF Next, MainStep, Terminating
<1> QED  BY <1>1, CacheLinesInvariant, CacheLinesCounts, PTL DEF Spec
=============================================================================
