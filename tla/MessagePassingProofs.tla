------------------------ MODULE MessagePassingProofs ------------------------
(***************************************************************************)
(* Proofs about message passing on C11 memory (exercises 00, 01 and 04),   *)
(* for mains that run any lists of tests.                                  *)
(***************************************************************************)
EXTENDS MessagePassing, TLAPS

Locs == {"data", "flag"}
Views == [Locs -> Nat \ {0}]
Messages == [val : Nat, view : Views]

\* What the exercises store in each location.
Stored(l) == IF l = "data" THEN {0, 42} ELSE {0, 1}

\* a knows of the newest message of every location.
Knows(a) == \A l \in Locs : view[a][l] = Newest(l)

Types == /\ mem \in [Locs -> Seq(Messages)]
         /\ view \in [Agent -> Views]
         /\ tests \in Programs
         /\ test \in 1..Len(tests)
         /\ main \in {"data", "flag", "cons", "prod", "join", "wait", "returned"}
         /\ prod \in {"unborn", "data", "flag", "done"}
         /\ cons \in {"unborn", "poll", "read", "done", "spin"}
         /\ value \in {0, 42}
         /\ raced \in BOOLEAN

\* No view reaches past the end of a modification order.
BoundInv ==
  /\ \A l \in Locs : Newest(l) >= 1
  /\ \A a \in Agent, l \in Locs : view[a][l] <= Newest(l)
  /\ \A l \in Locs : \A i \in 1..Newest(l) :
       /\ mem[l][i].val \in Stored(l)
       /\ \A m \in Locs : mem[l][i].view[m] <= Newest(m)

\* Which threads live while main is where it is, and who has seen everything:
\* main but while the producer runs, and the producer.
ControlInv ==
  /\ main \in {"data", "flag", "cons", "returned"} => prod = "unborn" /\ cons = "unborn"
  /\ main = "prod" => prod = "unborn" /\ cons # "unborn"
  /\ main = "join" => prod # "unborn" /\ cons # "unborn"
  /\ main = "wait" => prod = "done" /\ cons # "unborn"
  /\ SeesOwnProducer
  /\ main # "join" => Knows("main")
  /\ prod # "unborn" => Knows("prod")

\* The flag: reset until the producer's last step, which adds one message to
\* it; the consumer is at most that message behind.
FlagInv ==
  /\ main \notin {"data", "flag", "returned"} /\ prod # "done" => NewestVal("flag") = 0
  /\ cons # "unborn" /\ prod # "done" => view["cons"]["flag"] = Newest("flag")
  /\ prod = "done" => /\ view["cons"]["flag"] >= Newest("flag") - 1
                      /\ \A i \in 1..Newest("flag") :
                           i >= Newest("flag") - 1 /\ mem["flag"][i].val # 0
                             => i = Newest("flag")

\* The data: reset until the producer's first step, which adds one message to
\* it; without synchronisation the consumer never learns of that message,
\* with it the flag's message tells.
DataInv ==
  /\ cons # "unborn" /\ prod \in {"unborn", "data"} =>
       view["cons"]["data"] = Newest("data")
  /\ prod \in {"flag", "done"} =>
       /\ NewestVal("data") = 42
       /\ Version \notin Synchronised /\ cons \in {"poll", "read"} =>
            view["cons"]["data"] # Newest("data")
  /\ prod = "done" /\ Version \in Synchronised =>
       mem["flag"][Newest("flag")].view["data"] = Newest("data")
  /\ cons = "read" /\ Version \in Synchronised =>
       view["cons"]["data"] = Newest("data")

\* What the consumer ends with.
EndInv == /\ Version \in Synchronised => ~raced
          /\ AssertHolds
          /\ BrokenAlwaysRaces

IndInv == Types /\ BoundInv /\ ControlInv /\ FlagInv /\ DataInv /\ EndInv
-----------------------------------------------------------------------------
\* Facts about the memory.

\* Types of what is read from the memory.
LEMMA MemFacts ==
  ASSUME Types, BoundInv
  PROVE  /\ \A l \in Locs : /\ mem[l] \in Seq(Messages)
                            /\ Newest(l) \in Nat /\ Newest(l) >= 1
         /\ \A l \in Locs : \A i \in 1..Newest(l) : mem[l][i] \in Messages
         /\ \A a \in Agent : view[a] \in Views
         /\ \A a \in Agent, l \in Locs : view[a][l] \in Nat \ {0} /\ view[a][l] <= Newest(l)
<1>1. \A l \in Locs : mem[l] \in Seq(Messages) /\ Newest(l) \in Nat /\ Newest(l) >= 1
  BY DEF Types, BoundInv, Newest
<1>2. \A l \in Locs : \A i \in 1..Newest(l) : mem[l][i] \in Messages
  BY <1>1 DEF Newest
<1>3. \A a \in Agent : view[a] \in Views  BY DEF Types
<1>4. \A a \in Agent, l \in Locs : view[a][l] \in Nat \ {0} /\ view[a][l] <= Newest(l)
  BY <1>3 DEF Views, BoundInv
<1> QED  BY <1>1, <1>2, <1>3, <1>4

\* A merged view is the larger of the two in every place.
LEMMA MergeFacts ==
  ASSUME NEW v \in Views, NEW w \in Views
  PROVE  /\ Merge(v, w) \in Views
         /\ \A l \in Locs : /\ Merge(v, w)[l] >= v[l] /\ Merge(v, w)[l] >= w[l]
                            /\ Merge(v, w)[l] \in {v[l], w[l]}
<1>1. \A l \in Locs : v[l] \in Nat \ {0} /\ w[l] \in Nat \ {0}  BY DEF Views
<1>2. Merge(v, w) = [l \in Locs |-> IF v[l] >= w[l] THEN v[l] ELSE w[l]]
  BY DEF Merge, Locs
<1> QED  BY <1>1, <1>2 DEF Views

\* A store, plain or atomic, adds one message; the writer knows of it.
LEMMA WriteFacts ==
  ASSUME Types, BoundInv, NEW a \in Agent, NEW l \in Locs, NEW val \in Stored(l),
         NEW order, Write(a, l, val, order)
  PROVE  /\ mem' \in [Locs -> Seq(Messages)] /\ view' \in [Agent -> Views]
         /\ \A b \in Agent \ {a} : view'[b] = view[b]
         /\ view'[a][l] = Newest(l) + 1
         /\ \A m \in Locs \ {l} : view'[a][m] = view[a][m]
         /\ \A m \in Locs \ {l} : mem'[m] = mem[m]
         /\ Len(mem'[l]) = Newest(l) + 1
         /\ \A i \in 1..Newest(l) : mem'[l][i] = mem[l][i]
         /\ mem'[l][Newest(l) + 1].val = val
         /\ mem'[l][Newest(l) + 1].view \in Views
         /\ \A m \in Locs : mem'[l][Newest(l) + 1].view[m] <= view'[a][m]
         /\ order \in Releasing => mem'[l][Newest(l) + 1].view = view'[a]
<1> DEFINE w == [view[a] EXCEPT ![l] = Newest(l) + 1]
           c == [Bottom EXCEPT ![l] = Newest(l) + 1]
           carried == IF order \in Releasing THEN w ELSE c
           msg == [val |-> val, view |-> carried]
<1>1. /\ mem' = [mem EXCEPT ![l] = Append(@, msg)]
      /\ view' = [view EXCEPT ![a] = w]
  <2>1. CASE order = "plain"  BY <2>1 DEF Write, PlainStore, Store, Append1, Releasing
  <2>2. CASE order # "plain"  BY <2>2 DEF Write, Store, Append1
  <2> QED  BY <2>1, <2>2
<1>2. Newest(l) + 1 \in Nat \ {0}  BY MemFacts
<1>3. w \in Views /\ w[l] = Newest(l) + 1 /\ \A m \in Locs \ {l} : w[m] = view[a][m]
  BY <1>2, MemFacts DEF Views
<1>4. c \in Views /\ \A m \in Locs : c[m] <= w[m]
  <2>1. Bottom \in Views /\ \A m \in Locs : Bottom[m] = 1  BY DEF Bottom, Views, Locs
  <2>2. c \in Views /\ c[l] = Newest(l) + 1 /\ \A m \in Locs \ {l} : c[m] = 1
    BY <1>2, <2>1 DEF Views
  <2> HIDE DEF c, w
  <2> QED  BY <1>2, <1>3, <2>2, MemFacts
<1> HIDE DEF w, c
<1>5. carried \in Views /\ \A m \in Locs : carried[m] <= w[m]
  BY <1>3, <1>4 DEF Views
<1>6. val \in Nat  BY DEF Stored
<1>7. msg \in Messages /\ msg.val = val /\ msg.view = carried
  BY <1>5, <1>6 DEF Messages
<1>8. order \in Releasing => carried = w  OBVIOUS
<1> HIDE DEF carried, msg
<1>9. /\ mem'[l] = Append(mem[l], msg)
      /\ \A m \in Locs \ {l} : mem'[m] = mem[m]
      /\ mem' \in [Locs -> Seq(Messages)]
  BY <1>1, <1>7 DEF Types
<1>10. /\ Len(mem'[l]) = Newest(l) + 1
       /\ \A i \in 1..Newest(l) : mem'[l][i] = mem[l][i]
       /\ mem'[l][Newest(l) + 1] = msg
  BY <1>7, <1>9, MemFacts DEF Newest
<1>11. /\ view' \in [Agent -> Views] /\ view'[a] = w
       /\ \A b \in Agent \ {a} : view'[b] = view[b]
  BY <1>1, <1>3 DEF Types
<1> QED  BY <1>3, <1>5, <1>7, <1>8, <1>9, <1>10, <1>11

\* The bounds survive a store.
LEMMA WriteBound ==
  ASSUME Types, BoundInv, NEW a \in Agent, NEW l \in Locs, NEW val \in Stored(l),
         NEW order, Write(a, l, val, order)
  PROVE  /\ BoundInv'
         /\ Newest(l)' = Newest(l) + 1
         /\ \A m \in Locs \ {l} : Newest(m)' = Newest(m) /\ NewestVal(m)' = NewestVal(m)
         /\ NewestVal(l)' = val
<1>0. \A k \in Locs : Newest(k) \in Nat /\ Newest(k) >= 1  BY MemFacts
<1>1. /\ Newest(l)' = Newest(l) + 1
      /\ \A m \in Locs \ {l} : Newest(m)' = Newest(m) /\ NewestVal(m)' = NewestVal(m)
      /\ NewestVal(l)' = val
  BY WriteFacts DEF Newest, NewestVal
<1>2. ASSUME NEW b \in Agent, NEW k \in Locs PROVE view'[b][k] <= Newest(k)'
  <2>1. view[b][k] \in Nat /\ view[b][k] <= Newest(k)  BY MemFacts
  <2>2. view'[b][k] = view[b][k] \/ (k = l /\ view'[b][k] = Newest(l) + 1)
    BY WriteFacts
  <2> QED  BY <1>0, <1>1, <2>1, <2>2
<1>3. ASSUME NEW k \in Locs, NEW i \in 1..Newest(k)'
      PROVE  /\ mem'[k][i].val \in Stored(k)
             /\ \A m \in Locs : mem'[k][i].view[m] <= Newest(m)'
  <2>1. CASE i \in 1..Newest(k)
    <3>1. mem'[k][i] = mem[k][i]  BY <2>1, WriteFacts
    <3>2. mem[k][i].val \in Stored(k) /\ \A m \in Locs : mem[k][i].view[m] <= Newest(m)
      BY <2>1 DEF BoundInv
    <3>3. \A m \in Locs : mem[k][i].view[m] \in Nat
      BY <2>1, MemFacts DEF Messages, Views
    <3> QED  BY <1>0, <1>1, <3>1, <3>2, <3>3
  <2>2. CASE k = l /\ i = Newest(l) + 1
    <3> DEFINE g == mem'[l][Newest(l) + 1].view
    <3>1. g \in Views /\ \A m \in Locs : g[m] <= view'[a][m]  BY WriteFacts
    <3>2. mem'[k][i].val \in Stored(k)  BY <2>2, WriteFacts
    <3>3. \A m \in Locs : view'[a][m] \in Nat  BY WriteFacts DEF Views
    <3>4. mem'[k][i].view = g  BY <2>2
    <3> HIDE DEF g
    <3>5. \A m \in Locs : g[m] <= Newest(m)'
      BY <1>0, <1>1, <1>2, <3>1, <3>3 DEF Views
    <3> QED  BY <3>2, <3>4, <3>5
  <2> QED  BY <1>0, <1>1, <2>1, <2>2
<1>4. \A k \in Locs : Newest(k)' >= 1  BY <1>0, <1>1
<1> QED  BY <1>1, <1>2, <1>3, <1>4 DEF BoundInv

\* A store by a thread that knows everything is no race, and it still does.
LEMMA WriteKnowing ==
  ASSUME Types, BoundInv, NEW a \in Agent, NEW l \in Locs, NEW val \in Stored(l),
         NEW order, Write(a, l, val, order), Knows(a)
  PROVE  /\ Knows(a)'
         /\ raced' \in BOOLEAN /\ (raced' <=> raced)
<1>1. Knows(a)'  BY WriteFacts, WriteBound DEF Knows
<1>2. raced' = (raced \/ (order = "plain" /\ Races(a, l)))  BY DEF Write
<1>3. ~Races(a, l)  BY DEF Knows, Races
<1>4. raced' \in BOOLEAN /\ (raced' <=> raced)  BY <1>2, <1>3, Zenon
<1> QED  BY <1>1, <1>4

\* A load by the consumer.
LEMMA ReadFacts ==
  ASSUME Types, BoundInv, NEW l \in Locs, NEW i, NEW order, Read("cons", l, i, order)
  PROVE  /\ mem' = mem
         /\ view' \in [Agent -> Views]
         /\ i \in 1..Newest(l) /\ i >= view["cons"][l]
         /\ \A b \in Agent \ {"cons"} : view'[b] = view[b]
         /\ view'["cons"][l] >= i
         /\ \A m \in Locs : /\ view'["cons"][m] >= view["cons"][m]
                            /\ view'["cons"][m] <= Newest(m)
                            /\ order \in Acquiring =>
                                 view'["cons"][m] >= mem[l][i].view[m]
                            /\ order \notin Acquiring /\ m # l =>
                                 view'["cons"][m] = view["cons"][m]
         /\ raced' \in BOOLEAN
         /\ raced' <=> raced \/ (order = "plain" /\ Races("cons", l))
<1> DEFINE v == [view["cons"] EXCEPT ![l] = i]
           seen == IF order \in Acquiring THEN Merge(v, mem[l][i].view) ELSE v
<1>0. "cons" \in Agent  BY DEF Agent
<1>1. mem' = mem /\ view' = [view EXCEPT !["cons"] = seen] /\ i \in Readable("cons", l)
  <2>1. CASE order = "plain"  BY <2>1 DEF Read, PlainLoad, Load, Seen, Acquiring
  <2>2. CASE order # "plain"  BY <2>2 DEF Read, Load, Seen
  <2> QED  BY <2>1, <2>2
<1>2. i \in 1..Newest(l) /\ i >= view["cons"][l]  BY <1>0, <1>1, MemFacts DEF Readable
<1>3. v \in Views /\ v[l] = i /\ \A m \in Locs \ {l} : v[m] = view["cons"][m]
  BY <1>0, <1>2, MemFacts DEF Views
<1>4. mem[l][i].view \in Views /\ \A m \in Locs : mem[l][i].view[m] <= Newest(m)
  BY <1>2, MemFacts DEF Messages, BoundInv
<1> DEFINE g == mem[l][i].view
<1> HIDE DEF v, g
<1>5. \A m \in Locs : /\ v[m] \in Nat /\ v[m] <= Newest(m) /\ v[m] >= view["cons"][m]
                      /\ g[m] \in Nat /\ g[m] <= Newest(m)
                      /\ Newest(m) \in Nat /\ view["cons"][m] \in Nat
  <2> TAKE m \in Locs
  <2>1. g[m] \in Nat /\ g[m] <= Newest(m)  BY <1>4 DEF g, Views
  <2>2. view["cons"][m] \in Nat /\ view["cons"][m] <= Newest(m) /\ Newest(m) \in Nat
    BY <1>0, MemFacts
  <2>3. CASE m = l  BY <1>2, <1>3, <2>1, <2>2, <2>3
  <2>4. CASE m # l  BY <1>3, <2>1, <2>2, <2>4
  <2> QED  BY <2>3, <2>4
<1>6. /\ Merge(v, g) \in Views
      /\ \A m \in Locs : /\ Merge(v, g)[m] >= v[m] /\ Merge(v, g)[m] >= g[m]
                         /\ Merge(v, g)[m] \in {v[m], g[m]}
  BY <1>3, <1>4, MergeFacts DEF g
<1>7. /\ order \in Acquiring => seen = Merge(v, g)
      /\ order \notin Acquiring => seen = v
  BY DEF g
<1> HIDE DEF seen
<1>8. /\ seen \in Views /\ seen[l] >= i
      /\ \A m \in Locs : /\ seen[m] >= view["cons"][m]
                         /\ seen[m] <= Newest(m)
                         /\ order \in Acquiring => seen[m] >= g[m]
                         /\ order \notin Acquiring /\ m # l => seen[m] = view["cons"][m]
  <2>1. CASE order \in Acquiring
    <3>1. seen = Merge(v, g)  BY <1>7, <2>1
    <3>2. \A m \in Locs : seen[m] \in Nat  BY <1>6, <3>1 DEF Views
    <3> QED  BY <1>3, <1>5, <1>6, <2>1, <3>1, <3>2
  <2>2. CASE order \notin Acquiring  BY <1>2, <1>3, <1>5, <1>7, <2>2
  <2> QED  BY <2>1, <2>2
<1>9. /\ view' \in [Agent -> Views] /\ view'["cons"] = seen
      /\ \A b \in Agent \ {"cons"} : view'[b] = view[b]
  BY <1>0, <1>1, <1>8 DEF Types
<1>10. raced' = (raced \/ (order = "plain" /\ Races("cons", l)))  BY DEF Read
<1>11. /\ raced' \in BOOLEAN
       /\ raced' <=> raced \/ (order = "plain" /\ Races("cons", l))
  BY <1>10, Zenon
<1> QED  BY <1>1, <1>2, <1>8, <1>9, <1>11 DEF g

\* A thread learns what another knows: fork and join.
LEMMA LearnFacts ==
  ASSUME Types, BoundInv, NEW a \in Agent, NEW b \in Agent, Knows(a) \/ Knows(b),
         view' = [view EXCEPT ![a] = Merge(@, view[b])], mem' = mem
  PROVE  /\ view' \in [Agent -> Views] /\ BoundInv'
         /\ \A l \in Locs : Newest(l)' = Newest(l) /\ NewestVal(l)' = NewestVal(l)
         /\ \A c \in Agent \ {a} : view'[c] = view[c]
         /\ Knows(a)'
<1>1. /\ Merge(view[a], view[b]) \in Views
      /\ \A l \in Locs : /\ Merge(view[a], view[b])[l] >= view[a][l]
                         /\ Merge(view[a], view[b])[l] >= view[b][l]
                         /\ Merge(view[a], view[b])[l] \in {view[a][l], view[b][l]}
  BY MergeFacts, MemFacts
<1>2. \A l \in Locs : Merge(view[a], view[b])[l] = Newest(l)
  BY <1>1, MemFacts DEF Knows
<1>3. /\ view' \in [Agent -> Views] /\ view'[a] = Merge(view[a], view[b])
      /\ \A c \in Agent \ {a} : view'[c] = view[c]
  BY <1>1 DEF Types
<1>4. \A l \in Locs : Newest(l)' = Newest(l) /\ NewestVal(l)' = NewestVal(l)
  BY DEF Newest, NewestVal
<1>5. \A c \in Agent, l \in Locs : view'[c][l] <= Newest(l)
  BY <1>2, <1>3, MemFacts
<1>6. BoundInv'  BY <1>4, <1>5 DEF BoundInv
<1>7. Knows(a)'  BY <1>2, <1>3, <1>4 DEF Knows
<1> QED  BY <1>3, <1>4, <1>6, <1>7

\* The memory orders of the running version.
LEMMA Orders ==
  ASSUME Types
  PROVE  /\ Version \in Versions
         /\ Version \in Synchronised => /\ FlagStoreOrder(Version) \in Releasing
                                        /\ FlagLoadOrder(Version) \in Acquiring
                                        /\ FlagLoadOrder(Version) # "plain"
         /\ Version \notin Synchronised => /\ FlagLoadOrder(Version) \notin Acquiring
                                           /\ DataOrder(Version) = "plain"
<1>1. tests \in Seq(Versions) /\ test \in 1..Len(tests)
  BY MessagePassingAssumption DEF Types
<1>2. tests[test] \in Versions  BY <1>1
<1>3. Version \in Versions  BY <1>2 DEF Version
<1> QED
  BY <1>3
  DEF Versions, Synchronised, Releasing, Acquiring, FlagStoreOrder, FlagLoadOrder,
      DataOrder
-----------------------------------------------------------------------------
\* One lemma per kind of step.

\* main resets data.
LEMMA ResetDataStep == ASSUME IndInv, ResetData PROVE IndInv'
<1> USE DEF IndInv
<1> DEFINE order == IF DataOrder(Version) = "plain" THEN "plain" ELSE "seq_cst"
<1>1. /\ main = "data" /\ main' = "flag" /\ Write("main", "data", 0, order)
      /\ UNCHANGED <<tests, test, prod, cons, value>>
  BY DEF ResetData
<1> HIDE DEF order
<1>2. "main" \in Agent /\ "data" \in Locs /\ 0 \in Stored("data")
  BY DEF Agent, Locs, Stored
<1>3. prod = "unborn" /\ cons = "unborn" /\ Knows("main")  BY <1>1 DEF ControlInv
<1>4. Knows("main")' /\ raced' \in BOOLEAN /\ (raced' <=> raced)
  BY <1>1, <1>2, <1>3, WriteKnowing
<1>5. BoundInv'  BY <1>1, <1>2, WriteBound
<1>6. mem' \in [Locs -> Seq(Messages)] /\ view' \in [Agent -> Views]
  BY <1>1, <1>2, WriteFacts
<1>7. Types'  BY <1>1, <1>4, <1>6 DEF Types
<1>8. ControlInv'  BY <1>1, <1>3, <1>4 DEF ControlInv, SeesOwnProducer
<1>9. FlagInv' /\ DataInv'  BY <1>1, <1>3 DEF FlagInv, DataInv
<1>10. EndInv'
  BY <1>1, <1>3, <1>4 DEF EndInv, AssertHolds, BrokenAlwaysRaces, Version
<1> QED  BY <1>5, <1>7, <1>8, <1>9, <1>10

\* main resets the flag.
LEMMA ResetFlagStep == ASSUME IndInv, ResetFlag PROVE IndInv'
<1> USE DEF IndInv
<1> DEFINE order == IF Version = "broken" THEN "plain" ELSE "seq_cst"
<1>1. /\ main = "flag" /\ main' = "cons" /\ Write("main", "flag", 0, order)
      /\ UNCHANGED <<tests, test, prod, cons, value>>
  BY DEF ResetFlag
<1> HIDE DEF order
<1>2. "main" \in Agent /\ "flag" \in Locs /\ 0 \in Stored("flag")
  BY DEF Agent, Locs, Stored
<1>3. prod = "unborn" /\ cons = "unborn" /\ Knows("main")  BY <1>1 DEF ControlInv
<1>4. Knows("main")' /\ raced' \in BOOLEAN /\ (raced' <=> raced)
  BY <1>1, <1>2, <1>3, WriteKnowing
<1>5. BoundInv' /\ NewestVal("flag")' = 0  BY <1>1, <1>2, WriteBound
<1>6. mem' \in [Locs -> Seq(Messages)] /\ view' \in [Agent -> Views]
  BY <1>1, <1>2, WriteFacts
<1>7. Types'  BY <1>1, <1>4, <1>6 DEF Types
<1>8. ControlInv'  BY <1>1, <1>3, <1>4 DEF ControlInv, SeesOwnProducer
<1>9. FlagInv' /\ DataInv'  BY <1>1, <1>3, <1>5 DEF FlagInv, DataInv
<1>10. EndInv'
  BY <1>1, <1>3, <1>4 DEF EndInv, AssertHolds, BrokenAlwaysRaces, Version
<1> QED  BY <1>5, <1>7, <1>8, <1>9, <1>10

\* The consumer starts with all that main knows.
LEMMA CreateConsStep == ASSUME IndInv, CreateCons PROVE IndInv'
<1> USE DEF IndInv
<1>1. /\ main = "cons" /\ main' = "prod" /\ cons' = "poll"
      /\ view' = [view EXCEPT !["cons"] = Merge(@, view["main"])]
      /\ UNCHANGED <<mem, tests, test, prod, value, raced>>
  BY DEF CreateCons, Fork
<1>2. "main" \in Agent /\ "cons" \in Agent /\ "main" # "cons" /\ "data" \in Locs
      /\ "flag" \in Locs
  BY DEF Agent, Locs
<1>3. prod = "unborn" /\ Knows("main") /\ NewestVal("flag") = 0
  BY <1>1 DEF ControlInv, FlagInv
<1>4. /\ view' \in [Agent -> Views] /\ BoundInv'
      /\ \A l \in Locs : Newest(l)' = Newest(l) /\ NewestVal(l)' = NewestVal(l)
      /\ \A c \in Agent \ {"cons"} : view'[c] = view[c]
      /\ Knows("cons")'
  BY <1>1, <1>2, <1>3, LearnFacts
<1>5. Knows("main")'  BY <1>2, <1>3, <1>4 DEF Knows
<1>6. Types'  BY <1>1, <1>4 DEF Types
<1>7. ControlInv'  BY <1>1, <1>3, <1>5 DEF ControlInv, SeesOwnProducer
<1>8. FlagInv'  BY <1>1, <1>2, <1>3, <1>4 DEF FlagInv, Knows
<1>9. DataInv'  BY <1>1, <1>2, <1>3, <1>4 DEF DataInv, Knows
<1>10. EndInv'  BY <1>1 DEF EndInv, AssertHolds, BrokenAlwaysRaces, Version
<1> QED  BY <1>4, <1>6, <1>7, <1>8, <1>9, <1>10

\* So does the producer.
LEMMA CreateProdStep == ASSUME IndInv, CreateProd PROVE IndInv'
<1> USE DEF IndInv
<1>1. /\ main = "prod" /\ main' = "join" /\ prod' = "data"
      /\ view' = [view EXCEPT !["prod"] = Merge(@, view["main"])]
      /\ UNCHANGED <<mem, tests, test, cons, value, raced>>
  BY DEF CreateProd, Fork
<1>2. "main" \in Agent /\ "prod" \in Agent /\ "cons" \in Agent \ {"prod"}
  BY DEF Agent
<1>3. prod = "unborn" /\ cons # "unborn" /\ Knows("main")
      /\ cons \notin {"read", "done"}
  BY <1>1 DEF ControlInv, SeesOwnProducer
<1>4. /\ view' \in [Agent -> Views] /\ BoundInv'
      /\ \A l \in Locs : Newest(l)' = Newest(l) /\ NewestVal(l)' = NewestVal(l)
      /\ \A c \in Agent \ {"prod"} : view'[c] = view[c]
      /\ Knows("prod")'
  BY <1>1, <1>2, <1>3, LearnFacts
<1>5. Types'  BY <1>1, <1>4 DEF Types
<1>6. ControlInv'  BY <1>1, <1>3, <1>4 DEF ControlInv, SeesOwnProducer
<1>7. view'["cons"] = view["cons"] /\ Newest("flag")' = Newest("flag")
      /\ NewestVal("flag")' = NewestVal("flag") /\ Newest("data")' = Newest("data")
  BY <1>2, <1>4 DEF Locs
<1>8. FlagInv'  BY <1>1, <1>3, <1>7 DEF FlagInv
<1>9. DataInv'  BY <1>1, <1>3, <1>7 DEF DataInv
<1>10. EndInv'  BY <1>1, <1>3 DEF EndInv, AssertHolds, BrokenAlwaysRaces, Version
<1> QED  BY <1>4, <1>5, <1>6, <1>8, <1>9, <1>10

\* The producer stores the data.
LEMMA StoreDataStep == ASSUME IndInv, StoreData PROVE IndInv'
<1> USE DEF IndInv
<1>1. /\ prod = "data" /\ prod' = "flag"
      /\ Write("prod", "data", 42, DataOrder(Version))
      /\ UNCHANGED <<tests, test, main, cons, value>>
  BY DEF StoreData
<1>2. "prod" \in Agent /\ "cons" \in Agent \ {"prod"} /\ "data" \in Locs
      /\ "flag" \in Locs \ {"data"} /\ 42 \in Stored("data")
  BY DEF Agent, Locs, Stored
<1>3. main = "join" /\ cons \notin {"unborn", "read", "done"} /\ Knows("prod")
  BY <1>1 DEF Types, ControlInv, SeesOwnProducer
<1>4. Knows("prod")' /\ raced' \in BOOLEAN /\ (raced' <=> raced)
  BY <1>1, <1>2, <1>3, WriteKnowing
<1>5. /\ BoundInv' /\ NewestVal("data")' = 42 /\ Newest("data")' = Newest("data") + 1
      /\ Newest("flag")' = Newest("flag") /\ NewestVal("flag")' = NewestVal("flag")
  BY <1>1, <1>2, WriteBound
<1>6. /\ mem' \in [Locs -> Seq(Messages)] /\ view' \in [Agent -> Views]
      /\ view'["cons"] = view["cons"]
  BY <1>1, <1>2, WriteFacts
<1>7. view["cons"]["data"] = Newest("data") /\ Newest("data") \in Nat
  BY <1>1, <1>2, <1>3, MemFacts DEF DataInv
<1>8. Types'  BY <1>1, <1>4, <1>6 DEF Types
<1>9. ControlInv'  BY <1>1, <1>3, <1>4 DEF ControlInv, SeesOwnProducer
<1>10. FlagInv'  BY <1>1, <1>3, <1>5, <1>6 DEF FlagInv
<1>11. DataInv'  BY <1>1, <1>3, <1>5, <1>6, <1>7 DEF DataInv
<1>12. EndInv'
  BY <1>1, <1>3, <1>4 DEF EndInv, AssertHolds, BrokenAlwaysRaces, Version
<1> QED  BY <1>5, <1>8, <1>9, <1>10, <1>11, <1>12

\* The producer raises the flag; a releasing store tells of the data.
LEMMA StoreFlagStep == ASSUME IndInv, StoreFlag PROVE IndInv'
<1> USE DEF IndInv
<1> DEFINE order == FlagStoreOrder(Version)
<1>1. /\ prod = "flag" /\ prod' = "done" /\ Write("prod", "flag", 1, order)
      /\ UNCHANGED <<tests, test, main, cons, value>>
  BY DEF StoreFlag
<1>2. "prod" \in Agent /\ "cons" \in Agent \ {"prod"} /\ "flag" \in Locs
      /\ "data" \in Locs \ {"flag"} /\ 1 \in Stored("flag")
  BY DEF Agent, Locs, Stored
<1>3. main = "join" /\ cons \notin {"unborn", "read", "done"} /\ Knows("prod")
  BY <1>1 DEF Types, ControlInv, SeesOwnProducer
<1>4. Version \in Synchronised => order \in Releasing  BY Orders
<1> HIDE DEF order
<1>5. Knows("prod")' /\ raced' \in BOOLEAN /\ (raced' <=> raced)
  BY <1>1, <1>2, <1>3, WriteKnowing
<1>6. /\ BoundInv' /\ Newest("flag")' = Newest("flag") + 1
      /\ Newest("data")' = Newest("data") /\ NewestVal("data")' = NewestVal("data")
  BY <1>1, <1>2, WriteBound
<1>7. /\ mem' \in [Locs -> Seq(Messages)] /\ view' \in [Agent -> Views]
      /\ view'["cons"] = view["cons"] /\ view'["prod"]["data"] = view["prod"]["data"]
      /\ \A i \in 1..Newest("flag") : mem'["flag"][i] = mem["flag"][i]
      /\ order \in Releasing => mem'["flag"][Newest("flag") + 1].view = view'["prod"]
  BY <1>1, <1>2, WriteFacts
<1>8. /\ NewestVal("flag") = 0 /\ view["cons"]["flag"] = Newest("flag")
      /\ Newest("flag") \in Nat /\ Newest("flag") >= 1
  BY <1>1, <1>2, <1>3, MemFacts DEF FlagInv
<1>9. Types'  BY <1>1, <1>5, <1>7 DEF Types
<1>10. ControlInv'  BY <1>1, <1>3, <1>5 DEF ControlInv, SeesOwnProducer
<1>11. FlagInv'
  <2>1. ASSUME NEW i \in 1..Newest("flag")', i >= Newest("flag")' - 1,
               mem'["flag"][i].val # 0
        PROVE  i = Newest("flag")'
    <3>1. i # Newest("flag")  BY <1>7, <1>8, <2>1 DEF NewestVal
    <3> QED  BY <1>6, <1>8, <2>1, <3>1
  <2> QED  BY <1>1, <1>6, <1>7, <1>8, <2>1 DEF FlagInv
<1>12. DataInv'
  <2>1. order \in Releasing => mem'["flag"][Newest("flag")'].view["data"] = Newest("data")'
    BY <1>2, <1>3, <1>6, <1>7 DEF Knows
  <2>2. Version' = Version  BY <1>1 DEF Version
  <2> QED  BY <1>1, <1>3, <1>4, <1>6, <1>7, <2>1, <2>2 DEF DataInv
<1>13. EndInv'
  BY <1>1, <1>3, <1>5 DEF EndInv, AssertHolds, BrokenAlwaysRaces, Version
<1> QED  BY <1>6, <1>9, <1>10, <1>11, <1>12, <1>13

\* The consumer polls: it leaves its loop only by this test's raised flag.
LEMMA PollStep == ASSUME IndInv, NEW i, Poll(i) PROVE IndInv'
<1> USE DEF IndInv
<1> DEFINE order == FlagLoadOrder(Version)
<1>1. /\ cons = "poll" /\ Read("cons", "flag", i, order)
      /\ \/ mem["flag"][i].val # 0 /\ cons' = "read"
         \/ mem["flag"][i].val = 0 /\ cons' \in {"poll", "spin"}
      /\ UNCHANGED <<tests, test, main, prod, value>>
  BY DEF Poll, Leaves
<1>2. "cons" \in Agent /\ "main" \in Agent \ {"cons"} /\ "prod" \in Agent \ {"cons"}
      /\ "data" \in Locs /\ "flag" \in Locs /\ "data" # "flag"
  BY DEF Agent, Locs
<1>3. /\ Version \in Synchronised => order \in Acquiring /\ order # "plain"
      /\ Version \notin Synchronised => order \notin Acquiring
  BY Orders
<1> HIDE DEF order
<1>4. /\ mem' = mem /\ view' \in [Agent -> Views]
      /\ i \in 1..Newest("flag") /\ i >= view["cons"]["flag"]
      /\ view'["main"] = view["main"] /\ view'["prod"] = view["prod"]
      /\ \A b \in Agent \ {"cons"} : view'[b] = view[b]
      /\ view'["cons"]["flag"] >= i
      /\ \A m \in Locs : /\ view'["cons"][m] >= view["cons"][m]
                         /\ view'["cons"][m] <= Newest(m)
                         /\ order \in Acquiring =>
                              view'["cons"][m] >= mem["flag"][i].view[m]
                         /\ order \notin Acquiring /\ m # "flag" =>
                              view'["cons"][m] = view["cons"][m]
      /\ raced' \in BOOLEAN
      /\ raced' <=> raced \/ (order = "plain" /\ Races("cons", "flag"))
  BY <1>1, <1>2, ReadFacts
<1>5. \A l \in Locs : /\ Newest(l)' = Newest(l) /\ NewestVal(l)' = NewestVal(l)
                      /\ Newest(l) \in Nat /\ view["cons"][l] \in Nat
                      /\ view'["cons"][l] \in Nat
  BY <1>2, <1>4, MemFacts DEF Newest, NewestVal, Views
<1>6. cons' = "read" => i = Newest("flag") /\ prod = "done"
  <2> SUFFICES ASSUME cons' = "read" PROVE i = Newest("flag") /\ prod = "done"
    OBVIOUS
  <2>1. mem["flag"][i].val # 0  BY <1>1
  <2>2. CASE prod = "done"  BY <1>2, <1>4, <1>5, <2>1, <2>2 DEF FlagInv
  <2>3. CASE prod # "done"
    <3>1. i = Newest("flag")  BY <1>1, <1>2, <1>4, <1>5, <2>3 DEF FlagInv
    <3>2. main \in {"prod", "join"}  BY <1>1, <2>3 DEF Types, ControlInv
    <3> QED  BY <2>1, <2>3, <3>1, <3>2 DEF FlagInv, NewestVal
  <2> QED  BY <2>2, <2>3
<1>7. Types'  BY <1>1, <1>4 DEF Types
<1>8. BoundInv'
  <2>1. \A b \in Agent, m \in Locs : view'[b][m] <= Newest(m)  BY <1>4, MemFacts
  <2> QED  BY <1>4, <1>5, <2>1 DEF BoundInv
<1>9. ControlInv'
  <2>1. Knows("main")' <=> Knows("main")  BY <1>4, <1>5 DEF Knows
  <2>2. Knows("prod")' <=> Knows("prod")  BY <1>4, <1>5 DEF Knows
  <2> QED  BY <1>1, <1>6, <2>1, <2>2 DEF ControlInv, SeesOwnProducer
<1>10. FlagInv'
  BY <1>1, <1>2, <1>4, <1>5 DEF FlagInv
<1>11. DataInv'
  <2>0. Version' = Version  BY <1>1 DEF Version
  <2>1. cons' # "unborn" /\ prod' \in {"unborn", "data"} =>
          view'["cons"]["data"] = Newest("data")'
    BY <1>1, <1>2, <1>4, <1>5 DEF DataInv
  <2>2. prod' \in {"flag", "done"} =>
          /\ NewestVal("data")' = 42
          /\ Version' \notin Synchronised /\ cons' \in {"poll", "read"} =>
               view'["cons"]["data"] # Newest("data")'
    BY <1>1, <1>2, <1>3, <1>4, <1>5, <2>0 DEF DataInv
  <2>3. prod' = "done" /\ Version' \in Synchronised =>
          mem'["flag"][Newest("flag")'].view["data"] = Newest("data")'
    BY <1>1, <1>2, <1>4, <1>5, <2>0 DEF DataInv
  <2>4. cons' = "read" /\ Version' \in Synchronised =>
          view'["cons"]["data"] = Newest("data")'
    <3> SUFFICES ASSUME cons' = "read", Version \in Synchronised
                 PROVE  view'["cons"]["data"] = Newest("data")
      BY <1>2, <1>5, <2>0
    <3>1. mem["flag"][i].view["data"] = Newest("data")  BY <1>6 DEF DataInv
    <3> QED  BY <1>2, <1>3, <1>4, <1>5, <3>1
  <2> QED  BY <2>1, <2>2, <2>3, <2>4 DEF DataInv
<1>12. EndInv'
  BY <1>1, <1>3, <1>4 DEF EndInv, AssertHolds, BrokenAlwaysRaces, Version
<1> QED  BY <1>7, <1>8, <1>9, <1>10, <1>11, <1>12

\* The consumer reads the data: the newest with synchronisation, in a race
\* without it.
LEMMA ReadDataStep == ASSUME IndInv, NEW i, ReadData(i) PROVE IndInv'
<1> USE DEF IndInv
<1> DEFINE order == DataOrder(Version)
<1>1. /\ cons = "read" /\ cons' = "done" /\ Read("cons", "data", i, order)
      /\ value' = mem["data"][i].val
      /\ UNCHANGED <<tests, test, main, prod>>
  BY DEF ReadData
<1>2. "cons" \in Agent /\ "data" \in Locs /\ "flag" \in Locs
  BY DEF Agent, Locs
<1>3. Version \notin Synchronised => order = "plain"  BY Orders
<1> HIDE DEF order
<1>4. /\ mem' = mem /\ view' \in [Agent -> Views]
      /\ i \in 1..Newest("data") /\ i >= view["cons"]["data"]
      /\ \A b \in Agent \ {"cons"} : view'[b] = view[b]
      /\ \A m \in Locs : /\ view'["cons"][m] >= view["cons"][m]
                         /\ view'["cons"][m] <= Newest(m)
      /\ raced' \in BOOLEAN
      /\ raced' <=> raced \/ (order = "plain" /\ Races("cons", "data"))
  BY <1>1, <1>2, ReadFacts
<1>5. /\ view'["main"] = view["main"] /\ view'["prod"] = view["prod"]
      /\ \A l \in Locs : /\ Newest(l)' = Newest(l) /\ NewestVal(l)' = NewestVal(l)
                         /\ Newest(l) \in Nat /\ view["cons"][l] \in Nat
                         /\ view'["cons"][l] \in Nat
  BY <1>2, <1>4, MemFacts DEF Newest, NewestVal, Agent, Views
<1>6. prod = "done"  BY <1>1 DEF ControlInv, SeesOwnProducer
<1>7. mem["data"][i].val \in {0, 42}  BY <1>2, <1>4 DEF BoundInv, Stored
<1>8. Types'  BY <1>1, <1>4, <1>7 DEF Types
<1>9. BoundInv'
  <2>1. \A b \in Agent, m \in Locs : view'[b][m] <= Newest(m)  BY <1>4, MemFacts
  <2> QED  BY <1>4, <1>5, <2>1 DEF BoundInv
<1>10. ControlInv'
  <2>1. Knows("main")' <=> Knows("main")  BY <1>4, <1>5 DEF Knows
  <2>2. Knows("prod")' <=> Knows("prod")  BY <1>4, <1>5 DEF Knows
  <2> QED  BY <1>1, <1>6, <2>1, <2>2 DEF ControlInv, SeesOwnProducer
<1>11. FlagInv'  BY <1>1, <1>2, <1>4, <1>5, <1>6 DEF FlagInv
<1>12. DataInv'  BY <1>1, <1>2, <1>4, <1>5, <1>6 DEF DataInv, Version
<1>13. Version \in Synchronised => ~Races("cons", "data") /\ value' = 42
  BY <1>1, <1>2, <1>4, <1>5, <1>6 DEF DataInv, Races, NewestVal
<1>14. Version \notin Synchronised => order = "plain" /\ Races("cons", "data")
  BY <1>1, <1>3, <1>6 DEF DataInv, Races
<1>15. EndInv'
  BY <1>1, <1>4, <1>13, <1>14 DEF EndInv, AssertHolds, BrokenAlwaysRaces, Version
<1> QED  BY <1>8, <1>9, <1>10, <1>11, <1>12, <1>15

\* main joins the producer and knows everything again.
LEMMA JoinProdStep == ASSUME IndInv, JoinProd PROVE IndInv'
<1> USE DEF IndInv
<1>1. /\ main = "join" /\ main' = "wait" /\ prod = "done"
      /\ view' = [view EXCEPT !["main"] = Merge(@, view["prod"])]
      /\ UNCHANGED <<mem, tests, test, prod, cons, value, raced>>
  BY DEF JoinProd, Await
<1>2. "main" \in Agent /\ "prod" \in Agent \ {"main"} /\ "cons" \in Agent \ {"main"}
  BY DEF Agent
<1>3. cons # "unborn" /\ Knows("prod")  BY <1>1 DEF ControlInv
<1>4. /\ view' \in [Agent -> Views] /\ BoundInv'
      /\ \A l \in Locs : Newest(l)' = Newest(l) /\ NewestVal(l)' = NewestVal(l)
      /\ \A c \in Agent \ {"main"} : view'[c] = view[c]
      /\ Knows("main")'
  BY <1>1, <1>2, <1>3, LearnFacts
<1>5. Types'  BY <1>1, <1>4 DEF Types
<1>6. Knows("prod")'  BY <1>2, <1>3, <1>4 DEF Knows
<1>7. ControlInv'  BY <1>1, <1>3, <1>4, <1>6 DEF ControlInv, SeesOwnProducer
<1>8. view'["cons"] = view["cons"] /\ Newest("flag")' = Newest("flag")
      /\ NewestVal("data")' = NewestVal("data") /\ Newest("data")' = Newest("data")
  BY <1>2, <1>4 DEF Locs
<1>9. FlagInv'  BY <1>1, <1>8 DEF FlagInv
<1>10. DataInv'  BY <1>1, <1>8 DEF DataInv, Version
<1>11. EndInv'  BY <1>1 DEF EndInv, AssertHolds, BrokenAlwaysRaces, Version
<1> QED  BY <1>4, <1>5, <1>7, <1>9, <1>10, <1>11

\* main joins the consumer; the next test starts from scratch.
LEMMA JoinConsStep == ASSUME IndInv, JoinCons PROVE IndInv'
<1> USE DEF IndInv
<1>1. /\ main = "wait" /\ main' \in {"data", "returned"}
      /\ view' = [view EXCEPT !["main"] = Merge(@, view["cons"])]
      /\ prod' = "unborn" /\ cons' = "unborn" /\ raced' = FALSE
      /\ \/ test < Len(tests) /\ test' = test + 1
         \/ test' = test
      /\ UNCHANGED <<mem, tests, value>>
  BY DEF JoinCons, Await, MoreTests
<1>2. "main" \in Agent /\ "cons" \in Agent  BY DEF Agent
<1>3. Knows("main")  BY <1>1 DEF ControlInv
<1>4. view' \in [Agent -> Views] /\ BoundInv' /\ Knows("main")'
  BY <1>1, <1>2, <1>3, LearnFacts
<1>5. tests \in Seq(Versions)  BY MessagePassingAssumption DEF Types
<1>6. test' \in 1..Len(tests)  BY <1>1, <1>5 DEF Types
<1>7. Types'  BY <1>1, <1>4, <1>6 DEF Types
<1>8. ControlInv'  BY <1>1, <1>4 DEF ControlInv, SeesOwnProducer
<1>9. FlagInv' /\ DataInv'  BY <1>1 DEF FlagInv, DataInv
<1>10. EndInv'  BY <1>1 DEF EndInv, AssertHolds, BrokenAlwaysRaces
<1> QED  BY <1>4, <1>7, <1>8, <1>9, <1>10

\* One message for each variable, known to everybody.
LEMMA IndInit == Init => IndInv
<1> SUFFICES ASSUME Init PROVE IndInv  OBVIOUS
<1> DEFINE first == [val |-> 0, view |-> Bottom]
<1>1. /\ mem = [l \in Locs |-> <<first>>]
      /\ view = [a \in Agent |-> Bottom]
      /\ tests \in Programs /\ test = 1 /\ main = "data" /\ prod = "unborn"
      /\ cons = "unborn" /\ value = 0 /\ raced = FALSE
  BY DEF Init, MemInit, Locs
<1>2. Bottom \in Views /\ \A l \in Locs : Bottom[l] = 1  BY DEF Bottom, Views, Locs
<1>3. first \in Messages /\ first.val = 0 /\ first.view = Bottom
  BY <1>2 DEF Messages
<1> HIDE DEF first
<1>4. \A l \in Locs : mem[l] = <<first>> /\ Newest(l) = 1 /\ mem[l][1] = first
  BY <1>1 DEF Newest
<1>5. mem \in [Locs -> Seq(Messages)] /\ view \in [Agent -> Views]
  BY <1>1, <1>2, <1>3
<1>6. test \in 1..Len(tests)
  <2>1. tests \in Seq(Versions) /\ tests # <<>>  BY <1>1, MessagePassingAssumption
  <2>2. Len(tests) \in Nat /\ Len(tests) # 0  BY <2>1
  <2> QED  BY <1>1, <2>2
<1>7. Types  BY <1>1, <1>5, <1>6 DEF Types
<1>8. \A a \in Agent : view[a] = Bottom  BY <1>1
<1>9. BoundInv  BY <1>2, <1>3, <1>4, <1>8 DEF BoundInv, Stored
<1>10. Knows("main")  BY <1>2, <1>4, <1>8 DEF Knows, Agent
<1>11. ControlInv  BY <1>1, <1>10 DEF ControlInv, SeesOwnProducer
<1>12. FlagInv /\ DataInv  BY <1>1 DEF FlagInv, DataInv
<1>13. EndInv  BY <1>1 DEF EndInv, AssertHolds, BrokenAlwaysRaces
<1> QED  BY <1>7, <1>9, <1>11, <1>12, <1>13 DEF IndInv

\* Every step keeps the invariant.
LEMMA IndNext == IndInv /\ [Next]_vars => IndInv'
<1> SUFFICES ASSUME IndInv, [Next]_vars PROVE IndInv'  OBVIOUS
<1>1. CASE UNCHANGED vars
  <2> USE <1>1 DEF vars, IndInv
  <2>1. Types' /\ BoundInv'  BY DEF Types, BoundInv, Newest
  <2>2. Version' = Version /\ \A l \in Locs : Newest(l)' = Newest(l)
    BY DEF Version, Newest
  <2>3. ControlInv'  BY <2>2 DEF ControlInv, SeesOwnProducer, Knows
  <2>4. FlagInv' /\ DataInv'  BY <2>2 DEF FlagInv, DataInv, NewestVal, Locs
  <2>5. EndInv'  BY <2>2 DEF EndInv, AssertHolds, BrokenAlwaysRaces
  <2> QED  BY <2>1, <2>3, <2>4, <2>5
<1>2. CASE Main
  BY <1>2, ResetDataStep, ResetFlagStep, CreateConsStep, CreateProdStep,
     JoinProdStep, JoinConsStep
  DEF Main
<1>3. CASE Producer  BY <1>3, StoreDataStep, StoreFlagStep DEF Producer
<1>4. CASE Consumer  BY <1>4, PollStep, ReadDataStep DEF Consumer
<1> QED  BY <1>1, <1>2, <1>3, <1>4 DEF Next, Spin, Terminating
-----------------------------------------------------------------------------
\* The inductive invariant holds throughout.
THEOREM MessageInvariant == Spec => []IndInv
  BY IndInit, IndNext, PTL DEF Spec

\* Types; in particular no test beyond the last.
THEOREM MessageTypes == Spec => []TypeOK
<1>1. IndInv => TypeOK
  <2> SUFFICES ASSUME IndInv PROVE TypeOK  OBVIOUS
  <2> USE DEF IndInv
  <2>1. ASSUME NEW l \in Locs, NEW i \in 1..Newest(l)
        PROVE  /\ mem[l][i].val \in Stored(l)
               /\ \A m \in Locs : mem[l][i].view[m] \in 1..Newest(m)
    <3>1. mem[l][i].view \in Views  BY MemFacts DEF Messages
    <3> QED  BY <3>1, MemFacts DEF Views, BoundInv
  <2>2. \A a \in Agent, l \in Locs : view[a][l] \in 1..Newest(l)  BY MemFacts
  <2> QED  BY <2>1, <2>2 DEF Types, TypeOK, Locs, Stored
<1> QED  BY <1>1, MessageInvariant, PTL

\* The assertions of consumer_seqcst and consumer_acqrel hold, and the check
\* of message_consumer_correct, in every list of tests.
THEOREM MessageAssertHolds == Spec => []AssertHolds
<1>1. IndInv => AssertHolds  BY DEF IndInv, EndInv
<1> QED  BY <1>1, MessageInvariant, PTL

\* The synchronised versions have no data race, the resets of main included.
THEOREM MessageRaceFree == Spec => []RaceFree
<1>1. IndInv => RaceFree  BY DEF IndInv, EndInv, RaceFree
<1> QED  BY <1>1, MessageInvariant, PTL

\* The versions with a plain or relaxed flag race whenever their consumer
\* gets through (message_consumer_broken, consumer_broken).
THEOREM MessageBrokenAlwaysRaces == Spec => []BrokenAlwaysRaces
<1>1. IndInv => BrokenAlwaysRaces  BY DEF IndInv, EndInv
<1> QED  BY <1>1, MessageInvariant, PTL

\* A consumer never leaves its loop because of an earlier test's flag.
THEOREM MessageSeesOwnProducer == Spec => []SeesOwnProducer
<1>1. IndInv => SeesOwnProducer  BY DEF IndInv, ControlInv
<1> QED  BY <1>1, MessageInvariant, PTL
-----------------------------------------------------------------------------
\* Progress.  Liveness itself is TLC's; what it rests on is proved: the
\* program never waits for ever, and every step gets it ahead.

\* A flag that was stored stays raised for this test, and only a plain flag
\* is kept in a register.
LiveInv == /\ prod = "done" => NewestVal("flag") = 1
           /\ cons = "spin" => Version = "broken"

\* Every step keeps it.
LEMMA LiveNext == IndInv /\ LiveInv /\ [Next]_vars => LiveInv'
<1> SUFFICES ASSUME IndInv, LiveInv, [Next]_vars PROVE LiveInv'  OBVIOUS
<1> USE DEF IndInv
<1>1. CASE mem' = mem /\ prod' = prod /\ cons' = cons /\ UNCHANGED <<tests, test>>
  BY <1>1 DEF LiveInv, NewestVal, Newest, Version
<1>2. CASE ResetData  BY <1>2 DEF ResetData, LiveInv, ControlInv
<1>3. CASE ResetFlag  BY <1>3 DEF ResetFlag, LiveInv, ControlInv
<1>4. CASE CreateCons
  BY <1>4 DEF CreateCons, LiveInv, NewestVal, Newest
<1>5. CASE CreateProd  BY <1>5 DEF CreateProd, LiveInv, Version
<1>6. CASE JoinCons  BY <1>6 DEF JoinCons, LiveInv
<1>7. CASE StoreData  BY <1>7 DEF StoreData, LiveInv, Version
<1>8. CASE StoreFlag
  <2>1. "prod" \in Agent /\ "flag" \in Locs /\ 1 \in Stored("flag")
    BY DEF Agent, Locs, Stored
  <2>2. NewestVal("flag")' = 1  BY <1>8, <2>1, WriteBound DEF StoreFlag
  <2> QED  BY <1>8, <2>2 DEF StoreFlag, LiveInv, Version
<1>9. ASSUME NEW i, Poll(i) PROVE LiveInv'
  <2>1. mem' = mem  BY <1>9, ReadFacts DEF Poll, Locs
  <2> QED  BY <1>9, <2>1 DEF Poll, LiveInv, NewestVal, Newest, Version
<1>10. ASSUME NEW i, ReadData(i) PROVE LiveInv'
  <2>1. mem' = mem  BY <1>10, ReadFacts DEF ReadData, Locs
  <2> QED  BY <1>10, <2>1 DEF ReadData, LiveInv, NewestVal, Newest
<1> QED
  BY <1>1, <1>2, <1>3, <1>4, <1>5, <1>6, <1>7, <1>8, <1>9, <1>10
  DEF Next, Main, Producer, Consumer, Spin, Terminating, JoinProd, vars

\* The guard of some step that gets a thread ahead holds: of main, of the
\* producer, or of a consumer that reads the newest message.
CanAdvance ==
  \/ main \in {"data", "flag", "cons", "prod"}
  \/ main = "join" /\ prod = "done"
  \/ main = "wait" /\ cons = "done"
  \/ prod \in {"data", "flag"}
  \/ cons = "poll" /\ Newest("flag") \in Readable("cons", "flag")
       /\ Leaves(NewestVal("flag"))
  \/ cons = "read" /\ Newest("data") \in Readable("cons", "data")

\* No step is missing: until main returns some thread can get ahead, but for
\* main joining the consumer of a plain flag that is kept in a register.
NeverStuck == \/ main = "returned"
              \/ main = "wait" /\ cons = "spin" /\ Version = "broken"
              \/ CanAdvance

\* No deadlock and no lost flag, in every list of tests: the mains of the
\* three exercises never wait for something nobody will do.
THEOREM MessageNeverStuck == Spec => []NeverStuck
<1>1. Init => LiveInv  BY DEF Init, LiveInv
<1>2. IndInv /\ LiveInv => NeverStuck
  <2> SUFFICES ASSUME IndInv, LiveInv, ~CanAdvance, main # "returned"
               PROVE  main = "wait" /\ cons = "spin" /\ Version = "broken"
    BY DEF NeverStuck
  <2> USE DEF IndInv
  <2>1. \A l \in Locs : Newest(l) \in Readable("cons", l)
    BY MemFacts DEF Readable, Agent
  <2>2. main \in {"join", "wait"}  BY DEF CanAdvance, Types
  <2>3. prod = "done" /\ main = "wait"
    BY <2>2 DEF CanAdvance, Types, ControlInv
  <2>4. cons \in {"poll", "read", "spin"}
    BY <2>3 DEF CanAdvance, Types, ControlInv
  <2>5. cons # "poll" /\ cons # "read"
    BY <2>1, <2>3 DEF CanAdvance, LiveInv, Leaves, Locs
  <2> QED  BY <2>3, <2>4, <2>5 DEF LiveInv
<1> QED  BY <1>1, <1>2, LiveNext, MessageInvariant, PTL DEF Spec

\* How far each thread is in its code.
MainPlace == CASE main = "data" -> 0 [] main = "flag" -> 1 [] main = "cons" -> 2
               [] main = "prod" -> 3 [] main = "join" -> 4 [] main = "wait" -> 5
               [] OTHER -> 6
ProdPlace == CASE prod = "unborn" -> 0 [] prod = "data" -> 1 [] prod = "flag" -> 2
               [] OTHER -> 3
ConsPlace == CASE cons = "unborn" -> 0 [] cons = "poll" -> 1 [] cons = "read" -> 2
               [] OTHER -> 3

\* A poll that found 0 brought the consumer a newer message, or was the first
\* race of the test; MessageTypes bounds the views by the modification orders.
SeesMore ==
  /\ mem' = mem
  /\ \A a \in Agent, l \in Locs : view[a][l] <= view'[a][l]
  /\ (\E l \in Locs : view["cons"][l] < view'["cons"][l]) \/ (~raced /\ raced')

\* main gets ahead; or the producer does while main stays; or the consumer
\* while both stay.
StepsAhead ==
  \/ test < test'
  \/ test' = test /\ MainPlace < MainPlace'
  \/ UNCHANGED <<test, main>> /\ ProdPlace < ProdPlace'
  \/ UNCHANGED <<test, main, prod>> /\ ConsPlace < ConsPlace'
  \/ UNCHANGED <<test, main, prod, cons>> /\ SeesMore

\* A poll that finds 0 tells the consumer more or changes nothing.
LEMMA PollAhead ==
  ASSUME IndInv, NEW i, Poll(i) PROVE StepsAhead \/ UNCHANGED vars
<1> USE DEF IndInv
<1> DEFINE order == FlagLoadOrder(Version)
<1>1. /\ cons = "poll" /\ cons' \in {"read", "poll", "spin"}
      /\ Read("cons", "flag", i, order)
      /\ UNCHANGED <<tests, test, main, prod, value>>
  BY DEF Poll
<1> HIDE DEF order
<1>2. "cons" \in Agent /\ "flag" \in Locs  BY DEF Agent, Locs
<1>3. /\ mem' = mem /\ view' \in [Agent -> Views]
      /\ \A b \in Agent \ {"cons"} : view'[b] = view[b]
      /\ \A m \in Locs : view'["cons"][m] >= view["cons"][m]
      /\ raced' \in BOOLEAN
      /\ raced' <=> raced \/ (order = "plain" /\ Races("cons", "flag"))
  BY <1>1, <1>2, ReadFacts
<1>4. \A a \in Agent, l \in Locs :
        view[a][l] \in Nat /\ view'[a][l] \in Nat /\ view[a][l] <= view'[a][l]
  BY <1>2, <1>3, MemFacts DEF Views
<1>5. CASE cons' # "poll"  BY <1>1, <1>5 DEF StepsAhead, ConsPlace
<1>6. CASE cons' = "poll" /\ \E l \in Locs : view["cons"][l] # view'["cons"][l]
  <2>1. SeesMore  BY <1>2, <1>3, <1>4, <1>6 DEF SeesMore
  <2> QED  BY <1>1, <1>6, <2>1 DEF StepsAhead
<1>7. CASE cons' = "poll" /\ raced' # raced
  <2>1. /\ raced = TRUE \/ raced = FALSE
        /\ raced' = TRUE \/ raced' = FALSE
        /\ raced => raced'
    BY <1>3 DEF Types
  <2>2. ~raced /\ raced'  BY <1>7, <2>1, Zenon
  <2>3. SeesMore  BY <1>3, <1>4, <2>2 DEF SeesMore
  <2> QED  BY <1>1, <1>7, <2>3 DEF StepsAhead
<1>8. CASE cons' = "poll" /\ raced' = raced
             /\ \A l \in Locs : view["cons"][l] = view'["cons"][l]
  <2>1. view["cons"] \in [Locs -> Nat \ {0}] /\ view'["cons"] \in [Locs -> Nat \ {0}]
    BY <1>2, <1>3, MemFacts DEF Views
  <2>2. view'["cons"] = view["cons"]  BY <1>8, <2>1
  <2>3. view' = view  BY <1>2, <1>3, <2>2 DEF Types
  <2> QED  BY <1>1, <1>3, <1>8, <2>3 DEF vars
<1> QED  BY <1>5, <1>6, <1>7, <1>8

\* No livelock: every step that changes anything gets the program ahead in an
\* order that has an end, however often the consumer polls.  With
\* MessageNeverStuck, all tests are run unless a plain flag is kept in a
\* register.
THEOREM MessageProgress == Spec => [][StepsAhead]_vars
<1>1. IndInv /\ [Next]_vars => [StepsAhead]_vars
  <2> SUFFICES ASSUME IndInv, Next PROVE StepsAhead \/ UNCHANGED vars  OBVIOUS
  <2>1. CASE ResetData  BY <2>1 DEF ResetData, StepsAhead, MainPlace
  <2>2. CASE ResetFlag  BY <2>2 DEF ResetFlag, StepsAhead, MainPlace
  <2>3. CASE CreateCons  BY <2>3 DEF CreateCons, StepsAhead, MainPlace
  <2>4. CASE CreateProd  BY <2>4 DEF CreateProd, StepsAhead, MainPlace
  <2>5. CASE JoinProd  BY <2>5 DEF JoinProd, StepsAhead, MainPlace
  <2>6. CASE JoinCons
    <3>1. test \in Nat  BY DEF IndInv, Types
    <3> QED  BY <2>6, <3>1 DEF JoinCons, StepsAhead, MainPlace
  <2>7. CASE StoreData  BY <2>7 DEF StoreData, StepsAhead, ProdPlace
  <2>8. CASE StoreFlag  BY <2>8 DEF StoreFlag, StepsAhead, ProdPlace
  <2>9. ASSUME NEW i, ReadData(i) PROVE StepsAhead
    BY <2>9 DEF ReadData, StepsAhead, ConsPlace
  <2> QED
    BY <2>1, <2>2, <2>3, <2>4, <2>5, <2>6, <2>7, <2>8, <2>9, PollAhead
    DEF Next, Main, Producer, Consumer, Spin, Terminating
<1> QED  BY <1>1, MessageInvariant, PTL DEF Spec
=============================================================================
