--------------------------- MODULE MessagePassing ---------------------------
(***************************************************************************)
(* Exercises 00, 01 and 04: one thread writes data and then a flag, the    *)
(* other polls the flag and then reads data, in five versions that differ  *)
(* in how the two variables are accessed; main runs a sequence of them on  *)
(* the same variables, resetting both before each.                         *)
(*                                                                         *)
(* Exercise 04 has a plain and an atomic pair of variables.  A version     *)
(* uses one pair only and all are reset before each, so one pair of        *)
(* locations stands for the pair the version uses.                         *)
(***************************************************************************)
EXTENDS Naturals, Sequences

CONSTANT Programs    \* the lists of versions that the mains run, in order

Versions == {"broken",    \* 04: plain data, plain flag
             "relaxed",   \* 01: plain data, relaxed flag
             "correct",   \* 01: plain data, release/acquire flag
             "acqrel",    \* 00 and 04: relaxed data, release/acquire flag
             "seqcst"}    \* 04: both seq_cst

ASSUME MessagePassingAssumption ==
  Programs \subseteq Seq(Versions) \ {<<>>}

VARIABLES
  mem, view,  \* C11 memory
  tests,      \* the list this main runs
  test,       \* index of the running test
  main,       \* "data", "flag" (reset), "cons", "prod" (create), "join", "wait",
              \* "returned"
  prod,       \* "unborn", "data", "flag", "done"
  cons,       \* "unborn", "poll", "read", "done", or "spin": a plain flag
              \* kept in a register, the loop never looks at memory again
  value,      \* what the consumer printed
  raced       \* some plain access of this test was a data race

vars == <<mem, view, tests, test, main, prod, cons, value, raced>>

Agent == {"main", "prod", "cons"}

INSTANCE C11Memory WITH Loc <- {"data", "flag"}, Agents <- Agent

\* The running version, and those that promise the consumer 42.
Version == tests[test]
Synchronised == {"correct", "acqrel", "seqcst"}

\* Mutant of DataOrder: the plain int made atomic.
DataAtomic(v) == IF v = "seqcst" THEN "seq_cst" ELSE "relaxed"

\* How each version accesses data.
DataOrder(v) == CASE v = "seqcst" -> "seq_cst"
                  [] v = "acqrel" -> "relaxed"
                  [] OTHER -> "plain"

\* Mutant of FlagStoreOrder: release forgotten.
FlagStoreRelaxed(v) == IF v = "seqcst" THEN "seq_cst" ELSE "relaxed"

\* How its producer stores the flag ...
FlagStoreOrder(v) == CASE v = "seqcst" -> "seq_cst"
                       [] v \in {"correct", "acqrel"} -> "release"
                       [] v = "relaxed" -> "relaxed"
                       [] v = "broken" -> "plain"

\* Mutant of FlagLoadOrder: acquire forgotten.
FlagLoadRelaxed(v) == IF v = "broken" THEN "plain" ELSE "relaxed"

\* ... and its consumer loads it.
FlagLoadOrder(v) == CASE v = "seqcst" -> "seq_cst"
                      [] v \in {"correct", "acqrel"} -> "acquire"
                      [] v = "relaxed" -> "relaxed"
                      [] v = "broken" -> "plain"

\* Accesses that may be plain; a plain one may race.
Read(t, l, i, order) ==
  /\ IF order = "plain" THEN PlainLoad(t, l, i) ELSE Load(t, l, i, order)
  /\ raced' = (raced \/ (order = "plain" /\ Races(t, l)))

Write(t, l, val, order) ==
  /\ IF order = "plain" THEN PlainStore(t, l, val) ELSE Store(t, l, val, order)
  /\ raced' = (raced \/ (order = "plain" /\ Races(t, l)))

Init == /\ MemInit([l \in {"data", "flag"} |-> 0])
        /\ tests \in Programs
        /\ test = 1
        /\ main = "data"
        /\ prod = "unborn" /\ cons = "unborn"
        /\ value = 0
        /\ raced = FALSE
-----------------------------------------------------------------------------
\* Reset before each test.
ResetData == /\ main = "data"
             /\ Write("main", "data", 0,
                      IF DataOrder(Version) = "plain" THEN "plain" ELSE "seq_cst")
             /\ main' = "flag"
             /\ UNCHANGED <<tests, test, prod, cons, value>>

\* Mutant of ResetFlag: the flag keeps its value from the test before.
ResetFlagForgotten == /\ main = "flag"
                      /\ main' = "cons"
                      /\ UNCHANGED <<mem, view, tests, test, prod, cons, value, raced>>

ResetFlag == /\ main = "flag"
             /\ Write("main", "flag", 0, IF Version = "broken" THEN "plain" ELSE "seq_cst")
             /\ main' = "cons"
             /\ UNCHANGED <<tests, test, prod, cons, value>>

CreateCons == /\ main = "cons"
              /\ Fork("main", "cons")
              /\ cons' = "poll"
              /\ main' = "prod"
              /\ UNCHANGED <<mem, tests, test, prod, value, raced>>

CreateProd == /\ main = "prod"
              /\ Fork("main", "prod")
              /\ prod' = "data"
              /\ main' = "join"
              /\ UNCHANGED <<mem, tests, test, cons, value, raced>>

\* The producer: data, then the flag.
StoreData == /\ prod = "data"
             /\ Write("prod", "data", 42, DataOrder(Version))
             /\ prod' = "flag"
             /\ UNCHANGED <<tests, test, main, cons, value>>

\* Mutant of StoreFlag: the flag is not raised.
StoreFlagForgotten == /\ prod = "flag"
                      /\ prod' = "done"
                      /\ UNCHANGED <<mem, view, tests, test, main, cons, value, raced>>

StoreFlag == /\ prod = "flag"
             /\ Write("prod", "flag", 1, FlagStoreOrder(Version))
             /\ prod' = "done"
             /\ UNCHANGED <<tests, test, main, cons, value>>

\* while (flag == 0): the loop is left when the value read is not 0.
Leaves(v) == v # 0

\* The polling loop reads message i.  A plain flag need not be read again:
\* at -O2 the compiler may test it once and loop for ever.
Poll(i) == /\ cons = "poll"
           /\ Read("cons", "flag", i, FlagLoadOrder(Version))
           /\ \/ Leaves(mem["flag"][i].val) /\ cons' = "read"
              \/ ~Leaves(mem["flag"][i].val) /\ cons' = "poll"
              \/ ~Leaves(mem["flag"][i].val) /\ Version = "broken" /\ cons' = "spin"
           /\ UNCHANGED <<tests, test, main, prod, value>>

ReadData(i) == /\ cons = "read"
               /\ Read("cons", "data", i, DataOrder(Version))
               /\ value' = mem["data"][i].val
               /\ cons' = "done"
               /\ UNCHANGED <<tests, test, main, prod>>

\* The hoisted loop turns for ever.
Spin == cons = "spin" /\ UNCHANGED vars

\* pthread_join(prod), then pthread_join(cons) and the next test.
JoinProd == /\ main = "join"
            /\ prod = "done"
            /\ Await("main", "prod")
            /\ main' = "wait"
            /\ UNCHANGED <<mem, tests, test, prod, cons, value, raced>>

\* The for loops of main.
MoreTests == test < Len(tests)

JoinCons == /\ main = "wait"
            /\ cons = "done"
            /\ Await("main", "cons")
            /\ IF MoreTests THEN main' = "data" /\ test' = test + 1
                            ELSE main' = "returned" /\ UNCHANGED test
            /\ prod' = "unborn" /\ cons' = "unborn"
            /\ raced' = FALSE
            /\ UNCHANGED <<mem, tests, value>>

Terminating == main = "returned" /\ UNCHANGED vars

Main == ResetData \/ ResetFlag \/ CreateCons \/ CreateProd \/ JoinProd \/ JoinCons
Producer == StoreData \/ StoreFlag
Consumer == \/ \E i \in Readable("cons", "flag") : Poll(i)
            \/ \E i \in Readable("cons", "data") : ReadData(i)

Next == Main \/ Producer \/ Consumer \/ Spin \/ Terminating

Spec == Init /\ [][Next]_vars

\* Every thread is scheduled, and polling does not return an old value of
\* the flag for ever (a compiler that hoists the load steps to "spin").
FairSpec == /\ Spec
            /\ WF_vars(Main) /\ WF_vars(Producer) /\ WF_vars(Consumer)
            /\ WF_vars(Poll(Newest("flag")))
-----------------------------------------------------------------------------
\* The values the exercises store, views within the modification orders, and
\* no test beyond the last.
TypeOK == /\ \A l \in {"data", "flag"} : \A i \in 1..Newest(l) :
               /\ mem[l][i].val \in IF l = "data" THEN {0, 42} ELSE {0, 1}
               /\ \A m \in {"data", "flag"} : mem[l][i].view[m] \in 1..Newest(m)
          /\ \A t \in Agent, l \in {"data", "flag"} : view[t][l] \in 1..Newest(l)
          /\ tests \in Programs
          /\ test \in 1..Len(tests)
          /\ main \in {"data", "flag", "cons", "prod", "join", "wait", "returned"}
          /\ prod \in {"unborn", "data", "flag", "done"}
          /\ cons \in {"unborn", "poll", "read", "done", "spin"}
          /\ value \in {0, 42}
          /\ raced \in BOOLEAN

\* assert(value == 42) of consumer_seqcst and consumer_acqrel, and the same
\* for message_consumer_correct: whatever stale values polling returned, the
\* consumer that saw the flag reads the producer's data.
AssertHolds == cons = "done" /\ Version \in Synchronised => value = 42

\* The synchronised versions are free of data races, plain data included.
RaceFree == main # "returned" /\ Version \in Synchronised => ~raced

\* The others race in every execution in which the consumer gets through,
\* whether or not it happens to print 42 (why the exercise relies on the
\* thread sanitizer and not on the output).
BrokenAlwaysRaces == cons = "done" /\ Version \notin Synchronised => raced

\* Reuse of the variables: the consumer leaves its loop only because of this
\* test's producer, never because of the flag of a test before.
SeesOwnProducer == cons \in {"read", "done"} => prod = "done"

\* main gets through all tests, unless the load of a plain flag was hoisted
\* out of its loop: polling an atomic flag ends, a relaxed one included.
TerminatesUnlessHoisted == <>(main = "returned" \/ cons = "spin")
=============================================================================
