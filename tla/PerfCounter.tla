---------------------------- MODULE PerfCounter ----------------------------
(***************************************************************************)
(* The performance counter of include/benchmark.h and the macro around a   *)
(* block, MEASURE_CACHE_MISSES: three nested for loops that open, start,   *)
(* stop, read and close a counter.  The kernel's side is external.         *)
(***************************************************************************)
EXTENDS Integers

CONSTANTS Fds,       \* descriptors the process may have open
          Breaks,    \* whether the block has a break
          MaxMisses  \* bound: misses in one run of the block

ASSUME PerfAssumption == /\ Fds \subseteq Nat
                         /\ Breaks \in BOOLEAN /\ MaxMisses \in Nat

VARIABLES
  at,        \* "init", "start", "test", "body", "stop", "after"
  finished,  \* _done
  fd, count, \* the fields of _pc
  miss_var,  \* the variable of the caller
  open,      \* descriptors that are open
  enabled,   \* whether the counter behind fd counts
  hw,        \* and what it has counted
  missed,    \* history: misses in the block since its last start
  lost       \* history: descriptors open when the block broke out

perfVars == <<at, finished, fd, count, miss_var, open, enabled, hw, missed, lost>>

\* _pc and the caller's variable are not initialised: they may hold anything.
PerfInit == /\ at = "init" /\ finished = FALSE
            /\ fd = -1
            /\ count \in 0..MaxMisses /\ miss_var \in 0..MaxMisses
            /\ open = {} /\ enabled = FALSE /\ hw = 0
            /\ missed = 0 /\ lost = {}
-----------------------------------------------------------------------------
\* perf_event_open: a free descriptor, with a counter that does not count
\* yet; or -1, when there is none or the kernel does not allow it.
PerfEventOpen == /\ \/ /\ fd' \in Fds \ open
                       /\ open' = open \cup {fd'}
                    \/ fd' = -1 /\ UNCHANGED open
                 /\ enabled' = FALSE /\ hw' = 0

\* perf_counter_init; the macro does not look at what it returns.
CounterInit == /\ at = "init"
               /\ PerfEventOpen
               /\ at' = "start"
               /\ UNCHANGED <<finished, count, miss_var, missed, lost>>

\* perf_counter_start: both ioctls fail on -1.
CounterStart == /\ at = "start"
                /\ IF fd = -1 THEN UNCHANGED <<enabled, hw>>
                              ELSE enabled' = TRUE /\ hw' = 0
                /\ finished' = FALSE /\ missed' = 0
                /\ at' = "test"
                /\ UNCHANGED <<fd, count, miss_var, open, lost>>

\* Where control goes when the innermost loop ends: the middle one makes one
\* turn only, and the outer one has no condition.
DoneExit == "init"

DoneTest == /\ at = "test"
            /\ at' = IF finished THEN DoneExit ELSE "body"
            /\ UNCHANGED <<finished, fd, count, miss_var, open, enabled, hw, missed, lost>>

\* A cache miss in the block.
Miss == /\ at = "body" /\ missed < MaxMisses
        /\ missed' = missed + 1
        /\ hw' = IF enabled THEN hw + 1 ELSE hw
        /\ UNCHANGED <<at, finished, fd, count, miss_var, open, enabled, lost>>

BlockEnds == /\ at = "body"
             /\ at' = "stop"
             /\ UNCHANGED <<finished, fd, count, miss_var, open, enabled, hw, missed, lost>>

\* A break in the block: the third expression of the loop is not evaluated.
BlockBreaks == /\ at = "body" /\ Breaks
               /\ at' = DoneExit
               /\ lost' = lost \cup ({fd} \ {-1})
               /\ UNCHANGED <<finished, fd, count, miss_var, open, enabled, hw, missed>>

\* Mutant of Read: the counter is read into a copy.
ReadLost == count

\* read fills in count; on -1 it fails and count stays what it was.
Read == IF fd = -1 THEN count ELSE hw

\* Mutant of Close: the descriptor is kept for the next time.
CloseForgotten == UNCHANGED open

\* perf_counter_close; close(-1) does nothing.
Close == open' = open \ {fd}

\* The third expression: _done = 1, perf_counter_stop, the result, close.
CounterStop == /\ at = "stop"
               /\ finished' = TRUE
               /\ enabled' = FALSE
               /\ count' = Read
               /\ miss_var' = count'
               /\ Close
               /\ at' = "test"
               /\ UNCHANGED <<fd, hw, missed, lost>>

Macro == \/ CounterInit \/ CounterStart \/ DoneTest
         \/ BlockEnds \/ BlockBreaks \/ CounterStop

PerfNext == Macro \/ Miss

PerfSpec == PerfInit /\ [][PerfNext]_perfVars

\* The thread that measures is scheduled.
PerfFairSpec == PerfSpec /\ WF_perfVars(Macro)
-----------------------------------------------------------------------------
\* Types; a counter counts no more than happens in one run of the block.
PerfTypeOK == /\ at \in {"init", "start", "test", "body", "stop", "after"}
              /\ finished \in BOOLEAN /\ enabled \in BOOLEAN
              /\ fd \in Fds \cup {-1} /\ open \subseteq Fds /\ lost \subseteq Fds
              /\ hw \in 0..MaxMisses /\ missed \in 0..MaxMisses
              /\ count \in 0..MaxMisses /\ miss_var \in 0..MaxMisses

\* If the counter could be opened the result is the number of misses in this
\* run of the block: none from before the start, none from an earlier run and
\* nothing left from a run that broke out.  (If not, it is whatever count
\* held: nobody tells the caller.)
MissesExact == at = "test" /\ finished /\ fd # -1 => miss_var = missed

\* A descriptor is left open by a break in the block and by nothing else; each
\* break leaves one, until none is free and every later measurement fails.
OnlyBreaksLeak == open = lost \cup (IF at = "init" \/ (at = "test" /\ finished)
                                      THEN {} ELSE {fd} \ {-1})

\* The statement after the block is reached (the usage comment of the macro
\* prints the result there).
ReachesStatementAfterMacro == <>(at = "after")
=============================================================================
