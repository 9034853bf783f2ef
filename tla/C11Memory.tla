----------------------------- MODULE C11Memory -----------------------------
(***************************************************************************)
(* The C11 memory the exercises rely on, as a view machine.  Each location *)
(* keeps its modification order as a sequence of messages; each thread     *)
(* has a view, the newest message of every location it knows of.  A load   *)
(* may return any message not older than the view (stale values included); *)
(* a release store publishes the writer's view in its message, an acquire  *)
(* load takes the view of the message it reads, a relaxed access neither.  *)
(*                                                                         *)
(* seq_cst is treated as acquire + release.  That is weaker than C11, so a *)
(* safety property shown here holds for the real seq_cst as well; no       *)
(* exercise depends on the total order of seq_cst accesses.  Stores go to  *)
(* the end of the modification order: in these programs the writes of one  *)
(* location are ordered by happens-before or are read-modify-writes.       *)
(***************************************************************************)
EXTENDS Naturals, Sequences

CONSTANTS Loc,     \* memory locations
          Agents   \* threads, main included

VARIABLES mem,     \* mem[l]: messages [val, view] of l, oldest first
          view     \* view[t][l]: index of the newest message of l known to t

Bottom == [l \in Loc |-> 1]

Acquiring == {"acquire", "seq_cst"}
Releasing == {"release", "seq_cst"}

Merge(v, w) == [l \in Loc |-> IF v[l] >= w[l] THEN v[l] ELSE w[l]]

Newest(l) == Len(mem[l])
NewestVal(l) == mem[l][Newest(l)].val

MemInit(init) == /\ mem = [l \in Loc |-> <<[val |-> init[l], view |-> Bottom]>>]
                 /\ view = [t \in Agents |-> Bottom]

\* The messages of l that t may read.
Readable(t, l) == view[t][l]..Newest(l)

\* t's view once it has read message i of l.
Seen(t, l, i, order) ==
  LET v == [view[t] EXCEPT ![l] = i]
  IN  IF order \in Acquiring THEN Merge(v, mem[l][i].view) ELSE v

\* atomic_load_explicit returning message i
Load(t, l, i, order) == /\ i \in Readable(t, l)
                        /\ view' = [view EXCEPT ![t] = Seen(t, l, i, order)]
                        /\ UNCHANGED mem

\* t, whose view is v, adds a message to l; carried is the view it hands on.
Append1(t, l, val, v, carried, order) ==
  LET w == [v EXCEPT ![l] = Newest(l) + 1]
  IN  /\ mem' = [mem EXCEPT ![l] = Append(@,
                  [val |-> val,
                   view |-> IF order \in Releasing THEN w
                            ELSE [carried EXCEPT ![l] = Newest(l) + 1]])]
      /\ view' = [view EXCEPT ![t] = w]

\* atomic_store_explicit
Store(t, l, val, order) == Append1(t, l, val, view[t], Bottom, order)

\* A read-modify-write reads the newest message and continues its release
\* sequence: test_and_set, a successful compare_exchange, fetch_add.
Update(t, l, val, order) ==
  Append1(t, l, val, Seen(t, l, Newest(l), order), mem[l][Newest(l)].view, order)

\* Plain accesses.  An access is a data race unless the thread knows of the
\* newest write; a racing load may return any value not older than its view.
Races(t, l) == view[t][l] # Newest(l)
PlainLoad(t, l, i) == Load(t, l, i, "relaxed")
PlainStore(t, l, val) == Store(t, l, val, "relaxed")

\* child's view is as view[parent]: pthread_create.
Fork(parent, child) == view' = [view EXCEPT ![child] = Merge(@, view[parent])]

\* parent learns what child knew: pthread_join.
Await(parent, child) == view' = [view EXCEPT ![parent] = Merge(@, view[child])]
============================================================================
