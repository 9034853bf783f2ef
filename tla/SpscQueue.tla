----------------------------- MODULE SpscQueue -----------------------------
(***************************************************************************)
(* Exercise 07 as it is in the repository, its solution.c included: the    *)
(* ring buffer whose enqueue takes tail for 0 and does not store head, and *)
(* whose dequeue takes head for 0 and does not store tail.  Since nobody   *)
(* writes head or tail after queue_init, every load of them returns 0 and  *)
(* each call is one step.                                                  *)
(***************************************************************************)
EXTENDS Naturals

CONSTANTS QUEUE_SIZE, NUM_MESSAGES   \* natural numbers, QUEUE_SIZE > 0

VARIABLES
  buffer,    \* the ring buffer
  head, tail,
  sent,      \* i of producer
  received,  \* received of consumer
  value,     \* value of consumer, as the last dequeue left it
  wrong,     \* the consumer printed ERROR and called exit(1)
  main       \* "prod" (joining the producer), "cons", "printed"

vars == <<buffer, head, tail, sent, received, value, wrong, main>>

\* queue_init; the buffer comes from malloc, its contents do not matter as
\* nothing reads a slot that was not written.
Init == /\ buffer = [i \in 0..(QUEUE_SIZE - 1) |-> 0]
        /\ head = 0 /\ tail = 0
        /\ sent = 0 /\ received = 0 /\ value = 0
        /\ wrong = FALSE
        /\ main = "prod"
----------------------------------------------------------------------------
\* queue_enqueue(q, i) returns true; when it returns false producer spins.
Enqueue == /\ ~wrong /\ sent < NUM_MESSAGES
           /\ (head + 1) % QUEUE_SIZE # 0
           /\ buffer' = [buffer EXCEPT ![head] = sent]
           /\ sent' = sent + 1
           /\ UNCHANGED <<head, tail, received, value, wrong, main>>

\* queue_dequeue returns true when its head, 0, is not tail; consumer then
\* compares the value with the one it expects.
Dequeue == /\ ~wrong /\ received < NUM_MESSAGES
           /\ 0 # tail
           /\ value' = buffer[tail]
           /\ IF value' # received THEN wrong' = TRUE /\ UNCHANGED received
                                   ELSE received' = received + 1 /\ UNCHANGED wrong
           /\ UNCHANGED <<buffer, head, tail, sent, main>>

\* pthread_join(prod), pthread_join(cons) and the message.
JoinProd == /\ ~wrong /\ main = "prod" /\ sent = NUM_MESSAGES
            /\ main' = "cons"
            /\ UNCHANGED <<buffer, head, tail, sent, received, value, wrong>>
JoinCons == /\ ~wrong /\ main = "cons" /\ received = NUM_MESSAGES
            /\ main' = "printed"
            /\ UNCHANGED <<buffer, head, tail, sent, received, value, wrong>>

\* A spinning thread, and a program that has ended, change nothing.
Next == Enqueue \/ Dequeue \/ JoinProd \/ JoinCons \/ UNCHANGED vars

\* Producer, consumer and main are scheduled.
FairSpec == /\ Init /\ [][Next]_vars
            /\ WF_vars(Enqueue) /\ WF_vars(Dequeue) /\ WF_vars(JoinProd \/ JoinCons)
----------------------------------------------------------------------------
\* The queue works: every message arrives, in order, and main says so.
AllReceived == <>(main = "printed" /\ received = NUM_MESSAGES)
============================================================================
