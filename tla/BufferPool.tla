------------------------------ MODULE BufferPool ------------------------------
(***************************************************************************)
(* The packet buffer pool of main/buffer_pool.c, with the most general     *)
(* clients its header allows.                                              *)
(*                                                                         *)
(* The pool is a FreeRTOS queue of pointers.  A holder is a place in a     *)
(* task where one pointer to a buffer may live (a local or a struct field  *)
(* such as packet_in_progress).  bp_relinquish is two steps, because the   *)
(* code pushes the pointer on the queue first and only then clears the     *)
(* memory behind it: any other task can run in between.                    *)
(***************************************************************************)
EXTENDS Naturals, Sequences, Functions

CONSTANTS
    BufferCount,  \* buffers allocated by new_buffer_pool (180 in main.c)
    Holders,      \* the places that can hold a pointer to a buffer
    Contents,     \* what the memory of a buffer may hold
    Blank         \* the contents of a buffer that has just been zeroed

ASSUME BufferCountAssumption == BufferCount \in Nat \ {0}
ASSUME ContentsAssumption == Blank \in Contents

VARIABLES
    pool,    \* bp->queue, a FIFO of pointers
    hand,    \* hand[h]: the buffer holder h owns, or Null
    wiping,  \* wiping[h]: the buffer h has pushed and is still about to zero
    data,    \* data[b]: the memory of buffer b
    ohNo,    \* the state of OH_NO_LED, lit by every pool error path
    away     \* the buffers whose pointers travel between tasks in queues

vars == <<pool, hand, wiping, data, ohNo, away>>

Buffers == 1 .. BufferCount
Null == 0

-----------------------------------------------------------------------------
(* The operations of buffer_pool.c.                                        *)

new_buffer_pool_OffByOne ==
    /\ pool = [i \in 1 .. BufferCount + 1 |-> i]
    /\ data = [b \in Buffers |-> Blank]
    /\ hand = [h \in Holders |-> Null]
    /\ wiping = [h \in Holders |-> Null]
    /\ ohNo = FALSE

new_buffer_pool ==
    /\ pool = [i \in 1 .. BufferCount |-> i]
    /\ data = [b \in Buffers |-> Blank]
    /\ hand = [h \in Holders |-> Null]
    /\ wiping = [h \in Holders |-> Null]
    /\ ohNo = FALSE

\* The queue has a pointer: it moves to the caller.
bp_fetch(h) ==
    /\ pool # <<>>
    /\ hand' = [hand EXCEPT ![h] = Head(pool)]
    /\ pool' = Tail(pool)

\* The queue is empty: the caller gets NULL and the OH_NO LED goes on.
bp_fetch_underflow ==
    /\ pool = <<>>
    /\ ohNo' = TRUE

\* First half of bp_relinquish: the pointer goes to the back of the queue.
\* If the queue refuses it, the function returns early with the LED on and
\* nothing will ever return the buffer.
bp_relinquish_OffByOne(h) ==
    /\ hand' = [hand EXCEPT ![h] = Null]
    /\ IF Len(pool) < BufferCount - 1
       THEN /\ pool' = Append(pool, hand[h])
            /\ wiping' = [wiping EXCEPT ![h] = hand[h]]
            /\ UNCHANGED ohNo
       ELSE /\ ohNo' = TRUE
            /\ UNCHANGED <<pool, wiping>>

bp_relinquish(h) ==
    /\ hand' = [hand EXCEPT ![h] = Null]
    /\ IF Len(pool) < BufferCount
       THEN /\ pool' = Append(pool, hand[h])
            /\ wiping' = [wiping EXCEPT ![h] = hand[h]]
            /\ UNCHANGED ohNo
       ELSE /\ ohNo' = TRUE
            /\ UNCHANGED <<pool, wiping>>

\* Second half of bp_relinquish: bzero, and the caller's pointer is nulled.
bp_relinquish_zero_Forgotten(h) ==
    /\ wiping' = [wiping EXCEPT ![h] = Null]
    /\ UNCHANGED data

bp_relinquish_zero(h) ==
    /\ data' = [data EXCEPT ![wiping[h]] = Blank]
    /\ wiping' = [wiping EXCEPT ![h] = Null]

-----------------------------------------------------------------------------
(* The clients: each holder runs one call at a time.                       *)

Idle(h) == hand[h] = Null /\ wiping[h] = Null
Owns(h) == hand[h] # Null /\ wiping[h] = Null

Fetch(h) ==
    /\ Idle(h)
    /\ \/ bp_fetch(h) /\ UNCHANGED ohNo
       \/ bp_fetch_underflow /\ UNCHANGED <<pool, hand>>
    /\ UNCHANGED <<wiping, data, away>>

Write(h, c) ==
    /\ Owns(h)
    /\ data' = [data EXCEPT ![hand[h]] = c]
    /\ UNCHANGED <<pool, hand, wiping, ohNo, away>>

\* A client may fill a buffer in the same breath as it fetches it.
FetchAndWrite(h, c) ==
    /\ Idle(h)
    /\ bp_fetch(h)
    /\ data' = [data EXCEPT ![Head(pool)] = c]
    /\ UNCHANGED <<wiping, ohNo, away>>

\* xQueueSendToBack on an inter-task queue, and xQueueReceive from one.
Post(h) ==
    /\ Owns(h)
    /\ away' = away \cup {hand[h]}
    /\ hand' = [hand EXCEPT ![h] = Null]
    /\ UNCHANGED <<pool, wiping, data, ohNo>>

Collect(h) ==
    /\ Idle(h)
    /\ \E b \in away :
        /\ hand' = [hand EXCEPT ![h] = b]
        /\ away' = away \ {b}
    /\ UNCHANGED <<pool, wiping, data, ohNo>>

Relinquish(h) ==
    /\ Owns(h)
    /\ bp_relinquish(h)
    /\ UNCHANGED <<data, away>>

Zero(h) ==
    /\ wiping[h] # Null
    /\ bp_relinquish_zero(h)
    /\ UNCHANGED <<pool, hand, ohNo, away>>

\* esp_restart: the next boot allocates the pool afresh.
Restart ==
    /\ pool' = [i \in 1 .. BufferCount |-> i]
    /\ data' = [b \in Buffers |-> Blank]
    /\ hand' = [h \in Holders |-> Null]
    /\ wiping' = [h \in Holders |-> Null]
    /\ ohNo' = FALSE
    /\ away' = {}

Init == new_buffer_pool /\ away = {}

Next ==
    \/ \E h \in Holders :
        \/ Fetch(h)
        \/ Post(h)
        \/ Collect(h)
        \/ Relinquish(h)
        \/ Zero(h)
        \/ \E c \in Contents : Write(h, c) \/ FetchAndWrite(h, c)
    \/ Restart

Spec == Init /\ [][Next]_vars

-----------------------------------------------------------------------------
(* Properties.                                                             *)

\* Every variable stays in its type.
TypeOK ==
    /\ pool \in Seq(Buffers)
    /\ hand \in [Holders -> Buffers \cup {Null}]
    /\ wiping \in [Holders -> Buffers \cup {Null}]
    /\ data \in [Buffers -> Contents]
    /\ ohNo \in BOOLEAN
    /\ away \in SUBSET Buffers

\* No buffer is reachable from two places: no pointer is twice in the pool,
\* none is both free and in use, no two holders have the same one.
Exclusive ==
    /\ IsInjective(pool)
    /\ Range(pool) \cap away = {}
    /\ \A h \in Holders : hand[h] # Null => hand[h] \notin Range(pool) \cup away
    /\ \A g, h \in Holders : g # h /\ hand[g] = hand[h] => hand[g] = Null

\* No buffer is ever lost: it is free, held, or travelling.
NoLeak ==
    \A b \in Buffers :
        \/ b \in Range(pool) \cup away
        \/ \E h \in Holders : hand[h] = b

\* The pool neither duplicates nor loses a buffer, whatever the order in which
\* its clients fetch, pass on and relinquish (buffer_pool.c, bp_fetch and
\* bp_relinquish; the "queue overflow" branch of the latter is a leak).
Conservation == Exclusive /\ NoLeak

\* A free buffer that is not zero is one some task is about to zero: the only
\* window in which the pool can hand out old contents, or wipe a buffer that
\* already belongs to somebody else, is between the two halves of
\* bp_relinquish.
DirtyOnlyWhileWiping ==
    \A b \in Range(pool) :
        data[b] # Blank => \E h \in Holders : wiping[h] = b
=============================================================================
