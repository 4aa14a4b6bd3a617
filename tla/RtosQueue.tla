----------------------------- MODULE RtosQueue ------------------------------
(***************************************************************************)
(* What the RTOS labs 2-3 and 2-4 use of a FreeRTOS queue: a bounded FIFO, *)
(* and a send that fails at once when it is full.                          *)
(***************************************************************************)
EXTENDS Integers, Sequences

CONSTANT MESS_QUEUE_MAX_LENGTH

ASSUME QueueAssumption == MESS_QUEUE_MAX_LENGTH \in Nat \ {0}

\* The queue after xQueueSend(queue, &message, 0)
Sent(queue, message) ==
    IF Len(queue) < MESS_QUEUE_MAX_LENGTH THEN Append(queue, message) ELSE queue
=============================================================================
