------------------------------ MODULE BoundedFifo ------------------------------
(***************************************************************************)
(* What the WLAN message queue promises its callers: a first-in first-out  *)
(* queue of at most Capacity elements, from which an element leaves once.  *)
(***************************************************************************)
EXTENDS Naturals, Sequences

CONSTANTS Elements, Capacity
VARIABLE queue

FifoInit == queue = <<>>

Put == /\ Len(queue) < Capacity
       /\ \E e \in Elements : queue' = Append(queue, e)

Get == queue # <<>> /\ queue' = Tail(queue)

FifoSpec == FifoInit /\ [][Put \/ Get]_queue
==============================================================================
