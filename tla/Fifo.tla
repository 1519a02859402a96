-------------------------------- MODULE Fifo --------------------------------
(***************************************************************************)
(* What a buffer between a sender that does not wait and a receiver        *)
(* promises: what it takes in comes out once and in order, it holds as     *)
(* much as it was made for, and only what comes when it is full is lost.   *)
(***************************************************************************)
EXTENDS Naturals, Sequences

CONSTANTS Capacity, Items

VARIABLE queue

FifoInit == queue = <<>>

Put(item) ==
  /\ Len(queue) < Capacity
  /\ queue' = Append(queue, item)

Get ==
  /\ queue # <<>>
  /\ queue' = Tail(queue)

FifoNext == Get \/ \E item \in Items : Put(item)

FifoSpec == FifoInit /\ [][FifoNext]_queue
=============================================================================
