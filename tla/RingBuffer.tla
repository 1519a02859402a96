----------------------------- MODULE RingBuffer -----------------------------
(***************************************************************************)
(* The buffer of the time printer for the bytes of commands                *)
(* (timeprint/timeprint.ino: pending, pending_head and pending_tail).      *)
(* serialEvent stores into it, processCommand takes from it.               *)
(***************************************************************************)
EXTENDS Integers, Sequences

CONSTANTS
  PendingSize,   \* pending_size
  Bytes          \* the values of an unsigned char

ASSUME RingAssumption ==
  /\ PendingSize \in Nat
  /\ PendingSize > 1
  /\ 0 \in Bytes
  /\ Bytes \subseteq 0..255

VARIABLES
  pending,       \* the array
  pendingHead,   \* where the next byte is stored
  pendingTail    \* where the next byte is taken

ringVars == <<pending, pendingHead, pendingTail>>

Indices == 0..PendingSize - 1

RingTypeOK ==
  /\ pending \in [Indices -> Bytes]
  /\ pendingHead \in Indices
  /\ pendingTail \in Indices

RingInit ==
  /\ pending = [i \in Indices |-> 0]
  /\ pendingHead = 0
  /\ pendingTail = 0

Succ(i) == (i + 1) % PendingSize

IsFull == Succ(pendingHead) = pendingTail
IsEmpty == pendingHead = pendingTail

(* The body of the loop of serialEvent: characters over size are dropped.  *)
StoreUnchecked(byte) ==
  /\ pending' = [pending EXCEPT ![pendingHead] = byte]
  /\ pendingHead' = Succ(pendingHead)
  /\ UNCHANGED pendingTail

Store(byte) ==
  /\ IF IsFull THEN UNCHANGED <<pending, pendingHead>>
     ELSE /\ pending' = [pending EXCEPT ![pendingHead] = byte]
          /\ pendingHead' = Succ(pendingHead)
  /\ UNCHANGED pendingTail

(* processCommand works on the byte at the tail, then moves on.            *)
Oldest == pending[pendingTail]

Take ==
  /\ ~IsEmpty
  /\ pendingTail' = Succ(pendingTail)
  /\ UNCHANGED <<pending, pendingHead>>

RingNext == Take \/ \E byte \in Bytes : Store(byte)

RingSpec == RingInit /\ [][RingNext]_ringVars

-----------------------------------------------------------------------------
(* How many bytes there are between the tail and the head, where the i-th  *)
(* of them is, and all of them, the oldest first.                          *)

Count(head, tail) ==
  IF head >= tail THEN head - tail ELSE head - tail + PendingSize

Place(tail, i) ==
  IF tail + i - 1 < PendingSize THEN tail + i - 1 ELSE tail + i - 1 - PendingSize

Between(bytes, head, tail) == [i \in 1..Count(head, tail) |-> bytes[Place(tail, i)]]

Content == Between(pending, pendingHead, pendingTail)

(* The buffer is a queue of PendingSize - 1 bytes.                         *)
Promise == INSTANCE Fifo WITH queue <- Content, Capacity <- PendingSize - 1,
                              Items <- Bytes

(* The bytes that processCommand takes are those that serialEvent stored,  *)
(* in order and each of them once, whatever the head and the tail do at    *)
(* the end of the array.                                                   *)
IsFifo == Promise!FifoSpec
=============================================================================
