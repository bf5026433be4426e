----------------------------- MODULE ScullFifo -----------------------------
(***************************************************************************)
(* What scull/pipe.c promises: bytes come out in the order they went in,   *)
(* each once, until an open or the last close drops what is there.         *)
(***************************************************************************)
EXTENDS Integers, Sequences

CONSTANTS
  Bytes,     \* what is written
  Capacity   \* the largest number of bytes that can be waiting

VARIABLES
  fifo,      \* the bytes written and not read yet
  done       \* the last call and its answer, forgotten in the next step

Init == fifo = <<>> /\ done = [op |-> "none"]

Put(b) ==
  /\ Len(fifo) + Len(b) <= Capacity
  /\ fifo' = fifo \o b
  /\ done' = [op |-> "write", bytes |-> b]

Get(n) ==
  /\ done' = [op |-> "read", bytes |-> SubSeq(fifo, 1, n)]
  /\ fifo' = SubSeq(fifo, n + 1, Len(fifo))

Drop == fifo' = <<>> /\ done' \in {[op |-> "open"], [op |-> "close"]}
Idle == done' = [op |-> "none"] /\ UNCHANGED fifo

Next ==
  \/ Drop \/ Idle
  \/ \E n \in 1 .. Capacity : n <= Len(fifo) /\ Get(n)
  \/ \E n \in 1 .. Capacity : \E b \in [1 .. n -> Bytes] : Put(b)

Spec == Init /\ [][Next]_<<fifo, done>>
=============================================================================
