------------------------------ MODULE RamTape -------------------------------
(***************************************************************************)
(* What the ramdisk of Assignment5 looks like from outside: a tape that is *)
(* zero wherever nothing has been written, however long the driver's       *)
(* buffer happens to be.                                                   *)
(***************************************************************************)
EXTENDS Integers

CONSTANTS
  Bytes,       \* the bytes that are written
  Positions    \* an initial segment of Nat that holds every position used

VARIABLES
  tape,        \* position -> byte, 0 where nothing was written
  done         \* the last call and its answer, forgotten in the next step

Blank == [n \in Positions |-> 0]
Run(p, c) == {n \in Positions : p <= n /\ n < p + c}

Init == tape = Blank /\ done = [op |-> "none"]

Write(p, c, b) ==
  /\ tape' = [n \in Positions |-> IF n \in Run(p, c) THEN b ELSE tape[n]]
  /\ done' = [op |-> "write", pos |-> p, count |-> c, byte |-> b]

\* The writer's memory could be read for the first k bytes only: the rest of
\* what it was to write is zeroed.
WriteFaults(p, c, k, b) ==
  /\ k < c
  /\ tape' = [n \in Positions |-> IF n \in Run(p, k) THEN b
                                  ELSE IF n \in Run(p, c) THEN 0 ELSE tape[n]]
  /\ done' = [op |-> "fault"]

Read(p, c) ==
  /\ done' = [op |-> "read", pos |-> p, bytes |-> [n \in Run(p, c) |-> tape[n]]]
  /\ UNCHANGED tape

Seek == done' = [op |-> "lseek"] /\ UNCHANGED tape
Clear == done' = [op |-> "clear"] /\ tape' = Blank

\* An lseek that found no memory or no buffer; what it leaves nobody can read.
Die == done' = [op |-> "died"] /\ tape' = Blank

\* The next thing happens, or a call that left the buffer alone.
Idle == done' = [op |-> "none"] /\ UNCHANGED tape

Next ==
  \/ Seek \/ Clear \/ Die \/ Idle
  \/ \E p \in Positions, c \in Positions :
       \/ Read(p, c)
       \/ \E b \in Bytes : Write(p, c, b) \/ \E k \in Positions : WriteFaults(p, c, k, b)

Spec == Init /\ [][Next]_<<tape, done>>
=============================================================================
