------------------------------- MODULE E2Gate -------------------------------
(***************************************************************************)
(* What the device of Assignment6/assignment6.c promises its users: a gate *)
(* that admits one file at a time in MODE1 and any number in MODE2, and    *)
(* whose mode changes only while a single file is inside.                  *)
(***************************************************************************)
EXTENDS Integers

CONSTANT Files

VARIABLES
  mode,    \* 1 or 2
  users    \* the files inside

Init == mode = 1 /\ users = {}

Admit(f) ==
  /\ f \notin users
  /\ mode = 1 => users = {}
  /\ users' = users \union {f}
  /\ UNCHANGED mode

Leave(f) ==
  /\ f \in users
  /\ users' = users \ {f}
  /\ UNCHANGED mode

Switch(f) ==
  /\ users = {f}
  /\ mode' = 3 - mode
  /\ UNCHANGED users

Next == \E f \in Files : Admit(f) \/ Leave(f) \/ Switch(f)

Spec == Init /\ [][Next]_<<mode, users>>
=============================================================================
