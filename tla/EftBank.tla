------------------------------ MODULE EftBank -------------------------------
(***************************************************************************)
(* What Assignment3/eft.cpp is for: the accounts and transfers of a file,  *)
(* each transfer made at once and exactly once, in any order.              *)
(***************************************************************************)
EXTENDS EftFile

CONSTANT Inputs    \* the files, as sequences of lines

VARIABLES
  balance,   \* account id -> money
  due        \* the bag of transfers still to be made

Init == \E file \in Inputs : balance = Opening(file) /\ due = Orders(file)

Make(x) ==
  /\ BagIn(x, due)
  /\ due' = due (-) SetToBag({x})
  /\ {x.to, x.from} \subseteq DOMAIN balance
  /\ balance' = [balance EXCEPT ![x.to] = @ + x.amount, ![x.from] = @ - x.amount]

Next == \E x \in BagToSet(due) : Make(x)

Spec == Init /\ [][Next]_<<balance, due>>
=============================================================================
