------------------------------- MODULE MCEft --------------------------------
(* Eft on small input files: a duplicate account and a blank line, an account *)
(* the file does not define, a transfer from an account to itself, transfers  *)
(* that cross and two transfers that are equal.                               *)
EXTENDS Eft

Account(i, m) == [kind |-> "account", id |-> i, money |-> m]
Transfer(f, t, a) ==
  [kind |-> "transfer", transfer |-> [from |-> f, to |-> t, amount |-> a]]

SerialInputs ==
  { <<Account(7, 5), Account(8, 3), [kind |-> "blank"], Account(7, 9),
      Transfer(7, 8, 2), Transfer(8, 7, 4), Transfer(7, 8, 2),
      Transfer(8, 7, 1), Transfer(7, 8, 3)>>,
    <<Account(7, 5), Transfer(7, 7, 1)>>,
    <<Account(7, 5), Transfer(7, 9, 1), Transfer(7, 7, 1)>>,
    <<Transfer(7, 8, 1), Account(8, 1), Account(7, 2)>> }

RaceInputs ==
  { <<Account(7, 5), Account(8, 3), Transfer(7, 8, 2), Transfer(8, 7, 4)>>,
    <<Account(7, 5), Account(8, 3), Account(9, 0),
      Transfer(7, 8, 2), Transfer(8, 9, 1), Transfer(7, 8, 4)>>,
    <<Account(7, 5), Account(8, 3), Transfer(7, 7, 1), Transfer(7, 8, 3)>> }

Serial == [file : SerialInputs, threads : {1, 2}]
Race == [file : RaceInputs, threads : {3}]
All == Serial \union Race
=============================================================================
