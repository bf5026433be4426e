------------------------------ MODULE EftFile -------------------------------
(***************************************************************************)
(* What an input file of Assignment3/eft.cpp says: a sequence of lines,    *)
(* each blank, an account with its money, or a transfer.                   *)
(***************************************************************************)
EXTENDS Integers, FiniteSetsExt, SequencesExt

\* The lines; ids and amounts are ints.
Lines ==
  [kind : {"blank"}]
    \union [kind : {"account"}, id : Int, money : Int]
    \union [kind : {"transfer"}, transfer : [from : Int, to : Int, amount : Int]]

\* The first line that creates an account is the one that counts.
Opening(file) ==
  LET creating(id) == {n \in DOMAIN file : file[n].kind = "account" /\ file[n].id = id}
      ids == {file[n].id : n \in {m \in DOMAIN file : file[m].kind = "account"}}
  IN [id \in ids |-> file[Min(creating(id))].money]

\* The transfers of the file, as a bag.
Orders(file) ==
  LET lines == {n \in DOMAIN file : file[n].kind = "transfer"}
  IN [x \in {file[n].transfer : n \in lines} |->
        Cardinality({n \in lines : file[n].transfer = x})]

\* The balances once every transfer of the file is made.
Closing(file) ==
  LET lines == {n \in DOMAIN file : file[n].kind = "transfer"}
      amounts == [n \in lines |-> file[n].transfer.amount]
  IN [id \in DOMAIN Opening(file) |->
        Opening(file)[id]
          + SumFunctionOnSet(amounts, {n \in lines : file[n].transfer.to = id})
          - SumFunctionOnSet(amounts, {n \in lines : file[n].transfer.from = id})]
=============================================================================
