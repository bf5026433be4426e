-------------------------------- MODULE Eft ---------------------------------
(***************************************************************************)
(* Assignment3/eft.cpp: one thread reads accounts and transfers from a     *)
(* file, then N worker threads pop the transfers off a vector and make     *)
(* them.  The semaphore SemTransfers lets max(1, N - 1) workers at a time  *)
(* at the vector, and each account has a semaphore.                        *)
(*                                                                         *)
(* The vector is shared without a lock when N > 2.  A step is one access   *)
(* to what the workers share; pop_back is a load and a store, as the build *)
(* without optimisation compiles it.                                       *)
(***************************************************************************)
EXTENDS EftFile

CONSTANTS
  Arguments    \* what the program may be run on: records of an input file, as a
               \* sequence of lines, and a number of threads

ASSUME ArgumentsAssumption ==
  Arguments \subseteq [file : Seq(Lines), threads : Nat \ {0}]

VARIABLES
  N,          \* MaxThreadNumber
  file,       \* the input file
  line,       \* how many of its lines have been read
  Accounts,   \* the vector of accounts
  Transfers,  \* the storage of the vector of transfers, which pops leave alone
  finish,     \* how many elements of the storage the vector holds
  room,       \* the value of SemTransfers
  mSem,       \* the value of each account's semaphore
  pc,         \* where each worker is
  transfer,   \* the transfer each worker took (the local variable)
  loaded,     \* what each worker loaded of a variable it is about to store to
  phase       \* of the process: reading, working, printed, exited, undefined

parsed == <<N, file, line, Accounts, Transfers>>
vars == <<parsed, finish, room, mSem, pc, transfer, loaded, phase>>

Workers == 1 .. N
None == [from |-> 0, to |-> 0, amount |-> 0]

-----------------------------------------------------------------------------
\* ParseInput, up to the creation of the workers.

\* InsertAccount: an id that is already there is not inserted again.
InsertAccount(id, money) ==
  IF \E i \in DOMAIN Accounts : Accounts[i].id = id
    THEN Accounts
    ELSE Append(Accounts, [id |-> id, money |-> money])

ReadLine ==
  /\ phase = "reading" /\ line < Len(file)
  /\ line' = line + 1
  /\ LET l == file[line + 1] IN
     \/ l.kind = "blank" /\ UNCHANGED <<Accounts, Transfers>>
     \/ /\ l.kind = "account"
        /\ Accounts' = InsertAccount(l.id, l.money)
        /\ UNCHANGED Transfers
     \/ /\ l.kind = "transfer"
        /\ Transfers' = Append(Transfers, l.transfer)
        /\ UNCHANGED Accounts
  /\ UNCHANGED <<N, file, finish, room, mSem, pc, transfer, loaded, phase>>

Room_All == N                                   \* mutant: room for every worker
Room == IF N = 1 THEN 1 ELSE N - 1

AccountSemaphores_None == <<>>                  \* mutant: no mSem.resize
AccountSemaphores == [i \in DOMAIN Accounts |-> 1]

StartWorkers ==
  /\ phase = "reading" /\ line = Len(file)
  /\ phase' = "working"
  /\ finish' = Len(Transfers)
  /\ room' = Room
  /\ mSem' = AccountSemaphores
  /\ pc' = [w \in Workers |-> "loop"]
  /\ UNCHANGED <<parsed, transfer, loaded>>

\* Every worker joined: the balances are printed and the process ends.
JoinAndPrint ==
  /\ phase = "working"
  /\ \A w \in Workers : pc[w] = "done"
  /\ phase' = "printed"
  /\ UNCHANGED <<parsed, finish, room, mSem, pc, transfer, loaded>>

-----------------------------------------------------------------------------
\* SendMoney, run by worker w.

At(w, l) == phase = "working" /\ pc[w] = l
Goto(w, l) == pc' = [pc EXCEPT ![w] = l]

\* while (Transfers.size()), read without any semaphore.
LoopTest(w) ==
  /\ At(w, "loop")
  /\ Goto(w, IF finish # 0 THEN "wait" ELSE "done")
  /\ UNCHANGED <<parsed, finish, room, mSem, transfer, loaded, phase>>

RoomWait(w) ==
  /\ At(w, "wait")
  /\ room > 0
  /\ room' = room - 1
  /\ Goto(w, "test")
  /\ UNCHANGED <<parsed, finish, mSem, transfer, loaded, phase>>

SizeTest(w) ==
  /\ At(w, "test")
  /\ Goto(w, IF finish # 0 THEN "back" ELSE "post")
  /\ UNCHANGED <<parsed, finish, room, mSem, transfer, loaded, phase>>

\* back() and pop_back() of an empty vector: nothing is known from there on.
Undefined == phase' = "undefined" /\ UNCHANGED <<finish, pc, transfer, loaded>>

BackElement_Front == Transfers[1]               \* mutant: front() and pop_back()
BackElement == Transfers[finish]

Back(w) ==
  /\ At(w, "back")
  /\ \/ finish = 0 /\ Undefined
     \/ /\ finish # 0
        /\ transfer' = [transfer EXCEPT ![w] = BackElement]
        /\ Goto(w, "pop")
        /\ UNCHANGED <<finish, loaded, phase>>
  /\ UNCHANGED <<parsed, room, mSem>>

PopLoad(w) ==
  /\ At(w, "pop")
  /\ loaded' = [loaded EXCEPT ![w] = finish]
  /\ Goto(w, "store")
  /\ UNCHANGED <<parsed, finish, room, mSem, transfer, phase>>

PopStore(w) ==
  /\ At(w, "store")
  /\ \/ loaded[w] = 0 /\ Undefined
     \/ /\ loaded[w] # 0
        /\ finish' = loaded[w] - 1
        /\ loaded' = [loaded EXCEPT ![w] = 0]
        /\ Goto(w, "lookup")
        /\ UNCHANGED <<transfer, phase>>
  /\ UNCHANGED <<parsed, room, mSem>>

\* GetAccountIndex, 0 standing for its -1.
Index(id) ==
  IF \E i \in DOMAIN Accounts : Accounts[i].id = id
    THEN CHOOSE i \in DOMAIN Accounts : Accounts[i].id = id
    ELSE 0
To(w) == Index(transfer[w].to)
From(w) == Index(transfer[w].from)

Lookup(w) ==
  /\ At(w, "lookup")
  /\ \/ To(w) # 0 /\ From(w) # 0 /\ Goto(w, "to") /\ UNCHANGED phase
     \/ (To(w) = 0 \/ From(w) = 0) /\ phase' = "exited" /\ UNCHANGED pc
  /\ UNCHANGED <<parsed, finish, room, mSem, transfer, loaded>>

AccountWait(w, i, next) ==
  /\ mSem[i] > 0
  /\ mSem' = [mSem EXCEPT ![i] = @ - 1]
  /\ Goto(w, next)
  /\ UNCHANGED <<parsed, finish, room, transfer, loaded, phase>>

WaitTo(w) == At(w, "to") /\ AccountWait(w, To(w), "from")

\* mutant: the semaphore of the From account is not taken.
WaitFrom_Skipped(w) ==
  /\ At(w, "from")
  /\ Goto(w, "credit")
  /\ UNCHANGED <<parsed, finish, room, mSem, transfer, loaded, phase>>
WaitFrom(w) == At(w, "from") /\ AccountWait(w, From(w), "credit")

\* Accounts[i].Money += d, as a load and a store.
MoneyLoad(w, i, next) ==
  /\ loaded' = [loaded EXCEPT ![w] = Accounts[i].money]
  /\ Goto(w, next)
  /\ UNCHANGED <<parsed, finish, room, mSem, transfer, phase>>

MoneyStore(w, i, d, next) ==
  /\ Accounts' = [Accounts EXCEPT ![i].money = loaded[w] + d]
  /\ loaded' = [loaded EXCEPT ![w] = 0]
  /\ Goto(w, next)
  /\ UNCHANGED <<N, file, line, Transfers, finish, room, mSem, transfer, phase>>

CreditLoad(w) == At(w, "credit") /\ MoneyLoad(w, To(w), "credit store")
CreditStore(w) ==
  At(w, "credit store") /\ MoneyStore(w, To(w), transfer[w].amount, "debit")
DebitLoad(w) == At(w, "debit") /\ MoneyLoad(w, From(w), "debit store")
DebitStore(w) ==
  At(w, "debit store") /\ MoneyStore(w, From(w), -transfer[w].amount, "post from")

AccountPost(w, i, next) ==
  /\ mSem' = [mSem EXCEPT ![i] = @ + 1]
  /\ Goto(w, next)
  /\ UNCHANGED <<parsed, finish, room, transfer, loaded, phase>>

PostFrom(w) == At(w, "post from") /\ AccountPost(w, From(w), "post to")

\* mutant: the semaphore of the To account is not posted.
PostTo_Forgotten(w) ==
  /\ At(w, "post to")
  /\ Goto(w, "post")
  /\ UNCHANGED <<parsed, finish, room, mSem, transfer, loaded, phase>>
PostTo(w) == At(w, "post to") /\ AccountPost(w, To(w), "post")

RoomPost(w) ==
  /\ At(w, "post")
  /\ room' = room + 1
  /\ transfer' = [transfer EXCEPT ![w] = None]
  /\ Goto(w, "loop")
  /\ UNCHANGED <<parsed, finish, mSem, loaded, phase>>

-----------------------------------------------------------------------------
Init ==
  /\ \E a \in Arguments : N = a.threads /\ file = a.file
  /\ line = 0
  /\ Accounts = <<>> /\ Transfers = <<>> /\ finish = 0
  /\ room = 0 /\ mSem = <<>>
  /\ pc = [w \in Workers |-> "done"]
  /\ transfer = [w \in Workers |-> None]
  /\ loaded = [w \in Workers |-> 0]
  /\ phase = "reading"

Main == ReadLine \/ StartWorkers \/ JoinAndPrint

SendMoney(w) ==
  \/ LoopTest(w) \/ RoomWait(w) \/ SizeTest(w)
  \/ Back(w) \/ PopLoad(w) \/ PopStore(w) \/ Lookup(w)
  \/ WaitTo(w) \/ WaitFrom(w)
  \/ CreditLoad(w) \/ CreditStore(w) \/ DebitLoad(w) \/ DebitStore(w)
  \/ PostFrom(w) \/ PostTo(w) \/ RoomPost(w)

Next == Main \/ \E w \in Workers : SendMoney(w)

Spec == Init /\ [][Next]_vars

\* Every thread is scheduled; sem_wait does not promise an order.
LiveSpec ==
  /\ Spec /\ WF_vars(Main)
  /\ \A w \in UNION {1 .. a.threads : a \in Arguments} :
       WF_vars(w \in Workers /\ SendMoney(w))

-----------------------------------------------------------------------------
\* The bank seen through the state: a transfer is made when it is debited.

\* The amounts in the workers' hands, and the workers in mid-transfer.
Amounts == [w \in Workers |-> transfer[w].amount]
Credited == {w \in Workers : pc[w] \in {"debit", "debit store"}}

Balance ==
  IF phase = "reading" THEN Opening(file)
  ELSE [id \in {Accounts[i].id : i \in DOMAIN Accounts} |->
          Accounts[Index(id)].money -
            SumFunctionOnSet(Amounts, {w \in Credited : To(w) = Index(id)})]

Due ==
  IF phase = "reading" THEN Orders(file)
  ELSE LET inHand(x) == {w \in Workers :
                           /\ pc[w] \in {"lookup", "to", "from", "credit",
                                         "credit store", "debit", "debit store"}
                           /\ transfer[w] = x}
           inVector(x) == {k \in 1 .. finish : Transfers[k] = x}
           left(x) == Cardinality(inHand(x)) + Cardinality(inVector(x))
       IN [x \in {y \in ToSet(Transfers) : left(y) > 0} |-> left(x)]

Bank == INSTANCE EftBank WITH
  Inputs <- {a.file : a \in Arguments}, balance <- Balance, due <- Due

\* With one thread at a time at the vector, the program makes each transfer of the
\* file at once and once, on the accounts as the file first defines them.
ImplementsBank == Bank!Init /\ [][N > 2 \/ Bank!Next]_<<Balance, Due>>

-----------------------------------------------------------------------------
\* Properties.

\* Every variable has its type.
TypeOK ==
  /\ [file |-> file, threads |-> N] \in Arguments
  /\ line \in 0 .. Len(file)
  /\ \A i \in DOMAIN Accounts : Accounts[i].money \in Int
  /\ finish \in 0 .. Len(Transfers)
  /\ room \in 0 .. Room
  /\ DOMAIN mSem = IF phase = "reading" THEN {} ELSE DOMAIN Accounts
  /\ pc \in [Workers -> {"loop", "wait", "test", "back", "pop", "store", "lookup",
                         "to", "from", "credit", "credit store", "debit",
                         "debit store", "post from", "post to", "post", "done"}]
  /\ \A w \in Workers : transfer[w] \in {None} \union ToSet(Transfers)
  /\ loaded \in [Workers -> Int]
  /\ phase \in {"reading", "working", "printed", "exited", "undefined"}

\* The workers past a sem_wait of account i and not past its sem_post.
Holders(i) ==
  {w \in Workers :
     \/ /\ pc[w] \in {"from", "credit", "credit store", "debit", "debit store",
                      "post from", "post to"}
        /\ To(w) = i
     \/ /\ pc[w] \in {"credit", "credit store", "debit", "debit store", "post from"}
        /\ From(w) = i}

Inside == {w \in Workers : pc[w] \notin {"loop", "wait", "done"}}

\* Every semaphore is accounted for: SemTransfers is short of its initial value by
\* the workers at the vector, and an account's semaphore is free or has a single
\* holder, so two workers never update one balance at the same time.
SemaphoresAccounted ==
  phase # "reading" =>
    /\ room + Cardinality(Inside) = Room
    /\ \A i \in DOMAIN Accounts :
         mSem[i] \in {0, 1} /\ mSem[i] + Cardinality(Holders(i)) = 1

Money == [i \in DOMAIN Accounts |-> Accounts[i].money]

\* No money appears or is lost, though transfers overlap and may be made twice or
\* not at all: what is missing from the accounts' total is what workers have
\* credited and not debited yet.
MoneyConserved ==
  phase # "reading" =>
    SumFunction(Money) - SumFunctionOnSet(Amounts, Credited) = SumFunction(Opening(file))

Blocked(w) ==
  \/ pc[w] = "done"
  \/ pc[w] = "wait" /\ room = 0
  \/ pc[w] = "to" /\ mSem[To(w)] = 0
  \/ pc[w] = "from" /\ mSem[From(w)] = 0

\* The workers deadlock only in a cycle of transfers, each holding its To account
\* and waiting for the To account of another (or its own, From = To).
StuckOnlyInCycle ==
  phase = "working" /\ (\A w \in Workers : Blocked(w))
    => \/ \A w \in Workers : pc[w] = "done"
       \/ \E cycle \in (SUBSET Workers) \ {{}} : \A w \in cycle :
            /\ pc[w] = "from"
            /\ \E v \in cycle : To(v) = From(w)

\* The balances printed are those of the file with each transfer made once.
BalancesExpected ==
  phase = "printed" =>
    \A i \in DOMAIN Accounts :
      Accounts[i].money = Closing(file)[Accounts[i].id]

\* They are with one thread at a time at the vector.
SerialBalancesExpected == N <= 2 => BalancesExpected

\* With one thread at a time at the vector the workers come to an end, unless one
\* took a transfer from an account to itself and waits for the semaphore it holds.
Finishes ==
  <>(\/ N > 2
     \/ phase \in {"printed", "exited"}
     \/ \E w \in Workers : pc[w] = "from" /\ To(w) = From(w))
=============================================================================
