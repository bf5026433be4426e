----------------------------- MODULE EftProofs ------------------------------
(***************************************************************************)
(* Theorems about Eft for any input files and any numbers of threads: the  *)
(* semaphores are accounted for, the workers block only in a cycle, no     *)
(* money is lost; and with one worker at a time at the vector the program  *)
(* implements the bank of EftBank and prints the right balances.           *)
(***************************************************************************)
EXTENDS Eft, SequenceTheorems, FiniteSetTheorems, WellFoundedInduction, TLAPS

Labels == {"loop", "wait", "test", "back", "pop", "store", "lookup", "to", "from",
           "credit", "credit store", "debit", "debit store", "post from", "post to",
           "post", "done"}
Credits == {"credit", "credit store", "debit", "debit store", "post from"}
OnAccounts == Credits \union {"to", "from", "post to"}
Phases == {"reading", "working", "printed", "exited", "undefined"}

\* What was read of the file, and the part of the vector that is left.
Data ==
  /\ [file |-> file, threads |-> N] \in Arguments
  /\ N \in Nat \ {0} /\ file \in Seq(Lines) /\ line \in 0 .. Len(file)
  /\ Accounts \in Seq([id : Int, money : Int])
  /\ Transfers \in Seq([from : Int, to : Int, amount : Int])
  /\ finish \in 0 .. Len(Transfers)
  /\ phase \in Phases

\* Where the workers are and what they hold in their hands: between the look-up and
\* the posts both accounts are known, and they differ once both semaphores are taken.
Hands ==
  /\ pc \in [Workers -> Labels]
  /\ transfer \in [Workers -> {None} \union ToSet(Transfers)]
  /\ loaded \in [Workers -> Int]
  /\ phase = "reading" => \A w \in Workers : pc[w] = "done"
  /\ \A w \in Workers : pc[w] = "store" => loaded[w] \in 0 .. Len(Transfers)
  /\ \A w \in Workers :
       pc[w] \in OnAccounts => To(w) \in DOMAIN Accounts /\ From(w) \in DOMAIN Accounts
  /\ \A w \in Workers : pc[w] \in Credits => To(w) # From(w)

\* The semaphores, with the counts that SemaphoresAccounted speaks of.
Sems ==
  /\ phase = "reading" => room = 0 /\ mSem = <<>>
  /\ phase # "reading" =>
       /\ room \in Nat /\ room + Cardinality(Inside) = Room
       /\ mSem \in [DOMAIN Accounts -> Nat]
       /\ \A i \in DOMAIN Accounts : mSem[i] + Cardinality(Holders(i)) = 1

-----------------------------------------------------------------------------
\* Indexes and counts.

\* GetAccountIndex finds an index of the vector, or nothing.
LEMMA IndexFound ==
  ASSUME NEW id
  PROVE  Index(id) \in DOMAIN Accounts \union {0}
BY DEF Index

\* Money moves, indexes do not.
LEMMA IndexKept ==
  ASSUME DOMAIN Accounts' = DOMAIN Accounts,
         \A i \in DOMAIN Accounts : Accounts'[i].id = Accounts[i].id,
         NEW v, transfer'[v] = transfer[v]
  PROVE  To(v)' = To(v) /\ From(v)' = From(v)
<1>1. \A i, id : i \in DOMAIN Accounts' /\ Accounts'[i].id = id
                   <=> i \in DOMAIN Accounts /\ Accounts[i].id = id
  OBVIOUS
<1>2. To(v)' = To(v)
  BY <1>1 DEF To, Index
<1>3. From(v)' = From(v)
  BY <1>1 DEF From, Index
<1> QED BY <1>2, <1>3

Bit(p) == IF p THEN 1 ELSE 0

\* Two sets of workers that differ in w at most.
LEMMA Counted ==
  ASSUME NEW S, NEW T, NEW w, IsFiniteSet(S), IsFiniteSet(T),
         \A v : v # w => (v \in S <=> v \in T)
  PROVE  Cardinality(T) + Bit(w \in S) = Cardinality(S) + Bit(w \in T)
<1>1. S \ {w} = T \ {w}
  OBVIOUS
<1>2. Cardinality(S \ {w}) = IF w \in S THEN Cardinality(S) - 1 ELSE Cardinality(S)
  BY FS_RemoveElement
<1>3. Cardinality(T \ {w}) = IF w \in T THEN Cardinality(T) - 1 ELSE Cardinality(T)
  BY FS_RemoveElement
<1>4. Cardinality(S) \in Nat /\ Cardinality(T) \in Nat
  BY FS_CardinalityType
<1> QED BY <1>1, <1>2, <1>3, <1>4 DEF Bit

LEMMA FiniteWorkers ==
  ASSUME Data
  PROVE  /\ IsFiniteSet(Workers)
         /\ \A S \in SUBSET Workers : IsFiniteSet(S) /\ Cardinality(S) \in Nat
<1>1. N \in Int /\ 1 \in Int
  BY DEF Data
<1>2. IsFiniteSet(Workers)
  BY <1>1, FS_Interval DEF Workers
<1> QED BY <1>2, FS_Subset, FS_CardinalityType

\* A step of w after the reading: it is enough to look at w.
LEMMA SemsStep ==
  ASSUME Data, Data', Hands, Sems, phase # "reading", phase' # "reading", N' = N,
         DOMAIN Accounts' = DOMAIN Accounts, NEW w \in Workers,
         \A v \in Workers \ {w} : (v \in Inside)' <=> v \in Inside,
         \A i \in DOMAIN Accounts : \A v \in Workers \ {w} :
           (v \in Holders(i))' <=> v \in Holders(i),
         room' \in Nat, mSem' \in [DOMAIN Accounts -> Nat],
         room' + Bit(w \in Inside)' = room + Bit(w \in Inside),
         \A i \in DOMAIN Accounts :
           mSem'[i] + Bit(w \in Holders(i))' = mSem[i] + Bit(w \in Holders(i))
  PROVE  Sems'
<1>1. Workers' = Workers
  BY DEF Workers
<1>2. Inside \in SUBSET Workers /\ Inside' \in SUBSET Workers
  BY <1>1 DEF Inside
<1>3. \A i \in DOMAIN Accounts : Holders(i) \in SUBSET Workers /\ Holders(i)' \in SUBSET Workers
  BY <1>1 DEF Holders
<1>4. room' + Cardinality(Inside') = Room'
  <2>1. Cardinality(Inside') + Bit(w \in Inside) = Cardinality(Inside) + Bit(w \in Inside')
    BY <1>2, FiniteWorkers, Counted
  <2>2. room + Cardinality(Inside) = Room /\ Room' = Room /\ room \in Nat
    BY DEF Sems, Room
  <2>3. Cardinality(Inside) \in Nat /\ Cardinality(Inside') \in Nat /\ Room \in Int
    BY <1>2, FiniteWorkers DEF Room, Data
  <2>4. Bit(w \in Inside)' = Bit(w \in Inside')
    OBVIOUS
  <2>5. Bit(w \in Inside) \in Nat /\ Bit(w \in Inside') \in Nat
    BY DEF Bit
  <2> QED BY <2>1, <2>2, <2>3, <2>4, <2>5
<1>5. ASSUME NEW i \in DOMAIN Accounts
      PROVE  mSem'[i] + Cardinality(Holders(i)') = 1
  <2>1. Cardinality(Holders(i)') + Bit(w \in Holders(i))
          = Cardinality(Holders(i)) + Bit(w \in Holders(i)')
    BY <1>3, FiniteWorkers, Counted
  <2>2. mSem[i] + Cardinality(Holders(i)) = 1 /\ mSem[i] \in Int /\ mSem'[i] \in Int
    BY DEF Sems
  <2>3. Cardinality(Holders(i)) \in Nat /\ Cardinality(Holders(i)') \in Nat
    BY <1>3, FiniteWorkers
  <2>4. Bit(w \in Holders(i))' = Bit(w \in Holders(i)')
    OBVIOUS
  <2>5. Bit(w \in Holders(i)) \in Nat /\ Bit(w \in Holders(i)') \in Nat
    BY DEF Bit
  <2>6. mSem'[i] + Bit(w \in Holders(i)') = mSem[i] + Bit(w \in Holders(i))
    BY <2>4
  <2> QED BY <2>1, <2>2, <2>3, <2>5, <2>6
<1> QED BY <1>4, <1>5 DEF Sems

\* What a worker at label l with the transfer of w holds.
Taken == Credits \union {"from", "post to"}
Holds(w, l, i) == (l \in Taken /\ To(w) = i) \/ (l \in Credits /\ From(w) = i)
Within(l) == l \notin {"loop", "wait", "done"}

\* A step in which w goes to label l: it has to pay for what it takes there and to know
\* what it needs there; the others are where they were.
LEMMA GotoStep ==
  ASSUME Data, Data', Hands, Sems, NEW w \in Workers, NEW l \in Labels,
         phase # "reading", phase' # "reading", Goto(w, l),
         UNCHANGED <<N, Transfers>>, DOMAIN Accounts' = DOMAIN Accounts,
         \A i \in DOMAIN Accounts : Accounts'[i].id = Accounts[i].id,
         transfer' \in [Workers -> {None} \union ToSet(Transfers)],
         \A v \in Workers \ {w} : transfer'[v] = transfer[v],
         transfer'[w] = transfer[w] \/ (pc[w] \notin OnAccounts /\ l \notin OnAccounts),
         loaded' \in [Workers -> Int],
         \A v \in Workers \ {w} : loaded'[v] = loaded[v],
         l = "store" => loaded'[w] \in 0 .. Len(Transfers),
         l \in OnAccounts => To(w) \in DOMAIN Accounts /\ From(w) \in DOMAIN Accounts,
         l \in Credits => To(w) # From(w),
         room' \in Nat, mSem' \in [DOMAIN Accounts -> Nat],
         room' + Bit(Within(l)) = room + Bit(Within(pc[w])),
         \A i \in DOMAIN Accounts :
           mSem'[i] + Bit(Holds(w, l, i)) = mSem[i] + Bit(Holds(w, pc[w], i))
  PROVE  Hands' /\ Sems'
<1>1. Workers' = Workers
  BY DEF Workers
<1>2. /\ pc' \in [Workers -> Labels] /\ pc'[w] = l
      /\ \A v \in Workers \ {w} : pc'[v] = pc[v]
  BY DEF Goto, Hands
<1>3. ASSUME NEW v \in Workers, transfer'[v] = transfer[v]
      PROVE  To(v)' = To(v) /\ From(v)' = From(v)
  BY <1>3, IndexKept
<1>4. Hands'
  <2>1. /\ pc' \in [Workers' -> Labels] /\ loaded' \in [Workers' -> Int]
        /\ transfer' \in [Workers' -> {None} \union ToSet(Transfers')]
    BY <1>1, <1>2
  <2>2. \A v \in Workers' : pc'[v] = "store" => loaded'[v] \in 0 .. Len(Transfers')
    BY <1>1, <1>2 DEF Hands
  <2>3. ASSUME NEW v \in Workers, pc'[v] \in OnAccounts
        PROVE  To(v)' \in DOMAIN Accounts' /\ From(v)' \in DOMAIN Accounts'
    BY <1>2, <1>3, <2>3 DEF Hands
  <2>4. ASSUME NEW v \in Workers, pc'[v] \in Credits
        PROVE  To(v)' # From(v)'
    BY <1>2, <1>3, <2>4 DEF Hands, OnAccounts
  <2>5. (\A v \in Workers : pc[v] \in OnAccounts
           => To(v) \in DOMAIN Accounts /\ From(v) \in DOMAIN Accounts)'
    BY <1>1, <2>3
  <2>6. (\A v \in Workers : pc[v] \in Credits => To(v) # From(v))'
    BY <1>1, <2>4
  <2> QED BY <2>1, <2>2, <2>5, <2>6 DEF Hands
<1>5. ASSUME NEW v \in Workers
      PROVE  (v \in Inside)' <=> Within(pc'[v])
  BY <1>1 DEF Inside, Within
<1>6. ASSUME NEW v \in Workers, NEW i \in DOMAIN Accounts
      PROVE  /\ v \in Holders(i) <=> Holds(v, pc[v], i)
             /\ (v \in Holders(i))' <=>
                  \/ pc'[v] \in Taken /\ To(v)' = i
                  \/ pc'[v] \in Credits /\ From(v)' = i
  BY <1>1 DEF Holders, Holds, Taken, Credits
<1>7. \A v \in Workers \ {w} : (v \in Inside)' <=> v \in Inside
  BY <1>2, <1>5 DEF Inside, Within
<1>8. \A i \in DOMAIN Accounts : \A v \in Workers \ {w} :
        (v \in Holders(i))' <=> v \in Holders(i)
  BY <1>2, <1>3, <1>6 DEF Holds
<1>9. room' + Bit(w \in Inside)' = room + Bit(w \in Inside)
  <2>1. (w \in Inside)' <=> Within(l)
    BY <1>2, <1>5
  <2>2. w \in Inside <=> Within(pc[w])
    BY DEF Inside, Within
  <2> QED BY <2>1, <2>2 DEF Bit
<1>10. ASSUME NEW i \in DOMAIN Accounts
       PROVE  mSem'[i] + Bit(w \in Holders(i))' = mSem[i] + Bit(w \in Holders(i))
  <2>1. (w \in Holders(i))' <=> Holds(w, l, i)
    <3>1. CASE transfer'[w] = transfer[w]
      BY <1>2, <1>3, <1>6, <3>1 DEF Holds
    <3>2. CASE l \notin OnAccounts
      BY <1>2, <1>6, <3>2 DEF Holds, Taken, OnAccounts
    <3> QED BY <3>1, <3>2
  <2>2. w \in Holders(i) <=> Holds(w, pc[w], i)
    BY <1>6
  <2> QED BY <2>1, <2>2 DEF Bit
<1> QED BY <1>4, <1>7, <1>8, <1>9, <1>10, SemsStep

-----------------------------------------------------------------------------
\* The inductive invariant, and the steps that preserve it.

IInv == Data /\ Hands /\ Sems

\* The process ends, or all its workers have.
LEMMA StopStep ==
  ASSUME IInv, phase # "reading", phase' \in Phases \ {"reading"},
         UNCHANGED <<parsed, finish, room, mSem, pc, transfer, loaded>>
  PROVE  IInv'
<1>1. Data'
  BY DEF IInv, Data, parsed
<1>2. Workers' = Workers /\ Room' = Room
  BY DEF Workers, Room, parsed
<1>3. \A v \in Workers : To(v)' = To(v) /\ From(v)' = From(v)
  BY DEF To, From, Index, parsed
<1>4. Hands'
  BY <1>2, <1>3 DEF IInv, Hands, parsed
<1>5. Inside' = Inside
  BY <1>2 DEF Inside
<1>6. \A i : Holders(i)' = Holders(i)
  BY <1>2, <1>3 DEF Holders
<1>7. Sems'
  BY <1>2, <1>5, <1>6 DEF IInv, Sems, parsed
<1> QED BY <1>1, <1>4, <1>7 DEF IInv

\* A step that takes no semaphore and gives none back.
LEMMA QuietStep ==
  ASSUME IInv, NEW w \in Workers, NEW l \in Labels, Goto(w, l),
         phase # "reading", UNCHANGED <<parsed, room, mSem, transfer, phase>>,
         finish' \in 0 .. Len(Transfers),
         loaded' \in [Workers -> Int],
         \A v \in Workers \ {w} : loaded'[v] = loaded[v],
         l = "store" => loaded'[w] \in 0 .. Len(Transfers),
         l \in OnAccounts => To(w) \in DOMAIN Accounts /\ From(w) \in DOMAIN Accounts,
         l \in Taken <=> pc[w] \in Taken, l \in Credits <=> pc[w] \in Credits,
         Within(l) <=> Within(pc[w])
  PROVE  IInv'
<1>1. Data'
  BY DEF IInv, Data, parsed
<1>2. l \in Credits => To(w) # From(w)
  BY DEF IInv, Hands
<1>3. room' \in Nat /\ mSem' \in [DOMAIN Accounts -> Nat]
  BY DEF IInv, Sems
<1>4. room' + Bit(Within(l)) = room + Bit(Within(pc[w]))
  BY DEF Bit
<1>5. \A i \in DOMAIN Accounts :
        mSem'[i] + Bit(Holds(w, l, i)) = mSem[i] + Bit(Holds(w, pc[w], i))
  BY DEF Bit, Holds
<1>6. transfer' \in [Workers -> {None} \union ToSet(Transfers)]
  BY DEF IInv, Hands
<1>7. Hands' /\ Sems'
  BY <1>1, <1>2, <1>3, <1>4, <1>5, <1>6, GotoStep DEF IInv, parsed
<1> QED BY <1>1, <1>7 DEF IInv

\* A step that gives back or takes one semaphore, or puts a transfer into the hands of w.
LEMMA SemaphoreStep ==
  ASSUME IInv, NEW w \in Workers, NEW l \in Labels, Goto(w, l),
         phase # "reading", UNCHANGED <<parsed, finish, loaded, phase>>,
         transfer' \in [Workers -> {None} \union ToSet(Transfers)],
         \A v \in Workers \ {w} : transfer'[v] = transfer[v],
         transfer'[w] = transfer[w] \/ (pc[w] \notin OnAccounts /\ l \notin OnAccounts),
         l # "store", l \in OnAccounts => pc[w] \in OnAccounts,
         l \in Credits => To(w) # From(w),
         room' \in Nat, mSem' \in [DOMAIN Accounts -> Nat],
         room' + Bit(Within(l)) = room + Bit(Within(pc[w])),
         \A i \in DOMAIN Accounts :
           mSem'[i] + Bit(Holds(w, l, i)) = mSem[i] + Bit(Holds(w, pc[w], i))
  PROVE  IInv'
<1>1. Data'
  BY DEF IInv, Data, parsed
<1>2. loaded' \in [Workers -> Int]
  BY DEF IInv, Hands
<1>3. l \in OnAccounts => To(w) \in DOMAIN Accounts /\ From(w) \in DOMAIN Accounts
  BY DEF IInv, Hands
<1>4. Hands' /\ Sems'
  BY <1>1, <1>2, <1>3, GotoStep DEF IInv, parsed
<1> QED BY <1>1, <1>4 DEF IInv

\* The elements of a sequence.
LEMMA Elements ==
  ASSUME NEW D, NEW s \in Seq(D)
  PROVE  /\ \A x \in ToSet(s) : x \in D
         /\ \A k \in 1 .. Len(s) : s[k] \in ToSet(s)
BY DEF ToSet

\* The transfer in a worker's hands, and those of the storage.
LEMMA TransferType ==
  ASSUME IInv, NEW w \in Workers
  PROVE  /\ transfer[w].amount \in Int
         /\ \A k \in 1 .. Len(Transfers) : Transfers[k] \in ToSet(Transfers)
<1>1. Transfers \in Seq([from : Int, to : Int, amount : Int])
  BY DEF IInv, Data
<1>2. transfer[w] \in {None} \union ToSet(Transfers)
  BY DEF IInv, Hands
<1>3. None \in [from : Int, to : Int, amount : Int]
  BY DEF None
<1>4. transfer[w] \in [from : Int, to : Int, amount : Int]
  BY <1>1, <1>2, <1>3, Elements
<1>5. transfer[w].amount \in Int
  BY <1>4
<1> QED BY <1>1, <1>5, Elements

-----------------------------------------------------------------------------
\* The worker's actions.

\* Those at the vector.
LEMMA AtVector ==
  ASSUME IInv, NEW w \in Workers,
         \/ LoopTest(w) \/ RoomWait(w) \/ SizeTest(w) \/ Back(w) \/ PopLoad(w)
         \/ PopStore(w) \/ RoomPost(w)
  PROVE  IInv'
<1>1. /\ finish \in 0 .. Len(Transfers) /\ Len(Transfers) \in Nat
      /\ transfer \in [Workers -> {None} \union ToSet(Transfers)]
      /\ loaded \in [Workers -> Int]
      /\ pc[w] = "store" => loaded[w] \in 0 .. Len(Transfers)
  <2>1. finish \in 0 .. Len(Transfers)
    BY DEF IInv, Data
  <2>2. Transfers \in Seq([from : Int, to : Int, amount : Int])
    BY DEF IInv, Data
  <2>3. Len(Transfers) \in Nat
    BY <2>2
  <2> QED BY <2>1, <2>3 DEF IInv, Hands
<1> USE DEF At, Labels, Credits, OnAccounts, Taken, Within
<1>2. /\ phase # "reading" => room \in Nat /\ mSem \in [DOMAIN Accounts -> Nat]
      /\ "working" \in Phases \ {"reading"} /\ "undefined" \in Phases \ {"reading"}
  BY DEF IInv, Sems, Phases
<1>3. CASE LoopTest(w)
  <2>1. CASE Goto(w, "wait")
    BY <1>1, <1>2, <1>3, <2>1, QuietStep DEF LoopTest
  <2>2. CASE Goto(w, "done")
    BY <1>1, <1>2, <1>3, <2>2, QuietStep DEF LoopTest
  <2> QED BY <1>3, <2>1, <2>2 DEF LoopTest
<1>4. CASE RoomWait(w)
  <2>1. room' \in Nat /\ room' + 1 = room /\ mSem' = mSem
    BY <1>2, <1>4 DEF RoomWait
  <2>2. room' + Bit(Within("test")) = room + Bit(Within(pc[w]))
    BY <1>4, <2>1 DEF RoomWait, Bit
  <2>3. \A i \in DOMAIN Accounts :
          mSem'[i] + Bit(Holds(w, "test", i)) = mSem[i] + Bit(Holds(w, pc[w], i))
    BY <1>4, <2>1 DEF RoomWait, Bit, Holds
  <2> QED BY <1>1, <1>2, <1>4, <2>1, <2>2, <2>3, SemaphoreStep DEF RoomWait
<1>5. CASE SizeTest(w)
  <2>1. CASE Goto(w, "back")
    BY <1>1, <1>2, <1>5, <2>1, QuietStep DEF SizeTest
  <2>2. CASE Goto(w, "post")
    BY <1>1, <1>2, <1>5, <2>2, QuietStep DEF SizeTest
  <2> QED BY <1>5, <2>1, <2>2 DEF SizeTest
<1>6. CASE Back(w)
  <2>1. CASE finish = 0 /\ Undefined
    BY <1>2, <1>6, <2>1, StopStep DEF Back, Undefined
  <2>2. CASE finish # 0 /\ transfer' = [transfer EXCEPT ![w] = BackElement]
             /\ Goto(w, "pop") /\ UNCHANGED <<finish, loaded, phase>>
    <3>1. BackElement \in ToSet(Transfers)
      BY <1>1, <2>2, TransferType DEF BackElement
    <3>2. /\ transfer' \in [Workers -> {None} \union ToSet(Transfers)]
          /\ \A v \in Workers \ {w} : transfer'[v] = transfer[v]
      BY <1>1, <2>2, <3>1
    <3>3. room' \in Nat /\ room' = room /\ mSem' = mSem
      BY <1>2, <1>6 DEF Back
    <3>4. room' + Bit(Within("pop")) = room + Bit(Within(pc[w]))
      BY <1>6, <3>3 DEF Back, Bit
    <3>5. \A i \in DOMAIN Accounts :
            mSem'[i] + Bit(Holds(w, "pop", i)) = mSem[i] + Bit(Holds(w, pc[w], i))
      BY <1>6, <3>3 DEF Back, Bit, Holds
    <3> QED BY <1>2, <1>6, <2>2, <3>2, <3>3, <3>4, <3>5, SemaphoreStep DEF Back
  <2> QED BY <1>6, <2>1, <2>2 DEF Back
<1>7. CASE PopLoad(w)
  <2>1. /\ loaded' \in [Workers -> Int] /\ loaded'[w] = finish
        /\ \A v \in Workers \ {w} : loaded'[v] = loaded[v]
    BY <1>1, <1>7 DEF PopLoad
  <2> QED BY <1>1, <1>2, <1>7, <2>1, QuietStep DEF PopLoad
<1>8. CASE PopStore(w)
  <2>1. CASE loaded[w] = 0 /\ Undefined
    BY <1>2, <1>8, <2>1, StopStep DEF PopStore, Undefined
  <2>2. CASE loaded[w] # 0 /\ finish' = loaded[w] - 1
             /\ loaded' = [loaded EXCEPT ![w] = 0] /\ Goto(w, "lookup")
             /\ UNCHANGED <<transfer, phase>>
    <3>1. /\ loaded' \in [Workers -> Int] /\ finish' \in 0 .. Len(Transfers)
          /\ \A v \in Workers \ {w} : loaded'[v] = loaded[v]
      BY <1>1, <1>8, <2>2 DEF PopStore
    <3> QED BY <1>2, <1>8, <2>2, <3>1, QuietStep DEF PopStore
  <2> QED BY <1>8, <2>1, <2>2 DEF PopStore
<1>9. CASE RoomPost(w)
  <2>1. room' \in Nat /\ room' = room + 1 /\ mSem' = mSem
    BY <1>2, <1>9 DEF RoomPost
  <2>2. room' + Bit(Within("loop")) = room + Bit(Within(pc[w]))
    BY <1>9, <2>1 DEF RoomPost, Bit
  <2>3. \A i \in DOMAIN Accounts :
          mSem'[i] + Bit(Holds(w, "loop", i)) = mSem[i] + Bit(Holds(w, pc[w], i))
    BY <1>9, <2>1 DEF RoomPost, Bit, Holds
  <2>4. /\ transfer' \in [Workers -> {None} \union ToSet(Transfers)]
        /\ \A v \in Workers \ {w} : transfer'[v] = transfer[v]
    BY <1>1, <1>9 DEF RoomPost
  <2> QED BY <1>2, <1>9, <2>1, <2>2, <2>3, <2>4, SemaphoreStep DEF RoomPost
<1> QED BY <1>3, <1>4, <1>5, <1>6, <1>7, <1>8, <1>9

\* The look-up and the semaphores of the accounts.
LEMMA AtSemaphores ==
  ASSUME IInv, NEW w \in Workers,
         Lookup(w) \/ WaitTo(w) \/ WaitFrom(w) \/ PostFrom(w) \/ PostTo(w)
  PROVE  IInv'
<1>1. /\ phase # "reading" => room \in Nat /\ mSem \in [DOMAIN Accounts -> Nat]
      /\ "working" \in Phases \ {"reading"} /\ "exited" \in Phases \ {"reading"}
  BY DEF IInv, Sems, Phases
<1>2. /\ pc[w] \in OnAccounts => To(w) \in DOMAIN Accounts /\ From(w) \in DOMAIN Accounts
      /\ pc[w] \in Credits => To(w) # From(w)
      /\ transfer \in [Workers -> {None} \union ToSet(Transfers)]
      /\ loaded \in [Workers -> Int]
      /\ finish \in 0 .. Len(Transfers)
  BY DEF IInv, Hands, Data
<1> USE DEF At, Labels, Credits, OnAccounts, Taken, Within
<1>3. CASE Lookup(w)
  <2>1. CASE phase' = "exited" /\ UNCHANGED pc
    BY <1>1, <1>3, <2>1, StopStep DEF Lookup
  <2>2. CASE To(w) # 0 /\ From(w) # 0 /\ Goto(w, "to") /\ UNCHANGED phase
    <3>1. To(w) \in DOMAIN Accounts /\ From(w) \in DOMAIN Accounts
      BY <2>2, IndexFound DEF To, From
    <3> QED BY <1>2, <1>3, <2>2, <3>1, QuietStep DEF Lookup
  <2> QED BY <1>3, <2>1, <2>2 DEF Lookup
<1>4. ASSUME WaitTo(w) \/ WaitFrom(w) \/ PostFrom(w) \/ PostTo(w)
      PROVE  /\ phase = "working" /\ room' \in Nat /\ room' = room
             /\ UNCHANGED <<parsed, finish, loaded, phase, transfer>>
             /\ mSem \in [DOMAIN Accounts -> Nat]
             /\ To(w) \in DOMAIN Accounts /\ From(w) \in DOMAIN Accounts
  BY <1>1, <1>2, <1>4 DEF WaitTo, WaitFrom, PostFrom, PostTo, AccountWait, AccountPost
<1>5. CASE WaitTo(w)
  <2>1. /\ pc[w] = "to" /\ Goto(w, "from") /\ mSem[To(w)] > 0
        /\ mSem' = [mSem EXCEPT ![To(w)] = @ - 1]
    BY <1>5 DEF WaitTo, AccountWait
  <2>2. mSem' \in [DOMAIN Accounts -> Nat]
    BY <1>4, <1>5, <2>1
  <2>3. \A i \in DOMAIN Accounts :
          mSem'[i] + Bit(Holds(w, "from", i)) = mSem[i] + Bit(Holds(w, pc[w], i))
    BY <1>4, <1>5, <2>1 DEF Bit, Holds
  <2>4. room' + Bit(Within("from")) = room + Bit(Within(pc[w]))
    BY <1>4, <1>5, <2>1 DEF Bit
  <2> QED BY <1>2, <1>4, <1>5, <2>1, <2>2, <2>3, <2>4, SemaphoreStep
<1>6. CASE WaitFrom(w)
  <2>1. /\ pc[w] = "from" /\ Goto(w, "credit") /\ mSem[From(w)] > 0
        /\ mSem' = [mSem EXCEPT ![From(w)] = @ - 1]
    BY <1>6 DEF WaitFrom, AccountWait
  <2>2. mSem' \in [DOMAIN Accounts -> Nat]
    BY <1>4, <1>6, <2>1
  \* The worker holds its To account, so that semaphore is not free.
  <2>3. To(w) # From(w)
    <3>1. w \in Holders(To(w))
      BY <2>1 DEF Holders
    <3>2. Holders(To(w)) \in SUBSET Workers
      BY DEF Holders
    <3>3. Cardinality(Holders(To(w))) \in Nat /\ IsFiniteSet(Holders(To(w)))
      BY <3>2, FiniteWorkers DEF IInv
    <3>4. Cardinality(Holders(To(w))) # 0
      BY <3>1, <3>3, FS_EmptySet
    <3>5. mSem[To(w)] + Cardinality(Holders(To(w))) = 1 /\ mSem[To(w)] \in Int
      BY <1>4, <1>6 DEF IInv, Sems
    <3> QED BY <2>1, <3>3, <3>4, <3>5
  <2>4. \A i \in DOMAIN Accounts :
          mSem'[i] + Bit(Holds(w, "credit", i)) = mSem[i] + Bit(Holds(w, pc[w], i))
    BY <1>4, <1>6, <2>1, <2>3 DEF Bit, Holds
  <2>5. room' + Bit(Within("credit")) = room + Bit(Within(pc[w]))
    BY <1>4, <1>6, <2>1 DEF Bit
  <2> QED BY <1>2, <1>4, <1>6, <2>1, <2>2, <2>3, <2>4, <2>5, SemaphoreStep
<1>7. CASE PostFrom(w)
  <2>1. /\ pc[w] = "post from" /\ Goto(w, "post to")
        /\ mSem' = [mSem EXCEPT ![From(w)] = @ + 1]
    BY <1>7 DEF PostFrom, AccountPost
  <2>0. /\ mSem \in [DOMAIN Accounts -> Nat] /\ From(w) \in DOMAIN Accounts
        /\ mSem[From(w)] + 1 \in Nat
    BY <1>4, <1>7
  <2>2. mSem' \in [DOMAIN Accounts -> Nat]
    BY <2>0, <2>1
  <2>3. \A i \in DOMAIN Accounts :
          mSem'[i] + Bit(Holds(w, "post to", i)) = mSem[i] + Bit(Holds(w, pc[w], i))
    <3> SUFFICES ASSUME NEW i \in DOMAIN Accounts
                 PROVE  mSem'[i] + Bit(Holds(w, "post to", i))
                          = mSem[i] + Bit(Holds(w, pc[w], i))
      OBVIOUS
    <3>1. /\ mSem[i] \in Int
          /\ mSem'[i] = IF i = From(w) THEN mSem[i] + 1 ELSE mSem[i]
      <4>1. mSem[i] \in Nat
        BY <2>0
      <4>2. mSem'[i] = IF i = From(w) THEN mSem[i] + 1 ELSE mSem[i]
        BY <2>0, <2>1
      <4> QED BY <4>1, <4>2
    <3>2. Bit(Holds(w, "post to", i)) = IF i = To(w) THEN 1 ELSE 0
      BY DEF Bit, Holds
    <3>3. Bit(Holds(w, pc[w], i)) = IF i = To(w) \/ i = From(w) THEN 1 ELSE 0
      BY <2>1 DEF Bit, Holds
    <3>4. To(w) # From(w)
      BY <1>2, <2>1
    <3> DEFINE here == Bit(Holds(w, "post to", i))
    <3> DEFINE there == Bit(Holds(w, pc[w], i))
    <3>5. /\ here = IF i = To(w) THEN 1 ELSE 0
          /\ there = IF i = To(w) \/ i = From(w) THEN 1 ELSE 0
      BY <3>2, <3>3
    <3> HIDE DEF here, there
    <3>6. mSem'[i] + here = mSem[i] + there
      BY <3>1, <3>4, <3>5
    <3> QED BY <3>6 DEF here, there
  <2>4. room' + Bit(Within("post to")) = room + Bit(Within(pc[w]))
    BY <1>4, <1>7, <2>1 DEF Bit
  <2> QED BY <1>2, <1>4, <1>7, <2>1, <2>2, <2>3, <2>4, SemaphoreStep
<1>8. CASE PostTo(w)
  <2>1. /\ pc[w] = "post to" /\ Goto(w, "post")
        /\ mSem' = [mSem EXCEPT ![To(w)] = @ + 1]
    BY <1>8 DEF PostTo, AccountPost
  <2>0. /\ mSem \in [DOMAIN Accounts -> Nat] /\ To(w) \in DOMAIN Accounts
        /\ mSem[To(w)] + 1 \in Nat
    BY <1>4, <1>8
  <2>2. mSem' \in [DOMAIN Accounts -> Nat]
    BY <2>0, <2>1
  <2>3. \A i \in DOMAIN Accounts :
          mSem'[i] + Bit(Holds(w, "post", i)) = mSem[i] + Bit(Holds(w, pc[w], i))
    <3> SUFFICES ASSUME NEW i \in DOMAIN Accounts
                 PROVE  mSem'[i] + Bit(Holds(w, "post", i))
                          = mSem[i] + Bit(Holds(w, pc[w], i))
      OBVIOUS
    <3>1. /\ mSem[i] \in Int
          /\ mSem'[i] = IF i = To(w) THEN mSem[i] + 1 ELSE mSem[i]
      <4>1. mSem[i] \in Nat
        BY <2>0
      <4>2. mSem'[i] = IF i = To(w) THEN mSem[i] + 1 ELSE mSem[i]
        BY <2>0, <2>1
      <4> QED BY <4>1, <4>2
    <3>2. Bit(Holds(w, "post", i)) = 0
      BY DEF Bit, Holds
    <3>3. Bit(Holds(w, pc[w], i)) = IF i = To(w) THEN 1 ELSE 0
      BY <2>1 DEF Bit, Holds
    <3> QED BY <3>1, <3>2, <3>3
  <2>4. room' + Bit(Within("post")) = room + Bit(Within(pc[w]))
    BY <1>4, <1>8, <2>1 DEF Bit
  <2> QED BY <1>2, <1>4, <1>8, <2>1, <2>2, <2>3, <2>4, SemaphoreStep
<1> QED BY <1>3, <1>5, <1>6, <1>7, <1>8

\* The updates of the balances.
LEMMA AtMoney ==
  ASSUME IInv, NEW w \in Workers,
         CreditLoad(w) \/ CreditStore(w) \/ DebitLoad(w) \/ DebitStore(w)
  PROVE  IInv'
<1>1. /\ pc[w] \in OnAccounts => To(w) \in DOMAIN Accounts /\ From(w) \in DOMAIN Accounts
      /\ transfer \in [Workers -> {None} \union ToSet(Transfers)]
      /\ loaded \in [Workers -> Int]
      /\ finish \in 0 .. Len(Transfers)
  BY DEF IInv, Hands, Data
<1>2. /\ Accounts \in Seq([id : Int, money : Int])
      /\ DOMAIN Accounts = 1 .. Len(Accounts)
      /\ \A i \in DOMAIN Accounts : Accounts[i] \in [id : Int, money : Int]
  <2>1. Accounts \in Seq([id : Int, money : Int])
    BY DEF IInv, Data
  <2> QED BY <2>1, ElementOfSeq, LenProperties
<1>3. ASSUME NEW i \in DOMAIN Accounts, NEW l \in Credits, pc[w] \in Credits,
             phase = "working", MoneyLoad(w, i, l)
      PROVE  IInv'
  <2>1. /\ loaded' \in [Workers -> Int]
        /\ \A v \in Workers \ {w} : loaded'[v] = loaded[v]
    BY <1>1, <1>2, <1>3 DEF MoneyLoad
  <2> QED BY <1>1, <1>3, <2>1, QuietStep
          DEF MoneyLoad, Labels, Credits, OnAccounts, Taken, Within
<1>4. ASSUME NEW i \in DOMAIN Accounts, NEW l \in Credits, pc[w] \in Credits,
             NEW d \in Int, phase = "working", MoneyStore(w, i, d, l)
      PROVE  IInv'
  <2>1. /\ loaded' \in [Workers -> Int]
        /\ \A v \in Workers \ {w} : loaded'[v] = loaded[v]
    BY <1>1, <1>4 DEF MoneyStore
  <2>2. /\ DOMAIN Accounts' = DOMAIN Accounts
        /\ \A j \in DOMAIN Accounts : Accounts'[j].id = Accounts[j].id
        /\ \A j \in DOMAIN Accounts : Accounts'[j] \in [id : Int, money : Int]
    <3>1. Accounts' = [Accounts EXCEPT ![i] = [Accounts[i] EXCEPT !.money = loaded[w] + d]]
      BY <1>4 DEF MoneyStore
    <3>2. loaded[w] + d \in Int
      BY <1>1, <1>4
    <3> QED BY <1>2, <3>1, <3>2
  <2>3. Accounts' \in Seq([id : Int, money : Int])
    <3>1. Accounts[i].id \in Int /\ loaded[w] + d \in Int
      BY <1>1, <1>2, <1>4
    <3>2. [Accounts[i] EXCEPT !.money = loaded[w] + d] \in [id : Int, money : Int]
      BY <1>2, <3>1
    <3>3. Accounts' = [Accounts EXCEPT ![i] = [Accounts[i] EXCEPT !.money = loaded[w] + d]]
      BY <1>4 DEF MoneyStore
    <3> QED BY <1>2, <3>2, <3>3, ExceptSeq
  <2>4. Data'
    BY <1>4, <2>3 DEF IInv, Data, MoneyStore
  <2>5. /\ room' \in Nat /\ mSem' \in [DOMAIN Accounts -> Nat]
        /\ room' + Bit(Within(l)) = room + Bit(Within(pc[w]))
        /\ \A j \in DOMAIN Accounts :
             mSem'[j] + Bit(Holds(w, l, j)) = mSem[j] + Bit(Holds(w, pc[w], j))
    BY <1>4 DEF MoneyStore, IInv, Sems, Bit, Holds, Within, Credits, Taken
  <2>6. l \in Labels \ {"store"} /\ l \in OnAccounts /\ pc[w] \in OnAccounts
    BY <1>4 DEF Labels, Credits, OnAccounts
  <2>7. To(w) # From(w)
    BY <1>4 DEF IInv, Hands
  <2>8. Hands' /\ Sems'
    BY <1>1, <1>4, <2>1, <2>2, <2>4, <2>5, <2>6, <2>7, GotoStep DEF IInv, MoneyStore
  <2> QED BY <2>4, <2>8 DEF IInv
<1>5. transfer[w].amount \in Int /\ -transfer[w].amount \in Int
  BY TransferType
<1>6. CASE CreditLoad(w)
  BY <1>1, <1>3, <1>6 DEF CreditLoad, At, Credits, OnAccounts
<1>7. CASE CreditStore(w)
  BY <1>1, <1>4, <1>5, <1>7 DEF CreditStore, At, Credits, OnAccounts
<1>8. CASE DebitLoad(w)
  BY <1>1, <1>3, <1>8 DEF DebitLoad, At, Credits, OnAccounts
<1>9. CASE DebitStore(w)
  BY <1>1, <1>4, <1>5, <1>9 DEF DebitStore, At, Credits, OnAccounts
<1> QED BY <1>6, <1>7, <1>8, <1>9

-----------------------------------------------------------------------------
\* The parsing thread's actions, and the theorems.

LEMMA AtStart ==
  ASSUME Init
  PROVE  IInv
<1>1. PICK a \in Arguments : N = a.threads /\ file = a.file
  BY DEF Init
<1>2. a \in [file : Seq(Lines), threads : Nat \ {0}]
  BY ArgumentsAssumption
<1>3. [file |-> file, threads |-> N] = a /\ N \in Nat \ {0} /\ file \in Seq(Lines)
  BY <1>1, <1>2
<1>4. Data
  <2>1. Len(file) \in Nat
    BY <1>3
  <2>2. /\ Accounts \in Seq([id : Int, money : Int])
        /\ Transfers \in Seq([from : Int, to : Int, amount : Int])
        /\ Len(Transfers) = 0
    BY EmptySeq DEF Init
  <2> QED BY <1>3, <2>1, <2>2 DEF Init, Data, Phases
<1>5. Hands
  BY DEF Init, Hands, Labels, Credits, OnAccounts
<1>6. Sems
  BY DEF Init, Sems
<1> QED BY <1>4, <1>5, <1>6 DEF IInv

LEMMA ReadStep ==
  ASSUME IInv, ReadLine
  PROVE  IInv'
<1>1. /\ phase = "reading" /\ line < Len(file) /\ file \in Seq(Lines) /\ line \in 0 .. Len(file)
      /\ Accounts \in Seq([id : Int, money : Int])
      /\ Transfers \in Seq([from : Int, to : Int, amount : Int])
      /\ finish \in 0 .. Len(Transfers)
  BY DEF IInv, Data, ReadLine
<1>2. line' \in 0 .. Len(file) /\ line + 1 \in 1 .. Len(file)
  <2>1. Len(file) \in Nat
    BY <1>1
  <2> QED BY <1>1, <2>1 DEF ReadLine
<1>3. file[line + 1] \in Lines
  BY <1>1, <1>2, ElementOfSeq
<1>4. Accounts' \in Seq([id : Int, money : Int])
  <2>1. CASE UNCHANGED Accounts
    BY <1>1, <2>1
  <2>2. CASE file[line + 1].kind = "account"
             /\ Accounts' = InsertAccount(file[line + 1].id, file[line + 1].money)
    <3>1. file[line + 1].id \in Int /\ file[line + 1].money \in Int
      BY <1>3, <2>2 DEF Lines
    <3>2. [id |-> file[line + 1].id, money |-> file[line + 1].money] \in [id : Int, money : Int]
      BY <3>1
    <3>3. Append(Accounts, [id |-> file[line + 1].id, money |-> file[line + 1].money])
            \in Seq([id : Int, money : Int])
      BY <1>1, <3>2, AppendProperties
    <3> QED BY <1>1, <2>2, <3>3 DEF InsertAccount
  <2> QED BY <2>1, <2>2 DEF ReadLine
<1>5. /\ Transfers' \in Seq([from : Int, to : Int, amount : Int])
      /\ finish' \in 0 .. Len(Transfers')
      /\ ToSet(Transfers) \subseteq ToSet(Transfers')
  <2>1. CASE UNCHANGED Transfers
    BY <1>1, <2>1 DEF ReadLine
  <2>2. CASE file[line + 1].kind = "transfer"
             /\ Transfers' = Append(Transfers, file[line + 1].transfer)
    <3>1. file[line + 1].transfer \in [from : Int, to : Int, amount : Int]
      BY <1>3, <2>2 DEF Lines
    <3>2. /\ Transfers' \in Seq([from : Int, to : Int, amount : Int])
          /\ Len(Transfers') = Len(Transfers) + 1
          /\ DOMAIN Transfers \subseteq DOMAIN Transfers'
          /\ \A k \in DOMAIN Transfers : Transfers'[k] = Transfers[k]
      <4> DEFINE D == [from : Int, to : Int, amount : Int]
      <4>1. Transfers \in Seq(D) /\ file[line + 1].transfer \in D
        BY <1>1, <3>1
      <4> HIDE DEF D
      <4>2. /\ Transfers' \in Seq(D) /\ Len(Transfers') = Len(Transfers) + 1
            /\ \A k \in 1 .. Len(Transfers) : Transfers'[k] = Transfers[k]
        BY <2>2, <4>1, AppendProperties
      <4>3. DOMAIN Transfers = 1 .. Len(Transfers) /\ Len(Transfers) \in Nat
        BY <4>1, LenProperties
      <4>4. DOMAIN Transfers' = 1 .. Len(Transfers')
        BY <4>2, LenProperties
      <4> QED BY <4>2, <4>3, <4>4 DEF D
    <3>3. Len(Transfers) \in Nat /\ finish' = finish
      BY <1>1 DEF ReadLine
    <3> QED BY <1>1, <3>2, <3>3 DEF ToSet
  <2> QED BY <2>1, <2>2 DEF ReadLine
<1>6. Data'
  BY <1>1, <1>2, <1>4, <1>5 DEF IInv, Data, ReadLine
<1>7. Workers' = Workers
  BY DEF Workers, ReadLine
<1>8. \A w \in Workers : pc[w] = "done"
  BY <1>1 DEF IInv, Hands
<1>9. Hands'
  <2>1. /\ pc' \in [Workers' -> Labels] /\ loaded' \in [Workers' -> Int]
        /\ transfer' \in [Workers' -> {None} \union ToSet(Transfers')]
    BY <1>5, <1>7 DEF IInv, Hands, ReadLine
  <2>2. \A w \in Workers' : pc'[w] = "done"
    BY <1>7, <1>8 DEF ReadLine
  <2> QED BY <2>1, <2>2 DEF Hands, OnAccounts, Credits
<1>10. Sems'
  BY <1>1 DEF IInv, Sems, ReadLine
<1> QED BY <1>6, <1>9, <1>10 DEF IInv

LEMMA StartStep ==
  ASSUME IInv, StartWorkers
  PROVE  IInv'
<1>1. N \in Nat \ {0} /\ Workers' = Workers /\ Room' = Room /\ phase' = "working"
  BY DEF IInv, Data, StartWorkers, parsed, Workers, Room
<1>2. Data'
  <2>1. Transfers \in Seq([from : Int, to : Int, amount : Int])
    BY DEF IInv, Data
  <2>2. finish' \in 0 .. Len(Transfers')
    BY <2>1, LenProperties DEF StartWorkers, parsed
  <2> QED BY <2>2 DEF IInv, Data, StartWorkers, parsed, Phases
<1>3. \A w \in Workers : pc'[w] = "loop"
  BY DEF StartWorkers
<1>4. Hands'
  <2>1. /\ pc' \in [Workers' -> Labels] /\ loaded' \in [Workers' -> Int]
        /\ transfer' \in [Workers' -> {None} \union ToSet(Transfers')]
    BY <1>1 DEF IInv, Hands, StartWorkers, parsed, Labels
  <2> QED BY <1>1, <1>3, <2>1 DEF Hands, OnAccounts, Credits
<1>5. Inside' = {}
  BY <1>1, <1>3 DEF Inside
<1>6. \A i : Holders(i)' = {}
  BY <1>1, <1>3 DEF Holders
<1>7. Sems'
  <2>1. Cardinality({}) = 0
    BY FS_EmptySet
  <2>2. room' \in Nat /\ room' = Room'
    BY <1>1 DEF StartWorkers, Room
  <2>3. /\ mSem' \in [DOMAIN Accounts' -> Nat]
        /\ \A i \in DOMAIN Accounts' : mSem'[i] = 1
    BY DEF StartWorkers, AccountSemaphores, parsed
  <2>4. room' + Cardinality(Inside') = Room'
    BY <1>5, <2>1, <2>2
  <2>5. \A i \in DOMAIN Accounts' : mSem'[i] + Cardinality(Holders(i)') = 1
    BY <1>6, <2>1, <2>3
  <2> QED BY <1>1, <2>2, <2>3, <2>4, <2>5 DEF Sems
<1> QED BY <1>2, <1>4, <1>7 DEF IInv

LEMMA Invariance == Spec => []IInv
<1>1. Init => IInv
  BY AtStart
<1>2. IInv /\ [Next]_vars => IInv'
  <2> SUFFICES ASSUME IInv, [Next]_vars
               PROVE  IInv'
    OBVIOUS
  <2>1. CASE ReadLine
    BY <2>1, ReadStep
  <2>2. CASE StartWorkers
    BY <2>2, StartStep
  <2>3. CASE JoinAndPrint
    <3>1. phase # "reading" /\ phase' \in Phases \ {"reading"}
      BY <2>3 DEF JoinAndPrint, Phases
    <3> QED BY <2>3, <3>1, StopStep DEF JoinAndPrint
  <2>4. ASSUME NEW w \in Workers, SendMoney(w)
        PROVE  IInv'
    BY <2>4, AtVector, AtSemaphores, AtMoney DEF SendMoney
  <2>5. CASE UNCHANGED vars
    <3>1. Data'
      BY <2>5 DEF IInv, Data, vars, parsed
    <3>2. Workers' = Workers /\ Room' = Room
      BY <2>5 DEF Workers, Room, vars, parsed
    <3>3. \A w \in Workers : To(w)' = To(w) /\ From(w)' = From(w)
      BY <2>5 DEF To, From, Index, vars, parsed
    <3>4. Hands'
      BY <2>5, <3>2, <3>3 DEF IInv, Hands, vars, parsed
    <3>5. Inside' = Inside /\ \A i : Holders(i)' = Holders(i)
      BY <2>5, <3>2, <3>3 DEF Inside, Holders, vars
    <3>6. Sems'
      BY <2>5, <3>2, <3>5 DEF IInv, Sems, vars, parsed
    <3> QED BY <3>1, <3>4, <3>6 DEF IInv
  <2> QED BY <2>1, <2>2, <2>3, <2>4, <2>5 DEF Next, Main
<1> QED BY <1>1, <1>2, PTL DEF Spec

\* The room at the vector and every account's semaphore are accounted for by the
\* workers between sem_wait and sem_post, for any file and any number of threads.
THEOREM SemaphoresTheorem == Spec => []SemaphoresAccounted
<1>1. ASSUME IInv PROVE SemaphoresAccounted
  <2>1. ASSUME phase # "reading", NEW i \in DOMAIN Accounts
        PROVE  mSem[i] \in {0, 1}
    <3>1. mSem[i] \in Nat /\ mSem[i] + Cardinality(Holders(i)) = 1
      BY <1>1, <2>1 DEF IInv, Sems
    <3>2. Holders(i) \in SUBSET Workers
      BY DEF Holders
    <3>3. Cardinality(Holders(i)) \in Nat
      BY <1>1, <3>2, FiniteWorkers DEF IInv
    <3> QED BY <3>1, <3>3
  <2> QED BY <1>1, <2>1 DEF IInv, Sems, SemaphoresAccounted
<1> QED BY <1>1, Invariance, PTL

\* Every variable keeps its type: the vector never holds more than its storage,
\* however the workers' pops overlap, and SemTransfers never exceeds its first value.
THEOREM TypesTheorem == Spec => []TypeOK
<1>1. ASSUME IInv
      PROVE  TypeOK
  <2>1. Data /\ Hands /\ Sems
    BY <1>1 DEF IInv
  <2>2. /\ [file |-> file, threads |-> N] \in Arguments /\ line \in 0 .. Len(file)
        /\ finish \in 0 .. Len(Transfers)
        /\ phase \in {"reading", "working", "printed", "exited", "undefined"}
    BY <2>1 DEF Data, Phases
  <2>3. \A i \in DOMAIN Accounts : Accounts[i].money \in Int
    <3>1. Accounts \in Seq([id : Int, money : Int])
      BY <2>1 DEF Data
    <3>2. \A i \in DOMAIN Accounts : Accounts[i] \in [id : Int, money : Int]
      BY <3>1, ElementOfSeq, LenProperties
    <3> QED BY <3>2
  <2>4. room \in 0 .. Room
    <3>1. Room \in Nat
      BY <2>1 DEF Data, Room
    <3>2. Inside \in SUBSET Workers
      BY DEF Inside
    <3>3. Cardinality(Inside) \in Nat
      BY <2>1, <3>2, FiniteWorkers
    <3>4. CASE phase = "reading"
      BY <2>1, <3>1, <3>4 DEF Sems
    <3>5. CASE phase # "reading"
      BY <2>1, <3>1, <3>3, <3>5 DEF Sems
    <3> QED BY <3>4, <3>5
  <2>5. DOMAIN mSem = IF phase = "reading" THEN {} ELSE DOMAIN Accounts
    <3>1. CASE phase = "reading"
      BY <2>1, <3>1 DEF Sems
    <3>2. CASE phase # "reading"
      BY <2>1, <3>2 DEF Sems
    <3> QED BY <3>1, <3>2
  <2>6. /\ pc \in [Workers -> Labels] /\ loaded \in [Workers -> Int]
        /\ \A w \in Workers : transfer[w] \in {None} \union ToSet(Transfers)
    BY <2>1 DEF Hands
  <2> QED BY <2>2, <2>3, <2>4, <2>5, <2>6 DEF TypeOK, Labels
<1> QED BY <1>1, Invariance, PTL
-----------------------------------------------------------------------------
\* Deadlock.

\* An account's semaphore that is taken while every worker is blocked is held by one
\* that has taken it as its To account and waits for its From account.
LEMMA TakenByFrom ==
  ASSUME IInv, phase = "working", \A w \in Workers : Blocked(w),
         NEW i \in DOMAIN Accounts, mSem[i] = 0
  PROVE  \E v \in Workers : pc[v] = "from" /\ To(v) = i
<1>1. Cardinality(Holders(i)) = 1
  <2>1. mSem[i] + Cardinality(Holders(i)) = 1
    BY DEF IInv, Sems
  <2>2. Holders(i) \in SUBSET Workers
    BY DEF Holders
  <2>3. Cardinality(Holders(i)) \in Nat
    BY <2>2, FiniteWorkers DEF IInv
  <2> QED BY <2>1, <2>3
<1>2. PICK v : v \in Holders(i)
  BY <1>1, FS_EmptySet
<1>3. v \in Workers /\ Blocked(v)
  BY <1>2 DEF Holders
<1>4. pc[v] = "from" /\ To(v) = i
  BY <1>2, <1>3 DEF Holders, Blocked
<1> QED BY <1>3, <1>4

\* When no worker can go on, one of them waits for its From account.
LEMMA SomeAtFrom ==
  ASSUME IInv, phase = "working", \A w \in Workers : Blocked(w),
         NEW u \in Workers, pc[u] # "done"
  PROVE  \E w \in Workers : pc[w] = "from"
<1>1. ASSUME NEW w \in Workers, pc[w] \in {"to", "from"}
      PROVE  \E v \in Workers : pc[v] = "from"
  <2>1. CASE pc[w] = "from"
    BY <2>1
  <2>2. CASE pc[w] = "to"
    <3>1. To(w) \in DOMAIN Accounts
      BY <2>2 DEF IInv, Hands, OnAccounts
    <3>2. mSem[To(w)] = 0
      BY <2>2 DEF Blocked
    <3> QED BY <3>1, <3>2, TakenByFrom
  <2> QED BY <1>1, <2>1, <2>2
<1>2. CASE pc[u] = "wait"
  <2>1. Cardinality(Inside) = Room
    <3>1. room = 0 /\ room + Cardinality(Inside) = Room
      BY <1>2 DEF Blocked, IInv, Sems
    <3>2. Inside \in SUBSET Workers
      BY DEF Inside
    <3>3. Cardinality(Inside) \in Nat
      BY <3>2, FiniteWorkers DEF IInv
    <3> QED BY <3>1, <3>3
  <2>2. Room # 0
    BY DEF Room, IInv, Data
  <2>3. PICK v : v \in Inside
    BY <2>1, <2>2, FS_EmptySet
  <2>4. v \in Workers /\ Blocked(v) /\ pc[v] \in {"to", "from"}
    BY <2>3 DEF Inside, Blocked
  <2> QED BY <1>1, <2>4
<1>3. CASE pc[u] \in {"to", "from"}
  BY <1>1, <1>3
<1> QED BY <1>2, <1>3 DEF Blocked

\* For any file and any number of threads the workers can stop short of the end in one
\* way only: each of those at their From account waits for one that another of them
\* holds as its To account.
THEOREM StuckTheorem == Spec => []StuckOnlyInCycle
<1>1. ASSUME IInv
      PROVE  StuckOnlyInCycle
  <2> SUFFICES ASSUME phase = "working", \A w \in Workers : Blocked(w),
                      NEW u \in Workers, pc[u] # "done"
               PROVE  \E cycle \in (SUBSET Workers) \ {{}} : \A w \in cycle :
                        /\ pc[w] = "from"
                        /\ \E v \in cycle : To(v) = From(w)
    BY DEF StuckOnlyInCycle
  <2> DEFINE cycle == {w \in Workers : pc[w] = "from"}
  <2>1. cycle \in (SUBSET Workers) \ {{}}
    BY <1>1, SomeAtFrom
  <2>2. ASSUME NEW w \in cycle
        PROVE  \E v \in cycle : To(v) = From(w)
    <3>1. w \in Workers /\ pc[w] = "from" /\ mSem[From(w)] = 0
      BY DEF Blocked
    <3>2. From(w) \in DOMAIN Accounts
      BY <1>1, <3>1 DEF IInv, Hands, OnAccounts
    <3> QED BY <1>1, <3>1, <3>2, TakenByFrom
  <2> QED BY <2>1, <2>2
<1> QED BY <1>1, Invariance, PTL
-----------------------------------------------------------------------------
\* Induction, with the set of the numbers it is about.
LEMMA InductionBySets ==
  ASSUME NEW T, 0 \in T, \A n \in Nat : n \in T => n + 1 \in T
  PROVE  \A n \in Nat : n \in T
<1> DEFINE Below == OpToRel(<, Nat)
           Out == {n \in Nat : n \notin T}
<1>1. SUFFICES ASSUME Out # {} PROVE FALSE
  OBVIOUS
<1>2. IsWellFoundedOn(Below, Nat)
  BY NatLessThanWellFounded
<1>3. \A m, n \in Nat : <<m, n>> \in Below <=> m < n
  BY DEF OpToRel
<1>4. PICK n \in Out : \A m \in Out : ~ (<<m, n>> \in Below)
  <2>1. Out \subseteq Nat
    OBVIOUS
  <2> HIDE DEF Below, Out
  <2> QED BY <1>1, <1>2, <2>1, WFMin
<1>5. n \in Nat /\ n \notin T /\ \A m \in Out : ~ (m < n)
  BY <1>3, <1>4
<1> HIDE DEF Below
<1>6. n # 0 /\ n - 1 \in Nat /\ n - 1 < n /\ (n - 1) + 1 = n
  BY <1>5
<1>7. n - 1 \in T
  BY <1>5, <1>6
<1> QED BY <1>5, <1>6, <1>7

-----------------------------------------------------------------------------
\* Sums.

Chosen(s) == CHOOSE x \in s : TRUE

\* g sums f over the sets with at most n elements, in the order in which they are chosen.
Sums(g, f, S, n) ==
  \A s \in SUBSET S : Cardinality(s) <= n =>
    g[s] = IF s = {} THEN 0 ELSE f[Chosen(s)] + g[s \ {Chosen(s)}]

\* What is left of a finite set without one of its elements.
LEMMA Without ==
  ASSUME NEW S, IsFiniteSet(S), NEW s \in SUBSET S
  PROVE  /\ IsFiniteSet(s) /\ Cardinality(s) \in Nat /\ Cardinality(s) <= Cardinality(S)
         /\ s = {} <=> Cardinality(s) = 0
         /\ s # {} => Chosen(s) \in s
         /\ \A x \in s : s \ {x} \in SUBSET S /\ Cardinality(s \ {x}) = Cardinality(s) - 1
<1>1. IsFiniteSet(s) /\ Cardinality(s) \in Nat /\ Cardinality(s) <= Cardinality(S)
  BY FS_Subset, FS_CardinalityType
<1>2. s = {} <=> Cardinality(s) = 0
  BY <1>1, FS_EmptySet
<1>3. s # {} => Chosen(s) \in s
  BY DEF Chosen
<1>4. \A x \in s : Cardinality(s \ {x}) = Cardinality(s) - 1
  BY <1>1, FS_RemoveElement
<1> QED BY <1>1, <1>2, <1>3, <1>4

\* The recursive function of the library's sum.
Folded(g, f, S) ==
  g = [s \in SUBSET S |-> IF s = {} THEN 0 ELSE f[Chosen(s)] + g[s \ {Chosen(s)}]]

\* The recursion has a solution.
LEMMA SumsExist ==
  ASSUME NEW S, IsFiniteSet(S), NEW f
  PROVE  \E g : Folded(g, f, S)
<1> DEFINE T == {n \in Nat : \E g : Sums(g, f, S, n)}
<1>1. 0 \in T
  <2> DEFINE g == [s \in SUBSET S |-> 0]
  <2>1. ASSUME NEW s \in SUBSET S, Cardinality(s) <= 0 PROVE s = {} /\ g[s] = 0
    <3>1. Cardinality(s) \in Nat /\ (s = {} <=> Cardinality(s) = 0)
      BY Without
    <3> QED BY <2>1, <3>1
  <2> HIDE DEF g
  <2>2. Sums(g, f, S, 0)
    BY <2>1 DEF Sums
  <2> QED BY <2>2
<1>2. ASSUME NEW n \in Nat, n \in T PROVE n + 1 \in T
  <2>1. PICK g : Sums(g, f, S, n)
    BY <1>2
  <2> DEFINE h == [s \in SUBSET S |-> IF Cardinality(s) <= n THEN g[s]
                                      ELSE f[Chosen(s)] + g[s \ {Chosen(s)}]]
  <2>2. ASSUME NEW s \in SUBSET S, Cardinality(s) <= n + 1
        PROVE  h[s] = IF s = {} THEN 0 ELSE f[Chosen(s)] + h[s \ {Chosen(s)}]
    <3>1. CASE s = {}
      <4>1. Cardinality(s) = 0
        BY <3>1, Without
      <4>2. Cardinality(s) <= n
        BY <4>1
      <4>3. g[s] = 0 /\ h[s] = g[s]
        BY <2>1, <3>1, <4>2 DEF Sums
      <4> QED BY <3>1, <4>3
    <3>2. CASE s # {}
      <4> DEFINE t == s \ {Chosen(s)}
      <4>1. t \in SUBSET S /\ Cardinality(t) = Cardinality(s) - 1 /\ Cardinality(s) \in Nat
        BY <3>2, Without
      <4>2. Cardinality(t) <= n
        BY <2>2, <4>1
      <4>3. h[t] = g[t]
        BY <4>1, <4>2
      <4>4. h[s] = f[Chosen(s)] + g[t]
        <5>1. CASE Cardinality(s) <= n
          BY <2>1, <3>2, <5>1 DEF Sums
        <5>2. CASE ~ (Cardinality(s) <= n)
          BY <5>2
        <5> QED BY <5>1, <5>2
      <4> QED BY <3>2, <4>3, <4>4
    <3> QED BY <3>1, <3>2
  <2> HIDE DEF h
  <2>3. Sums(h, f, S, n + 1)
    BY <2>2 DEF Sums
  <2> QED BY <2>3
<1>3. \A n \in Nat : n \in T
  <2> HIDE DEF T
  <2> QED BY <1>1, <1>2, InductionBySets
<1>4. PICK g : Sums(g, f, S, Cardinality(S))
  BY <1>3, FS_CardinalityType
<1> DEFINE h == [s \in SUBSET S |-> g[s]]
<1>5. ASSUME NEW s \in SUBSET S
      PROVE  h[s] = IF s = {} THEN 0 ELSE f[Chosen(s)] + h[s \ {Chosen(s)}]
  <2>1. Cardinality(s) <= Cardinality(S) /\ s \ {Chosen(s)} \in SUBSET S
    BY Without
  <2>2. g[s] = IF s = {} THEN 0 ELSE f[Chosen(s)] + g[s \ {Chosen(s)}]
    BY <1>4, <2>1 DEF Sums
  <2> QED BY <2>1, <2>2
<1>6. h = [s \in SUBSET S |-> IF s = {} THEN 0 ELSE f[Chosen(s)] + h[s \ {Chosen(s)}]]
  <2>1. h = [s \in SUBSET S |-> h[s]]
    OBVIOUS
  <2> HIDE DEF h
  <2> QED BY <1>5, <2>1
<1> HIDE DEF h
<1> QED BY <1>6 DEF Folded

\* The library's sum is its last value.
LEMMA SumIs ==
  ASSUME NEW S, IsFiniteSet(S), NEW f
  PROVE  \E g : SumFunctionOnSet(f, S) = g[S] /\ Sums(g, f, S, Cardinality(S))
<1> DEFINE g == CHOOSE h : Folded(h, f, S)
<1>1. SumFunctionOnSet(f, S) = g[S]
  BY DEF SumFunctionOnSet, FoldFunctionOnSet, MapThenFoldSet, Chosen, Folded
<1>3. Folded(g, f, S)
  BY SumsExist
<1>4. \A s \in SUBSET S : g[s] = IF s = {} THEN 0 ELSE f[Chosen(s)] + g[s \ {Chosen(s)}]
  <2> HIDE DEF g
  <2> QED BY <1>3 DEF Folded
<1> HIDE DEF g
<1> QED BY <1>1, <1>4 DEF Sums

\* Two sums of functions that agree are equal.
LEMMA SumsAgree ==
  ASSUME NEW S, IsFiniteSet(S), NEW T, IsFiniteSet(T), NEW f, NEW h, NEW g, NEW k,
         Sums(g, f, S, Cardinality(S)), Sums(k, h, T, Cardinality(T)),
         S \subseteq T, \A x \in S : f[x] = h[x]
  PROVE  g[S] = k[S]
<1> DEFINE Equal == {n \in Nat : \A s \in SUBSET S : Cardinality(s) <= n => g[s] = k[s]}
<1>1. ASSUME NEW s \in SUBSET S
      PROVE  /\ g[s] = IF s = {} THEN 0 ELSE f[Chosen(s)] + g[s \ {Chosen(s)}]
             /\ k[s] = IF s = {} THEN 0 ELSE h[Chosen(s)] + k[s \ {Chosen(s)}]
  <2>1. s \in SUBSET T
    OBVIOUS
  <2>2. Cardinality(s) <= Cardinality(S) /\ Cardinality(s) <= Cardinality(T)
    BY <2>1, Without
  <2> QED BY <2>1, <2>2 DEF Sums
<1>2. 0 \in Equal
  <2>1. ASSUME NEW s \in SUBSET S, Cardinality(s) <= 0 PROVE s = {}
    BY <2>1, Without
  <2> QED BY <1>1, <2>1
<1>3. ASSUME NEW n \in Nat, n \in Equal PROVE n + 1 \in Equal
  <2>1. ASSUME NEW s \in SUBSET S, Cardinality(s) <= n + 1, s # {}
        PROVE  g[s] = k[s]
    <3> DEFINE t == s \ {Chosen(s)}
    <3>1. /\ t \in SUBSET S /\ Cardinality(t) = Cardinality(s) - 1 /\ Cardinality(s) \in Nat
          /\ Chosen(s) \in S
      BY <2>1, Without
    <3>2. Cardinality(t) <= n
      BY <2>1, <3>1
    <3>3. g[t] = k[t]
      BY <1>3, <3>1, <3>2
    <3>4. g[s] = f[Chosen(s)] + g[t] /\ k[s] = h[Chosen(s)] + k[t]
      BY <1>1, <2>1
    <3> QED BY <3>1, <3>3, <3>4
  <2>2. g[{}] = k[{}]
    BY <1>1
  <2> QED BY <2>1, <2>2
<1>4. \A n \in Nat : n \in Equal
  <2> HIDE DEF Equal
  <2> QED BY <1>2, <1>3, InductionBySets
<1> QED BY <1>4, FS_CardinalityType

\* What a sum depends on.
LEMMA SumSame ==
  ASSUME NEW S, IsFiniteSet(S), NEW f, NEW h, \A x \in S : f[x] = h[x]
  PROVE  SumFunctionOnSet(f, S) = SumFunctionOnSet(h, S)
<1>1. PICK g : SumFunctionOnSet(f, S) = g[S] /\ Sums(g, f, S, Cardinality(S))
  BY SumIs
<1>2. PICK k : SumFunctionOnSet(h, S) = k[S] /\ Sums(k, h, S, Cardinality(S))
  BY SumIs
<1>3. g[S] = k[S]
  BY <1>1, <1>2, SumsAgree
<1> QED BY <1>1, <1>2, <1>3

\* The sum in the order in which it is made.
LEMMA SumChosen ==
  ASSUME NEW S, IsFiniteSet(S), NEW f
  PROVE  SumFunctionOnSet(f, S) =
           IF S = {} THEN 0
           ELSE f[Chosen(S)] + SumFunctionOnSet(f, S \ {Chosen(S)})
<1> DEFINE T == S \ {Chosen(S)}
<1>1. PICK g : SumFunctionOnSet(f, S) = g[S] /\ Sums(g, f, S, Cardinality(S))
  BY SumIs
<1>2. IsFiniteSet(T) /\ T \subseteq S
  BY FS_Subset
<1>3. PICK k : SumFunctionOnSet(f, T) = k[T] /\ Sums(k, f, T, Cardinality(T))
  <2> HIDE DEF T
  <2> QED BY <1>2, SumIs
<1>4. k[T] = g[T]
  <2> HIDE DEF T
  <2> QED BY <1>1, <1>2, <1>3, SumsAgree
<1>5. g[S] = IF S = {} THEN 0 ELSE f[Chosen(S)] + g[T]
  <2>1. Cardinality(S) <= Cardinality(S)
    BY FS_CardinalityType
  <2> QED BY <1>1, <2>1 DEF Sums
<1> QED BY <1>1, <1>3, <1>4, <1>5

\* The sum in any order.
LEMMA SumSplit ==
  ASSUME NEW S, IsFiniteSet(S), NEW f, \A x \in S : f[x] \in Int
  PROVE  /\ SumFunctionOnSet(f, S) \in Int
         /\ S = {} => SumFunctionOnSet(f, S) = 0
         /\ \A x \in S : SumFunctionOnSet(f, S) = f[x] + SumFunctionOnSet(f, S \ {x})
<1> DEFINE Sum(s) == SumFunctionOnSet(f, s)
           Ready(s) == Sum(s) \in Int /\ \A x \in s : Sum(s) = f[x] + Sum(s \ {x})
           Done == {n \in Nat : \A s \in SUBSET S : Cardinality(s) <= n => Ready(s)}
<1>1. ASSUME NEW s \in SUBSET S
      PROVE  Sum(s) = IF s = {} THEN 0 ELSE f[Chosen(s)] + Sum(s \ {Chosen(s)})
  BY Without, SumChosen
<1> HIDE DEF Sum
<1>2. 0 \in Done
  <2>1. ASSUME NEW s \in SUBSET S, Cardinality(s) <= 0 PROVE s = {} /\ Sum(s) = 0
    <3>1. s = {}
      BY <2>1, Without
    <3> QED BY <1>1, <3>1
  <2> QED BY <2>1
<1>3. ASSUME NEW n \in Nat, n \in Done PROVE n + 1 \in Done
  <2>1. ASSUME NEW s \in SUBSET S, Cardinality(s) <= n + 1
        PROVE  Ready(s)
    <3>1. CASE s = {}
      <4>1. Sum(s) = 0
        BY <1>1, <3>1
      <4> QED BY <3>1, <4>1
    <3>2. CASE s # {}
      <4> DEFINE y == Chosen(s)
      <4>1. y \in s /\ y \in S /\ Cardinality(s) \in Nat
        BY <3>2, Without
      <4>2. Sum(s) = f[y] + Sum(s \ {y})
        BY <1>1, <3>2
      <4> HIDE DEF y
      <4>3. ASSUME NEW x \in s PROVE Ready(s \ {x})
        <5>1. s \ {x} \in SUBSET S /\ Cardinality(s \ {x}) = Cardinality(s) - 1
          BY Without
        <5>2. Cardinality(s \ {x}) <= n
          BY <2>1, <4>1, <5>1
        <5> QED BY <1>3, <5>1, <5>2
      <4>4. Sum(s) \in Int
        BY <4>1, <4>2, <4>3
      <4>5. ASSUME NEW x \in s, x # y PROVE Sum(s) = f[x] + Sum(s \ {x})
        <5> DEFINE t == s \ {x}
                   u == t \ {y}
        <5>1. Sum(s \ {y}) = f[x] + Sum(u)
          <6>1. (s \ {y}) \ {x} = u /\ x \in s \ {y}
            BY <4>5
          <6> QED BY <4>1, <4>3, <6>1
        <5>2. Sum(t) = f[y] + Sum(u)
          BY <4>1, <4>3, <4>5
        <5>3. Sum(u) \in Int
          <6>1. t \in SUBSET S /\ y \in t
            BY <4>1, <4>5
          <6>2. Cardinality(t) = Cardinality(s) - 1
            BY Without
          <6> HIDE DEF t
          <6>3. u \in SUBSET S /\ Cardinality(u) = Cardinality(t) - 1
            BY <6>1, Without
          <6> HIDE DEF u
          <6>4. Cardinality(u) <= n
            BY <2>1, <4>1, <6>2, <6>3
          <6> QED BY <1>3, <6>3, <6>4
        <5>4. f[x] \in Int /\ f[y] \in Int
          BY <4>1
        <5> HIDE DEF u
        <5>5. Sum(s) = f[y] + (f[x] + Sum(u))
          BY <4>2, <5>1
        <5>6. Sum(s) = f[x] + (f[y] + Sum(u))
          BY <5>3, <5>4, <5>5
        <5> QED BY <5>2, <5>6
      <4> QED BY <4>2, <4>4, <4>5
    <3> QED BY <3>1, <3>2
  <2> QED BY <2>1
<1>4. \A n \in Nat : n \in Done
  <2> HIDE DEF Done
  <2> QED BY <1>2, <1>3, InductionBySets
<1>5. Ready(S)
  BY <1>4, FS_CardinalityType
<1>6. S = {} => Sum(S) = 0
  BY <1>1
<1> QED BY <1>5, <1>6 DEF Sum

\* The sum after one of the numbers has changed by d.
LEMMA SumChanged ==
  ASSUME NEW S, IsFiniteSet(S), NEW x \in S, NEW d \in Int, NEW f, NEW h,
         \A y \in S : f[y] \in Int,
         \A y \in S : y # x => h[y] = f[y], h[x] = f[x] + d
  PROVE  SumFunctionOnSet(h, S) = SumFunctionOnSet(f, S) + d
<1> DEFINE T == S \ {x}
<1>1. IsFiniteSet(T) /\ T \subseteq S
  BY FS_Subset
<1>2. f[x] \in Int /\ h[x] \in Int
  OBVIOUS
<1>3. ASSUME NEW y \in S PROVE h[y] \in Int
  <2>1. CASE y = x
    BY <1>2, <2>1
  <2>2. CASE y # x
    BY <2>2
  <2> QED BY <2>1, <2>2
<1>4. SumFunctionOnSet(f, T) = SumFunctionOnSet(h, T)
  <2>1. \A y \in T : f[y] = h[y]
    OBVIOUS
  <2> HIDE DEF T
  <2> QED BY <1>1, <2>1, SumSame
<1>5. SumFunctionOnSet(f, T) \in Int
  <2>1. \A y \in T : f[y] \in Int
    OBVIOUS
  <2> HIDE DEF T
  <2> QED BY <1>1, <2>1, SumSplit
<1>6. SumFunctionOnSet(f, S) = f[x] + SumFunctionOnSet(f, T)
  BY SumSplit
<1>7. SumFunctionOnSet(h, S) = h[x] + SumFunctionOnSet(h, T)
  BY <1>3, SumSplit
<1> HIDE DEF T
<1>8. h[x] = f[x] + d
  OBVIOUS
<1> QED BY <1>2, <1>4, <1>5, <1>6, <1>7, <1>8

-----------------------------------------------------------------------------
\* No money appears or is lost.

\* The ids of the accounts among the first n lines.
Ids(n) == {file[k].id : k \in {m \in 1 .. n : file[m].kind = "account"}}

\* While the file is read the accounts hold what it says of those seen so far.
ReadSoFar ==
  phase = "reading" =>
    /\ {Accounts[i].id : i \in DOMAIN Accounts} = Ids(line)
    /\ \A i \in DOMAIN Accounts : Opening(file)[Accounts[i].id] = Accounts[i].money
    /\ SumFunction(Money) = SumFunctionOnSet(Opening(file), Ids(line))

\* What a worker is about to add to or to take from is still the balance it loaded.
Fresh ==
  \A w \in Workers :
    /\ pc[w] = "credit store" => loaded[w] = Accounts[To(w)].money
    /\ pc[w] = "debit store" => loaded[w] = Accounts[From(w)].money

MoneyInv == ReadSoFar /\ MoneyConserved /\ Fresh

\* What is summed is numbers, and finitely many.
LEMMA Summed ==
  ASSUME IInv
  PROVE  /\ IsFiniteSet(DOMAIN Accounts) /\ DOMAIN Money = DOMAIN Accounts
         /\ \A i \in DOMAIN Accounts : Money[i] \in Int /\ Money[i] = Accounts[i].money
         /\ IsFiniteSet(Credited) /\ Credited \subseteq Workers
         /\ \A w \in Workers : Amounts[w] \in Int /\ Amounts[w] = transfer[w].amount
<1>1. Accounts \in Seq([id : Int, money : Int])
  BY DEF IInv, Data
<1>2. DOMAIN Accounts = 1 .. Len(Accounts) /\ Len(Accounts) \in Nat
  BY <1>1, LenProperties
<1>3. IsFiniteSet(DOMAIN Accounts)
  BY <1>2, FS_Interval
<1>4. \A i \in DOMAIN Accounts : Accounts[i] \in [id : Int, money : Int]
  BY <1>1, <1>2, ElementOfSeq
<1>5. \A i \in DOMAIN Accounts : Money[i] \in Int /\ Money[i] = Accounts[i].money
  BY <1>4 DEF Money
<1>6. Credited \in SUBSET Workers
  BY DEF Credited
<1>7. IsFiniteSet(Credited)
  BY <1>6, FiniteWorkers DEF IInv
<1>8. \A w \in Workers : Amounts[w] \in Int /\ Amounts[w] = transfer[w].amount
  BY TransferType DEF Amounts
<1> QED BY <1>3, <1>5, <1>6, <1>7, <1>8 DEF Money

\* A set with at most one element.
LEMMA Single ==
  ASSUME NEW S, IsFiniteSet(S), Cardinality(S) <= 1, NEW v \in S, NEW w \in S
  PROVE  v = w
<1> DEFINE rest == S \ {v}
<1>1. IsFiniteSet(rest) /\ Cardinality(S) \in Nat
  BY FS_Subset, FS_CardinalityType
<1>2. Cardinality(rest) = Cardinality(S) - 1 /\ Cardinality(rest) \in Nat
  BY <1>1, FS_RemoveElement, FS_CardinalityType
<1>3. Cardinality(rest) = 0
  BY <1>1, <1>2
<1>4. rest = {}
  BY <1>1, <1>3, FS_EmptySet
<1> QED BY <1>4

\* An account whose semaphore is taken is in the hands of one worker.
LEMMA Alone ==
  ASSUME IInv, phase # "reading", NEW i \in DOMAIN Accounts,
         NEW v \in Holders(i), NEW w \in Holders(i)
  PROVE  v = w
<1>1. Holders(i) \in SUBSET Workers
  BY DEF Holders
<1>2. IsFiniteSet(Holders(i)) /\ Cardinality(Holders(i)) \in Nat
  BY <1>1, FiniteWorkers DEF IInv
<1>3. Cardinality(Holders(i)) <= 1
  BY <1>2 DEF IInv, Sems
<1> QED BY <1>2, <1>3, Single

\* A step of w that leaves the accounts and the set of those in mid-transfer alone.
LEMMA MoneyKept ==
  ASSUME IInv, MoneyInv, phase # "reading", phase' # "reading",
         UNCHANGED parsed, NEW w \in Workers,
         \A v \in Workers \ {w} :
           pc'[v] = pc[v] /\ transfer'[v] = transfer[v] /\ loaded'[v] = loaded[v],
         pc'[w] \in {"debit", "debit store"} <=> pc[w] \in {"debit", "debit store"},
         pc'[w] \in Credits => transfer'[w] = transfer[w],
         pc'[w] = "credit store" => loaded'[w] = Accounts[To(w)].money,
         pc'[w] = "debit store" => loaded'[w] = Accounts[From(w)].money
  PROVE  MoneyInv'
<1>1. /\ Workers' = Workers /\ Accounts' = Accounts /\ Money' = Money
      /\ Opening(file)' = Opening(file)
  BY DEF parsed, Workers, Money
<1>2. Credited' = Credited
  BY <1>1 DEF Credited
<1>3. \A v \in Credited : Amounts'[v] = Amounts[v]
  <2>1. \A v \in Credited : v \in Workers /\ transfer'[v] = transfer[v]
    BY DEF Credited, Credits
  <2> QED BY <1>1, <2>1 DEF Amounts
<1>4. SumFunctionOnSet(Amounts', Credited') = SumFunctionOnSet(Amounts, Credited)
  BY <1>2, <1>3, SumSame, Summed
<1>5. MoneyConserved'
  BY <1>1, <1>4 DEF MoneyInv, MoneyConserved
<1>6. ASSUME NEW v \in Workers, pc'[v] \in Credits
      PROVE  To(v)' = To(v) /\ From(v)' = From(v)
  <2>1. transfer'[v] = transfer[v]
    BY <1>6
  <2> QED BY <1>1, <2>1, IndexKept
<1>7. Fresh'
  <2>1. ASSUME NEW v \in Workers, pc'[v] = "credit store"
        PROVE  loaded'[v] = Accounts'[To(v)'].money
    BY <1>1, <1>6, <2>1 DEF MoneyInv, Fresh, Credits
  <2>2. ASSUME NEW v \in Workers, pc'[v] = "debit store"
        PROVE  loaded'[v] = Accounts'[From(v)'].money
    BY <1>1, <1>6, <2>2 DEF MoneyInv, Fresh, Credits
  <2> QED BY <1>1, <2>1, <2>2 DEF Fresh
<1> QED BY <1>5, <1>7 DEF MoneyInv, ReadSoFar

\* A store to account i, which only w works on, puts the sum loaded[w] + d there.
LEMMA MoneyStored ==
  ASSUME IInv, MoneyInv, phase # "reading", NEW w \in Workers,
         NEW i \in DOMAIN Accounts, NEW d \in Int, NEW l \in {"debit", "post from"},
         w \in Holders(i), loaded[w] = Accounts[i].money, MoneyStore(w, i, d, l)
  PROVE  /\ SumFunction(Money)' = SumFunction(Money) + d
         /\ phase' # "reading" /\ Fresh'
         /\ Workers' = Workers /\ pc' = [pc EXCEPT ![w] = l] /\ Amounts' = Amounts
         /\ Opening(file)' = Opening(file)
<1>1. /\ Workers' = Workers /\ transfer' = transfer /\ Opening(file)' = Opening(file)
      /\ phase' # "reading" /\ pc' = [pc EXCEPT ![w] = l]
  BY DEF MoneyStore, Workers, Goto
<1>2. /\ DOMAIN Accounts' = DOMAIN Accounts
      /\ \A j \in DOMAIN Accounts : Accounts'[j].id = Accounts[j].id
      /\ \A j \in DOMAIN Accounts : j # i => Accounts'[j] = Accounts[j]
      /\ Accounts'[i].money = loaded[w] + d
  <2>1. Accounts \in Seq([id : Int, money : Int])
    BY DEF IInv, Data
  <2>2. \A j \in DOMAIN Accounts : Accounts[j] \in [id : Int, money : Int]
    BY <2>1, ElementOfSeq, LenProperties
  <2> QED BY <2>2 DEF MoneyStore
<1>3. SumFunction(Money)' = SumFunction(Money) + d
  <2>1. /\ IsFiniteSet(DOMAIN Accounts) /\ DOMAIN Money = DOMAIN Accounts
        /\ \A j \in DOMAIN Accounts : Money[j] \in Int /\ Money[j] = Accounts[j].money
    BY Summed
  <2>2. DOMAIN Money' = DOMAIN Accounts
    BY <1>2 DEF Money
  <2>3. \A j \in DOMAIN Accounts : Money'[j] = Accounts'[j].money
    BY <1>2 DEF Money
  <2>4. \A j \in DOMAIN Accounts : j # i => Money'[j] = Money[j]
    BY <1>2, <2>1, <2>3
  <2>5. Money'[i] = Money[i] + d
    BY <1>2, <2>1, <2>3
  <2>6. SumFunctionOnSet(Money', DOMAIN Accounts)
          = SumFunctionOnSet(Money, DOMAIN Accounts) + d
    <3> DEFINE D == DOMAIN Accounts
               m == Money
               n == Money'
    <3>1. IsFiniteSet(D) /\ i \in D /\ \A j \in D : m[j] \in Int
      BY <2>1
    <3>2. \A j \in D : j # i => n[j] = m[j]
      BY <2>4
    <3>3. n[i] = m[i] + d
      BY <2>5
    <3> HIDE DEF D, m, n
    <3>4. SumFunctionOnSet(n, D) = SumFunctionOnSet(m, D) + d
      BY <3>1, <3>2, <3>3, SumChanged
    <3> QED BY <3>4 DEF D, m, n
  <2> QED BY <2>1, <2>2, <2>6 DEF SumFunction
<1>4. ASSUME NEW v \in Workers
      PROVE  To(v)' = To(v) /\ From(v)' = From(v)
  BY <1>1, <1>2, IndexKept
<1>5. ASSUME NEW v \in Workers, v # w
      PROVE  pc'[v] = pc[v] /\ loaded'[v] = loaded[v] /\ v \notin Holders(i)
  <2>1. pc'[v] = pc[v] /\ loaded'[v] = loaded[v]
    BY <1>1, <1>5 DEF MoneyStore, IInv, Hands
  <2>2. v \notin Holders(i)
    BY <1>5, Alone
  <2> QED BY <2>1, <2>2
<1>6. pc'[w] = l
  BY <1>1 DEF IInv, Hands
<1>7. Fresh'
  <2>1. ASSUME NEW v \in Workers, pc'[v] = "credit store"
        PROVE  loaded'[v] = Accounts'[To(v)'].money
    <3>1. v # w
      BY <1>6, <2>1
    <3>2. pc[v] = "credit store" /\ To(v) # i
      BY <1>5, <2>1, <3>1 DEF Holders
    <3>3. To(v) \in DOMAIN Accounts
      BY <3>2 DEF IInv, Hands, OnAccounts, Credits
    <3> QED BY <1>2, <1>4, <1>5, <3>1, <3>2, <3>3 DEF MoneyInv, Fresh
  <2>2. ASSUME NEW v \in Workers, pc'[v] = "debit store"
        PROVE  loaded'[v] = Accounts'[From(v)'].money
    <3>1. v # w
      BY <1>6, <2>2
    <3>2. pc[v] = "debit store" /\ From(v) # i
      BY <1>5, <2>2, <3>1 DEF Holders
    <3>3. From(v) \in DOMAIN Accounts
      BY <3>2 DEF IInv, Hands, OnAccounts, Credits
    <3> QED BY <1>2, <1>4, <1>5, <3>1, <3>2, <3>3 DEF MoneyInv, Fresh
  <2> QED BY <1>1, <2>1, <2>2 DEF Fresh
<1> QED BY <1>1, <1>3, <1>7 DEF Amounts

Joins(w, S, T) == w \notin S /\ T = S \union {w}
Numbers(f, S) == \A v \in S : f[v] \in Int

\* The sum over a set that w has joined.
LEMMA OneMore ==
  ASSUME NEW S, IsFiniteSet(S), NEW T, NEW w, Joins(w, S, T), NEW f, Numbers(f, T)
  PROVE  /\ SumFunctionOnSet(f, S) \in Int
         /\ SumFunctionOnSet(f, T) = f[w] + SumFunctionOnSet(f, S)
<1> USE DEF Joins, Numbers
<1>1. IsFiniteSet(T)
  BY FS_AddElement
<1>2. T \ {w} = S /\ w \in T
  OBVIOUS
<1>3. SumFunctionOnSet(f, T) = f[w] + SumFunctionOnSet(f, T \ {w})
  BY <1>1, <1>2, SumSplit
<1>4. SumFunctionOnSet(f, S) \in Int
  BY SumSplit
<1> QED BY <1>2, <1>3, <1>4

\* The numbers of the invariant.
LEMMA MoneyTyped ==
  ASSUME IInv
  PROVE  /\ SumFunction(Money) \in Int
         /\ SumFunctionOnSet(Amounts, Credited) \in Int
<1>1. SumFunction(Money) \in Int
  BY Summed, SumSplit DEF SumFunction
<1>2. SumFunctionOnSet(Amounts, Credited) \in Int
  <2>1. \A w \in Credited : Amounts[w] \in Int
    BY Summed
  <2> QED BY <2>1, Summed, SumSplit
<1> QED BY <1>1, <1>2

\* The stores to the balances.
LEMMA AtStores ==
  ASSUME IInv, MoneyInv, phase # "reading", NEW w \in Workers,
         CreditStore(w) \/ DebitStore(w)
  PROVE  MoneyInv'
<1> DEFINE a == transfer[w].amount
<1>1. /\ a \in Int /\ -a \in Int /\ Amounts[w] = a /\ pc \in [Workers -> Labels]
      /\ \A v \in Workers : Amounts[v] \in Int
  BY TransferType, Summed DEF IInv, Hands
<1>2. /\ SumFunction(Money) \in Int /\ SumFunctionOnSet(Amounts, Credited) \in Int
      /\ IsFiniteSet(Credited) /\ Credited \subseteq Workers
  BY MoneyTyped, Summed
<1>3. CASE CreditStore(w)
  <2>1. /\ pc[w] = "credit store" /\ MoneyStore(w, To(w), a, "debit")
        /\ To(w) \in DOMAIN Accounts /\ w \in Holders(To(w))
    BY <1>3 DEF CreditStore, At, IInv, Hands, OnAccounts, Credits, Holders
  <2>2. loaded[w] = Accounts[To(w)].money
    BY <2>1 DEF MoneyInv, Fresh
  <2>3. /\ SumFunction(Money)' = SumFunction(Money) + a /\ phase' # "reading" /\ Fresh'
        /\ Workers' = Workers /\ pc' = [pc EXCEPT ![w] = "debit"] /\ Amounts' = Amounts
        /\ Opening(file)' = Opening(file)
    BY <1>1, <2>1, <2>2, MoneyStored
  <2>4. w \notin Credited /\ Credited' = Credited \union {w}
    BY <1>1, <2>1, <2>3 DEF Credited
  <2>5. SumFunctionOnSet(Amounts, Credited') = a + SumFunctionOnSet(Amounts, Credited)
    <3>1. \A v \in Credited' : Amounts[v] \in Int
      BY <1>1, <1>2, <2>4
    <3> DEFINE S == Credited
               T == Credited'
               f == Amounts
    <3>2. IsFiniteSet(S) /\ Joins(w, S, T) /\ f[w] = a /\ Numbers(f, T)
      BY <1>1, <1>2, <2>4, <3>1 DEF Joins, Numbers
    <3> HIDE DEF S, T, f
    <3>3. SumFunctionOnSet(f, T) = f[w] + SumFunctionOnSet(f, S)
      BY <3>2, OneMore
    <3> QED BY <3>2, <3>3 DEF S, T, f
  <2>6. MoneyConserved'
    <3> HIDE DEF a
    <3> QED BY <1>1, <1>2, <2>3, <2>5 DEF MoneyInv, MoneyConserved
  <2> QED BY <2>3, <2>6 DEF MoneyInv, ReadSoFar
<1>4. CASE DebitStore(w)
  <2>1. /\ pc[w] = "debit store" /\ MoneyStore(w, From(w), -a, "post from")
        /\ From(w) \in DOMAIN Accounts /\ w \in Holders(From(w))
    BY <1>4 DEF DebitStore, At, IInv, Hands, OnAccounts, Credits, Holders
  <2>2. loaded[w] = Accounts[From(w)].money
    BY <2>1 DEF MoneyInv, Fresh
  <2>3. /\ SumFunction(Money)' = SumFunction(Money) + (-a) /\ phase' # "reading" /\ Fresh'
        /\ Workers' = Workers /\ pc' = [pc EXCEPT ![w] = "post from"] /\ Amounts' = Amounts
        /\ Opening(file)' = Opening(file)
    <3> DEFINE d == -a
    <3>1. d \in Int /\ MoneyStore(w, From(w), d, "post from")
      BY <1>1, <2>1
    <3> HIDE DEF d
    <3>2. /\ SumFunction(Money)' = SumFunction(Money) + d /\ phase' # "reading" /\ Fresh'
          /\ Workers' = Workers /\ pc' = [pc EXCEPT ![w] = "post from"] /\ Amounts' = Amounts
          /\ Opening(file)' = Opening(file)
      BY <2>1, <2>2, <3>1, MoneyStored
    <3> QED BY <3>2 DEF d
  <2>4. w \notin Credited' /\ Credited = Credited' \union {w}
    BY <1>1, <2>1, <2>3 DEF Credited
  <2>5. SumFunctionOnSet(Amounts, Credited) = a + SumFunctionOnSet(Amounts, Credited')
        /\ SumFunctionOnSet(Amounts, Credited') \in Int
    <3> DEFINE S == Credited'
               T == Credited
               f == Amounts
    <3>1. S \subseteq T /\ Joins(w, S, T) /\ f[w] = a /\ Numbers(f, T)
      BY <1>1, <1>2, <2>4 DEF Joins, Numbers
    <3>2. IsFiniteSet(S)
      BY <1>2, <3>1, FS_Subset
    <3> HIDE DEF S, T, f
    <3>3. /\ SumFunctionOnSet(f, T) = f[w] + SumFunctionOnSet(f, S)
          /\ SumFunctionOnSet(f, S) \in Int
      BY <3>1, <3>2, OneMore
    <3> QED BY <3>1, <3>3 DEF S, T, f
  <2>6. MoneyConserved'
    <3> DEFINE m == SumFunction(Money)
               c == SumFunctionOnSet(Amounts, Credited)
               k == SumFunctionOnSet(Amounts, Credited')
               o == SumFunction(Opening(file))
    <3>1. a \in Int /\ m \in Int /\ c \in Int /\ k \in Int /\ c = a + k
      BY <1>1, <1>2, <2>5
    <3>2. m - c = o
      BY DEF MoneyInv, MoneyConserved
    <3>3. (m + (-a)) - k = o
      <4> HIDE DEF a, m, c, k, o
      <4> QED BY <3>1, <3>2
    <3> HIDE DEF a
    <3> QED BY <2>3, <3>3 DEF MoneyConserved
  <2> QED BY <2>3, <2>6 DEF MoneyInv, ReadSoFar
<1> QED BY <1>3, <1>4

\* The other steps of a worker.
LEMMA OffStores ==
  ASSUME IInv, MoneyInv, NEW w \in Workers, SendMoney(w),
         ~ CreditStore(w), ~ DebitStore(w)
  PROVE  MoneyInv'
<1>1. /\ pc \in [Workers -> Labels] /\ loaded \in [Workers -> Int]
      /\ transfer \in [Workers -> {None} \union ToSet(Transfers)]
  BY DEF IInv, Hands
<1>2. CASE LoopTest(w) \/ RoomWait(w) \/ SizeTest(w)
  BY <1>1, <1>2, MoneyKept DEF LoopTest, RoomWait, SizeTest, At, Goto, Credits
<1>3. CASE Back(w)
  <2>1. pc[w] = "back" /\ pc'[w] \in {"back", "pop"}
    BY <1>1, <1>3 DEF Back, Undefined, At, Goto
  <2>2. \A v \in Workers \ {w} :
          pc'[v] = pc[v] /\ transfer'[v] = transfer[v] /\ loaded'[v] = loaded[v]
    BY <1>1, <1>3 DEF Back, Undefined, Goto
  <2> QED BY <1>3, <2>1, <2>2, MoneyKept DEF Back, Undefined, At, Credits
<1>4. CASE PopLoad(w)
  BY <1>1, <1>4, MoneyKept DEF PopLoad, At, Goto, Credits
<1>5. CASE PopStore(w)
  <2>1. pc[w] = "store" /\ pc'[w] \in {"store", "lookup"}
    BY <1>1, <1>5 DEF PopStore, Undefined, At, Goto
  <2>2. \A v \in Workers \ {w} :
          pc'[v] = pc[v] /\ transfer'[v] = transfer[v] /\ loaded'[v] = loaded[v]
    BY <1>1, <1>5 DEF PopStore, Undefined, Goto
  <2> QED BY <1>5, <2>1, <2>2, MoneyKept DEF PopStore, Undefined, At, Credits
<1>6. CASE Lookup(w)
  <2>1. pc[w] = "lookup" /\ pc'[w] \in {"lookup", "to"}
    BY <1>1, <1>6 DEF Lookup, At, Goto
  <2>2. \A v \in Workers \ {w} :
          pc'[v] = pc[v] /\ transfer'[v] = transfer[v] /\ loaded'[v] = loaded[v]
    BY <1>1, <1>6 DEF Lookup, Goto
  <2> QED BY <1>6, <2>1, <2>2, MoneyKept DEF Lookup, At, Credits
<1>7. CASE WaitTo(w) \/ WaitFrom(w)
  BY <1>1, <1>7, MoneyKept DEF WaitTo, WaitFrom, AccountWait, At, Goto, Credits
<1>8. CASE PostFrom(w) \/ PostTo(w)
  BY <1>1, <1>8, MoneyKept DEF PostFrom, PostTo, AccountPost, At, Goto, Credits
<1>9. CASE CreditLoad(w) \/ DebitLoad(w)
  BY <1>1, <1>9, MoneyKept DEF CreditLoad, DebitLoad, MoneyLoad, At, Goto, Credits
<1>10. CASE RoomPost(w)
  BY <1>1, <1>10, MoneyKept DEF RoomPost, At, Goto, Credits
<1> QED BY <1>2, <1>3, <1>4, <1>5, <1>6, <1>7, <1>8, <1>9, <1>10 DEF SendMoney

\* The first line with an id is the one the accounts are opened by.
LEMMA OpeningIs ==
  ASSUME file \in Seq(Lines)
  PROVE  /\ DOMAIN Opening(file) = Ids(Len(file))
         /\ \A n \in Nat : IsFiniteSet(Ids(n))
         /\ \A n \in 1 .. Len(file) :
              /\ Ids(n) = Ids(n - 1) \union
                            {file[k].id : k \in {m \in {n} : file[m].kind = "account"}}
              /\ file[n].kind = "account" /\ file[n].id \notin Ids(n - 1)
                   => Opening(file)[file[n].id] = file[n].money
<1>1. DOMAIN file = 1 .. Len(file) /\ Len(file) \in Nat
  BY LenProperties
<1>2. DOMAIN Opening(file) = Ids(Len(file))
  BY <1>1 DEF Opening, Ids
<1>3. ASSUME NEW n \in Nat PROVE IsFiniteSet(Ids(n))
  <2> DEFINE K == {m \in 1 .. n : file[m].kind = "account"}
             ids == [k \in K |-> file[k].id]
  <2>1. IsFiniteSet(1 .. n)
    BY FS_Interval
  <2>2. IsFiniteSet(K)
    BY <2>1, FS_Subset
  <2>3. ids \in Surjection(K, Ids(n))
    BY DEF Ids, Surjection
  <2> HIDE DEF K, ids
  <2> QED BY <2>2, <2>3, FS_Surjection
<1>4. ASSUME NEW n \in 1 .. Len(file)
      PROVE  Ids(n) = Ids(n - 1) \union
               {file[k].id : k \in {m \in {n} : file[m].kind = "account"}}
  <2>1. 1 .. n = (1 .. (n - 1)) \union {n}
    BY <1>1
  <2> QED BY <2>1 DEF Ids
<1>5. ASSUME NEW n \in 1 .. Len(file), file[n].kind = "account",
             file[n].id \notin Ids(n - 1)
      PROVE  Opening(file)[file[n].id] = file[n].money
  <2> DEFINE id == file[n].id
             creating == {m \in DOMAIN file : file[m].kind = "account" /\ file[m].id = id}
  <2>1. n \in creating
    BY <1>1, <1>5
  <2>2. ASSUME NEW m \in creating PROVE n <= m
    <3>1. m \in 1 .. Len(file) /\ ~ (m \in 1 .. (n - 1))
      BY <1>1, <1>5 DEF Ids
    <3> QED BY <1>1, <3>1
  <2>3. creating \subseteq Nat
    BY <1>1
  <2>4. Min(creating) = n
    <3> HIDE DEF creating
    <3>1. \A x \in creating : (\A y \in creating : x <= y) => x = n
      BY <2>1, <2>2, <2>3
    <3> QED BY <2>1, <2>2, <3>1 DEF Min
  <2>5. id \in {file[k].id : k \in {m \in DOMAIN file : file[m].kind = "account"}}
    BY <1>1, <1>5
  <2>6. Opening(file)[id] = file[Min(creating)].money
    BY <2>5 DEF Opening
  <2> QED BY <2>4, <2>6
<1> QED BY <1>2, <1>3, <1>4, <1>5

LEMMA ReadMoney ==
  ASSUME IInv, MoneyInv, ReadLine
  PROVE  MoneyInv'
<1> DEFINE l == file[line + 1]
           O == Opening(file)
<1>1. /\ phase = "reading" /\ phase' = "reading" /\ line' = line + 1 /\ file' = file
      /\ line + 1 \in 1 .. Len(file) /\ (line + 1) - 1 = line /\ line \in Nat
      /\ file \in Seq(Lines) /\ O' = O
  <2>1. /\ phase = "reading" /\ phase' = "reading" /\ line' = line + 1 /\ file' = file
        /\ line < Len(file) /\ line \in 0 .. Len(file) /\ file \in Seq(Lines)
    BY DEF IInv, Data, ReadLine
  <2>2. Len(file) \in Nat
    BY <2>1
  <2> QED BY <2>1, <2>2
<1>2. Fresh' /\ MoneyConserved'
  <2>1. \A w \in Workers' : pc'[w] = "done"
    BY <1>1 DEF IInv, Hands, Workers, ReadLine
  <2> QED BY <1>1, <2>1 DEF Fresh, MoneyConserved
<1>3. /\ {Accounts[i].id : i \in DOMAIN Accounts} = Ids(line)
      /\ \A i \in DOMAIN Accounts : O[Accounts[i].id] = Accounts[i].money
      /\ SumFunction(Money) = SumFunctionOnSet(O, Ids(line))
  BY <1>1 DEF MoneyInv, ReadSoFar
<1>4. (Ids(line))' = Ids(line + 1)
  BY <1>1 DEF Ids
<1>5. /\ IsFiniteSet(Ids(line))
      /\ Ids(line + 1) = Ids(line) \union
           {file[k].id : k \in {m \in {line + 1} : file[m].kind = "account"}}
      /\ l.kind = "account" /\ l.id \notin Ids(line) => O[l.id] = l.money
  BY <1>1, OpeningIs
<1>6. CASE UNCHANGED Accounts /\ Ids(line + 1) = Ids(line)
  <2>1. Money' = Money
    BY <1>6 DEF Money
  <2> HIDE DEF O
  <2>2. /\ {Accounts'[i].id : i \in DOMAIN Accounts'} = (Ids(line))'
        /\ \A i \in DOMAIN Accounts' : O'[Accounts'[i].id] = Accounts'[i].money
        /\ SumFunction(Money') = SumFunctionOnSet(O', (Ids(line))')
    BY <1>1, <1>3, <1>4, <1>6, <2>1
  <2> QED BY <1>2, <2>2 DEF MoneyInv, ReadSoFar, O
<1>7. CASE l.kind = "account" /\ l.id \notin Ids(line)
           /\ Accounts' = Append(Accounts, [id |-> l.id, money |-> l.money])
  <2> DEFINE n == Len(Accounts) + 1
             D == DOMAIN Accounts
             I == Ids(line)
             J == Ids(line + 1)
             m == Money
             mm == Money'
  <2>1. /\ n \in Nat /\ n \notin D /\ DOMAIN Accounts' = D \union {n}
        /\ \A i \in D : Accounts'[i] = Accounts[i]
        /\ Accounts'[n].id = l.id /\ Accounts'[n].money = l.money
    <3>1. Accounts \in Seq([id : Int, money : Int])
      BY DEF IInv, Data
    <3>2. D = 1 .. Len(Accounts) /\ Len(Accounts) \in Nat
      BY <3>1, LenProperties
    <3>3. l \in Lines
      BY <1>1, ElementOfSeq
    <3>4. [id |-> l.id, money |-> l.money] \in [id : Int, money : Int]
      BY <1>7, <3>3 DEF Lines
    <3> DEFINE e == [id |-> l.id, money |-> l.money]
               R == [id : Int, money : Int]
    <3>5. /\ Accounts \in Seq(R) /\ e \in R /\ Accounts' = Append(Accounts, e)
          /\ e.id = l.id /\ e.money = l.money
      BY <1>7, <3>1, <3>4
    <3> HIDE DEF e, R
    <3>6. /\ Accounts' \in Seq(R) /\ Len(Accounts') = n /\ Accounts'[n] = e
          /\ \A i \in 1 .. Len(Accounts) : Accounts'[i] = Accounts[i]
      BY <3>5, AppendProperties
    <3>7. DOMAIN Accounts' = 1 .. n
      BY <3>6, LenProperties
    <3>8. 1 .. n = (1 .. Len(Accounts)) \union {n} /\ n \notin 1 .. Len(Accounts) /\ n \in Nat
      BY <3>2
    <3> QED BY <3>2, <3>5, <3>6, <3>7, <3>8
  <2>2. J = I \union {l.id} /\ l.id \notin I /\ O[l.id] = l.money
    BY <1>5, <1>7
  <2>3. /\ IsFiniteSet(D) /\ DOMAIN m = D
        /\ \A i \in D : m[i] \in Int /\ m[i] = Accounts[i].money
    BY Summed
  <2>4. /\ DOMAIN mm = D \union {n} /\ mm[n] = l.money
        /\ \A i \in D : mm[i] = m[i]
    BY <2>1, <2>3 DEF Money
  <2>5. \A i \in DOMAIN mm : mm[i] \in Int
    <3>1. l.money \in Int
      <4>1. l \in Lines
        BY <1>1, ElementOfSeq
      <4> QED BY <1>7, <4>1 DEF Lines
    <3> HIDE DEF l, n, D, m, mm
    <3> QED BY <2>3, <2>4, <3>1
  <2>6. \A id \in J : O[id] \in Int
    <3>1. \A i \in D : O[Accounts[i].id] \in Int
      BY <1>3, <2>3
    <3>2. \A id \in I : O[id] \in Int
      BY <1>3, <3>1
    <3>3. O[l.id] \in Int
      BY <2>2, <2>4, <2>5
    <3> HIDE DEF O, I, J, l
    <3> QED BY <2>2, <3>2, <3>3
  <2>7. /\ {Accounts'[i].id : i \in DOMAIN Accounts'} = J
        /\ \A i \in DOMAIN Accounts' : O[Accounts'[i].id] = Accounts'[i].money
    <3>1. \A i \in D : O[Accounts[i].id] = Accounts[i].money
      BY <1>3
    <3>2. {Accounts[i].id : i \in D} = I
      BY <1>3
    <3> HIDE DEF D, I, J, O, l, n
    <3> QED BY <2>1, <2>2, <3>1, <3>2
  <2>8. SumFunction(mm) = SumFunctionOnSet(O, J)
    <3>1. SumFunction(m) = SumFunctionOnSet(m, D) /\ SumFunction(mm) = SumFunctionOnSet(mm, DOMAIN mm)
      BY <2>3 DEF SumFunction
    <3>2. SumFunction(m) = SumFunctionOnSet(O, I) /\ IsFiniteSet(I)
      BY <1>3, <1>5
    <3> HIDE DEF D, I, J, O, l, n, m, mm
    <3>3. SumFunctionOnSet(mm, D) = SumFunctionOnSet(m, D)
      BY <2>3, <2>4, SumSame
    <3> DEFINE E == DOMAIN mm
    <3>4. Joins(n, D, E) /\ Numbers(mm, E)
      BY <2>1, <2>4, <2>5 DEF Joins, Numbers
    <3> HIDE DEF E
    <3>5. SumFunctionOnSet(mm, E) = mm[n] + SumFunctionOnSet(mm, D)
      BY <2>3, <3>4, OneMore
    <3> DEFINE id == l.id
    <3>6. Joins(id, I, J) /\ O[id] = l.money /\ Numbers(O, J)
      BY <2>2, <2>6 DEF Joins, Numbers
    <3> HIDE DEF id
    <3>7. SumFunctionOnSet(O, J) = O[id] + SumFunctionOnSet(O, I)
      BY <3>2, <3>6, OneMore
    <3> QED BY <2>4, <3>1, <3>2, <3>3, <3>5, <3>6, <3>7 DEF E
  <2> HIDE DEF O
  <2>9. /\ {Accounts'[i].id : i \in DOMAIN Accounts'} = (Ids(line))'
        /\ \A i \in DOMAIN Accounts' : O'[Accounts'[i].id] = Accounts'[i].money
        /\ SumFunction(Money') = SumFunctionOnSet(O', (Ids(line))')
    BY <1>1, <1>4, <2>7, <2>8
  <2> QED BY <1>2, <2>9 DEF MoneyInv, ReadSoFar, O
<1>8. CASE l.kind # "account"
  <2>1. UNCHANGED Accounts
    BY <1>8 DEF ReadLine
  <2>2. Ids(line + 1) = Ids(line)
    BY <1>5, <1>8
  <2> QED BY <1>6, <2>1, <2>2
<1>9. CASE l.kind = "account"
  <2>1. Accounts' = InsertAccount(l.id, l.money)
    BY <1>9 DEF ReadLine
  <2>2. l.id \in Ids(line) <=> \E i \in DOMAIN Accounts : Accounts[i].id = l.id
    BY <1>3
  <2>3. CASE l.id \in Ids(line)
    <3>1. UNCHANGED Accounts
      BY <2>1, <2>2, <2>3 DEF InsertAccount
    <3>2. Ids(line + 1) = Ids(line)
      BY <1>5, <2>3
    <3> QED BY <1>6, <3>1, <3>2
  <2>4. CASE l.id \notin Ids(line)
    BY <1>7, <1>9, <2>1, <2>2, <2>4 DEF InsertAccount
  <2> QED BY <2>3, <2>4
<1> QED BY <1>8, <1>9

LEMMA StartMoney ==
  ASSUME IInv, MoneyInv, StartWorkers
  PROVE  MoneyInv'
<1>1. /\ phase = "reading" /\ phase' = "working" /\ line = Len(file) /\ file \in Seq(Lines)
      /\ Workers' = Workers /\ Money' = Money /\ Opening(file)' = Opening(file)
      /\ \A w \in Workers : pc'[w] = "loop"
  BY DEF IInv, Data, StartWorkers, parsed, Workers, Money
<1>2. Credited' = {}
  BY <1>1 DEF Credited
<1>3. SumFunctionOnSet(Amounts', {}) = 0
  BY FS_EmptySet, SumSplit
<1>4. SumFunction(Money) = SumFunction(Opening(file))
  <2>1. DOMAIN Opening(file) = Ids(line)
    BY <1>1, OpeningIs
  <2>2. SumFunction(Money) = SumFunctionOnSet(Opening(file), Ids(line))
    BY <1>1 DEF MoneyInv, ReadSoFar
  <2> QED BY <2>1, <2>2 DEF SumFunction
<1>5. SumFunction(Money) \in Int
  BY MoneyTyped
<1>6. MoneyConserved'
  <2>1. SumFunctionOnSet(Amounts', Credited') = 0
    BY <1>2, <1>3
  <2>2. SumFunction(Money) - 0 = SumFunction(Money)
    BY <1>5
  <2> QED BY <1>1, <1>4, <2>1, <2>2 DEF MoneyConserved
<1>7. Fresh'
  BY <1>1 DEF Fresh
<1> QED BY <1>1, <1>6, <1>7 DEF MoneyInv, ReadSoFar

\* A step in which no worker moves, once the file is read.
LEMMA StillMoney ==
  ASSUME IInv, MoneyInv, phase # "reading", phase' # "reading",
         UNCHANGED <<parsed, pc, transfer, loaded>>
  PROVE  MoneyInv'
<1>1. Workers' = Workers /\ Money' = Money /\ Amounts' = Amounts /\ Opening(file)' = Opening(file)
  BY DEF Workers, Money, Amounts, parsed
<1>2. Credited' = Credited
  BY <1>1 DEF Credited
<1>3. \A v \in Workers : To(v)' = To(v) /\ From(v)' = From(v)
  BY DEF To, From, Index, parsed
<1>4. MoneyConserved'
  BY <1>1, <1>2 DEF MoneyInv, MoneyConserved
<1>5. Fresh'
  BY <1>1, <1>3 DEF MoneyInv, Fresh, parsed
<1> QED BY <1>4, <1>5 DEF MoneyInv, ReadSoFar

\* What the accounts hold at every step.
LEMMA MoneyInvariance == Spec => []MoneyInv
<1>1. ASSUME Init
      PROVE  MoneyInv
  <2>1. phase = "reading" /\ line = 0 /\ Accounts = <<>> /\ \A w \in Workers : pc[w] = "done"
    BY <1>1 DEF Init
  <2>2. Ids(line) = {}
    BY <2>1 DEF Ids
  <2>3. DOMAIN Accounts = {} /\ DOMAIN Money = {}
    BY <2>1 DEF Money
  <2>4. SumFunction(Money) = 0 /\ SumFunctionOnSet(Opening(file), {}) = 0
    BY <2>3, FS_EmptySet, SumSplit DEF SumFunction
  <2>5. ReadSoFar
    BY <2>2, <2>3, <2>4 DEF ReadSoFar
  <2> QED BY <2>1, <2>5 DEF MoneyInv, MoneyConserved, Fresh
<1>2. ASSUME IInv, MoneyInv, [Next]_vars
      PROVE  MoneyInv'
  <2> USE <1>2
  <2>1. CASE ReadLine
    BY <2>1, ReadMoney
  <2>2. CASE StartWorkers
    BY <2>2, StartMoney
  <2>3. CASE JoinAndPrint
    BY <2>3, StillMoney DEF JoinAndPrint
  <2>4. ASSUME NEW w \in Workers, SendMoney(w)
        PROVE  MoneyInv'
    <3>1. phase = "working"
      BY <2>4 DEF SendMoney, LoopTest, RoomWait, SizeTest, Back, PopLoad, PopStore, Lookup,
                  WaitTo, WaitFrom, CreditLoad, CreditStore, DebitLoad, DebitStore,
                  PostFrom, PostTo, RoomPost, At
    <3>2. CASE CreditStore(w) \/ DebitStore(w)
      BY <2>4, <3>1, <3>2, AtStores
    <3>3. CASE ~ CreditStore(w) /\ ~ DebitStore(w)
      BY <2>4, <3>3, OffStores
    <3> QED BY <3>2, <3>3
  <2>5. CASE UNCHANGED vars
    <3>1. /\ Workers' = Workers /\ Money' = Money /\ Amounts' = Amounts /\ phase' = phase
          /\ Opening(file)' = Opening(file) /\ (Ids(line))' = Ids(line) /\ Accounts' = Accounts
      BY <2>5 DEF Workers, Money, Amounts, Ids, vars, parsed
    <3>2. CASE phase # "reading"
      BY <2>5, <3>1, <3>2, StillMoney DEF vars
    <3>3. CASE phase = "reading"
      <4>1. ReadSoFar'
        BY <3>1, <3>3 DEF MoneyInv, ReadSoFar
      <4>2. \A w \in Workers' : pc'[w] = "done"
        BY <2>5, <3>1, <3>3 DEF IInv, Hands, vars
      <4> QED BY <3>1, <3>3, <4>1, <4>2 DEF MoneyInv, MoneyConserved, Fresh
    <3> QED BY <3>2, <3>3
  <2> QED BY <2>1, <2>2, <2>3, <2>4, <2>5 DEF Next, Main
<1> QED BY <1>1, <1>2, Invariance, PTL DEF Spec

\* For any file and any number of threads no money appears or is lost, although
\* without a lock on the vector a transfer may be made twice or not at all.
THEOREM MoneyTheorem == Spec => []MoneyConserved
<1>1. MoneyInv => MoneyConserved
  BY DEF MoneyInv
<1> QED BY <1>1, MoneyInvariance, PTL

-----------------------------------------------------------------------------
\* The transfers that were read are those of the file.

Worth == [k \in DOMAIN Transfers |-> Transfers[k].amount]
PlacesOf(P) == {k \in DOMAIN Transfers : Transfers[k] \in P}

Orderly == {n \in DOMAIN file : file[n].kind = "transfer"}
Stated == [n \in Orderly |-> file[n].transfer.amount]
LinesOf(P, n) == {k \in Orderly : k <= n /\ file[k].transfer \in P}

\* No two accounts have one id.
Distinct == \A i, j \in DOMAIN Accounts : Accounts[i].id = Accounts[j].id => i = j

\* As many transfers of any kind were put into the vector as are in the lines that were
\* read, and of the same worth.
Copied ==
  /\ phase # "reading" => line = Len(file)
  /\ \A P : /\ Cardinality(PlacesOf(P)) = Cardinality(LinesOf(P, line))
            /\ SumFunctionOnSet(Worth, PlacesOf(P)) = SumFunctionOnSet(Stated, LinesOf(P, line))

\* What is counted and summed.
LEMMA Listed ==
  ASSUME Data, NEW P, NEW n
  PROVE  /\ IsFiniteSet(PlacesOf(P)) /\ Numbers(Worth, PlacesOf(P))
         /\ IsFiniteSet(LinesOf(P, n)) /\ Numbers(Stated, LinesOf(P, n))
         /\ DOMAIN Transfers = 1 .. Len(Transfers) /\ Len(Transfers) \in Nat
         /\ DOMAIN file = 1 .. Len(file) /\ Len(file) \in Nat
<1> DEFINE R == [from : Int, to : Int, amount : Int]
<1>1. Transfers \in Seq(R) /\ file \in Seq(Lines)
  BY DEF Data
<1>2. /\ DOMAIN Transfers = 1 .. Len(Transfers) /\ Len(Transfers) \in Nat
      /\ \A k \in DOMAIN Transfers : Transfers[k] \in R
  <2> HIDE DEF R
  <2> QED BY <1>1, LenProperties, ElementOfSeq
<1>3. /\ DOMAIN file = 1 .. Len(file) /\ Len(file) \in Nat
      /\ \A k \in DOMAIN file : file[k] \in Lines
  BY <1>1, LenProperties, ElementOfSeq
<1>4. IsFiniteSet(DOMAIN Transfers) /\ IsFiniteSet(DOMAIN file)
  BY <1>2, <1>3, FS_Interval
<1>5. PlacesOf(P) \subseteq DOMAIN Transfers /\ LinesOf(P, n) \subseteq DOMAIN file
  BY DEF PlacesOf, LinesOf, Orderly
<1>6. IsFiniteSet(PlacesOf(P)) /\ IsFiniteSet(LinesOf(P, n))
  BY <1>4, <1>5, FS_Subset
<1>7. Numbers(Worth, PlacesOf(P))
  BY <1>2, <1>5 DEF Numbers, Worth
<1>8. Numbers(Stated, LinesOf(P, n))
  <2>1. ASSUME NEW k \in LinesOf(P, n) PROVE Stated[k] \in Int
    <3>1. k \in Orderly /\ file[k] \in Lines /\ file[k].kind = "transfer"
      BY <1>3 DEF LinesOf, Orderly
    <3>2. file[k].transfer \in [from : Int, to : Int, amount : Int]
      BY <3>1 DEF Lines
    <3> QED BY <3>1, <3>2 DEF Stated
  <2> QED BY <2>1 DEF Numbers
<1> QED BY <1>2, <1>3, <1>6, <1>7, <1>8

\* A line that is a transfer is appended to the vector.
LEMMA CopyLine ==
  ASSUME IInv, IInv', Copied, ReadLine
  PROVE  Copied'
<1> DEFINE R == [from : Int, to : Int, amount : Int]
           l == file[line + 1]
           n == Len(Transfers) + 1
           m == line + 1
<1>1. /\ phase' = "reading" /\ file' = file /\ line' = m /\ m \in 1 .. Len(file)
      /\ line \in Nat /\ line < m /\ Len(file) \in Nat
  <2>1. phase = "reading" /\ line < Len(file) /\ line \in 0 .. Len(file)
    BY DEF IInv, Data, ReadLine
  <2>2. Len(file) \in Nat
    BY Listed DEF IInv
  <2> QED BY <2>1, <2>2 DEF ReadLine
<1>2. Orderly' = Orderly /\ Stated' = Stated
  BY <1>1 DEF Orderly, Stated
<1>3. l \in Lines /\ m \in DOMAIN file
  <2>1. file \in Seq(Lines)
    BY DEF IInv, Data
  <2> QED BY <1>1, <2>1, ElementOfSeq, Listed DEF IInv
<1>4. ASSUME NEW P
      PROVE  /\ LinesOf(P, line)' = LinesOf(P, m)
             /\ LinesOf(P, m) = LinesOf(P, line) \union
                  (IF l.kind = "transfer" /\ l.transfer \in P THEN {m} ELSE {})
             /\ m \notin LinesOf(P, line)
  <2>1. LinesOf(P, line)' = LinesOf(P, m)
    BY <1>1, <1>2 DEF LinesOf
  <2>2. \A k \in DOMAIN file : k <= m <=> k <= line \/ k = m
    BY <1>1, Listed DEF IInv
  <2>3. m \in Orderly <=> l.kind = "transfer"
    BY <1>3 DEF Orderly
  <2>4. Orderly \subseteq DOMAIN file
    BY DEF Orderly
  <2>5. ~ (m <= line)
    BY <1>1
  <2> HIDE DEF m
  <2> QED BY <2>1, <2>2, <2>3, <2>4, <2>5 DEF LinesOf, m
<1>5. CASE UNCHANGED Transfers /\ l.kind # "transfer"
  <2>1. ASSUME NEW P PROVE PlacesOf(P)' = PlacesOf(P) /\ LinesOf(P, line)' = LinesOf(P, line)
    BY <1>4, <1>5 DEF PlacesOf
  <2>2. Worth' = Worth
    BY <1>5 DEF Worth
  <2> QED BY <1>1, <1>2, <2>1, <2>2 DEF Copied
<1>6. CASE l.kind = "transfer" /\ Transfers' = Append(Transfers, l.transfer)
  <2> DEFINE x == l.transfer
  <2>1. x \in R
    BY <1>3, <1>6 DEF Lines
  <2>2. /\ DOMAIN Transfers' = DOMAIN Transfers \union {n} /\ n \notin DOMAIN Transfers
        /\ Transfers'[n] = x
        /\ \A k \in DOMAIN Transfers : Transfers'[k] = Transfers[k]
    <3>1. Transfers \in Seq(R) /\ Transfers' \in Seq(R)
      BY DEF IInv, Data
    <3>2. DOMAIN Transfers = 1 .. Len(Transfers) /\ Len(Transfers) \in Nat
      BY Listed DEF IInv
    <3> HIDE DEF R, x
    <3>3. /\ Len(Transfers') = n /\ Transfers'[n] = x
          /\ \A k \in 1 .. Len(Transfers) : Transfers'[k] = Transfers[k]
      BY <1>6, <2>1, <3>1, AppendProperties DEF x
    <3>4. DOMAIN Transfers' = 1 .. n
      BY <3>1, <3>3, LenProperties
    <3> QED BY <3>2, <3>3, <3>4
  <2>3. /\ Worth'[n] = x.amount /\ Stated[m] = x.amount
        /\ \A k \in DOMAIN Transfers : Worth'[k] = Worth[k]
    BY <1>3, <1>6, <2>2 DEF Worth, Stated, Orderly
  <2>4. ASSUME NEW P
        PROVE  /\ Cardinality(PlacesOf(P)') = Cardinality(LinesOf(P, line)')
               /\ SumFunctionOnSet(Worth', PlacesOf(P)')
                    = SumFunctionOnSet(Stated', LinesOf(P, line)')
    <3> DEFINE S == PlacesOf(P)
               T == PlacesOf(P)'
               K == LinesOf(P, line)
               L == LinesOf(P, m)
               f == Worth
               g == Worth'
               h == Stated
    <3>1. IsFiniteSet(S) /\ IsFiniteSet(K) /\ IsFiniteSet(L) /\ Numbers(h, L)
      BY Listed DEF IInv
    <3>2. Numbers(g, T)
      <4>1. \A k \in T : k \in DOMAIN Transfers'
        BY DEF PlacesOf
      <4>2. Worth'[n] \in Int /\ \A k \in DOMAIN Transfers : Worth[k] \in Int
        <5>1. x.amount \in Int
          BY <2>1
        <5>2. \A k \in DOMAIN Transfers : Transfers[k] \in R
          <6>1. Transfers \in Seq(R)
            BY DEF IInv, Data
          <6> HIDE DEF R
          <6> QED BY <6>1, ElementOfSeq, Listed DEF IInv
        <5> QED BY <2>3, <5>1, <5>2 DEF Worth
      <4>3. \A k \in T : Worth'[k] \in Int
        BY <2>2, <2>3, <4>1, <4>2
      <4> QED BY <4>3 DEF Numbers
    <3>3. Cardinality(S) = Cardinality(K) /\ SumFunctionOnSet(f, S) = SumFunctionOnSet(h, K)
      BY DEF Copied
    <3>4. \A k \in S : f[k] = g[k]
      BY <2>3 DEF PlacesOf
    <3>5. SumFunctionOnSet(g, S) = SumFunctionOnSet(f, S)
      <4> HIDE DEF S, T, K, L, f, g, h
      <4> QED BY <3>1, <3>4, SumSame
    <3>6. CASE x \in P
      <4>1. Joins(m, K, L)
        BY <1>4, <1>6, <3>6 DEF Joins
      <4>2. Joins(n, S, T)
        BY <2>2, <3>6 DEF PlacesOf, Joins
      <4>3. g[n] = h[m]
        BY <2>3
      <4> HIDE DEF S, T, K, L, f, g, h, n, m
      <4>4. Cardinality(T) = Cardinality(S) + 1 /\ Cardinality(L) = Cardinality(K) + 1
        BY <3>1, <4>1, <4>2, FS_AddElement DEF Joins
      <4>5. SumFunctionOnSet(g, T) = g[n] + SumFunctionOnSet(g, S)
        BY <3>1, <3>2, <4>2, OneMore
      <4>6. SumFunctionOnSet(h, L) = h[m] + SumFunctionOnSet(h, K)
        BY <3>1, <4>1, OneMore
      <4>7. Cardinality(T) = Cardinality(L) /\ SumFunctionOnSet(g, T) = SumFunctionOnSet(h, L)
        BY <3>3, <3>5, <4>3, <4>4, <4>5, <4>6
      <4> QED BY <1>2, <1>4, <4>7 DEF T, L, g, h
    <3>7. CASE x \notin P
      <4>1. L = K
        BY <1>4, <1>6, <3>7
      <4>2. T = S
        BY <2>2, <3>7 DEF PlacesOf
      <4> QED BY <1>2, <1>4, <3>3, <3>5, <4>1, <4>2
    <3> QED BY <3>6, <3>7
  <2> QED BY <1>1, <2>4 DEF Copied
<1>7. CASE l.kind # "transfer"
  BY <1>5, <1>7 DEF ReadLine
<1>8. CASE l.kind = "transfer"
  BY <1>6, <1>8 DEF ReadLine
<1> QED BY <1>7, <1>8

\* A store changes the money of one account and nothing else of the accounts.
LEMMA Stored ==
  ASSUME IInv, NEW w, NEW i \in DOMAIN Accounts, NEW d, NEW l, MoneyStore(w, i, d, l)
  PROVE  /\ DOMAIN Accounts' = DOMAIN Accounts
         /\ \A j \in DOMAIN Accounts : Accounts'[j].id = Accounts[j].id
         /\ \A j \in DOMAIN Accounts \ {i} : Accounts'[j] = Accounts[j]
         /\ Accounts'[i].money = loaded[w] + d
<1>1. Accounts \in Seq([id : Int, money : Int])
  BY DEF IInv, Data
<1>2. \A j \in DOMAIN Accounts : Accounts[j] \in [id : Int, money : Int]
  BY <1>1, ElementOfSeq, LenProperties
<1> QED BY <1>2 DEF MoneyStore

\* The same at every step, with the ids of the accounts that were inserted.
LEMMA Reading == Spec => [](Distinct /\ Copied)
<1>1. ASSUME Init, IInv
      PROVE  Distinct /\ Copied
  <2>1. Accounts = <<>> /\ Transfers = <<>> /\ line = 0 /\ phase = "reading"
    BY <1>1 DEF Init
  <2>2. ASSUME NEW P PROVE PlacesOf(P) = {} /\ LinesOf(P, line) = {}
    <3>1. \A k \in Orderly : ~ (k <= 0)
      BY <1>1, Listed DEF IInv, Orderly
    <3> QED BY <2>1, <3>1 DEF PlacesOf, LinesOf
  <2>3. SumFunctionOnSet(Worth, {}) = 0 /\ SumFunctionOnSet(Stated, {}) = 0
    BY FS_EmptySet, SumSplit
  <2>4. Copied
    BY <2>1, <2>2, <2>3 DEF Copied
  <2> QED BY <2>1, <2>4 DEF Distinct
<1>2. ASSUME IInv, Distinct, Copied, [Next]_vars, IInv'
      PROVE  Distinct' /\ Copied'
  <2> USE <1>2
  <2>1. CASE ReadLine
    <3>1. Copied'
      BY <2>1, CopyLine
    <3>2. CASE UNCHANGED Accounts
      BY <3>1, <3>2 DEF Distinct
    <3>3. ASSUME NEW id, NEW money, Accounts' = Append(Accounts, [id |-> id, money |-> money]),
                 ~ \E i \in DOMAIN Accounts : Accounts[i].id = id
          PROVE  Distinct'
      <4> DEFINE R == [id : Int, money : Int]
                 n == Len(Accounts) + 1
      <4>1. Accounts \in Seq(R) /\ Accounts' \in Seq(R)
        BY DEF IInv, Data
      <4> HIDE DEF R
      <4>2. DOMAIN Accounts = 1 .. Len(Accounts) /\ Len(Accounts) \in Nat
        BY <4>1, LenProperties
      <4>3. /\ DOMAIN Accounts' = DOMAIN Accounts \union {n}
            /\ \A i \in DOMAIN Accounts : Accounts'[i] = Accounts[i]
            /\ Accounts'[n].id = id
        BY <3>3, <4>2
      <4> QED BY <3>3, <4>3 DEF Distinct
    <3> QED BY <2>1, <3>1, <3>2, <3>3 DEF ReadLine, InsertAccount
  <2>2. ASSUME UNCHANGED <<file, line, Transfers>>,
               phase' # "reading" => line = Len(file)
        PROVE  Copied'
    <3>1. Worth' = Worth /\ Stated' = Stated /\ Orderly' = Orderly
      BY <2>2 DEF Worth, Stated, Orderly
    <3>2. \A P : PlacesOf(P)' = PlacesOf(P) /\ LinesOf(P, line)' = LinesOf(P, line)
      BY <2>2, <3>1 DEF PlacesOf, LinesOf
    <3> QED BY <2>2, <3>1, <3>2 DEF Copied
  <2>3. CASE StartWorkers
    BY <2>2, <2>3 DEF StartWorkers, parsed, Distinct
  <2>4. CASE JoinAndPrint
    BY <2>2, <2>4 DEF JoinAndPrint, parsed, Distinct, Copied
  <2>5. ASSUME NEW w \in Workers, SendMoney(w)
        PROVE  Distinct' /\ Copied'
    <3>1. phase = "working" /\ UNCHANGED <<file, line, Transfers>>
      BY <2>5 DEF SendMoney, LoopTest, RoomWait, SizeTest, Back, PopLoad, PopStore, Lookup,
                  WaitTo, WaitFrom, AccountWait, CreditLoad, CreditStore, DebitLoad,
                  DebitStore, MoneyLoad, MoneyStore, PostFrom, PostTo, AccountPost,
                  RoomPost, At, parsed
    <3>2. Copied'
      BY <2>2, <3>1 DEF Copied
    <3>3. CASE UNCHANGED Accounts
      BY <3>2, <3>3 DEF Distinct
    <3>4. CASE CreditStore(w) \/ DebitStore(w)
      <4>1. /\ DOMAIN Accounts' = DOMAIN Accounts
            /\ \A i \in DOMAIN Accounts : Accounts'[i].id = Accounts[i].id
        <5>1. To(w) \in DOMAIN Accounts /\ From(w) \in DOMAIN Accounts
          BY <3>4 DEF CreditStore, DebitStore, At, IInv, Hands, OnAccounts, Credits
        <5> QED BY <3>4, <5>1, Stored DEF CreditStore, DebitStore
      <4> QED BY <3>2, <4>1 DEF Distinct
    <3> QED BY <2>5, <3>3, <3>4
            DEF SendMoney, LoopTest, RoomWait, SizeTest, Back, PopLoad, PopStore, Lookup,
                WaitTo, WaitFrom, AccountWait, CreditLoad, DebitLoad, MoneyLoad,
                PostFrom, PostTo, AccountPost, RoomPost, parsed
  <2>6. CASE UNCHANGED vars
    BY <2>2, <2>6 DEF vars, parsed, Distinct, Copied
  <2> QED BY <2>1, <2>3, <2>4, <2>5, <2>6 DEF Next, Main
<1> QED BY <1>1, <1>2, Invariance, PTL DEF Spec

-----------------------------------------------------------------------------
\* One thread at a time at the vector.

\* Where a worker has a transfer that is not debited yet, and the workers there.
Turn == {"lookup", "to", "from", "credit", "credit store", "debit", "debit store"}
Turns == {w \in Workers : pc[w] \in Turn}

\* The transfers that are still due are those at the places up to Left.
Left == IF Turns = {} THEN finish ELSE finish + 1

\* What a worker at the vector knows: the transfer that it takes is the last one.
PoppedBy(w) ==
  /\ pc[w] = "done" => finish = 0
  /\ pc[w] \in {"back", "pop", "store"} => finish # 0
  /\ pc[w] = "store" => loaded[w] = finish
  /\ pc[w] \in {"pop", "store"} => transfer[w] = Transfers[finish]
  /\ pc[w] \in Turn => finish < Len(Transfers) /\ transfer[w] = Transfers[finish + 1]
Popped == \A w \in Workers : PoppedBy(w)

\* With one or two threads there is room for one.
LEMMA OneInside ==
  ASSUME IInv, phase # "reading", N <= 2, NEW v \in Inside, NEW w \in Inside
  PROVE  v = w
<1>1. Inside \in SUBSET Workers
  BY DEF Inside
<1>2. IsFiniteSet(Inside) /\ Cardinality(Inside) \in Nat
  BY <1>1, FiniteWorkers DEF IInv
<1>3. Room = 1
  BY DEF Room, IInv, Data
<1>4. Cardinality(Inside) <= 1
  BY <1>2, <1>3 DEF IInv, Sems
<1> QED BY <1>2, <1>4, Single

\* A worker at the vector is the only one there, before it goes to l and after.
LEMMA OneTurn ==
  ASSUME IInv, phase # "reading", N <= 2, N' = N, NEW w \in Inside, NEW l, Goto(w, l)
  PROVE  /\ Workers' = Workers
         /\ \A v \in Workers \ {w} : pc'[v] = pc[v] /\ pc[v] \in {"loop", "wait", "done"}
         /\ pc'[w] = l
         /\ Turns = (IF pc[w] \in Turn THEN {w} ELSE {})
         /\ Turns' = (IF l \in Turn THEN {w} ELSE {})
         /\ Credited = (IF pc[w] \in {"debit", "debit store"} THEN {w} ELSE {})
         /\ Credited' = (IF l \in {"debit", "debit store"} THEN {w} ELSE {})
<1>1. Workers' = Workers /\ w \in Workers
  BY DEF Workers, Inside
<1>2. pc \in [Workers -> Labels]
  BY DEF IInv, Hands
<1>3. \A v \in Workers \ {w} : pc'[v] = pc[v] /\ pc[v] \in {"loop", "wait", "done"}
  <2>1. ASSUME NEW v \in Workers \ {w} PROVE v \notin Inside
    BY <2>1, OneInside
  <2> QED BY <1>1, <1>2, <2>1 DEF Goto, Inside
<1>4. pc'[w] = l
  BY <1>1, <1>2 DEF Goto
<1>5. Turns = (IF pc[w] \in Turn THEN {w} ELSE {})
  BY <1>1, <1>3 DEF Turns, Turn
<1>6. Turns' = (IF l \in Turn THEN {w} ELSE {})
  BY <1>1, <1>3, <1>4 DEF Turns, Turn
<1>7. Credited = (IF pc[w] \in {"debit", "debit store"} THEN {w} ELSE {})
  BY <1>1, <1>3 DEF Credited
<1>8. Credited' = (IF l \in {"debit", "debit store"} THEN {w} ELSE {})
  BY <1>1, <1>3, <1>4 DEF Credited
<1> QED BY <1>1, <1>3, <1>4, <1>5, <1>6, <1>7, <1>8

\* A step that does not take from the vector leaves what the others know.
LEMMA PoppedKept ==
  ASSUME Popped, UNCHANGED <<N, Transfers, finish>>, NEW w \in Workers,
         \A v \in Workers \ {w} :
           pc'[v] = pc[v] /\ transfer'[v] = transfer[v] /\ loaded'[v] = loaded[v],
         PoppedBy(w)'
  PROVE  Popped'
<1>1. Workers' = Workers
  BY DEF Workers
<1>2. \A v \in Workers \ {w} : PoppedBy(v)'
  BY DEF Popped, PoppedBy
<1> QED BY <1>1, <1>2 DEF Popped

\* What a worker's step does to the vector and to what is due.
LEMMA PoppedStep ==
  ASSUME IInv, phase = "working", N <= 2, Popped, NEW w \in Workers, SendMoney(w)
  PROVE  /\ Popped'
         /\ ~ DebitStore(w) => Left' = Left
         /\ DebitStore(w) => Left = finish + 1 /\ Left' = finish
         /\ ~ CreditStore(w) /\ ~ DebitStore(w) => Credited' = Credited
         /\ UNCHANGED <<N, file, line, Transfers>>
<1>1. /\ pc \in [Workers -> Labels] /\ loaded \in [Workers -> Int]
      /\ transfer \in [Workers -> {None} \union ToSet(Transfers)]
      /\ finish \in 0 .. Len(Transfers) /\ Len(Transfers) \in Nat
      /\ PoppedBy(w) /\ phase # "reading"
  BY Listed DEF IInv, Hands, Data, Popped
<1>2. /\ UNCHANGED <<N, file, line, Transfers>> /\ Workers' = Workers
      /\ \A v \in Workers \ {w} :
           pc'[v] = pc[v] /\ transfer'[v] = transfer[v] /\ loaded'[v] = loaded[v]
  <2>1. UNCHANGED <<N, file, line, Transfers>>
    BY DEF SendMoney, LoopTest, RoomWait, SizeTest, Back, PopLoad, PopStore, Lookup, WaitTo,
           WaitFrom, AccountWait, CreditLoad, CreditStore, DebitLoad, DebitStore, MoneyLoad,
           MoneyStore, PostFrom, PostTo, AccountPost, RoomPost, parsed
  <2>2. \A v \in Workers \ {w} : pc'[v] = pc[v]
    BY <1>1 DEF SendMoney, LoopTest, RoomWait, SizeTest, Back, Undefined, PopLoad, PopStore,
                Lookup, WaitTo, WaitFrom, AccountWait, CreditLoad, CreditStore, DebitLoad,
                DebitStore, MoneyLoad, MoneyStore, PostFrom, PostTo, AccountPost, RoomPost,
                Goto
  <2>3. \A v \in Workers \ {w} : transfer'[v] = transfer[v]
    BY <1>1 DEF SendMoney, LoopTest, RoomWait, SizeTest, Back, Undefined, PopLoad, PopStore,
                Lookup, WaitTo, WaitFrom, AccountWait, CreditLoad, CreditStore, DebitLoad,
                DebitStore, MoneyLoad, MoneyStore, PostFrom, PostTo, AccountPost, RoomPost
  <2>4. \A v \in Workers \ {w} : loaded'[v] = loaded[v]
    BY <1>1 DEF SendMoney, LoopTest, RoomWait, SizeTest, Back, Undefined, PopLoad, PopStore,
                Lookup, WaitTo, WaitFrom, AccountWait, CreditLoad, CreditStore, DebitLoad,
                DebitStore, MoneyLoad, MoneyStore, PostFrom, PostTo, AccountPost, RoomPost
  <2> QED BY <2>1, <2>2, <2>3, <2>4 DEF Workers
\* Outside.
<1>3. CASE LoopTest(w) \/ RoomWait(w)
  <2>1. /\ pc'[w] = "done" => finish = 0
        /\ pc[w] \in {"loop", "wait"} /\ pc'[w] \in {"wait", "done", "test"}
        /\ finish' = finish
    BY <1>1, <1>3 DEF LoopTest, RoomWait, At, Goto
  <2>2. PoppedBy(w)'
    BY <2>1 DEF PoppedBy, Turn
  <2>3. Turns' = Turns
    BY <1>2, <2>1 DEF Turns, Turn
  <2>4. Credited' = Credited
    BY <1>2, <2>1 DEF Credited
  <2>5. ~ DebitStore(w)
    BY <2>1 DEF DebitStore, At
  <2> QED BY <1>2, <2>1, <2>2, <2>3, <2>4, <2>5, PoppedKept DEF Left
\* Inside, for a step to l that keeps finish.
<1>4. ASSUME w \in Inside, NEW l, Goto(w, l), finish' = finish, PoppedBy(w)',
             pc[w] \in Turn <=> l \in Turn \/ DebitStore(w), DebitStore(w) => l \notin Turn,
             \/ pc[w] \in {"debit", "debit store"} <=> l \in {"debit", "debit store"}
             \/ CreditStore(w) \/ DebitStore(w)
      PROVE  /\ Popped'
             /\ ~ DebitStore(w) => Left' = Left
             /\ DebitStore(w) => Left = finish + 1 /\ Left' = finish
             /\ ~ CreditStore(w) /\ ~ DebitStore(w) => Credited' = Credited
  <2>1. /\ Turns = (IF pc[w] \in Turn THEN {w} ELSE {})
        /\ Turns' = (IF l \in Turn THEN {w} ELSE {})
        /\ Credited = (IF pc[w] \in {"debit", "debit store"} THEN {w} ELSE {})
        /\ Credited' = (IF l \in {"debit", "debit store"} THEN {w} ELSE {})
    BY <1>1, <1>2, <1>4, OneTurn
  <2>2. Popped'
    BY <1>2, <1>4, PoppedKept
  <2>3. Left' = IF l \in Turn THEN finish + 1 ELSE finish
    BY <1>4, <2>1 DEF Left
  <2>4. Left = IF pc[w] \in Turn THEN finish + 1 ELSE finish
    BY <2>1 DEF Left
  <2>5. ~ CreditStore(w) /\ ~ DebitStore(w) => Credited' = Credited
    BY <1>4, <2>1
  <2> QED BY <1>4, <2>2, <2>3, <2>4, <2>5
<1>5. ASSUME At(w, "back") \/ At(w, "pop") \/ At(w, "test") \/ pc[w] \in Turn
               \/ pc[w] \in {"store", "post from", "post to", "post"}
      PROVE  w \in Inside
  BY <1>5 DEF At, Inside, Turn
<1>6. CASE SizeTest(w) \/ Back(w) \/ PopLoad(w) \/ RoomPost(w)
  <2>1. \E l \in {"back", "post", "pop", "store", "loop"} :
          /\ Goto(w, l) /\ pc'[w] = l /\ finish' = finish
          /\ l = "back" => finish # 0
          /\ l = "pop" => finish # 0 /\ transfer'[w] = Transfers[finish]
          /\ l = "store" => /\ finish # 0 /\ loaded'[w] = finish
                           /\ transfer'[w] = Transfers[finish]
    BY <1>1, <1>6 DEF SizeTest, Back, PopLoad, RoomPost, PoppedBy, At, Goto, BackElement
  <2>2. PICK l \in {"back", "post", "pop", "store", "loop"} :
          /\ Goto(w, l) /\ pc'[w] = l /\ finish' = finish
          /\ l = "back" => finish # 0
          /\ l = "pop" => finish # 0 /\ transfer'[w] = Transfers[finish]
          /\ l = "store" => /\ finish # 0 /\ loaded'[w] = finish
                           /\ transfer'[w] = Transfers[finish]
    BY <2>1
  <2>3. PoppedBy(w)'
    BY <1>2, <2>2 DEF PoppedBy, Turn
  <2>4. /\ pc[w] \in {"test", "back", "pop", "post"} /\ w \in Inside
        /\ ~ CreditStore(w) /\ ~ DebitStore(w)
    BY <1>5, <1>6 DEF SizeTest, Back, PopLoad, RoomPost, At, CreditStore, DebitStore, Inside
  <2> QED BY <1>2, <1>4, <2>2, <2>3, <2>4 DEF Turn
<1>7. CASE PopStore(w)
  <2>1. /\ pc[w] = "store" /\ Goto(w, "lookup") /\ finish' = finish - 1 /\ finish # 0
        /\ transfer' = transfer /\ transfer[w] = Transfers[finish]
    BY <1>1, <1>7 DEF PopStore, PoppedBy, At
  <2>2. /\ Turns = {} /\ Turns' = {w} /\ Credited = {} /\ Credited' = {} /\ pc'[w] = "lookup"
        /\ \A v \in Workers \ {w} : pc[v] \in {"loop", "wait", "done"}
    <3>1. w \in Inside
      BY <1>5, <2>1
    <3> QED BY <1>1, <1>2, <2>1, <3>1, OneTurn DEF Turn
  <2>3. finish' + 1 = finish /\ finish' < Len(Transfers)
    BY <1>1, <2>1
  <2>4. PoppedBy(w)'
    BY <1>2, <2>1, <2>2, <2>3 DEF PoppedBy, Turn
  <2>5. ASSUME NEW v \in Workers \ {w} PROVE PoppedBy(v)'
    <3>1. pc'[v] \in {"loop", "wait"}
      BY <1>2, <2>1, <2>2 DEF Popped, PoppedBy
    <3> QED BY <3>1 DEF PoppedBy, Turn
  <2>6. Popped'
    BY <1>2, <2>4, <2>5 DEF Popped
  <2>7. Left' = Left
    BY <2>2, <2>3 DEF Left
  <2>8. ~ DebitStore(w)
    BY <2>1 DEF DebitStore, At
  <2> QED BY <1>2, <2>2, <2>6, <2>7, <2>8
<1>8. CASE Lookup(w) \/ WaitTo(w) \/ WaitFrom(w) \/ CreditLoad(w) \/ CreditStore(w)
             \/ DebitLoad(w) \/ DebitStore(w)
  <2>1. /\ pc[w] \in Turn /\ finish' = finish /\ transfer' = transfer
        /\ finish < Len(Transfers) /\ transfer[w] = Transfers[finish + 1]
    BY <1>1, <1>8 DEF Lookup, WaitTo, WaitFrom, AccountWait, CreditLoad, CreditStore, DebitLoad,
                      DebitStore, MoneyLoad, MoneyStore, At, Turn, PoppedBy
  <2>2. \E l \in Turn \union {"post from"} :
          /\ Goto(w, l) /\ pc'[w] = l
          /\ l \in Turn <=> ~ DebitStore(w)
          /\ pc[w] \in {"debit", "debit store"} <=>
                \/ l \in {"debit", "debit store"} /\ ~ CreditStore(w)
                \/ DebitStore(w)
          /\ CreditStore(w) => l = "debit"
    <3>1. CASE Lookup(w) /\ UNCHANGED pc
      BY <1>1, <3>1 DEF Lookup, At, Goto, Turn, CreditStore, DebitStore
    <3>2. CASE Lookup(w) /\ Goto(w, "to")
      BY <1>1, <3>2 DEF Lookup, At, Goto, Turn, CreditStore, DebitStore
    <3>3. CASE WaitTo(w)
      BY <1>1, <3>3 DEF WaitTo, AccountWait, At, Goto, Turn, CreditStore, DebitStore
    <3>4. CASE WaitFrom(w)
      BY <1>1, <3>4 DEF WaitFrom, AccountWait, At, Goto, Turn, CreditStore, DebitStore
    <3>5. CASE CreditLoad(w)
      BY <1>1, <3>5 DEF CreditLoad, MoneyLoad, At, Goto, Turn, CreditStore, DebitStore
    <3>6. CASE CreditStore(w)
      BY <1>1, <3>6 DEF MoneyStore, At, Goto, Turn, CreditStore, DebitStore
    <3>7. CASE DebitLoad(w)
      BY <1>1, <3>7 DEF DebitLoad, MoneyLoad, At, Goto, Turn, CreditStore, DebitStore
    <3>8. CASE DebitStore(w)
      BY <1>1, <3>8 DEF MoneyStore, At, Goto, Turn, CreditStore, DebitStore
    <3> QED BY <1>8, <3>1, <3>2, <3>3, <3>4, <3>5, <3>6, <3>7, <3>8 DEF Lookup
  <2>3. PICK l \in Turn \union {"post from"} :
          /\ Goto(w, l) /\ pc'[w] = l
          /\ l \in Turn <=> ~ DebitStore(w)
          /\ pc[w] \in {"debit", "debit store"} <=>
                \/ l \in {"debit", "debit store"} /\ ~ CreditStore(w)
                \/ DebitStore(w)
          /\ CreditStore(w) => l = "debit"
    BY <2>2
  <2>4. PoppedBy(w)'
    BY <1>2, <2>1, <2>3 DEF PoppedBy, Turn
  <2>5. w \in Inside
    BY <1>5, <2>1
  <2> QED BY <1>2, <1>4, <2>1, <2>3, <2>4, <2>5
<1>9. CASE PostFrom(w) \/ PostTo(w)
  <2>1. \E l \in {"post to", "post"} : Goto(w, l) /\ pc'[w] = l /\ finish' = finish
    BY <1>1, <1>9 DEF PostFrom, PostTo, AccountPost, Goto
  <2>2. PICK l \in {"post to", "post"} : Goto(w, l) /\ pc'[w] = l /\ finish' = finish
    BY <2>1
  <2>3. PoppedBy(w)'
    BY <2>2 DEF PoppedBy, Turn
  <2>4. /\ pc[w] \in {"post from", "post to"} /\ w \in Inside
        /\ ~ CreditStore(w) /\ ~ DebitStore(w)
    BY <1>9 DEF PostFrom, PostTo, At, CreditStore, DebitStore, Inside
  <2> QED BY <1>2, <1>4, <2>2, <2>3, <2>4 DEF Turn
<1> QED BY <1>3, <1>6, <1>7, <1>8, <1>9 DEF SendMoney

-----------------------------------------------------------------------------
\* The balances and the transfers that are due, as of the places that are left.

Incoming(id, n) == {k \in DOMAIN Transfers : k > n /\ Transfers[k].to = id}
Outgoing(id, n) == {k \in DOMAIN Transfers : k > n /\ Transfers[k].from = id}
Settled(n) ==
  [id \in {Accounts[i].id : i \in DOMAIN Accounts} |->
     Opening(file)[id] + SumFunctionOnSet(Worth, Incoming(id, n))
       - SumFunctionOnSet(Worth, Outgoing(id, n))]

\* What was credited to account i and not debited yet.
Paying(i) ==
  IF Credited # {} /\ Transfers[Left].to = Accounts[i].id THEN Transfers[Left].amount ELSE 0

\* The accounts are those of the file, and hold what the transfers already made say.
Books ==
  /\ {Accounts[i].id : i \in DOMAIN Accounts} = DOMAIN Opening(file)
  /\ \A i \in DOMAIN Accounts : Opening(file)[Accounts[i].id] \in Int
  /\ \A i \in DOMAIN Accounts : Accounts[i].money - Paying(i) = Settled(Left)[Accounts[i].id]

IfAt(p, x) == IF p THEN x ELSE 0

\* A sum over the places past n - 1, and the one over those past n.
LEMMA OnePlace ==
  ASSUME Data, NEW n \in 1 .. Len(Transfers), NEW S, NEW T, NEW p \in BOOLEAN,
         S \subseteq DOMAIN Transfers, n \notin S, T = IF p THEN S \union {n} ELSE S
  PROVE  /\ SumFunctionOnSet(Worth, S) \in Int
         /\ SumFunctionOnSet(Worth, T)
              = SumFunctionOnSet(Worth, S) + IfAt(p, Transfers[n].amount)
<1>1. /\ DOMAIN Transfers = 1 .. Len(Transfers)
      /\ IsFiniteSet(DOMAIN Transfers)
  BY Listed, FS_Interval
<1>2. \A k \in DOMAIN Transfers : Worth[k] \in Int /\ Worth[k] = Transfers[k].amount
  <2> DEFINE R == [from : Int, to : Int, amount : Int]
  <2>1. Transfers \in Seq(R)
    BY DEF Data
  <2>2. \A k \in DOMAIN Transfers : Transfers[k] \in R
    <3> HIDE DEF R
    <3> QED BY <1>1, <2>1, ElementOfSeq
  <2> QED BY <2>2 DEF Worth
<1>3. IsFiniteSet(S)
  BY <1>1, FS_Subset
<1> DEFINE f == Worth
<1>4. SumFunctionOnSet(f, S) \in Int
  <2>1. \A k \in S : f[k] \in Int
    BY <1>2
  <2> HIDE DEF f
  <2> QED BY <1>3, <2>1, SumSplit
<1>5. CASE p
  <2>1. Joins(n, S, T) /\ Numbers(f, T) /\ f[n] = Transfers[n].amount /\ f[n] \in Int
    BY <1>1, <1>2, <1>5 DEF Joins, Numbers
  <2> HIDE DEF f
  <2>2. SumFunctionOnSet(f, T) = f[n] + SumFunctionOnSet(f, S)
    BY <1>3, <2>1, OneMore
  <2>3. SumFunctionOnSet(f, T) = SumFunctionOnSet(f, S) + f[n]
    BY <1>4, <2>1, <2>2
  <2> QED BY <1>4, <1>5, <2>1, <2>3 DEF f, IfAt
<1>6. CASE ~ p
  BY <1>4, <1>6 DEF IfAt
<1> QED BY <1>5, <1>6

\* One transfer more is made.
LEMMA SettledStep ==
  ASSUME Data, NEW n \in 1 .. Len(Transfers),
         NEW id \in {Accounts[i].id : i \in DOMAIN Accounts}, Opening(file)[id] \in Int
  PROVE  /\ Settled(n)[id] \in Int /\ Transfers[n].amount \in Int
         /\ Settled(n - 1)[id] = Settled(n)[id] + IfAt(Transfers[n].to = id, Transfers[n].amount)
                                   - IfAt(Transfers[n].from = id, Transfers[n].amount)
<1>1. DOMAIN Transfers = 1 .. Len(Transfers) /\ Len(Transfers) \in Nat
  BY Listed
<1>2. \A k \in DOMAIN Transfers : k > n - 1 <=> k > n \/ k = n
  BY <1>1
<1>3. /\ Incoming(id, n) \subseteq DOMAIN Transfers /\ n \notin Incoming(id, n)
      /\ Incoming(id, n - 1) = IF Transfers[n].to = id THEN Incoming(id, n) \union {n}
                               ELSE Incoming(id, n)
  BY <1>1, <1>2 DEF Incoming
<1>4. /\ Outgoing(id, n) \subseteq DOMAIN Transfers /\ n \notin Outgoing(id, n)
      /\ Outgoing(id, n - 1) = IF Transfers[n].from = id THEN Outgoing(id, n) \union {n}
                               ELSE Outgoing(id, n)
  BY <1>1, <1>2 DEF Outgoing
<1> DEFINE a == Transfers[n].amount
           in == SumFunctionOnSet(Worth, Incoming(id, n))
           out == SumFunctionOnSet(Worth, Outgoing(id, n))
           inn == SumFunctionOnSet(Worth, Incoming(id, n - 1))
           outt == SumFunctionOnSet(Worth, Outgoing(id, n - 1))
           o == Opening(file)[id]
<1>5. in \in Int /\ inn = in + IfAt(Transfers[n].to = id, a)
  BY <1>3, OnePlace
<1>6. out \in Int /\ outt = out + IfAt(Transfers[n].from = id, a)
  BY <1>4, OnePlace
<1>7. a \in Int
  <2> DEFINE R == [from : Int, to : Int, amount : Int]
  <2>1. Transfers \in Seq(R)
    BY DEF Data
  <2>2. Transfers[n] \in R
    <3> HIDE DEF R
    <3> QED BY <1>1, <2>1, ElementOfSeq
  <2> QED BY <2>2
<1>8. Settled(n)[id] = o + in - out /\ Settled(n - 1)[id] = o + inn - outt
  BY DEF Settled
<1>9. o \in Int
  OBVIOUS
<1> HIDE DEF a, in, out, inn, outt, o
<1>10. /\ IfAt(Transfers[n].to = id, a) \in Int
       /\ IfAt(Transfers[n].from = id, a) \in Int
  BY <1>7 DEF IfAt
<1>11. Settled(n - 1)[id] = Settled(n)[id] + IfAt(Transfers[n].to = id, a)
                                   - IfAt(Transfers[n].from = id, a)
  BY <1>5, <1>6, <1>8, <1>9, <1>10
<1> QED BY <1>5, <1>6, <1>7, <1>8, <1>9, <1>11 DEF a

\* GetAccountIndex on an id of the vector.
LEMMA Indexed ==
  ASSUME Data, Distinct
  PROVE  /\ \A i \in DOMAIN Accounts : Index(Accounts[i].id) = i
         /\ \A id : Index(id) \in DOMAIN Accounts => Accounts[Index(id)].id = id
<1>1. 0 \notin DOMAIN Accounts
  <2>1. Accounts \in Seq([id : Int, money : Int])
    BY DEF Data
  <2> QED BY <2>1, LenProperties
<1>2. ASSUME NEW i \in DOMAIN Accounts PROVE Index(Accounts[i].id) = i
  BY DEF Index, Distinct
<1> QED BY <1>1, <1>2 DEF Index

\* What is settled at n depends on the file, the transfers and the ids.
LEMMA SettledKept ==
  ASSUME UNCHANGED <<file, Transfers>>, DOMAIN Accounts' = DOMAIN Accounts,
         \A i \in DOMAIN Accounts : Accounts'[i].id = Accounts[i].id
  PROVE  (Settled(Left))' = Settled(Left')
<1>1. Worth' = Worth
  BY DEF Worth
<1>2. {Accounts'[i].id : i \in DOMAIN Accounts'} = {Accounts[i].id : i \in DOMAIN Accounts}
  OBVIOUS
<1> QED BY <1>1, <1>2 DEF Settled, Incoming, Outgoing

\* The books after a step, from the money that each account holds.
LEMMA BooksAfter ==
  ASSUME Books, UNCHANGED file, DOMAIN Accounts' = DOMAIN Accounts,
         \A i \in DOMAIN Accounts : Accounts'[i].id = Accounts[i].id,
         \A i \in DOMAIN Accounts :
           Accounts'[i].money - Paying(i)' = (Settled(Left))'[Accounts[i].id]
  PROVE  Books'
<1>1. {Accounts'[i].id : i \in DOMAIN Accounts'} = {Accounts[i].id : i \in DOMAIN Accounts}
  OBVIOUS
<1>2. (Opening(file))' = Opening(file)
  OBVIOUS
<1>3. {Accounts'[i].id : i \in DOMAIN Accounts'} = DOMAIN (Opening(file))'
  BY <1>1, <1>2 DEF Books
<1>4. \A i \in DOMAIN Accounts' : (Opening(file))'[Accounts'[i].id] \in Int
  BY <1>2 DEF Books
<1>5. (\A i \in DOMAIN Accounts :
         Accounts[i].money - Paying(i) = Settled(Left)[Accounts[i].id])'
  OBVIOUS
<1> QED BY <1>3, <1>4, <1>5 DEF Books

\* The steps of a worker that is alone at the vector keep the books.
LEMMA BooksStep ==
  ASSUME IInv, MoneyInv, Distinct, Popped, Books, phase = "working", N <= 2,
         NEW w \in Workers, SendMoney(w)
  PROVE  Books'
<1> USE DEF At
<1>1. /\ ~ DebitStore(w) => Left' = Left
      /\ DebitStore(w) => Left = finish + 1 /\ Left' = finish
      /\ ~ CreditStore(w) /\ ~ DebitStore(w) => Credited' = Credited
      /\ UNCHANGED <<file, Transfers>>
  BY PoppedStep
<1>2. /\ Data /\ DOMAIN Accounts = 1 .. Len(Accounts) /\ Len(Accounts) \in Nat
      /\ \A i \in DOMAIN Accounts : Accounts[i].money \in Int
      /\ phase # "reading" /\ finish \in 0 .. Len(Transfers) /\ Len(Transfers) \in Nat
  <2>1. Accounts \in Seq([id : Int, money : Int]) /\ finish \in 0 .. Len(Transfers)
    BY DEF IInv, Data
  <2>2. \A i \in DOMAIN Accounts : Accounts[i] \in [id : Int, money : Int]
    BY <2>1, ElementOfSeq, LenProperties
  <2> QED BY <2>1, <2>2, LenProperties, Listed DEF IInv
<1>3. ASSUME CreditStore(w) \/ DebitStore(w)
      PROVE  /\ To(w) \in DOMAIN Accounts /\ From(w) \in DOMAIN Accounts /\ To(w) # From(w)
             /\ Accounts[To(w)].id = transfer[w].to /\ Accounts[From(w)].id = transfer[w].from
             /\ transfer[w] = Transfers[finish + 1] /\ finish + 1 \in 1 .. Len(Transfers)
             /\ w \in Inside /\ w \in Turns /\ Left = finish + 1
  <2>1. pc[w] \in {"credit store", "debit store"}
    BY <1>3 DEF CreditStore, DebitStore
  <2>2. To(w) \in DOMAIN Accounts /\ From(w) \in DOMAIN Accounts /\ To(w) # From(w)
    BY <2>1 DEF IInv, Hands, OnAccounts, Credits
  <2>3. Accounts[To(w)].id = transfer[w].to /\ Accounts[From(w)].id = transfer[w].from
    BY <1>2, <2>2, Indexed DEF To, From
  <2>4. transfer[w] = Transfers[finish + 1] /\ finish < Len(Transfers)
    BY <2>1 DEF Popped, PoppedBy, Turn
  <2>5. w \in Inside /\ w \in Turns
    BY <2>1 DEF Inside, Turns, Turn
  <2> QED BY <1>2, <2>2, <2>3, <2>4, <2>5 DEF Left
<1>4. CASE ~ CreditStore(w) /\ ~ DebitStore(w)
  <2>1. Accounts' = Accounts
    BY <1>4 DEF SendMoney, LoopTest, RoomWait, SizeTest, Back, PopLoad, PopStore, Lookup,
                WaitTo, WaitFrom, AccountWait, CreditLoad, DebitLoad, MoneyLoad,
                PostFrom, PostTo, AccountPost, RoomPost, parsed
  <2>2. (Settled(Left))' = Settled(Left)
    BY <1>1, <1>4, <2>1, SettledKept
  <2>3. ASSUME NEW i \in DOMAIN Accounts PROVE Paying(i)' = Paying(i)
    BY <1>1, <1>4, <2>1 DEF Paying
  <2> QED BY <1>1, <2>1, <2>2, <2>3 DEF Books
<1> DEFINE a == transfer[w].amount
<1>5. a \in Int /\ -a \in Int
  BY TransferType
<1>6. CASE CreditStore(w)
  <2>1. /\ pc[w] = "credit store" /\ MoneyStore(w, To(w), a, "debit") /\ Goto(w, "debit")
    BY <1>6 DEF CreditStore, MoneyStore
  <2>2. Credited = {} /\ Credited' = {w}
    BY <1>2, <1>3, <1>6, <2>1, OneTurn DEF MoneyStore
  <2>3. loaded[w] = Accounts[To(w)].money
    BY <2>1 DEF MoneyInv, Fresh
  <2>4. /\ DOMAIN Accounts' = DOMAIN Accounts
        /\ \A j \in DOMAIN Accounts : Accounts'[j].id = Accounts[j].id
        /\ \A j \in DOMAIN Accounts \ {To(w)} : Accounts'[j] = Accounts[j]
        /\ Accounts'[To(w)].money = loaded[w] + a
    BY <1>3, <1>6, <2>1, Stored
  <2>5. Left' = Left
    BY <1>1, <2>1 DEF DebitStore
  <2>6. (Settled(Left))' = Settled(Left)
    BY <1>1, <2>4, <2>5, SettledKept
  <2>7. ASSUME NEW i \in DOMAIN Accounts
        PROVE  Accounts'[i].money - Paying(i)' = Accounts[i].money - Paying(i)
    <3>1. Paying(i) = 0
      BY <2>2 DEF Paying
    <3>2. Paying(i)' = IF transfer[w].to = Accounts[i].id THEN a ELSE 0
      BY <1>1, <1>3, <1>6, <2>2, <2>4, <2>5 DEF Paying
    <3>3. CASE i = To(w)
      <4>1. Paying(i)' = a /\ Accounts'[i].money = Accounts[i].money + a
        BY <1>3, <1>6, <2>3, <2>4, <3>2, <3>3
      <4>2. Accounts[i].money \in Int
        BY <1>2
      <4> HIDE DEF a
      <4> QED BY <1>5, <3>1, <4>1, <4>2
    <3>4. CASE i # To(w)
      <4>1. Paying(i)' = 0
        BY <1>3, <1>6, <3>2, <3>4 DEF Distinct
      <4> QED BY <2>4, <3>1, <3>4, <4>1
    <3> QED BY <3>3, <3>4
  <2>8. ASSUME NEW i \in DOMAIN Accounts
        PROVE  Accounts'[i].money - Paying(i)' = (Settled(Left))'[Accounts[i].id]
    BY <2>6, <2>7 DEF Books
  <2> QED BY <1>1, <2>4, <2>8, BooksAfter
<1>7. CASE DebitStore(w)
  <2> DEFINE n == finish + 1
             x == Transfers[n]
  <2>1. /\ pc[w] = "debit store" /\ MoneyStore(w, From(w), -a, "post from")
        /\ Goto(w, "post from") /\ N' = N
    BY <1>7 DEF DebitStore, MoneyStore
  <2>9. x = transfer[w] /\ n \in 1 .. Len(Transfers) /\ n - 1 = finish /\ w \in Inside
    BY <1>2, <1>3, <1>7
  <2>2. Credited = {w} /\ Credited' = {}
    BY <1>2, <2>1, <2>9, OneTurn
  <2>3. loaded[w] = Accounts[From(w)].money
    BY <2>1 DEF MoneyInv, Fresh
  <2>4. /\ DOMAIN Accounts' = DOMAIN Accounts
        /\ \A j \in DOMAIN Accounts : Accounts'[j].id = Accounts[j].id
        /\ \A j \in DOMAIN Accounts \ {From(w)} : Accounts'[j] = Accounts[j]
        /\ Accounts'[From(w)].money = loaded[w] + (-a)
    <3> DEFINE d == -a
    <3>1. MoneyStore(w, From(w), d, "post from") /\ From(w) \in DOMAIN Accounts
      BY <1>3, <1>7, <2>1
    <3> HIDE DEF d
    <3>2. /\ DOMAIN Accounts' = DOMAIN Accounts
          /\ \A j \in DOMAIN Accounts : Accounts'[j].id = Accounts[j].id
          /\ \A j \in DOMAIN Accounts \ {From(w)} : Accounts'[j] = Accounts[j]
          /\ Accounts'[From(w)].money = loaded[w] + d
      BY <3>1, Stored
    <3> QED BY <3>2 DEF d
  <2>5. Left = n /\ Left' = n - 1
    BY <1>1, <1>2, <1>7
  <2>6. (Settled(Left))' = Settled(n - 1)
    BY <1>1, <2>4, <2>5, SettledKept
  <2>7. ASSUME NEW i \in DOMAIN Accounts
        PROVE  Accounts'[i].money - Paying(i)' = Settled(n - 1)[Accounts[i].id]
    <3> DEFINE id == Accounts[i].id
               s == Settled(n)[id]
               t == Settled(n - 1)[id]
               m == Accounts[i].money
    <3>1. Paying(i)' = 0
      BY <2>2 DEF Paying
    <3>2. Paying(i) = IfAt(x.to = id, a)
      BY <2>2, <2>5, <2>9 DEF Paying, IfAt
    <3>3. Accounts'[i].money = m - IfAt(x.from = id, a)
      <4>1. CASE i = From(w)
        <5>1. x.from = id
          BY <1>3, <1>7, <2>9, <4>1
        <5>2. Accounts'[i].money = m + (-a) /\ m \in Int
          BY <1>2, <2>3, <2>4, <4>1
        <5> HIDE DEF a, m, id, x
        <5> QED BY <1>5, <5>1, <5>2 DEF IfAt
      <4>2. CASE i # From(w)
        <5>1. x.from # id
          BY <1>3, <1>7, <2>9, <4>2 DEF Distinct
        <5>2. Accounts'[i].money = m /\ m \in Int
          BY <1>2, <2>4, <4>2
        <5> HIDE DEF a, m, id, x
        <5> QED BY <1>5, <5>1, <5>2 DEF IfAt
      <4> QED BY <4>1, <4>2
    <3>4. m - Paying(i) = s
      BY <2>5 DEF Books
    <3>5. /\ s \in Int /\ Opening(file)[id] \in Int
          /\ t = s + IfAt(x.to = id, a) - IfAt(x.from = id, a)
      <4>1. id \in {Accounts[j].id : j \in DOMAIN Accounts} /\ Opening(file)[id] \in Int
        BY DEF Books
      <4>2. /\ s \in Int
            /\ t = s + IfAt(x.to = id, x.amount) - IfAt(x.from = id, x.amount)
        <5> HIDE DEF id, n
        <5> QED BY <1>2, <2>9, <4>1, SettledStep
      <4> QED BY <2>9, <4>1, <4>2
    <3>6. IfAt(x.to = id, a) \in Int /\ IfAt(x.from = id, a) \in Int /\ m \in Int
      BY <1>2, <1>5 DEF IfAt
    <3> HIDE DEF a, m, id, x, s, t
    <3>7. (m - IfAt(x.from = id, a)) - 0 = t
      BY <3>2, <3>4, <3>5, <3>6
    <3> QED BY <3>1, <3>3, <3>7 DEF t, id
  <2>8. ASSUME NEW i \in DOMAIN Accounts
        PROVE  Accounts'[i].money - Paying(i)' = (Settled(Left))'[Accounts[i].id]
    BY <2>6, <2>7
  <2> QED BY <1>1, <2>4, <2>8, BooksAfter
<1> QED BY <1>4, <1>6, <1>7

\* A sum of one number.
LEMMA SumOne ==
  ASSUME NEW f, NEW w, f[w] \in Int
  PROVE  SumFunctionOnSet(f, {w}) = f[w] /\ SumFunctionOnSet(f, {}) = 0
<1>1. SumFunctionOnSet(f, {}) = 0
  BY FS_EmptySet, SumSplit
<1> DEFINE E == {}
           S == {w}
<1>2. Joins(w, E, S) /\ Numbers(f, S) /\ IsFiniteSet(E)
  BY FS_EmptySet DEF Joins, Numbers
<1>3. SumFunctionOnSet(f, E) = 0
  BY <1>1
<1> HIDE DEF E, S
<1>4. SumFunctionOnSet(f, S) = f[w] + SumFunctionOnSet(f, E)
  BY <1>2, OneMore
<1> QED BY <1>1, <1>3, <1>4 DEF S

\* A worker that was told to make a transfer, in the terms of the vector.
LEMMA InMidTransfer ==
  ASSUME IInv, phase # "reading", N <= 2, Distinct, Popped, NEW w \in Credited
  PROVE  /\ Credited = {w} /\ w \in Workers /\ Left = finish + 1
         /\ transfer[w] = Transfers[Left]
         /\ \A i \in DOMAIN Accounts : To(w) = i <=> transfer[w].to = Accounts[i].id
<1>1. w \in Workers /\ pc[w] \in {"debit", "debit store"} /\ w \in Turns /\ w \in Inside
  BY DEF Credited, Turns, Turn, Inside
<1>2. Credited \subseteq Inside
  BY DEF Credited, Inside
<1>3. Credited = {w}
  BY <1>1, <1>2, OneInside
<1>4. Left = finish + 1 /\ transfer[w] = Transfers[Left]
  BY <1>1 DEF Left, Popped, PoppedBy, Turn
<1>5. To(w) \in DOMAIN Accounts
  BY <1>1 DEF IInv, Hands, OnAccounts, Credits
<1>6. \A i \in DOMAIN Accounts : To(w) = i <=> transfer[w].to = Accounts[i].id
  BY <1>5, Indexed DEF To, IInv
<1> QED BY <1>1, <1>3, <1>4, <1>6

\* The refinement mapping, in the terms of the vector: the balances.
LEMMA BalanceIs ==
  ASSUME IInv, phase # "reading", N <= 2, Distinct, Popped, Books
  PROVE  Balance = Settled(Left)
<1> DEFINE ids == {Accounts[i].id : i \in DOMAIN Accounts}
           of(i) == {w \in Credited : To(w) = i}
<1>1. ASSUME NEW i \in DOMAIN Accounts
      PROVE  SumFunctionOnSet(Amounts, of(i)) = Paying(i)
  <2>1. CASE Credited = {}
    <3>1. of(i) = {}
      BY <2>1
    <3>2. SumFunctionOnSet(Amounts, {}) = 0
      BY FS_EmptySet, SumSplit
    <3> QED BY <2>1, <3>1, <3>2 DEF Paying
  <2>2. ASSUME NEW w \in Credited PROVE SumFunctionOnSet(Amounts, of(i)) = Paying(i)
    <3>1. /\ Credited = {w} /\ w \in Workers /\ transfer[w] = Transfers[Left]
          /\ To(w) = i <=> transfer[w].to = Accounts[i].id
      BY InMidTransfer
    <3>2. Amounts[w] \in Int /\ Amounts[w] = transfer[w].amount
      BY <3>1, Summed
    <3>3. of(i) = IF transfer[w].to = Accounts[i].id THEN {w} ELSE {}
      BY <3>1
    <3>4. SumFunctionOnSet(Amounts, {w}) = Amounts[w] /\ SumFunctionOnSet(Amounts, {}) = 0
      <4> DEFINE f == Amounts
      <4>1. f[w] \in Int
        BY <3>2
      <4> HIDE DEF f
      <4>2. SumFunctionOnSet(f, {w}) = f[w] /\ SumFunctionOnSet(f, {}) = 0
        BY <4>1, SumOne
      <4> QED BY <4>2 DEF f
    <3> HIDE DEF of
    <3>5. CASE transfer[w].to = Accounts[i].id
      BY <3>1, <3>2, <3>3, <3>4, <3>5 DEF Paying
    <3>6. CASE transfer[w].to # Accounts[i].id
      BY <3>1, <3>3, <3>4, <3>6 DEF Paying
    <3> QED BY <3>5, <3>6
  <2> QED BY <2>1, <2>2
<1>2. Balance = [id \in ids |-> Accounts[Index(id)].money - SumFunctionOnSet(Amounts, of(Index(id)))]
  BY DEF Balance
<1>3. ASSUME NEW id \in ids
      PROVE  Accounts[Index(id)].money - SumFunctionOnSet(Amounts, of(Index(id)))
               = Settled(Left)[id]
  <2>1. PICK i \in DOMAIN Accounts : id = Accounts[i].id
    OBVIOUS
  <2>2. Index(id) = i
    BY <2>1, Indexed DEF IInv
  <2>3. Accounts[i].money - Paying(i) = Settled(Left)[id]
    BY <2>1 DEF Books
  <2> HIDE DEF of
  <2> QED BY <1>1, <2>2, <2>3
<1>4. Settled(Left) = [id \in ids |-> Settled(Left)[id]]
  BY DEF Settled
<1> HIDE DEF ids, of
<1> QED BY <1>2, <1>3, <1>4

\* The transfers at the places up to n, as a bag.
Times(x, n) == Cardinality({k \in 1 .. n : Transfers[k] = x})
Owed(n) == [x \in {Transfers[k] : k \in 1 .. n} |-> Times(x, n)]

LEMMA TimesIs ==
  ASSUME Data, NEW n \in 0 .. Len(Transfers), NEW x
  PROVE  /\ Times(x, n) \in Nat
         /\ x \in {Transfers[k] : k \in 1 .. n} <=> Times(x, n) > 0
         /\ n # 0 => Times(x, n) = Times(x, n - 1) + IfAt(Transfers[n] = x, 1)
<1> DEFINE S == {k \in 1 .. n : Transfers[k] = x}
<1>1. n \in Nat /\ IsFiniteSet(1 .. n)
  BY Listed, FS_Interval
<1>2. IsFiniteSet(S)
  BY <1>1, FS_Subset
<1>3. Times(x, n) \in Nat /\ (Times(x, n) = 0 <=> S = {})
  BY <1>2, FS_CardinalityType, FS_EmptySet DEF Times
<1>4. ASSUME n # 0
      PROVE  Times(x, n) = Times(x, n - 1) + IfAt(Transfers[n] = x, 1)
  <2> DEFINE T == {k \in 1 .. (n - 1) : Transfers[k] = x}
  <2>1. 1 .. n = (1 .. (n - 1)) \union {n} /\ n \notin 1 .. (n - 1)
    BY <1>1, <1>4
  <2>2. n \notin T /\ S = IF Transfers[n] = x THEN T \union {n} ELSE T
    BY <2>1
  <2>3. IsFiniteSet(T) /\ Cardinality(T) \in Nat
    <3>1. T \subseteq S
      BY <2>2
    <3> HIDE DEF S, T
    <3> QED BY <1>2, <3>1, FS_Subset, FS_CardinalityType
  <2>4. Times(x, n) = Cardinality(S) /\ Times(x, n - 1) = Cardinality(T)
    BY DEF Times
  <2> HIDE DEF S, T
  <2>5. CASE Transfers[n] = x
    <3>1. Cardinality(S) = Cardinality(T) + 1
      BY <2>2, <2>3, <2>5, FS_AddElement
    <3> QED BY <2>4, <2>5, <3>1 DEF IfAt
  <2>6. CASE Transfers[n] # x
    BY <2>2, <2>3, <2>4, <2>6 DEF IfAt
  <2> QED BY <2>5, <2>6
<1>5. x \in {Transfers[k] : k \in 1 .. n} <=> S # {}
  OBVIOUS
<1> QED BY <1>3, <1>4, <1>5

\* The refinement mapping, in the terms of the vector: the transfers that are due.
LEMMA DueIs ==
  ASSUME IInv, phase # "reading", N <= 2, Popped
  PROVE  Due = Owed(Left) /\ Left \in 0 .. Len(Transfers)
<1> DEFINE inHand(x) == {w \in Turns : transfer[w] = x}
           left(x) == Cardinality(inHand(x)) + Times(x, finish)
<1>1. Due = [x \in {y \in ToSet(Transfers) : left(y) > 0} |-> left(x)]
  BY DEF Due, Times, Turns, Turn
<1>2. /\ Data /\ finish \in 0 .. Len(Transfers) /\ Len(Transfers) \in Nat
      /\ DOMAIN Transfers = 1 .. Len(Transfers)
  BY Listed DEF IInv, Data
<1>3. Left \in 0 .. Len(Transfers) /\ \A x : left(x) = Times(x, Left)
  <2>1. CASE Turns = {}
    <3>1. \A x : inHand(x) = {}
      BY <2>1
    <3>2. \A x : Times(x, finish) \in Nat
      BY <1>2, TimesIs
    <3>3. Cardinality({}) = 0
      BY FS_EmptySet
    <3> QED BY <1>2, <2>1, <3>1, <3>2, <3>3 DEF Left
  <2>2. ASSUME NEW w \in Turns PROVE Left \in 0 .. Len(Transfers) /\ \A x : left(x) = Times(x, Left)
    <3>1. w \in Inside /\ Turns \subseteq Inside /\ w \in Workers /\ pc[w] \in Turn
      BY DEF Turns, Turn, Inside
    <3>2. Turns = {w}
      BY <3>1, OneInside
    <3>3. Left = finish + 1 /\ Left \in 1 .. Len(Transfers) /\ transfer[w] = Transfers[Left]
      BY <1>2, <3>1, <3>2 DEF Left, Popped, PoppedBy
    <3>4. ASSUME NEW x PROVE left(x) = Times(x, Left)
      <4>1. inHand(x) = IF Transfers[Left] = x THEN {w} ELSE {}
        BY <3>2, <3>3
      <4>2. Cardinality({w}) = 1 /\ Cardinality({}) = 0
        BY FS_EmptySet, FS_Singleton
      <4>3. Times(x, finish) \in Nat
        BY <1>2, TimesIs
      <4> DEFINE n == Left
      <4>4. n \in 0 .. Len(Transfers) /\ n # 0 /\ n - 1 = finish
        BY <1>2, <3>3
      <4> HIDE DEF n
      <4>5. Times(x, n) = Times(x, n - 1) + IfAt(Transfers[n] = x, 1)
        BY <1>2, <4>4, TimesIs
      <4>6. Times(x, Left) = Times(x, finish) + IfAt(Transfers[Left] = x, 1)
        BY <4>4, <4>5 DEF n
      <4>7. Cardinality(inHand(x)) = IfAt(Transfers[Left] = x, 1)
        BY <4>1, <4>2 DEF IfAt
      <4>8. IfAt(Transfers[Left] = x, 1) \in Nat
        BY DEF IfAt
      <4> HIDE DEF inHand
      <4> QED BY <4>3, <4>6, <4>7, <4>8
    <3> QED BY <3>3, <3>4
  <2> QED BY <2>1, <2>2
<1>4. ASSUME NEW x
      PROVE  x \in {y \in ToSet(Transfers) : left(y) > 0} <=> x \in {Transfers[k] : k \in 1 .. Left}
  <2>1. x \in {Transfers[k] : k \in 1 .. Left} <=> left(x) > 0
    <3> HIDE DEF left
    <3> QED BY <1>2, <1>3, TimesIs
  <2>2. 1 .. Left \subseteq DOMAIN Transfers
    BY <1>2, <1>3
  <2>3. x \in {Transfers[k] : k \in 1 .. Left} => x \in ToSet(Transfers)
    BY <2>2 DEF ToSet
  <2> HIDE DEF left
  <2> QED BY <2>1, <2>3
<1>5. {y \in ToSet(Transfers) : left(y) > 0} = {Transfers[k] : k \in 1 .. Left}
  <2> HIDE DEF left
  <2> QED BY <1>4
<1> HIDE DEF left
<1> QED BY <1>1, <1>3, <1>5 DEF Owed

\* When the workers start, all the transfers of the file are due and none is made.
LEMMA AllDue ==
  ASSUME Data, Copied, line = Len(file)
  PROVE  Orders(file) = Owed(Len(Transfers))
<1> DEFINE ordered(x) == {n \in Orderly : file[n].transfer = x}
           T == Len(Transfers)
<1>1. /\ DOMAIN Transfers = 1 .. T /\ T \in Nat /\ T \in 0 .. T
      /\ DOMAIN file = 1 .. Len(file) /\ Len(file) \in Nat
  BY Listed
<1>2. Orders(file) = [x \in {file[n].transfer : n \in Orderly} |-> Cardinality(ordered(x))]
  BY DEF Orders, Orderly
<1>3. ASSUME NEW x PROVE Cardinality(ordered(x)) = Times(x, T)
  <2>1. LinesOf({x}, line) = ordered(x)
    BY <1>1 DEF LinesOf, Orderly
  <2>2. PlacesOf({x}) = {k \in 1 .. T : Transfers[k] = x}
    BY <1>1 DEF PlacesOf
  <2>3. Cardinality(PlacesOf({x})) = Cardinality(LinesOf({x}, line))
    BY DEF Copied
  <2> QED BY <2>1, <2>2, <2>3 DEF Times
<1>4. ASSUME NEW x
      PROVE  x \in {file[n].transfer : n \in Orderly} <=> x \in {Transfers[k] : k \in 1 .. T}
  <2>1. x \in {file[n].transfer : n \in Orderly} <=> ordered(x) # {}
    OBVIOUS
  <2>2. IsFiniteSet(ordered(x))
    <3>1. LinesOf({x}, line) = ordered(x)
      BY <1>1 DEF LinesOf, Orderly
    <3> QED BY <3>1, Listed
  <2>3. ordered(x) # {} <=> Cardinality(ordered(x)) # 0
    <3> HIDE DEF ordered
    <3> QED BY <2>2, FS_EmptySet
  <2>4. x \in {Transfers[k] : k \in 1 .. T} <=> Times(x, T) > 0
    <3> HIDE DEF T
    <3> QED BY <1>1, TimesIs DEF T
  <2>5. Times(x, T) \in Nat
    <3> HIDE DEF T
    <3> QED BY <1>1, TimesIs DEF T
  <2> HIDE DEF ordered, T
  <2> QED BY <1>3, <2>1, <2>3, <2>4, <2>5
<1>5. {file[n].transfer : n \in Orderly} = {Transfers[k] : k \in 1 .. T}
  BY <1>4
<1> HIDE DEF ordered
<1> QED BY <1>2, <1>3, <1>5 DEF Owed

\* With none made, the balances are the first ones.
LEMMA NoneMade ==
  ASSUME Data, {Accounts[i].id : i \in DOMAIN Accounts} = DOMAIN Opening(file),
         \A i \in DOMAIN Accounts : Opening(file)[Accounts[i].id] \in Int
  PROVE  Settled(Len(Transfers)) = Opening(file)
<1>1. DOMAIN Transfers = 1 .. Len(Transfers) /\ Len(Transfers) \in Nat
  BY Listed
<1>2. \A id : Incoming(id, Len(Transfers)) = {} /\ Outgoing(id, Len(Transfers)) = {}
  BY <1>1 DEF Incoming, Outgoing
<1>3. SumFunctionOnSet(Worth, {}) = 0
  BY FS_EmptySet, SumSplit
<1>4. Settled(Len(Transfers)) = [id \in DOMAIN Opening(file) |-> Opening(file)[id]]
  <2>1. \A id \in DOMAIN Opening(file) : Opening(file)[id] + 0 - 0 = Opening(file)[id]
    <3>1. \A id \in DOMAIN Opening(file) : Opening(file)[id] \in Int
      OBVIOUS
    <3> QED BY <3>1
  <2> QED BY <1>2, <1>3, <2>1 DEF Settled
<1>5. Opening(file) = [id \in DOMAIN Opening(file) |-> Opening(file)[id]]
  BY DEF Opening
<1> QED BY <1>4, <1>5

\* With all made, they are the last ones.
LEMMA AllMade ==
  ASSUME Data, Copied, line = Len(file), NEW id \in DOMAIN Opening(file),
         id \in {Accounts[i].id : i \in DOMAIN Accounts}
  PROVE  Settled(0)[id] = Closing(file)[id]
<1> DEFINE R == [from : Int, to : Int, amount : Int]
           P == {x \in R : x.to = id}
           Q == {x \in R : x.from = id}
<1>1. /\ DOMAIN Transfers = 1 .. Len(Transfers) /\ Len(Transfers) \in Nat
      /\ DOMAIN file = 1 .. Len(file) /\ Len(file) \in Nat
  BY Listed
<1>2. \A k \in DOMAIN Transfers : Transfers[k] \in R /\ k > 0
  <2>1. Transfers \in Seq(R)
    BY DEF Data
  <2> HIDE DEF R
  <2> QED BY <1>1, <2>1, ElementOfSeq
<1>3. \A n \in Orderly : file[n].transfer \in R /\ n <= line
  <2>1. \A n \in DOMAIN file : file[n] \in Lines /\ n <= line
    <3>1. file \in Seq(Lines)
      BY DEF Data
    <3> QED BY <1>1, <3>1, ElementOfSeq
  <2> QED BY <2>1 DEF Orderly, Lines
<1>4. Incoming(id, 0) = PlacesOf(P) /\ Outgoing(id, 0) = PlacesOf(Q)
  <2> HIDE DEF R
  <2> QED BY <1>2 DEF Incoming, Outgoing, PlacesOf
<1>5. /\ LinesOf(P, line) = {n \in Orderly : file[n].transfer.to = id}
      /\ LinesOf(Q, line) = {n \in Orderly : file[n].transfer.from = id}
  <2> HIDE DEF R
  <2> QED BY <1>3 DEF LinesOf
<1>6. /\ SumFunctionOnSet(Worth, PlacesOf(P)) = SumFunctionOnSet(Stated, LinesOf(P, line))
      /\ SumFunctionOnSet(Worth, PlacesOf(Q)) = SumFunctionOnSet(Stated, LinesOf(Q, line))
  <2> HIDE DEF P, Q
  <2> QED BY DEF Copied
<1> HIDE DEF P, Q
<1>7. Settled(0)[id] = Opening(file)[id] + SumFunctionOnSet(Stated, LinesOf(P, line))
                         - SumFunctionOnSet(Stated, LinesOf(Q, line))
  BY <1>4, <1>6 DEF Settled
<1>8. Closing(file)[id] = Opening(file)[id] + SumFunctionOnSet(Stated, LinesOf(P, line))
                            - SumFunctionOnSet(Stated, LinesOf(Q, line))
  BY <1>5 DEF Closing, Orderly, Stated
<1> QED BY <1>7, <1>8

\* What holds at every step with one or two threads.
Serial ==
  N <= 2 =>
    /\ phase # "reading" => Popped /\ Books
    /\ phase = "printed" => \A w \in Workers : pc[w] = "done"

\* The workers are created.
LEMMA StartBooks ==
  ASSUME IInv, MoneyInv, StartWorkers
  PROVE  Popped' /\ Books' /\ Turns' = {} /\ Left' = Len(Transfers)
<1>1. /\ phase = "reading" /\ line = Len(file) /\ file \in Seq(Lines) /\ Data /\ Data'
      /\ UNCHANGED <<N, file, line, Accounts, Transfers>> /\ Workers' = Workers
      /\ finish' = Len(Transfers) /\ \A w \in Workers : pc'[w] = "loop"
  <2>1. IInv'
    BY StartStep
  <2> QED BY <2>1 DEF IInv, Data, StartWorkers, parsed, Workers
<1>2. Popped'
  BY <1>1 DEF Popped, PoppedBy, Turn
<1>3. Turns' = {} /\ Credited' = {} /\ Left' = Len(Transfers)
  BY <1>1 DEF Turns, Turn, Credited, Left
<1>4. /\ {Accounts[i].id : i \in DOMAIN Accounts} = DOMAIN Opening(file)
      /\ \A i \in DOMAIN Accounts :
           Opening(file)[Accounts[i].id] = Accounts[i].money /\ Accounts[i].money \in Int
  <2>1. \A i \in DOMAIN Accounts : Money[i] \in Int /\ Money[i] = Accounts[i].money
    BY Summed
  <2>2. DOMAIN Opening(file) = Ids(line)
    BY <1>1, OpeningIs
  <2> QED BY <1>1, <2>1, <2>2 DEF MoneyInv, ReadSoFar
<1>5. Settled(Len(Transfers)) = Opening(file)
  BY <1>1, <1>4, NoneMade
<1>6. (Settled(Left))' = Opening(file)
  BY <1>1, <1>3, <1>5, SettledKept
<1>7. \A i \in DOMAIN Accounts : Paying(i)' = 0
  BY <1>3 DEF Paying
<1>8. {Accounts'[i].id : i \in DOMAIN Accounts'} = DOMAIN (Opening(file))'
  BY <1>1, <1>4
<1>9. \A i \in DOMAIN Accounts' : (Opening(file))'[Accounts'[i].id] \in Int
  BY <1>1, <1>4
<1>10. \A i \in DOMAIN Accounts' : Accounts'[i].money - Paying(i)' = (Settled(Left))'[Accounts'[i].id]
  <2>1. \A i \in DOMAIN Accounts : Accounts[i].money - 0 = Accounts[i].money
    BY <1>4
  <2> QED BY <1>1, <1>4, <1>6, <1>7, <2>1
<1> QED BY <1>2, <1>3, <1>8, <1>9, <1>10 DEF Books

\* A step that leaves all but the phase.
LEMMA StillSerial ==
  ASSUME Popped, Books, UNCHANGED <<parsed, finish, pc, transfer, loaded>>
  PROVE  Popped' /\ Books' /\ Left' = Left /\ Credited' = Credited
<1>1. /\ Workers' = Workers /\ UNCHANGED <<file, Transfers, Accounts>>
  BY DEF Workers, parsed
<1>2. Popped'
  BY <1>1 DEF Popped, PoppedBy
<1>3. Left' = Left /\ Credited' = Credited
  BY <1>1 DEF Left, Turns, Credited
<1>4. (Settled(Left))' = Settled(Left)
  BY <1>1, <1>3, SettledKept
<1>5. \A i \in DOMAIN Accounts : Paying(i)' = Paying(i)
  BY <1>1, <1>3 DEF Paying
<1>6. \A i \in DOMAIN Accounts : Accounts'[i].money - Paying(i)' = (Settled(Left))'[Accounts[i].id]
  BY <1>1, <1>4, <1>5 DEF Books
<1>7. Books'
  BY <1>1, <1>6, BooksAfter
<1> QED BY <1>2, <1>3, <1>7

LEMMA Working ==
  ASSUME NEW w, SendMoney(w)
  PROVE  phase = "working" /\ phase' \in {"working", "exited", "undefined"} /\ N' = N
BY DEF SendMoney, LoopTest, RoomWait, SizeTest, Back, Undefined, PopLoad, PopStore, Lookup,
       WaitTo, WaitFrom, AccountWait, CreditLoad, CreditStore, DebitLoad, DebitStore,
       MoneyLoad, MoneyStore, PostFrom, PostTo, AccountPost, RoomPost, At, parsed

LEMMA SerialInvariance == Spec => []Serial
<1>1. Init => Serial
  BY DEF Init, Serial
<1>2. ASSUME IInv, MoneyInv, Distinct, Serial, [Next]_vars
      PROVE  Serial'
  <2> USE <1>2
  <2>1. CASE ReadLine
    BY <2>1 DEF ReadLine, Serial
  <2>2. CASE StartWorkers
    <3>1. phase' = "working"
      BY <2>2 DEF StartWorkers
    <3> QED BY <2>2, <3>1, StartBooks DEF Serial
  <2>3. CASE JoinAndPrint
    <3>1. /\ phase = "working" /\ phase' = "printed" /\ N' = N /\ Workers' = Workers
          /\ UNCHANGED <<parsed, finish, pc, transfer, loaded>>
          /\ \A w \in Workers : pc[w] = "done"
      BY <2>3 DEF JoinAndPrint, Workers, parsed
    <3>2. N <= 2 => Popped' /\ Books'
      BY <3>1, StillSerial DEF Serial
    <3> QED BY <3>1, <3>2 DEF Serial
  <2>4. ASSUME NEW w \in Workers, SendMoney(w)
        PROVE  Serial'
    <3>1. phase = "working" /\ phase' # "printed" /\ N' = N
      BY <2>4, Working
    <3>2. N <= 2 => Popped' /\ Books'
      BY <2>4, <3>1, PoppedStep, BooksStep DEF Serial
    <3> QED BY <3>1, <3>2 DEF Serial
  <2>5. CASE UNCHANGED vars
    <3>1. /\ phase' = phase /\ N' = N /\ Workers' = Workers /\ pc' = pc
          /\ UNCHANGED <<parsed, finish, pc, transfer, loaded>>
      BY <2>5 DEF vars, parsed, Workers
    <3>2. N <= 2 /\ phase # "reading" => Popped' /\ Books'
      BY <3>1, StillSerial DEF Serial
    <3> QED BY <3>1, <3>2 DEF Serial
  <2> QED BY <2>1, <2>2, <2>3, <2>4, <2>5 DEF Next, Main
<1> QED BY <1>1, <1>2, Invariance, MoneyInvariance, Reading, PTL DEF Spec

\* With one or two threads the balances printed are those of the file with each of its
\* transfers made exactly once, for any file.
THEOREM SerialTheorem == Spec => []SerialBalancesExpected
<1>1. ASSUME IInv, Copied, Serial
      PROVE  SerialBalancesExpected
  <2> SUFFICES ASSUME N <= 2, phase = "printed", NEW i \in DOMAIN Accounts
               PROVE  Accounts[i].money = Closing(file)[Accounts[i].id]
    BY DEF SerialBalancesExpected, BalancesExpected
  <2>1. /\ Popped /\ Books /\ line = Len(file) /\ Data
        /\ \A w \in Workers : pc[w] = "done"
    BY <1>1 DEF Serial, Copied, IInv
  <2>2. 1 \in Workers
    BY <2>1 DEF Workers, Data
  <2>3. finish = 0 /\ Turns = {} /\ Credited = {}
    BY <2>1, <2>2 DEF Popped, PoppedBy, Turns, Turn, Credited
  <2>4. Left = 0 /\ Paying(i) = 0
    BY <2>3 DEF Left, Paying
  <2>5. Accounts[i].money - 0 = Settled(0)[Accounts[i].id]
    BY <2>1, <2>4 DEF Books
  <2>6. Settled(0)[Accounts[i].id] = Closing(file)[Accounts[i].id]
    <3> DEFINE id == Accounts[i].id
    <3>1. id \in DOMAIN Opening(file) /\ id \in {Accounts[j].id : j \in DOMAIN Accounts}
      BY <2>1 DEF Books
    <3> HIDE DEF id
    <3>2. Settled(0)[id] = Closing(file)[id]
      BY <1>1, <2>1, <3>1, AllMade
    <3> QED BY <3>2 DEF id
  <2>7. Accounts[i].money \in Int
    BY <1>1, Summed
  <2> QED BY <2>5, <2>6, <2>7
<1> QED BY <1>1, Invariance, Reading, SerialInvariance, PTL

\* One transfer less is due.
LEMMA OwedStep ==
  ASSUME Data, NEW n \in 1 .. Len(Transfers)
  PROVE  Owed(n - 1) = Owed(n) (-) SetToBag({Transfers[n]})
<1> DEFINE x == Transfers[n]
           O == Owed(n)
           M == SetToBag({x})
           B == [e \in DOMAIN O |-> IF e \in DOMAIN M THEN O[e] - M[e] ELSE O[e]]
           m == n - 1
<1>1. DOMAIN M = {x} /\ M[x] = 1
  BY DEF SetToBag
<1>2. O (-) M = [e \in {d \in DOMAIN B : B[d] > 0} |-> B[e]]
  BY DEF (-)
<1>3. n \in 0 .. Len(Transfers) /\ n # 0 /\ m \in 0 .. Len(Transfers) /\ 1 .. m \subseteq 1 .. n
  BY Listed
<1>4. ASSUME NEW e
      PROVE  /\ Times(e, n) \in Nat /\ Times(e, m) \in Nat
             /\ e \in {Transfers[k] : k \in 1 .. n} <=> Times(e, n) > 0
             /\ e \in {Transfers[k] : k \in 1 .. m} <=> Times(e, m) > 0
             /\ Times(e, n) = Times(e, m) + IfAt(x = e, 1)
  <2>1. /\ Times(e, n) \in Nat
        /\ e \in {Transfers[k] : k \in 1 .. n} <=> Times(e, n) > 0
        /\ Times(e, n) = Times(e, n - 1) + IfAt(Transfers[n] = e, 1)
    BY <1>3, TimesIs
  <2> HIDE DEF m
  <2>2. /\ Times(e, m) \in Nat
        /\ e \in {Transfers[k] : k \in 1 .. m} <=> Times(e, m) > 0
    BY <1>3, TimesIs
  <2> QED BY <2>1, <2>2 DEF m
<1>5. DOMAIN O = {Transfers[k] : k \in 1 .. n} /\ \A e \in DOMAIN O : O[e] = Times(e, n)
  BY DEF Owed
<1>6. ASSUME NEW e \in DOMAIN O PROVE B[e] = Times(e, m)
  <2>1. B[e] = IF e = x THEN O[e] - 1 ELSE O[e]
    <3> HIDE DEF O, M, x
    <3> QED BY <1>1
  <2>2. O[e] = Times(e, m) + IfAt(x = e, 1) /\ Times(e, m) \in Nat
    BY <1>4, <1>5
  <2> HIDE DEF B, O, M, x, m
  <2> QED BY <2>1, <2>2 DEF IfAt
<1>7. {d \in DOMAIN B : B[d] > 0} = {Transfers[k] : k \in 1 .. m}
  <2>1. {Transfers[k] : k \in 1 .. m} \subseteq DOMAIN O
    BY <1>3, <1>5
  <2>2. DOMAIN B = DOMAIN O
    OBVIOUS
  <2>3. ASSUME NEW e
        PROVE  e \in {d \in DOMAIN B : B[d] > 0} <=> e \in {Transfers[k] : k \in 1 .. m}
    <3>1. e \in {Transfers[k] : k \in 1 .. m} <=> Times(e, m) > 0
      BY <1>4
    <3> HIDE DEF B, O, M, m
    <3> QED BY <1>6, <2>1, <2>2, <3>1
  <2> HIDE DEF B, O, M, m
  <2> QED BY <2>3
<1>8. Owed(m) = [e \in {Transfers[k] : k \in 1 .. m} |-> Times(e, m)]
  BY DEF Owed
<1>9. O (-) M = Owed(m)
  <2>1. \A e \in {Transfers[k] : k \in 1 .. m} : B[e] = Times(e, m)
    BY <1>3, <1>5, <1>6
  <2> HIDE DEF B, O, M, m
  <2> QED BY <1>2, <1>7, <1>8, <2>1
<1> QED BY <1>9 DEF m

\* What is owed depends on the vector's storage.
LEMMA OwedKept ==
  ASSUME UNCHANGED Transfers
  PROVE  (Owed(Left))' = Owed(Left')
BY DEF Owed, Times

\* The bank seen through the state, in the terms of the vector.
BankView ==
  N <= 2 /\ phase # "reading" =>
    Balance = Settled(Left) /\ Due = Owed(Left) /\ Left \in 0 .. Len(Transfers)

LEMMA BankViewInvariance == Spec => []BankView
<1>1. ASSUME IInv, Distinct, Serial
      PROVE  BankView
  <2> SUFFICES ASSUME N <= 2, phase # "reading"
               PROVE  Balance = Settled(Left) /\ Due = Owed(Left) /\ Left \in 0 .. Len(Transfers)
    BY DEF BankView
  <2>1. Popped /\ Books
    BY <1>1 DEF Serial
  <2> QED BY <1>1, <2>1, BalanceIs, DueIs
<1> QED BY <1>1, Invariance, Reading, SerialInvariance, PTL

\* The bank makes the transfer at the place n.
LEMMA Makes ==
  ASSUME Data, NEW n \in 1 .. Len(Transfers), Balance = Settled(n), Due = Owed(n),
         Balance' = Settled(n - 1), Due' = Owed(n - 1),
         {Accounts[i].id : i \in DOMAIN Accounts} = DOMAIN Opening(file),
         \A i \in DOMAIN Accounts : Opening(file)[Accounts[i].id] \in Int,
         {Transfers[n].to, Transfers[n].from} \subseteq {Accounts[i].id : i \in DOMAIN Accounts},
         Transfers[n].to # Transfers[n].from
  PROVE  Bank!Next
<1> DEFINE x == Transfers[n]
           a == x.amount
           ids == {Accounts[i].id : i \in DOMAIN Accounts}
           b == Settled(n)
           c == Settled(n - 1)
<1>1. x \in DOMAIN Due
  <2>1. n \in 1 .. n
    BY Listed
  <2> QED BY <2>1 DEF Owed
<1>2. x \in Bank!BagToSet(Due) /\ Bank!BagIn(x, Due)
  BY <1>1 DEF Bank!BagToSet, Bank!BagIn
<1>3. Due' = Bank!(-)(Due, Bank!SetToBag({x}))
  <2> DEFINE O == Owed(n)
             M == SetToBag({x})
  <2>1. Due' = O (-) M /\ Due = O
    BY OwedStep
  <2>2. Bank!SetToBag({x}) = M
    BY DEF SetToBag, Bank!SetToBag
  <2> HIDE DEF O, M
  <2>3. Bank!(-)(O, M) = O (-) M
    BY DEF (-), Bank!(-)
  <2> QED BY <2>1, <2>2, <2>3
<1>4. DOMAIN b = ids /\ c = [id \in ids |-> c[id]] /\ b = [id \in ids |-> b[id]]
  BY DEF Settled
<1>5. ASSUME NEW id \in ids
      PROVE  b[id] \in Int /\ a \in Int /\ c[id] = b[id] + IfAt(x.to = id, a) - IfAt(x.from = id, a)
  <2>1. Opening(file)[id] \in Int
    OBVIOUS
  <2> QED BY <2>1, SettledStep
<1> DEFINE e == [b EXCEPT ![x.to] = @ + a, ![x.from] = @ - a]
<1>6. ASSUME NEW id \in ids PROVE c[id] = e[id]
  <2>1. e[id] = IF id = x.from THEN b[id] - a ELSE IF id = x.to THEN b[id] + a ELSE b[id]
    <3> HIDE DEF b, x, a, ids
    <3> QED BY <1>4 DEF x, ids
  <2>2. x.to # x.from
    OBVIOUS
  <2> HIDE DEF e, b, c, x, a, ids
  <2> QED BY <1>5, <2>1, <2>2 DEF IfAt
<1>7. c = e
  <2>1. DOMAIN e = ids /\ e = [id \in ids |-> e[id]]
    <3> HIDE DEF b, ids
    <3> QED BY <1>4
  <2> HIDE DEF e, b, c, ids
  <2> QED BY <1>4, <1>6, <2>1
<1>8. Bank!Make(x)
  BY <1>2, <1>3, <1>4, <1>7 DEF Bank!Make
<1> QED BY <1>2, <1>8 DEF Bank!Next

\* A step that keeps the transfers and the ids, in the terms of the vector.
LEMMA BankSeen ==
  ASSUME BankView, BankView', N <= 2, N' = N, phase # "reading", phase' # "reading",
         UNCHANGED <<file, Transfers>>, DOMAIN Accounts' = DOMAIN Accounts,
         \A i \in DOMAIN Accounts : Accounts'[i].id = Accounts[i].id
  PROVE  /\ Balance = Settled(Left) /\ Due = Owed(Left)
         /\ Balance' = Settled(Left') /\ Due' = Owed(Left')
<1>1. Balance = Settled(Left) /\ Due = Owed(Left)
  BY DEF BankView
<1>2. Balance' = (Settled(Left))' /\ Due' = (Owed(Left))'
  BY DEF BankView
<1> QED BY <1>1, <1>2, SettledKept, OwedKept

\* A worker's step, seen as the bank's: what is debited is a transfer that is made.
LEMMA BankWork ==
  ASSUME IInv, MoneyInv, Distinct, Serial, BankView, BankView', N <= 2,
         NEW w \in Workers, SendMoney(w)
  PROVE  Bank!Next \/ UNCHANGED <<Balance, Due>>
<1>1. /\ phase = "working" /\ phase' # "reading" /\ N' = N /\ Popped /\ Books
      /\ Data
  BY Working DEF Serial, IInv
<1>2. /\ ~ DebitStore(w) => Left' = Left
      /\ DebitStore(w) => Left = finish + 1 /\ Left' = finish
      /\ UNCHANGED <<file, Transfers>>
  BY <1>1, PoppedStep
<1>3. ASSUME CreditStore(w) \/ DebitStore(w)
      PROVE  /\ To(w) \in DOMAIN Accounts /\ From(w) \in DOMAIN Accounts /\ To(w) # From(w)
             /\ Accounts[To(w)].id = transfer[w].to /\ Accounts[From(w)].id = transfer[w].from
             /\ transfer[w] = Transfers[finish + 1] /\ finish + 1 \in 1 .. Len(Transfers)
  <2>1. pc[w] \in {"credit store", "debit store"}
    BY <1>3 DEF CreditStore, DebitStore, At
  <2>2. To(w) \in DOMAIN Accounts /\ From(w) \in DOMAIN Accounts /\ To(w) # From(w)
    BY <2>1 DEF IInv, Hands, OnAccounts, Credits
  <2>3. Accounts[To(w)].id = transfer[w].to /\ Accounts[From(w)].id = transfer[w].from
    BY <1>1, <2>2, Indexed DEF To, From
  <2>4. transfer[w] = Transfers[finish + 1] /\ finish < Len(Transfers)
    BY <1>1, <2>1 DEF Popped, PoppedBy, Turn
  <2>5. finish \in 0 .. Len(Transfers) /\ Len(Transfers) \in Nat
    BY <1>1, Listed DEF Data
  <2> QED BY <2>2, <2>3, <2>4, <2>5
<1>4. /\ DOMAIN Accounts' = DOMAIN Accounts
      /\ \A i \in DOMAIN Accounts : Accounts'[i].id = Accounts[i].id
  <2>1. CASE ~ CreditStore(w) /\ ~ DebitStore(w)
    BY <2>1 DEF SendMoney, LoopTest, RoomWait, SizeTest, Back, PopLoad, PopStore, Lookup,
                WaitTo, WaitFrom, AccountWait, CreditLoad, DebitLoad, MoneyLoad,
                PostFrom, PostTo, AccountPost, RoomPost, parsed
  <2>2. CASE CreditStore(w) \/ DebitStore(w)
    BY <1>3, <2>2, Stored DEF CreditStore, DebitStore
  <2> QED BY <2>1, <2>2
<1>5. /\ Balance = Settled(Left) /\ Due = Owed(Left)
      /\ Balance' = Settled(Left') /\ Due' = Owed(Left')
  BY <1>1, <1>2, <1>4, BankSeen
<1>6. CASE ~ DebitStore(w)
  BY <1>2, <1>5, <1>6
<1>7. CASE DebitStore(w)
  <2> DEFINE n == finish + 1
  <2>1. /\ n \in 1 .. Len(Transfers) /\ Balance = Settled(n) /\ Due = Owed(n)
        /\ Balance' = Settled(n - 1) /\ Due' = Owed(n - 1)
    <3>1. finish \in 0 .. Len(Transfers) /\ Len(Transfers) \in Nat
      BY <1>1, Listed DEF Data
    <3>2. n - 1 = finish
      BY <3>1
    <3> QED BY <1>2, <1>3, <1>5, <1>7, <3>2
  <2>2. /\ {Transfers[n].to, Transfers[n].from} \subseteq {Accounts[i].id : i \in DOMAIN Accounts}
        /\ Transfers[n].to # Transfers[n].from
    <3>1. \A i, j \in DOMAIN Accounts : Accounts[i].id = Accounts[j].id => i = j
      BY DEF Distinct
    <3> QED BY <1>3, <1>7, <3>1
  <2>3. /\ {Accounts[i].id : i \in DOMAIN Accounts} = DOMAIN Opening(file)
        /\ \A i \in DOMAIN Accounts : Opening(file)[Accounts[i].id] \in Int
    BY <1>1 DEF Books
  <2> HIDE DEF n
  <2> QED BY <1>1, <2>1, <2>2, <2>3, Makes
<1> QED BY <1>6, <1>7

\* The file, as the bank sees it.
LEMMA SameFile ==
  ASSUME NEW f
  PROVE  Bank!Opening(f) = Opening(f) /\ Bank!Orders(f) = Orders(f)
<1>1. \A S : Bank!Min(S) = Min(S)
  BY DEF Min, Bank!Min
<1>2. Bank!Opening(f) = Opening(f)
  BY <1>1 DEF Opening, Bank!Opening
<1>3. Bank!Orders(f) = Orders(f)
  <2>1. \A S : Bank!Cardinality(S) = Cardinality(S)
    BY DEF Cardinality, Bank!Cardinality
  <2> QED BY <2>1 DEF Orders, Bank!Orders
<1> QED BY <1>2, <1>3

\* With one or two threads the program implements the bank: as long as it runs, the
\* balances and the transfers that are due change only by a whole transfer of the file,
\* made at once, and no transfer is made twice or lost.
THEOREM BankTheorem == Spec => ImplementsBank
<1>1. Init => Bank!Init
  <2> SUFFICES ASSUME Init PROVE Bank!Init
    OBVIOUS
  <2>1. PICK a \in Arguments : N = a.threads /\ file = a.file
    BY DEF Init
  <2>2. Balance = Opening(file) /\ Due = Orders(file)
    BY DEF Init, Balance, Due
  <2>3. file \in {b.file : b \in Arguments}
    BY <2>1
  <2> QED BY <2>2, <2>3, SameFile DEF Bank!Init
<1>2. ASSUME IInv, MoneyInv, Distinct, Copied, Serial, BankView, BankView', [Next]_vars
      PROVE  [N > 2 \/ Bank!Next]_<<Balance, Due>>
  <2> SUFFICES ASSUME ~ (N > 2)
               PROVE  Bank!Next \/ UNCHANGED <<Balance, Due>>
    OBVIOUS
  <2> USE <1>2
  <2>1. N <= 2 /\ Data
    BY DEF IInv, Data
  <2>2. CASE ReadLine
    <3>1. phase = "reading" /\ phase' = "reading" /\ file' = file
      BY <2>2 DEF ReadLine
    <3>2. UNCHANGED Balance
      BY <3>1 DEF Balance
    <3>3. UNCHANGED Due
      BY <3>1 DEF Due
    <3> QED BY <3>2, <3>3
  <2>3. CASE StartWorkers
    <3>1. /\ phase = "reading" /\ phase' = "working" /\ N' = N /\ line = Len(file)
          /\ UNCHANGED <<file, Accounts, Transfers>>
      BY <2>3 DEF StartWorkers, parsed
    <3>2. Books' /\ Left' = Len(Transfers)
      BY <2>3, StartBooks
    <3>3. /\ {Accounts[i].id : i \in DOMAIN Accounts} = DOMAIN Opening(file)
          /\ \A i \in DOMAIN Accounts : Opening(file)[Accounts[i].id] \in Int
      BY <3>1, <3>2 DEF Books
    <3>4. Balance' = Opening(file)
      <4>1. Balance' = (Settled(Left))'
        BY <2>1, <3>1 DEF BankView
      <4> QED BY <2>1, <3>1, <3>2, <3>3, <4>1, SettledKept, NoneMade
    <3>5. Due' = Orders(file)
      <4>1. Due' = (Owed(Left))'
        BY <2>1, <3>1 DEF BankView
      <4> QED BY <2>1, <3>1, <3>2, <4>1, OwedKept, AllDue
    <3>6. Balance = Opening(file) /\ Due = Orders(file)
      BY <3>1 DEF Balance, Due
    <3> QED BY <3>4, <3>5, <3>6
  <2>4. CASE JoinAndPrint \/ UNCHANGED vars
    <3>1. CASE phase = "reading"
      <4>1. phase' = "reading" /\ file' = file
        BY <2>4, <3>1 DEF JoinAndPrint, vars, parsed
      <4>2. UNCHANGED Balance
        BY <3>1, <4>1 DEF Balance
      <4>3. UNCHANGED Due
        BY <3>1, <4>1 DEF Due
      <4> QED BY <4>2, <4>3
    <3>2. CASE phase # "reading"
      <4>1. /\ UNCHANGED <<parsed, finish, pc, transfer, loaded>> /\ phase' # "reading"
            /\ UNCHANGED <<N, file, Accounts, Transfers>>
        BY <2>4, <3>2 DEF JoinAndPrint, vars, parsed
      <4>2. Left' = Left
        BY <2>1, <3>2, <4>1, StillSerial DEF Serial
      <4> QED BY <2>1, <3>2, <4>1, <4>2, BankSeen
    <3> QED BY <3>1, <3>2
  <2>5. ASSUME NEW w \in Workers, SendMoney(w)
        PROVE  Bank!Next \/ UNCHANGED <<Balance, Due>>
    BY <2>1, <2>5, BankWork
  <2> QED BY <2>2, <2>3, <2>4, <2>5 DEF Next, Main
<1> QED BY <1>1, <1>2, Invariance, MoneyInvariance, Reading, SerialInvariance,
           BankViewInvariance, PTL DEF Spec, ImplementsBank
=============================================================================
