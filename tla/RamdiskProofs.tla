--------------------------- MODULE RamdiskProofs ---------------------------
(***************************************************************************)
(* Theorems about Ramdisk for any threads, files, sizes and bytes.         *)
(***************************************************************************)
EXTENDS Ramdisk, SequenceTheorems, TLAPS

Labels == {"user", "entering", "queued", "locked", "leaving", "dead"}

\* The semaphore's part of the types, with its accounts: the two are inductive
\* together, since up hands the semaphore to the head of the queue.
Lock ==
  /\ pc \in [Threads -> Labels]
  /\ sem \in {0, 1} /\ queue \in Seq(Threads) /\ lost \in BOOLEAN
  /\ SemaphoreAccounted

\* t goes to l; the others stay, but for one that is handed the semaphore.
Moves(t, l) ==
  /\ pc'[t] = l
  /\ \A u \in Threads \ {t} :
       \/ pc'[u] = pc[u]
       \/ pc[u] = "queued" /\ pc'[u] = "locked"

-----------------------------------------------------------------------------
\* The semaphore.

\* A call comes in without the semaphore.
LEMMA EnterLock ==
  ASSUME Lock, NEW t \in Threads, NEW c, Enter(t, c)
  PROVE  Lock' /\ pc'[t] = "entering" /\ \A u \in Threads \ {t} : pc'[u] = pc[u]
<1>1. /\ pc' = [pc EXCEPT ![t] = "entering"] /\ pc[t] = "user"
      /\ sem' = sem /\ queue' = queue /\ lost' = lost
  BY DEF Enter, lock
<1> QED BY <1>1 DEF Lock, SemaphoreAccounted, Labels

\* A call takes the free semaphore or joins the queue.
LEMMA DownLock ==
  ASSUME Lock, NEW t \in Threads, Down(t)
  PROVE  Lock' /\ pc'[t] \in {"locked", "queued"} /\ \A u \in Threads \ {t} : pc'[u] = pc[u]
<1>1. CASE sem > 0
  BY <1>1 DEF Lock, Down, SemaphoreAccounted, Labels
<1>2. CASE sem = 0
  <2>1. /\ queue' = Append(queue, t) /\ queue' \in Seq(Threads)
        /\ Len(queue') = Len(queue) + 1 /\ DOMAIN queue' = 1 .. Len(queue) + 1
        /\ queue'[Len(queue) + 1] = t
        /\ \A i \in 1 .. Len(queue) : queue'[i] = queue[i]
        /\ DOMAIN queue = 1 .. Len(queue) /\ Len(queue) \in Nat
    <3>1. queue' = Append(queue, t) /\ queue \in Seq(Threads)
      BY <1>2 DEF Lock, Down
    <3>2. /\ queue' \in Seq(Threads) /\ Len(queue') = Len(queue) + 1
          /\ \A i \in 1 .. Len(queue) : queue'[i] = queue[i]
          /\ queue'[Len(queue) + 1] = t
      BY <3>1, AppendProperties
    <3>3. DOMAIN queue = 1 .. Len(queue) /\ Len(queue) \in Nat
      BY <3>1, LenProperties
    <3>4. DOMAIN queue' = 1 .. Len(queue')
      BY <3>2, LenProperties
    <3> QED BY <3>1, <3>2, <3>3, <3>4
  <2>2. /\ pc' = [pc EXCEPT ![t] = "queued"] /\ sem' = sem /\ lost' = lost
        /\ pc[t] = "entering"
    BY <1>2 DEF Down
  <2>3. \A u \in Threads : pc'[u] = "queued" <=> \E i \in DOMAIN queue' : queue'[i] = u
    BY <2>1, <2>2 DEF Lock, SemaphoreAccounted
  <2>4. \A i, j \in DOMAIN queue' : queue'[i] = queue'[j] => i = j
    BY <2>1, <2>2 DEF Lock, SemaphoreAccounted
  <2> QED BY <1>2, <2>1, <2>2, <2>3, <2>4 DEF Lock, SemaphoreAccounted, Labels
<1> QED BY <1>1, <1>2 DEF Lock

\* A signal takes one thread out of the queue.
LEMMA InterruptedLock ==
  ASSUME Lock, NEW t \in Threads, Interrupted(t)
  PROVE  Lock' /\ Moves(t, "user")
<1>1. PICK i \in DOMAIN queue : queue[i] = t /\ queue' = Without(queue, i)
  BY DEF Interrupted
<1>2. /\ Len(queue) \in Nat \ {0} /\ DOMAIN queue = 1 .. Len(queue)
      /\ DOMAIN queue' = 1 .. Len(queue) - 1
      /\ \A k \in DOMAIN queue' : queue'[k] = IF k < i THEN queue[k] ELSE queue[k + 1]
  BY <1>1, LenProperties DEF Lock, Without
<1>3. queue' \in Seq(Threads)
  <2>1. \A k \in 1 .. Len(queue) : queue[k] \in Threads
    BY ElementOfSeq DEF Lock
  <2>2. queue' \in [1 .. Len(queue) - 1 -> Threads]
    BY <1>1, <1>2, <2>1 DEF Without
  <2> QED BY <1>2, <2>2, SeqDef
<1>4. /\ pc' = [pc EXCEPT ![t] = "user"] /\ sem' = sem /\ lost' = lost /\ pc[t] = "queued"
  BY DEF Interrupted
<1>5. \A u \in Threads : pc'[u] = "queued" <=> \E k \in DOMAIN queue' : queue'[k] = u
  <2>1. ASSUME NEW u \in Threads, pc'[u] = "queued"
        PROVE  \E k \in DOMAIN queue' : queue'[k] = u
    <3>1. PICK j \in DOMAIN queue : queue[j] = u /\ j # i
      BY <1>1, <1>4, <2>1 DEF Lock, SemaphoreAccounted
    <3>2. CASE j < i
      BY <1>1, <1>2, <3>1, <3>2
    <3>3. CASE j > i
      <4>1. j - 1 \in DOMAIN queue' /\ ~(j - 1 < i)
        BY <1>1, <1>2, <3>1, <3>3
      <4> QED BY <1>2, <3>1, <4>1
    <3> QED BY <1>1, <1>2, <3>1, <3>2, <3>3
  <2>2. ASSUME NEW u \in Threads, NEW k \in DOMAIN queue', queue'[k] = u
        PROVE  pc'[u] = "queued"
    <3>1. PICK j \in DOMAIN queue : queue[j] = u /\ j # i
      BY <1>1, <1>2, <2>2
    <3>2. pc[u] = "queued" /\ u # t
      BY <1>1, <3>1 DEF Lock, SemaphoreAccounted
    <3> QED BY <1>4, <3>2 DEF Lock
  <2> QED BY <2>1, <2>2
<1>6. \A k, j \in DOMAIN queue' : queue'[k] = queue'[j] => k = j
  <2> SUFFICES ASSUME NEW k \in DOMAIN queue', NEW j \in DOMAIN queue', queue'[k] = queue'[j]
               PROVE  k = j
    OBVIOUS
  <2> DEFINE at(x) == IF x < i THEN x ELSE x + 1
  <2>1. at(k) \in DOMAIN queue /\ at(j) \in DOMAIN queue /\ queue[at(k)] = queue[at(j)]
    BY <1>1, <1>2
  <2>2. at(k) = at(j)
    BY <2>1 DEF Lock, SemaphoreAccounted
  <2> QED BY <1>1, <1>2, <2>2
<1>7. queue # <<>>
  BY <1>1, <1>2
<1>8. /\ \A u, v \in Threads : pc'[u] = "locked" /\ pc'[v] = "locked" => u = v
      /\ sem' = 1 <=> ~lost' /\ \A u \in Threads : pc'[u] # "locked"
      /\ lost' => \A u \in Threads : pc'[u] # "locked"
      /\ sem' = 0
  BY <1>4, <1>7 DEF Lock, SemaphoreAccounted
<1> QED BY <1>3, <1>4, <1>5, <1>6, <1>8 DEF Lock, SemaphoreAccounted, Labels, Moves

\* up frees the semaphore, or hands it to the head of the queue.
LEMMA UpLock ==
  ASSUME Lock, NEW t \in Threads, NEW l \in {"user", "leaving"}, pc[t] = "locked", Up(t, l)
  PROVE  Lock' /\ Moves(t, l)
<1>1. CASE queue = <<>>
  <2>1. \A u \in Threads : pc[u] # "queued"
    BY <1>1, EmptySeq DEF Lock, SemaphoreAccounted
  <2>2. sem = 0 /\ ~lost
    BY DEF Lock, SemaphoreAccounted
  <2>3. sem' = 1 /\ lost' = lost /\ queue' = queue /\ pc' = [pc EXCEPT ![t] = l]
    BY <1>1, <2>2 DEF Up
  <2>4. \A u \in Threads : pc'[u] # "locked" /\ pc'[u] # "queued"
    BY <2>1, <2>3 DEF Lock, SemaphoreAccounted
  <2>5. DOMAIN queue' = {}
    BY <1>1, <2>3
  <2> QED BY <1>1, <2>2, <2>3, <2>4, <2>5 DEF Lock, SemaphoreAccounted, Labels, Moves
<1>2. CASE queue # <<>>
  <2>1. /\ queue' = Tail(queue) /\ pc' = [pc EXCEPT ![t] = l, ![Head(queue)] = "locked"]
        /\ sem' = sem /\ lost' = lost
    BY <1>2 DEF Up
  <2>2. /\ Head(queue) \in Threads /\ Tail(queue) \in Seq(Threads) /\ Head(queue) = queue[1]
        /\ Len(queue) \in Nat \ {0} /\ DOMAIN queue = 1 .. Len(queue)
        /\ DOMAIN queue' = 1 .. Len(queue) - 1
        /\ \A k \in DOMAIN queue' : queue'[k] = queue[k + 1]
    <3>1. /\ Head(queue) \in Threads /\ Tail(queue) \in Seq(Threads)
          /\ Len(Tail(queue)) = Len(queue) - 1
          /\ \A k \in 1 .. Len(Tail(queue)) : Tail(queue)[k] = queue[k + 1]
      BY <1>2, HeadTailProperties DEF Lock
    <3>2. /\ Len(queue) \in Nat \ {0} /\ DOMAIN queue = 1 .. Len(queue)
          /\ DOMAIN queue' = 1 .. Len(queue')
      BY <1>2, <2>1, <3>1, LenProperties, EmptySeq DEF Lock
    <3>3. Head(queue) = queue[1]
      OBVIOUS
    <3> QED BY <2>1, <3>1, <3>2, <3>3
  <2>3. pc[Head(queue)] = "queued" /\ Head(queue) # t
    BY <2>2 DEF Lock, SemaphoreAccounted
  <2>4. /\ pc'[t] = l /\ pc'[Head(queue)] = "locked"
        /\ \A u \in Threads \ {t, Head(queue)} : pc'[u] = pc[u]
        /\ pc' \in [Threads -> Labels]
    BY <2>1, <2>2, <2>3 DEF Lock, Labels
  <2>5. sem = 0 /\ ~lost /\ \A u \in Threads : pc[u] = "locked" => u = t
    BY DEF Lock, SemaphoreAccounted
  <2>6. \A u \in Threads : pc'[u] = "queued" <=> \E k \in DOMAIN queue' : queue'[k] = u
    <3>1. ASSUME NEW u \in Threads, pc'[u] = "queued"
          PROVE  \E k \in DOMAIN queue' : queue'[k] = u
      <4>1. PICK j \in DOMAIN queue : queue[j] = u /\ j # 1
        BY <2>2, <2>4, <3>1 DEF Lock, SemaphoreAccounted
      <4>2. j - 1 \in DOMAIN queue' /\ queue'[j - 1] = queue[j - 1 + 1]
        BY <2>2, <4>1
      <4> QED BY <2>2, <4>1, <4>2
    <3>2. ASSUME NEW u \in Threads, NEW k \in DOMAIN queue', queue'[k] = u
          PROVE  pc'[u] = "queued"
      <4>1. k + 1 \in DOMAIN queue /\ queue[k + 1] = u /\ k + 1 # 1
        BY <2>2, <3>2
      <4>2. pc[u] = "queued" /\ u # Head(queue)
        BY <2>2, <4>1 DEF Lock, SemaphoreAccounted
      <4> QED BY <2>4, <4>2
    <3> QED BY <3>1, <3>2
  <2>7. \A i, j \in DOMAIN queue' : queue'[i] = queue'[j] => i = j
    <3> SUFFICES ASSUME NEW i \in DOMAIN queue', NEW j \in DOMAIN queue', queue'[i] = queue'[j]
                 PROVE  i = j
      OBVIOUS
    <3>1. i + 1 \in DOMAIN queue /\ j + 1 \in DOMAIN queue /\ queue[i + 1] = queue[j + 1]
      BY <2>2
    <3>2. i + 1 = j + 1
      BY <3>1 DEF Lock, SemaphoreAccounted
    <3> QED BY <2>2, <3>2
  <2>8. Lock'
    BY <2>1, <2>2, <2>4, <2>5, <2>6, <2>7 DEF Lock, SemaphoreAccounted
  <2> QED BY <2>2, <2>3, <2>4, <2>8 DEF Moves
<1> QED BY <1>1, <1>2

\* A thread that keeps the semaphore for ever.
LEMMA NoUpLock ==
  ASSUME Lock, NEW t \in Threads, NEW l \in {"user", "dead"}, pc[t] = "locked", NoUp(t, l)
  PROVE  Lock' /\ Moves(t, l)
BY DEF Lock, SemaphoreAccounted, NoUp, lock, Labels, Moves

-----------------------------------------------------------------------------
\* The types.

Store == buffer_size \in Nat \ {0} /\ (data = NULL \/ data \in [0 .. buffer_size - 1 -> Nat])
Filp == f_pos \in [Files -> Nat] /\ stale \subseteq Files /\ sound \in BOOLEAN
Calls ==
  /\ call \in [Threads -> CallTypes]
  /\ \A t \in Threads : pc[t] = "user" <=> call[t] = NoCall
  /\ \A t \in Threads : pc[t] = "leaving" => call[t].op \in {"read", "write"}

\* The types and the accounts are these parts, before a step and after it.
LEMMA Parts == TypeOK /\ SemaphoreAccounted <=> Lock /\ Store /\ Filp /\ Calls
BY DEF TypeOK, Lock, Store, Filp, Calls, Labels

LEMMA NextParts == Lock' /\ Store' /\ Filp' /\ Calls' => TypeOK' /\ SemaphoreAccounted'
BY DEF TypeOK, Lock, Store, Filp, Calls, Labels

\* The fields of a call, from its operation.
LEMMA Fields ==
  ASSUME NEW c \in CallTypes, c.op # "none"
  PROVE  /\ c.file \in Files /\ c # NoCall
         /\ c.op \in {"lseek", "read", "write"} => c.pos \in Nat
         /\ c.op \in {"read", "write"} => c.count \in Nat /\ c.old \in BOOLEAN
         /\ c.op = "write" => c.byte \in Bytes
BY DEF CallTypes, NoCall

\* The calls of the other threads stay when one goes on at l, with the call c.
LEMMA CallsStep ==
  ASSUME Calls, Lock, NEW t \in Threads, NEW l \in Labels, Moves(t, l),
         NEW c \in CallTypes, l = "user" <=> c = NoCall,
         l = "leaving" => c.op \in {"read", "write"},
         call' = [call EXCEPT ![t] = c]
  PROVE  Calls'
<1>1. call' \in [Threads -> CallTypes]
  BY DEF Calls
<1>2. call'[t] = c /\ \A u \in Threads \ {t} : call'[u] = call[u]
  BY DEF Calls
<1>3. \A u \in Threads : pc'[u] = "user" <=> call'[u] = NoCall
  BY <1>2 DEF Calls, Moves
<1>4. \A u \in Threads : pc'[u] = "leaving" => call'[u].op \in {"read", "write"}
  BY <1>2 DEF Calls, Moves
<1> QED BY <1>1, <1>3, <1>4 DEF Calls

\* NoCall is the call of a thread in user space.
LEMMA LeaveCalls ==
  ASSUME Calls, Lock, NEW t \in Threads, Moves(t, "user"), Leave(t)
  PROVE  Calls'
BY CallsStep DEF Leave, CallTypes, Labels

LEMMA InitTypes == Init => TypeOK /\ SemaphoreAccounted
<1> SUFFICES ASSUME Init PROVE Lock /\ Store /\ Filp /\ Calls
  BY Parts
<1>1. queue = <<>> /\ queue \in Seq(Threads) /\ DOMAIN queue = {}
  BY EmptySeq DEF Init
<1>2. Lock
  BY <1>1 DEF Init, Lock, Labels, SemaphoreAccounted
<1>3. Store
  BY RamdiskAssumption DEF Init, Store, Kzalloc, Zeros
<1>4. Filp /\ Calls
  BY DEF Init, Filp, Calls, CallTypes, NoCall
<1> QED BY <1>2, <1>3, <1>4

\* A call comes in with its arguments.
LEMMA EnterTypes ==
  ASSUME TypeOK, SemaphoreAccounted, NEW t \in Threads,
         NEW c \in CallTypes, c.op # "none", Enter(t, c)
  PROVE  TypeOK' /\ SemaphoreAccounted'
<1>1. Lock /\ Store /\ Filp /\ Calls
  BY Parts
<1>2. Lock' /\ pc'[t] = "entering" /\ \A u \in Threads \ {t} : pc'[u] = pc[u]
  BY <1>1, EnterLock
<1>3. Store' /\ Filp'
  BY <1>1 DEF Enter, device, Store, Filp
<1>4. Calls'
  BY <1>1, <1>2, CallsStep, Fields DEF Enter, Moves, Labels
<1> QED BY <1>2, <1>3, <1>4, NextParts

\* What the user passes has its type.
LEMMA CallTypesStep ==
  ASSUME TypeOK, SemaphoreAccounted, NEW t \in Threads, Call(t)
  PROVE  TypeOK' /\ SemaphoreAccounted'
<1> USE RamdiskAssumption
<1>1. CASE CallSeek(t)
  <2>1. PICK f \in Files, off \in Offsets, pos \in 0 .. MaxPosition :
          Enter(t, [op |-> "lseek", file |-> f, pos |-> pos])
    BY <1>1 DEF CallSeek
  <2>2. [op |-> "lseek", file |-> f, pos |-> pos] \in CallTypes
    BY <2>1 DEF CallTypes
  <2> QED BY <2>1, <2>2, EnterTypes
<1>2. CASE CallRead(t)
  <2>1. PICK f \in Files, n \in Counts :
          Enter(t, [op |-> "read", file |-> f, pos |-> f_pos[f], count |-> n,
                    old |-> f \in stale])
    BY <1>2 DEF CallRead
  <2>2. f_pos[f] \in Nat /\ n \in Nat /\ (f \in stale) \in BOOLEAN
    BY DEF TypeOK
  <2>3. [op |-> "read", file |-> f, pos |-> f_pos[f], count |-> n, old |-> f \in stale]
          \in CallTypes
    BY <2>2 DEF CallTypes
  <2> QED BY <2>1, <2>3, EnterTypes
<1>3. CASE CallWrite(t)
  <2>1. PICK f \in Files, n \in Counts, b \in Bytes :
          Enter(t, [op |-> "write", file |-> f, pos |-> f_pos[f], count |-> n,
                    byte |-> b, old |-> f \in stale])
    BY <1>3 DEF CallWrite
  <2>2. f_pos[f] \in Nat /\ n \in Nat /\ (f \in stale) \in BOOLEAN
    BY DEF TypeOK
  <2>3. [op |-> "write", file |-> f, pos |-> f_pos[f], count |-> n, byte |-> b,
         old |-> f \in stale] \in CallTypes
    BY <2>2 DEF CallTypes
  <2> QED BY <2>1, <2>3, EnterTypes
<1>4. CASE CallIoctl(t)
  <2>1. PICK f \in Files, cmd \in {"clear", "unknown"} : Enter(t, [op |-> cmd, file |-> f])
    BY <1>4 DEF CallIoctl
  <2>2. [op |-> cmd, file |-> f] \in CallTypes
    BY DEF CallTypes
  <2> QED BY <2>1, <2>2, EnterTypes
<1> QED BY <1>1, <1>2, <1>3, <1>4 DEF Call

LEMMA DownTypes ==
  ASSUME TypeOK, SemaphoreAccounted, NEW t \in Threads, Down(t)
  PROVE  TypeOK' /\ SemaphoreAccounted'
<1>1. Lock /\ Store /\ Filp /\ Calls
  BY Parts
<1>2. /\ Lock' /\ pc[t] = "entering" /\ pc'[t] \in {"locked", "queued"}
      /\ \A u \in Threads \ {t} : pc'[u] = pc[u]
  BY <1>1, DownLock DEF Down
<1>3. Store' /\ Filp'
  BY <1>1 DEF Down, device, Store, Filp
<1>4. Calls'
  BY <1>1, <1>2 DEF Down, Calls
<1> QED BY <1>2, <1>3, <1>4, NextParts

\* The ways back to user space.
LEMMA ReturnTypes ==
  ASSUME TypeOK, SemaphoreAccounted, NEW t \in Threads, Return(t)
  PROVE  TypeOK' /\ SemaphoreAccounted'
<1>1. Lock /\ Store /\ Filp /\ Calls
  BY Parts
<1>2. /\ pc[t] = "leaving" /\ pc' = [pc EXCEPT ![t] = "user"]
      /\ sem' = sem /\ queue' = queue /\ lost' = lost
  BY DEF Return, lock
<1>3. Lock' /\ Moves(t, "user")
  BY <1>1, <1>2 DEF Lock, SemaphoreAccounted, Labels, Moves
<1>4. call[t].file \in Files /\ call[t].pos \in Nat
  BY <1>1, <1>2, Fields DEF Calls
<1>5. Store' /\ Filp'
  BY <1>1, <1>4 DEF Return, device, Store, Filp
<1>6. Calls'
  BY <1>1, <1>3, LeaveCalls DEF Return, Leave
<1> QED BY <1>3, <1>5, <1>6, NextParts

LEMMA InterruptedTypes ==
  ASSUME TypeOK, SemaphoreAccounted, NEW t \in Threads, Interrupted(t)
  PROVE  TypeOK' /\ SemaphoreAccounted'
<1>1. Lock /\ Store /\ Filp /\ Calls
  BY Parts
<1>2. Lock' /\ Moves(t, "user")
  BY <1>1, InterruptedLock
<1>3. Store' /\ Filp'
  BY <1>1 DEF Interrupted, device, Store, Filp
<1>4. Calls'
  BY <1>1, <1>2, LeaveCalls DEF Interrupted, Leave
<1> QED BY <1>2, <1>3, <1>4, NextParts

\* A body that ends with up leaves the lock and the calls in order.
LEMMA UpUser ==
  ASSUME Lock, Calls, NEW t \in Threads, pc[t] = "locked", Up(t, "user"), Leave(t)
  PROVE  Lock' /\ Calls'
BY UpLock, LeaveCalls

LEMMA UpLeaving ==
  ASSUME Lock, Calls, NEW t \in Threads, pc[t] = "locked", Up(t, "leaving"),
         NEW c \in CallTypes, c.op \in {"read", "write"}, call' = [call EXCEPT ![t] = c]
  PROVE  Lock' /\ Calls'
<1>1. Lock' /\ Moves(t, "leaving")
  BY UpLock
<1>2. c # NoCall
  BY Fields
<1> QED BY <1>1, <1>2, CallsStep DEF Labels

\* The call after the position moved.
LEMMA MovedCall ==
  ASSUME Calls, NEW t \in Threads, call[t].op \in {"read", "write"}, NEW n \in Nat, Moved(t, n)
  PROVE  /\ [call[t] EXCEPT !.pos = @ + n, !.old = FALSE] \in CallTypes
         /\ [call[t] EXCEPT !.pos = @ + n, !.old = FALSE].op = call[t].op
         /\ call' = [call EXCEPT ![t] = [call[t] EXCEPT !.pos = @ + n, !.old = FALSE]]
<1> DEFINE c == call[t]
<1>1. c \in CallTypes /\ call \in [Threads -> CallTypes]
  BY DEF Calls
<1>2. \/ c \in [op : {"read"}, file : Files, pos : Nat, count : Nat, old : BOOLEAN]
      \/ c \in [op : {"write"}, file : Files, pos : Nat, count : Nat,
                byte : Bytes, old : BOOLEAN]
  BY <1>1 DEF CallTypes, NoCall
<1>3. c.pos + n \in Nat
  BY <1>2
<1>4. [c EXCEPT !.pos = @ + n, !.old = FALSE] \in CallTypes
  BY <1>2, <1>3 DEF CallTypes
<1>5. [c EXCEPT !.pos = @ + n, !.old = FALSE].op = c.op
  BY <1>2
<1>6. call' = [call EXCEPT ![t] = [c EXCEPT !.pos = @ + n, !.old = FALSE]]
  BY <1>1 DEF Moved
<1> QED BY <1>4, <1>5, <1>6

\* A body that moved the position by n and ends with up, to leave.
LEMMA MovedUp ==
  ASSUME Lock, Calls, NEW t \in Threads, pc[t] = "locked",
         call[t].op \in {"read", "write"}, NEW n \in Nat, Moved(t, n), Up(t, "leaving")
  PROVE  Lock' /\ Calls'
<1> DEFINE c == [call[t] EXCEPT !.pos = @ + n, !.old = FALSE]
<1>1. c \in CallTypes /\ c.op = call[t].op /\ call' = [call EXCEPT ![t] = c]
  BY MovedCall
<1>2. c.op \in {"read", "write"}
  BY <1>1
<1> HIDE DEF c
<1> QED BY <1>1, <1>2, UpLeaving

\* lseek moves the position; it grows the buffer, or dies where it allocates.
LEMMA SeekTypes ==
  ASSUME TypeOK, SemaphoreAccounted, NEW t \in Threads, Seek(t)
  PROVE  TypeOK' /\ SemaphoreAccounted'
<1> DEFINE pos == call[t].pos
<1>1. Lock /\ Store /\ Filp /\ Calls /\ pc[t] = "locked" /\ call[t].op = "lseek"
  BY Parts DEF Seek, Locked
<1>2. pos \in Nat /\ call[t].file \in Files /\ call[t] # NoCall
  BY <1>1, Fields DEF Calls
<1>3. Filp'
  BY <1>1, <1>2 DEF Seek, Filp
<1>4. CASE pos < buffer_size /\ Up(t, "user") /\ Leave(t) /\ UNCHANGED device
  <2>1. Lock' /\ Calls'
    BY <1>1, <1>4, UpUser
  <2> QED BY <1>1, <1>3, <1>4, <2>1, NextParts DEF Store, device
<1>5. CASE \E new \in Kzalloc(buffer_size) :
             data' = new /\ NoUp(t, "dead") /\ UNCHANGED <<buffer_size, call>>
  <2>1. Lock' /\ Moves(t, "dead")
    BY <1>1, <1>5, NoUpLock
  <2>2. Calls'
    BY <1>1, <1>2, <1>5, <2>1 DEF Calls, Moves
  <2>3. Store'
    BY <1>1, <1>5 DEF Store, Kzalloc, Zeros
  <2> QED BY <1>3, <2>1, <2>2, <2>3, NextParts
<1>6. CASE /\ data # NULL /\ buffer_size' = Grown(pos)
           /\ data' = Copied(Grown(pos), data)
           /\ Up(t, "user") /\ Leave(t)
  <2>1. Lock' /\ Calls'
    BY <1>1, <1>6, UpUser
  <2>2. Grown(pos) \in Nat \ {0}
    BY <1>2, RamdiskAssumption DEF Grown
  <2>3. Copied(Grown(pos), data) \in [0 .. Grown(pos) - 1 -> Nat]
    BY <1>1, <1>6, <2>2 DEF Copied, Store
  <2>4. Store'
    BY <1>6, <2>2, <2>3 DEF Store
  <2> QED BY <1>3, <2>1, <2>4, NextParts
<1> QED BY <1>4, <1>5, <1>6 DEF Seek

\* read leaves the buffer alone.
LEMMA ReadTypes ==
  ASSUME TypeOK, SemaphoreAccounted, NEW t \in Threads, Read(t)
  PROVE  TypeOK' /\ SemaphoreAccounted'
<1> DEFINE pos == call[t].pos
           n == Truncated(pos, call[t].count)
<1>1. Lock /\ Store /\ Filp /\ Calls /\ pc[t] = "locked" /\ call[t].op = "read"
  BY Parts DEF Read, Locked
<1>2. pos \in Nat /\ call[t].count \in Nat /\ call[t] \in CallTypes
  BY <1>1, Fields DEF Calls
<1>3. Store' /\ Filp'
  BY <1>1 DEF Read, device, Store, Filp
<1>4. CASE Up(t, "leaving") /\ UNCHANGED call
  <2>1. call' = [call EXCEPT ![t] = call[t]]
    BY <1>1, <1>4 DEF Calls
  <2>2. Lock' /\ Calls'
    BY <1>1, <1>2, <1>4, <2>1, UpLeaving
  <2> QED BY <1>3, <2>2, NextParts
<1>5. CASE pos < buffer_size /\ Moved(t, n) /\ Up(t, "leaving")
  <2>1. n \in Nat
    BY <1>1, <1>2, <1>5 DEF Truncated, Store
  <2> HIDE DEF pos, n
  <2>2. Lock' /\ Calls'
    BY <1>1, <1>5, <2>1, MovedUp
  <2> QED BY <1>3, <2>2, NextParts
<1>6. CASE Up(t, "user") /\ Leave(t)
  <2>1. Lock' /\ Calls'
    BY <1>1, <1>6, UpUser
  <2> QED BY <1>3, <2>1, NextParts
<1> QED BY <1>4, <1>5, <1>6 DEF Read

\* write keeps the buffer's length, and stops where it would run past it.
LEMMA WriteTypes ==
  ASSUME TypeOK, SemaphoreAccounted, NEW t \in Threads, Write(t)
  PROVE  TypeOK' /\ SemaphoreAccounted'
<1> DEFINE pos == call[t].pos
           n == Truncated(pos, call[t].count)
           b == call[t].byte
<1>1. Lock /\ Store /\ Filp /\ Calls /\ pc[t] = "locked" /\ call[t].op = "write"
  BY Parts DEF Write, Locked
<1>2. pos \in Nat /\ call[t].count \in Nat /\ b \in Nat /\ call[t] \in CallTypes
  BY <1>1, Fields, RamdiskAssumption DEF Calls
<1>3. n \in Int
  BY <1>1, <1>2 DEF Truncated, Store
<1>4. CASE Up(t, "user") /\ Leave(t) /\ UNCHANGED <<data, sound>>
  <2>1. Lock' /\ Calls'
    BY <1>1, <1>4, UpUser
  <2>2. Store' /\ Filp'
    BY <1>1, <1>4 DEF Write, Store, Filp
  <2> QED BY <2>1, <2>2, NextParts
<1>5. CASE /\ data # NULL /\ n >= 0 /\ data' = Stored(data, pos, n, b)
           /\ Moved(t, n) /\ Up(t, "leaving") /\ UNCHANGED sound
  <2>1. n \in Nat
    BY <1>3, <1>5
  <2>2. Lock' /\ Calls'
    <3> HIDE DEF pos, n, b
    <3> QED BY <1>1, <1>5, <2>1, MovedUp
  <2>3. Store' /\ Filp'
    BY <1>1, <1>2, <1>5 DEF Write, Store, Filp, Stored
  <2> QED BY <2>2, <2>3, NextParts
<1>6. CASE /\ data # NULL /\ Up(t, "user") /\ Leave(t) /\ UNCHANGED sound
           /\ \E k \in 0 .. n - 1 : data' = Stored(Stored(data, pos, n, 0), pos, k, b)
  <2>1. Lock' /\ Calls'
    BY <1>1, <1>6, UpUser
  <2>2. Store' /\ Filp'
    BY <1>1, <1>2, <1>6 DEF Write, Store, Filp, Stored
  <2> QED BY <2>1, <2>2, NextParts
<1>7. CASE sound' = FALSE /\ UNCHANGED <<data, call, pc, lock, lost>>
  <2>1. Lock' /\ Calls'
    BY <1>1, <1>7 DEF Lock, SemaphoreAccounted, Calls, lock
  <2>2. Store' /\ Filp'
    BY <1>1, <1>7 DEF Write, Store, Filp
  <2> QED BY <2>1, <2>2, NextParts
<1> QED BY <1>4, <1>5, <1>6, <1>7 DEF Write

\* The clear ages the calls in progress and ends its own.
LEMMA AgedCalls ==
  ASSUME Calls, NEW t \in Threads
  PROVE  /\ Aged(t) \in [Threads -> CallTypes]
         /\ \A u \in Threads : /\ Aged(t)[u] = NoCall <=> call[u] = NoCall
                               /\ Aged(t)[u].op = call[u].op
<1> SUFFICES ASSUME NEW u \in Threads
             PROVE  /\ Aged(t)[u] \in CallTypes
                    /\ Aged(t)[u] = NoCall <=> call[u] = NoCall
                    /\ Aged(t)[u].op = call[u].op
  BY DEF Aged
<1> DEFINE c == call[u]
<1>1. CASE u # t /\ c.op \in {"read", "write"}
  <2>1. \/ c \in [op : {"read"}, file : Files, pos : Nat, count : Nat, old : BOOLEAN]
        \/ c \in [op : {"write"}, file : Files, pos : Nat, count : Nat,
                  byte : Bytes, old : BOOLEAN]
    BY <1>1 DEF Calls, CallTypes, NoCall
  <2>2. /\ [c EXCEPT !.old = TRUE] \in CallTypes
        /\ [c EXCEPT !.old = TRUE].op = c.op
    BY <2>1 DEF CallTypes
  <2>3. Aged(t)[u] = [c EXCEPT !.old = TRUE]
    BY <1>1 DEF Aged
  <2>4. c # NoCall /\ [c EXCEPT !.old = TRUE] # NoCall
    BY <1>1, <2>2 DEF NoCall
  <2> QED BY <2>2, <2>3, <2>4
<1>2. CASE ~(u # t /\ c.op \in {"read", "write"})
  BY <1>2 DEF Aged, Calls
<1> QED BY <1>1, <1>2

LEMMA ClearTypes ==
  ASSUME TypeOK, SemaphoreAccounted, NEW t \in Threads, Clear(t)
  PROVE  TypeOK' /\ SemaphoreAccounted'
<1>1. Lock /\ Store /\ Filp /\ Calls /\ pc[t] = "locked" /\ call[t].op = "clear"
  BY Parts DEF Clear, Locked
<1>2. call[t].file \in Files
  BY <1>1, Fields DEF Calls
<1>3. Lock' /\ Moves(t, "user")
  BY <1>1, UpLock DEF Clear
<1>4. Filp'
  BY <1>1, <1>2 DEF Clear, Filp, Rewound
<1>5. Store'
  BY RamdiskAssumption DEF Clear, Store, Cleared, Kzalloc, Zeros
<1>6. Calls'
  <2>1. call' = [Aged(t) EXCEPT ![t] = NoCall]
    BY DEF Clear
  <2>2. call' \in [Threads -> CallTypes] /\ call'[t] = NoCall
    BY <1>1, <2>1, AgedCalls DEF CallTypes
  <2>3. \A u \in Threads \ {t} : /\ call'[u] = NoCall <=> call[u] = NoCall
                                 /\ call'[u].op = call[u].op
    BY <1>1, <2>1, AgedCalls
  <2> QED BY <1>1, <1>3, <2>2, <2>3 DEF Calls, Moves
<1> QED BY <1>3, <1>4, <1>5, <1>6, NextParts

LEMMA UnknownTypes ==
  ASSUME TypeOK, SemaphoreAccounted, NEW t \in Threads, Unknown(t)
  PROVE  TypeOK' /\ SemaphoreAccounted'
<1>1. Lock /\ Store /\ Filp /\ Calls /\ pc[t] = "locked"
  BY Parts DEF Unknown, Locked
<1>2. Lock' /\ Moves(t, "user")
  BY <1>1, NoUpLock DEF Unknown
<1>3. Calls'
  BY <1>1, <1>2, LeaveCalls DEF Unknown
<1>4. Store' /\ Filp'
  BY <1>1 DEF Unknown, Store, Filp, device
<1> QED BY <1>2, <1>3, <1>4, NextParts

\* Every step keeps the types and the accounts.
LEMMA TypesStep ==
  TypeOK /\ SemaphoreAccounted /\ [Next]_vars => TypeOK' /\ SemaphoreAccounted'
<1> SUFFICES ASSUME TypeOK, SemaphoreAccounted, [Next]_vars
             PROVE  TypeOK' /\ SemaphoreAccounted'
  OBVIOUS
<1>1. ASSUME NEW t \in Threads, Call(t)
      PROVE  TypeOK' /\ SemaphoreAccounted'
  BY <1>1, CallTypesStep
<1>2. ASSUME NEW t \in Threads, Driver(t)
      PROVE  TypeOK' /\ SemaphoreAccounted'
  BY <1>2, DownTypes, SeekTypes, ReadTypes, WriteTypes, ClearTypes, UnknownTypes,
     ReturnTypes DEF Driver, Body
<1>3. ASSUME NEW t \in Threads, Interrupted(t)
      PROVE  TypeOK' /\ SemaphoreAccounted'
  BY <1>3, InterruptedTypes
<1>4. ASSUME NEW f \in Files, Reopen(f)
      PROVE  TypeOK' /\ SemaphoreAccounted'
  BY <1>4 DEF Reopen, TypeOK, SemaphoreAccounted, device, lock
<1>5. CASE UNCHANGED vars
  BY <1>5 DEF vars, TypeOK, SemaphoreAccounted, device, lock
<1> QED BY <1>1, <1>2, <1>3, <1>4, <1>5 DEF Next

\* For any threads, files and sizes every variable of the driver has its type, and
\* the buffer the length the device records.
THEOREM TypesTheorem == Spec => []TypeOK
BY InitTypes, TypesStep, PTL DEF Spec

\* The semaphore has one holder, is free or is lost for ever, and its queue holds
\* each thread that waits, once, whoever calls, is interrupted or is woken.
THEOREM SemaphoreTheorem == Spec => []SemaphoreAccounted
BY InitTypes, TypesStep, PTL DEF Spec

-----------------------------------------------------------------------------
\* Positions beyond the buffer.

\* A file's position, and the one a call in progress holds, as the invariant
\* has them while the semaphore is not lost.
Reached(f) == f_pos[f] > buffer_size => f \in stale
Carried(t) ==
  pc[t] # "user" /\ call[t].op \in {"read", "write"} /\ call[t].pos > buffer_size
    => call[t].old

LEMMA OverrunParts ==
  OverrunOnlyAfterClear <=>
    /\ lost \/ \A f \in Files : Reached(f)
    /\ lost \/ \A t \in Threads : Carried(t)
    /\ ~sound => \E t \in Threads : pc[t] = "locked" /\ call[t].op = "write" /\ call[t].old
BY DEF OverrunOnlyAfterClear, Reached, Carried

\* After a step that leaves the semaphore to be had and the buffer sound, it is
\* enough to look at the positions.
LEMMA OverrunNext ==
  ASSUME sound', lost' \/ \A f \in Files : Reached(f)', lost' \/ \A t \in Threads : Carried(t)'
  PROVE  OverrunOnlyAfterClear'
BY DEF OverrunOnlyAfterClear, Reached, Carried

\* A step of t that ends its call leaves what the others carry as it is, in a
\* buffer that is no smaller.
LEMMA OthersCarry ==
  ASSUME TypeOK, TypeOK', NEW t \in Threads, \A u \in Threads : Carried(u),
         NEW l \in Labels, Moves(t, l), Carried(t)',
         \A u \in Threads \ {t} : call'[u] = call[u],
         buffer_size <= buffer_size'
  PROVE  \A u \in Threads : Carried(u)'
<1> SUFFICES ASSUME NEW u \in Threads \ {t}, pc'[u] # "user",
                    call'[u].op \in {"read", "write"}, call'[u].pos > buffer_size'
             PROVE  call'[u].old
  BY DEF Carried
<1>1. pc[u] # "user" /\ call[u] = call'[u]
  BY DEF Moves
<1>2. call[u].pos \in Nat /\ buffer_size \in Nat /\ buffer_size' \in Nat
  BY <1>1, Fields DEF TypeOK
<1>3. call[u].pos > buffer_size
  BY <1>1, <1>2
<1> QED BY <1>1, <1>3 DEF Carried

\* What read and write carry back lies within the buffer, or is as it was.
LEMMA EnterOverrun ==
  ASSUME TypeOK, SemaphoreAccounted, TypeOK', OverrunOnlyAfterClear,
         NEW t \in Threads, NEW c \in CallTypes, c.op # "none", Enter(t, c),
         c.op \in {"read", "write"} => c.pos = f_pos[c.file] /\ c.old = (c.file \in stale)
  PROVE  OverrunOnlyAfterClear'
<1>1. /\ Lock /\ sound /\ UNCHANGED <<device, f_pos, stale, lost, sound>>
      /\ call' = [call EXCEPT ![t] = c] /\ call \in [Threads -> CallTypes]
  BY Parts DEF Enter, TypeOK
<1>2. pc'[t] = "entering" /\ \A u \in Threads \ {t} : pc'[u] = pc[u]
  BY <1>1, EnterLock
<1>3. lost' \/ \A f \in Files : Reached(f)'
  BY <1>1, OverrunParts DEF Reached, device
<1>4. lost' \/ \A u \in Threads : Carried(u)'
  <2> SUFFICES ASSUME ~lost PROVE \A u \in Threads : Carried(u)'
    BY <1>1
  <2>1. Carried(t)'
    <3>1. call'[t] = c
      BY <1>1
    <3> QED BY <1>1, <3>1, OverrunParts, Fields DEF Carried, Reached, device
  <2>2. ASSUME NEW u \in Threads \ {t} PROVE Carried(u)'
    <3>1. call'[u] = call[u] /\ pc'[u] = pc[u] /\ buffer_size' = buffer_size
      BY <1>1, <1>2 DEF device
    <3> QED BY <3>1, OverrunParts DEF Carried
  <2> QED BY <2>1, <2>2
<1> QED BY <1>1, <1>3, <1>4, OverrunNext

LEMMA CallOverrun ==
  ASSUME TypeOK, SemaphoreAccounted, TypeOK', OverrunOnlyAfterClear,
         NEW t \in Threads, Call(t)
  PROVE  OverrunOnlyAfterClear'
<1> USE RamdiskAssumption
<1>1. CASE CallSeek(t)
  <2>1. PICK f \in Files, off \in Offsets, pos \in 0 .. MaxPosition :
          Enter(t, [op |-> "lseek", file |-> f, pos |-> pos])
    BY <1>1 DEF CallSeek
  <2>2. [op |-> "lseek", file |-> f, pos |-> pos] \in CallTypes
    BY <2>1 DEF CallTypes
  <2> QED BY <2>1, <2>2, EnterOverrun
<1>2. CASE CallRead(t)
  <2>1. PICK f \in Files, n \in Counts :
          Enter(t, [op |-> "read", file |-> f, pos |-> f_pos[f], count |-> n,
                    old |-> f \in stale])
    BY <1>2 DEF CallRead
  <2>2. f_pos[f] \in Nat /\ n \in Nat /\ (f \in stale) \in BOOLEAN
    BY DEF TypeOK
  <2>3. [op |-> "read", file |-> f, pos |-> f_pos[f], count |-> n, old |-> f \in stale]
          \in CallTypes
    BY <2>2 DEF CallTypes
  <2> QED BY <2>1, <2>3, EnterOverrun
<1>3. CASE CallWrite(t)
  <2>1. PICK f \in Files, n \in Counts, b \in Bytes :
          Enter(t, [op |-> "write", file |-> f, pos |-> f_pos[f], count |-> n,
                    byte |-> b, old |-> f \in stale])
    BY <1>3 DEF CallWrite
  <2>2. f_pos[f] \in Nat /\ n \in Nat /\ (f \in stale) \in BOOLEAN
    BY DEF TypeOK
  <2>3. [op |-> "write", file |-> f, pos |-> f_pos[f], count |-> n, byte |-> b,
         old |-> f \in stale] \in CallTypes
    BY <2>2 DEF CallTypes
  <2> QED BY <2>1, <2>3, EnterOverrun
<1>4. CASE CallIoctl(t)
  <2>1. PICK f \in Files, cmd \in {"clear", "unknown"} : Enter(t, [op |-> cmd, file |-> f])
    BY <1>4 DEF CallIoctl
  <2>2. [op |-> cmd, file |-> f] \in CallTypes
    BY DEF CallTypes
  <2> QED BY <2>1, <2>2, EnterOverrun
<1> QED BY <1>1, <1>2, <1>3, <1>4 DEF Call

\* A wait for the semaphore starts or is over.
LEMMA DownOverrun ==
  ASSUME TypeOK, SemaphoreAccounted, OverrunOnlyAfterClear, NEW t \in Threads, Down(t)
  PROVE  OverrunOnlyAfterClear'
<1>1. /\ Lock /\ sound /\ UNCHANGED <<device, f_pos, call, stale, lost, sound>>
      /\ pc[t] = "entering"
  BY Parts DEF Down
<1>2. pc'[t] \in {"locked", "queued"} /\ \A u \in Threads \ {t} : pc'[u] = pc[u]
  BY <1>1, DownLock
<1>3. lost' \/ \A f \in Files : Reached(f)'
  BY <1>1, OverrunParts DEF Reached, device
<1>4. lost' \/ \A u \in Threads : Carried(u)'
  BY <1>1, <1>2, OverrunParts DEF Carried, device
<1> QED BY <1>1, <1>3, <1>4, OverrunNext

\* A call that ends in user space, in a buffer that is no smaller.
LEMMA BackOverrun ==
  ASSUME TypeOK, TypeOK', OverrunOnlyAfterClear, sound, sound' = sound,
         lost' = lost, NEW t \in Threads, Moves(t, "user"), Leave(t),
         buffer_size <= buffer_size', lost \/ \A f \in Files : Reached(f)'
  PROVE  OverrunOnlyAfterClear'
<1>1. call \in [Threads -> CallTypes] /\ call' = [call EXCEPT ![t] = NoCall]
  BY DEF TypeOK, Leave
<1>2. call'[t] = NoCall /\ \A u \in Threads \ {t} : call'[u] = call[u]
  BY <1>1
<1>3. Carried(t)'
  BY <1>2 DEF Carried, NoCall
<1>4. lost' \/ \A u \in Threads : Carried(u)'
  BY <1>2, <1>3, OthersCarry, OverrunParts DEF Labels
<1> QED BY <1>4, OverrunNext

\* The same call with the position where the copy ended.
LEMMA LeavingOverrun ==
  ASSUME TypeOK, TypeOK', OverrunOnlyAfterClear, sound, sound' = sound, lost' = lost,
         NEW t \in Threads, Moves(t, "leaving"), Carried(t)',
         \A u \in Threads \ {t} : call'[u] = call[u],
         UNCHANGED <<buffer_size, f_pos, stale>>
  PROVE  OverrunOnlyAfterClear'
<1>1. buffer_size <= buffer_size'
  BY DEF TypeOK
<1>2. lost' \/ \A u \in Threads : Carried(u)'
  BY <1>1, OthersCarry, OverrunParts DEF Labels
<1>3. lost' \/ \A f \in Files : Reached(f)'
  BY OverrunParts DEF Reached
<1> QED BY <1>2, <1>3, OverrunNext

LEMMA SeekOverrun ==
  ASSUME TypeOK, SemaphoreAccounted, TypeOK', OverrunOnlyAfterClear,
         NEW t \in Threads, Seek(t)
  PROVE  OverrunOnlyAfterClear'
<1> DEFINE pos == call[t].pos
<1>1. /\ Lock /\ pc[t] = "locked" /\ call[t].op = "lseek" /\ sound /\ sound' = sound
      /\ f_pos' = [f_pos EXCEPT ![call[t].file] = pos] /\ stale' = stale \ {call[t].file}
  BY Parts DEF Seek, Locked
<1>2. pos \in Nat /\ call[t].file \in Files /\ buffer_size \in Nat /\ f_pos \in [Files -> Nat]
  BY <1>1, Fields DEF TypeOK
<1>3. CASE NoUp(t, "dead")
  BY <1>1, <1>3 DEF NoUp, OverrunOnlyAfterClear
<1>4. CASE /\ Up(t, "user") /\ Leave(t)
           /\ \/ pos < buffer_size /\ UNCHANGED device
              \/ pos >= buffer_size /\ buffer_size' = Grown(pos)
  <2>1. Moves(t, "user") /\ lost' = lost
    BY <1>1, <1>4, UpLock DEF Up
  <2>2. buffer_size <= buffer_size' /\ pos <= buffer_size' /\ buffer_size' \in Nat
    BY <1>2, <1>4, RamdiskAssumption DEF Grown, device
  <2>3. lost \/ \A f \in Files : Reached(f)'
    <3> SUFFICES ASSUME ~lost, NEW f \in Files, f_pos'[f] > buffer_size' PROVE f \in stale'
      BY DEF Reached
    <3>1. f # call[t].file /\ f_pos'[f] = f_pos[f] /\ f_pos[f] \in Nat
      BY <1>1, <1>2, <2>2
    <3>2. f_pos[f] > buffer_size
      BY <1>2, <2>2, <3>1
    <3> QED BY <1>1, <3>1, <3>2, OverrunParts DEF Reached
  <2> QED BY <1>1, <1>4, <2>1, <2>2, <2>3, BackOverrun
<1> QED BY <1>3, <1>4 DEF Seek

LEMMA ReadOverrun ==
  ASSUME TypeOK, SemaphoreAccounted, TypeOK', OverrunOnlyAfterClear,
         NEW t \in Threads, Read(t)
  PROVE  OverrunOnlyAfterClear'
<1> DEFINE n == Truncated(call[t].pos, call[t].count)
<1>1. /\ Lock /\ Calls /\ pc[t] = "locked" /\ call[t].op = "read" /\ sound /\ sound' = sound
      /\ UNCHANGED <<buffer_size, f_pos, stale>> /\ buffer_size \in Nat
  BY Parts DEF Read, Locked, device, TypeOK
<1>2. call[t].pos \in Nat /\ call[t].count \in Nat
  BY <1>1, Fields DEF Calls
<1>3. CASE Up(t, "leaving") /\ UNCHANGED call
  <2>1. Moves(t, "leaving") /\ lost' = lost
    BY <1>1, <1>3, UpLock DEF Up
  <2>2. Carried(t)' \/ lost
    BY <1>1, <1>3, OverrunParts DEF Carried
  <2> QED BY <1>1, <1>3, <2>1, <2>2, LeavingOverrun DEF Lock, SemaphoreAccounted
<1>4. CASE call[t].pos < buffer_size /\ Moved(t, n) /\ Up(t, "leaving")
  <2>1. Moves(t, "leaving") /\ lost' = lost
    BY <1>1, <1>4, UpLock DEF Up
  <2>2. call[t].pos + n <= buffer_size
    BY <1>1, <1>2, <1>4 DEF Truncated
  <2>3. /\ call'[t] = [call[t] EXCEPT !.pos = @ + n, !.old = FALSE]
        /\ \A u \in Threads \ {t} : call'[u] = call[u]
        /\ call[t] \in CallTypes
    BY <1>1, <1>4 DEF Moved, Calls
  <2>4. call'[t].pos = call[t].pos + n
    BY <1>1, <2>3 DEF CallTypes, NoCall
  <2>5. Carried(t)'
    BY <1>1, <1>2, <2>2, <2>4 DEF Carried, Truncated
  <2> QED BY <1>1, <2>1, <2>3, <2>5, LeavingOverrun
<1>5. CASE Up(t, "user") /\ Leave(t)
  <2>1. Moves(t, "user") /\ lost' = lost
    BY <1>1, <1>5, UpLock DEF Up
  <2>2. lost \/ \A f \in Files : Reached(f)'
    BY <1>1, OverrunParts DEF Reached
  <2> QED BY <1>1, <1>5, <2>1, <2>2, BackOverrun
<1> QED BY <1>3, <1>4, <1>5 DEF Read

\* The write that runs past the end has an old position: it stays where it is.
LEMMA WriteOverrun ==
  ASSUME TypeOK, SemaphoreAccounted, TypeOK', OverrunOnlyAfterClear,
         NEW t \in Threads, Write(t)
  PROVE  OverrunOnlyAfterClear'
<1> DEFINE n == Truncated(call[t].pos, call[t].count)
<1>1. /\ Lock /\ Calls /\ pc[t] = "locked" /\ call[t].op = "write" /\ sound
      /\ UNCHANGED <<buffer_size, f_pos, stale>> /\ buffer_size \in Nat
  BY Parts DEF Write, Locked, TypeOK
<1>2. call[t].pos \in Nat /\ call[t].count \in Nat
  BY <1>1, Fields DEF Calls
<1>3. ~lost
  BY <1>1 DEF Lock, SemaphoreAccounted
<1>4. CASE Up(t, "user") /\ Leave(t) /\ UNCHANGED sound
  <2>1. Moves(t, "user") /\ lost' = lost
    BY <1>1, <1>4, UpLock DEF Up
  <2>2. lost \/ \A f \in Files : Reached(f)'
    BY <1>1, OverrunParts DEF Reached
  <2> QED BY <1>1, <1>4, <2>1, <2>2, BackOverrun
<1>5. CASE n >= 0 /\ Moved(t, n) /\ Up(t, "leaving") /\ UNCHANGED sound
  <2>1. Moves(t, "leaving") /\ lost' = lost
    BY <1>1, <1>5, UpLock DEF Up
  <2>2. call[t].pos + n <= buffer_size /\ n \in Nat
    BY <1>1, <1>2, <1>5 DEF Truncated
  <2>3. /\ call'[t] = [call[t] EXCEPT !.pos = @ + n, !.old = FALSE]
        /\ \A u \in Threads \ {t} : call'[u] = call[u]
        /\ call[t] \in CallTypes
    BY <1>1, <1>5 DEF Moved, Calls
  <2>4. call'[t].pos = call[t].pos + n
    BY <1>1, <2>3 DEF CallTypes, NoCall
  <2>5. Carried(t)'
    BY <1>1, <1>2, <2>2, <2>4 DEF Carried
  <2> QED BY <1>1, <1>5, <2>1, <2>3, <2>5, LeavingOverrun
<1>6. CASE n < 0 /\ sound' = FALSE /\ UNCHANGED <<call, pc, lost>>
  <2>1. call[t].pos > buffer_size
    BY <1>1, <1>2, <1>6 DEF Truncated
  <2>2. call[t].old
    BY <1>1, <1>3, <2>1, OverrunParts DEF Carried
  <2> QED BY <1>1, <1>6, <2>2 DEF OverrunOnlyAfterClear
<1> QED BY <1>4, <1>5, <1>6 DEF Write

\* After a clear every other position is old, and this file's is 0.
LEMMA ClearOverrun ==
  ASSUME TypeOK, SemaphoreAccounted, TypeOK', OverrunOnlyAfterClear,
         NEW t \in Threads, Clear(t)
  PROVE  OverrunOnlyAfterClear'
<1>1. /\ Lock /\ Calls /\ pc[t] = "locked" /\ call[t].op = "clear" /\ sound'
      /\ f_pos' = [f_pos EXCEPT ![call[t].file] = 0] /\ stale' = Files \ {call[t].file}
      /\ call' = [Aged(t) EXCEPT ![t] = NoCall] /\ f_pos \in [Files -> Nat]
      /\ buffer_size' \in Nat
  BY Parts DEF Clear, Locked, Rewound, TypeOK
<1>2. \A f \in Files : Reached(f)'
  BY <1>1 DEF Reached
<1>3. \A u \in Threads : Carried(u)'
  <2> SUFFICES ASSUME NEW u \in Threads, call'[u].op \in {"read", "write"}
               PROVE  call'[u].old
    BY DEF Carried
  <2>1. u # t
    BY <1>1, AgedCalls DEF NoCall
  <2>2. call'[u] = Aged(t)[u] /\ Aged(t)[u].op = call[u].op
    BY <1>1, <2>1, AgedCalls
  <2>3. Aged(t)[u] = [call[u] EXCEPT !.old = TRUE]
    BY <2>1, <2>2 DEF Aged
  <2>4. [call[u] EXCEPT !.old = TRUE].old
    BY <1>1, <2>2 DEF Calls, CallTypes, NoCall
  <2> QED BY <2>2, <2>3, <2>4
<1> QED BY <1>1, <1>2, <1>3, OverrunNext

\* The kernel stores the position of the call, old if the call was.
LEMMA ReturnOverrun ==
  ASSUME TypeOK, SemaphoreAccounted, TypeOK', OverrunOnlyAfterClear,
         NEW t \in Threads, Return(t)
  PROVE  OverrunOnlyAfterClear'
<1>1. /\ Calls /\ pc[t] = "leaving" /\ pc' = [pc EXCEPT ![t] = "user"] /\ sound
      /\ f_pos' = [f_pos EXCEPT ![call[t].file] = call[t].pos] /\ f_pos \in [Files -> Nat]
      /\ UNCHANGED <<device, lost, sound>> /\ pc \in [Threads -> Labels]
      /\ buffer_size \in Nat
  BY Parts DEF Return, TypeOK, Labels
<1>2. call[t].op \in {"read", "write"} /\ call[t].file \in Files
  BY <1>1, Fields DEF Calls
<1>3. lost \/ \A f \in Files : Reached(f)'
  <2> SUFFICES ASSUME ~lost, NEW f \in Files, f_pos'[f] > buffer_size PROVE f \in stale'
    BY <1>1 DEF Reached, device
  <2>1. CASE f = call[t].file
    <3>1. call[t].old
      BY <1>1, <1>2, <2>1, OverrunParts DEF Carried
    <3> QED BY <2>1, <3>1 DEF Return
  <2>2. CASE f # call[t].file
    <3>1. f \in stale
      BY <1>1, <1>2, <2>2, OverrunParts DEF Reached
    <3> QED BY <2>2, <3>1 DEF Return
  <2> QED BY <2>1, <2>2
<1>4. Moves(t, "user") /\ Leave(t) /\ buffer_size <= buffer_size'
  BY <1>1 DEF Moves, Return, Leave, device
<1> QED BY <1>1, <1>3, <1>4, BackOverrun

LEMMA InterruptedOverrun ==
  ASSUME TypeOK, SemaphoreAccounted, TypeOK', OverrunOnlyAfterClear,
         NEW t \in Threads, Interrupted(t)
  PROVE  OverrunOnlyAfterClear'
<1>1. Moves(t, "user") /\ Leave(t)
  BY Parts, InterruptedLock DEF Interrupted, Leave
<1>2. /\ sound /\ UNCHANGED <<device, f_pos, stale, lost, sound>>
      /\ buffer_size <= buffer_size'
  BY DEF Interrupted, TypeOK, device
<1>3. lost \/ \A f \in Files : Reached(f)'
  BY <1>2, OverrunParts DEF Reached, device
<1> QED BY <1>1, <1>2, <1>3, BackOverrun

LEMMA ReopenOverrun ==
  ASSUME TypeOK, OverrunOnlyAfterClear, NEW g \in Files, Reopen(g)
  PROVE  OverrunOnlyAfterClear'
<1>1. /\ sound /\ f_pos' = [f_pos EXCEPT ![g] = 0] /\ stale' = stale \ {g}
      /\ UNCHANGED <<device, pc, call, lost, sound>>
      /\ f_pos \in [Files -> Nat] /\ buffer_size \in Nat
  BY DEF Reopen, TypeOK
<1>2. lost' \/ \A f \in Files : Reached(f)'
  BY <1>1, OverrunParts DEF Reached, device
<1>3. lost' \/ \A t \in Threads : Carried(t)'
  BY <1>1, OverrunParts DEF Carried, device
<1> QED BY <1>1, <1>2, <1>3, OverrunNext

LEMMA OverrunStep ==
  TypeOK /\ SemaphoreAccounted /\ TypeOK' /\ OverrunOnlyAfterClear /\ [Next]_vars
    => OverrunOnlyAfterClear'
<1> SUFFICES ASSUME TypeOK, SemaphoreAccounted, TypeOK', OverrunOnlyAfterClear, [Next]_vars
             PROVE  OverrunOnlyAfterClear'
  OBVIOUS
<1>1. ASSUME NEW t \in Threads, Call(t)
      PROVE  OverrunOnlyAfterClear'
  BY <1>1, CallOverrun
<1>2. ASSUME NEW t \in Threads, Unknown(t)
      PROVE  OverrunOnlyAfterClear'
  BY <1>2 DEF Unknown, NoUp, Locked, OverrunOnlyAfterClear
<1>3. ASSUME NEW t \in Threads, Driver(t)
      PROVE  OverrunOnlyAfterClear'
  BY <1>2, <1>3, DownOverrun, SeekOverrun, ReadOverrun, WriteOverrun, ClearOverrun, ReturnOverrun
     DEF Driver, Body
<1>4. ASSUME NEW t \in Threads, Interrupted(t)
      PROVE  OverrunOnlyAfterClear'
  BY <1>4, InterruptedOverrun
<1>5. ASSUME NEW f \in Files, Reopen(f)
      PROVE  OverrunOnlyAfterClear'
  BY <1>5, ReopenOverrun
<1>6. CASE UNCHANGED vars
  BY <1>6 DEF vars, device, OverrunOnlyAfterClear
<1> QED BY <1>1, <1>3, <1>4, <1>5, <1>6 DEF Next

LEMMA InitOverrun == Init => OverrunOnlyAfterClear
BY RamdiskAssumption DEF Init, OverrunOnlyAfterClear

\* A write runs past the buffer only through a position that a clear made old: one of
\* another file, or of a call already in progress.
THEOREM OverrunTheorem == Spec => []OverrunOnlyAfterClear
<1>1. Init => TypeOK /\ SemaphoreAccounted /\ OverrunOnlyAfterClear
  BY InitTypes, InitOverrun
<1>2. TypeOK /\ SemaphoreAccounted /\ OverrunOnlyAfterClear /\ [Next]_vars
        => TypeOK' /\ SemaphoreAccounted' /\ OverrunOnlyAfterClear'
  BY TypesStep, OverrunStep
<1> QED BY <1>1, <1>2, PTL DEF Spec

-----------------------------------------------------------------------------
\* The device is a tape.

\* NULL points at no buffer.
NullIsNone == \A n \in Nat \ {0} : NULL \notin [0 .. n - 1 -> Nat]

\* The bounds that the positions of the tape come from.
Reach ==
  /\ buffer_size <= MaxPosition + Slack + RamdiskSize
  /\ \A t \in Threads : call[t].op = "lseek" => call[t].pos \in 0 .. MaxPosition

\* A call comes in.
LEMMA EnterReach ==
  ASSUME TypeOK, Reach, NEW t \in Threads, NEW c,
         c.op = "lseek" => c.pos \in 0 .. MaxPosition, Enter(t, c)
  PROVE  Reach'
BY DEF TypeOK, Reach, Enter, device

LEMMA CallReach ==
  ASSUME TypeOK, Reach, NEW t \in Threads, Call(t)
  PROVE  Reach'
<1>1. CASE CallSeek(t)
  <2>1. PICK f \in Files, off \in Offsets, pos \in 0 .. MaxPosition :
          Enter(t, [op |-> "lseek", file |-> f, pos |-> pos])
    BY <1>1 DEF CallSeek
  <2> QED BY <2>1, EnterReach
<1>2. CASE CallRead(t)
  <2>1. PICK f \in Files, n \in Counts :
          Enter(t, [op |-> "read", file |-> f, pos |-> f_pos[f], count |-> n,
                    old |-> f \in stale])
    BY <1>2 DEF CallRead
  <2> QED BY <2>1, EnterReach
<1>3. CASE CallWrite(t)
  <2>1. PICK f \in Files, n \in Counts, b \in Bytes :
          Enter(t, [op |-> "write", file |-> f, pos |-> f_pos[f], count |-> n,
                    byte |-> b, old |-> f \in stale])
    BY <1>3 DEF CallWrite
  <2> QED BY <2>1, EnterReach
<1>4. CASE CallIoctl(t)
  <2>1. PICK f \in Files, cmd \in {"clear", "unknown"} : Enter(t, [op |-> cmd, file |-> f])
    BY <1>4 DEF CallIoctl
  <2> QED BY <2>1, EnterReach
<1> QED BY <1>1, <1>2, <1>3, <1>4 DEF Call

\* A call that ends or stays, in a buffer as long as it was.
LEMMA StillReach ==
  ASSUME TypeOK, Reach, NEW t \in Threads, Leave(t) \/ UNCHANGED call, UNCHANGED buffer_size
  PROVE  Reach'
<1>1. CASE UNCHANGED call
  BY <1>1 DEF Reach
<1>2. CASE Leave(t)
  <2>1. \A u \in Threads : call'[u].op = "lseek" => call'[u] = call[u]
    <3>1. call' = [call EXCEPT ![t] = NoCall] /\ call \in [Threads -> CallTypes]
      BY <1>2 DEF Leave, TypeOK
    <3> QED BY <3>1 DEF NoCall
  <2> QED BY <2>1 DEF Reach
<1> QED BY <1>1, <1>2

\* A position that moves is one of a read or write.
LEMMA MovedReach ==
  ASSUME TypeOK, SemaphoreAccounted, Reach, NEW t \in Threads,
         call[t].op \in {"read", "write"}, NEW n \in Nat, Moved(t, n), UNCHANGED buffer_size
  PROVE  Reach'
<1> DEFINE c == [call[t] EXCEPT !.pos = @ + n, !.old = FALSE]
<1>1. c.op = call[t].op /\ call' = [call EXCEPT ![t] = c]
  BY Parts, MovedCall
<1> HIDE DEF c
<1> QED BY <1>1 DEF TypeOK, Reach

LEMMA BodyReach ==
  ASSUME TypeOK, SemaphoreAccounted, Reach, NEW t \in Threads, Body(t)
  PROVE  Reach'
<1>1. buffer_size \in Nat \ {0} /\ Calls
  BY Parts DEF TypeOK
<1>2. CASE Seek(t)
  <2>1. call[t].pos \in 0 .. MaxPosition
    BY <1>2 DEF Seek, Locked, Reach
  <2>2. CASE buffer_size' = Grown(call[t].pos) /\ Leave(t)
    BY <2>1, <2>2, RamdiskAssumption DEF Grown, TypeOK, Reach, Leave, NoCall
  <2>3. CASE UNCHANGED buffer_size /\ (Leave(t) \/ UNCHANGED call)
    BY <2>3, StillReach
  <2> QED BY <1>2, <2>2, <2>3 DEF Seek, device
<1>3. CASE Read(t)
  <2> DEFINE n == Truncated(call[t].pos, call[t].count)
  <2>1. UNCHANGED buffer_size /\ call[t].op = "read"
    BY <1>3 DEF Read, device, Locked
  <2>2. call[t].pos \in Nat /\ call[t].count \in Nat
    BY <1>1, <2>1, Fields DEF Calls
  <2>3. CASE call[t].pos < buffer_size /\ Moved(t, n)
    <3>1. n \in Nat
      BY <1>1, <2>2, <2>3 DEF Truncated
    <3> HIDE DEF n
    <3> QED BY <2>1, <2>3, <3>1, MovedReach
  <2> QED BY <1>3, <2>1, <2>3, StillReach DEF Read
<1>4. CASE Write(t)
  <2> DEFINE n == Truncated(call[t].pos, call[t].count)
  <2>1. UNCHANGED buffer_size /\ call[t].op = "write"
    BY <1>4 DEF Write, Locked
  <2>2. call[t].pos \in Nat /\ call[t].count \in Nat
    BY <1>1, <2>1, Fields DEF Calls
  <2>3. CASE n >= 0 /\ Moved(t, n)
    <3>1. n \in Nat
      BY <1>1, <2>2, <2>3 DEF Truncated
    <3> HIDE DEF n
    <3> QED BY <2>1, <2>3, <3>1, MovedReach
  <2> QED BY <1>4, <2>1, <2>3, StillReach DEF Write
<1>5. CASE Clear(t)
  <2>1. call' = [Aged(t) EXCEPT ![t] = NoCall] /\ buffer_size' = RamdiskSize
    BY <1>5 DEF Clear
  <2>2. \A u \in Threads : call'[u].op = "lseek" => call'[u] = call[u]
    BY <1>1, <2>1, AgedCalls DEF Aged, NoCall
  <2> QED BY <2>1, <2>2, RamdiskAssumption DEF Reach
<1>6. CASE Unknown(t)
  BY <1>6, StillReach DEF Unknown, device
<1> QED BY <1>2, <1>3, <1>4, <1>5, <1>6 DEF Body

LEMMA ReachStep ==
  ASSUME TypeOK, SemaphoreAccounted, Reach, [Next]_vars
  PROVE  Reach'
<1>1. ASSUME NEW t \in Threads, Down(t) \/ Return(t) \/ Interrupted(t) PROVE Reach'
  BY <1>1, StillReach DEF Down, Return, Interrupted, Leave, device
<1>2. ASSUME NEW f \in Files, Reopen(f) PROVE Reach'
  BY <1>2 DEF Reopen, device, Reach
<1>3. CASE UNCHANGED vars
  BY <1>3 DEF vars, device, Reach
<1> QED BY <1>1, <1>2, <1>3, CallReach, BodyReach DEF Next, Driver

\* The tape that a buffer d of s bytes is.
View(d, s) == [n \in Positions |-> IF d # NULL /\ n < s THEN d[n] ELSE 0]
Taped == [Tape!Next]_<<View(data, buffer_size), done>>

\* The steps that leave the buffer alone, those that read it, and those that drop it.
LEMMA IdleTaped ==
  ASSUME UNCHANGED device, done' \in {Nothing, DidSeek}
  PROVE  Taped
<1>1. View(data, buffer_size)' = View(data, buffer_size)
  BY DEF device, View
<1>2. Tape!Idle \/ Tape!Seek
  BY <1>1 DEF Tape!Idle, Tape!Seek, View, Nothing, DidSeek
<1> QED BY <1>2 DEF Taped, Tape!Next

LEMMA BlankTaped ==
  ASSUME NEW n \in Nat \ {0}, data' \in {Zeros(n), NULL}, buffer_size' = n,
         done' \in {Died, DidClear}
  PROVE  Taped
<1>1. View(data, buffer_size)' = [m \in Positions |-> 0]
  <2>1. ASSUME NEW m \in Positions, data' # NULL, m < n PROVE data'[m] = 0
    <3>1. m \in 0 .. n - 1
      BY <2>1, RamdiskAssumption DEF Positions
    <3> QED BY <2>1, <3>1 DEF Zeros
  <2> QED BY <2>1 DEF View
<1>2. Tape!Die \/ Tape!Clear
  BY <1>1 DEF Tape!Die, Tape!Clear, Tape!Blank, View, Died, DidClear
<1> QED BY <1>2 DEF Taped, Tape!Next

\* lseek shows what was there before, and zeros behind it.
LEMMA SeekTaped ==
  ASSUME NullIsNone, TypeOK, SemaphoreAccounted, Reach, NEW t \in Threads, Seek(t)
  PROVE  Taped
<1> DEFINE pos == call[t].pos
<1>1. pos \in 0 .. MaxPosition /\ buffer_size \in Nat \ {0}
  BY DEF Seek, Locked, Reach, TypeOK
<1>2. CASE UNCHANGED device /\ done' = DidSeek
  BY <1>2, IdleTaped
<1>3. CASE \E new \in Kzalloc(buffer_size) :
             /\ data = NULL \/ new = NULL
             /\ data' = new /\ done' = Died /\ UNCHANGED buffer_size
  BY <1>1, <1>3, BlankTaped DEF Kzalloc
<1>4. CASE /\ data # NULL /\ pos >= buffer_size /\ buffer_size' = Grown(pos)
           /\ data' = Copied(Grown(pos), data) /\ done' = DidSeek
  <2>1. Grown(pos) \in Nat \ {0} /\ Grown(pos) >= buffer_size
    BY <1>1, <1>4, RamdiskAssumption DEF Grown
  <2>2. data \in [0 .. buffer_size - 1 -> Nat]
    BY <1>4 DEF TypeOK
  <2> DEFINE g == Grown(pos)
  <2> HIDE DEF g
  <2>3. g \in Nat \ {0} /\ g >= buffer_size /\ data' = Copied(g, data) /\ buffer_size' = g
    BY <1>4, <2>1 DEF g
  <2>4. data' \in [0 .. g - 1 -> Nat]
    BY <2>2, <2>3 DEF Copied
  <2>5. data' # NULL
    BY <2>3, <2>4 DEF NullIsNone
  <2>6. ASSUME NEW m \in Positions
        PROVE  (IF m < g THEN data'[m] ELSE 0) = IF m < buffer_size THEN data[m] ELSE 0
    <3>1. m \in Nat
      BY RamdiskAssumption DEF Positions
    <3>2. CASE m < buffer_size
      BY <1>1, <2>2, <2>3, <3>1, <3>2 DEF Copied
    <3>3. CASE ~(m < buffer_size)
      BY <1>1, <2>2, <2>3, <3>1, <3>3 DEF Copied
    <3> QED BY <3>2, <3>3
  <2>7. View(data, buffer_size)' = View(data, buffer_size)
    BY <1>4, <2>3, <2>5, <2>6 DEF View
  <2>8. Tape!Seek
    BY <1>4, <2>7 DEF Tape!Seek, View, DidSeek
  <2> QED BY <2>8 DEF Taped, Tape!Next
<1> QED BY <1>2, <1>3, <1>4 DEF Seek

\* read hands out the bytes at its position.
LEMMA ReadTaped ==
  ASSUME TypeOK, SemaphoreAccounted, Reach, NEW t \in Threads, Read(t)
  PROVE  Taped
<1> DEFINE pos == call[t].pos
           n == Truncated(pos, call[t].count)
<1>1. /\ Calls /\ call[t].op = "read" /\ UNCHANGED device /\ buffer_size \in Nat \ {0}
      /\ buffer_size <= MaxPosition + Slack + RamdiskSize
  BY Parts DEF Read, Locked, TypeOK, Reach
<1>2. pos \in Nat /\ call[t].count \in Nat
  BY <1>1, Fields DEF Calls
<1>3. CASE done' = Nothing
  BY <1>1, <1>3, IdleTaped
<1>4. CASE /\ pos < buffer_size /\ data # NULL
           /\ done' = DidRead(pos, [i \in pos .. pos + n - 1 |-> data[i]])
  <2>1. n \in Nat /\ pos + n <= buffer_size
    BY <1>1, <1>2, <1>4 DEF Truncated
  <2> HIDE DEF pos, n
  <2>2. pos \in Positions /\ n \in Positions
    BY <1>1, <1>2, <1>4, <2>1, RamdiskAssumption DEF Positions
  <2>3. Tape!Run(pos, n) = pos .. pos + n - 1
    BY <1>1, <1>2, <2>1, RamdiskAssumption DEF Tape!Run, Positions
  <2>4. \A i \in pos .. pos + n - 1 : View(data, buffer_size)[i] = data[i]
    BY <1>1, <1>2, <1>4, <2>1, RamdiskAssumption DEF View, Positions
  <2>5. [i \in Tape!Run(pos, n) |-> View(data, buffer_size)[i]]
          = [i \in pos .. pos + n - 1 |-> data[i]]
    BY <2>3, <2>4
  <2>6. done' = [op |-> "read", pos |-> pos,
                 bytes |-> [i \in Tape!Run(pos, n) |-> View(data, buffer_size)[i]]]
    BY <1>4, <2>5 DEF DidRead
  <2>7. View(data, buffer_size)' = View(data, buffer_size)
    BY <1>1 DEF device, View
  <2>8. Tape!Read(pos, n)
    BY <2>6, <2>7 DEF Tape!Read, View
  <2> QED BY <2>2, <2>8 DEF Taped, Tape!Next
<1> QED BY <1>3, <1>4 DEF Read

\* write changes the bytes from its position on and no others.
LEMMA WriteTaped ==
  ASSUME NullIsNone, TypeOK, SemaphoreAccounted, Reach, NEW t \in Threads, Write(t)
  PROVE  Taped
<1> DEFINE pos == call[t].pos
           n == Truncated(pos, call[t].count)
           b == call[t].byte
<1>1. /\ Calls /\ call[t].op = "write" /\ UNCHANGED buffer_size /\ buffer_size \in Nat \ {0}
      /\ buffer_size <= MaxPosition + Slack + RamdiskSize
  BY Parts DEF Write, Locked, TypeOK, Reach
<1>2. pos \in Nat /\ call[t].count \in Nat /\ b \in Bytes /\ b \in Nat
  BY <1>1, Fields, RamdiskAssumption DEF Calls
<1>3. CASE done' = Nothing /\ UNCHANGED data
  BY <1>1, <1>3, IdleTaped DEF device
<1>4. ASSUME data # NULL, n >= 0
      PROVE  /\ data \in [0 .. buffer_size - 1 -> Nat] /\ n \in Nat /\ pos + n <= buffer_size
             /\ pos \in Positions /\ n \in Positions
  <2>1. data \in [0 .. buffer_size - 1 -> Nat]
    BY <1>4 DEF TypeOK
  <2>2. n \in Nat /\ pos + n <= buffer_size
    BY <1>1, <1>2, <1>4 DEF Truncated
  <2> HIDE DEF pos, n
  <2>3. pos \in Positions /\ n \in Positions
    BY <1>1, <1>2, <2>2, RamdiskAssumption DEF Positions
  <2> QED BY <2>1, <2>2, <2>3
<1> HIDE DEF pos, n, b
<1>5. CASE /\ data # NULL /\ n >= 0 /\ data' = Stored(data, pos, n, b)
           /\ done' = DidWrite(pos, n, b)
  <2>1. data' \in [0 .. buffer_size - 1 -> Nat]
    BY <1>2, <1>4, <1>5 DEF Stored
  <2>2. data' # NULL
    BY <1>1, <2>1 DEF NullIsNone
  <2>3. ASSUME NEW m \in Positions
        PROVE  View(data, buffer_size)'[m]
                 = IF m \in Tape!Run(pos, n) THEN b ELSE View(data, buffer_size)[m]
    <3>1. m \in Nat
      BY RamdiskAssumption DEF Positions
    <3>2. m \in Tape!Run(pos, n) <=> pos <= m /\ m < pos + n
      BY DEF Tape!Run
    <3>3. View(data, buffer_size)[m] = IF m < buffer_size THEN data[m] ELSE 0
      BY <1>5 DEF View
    <3>4. View(data, buffer_size)'[m] = IF m < buffer_size THEN data'[m] ELSE 0
      BY <1>1, <2>2 DEF View
    <3>5. CASE m < buffer_size
      <4>1. data'[m] = IF pos <= m /\ m < pos + n THEN b ELSE data[m]
        BY <1>1, <1>4, <1>5, <3>1, <3>5 DEF Stored
      <4> QED BY <3>2, <3>3, <3>4, <3>5, <4>1
    <3>6. CASE ~(m < buffer_size)
      <4>1. ~(m < pos + n)
        BY <1>1, <1>2, <1>4, <1>5, <3>1, <3>6
      <4> QED BY <3>2, <3>3, <3>4, <3>6, <4>1
    <3> QED BY <3>5, <3>6
  <2>4. View(data, buffer_size)'
          = [m \in Positions |->
               IF m \in Tape!Run(pos, n) THEN b ELSE View(data, buffer_size)[m]]
    BY <2>3 DEF View
  <2>5. Tape!Write(pos, n, b)
    BY <1>5, <2>4 DEF Tape!Write, View, DidWrite
  <2>6. pos \in Positions /\ n \in Positions /\ b \in Bytes
    BY <1>2, <1>4, <1>5
  <2>7. Tape!Next
    <3>1. \E c \in Bytes : Tape!Write(pos, n, c)
      BY <2>5, <2>6 DEF Tape!Write
    <3>2. \E c \in Bytes :
            Tape!Write(pos, n, c) \/ \E k \in Positions : Tape!WriteFaults(pos, n, k, c)
      BY <3>1
    <3> QED BY <2>6, <3>2 DEF Tape!Next
  <2> QED BY <2>7 DEF Taped
<1>6. CASE /\ data # NULL /\ n >= 0 /\ done' = DidFault
           /\ \E k \in 0 .. n - 1 : data' = Stored(Stored(data, pos, n, 0), pos, k, b)
  <2>1. PICK k \in 0 .. n - 1 : data' = Stored(Stored(data, pos, n, 0), pos, k, b)
    BY <1>6
  <2>2. k \in Nat /\ k < n /\ k \in Positions
    BY <1>4, <1>6, RamdiskAssumption DEF Positions
  <2>3. /\ DOMAIN data' = 0 .. buffer_size - 1
        /\ data' = [i \in 0 .. buffer_size - 1 |->
                      IF pos <= i /\ i < pos + k THEN b
                      ELSE IF pos <= i /\ i < pos + n THEN 0 ELSE data[i]]
    BY <1>4, <1>6, <2>1 DEF Stored
  <2>4. data' \in [0 .. buffer_size - 1 -> Nat]
    BY <1>2, <1>4, <1>6, <2>3
  <2>5. data' # NULL
    BY <1>1, <2>4 DEF NullIsNone
  <2>6. ASSUME NEW m \in Positions
        PROVE  View(data, buffer_size)'[m]
                 = IF m \in Tape!Run(pos, k) THEN b
                   ELSE IF m \in Tape!Run(pos, n) THEN 0 ELSE View(data, buffer_size)[m]
    <3>1. m \in Nat
      BY RamdiskAssumption DEF Positions
    <3>2. /\ m \in Tape!Run(pos, n) <=> pos <= m /\ m < pos + n
          /\ m \in Tape!Run(pos, k) <=> pos <= m /\ m < pos + k
      BY DEF Tape!Run
    <3>3. View(data, buffer_size)[m] = IF m < buffer_size THEN data[m] ELSE 0
      BY <1>6 DEF View
    <3>4. View(data, buffer_size)'[m] = IF m < buffer_size THEN data'[m] ELSE 0
      BY <1>1, <2>5 DEF View
    <3>5. CASE m < buffer_size
      <4>1. data'[m] = IF pos <= m /\ m < pos + k THEN b
                       ELSE IF pos <= m /\ m < pos + n THEN 0 ELSE data[m]
        BY <1>1, <2>3, <3>1, <3>5
      <4> QED BY <3>2, <3>3, <3>4, <3>5, <4>1
    <3>6. CASE ~(m < buffer_size)
      <4>1. ~(m < pos + n) /\ ~(m < pos + k)
        BY <1>1, <1>2, <1>4, <1>6, <2>2, <3>1, <3>6
      <4> QED BY <3>2, <3>3, <3>4, <3>6, <4>1
    <3> QED BY <3>5, <3>6
  <2>7. View(data, buffer_size)'
          = [m \in Positions |->
               IF m \in Tape!Run(pos, k) THEN b
               ELSE IF m \in Tape!Run(pos, n) THEN 0 ELSE View(data, buffer_size)[m]]
    BY <2>6 DEF View
  <2>8. Tape!WriteFaults(pos, n, k, b)
    BY <1>6, <2>2, <2>7 DEF Tape!WriteFaults, View, DidFault
  <2>9. pos \in Positions /\ n \in Positions /\ b \in Bytes /\ k \in Positions
    BY <1>2, <1>4, <1>6, <2>2
  <2>10. Tape!Next
    <3>1. \E j \in Positions : Tape!WriteFaults(pos, n, j, b)
      BY <2>8, <2>9
    <3>2. \E c \in Bytes : \E j \in Positions : Tape!WriteFaults(pos, n, j, c)
      BY <2>9, <3>1 DEF Tape!WriteFaults
    <3>3. \E c \in Bytes :
            Tape!Write(pos, n, c) \/ \E j \in Positions : Tape!WriteFaults(pos, n, j, c)
      BY <3>2
    <3> QED BY <2>9, <3>3 DEF Tape!Next
  <2> QED BY <2>10 DEF Taped
<1> QED BY <1>3, <1>5, <1>6 DEF Write, pos, n, b

LEMMA TapedStep ==
  ASSUME NullIsNone, TypeOK, SemaphoreAccounted, Reach, [Next]_vars
  PROVE  Taped
<1>1. ASSUME NEW t \in Threads, Call(t) PROVE Taped
  <2>1. UNCHANGED device /\ done' = Nothing
    BY <1>1 DEF Call, CallSeek, CallRead, CallWrite, CallIoctl, Enter
  <2> QED BY <2>1, IdleTaped
<1>2. ASSUME NEW t \in Threads, Clear(t) PROVE Taped
  BY <1>2, BlankTaped, RamdiskAssumption DEF Clear, Cleared, Kzalloc
<1>3. ASSUME NEW t \in Threads, Down(t) \/ Unknown(t) \/ Return(t) \/ Interrupted(t)
      PROVE  Taped
  BY <1>3, IdleTaped DEF Down, Unknown, Return, Interrupted
<1>4. ASSUME NEW f \in Files, Reopen(f) PROVE Taped
  BY <1>4, IdleTaped DEF Reopen
<1>5. CASE UNCHANGED vars
  BY <1>5 DEF vars, device, View, Taped
<1> QED BY <1>1, <1>2, <1>3, <1>4, <1>5, SeekTaped, ReadTaped, WriteTaped
        DEF Next, Driver, Body

\* The ramdisk is a tape for any threads, files, sizes and bytes, whatever they write,
\* wherever they seek and however often the buffer grows: a read hands out the last
\* bytes written at its position, zeros where nothing was, and only a clear or an
\* lseek that dies drops what was written.  NULL is no buffer.
THEOREM TapeTheorem ==
  ASSUME NullIsNone PROVE Spec => ImplementsTape
<1>1. Init => TypeOK /\ SemaphoreAccounted /\ Reach
  <2>1. Init => Reach
    BY RamdiskAssumption DEF Init, Reach, NoCall
  <2> QED BY <2>1, InitTypes
<1>2. Init => Tape!Init
  <2> SUFFICES ASSUME Init PROVE Tape!Init
    OBVIOUS
  <2>1. ASSUME NEW m \in Positions, data # NULL, m < buffer_size PROVE data[m] = 0
    <3>1. m \in 0 .. RamdiskSize - 1
      BY <2>1, RamdiskAssumption DEF Positions, Init
    <3> QED BY <2>1, <3>1 DEF Init, Kzalloc, Zeros
  <2> QED BY <2>1 DEF Init, Tape!Init, Tape!Blank, Nothing
<1>3. TypeOK /\ SemaphoreAccounted /\ Reach /\ [Next]_vars
        => /\ TypeOK' /\ SemaphoreAccounted' /\ Reach'
           /\ [Tape!Next]_<<[n \in Positions |-> IF data # NULL /\ n < buffer_size
                                                   THEN data[n] ELSE 0], done>>
  BY TypesStep, ReachStep, TapedStep DEF Taped, View
<1> QED BY <1>1, <1>2, <1>3, PTL DEF Spec, ImplementsTape, Tape!Spec
=============================================================================
