--------------------------- MODULE E2DriverProofs ---------------------------
(***************************************************************************)
(* Theorems about E2Driver for any sets of threads and files, as long as   *)
(* no signal is sent to a thread inside a call (MaxSignals = 0): its types *)
(* and mutual exclusion on sem1, and what the counters, sem2 and the files *)
(* are good for.  The last part, down to the deadlocks and the refinement  *)
(* of E2Gate, is about threads that do not share files.                    *)
(***************************************************************************)
EXTENDS E2Driver, SequenceTheorems, FiniteSetTheorems, TLAPS

Semaphore == [value : Nat, wait : Seq(Threads)]
Semaphores == [Modes -> Semaphore]
Labels == {"user", "locked1", "wants2", "has2", "copies", "copies_locked",
           "waits", "relocked", "took2"}
Critical == {"locked1", "relocked", "copies_locked", "took2"}
Calls ==
  {Idle} \union [op : {"open", "release", "read", "write", "mode1", "mode2"},
                 file : Files]

-----------------------------------------------------------------------------
\* Types.

\* up keeps the semaphores well typed.
LEMMA UpType ==
  ASSUME NEW S \in Semaphores, NEW s \in Modes
  PROVE  Up(S, s) \in Semaphores
<1>1. CASE S[s].wait = <<>>
  BY <1>1 DEF Up, Semaphores, Semaphore
<1>2. CASE S[s].wait # <<>>
  <2>1. Tail(S[s].wait) \in Seq(Threads)
    BY <1>2, HeadTailProperties DEF Semaphores, Semaphore
  <2> QED BY <1>2, <2>1 DEF Up, Semaphores, Semaphore
<1> QED BY <1>1, <1>2

\* up of one semaphore leaves the other alone.
LEMMA UpOther ==
  ASSUME NEW S \in Semaphores
  PROVE  Up(S, 2)[1] = S[1]
BY DEF Up, Semaphores, Semaphore, Modes, MODE1, MODE2

\* down keeps the semaphores well typed.
LEMMA DownType ==
  ASSUME sem \in Semaphores, NEW s \in Modes, NEW t \in Threads, Down(s, t)
  PROVE  sem' \in Semaphores
<1> DEFINE r == sem[s]
<1>1. r.value \in Nat /\ r.wait \in Seq(Threads) /\ Append(r.wait, t) \in Seq(Threads)
  BY AppendProperties DEF Semaphores, Semaphore
<1>2. CASE r.value > 0
  <2>1. r.value - 1 \in Nat
    BY <1>1, <1>2
  <2>2. [r EXCEPT !.value = @ - 1] \in Semaphore
    BY <1>1, <2>1 DEF Semaphores, Semaphore
  <2> QED BY <1>2, <2>2 DEF Down, Semaphores
<1>3. CASE ~ (r.value > 0)
  <2>1. [r EXCEPT !.wait = Append(@, t)] \in Semaphore
    BY <1>1 DEF Semaphores, Semaphore
  <2> QED BY <1>3, <2>1 DEF Down, Semaphores
<1> QED BY <1>2, <1>3

LEMMA DownOther ==
  ASSUME sem \in Semaphores, NEW t \in Threads, Down(2, t)
  PROVE  sem'[1] = sem[1]
BY DEF Down, Semaphores, Modes, MODE1, MODE2

\* No signal is ever pending.
Quiet == pending = {} /\ signals = 0

\* A thread inside a handler has an operation and a file.
InCall == \A t \in Threads : pc[t] # "user" => call[t] # Idle

Basic == TypeOK /\ Quiet /\ InCall

\* A thread that returns, or goes on to l, keeps pc and call well typed.
LEMMA MoveType ==
  ASSUME Basic, NEW t \in Threads, NEW l \in Labels, pc[t] # "user",
         Return(t) \/ Continue(t, l)
  PROVE  /\ pc' \in [Threads -> Labels]
         /\ (call \in [Threads -> Calls])'
         /\ Quiet' /\ InCall'
BY DEF Basic, InCall, TypeOK, Quiet, Return, Continue, Goto, Labels, Calls

\* A thread whose call is in a handler runs it on some file.
LEMMA CallingFile ==
  ASSUME Basic, NEW t \in Threads, pc[t] # "user"
  PROVE  call[t].file \in Files
BY DEF Basic, TypeOK, InCall, Idle

LEMMA InitType == Init /\ MaxSignals = 0 => Basic
<1> SUFFICES ASSUME Init, MaxSignals = 0 PROVE Basic
  OBVIOUS
<1>1. <<>> \in Seq(Threads)
  BY EmptySeq
<1> QED
  BY <1>1 DEF Init, Basic, InCall, TypeOK, Quiet, InitialMode, Modes, MODE1, MODE2

\* Every step keeps the types, and sends no signal.
LEMMA NextType ==
  ASSUME Basic, [Next]_vars
  PROVE  Basic'
<1> USE DEF Semaphores, Semaphore, Labels, device, files, interrupts
<1>0. sem \in Semaphores /\ Modes = {1, 2} /\ 1 \in Modes /\ 2 \in Modes
  BY DEF Basic, TypeOK, Modes, MODE1, MODE2
<1>1. CASE UNCHANGED vars
  BY <1>1 DEF Basic, TypeOK, Quiet, InCall, vars
<1>2. ASSUME NEW t \in Threads, NEW f \in Files, NEW op \in
         {"open", "release", "read", "write", "mode1", "mode2"},
         Enter(t, op, f), owner' \in [Files -> Threads \union {NoThread}]
      PROVE  Basic'
  <2>1. sem' \in Semaphores
    BY <1>0, <1>2, DownType DEF Enter
  <2> QED BY <1>2, <2>1 DEF Enter, Goto, Basic, TypeOK, Quiet, InCall, Idle
<1>3. ASSUME NEW t \in Threads, Call(t)
      PROVE  Basic'
  <2>1. ASSUME NEW f \in Files, CallOpen(t, f)
        PROVE  Basic'
    BY <1>2, <2>1 DEF CallOpen, Basic, TypeOK
  <2>2. ASSUME NEW f \in Files, CallRelease(t, f)
        PROVE  Basic'
    BY <1>2, <2>2 DEF CallRelease, Basic, TypeOK
  <2>3. ASSUME NEW f \in Files, NEW op \in {"read", "write", "mode1", "mode2"},
               CallOther(t, f, op)
        PROVE  Basic'
    BY <1>2, <2>3 DEF CallOther, Basic, TypeOK
  <2> QED BY <1>3, <2>1, <2>2, <2>3 DEF Call
<1>4. ASSUME NEW t \in Threads, NEW l \in Labels, Return(t) \/ Continue(t, l), pc[t] # "user",
             sem' \in Semaphores, mode' \in Modes, count' \in [Modes -> Int],
             queue' \in [Modes -> SUBSET Threads], opened' \in SUBSET Files,
             owner' \in [Files -> Threads \union {NoThread}]
      PROVE  Basic'
  <2>1. Quiet' /\ InCall' /\ pc' \in [Threads -> Labels] /\ (call \in [Threads -> Calls])'
    BY <1>4, MoveType
  <2> QED BY <1>4, <2>1 DEF Basic, TypeOK, Calls, Quiet
<1>5. ASSUME NEW t \in Threads, OpenLocked(t)
      PROVE  Basic'
  <2>1. sem' \in Semaphores /\ call[t].file \in Files
    BY <1>0, <1>5, UpType, CallingFile DEF OpenLocked, Basic, TypeOK, At
  <2>2. count' \in [Modes -> Int] /\ opened' \in SUBSET Files
    BY <1>5, <2>1 DEF OpenLocked, Basic, TypeOK
  <2>3. "wants2" \in Labels
    OBVIOUS
  <2> HIDE DEF Labels, Semaphores
  <2> QED
    BY <1>4, <1>5, <2>1, <2>2, <2>3 DEF OpenLocked, At, Basic, TypeOK
<1>6. ASSUME NEW t \in Threads, OpenTake2(t)
      PROVE  Basic'
  <2>1. sem' \in Semaphores
    BY <1>0, <1>6, DownType DEF OpenTake2
  <2>2. "has2" \in Labels
    OBVIOUS
  <2> HIDE DEF Labels, Semaphores
  <2> QED BY <1>4, <1>6, <2>1, <2>2 DEF OpenTake2, At, Basic, TypeOK
<1>7. ASSUME NEW t \in Threads, OpenReturn(t)
      PROVE  Basic'
  <2>1. call[t].file \in Files
    BY <1>7, CallingFile DEF OpenReturn, At
  <2>2. opened' \in SUBSET Files
    BY <1>7, <2>1 DEF OpenReturn, Basic, TypeOK
  <2>8. "user" \in Labels
    OBVIOUS
  <2> HIDE DEF Labels, Semaphores
  <2> QED BY <1>0, <1>4, <1>7, <2>2, <2>8 DEF OpenReturn, At, Basic, TypeOK
<1>8. ASSUME NEW t \in Threads, ReleaseLocked(t)
      PROVE  Basic'
  <2>1. sem' \in Semaphores
    BY <1>0, <1>8, UpType DEF ReleaseLocked, LeaveMode1
  <2>2. /\ count' \in [Modes -> Int]
        /\ queue' \in [Modes -> SUBSET Threads]
        /\ opened' \in SUBSET Files
        /\ owner' \in [Files -> Threads \union {NoThread}]
    BY <1>8, CallingFile DEF ReleaseLocked, At, WakeIf, Basic, TypeOK
  <2>8. "user" \in Labels
    OBVIOUS
  <2> HIDE DEF Labels, Semaphores
  <2> QED BY <1>4, <1>8, <2>1, <2>2, <2>8 DEF ReleaseLocked, At, Basic, TypeOK
<1>9. ASSUME NEW t \in Threads, TransferTooLong(t)
      PROVE  Basic'
  <2>1. sem' \in Semaphores
    BY <1>0, <1>9, UpType DEF TransferTooLong, Basic, TypeOK
  <2>8. "user" \in Labels
    OBVIOUS
  <2> HIDE DEF Labels, Semaphores
  <2> QED BY <1>4, <1>9, <2>1, <2>8 DEF TransferTooLong, At, Basic, TypeOK
<1>10. ASSUME NEW t \in Threads, TransferLocked(t)
      PROVE  Basic'
  <2>1. sem' \in Semaphores
    BY <1>0, <1>10, UpType DEF TransferLocked, Basic, TypeOK
  <2>8. "copies" \in Labels /\ "copies_locked" \in Labels
    OBVIOUS
  <2> HIDE DEF Labels, Semaphores
  <2> QED BY <1>4, <1>10, <2>1, <2>8 DEF TransferLocked, At, Basic, TypeOK
<1>11. ASSUME NEW t \in Threads, TransferEnd(t)
      PROVE  Basic'
  <2>1. sem' \in Semaphores
    BY <1>0, <1>11, UpType DEF TransferEnd, Basic, TypeOK
  <2>8. "user" \in Labels
    OBVIOUS
  <2> HIDE DEF Labels, Semaphores
  <2> QED BY <1>4, <1>11, <2>1, <2>8 DEF TransferEnd, At, Basic, TypeOK
<1>12. ASSUME NEW t \in Threads, SwitchRedundant(t)
      PROVE  Basic'
  <2>1. sem' \in Semaphores
    BY <1>0, <1>12, UpType DEF SwitchRedundant, Basic, TypeOK
  <2>8. "user" \in Labels
    OBVIOUS
  <2> HIDE DEF Labels, Semaphores
  <2> QED BY <1>4, <1>12, <2>1, <2>8 DEF SwitchRedundant, At, Basic, TypeOK
<1>13. ASSUME NEW t \in Threads, SwitchMustWait(t)
      PROVE  Basic'
  <2>1. sem' \in Semaphores
    BY <1>0, <1>13, UpType DEF SwitchMustWait, Basic, TypeOK
  <2>8. "waits" \in Labels
    OBVIOUS
  <2> HIDE DEF Labels, Semaphores
  <2> QED BY <1>4, <1>13, <2>1, <2>8 DEF SwitchMustWait, AtSwitchTest, At, Basic, TypeOK
<1>14. ASSUME NEW t \in Threads, SwitchWait(t)
      PROVE  Basic'
  <2>1. sem' \in Semaphores
    <3>1. CASE Relock(t)
      BY <1>0, <3>1, DownType DEF Relock
    <3>2. CASE UNCHANGED sem
      BY <1>0, <3>2
    <3> QED BY <1>14, <3>1, <3>2 DEF SwitchWait
  <2>2. queue' \in [Modes -> SUBSET Threads] /\ pc' \in [Threads -> Labels]
    <3>1. Other(Target(t)) \in Modes
      BY <1>0 DEF Other, Target, MODE1, MODE2
    <3>2. pc' \in [Threads -> Labels]
      BY <1>14 DEF SwitchWait, Goto, Basic, TypeOK
    <3>3. queue' = queue \/ queue' = [queue EXCEPT ![Other(Target(t))] = @ \union {t}]
      BY <1>14 DEF SwitchWait
    <3>4. queue' \in [Modes -> SUBSET Threads]
      <4>1. ASSUME NEW o \in Modes
            PROVE  [queue EXCEPT ![o] = @ \union {t}] \in [Modes -> SUBSET Threads]
        BY DEF Basic, TypeOK
      <4>2. queue \in [Modes -> SUBSET Threads]
        BY DEF Basic, TypeOK
      <4> QED BY <3>1, <3>3, <4>1, <4>2
    <3> QED BY <3>2, <3>4
  <2>3. pc[t] # "user" /\ UNCHANGED call
    BY <1>14 DEF SwitchWait, At
  <2>4. \A u \in Threads : u # t => pc'[u] = pc[u]
    BY <1>14 DEF SwitchWait, Goto, Basic, TypeOK
  <2>5. InCall'
    BY <2>3, <2>4 DEF Basic, InCall
  <2> QED BY <1>14, <2>1, <2>2, <2>5 DEF SwitchWait, Basic, TypeOK, Quiet
<1>15. ASSUME NEW t \in Threads, SwitchModes(t)
      PROVE  Basic'
  <2>1. sem' \in Semaphores
    <3>1. LeaveMode1(sem) \in Semaphores
      BY <1>0, UpType DEF LeaveMode1
    <3>2. Up(LeaveMode1(sem), 1) \in Semaphores
      BY <1>0, <3>1, UpType
    <3>3. CASE Down(2, t)
      BY <1>0, <3>3, DownType
    <3> QED BY <1>15, <3>2, <3>3 DEF SwitchModes
  <2>2. mode' \in Modes /\ count' \in [Modes -> Int]
    <3>1. Target(t) \in Modes /\ Other(Target(t)) \in Modes
      BY <1>0 DEF Other, Target, MODE1, MODE2
    <3> QED BY <1>15, <3>1 DEF SwitchModes, Moved, Basic, TypeOK
  <2>8. "took2" \in Labels
    OBVIOUS
  <2> HIDE DEF Labels, Semaphores
  <2> QED BY <1>4, <1>15, <2>1, <2>2, <2>8 DEF SwitchModes, AtSwitchTest, At, Basic, TypeOK
<1>16. ASSUME NEW t \in Threads, SwitchEnd(t)
      PROVE  Basic'
  <2>1. sem' \in Semaphores
    BY <1>0, <1>16, UpType DEF SwitchEnd, Basic, TypeOK
  <2>8. "user" \in Labels
    OBVIOUS
  <2> HIDE DEF Labels, Semaphores
  <2> QED BY <1>4, <1>16, <2>1, <2>8 DEF SwitchEnd, At, Basic, TypeOK
<1>17. ~ \E t \in Threads : Signal(t)
  BY DEF Basic, Quiet, Signal
<1> HIDE DEF Labels, Semaphores, Semaphore, device, files, interrupts
<1> QED
  BY <1>1, <1>3, <1>5, <1>6, <1>7, <1>8, <1>9, <1>10, <1>11, <1>12, <1>13, <1>14,
     <1>15, <1>16, <1>17 DEF Next, Step

\* Every variable keeps its type, in whatever order the handlers interleave.
THEOREM TypeCorrect ==
  ASSUME MaxSignals = 0
  PROVE  Spec => []TypeOK
<1>1. Init => Basic
  BY InitType
<1>2. Basic /\ [Next]_vars => Basic'
  BY NextType
<1> QED BY <1>1, <1>2, PTL DEF Spec, Basic

-----------------------------------------------------------------------------
\* Mutual exclusion.  What makes it inductive: sem1 counts one only while nobody
\* is past it and nobody queues on it, and the list of its waiters names each
\* thread once, at a label that down(sem1) leads to.

Holder(r, p, t) == p[t] \in Critical /\ \A i \in DOMAIN r.wait : r.wait[i] # t

LockInv(r, p) ==
  /\ r.value \in {0, 1}
  /\ r.value = 1 => r.wait = <<>> /\ \A t \in Threads : p[t] \notin Critical
  /\ \A t, u \in Threads : Holder(r, p, t) /\ Holder(r, p, u) => t = u
  /\ \A i, j \in DOMAIN r.wait : r.wait[i] = r.wait[j] => i = j
  /\ \A i \in DOMAIN r.wait : p[r.wait[i]] \in {"locked1", "relocked"}

\* A waiting list without its head, and with one more at its end.
LEMMA TailFacts ==
  ASSUME NEW w \in Seq(Threads), w # <<>>
  PROVE  /\ Len(w) \in Nat \ {0}
         /\ DOMAIN w = 1 .. Len(w)
         /\ DOMAIN Tail(w) = 1 .. Len(w) - 1
         /\ \A i \in 1 .. Len(w) - 1 : Tail(w)[i] = w[i + 1]
         /\ \A i \in 1 .. Len(w) : w[i] \in Threads
<1>1. Len(w) \in Nat /\ w \in [1 .. Len(w) -> Threads] /\ DOMAIN w = 1 .. Len(w)
  BY LenProperties
<1>2. Len(w) # 0
  BY EmptySeq
<1>3. /\ Tail(w) \in Seq(Threads) /\ Len(Tail(w)) = Len(w) - 1
      /\ \A i \in 1 .. Len(Tail(w)) : Tail(w)[i] = w[i + 1]
  BY HeadTailProperties
<1>4. DOMAIN Tail(w) = 1 .. Len(Tail(w))
  BY <1>3, LenProperties
<1> QED BY <1>1, <1>2, <1>3, <1>4

LEMMA AppendFacts ==
  ASSUME NEW w \in Seq(Threads), NEW t \in Threads
  PROVE  /\ DOMAIN Append(w, t) = 1 .. Len(w) + 1
         /\ Append(w, t)[Len(w) + 1] = t
         /\ \A i \in 1 .. Len(w) : Append(w, t)[i] = w[i]
<1>1. Append(w, t) \in Seq(Threads) /\ Len(Append(w, t)) = Len(w) + 1
  BY AppendProperties
<1> QED BY <1>1, AppendProperties, LenProperties

\* up(sem1) by its holder, on the way to a label outside every critical section.
LEMMA HolderUp ==
  ASSUME NEW S \in Semaphores, NEW p \in [Threads -> Labels], NEW t \in Threads,
         NEW l \in Labels \ Critical, LockInv(S[1], p), Holder(S[1], p, t)
  PROVE  LockInv(Up(S, 1)[1], [p EXCEPT ![t] = l])
<1> DEFINE r == S[1]
           q == Up(S, 1)[1]
           p1 == [p EXCEPT ![t] = l]
<1>1. r \in Semaphore /\ r.value = 0
  BY DEF LockInv, Holder, Semaphores, Semaphore, Modes, MODE1
<1>2. p1[t] \notin Critical /\ \A u \in Threads : u # t => p1[u] = p[u]
  OBVIOUS
<1>3. CASE r.wait = <<>>
  <2>1. q.value = 1 /\ q.wait = <<>>
    BY <1>1, <1>3 DEF Up, Semaphores, Semaphore, Modes, MODE1
  <2>2. \A u \in Threads : p[u] \in Critical => u = t
    BY <1>3 DEF LockInv, Holder
  <2> QED BY <1>2, <2>1, <2>2 DEF LockInv, Holder
<1>4. CASE r.wait # <<>>
  <2>1. q.value = 0 /\ q.wait = Tail(r.wait)
    BY <1>1, <1>4 DEF Up, Semaphores, Semaphore, Modes, MODE1
  <2>2. /\ Len(r.wait) \in Nat \ {0}
        /\ DOMAIN r.wait = 1 .. Len(r.wait)
        /\ DOMAIN q.wait = 1 .. Len(r.wait) - 1
        /\ \A i \in 1 .. Len(r.wait) - 1 : q.wait[i] = r.wait[i + 1]
        /\ \A i \in 1 .. Len(r.wait) : r.wait[i] \in Threads
    BY <1>1, <1>4, <2>1, TailFacts DEF Semaphore
  <2>Shift. \A i \in DOMAIN q.wait :
              i \in Int /\ i + 1 \in DOMAIN r.wait /\ q.wait[i] = r.wait[i + 1]
    <3> HIDE DEF r, q, p1
    <3> QED BY <2>2
  <2>3. \A i \in DOMAIN r.wait : r.wait[i] # t
    BY DEF Holder
  <2>4. \A u \in Threads : Holder(q, p1, u) => u = r.wait[1]
    <3> SUFFICES ASSUME NEW u \in Threads, Holder(q, p1, u), u # r.wait[1]
                 PROVE  FALSE
      OBVIOUS
    <3>1. u # t /\ p[u] \in Critical
      BY <1>2 DEF Holder
    <3>2. \A i \in 2 .. Len(r.wait) : r.wait[i] = q.wait[i - 1] /\ i - 1 \in DOMAIN q.wait
      BY <2>2
    <3>3. \A i \in DOMAIN r.wait : r.wait[i] # u
      <4>1. \A j \in DOMAIN q.wait : q.wait[j] # u
        BY DEF Holder
      <4>2. \A i \in 1 .. Len(r.wait) : i = 1 \/ i \in 2 .. Len(r.wait)
        BY <2>2
      <4> HIDE DEF q
      <4> QED BY <2>2, <3>2, <4>1, <4>2
    <3>4. Holder(r, p, u)
      BY <3>1, <3>3 DEF Holder
    <3> QED BY <3>1, <3>4 DEF LockInv
  <2>5. \A i, j \in DOMAIN q.wait : q.wait[i] = q.wait[j] => i = j
    <3>1. \A i, j \in DOMAIN r.wait : r.wait[i] = r.wait[j] => i = j
      BY DEF LockInv
    <3> HIDE DEF r, q
    <3>2. ASSUME NEW i \in DOMAIN q.wait, NEW j \in DOMAIN q.wait, q.wait[i] = q.wait[j]
          PROVE  i = j
      <4>1. i + 1 = j + 1
        BY <2>Shift, <3>1, <3>2
      <4> QED BY <2>Shift, <4>1
    <3> QED BY <3>2
  <2>6. \A i \in DOMAIN q.wait : p1[q.wait[i]] \in {"locked1", "relocked"}
    <3>1. \A i \in DOMAIN r.wait : p[r.wait[i]] \in {"locked1", "relocked"}
      BY DEF LockInv
    <3> HIDE DEF r, q, p1
    <3> QED BY <1>2, <2>2, <2>3, <2>Shift, <3>1
  <2>7. \A u, v \in Threads : Holder(q, p1, u) /\ Holder(q, p1, v) => u = v
    BY <2>4
  <2>8. LockInv(q, p1)
    <3> HIDE DEF q, p1
    <3> QED BY <2>1, <2>5, <2>6, <2>7 DEF LockInv
  <2> QED BY <2>8
<1> QED BY <1>3, <1>4

\* down(sem1) from outside every critical section: t enters, or joins the list.
LEMMA OutsiderDown ==
  ASSUME Basic, NEW t \in Threads, LockInv(sem[1], pc), Down(1, t),
         pc[t] \notin Critical, NEW l \in {"locked1", "relocked"}
  PROVE  LockInv(sem'[1], [pc EXCEPT ![t] = l])
<1> DEFINE r == sem[1]
           q == sem'[1]
           p1 == [pc EXCEPT ![t] = l]
<1>1. r \in Semaphore /\ pc \in [Threads -> Labels] /\ t \notin pending
  BY DEF Basic, TypeOK, Quiet, Semaphore, Modes, MODE1, Labels
<1>2. p1[t] = l /\ l \in Critical /\ \A u \in Threads : u # t => p1[u] = pc[u]
  BY <1>1 DEF Critical
<1>3. /\ DOMAIN r.wait = 1 .. Len(r.wait) /\ Len(r.wait) \in Nat
      /\ \A i \in DOMAIN r.wait : r.wait[i] \in Threads /\ r.wait[i] # t
  BY <1>1, ElementOfSeq, LenProperties DEF Semaphore, LockInv, Critical
<1>4. CASE r.value > 0
  <2>1. q.value = 0 /\ q.wait = <<>> /\ r.value = 1
    BY <1>1, <1>4 DEF Down, LockInv, Basic, TypeOK, Modes, MODE1, Semaphore
  <2> QED BY <1>2, <2>1 DEF LockInv, Holder
<1>5. CASE ~ (r.value > 0)
  <2>1. q.value = 0 /\ q.wait = Append(r.wait, t)
    BY <1>1, <1>5 DEF Down, LockInv, Basic, TypeOK, Modes, MODE1, Semaphore
  <2>2. /\ DOMAIN q.wait = 1 .. Len(r.wait) + 1
        /\ q.wait[Len(r.wait) + 1] = t
        /\ \A i \in 1 .. Len(r.wait) : q.wait[i] = r.wait[i]
    BY <1>1, <2>1, AppendFacts DEF Semaphore
  <2>3. \A u \in Threads : Holder(q, p1, u) => Holder(r, pc, u)
    BY <1>2, <1>3, <2>2 DEF Holder
  <2>4. \A i \in DOMAIN q.wait : i = Len(r.wait) + 1 \/ i \in DOMAIN r.wait
    BY <1>3, <2>2
  <2>5. \A i, j \in DOMAIN q.wait : q.wait[i] = q.wait[j] => i = j
    <3>1. \A i, j \in DOMAIN r.wait : r.wait[i] = r.wait[j] => i = j
      BY DEF LockInv
    <3> HIDE DEF r, q
    <3> QED BY <1>3, <2>2, <2>4, <3>1
  <2>6. \A i \in DOMAIN q.wait : p1[q.wait[i]] \in {"locked1", "relocked"}
    <3>1. \A i \in DOMAIN r.wait : pc[r.wait[i]] \in {"locked1", "relocked"}
      BY DEF LockInv
    <3> HIDE DEF r, q, p1
    <3> QED BY <1>2, <1>3, <2>2, <2>4, <3>1
  <2>7. \A u, v \in Threads : Holder(q, p1, u) /\ Holder(q, p1, v) => u = v
    BY <2>3 DEF LockInv
  <2>8. LockInv(q, p1)
    <3> HIDE DEF q, p1
    <3> QED BY <2>1, <2>5, <2>6, <2>7 DEF LockInv
  <2> QED BY <2>8
<1> QED BY <1>4, <1>5

\* A step that leaves sem1 alone: a holder stays in a critical section, or t was
\* outside and stays outside.
LEMMA LockUntouched ==
  ASSUME NEW r \in Semaphore, NEW p \in [Threads -> Labels], NEW t \in Threads,
         NEW l \in Labels, LockInv(r, p),
         \/ Holder(r, p, t)
         \/ p[t] \notin Critical /\ l \notin Critical
  PROVE  LockInv(r, [p EXCEPT ![t] = l])
<1> DEFINE p1 == [p EXCEPT ![t] = l]
<1>1. p1[t] = l /\ \A u \in Threads : u # t => p1[u] = p[u]
  OBVIOUS
<1>2. \A i \in DOMAIN r.wait : r.wait[i] \in Threads /\ r.wait[i] # t
  BY ElementOfSeq, LenProperties DEF Semaphore, LockInv, Critical, Holder
<1>3. \A u \in Threads : Holder(r, p1, u) => Holder(r, p, u)
  BY <1>1 DEF Holder
<1> QED BY <1>1, <1>2, <1>3 DEF LockInv, Holder

\* A running thread at a critical label holds sem1.
LEMMA RunningHolds ==
  ASSUME NEW t \in Threads, Running(t), pc[t] \in Critical
  PROVE  Holder(sem[1], pc, t)
BY DEF Running, Waiters, Holder, Modes, MODE1

\* How a step of thread t treats sem1 and its own label.
FreesSem1(t) ==
  /\ Holder(sem[1], pc, t)
  /\ sem'[1] = Up(sem, 1)[1]
  /\ \E l \in Labels \ Critical : pc' = [pc EXCEPT ![t] = l]

TakesSem1(t) ==
  /\ pc[t] \notin Critical
  /\ Down(1, t)
  /\ \E l \in {"locked1", "relocked"} : pc' = [pc EXCEPT ![t] = l]

KeepsSem1(t) ==
  /\ sem'[1] = sem[1]
  /\ \E l \in Labels :
       /\ pc' = [pc EXCEPT ![t] = l]
       /\ \/ Holder(sem[1], pc, t) /\ l \in Critical
          \/ pc[t] \notin Critical /\ l \notin Critical

LEMMA LockStep ==
  ASSUME Basic, LockInv(sem[1], pc), NEW t \in Threads,
         FreesSem1(t) \/ TakesSem1(t) \/ KeepsSem1(t)
  PROVE  LockInv(sem[1], pc)'
<1>1. sem \in Semaphores /\ sem[1] \in Semaphore /\ pc \in [Threads -> Labels]
  BY DEF Basic, TypeOK, Semaphores, Semaphore, Modes, MODE1, Labels
<1>2. ASSUME FreesSem1(t) PROVE LockInv(sem'[1], pc')
  <2>1. PICK l \in Labels \ Critical : pc' = [pc EXCEPT ![t] = l]
    BY <1>2 DEF FreesSem1
  <2>2. LockInv(Up(sem, 1)[1], [pc EXCEPT ![t] = l])
    BY <1>1, <1>2, HolderUp DEF FreesSem1
  <2> QED BY <1>2, <2>1, <2>2 DEF FreesSem1
<1>3. ASSUME TakesSem1(t) PROVE LockInv(sem'[1], pc')
  <2>1. PICK l \in {"locked1", "relocked"} : pc' = [pc EXCEPT ![t] = l]
    BY <1>3 DEF TakesSem1
  <2> QED BY <1>3, <2>1, OutsiderDown DEF TakesSem1
<1>4. ASSUME KeepsSem1(t) PROVE LockInv(sem'[1], pc')
  <2>1. PICK l \in Labels :
          /\ pc' = [pc EXCEPT ![t] = l]
          /\ \/ Holder(sem[1], pc, t) /\ l \in Critical
             \/ pc[t] \notin Critical /\ l \notin Critical
    BY <1>4 DEF KeepsSem1
  <2>2. LockInv(sem[1], [pc EXCEPT ![t] = l])
    BY <1>1, <2>1, LockUntouched
  <2> QED BY <1>4, <2>1, <2>2 DEF KeepsSem1
<1>5. LockInv(sem'[1], pc')
  BY <1>2, <1>3, <1>4
<1> QED BY <1>5

\* Every step of a thread is of one of the three kinds.
LEMMA StepKind ==
  ASSUME Basic, LockInv(sem[1], pc), NEW t \in Threads, Call(t) \/ Step(t)
  PROVE  FreesSem1(t) \/ TakesSem1(t) \/ KeepsSem1(t)
<1>1. sem \in Semaphores /\ sem[1] \in Semaphore /\ pc \in [Threads -> Labels]
  BY DEF Basic, TypeOK, Semaphores, Semaphore, Modes, MODE1, Labels
<1> USE DEF Labels, Critical, At, Goto, Return, Continue
<1>2. CASE Call(t)
  BY <1>2 DEF Call, CallOpen, CallRelease, CallOther, Enter, TakesSem1
<1>3. CASE OpenLocked(t)
  BY <1>3, RunningHolds DEF OpenLocked, FreesSem1
<1>4. CASE OpenTake2(t)
  BY <1>1, <1>4, DownOther DEF OpenTake2, KeepsSem1
<1>5. CASE OpenReturn(t)
  BY <1>5 DEF OpenReturn, KeepsSem1
<1>6. CASE ReleaseLocked(t)
  <2>1. Up(Up(sem, 2), 1)[1] = Up(sem, 1)[1]
    BY <1>1, UpOther DEF Up, Semaphores, Semaphore, Modes, MODE1, MODE2
  <2> QED BY <1>6, <2>1, RunningHolds DEF ReleaseLocked, LeaveMode1, FreesSem1
<1>7. CASE TransferTooLong(t)
  BY <1>7, RunningHolds DEF TransferTooLong, FreesSem1
<1>8. CASE TransferLocked(t)
  <2>1. Holder(sem[1], pc, t)
    BY <1>8, RunningHolds DEF TransferLocked
  <2>2. CASE sem' = Up(sem, 1) /\ Continue(t, "copies")
    BY <2>1, <2>2 DEF FreesSem1
  <2>3. CASE UNCHANGED sem /\ Continue(t, "copies_locked")
    <3>1. "copies_locked" \in Labels /\ "copies_locked" \in Critical
      OBVIOUS
    <3>2. pc' = [pc EXCEPT ![t] = "copies_locked"] /\ sem'[1] = sem[1]
      BY <2>3, <3>1
    <3> HIDE DEF Labels, Critical, Holder
    <3> QED BY <2>1, <3>1, <3>2 DEF KeepsSem1
  <2> QED BY <1>8, <2>2, <2>3 DEF TransferLocked
<1>9. CASE TransferEnd(t)
  BY <1>9, RunningHolds DEF TransferEnd, FreesSem1, KeepsSem1
<1>10. CASE SwitchRedundant(t)
  BY <1>10, RunningHolds DEF SwitchRedundant, FreesSem1
<1>11. CASE SwitchMustWait(t)
  BY <1>11, RunningHolds DEF SwitchMustWait, AtSwitchTest, FreesSem1
<1>12. CASE SwitchWait(t)
  <2>1. CASE Relock(t) /\ pc' = [pc EXCEPT ![t] = "relocked"]
    BY <1>12, <2>1 DEF SwitchWait, Relock, TakesSem1
  <2>2. CASE UNCHANGED <<sem, pc>>
    BY <1>1, <1>12, <2>2 DEF SwitchWait, KeepsSem1
  <2> QED BY <1>12, <2>1, <2>2 DEF SwitchWait
<1>13. CASE SwitchModes(t)
  <2>1. Holder(sem[1], pc, t)
    BY <1>13, RunningHolds DEF SwitchModes, AtSwitchTest
  <2>2. CASE sem' = Up(LeaveMode1(sem), 1) /\ Return(t)
    <3>1. Up(Up(sem, 2), 1)[1] = Up(sem, 1)[1]
      BY <1>1, UpOther DEF Up, Semaphores, Semaphore, Modes, MODE1, MODE2
    <3> QED BY <2>1, <2>2, <3>1 DEF LeaveMode1, FreesSem1
  <2>3. CASE Down(2, t) /\ Continue(t, "took2")
    <3>1. "took2" \in Labels /\ "took2" \in Critical /\ sem'[1] = sem[1]
      BY <1>1, <2>3, DownOther
    <3>2. pc' = [pc EXCEPT ![t] = "took2"] /\ sem'[1] = sem[1]
      BY <2>3, <3>1
    <3> HIDE DEF Labels, Critical, Holder
    <3> QED BY <2>1, <3>1, <3>2 DEF KeepsSem1
  <2> QED BY <1>13, <2>2, <2>3 DEF SwitchModes
<1>14. CASE SwitchEnd(t)
  BY <1>14, RunningHolds DEF SwitchEnd, FreesSem1
<1> QED
  BY <1>2, <1>3, <1>4, <1>5, <1>6, <1>7, <1>8, <1>9, <1>10, <1>11, <1>12, <1>13,
     <1>14 DEF Step

\* The inductive invariant of sem1, and that every step keeps it.
Sem1Inv == Basic /\ LockInv(sem[1], pc)

LEMMA InitSem1 == Init /\ MaxSignals = 0 => Sem1Inv
<1> SUFFICES ASSUME Init, MaxSignals = 0 PROVE Sem1Inv
  OBVIOUS
<1>1. sem[1].value = 1 /\ sem[1].wait = <<>> /\ DOMAIN sem[1].wait = {}
  BY DEF Init, Modes, MODE1
<1>2. \A t \in Threads : pc[t] \notin Critical
  BY DEF Init, Critical
<1> QED BY <1>1, <1>2, InitType DEF LockInv, Holder, Sem1Inv

LEMMA NextSem1 == Sem1Inv /\ [Next]_vars => Sem1Inv'
<1> SUFFICES ASSUME Sem1Inv, [Next]_vars PROVE Sem1Inv'
  OBVIOUS
<1> USE DEF Sem1Inv
<1>1. Basic'
  BY NextType
<1>2. CASE UNCHANGED vars
  BY <1>1, <1>2 DEF vars, LockInv, Holder
<1>3. ASSUME NEW t \in Threads, Call(t) \/ Step(t)
      PROVE  LockInv(sem[1], pc)'
  BY <1>3, StepKind, LockStep
<1>4. ~ \E t \in Threads : Signal(t)
  BY DEF Basic, Quiet, Signal
<1> QED BY <1>1, <1>2, <1>3, <1>4 DEF Next

\* sem1 excludes, for any number of threads and files, whether or not they share
\* files: at most one thread is between down(sem1) and up(sem1) in any handler.
THEOREM MutualExclusionHolds ==
  ASSUME MaxSignals = 0
  PROVE  Spec => []MutualExclusion
<1>1. Init => Sem1Inv
  BY InitSem1
<1>2. Sem1Inv /\ [Next]_vars => Sem1Inv'
  BY NextSem1
<1>3. Sem1Inv => MutualExclusion
  <2> SUFFICES ASSUME Sem1Inv, NEW t \in Threads, HoldsSem1(t)
               PROVE  Holder(sem[1], pc, t)
    BY DEF LockInv, MutualExclusion, Sem1Inv
  <2> QED BY DEF HoldsSem1, Waiters, Holder, Critical
<1> QED BY <1>1, <1>2, <1>3, PTL DEF Spec

-----------------------------------------------------------------------------
\* The second part: what the counters, sem2 and the files are good for.  Everything
\* down to "Threads that do not share files" holds whether or not threads do.

\* The operation of a thread's call goes with the label the thread is at.
Role(l, c) ==
  /\ l = "user" <=> c = Idle
  /\ l \in {"wants2", "has2"} => c.op = "open"
  /\ l \in {"copies", "copies_locked"} => c.op \in {"read", "write"}
  /\ l = "waits" => c.op \in {"mode1", "mode2"}
  /\ l \in {"relocked", "took2"} => c.op = "mode1"

Roles == \A t \in Threads : Role(pc[t], call[t])

\* The operations on a file that is open.
UsesOpen == {"release", "read", "write", "mode1", "mode2"}

\* A file that is being opened belongs to its opener and to no other call; one in
\* use is open; the last reference is dropped by a call that is alone on the file.
FileUse ==
  /\ \A t \in Threads : call[t].op = "open" =>
       owner[call[t].file] = t /\ call[t].file \notin opened
  /\ \A t \in Threads : call[t].op \in UsesOpen => call[t].file \in opened
  /\ \A t, u \in Threads :
       call[t].op = "release" /\ call[u].file = call[t].file => u = t
  /\ \A f \in opened : owner[f] # NoThread

\* The openers that have sem2.
Passed == {t \in Threads : pc[t] = "has2" /\ t \notin Waiters(2)}

\* Who has sem2 in MODE1: nobody, the one open file, or the one file being opened.
Token ==
  \/ sem[2].value = 1 /\ sem[2].wait = <<>> /\ opened = {} /\ Passed = {}
  \/ /\ sem[2].value = 0
     /\ \/ (\E f \in Files : opened = {f}) /\ Passed = {}
        \/ opened = {} /\ \E t \in Threads : Passed = {t}

Sem2Inv ==
  /\ \A i, j \in DOMAIN sem[2].wait : sem[2].wait[i] = sem[2].wait[j] => i = j
  /\ \A i \in DOMAIN sem[2].wait : pc[sem[2].wait[i]] \in {"has2", "took2"}
  /\ mode = 1 => Token
  /\ mode = 2 => /\ sem[2].value = 1 /\ sem[2].wait = <<>>
                 /\ \A t \in Threads : pc[t] \notin {"wants2", "has2"}

\* A switch to MODE1 waits for sem2 with sem1 held: nothing moves the counters
\* any more.
Broken == \E b \in Threads : pc[b] = "took2" /\ b \in Waiters(2)

CountInv ==
  IF Broken THEN mode = 1 /\ count[2] = -1 ELSE count[Other(mode)] = 0

Conserved ==
  IsFiniteSet(Counted) /\ count[1] + count[2] = Cardinality(Counted)

\* A switch to MODE2 sleeps while an opener waits for its sem2.
Wait2 ==
  \A t \in Threads : pc[t] = "waits" /\ call[t].op = "mode2" => mode = 1 /\ count[1] > 1

GateInv == Sem1Inv /\ Roles /\ FileUse /\ Sem2Inv /\ CountInv /\ Conserved /\ Wait2

-----------------------------------------------------------------------------
\* The kinds of steps.

Moves(t, l, c) == pc' = [pc EXCEPT ![t] = l] /\ call' = [call EXCEPT ![t] = c]

\* Thread t begins a call.
Starts(t) ==
  /\ pc[t] = "user"
  /\ UNCHANGED <<mode, count, opened>> /\ sem'[2] = sem[2]
  /\ \E f \in Files :
       \/ /\ owner[f] = NoThread /\ owner' = [owner EXCEPT ![f] = t]
          /\ Moves(t, "locked1", [op |-> "open", file |-> f])
       \/ /\ MayUse(t, f) /\ owner' = owner
          /\ \A u \in Threads : call[u].file # f
          /\ Moves(t, "locked1", [op |-> "release", file |-> f])
       \/ /\ MayUse(t, f) /\ owner' = owner
          /\ \A u \in Threads : call[u].file = f => call[u].op # "release"
          /\ \E op \in {"read", "write", "mode1", "mode2"} :
               Moves(t, "locked1", [op |-> op, file |-> f])

\* Thread t goes on in its call, or returns from it, and touches neither the mode,
\* the counters, the open files nor sem2.
Passes(t) ==
  /\ UNCHANGED <<mode, count, opened, owner>> /\ sem'[2] = sem[2]
  /\ t \notin Waiters(2)
  /\ pc[t] \notin {"user", "wants2", "has2"}
  /\ \/ Moves(t, "user", Idle)
     \/ /\ call[t].op \in {"read", "write"} /\ pc[t] = "locked1"
        /\ \/ mode = 1 /\ Moves(t, "copies", call[t])
           \/ mode # 1 /\ Moves(t, "copies_locked", call[t])
     \/ /\ call[t].op \in {"mode1", "mode2"}
        /\ \/ pc[t] = "locked1" /\ mode # Target(t) /\ count[Other(Target(t))] > 1
           \/ pc[t] \in {"waits", "relocked"}
        /\ Moves(t, "waits", call[t])
     \/ /\ pc[t] = "waits" /\ count[Other(Target(t))] = 1
        /\ Moves(t, "relocked", call[t])

\* What the types say, in one place.
LEMMA Shapes ==
  ASSUME Basic
  PROVE  /\ Modes = {1, 2} /\ mode \in {1, 2} /\ count \in [{1, 2} -> Int]
         /\ sem \in Semaphores /\ sem[1] \in Semaphore /\ sem[2] \in Semaphore
         /\ pc \in [Threads -> Labels] /\ call \in [Threads -> Calls]
         /\ opened \subseteq Files /\ owner \in [Files -> Threads \union {NoThread}]
         /\ pending = {}
         /\ queue \in [Modes -> SUBSET Threads]
BY DEF Basic, TypeOK, Quiet, Modes, MODE1, MODE2, Semaphores, Semaphore, Labels, Calls

\* The other semaphore.
LEMMA Up1Keeps2 ==
  ASSUME NEW S \in Semaphores
  PROVE  Up(S, 1)[2] = S[2]
BY DEF Up, Semaphores, Modes, MODE1, MODE2

LEMMA Down1Keeps2 ==
  ASSUME sem \in Semaphores, NEW t \in Threads, Down(1, t)
  PROVE  sem'[2] = sem[2]
BY DEF Down, Semaphores, Modes, MODE1, MODE2

\* How a thread's pc and call move.
LEMMA ReturnMoves ==
  ASSUME NEW t \in Threads, Return(t)
  PROVE  Moves(t, "user", Idle)
BY DEF Return, Goto, Moves

LEMMA ContinueMoves ==
  ASSUME Basic, NEW t \in Threads, NEW l, Continue(t, l)
  PROVE  Moves(t, l, call[t])
<1>1. call = [call EXCEPT ![t] = call[t]]
  BY Shapes
<1> QED BY <1>1 DEF Continue, Goto, Moves

\* A running thread waits for neither semaphore and sleeps on no queue.
LEMMA RunningFree ==
  ASSUME NEW t, Running(t)
  PROVE  t \notin Waiters(1) /\ t \notin Waiters(2)
BY DEF Running, Modes, MODE1, MODE2

\* Every step of a thread begins a call, passes, or is one of the five that move
\* the mode, the counters, the open files or sem2.
LEMMA StepClass ==
  ASSUME Basic, Roles, NEW t \in Threads, Call(t) \/ Step(t)
  PROVE  \/ Starts(t) \/ Passes(t)
         \/ OpenLocked(t) \/ OpenTake2(t) \/ OpenReturn(t)
         \/ ReleaseLocked(t) \/ SwitchModes(t)
<1>1. /\ sem \in Semaphores /\ Up(sem, 1)[2] = sem[2] /\ pending = {}
      /\ Down(1, t) => sem'[2] = sem[2]
  BY Shapes, Up1Keeps2, Down1Keeps2
<1>2. Running(t) => t \notin Waiters(2)
  BY RunningFree
<1>3. Return(t) => Moves(t, "user", Idle)
  BY ReturnMoves
<1>4. Role(pc[t], call[t])
  BY DEF Roles
<1> USE DEF At, device, files, interrupts
<1>5. CASE Call(t)
  <2>1. PICK f \in Files :
          \/ CallOpen(t, f)
          \/ CallRelease(t, f)
          \/ \E op \in {"read", "write", "mode1", "mode2"} : CallOther(t, f, op)
    BY <1>5 DEF Call
  <2>2. ASSUME NEW op, Enter(t, op, f)
        PROVE  /\ pc[t] = "user" /\ UNCHANGED <<mode, count, opened>> /\ sem'[2] = sem[2]
               /\ Moves(t, "locked1", [op |-> op, file |-> f])
    BY <1>1, <2>2 DEF Enter, Moves, Goto
  <2>3. CASE CallOpen(t, f)
    BY <2>2, <2>3 DEF CallOpen, Starts
  <2>4. CASE CallRelease(t, f)
    BY <2>2, <2>4 DEF CallRelease, Starts
  <2>5. CASE \E op \in {"read", "write", "mode1", "mode2"} : CallOther(t, f, op)
    BY <2>2, <2>5 DEF CallOther, Starts
  <2> QED BY <2>1, <2>3, <2>4, <2>5
<1>6. CASE TransferTooLong(t) \/ SwitchRedundant(t)
  BY <1>1, <1>2, <1>3, <1>6 DEF TransferTooLong, SwitchRedundant, Passes
<1>7. CASE TransferLocked(t)
  <2>1. /\ UNCHANGED <<mode, count, opened, owner>> /\ sem'[2] = sem[2]
        /\ t \notin Waiters(2) /\ pc[t] = "locked1" /\ call[t].op \in {"read", "write"}
    BY <1>1, <1>2, <1>7 DEF TransferLocked
  <2>2. \/ mode = 1 /\ Moves(t, "copies", call[t])
        \/ mode # 1 /\ Moves(t, "copies_locked", call[t])
    BY <1>7, ContinueMoves DEF TransferLocked, UnlocksFirst, MODE1
  <2> QED BY <2>1, <2>2 DEF Passes
<1>8. CASE TransferEnd(t)
  BY <1>1, <1>2, <1>3, <1>8 DEF TransferEnd, Passes
<1>9. CASE SwitchMustWait(t)
  <2>1. /\ UNCHANGED <<mode, count, opened, owner>> /\ sem'[2] = sem[2]
        /\ t \notin Waiters(2) /\ pc[t] \in {"locked1", "relocked"}
    BY <1>1, <1>2, <1>9 DEF SwitchMustWait, AtSwitchTest
  <2>2. Moves(t, "waits", call[t])
    BY <1>9, ContinueMoves DEF SwitchMustWait
  <2>3. /\ call[t].op \in {"mode1", "mode2"}
        /\ \/ pc[t] = "locked1" /\ mode # Target(t) /\ count[Other(Target(t))] > 1
           \/ pc[t] = "relocked"
    BY <1>4, <1>9 DEF SwitchMustWait, AtSwitchTest, Crowded, Role
  <2> QED BY <2>1, <2>2, <2>3 DEF Passes
<1>10. CASE SwitchWait(t)
  <2>1. /\ UNCHANGED <<mode, count, opened, owner, call>>
        /\ t \notin Waiters(2) /\ pc[t] = "waits" /\ call[t].op \in {"mode1", "mode2"}
    BY <1>2, <1>4, <1>10 DEF SwitchWait, Role
  <2>2. call = [call EXCEPT ![t] = call[t]] /\ pc = [pc EXCEPT ![t] = pc[t]]
    BY Shapes
  <2>3. CASE Awake(t, Other(Target(t))) /\ Relock(t) /\ Goto(t, "relocked")
    <3>1. sem'[2] = sem[2] /\ count[Other(Target(t))] = 1
      BY <1>1, <2>3 DEF Relock, Awake
    <3>2. Moves(t, "relocked", call[t])
      BY <2>1, <2>2, <2>3 DEF Goto, Moves
    <3> QED BY <2>1, <3>1, <3>2 DEF Passes
  <2>4. CASE UNCHANGED <<sem, pc>>
    <3>1. Moves(t, "waits", call[t]) /\ sem'[2] = sem[2]
      BY <2>1, <2>2, <2>4 DEF Moves
    <3> QED BY <2>1, <3>1 DEF Passes
  <2> QED BY <1>10, <2>3, <2>4 DEF SwitchWait
<1>11. CASE SwitchEnd(t)
  BY <1>1, <1>2, <1>3, <1>11 DEF SwitchEnd, Passes
<1> QED
  BY <1>5, <1>6, <1>7, <1>8, <1>9, <1>10, <1>11 DEF Step
-----------------------------------------------------------------------------
\* Labels and operations.

\* Thread t moves to a label that goes with its call.
LEMMA RolesMove ==
  ASSUME Basic, Roles, NEW t \in Threads, NEW l, NEW c, Moves(t, l, c), Role(l, c)
  PROVE  Roles'
<1>1. ASSUME NEW u \in Threads
      PROVE  Role(pc'[u], call'[u])
  <2>1. CASE u = t
    <3>1. pc'[u] = l /\ call'[u] = c
      BY <2>1, Shapes DEF Moves
    <3> QED BY <3>1
  <2>2. CASE u # t
    <3>1. pc'[u] = pc[u] /\ call'[u] = call[u]
      BY <2>2, Shapes DEF Moves
    <3> QED BY <3>1 DEF Roles
  <2> QED BY <2>1, <2>2
<1> QED BY <1>1 DEF Roles, Role

\* Every step of a thread is such a move, and so keeps the labels in order.
LEMMA RolesStep ==
  ASSUME Basic, Roles, Wait2, NEW t \in Threads, Call(t) \/ Step(t)
  PROVE  Roles'
<1>1. Role(pc[t], call[t]) /\ Role("user", Idle)
  BY DEF Roles, Role, Idle
<1> USE DEF At
<1>2. CASE Starts(t)
  <2>1. ASSUME NEW op, NEW f \in Files
        PROVE  Role("locked1", [op |-> op, file |-> f])
    BY NoFileAssumption DEF Role, Idle
  <2> QED BY <1>2, <2>1, RolesMove DEF Starts
<1>3. CASE Passes(t)
  <2>1. CASE Moves(t, "user", Idle)
    BY <1>1, <2>1, RolesMove
  <2>2. ASSUME NEW l, Moves(t, l, call[t]), Role(l, call[t])
        PROVE  Roles'
    BY <2>2, RolesMove
  <2>3. call[t].op \in {"read", "write"} =>
          Role("copies", call[t]) /\ Role("copies_locked", call[t])
    BY DEF Role, Idle
  <2>4. call[t].op \in {"mode1", "mode2"} => Role("waits", call[t])
    BY DEF Role, Idle
  <2>5. pc[t] = "waits" /\ count[Other(Target(t))] = 1 => Role("relocked", call[t])
    <3> SUFFICES ASSUME pc[t] = "waits", count[Other(Target(t))] = 1
                 PROVE  call[t].op = "mode1" /\ call[t] # Idle
      BY DEF Role
    <3>1. call[t].op \in {"mode1", "mode2"} /\ call[t] # Idle
      BY <1>1 DEF Role
    <3>2. ASSUME call[t].op = "mode2" PROVE FALSE
      <4>1. Other(Target(t)) = 1
        BY <3>2 DEF Other, Target, MODE1, MODE2
      <4> QED BY <3>2, <4>1 DEF Wait2
    <3> QED BY <3>1, <3>2
  <2> QED BY <1>3, <2>1, <2>2, <2>3, <2>4, <2>5 DEF Passes
<1>4. CASE OpenLocked(t)
  <2>1. call[t].op = "open" /\ pc[t] = "locked1"
    BY <1>4 DEF OpenLocked
  <2>2. Role("wants2", call[t])
    BY <1>1, <2>1 DEF Role
  <2>3. Moves(t, "wants2", call[t]) \/ Moves(t, "user", Idle)
    BY <1>4, ReturnMoves, ContinueMoves DEF OpenLocked
  <2> QED BY <1>1, <2>2, <2>3, RolesMove
<1>5. CASE OpenTake2(t)
  <2>1. Role("has2", call[t])
    BY <1>1, <1>5 DEF OpenTake2, Role
  <2>2. Moves(t, "has2", call[t])
    BY <1>5, ContinueMoves DEF OpenTake2
  <2> QED BY <2>1, <2>2, RolesMove
<1>6. CASE OpenReturn(t) \/ ReleaseLocked(t)
  BY <1>1, <1>6, ReturnMoves, RolesMove DEF OpenReturn, ReleaseLocked
<1>7. CASE SwitchModes(t)
  <2>1. CASE Return(t)
    BY <1>1, <2>1, ReturnMoves, RolesMove
  <2>2. CASE Target(t) = MODE1 /\ Continue(t, "took2")
    <3>1. Moves(t, "took2", call[t])
      BY <2>2, ContinueMoves
    <3>2. pc[t] \in {"locked1", "relocked"} /\ call[t].op = "mode1"
      BY <1>1, <1>7, <2>2 DEF SwitchModes, AtSwitchTest, Target, MODE1, MODE2, Role
    <3>3. Role("took2", call[t])
      BY <1>1, <3>2 DEF Role
    <3> QED BY <3>1, <3>3, RolesMove
  <2> QED BY <1>7, <2>1, <2>2 DEF SwitchModes
<1> QED BY <1>2, <1>3, <1>4, <1>5, <1>6, <1>7, StepClass

-----------------------------------------------------------------------------
\* The files.

\* The operation and file of a call of the first kind.
LEMMA CallOf ==
  ASSUME Basic, NEW t \in Threads
  PROVE  /\ call[t].op \in {"none", "open"} \union UsesOpen
         /\ call[t].op = "none" <=> call[t] = Idle
         /\ call[t] # Idle => call[t].file \in Files
         /\ Idle.op = "none" /\ Idle.file = NoFile
BY Shapes DEF Calls, Idle, UsesOpen

\* Calls go on or end, and the files stay as they are.
LEMMA FilesKept ==
  ASSUME Basic, FileUse, NEW t \in Threads, UNCHANGED <<owner, opened>>,
         UNCHANGED call \/ call' = [call EXCEPT ![t] = Idle]
  PROVE  FileUse'
<1>1. CASE UNCHANGED call
  BY <1>1 DEF FileUse
<1>2. CASE call' = [call EXCEPT ![t] = Idle]
  <2>1. call'[t] = Idle /\ \A u \in Threads : u # t => call'[u] = call[u]
    BY <1>2, Shapes
  <2>2. Idle.op = "none" /\ Idle.file = NoFile
    BY DEF Idle
  <2>3. \A u \in Threads : call[u].op = "release" => call[u].file # NoFile
    BY CallOf, NoFileAssumption DEF UsesOpen
  <2> QED BY <2>1, <2>2, <2>3 DEF FileUse, UsesOpen
<1> QED BY <1>1, <1>2

\* An open returns.
LEMMA FileOpened ==
  ASSUME Basic, FileUse, NEW t \in Threads, call[t].op = "open", UNCHANGED owner,
         opened' = opened \union {call[t].file}, call' = [call EXCEPT ![t] = Idle]
  PROVE  FileUse'
<1>1. call'[t] = Idle /\ \A u \in Threads : u # t => call'[u] = call[u]
  BY Shapes
<1>2. Idle.op = "none" /\ Idle.file = NoFile /\ call[t].file \in Files
  BY CallOf DEF Idle
<1>3. \A u \in Threads : call[u].op = "release" => call[u].file # NoFile
  BY CallOf, NoFileAssumption DEF UsesOpen
<1>4. owner[call[t].file] = t /\ t # NoThread
  BY NoThreadAssumption DEF FileUse
<1>5. \A u \in Threads : u # t /\ call[u].op = "open" => call[u].file # call[t].file
  BY <1>4 DEF FileUse
<1> QED BY <1>1, <1>2, <1>3, <1>4, <1>5 DEF FileUse, UsesOpen

\* A release drops the file.
LEMMA FileReleased ==
  ASSUME Basic, FileUse, NEW t \in Threads, call[t].op = "release",
         owner' = [owner EXCEPT ![call[t].file] = NoThread],
         opened' = opened \ {call[t].file}, call' = [call EXCEPT ![t] = Idle]
  PROVE  FileUse'
<1>1. call'[t] = Idle /\ \A u \in Threads : u # t => call'[u] = call[u]
  BY Shapes
<1>2. Idle.op = "none" /\ Idle.file = NoFile
  BY DEF Idle
<1>3. \A u \in Threads : call[u].op = "release" => call[u].file # NoFile
  BY CallOf, NoFileAssumption DEF UsesOpen
<1>4. \A u \in Threads : u # t => call[u].file # call[t].file
  BY DEF FileUse
<1>5. \A f \in Files : f # call[t].file => owner'[f] = owner[f]
  BY Shapes
<1>6. opened \subseteq Files /\ \A u \in Threads : call[u].op = "open" => call[u].file \in Files
  BY Shapes, CallOf
<1> QED BY <1>1, <1>2, <1>3, <1>4, <1>5, <1>6 DEF FileUse, UsesOpen

\* A call begins.
LEMMA FileStarts ==
  ASSUME Basic, FileUse, NEW t \in Threads, Starts(t)
  PROVE  FileUse'
<1>1. PICK f \in Files :
       \/ /\ owner[f] = NoThread /\ owner' = [owner EXCEPT ![f] = t]
          /\ Moves(t, "locked1", [op |-> "open", file |-> f])
       \/ /\ MayUse(t, f) /\ owner' = owner
          /\ \A u \in Threads : call[u].file # f
          /\ Moves(t, "locked1", [op |-> "release", file |-> f])
       \/ /\ MayUse(t, f) /\ owner' = owner
          /\ \A u \in Threads : call[u].file = f => call[u].op # "release"
          /\ \E op \in {"read", "write", "mode1", "mode2"} :
               Moves(t, "locked1", [op |-> op, file |-> f])
  BY DEF Starts
<1>2. opened' = opened /\ opened \subseteq Files
  BY Shapes DEF Starts
<1>3. ASSUME NEW l, NEW c, Moves(t, l, c)
      PROVE  call'[t] = c /\ \A u \in Threads : u # t => call'[u] = call[u]
  BY <1>3, Shapes DEF Moves
<1>4. CASE /\ owner[f] = NoThread /\ owner' = [owner EXCEPT ![f] = t]
           /\ Moves(t, "locked1", [op |-> "open", file |-> f])
  <2>1. owner'[f] = t /\ \A g \in Files : g # f => owner'[g] = owner[g]
    BY <1>4, Shapes
  <2>2. f \notin opened
    BY <1>4 DEF FileUse
  <2>3. \A u \in Threads : call[u].op \in {"open"} \union UsesOpen =>
          call[u].file # f /\ call[u].file \in Files
    <3> SUFFICES ASSUME NEW u \in Threads, call[u].op \in {"open"} \union UsesOpen
                 PROVE  call[u].file # f /\ call[u].file \in Files
      OBVIOUS
    <3>1. call[u].file \in Files
      BY CallOf DEF UsesOpen
    <3>2. CASE call[u].op = "open"
      BY <1>4, <3>1, <3>2, NoThreadAssumption DEF FileUse
    <3>3. CASE call[u].op \in UsesOpen
      BY <2>2, <3>1, <3>3 DEF FileUse
    <3> QED BY <3>2, <3>3
  <2>4. /\ call'[t].op = "open" /\ call'[t].file = f
        /\ \A u \in Threads : u # t => call'[u] = call[u]
    BY <1>3, <1>4
  <2>5. \A g \in opened : owner'[g] # NoThread
    BY <1>2, <2>1, <2>2 DEF FileUse
  <2>6. "release" \in UsesOpen /\ "open" \notin UsesOpen
    BY DEF UsesOpen
  <2> QED BY <1>2, <2>1, <2>2, <2>3, <2>4, <2>5, <2>6 DEF FileUse
<1>5. CASE /\ MayUse(t, f) /\ owner' = owner
           /\ \A u \in Threads : call[u].file # f
           /\ Moves(t, "locked1", [op |-> "release", file |-> f])
  <2>1. /\ call'[t].op = "release" /\ call'[t].file = f
        /\ \A u \in Threads : u # t => call'[u] = call[u]
    BY <1>3, <1>5
  <2> QED BY <1>2, <1>5, <2>1 DEF FileUse, MayUse, UsesOpen
<1>6. CASE /\ MayUse(t, f) /\ owner' = owner
           /\ \A u \in Threads : call[u].file = f => call[u].op # "release"
           /\ \E op \in {"read", "write", "mode1", "mode2"} :
                Moves(t, "locked1", [op |-> op, file |-> f])
  <2>1. /\ call'[t].op \in {"read", "write", "mode1", "mode2"} /\ call'[t].file = f
        /\ \A u \in Threads : u # t => call'[u] = call[u]
    BY <1>3, <1>6
  <2> QED BY <1>2, <1>6, <2>1 DEF FileUse, MayUse, UsesOpen
<1> QED BY <1>1, <1>4, <1>5, <1>6

\* No step leaves a call with a file that is gone.
LEMMA FileStep ==
  ASSUME Basic, Roles, FileUse, NEW t \in Threads, Call(t) \/ Step(t)
  PROVE  FileUse'
<1>1. call = [call EXCEPT ![t] = call[t]]
  BY Shapes
<1>2. ASSUME NEW l, Moves(t, l, call[t]) PROVE UNCHANGED call
  BY <1>1, <1>2 DEF Moves
<1> USE DEF files
<1>3. CASE Starts(t)
  BY <1>3, FileStarts
<1>4. CASE Passes(t)
  <2>1. UNCHANGED call \/ call' = [call EXCEPT ![t] = Idle]
    BY <1>2, <1>4 DEF Passes, Moves
  <2> QED BY <1>4, <2>1, FilesKept DEF Passes
<1>5. CASE OpenLocked(t)
  BY <1>5, FilesKept, FileOpened DEF OpenLocked, Continue, Return
<1>6. CASE OpenTake2(t)
  BY <1>6, FilesKept DEF OpenTake2, Continue
<1>7. CASE OpenReturn(t)
  <2>1. call[t].op = "open"
    BY <1>7 DEF OpenReturn, At, Roles, Role
  <2> QED BY <1>7, <2>1, FileOpened DEF OpenReturn, Return
<1>8. CASE ReleaseLocked(t)
  BY <1>8, FileReleased DEF ReleaseLocked, Return
<1>9. CASE SwitchModes(t)
  BY <1>9, FilesKept DEF SwitchModes, Continue, Return
<1> QED BY <1>3, <1>4, <1>5, <1>6, <1>7, <1>8, <1>9, StepClass

-----------------------------------------------------------------------------
\* sem2.

\* The threads in a list of waiters, each of them once.
InLine(r) == {r.wait[i] : i \in DOMAIN r.wait}
Distinct(r) == \A i, j \in DOMAIN r.wait : r.wait[i] = r.wait[j] => i = j

LEMMA WaitersAre == Waiters(2) = InLine(sem[2]) /\ Waiters(2)' = InLine(sem'[2])
BY DEF Waiters, InLine

\* A list that names nobody is empty.
LEMMA EmptyLine ==
  ASSUME NEW r \in Semaphore, InLine(r) = {}
  PROVE  r.wait = <<>>
<1> SUFFICES ASSUME r.wait # <<>> PROVE FALSE
  OBVIOUS
<1>1. r.wait \in Seq(Threads)
  BY DEF Semaphore
<1>2. Len(r.wait) \in Nat \ {0} /\ DOMAIN r.wait = 1 .. Len(r.wait)
  BY <1>1, TailFacts
<1>3. 1 \in DOMAIN r.wait
  BY <1>2
<1>4. r.wait[1] \in InLine(r)
  BY <1>3 DEF InLine
<1> QED BY <1>4

\* up with a waiter passes the semaphore to the first.
LEMMA Up2Head ==
  ASSUME NEW S \in Semaphores, Distinct(S[2]), S[2].wait # <<>>
  PROVE  /\ Up(S, 2)[2].value = S[2].value
         /\ Distinct(Up(S, 2)[2])
         /\ S[2].wait[1] \in InLine(S[2])
         /\ InLine(Up(S, 2)[2]) = InLine(S[2]) \ {S[2].wait[1]}
<1> DEFINE r == S[2]
           q == Up(S, 2)[2]
           n == Len(r.wait)
<1>1. /\ n \in Nat \ {0} /\ DOMAIN r.wait = 1 .. n
      /\ q.value = r.value /\ DOMAIN q.wait = 1 .. n - 1
      /\ \A i \in 1 .. n - 1 : q.wait[i] = r.wait[i + 1]
  <2>1. r \in Semaphore
    BY DEF Semaphores, Modes, MODE2
  <2>2. r.wait \in Seq(Threads)
    BY <2>1 DEF Semaphore
  <2>3. q.value = r.value /\ q.wait = Tail(r.wait)
    BY <2>1 DEF Up, Semaphores, Semaphore, Modes, MODE2
  <2> QED BY <2>2, <2>3, TailFacts
<1> HIDE DEF r, q, n
<1>2. \A i, j \in 1 .. n : r.wait[i] = r.wait[j] => i = j
  BY <1>1 DEF Distinct, r
<1>3. ASSUME NEW i \in 1 .. n - 1
      PROVE  i \in Int /\ i + 1 \in 1 .. n /\ i + 1 # 1 /\ q.wait[i] = r.wait[i + 1]
  BY <1>1, <1>3
<1>4. Distinct(q)
  <2> SUFFICES ASSUME NEW i \in 1 .. n - 1, NEW j \in 1 .. n - 1, q.wait[i] = q.wait[j]
               PROVE  i = j
    BY <1>1 DEF Distinct
  <2>1. i + 1 = j + 1
    BY <1>2, <1>3
  <2> QED BY <1>3, <2>1
<1>5. 1 \in 1 .. n
  BY <1>1
<1>6. ASSUME NEW u \in InLine(q) PROVE u \in InLine(r) /\ u # r.wait[1]
  <2>1. PICK i \in 1 .. n - 1 : q.wait[i] = u
    BY <1>1 DEF InLine
  <2>2. r.wait[i + 1] = u /\ i + 1 \in 1 .. n /\ i + 1 # 1
    BY <1>3, <2>1
  <2>3. u # r.wait[1]
    BY <1>2, <1>5, <2>2
  <2> QED BY <1>1, <2>2, <2>3 DEF InLine
<1>7. ASSUME NEW u \in InLine(r), u # r.wait[1] PROVE u \in InLine(q)
  <2>1. PICK i \in 1 .. n : r.wait[i] = u
    BY <1>1 DEF InLine
  <2>2. i - 1 \in 1 .. n - 1 /\ (i - 1) + 1 = i
    BY <1>1, <1>7, <2>1
  <2> QED BY <1>1, <1>3, <2>1, <2>2 DEF InLine
<1>8. r.wait[1] \in InLine(r)
  BY <1>1, <1>5 DEF InLine
<1>9. InLine(q) = InLine(r) \ {r.wait[1]}
  BY <1>6, <1>7
<1> QED BY <1>1, <1>4, <1>8, <1>9 DEF r, q

\* up without a waiter frees the semaphore.
LEMMA Up2Free ==
  ASSUME NEW S \in Semaphores, S[2].wait = <<>>
  PROVE  Up(S, 2)[2].value = S[2].value + 1 /\ Up(S, 2)[2].wait = <<>>
BY DEF Up, Semaphores, Semaphore, Modes, MODE2

\* down of a free semaphore takes it; of another, it joins the end of its line.
LEMMA Down2 ==
  ASSUME Basic, NEW t \in Threads, Down(2, t), t \notin Waiters(2), Distinct(sem[2])
  PROVE  \/ /\ sem[2].value > 0 /\ sem'[2].value = sem[2].value - 1
            /\ sem'[2].wait = sem[2].wait
         \/ /\ sem[2].value = 0 /\ sem'[2].value = 0
            /\ Distinct(sem'[2])
            /\ InLine(sem'[2]) = InLine(sem[2]) \union {t}
<1> DEFINE r == sem[2]
           q == sem'[2]
<1>1. r \in Semaphore /\ r.value \in Nat /\ r.wait \in Seq(Threads) /\ pending = {}
  BY Shapes DEF Semaphore
<1>2. CASE r.value > 0
  BY <1>1, <1>2, Shapes DEF Down, Semaphores, Semaphore
<1>3. CASE ~ (r.value > 0)
  <2>1. r.value = 0 /\ q.value = 0 /\ q.wait = Append(r.wait, t)
    BY <1>1, <1>3, Shapes DEF Down, Semaphores, Semaphore
  <2> DEFINE n == Len(r.wait)
  <2>2. /\ n \in Nat /\ DOMAIN r.wait = 1 .. n /\ DOMAIN q.wait = 1 .. n + 1
        /\ q.wait[n + 1] = t /\ \A i \in 1 .. n : q.wait[i] = r.wait[i]
    BY <1>1, <2>1, AppendFacts, LenProperties
  <2>3. /\ \A i, j \in 1 .. n : r.wait[i] = r.wait[j] => i = j
        /\ \A i \in 1 .. n : r.wait[i] # t
    BY <2>2, WaitersAre DEF Distinct, InLine
  <2> HIDE DEF r, q, n
  <2>4. \A i \in 1 .. n + 1 : i \in 1 .. n \/ i = n + 1
    BY <2>2
  <2>5. n + 1 \in 1 .. n + 1 /\ \A i \in 1 .. n : i \in 1 .. n + 1
    BY <2>2
  <2>6. Distinct(q)
    BY <2>2, <2>3, <2>4 DEF Distinct
  <2>7. InLine(q) = InLine(r) \union {t}
    BY <2>2, <2>4, <2>5 DEF InLine
  <2> QED BY <2>1, <2>6, <2>7 DEF r, q
<1> QED BY <1>2, <1>3

\* Sem2Inv, said of the line as a set.
LEMMA Sem2Line ==
  ASSUME Basic
  PROVE  Sem2Inv <=>
           /\ Distinct(sem[2])
           /\ \A u \in InLine(sem[2]) : pc[u] \in {"has2", "took2"}
           /\ mode = 1 => Token
           /\ mode = 2 => /\ sem[2].value = 1 /\ sem[2].wait = <<>>
                          /\ \A t \in Threads : pc[t] \notin {"wants2", "has2"}
BY DEF Sem2Inv, Distinct, InLine

\* A thread that runs at a critical label has sem1, and then no other thread is
\* inside a switch to MODE1.
LEMMA HolderOnly ==
  ASSUME Sem1Inv, NEW t \in Threads, Running(t), pc[t] \in Critical
  PROVE  /\ \A u \in Threads : u # t => pc[u] # "took2"
         /\ ~ Broken
         /\ t \notin Waiters(2)
<1>1. Holder(sem[1], pc, t) /\ t \notin Waiters(2)
  BY RunningHolds, RunningFree
<1>2. ASSUME NEW u \in Threads, pc[u] = "took2" PROVE u = t
  <2>1. \A i \in DOMAIN sem[1].wait : sem[1].wait[i] # u
    BY <1>2 DEF Sem1Inv, LockInv
  <2>2. Holder(sem[1], pc, u)
    BY <1>2, <2>1 DEF Holder, Critical
  <2> QED BY <1>1, <2>2 DEF Sem1Inv, LockInv
<1> QED BY <1>1, <1>2 DEF Broken

\* A step away from sem2, between labels that have no part in it.
LEMMA Sem2Kept ==
  ASSUME Basic, Sem2Inv, NEW t \in Threads, NEW l, NEW c, Moves(t, l, c),
         UNCHANGED <<mode, opened>>, sem'[2] = sem[2],
         t \notin Waiters(2), pc[t] # "has2", l # "has2", l = "wants2" => mode = 1
  PROVE  Sem2Inv'
<1>1. pc'[t] = l /\ \A u \in Threads : u # t => pc'[u] = pc[u]
  BY Shapes DEF Moves
<1>2. Passed' = Passed
  BY <1>1 DEF Passed, Waiters
<1>3. \A i \in DOMAIN sem[2].wait : sem[2].wait[i] \in Threads \ {t}
  BY Shapes, ElementOfSeq, LenProperties DEF Waiters, Semaphore
<1>4. Token' <=> Token
  BY <1>2 DEF Token
<1> QED BY <1>1, <1>3, <1>4 DEF Sem2Inv

\* In MODE2, where sem2 is free, a step that ends a call.
LEMMA Sem2Ends ==
  ASSUME Basic, Sem2Inv, mode = 2, NEW t \in Threads, NEW c, Moves(t, "user", c),
         UNCHANGED mode, sem'[2] = sem[2]
  PROVE  Sem2Inv'
<1>1. pc'[t] = "user" /\ \A u \in Threads : u # t => pc'[u] = pc[u]
  BY Shapes DEF Moves
<1>2. sem[2].wait = <<>> /\ DOMAIN sem[2].wait = {}
  BY DEF Sem2Inv
<1> QED BY <1>1, <1>2 DEF Sem2Inv

\* Only in MODE1 is anybody about to take sem2 in open.
LEMMA OpenerInMode1 ==
  ASSUME Basic, Sem2Inv, NEW t \in Threads, pc[t] \in {"wants2", "has2"}
  PROVE  mode = 1 /\ Token
BY Shapes DEF Sem2Inv

\* An opener takes sem2 or joins its line.
LEMMA Sem2Takes ==
  ASSUME Basic, Sem2Inv, NEW t \in Threads, OpenTake2(t)
  PROVE  Sem2Inv'
<1>1. /\ pc[t] = "wants2" /\ t \notin Waiters(2) /\ Down(2, t)
      /\ mode' = mode /\ opened' = opened
  BY RunningFree DEF OpenTake2, At, device, files
<1>2. Moves(t, "has2", call[t])
  BY ContinueMoves DEF OpenTake2
<1>3. pc'[t] = "has2" /\ \A u \in Threads : u # t => pc'[u] = pc[u]
  BY <1>2, Shapes DEF Moves
<1>4. mode = 1 /\ Token
  BY <1>1, OpenerInMode1
<1>5. /\ Distinct(sem[2]) /\ \A u \in InLine(sem[2]) : pc[u] \in {"has2", "took2"}
      /\ Waiters(2) = InLine(sem[2]) /\ Waiters(2)' = InLine(sem'[2])
      /\ InLine(sem[2]) \subseteq Threads
  BY Sem2Line, WaitersAre, Shapes, ElementOfSeq, LenProperties DEF InLine, Semaphore
<1>6. CASE /\ sem[2].value > 0 /\ sem'[2].value = sem[2].value - 1
           /\ sem'[2].wait = sem[2].wait
  <2>1. /\ sem[2].value = 1 /\ sem[2].wait = <<>> /\ opened = {} /\ Passed = {}
        /\ sem'[2].value = 0 /\ sem'[2].wait = <<>>
    BY <1>4, <1>6 DEF Token
  <2>2. Waiters(2) = {} /\ Waiters(2)' = {}
    BY <1>5, <2>1 DEF InLine
  <2>3. Passed' = {t}
    BY <1>1, <1>3, <2>1, <2>2 DEF Passed
  <2> QED BY <1>1, <1>4, <2>1, <2>3 DEF Sem2Inv, Token
<1>7. CASE /\ sem[2].value = 0 /\ sem'[2].value = 0 /\ Distinct(sem'[2])
           /\ InLine(sem'[2]) = InLine(sem[2]) \union {t}
  <2>1. Passed' = Passed
    BY <1>1, <1>3, <1>5, <1>7 DEF Passed
  <2>2. Token'
    BY <1>1, <1>4, <1>7, <2>1 DEF Token
  <2>3. \A u \in InLine(sem'[2]) : pc'[u] \in {"has2", "took2"}
    BY <1>3, <1>5, <1>7
  <2> QED BY <1>1, <1>4, <1>7, <2>2, <2>3 DEF Sem2Inv, Distinct, InLine
<1> QED BY <1>1, <1>5, <1>6, <1>7, Down2

\* The opener that has sem2 returns: its file is the one that is open.
LEMMA Sem2Returns ==
  ASSUME Basic, Roles, Sem2Inv, NEW t \in Threads, OpenReturn(t)
  PROVE  Sem2Inv' /\ opened = {} /\ call[t].file \in Files
<1>1. /\ pc[t] = "has2" /\ t \notin Waiters(2) /\ sem' = sem
      /\ mode' = mode /\ opened' = opened \union {call[t].file}
  BY RunningFree DEF OpenReturn, At, device
<1>2. Moves(t, "user", Idle)
  BY ReturnMoves DEF OpenReturn
<1>3. pc'[t] = "user" /\ \A u \in Threads : u # t => pc'[u] = pc[u]
  BY <1>2, Shapes DEF Moves
<1>4. t \in Passed /\ mode = 1 /\ Token
  BY <1>1, OpenerInMode1 DEF Passed
<1>5. opened = {} /\ Passed = {t} /\ sem[2].value = 0
  BY <1>4 DEF Token
<1>6. call[t].file \in Files
  BY <1>1, CallOf DEF Roles, Role
<1>7. Passed' = {}
  BY <1>1, <1>3, <1>5 DEF Passed, Waiters
<1>8. Token'
  BY <1>1, <1>5, <1>6, <1>7 DEF Token
<1>9. \A i \in DOMAIN sem[2].wait : sem[2].wait[i] # t
  BY <1>1 DEF Waiters
<1>10. \A i \in DOMAIN sem[2].wait : sem[2].wait[i] \in Threads
  BY Shapes, ElementOfSeq, LenProperties DEF Semaphore
<1> QED BY <1>1, <1>3, <1>4, <1>5, <1>6, <1>8, <1>9, <1>10 DEF Sem2Inv

\* The file in MODE1 is released: sem2 is free, or passes to an opener.
LEMMA Sem2Releases ==
  ASSUME Sem1Inv, FileUse, Sem2Inv, NEW t \in Threads, ReleaseLocked(t)
  PROVE  Sem2Inv'
<1> DEFINE f == call[t].file
<1>1. /\ pc[t] = "locked1" /\ Running(t) /\ call[t].op = "release"
      /\ mode' = mode /\ opened' = opened \ {f}
      /\ sem' = Up(IF mode = 1 THEN Up(sem, 2) ELSE sem, 1)
  BY DEF ReleaseLocked, At, LeaveMode1, MODE1
<1>2. Moves(t, "user", Idle) /\ Basic
  BY ReturnMoves DEF ReleaseLocked, Sem1Inv
<1>3. pc'[t] = "user" /\ \A u \in Threads : u # t => pc'[u] = pc[u]
  BY <1>2, Shapes DEF Moves
<1>4. /\ \A u \in Threads : u # t => pc[u] # "took2"
      /\ t \notin Waiters(2)
  BY <1>1, HolderOnly DEF Critical
<1>5. sem \in Semaphores /\ Up(sem, 2) \in Semaphores /\ mode \in {1, 2}
  BY <1>2, Shapes, UpType
<1>6. CASE mode = 2
  <2>1. sem'[2] = sem[2]
    BY <1>1, <1>5, <1>6, Up1Keeps2
  <2> QED BY <1>1, <1>2, <1>6, <2>1, Sem2Ends
<1>7. CASE mode = 1
  <2>1. sem'[2] = Up(sem, 2)[2]
    BY <1>1, <1>5, <1>7, Up1Keeps2
  <2>2. f \in opened
    BY <1>1 DEF FileUse, UsesOpen
  <2>3. sem[2].value = 0 /\ opened = {f} /\ Passed = {}
    BY <1>7, <2>2 DEF Sem2Inv, Token
  <2>4. opened' = {}
    BY <1>1, <2>3
  <2>5. /\ Distinct(sem[2]) /\ \A u \in InLine(sem[2]) : pc[u] \in {"has2", "took2"}
        /\ Waiters(2) = InLine(sem[2]) /\ Waiters(2)' = InLine(sem'[2])
        /\ InLine(sem[2]) \subseteq Threads
    BY <1>2, Sem2Line, WaitersAre, Shapes, ElementOfSeq, LenProperties DEF InLine, Semaphore
  <2>6. \A u \in InLine(sem[2]) : pc[u] = "has2" /\ pc'[u] = "has2" /\ u # t
    BY <1>1, <1>3, <1>4, <2>5
  <2>7. CASE sem[2].wait = <<>>
    <3>1. sem'[2].value = 1 /\ sem'[2].wait = <<>>
      BY <1>5, <2>1, <2>3, <2>7, Up2Free
    <3>2. Waiters(2) = {} /\ Waiters(2)' = {}
      BY <2>5, <2>7, <3>1 DEF InLine
    <3>3. Passed' = {}
      BY <1>3, <2>3, <3>2 DEF Passed
    <3>4. Token'
      BY <2>4, <3>1, <3>3 DEF Token
    <3>5. DOMAIN sem'[2].wait = {}
      BY <3>1
    <3> QED BY <1>1, <1>7, <3>4, <3>5 DEF Sem2Inv
  <2>8. CASE sem[2].wait # <<>>
    <3> DEFINE h == sem[2].wait[1]
    <3>1. /\ sem'[2].value = 0 /\ Distinct(sem'[2]) /\ h \in InLine(sem[2])
          /\ InLine(sem'[2]) = InLine(sem[2]) \ {h}
      BY <1>5, <2>1, <2>3, <2>5, <2>8, Up2Head
    <3>2. h \in Threads /\ pc'[h] = "has2" /\ h \notin Waiters(2)'
      BY <2>5, <2>6, <3>1
    <3> HIDE DEF h
    <3>3. Passed' = {h}
      <4>1. ASSUME NEW u \in Threads, pc'[u] = "has2", u \notin Waiters(2)', u # h
            PROVE  FALSE
        <5>1. u # t /\ pc[u] = "has2" /\ u \notin Waiters(2)
          BY <1>3, <2>5, <3>1, <4>1
        <5> QED BY <2>3, <5>1 DEF Passed
      <4> QED BY <3>2, <4>1 DEF Passed
    <3>4. Token'
      BY <2>4, <3>1, <3>2, <3>3 DEF Token
    <3>5. \A u \in InLine(sem'[2]) : pc'[u] \in {"has2", "took2"}
      BY <2>6, <3>1
    <3> QED BY <1>1, <1>7, <3>1, <3>4, <3>5 DEF Sem2Inv, Distinct, InLine
  <2> QED BY <2>7, <2>8
<1> QED BY <1>5, <1>6, <1>7

-----------------------------------------------------------------------------
\* A switch that goes through.

\* A set of one element at most is the singleton of its element.
LEMMA AtMostOne ==
  ASSUME NEW S, IsFiniteSet(S), Cardinality(S) <= 1, NEW x \in S
  PROVE  S = {x} /\ Cardinality(S) = 1
<1>1. /\ IsFiniteSet(S \ {x}) /\ Cardinality(S \ {x}) = Cardinality(S) - 1
      /\ Cardinality(S) \in Nat /\ Cardinality(S \ {x}) \in Nat
  BY FS_RemoveElement, FS_CardinalityType
<1>2. Cardinality(S \ {x}) = 0 /\ Cardinality(S) = 1
  BY <1>1
<1>3. S \ {x} = {}
  BY <1>1, <1>2, FS_EmptySet
<1> QED BY <1>2, <1>3

\* A switch goes through for a file that is open.  If it does change the mode the
\* file is alone, and nobody is in open; if not, it is a switch to MODE1.
LEMMA SwitchAlone ==
  ASSUME GateInv, NEW t \in Threads, SwitchModes(t)
  PROVE  /\ pc[t] \in {"locked1", "relocked"} /\ call[t].op \in {"mode1", "mode2"}
         /\ \A u \in Threads : pc[u] # "took2"
         /\ t \notin Waiters(2) /\ ~ Broken /\ call[t].file \in opened
         /\ Target(t) = 2 => mode = 1
         /\ mode # Target(t) => /\ Counted = {call[t].file} /\ opened = {call[t].file}
                                /\ count[mode] = 1
                                /\ \A u \in Threads : pc[u] \notin {"wants2", "has2"}
<1>1. Basic /\ Sem1Inv /\ Roles /\ FileUse /\ CountInv /\ Conserved
  BY DEF GateInv, Sem1Inv
<1>2. /\ Running(t) /\ pc[t] \in {"locked1", "relocked"}
      /\ call[t].op \in {"mode1", "mode2"}
      /\ pc[t] = "relocked" => call[t].op = "mode1"
      /\ pc[t] = "locked1" => mode # Target(t)
      /\ ~ (count[Other(Target(t))] > 1)
  BY <1>1 DEF SwitchModes, AtSwitchTest, At, Roles, Role, Crowded
<1>3. /\ \A u \in Threads : u # t => pc[u] # "took2"
      /\ ~ Broken /\ t \notin Waiters(2)
  BY <1>1, <1>2, HolderOnly DEF Critical
<1>4. call[t].file \in opened
  BY <1>1, <1>2 DEF FileUse, UsesOpen
<1>5. mode \in {1, 2} /\ Target(t) \in {1, 2} /\ (Target(t) = 1 <=> call[t].op = "mode1")
  BY <1>1, Shapes DEF Target, MODE1, MODE2
<1>6. Target(t) = 2 => mode = 1
  BY <1>2, <1>5
<1>7. ASSUME mode # Target(t)
      PROVE  /\ Counted = {call[t].file} /\ opened = {call[t].file} /\ count[mode] = 1
             /\ \A u \in Threads : pc[u] \notin {"wants2", "has2"}
  <2>1. Other(Target(t)) = mode /\ (Other(mode) = 1 <=> mode = 2)
    BY <1>5, <1>7 DEF Other
  <2>2. count[Other(mode)] = 0 /\ count \in [{1, 2} -> Int]
    BY <1>1, <1>3, Shapes DEF CountInv
  <2>3. count[1] + count[2] = count[mode]
    <3>1. CASE mode = 1
      BY <2>2, <3>1 DEF Other
    <3>2. CASE mode = 2
      BY <2>2, <3>2 DEF Other
    <3> QED BY <1>5, <3>1, <3>2
  <2>4. Cardinality(Counted) = count[mode] /\ count[mode] <= 1 /\ IsFiniteSet(Counted)
    BY <1>1, <1>2, <1>5, <2>1, <2>2, <2>3 DEF Conserved
  <2>5. call[t].file \in Counted
    BY <1>4 DEF Counted
  <2>6. Counted = {call[t].file} /\ count[mode] = 1
    BY <2>4, <2>5, AtMostOne
  <2>7. opened = {call[t].file}
    BY <1>4, <2>6 DEF Counted
  <2>8. ASSUME NEW u \in Threads, pc[u] \in {"wants2", "has2"} PROVE FALSE
    <3>1. call[u].op = "open" /\ call[u].file \in Files
      BY <1>1, <2>8, CallOf DEF Roles, Role
    <3>2. call[u].file \in Counted /\ call[u].file \notin opened
      BY <1>1, <2>8, <3>1 DEF Counted, FileUse
    <3> QED BY <2>6, <2>7, <3>2
  <2> QED BY <2>6, <2>7, <2>8
<1> QED BY <1>2, <1>3, <1>4, <1>6, <1>7

\* A switch to MODE2 gives sem2 back; one to MODE1 takes it, unless it is already
\* MODE1: then the one open file has sem2, and the switch joins the line.
LEMMA Sem2Switches ==
  ASSUME GateInv, NEW t \in Threads, SwitchModes(t)
  PROVE  /\ Sem2Inv'
         /\ mode # Target(t) => ~ Broken'
         /\ mode = Target(t) => Broken'
<1> DEFINE f == call[t].file
<1>1. /\ pc[t] \in {"locked1", "relocked"} /\ t \notin Waiters(2)
      /\ \A u \in Threads : pc[u] # "took2"
      /\ f \in opened /\ f \in Files /\ opened' = opened /\ mode' = Target(t)
  BY SwitchAlone, Shapes DEF SwitchModes, GateInv, Sem1Inv, files
<1>2. Basic /\ Sem2Inv /\ sem \in Semaphores /\ Up(sem, 2) \in Semaphores
  BY Shapes, UpType DEF GateInv, Sem1Inv
<1>3. mode \in {1, 2} /\ Target(t) \in {1, 2}
  BY <1>2, Shapes DEF Target, MODE1, MODE2
<1>4. ASSUME NEW l, NEW c, Moves(t, l, c)
      PROVE  pc'[t] = l /\ \A u \in Threads : u # t => pc'[u] = pc[u]
  BY <1>2, <1>4, Shapes DEF Moves
<1>5. /\ Distinct(sem[2]) /\ \A u \in InLine(sem[2]) : pc[u] \in {"has2", "took2"}
      /\ Waiters(2) = InLine(sem[2]) /\ Waiters(2)' = InLine(sem'[2])
      /\ InLine(sem[2]) \subseteq Threads
  BY <1>2, Sem2Line, WaitersAre, Shapes, ElementOfSeq, LenProperties DEF InLine, Semaphore
<1>6. CASE Target(t) = 2
  <2>1. /\ mode = 1 /\ opened = {f}
        /\ \A u \in Threads : pc[u] \notin {"wants2", "has2"}
    BY <1>6, SwitchAlone
  <2>2. sem[2].value = 0
    BY <1>2, <2>1 DEF Sem2Inv, Token
  <2>3. sem[2].wait = <<>>
    <3>1. InLine(sem[2]) = {}
      BY <1>1, <1>5, <2>1
    <3> QED BY <1>2, <3>1, Shapes, EmptyLine
  <2>4. sem' = Up(Up(sem, 2), 1) /\ Moves(t, "user", Idle)
    BY <1>6, ReturnMoves DEF SwitchModes, LeaveMode1, MODE1, MODE2
  <2>5. sem'[2].value = 1 /\ sem'[2].wait = <<>>
    BY <1>2, <2>2, <2>3, <2>4, Up1Keeps2, Up2Free
  <2>6. pc'[t] = "user" /\ \A u \in Threads : u # t => pc'[u] = pc[u]
    BY <1>4, <2>4
  <2>7. DOMAIN sem'[2].wait = {}
    BY <2>5
  <2>8. ~ Broken'
    BY <1>1, <2>6 DEF Broken
  <2>9. Sem2Inv'
    BY <1>1, <1>6, <2>1, <2>5, <2>6, <2>7 DEF Sem2Inv
  <2> QED BY <1>6, <2>1, <2>8, <2>9
<1>7. CASE Target(t) = 1
  <2>1. Down(2, t) /\ Moves(t, "took2", call[t])
    BY <1>2, <1>7, ContinueMoves DEF SwitchModes, MODE1, MODE2
  <2>2. pc'[t] = "took2" /\ \A u \in Threads : u # t => pc'[u] = pc[u]
    BY <1>4, <2>1
  <2>3. CASE mode = 2
    <3>1. /\ opened = {f} /\ \A u \in Threads : pc[u] \notin {"wants2", "has2"}
          /\ sem[2].value = 1 /\ sem[2].wait = <<>>
      BY <1>2, <1>7, <2>3, SwitchAlone DEF Sem2Inv
    <3>2. sem'[2].value = 0 /\ sem'[2].wait = <<>>
      BY <1>1, <1>2, <1>5, <2>1, <3>1, Down2
    <3>3. Passed' = {} /\ Waiters(2)' = {}
      BY <1>5, <2>2, <3>1, <3>2 DEF Passed, InLine
    <3>4. Token'
      BY <1>1, <3>1, <3>2, <3>3 DEF Token
    <3>5. DOMAIN sem'[2].wait = {}
      BY <3>2
    <3>6. ~ Broken'
      BY <3>3 DEF Broken
    <3>7. Sem2Inv'
      BY <1>1, <1>7, <3>4, <3>5 DEF Sem2Inv
    <3> QED BY <1>7, <2>3, <3>6, <3>7
  <2>4. CASE mode = 1
    <3>1. Token /\ sem[2].value = 0
      BY <1>1, <1>2, <2>4 DEF Sem2Inv, Token
    <3>2. /\ sem'[2].value = 0 /\ Distinct(sem'[2])
          /\ InLine(sem'[2]) = InLine(sem[2]) \union {t}
      BY <1>1, <1>2, <1>5, <2>1, <3>1, Down2
    <3>3. Passed' = Passed
      BY <1>1, <1>5, <2>2, <3>2 DEF Passed
    <3>4. Token'
      BY <1>1, <3>1, <3>2, <3>3 DEF Token
    <3>5. \A u \in InLine(sem'[2]) : pc'[u] \in {"has2", "took2"}
      BY <1>5, <2>2, <3>2
    <3>6. Broken'
      BY <1>5, <2>2, <3>2 DEF Broken
    <3>7. Sem2Inv'
      BY <1>1, <1>7, <3>2, <3>4, <3>5 DEF Sem2Inv, Distinct, InLine
    <3> QED BY <1>7, <2>4, <3>6, <3>7
  <2> QED BY <1>3, <2>3, <2>4
<1> QED BY <1>3, <1>6, <1>7

\* No step disturbs sem2.
LEMMA Sem2Step ==
  ASSUME GateInv, NEW t \in Threads, Call(t) \/ Step(t)
  PROVE  Sem2Inv'
<1>1. Basic /\ Sem1Inv /\ Roles /\ FileUse /\ Sem2Inv
  BY DEF GateInv, Sem1Inv
<1>2. CASE Starts(t)
  <2>1. PICK c : Moves(t, "locked1", c)
    BY <1>2 DEF Starts
  <2>2. pc[t] = "user" /\ UNCHANGED <<mode, opened>> /\ sem'[2] = sem[2]
    BY <1>2 DEF Starts
  <2>3. t \notin Waiters(2)
    BY <1>1, <2>2 DEF Sem2Inv, Waiters
  <2> QED BY <1>1, <2>1, <2>2, <2>3, Sem2Kept
<1>3. CASE Passes(t)
  <2>1. PICK l \in {"user", "copies", "copies_locked", "waits", "relocked"} :
          \E c : Moves(t, l, c)
    BY <1>3 DEF Passes
  <2>2. PICK c : Moves(t, l, c)
    BY <2>1
  <2>3. /\ pc[t] # "has2" /\ UNCHANGED <<mode, opened>> /\ sem'[2] = sem[2]
        /\ t \notin Waiters(2)
    BY <1>3 DEF Passes
  <2> QED BY <1>1, <2>1, <2>2, <2>3, Sem2Kept
<1>4. CASE OpenLocked(t)
  <2>1. /\ pc[t] = "locked1" /\ t \notin Waiters(2) /\ mode' = mode /\ sem' = Up(sem, 1)
    BY <1>4, RunningFree DEF OpenLocked, At
  <2>2. sem'[2] = sem[2]
    BY <1>1, <2>1, Shapes, Up1Keeps2
  <2>3. CASE mode = MODE1 /\ Continue(t, "wants2") /\ UNCHANGED opened
    BY <1>1, <2>1, <2>2, <2>3, ContinueMoves, Sem2Kept DEF MODE1
  <2>4. CASE mode = MODE2 /\ Return(t)
    BY <1>1, <2>1, <2>2, <2>4, ReturnMoves, Sem2Ends DEF MODE2
  <2> QED BY <1>4, <2>3, <2>4 DEF OpenLocked
<1>5. CASE OpenTake2(t)
  BY <1>1, <1>5, Sem2Takes
<1>6. CASE OpenReturn(t)
  BY <1>1, <1>6, Sem2Returns
<1>7. CASE ReleaseLocked(t)
  BY <1>1, <1>7, Sem2Releases
<1>8. CASE SwitchModes(t)
  BY <1>8, Sem2Switches
<1> QED BY <1>1, <1>2, <1>3, <1>4, <1>5, <1>6, <1>7, <1>8, StepClass

-----------------------------------------------------------------------------
\* The counters.

\* A step of a thread that is not in open before or after it.
LEMMA CountedKept ==
  ASSUME Basic, NEW t \in Threads, NEW l, NEW c, Moves(t, l, c), UNCHANGED opened,
         pc[t] \notin {"wants2", "has2"}, l \notin {"wants2", "has2"}
  PROVE  Counted' = Counted
<1>1. /\ pc'[t] = l /\ call'[t] = c
      /\ \A u \in Threads : u # t => pc'[u] = pc[u] /\ call'[u] = call[u]
  BY Shapes DEF Moves
<1>2. \A f \in Files :
        (\E u \in Threads : pc'[u] \in {"wants2", "has2"} /\ call'[u].file = f)
        <=> (\E u \in Threads : pc[u] \in {"wants2", "has2"} /\ call[u].file = f)
  BY <1>1
<1> QED BY <1>2 DEF Counted

\* A file that is neither open nor at sem2 is counted once its open takes sem1.
LEMMA CountedOpens ==
  ASSUME Basic, FileUse, Roles, NEW t \in Threads, OpenLocked(t)
  PROVE  call[t].file \notin Counted /\ Counted' = Counted \union {call[t].file}
<1> DEFINE f == call[t].file
<1>1. pc[t] = "locked1" /\ call[t].op = "open"
  BY DEF OpenLocked, At
<1>2. f \in Files /\ f \notin opened /\ owner[f] = t
  BY <1>1, CallOf DEF FileUse
<1>3. ASSUME NEW u \in Threads, pc[u] \in {"wants2", "has2"}, call[u].file = f
      PROVE  FALSE
  <2>1. call[u].op = "open"
    BY <1>3 DEF Roles, Role
  <2>2. u = t
    BY <1>2, <1>3, <2>1 DEF FileUse
  <2> QED BY <1>1, <1>3, <2>2
<1>4. f \notin Counted
  BY <1>2, <1>3 DEF Counted
<1>5. CASE Continue(t, "wants2") /\ UNCHANGED opened
  <2>1. /\ pc'[t] = "wants2" /\ call' = call
        /\ \A u \in Threads : u # t => pc'[u] = pc[u]
    BY <1>5, Shapes DEF Continue, Goto
  <2>2. \A g \in Files :
          (\E u \in Threads : pc'[u] \in {"wants2", "has2"} /\ call'[u].file = g)
          <=> (g = f \/ \E u \in Threads : pc[u] \in {"wants2", "has2"} /\ call[u].file = g)
    BY <1>1, <2>1
  <2> QED BY <1>2, <1>4, <1>5, <2>2 DEF Counted
<1>6. CASE Return(t) /\ opened' = opened \union {f}
  <2>1. /\ pc'[t] = "user" /\ \A u \in Threads : u # t => pc'[u] = pc[u] /\ call'[u] = call[u]
    BY <1>6, ReturnMoves, Shapes DEF Moves
  <2>2. \A g \in Files :
          (\E u \in Threads : pc'[u] \in {"wants2", "has2"} /\ call'[u].file = g)
          <=> (\E u \in Threads : pc[u] \in {"wants2", "has2"} /\ call[u].file = g)
    BY <1>1, <2>1
  <2> QED BY <1>2, <1>4, <1>6, <2>2 DEF Counted
<1> QED BY <1>5, <1>6 DEF OpenLocked

\* Past sem1 an open goes on with the file counted already.
LEMMA CountedGoes ==
  ASSUME Basic, Roles, NEW t \in Threads, OpenTake2(t) \/ OpenReturn(t)
  PROVE  Counted' = Counted
<1> DEFINE f == call[t].file
<1>1. pc[t] \in {"wants2", "has2"} /\ f \in Files
  BY CallOf DEF OpenTake2, OpenReturn, At, Roles, Role
<1>2. CASE OpenTake2(t)
  <2>1. /\ pc'[t] = "has2" /\ call' = call /\ opened' = opened
        /\ \A u \in Threads : u # t => pc'[u] = pc[u]
    BY <1>2, Shapes DEF OpenTake2, Continue, Goto, files
  <2>2. \A u \in Threads : pc'[u] \in {"wants2", "has2"} <=> pc[u] \in {"wants2", "has2"}
    BY <1>1, <2>1
  <2> QED BY <2>1, <2>2 DEF Counted
<1>3. CASE OpenReturn(t)
  <2>1. /\ pc'[t] = "user" /\ opened' = opened \union {f}
        /\ \A u \in Threads : u # t => pc'[u] = pc[u] /\ call'[u] = call[u]
    BY <1>3, ReturnMoves, Shapes DEF OpenReturn, Moves
  <2>2. \A g \in Files : g # f =>
          ((\E u \in Threads : pc'[u] \in {"wants2", "has2"} /\ call'[u].file = g)
           <=> (\E u \in Threads : pc[u] \in {"wants2", "has2"} /\ call[u].file = g))
    BY <2>1
  <2>3. f \in Counted
    BY <1>1 DEF Counted
  <2>4. f \in opened'
    BY <2>1
  <2> QED BY <2>1, <2>2, <2>3, <2>4 DEF Counted
<1> QED BY <1>2, <1>3

\* A release takes the file out.
LEMMA CountedLeaves ==
  ASSUME Basic, FileUse, Roles, NEW t \in Threads, ReleaseLocked(t)
  PROVE  call[t].file \in Counted /\ Counted' = Counted \ {call[t].file}
<1> DEFINE f == call[t].file
<1>1. pc[t] = "locked1" /\ call[t].op = "release" /\ opened' = opened \ {f}
  BY DEF ReleaseLocked, At
<1>2. f \in opened
  BY <1>1 DEF FileUse, UsesOpen
<1>3. /\ pc'[t] = "user" /\ \A u \in Threads : u # t => pc'[u] = pc[u] /\ call'[u] = call[u]
  BY ReturnMoves, Shapes DEF ReleaseLocked, Moves
<1>4. \A u \in Threads : pc[u] \in {"wants2", "has2"} => call[u].file # f
  BY <1>2 DEF FileUse, Roles, Role
<1>5. \A g \in Files :
        (\E u \in Threads : pc'[u] \in {"wants2", "has2"} /\ call'[u].file = g)
        <=> (\E u \in Threads : pc[u] \in {"wants2", "has2"} /\ call[u].file = g)
  BY <1>1, <1>3
<1> QED BY <1>1, <1>2, <1>4, <1>5 DEF Counted

\* The sum of the counters.
Sum == count[1] + count[2]

LEMMA SumUp ==
  ASSUME Basic, count' = [count EXCEPT ![mode] = @ + 1]
  PROVE  Sum' = Sum + 1 /\ (mode = 1 => count'[1] = count[1] + 1)
<1>1. count \in [{1, 2} -> Int] /\ mode \in {1, 2}
  BY Shapes
<1>2. CASE mode = 1
  <2>1. count'[1] = count[1] + 1 /\ count'[2] = count[2]
    BY <1>1, <1>2
  <2> QED BY <1>1, <2>1 DEF Sum
<1>3. CASE mode = 2
  <2>1. count'[1] = count[1] /\ count'[2] = count[2] + 1
    BY <1>1, <1>3
  <2> QED BY <1>1, <1>3, <2>1 DEF Sum
<1> QED BY <1>1, <1>2, <1>3

LEMMA SumDown ==
  ASSUME Basic, count' = [count EXCEPT ![mode] = @ - 1]
  PROVE  Sum' = Sum - 1
<1>1. count \in [{1, 2} -> Int] /\ mode \in {1, 2}
  BY Shapes
<1>2. CASE mode = 1
  <2>1. count'[1] = count[1] - 1 /\ count'[2] = count[2]
    BY <1>1, <1>2
  <2> QED BY <1>1, <2>1 DEF Sum
<1>3. CASE mode = 2
  <2>1. count'[1] = count[1] /\ count'[2] = count[2] - 1
    BY <1>1, <1>3
  <2> QED BY <1>1, <2>1 DEF Sum
<1> QED BY <1>1, <1>2, <1>3

\* A switch moves one from a counter to the other.
LEMMA SwitchMovesOne ==
  ASSUME Basic, NEW t \in Threads, SwitchModes(t)
  PROVE  /\ Sum' = Sum
         /\ count'[Target(t)] = count[Target(t)] + 1
         /\ count'[Other(Target(t))] = count[Other(Target(t))] - 1
<1>1. count \in [{1, 2} -> Int] /\ count' = Moved(Target(t))
  BY Shapes DEF SwitchModes
<1>2. CASE Target(t) = 1
  BY <1>1, <1>2 DEF Sum, Other, Moved
<1>3. CASE Target(t) = 2
  BY <1>1, <1>3 DEF Sum, Other, Moved
<1> QED BY <1>2, <1>3 DEF Target, MODE1, MODE2

\* How a step changes what is counted, and the sum with it.
LEMMA CountedStep ==
  ASSUME GateInv, NEW t \in Threads, Call(t) \/ Step(t)
  PROVE  \/ Counted' = Counted /\ Sum' = Sum
         \/ \E f : f \notin Counted /\ Counted' = Counted \union {f} /\ Sum' = Sum + 1
         \/ \E f \in Counted : Counted' = Counted \ {f} /\ Sum' = Sum - 1
<1>1. Basic /\ Sem1Inv /\ Roles /\ FileUse
  BY DEF GateInv, Sem1Inv
<1>2. UNCHANGED count => Sum' = Sum
  BY DEF Sum
<1>3. CASE Starts(t)
  <2>1. PICK c : Moves(t, "locked1", c)
    BY <1>3 DEF Starts
  <2> QED BY <1>1, <1>2, <1>3, <2>1, CountedKept DEF Starts
<1>4. CASE Passes(t)
  <2>1. PICK l \in {"user", "copies", "copies_locked", "waits", "relocked"} :
          \E c : Moves(t, l, c)
    BY <1>4 DEF Passes
  <2>2. PICK c : Moves(t, l, c)
    BY <2>1
  <2>3. pc[t] \notin {"wants2", "has2"} /\ UNCHANGED <<count, opened>>
    BY <1>4 DEF Passes
  <2> QED BY <1>1, <1>2, <2>1, <2>2, <2>3, CountedKept
<1>5. CASE OpenLocked(t)
  <2>1. Sum' = Sum + 1
    BY <1>1, <1>5, SumUp DEF OpenLocked
  <2> QED BY <1>1, <1>5, <2>1, CountedOpens
<1>6. CASE OpenTake2(t) \/ OpenReturn(t)
  <2>1. Counted' = Counted
    BY <1>1, <1>6, CountedGoes
  <2> QED BY <1>2, <1>6, <2>1 DEF OpenTake2, OpenReturn, device
<1>7. CASE ReleaseLocked(t)
  <2>1. Sum' = Sum - 1
    BY <1>1, <1>7, SumDown DEF ReleaseLocked
  <2> QED BY <1>1, <1>7, <2>1, CountedLeaves
<1>8. CASE SwitchModes(t)
  <2>1. PICK l \in {"user", "took2"} : \E c : Moves(t, l, c)
    BY <1>1, <1>8, ReturnMoves, ContinueMoves DEF SwitchModes
  <2>2. PICK c : Moves(t, l, c)
    BY <2>1
  <2>3. pc[t] \notin {"wants2", "has2"} /\ UNCHANGED opened
    BY <1>8, SwitchAlone DEF SwitchModes, files
  <2>4. Counted' = Counted
    BY <1>1, <2>1, <2>2, <2>3, CountedKept
  <2> QED BY <1>1, <1>8, <2>4, SwitchMovesOne
<1> QED BY <1>1, <1>3, <1>4, <1>5, <1>6, <1>7, <1>8, StepClass

\* So the counters go on counting the files.
LEMMA ConservedStep ==
  ASSUME GateInv, NEW t \in Threads, Call(t) \/ Step(t)
  PROVE  Conserved'
<1>1. IsFiniteSet(Counted) /\ Sum = Cardinality(Counted) /\ Cardinality(Counted) \in Nat
  BY FS_CardinalityType DEF GateInv, Conserved, Sum
<1> SUFFICES IsFiniteSet(Counted') /\ Sum' = Cardinality(Counted')
  BY DEF Conserved, Sum
<1>2. CASE Counted' = Counted /\ Sum' = Sum
  BY <1>1, <1>2
<1>3. CASE \E f : f \notin Counted /\ Counted' = Counted \union {f} /\ Sum' = Sum + 1
  BY <1>1, <1>3, FS_AddElement
<1>4. CASE \E f \in Counted : Counted' = Counted \ {f} /\ Sum' = Sum - 1
  BY <1>1, <1>4, FS_RemoveElement
<1> QED BY <1>2, <1>3, <1>4, CountedStep

\* A step with no part in a switch to MODE1 leaves one that waits for sem2 waiting,
\* and makes none.
LEMMA BrokenKept ==
  ASSUME Basic, NEW t \in Threads, NEW l, NEW c, Moves(t, l, c), l # "took2",
         t \notin Waiters(2) \/ pc[t] # "took2",
         \A u \in Threads \ {t} : u \in Waiters(2)' <=> u \in Waiters(2)
  PROVE  Broken' <=> Broken
<1>1. pc'[t] = l /\ \A u \in Threads : u # t => pc'[u] = pc[u]
  BY Shapes DEF Moves
<1> QED BY <1>1 DEF Broken

\* Nobody gets a file out of the wrong counter.
LEMMA CountStep ==
  ASSUME GateInv, NEW t \in Threads, Call(t) \/ Step(t)
  PROVE  CountInv'
<1>1. Basic /\ Sem1Inv /\ Roles /\ FileUse /\ CountInv /\ Sem2Inv
  BY DEF GateInv, Sem1Inv
<1>2. mode \in {1, 2}
  BY <1>1, Shapes
<1>3. CASE Starts(t) \/ Passes(t)
  <2>1. PICK l \in {"locked1", "user", "copies", "copies_locked", "waits", "relocked"} :
          \E c : Moves(t, l, c)
    BY <1>3 DEF Starts, Passes
  <2>2. PICK c : Moves(t, l, c)
    BY <2>1
  <2>3. UNCHANGED <<mode, count>> /\ sem'[2] = sem[2] /\ (t \notin Waiters(2) \/ pc[t] # "took2")
    BY <1>3 DEF Starts, Passes
  <2>4. Broken' <=> Broken
    <3>1. Waiters(2)' = Waiters(2)
      BY <2>3 DEF Waiters
    <3> QED BY <1>1, <2>1, <2>2, <2>3, <3>1, BrokenKept
  <2> QED BY <1>1, <2>3, <2>4 DEF CountInv
<1>4. CASE OpenTake2(t) \/ OpenReturn(t)
  <2>1. PICK l \in {"user", "has2"} : \E c : Moves(t, l, c)
    BY <1>1, <1>4, ReturnMoves, ContinueMoves DEF OpenTake2, OpenReturn
  <2>2. PICK c : Moves(t, l, c)
    BY <2>1
  <2>3. UNCHANGED <<mode, count>> /\ pc[t] # "took2"
    BY <1>4 DEF OpenTake2, OpenReturn, At, device
  <2>4. \A u \in Threads \ {t} : u \in Waiters(2)' <=> u \in Waiters(2)
    <3>1. CASE OpenReturn(t)
      BY <3>1 DEF OpenReturn, Waiters
    <3>2. CASE OpenTake2(t)
      <4>1. Down(2, t) /\ t \notin Waiters(2) /\ Distinct(sem[2])
        BY <1>1, <3>2, RunningFree, Sem2Line DEF OpenTake2, At
      <4>2. \/ sem'[2].wait = sem[2].wait
            \/ InLine(sem'[2]) = InLine(sem[2]) \union {t}
        BY <1>1, <4>1, Down2
      <4>3. Waiters(2) = InLine(sem[2]) /\ Waiters(2)' = InLine(sem'[2])
        BY WaitersAre
      <4> QED BY <4>2, <4>3 DEF InLine
    <3> QED BY <1>4, <3>1, <3>2
  <2>5. Broken' <=> Broken
    BY <1>1, <2>1, <2>2, <2>3, <2>4, BrokenKept
  <2> QED BY <1>1, <2>3, <2>5 DEF CountInv
<1>5. CASE OpenLocked(t) \/ ReleaseLocked(t)
  <2>1. pc[t] = "locked1" /\ Running(t) /\ mode' = mode
    BY <1>5 DEF OpenLocked, ReleaseLocked, At
  <2>2. /\ \A u \in Threads : u # t => pc[u] # "took2"
        /\ ~ Broken
    BY <1>1, <2>1, HolderOnly DEF Critical
  <2>3. PICK l \in {"user", "wants2"} : \E c : Moves(t, l, c)
    BY <1>1, <1>5, ReturnMoves, ContinueMoves DEF OpenLocked, ReleaseLocked
  <2>4. pc'[t] = l /\ \A u \in Threads : u # t => pc'[u] = pc[u]
    BY <1>1, <2>3, Shapes DEF Moves
  <2>5. ~ Broken'
    BY <2>2, <2>4 DEF Broken
  <2>6. count'[Other(mode)] = count[Other(mode)]
    BY <1>1, <1>2, <1>5, Shapes DEF OpenLocked, ReleaseLocked, Other
  <2> QED BY <1>1, <2>1, <2>2, <2>5, <2>6 DEF CountInv
<1>6. CASE SwitchModes(t)
  <2>1. ~ Broken /\ (Target(t) = 2 => mode = 1) /\ mode' = Target(t)
    BY <1>6, SwitchAlone DEF SwitchModes
  <2>2. /\ count'[Target(t)] = count[Target(t)] + 1
        /\ count'[Other(Target(t))] = count[Other(Target(t))] - 1
        /\ count[Other(mode)] = 0
    BY <1>1, <1>6, <2>1, SwitchMovesOne DEF CountInv
  <2>3. Target(t) \in {1, 2}
    BY DEF Target, MODE1, MODE2
  <2>4. CASE mode # Target(t)
    <3>1. count[mode] = 1 /\ ~ Broken' /\ Other(Target(t)) = mode
      BY <1>2, <1>6, <2>3, <2>4, SwitchAlone, Sem2Switches DEF Other
    <3> QED BY <2>1, <2>2, <3>1 DEF CountInv
  <2>5. CASE mode = Target(t)
    <3>1. mode = 1 /\ Other(Target(t)) = 2 /\ Other(mode) = 2 /\ Broken'
      BY <1>2, <1>6, <2>1, <2>5, Sem2Switches DEF Other
    <3>2. count'[2] = -1
      BY <2>2, <3>1
    <3> QED BY <2>1, <2>5, <3>1, <3>2 DEF CountInv
  <2> QED BY <2>4, <2>5
<1> QED BY <1>1, <1>3, <1>4, <1>5, <1>6, StepClass

\* Thread t moves to another label than the wait, and count1 does not fall while a
\* switch to MODE2 sleeps.
LEMMA Wait2Kept ==
  ASSUME Basic, Wait2, Basic', NEW t \in Threads, NEW l, NEW c, Moves(t, l, c),
         l # "waits",
         (\E u \in Threads : u # t /\ pc[u] = "waits" /\ call[u].op = "mode2")
           => mode' = mode /\ count'[1] >= count[1]
  PROVE  Wait2'
<1>1. /\ pc'[t] = l /\ \A u \in Threads : u # t => pc'[u] = pc[u] /\ call'[u] = call[u]
  BY Shapes DEF Moves
<1>2. count[1] \in Int /\ count'[1] \in Int
  <2>1. count \in [Modes -> Int] /\ (count \in [Modes -> Int])' /\ 1 \in Modes
    BY DEF Basic, TypeOK, Modes, MODE1
  <2> QED BY <2>1 DEF Modes
<1>3. ASSUME NEW u \in Threads, pc'[u] = "waits", call'[u].op = "mode2"
      PROVE  mode' = 1 /\ count'[1] > 1
  <2>1. u # t /\ pc[u] = "waits" /\ call[u].op = "mode2"
    BY <1>1, <1>3
  <2>2. mode = 1 /\ count[1] > 1
    BY <2>1 DEF Wait2
  <2>3. mode' = mode /\ count'[1] >= count[1]
    BY <2>1
  <2> QED BY <1>2, <2>2, <2>3
<1> QED BY <1>3 DEF Wait2

\* A switch to MODE2 that sleeps goes on sleeping.
LEMMA Wait2Step ==
  ASSUME GateInv, NEW t \in Threads, Call(t) \/ Step(t)
  PROVE  Wait2'
<1>1. Basic /\ Sem1Inv /\ Roles /\ FileUse /\ Sem2Inv /\ CountInv /\ Wait2
  BY DEF GateInv, Sem1Inv
<1>2. mode \in {1, 2} /\ count \in [{1, 2} -> Int]
  BY <1>1, Shapes
<1>3. Basic'
  <2>1. Next
    BY DEF Next
  <2> QED BY <1>1, <2>1, NextType
<1>4. count[1] >= count[1]
  BY <1>2
<1>5. CASE Starts(t)
  <2>1. PICK c : Moves(t, "locked1", c)
    BY <1>5 DEF Starts
  <2>2. UNCHANGED <<mode, count>>
    BY <1>5 DEF Starts
  <2> QED BY <1>1, <1>3, <1>4, <2>1, <2>2, Wait2Kept
<1>6. CASE Passes(t)
  <2>1. UNCHANGED <<mode, count>>
    BY <1>6 DEF Passes
  <2>2. ASSUME NEW l \in {"user", "copies", "copies_locked", "relocked"}, NEW c, Moves(t, l, c)
        PROVE  Wait2'
    BY <1>1, <1>3, <1>4, <2>1, <2>2, Wait2Kept
  <2>3. CASE /\ call[t].op \in {"mode1", "mode2"}
             /\ \/ pc[t] = "locked1" /\ mode # Target(t) /\ count[Other(Target(t))] > 1
                \/ pc[t] \in {"waits", "relocked"}
             /\ Moves(t, "waits", call[t])
    <3>1. /\ pc'[t] = "waits" /\ call' = call
          /\ \A u \in Threads : u # t => pc'[u] = pc[u]
      BY <1>1, <2>3, Shapes DEF Moves
    <3>2. call[t].op = "mode2" => Other(Target(t)) = 1 /\ Target(t) = 2
      BY DEF Target, Other, MODE1, MODE2
    <3>3. pc[t] = "relocked" => call[t].op = "mode1"
      BY <1>1 DEF Roles, Role
    <3>4. call[t].op = "mode2" => mode = 1 /\ count[1] > 1
      <4>1. CASE pc[t] = "locked1" /\ mode # Target(t) /\ count[Other(Target(t))] > 1
        BY <1>2, <3>2, <4>1
      <4>2. CASE pc[t] = "waits"
        BY <1>1, <4>2 DEF Wait2
      <4> QED BY <2>3, <3>3, <4>1, <4>2
    <3> QED BY <1>1, <2>1, <3>1, <3>4 DEF Wait2
  <2> QED BY <1>6, <2>2, <2>3 DEF Passes
<1>7. CASE OpenLocked(t)
  <2>1. PICK l \in {"user", "wants2"} : \E c : Moves(t, l, c)
    BY <1>1, <1>7, ReturnMoves, ContinueMoves DEF OpenLocked
  <2>2. PICK c : Moves(t, l, c)
    BY <2>1
  <2>3. mode' = mode /\ (mode = 1 => count'[1] = count[1] + 1)
    BY <1>1, <1>7, SumUp DEF OpenLocked
  <2>4. mode = 1 => count'[1] >= count[1]
    BY <1>2, <2>3
  <2>5. (\E u \in Threads : pc[u] = "waits" /\ call[u].op = "mode2") => mode = 1
    BY <1>1 DEF Wait2
  <2> QED BY <1>1, <1>3, <2>1, <2>2, <2>3, <2>4, <2>5, Wait2Kept
<1>8. CASE OpenTake2(t) \/ OpenReturn(t)
  <2>1. PICK l \in {"user", "has2"} : \E c : Moves(t, l, c)
    BY <1>1, <1>8, ReturnMoves, ContinueMoves DEF OpenTake2, OpenReturn
  <2>2. PICK c : Moves(t, l, c)
    BY <2>1
  <2>3. UNCHANGED <<mode, count>>
    BY <1>8 DEF OpenTake2, OpenReturn, device
  <2> QED BY <1>1, <1>3, <1>4, <2>1, <2>2, <2>3, Wait2Kept
<1>9. CASE ReleaseLocked(t)
  <2>1. pc[t] = "locked1" /\ call[t].op = "release" /\ Moves(t, "user", Idle)
    BY <1>9, ReturnMoves DEF ReleaseLocked, At
  <2>2. ASSUME NEW u \in Threads, pc[u] = "waits", call[u].op = "mode2"
        PROVE  FALSE
    <3>1. mode = 1 /\ Token
      BY <1>1, <2>2 DEF Wait2, Sem2Inv
    <3>2. call[u].file \in opened /\ call[t].file \in opened
      BY <1>1, <2>1, <2>2 DEF FileUse, UsesOpen
    <3>3. call[u].file = call[t].file
      BY <3>1, <3>2 DEF Token
    <3>4. u = t
      BY <1>1, <2>1, <3>3 DEF FileUse
    <3> QED BY <2>1, <2>2, <3>4
  <2> QED BY <1>1, <1>3, <2>1, <2>2, Wait2Kept
<1>10. CASE SwitchModes(t)
  <2>1. PICK l \in {"user", "took2"} : \E c : Moves(t, l, c)
    BY <1>1, <1>10, ReturnMoves, ContinueMoves DEF SwitchModes
  <2>2. PICK c : Moves(t, l, c)
    BY <2>1
  <2>3. ASSUME NEW u \in Threads, pc[u] = "waits", call[u].op = "mode2"
        PROVE  mode' = mode /\ count'[1] >= count[1]
    <3>1. mode = 1 /\ count[1] > 1
      BY <1>1, <2>3 DEF Wait2
    <3>2. mode = Target(t)
      BY <1>2, <1>10, <3>1, SwitchAlone
    <3>3. count'[1] = count[1] + 1 /\ mode' = 1
      BY <1>1, <1>10, <3>1, <3>2, SwitchMovesOne DEF SwitchModes
    <3> QED BY <1>2, <3>1, <3>3
  <2> QED BY <1>1, <1>3, <2>1, <2>2, <2>3, Wait2Kept
<1> QED BY <1>1, <1>5, <1>6, <1>7, <1>8, <1>9, <1>10, StepClass

-----------------------------------------------------------------------------
\* The invariant.

LEMMA InitGate ==
  ASSUME Init, MaxSignals = 0
  PROVE  GateInv
<1>1. Sem1Inv
  BY InitSem1
<1>2. /\ mode = 1 /\ count[1] = 0 /\ count[2] = 0 /\ opened = {}
      /\ sem[2].value = 1 /\ sem[2].wait = <<>> /\ DOMAIN sem[2].wait = {}
      /\ \A t \in Threads : pc[t] = "user" /\ call[t] = Idle
  BY DEF Init, InitialMode, Modes, MODE1, MODE2
<1>3. Roles /\ FileUse
  BY <1>2 DEF Roles, Role, FileUse, UsesOpen, Idle
<1>4. Sem2Inv
  BY <1>2 DEF Sem2Inv, Token, Passed
<1>5. CountInv
  BY <1>2 DEF CountInv, Broken, Other
<1>6. Conserved
  <2>1. Counted = {}
    BY <1>2 DEF Counted
  <2>2. IsFiniteSet({}) /\ Cardinality({}) = 0
    BY FS_EmptySet
  <2> QED BY <1>2, <2>1, <2>2 DEF Conserved
<1>7. Wait2
  BY <1>2 DEF Wait2
<1> QED BY <1>1, <1>3, <1>4, <1>5, <1>6, <1>7 DEF GateInv

\* With no signal to send, every step is a step of a thread.
LEMMA NextOfThread ==
  ASSUME Basic, Next
  PROVE  \E t \in Threads : Call(t) \/ Step(t)
<1>1. signals = 0
  BY DEF Basic, Quiet
<1>2. \A t \in Threads : ~ Signal(t)
  BY <1>1 DEF Signal
<1> QED BY <1>2 DEF Next

LEMMA NextGate ==
  ASSUME GateInv, [Next]_vars
  PROVE  GateInv'
<1>1. Sem1Inv' /\ Basic
  BY NextSem1 DEF GateInv, Sem1Inv
<1>2. CASE UNCHANGED vars
  <2>1. UNCHANGED <<mode, count, sem, pc, call, owner, opened>>
    BY <1>2 DEF vars
  <2>2. Roles' /\ FileUse' /\ Wait2'
    BY <2>1 DEF GateInv, Roles, Role, FileUse, Wait2
  <2>3. Passed' = Passed /\ (Broken' <=> Broken) /\ Counted' = Counted
    BY <2>1 DEF Passed, Broken, Counted, Waiters
  <2>4. Sem2Inv' /\ CountInv' /\ Conserved'
    BY <2>1, <2>3 DEF GateInv, Sem2Inv, Token, CountInv, Conserved
  <2> QED BY <1>1, <2>2, <2>4 DEF GateInv
<1>3. CASE Next
  <2>1. PICK t \in Threads : Call(t) \/ Step(t)
    BY <1>1, <1>3, NextOfThread
  <2>2. Roles' /\ FileUse'
    BY <1>1, <2>1, RolesStep, FileStep DEF GateInv
  <2>3. Sem2Inv' /\ CountInv' /\ Conserved' /\ Wait2'
    BY <2>1, Sem2Step, CountStep, ConservedStep, Wait2Step
  <2> QED BY <1>1, <2>2, <2>3 DEF GateInv
<1> QED BY <1>2, <1>3

\* However files are shared, count1 and count2 together count the files that are
\* open or opening.
THEOREM CountsConservedHolds ==
  ASSUME MaxSignals = 0
  PROVE  Spec => []CountsConserved
<1>1. Init => GateInv
  BY InitGate
<1>2. GateInv /\ [Next]_vars => GateInv'
  BY NextGate
<1>3. GateInv => CountsConserved
  BY DEF GateInv, Conserved, CountsConserved, MODE1, MODE2
<1> QED BY <1>1, <1>2, <1>3, PTL DEF Spec

\* sem2 is taken by the one file admitted in MODE1, open or about to be, and free
\* all through MODE2, whether or not threads share files.
THEOREM Sem2FollowsModeHolds ==
  ASSUME MaxSignals = 0
  PROVE  Spec => []Sem2FollowsMode
<1>1. Init => GateInv
  BY InitGate
<1>2. GateInv /\ [Next]_vars => GateInv'
  BY NextGate
<1>3. ASSUME GateInv PROVE Sem2FollowsMode
  <2>1. mode \in {1, 2} /\ Sem2Inv
    BY <1>3, Shapes DEF GateInv, Sem1Inv
  <2>2. Cardinality({}) = 0
    BY FS_EmptySet
  <2>3. \A x : Cardinality({x}) = 1
    BY FS_Singleton
  <2>4. CASE mode = 2
    BY <2>1, <2>4 DEF Sem2Inv, Sem2FollowsMode, MODE1
  <2>5. CASE mode = 1
    <3>1. Token
      BY <2>1, <2>5 DEF Sem2Inv
    <3>2. sem[2].value = 1 - Cardinality(opened) - Cardinality(Passed)
      <4>1. CASE sem[2].value = 1 /\ opened = {} /\ Passed = {}
        BY <2>2, <4>1
      <4>2. CASE sem[2].value = 0 /\ (\E f \in Files : opened = {f}) /\ Passed = {}
        <5>1. Cardinality(opened) = 1 /\ Cardinality(Passed) = 0
          BY <2>2, <2>3, <4>2
        <5> QED BY <4>2, <5>1
      <4>3. CASE sem[2].value = 0 /\ opened = {} /\ \E t \in Threads : Passed = {t}
        <5>1. Cardinality(opened) = 0 /\ Cardinality(Passed) = 1
          BY <2>2, <2>3, <4>3
        <5> QED BY <4>3, <5>1
      <4> QED BY <3>1, <4>1, <4>2, <4>3 DEF Token
    <3> QED BY <2>5, <3>2 DEF Sem2FollowsMode, Passed, MODE1
  <2> QED BY <2>1, <2>4, <2>5
<1> QED BY <1>1, <1>2, <1>3, PTL DEF Spec

\* The one way to block with sem1 held, however files are shared: the switch that
\* blocks has made count2 negative.
THEOREM BlockedWithSem1Holds ==
  ASSUME MaxSignals = 0
  PROVE  Spec => []BlockedWithSem1
<1>1. Init => GateInv
  BY InitGate
<1>2. GateInv /\ [Next]_vars => GateInv'
  BY NextGate
<1>3. GateInv => BlockedWithSem1
  BY DEF GateInv, CountInv, Broken, BlockedWithSem1, MODE2
<1> QED BY <1>1, <1>2, <1>3, PTL DEF Spec

\* The copies that go on without sem1 are of one file.
FreeCopiesOfOneFile ==
  \A t, u \in Threads :
    pc[t] = "copies" /\ pc[u] = "copies" => call[t].file = call[u].file

\* A copy that drops sem1 begins in MODE1, on the one file that has sem2; the
\* copies still going on are of open files, hence of that one.
LEMMA FreeCopiesStep ==
  ASSUME GateInv, FreeCopiesOfOneFile, NEW t \in Threads, Call(t) \/ Step(t)
  PROVE  FreeCopiesOfOneFile'
<1>1. /\ Basic /\ Roles /\ FileUse /\ Sem2Inv
      /\ pc \in [Threads -> Labels] /\ call \in [Threads -> Calls]
  BY Shapes DEF GateInv, Sem1Inv
<1>2. ASSUME NEW l, NEW c, Moves(t, l, c)
      PROVE  /\ pc'[t] = l /\ call'[t] = c
             /\ \A u \in Threads : u # t => pc'[u] = pc[u] /\ call'[u] = call[u]
  BY <1>1, <1>2 DEF Moves
<1>3. CASE /\ call[t].op \in {"read", "write"} /\ mode = 1
           /\ Moves(t, "copies", call[t])
  <2>1. opened = {} \/ \E f \in Files : opened = {f}
    BY <1>1, <1>3 DEF Sem2Inv, Token
  <2>2. \A u \in Threads : call'[u] = call[u] /\ (pc'[u] = "copies" => u = t \/ pc[u] = "copies")
    BY <1>2, <1>3
  <2>3. \A u \in Threads : pc'[u] = "copies" => call[u].op \in UsesOpen
    BY <1>1, <1>3, <2>2 DEF Roles, Role, UsesOpen
  <2>4. \A u \in Threads : pc'[u] = "copies" => call[u].file \in opened
    BY <1>1, <2>3 DEF FileUse
  <2> QED BY <2>1, <2>2, <2>4 DEF FreeCopiesOfOneFile
<1>4. CASE \E l, c : Moves(t, l, c) /\ l # "copies"
  <2>1. PICK l, c : Moves(t, l, c) /\ l # "copies"
    BY <1>4
  <2>2. \A u \in Threads : pc'[u] = "copies" => pc[u] = "copies" /\ call'[u] = call[u]
    BY <1>2, <2>1
  <2> QED BY <2>2 DEF FreeCopiesOfOneFile
<1>5. CASE Starts(t)
  BY <1>4, <1>5 DEF Starts
<1>6. CASE Passes(t)
  BY <1>3, <1>4, <1>6 DEF Passes
<1>7. CASE OpenLocked(t) \/ OpenTake2(t) \/ OpenReturn(t) \/ ReleaseLocked(t) \/ SwitchModes(t)
  <2>1. Return(t) \/ \E l \in {"wants2", "has2", "took2"} : Continue(t, l)
    BY <1>7 DEF OpenLocked, OpenTake2, OpenReturn, ReleaseLocked, SwitchModes
  <2>2. \E l, c : Moves(t, l, c) /\ l # "copies"
    <3>1. CASE Return(t)
      <4>1. Moves(t, "user", Idle)
        BY <3>1, ReturnMoves
      <4> QED BY <4>1
    <3>2. CASE \E l \in {"wants2", "has2", "took2"} : Continue(t, l)
      <4>1. PICK l \in {"wants2", "has2", "took2"} : Continue(t, l)
        BY <3>2
      <4>2. Moves(t, l, call[t])
        BY <1>1, <4>1, ContinueMoves
      <4> QED BY <4>1, <4>2
    <3> QED BY <2>1, <3>1, <3>2
  <2> QED BY <1>4, <2>2
<1> QED BY <1>1, <1>5, <1>6, <1>7, StepClass

\* However files are shared, copies overlap only if one was begun in MODE1, and
\* those begun in MODE1 are of one file.
THEOREM CopyOverlapsHolds ==
  ASSUME MaxSignals = 0
  PROVE  Spec => []CopyOverlaps
<1> DEFINE Inv == GateInv /\ FreeCopiesOfOneFile
<1>1. Init => Inv
  BY InitGate DEF Init, FreeCopiesOfOneFile
<1>2. Inv /\ [Next]_vars => Inv'
  <2> SUFFICES ASSUME Inv, [Next]_vars PROVE Inv'
    OBVIOUS
  <2>1. GateInv' /\ Basic
    BY NextGate DEF GateInv, Sem1Inv
  <2>2. CASE UNCHANGED vars
    BY <2>1, <2>2 DEF vars, FreeCopiesOfOneFile
  <2>3. CASE Next
    BY <2>1, <2>3, NextOfThread, FreeCopiesStep
  <2> QED BY <2>2, <2>3
<1>3. ASSUME Inv PROVE CopyOverlaps
  <2>1. LockInv(sem[1], pc)
    BY <1>3 DEF GateInv, Sem1Inv
  <2> SUFFICES ASSUME NEW t \in Threads, NEW u \in Threads, t # u,
                      pc[t] \in {"copies", "copies_locked"},
                      pc[u] \in {"copies", "copies_locked"}
               PROVE  /\ pc[t] = "copies" \/ pc[u] = "copies"
                      /\ pc[t] = pc[u] => call[t].file = call[u].file
    BY DEF CopyOverlaps, Copying
  <2>2. pc[t] = "copies" \/ pc[u] = "copies"
    <3> SUFFICES ASSUME pc[t] = "copies_locked", pc[u] = "copies_locked" PROVE FALSE
      OBVIOUS
    <3>1. Holder(sem[1], pc, t) /\ Holder(sem[1], pc, u)
      BY <2>1 DEF LockInv, Holder, Critical
    <3> QED BY <2>1, <3>1 DEF LockInv
  <2> QED BY <1>3, <2>2 DEF FreeCopiesOfOneFile
<1> QED BY <1>1, <1>2, <1>3, PTL DEF Spec

\* README.txt, case 2, for any number of threads and files and however the files
\* are shared: no step takes a switch to MODE2 past its wait.
THEOREM WaitForMode2NeverEndsHolds ==
  ASSUME MaxSignals = 0
  PROVE  Spec => WaitForMode2NeverEnds
<1>1. Init => GateInv
  BY InitGate
<1>2. GateInv /\ [Next]_vars => GateInv'
  BY NextGate
<1> DEFINE Stays == \A t \in Threads :
             pc[t] = "waits" /\ call[t].op = "mode2" => pc'[t] = "waits"
<1>3. ASSUME GateInv, [Next]_vars PROVE Stays \/ UNCHANGED vars
  <2> SUFFICES ASSUME Next PROVE Stays
    BY <1>3
  <2>1. Basic /\ Roles /\ Wait2 /\ count \in [{1, 2} -> Int]
    BY <1>3, Shapes DEF GateInv, Sem1Inv
  <2>2. PICK u \in Threads : Call(u) \/ Step(u)
    BY <2>1, NextOfThread
  <2> SUFFICES ASSUME NEW t \in Threads, pc[t] = "waits", call[t].op = "mode2"
               PROVE  pc'[t] = "waits"
    OBVIOUS
  <2>3. ASSUME NEW l, NEW c, Moves(u, l, c), u # t PROVE pc'[t] = "waits"
    BY <2>1, <2>3, Shapes DEF Moves
  <2>4. ASSUME NEW l, NEW c, Moves(u, l, c), u = t, l = "waits" PROVE pc'[t] = "waits"
    BY <2>1, <2>4, Shapes DEF Moves
  <2>5. Other(Target(t)) = 1 /\ count[1] > 1
    BY <2>1 DEF Wait2, Other, Target, MODE1, MODE2
  <2>6. CASE Starts(u)
    <3>1. u # t
      BY <2>6 DEF Starts
    <3>2. PICK c : Moves(u, "locked1", c)
      BY <2>6 DEF Starts
    <3> QED BY <2>3, <3>1, <3>2
  <2>7. CASE Passes(u)
    <3>1. PICK l \in {"user", "copies", "copies_locked", "waits", "relocked"} :
            \E c : Moves(u, l, c)
      BY <2>7 DEF Passes
    <3>2. PICK c : Moves(u, l, c)
      BY <3>1
    <3>3. CASE u # t
      BY <2>3, <3>2, <3>3
    <3>4. CASE u = t
      <4>1. Step(t) /\ Running(t) /\ SwitchWait(t)
        BY <2>1, <2>2, <3>4 DEF Call, CallOpen, CallRelease, CallOther, Enter, Step, At,
           OpenLocked, OpenTake2, OpenReturn, ReleaseLocked, TransferTooLong, TransferLocked,
           TransferEnd, SwitchRedundant, SwitchMustWait, AtSwitchTest, SwitchWait,
           SwitchModes, SwitchEnd
      <4>2. pending = {} /\ count[1] # 1
        BY <2>1, <2>5, Shapes
      <4>3. ~ Awake(t, Other(Target(t)))
        BY <2>5, <4>2 DEF Awake
      <4> QED BY <4>1, <4>3 DEF SwitchWait
    <3> QED BY <3>3, <3>4
  <2>8. CASE OpenLocked(u) \/ OpenTake2(u) \/ OpenReturn(u) \/ ReleaseLocked(u) \/ SwitchModes(u)
    <3>1. u # t
      BY <2>8 DEF OpenLocked, OpenTake2, OpenReturn, ReleaseLocked, SwitchModes,
         AtSwitchTest, At
    <3>2. PICK l : \E c : Moves(u, l, c)
      BY <2>1, <2>8, ReturnMoves, ContinueMoves DEF OpenLocked, OpenTake2, OpenReturn,
         ReleaseLocked, SwitchModes
    <3> QED BY <2>3, <3>1, <3>2
  <2> QED BY <2>1, <2>2, <2>6, <2>7, <2>8, StepClass
<1>4. GateInv /\ [Next]_vars => [Stays]_vars
  BY <1>3
<1> QED BY <1>1, <1>2, <1>4, PTL DEF Spec, WaitForMode2NeverEnds

-----------------------------------------------------------------------------
\* Threads that do not share files.

Owners == \A t \in Threads : call[t] # Idle => owner[call[t].file] = t

\* The modes a thread may count on while it is in the middle of a call.
ModesHeld ==
  /\ \A t \in Threads : pc[t] = "copies" => mode = 1
  /\ \A t \in Threads : pc[t] = "copies_locked" => mode = 2
  /\ \A t \in Threads :
       pc[t] \in {"waits", "relocked"} /\ call[t].op = "mode1" => mode = 2

OwnInv == Shared = FALSE /\ GateInv /\ Owners /\ ModesHeld /\ ~ Broken

LEMMA OwnersStep ==
  ASSUME Shared = FALSE, Basic, Roles, FileUse, Owners, NEW t \in Threads, Call(t) \/ Step(t)
  PROVE  Owners'
<1>1. ASSUME NEW l, NEW c, Moves(t, l, c)
      PROVE  call'[t] = c /\ \A u \in Threads : u # t => call'[u] = call[u]
  BY <1>1, Shapes DEF Moves
<1>2. ASSUME NEW u \in Threads, call[u] # Idle
      PROVE  call[u].file \in Files /\ owner[call[u].file] = u /\ u # NoThread
  BY <1>2, CallOf, NoThreadAssumption DEF Owners
<1>3. CASE Starts(t)
  <2>1. PICK f \in Files :
         \/ /\ owner[f] = NoThread /\ owner' = [owner EXCEPT ![f] = t]
            /\ Moves(t, "locked1", [op |-> "open", file |-> f])
         \/ /\ owner[f] = t /\ owner' = owner
            /\ \E op : Moves(t, "locked1", [op |-> op, file |-> f])
    BY <1>3 DEF Starts, MayUse
  <2>2. owner'[f] = t /\ \A g \in Files : g # f => owner'[g] = owner[g]
    BY <2>1, Shapes
  <2>3. PICK op : Moves(t, "locked1", [op |-> op, file |-> f])
    BY <2>1
  <2>4. call'[t].file = f /\ \A u \in Threads : u # t => call'[u] = call[u]
    BY <1>1, <2>3
  <2>5. ASSUME NEW u \in Threads, u # t, call[u] # Idle
        PROVE  owner'[call[u].file] = u
    BY <1>2, <2>1, <2>2, <2>5
  <2> QED BY <2>2, <2>4, <2>5 DEF Owners, Idle
<1>4. CASE ReleaseLocked(t)
  <2>1. /\ call'[t] = Idle /\ \A u \in Threads : u # t => call'[u] = call[u]
        /\ owner' = [owner EXCEPT ![call[t].file] = NoThread]
        /\ call[t] # Idle
    BY <1>1, <1>4, ReturnMoves DEF ReleaseLocked, At, Idle
  <2>2. ASSUME NEW u \in Threads, u # t, call[u] # Idle
        PROVE  owner'[call[u].file] = u
    BY <1>2, <2>1, <2>2, Shapes
  <2> QED BY <2>1, <2>2 DEF Owners, Idle
<1>5. ASSUME owner' = owner, NEW l, NEW c, Moves(t, l, c), c = Idle \/ c = call[t]
      PROVE  Owners'
  BY <1>1, <1>5 DEF Owners, Idle
<1>6. CASE Passes(t)
  <2>1. PICK l, c : Moves(t, l, c) /\ (c = Idle \/ c = call[t])
    BY <1>6 DEF Passes
  <2> QED BY <1>5, <1>6, <2>1 DEF Passes
<1>7. CASE OpenLocked(t) \/ OpenTake2(t) \/ OpenReturn(t) \/ SwitchModes(t)
  <2>1. PICK l, c : Moves(t, l, c) /\ (c = Idle \/ c = call[t])
    BY <1>7, ReturnMoves, ContinueMoves DEF OpenLocked, OpenTake2, OpenReturn, SwitchModes
  <2>2. owner' = owner
    BY <1>7 DEF OpenLocked, OpenTake2, OpenReturn, SwitchModes, files
  <2> QED BY <1>5, <2>1, <2>2
<1> QED BY <1>3, <1>4, <1>6, <1>7, StepClass

\* In MODE1 one thread at most uses an open file; with a single file open, likewise.
LEMMA SoleUser ==
  ASSUME OwnInv, mode = 1 \/ \E f : opened = {f},
         NEW t \in Threads, NEW u \in Threads,
         call[t].op \in UsesOpen, call[u].op \in UsesOpen
  PROVE  t = u
<1>1. Basic /\ FileUse /\ Owners /\ (mode = 1 => Token)
  BY DEF OwnInv, GateInv, Sem1Inv, Sem2Inv
<1>2. call[t].file \in opened /\ call[u].file \in opened
  BY <1>1 DEF FileUse
<1>3. call[t].file = call[u].file
  BY <1>1, <1>2 DEF Token
<1>4. call[t] # Idle /\ call[u] # Idle
  BY DEF Idle, UsesOpen
<1> QED BY <1>1, <1>3, <1>4 DEF Owners

\* A switch goes through in the mode it leaves.
LEMMA OwnSwitch ==
  ASSUME OwnInv, NEW t \in Threads, SwitchModes(t)
  PROVE  mode # Target(t) /\ opened = {call[t].file} /\ mode' = Target(t)
<1>1. Roles /\ ModesHeld /\ GateInv
  BY DEF OwnInv, GateInv
<1>2. mode # Target(t)
  BY <1>1 DEF SwitchModes, AtSwitchTest, At, Roles, Role, ModesHeld, Target, MODE1, MODE2
<1> QED BY <1>1, <1>2, SwitchAlone DEF SwitchModes

LEMMA ModesStep ==
  ASSUME OwnInv, NEW t \in Threads, Call(t) \/ Step(t)
  PROVE  ModesHeld'
<1>1. Basic /\ Roles /\ ModesHeld /\ GateInv
  BY DEF OwnInv, GateInv, Sem1Inv
<1>2. mode \in {1, 2}
  BY <1>1, Shapes
<1>3. ASSUME NEW l, NEW c, Moves(t, l, c)
      PROVE  /\ pc'[t] = l /\ call'[t] = c
             /\ \A u \in Threads : u # t => pc'[u] = pc[u] /\ call'[u] = call[u]
  BY <1>1, <1>3, Shapes DEF Moves
<1>4. ASSUME mode' = mode, NEW l, NEW c, Moves(t, l, c),
             l = "copies" => mode = 1, l = "copies_locked" => mode = 2,
             l \in {"waits", "relocked"} /\ c.op = "mode1" => mode = 2
      PROVE  ModesHeld'
  <2>1. /\ pc'[t] = l /\ call'[t] = c
        /\ \A u \in Threads : u # t => pc'[u] = pc[u] /\ call'[u] = call[u]
    BY <1>3, <1>4
  <2> QED BY <1>1, <1>4, <2>1 DEF ModesHeld
<1>5. CASE Starts(t)
  <2>1. PICK c : Moves(t, "locked1", c)
    BY <1>5 DEF Starts
  <2> QED BY <1>4, <1>5, <2>1 DEF Starts
<1>6. CASE Passes(t)
  <2>1. mode' = mode
    BY <1>6 DEF Passes
  <2>2. CASE Moves(t, "user", Idle)
    BY <1>4, <2>1, <2>2
  <2>3. CASE /\ call[t].op \in {"read", "write"} /\ pc[t] = "locked1"
             /\ \/ mode = 1 /\ Moves(t, "copies", call[t])
                \/ mode # 1 /\ Moves(t, "copies_locked", call[t])
    BY <1>2, <1>4, <2>1, <2>3
  <2>4. CASE /\ call[t].op \in {"mode1", "mode2"}
             /\ \/ pc[t] = "locked1" /\ mode # Target(t) /\ count[Other(Target(t))] > 1
                \/ pc[t] \in {"waits", "relocked"}
             /\ Moves(t, "waits", call[t])
    <3>1. call[t].op = "mode1" => mode = 2
      BY <1>1, <1>2, <2>4 DEF ModesHeld, Target, MODE1
    <3> QED BY <1>4, <2>1, <2>4, <3>1
  <2>5. CASE /\ pc[t] = "waits" /\ count[Other(Target(t))] = 1
             /\ Moves(t, "relocked", call[t])
    <3>1. call[t].op = "mode1" => mode = 2
      BY <1>1, <2>5 DEF ModesHeld
    <3> QED BY <1>4, <2>1, <2>5, <3>1
  <2> QED BY <1>6, <2>2, <2>3, <2>4, <2>5 DEF Passes
<1>7. CASE OpenLocked(t) \/ OpenTake2(t) \/ OpenReturn(t) \/ ReleaseLocked(t)
  <2>1. PICK l \in {"user", "wants2", "has2"} : \E c : Moves(t, l, c)
    BY <1>1, <1>7, ReturnMoves, ContinueMoves DEF OpenLocked, OpenTake2, OpenReturn,
       ReleaseLocked
  <2>2. PICK c : Moves(t, l, c)
    BY <2>1
  <2>3. mode' = mode
    BY <1>7 DEF OpenLocked, OpenTake2, OpenReturn, ReleaseLocked, device
  <2> QED BY <1>4, <2>1, <2>2, <2>3
<1>8. CASE SwitchModes(t)
  <2>1. opened = {call[t].file} /\ call[t].op \in UsesOpen
    BY <1>1, <1>8, OwnSwitch, SwitchAlone DEF UsesOpen
  <2>2. PICK l \in {"user", "took2"} : \E c : Moves(t, l, c)
    BY <1>1, <1>8, ReturnMoves, ContinueMoves DEF SwitchModes
  <2>3. PICK c : Moves(t, l, c)
    BY <2>2
  <2>4. ASSUME NEW u \in Threads, pc'[u] \in {"copies", "copies_locked", "waits", "relocked"}
        PROVE  FALSE
    <3>1. u # t /\ pc'[u] = pc[u]
      BY <1>3, <2>2, <2>3, <2>4
    <3>2. call[u].op \in UsesOpen
      BY <1>1, <2>4, <3>1 DEF Roles, Role, UsesOpen
    <3> QED BY <2>1, <3>1, <3>2, SoleUser
  <2> QED BY <2>4 DEF ModesHeld
<1> QED BY <1>1, <1>5, <1>6, <1>7, <1>8, StepClass

\* No switch to MODE1 waits for sem2.
LEMMA NeverBroken ==
  ASSUME OwnInv, NEW t \in Threads, Call(t) \/ Step(t), CountInv'
  PROVE  ~ Broken'
<1>1. Basic /\ Roles /\ GateInv /\ CountInv /\ ~ Broken
  BY DEF OwnInv, GateInv, Sem1Inv
<1>2. CASE SwitchModes(t)
  BY <1>1, <1>2, OwnSwitch, Sem2Switches
<1>3. CASE ~ SwitchModes(t)
  <2>1. mode' = mode /\ (mode = 1 => count'[2] = count[2])
    <3>1. CASE Starts(t) \/ Passes(t) \/ OpenTake2(t) \/ OpenReturn(t)
      BY <3>1 DEF Starts, Passes, OpenTake2, OpenReturn, device
    <3>2. CASE OpenLocked(t) \/ ReleaseLocked(t)
      BY <1>1, <3>2, Shapes DEF OpenLocked, ReleaseLocked
    <3> QED BY <1>1, <1>3, <3>1, <3>2, StepClass
  <2>2. mode = 1 => count[2] = 0
    BY <1>1 DEF CountInv, Other
  <2> QED BY <2>1, <2>2 DEF CountInv
<1> QED BY <1>2, <1>3

LEMMA InitOwn ==
  ASSUME Shared = FALSE, MaxSignals = 0, Init
  PROVE  OwnInv
<1>1. \A t \in Threads : pc[t] = "user" /\ call[t] = Idle
  BY DEF Init
<1> QED BY <1>1, InitGate DEF OwnInv, Owners, ModesHeld, Broken

LEMMA NextOwn ==
  ASSUME OwnInv, [Next]_vars
  PROVE  OwnInv'
<1>1. GateInv /\ GateInv' /\ Basic /\ Roles /\ FileUse /\ Shared = FALSE /\ Owners
  BY NextGate DEF OwnInv, GateInv, Sem1Inv
<1>2. CASE UNCHANGED vars
  BY <1>1, <1>2 DEF vars, OwnInv, Owners, ModesHeld, Broken, Waiters
<1>3. CASE Next
  <2>1. PICK t \in Threads : Call(t) \/ Step(t)
    BY <1>1, <1>3, NextOfThread
  <2>2. Owners'
    BY <1>1, <2>1, OwnersStep
  <2>3. ModesHeld' /\ ~ Broken'
    BY <1>1, <2>1, ModesStep, NeverBroken DEF GateInv
  <2> QED BY <1>1, <2>2, <2>3 DEF OwnInv
<1> QED BY <1>2, <1>3

\* With threads that do not share files, the counter of the current mode is the
\* number of files open or opening, and the other counter is zero.
THEOREM CountsMatchHolds ==
  ASSUME Shared = FALSE, MaxSignals = 0
  PROVE  Spec => []CountsMatch
<1>1. Init => OwnInv
  BY InitOwn
<1>2. OwnInv /\ [Next]_vars => OwnInv'
  BY NextOwn
<1>3. ASSUME OwnInv PROVE CountsMatch
  <2>1. /\ mode \in {1, 2} /\ count \in [{1, 2} -> Int]
        /\ count[Other(mode)] = 0 /\ count[1] + count[2] = Cardinality(Counted)
    BY <1>3, Shapes DEF OwnInv, GateInv, Sem1Inv, CountInv, Conserved
  <2>2. CASE mode = 1
    <3>1. count[2] = 0 /\ count[1] \in Int
      BY <2>1, <2>2 DEF Other
    <3> QED BY <2>1, <2>2, <3>1 DEF CountsMatch
  <2>3. CASE mode = 2
    <3>1. count[1] = 0 /\ count[2] \in Int
      BY <2>1, <2>3 DEF Other
    <3> QED BY <2>1, <2>3, <3>1 DEF CountsMatch
  <2> QED BY <2>1, <2>2, <2>3
<1> QED BY <1>1, <1>2, <1>3, PTL DEF Spec

-----------------------------------------------------------------------------
\* The gate.

\* Every step of the driver is a step of the gate, or none.
LEMMA GateStep ==
  ASSUME OwnInv, [Next]_vars
  PROVE  [Gate!Next]_<<mode, opened>>
<1>1. Basic /\ Roles /\ FileUse /\ Sem2Inv /\ GateInv /\ mode \in {1, 2}
  BY Shapes DEF OwnInv, GateInv, Sem1Inv
<1>2. CASE UNCHANGED vars
  BY <1>2 DEF vars
<1>3. CASE Next
  <2>1. PICK t \in Threads : Call(t) \/ Step(t)
    BY <1>1, <1>3, NextOfThread
  <2> DEFINE f == call[t].file
  <2>2. CASE Starts(t) \/ Passes(t) \/ OpenTake2(t)
    BY <2>2 DEF Starts, Passes, OpenTake2, device, files
  <2>3. CASE OpenLocked(t)
    <3>1. f \in Files /\ f \notin opened /\ mode' = mode
      BY <1>1, <2>3, CallOf DEF OpenLocked, FileUse, Idle
    <3>2. CASE mode = MODE1 /\ UNCHANGED opened
      BY <3>1, <3>2
    <3>3. CASE mode = MODE2 /\ opened' = opened \union {f}
      BY <3>1, <3>3 DEF Gate!Next, Gate!Admit, MODE2
    <3> QED BY <2>3, <3>2, <3>3 DEF OpenLocked
  <2>4. CASE OpenReturn(t)
    <3>1. opened = {} /\ f \in Files
      BY <1>1, <2>4, Sem2Returns
    <3>2. mode' = mode /\ opened' = opened \union {f}
      BY <2>4 DEF OpenReturn, device
    <3> QED BY <3>1, <3>2 DEF Gate!Next, Gate!Admit
  <2>5. CASE ReleaseLocked(t)
    <3>1. f \in opened /\ f \in Files
      BY <1>1, <2>5, Shapes DEF ReleaseLocked, FileUse, UsesOpen
    <3>2. mode' = mode /\ opened' = opened \ {f}
      BY <2>5 DEF ReleaseLocked
    <3> QED BY <3>1, <3>2 DEF Gate!Next, Gate!Leave
  <2>6. CASE SwitchModes(t)
    <3>1. mode # Target(t) /\ opened = {f} /\ mode' = Target(t) /\ opened' = opened
      BY <2>6, OwnSwitch DEF SwitchModes, files
    <3>2. f \in Files
      BY <1>1, <3>1, Shapes
    <3>3. mode' = 3 - mode
      BY <1>1, <3>1 DEF Target, MODE1, MODE2
    <3> QED BY <3>1, <3>2, <3>3 DEF Gate!Next, Gate!Switch
  <2> QED BY <1>1, <2>1, <2>2, <2>3, <2>4, <2>5, <2>6, StepClass
<1> QED BY <1>2, <1>3

\* The driver implements the gate: with threads that do not share files, MODE1
\* admits one file at a time and the mode changes only while one file is open.
THEOREM ImplementsGateHolds ==
  ASSUME Shared = FALSE, MaxSignals = 0
  PROVE  Spec => ImplementsGate
<1>1. Init => OwnInv /\ Gate!Init
  BY InitOwn DEF Init, Gate!Init, InitialMode, MODE1
<1>2. OwnInv /\ [Next]_vars => OwnInv'
  BY NextOwn
<1>3. OwnInv /\ [Next]_vars => [Gate!Next]_<<mode, opened>>
  BY GateStep
<1> QED BY <1>1, <1>2, <1>3, PTL DEF Spec, ImplementsGate, Gate!Spec

-----------------------------------------------------------------------------
\* When everything is blocked.

\* sem1 is never lost: it is free or somebody has it.
Held == sem[1].value = 1 \/ \E t \in Threads : Holder(sem[1], pc, t)

\* Who sleeps on a queue is in a switch away from its mode.
QueueInv ==
  \A q \in Modes : \A t \in queue[q] : pc[t] = "waits" /\ q = Other(Target(t))

LEMMA HeldStep ==
  ASSUME Sem1Inv, Held, NEW t \in Threads, Call(t) \/ Step(t)
  PROVE  Held'
<1> DEFINE r == sem[1]
           q == sem'[1]
<1>1. /\ Basic /\ LockInv(r, pc) /\ r \in Semaphore /\ sem \in Semaphores
      /\ pc \in [Threads -> Labels] /\ pending = {}
  BY Shapes DEF Sem1Inv
<1>2. /\ r.value \in {0, 1} /\ r.wait \in Seq(Threads)
      /\ r.value = 1 => r.wait = <<>> /\ \A u \in Threads : pc[u] \notin Critical
      /\ \A i, j \in DOMAIN r.wait : r.wait[i] = r.wait[j] => i = j
      /\ \A i \in DOMAIN r.wait : pc[r.wait[i]] \in {"locked1", "relocked"}
  BY <1>1 DEF LockInv, Semaphore
<1> SUFFICES q.value = 1 \/ \E u \in Threads : Holder(q, pc', u)
  BY DEF Held
<1>3. CASE FreesSem1(t)
  <2>1. PICK l \in Labels \ Critical : pc' = [pc EXCEPT ![t] = l]
    BY <1>3 DEF FreesSem1
  <2>2. Holder(r, pc, t) /\ r.value = 0 /\ q = Up(sem, 1)[1]
    BY <1>2, <1>3 DEF FreesSem1, Holder
  <2>3. CASE r.wait = <<>>
    <3>1. q.value = 1
      BY <1>1, <2>2, <2>3 DEF Up, Semaphores, Semaphore, Modes, MODE1
    <3> QED BY <3>1
  <2>4. CASE r.wait # <<>>
    <3> DEFINE h == r.wait[1]
    <3>1. /\ Len(r.wait) \in Nat \ {0} /\ DOMAIN r.wait = 1 .. Len(r.wait)
          /\ DOMAIN Tail(r.wait) = 1 .. Len(r.wait) - 1
          /\ \A i \in 1 .. Len(r.wait) - 1 : Tail(r.wait)[i] = r.wait[i + 1]
          /\ \A i \in 1 .. Len(r.wait) : r.wait[i] \in Threads
      BY <1>2, <2>4, TailFacts
    <3>2. q.wait = Tail(r.wait)
      BY <1>1, <2>2, <2>4 DEF Up, Semaphores, Semaphore, Modes, MODE1
    <3>3. 1 \in DOMAIN r.wait /\ h \in Threads /\ h # t /\ pc[h] \in Critical
      BY <1>2, <2>2, <3>1 DEF Holder, Critical
    <3>4. pc'[h] = pc[h]
      BY <1>1, <2>1, <3>3
    <3>5. \A i \in DOMAIN q.wait : q.wait[i] # h
      <4> SUFFICES ASSUME NEW i \in 1 .. Len(r.wait) - 1, Tail(r.wait)[i] = h
                   PROVE  FALSE
        BY <3>1, <3>2
      <4>1. i + 1 \in DOMAIN r.wait /\ r.wait[i + 1] = h /\ i + 1 # 1
        BY <3>1
      <4> QED BY <1>2, <3>3, <4>1
    <3> QED BY <3>3, <3>4, <3>5 DEF Holder
  <2> QED BY <2>3, <2>4
<1>4. CASE TakesSem1(t)
  <2>1. PICK l \in {"locked1", "relocked"} : pc' = [pc EXCEPT ![t] = l]
    BY <1>4 DEF TakesSem1
  <2>2. /\ pc'[t] \in Critical /\ pc[t] \notin Critical
        /\ \A u \in Threads : u # t => pc'[u] = pc[u]
    BY <1>1, <1>4, <2>1 DEF TakesSem1, Critical
  <2>3. CASE r.value > 0
    <3>1. r.value = 1 /\ q.wait = r.wait
      BY <1>1, <1>2, <1>4, <2>3 DEF TakesSem1, Down, Semaphores, Semaphore, Modes, MODE1
    <3>2. DOMAIN q.wait = {}
      BY <1>2, <3>1
    <3> QED BY <2>2, <3>2 DEF Holder
  <2>4. CASE ~ (r.value > 0)
    <3>1. PICK u \in Threads : Holder(r, pc, u)
      BY <2>4 DEF Held
    <3>2. q.wait = Append(r.wait, t)
      BY <1>1, <1>4, <2>4 DEF TakesSem1, Down, Semaphores, Semaphore, Modes, MODE1
    <3>3. /\ DOMAIN q.wait = 1 .. Len(r.wait) + 1
          /\ q.wait[Len(r.wait) + 1] = t
          /\ \A i \in 1 .. Len(r.wait) : q.wait[i] = r.wait[i]
      BY <1>2, <3>2, AppendFacts
    <3>4. DOMAIN r.wait = 1 .. Len(r.wait) /\ Len(r.wait) \in Nat
      BY <1>2, LenProperties
    <3>5. u # t /\ pc'[u] \in Critical
      BY <2>2, <3>1 DEF Holder
    <3>6. \A i \in DOMAIN q.wait : i = Len(r.wait) + 1 \/ i \in DOMAIN r.wait
      BY <3>3, <3>4
    <3>7. \A i \in DOMAIN q.wait : q.wait[i] # u
      <4> HIDE DEF q, r
      <4> QED BY <3>1, <3>3, <3>4, <3>5, <3>6 DEF Holder
    <3> QED BY <3>5, <3>7 DEF Holder
  <2> QED BY <2>3, <2>4
<1>5. CASE KeepsSem1(t)
  <2>1. PICK l \in Labels :
          /\ pc' = [pc EXCEPT ![t] = l]
          /\ \/ Holder(sem[1], pc, t) /\ l \in Critical
             \/ pc[t] \notin Critical /\ l \notin Critical
    BY <1>5 DEF KeepsSem1
  <2>2. q = r /\ pc'[t] = l /\ \A u \in Threads : u # t => pc'[u] = pc[u]
    BY <1>1, <1>5, <2>1 DEF KeepsSem1
  <2> QED BY <2>1, <2>2 DEF Held, Holder
<1> QED BY <1>1, <1>3, <1>4, <1>5, StepKind

\* A thread that takes a step slept on no queue.
LEMMA Awoken ==
  ASSUME QueueInv, NEW t \in Threads, Call(t) \/ Step(t)
  PROVE  \A q \in Modes : t \notin queue[q]
<1>1. pc[t] = "user" \/ Running(t)
  BY DEF Call, CallOpen, CallRelease, CallOther, Enter, Step, At,
     OpenLocked, OpenTake2, OpenReturn, ReleaseLocked, TransferTooLong, TransferLocked,
     TransferEnd, SwitchRedundant, SwitchMustWait, AtSwitchTest, SwitchWait,
     SwitchModes, SwitchEnd
<1> QED BY <1>1 DEF QueueInv, Running

\* It falls asleep in the wait of a switch, or the queues are as they were, except
\* that a release may empty one.
LEMMA QueueMoves ==
  ASSUME Basic, NEW t \in Threads, Call(t) \/ Step(t)
  PROVE  \/ /\ pc[t] = "waits" /\ UNCHANGED <<pc, call>>
            /\ queue' = [queue EXCEPT ![Other(Target(t))] = @ \union {t}]
         \/ /\ \A q \in Modes : queue'[q] \subseteq queue[q]
            /\ \E l, c : Moves(t, l, c)
<1>1. queue \in [Modes -> SUBSET Threads]
  BY Shapes
<1>2. UNCHANGED queue => \A q \in Modes : queue'[q] \subseteq queue[q]
  BY <1>1
<1>3. CASE SwitchWait(t)
  <2>1. call' = call /\ pc[t] = "waits"
    BY <1>3 DEF SwitchWait, At
  <2>2. CASE Goto(t, "relocked") /\ UNCHANGED queue
    <3>1. call = [call EXCEPT ![t] = call[t]]
      BY Shapes
    <3>2. Moves(t, "relocked", call[t])
      BY <2>1, <2>2, <3>1 DEF Moves, Goto
    <3> QED BY <1>2, <2>2, <3>2
  <2> QED BY <1>3, <2>1, <2>2 DEF SwitchWait
<1>4. CASE ~ SwitchWait(t)
  <2>1. \E l, c : Moves(t, l, c)
    <3>1. CASE Call(t)
      <4>1. PICK f, op : Enter(t, op, f)
        BY <3>1 DEF Call, CallOpen, CallRelease, CallOther
      <4> QED BY <4>1 DEF Enter, Moves, Goto
    <3>2. CASE Step(t)
      <4>1. Return(t) \/ \E l : Continue(t, l)
        BY <1>4, <3>2 DEF Step, OpenLocked, OpenTake2, OpenReturn, ReleaseLocked,
           TransferTooLong, TransferLocked, TransferEnd, SwitchRedundant, SwitchMustWait,
           SwitchModes, SwitchEnd
      <4> QED BY <4>1, ReturnMoves, ContinueMoves
    <3> QED BY <3>1, <3>2
  <2>2. \A q \in Modes : queue'[q] \subseteq queue[q]
    <3>1. CASE ReleaseLocked(t)
      BY <1>1, <3>1 DEF ReleaseLocked, WakeIf
    <3>2. CASE ~ ReleaseLocked(t)
      <4>1. UNCHANGED queue
        BY <1>4, <3>2 DEF Call, CallOpen, CallRelease, CallOther, Enter, Step,
           OpenLocked, OpenTake2, OpenReturn, TransferTooLong, TransferLocked,
           TransferEnd, SwitchRedundant, SwitchMustWait, SwitchModes, SwitchEnd
      <4> QED BY <1>2, <4>1
    <3> QED BY <3>1, <3>2
  <2> QED BY <2>1, <2>2
<1> QED BY <1>3, <1>4

LEMMA QueueStep ==
  ASSUME Basic, QueueInv, NEW t \in Threads, Call(t) \/ Step(t)
  PROVE  QueueInv'
<1>1. queue \in [Modes -> SUBSET Threads] /\ \A q \in Modes : t \notin queue[q]
  BY Shapes, Awoken
<1>2. CASE /\ pc[t] = "waits" /\ UNCHANGED <<pc, call>>
           /\ queue' = [queue EXCEPT ![Other(Target(t))] = @ \union {t}]
  <2>1. \A u : Target(u)' = Target(u)
    BY <1>2 DEF Target
  <2>2. \A q \in Modes : \A u \in queue'[q] :
          u \in queue[q] \/ (u = t /\ q = Other(Target(t)))
    BY <1>1, <1>2
  <2> QED BY <1>2, <2>1, <2>2 DEF QueueInv
<1>3. CASE /\ \A q \in Modes : queue'[q] \subseteq queue[q]
           /\ \E l, c : Moves(t, l, c)
  <2>1. \A u \in Threads : u # t => pc'[u] = pc[u] /\ call'[u] = call[u]
    BY <1>3, Shapes DEF Moves
  <2>2. \A u \in Threads : u # t => Target(u)' = Target(u)
    BY <2>1 DEF Target
  <2>3. \A q \in Modes : \A u \in queue'[q] : u \in Threads /\ u # t /\ u \in queue[q]
    BY <1>1, <1>3
  <2> QED BY <2>1, <2>2, <2>3 DEF QueueInv
<1> QED BY <1>2, <1>3, QueueMoves

\* Where the threads are once all of them are blocked.
LEMMA AllBlocked ==
  ASSUME OwnInv, Held, QueueInv, \A t \in Threads : ~ Running(t)
  PROVE  DeadlockShapes
<1>1. /\ Basic /\ Roles /\ LockInv(sem[1], pc) /\ Sem2Inv /\ Wait2 /\ ModesHeld /\ ~ Broken
      /\ mode \in {1, 2} /\ queue \in [Modes -> SUBSET Threads] /\ Modes = {1, 2}
      /\ sem[2] \in Semaphore
  BY Shapes DEF OwnInv, GateInv, Sem1Inv
<1>2. ASSUME NEW t \in queue[1]
      PROVE  t \in Threads /\ pc[t] = "waits" /\ call[t].op = "mode2" /\ mode = 1
  <2>1. t \in Threads /\ pc[t] = "waits" /\ 1 = Other(Target(t))
    BY <1>1, <1>2 DEF QueueInv
  <2>2. call[t].op \in {"mode1", "mode2"} /\ call[t].op # "mode1"
    BY <1>1, <2>1 DEF Roles, Role, Other, Target, MODE1
  <2> QED BY <1>1, <2>1, <2>2 DEF Wait2
<1>3. ASSUME NEW t \in queue[2]
      PROVE  mode = 2
  <2>1. t \in Threads /\ pc[t] = "waits" /\ 2 = Other(Target(t))
    BY <1>1, <1>3 DEF QueueInv
  <2>2. call[t].op = "mode1"
    BY <2>1 DEF Other, Target, MODE1, MODE2
  <2> QED BY <1>1, <2>1, <2>2 DEF ModesHeld
<1>4. \A t \in Threads : t \in Waiters(1) \/ t \in Waiters(2) \/ t \in queue[1] \/ t \in queue[2]
  BY <1>1 DEF Running
<1>5. sem[1].value = 1
  <2> SUFFICES ASSUME sem[1].value # 1 PROVE FALSE
    OBVIOUS
  <2>2. PICK h \in Threads : Holder(sem[1], pc, h)
    BY DEF Held
  <2>3. pc[h] \in Critical /\ h \notin Waiters(1)
    BY <2>2 DEF Holder, Waiters
  <2>4. h \notin queue[1] /\ h \notin queue[2]
    BY <1>1, <2>3 DEF QueueInv, Critical
  <2>5. h \in Waiters(2)
    BY <1>4, <2>3, <2>4
  <2>6. pc[h] \in {"has2", "took2"}
    BY <1>1, <2>5 DEF Sem2Inv, Waiters
  <2>7. pc[h] = "took2"
    BY <2>3, <2>6 DEF Critical
  <2> QED BY <1>1, <2>5, <2>7 DEF Broken
<1>6. Waiters(1) = {}
  BY <1>1, <1>5 DEF LockInv, Waiters
<1>7. Waiters(2) \subseteq Threads /\ (mode = 2 => Waiters(2) = {})
  <2>1. sem[2].wait \in Seq(Threads)
    BY <1>1 DEF Semaphore
  <2>2. \A i \in DOMAIN sem[2].wait : sem[2].wait[i] \in Threads
    BY <2>1, ElementOfSeq, LenProperties
  <2>3. mode = 2 => DOMAIN sem[2].wait = {}
    BY <1>1 DEF Sem2Inv
  <2> QED BY <2>2, <2>3 DEF Waiters
<1>8. CASE mode = 2
  <2>1. queue[1] = {} /\ queue[2] \subseteq Threads
    BY <1>1, <1>2, <1>8
  <2>2. queue[2] = Threads
    BY <1>4, <1>6, <1>7, <1>8, <2>1
  <2> QED BY <1>1, <1>8, <1>5, <2>2 DEF DeadlockShapes, Sem2Inv, MODE2
<1>9. CASE mode = 1
  <2>1. queue[2] = {} /\ queue[1] \subseteq Threads
    BY <1>1, <1>3, <1>9
  <2>2. Waiters(2) \union queue[1] = Threads
    BY <1>4, <1>6, <1>7, <2>1
  <2>3. \A t, u \in queue[1] : t = u
    BY <1>2, <1>9, SoleUser DEF UsesOpen
  <2>4. Cardinality(queue[1]) <= 1
    <3>1. CASE queue[1] = {}
      <4>1. Cardinality(queue[1]) = 0
        BY <3>1, FS_EmptySet
      <4> QED BY <4>1
    <3>2. CASE queue[1] # {}
      <4>1. PICK x : queue[1] = {x}
        BY <2>3, <3>2
      <4>2. Cardinality(queue[1]) = 1
        BY <4>1, FS_Singleton
      <4> QED BY <4>2
    <3> QED BY <3>1, <3>2
  <2> QED BY <1>9, <1>5, <2>2, <2>4 DEF DeadlockShapes, MODE1
<1> QED BY <1>1, <1>8, <1>9

\* With threads that do not share files, whenever all threads are blocked nobody
\* has sem1, and they wait for the file admitted in MODE1 or sleep in switches to
\* MODE1 with sem2 free as well: the first is README.txt's deadlocks 1 and 2, the
\* second what its deadlock 3 comes to in the code.
THEOREM DeadlockShapesHolds ==
  ASSUME Shared = FALSE, MaxSignals = 0
  PROVE  Spec => []DeadlockShapes
<1> DEFINE Inv == OwnInv /\ Held /\ QueueInv
<1>1. Init => Inv
  <2> SUFFICES ASSUME Init PROVE Inv
    OBVIOUS
  <2>1. sem[1].value = 1 /\ \A q \in Modes : queue[q] = {}
    BY DEF Init, Modes, MODE1
  <2> QED BY <2>1, InitOwn DEF Held, QueueInv
<1>2. Inv /\ [Next]_vars => Inv'
  <2> SUFFICES ASSUME Inv, [Next]_vars PROVE Inv'
    OBVIOUS
  <2>1. OwnInv' /\ Sem1Inv /\ Basic
    BY NextOwn DEF OwnInv, GateInv, Sem1Inv
  <2>2. CASE UNCHANGED vars
    BY <2>1, <2>2 DEF vars, Held, Holder, QueueInv, Target
  <2>3. CASE Next
    <3>1. PICK t \in Threads : Call(t) \/ Step(t)
      BY <2>1, <2>3, NextOfThread
    <3> QED BY <2>1, <3>1, HeldStep, QueueStep
  <2> QED BY <2>2, <2>3
<1>3. Inv => DeadlockShapes
  BY AllBlocked DEF DeadlockShapes
<1> QED BY <1>1, <1>2, <1>3, PTL DEF Spec
=============================================================================
