------------------------------ MODULE E2Driver ------------------------------
(***************************************************************************)
(* The two-mode character device of Assignment6/assignment6.c: open,       *)
(* release, read, write and the two mode-switching ioctls, run by          *)
(* concurrent threads.  In MODE1 the device admits one opener at a time    *)
(* (sem2); in MODE2 any number.  sem1 guards mode, count1 and count2.      *)
(*                                                                         *)
(* Each handler is cut where the code can block or lets go of sem1; what   *)
(* it does between two such points is one step.  A thread's pc names the   *)
(* point it runs from next, also while it is queued on a semaphore.        *)
(***************************************************************************)
EXTENDS Integers, Sequences, FiniteSets

CONSTANTS
  Threads,     \* threads that make system calls on the device
  Files,       \* struct file objects: a bound on the files open at once
  NoThread,    \* the owner of an unused struct file
  NoFile,      \* the file of a thread that is in no call
  Shared,      \* whether a thread may use a file that another one opened
  MaxSignals   \* a bound on the signals sent to threads inside a call

ASSUME SharedAssumption == Shared \in BOOLEAN
ASSUME NoThreadAssumption == NoThread \notin Threads
ASSUME NoFileAssumption == NoFile \notin Files
ASSUME MaxSignalsAssumption == MaxSignals \in Nat

VARIABLES
  mode,        \* e2_dev.mode
  count,       \* e2_dev.count1 and count2, as count[1] and count[2]
  sem,         \* e2_dev.sem1 and sem2: the value and the FIFO of waiters
  queue,       \* e2_dev.queue1 and queue2: the threads asleep on each
  pc,          \* where each thread is
  call,        \* the operation and the file of its current call
  owner,       \* the thread that opened each file
  opened,      \* the files whose open() has returned
  pending,     \* the threads in a call with a signal pending
  signals      \* how many signals may still be sent

device == <<mode, count>>
files == <<owner, opened>>
interrupts == <<pending, signals>>
vars == <<mode, count, sem, queue, pc, call, owner, opened, pending, signals>>

Idle == [op |-> "none", file |-> NoFile]

MODE1 == 1
MODE2 == 2
Modes == {MODE1, MODE2}
Other(m) == 3 - m

-----------------------------------------------------------------------------
\* Kernel primitives.

\* The threads in a semaphore's list of waiters.
Waiters(s) == {sem[s].wait[i] : i \in DOMAIN sem[s].wait}

\* down_interruptible: take the semaphore or join the end of its list.  With a
\* signal pending it returns -EINTR instead of queueing; the callers ignore that.
Down(s, t) ==
  IF sem[s].value > 0
    THEN sem' = [sem EXCEPT ![s].value = @ - 1]
    ELSE sem' = IF t \in pending THEN sem
                                 ELSE [sem EXCEPT ![s].wait = Append(@, t)]

\* up: hand the semaphore to the first waiter, or count it free.
Up(S, s) ==
  IF S[s].wait = <<>>
    THEN [S EXCEPT ![s].value = @ + 1]
    ELSE [S EXCEPT ![s].wait = Tail(@)]

\* A thread runs unless it is queued on a semaphore or asleep on a wait queue.
Running(t) ==
  /\ \A s \in Modes : t \notin Waiters(s)
  /\ \A q \in Modes : t \notin queue[q]

At(t, l) == pc[t] = l /\ Running(t)

Goto(t, l) == pc' = [pc EXCEPT ![t] = l]

\* wake_up_interruptible: every sleeper of the queue looks at its condition.
WakeIf(cond, q) == queue' = IF cond THEN [queue EXCEPT ![q] = {}] ELSE queue

\* up(sem2), on the way out of MODE1: by a release or by a switch to MODE2.
LeaveMode1_KeepsSem2(S) == S      \* mutant: the up(sem2) is missing
LeaveMode1(S) == Up(S, 2)

\* Back to user mode, where pending signals are handled.
Return(t) ==
  /\ Goto(t, "user")
  /\ call' = [call EXCEPT ![t] = Idle]
  /\ pending' = pending \ {t}
  /\ UNCHANGED signals

Continue(t, l) == Goto(t, l) /\ UNCHANGED <<call, pending, signals>>

\* A signal for a thread inside a call: if it is queued or asleep it wakes up.
Signal(t) ==
  /\ signals > 0
  /\ pc[t] # "user" /\ t \notin pending
  /\ signals' = signals - 1
  /\ pending' = pending \union {t}
  /\ sem' = [s \in Modes |->
               [sem[s] EXCEPT !.wait = SelectSeq(@, LAMBDA u : u # t)]]
  /\ queue' = [q \in Modes |-> queue[q] \ {t}]
  /\ UNCHANGED <<device, pc, call, files>>

-----------------------------------------------------------------------------
\* System calls.  Every handler begins by taking sem1.

MayUse(t, f) == f \in opened /\ (Shared \/ owner[f] = t)

Enter(t, op, f) ==
  /\ pc[t] = "user"
  /\ Down(1, t)
  /\ call' = [call EXCEPT ![t] = [op |-> op, file |-> f]]
  /\ Goto(t, "locked1")
  /\ UNCHANGED <<device, queue, opened, interrupts>>

\* The kernel allocates a struct file before it calls e2_open.
CallOpen(t, f) ==
  /\ owner[f] = NoThread
  /\ owner' = [owner EXCEPT ![f] = t]
  /\ Enter(t, "open", f)

\* The last reference to f is dropped: no call on it is running.
CallRelease(t, f) ==
  /\ MayUse(t, f)
  /\ \A u \in Threads : call[u].file # f
  /\ Enter(t, "release", f)
  /\ UNCHANGED owner

CallOther(t, f, op) ==
  /\ MayUse(t, f)
  /\ \A u \in Threads : call[u].file = f => call[u].op # "release"
  /\ Enter(t, op, f)
  /\ UNCHANGED owner

-----------------------------------------------------------------------------
\* e2_open

OpenLocked(t) ==
  /\ At(t, "locked1") /\ call[t].op = "open"
  /\ count' = [count EXCEPT ![mode] = @ + 1]
  /\ sem' = Up(sem, 1)
  /\ \/ mode = MODE1 /\ Continue(t, "wants2") /\ UNCHANGED opened
     \/ mode = MODE2 /\ Return(t) /\ opened' = opened \union {call[t].file}
  /\ UNCHANGED <<mode, queue, owner>>

OpenTake2(t) ==
  /\ At(t, "wants2")
  /\ Down(2, t)
  /\ Continue(t, "has2")
  /\ UNCHANGED <<device, queue, files>>

OpenReturn(t) ==
  /\ At(t, "has2")
  /\ opened' = opened \union {call[t].file}
  /\ Return(t)
  /\ UNCHANGED <<device, sem, queue, owner>>

\* e2_release

\* if (--count == 1), with the decrement already stored.
LastButOneLeft_TestedFirst(m) == count[m] = 1   \* mutant: test, then decrement
LastButOneLeft(m) == count[m] - 1 = 1

ReleaseLocked(t) ==
  /\ At(t, "locked1") /\ call[t].op = "release"
  /\ count' = [count EXCEPT ![mode] = @ - 1]
  /\ WakeIf(LastButOneLeft(mode), mode)
  /\ sem' = Up(IF mode = MODE1 THEN LeaveMode1(sem) ELSE sem, 1)
  /\ opened' = opened \ {call[t].file}
  /\ owner' = [owner EXCEPT ![call[t].file] = NoThread]
  /\ Return(t)
  /\ UNCHANGED mode

-----------------------------------------------------------------------------
\* e2_read and e2_write

\* The range [*f_pos, *f_pos + count) runs past the ramdisk: nothing is copied.
TransferTooLong(t) ==
  /\ At(t, "locked1") /\ call[t].op \in {"read", "write"}
  /\ sem' = Up(sem, 1)
  /\ Return(t)
  /\ UNCHANGED <<device, queue, files>>

\* MODE1 lets go of sem1 before the copy, MODE2 after it.
UnlocksFirst_Always == TRUE                     \* mutant: in MODE2 too
UnlocksFirst == mode = MODE1

TransferLocked(t) ==
  /\ At(t, "locked1") /\ call[t].op \in {"read", "write"}
  /\ \/ UnlocksFirst /\ sem' = Up(sem, 1) /\ Continue(t, "copies")
     \/ ~ UnlocksFirst /\ UNCHANGED sem /\ Continue(t, "copies_locked")
  /\ UNCHANGED <<device, queue, files>>

TransferEnd(t) ==
  /\ \/ At(t, "copies") /\ UNCHANGED sem
     \/ At(t, "copies_locked") /\ sem' = Up(sem, 1)
  /\ Return(t)
  /\ UNCHANGED <<device, queue, files>>

-----------------------------------------------------------------------------
\* e2_ioctl: E2_IOCMODE1 and E2_IOCMODE2, op "mode1" and "mode2"

Target(t) == IF call[t].op = "mode1" THEN MODE1 ELSE MODE2

SwitchRedundant(t) ==
  /\ At(t, "locked1") /\ call[t].op \in {"mode1", "mode2"}
  /\ mode = Target(t)
  /\ sem' = Up(sem, 1)
  /\ Return(t)
  /\ UNCHANGED <<device, queue, files>>

\* The thread has passed down(sem1) and is about to test the loop's condition.
\* The mode is tested before the first wait only.
AtSwitchTest(t) ==
  \/ At(t, "locked1") /\ call[t].op \in {"mode1", "mode2"} /\ mode # Target(t)
  \/ At(t, "relocked")

\* The loop's condition, on the counter of the mode to leave.
Crowded_OneIsMany(m) == count[m] > 0            \* mutant: off by one
Crowded_TwoIsFew(m) == count[m] > 2             \* mutant: off by one
Crowded(m) == count[m] > 1

\* mutant: the switch sleeps with sem1 held.
SwitchMustWait_KeepsSem1(t) ==
  /\ AtSwitchTest(t)
  /\ Crowded(Other(Target(t)))
  /\ Continue(t, "waits")
  /\ UNCHANGED <<device, sem, queue, files>>

SwitchMustWait(t) ==
  /\ AtSwitchTest(t)
  /\ Crowded(Other(Target(t)))
  /\ sem' = Up(sem, 1)
  /\ Continue(t, "waits")
  /\ UNCHANGED <<device, queue, files>>

Relock_Forgotten(t) == UNCHANGED sem            \* mutant: no down after the wait
Relock(t) == Down(1, t)

\* What ends wait_event_interruptible(queue, count == 1).
Awake_Uninterruptible(t, m) == count[m] = 1     \* mutant: plain wait_event
Awake(t, m) == count[m] = 1 \/ t \in pending

\* The wait, then sem1 again.
SwitchWait(t) ==
  LET o == Other(Target(t)) IN
  /\ At(t, "waits")
  /\ \/ /\ Awake(t, o)
        /\ Relock(t)
        /\ Goto(t, "relocked")
        /\ UNCHANGED queue
     \/ /\ ~ Awake(t, o)
        /\ queue' = [queue EXCEPT ![o] = @ \union {t}]
        /\ UNCHANGED <<sem, pc>>
  /\ UNCHANGED <<device, call, files, interrupts>>

\* The counters once the switch to m is made.
Moved_Twice(m) == [count EXCEPT ![m] = @ + 1]   \* mutant: the decrement is missing
Moved(m) == [count EXCEPT ![Other(m)] = @ - 1, ![m] = @ + 1]

\* MODE2 gives sem2 back; MODE1 takes it, still holding sem1.
SwitchModes(t) ==
  LET m == Target(t) IN
  /\ AtSwitchTest(t)
  /\ ~ Crowded(Other(m))
  /\ mode' = m
  /\ count' = Moved(m)
  /\ \/ m = MODE2 /\ sem' = Up(LeaveMode1(sem), 1) /\ Return(t)
     \/ m = MODE1 /\ Down(2, t) /\ Continue(t, "took2")
  /\ UNCHANGED <<queue, files>>

SwitchEnd(t) ==
  /\ At(t, "took2")
  /\ sem' = Up(sem, 1)
  /\ Return(t)
  /\ UNCHANGED <<device, queue, files>>

-----------------------------------------------------------------------------
InitialMode_Unset == 0                          \* mutant: mode is not assigned
InitialMode == MODE1

\* my_init: MODE1, no opener, both semaphores free.
Init ==
  /\ mode = InitialMode
  /\ count = [m \in Modes |-> 0]
  /\ sem = [s \in Modes |-> [value |-> 1, wait |-> <<>>]]
  /\ queue = [q \in Modes |-> {}]
  /\ pc = [t \in Threads |-> "user"]
  /\ call = [t \in Threads |-> Idle]
  /\ owner = [f \in Files |-> NoThread]
  /\ opened = {}
  /\ pending = {}
  /\ signals = MaxSignals

\* What the kernel runs of thread t once it is in a call.
Step(t) ==
  \/ OpenLocked(t) \/ OpenTake2(t) \/ OpenReturn(t)
  \/ ReleaseLocked(t)
  \/ TransferTooLong(t) \/ TransferLocked(t) \/ TransferEnd(t)
  \/ SwitchRedundant(t) \/ SwitchMustWait(t) \/ SwitchWait(t)
  \/ SwitchModes(t) \/ SwitchEnd(t)

Call(t) ==
  \E f \in Files :
    \/ CallOpen(t, f)
    \/ CallRelease(t, f)
    \/ \E op \in {"read", "write", "mode1", "mode2"} : CallOther(t, f, op)

Next == \E t \in Threads : Call(t) \/ Step(t) \/ Signal(t)

Spec == Init /\ [][Next]_vars

\* The kernel schedules every thread that runs; no thread has to make a call.
LiveSpec == Spec /\ \A t \in Threads : WF_vars(Step(t))

-----------------------------------------------------------------------------
\* Properties.

\* Every variable has its type.
TypeOK ==
  /\ mode \in Modes
  /\ count \in [Modes -> Int]
  /\ sem \in [Modes -> [value : Nat, wait : Seq(Threads)]]
  /\ queue \in [Modes -> SUBSET Threads]
  /\ pc \in [Threads -> {"user", "locked1", "wants2", "has2", "copies",
                         "copies_locked", "waits", "relocked", "took2"}]
  /\ call \in [Threads ->
       {Idle} \union [op : {"open", "release", "read", "write", "mode1", "mode2"},
                      file : Files]]
  /\ owner \in [Files -> Threads \union {NoThread}]
  /\ opened \in SUBSET Files
  /\ pending \in SUBSET Threads
  /\ signals \in Nat

\* The threads whose next instructions are between down and up of sem1.
HoldsSem1(t) ==
  /\ pc[t] \in {"locked1", "relocked", "copies_locked", "took2"}
  /\ t \notin Waiters(1)

\* sem1 excludes: no two threads are ever past down_interruptible(&sem1) at once,
\* neither in open, release, read, write nor on either side of an ioctl's wait.
MutualExclusion ==
  \A t, u \in Threads : HoldsSem1(t) /\ HoldsSem1(u) => t = u

\* The files the device has counted: those open, and those of the openers that
\* incremented count1 and have not passed sem2 yet.
Counted == opened \union
  {f \in Files : \E t \in Threads : pc[t] \in {"wants2", "has2"} /\ call[t].file = f}

\* The counter of the current mode is the number of files open or opening, and
\* the other is zero: no interleaving of open and release with a switch that let
\* go of sem1 to wait decrements the wrong counter.
CountsMatch ==
  /\ count[mode] = Cardinality(Counted)
  /\ count[Other(mode)] = 0

\* However files are shared among threads, the two counters together count the
\* files open or opening: a switch that slept moves one file, though the mode it
\* tested before sleeping may no longer be the mode.
CountsConserved == count[MODE1] + count[MODE2] = Cardinality(Counted)

\* sem2 is taken exactly while a file is admitted in MODE1, and is free all
\* through MODE2: open, release and the two switches, each of which moves it by
\* one, agree about the mode they moved it in.  README.txt:71 says that an open in
\* MODE2 locks sem2, and a switch then blocks on it: in the code it only counts.
Sem2FollowsMode ==
  LET passed == {t \in Threads : pc[t] = "has2" /\ t \notin Waiters(2)} IN
  IF mode = MODE1
    THEN sem[2].value = 1 - Cardinality(opened) - Cardinality(passed)
    ELSE sem[2].value = 1 /\ sem[2].wait = <<>>

\* The threads between the bounds check and the end of a copy.
Copying == {t \in Threads : pc[t] \in {"copies", "copies_locked"}}

\* Two copies to or from the ramdisk overlap only if one of them was begun in
\* MODE1, where read and write drop sem1 first; and those that dropped it are all
\* of one file, though other files may since have been let in by a switch of mode.
\* These are the overlaps README.txt lists as race conditions, case 2 (148-152),
\* which happen to threads that share a file; no others do.
CopyOverlaps ==
  \A t, u \in Copying : t # u =>
    /\ pc[t] = "copies" \/ pc[u] = "copies"
    /\ pc[t] = pc[u] => call[t].file = call[u].file

\* When every thread is blocked, with files of their own, either all wait for the
\* one file admitted in MODE1 to be released, queued on sem2 in open or, at most
\* one, asleep in the switch to MODE2 (README.txt's deadlocks 1 and 2, combined);
\* or all sleep in switches to MODE1, each counted in the counter it waits for.
\* The second is what case3.cpp runs into.  README.txt:68-74 and case3.cpp:49-53 say
\* of it that one thread queues on sem2 with sem1 held and the other on sem1: the
\* code does not, since both semaphores are free.
DeadlockShapes ==
  (\A t \in Threads : ~ Running(t)) =>
    /\ sem[1].value = 1
    /\ \/ /\ mode = MODE1
          /\ Waiters(2) \union queue[1] = Threads
          /\ Cardinality(queue[1]) <= 1
       \/ mode = MODE2 /\ queue[2] = Threads /\ sem[2].value = 1

\* README.txt, case 2, in general: a switch to MODE2 that has to wait for count1
\* to fall to one never gets past the wait, whatever the other threads do.
WaitForMode2NeverEnds ==
  [][\A t \in Threads :
       pc[t] = "waits" /\ call[t].op = "mode2" => pc'[t] = "waits"]_vars

\* With files of their own, a thread queued on sem1 gets it: no handler keeps sem1
\* while it blocks, though the switch to MODE1 takes sem2 with sem1 held.
\* README.txt:72-74 has a thread blocked for ever behind such a switch: with own
\* files it never finds sem2 taken, and BlockedWithSem1 says when shared ones do.
Sem1Granted == \A t \in Threads : t \in Waiters(1) ~> t \notin Waiters(1)

\* No wake-up is lost: a thread does not sleep for ever on a queue while the
\* counter it waits for stays at one.
NoLostWakeup ==
  \A t \in Threads : \A q \in Modes : ~ <>[](t \in queue[q] /\ count[q] = 1)

\* However files are shared, a thread blocks with sem1 held only in a switch to
\* MODE1 that slept while another switch to MODE1 went through: the loop tests the
\* counter again after the wait and not the mode, and count2 falls below zero.
BlockedWithSem1 ==
  \A t \in Threads : pc[t] = "took2" /\ t \in Waiters(2) => count[MODE2] < 0

\* A signal ends every call, wherever it finds it, except a switch that goes round
\* its loop because the counter it waits for is still above one.
InterruptEndsCall ==
  \A t \in Threads :
    t \in pending ~>
      \/ t \notin pending
      \/ pc[t] = "relocked" /\ count[Other(Target(t))] > 1

\* The device seen from user space: a gate that holds the files whose open has
\* returned.
Gate == INSTANCE E2Gate WITH users <- opened

\* The driver implements the gate: in MODE1 it lets one file in at a time, and a
\* switch goes through only for a file that is alone, at the instant it does.
ImplementsGate == Gate!Spec
=============================================================================
