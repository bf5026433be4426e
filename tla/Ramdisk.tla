------------------------------ MODULE Ramdisk ------------------------------
(***************************************************************************)
(* Assignment5/char_driver.c: one of the ramdisk devices.  A semaphore     *)
(* guards the buffer, but not the positions: lseek computes the new one    *)
(* before it takes the semaphore, and for read and write the kernel copies *)
(* filp->f_pos in before the call and out after it.  A call that waits for *)
(* the semaphore may be interrupted, an allocation may fail, and two ways  *)
(* out of a call keep the semaphore.                                       *)
(*                                                                         *)
(* The allocation is at least buffer_size long; what lies beyond is never  *)
(* reached, so data stands for the first buffer_size bytes.                *)
(***************************************************************************)
EXTENDS Integers, Sequences

CONSTANTS
  Threads,      \* the threads that call the driver
  Files,        \* the open descriptions they use
  NULL,         \* the null pointer
  RamdiskSize,  \* ramdisk_size
  Slack,        \* the 2048 bytes lseek allocates beyond the position
  MaxPosition,  \* bound: the largest position a caller seeks to
  Counts,       \* the counts of the reads and writes
  Offsets,      \* the offsets given to lseek
  Bytes         \* the bytes written, each write repeating one of them

ASSUME RamdiskAssumption ==
  /\ RamdiskSize \in Nat \ {0} /\ Slack \in Nat \ {0}
  /\ MaxPosition \in Nat /\ Counts \subseteq Nat \ {0}
  /\ Offsets \subseteq Int /\ Bytes \subseteq Nat

VARIABLES
  data,         \* dev->data, what it points at or NULL
  buffer_size,  \* dev->buffer_size
  sem,          \* the count of dev->sem
  queue,        \* the threads that wait for it, in the order they came
  f_pos,        \* filp->f_pos of each file
  pc,           \* where each thread is
  call,         \* the arguments and local variables of the call it makes
  done,         \* history: what the last call did to the buffer, until the next step
  stale,        \* history: the files whose position is older than the last clear
  lost,         \* history: a thread left the driver with the semaphore
  sound         \* FALSE once a write went past the buffer

device == <<data, buffer_size>>
lock == <<sem, queue>>
vars == <<device, lock, f_pos, pc, call, done, stale, lost, sound>>

Positions == 0 .. MaxPosition + Slack + RamdiskSize
Zeros(n) == [i \in 0 .. n - 1 |-> 0]
NoCall == [op |-> "none"]

\* What a call did, as RamTape says it.
Nothing == [op |-> "none"]
DidRead(p, bytes) == [op |-> "read", pos |-> p, bytes |-> bytes]
DidWrite(p, n, b) == [op |-> "write", pos |-> p, count |-> n, byte |-> b]
DidFault == [op |-> "fault"]
DidSeek == [op |-> "lseek"]
DidClear == [op |-> "clear"]
Died == [op |-> "died"]

\* kzalloc: a zeroed buffer, or no memory.
Kzalloc(n) == {Zeros(n), NULL}

-----------------------------------------------------------------------------
\* User space and the kernel around the driver.

\* A call starts with what it reads without the semaphore.
Enter(t, c) ==
  /\ sound /\ pc[t] = "user"
  /\ call' = [call EXCEPT ![t] = c]
  /\ pc' = [pc EXCEPT ![t] = "entering"]
  /\ done' = Nothing
  /\ UNCHANGED <<device, lock, f_pos, stale, lost, sound>>

\* llseek up to line 85: the base of the new position is read without the
\* semaphore; a negative position is refused.
CallSeek(t) ==
  \E f \in Files, off \in Offsets : \E base \in {0, f_pos[f], buffer_size} :
    /\ base + off \in 0 .. MaxPosition
    /\ Enter(t, [op |-> "lseek", file |-> f, pos |-> base + off])

\* The kernel passes read and write a copy of the position.
CallRead(t) ==
  \E f \in Files, n \in Counts :
    Enter(t, [op |-> "read", file |-> f, pos |-> f_pos[f], count |-> n,
              old |-> f \in stale])
CallWrite(t) ==
  \E f \in Files, n \in Counts, b \in Bytes :
    Enter(t, [op |-> "write", file |-> f, pos |-> f_pos[f], count |-> n,
              byte |-> b, old |-> f \in stale])

\* A command of the driver's type, ASP_CLEAR_BUF or another.
CallIoctl(t) ==
  \E f \in Files, cmd \in {"clear", "unknown"} : Enter(t, [op |-> cmd, file |-> f])

\* close and open again: the driver does nothing, the position starts at 0.
Reopen(f) ==
  /\ sound /\ \A t \in Threads : pc[t] # "user" => call[t].file # f
  /\ f_pos' = [f_pos EXCEPT ![f] = 0]
  /\ stale' = stale \ {f}
  /\ done' = Nothing
  /\ UNCHANGED <<device, lock, pc, call, lost, sound>>

\* Back from read or write, the kernel stores the position the call left.
Return(t) ==
  /\ sound /\ pc[t] = "leaving"
  /\ f_pos' = [f_pos EXCEPT ![call[t].file] = call[t].pos]
  /\ stale' = IF call[t].old THEN stale \union {call[t].file}
                             ELSE stale \ {call[t].file}
  /\ pc' = [pc EXCEPT ![t] = "user"]
  /\ call' = [call EXCEPT ![t] = NoCall]
  /\ done' = Nothing
  /\ UNCHANGED <<device, lock, lost, sound>>

-----------------------------------------------------------------------------
\* The semaphore.

\* The sequence without its i-th element.
Without(s, i) == [k \in 1 .. Len(s) - 1 |-> IF k < i THEN s[k] ELSE s[k + 1]]

\* down_interruptible: the semaphore, or a place in the queue for it.
Down(t) ==
  /\ sound /\ pc[t] = "entering"
  /\ \/ /\ sem > 0
        /\ sem' = sem - 1
        /\ pc' = [pc EXCEPT ![t] = "locked"]
        /\ UNCHANGED queue
     \/ /\ sem = 0
        /\ queue' = Append(queue, t)
        /\ pc' = [pc EXCEPT ![t] = "queued"]
        /\ UNCHANGED sem
  /\ done' = Nothing
  /\ UNCHANGED <<device, f_pos, call, stale, lost, sound>>

\* A signal ends the wait: -ERESTARTSYS.
Interrupted(t) ==
  /\ sound /\ pc[t] = "queued"
  /\ \E i \in DOMAIN queue : queue[i] = t /\ queue' = Without(queue, i)
  /\ pc' = [pc EXCEPT ![t] = "user"]
  /\ call' = [call EXCEPT ![t] = NoCall]
  /\ done' = Nothing
  /\ UNCHANGED <<device, sem, f_pos, stale, lost, sound>>

\* mutant: up counts although it passes the semaphore on.
Up_Counted(t, l) ==
  /\ sem' = sem + 1
  /\ queue' = IF queue = <<>> THEN queue ELSE Tail(queue)
  /\ pc' = [u \in Threads |-> IF u = t THEN l
                             ELSE IF queue # <<>> /\ u = Head(queue) THEN "locked"
                             ELSE pc[u]]
  /\ UNCHANGED lost

\* mutant: up wakes nobody.
Up_Silent(t, l) ==
  /\ sem' = sem + 1
  /\ pc' = [pc EXCEPT ![t] = l]
  /\ UNCHANGED <<queue, lost>>

\* up by t, which goes on at l: the semaphore passes to the first that waits.
Up(t, l) ==
  \/ /\ queue = <<>>
     /\ sem' = sem + 1
     /\ pc' = [pc EXCEPT ![t] = l]
     /\ UNCHANGED <<queue, lost>>
  \/ /\ queue # <<>>
     /\ queue' = Tail(queue)
     /\ pc' = [pc EXCEPT ![t] = l, ![Head(queue)] = "locked"]
     /\ UNCHANGED <<sem, lost>>

\* t goes on at l and never calls up.
NoUp(t, l) ==
  /\ lost' = TRUE
  /\ pc' = [pc EXCEPT ![t] = l]
  /\ UNCHANGED lock

Locked(t, op) == sound /\ pc[t] = "locked" /\ call[t].op = op
Leave(t) == call' = [call EXCEPT ![t] = NoCall]

-----------------------------------------------------------------------------
\* The calls, under the semaphore.

Grown(pos) == pos + Slack

\* mutant: the buffer stays the old one under the new size.
Copied_Same(n, d) == d
Copied(n, d) == [i \in 0 .. n - 1 |-> IF i \in DOMAIN d THEN d[i] ELSE 0]

\* The allocation is not checked: without memory, or without an old buffer, the
\* copy loop dereferences NULL and the thread dies where it is.
Seek(t) ==
  /\ Locked(t, "lseek")
  /\ LET pos == call[t].pos IN
     /\ f_pos' = [f_pos EXCEPT ![call[t].file] = pos]
     /\ stale' = stale \ {call[t].file}
     /\ \/ /\ pos < buffer_size
           /\ Up(t, "user") /\ Leave(t)
           /\ done' = DidSeek
           /\ UNCHANGED device
        \/ /\ pos >= buffer_size
           /\ \E new \in Kzalloc(buffer_size) :
                IF data = NULL \/ new = NULL
                  THEN /\ data' = new
                       /\ NoUp(t, "dead")
                       /\ done' = Died
                       /\ UNCHANGED <<buffer_size, call>>
                  ELSE /\ buffer_size' = Grown(pos)
                       /\ data' = Copied(Grown(pos), data)
                       /\ Up(t, "user") /\ Leave(t)
                       /\ done' = DidSeek
  /\ UNCHANGED sound

\* A count that goes past the end stops at it.
Truncated(pos, n) == IF pos + n > buffer_size THEN buffer_size - pos ELSE n

\* The position moves only when the copy to or from the user succeeded, and is
\* then as recent as the buffer.
Moved(t, n) == call' = [call EXCEPT ![t].pos = @ + n, ![t].old = FALSE]

Read(t) ==
  /\ Locked(t, "read")
  /\ LET pos == call[t].pos
         n == Truncated(pos, call[t].count) IN
     \/ /\ pos >= buffer_size \/ data = NULL
        /\ Up(t, "leaving")
        /\ done' = Nothing
        /\ UNCHANGED call
     \/ /\ pos < buffer_size /\ data # NULL
        /\ \/ /\ done' = DidRead(pos, [i \in pos .. pos + n - 1 |-> data[i]])
              /\ Moved(t, n)
              /\ Up(t, "leaving")
           \/ Up(t, "user") /\ Leave(t) /\ done' = Nothing     \* -EFAULT
  /\ UNCHANGED <<device, f_pos, stale, sound>>

Stored(d, pos, n, b) ==
  [i \in DOMAIN d |-> IF pos <= i /\ i < pos + n THEN b ELSE d[i]]

\* copy_from_user zeroes what it could not read: k of the n bytes were there.
Write(t) ==
  /\ Locked(t, "write")
  /\ LET pos == call[t].pos
         n == Truncated(pos, call[t].count)
         b == call[t].byte IN
     \/ /\ data = NULL
        /\ Up(t, "user") /\ Leave(t)
        /\ done' = Nothing
        /\ UNCHANGED <<data, sound>>
     \/ /\ data # NULL /\ n >= 0
        /\ \/ /\ data' = Stored(data, pos, n, b)
              /\ done' = DidWrite(pos, n, b)
              /\ Moved(t, n)
              /\ Up(t, "leaving")
           \/ \E k \in 0 .. n - 1 :
                /\ data' = Stored(Stored(data, pos, n, 0), pos, k, b)
                /\ done' = DidFault
                /\ Up(t, "user") /\ Leave(t)
        /\ UNCHANGED sound
     \/ /\ data # NULL /\ n < 0       \* as a size_t, an enormous count
        /\ sound' = FALSE
        /\ done' = Nothing
        /\ UNCHANGED <<data, call, pc, lock, lost>>
  /\ UNCHANGED <<buffer_size, f_pos, stale>>

\* The calls in progress hold a position older than this clear.
Aged(t) ==
  [u \in Threads |-> IF u # t /\ call[u].op \in {"read", "write"}
                       THEN [call[u] EXCEPT !.old = TRUE] ELSE call[u]]

\* mutant: krealloc, which keeps the bytes.
Cleared_Kept == {Copied(RamdiskSize, IF data = NULL THEN <<>> ELSE data)}
Cleared == Kzalloc(RamdiskSize)

\* mutant: the position is not reset.
Rewound_Forgotten(f) == f_pos
Rewound(f) == [f_pos EXCEPT ![f] = 0]

Clear(t) ==
  /\ Locked(t, "clear")
  /\ f_pos' = Rewound(call[t].file)
  /\ stale' = Files \ {call[t].file}
  /\ data' \in Cleared
  /\ buffer_size' = RamdiskSize
  /\ call' = [Aged(t) EXCEPT ![t] = NoCall]
  /\ done' = DidClear
  /\ Up(t, "user")
  /\ UNCHANGED sound

\* The default branch returns -ENOTTY from inside the semaphore.
Unknown(t) ==
  /\ Locked(t, "unknown")
  /\ NoUp(t, "user") /\ Leave(t)
  /\ done' = Nothing
  /\ UNCHANGED <<device, f_pos, stale, sound>>

-----------------------------------------------------------------------------
Init ==
  /\ data \in Kzalloc(RamdiskSize) /\ buffer_size = RamdiskSize
  /\ sem = 1 /\ queue = <<>>
  /\ f_pos = [f \in Files |-> 0]
  /\ pc = [t \in Threads |-> "user"]
  /\ call = [t \in Threads |-> NoCall]
  /\ done = Nothing
  /\ stale = {} /\ lost = FALSE /\ sound = TRUE

Call(t) == CallSeek(t) \/ CallRead(t) \/ CallWrite(t) \/ CallIoctl(t)
Body(t) == Seek(t) \/ Read(t) \/ Write(t) \/ Clear(t) \/ Unknown(t)
Driver(t) == Down(t) \/ Body(t) \/ Return(t)

Next ==
  \/ \E t \in Threads : Call(t) \/ Driver(t) \/ Interrupted(t)
  \/ \E f \in Files : Reopen(f)

Spec == Init /\ [][Next]_vars

\* A thread inside the kernel is scheduled; no signal need ever come.
LiveSpec == Spec /\ \A t \in Threads : WF_vars(Driver(t))

-----------------------------------------------------------------------------
\* Properties.

CallTypes ==
  {NoCall}
    \union [op : {"lseek"}, file : Files, pos : Nat]
    \union [op : {"read"}, file : Files, pos : Nat, count : Nat, old : BOOLEAN]
    \union [op : {"write"}, file : Files, pos : Nat, count : Nat,
            byte : Bytes, old : BOOLEAN]
    \union [op : {"clear", "unknown"}, file : Files]

\* Every variable has its type, and the buffer the length the device records.
TypeOK ==
  /\ buffer_size \in Nat \ {0}
  /\ data = NULL \/ data \in [0 .. buffer_size - 1 -> Nat]
  /\ sem \in {0, 1}
  /\ queue \in Seq(Threads)
  /\ f_pos \in [Files -> Nat]
  /\ pc \in [Threads -> {"user", "entering", "queued", "locked", "leaving", "dead"}]
  /\ call \in [Threads -> CallTypes]
  /\ \A t \in Threads : pc[t] = "user" <=> call[t] = NoCall
  /\ \A t \in Threads : pc[t] = "leaving" => call[t].op \in {"read", "write"}
  /\ stale \subseteq Files /\ lost \in BOOLEAN /\ sound \in BOOLEAN

\* The semaphore is free, held by one thread inside a call, or lost for ever; the
\* queue holds each waiting thread once, however signals and up interleave.
SemaphoreAccounted ==
  /\ \A t, u \in Threads : pc[t] = "locked" /\ pc[u] = "locked" => t = u
  /\ sem = 1 <=> ~lost /\ \A t \in Threads : pc[t] # "locked"
  /\ lost => \A t \in Threads : pc[t] # "locked"
  /\ \A t \in Threads : pc[t] = "queued" <=> \E i \in DOMAIN queue : queue[i] = t
  /\ \A i, j \in DOMAIN queue : queue[i] = queue[j] => i = j
  /\ queue # <<>> => sem = 0

\* A position lies beyond the buffer, so that a write through it would run past
\* the end, only if it is older than the last clear: another file, or a call in
\* progress, kept the position while ioctl shrank the buffer.
OverrunOnlyAfterClear ==
  /\ \A f \in Files : f_pos[f] > buffer_size /\ ~lost => f \in stale
  /\ \A t \in Threads :
       /\ pc[t] # "user" /\ call[t].op \in {"read", "write"} /\ ~lost
       /\ call[t].pos > buffer_size
       => call[t].old
  /\ ~sound => \E t \in Threads : pc[t] = "locked" /\ call[t].op = "write" /\ call[t].old

\* Every call returns, unless a thread left with the semaphore or a write ran past
\* the end of the buffer.
CallsReturn ==
  \A t \in Threads : pc[t] # "user" ~> pc[t] = "user" \/ lost \/ ~sound

-----------------------------------------------------------------------------
\* The device seen from outside: bytes beyond the buffer, or without one, are 0.
Tape == INSTANCE RamTape WITH
  tape <- [n \in Positions |-> IF data # NULL /\ n < buffer_size THEN data[n] ELSE 0],
  done <- done

\* Reads hand out the last bytes written at their position, whoever wrote them and
\* however the buffer was reallocated in between; only a clear drops them, or an
\* lseek that dies, after which nobody gets at the device.
ImplementsTape == Tape!Spec
=============================================================================
