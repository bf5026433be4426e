----------------------------- MODULE ScullPipe -----------------------------
(***************************************************************************)
(* scull/ldd3-master/scull/pipe.c, a pipe device of the scull driver that  *)
(* the course's drivers start from.  dev->lock guards the circular buffer, *)
(* and nothing blocks under it, so that a locked section is one step; a    *)
(* thread that a signal keeps from the lock has done nothing.  Between the *)
(* sections readers and writers sleep on inq and outq and are woken after  *)
(* the lock has been let go.                                               *)
(*                                                                         *)
(* rp and wp are indexes into the buffer.  A failed copy from or to user   *)
(* space changes nothing that anyone can read, and poll changes nothing.   *)
(*                                                                         *)
(* SCULL_P_IOCTSIZE stores any int (main.c:503-505).  Modelled are the     *)
(* positive ones, down to the buffer of one byte, which is always full.    *)
(* With 0 kmalloc returns a pointer to nothing, every write moves 0 bytes, *)
(* and a later open with a larger size overruns it as it does any buffer   *)
(* that is too small; with a negative size the first open fails.           *)
(***************************************************************************)
EXTENDS Integers, Sequences, FiniteSets

CONSTANTS
  Threads,   \* each opens the device, uses it and closes it
  Sizes,     \* the values of scull_p_buffer that SCULL_P_IOCTSIZE sets
  MaxCount,  \* bound: the largest count of a read or write
  Bytes      \* what is written

ASSUME PipeAssumption ==
  Sizes \subseteq Nat \ {0} /\ Sizes # {} /\ MaxCount \in Nat \ {0}

VARIABLES
  scull_p_buffer,  \* the size of the buffers allocated from now on
  buffer,          \* the allocated buffer, <<>> for NULL
  buffersize,      \* dev->buffersize
  rp, wp,          \* where to read, where to write
  inq, outq,       \* the wait queues
  mode,            \* each thread's f_mode, {} when it has not opened the device
  pc,              \* where each thread is
  done,            \* history: what the last call did, until the next step
  reopened,        \* history: the threads asleep on outq since before an open
  sound            \* FALSE once a copy went past the allocated buffer

contents == <<scull_p_buffer, buffer, buffersize, rp, wp>>
vars == <<contents, inq, outq, mode, pc, done, reopened, sound>>

Nothing == [op |-> "none"]
At(t, l) == sound /\ pc[t] = l
Goto(t, l) == pc' = [pc EXCEPT ![t] = l]

\* nreaders and nwriters
nreaders == Cardinality({t \in Threads : "read" \in mode[t]})
nwriters == Cardinality({t \in Threads : "write" \in mode[t]})

-----------------------------------------------------------------------------
\* SCULL_P_IOCTSIZE, a command of any scull device.
SetSize(n) ==
  /\ sound /\ n # scull_p_buffer
  /\ scull_p_buffer' = n
  /\ done' = Nothing
  /\ UNCHANGED <<buffer, buffersize, rp, wp, inq, outq, mode, pc, reopened, sound>>

\* An open drops the bytes in the buffer, and takes the present scull_p_buffer for
\* the size of a buffer that may have been allocated with another.
Open(t, m) ==
  /\ At(t, "closed")
  /\ buffer' = IF buffer = <<>> THEN [i \in 1 .. scull_p_buffer |-> 0] ELSE buffer
  /\ buffersize' = scull_p_buffer
  /\ rp' = 0 /\ wp' = 0
  /\ mode' = [mode EXCEPT ![t] = m]
  /\ Goto(t, "open")
  /\ done' = [op |-> "open"]
  /\ reopened' = outq
  /\ UNCHANGED <<scull_p_buffer, inq, outq, sound>>

Release(t) ==
  /\ At(t, "open")
  /\ mode' = [mode EXCEPT ![t] = {}]
  /\ LET last == \A u \in Threads \ {t} : mode[u] = {} IN
     /\ buffer' = IF last THEN <<>> ELSE buffer
     /\ done' = IF last THEN [op |-> "close"] ELSE Nothing
  /\ Goto(t, "closed")
  /\ UNCHANGED <<scull_p_buffer, buffersize, rp, wp, inq, outq, reopened, sound>>

-----------------------------------------------------------------------------
\* read

Smaller(a, b) == IF a < b THEN a ELSE b
Wrapped(i) == IF i = buffersize THEN 0 ELSE i

\* Bytes n of the buffer from index i, and the buffer with b stored there; a
\* sequence counts from 1.
Slice(i, n) == SubSeq(buffer, i + 1, i + n)
Stored(i, b) ==
  [k \in DOMAIN buffer |-> IF k - i \in DOMAIN b THEN b[k - i] ELSE buffer[k]]
Within(i, n) == i + n <= Len(buffer)

CallRead(t) ==
  /\ At(t, "open") /\ "read" \in mode[t]
  /\ Goto(t, "read")
  /\ done' = Nothing
  /\ UNCHANGED <<contents, inq, outq, mode, reopened, sound>>

\* Nothing to read: the lock is released; O_NONBLOCK returns -EAGAIN.
ReadEmpty(t) ==
  /\ At(t, "read") /\ rp = wp
  /\ \E l \in {"open", "read prepare"} : Goto(t, l)
  /\ done' = Nothing
  /\ UNCHANGED <<contents, inq, outq, mode, reopened, sound>>

Readable == IF wp > rp THEN wp - rp ELSE buffersize - rp

ReadBytes(t) ==
  /\ At(t, "read") /\ rp # wp
  /\ \E count \in 1 .. MaxCount :
       LET n == Smaller(count, Readable) IN
       \/ /\ Within(rp, n)
          /\ done' = [op |-> "read", bytes |-> Slice(rp, n)]
          /\ rp' = Wrapped(rp + n)
          /\ Goto(t, "read wake")
          /\ UNCHANGED sound
       \/ /\ ~Within(rp, n)
          /\ sound' = FALSE /\ done' = Nothing
          /\ UNCHANGED <<rp, pc>>
  /\ UNCHANGED <<scull_p_buffer, buffer, buffersize, wp, inq, outq, mode, reopened>>

\* mutant: no wake-up after a read.
Woken_None(q) == q
Woken(q) == {}

ReadWake(t) ==
  /\ At(t, "read wake")
  /\ outq' = Woken(outq)
  /\ reopened' = {}
  /\ Goto(t, "open")
  /\ done' = Nothing
  /\ UNCHANGED <<contents, inq, mode, sound>>

\* wait_event_interruptible: onto the queue, then the condition, then sleep until a
\* wake-up has taken the thread off the queue.
ReadPrepare(t) ==
  /\ At(t, "read prepare")
  /\ inq' = inq \union {t}
  /\ Goto(t, "read check")
  /\ done' = Nothing
  /\ UNCHANGED <<contents, outq, mode, reopened, sound>>

ReadCheck(t) ==
  /\ At(t, "read check")
  /\ \/ rp # wp /\ Goto(t, "read") /\ inq' = inq \ {t}
     \/ rp = wp /\ Goto(t, "read sleep") /\ UNCHANGED inq
  /\ done' = Nothing
  /\ UNCHANGED <<contents, outq, mode, reopened, sound>>

ReadWoken(t) ==
  /\ At(t, "read sleep") /\ t \notin inq
  /\ Goto(t, "read prepare")
  /\ done' = Nothing
  /\ UNCHANGED <<contents, inq, outq, mode, reopened, sound>>

Reader(t) ==
  ReadEmpty(t) \/ ReadBytes(t) \/ ReadWake(t) \/ ReadPrepare(t) \/ ReadCheck(t) \/ ReadWoken(t)

-----------------------------------------------------------------------------
\* write

\* mutant: a buffer may be filled to the last byte, and then looks empty.
spacefree_Full == ((rp + buffersize - wp - 1) % buffersize) + 1
spacefree == IF rp = wp THEN buffersize - 1 ELSE ((rp + buffersize - wp) % buffersize) - 1

CallWrite(t) ==
  /\ At(t, "open") /\ "write" \in mode[t]
  /\ Goto(t, "write")
  /\ done' = Nothing
  /\ UNCHANGED <<contents, inq, outq, mode, reopened, sound>>

\* scull_getwritespace, the buffer full: release the lock, sleep or -EAGAIN.
WriteFull(t) ==
  /\ At(t, "write") /\ spacefree = 0
  /\ \E l \in {"open", "write prepare"} : Goto(t, l)
  /\ done' = Nothing
  /\ UNCHANGED <<contents, inq, outq, mode, reopened, sound>>

Writable == IF wp >= rp THEN buffersize - wp ELSE rp - wp - 1

WriteBytes(t) ==
  /\ At(t, "write") /\ spacefree # 0
  /\ \E count \in 1 .. MaxCount :
       LET n == Smaller(count, Smaller(spacefree, Writable)) IN
       \/ /\ Within(wp, n)
          /\ \E b \in [1 .. n -> Bytes] :
               /\ buffer' = Stored(wp, b)
               /\ done' = [op |-> "write", bytes |-> b]
          /\ wp' = Wrapped(wp + n)
          /\ Goto(t, "write wake")
          /\ UNCHANGED sound
       \/ /\ ~Within(wp, n)
          /\ sound' = FALSE /\ done' = Nothing
          /\ UNCHANGED <<buffer, wp, pc>>
  /\ UNCHANGED <<scull_p_buffer, buffersize, rp, inq, outq, mode, reopened>>

WriteWake(t) ==
  /\ At(t, "write wake")
  /\ inq' = {}
  /\ Goto(t, "open")
  /\ done' = Nothing
  /\ UNCHANGED <<contents, outq, mode, reopened, sound>>

WritePrepare(t) ==
  /\ At(t, "write prepare")
  /\ outq' = outq \union {t}
  /\ Goto(t, "write check")
  /\ done' = Nothing
  /\ UNCHANGED <<contents, inq, mode, reopened, sound>>

\* The space is tested once more, without the lock, before schedule.
WriteCheck(t) ==
  /\ At(t, "write check")
  /\ Goto(t, IF spacefree = 0 THEN "write sleep" ELSE "write finish")
  /\ done' = Nothing
  /\ UNCHANGED <<contents, inq, outq, mode, reopened, sound>>

WriteWoken(t) ==
  /\ At(t, "write sleep") /\ t \notin outq
  /\ Goto(t, "write finish")
  /\ done' = Nothing
  /\ UNCHANGED <<contents, inq, outq, mode, reopened, sound>>

\* finish_wait, then the lock again.
WriteFinish(t) ==
  /\ At(t, "write finish")
  /\ outq' = outq \ {t} /\ reopened' = reopened \ {t}
  /\ Goto(t, "write")
  /\ done' = Nothing
  /\ UNCHANGED <<contents, inq, mode, sound>>

Writer(t) ==
  \/ WriteFull(t) \/ WriteBytes(t) \/ WriteWake(t)
  \/ WritePrepare(t) \/ WriteCheck(t) \/ WriteWoken(t) \/ WriteFinish(t)

\* A signal takes a sleeper off its queue: -ERESTARTSYS.
Interrupted(t) ==
  /\ sound /\ pc[t] \in {"read sleep", "write sleep"}
  /\ inq' = inq \ {t} /\ outq' = outq \ {t} /\ reopened' = reopened \ {t}
  /\ Goto(t, "open")
  /\ done' = Nothing
  /\ UNCHANGED <<contents, mode, sound>>

-----------------------------------------------------------------------------
Init ==
  /\ scull_p_buffer \in Sizes
  /\ buffer = <<>> /\ buffersize = 0 /\ rp = 0 /\ wp = 0
  /\ inq = {} /\ outq = {}
  /\ mode = [t \in Threads |-> {}]
  /\ pc = [t \in Threads |-> "closed"]
  /\ done = Nothing /\ reopened = {} /\ sound = TRUE

\* O_RDONLY, O_WRONLY and O_RDWR.
Modes == {{"read"}, {"write"}, {"read", "write"}}

Next ==
  \/ \E n \in Sizes : SetSize(n)
  \/ \E t \in Threads :
       \/ \E m \in Modes : Open(t, m)
       \/ Release(t) \/ CallRead(t) \/ CallWrite(t)
       \/ Reader(t) \/ Writer(t) \/ Interrupted(t)

Spec == Init /\ [][Next]_vars

-----------------------------------------------------------------------------
\* Properties.

\* Every variable has its type.
TypeOK ==
  /\ scull_p_buffer \in Sizes
  /\ buffer \in Seq(Bytes \union {0})
  /\ buffersize \in Sizes \union {0}
  /\ rp \in 0 .. buffersize /\ wp \in 0 .. buffersize
  /\ inq \subseteq Threads /\ outq \subseteq Threads /\ reopened \subseteq Threads
  /\ mode \in [Threads -> Modes \union {{}}]
  /\ pc \in [Threads -> {"closed", "open", "read", "read prepare", "read check",
                         "read sleep", "read wake", "write", "write prepare",
                         "write check", "write sleep", "write finish", "write wake"}]
  /\ sound \in BOOLEAN

\* Nobody sleeps over bytes or room it waits for, unless the wake-up is on its way:
\* a reader never, a writer only where an open emptied the buffer under it.
LostWakeupOnlyAfterReopen ==
  \A t \in Threads :
    /\ pc[t] = "read sleep" /\ t \in inq /\ rp # wp =>
         \E u \in Threads : pc[u] = "write wake"
    /\ pc[t] = "write sleep" /\ t \in outq /\ spacefree # 0 =>
         t \in reopened \/ \E u \in Threads : pc[u] = "read wake"

\* The bytes from rp to wp, which may have wrapped.
Waiting ==
  IF buffer = <<>> THEN <<>>
  ELSE [k \in 1 .. (wp + buffersize - rp) % buffersize |->
          buffer[((rp + k - 1) % buffersize) + 1]]

Fifo == INSTANCE ScullFifo WITH
  Capacity <- (CHOOSE n \in Sizes : \A m \in Sizes : m <= n) - 1, fifo <- Waiting

\* The device is a queue of bytes: reads and writes of several processes, wrapped
\* or cut short, lose, repeat and reorder nothing, until the copy that goes past a
\* buffer allocated smaller than its recorded size.
ImplementsFifo == Fifo!Spec
=============================================================================
