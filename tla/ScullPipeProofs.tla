-------------------------- MODULE ScullPipeProofs --------------------------
(***************************************************************************)
(* Theorems about ScullPipe for any threads, sizes, counts and bytes.      *)
(***************************************************************************)
EXTENDS ScullPipe, SequenceTheorems, TLAPS

Labels == {"closed", "open", "read", "read prepare", "read check", "read sleep",
           "read wake", "write", "write prepare", "write check", "write sleep",
           "write finish", "write wake"}

\* The two halves of LostWakeupOnlyAfterReopen, with the labels they rest on.
ReadersWoken ==
  \A t \in Threads : pc[t] = "read sleep" /\ t \in inq /\ rp # wp =>
    \E u \in Threads : pc[u] = "write wake"
WritersWoken ==
  \A t \in Threads : pc[t] = "write sleep" /\ t \in outq /\ spacefree # 0 =>
    t \in reopened \/ \E u \in Threads : pc[u] = "read wake"
Placed == pc \in [Threads -> Labels]

\* Every step goes to a label of the driver, or nowhere.
LEMMA PlacedStep ==
  ASSUME Placed, [Next]_vars
  PROVE  Placed'
<1>1. ASSUME NEW t \in Threads, Reader(t) PROVE Placed'
  BY <1>1 DEF Reader, ReadEmpty, ReadBytes, ReadWake, ReadPrepare, ReadCheck, ReadWoken,
              Placed, Goto, Labels
<1>2. ASSUME NEW t \in Threads, Writer(t) PROVE Placed'
  BY <1>2 DEF Writer, WriteFull, WriteBytes, WriteWake, WritePrepare, WriteCheck,
              WriteWoken, WriteFinish, Placed, Goto, Labels
<1>3. ASSUME NEW t \in Threads,
             (\E m \in Modes : Open(t, m)) \/ Release(t) \/ CallRead(t) \/ CallWrite(t)
               \/ Interrupted(t)
      PROVE  Placed'
  BY <1>3 DEF Open, Release, CallRead, CallWrite, Interrupted, Placed, Goto, Labels
<1>4. ASSUME NEW n \in Sizes, SetSize(n) PROVE Placed'
  BY <1>4 DEF SetSize, Placed
<1>5. CASE UNCHANGED vars
  BY <1>5 DEF vars, Placed
<1> QED BY <1>1, <1>2, <1>3, <1>4, <1>5 DEF Next

-----------------------------------------------------------------------------
\* Sleeping readers.

\* A step of t that neither sleeps, nor wakes, nor moves a pointer.
LEMMA ReadersKept ==
  ASSUME ReadersWoken, NEW t \in Threads, rp' = rp, wp' = wp,
         pc[t] # "write wake", pc'[t] # "read sleep",
         \A u \in Threads \ {t} : pc'[u] = pc[u] /\ (u \in inq' => u \in inq)
  PROVE  ReadersWoken'
<1> SUFFICES ASSUME NEW v \in Threads, pc'[v] = "read sleep", v \in inq', rp' # wp'
             PROVE  \E u \in Threads : pc'[u] = "write wake"
  BY DEF ReadersWoken
<1>1. v # t /\ pc[v] = "read sleep" /\ v \in inq /\ rp # wp
  OBVIOUS
<1>2. PICK u \in Threads : pc[u] = "write wake"
  BY <1>1 DEF ReadersWoken
<1> QED BY <1>2

\* Bytes come only from a writer that then wakes the readers.
LEMMA ReadersStep ==
  ASSUME Placed, ReadersWoken, [Next]_vars
  PROVE  ReadersWoken'
<1> USE DEF ReadersWoken
<1>1. ASSUME NEW t \in Threads, ReadEmpty(t) \/ ReadPrepare(t) \/ ReadWoken(t) \/ ReadWake(t)
      PROVE  ReadersWoken'
  <2>1. /\ rp' = rp /\ wp' = wp /\ pc[t] # "write wake"
        /\ \A u \in Threads \ {t} : u \in inq' => u \in inq
        /\ \E l \in {"open", "read prepare", "read check"} : Goto(t, l)
    BY <1>1 DEF ReadEmpty, ReadPrepare, ReadWoken, ReadWake, contents, At
  <2>2. pc'[t] # "read sleep" /\ \A u \in Threads \ {t} : pc'[u] = pc[u]
    BY <2>1 DEF Goto, Placed
  <2> QED BY <2>1, <2>2, ReadersKept
<1>2. ASSUME NEW t \in Threads, ReadCheck(t) PROVE ReadersWoken'
  BY <1>2 DEF ReadCheck, contents, At, Placed, Goto
<1>3. ASSUME NEW t \in Threads, ReadBytes(t) PROVE ReadersWoken'
  BY <1>3 DEF ReadBytes, At, Placed, Goto
<1>4. ASSUME NEW t \in Threads, WriteBytes(t) PROVE ReadersWoken'
  BY <1>4 DEF WriteBytes, At, Placed, Goto
<1>5. ASSUME NEW t \in Threads, WriteWake(t) PROVE ReadersWoken'
  BY <1>5 DEF WriteWake
<1>6. ASSUME NEW t \in Threads,
             WriteFull(t) \/ WritePrepare(t) \/ WriteCheck(t) \/ WriteWoken(t)
               \/ WriteFinish(t) \/ Interrupted(t)
      PROVE  ReadersWoken'
  <2>1. /\ rp' = rp /\ wp' = wp /\ pc[t] # "write wake"
        /\ \A u \in Threads \ {t} : u \in inq' => u \in inq
        /\ \E l \in {"open", "write", "write prepare", "write check", "write sleep",
                     "write finish"} : Goto(t, l)
    BY <1>6 DEF WriteFull, WritePrepare, WriteCheck, WriteWoken, WriteFinish, Interrupted,
                contents, At
  <2>2. pc'[t] # "read sleep" /\ \A u \in Threads \ {t} : pc'[u] = pc[u]
    BY <2>1 DEF Goto, Placed
  <2> QED BY <2>1, <2>2, ReadersKept
<1>7. ASSUME NEW t \in Threads, NEW m \in Modes, Open(t, m) PROVE ReadersWoken'
  BY <1>7 DEF Open
<1>8. ASSUME NEW t \in Threads, Release(t) \/ CallRead(t) \/ CallWrite(t) PROVE ReadersWoken'
  <2>1. /\ rp' = rp /\ wp' = wp /\ pc[t] # "write wake" /\ inq' = inq
        /\ \E l \in {"closed", "read", "write"} : Goto(t, l)
    BY <1>8 DEF Release, CallRead, CallWrite, contents, At
  <2>2. pc'[t] # "read sleep" /\ \A u \in Threads \ {t} : pc'[u] = pc[u]
    BY <2>1 DEF Goto, Placed
  <2> QED BY <2>1, <2>2, ReadersKept
<1>9. CASE UNCHANGED vars \/ \E n \in Sizes : SetSize(n)
  BY <1>9 DEF SetSize, vars, contents
<1> QED BY <1>1, <1>2, <1>3, <1>4, <1>5, <1>6, <1>7, <1>8, <1>9 DEF Next, Reader, Writer

-----------------------------------------------------------------------------
\* Sleeping writers.

\* Room comes from a reader that then wakes the writers, or from an open, which
\* wakes nobody.
LEMMA WritersStep ==
  ASSUME Placed, WritersWoken, [Next]_vars
  PROVE  WritersWoken'
<1> USE DEF WritersWoken
<1>1. ASSUME NEW t \in Threads, ReadEmpty(t) \/ ReadPrepare(t) \/ ReadWoken(t) \/ ReadCheck(t)
      PROVE  WritersWoken'
  BY <1>1 DEF ReadEmpty, ReadPrepare, ReadWoken, ReadCheck, contents, spacefree, At, Placed, Goto
<1>2. ASSUME NEW t \in Threads, ReadWake(t) PROVE WritersWoken'
  BY <1>2 DEF ReadWake, Woken
<1>3. ASSUME NEW t \in Threads, ReadBytes(t) PROVE WritersWoken'
  BY <1>3 DEF ReadBytes, spacefree, At, Placed, Goto
<1>4. ASSUME NEW t \in Threads, WriteBytes(t) PROVE WritersWoken'
  <2>1. /\ spacefree # 0 /\ outq' = outq /\ reopened' = reopened /\ pc[t] = "write"
        /\ pc' = [pc EXCEPT ![t] = "write wake"] \/ pc' = pc
    BY <1>4 DEF WriteBytes, At, Goto
  <2> QED BY <2>1 DEF Placed
<1>5. ASSUME NEW t \in Threads, WriteCheck(t) PROVE WritersWoken'
  BY <1>5 DEF WriteCheck, contents, spacefree, At, Placed, Goto
<1>6. ASSUME NEW t \in Threads,
             WriteFull(t) \/ WriteWake(t) \/ WritePrepare(t) \/ WriteWoken(t)
               \/ WriteFinish(t) \/ Interrupted(t)
      PROVE  WritersWoken'
  BY <1>6 DEF WriteFull, WriteWake, WritePrepare, WriteWoken, WriteFinish, Interrupted,
              contents, spacefree, At, Placed, Goto
<1>7. ASSUME NEW t \in Threads, NEW m \in Modes, Open(t, m) PROVE WritersWoken'
  BY <1>7 DEF Open
<1>8. ASSUME NEW t \in Threads, Release(t) \/ CallRead(t) \/ CallWrite(t) PROVE WritersWoken'
  BY <1>8 DEF Release, CallRead, CallWrite, contents, spacefree, At, Placed, Goto
<1>9. CASE UNCHANGED vars \/ \E n \in Sizes : SetSize(n)
  BY <1>9 DEF SetSize, vars, contents, spacefree
<1> QED BY <1>1, <1>2, <1>3, <1>4, <1>5, <1>6, <1>7, <1>8, <1>9 DEF Next, Reader, Writer

\* For any number of readers and writers and any size, nobody sleeps over bytes or
\* room it waits for without a wake-up on its way, but for writers that slept while
\* an open emptied the buffer.
THEOREM WakeupTheorem == Spec => []LostWakeupOnlyAfterReopen
<1>1. Init => Placed /\ ReadersWoken /\ WritersWoken
  BY DEF Init, Placed, Labels, ReadersWoken, WritersWoken
<1>2. Placed /\ ReadersWoken /\ WritersWoken /\ [Next]_vars
        => Placed' /\ ReadersWoken' /\ WritersWoken'
  BY PlacedStep, ReadersStep, WritersStep
<1>3. ReadersWoken /\ WritersWoken => LostWakeupOnlyAfterReopen
  BY DEF ReadersWoken, WritersWoken, LostWakeupOnlyAfterReopen
<1> QED BY <1>1, <1>2, <1>3, PTL DEF Spec

-----------------------------------------------------------------------------
\* The buffer, as long as nobody changes scull_p_buffer.

OneSize == \A m, n \in Sizes : m = n

\* The pointers and the buffer, while somebody has the device open.
Fits ==
  /\ buffer \in Seq(Bytes \union {0}) /\ Len(buffer) = buffersize
  /\ buffersize \in Sizes
  /\ rp \in 0 .. buffersize - 1 /\ wp \in 0 .. buffersize - 1

InBounds ==
  /\ sound /\ scull_p_buffer \in Sizes
  /\ buffer # <<>> => buffer \in Seq(Bytes \union {0}) /\ Len(buffer) \in Sizes
  /\ mode \in [Threads -> Modes \union {{}}]
  /\ \A t \in Threads : pc[t] # "closed" <=> mode[t] # {}
  /\ \A t \in Threads : mode[t] # {} => Fits

\* The remainder of a number below twice the divisor.
LEMMA Remainder ==
  ASSUME NEW b \in Nat \ {0}, NEW a \in 0 .. 2 * b - 1
  PROVE  a % b = IF a < b THEN a ELSE a - b
OBVIOUS

\* The free space is at most what the buffer holds less one byte.
LEMMA SpaceFree ==
  ASSUME Fits
  PROVE  spacefree \in 0 .. buffersize - 1
<1>1. buffersize \in Nat \ {0} /\ rp \in 0 .. buffersize - 1 /\ wp \in 0 .. buffersize - 1
  BY PipeAssumption DEF Fits
<1>2. CASE rp = wp
  BY <1>1, <1>2 DEF spacefree
<1>3. CASE rp # wp
  <2>1. rp + buffersize - wp \in 0 .. 2 * buffersize - 1
    BY <1>1
  <2>2. (rp + buffersize - wp) % buffersize =
          IF rp < wp THEN rp + buffersize - wp ELSE rp - wp
    <3> DEFINE a == rp + buffersize - wp
    <3>1. a % buffersize = IF a < buffersize THEN a ELSE a - buffersize
      BY <1>1, <2>1, Remainder
    <3> QED BY <1>1, <1>3, <3>1
  <2>3. (rp + buffersize - wp) % buffersize \in 1 .. buffersize - 1
    BY <1>1, <1>3, <2>2
  <2> QED BY <1>1, <1>3, <2>3 DEF spacefree
<1> QED BY <1>2, <1>3

\* What is stored stays in the buffer, and the buffer keeps its length.
LEMMA StoredKeeps ==
  ASSUME NEW S, buffer \in Seq(S), NEW n \in Nat, NEW b \in [1 .. n -> S], NEW i \in Nat
  PROVE  Stored(i, b) \in Seq(S) /\ Len(Stored(i, b)) = Len(buffer)
<1>1. /\ Len(buffer) \in Nat /\ DOMAIN buffer = 1 .. Len(buffer)
      /\ \A k \in 1 .. Len(buffer) : buffer[k] \in S
  BY LenProperties, ElementOfSeq
<1>2. Stored(i, b) \in [1 .. Len(buffer) -> S]
  BY <1>1 DEF Stored
<1>3. Stored(i, b) \in Seq(S)
  BY <1>1, <1>2, SeqDef
<1>4. DOMAIN Stored(i, b) = 1 .. Len(Stored(i, b)) /\ Len(Stored(i, b)) \in Nat
  BY <1>3, LenProperties
<1> QED BY <1>1, <1>2, <1>3, <1>4

\* A read stops at the write pointer or at the end of the buffer.
LEMMA ReadInBounds ==
  ASSUME Placed, InBounds, NEW t \in Threads, ReadBytes(t)
  PROVE  InBounds'
<1>1. Fits /\ pc[t] = "read" /\ sound
  BY DEF InBounds, ReadBytes, At
<1>2. buffersize \in Nat \ {0} /\ rp \in 0 .. buffersize - 1 /\ wp \in 0 .. buffersize - 1
  BY <1>1, PipeAssumption DEF Fits
<1>3. PICK count \in 1 .. MaxCount :
        LET n == Smaller(count, Readable) IN
        \/ Within(rp, n) /\ rp' = Wrapped(rp + n) /\ Goto(t, "read wake") /\ sound' = sound
        \/ ~Within(rp, n)
  BY DEF ReadBytes
<1> DEFINE n == Smaller(count, Readable)
<1>4. n \in Nat /\ rp + n <= buffersize
  <2>1. Readable \in Nat /\ rp + Readable <= buffersize
    BY <1>2 DEF Readable
  <2>2. count \in Nat /\ rp \in Nat /\ buffersize \in Nat
    BY <1>2, PipeAssumption
  <2> QED BY <2>1, <2>2 DEF Smaller
<1>5. Within(rp, n) /\ Wrapped(rp + n) \in 0 .. buffersize - 1
  BY <1>1, <1>2, <1>4 DEF Within, Wrapped, Fits
<1>6. /\ rp' \in 0 .. buffersize - 1 /\ Goto(t, "read wake") /\ sound'
      /\ UNCHANGED <<scull_p_buffer, buffer, buffersize, wp, mode>>
  BY <1>1, <1>3, <1>5 DEF ReadBytes
<1>7. Fits'
  BY <1>1, <1>6 DEF Fits
<1> QED BY <1>1, <1>6, <1>7 DEF InBounds, Goto, Placed

\* A write stops at the end of the buffer or before the read pointer.
LEMMA WriteInBounds ==
  ASSUME Placed, InBounds, NEW t \in Threads, WriteBytes(t)
  PROVE  InBounds'
<1>1. Fits /\ pc[t] = "write" /\ sound
  BY DEF InBounds, WriteBytes, At
<1>2. buffersize \in Nat \ {0} /\ rp \in 0 .. buffersize - 1 /\ wp \in 0 .. buffersize - 1
  BY <1>1, PipeAssumption DEF Fits
<1>3. PICK count \in 1 .. MaxCount :
        LET n == Smaller(count, Smaller(spacefree, Writable)) IN
        \/ /\ Within(wp, n) /\ (\E b \in [1 .. n -> Bytes] : buffer' = Stored(wp, b))
           /\ wp' = Wrapped(wp + n) /\ Goto(t, "write wake") /\ sound' = sound
        \/ ~Within(wp, n)
  BY DEF WriteBytes
<1> DEFINE n == Smaller(count, Smaller(spacefree, Writable))
<1>4. n \in Nat /\ wp + n <= buffersize
  <2>1. spacefree \in Nat \ {0}
    <3>1. spacefree # 0
      BY DEF WriteBytes
    <3>2. spacefree \in 0 .. buffersize - 1
      BY <1>1, SpaceFree
    <3> QED BY <1>2, <3>1, <3>2
  <2>2. Writable \in Nat /\ wp + Writable <= buffersize
    BY <1>2 DEF Writable
  <2>3. count \in Nat /\ wp \in Nat /\ buffersize \in Nat
    BY <1>2, PipeAssumption
  <2> QED BY <2>1, <2>2, <2>3 DEF Smaller
<1>5. Within(wp, n) /\ Wrapped(wp + n) \in 0 .. buffersize - 1
  BY <1>1, <1>2, <1>4 DEF Within, Wrapped, Fits
<1>6. PICK b \in [1 .. n -> Bytes] : buffer' = Stored(wp, b)
  BY <1>3, <1>5
<1>7. /\ wp' \in 0 .. buffersize - 1 /\ Goto(t, "write wake") /\ sound'
      /\ UNCHANGED <<scull_p_buffer, buffersize, rp, mode>>
  BY <1>1, <1>3, <1>5 DEF WriteBytes
<1>8. buffer' \in Seq(Bytes \union {0}) /\ Len(buffer') = Len(buffer)
  <2>1. b \in [1 .. n -> Bytes \union {0}]
    BY <1>6
  <2>2. buffer \in Seq(Bytes \union {0}) /\ n \in Nat /\ wp \in Nat
    BY <1>1, <1>2, <1>4 DEF Fits
  <2>3. /\ Stored(wp, b) \in Seq(Bytes \union {0})
        /\ Len(Stored(wp, b)) = Len(buffer)
    BY <2>1, <2>2, StoredKeeps
  <2> QED BY <1>6, <2>3
<1>9. Fits'
  BY <1>1, <1>7, <1>8 DEF Fits
<1> QED BY <1>1, <1>7, <1>8, <1>9 DEF InBounds, Fits, Goto, Placed

\* The first open allocates the one size there is, and a later one finds it.
LEMMA OpenInBounds ==
  ASSUME OneSize, Placed, InBounds, NEW t \in Threads, NEW m \in Modes, Open(t, m)
  PROVE  InBounds'
<1>1. scull_p_buffer \in Nat \ {0} /\ scull_p_buffer \in Sizes
  BY PipeAssumption DEF InBounds
<1>2. buffer' \in Seq(Bytes \union {0}) /\ Len(buffer') = scull_p_buffer
  <2>1. CASE buffer = <<>>
    <3>1. buffer' \in [1 .. scull_p_buffer -> Bytes \union {0}]
      BY <2>1 DEF Open
    <3>2. buffer' \in Seq(Bytes \union {0})
      BY <1>1, <3>1, SeqDef
    <3>3. DOMAIN buffer' = 1 .. Len(buffer') /\ Len(buffer') \in Nat
      BY <3>2, LenProperties
    <3> QED BY <1>1, <3>1, <3>2, <3>3
  <2>2. CASE buffer # <<>>
    BY <1>1, <2>2 DEF Open, OneSize, InBounds
  <2> QED BY <2>1, <2>2
<1>3. Fits'
  BY <1>1, <1>2 DEF Open, Fits
<1>4. /\ pc' = [pc EXCEPT ![t] = "open"] /\ mode' = [mode EXCEPT ![t] = m]
      /\ m # {} /\ UNCHANGED <<scull_p_buffer, sound>>
  BY DEF Open, Goto, Modes
<1> QED BY <1>1, <1>2, <1>3, <1>4 DEF InBounds, Placed

LEMMA InBoundsStep ==
  ASSUME OneSize, Placed, InBounds, [Next]_vars
  PROVE  InBounds'
<1>1. ASSUME NEW t \in Threads, Reader(t) PROVE InBounds'
  <2>1. CASE ReadBytes(t)
    BY <2>1, ReadInBounds
  <2>2. CASE \/ ReadEmpty(t) \/ ReadWake(t) \/ ReadPrepare(t) \/ ReadCheck(t)
             \/ ReadWoken(t)
    <3>1. /\ UNCHANGED <<contents, mode, sound>> /\ pc[t] # "closed"
          /\ \E l \in Labels \ {"closed"} : Goto(t, l)
      BY <2>2 DEF ReadEmpty, ReadWake, ReadPrepare, ReadCheck, ReadWoken, At, Labels
    <3> QED BY <3>1 DEF InBounds, Fits, contents, Goto, Placed
  <2> QED BY <1>1, <2>1, <2>2 DEF Reader
<1>2. ASSUME NEW t \in Threads, Writer(t) PROVE InBounds'
  <2>1. CASE WriteBytes(t)
    BY <2>1, WriteInBounds
  <2>2. CASE \/ WriteFull(t) \/ WriteWake(t) \/ WritePrepare(t) \/ WriteCheck(t)
             \/ WriteWoken(t) \/ WriteFinish(t)
    <3>1. /\ UNCHANGED <<contents, mode, sound>> /\ pc[t] # "closed"
          /\ \E l \in Labels \ {"closed"} : Goto(t, l)
      BY <2>2 DEF WriteFull, WriteWake, WritePrepare, WriteCheck, WriteWoken, WriteFinish,
                  At, Labels
    <3> QED BY <3>1 DEF InBounds, Fits, contents, Goto, Placed
  <2> QED BY <1>2, <2>1, <2>2 DEF Writer
<1>3. ASSUME NEW t \in Threads, CallRead(t) \/ CallWrite(t) \/ Interrupted(t) PROVE InBounds'
  <2>1. /\ UNCHANGED <<contents, mode, sound>> /\ pc[t] # "closed"
        /\ \E l \in Labels \ {"closed"} : Goto(t, l)
    BY <1>3 DEF CallRead, CallWrite, Interrupted, At, Labels
  <2> QED BY <2>1 DEF InBounds, Fits, contents, Goto, Placed
<1>4. ASSUME NEW t \in Threads, NEW m \in Modes, Open(t, m) PROVE InBounds'
  BY <1>4, OpenInBounds
<1>5. ASSUME NEW t \in Threads, Release(t) PROVE InBounds'
  <2>1. /\ mode' = [mode EXCEPT ![t] = {}] /\ pc' = [pc EXCEPT ![t] = "closed"]
        /\ UNCHANGED <<scull_p_buffer, buffersize, rp, wp, sound>>
        /\ buffer' = IF \A u \in Threads \ {t} : mode[u] = {} THEN <<>> ELSE buffer
    BY <1>5 DEF Release, Goto
  <2> QED BY <2>1 DEF InBounds, Fits, Placed
<1>6. ASSUME NEW n \in Sizes, SetSize(n) PROVE InBounds'
  BY <1>6 DEF SetSize, InBounds, Fits
<1>7. CASE UNCHANGED vars
  BY <1>7 DEF vars, contents, InBounds, Fits
<1> QED BY <1>1, <1>2, <1>3, <1>4, <1>5, <1>6, <1>7 DEF Next

\* With one size, whatever it is, no read or write copies past the allocated buffer:
\* the overrun needs SCULL_P_IOCTSIZE between two opens.
THEOREM OneSizeTheorem ==
  ASSUME OneSize PROVE Spec => []sound
<1>1. Init => Placed /\ InBounds
  BY DEF Init, Placed, Labels, InBounds
<1>2. Placed /\ InBounds /\ [Next]_vars => Placed' /\ InBounds'
  BY PlacedStep, InBoundsStep
<1>3. InBounds => sound
  BY DEF InBounds
<1> QED BY <1>1, <1>2, <1>3, PTL DEF Spec

-----------------------------------------------------------------------------
\* The device is a queue of bytes.

\* The bytes from r to w in a buffer b that is taken to have s bytes: how many they
\* are, where the k-th of them is, and what they are.
Held(s, r, w) == (w + s - r) % s
Place(s, r, k) == (r + k - 1) % s
Ring(b, s, r, w) == [k \in 1 .. Held(s, r, w) |-> b[Place(s, r, k) + 1]]

\* However large the allocated buffer is: what was written lies in it, and wraps only
\* where it is as large as it is taken to be.
Shaped(S, b, s, r, w) ==
  /\ b \in Seq(S) /\ s \in Nat \ {0}
  /\ r \in 0 .. s - 1 /\ w \in 0 .. s - 1
  /\ w <= Len(b)
  /\ w < r => s <= Len(b)

LEMMA RingIs ==
  ASSUME NEW S, NEW b, NEW s, NEW r, NEW w, Shaped(S, b, s, r, w)
  PROVE  /\ Held(s, r, w) = IF r <= w THEN w - r ELSE w + s - r
         /\ Held(s, r, w) \in 0 .. s - 1
         /\ \A k \in 1 .. Held(s, r, w) :
              /\ Place(s, r, k) = IF r + k - 1 < s THEN r + k - 1 ELSE r + k - 1 - s
              /\ Place(s, r, k) + 1 \in 1 .. Len(b)
         /\ Ring(b, s, r, w) \in Seq(S) /\ Len(Ring(b, s, r, w)) = Held(s, r, w)
<1>1. /\ b \in Seq(S) /\ s \in Nat \ {0} /\ r \in 0 .. s - 1 /\ w \in 0 .. s - 1
      /\ w <= Len(b) /\ (w < r => s <= Len(b)) /\ Len(b) \in Nat
      /\ \A i \in 1 .. Len(b) : b[i] \in S
  BY LenProperties, ElementOfSeq DEF Shaped
<1>2. Held(s, r, w) = IF r <= w THEN w - r ELSE w + s - r
  <2> DEFINE a == w + s - r
  <2>1. a \in 0 .. 2 * s - 1
    BY <1>1
  <2>2. a % s = IF a < s THEN a ELSE a - s
    BY <1>1, <2>1, Remainder
  <2> QED BY <1>1, <2>2 DEF Held
<1>3. Held(s, r, w) \in 0 .. s - 1
  BY <1>1, <1>2
<1>4. ASSUME NEW k \in 1 .. Held(s, r, w)
      PROVE  /\ Place(s, r, k) = IF r + k - 1 < s THEN r + k - 1 ELSE r + k - 1 - s
             /\ Place(s, r, k) + 1 \in 1 .. Len(b)
  <2> DEFINE a == r + k - 1
  <2>1. a \in 0 .. 2 * s - 1
    BY <1>1, <1>3
  <2>2. a % s = IF a < s THEN a ELSE a - s
    BY <1>1, <2>1, Remainder
  <2>3. Place(s, r, k) = IF r + k - 1 < s THEN r + k - 1 ELSE r + k - 1 - s
    <3>1. Place(s, r, k) = a % s
      BY DEF Place
    <3>2. Place(s, r, k) = IF a < s THEN a ELSE a - s
      BY <2>2, <3>1
    <3> QED BY <1>1, <1>3, <3>2
  <2>4. Place(s, r, k) + 1 \in 1 .. Len(b)
    BY <1>1, <1>2, <1>3, <2>3
  <2> QED BY <2>3, <2>4
<1>5. Ring(b, s, r, w) \in [1 .. Held(s, r, w) -> S]
  BY <1>1, <1>4 DEF Ring
<1>6. Ring(b, s, r, w) \in Seq(S)
  BY <1>3, <1>5, SeqDef
<1>7. Len(Ring(b, s, r, w)) = Held(s, r, w)
  BY <1>3, <1>5, <1>6, LenProperties
<1> QED BY <1>2, <1>3, <1>4, <1>6, <1>7

\* A read of n bytes, after which the read pointer is q.
MayRead(b, s, r, w, n, q) ==
  /\ r # w /\ n \in Nat \ {0}
  /\ n <= IF w > r THEN w - r ELSE s - r
  /\ r + n <= Len(b)
  /\ q = IF r + n = s THEN 0 ELSE r + n

\* The n bytes of b behind the first r.
Chunk(b, r, n) == SubSeq(b, r + 1, r + n)

\* It takes what was written first.
LEMMA RingRead ==
  ASSUME NEW S, NEW b, NEW s, NEW r, NEW w, Shaped(S, b, s, r, w),
         NEW n, NEW q, MayRead(b, s, r, w, n, q)
  PROVE  /\ Shaped(S, b, s, q, w)
         /\ n <= Len(Ring(b, s, r, w))
         /\ Chunk(b, r, n) = SubSeq(Ring(b, s, r, w), 1, n)
         /\ Ring(b, s, q, w) = SubSeq(Ring(b, s, r, w), n + 1, Len(Ring(b, s, r, w)))
<1>1. /\ b \in Seq(S) /\ s \in Nat \ {0} /\ r \in 0 .. s - 1 /\ w \in 0 .. s - 1
      /\ w <= Len(b) /\ (w < r => s <= Len(b)) /\ Len(b) \in Nat
  BY LenProperties DEF Shaped
<1> USE DEF MayRead
<1>2. /\ q \in 0 .. s - 1 /\ (w < q => w < r)
  BY <1>1
<1>3. Shaped(S, b, s, q, w)
  BY <1>1, <1>2 DEF Shaped
<1> DEFINE R == Ring(b, s, r, w)
           Q == Ring(b, s, q, w)
           c == Held(s, r, w)
           d == Held(s, q, w)
<1>4. /\ c = IF r <= w THEN w - r ELSE w + s - r
      /\ c \in 0 .. s - 1 /\ R \in Seq(S) /\ Len(R) = c
      /\ \A k \in 1 .. c :
           Place(s, r, k) = IF r + k - 1 < s THEN r + k - 1 ELSE r + k - 1 - s
  BY RingIs
<1>5. /\ d = IF q <= w THEN w - q ELSE w + s - q
      /\ d \in 0 .. s - 1 /\ Q \in Seq(S) /\ Len(Q) = d
      /\ \A k \in 1 .. d :
           Place(s, q, k) = IF q + k - 1 < s THEN q + k - 1 ELSE q + k - 1 - s
  BY <1>3, RingIs
<1>6. n <= c /\ d = c - n
  <2> HIDE DEF R, Q, c, d
  <2> QED BY <1>1, <1>4, <1>5
<1>7. /\ \A k \in 1 .. c : R[k] = b[Place(s, r, k) + 1]
      /\ \A k \in 1 .. d : Q[k] = b[Place(s, q, k) + 1]
  BY DEF Ring
<1> HIDE DEF R, Q, c, d
<1>8. SubSeq(b, r + 1, r + n) = SubSeq(R, 1, n)
  <2>1. /\ SubSeq(b, r + 1, r + n) \in Seq(S) /\ Len(SubSeq(b, r + 1, r + n)) = n
        /\ \A i \in 1 .. n : SubSeq(b, r + 1, r + n)[i] = b[r + i]
    BY <1>1, SubSeqProperties
  <2>2. /\ SubSeq(R, 1, n) \in Seq(S) /\ Len(SubSeq(R, 1, n)) = n
        /\ \A i \in 1 .. n : SubSeq(R, 1, n)[i] = R[i]
    BY <1>4, <1>6, SubSeqProperties
  <2>3. ASSUME NEW i \in 1 .. n PROVE R[i] = b[r + i]
    <3>1. i \in 1 .. c /\ Place(s, r, i) = r + i - 1
      BY <1>1, <1>4, <1>6
    <3>2. Place(s, r, i) + 1 = r + i
      BY <1>1, <3>1
    <3> QED BY <1>7, <3>1, <3>2
  <2> QED BY <2>1, <2>2, <2>3, SeqEqual
<1>9. Q = SubSeq(R, n + 1, c)
  <2>1. /\ SubSeq(R, n + 1, c) \in Seq(S) /\ Len(SubSeq(R, n + 1, c)) = d
        /\ \A i \in 1 .. d : SubSeq(R, n + 1, c)[i] = R[n + i]
    BY <1>4, <1>6, SubSeqProperties
  <2>2. ASSUME NEW i \in 1 .. d PROVE Q[i] = R[n + i]
    <3>1. n + i \in 1 .. c
      BY <1>4, <1>5, <1>6
    <3>2. Place(s, q, i) = Place(s, r, n + i)
      BY <1>1, <1>2, <1>4, <1>5, <1>6, <3>1
    <3> QED BY <1>7, <3>1, <3>2
  <2> QED BY <1>5, <2>1, <2>2, SeqEqual
<1> QED BY <1>3, <1>4, <1>6, <1>8, <1>9 DEF R, Q, Chunk

\* Where the write pointer goes, and where the bytes behind those that wait are.
WriteFits(s, r, w, c, n, v) ==
  /\ s \in Nat \ {0} /\ r \in 0 .. s - 1 /\ w \in 0 .. s - 1
  /\ c \in 0 .. s - 1 /\ c = IF r <= w THEN w - r ELSE w + s - r
  /\ n \in Nat \ {0} /\ n <= s - 1 - c
  /\ n <= IF w >= r THEN s - w ELSE r - w - 1
  /\ v = IF w + n = s THEN 0 ELSE w + n
WriteLands(s, r, w, c, n, v) ==
  /\ c + n = IF r <= v THEN v - r ELSE v + s - r
  /\ \A k \in 1 .. c + n : \A p :
       p = (IF r + k - 1 < s THEN r + k - 1 ELSE r + k - 1 - s) =>
         /\ k <= c => (p + 1) - w \notin 1 .. n
         /\ k > c => (p + 1) - w = k - c /\ k - c \in 1 .. n

LEMMA WriteArithmetic ==
  ASSUME NEW s, NEW r, NEW w, NEW c, NEW n, NEW v, WriteFits(s, r, w, c, n, v)
  PROVE  WriteLands(s, r, w, c, n, v)
<1> USE DEF WriteFits
<1>1. w + n <= s
  OBVIOUS
<1>2. c + n = IF r <= v THEN v - r ELSE v + s - r
  <2>1. CASE r <= w
    BY <2>1
  <2>2. CASE ~ (r <= w)
    BY <2>2
  <2> QED BY <2>1, <2>2
<1>3. ASSUME NEW k \in 1 .. c + n,
             NEW p, p = IF r + k - 1 < s THEN r + k - 1 ELSE r + k - 1 - s
      PROVE  /\ k <= c => (p + 1) - w \notin 1 .. n
             /\ k > c => (p + 1) - w = k - c /\ k - c \in 1 .. n
  <2>1. CASE r <= w
    BY <1>3, <2>1
  <2>2. CASE ~ (r <= w)
    BY <1>3, <2>2
  <2> QED BY <2>1, <2>2
<1> QED BY <1>2, <1>3 DEF WriteLands

\* a is b with e from index w.
Overlaid(b, w, e, a) ==
  /\ Len(a) = Len(b)
  /\ \A k \in 1 .. Len(b) : a[k] = IF k - w \in 1 .. Len(e) THEN e[k - w] ELSE b[k]

\* A write of n bytes, after which the write pointer is v.
MayWrite(b, s, r, w, n, v) ==
  /\ n \in Nat \ {0} /\ n <= s - 1 - Held(s, r, w)
  /\ n <= IF w >= r THEN s - w ELSE r - w - 1
  /\ w + n <= Len(b)
  /\ v = IF w + n = s THEN 0 ELSE w + n

\* It puts its bytes behind those that wait.
LEMMA RingWrite ==
  ASSUME NEW S, NEW b, NEW s, NEW r, NEW w, Shaped(S, b, s, r, w),
         NEW n, NEW v, MayWrite(b, s, r, w, n, v),
         NEW e \in Seq(S), Len(e) = n, NEW a \in Seq(S), Overlaid(b, w, e, a)
  PROVE  /\ Shaped(S, a, s, r, v)
         /\ Ring(a, s, r, v) = Ring(b, s, r, w) \o e
<1>1. /\ b \in Seq(S) /\ s \in Nat \ {0} /\ r \in 0 .. s - 1 /\ w \in 0 .. s - 1
      /\ w <= Len(b) /\ (w < r => s <= Len(b)) /\ Len(b) \in Nat
  BY LenProperties DEF Shaped
<1> USE DEF MayWrite
<1>2. v \in 0 .. s - 1 /\ v <= Len(b) /\ (v < r => s <= Len(b))
  <2>1. n <= s - w
    BY <1>1
  <2> QED BY <1>1, <2>1
<1>3. Shaped(S, a, s, r, v)
  BY <1>1, <1>2 DEF Shaped, Overlaid
<1> DEFINE R == Ring(b, s, r, w)
           Q == Ring(a, s, r, v)
           c == Held(s, r, w)
           d == Held(s, r, v)
<1>4. /\ c = IF r <= w THEN w - r ELSE w + s - r
      /\ c \in 0 .. s - 1 /\ R \in Seq(S) /\ Len(R) = c
      /\ \A k \in 1 .. c : Place(s, r, k) + 1 \in 1 .. Len(b)
  BY RingIs
<1>5. /\ d = IF r <= v THEN v - r ELSE v + s - r
      /\ d \in 0 .. s - 1 /\ Q \in Seq(S) /\ Len(Q) = d
      /\ \A k \in 1 .. d :
           /\ Place(s, r, k) = IF r + k - 1 < s THEN r + k - 1 ELSE r + k - 1 - s
           /\ Place(s, r, k) + 1 \in 1 .. Len(b)
  <2>1. Len(a) = Len(b)
    BY DEF Overlaid
  <2> QED BY <1>3, <2>1, RingIs
<1>6. /\ n \in Nat \ {0} /\ n <= s - 1 - c /\ n <= IF w >= r THEN s - w ELSE r - w - 1
      /\ v = IF w + n = s THEN 0 ELSE w + n
  OBVIOUS
<1> HIDE DEF MayWrite
<1>7. /\ \A k \in 1 .. c : R[k] = b[Place(s, r, k) + 1]
      /\ \A k \in 1 .. d : Q[k] = a[Place(s, r, k) + 1]
  BY DEF Ring
<1> HIDE DEF R, Q, c, d
<1>8. /\ d = c + n
      /\ \A k \in 1 .. c + n : \A p :
           p = (IF r + k - 1 < s THEN r + k - 1 ELSE r + k - 1 - s) =>
             /\ k <= c => (p + 1) - w \notin 1 .. n
             /\ k > c => (p + 1) - w = k - c /\ k - c \in 1 .. n
  <2>1. WriteFits(s, r, w, c, n, v)
    BY <1>1, <1>4, <1>6 DEF WriteFits
  <2>2. WriteLands(s, r, w, c, n, v)
    BY <2>1, WriteArithmetic
  <2>3. d = c + n
    BY <1>5, <2>2 DEF WriteLands
  <2> QED BY <2>2, <2>3 DEF WriteLands
<1>9. /\ R \o e \in Seq(S) /\ Len(R \o e) = d
      /\ \A k \in 1 .. d : (R \o e)[k] = IF k <= c THEN R[k] ELSE e[k - c]
  <2>1. /\ R \o e \in Seq(S) /\ Len(R \o e) = Len(R) + Len(e)
        /\ \A k \in 1 .. Len(R) + Len(e) :
             (R \o e)[k] = IF k <= Len(R) THEN R[k] ELSE e[k - Len(R)]
    BY <1>4, ConcatProperties
  <2> QED BY <1>4, <1>8, <2>1
<1>10. ASSUME NEW k \in 1 .. d
       PROVE  Q[k] = (R \o e)[k]
  <2> DEFINE p == Place(s, r, k)
  <2>1. /\ p = IF r + k - 1 < s THEN r + k - 1 ELSE r + k - 1 - s
        /\ p + 1 \in 1 .. Len(b) /\ Q[k] = a[p + 1]
    BY <1>5, <1>7
  <2>2. a[p + 1] = IF (p + 1) - w \in 1 .. n THEN e[(p + 1) - w] ELSE b[p + 1]
    BY <2>1 DEF Overlaid
  <2> HIDE DEF p
  <2>3. /\ k <= c => (p + 1) - w \notin 1 .. n
        /\ k > c => (p + 1) - w = k - c /\ k - c \in 1 .. n
    <3>1. k \in 1 .. c + n
      BY <1>8
    <3> QED BY <1>8, <2>1, <3>1
  <2>4. k \in Nat \ {0} /\ c \in Nat
    BY <1>4, <1>5
  <2>5. CASE k <= c
    <3>1. k \in 1 .. c /\ ~ ((p + 1) - w \in 1 .. n)
      BY <2>5, <2>3, <2>4
    <3>2. R[k] = b[p + 1]
      BY <1>7, <3>1 DEF p
    <3> QED BY <1>9, <2>1, <2>2, <2>5, <3>1, <3>2
  <2>6. CASE ~ (k <= c)
    <3>1. (p + 1) - w = k - c /\ k - c \in 1 .. n
      BY <2>6, <2>3, <2>4
    <3>2. Q[k] = e[k - c]
      BY <2>1, <2>2, <3>1
    <3> QED BY <1>9, <2>6, <3>2
  <2> QED BY <2>5, <2>6
<1>11. Q = R \o e
  BY <1>5, <1>9, <1>10, SeqEqual
<1> QED BY <1>3, <1>11 DEF R, Q

\* The room that is left, by the bytes that wait.
LEMMA SpaceHeld ==
  ASSUME NEW S, Shaped(S, buffer, buffersize, rp, wp)
  PROVE  spacefree = buffersize - 1 - Held(buffersize, rp, wp)
<1>1. buffersize \in Nat \ {0} /\ rp \in 0 .. buffersize - 1 /\ wp \in 0 .. buffersize - 1
  BY DEF Shaped
<1>2. /\ Held(buffersize, rp, wp) = IF rp <= wp THEN wp - rp ELSE wp + buffersize - rp
      /\ Held(buffersize, rp, wp) \in 0 .. buffersize - 1
  BY RingIs
<1>3. CASE rp = wp
  BY <1>1, <1>2, <1>3 DEF spacefree
<1>4. CASE rp # wp
  <2> DEFINE a == rp + buffersize - wp
  <2>1. a \in 0 .. 2 * buffersize - 1
    BY <1>1
  <2>2. a % buffersize = IF a < buffersize THEN a ELSE a - buffersize
    BY <1>1, <2>1, Remainder
  <2>3. spacefree = (a % buffersize) - 1
    BY <1>4 DEF spacefree
  <2>4. spacefree = (IF a < buffersize THEN a ELSE a - buffersize) - 1
    BY <2>2, <2>3
  <2>5. CASE rp < wp
    <3>1. spacefree = a - 1
      BY <1>1, <2>4, <2>5
    <3> QED BY <1>1, <1>2, <2>5, <3>1
  <2>6. CASE wp < rp
    <3>1. spacefree = a - buffersize - 1
      BY <1>1, <2>4, <2>6
    <3> QED BY <1>1, <1>2, <2>6, <3>1
  <2> QED BY <1>1, <1>4, <2>5, <2>6
<1> QED BY <1>3, <1>4

\* scull_p_buffer is an int: there is a largest size.
Bounded == \E n \in Sizes : \A m \in Sizes : m <= n
Largest == CHOOSE n \in Sizes : \A m \in Sizes : m <= n

AllBytes == Bytes \union {0}

\* The buffer, whatever the sizes it was allocated and opened with.
InRing ==
  /\ scull_p_buffer \in Sizes
  /\ mode \in [Threads -> Modes \union {{}}]
  /\ \A t \in Threads : pc[t] # "closed" => mode[t] # {}
  /\ \A t \in Threads : mode[t] # {} => buffer # <<>>
  /\ buffer # <<>> =>
       buffersize \in Sizes /\ Shaped(AllBytes, buffer, buffersize, rp, wp)

LEMMA LargestIs ==
  ASSUME Bounded
  PROVE  Largest \in Nat \ {0} /\ \A m \in Sizes : m <= Largest
BY PipeAssumption DEF Bounded, Largest

\* What waits in an open device.
LEMMA WaitingIs ==
  ASSUME Bounded, InRing, buffer # <<>>
  PROVE  /\ Waiting = Ring(buffer, buffersize, rp, wp)
         /\ Waiting \in Seq(AllBytes)
         /\ Len(Waiting) = Held(buffersize, rp, wp)
         /\ Len(Waiting) \in 0 .. buffersize - 1
         /\ buffersize <= Largest /\ buffersize \in Nat \ {0}
<1>1. Shaped(AllBytes, buffer, buffersize, rp, wp)
  BY DEF InRing
<1>2. Waiting = Ring(buffer, buffersize, rp, wp)
  BY DEF Waiting, Ring, Held, Place
<1>3. buffersize <= Largest /\ buffersize \in Nat \ {0}
  BY LargestIs, PipeAssumption DEF InRing
<1> QED BY <1>1, <1>2, <1>3, RingIs

Implements == [Fifo!Next]_<<Waiting, done>>

\* A step that leaves the buffer and the modes alone.
LEMMA IdleStep ==
  ASSUME InRing, UNCHANGED <<contents, mode>>, done' = Nothing,
         \A t \in Threads : pc'[t] # "closed" => mode[t] # {}
  PROVE  InRing' /\ Implements
<1>1. InRing'
  BY DEF InRing, contents
<1>2. Waiting' = Waiting
  BY DEF Waiting, contents
<1>3. Fifo!Idle
  BY <1>2 DEF Fifo!Idle, Nothing
<1> QED BY <1>1, <1>3 DEF Implements, Fifo!Next

LEMMA ReadImplements ==
  ASSUME Bounded, Placed, InRing, NEW t \in Threads, ReadBytes(t)
  PROVE  InRing' /\ Implements
<1>1. pc[t] = "read" /\ buffer # <<>> /\ rp # wp
  BY DEF InRing, ReadBytes, At
<1>2. /\ Shaped(AllBytes, buffer, buffersize, rp, wp) /\ buffersize \in Nat \ {0}
      /\ rp \in 0 .. buffersize - 1 /\ wp \in 0 .. buffersize - 1
  BY <1>1 DEF InRing, Shaped
<1>3. PICK count \in 1 .. MaxCount :
        LET n == Smaller(count, Readable) IN
        \/ /\ Within(rp, n) /\ done' = [op |-> "read", bytes |-> Slice(rp, n)]
           /\ rp' = Wrapped(rp + n) /\ Goto(t, "read wake")
        \/ done' = Nothing /\ UNCHANGED <<rp, pc>>
  BY DEF ReadBytes
<1>4. UNCHANGED <<scull_p_buffer, buffer, buffersize, wp, mode>>
  BY DEF ReadBytes
<1> DEFINE n == Smaller(count, Readable)
<1>5. n \in Nat \ {0} /\ n <= Readable
  <2>1. Readable \in Nat \ {0}
    BY <1>1, <1>2 DEF Readable
  <2>2. count \in Nat \ {0}
    BY PipeAssumption
  <2> QED BY <2>1, <2>2 DEF Smaller
<1>6. CASE done' = Nothing /\ UNCHANGED <<rp, pc>>
  <2>1. UNCHANGED <<contents, mode>>
    BY <1>4, <1>6 DEF contents
  <2> QED BY <1>6, <2>1, IdleStep DEF InRing
<1>7. CASE /\ Within(rp, n) /\ done' = [op |-> "read", bytes |-> Slice(rp, n)]
           /\ rp' = Wrapped(rp + n) /\ Goto(t, "read wake")
  <2> HIDE DEF n
  <2>1. rp + n <= Len(buffer) /\ rp' = IF rp + n = buffersize THEN 0 ELSE rp + n
    BY <1>7 DEF Within, Wrapped
  <2>2. n <= IF wp > rp THEN wp - rp ELSE buffersize - rp
    BY <1>5 DEF Readable
  <2> DEFINE R == Ring(buffer, buffersize, rp, wp)
             q == rp'
  <2>3. q = IF rp + n = buffersize THEN 0 ELSE rp + n
    BY <2>1
  <2> HIDE DEF q
  <2>4. /\ Shaped(AllBytes, buffer, buffersize, q, wp) /\ n <= Len(R)
        /\ Chunk(buffer, rp, n) = SubSeq(R, 1, n)
        /\ Ring(buffer, buffersize, q, wp) = SubSeq(R, n + 1, Len(R))
    <3>1. MayRead(buffer, buffersize, rp, wp, n, q)
      BY <1>1, <1>5, <2>1, <2>2, <2>3 DEF MayRead
    <3> QED BY <1>2, <3>1, RingRead
  <2>5. InRing'
    <3>1. pc' = [pc EXCEPT ![t] = "read wake"]
      BY <1>7 DEF Goto
    <3>2. Shaped(AllBytes, buffer, buffersize, rp, wp)'
      BY <1>4, <2>4 DEF q, AllBytes, Shaped
    <3> QED BY <1>1, <1>4, <3>1, <3>2 DEF InRing, Placed
  <2>6. R = Waiting /\ Len(R) \in 0 .. buffersize - 1 /\ buffersize <= Largest
    BY <1>1, WaitingIs
  <2>7. Waiting' = Ring(buffer, buffersize, q, wp)
    BY <1>1, <1>4 DEF Waiting, Ring, Held, Place, q
  <2>8. n \in 1 .. (Largest - 1)
    BY <1>2, <1>5, <2>4, <2>6, LargestIs
  <2>9. done' = [op |-> "read", bytes |-> Chunk(buffer, rp, n)]
    BY <1>7 DEF Slice, Chunk
  <2>10. Fifo!Get(n) /\ n <= Len(Waiting)
    BY <2>4, <2>6, <2>7, <2>9 DEF Fifo!Get
  <2>11. Fifo!Next
    BY <2>8, <2>10 DEF Fifo!Next, Largest
  <2> QED BY <2>5, <2>11 DEF Implements
<1> QED BY <1>3, <1>6, <1>7

LEMMA WriteImplements ==
  ASSUME Bounded, Placed, InRing, NEW t \in Threads, WriteBytes(t)
  PROVE  InRing' /\ Implements
<1>1. pc[t] = "write" /\ buffer # <<>> /\ spacefree # 0
  BY DEF InRing, WriteBytes, At
<1>2. /\ Shaped(AllBytes, buffer, buffersize, rp, wp) /\ buffersize \in Nat \ {0}
      /\ rp \in 0 .. buffersize - 1 /\ wp \in 0 .. buffersize - 1
      /\ buffer \in Seq(AllBytes)
  BY <1>1 DEF InRing, Shaped
<1> DEFINE c == Held(buffersize, rp, wp)
<1>3. spacefree = buffersize - 1 - c /\ c \in 0 .. buffersize - 1
      /\ c = IF rp <= wp THEN wp - rp ELSE wp + buffersize - rp
  BY <1>2, SpaceHeld, RingIs
<1>4. PICK count \in 1 .. MaxCount :
        LET n == Smaller(count, Smaller(spacefree, Writable)) IN
        \/ /\ Within(wp, n)
           /\ \E b \in [1 .. n -> Bytes] :
                buffer' = Stored(wp, b) /\ done' = [op |-> "write", bytes |-> b]
           /\ wp' = Wrapped(wp + n) /\ Goto(t, "write wake")
        \/ done' = Nothing /\ UNCHANGED <<buffer, wp, pc>>
  BY DEF WriteBytes
<1>5. UNCHANGED <<scull_p_buffer, buffersize, rp, mode>>
  BY DEF WriteBytes
<1> DEFINE n == Smaller(count, Smaller(spacefree, Writable))
<1> HIDE DEF c
<1>6. /\ n \in Nat \ {0} /\ n <= buffersize - 1 - c
      /\ n <= IF wp >= rp THEN buffersize - wp ELSE rp - wp - 1
  <2>1. Writable \in Nat \ {0}
        /\ Writable = IF wp >= rp THEN buffersize - wp ELSE rp - wp - 1
    BY <1>1, <1>2, <1>3 DEF Writable
  <2>2. spacefree \in Nat \ {0}
    BY <1>1, <1>2, <1>3
  <2>3. count \in Nat \ {0}
    BY PipeAssumption
  <2>4. n \in Nat \ {0} /\ n <= spacefree /\ n <= Writable
    BY <2>1, <2>2, <2>3 DEF Smaller
  <2> HIDE DEF n
  <2> QED BY <1>3, <2>1, <2>4
<1>7. CASE done' = Nothing /\ UNCHANGED <<buffer, wp, pc>>
  <2>1. UNCHANGED <<contents, mode>>
    BY <1>5, <1>7 DEF contents
  <2> QED BY <1>7, <2>1, IdleStep DEF InRing
<1>8. CASE /\ Within(wp, n)
           /\ \E b \in [1 .. n -> Bytes] :
                buffer' = Stored(wp, b) /\ done' = [op |-> "write", bytes |-> b]
           /\ wp' = Wrapped(wp + n) /\ Goto(t, "write wake")
  <2> HIDE DEF n
  <2>1. wp + n <= Len(buffer) /\ wp' = IF wp + n = buffersize THEN 0 ELSE wp + n
    BY <1>8 DEF Within, Wrapped
  <2>2. PICK b \in [1 .. n -> Bytes] :
               buffer' = Stored(wp, b) /\ done' = [op |-> "write", bytes |-> b]
    BY <1>8
  <2> DEFINE e == b
             a == buffer'
             v == wp'
             R == Ring(buffer, buffersize, rp, wp)
  <2>3. e \in Seq(AllBytes) /\ Len(e) = n /\ DOMAIN b = 1 .. n
    <3>1. b \in [1 .. n -> AllBytes]
      BY <2>2 DEF AllBytes
    <3>2. b \in Seq(AllBytes)
      BY <1>6, <3>1, SeqDef
    <3>3. DOMAIN b = 1 .. Len(b) /\ Len(b) \in Nat
      BY <3>2, LenProperties
    <3> QED BY <1>6, <3>1, <3>2, <3>3
  <2>4. a \in Seq(AllBytes) /\ Overlaid(buffer, wp, e, a)
    <3>1. b \in [1 .. n -> AllBytes] /\ n \in Nat /\ wp \in Nat
      BY <1>2, <1>6, <2>2 DEF AllBytes
    <3>2. /\ Stored(wp, b) \in Seq(AllBytes)
          /\ Len(Stored(wp, b)) = Len(buffer)
      BY <1>2, <3>1, StoredKeeps
    <3>3. DOMAIN buffer = 1 .. Len(buffer)
      BY <1>2, LenProperties
    <3>4. \A k \in 1 .. Len(buffer) :
            a[k] = IF k - wp \in 1 .. n THEN b[k - wp] ELSE buffer[k]
      BY <2>2, <2>3, <3>3 DEF Stored
    <3> QED BY <2>2, <2>3, <3>2, <3>4 DEF Overlaid
  <2>5. v = IF wp + n = buffersize THEN 0 ELSE wp + n
    BY <2>1
  <2> HIDE DEF e, a, v
  <2>6. /\ Shaped(AllBytes, a, buffersize, rp, v)
        /\ Ring(a, buffersize, rp, v) = R \o e
    <3>1. MayWrite(buffer, buffersize, rp, wp, n, v)
      BY <1>6, <2>1, <2>5 DEF MayWrite, c
    <3> QED BY <1>2, <2>3, <2>4, <3>1, RingWrite
  <2>7. buffer' # <<>>
    <3>1. Len(a) = Len(buffer) /\ Len(buffer) # 0
      BY <1>1, <1>2, <2>4, EmptySeq DEF Overlaid
    <3>2. Len(<<>>) = 0
      BY EmptySeq
    <3> QED BY <3>1, <3>2 DEF a
  <2>8. InRing'
    <3>1. pc' = [pc EXCEPT ![t] = "write wake"]
      BY <1>8 DEF Goto
    <3>2. Shaped(AllBytes, buffer, buffersize, rp, wp)'
      BY <1>5, <2>6 DEF a, v, AllBytes, Shaped
    <3> QED BY <1>1, <1>5, <2>7, <3>1, <3>2 DEF InRing, Placed
  <2>9. /\ R = Waiting /\ Len(Waiting) = c /\ buffersize <= Largest
    BY <1>1, WaitingIs DEF c
  <2>10. Waiting' = Ring(a, buffersize, rp, v)
    BY <1>5, <2>7 DEF Waiting, Ring, Held, Place, a, v
  <2>11. n \in 1 .. (Largest - 1) /\ Len(Waiting) + Len(e) <= Largest - 1
    BY <1>2, <1>3, <1>6, <2>3, <2>9, LargestIs
  <2>12. Fifo!Put(b)
    BY <2>2, <2>6, <2>9, <2>10, <2>11 DEF Fifo!Put, Largest, e
  <2>13. Fifo!Next
    BY <2>2, <2>11, <2>12 DEF Fifo!Next, Largest
  <2> QED BY <2>8, <2>13 DEF Implements
<1> QED BY <1>4, <1>7, <1>8

\* An open leaves nothing that waits.
LEMMA OpenImplements ==
  ASSUME Placed, InRing, NEW t \in Threads, NEW m \in Modes, Open(t, m)
  PROVE  InRing' /\ Implements
<1>1. scull_p_buffer \in Nat \ {0} /\ scull_p_buffer \in Sizes
  BY PipeAssumption DEF InRing
<1>2. /\ buffersize' = scull_p_buffer /\ scull_p_buffer' = scull_p_buffer
      /\ rp' = 0 /\ wp' = 0 /\ done' = [op |-> "open"]
      /\ pc' = [pc EXCEPT ![t] = "open"] /\ mode' = [mode EXCEPT ![t] = m] /\ m # {}
  BY DEF Open, Goto, Modes
<1>3. buffer' \in Seq(AllBytes) /\ buffer' # <<>> /\ Len(buffer') \in Nat
  <2>1. CASE buffer = <<>>
    <3>1. buffer' \in [1 .. scull_p_buffer -> AllBytes]
      BY <2>1 DEF Open, AllBytes
    <3>2. buffer' \in Seq(AllBytes)
      BY <1>1, <3>1, SeqDef
    <3>3. DOMAIN buffer' = 1 .. Len(buffer') /\ Len(buffer') \in Nat
      BY <3>2, LenProperties
    <3>4. Len(buffer') = scull_p_buffer
      BY <1>1, <3>1, <3>3
    <3> QED BY <1>1, <3>2, <3>4, EmptySeq
  <2>2. CASE buffer # <<>>
    <3>1. buffer' = buffer
      BY <2>2 DEF Open
    <3> QED BY <2>2, <3>1, LenProperties DEF InRing, Shaped
  <2> QED BY <2>1, <2>2
<1> DEFINE a == buffer'
<1>4. Shaped(AllBytes, a, scull_p_buffer, 0, 0)
  BY <1>1, <1>3 DEF Shaped
<1>5. Ring(a, scull_p_buffer, 0, 0) = <<>>
  <2> HIDE DEF a
  <2> DEFINE R == Ring(a, scull_p_buffer, 0, 0)
             c == Held(scull_p_buffer, 0, 0)
  <2>1. R \in Seq(AllBytes) /\ Len(R) = c /\ c = IF 0 <= 0 THEN 0 - 0 ELSE 0 + scull_p_buffer - 0
    BY <1>4, RingIs
  <2> HIDE DEF R, c
  <2>2. Len(R) = 0
    BY <2>1
  <2>3. R = <<>>
    BY <2>1, <2>2, EmptySeq
  <2> QED BY <2>3 DEF R
<1>6. Waiting' = <<>>
  <2>1. Waiting' = Ring(a, scull_p_buffer, 0, 0)
    BY <1>2, <1>3 DEF Waiting, Ring, Held, Place
  <2> QED BY <1>5, <2>1
<1>7. InRing'
  <2>1. Shaped(AllBytes, buffer, buffersize, rp, wp)'
    BY <1>2, <1>4 DEF a, Shaped, AllBytes
  <2> QED BY <1>1, <1>2, <1>3, <2>1 DEF InRing, Placed
<1>8. Fifo!Drop
  BY <1>2, <1>6 DEF Fifo!Drop
<1> QED BY <1>7, <1>8 DEF Implements, Fifo!Next

\* The last close drops what waits, another leaves it.
LEMMA ReleaseImplements ==
  ASSUME Placed, InRing, NEW t \in Threads, Release(t)
  PROVE  InRing' /\ Implements
<1>1. /\ pc' = [pc EXCEPT ![t] = "closed"] /\ mode' = [mode EXCEPT ![t] = {}]
      /\ UNCHANGED <<scull_p_buffer, buffersize, rp, wp>>
  BY DEF Release, Goto
<1>2. CASE \A u \in Threads \ {t} : mode[u] = {}
  <2>1. buffer' = <<>> /\ done' = [op |-> "close"]
    BY <1>2 DEF Release
  <2>2. InRing'
    BY <1>1, <1>2, <2>1 DEF InRing, Placed
  <2>3. Fifo!Drop
    BY <2>1 DEF Fifo!Drop, Waiting
  <2> QED BY <2>2, <2>3 DEF Implements, Fifo!Next
<1>3. CASE ~ \A u \in Threads \ {t} : mode[u] = {}
  <2>1. buffer' = buffer /\ done' = Nothing
    BY <1>3 DEF Release
  <2>2. InRing'
    BY <1>1, <2>1 DEF InRing, Placed, Shaped, AllBytes
  <2>3. Fifo!Idle
    BY <1>1, <2>1 DEF Fifo!Idle, Nothing, Waiting
  <2> QED BY <2>2, <2>3 DEF Implements, Fifo!Next
<1> QED BY <1>2, <1>3

LEMMA FifoStep ==
  ASSUME Bounded, Placed, InRing, [Next]_vars
  PROVE  InRing' /\ Implements
<1>1. ASSUME NEW t \in Threads, Reader(t) PROVE InRing' /\ Implements
  <2>1. CASE ReadBytes(t)
    BY <2>1, ReadImplements
  <2>2. CASE \/ ReadEmpty(t) \/ ReadWake(t) \/ ReadPrepare(t) \/ ReadCheck(t)
             \/ ReadWoken(t)
    <3>1. /\ UNCHANGED <<contents, mode>> /\ done' = Nothing /\ pc[t] # "closed"
          /\ \E l \in Labels : Goto(t, l)
      BY <2>2 DEF ReadEmpty, ReadWake, ReadPrepare, ReadCheck, ReadWoken, At, Labels
    <3> QED BY <3>1, IdleStep DEF InRing, Goto, Placed
  <2> QED BY <1>1, <2>1, <2>2 DEF Reader
<1>2. ASSUME NEW t \in Threads, Writer(t) PROVE InRing' /\ Implements
  <2>1. CASE WriteBytes(t)
    BY <2>1, WriteImplements
  <2>2. CASE \/ WriteFull(t) \/ WriteWake(t) \/ WritePrepare(t) \/ WriteCheck(t)
             \/ WriteWoken(t) \/ WriteFinish(t)
    <3>1. /\ UNCHANGED <<contents, mode>> /\ done' = Nothing /\ pc[t] # "closed"
          /\ \E l \in Labels : Goto(t, l)
      BY <2>2 DEF WriteFull, WriteWake, WritePrepare, WriteCheck, WriteWoken, WriteFinish,
                  At, Labels
    <3> QED BY <3>1, IdleStep DEF InRing, Goto, Placed
  <2> QED BY <1>2, <2>1, <2>2 DEF Writer
<1>3. ASSUME NEW t \in Threads, CallRead(t) \/ CallWrite(t) \/ Interrupted(t)
      PROVE  InRing' /\ Implements
  <2>1. /\ UNCHANGED <<contents, mode>> /\ done' = Nothing /\ pc[t] # "closed"
        /\ \E l \in Labels : Goto(t, l)
    BY <1>3 DEF CallRead, CallWrite, Interrupted, At, Labels
  <2> QED BY <2>1, IdleStep DEF InRing, Goto, Placed
<1>4. ASSUME NEW t \in Threads, NEW m \in Modes, Open(t, m) PROVE InRing' /\ Implements
  BY <1>4, OpenImplements
<1>5. ASSUME NEW t \in Threads, Release(t) PROVE InRing' /\ Implements
  BY <1>5, ReleaseImplements
<1>6. ASSUME NEW n \in Sizes, SetSize(n) PROVE InRing' /\ Implements
  <2>1. InRing'
    BY <1>6 DEF SetSize, InRing, Shaped, AllBytes
  <2>2. Fifo!Idle
    BY <1>6 DEF SetSize, Fifo!Idle, Nothing, Waiting
  <2> QED BY <2>1, <2>2 DEF Implements, Fifo!Next
<1>7. CASE UNCHANGED vars
  <2>1. InRing'
    BY <1>7 DEF vars, contents, InRing, Shaped, AllBytes
  <2>2. UNCHANGED <<Waiting, done>>
    BY <1>7 DEF vars, contents, Waiting
  <2> QED BY <2>1, <2>2 DEF Implements
<1> QED BY <1>1, <1>2, <1>3, <1>4, <1>5, <1>6, <1>7 DEF Next

\* The pipe device is a queue of bytes for any number of readers and writers, any
\* counts and bytes, and whatever SCULL_P_IOCTSIZE does between two opens: each byte
\* is read once, in the order of the writes, until an open or the last close drops it,
\* up to the copy that overruns the buffer.  The sizes are ints, so that one of them
\* is the largest.
THEOREM FifoTheorem ==
  ASSUME Bounded PROVE Spec => ImplementsFifo
<1>1. Init => Placed /\ InRing /\ Fifo!Init
  BY DEF Init, Placed, Labels, InRing, Fifo!Init, Waiting, Nothing
<1>2. Placed /\ InRing /\ [Next]_vars => Placed' /\ InRing' /\ [Fifo!Next]_<<Waiting, done>>
  BY PlacedStep, FifoStep DEF Implements
<1> QED BY <1>1, <1>2, PTL DEF Spec, ImplementsFifo, Fifo!Spec
=============================================================================
