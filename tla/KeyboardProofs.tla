--------------------------- MODULE KeyboardProofs ---------------------------
(***************************************************************************)
(* Theorems about Keyboard for any texts and any sets of keys.             *)
(***************************************************************************)
EXTENDS Keyboard, SequenceTheorems, FiniteSetTheorems, TLAPS

Placed == pc \in [Threads -> Places]

\* Every step goes to a place of one of the loops.
LEMMA PlacedStep ==
  ASSUME Placed, [Next]_vars
  PROVE  Placed'
<1>1. CASE Ik
  BY <1>1 DEF Ik, IkLock, IkRead, IkEnd, IkKill, Goto, Placed, Places, Threads
<1>2. CASE Ck
  BY <1>2 DEF Ck, CkTest, CkRead, CkLed, Goto, Placed, Places, Threads
<1>3. CASE IdLock \/ IdRead \/ IdEvent \/ IdAck \/ IdClose
  BY <1>3 DEF IdLock, IdRead, IdEvent, IdAck, IdClose, Goto, Placed, Places, Threads
<1>4. CASE IdNotify \/ IdUnlock \/ IdOver \/ IdLast
  BY <1>4 DEF IdNotify, IdUnlock, IdOver, IdLast, GotoWaking, Placed, Places, Threads
<1>5. CASE Cd
  BY <1>5 DEF Cd, CdTest, CdTake, CdKill, Goto, Placed, Places, Threads
<1>6. CASE Spurious
  BY <1>6 DEF Spurious, Goto, Placed, Places, Threads
<1>7. CASE UNCHANGED vars
  BY <1>7 DEF vars, Placed
<1> QED BY <1>1, <1>2, <1>3, <1>4, <1>5, <1>6, <1>7 DEF Next, Id, Ended

-----------------------------------------------------------------------------
\* CAPS LOCK

\* A toggle is on its way from led_buff to CAPS_LOCK.
Pending == Unacknowledged \/ At("id", "notify")

\* While no toggle overtook another, one message at most is under way, and the LED
\* tells whether it is to flip CAPS_LOCK.
Toggling ==
  kill_thread = 0 =>
    /\ pc["id"] \notin {"last", "close", "done"} /\ ctrl_open
    /\ ~overtaken =>
         /\ ~Pending => Len(caps_history) = presses
         /\ Pending => Len(caps_history) = IF led_buff = 1 THEN presses - 1 ELSE presses
         /\ send_control = 1 => ctrl_pipe = 0 /\ ~At("ck", "led") /\ ~At("id", "notify")
         /\ ctrl_pipe > 0 => ctrl_pipe = 1 /\ ~At("ck", "led") /\ ~At("id", "notify")
         /\ At("ck", "led") => ~At("id", "notify")

Bits ==
  /\ Placed
  /\ led_buff \in {0, 1} /\ CAPS_LOCK \in {0, 1} /\ presses \in Nat
  /\ caps_history \in Seq({0, 1}) /\ CAPS_LOCK = Len(caps_history) % 2
  /\ kill_thread \in {0, 1} /\ send_control \in {0, 1} /\ ctrl_pipe \in Nat
  /\ overtaken \in BOOLEAN

LEMMA BitsStep ==
  ASSUME Bits, [Next]_vars
  PROVE  Bits'
<1> USE DEF Bits, typing, led, control, kill, caps
<1>0. Placed'
  BY PlacedStep
<1>1. CASE Ik
  BY <1>0, <1>1 DEF Ik, IkLock, IkRead, IkEnd, IkKill
<1>2. CASE CkTest \/ CkRead
  BY <1>0, <1>2 DEF CkTest, CkRead
<1>8. CASE CkLed
  <2>1. CASE UNCHANGED caps
    BY <1>0, <1>8, <2>1 DEF CkLed
  <2>2. CASE CAPS_LOCK' = 1 - CAPS_LOCK /\ caps_history' = Append(caps_history, 1 - CAPS_LOCK)
    <3>1. caps_history' \in Seq({0, 1}) /\ Len(caps_history') = Len(caps_history) + 1
      BY <2>2, AppendProperties
    <3>2. Len(caps_history) \in Nat
      BY LenProperties
    <3> DEFINE n == Len(caps_history)
               k == Len(caps_history')
    <3>3. n \in Nat /\ k = n + 1 /\ CAPS_LOCK = n % 2 /\ CAPS_LOCK' = 1 - CAPS_LOCK
      BY <2>2, <3>1, <3>2
    <3> HIDE DEF n, k
    <3>4. CAPS_LOCK' = k % 2 /\ CAPS_LOCK' \in {0, 1}
      BY <3>3
    <3> QED BY <1>0, <1>8, <3>1, <3>4 DEF CkLed, k
  <2> QED BY <1>8, <2>1, <2>2 DEF CkLed
<1>3. CASE IdLock \/ IdRead \/ IdAck \/ IdClose \/ IdUnlock
  BY <1>0, <1>3 DEF IdLock, IdRead, IdAck, IdClose, IdUnlock
<1>4. CASE IdNotify \/ IdOver \/ IdLast
  BY <1>0, <1>4 DEF IdNotify, IdOver, IdLast
<1>7. CASE IdEvent
  <2>1. /\ led_buff' \in {0, 1} /\ presses' \in Nat
        /\ UNCHANGED <<caps, kill_thread, send_control, ctrl_pipe>>
    BY <1>7 DEF IdEvent
  <2>2. overtaken' = (overtaken \/ Unacknowledged)
    BY <1>7 DEF IdEvent
  <2>3. overtaken' \in BOOLEAN
    BY <2>2, Zenon
  <2> QED BY <1>0, <2>1, <2>3
<1>5. CASE Cd
  BY <1>0, <1>5 DEF Cd, CdTest, CdTake, CdKill
<1>6. CASE Spurious \/ UNCHANGED vars
  BY <1>0, <1>6 DEF Spurious, vars
<1> QED BY <1>1, <1>2, <1>3, <1>4, <1>5, <1>6, <1>7, <1>8 DEF Next, Ck, Id, Ended

\* What is kept of led_buff and CAPS_LOCK by a step that leaves them alone.
LEMMA HistoryKept == UNCHANGED caps => Len(caps_history)' = Len(caps_history)
BY DEF caps

\* A step that moves only threads that do not matter to a toggle.
LEMMA TogglingKept ==
  ASSUME Toggling, Placed, Placed', UNCHANGED <<led, control, caps>>,
         kill_thread' = 0 => kill_thread = 0,
         At("ck", "led")' <=> At("ck", "led"), At("id", "notify")' <=> At("id", "notify"),
         kill_thread' = 0 => pc'["id"] \notin {"last", "close", "done"}
  PROVE  Toggling'
BY HistoryKept DEF Toggling, Pending, Unacknowledged, led, control

\* The driver's thread flips the LED and asks for the message.
LEMMA EventToggles ==
  ASSUME Bits, Toggling, Bits', IdEvent
  PROVE  Toggling'
<1>1. pc' = [pc EXCEPT !["id"] = "notify"] /\ pc["id"] = "event"
  BY DEF IdEvent, At, Goto
<1>2. pc'["id"] = "notify" /\ pc'["ck"] = pc["ck"]
  BY <1>1 DEF Bits, Placed, Threads
<1>3. /\ UNCHANGED <<kill_thread, caps, send_control, ctrl_pipe, ctrl_open>>
      /\ led_buff' = 1 - led_buff
      /\ presses' = IF led_buff = 0 THEN presses + 1 ELSE presses
  BY DEF IdEvent, control, kill
<1>4. ~overtaken' => ~overtaken /\ ~Unacknowledged
  <2>1. overtaken' = (overtaken \/ Unacknowledged)
    BY DEF IdEvent
  <2> QED BY <2>1, Zenon
<1> QED BY <1>1, <1>2, <1>3, <1>4, HistoryKept DEF Toggling, Pending, Unacknowledged, At, Bits

LEMMA NotifyToggles ==
  ASSUME Bits, Toggling, Bits', IdNotify
  PROVE  Toggling'
<1>1. pc["id"] = "notify" /\ pc'["id"] = "ack" /\ pc'["ck"] = pc["ck"]
  BY DEF IdNotify, At, GotoWaking, Bits, Placed, Threads
<1>2. /\ UNCHANGED <<led, kill_thread, caps, ctrl_pipe, ctrl_open>>
      /\ send_control' = 1
  BY DEF IdNotify, kill
<1> QED BY <1>1, <1>2, HistoryKept DEF Toggling, Pending, Unacknowledged, At, Bits, led

\* The message goes through the pipe to the keyboard's control thread, which flips.
LEMMA MessageToggles ==
  ASSUME Bits, Toggling, Bits', CdTake \/ CkRead \/ CkLed
  PROVE  Toggling'
<1>1. CASE CdTake
  <2>1. pc'["id"] = pc["id"] /\ pc'["ck"] = pc["ck"]
    BY <1>1 DEF CdTake, Goto, Bits, Placed, Threads
  <2>2. /\ UNCHANGED <<led, kill_thread, caps, ctrl_open>>
        /\ \/ send_control = 0 /\ UNCHANGED <<send_control, ctrl_pipe>>
           \/ /\ send_control = 1 /\ send_control' = 0
              /\ ctrl_open => ctrl_pipe' = ctrl_pipe + 1
    BY <1>1 DEF CdTake, kill
  <2> QED BY <2>1, <2>2, HistoryKept DEF Toggling, Pending, Unacknowledged, At, Bits, led
<1>2. CASE CkRead
  <2>1. /\ pc'["id"] = pc["id"] /\ pc["ck"] = "read"
        /\ \/ ctrl_pipe = 0 /\ ctrl_pipe' = 0 /\ pc'["ck"] = "test"
           \/ ctrl_pipe > 0 /\ ctrl_pipe' = ctrl_pipe - 1 /\ pc'["ck"] = "led"
    BY <1>2 DEF CkRead, At, Goto, Bits, Placed, Threads
  <2>2. UNCHANGED <<led, kill_thread, caps, send_control, ctrl_open>>
    BY <1>2 DEF CkRead, kill
  <2> QED BY <2>1, <2>2, HistoryKept DEF Toggling, Pending, Unacknowledged, At, Bits, led
<1>3. CASE CkLed
  <2>1. pc'["id"] = pc["id"] /\ pc["ck"] = "led" /\ pc'["ck"] = "test"
    BY <1>3 DEF CkLed, At, Goto, Bits, Placed, Threads
  <2>2. /\ UNCHANGED <<led, kill_thread, control>>
        /\ Len(caps_history') = IF led_buff = 1 THEN Len(caps_history) + 1
                                                ELSE Len(caps_history)
    BY <1>3, AppendProperties DEF CkLed, kill, caps, Flips, Bits
  <2>3. Len(caps_history) \in Nat
    BY LenProperties DEF Bits
  <2> QED BY <2>1, <2>2, <2>3 DEF Toggling, Pending, Unacknowledged, At, Bits, led, control
<1> QED BY <1>1, <1>2, <1>3

LEMMA TogglingStep ==
  ASSUME Bits, Toggling, [Next]_vars
  PROVE  Toggling'
<1>0. Bits' /\ Placed /\ Placed'
  BY BitsStep DEF Bits
<1>1. CASE Ik \/ CkTest \/ CdTest \/ CdKill \/ Spurious
  <2>1. UNCHANGED <<led, control, caps>> /\ (kill_thread' = 0 => kill_thread = 0)
    BY <1>1 DEF Ik, IkLock, IkRead, IkEnd, IkKill, CkTest, CdTest, CdKill, Spurious, kill
  <2>2. /\ At("ck", "led")' <=> At("ck", "led")
        /\ pc'["id"] = pc["id"]
    BY <1>0, <1>1 DEF Ik, IkLock, IkRead, IkEnd, IkKill, CkTest, CdTest, CdKill, Spurious,
                      At, Goto, Placed, Threads
  <2> QED BY <1>0, <2>1, <2>2, TogglingKept DEF Toggling, At
<1>2. CASE IdLock \/ IdRead \/ IdAck \/ IdUnlock \/ IdOver
  <2>1. UNCHANGED <<led, control, caps>> /\ (kill_thread' = 0 => kill_thread = 0)
    BY <1>2 DEF IdLock, IdRead, IdAck, IdUnlock, IdOver, kill
  <2>2. pc'["ck"] = pc["ck"] /\ pc["id"] # "notify" /\ pc'["id"] # "notify"
    BY <1>0, <1>2 DEF IdLock, IdRead, IdAck, IdUnlock, IdOver, At, Goto, GotoWaking, Placed,
                      Threads
  <2>3. kill_thread' = 0 => pc'["id"] \notin {"last", "close", "done"}
    BY <1>0, <1>2 DEF IdLock, IdRead, IdAck, IdUnlock, IdOver, At, Goto, GotoWaking, Placed,
                      Threads
  <2> QED BY <1>0, <2>1, <2>2, <2>3, TogglingKept DEF At
<1>3. CASE IdLast \/ IdClose
  <2>1. kill_thread' # 0
    BY <1>3 DEF IdLast, IdClose, At, Toggling, kill
  <2> QED BY <2>1 DEF Toggling
<1>4. CASE IdEvent \/ IdNotify \/ CdTake \/ CkRead \/ CkLed
  BY <1>0, <1>4, EventToggles, NotifyToggles, MessageToggles
<1>5. CASE UNCHANGED vars
  BY <1>5, HistoryKept DEF vars, led, control, kill, Toggling, Pending, Unacknowledged, At
<1> QED BY <1>1, <1>2, <1>3, <1>4, <1>5 DEF Next, Ck, Id, Cd, Ended

LEMMA InitToggles == Init => Bits /\ Toggling
<1> SUFFICES ASSUME Init PROVE Bits /\ Toggling
  OBVIOUS
<1>1. Placed /\ pc["id"] = "lock" /\ pc["ck"] = "test"
  BY DEF Init, Placed, Places, Threads
<1>2. /\ led_buff = 0 /\ CAPS_LOCK = 0 /\ presses = 0 /\ kill_thread = 0
      /\ send_control = 0 /\ ctrl_pipe = 0 /\ caps_history = <<>>
  BY DEF Init
<1>3. ctrl_open /\ ~overtaken /\ overtaken \in BOOLEAN
  BY Zenon DEF Init
<1>4. ~Pending
  BY <1>1, <1>2 DEF Pending, Unacknowledged, At
<1>5. caps_history \in Seq({0, 1}) /\ Len(caps_history) = 0
  BY <1>2, EmptySeq
<1>6. Toggling
  BY <1>1, <1>2, <1>3, <1>4, <1>5 DEF Toggling, At
<1> QED BY <1>1, <1>2, <1>3, <1>5, <1>6 DEF Bits

-----------------------------------------------------------------------------
\* The keys

\* The mutex is held where the code holds it, and a key is in the pipe or in the
\* driver's hands only while the keyboard waits for done_reading.
InHand == pc["id"] \in {"event", "notify", "ack"}
Turns ==
  /\ m_lock_int \in {"none", "ik", "id"}
  /\ m_lock_int = "ik" <=> At("ik", "read")
  /\ m_lock_int = "id" <=> InHand \/ At("id", "read") \/ At("id", "unlock")
  /\ int_pipe # <<>> =>
       /\ \E k : int_pipe = <<k>>
       /\ done_reading = 0 /\ ~InHand
       /\ pc["ik"] \in {"lock", "wait"}
  /\ InHand => done_reading = 0 /\ pc["ik"] \in {"lock", "wait"}
  /\ pc["ik"] \in {"read", "end"} => done_reading = 0

\* What a step of one thread does to the places of the two that pass the keys.
LEMMA OnlyOne ==
  ASSUME Placed, NEW t \in Threads, NEW l, NEW u \in Threads \ {t},
         Goto(t, l) \/ GotoWaking(t, l, u)
  PROVE  /\ pc'[t] = l
         /\ \A v \in Threads \ {t, u} : pc'[v] = pc[v]
         /\ pc'[u] = pc[u] \/ (pc[u] = "wait" /\ pc'[u] = IF u = "ik" THEN "lock" ELSE "take")
BY DEF Placed, Goto, GotoWaking

\* The keyboard types when the driver has nothing in hand.
LEMMA TypingTurns ==
  ASSUME Placed, Turns, Ik
  PROVE  Turns'
<1>0. "ik" \in Threads /\ "id" \in Threads \ {"ik"}
  BY DEF Threads
<1>1. CASE IkLock
  <2>1. /\ pc["ik"] = "lock" /\ m_lock_int = "none" /\ pc'["id"] = pc["id"]
        /\ int_pipe' = int_pipe
        /\ \/ /\ done_reading = 0 /\ UNCHANGED <<m_lock_int, done_reading>>
              /\ pc'["ik"] = "wait"
           \/ done_reading # 0 /\ m_lock_int' = "ik" /\ done_reading' = 0 /\ pc'["ik"] = "read"
    BY <1>0, <1>1, OnlyOne DEF IkLock, MustWait, At, Threads, Placed, Goto
  <2> QED BY <2>1 DEF Turns, InHand, At
<1>2. CASE IkRead
  <2>1. /\ pc["ik"] = "read" /\ m_lock_int' = "none" /\ pc'["id"] = pc["id"]
        /\ done_reading' = done_reading
        /\ \/ pc'["ik"] = "lock" /\ \E k : int_pipe' = Append(int_pipe, k)
           \/ pc'["ik"] = "end" /\ int_pipe' = int_pipe
    BY <1>0, <1>2 DEF IkRead, At, Goto, Placed, Threads
  <2>2. int_pipe = <<>> /\ m_lock_int = "ik" /\ ~InHand /\ pc["id"] \notin {"read", "unlock"}
    BY <2>1 DEF Turns, At
  <2>3. \A k : Append(<<>>, k) = <<k>>
    OBVIOUS
  <2> QED BY <2>1, <2>2, <2>3 DEF Turns, InHand, At
<1>3. CASE IkEnd \/ IkKill
  <2>1. /\ pc'["id"] = pc["id"] /\ int_pipe' = int_pipe /\ m_lock_int' = m_lock_int
        /\ \/ pc["ik"] = "end" /\ pc'["ik"] = "kill"
           \/ pc["ik"] = "kill" /\ pc'["ik"] = "done" /\ done_reading' = done_reading
    BY <1>0, <1>3 DEF IkEnd, IkKill, typing, At, Goto, Placed, Threads
  <2> QED BY <2>1 DEF Turns, InHand, At
<1> QED BY <1>1, <1>2, <1>3 DEF Ik

\* The driver takes the key out of the pipe before it says so.
LEMMA PrintingTurns ==
  ASSUME Placed, Turns, Id
  PROVE  Turns'
<1>0. "id" \in Threads /\ "ik" \in Threads \ {"id"}
  BY DEF Threads
<1>1. CASE IdLock
  <2>1. /\ pc["id"] = "lock" /\ pc'["id"] = "read" /\ pc'["ik"] = pc["ik"]
        /\ m_lock_int = "none" /\ m_lock_int' = "id"
        /\ UNCHANGED <<int_pipe, done_reading>>
    BY <1>0, <1>1 DEF IdLock, At, Goto, Placed, Threads
  <2> QED BY <2>1 DEF Turns, InHand, At
<1>2. CASE IdRead
  <2>1. /\ pc["id"] = "read" /\ pc'["ik"] = pc["ik"] /\ UNCHANGED <<m_lock_int, done_reading>>
        /\ \/ int_pipe = <<>> /\ int_pipe' = int_pipe /\ pc'["id"] = "unlock"
           \/ /\ int_pipe # <<>> /\ int_pipe' = Tail(int_pipe)
              /\ pc'["id"] \in {"event", "ack"}
    BY <1>0, <1>2 DEF IdRead, At, Goto, Placed, Threads
  <2>2. \A k : Tail(<<k>>) = <<>>
    OBVIOUS
  <2> QED BY <2>1, <2>2 DEF Turns, InHand, At
<1>3. CASE IdEvent \/ IdNotify \/ IdAck
  <2>1. /\ pc["id"] \in {"event", "notify", "ack"}
        /\ pc'["ik"] = pc["ik"] /\ UNCHANGED <<int_pipe, m_lock_int>>
        /\ \/ pc'["id"] \in {"notify", "ack"} /\ done_reading' = done_reading
           \/ pc'["id"] = "unlock"
    BY <1>0, <1>3 DEF IdEvent, IdNotify, IdAck, typing, At, Goto, GotoWaking, Placed, Threads
  <2>2. InHand /\ int_pipe = <<>> /\ pc["ik"] \in {"lock", "wait"}
    BY <2>1 DEF InHand, Turns
  <2> QED BY <2>1, <2>2 DEF Turns, InHand, At
<1>4. CASE IdUnlock \/ IdOver
  <2>1. /\ pc["id"] \in {"unlock", "over"} /\ pc'["id"] \in {"over", "lock", "last"}
        /\ pc'["ik"] = pc["ik"] \/ (pc["ik"] = "wait" /\ pc'["ik"] = "lock")
        /\ UNCHANGED <<int_pipe, done_reading>>
        /\ \/ pc["id"] = "unlock" /\ m_lock_int' = "none"
           \/ pc["id"] = "over" /\ m_lock_int' = m_lock_int
    BY <1>0, <1>4 DEF IdUnlock, IdOver, typing, At, GotoWaking, Placed, Threads
  <2> QED BY <2>1 DEF Turns, InHand, At
<1>5. CASE IdLast \/ IdClose
  <2>1. /\ pc["id"] \in {"last", "close"} /\ pc'["id"] \in {"close", "done"}
        /\ pc'["ik"] = pc["ik"] /\ UNCHANGED <<int_pipe, m_lock_int, done_reading>>
    BY <1>0, <1>5 DEF IdLast, IdClose, typing, At, Goto, GotoWaking, Placed, Threads
  <2> QED BY <2>1 DEF Turns, InHand, At
<1> QED BY <1>1, <1>2, <1>3, <1>4, <1>5 DEF Id

LEMMA TurnsStep ==
  ASSUME Placed, Turns, [Next]_vars
  PROVE  Turns'
<1>1. CASE Ck \/ Cd
  <2>1. /\ pc'["ik"] = pc["ik"] /\ pc'["id"] = pc["id"]
        /\ UNCHANGED <<int_pipe, m_lock_int, done_reading>>
    BY <1>1 DEF Ck, CkTest, CkRead, CkLed, Cd, CdTest, CdTake, CdKill, typing, Goto, Placed,
                Threads
  <2> QED BY <2>1 DEF Turns, InHand, At
<1>2. CASE Spurious
  <2>1. /\ pc'["id"] = pc["id"]
        /\ pc'["ik"] = pc["ik"] \/ (pc["ik"] = "wait" /\ pc'["ik"] = "lock")
        /\ UNCHANGED <<int_pipe, m_lock_int, done_reading>>
    BY <1>2 DEF Spurious, typing, At, Goto, Placed, Threads
  <2> QED BY <2>1 DEF Turns, InHand, At
<1>3. CASE UNCHANGED vars
  BY <1>3 DEF vars, typing, Turns, InHand, At
<1> QED BY <1>1, <1>2, <1>3, TypingTurns, PrintingTurns DEF Next, Ended

\* At most one key is on its way to the driver, and none while it has one in hand;
\* nor does the keyboard type then.
OneKeyUnderway == Len(int_pipe) <= 1 /\ ~(InHand /\ (At("ik", "read") \/ int_pipe # <<>>))

\* m_lock_int and done_reading make the processes take turns key by key, for any text:
\* what KeysInOrder rests on.
THEOREM TurnsTheorem == Spec => []OneKeyUnderway
<1>1. ASSUME Init PROVE Placed /\ Turns
  <2>1. Placed /\ pc["ik"] = "lock" /\ pc["id"] = "lock"
    BY <1>1 DEF Init, Placed, Places, Threads
  <2> QED BY <1>1, <2>1 DEF Init, Turns, InHand, At
<1>2. Placed /\ Turns /\ [Next]_vars => Placed' /\ Turns'
  BY PlacedStep, TurnsStep
<1>3. Turns => OneKeyUnderway
  <2>1. Len(<<>>) = 0 /\ \A k : Len(<<k>>) = 1
    OBVIOUS
  <2> SUFFICES ASSUME Turns PROVE OneKeyUnderway
    OBVIOUS
  <2>2. CASE int_pipe = <<>>
    BY <2>1, <2>2 DEF Turns, OneKeyUnderway, At
  <2>3. CASE int_pipe # <<>>
    <3>1. PICK k : int_pipe = <<k>>
      BY <2>3 DEF Turns
    <3>2. Len(int_pipe) = 1
      BY <3>1
    <3> QED BY <2>3, <3>2 DEF Turns, OneKeyUnderway
  <2> QED BY <2>2, <2>3
<1> QED BY <1>1, <1>2, <1>3, PTL DEF Spec
-----------------------------------------------------------------------------
\* What is printed

Chars == [key : {file[i] : i \in Nat}, upper : BOOLEAN]

\* p is what is to be printed of the first n keys.
Prints(p, n) ==
  /\ p \in Seq(Chars)
  /\ Len(p) = Cardinality(Shown(n))
  /\ \A i \in Shown(n) : p[Cardinality(Shown(i))].key = file[i]

\* KeysInOrder with the places of the threads that it needs: the keyboard gets past its
\* last key only when the pipe is empty, and the driver leaves after it.
Order ==
  /\ next \in Nat
  /\ int_pipe # <<>> =>
       next > 0 /\ \E b \in BOOLEAN : int_pipe = <<[key |-> file[next], upper |-> b]>>
  /\ Prints(printed, next - Len(int_pipe))
  /\ pc["ik"] \in {"end", "kill", "done"} => next = Len(file) /\ int_pipe = <<>>
  /\ done_reading = -1 => pc["ik"] \in {"kill", "done"}
  /\ pc["id"] \in {"over", "last", "close", "done"} => pc["ik"] \in {"kill", "done"}

\* The places of the first n + 1 keys to print are those of the first n, and the last.
LEMMA OneMoreShown ==
  ASSUME NEW n \in Nat
  PROVE  /\ Shown(n + 1) = Shown(n) \union (IF n + 1 \in Shown(n + 1) THEN {n + 1} ELSE {})
         /\ n + 1 \in Shown(n + 1) <=> file[n + 1] \notin Toggles \union Ignored
         /\ Cardinality(Shown(n)) \in Nat
         /\ n + 1 \in Shown(n + 1) => Cardinality(Shown(n + 1)) = Cardinality(Shown(n)) + 1
<1>1. n + 1 \in Shown(n + 1) <=> file[n + 1] \notin Toggles \union Ignored
  BY DEF Shown
<1>2. Shown(n + 1) = Shown(n) \union (IF n + 1 \in Shown(n + 1) THEN {n + 1} ELSE {})
  BY DEF Shown
<1>3. IsFiniteSet(Shown(n)) /\ n + 1 \notin Shown(n)
  <2>1. IsFiniteSet(1 .. n)
    BY FS_Interval
  <2>2. Shown(n) \subseteq 1 .. n
    BY DEF Shown
  <2> QED BY <2>1, <2>2, FS_Subset
<1>4. Cardinality(Shown(n)) \in Nat
  BY <1>3, FS_CardinalityType
<1>5. Cardinality(Shown(n) \union {n + 1}) = Cardinality(Shown(n)) + 1
  BY <1>3, FS_AddElement
<1> QED BY <1>1, <1>2, <1>4, <1>5

\* The rank of a printed key is within what is printed up to it.
LEMMA Rank ==
  ASSUME NEW n \in Nat, NEW i \in Shown(n)
  PROVE  Cardinality(Shown(i)) \in 1 .. Cardinality(Shown(n))
<1>1. i \in 1 .. n /\ i \in Shown(i) /\ Shown(i) \subseteq Shown(n)
  BY DEF Shown
<1>2. IsFiniteSet(Shown(n))
  <2>1. IsFiniteSet(1 .. n)
    BY FS_Interval
  <2>2. Shown(n) \subseteq 1 .. n
    BY DEF Shown
  <2> QED BY <2>1, <2>2, FS_Subset
<1>3. /\ IsFiniteSet(Shown(i)) /\ Cardinality(Shown(i)) <= Cardinality(Shown(n))
      /\ Cardinality(Shown(i)) \in Nat /\ Cardinality(Shown(n)) \in Nat
  BY <1>1, <1>2, FS_Subset, FS_CardinalityType
<1>4. Cardinality(Shown(i)) # 0
  BY <1>1, <1>3, FS_EmptySet
<1> QED BY <1>3, <1>4

\* The next key is printed, if it is one to print.
LEMMA PrintsNext ==
  ASSUME NEW p, NEW n \in Nat, Prints(p, n), NEW b \in BOOLEAN
  PROVE  IF file[n + 1] \in Toggles \union Ignored
           THEN Prints(p, n + 1)
           ELSE Prints(Append(p, [key |-> file[n + 1], upper |-> b]), n + 1)
<1>1. CASE file[n + 1] \in Toggles \union Ignored
  <2>1. Shown(n + 1) = Shown(n)
    BY <1>1, OneMoreShown
  <2> QED BY <1>1, <2>1 DEF Prints
<1>2. CASE file[n + 1] \notin Toggles \union Ignored
  <2> DEFINE c == [key |-> file[n + 1], upper |-> b]
             q == Append(p, c)
  <2>1. /\ Shown(n + 1) = Shown(n) \union {n + 1}
        /\ Cardinality(Shown(n)) \in Nat
        /\ Cardinality(Shown(n + 1)) = Cardinality(Shown(n)) + 1
    BY <1>2, OneMoreShown
  <2>2. p \in Seq(Chars) /\ Len(p) = Cardinality(Shown(n)) /\ c \in Chars /\ c.key = file[n + 1]
    BY DEF Prints, Chars
  <2> HIDE DEF c
  <2>3. /\ q \in Seq(Chars) /\ Len(q) = Len(p) + 1
        /\ \A k \in 1 .. Len(p) : q[k] = p[k]
        /\ q[Len(p) + 1] = c
    BY <2>2, AppendProperties
  <2> HIDE DEF q
  <2>4. ASSUME NEW i \in Shown(n + 1)
        PROVE  q[Cardinality(Shown(i))].key = file[i]
    <3>1. CASE i = n + 1
      BY <2>1, <2>2, <2>3, <3>1
    <3>2. CASE i \in Shown(n)
      <4>1. Cardinality(Shown(i)) \in 1 .. Len(p)
        BY <2>2, <3>2, Rank
      <4>2. p[Cardinality(Shown(i))].key = file[i]
        BY <3>2 DEF Prints
      <4> QED BY <2>3, <4>1, <4>2
    <3> QED BY <2>1, <3>1, <3>2
  <2>5. Prints(q, n + 1)
    BY <2>1, <2>2, <2>3, <2>4 DEF Prints
  <2> QED BY <1>2, <2>5 DEF q, c
<1> QED BY <1>1, <1>2

\* A step that types and prints nothing.
LEMMA OrderKept ==
  ASSUME Order, UNCHANGED <<file, next, int_pipe, printed>>,
         pc'["ik"] \in {"end", "kill", "done"} =>
           pc["ik"] \in {"end", "kill", "done"} \/ (next = Len(file) /\ int_pipe = <<>>),
         done_reading' = -1 =>
           done_reading = -1 \/ pc'["ik"] \in {"kill", "done"},
         pc["ik"] \in {"kill", "done"} => pc'["ik"] \in {"kill", "done"},
         pc'["id"] \in {"over", "last", "close", "done"} =>
           pc["id"] \in {"over", "last", "close", "done"} \/ done_reading = -1
  PROVE  Order'
<1> DEFINE n == next - Len(int_pipe)
<1>1. Prints(printed, n) /\ n' = n
  BY DEF Order
<1> HIDE DEF n
<1>2. Prints(printed, n)'
  BY <1>1 DEF Prints, Shown, Chars
<1> QED BY <1>2 DEF Order, n

LEMMA TypingOrder ==
  ASSUME Placed, Turns, Order, Ik
  PROVE  Order'
<1>0. "ik" \in Threads /\ "id" \in Threads \ {"ik"}
  BY DEF Threads
<1>1. CASE IkLock
  <2>1. /\ pc["ik"] = "lock" /\ pc'["ik"] \in {"wait", "read"} /\ pc'["id"] = pc["id"]
        /\ UNCHANGED <<file, next, int_pipe, printed>>
        /\ done_reading' \in {done_reading, 0}
    BY <1>0, <1>1 DEF IkLock, At, Goto, Placed, Threads
  <2> QED BY <2>1, OrderKept
<1>2. CASE IkRead
  <2>1. /\ pc["ik"] = "read" /\ pc'["id"] = pc["id"] /\ UNCHANGED <<file, done_reading, printed>>
        /\ pc'["ik"] \in {"lock", "end"}
    BY <1>0, <1>2 DEF IkRead, At, Goto, Placed, Threads
  <2>2. int_pipe = <<>> /\ Len(<<>>) = 0
    BY <2>1 DEF Turns
  <2>3. CASE next = Len(file) /\ UNCHANGED <<next, int_pipe>>
    BY <2>1, <2>2, <2>3, OrderKept
  <2>4. CASE /\ next' = next + 1 /\ pc'["ik"] = "lock"
             /\ int_pipe' = Append(int_pipe, [key |-> file[next + 1],
                                 upper |-> file[next + 1] \in Letters /\ CAPS_LOCK = 1])
    <3> DEFINE b == file[next + 1] \in Letters /\ CAPS_LOCK = 1
    <3>1. b \in BOOLEAN
      BY Zenon
    <3> HIDE DEF b
    <3>2. int_pipe' = <<[key |-> file[next + 1], upper |-> b]>>
      BY <2>2, <2>4 DEF b
    <3>3. Len(int_pipe') = 1 /\ next' \in Nat /\ next' > 0 /\ next' - Len(int_pipe') = next
      BY <2>4, <3>2 DEF Order
    <3>4. int_pipe' = <<[key |-> file'[next'], upper |-> b]>>
      BY <2>1, <2>4, <3>2
    <3>5. Prints(printed, next - Len(int_pipe))'
      <4>1. Prints(printed, next)
        BY <2>2 DEF Order
      <4>2. Shown(next)' = Shown(next') /\ Chars' = Chars
        BY <2>1 DEF Shown, Chars
      <4> QED BY <2>1, <3>3, <4>1 DEF Prints, Shown, Chars
    <3> QED BY <2>1, <2>4, <3>1, <3>3, <3>4, <3>5 DEF Order
  <2> QED BY <1>0, <1>2, <2>3, <2>4 DEF IkRead, Goto, Placed
<1>3. CASE IkEnd \/ IkKill
  <2>1. /\ pc["ik"] \in {"end", "kill"} /\ pc'["ik"] \in {"kill", "done"}
        /\ pc'["id"] = pc["id"] /\ UNCHANGED <<file, next, int_pipe, printed>>
    BY <1>0, <1>3 DEF IkEnd, IkKill, typing, At, Goto, Placed, Threads
  <2> QED BY <2>1, OrderKept
<1> QED BY <1>1, <1>2, <1>3 DEF Ik

LEMMA PrintingOrder ==
  ASSUME Placed, Turns, Order, Id
  PROVE  Order'
<1>0. "id" \in Threads /\ "ik" \in Threads \ {"id"}
  BY DEF Threads
<1>1. CASE IdLock \/ IdEvent \/ IdNotify \/ IdOver \/ IdLast \/ IdClose
  <2>1. /\ UNCHANGED <<file, next, int_pipe, printed, done_reading>>
        /\ pc'["ik"] = pc["ik"] \/ (pc["ik"] = "wait" /\ pc'["ik"] = "lock")
        /\ \/ pc["id"] \in {"over", "last", "close"}
           \/ pc'["id"] \in {"read", "notify", "ack"}
    BY <1>0, <1>1 DEF IdLock, IdEvent, IdNotify, IdOver, IdLast, IdClose, typing, At, Goto,
                      GotoWaking, Placed, Threads
  <2> QED BY <2>1, OrderKept
<1>2. CASE IdAck
  <2>1. /\ UNCHANGED <<file, next, int_pipe, printed>> /\ pc'["ik"] = pc["ik"]
        /\ done_reading' = 1 /\ pc'["id"] = "unlock"
    BY <1>0, <1>2 DEF IdAck, At, Goto, Placed, Threads
  <2> QED BY <2>1, OrderKept
<1>3. CASE IdUnlock
  <2>1. /\ UNCHANGED <<file, next, int_pipe, printed, done_reading>>
        /\ pc'["ik"] = pc["ik"] \/ (pc["ik"] = "wait" /\ pc'["ik"] = "lock")
        /\ pc'["id"] = IF done_reading = -1 THEN "over" ELSE "lock"
    BY <1>0, <1>3 DEF IdUnlock, At, GotoWaking, Placed, Threads
  <2> QED BY <2>1, OrderKept
<1>4. CASE IdRead
  <2>1. /\ pc["id"] = "read" /\ pc'["id"] \in {"unlock", "ack", "event"}
        /\ pc'["ik"] = pc["ik"] /\ UNCHANGED <<file, next, done_reading>>
    BY <1>0, <1>4 DEF IdRead, At, Goto, Placed, Threads
  <2>2. CASE int_pipe = <<>>
    <3>1. UNCHANGED <<int_pipe, printed>>
      BY <1>4, <2>2 DEF IdRead
    <3> QED BY <2>1, <3>1, OrderKept
  <2>3. CASE int_pipe # <<>>
    <3>1. PICK b \in BOOLEAN : int_pipe = <<[key |-> file[next], upper |-> b]>>
      BY <2>3 DEF Order
    <3> DEFINE c == [key |-> file[next], upper |-> b]
    <3>2. Head(int_pipe) = c /\ Tail(int_pipe) = <<>> /\ Len(int_pipe) = 1 /\ Len(<<>>) = 0
      BY <3>1
    <3>3. /\ int_pipe' = <<>>
          /\ printed' = IF file[next] \in Toggles \union Ignored THEN printed
                        ELSE Append(printed, c)
      BY <1>4, <2>3, <3>2 DEF IdRead
    <3>4. next \in Nat /\ next > 0 /\ next - 1 \in Nat /\ (next - 1) + 1 = next
      BY <2>3 DEF Order
    <3>5. Prints(printed, next - 1)
      BY <3>2 DEF Order
    <3>6. Prints(printed', next)
      <4> DEFINE n == next - 1
      <4>1. n \in Nat /\ n + 1 = next /\ Prints(printed, n)
        BY <3>4, <3>5
      <4> HIDE DEF n
      <4> QED BY <3>3, <4>1, PrintsNext
    <3>7. next' - Len(int_pipe') = next
      BY <2>1, <3>2, <3>3, <3>4
    <3>8. Prints(printed, next - Len(int_pipe))'
      BY <2>1, <3>6, <3>7 DEF Prints, Shown, Chars
    <3> QED BY <2>1, <3>3, <3>4, <3>8 DEF Order
  <2> QED BY <2>2, <2>3
<1> QED BY <1>1, <1>2, <1>3, <1>4 DEF Id

LEMMA OrderStep ==
  ASSUME Placed, Turns, Order, [Next]_vars
  PROVE  Order'
<1>1. CASE Ck \/ Cd \/ Spurious \/ UNCHANGED vars
  <2>1. /\ pc'["ik"] = pc["ik"] \/ (pc["ik"] = "wait" /\ pc'["ik"] = "lock")
        /\ pc'["id"] = pc["id"]
        /\ UNCHANGED <<file, next, int_pipe, printed, done_reading>>
    BY <1>1 DEF Ck, CkTest, CkRead, CkLed, Cd, CdTest, CdTake, CdKill, Spurious, vars,
                typing, At, Goto, Placed, Threads
  <2> QED BY <2>1, OrderKept
<1> QED BY <1>1, TypingOrder, PrintingOrder DEF Next, Ended

\* For any text and any sets of keys: what is printed is what was typed, key by key and
\* in order, and the driver leaves when it has printed all of it.
THEOREM KeysTheorem == Spec => []KeysInOrder
<1>1. ASSUME Init PROVE Placed /\ Turns /\ Order
  <2>1. Placed /\ pc["ik"] = "lock" /\ pc["id"] = "lock"
    BY <1>1 DEF Init, Placed, Places, Threads
  <2>2. Turns
    BY <1>1, <2>1 DEF Init, Turns, InHand, At
  <2>3. next = 0 /\ int_pipe = <<>> /\ printed = <<>> /\ done_reading = 1
    BY <1>1 DEF Init
  <2>4. <<>> \in Seq(Chars) /\ Len(<<>>) = 0
    BY EmptySeq
  <2>5. Shown(0) = {} /\ Cardinality({}) = 0
    BY FS_EmptySet DEF Shown
  <2>6. Prints(printed, next - Len(int_pipe))
    <3>1. Prints(<<>>, 0)
      BY <2>4, <2>5 DEF Prints
    <3>2. next - Len(int_pipe) = 0
      <4>1. Len(int_pipe) = 0
        BY <2>3, <2>4, Zenon
      <4>2. next = 0
        BY <2>3
      <4> QED BY <4>1, <4>2
    <3> QED BY <2>3, <3>1, <3>2
  <2>7. Order
    BY <2>1, <2>3, <2>6 DEF Order
  <2> QED BY <2>1, <2>2, <2>7
<1>2. Placed /\ Turns /\ Order /\ [Next]_vars => Placed' /\ Turns' /\ Order'
  BY PlacedStep, TurnsStep, OrderStep
<1>3. ASSUME Order PROVE KeysInOrder
  <2>1. int_pipe # <<>> => Len(int_pipe) = 1 /\ int_pipe[1].key = file[next]
    <3> SUFFICES ASSUME int_pipe # <<>>
                 PROVE  Len(int_pipe) = 1 /\ int_pipe[1].key = file[next]
      OBVIOUS
    <3>1. PICK b \in BOOLEAN : int_pipe = <<[key |-> file[next], upper |-> b]>>
      BY <1>3 DEF Order
    <3> QED BY <3>1
  <2>2. int_pipe = <<>> => Len(int_pipe) = 0
    OBVIOUS
  <2>3. Len(int_pipe) <= 1
    BY <2>1, <2>2
  <2>4. /\ Len(printed) = Cardinality(Shown(next - Len(int_pipe)))
        /\ \A i \in Shown(next - Len(int_pipe)) : printed[Cardinality(Shown(i))].key = file[i]
    BY <1>3 DEF Order, Prints
  <2>5. pc["id"] \in {"over", "last", "close", "done"} => next = Len(file) /\ int_pipe = <<>>
    BY <1>3 DEF Order
  <2> QED BY <2>1, <2>3, <2>4, <2>5, Zenon DEF KeysInOrder
<1> QED BY <1>1, <1>2, <1>3, PTL DEF Spec
-----------------------------------------------------------------------------
\* The history of CAPS LOCK

\* The flips that may still come: of the messages wanted, under way or being handled,
\* and of the one the driver's thread asks for when it leaves.
Owed ==
  send_control + ctrl_pipe + (IF At("ck", "led") THEN 1 ELSE 0)
    + (IF At("id", "notify") THEN 1 ELSE 0)
    + (IF pc["id"] \in {"close", "done"} THEN 0 ELSE 1)

\* What the two control threads are told at the end comes after the last key.
Killed == kill_thread = 1 => pc["ik"] = "done" \/ pc["id"] \in {"last", "close", "done"}

\* With the LED on, what is owed makes at most one entry too many; none is lost but the
\* one of the last press.
History ==
  ~overtaken =>
    /\ led_buff = 0 => Len(caps_history) = presses
    /\ led_buff = 1 => /\ presses - 1 <= Len(caps_history)
                       /\ Len(caps_history) + Owed <= presses + 1

LEMMA KilledStep ==
  ASSUME Placed, Bits, Killed, [Next]_vars
  PROVE  Killed'
<1>1. CASE Ik
  <2>1. /\ pc["ik"] # "done" /\ pc'["id"] = pc["id"]
        /\ kill_thread' = kill_thread \/ pc'["ik"] = "done"
    BY <1>1 DEF Ik, IkLock, IkRead, IkEnd, IkKill, kill, At, Goto, Placed, Threads
  <2> QED BY <2>1 DEF Killed
<1>2. CASE Id
  <2>1. /\ pc["ik"] = "done" => pc'["ik"] = "done"
        /\ pc["id"] \in {"last", "close", "done"} => pc'["id"] \in {"last", "close", "done"}
        /\ kill_thread' = kill_thread \/ pc'["id"] = "last"
    BY <1>2 DEF Id, IdLock, IdRead, IdEvent, IdNotify, IdAck, IdUnlock, IdOver, IdLast,
                IdClose, kill, At, Goto, GotoWaking, Placed, Threads
  <2> QED BY <2>1 DEF Killed
<1>3. CASE Ck \/ Cd \/ Spurious \/ UNCHANGED vars
  <2>1. /\ pc["ik"] = "done" => pc'["ik"] = "done"
        /\ pc'["id"] = pc["id"] /\ kill_thread' = kill_thread
    BY <1>3 DEF Ck, CkTest, CkRead, CkLed, Cd, CdTest, CdTake, CdKill, Spurious, vars, kill,
                At, Goto, Placed, Threads
  <2> QED BY <2>1 DEF Killed
<1> QED BY <1>1, <1>2, <1>3 DEF Next, Ended

\* A step that leaves led_buff and the history alone and owes no more than before.
LEMMA HistoryHeld ==
  ASSUME Bits, History, UNCHANGED <<led, caps>>, Owed \in Int, Owed' \in Int, Owed' <= Owed
  PROVE  History'
<1>1. UNCHANGED <<led_buff, presses, overtaken, caps_history>>
  BY DEF led, caps
<1>2. Len(caps_history) \in Nat
  BY LenProperties DEF Bits
<1> QED BY <1>1, <1>2 DEF History, Bits

LEMMA HistoryStep ==
  ASSUME Bits, Bits', Toggling, Turns, Killed, History, [Next]_vars
  PROVE  History'
<1>0. /\ Placed /\ Placed' /\ Owed \in Int /\ Owed' \in Int
      /\ "ck" \in Threads /\ "id" \in Threads
  BY DEF Bits, Owed, Threads
<1>1. CASE Ik \/ CkTest \/ CdTest \/ CdKill \/ Spurious
  <2>1. UNCHANGED <<led, caps, send_control, ctrl_pipe>>
    BY <1>1 DEF Ik, IkLock, IkRead, IkEnd, IkKill, CkTest, CdTest, CdKill, Spurious, control
  <2>2. pc'["id"] = pc["id"] /\ (pc'["ck"] = "led" <=> pc["ck"] = "led")
    BY <1>0, <1>1 DEF Ik, IkLock, IkRead, IkEnd, IkKill, CkTest, CdTest, CdKill, Spurious,
                      At, Goto, Placed, Threads
  <2>3. Owed' = Owed
    BY <2>1, <2>2 DEF Owed, At
  <2> QED BY <1>0, <2>1, <2>3, HistoryHeld
<1>2. CASE IdLock \/ IdRead \/ IdAck \/ IdUnlock \/ IdOver \/ IdClose
  <2>1. UNCHANGED <<led, caps, send_control, ctrl_pipe>>
    BY <1>2 DEF IdLock, IdRead, IdAck, IdUnlock, IdOver, IdClose, control
  <2>2. /\ pc'["ck"] = pc["ck"] /\ pc["id"] # "notify" /\ pc'["id"] # "notify"
        /\ pc'["id"] \in {"close", "done"} <=> pc["id"] \in {"close", "done"}
    BY <1>0, <1>2 DEF IdLock, IdRead, IdAck, IdUnlock, IdOver, IdClose, At, Goto, GotoWaking,
                      Placed, Threads
  <2>3. Owed' = Owed
    BY <2>1, <2>2 DEF Owed, At
  <2> QED BY <1>0, <2>1, <2>3, HistoryHeld
<1>3. CASE IdNotify \/ IdLast
  <2>1. UNCHANGED <<led, caps, ctrl_pipe>> /\ send_control' = 1
    BY <1>3 DEF IdNotify, IdLast
  <2>2. /\ pc'["ck"] = pc["ck"]
        /\ \/ pc["id"] = "notify" /\ pc'["id"] = "ack"
           \/ pc["id"] = "last" /\ pc'["id"] = "close"
    BY <1>0, <1>3 DEF IdNotify, IdLast, At, GotoWaking, Placed, Threads
  <2>3. Owed' <= Owed
    BY <2>1, <2>2 DEF Owed, At, Bits
  <2> QED BY <1>0, <2>1, <2>3, HistoryHeld
<1>4. CASE CdTake
  <2>1. /\ UNCHANGED <<led, caps>>
        /\ \/ UNCHANGED <<send_control, ctrl_pipe>>
           \/ /\ send_control = 1 /\ send_control' = 0
              /\ ctrl_pipe' \in {ctrl_pipe, ctrl_pipe + 1}
    BY <1>4 DEF CdTake
  <2>2. pc'["ck"] = pc["ck"] /\ pc'["id"] = pc["id"]
    BY <1>0, <1>4 DEF CdTake, Goto, Placed, Threads
  <2>3. Owed' <= Owed
    <3>1. CASE UNCHANGED <<send_control, ctrl_pipe>>
      <4>1. Owed' = Owed
        BY <2>2, <3>1 DEF Owed, At
      <4> QED BY <1>0, <4>1
    <3>2. CASE send_control = 1 /\ send_control' = 0 /\ ctrl_pipe' = ctrl_pipe
      <4>1. Owed' = Owed - 1
        BY <2>2, <3>2 DEF Owed, At, Bits
      <4> QED BY <1>0, <4>1
    <3>3. CASE send_control = 1 /\ send_control' = 0 /\ ctrl_pipe' = ctrl_pipe + 1
      <4>1. Owed' = Owed
        BY <2>2, <3>3 DEF Owed, At, Bits
      <4> QED BY <1>0, <4>1
    <3> QED BY <2>1, <3>1, <3>2, <3>3
  <2> QED BY <1>0, <2>1, <2>3, HistoryHeld
<1>5. CASE CkRead
  <2>1. /\ UNCHANGED <<led, caps, send_control>> /\ pc["ck"] = "read"
        /\ pc'["id"] = pc["id"]
        /\ \/ ctrl_pipe' = ctrl_pipe /\ pc'["ck"] = "test"
           \/ ctrl_pipe' = ctrl_pipe - 1 /\ pc'["ck"] = "led"
    BY <1>0, <1>5 DEF CkRead, At, Goto, Placed, Threads
  <2>2. Owed' <= Owed
    <3>1. CASE ctrl_pipe' = ctrl_pipe /\ pc'["ck"] = "test"
      <4>1. Owed' = Owed
        BY <2>1, <3>1 DEF Owed, At, Bits
      <4> QED BY <1>0, <4>1
    <3>2. CASE ctrl_pipe' = ctrl_pipe - 1 /\ pc'["ck"] = "led"
      <4>1. Owed' = Owed
        BY <2>1, <3>2 DEF Owed, At, Bits
      <4> QED BY <1>0, <4>1
    <3> QED BY <2>1, <3>1, <3>2
  <2> QED BY <1>0, <2>1, <2>2, HistoryHeld
<1>6. CASE CkLed
  <2>1. /\ UNCHANGED <<led_buff, presses, overtaken, send_control, ctrl_pipe>>
        /\ pc["ck"] = "led" /\ pc'["ck"] = "test" /\ pc'["id"] = pc["id"]
    BY <1>0, <1>6 DEF CkLed, led, control, At, Goto, Placed, Threads
  <2>2. Len(caps_history') = IF led_buff = 1 THEN Len(caps_history) + 1
                                             ELSE Len(caps_history)
    BY <1>6, AppendProperties DEF CkLed, caps, Flips, Bits
  <2>3. Owed' = Owed - 1
    BY <2>1 DEF Owed, At, Bits
  <2>4. Len(caps_history) \in Nat
    BY LenProperties DEF Bits
  <2> QED BY <1>0, <2>1, <2>2, <2>3, <2>4 DEF History, Bits
<1>7. CASE IdEvent
  <2>1. /\ UNCHANGED <<caps_history, send_control, ctrl_pipe>>
        /\ led_buff' = 1 - led_buff
        /\ presses' = IF led_buff = 0 THEN presses + 1 ELSE presses
        /\ pc["id"] = "event" /\ pc'["id"] = "notify" /\ pc'["ck"] = pc["ck"]
    BY <1>0, <1>7 DEF IdEvent, control, caps, At, Goto, Placed, Threads
  <2>2. kill_thread = 0
    BY <2>1 DEF Killed, Turns, InHand, Bits
  <2>3. ~overtaken' => ~overtaken /\ ~Unacknowledged
    <3>1. overtaken' = (overtaken \/ Unacknowledged)
      BY <1>7 DEF IdEvent
    <3> QED BY <3>1, Zenon
  <2>4. ~overtaken' => Len(caps_history) = presses
    BY <2>1, <2>2, <2>3 DEF Toggling, Pending, At
  <2>5. ~overtaken' => Owed' = 2
    BY <2>1, <2>3 DEF Unacknowledged, Owed, At, Bits
  <2> QED BY <2>1, <2>4, <2>5 DEF History, Bits
<1>8. CASE UNCHANGED vars
  <2>1. UNCHANGED <<led, caps, send_control, ctrl_pipe, pc>>
    BY <1>8 DEF vars, control
  <2>2. Owed' = Owed
    BY <2>1 DEF Owed, At
  <2> QED BY <1>0, <2>1, <2>2, HistoryHeld
<1> QED BY <1>1, <1>2, <1>3, <1>4, <1>5, <1>6, <1>7, <1>8 DEF Next, Ck, Id, Cd, Ended

\* For any text, however the two processes and their control threads interleave and
\* stop: if no toggle was overtaken, CAPS_LOCK follows the presses, and the history
\* printed has an entry for each, but for the last one with the LED on.
THEOREM CapsTheorem == Spec => []CapsFollowsPresses
<1> DEFINE Inv == Bits /\ Toggling /\ Turns /\ Killed /\ History
<1>1. ASSUME Init PROVE Inv
  <2>1. Bits /\ Toggling
    BY <1>1, InitToggles
  <2>2. pc["ik"] = "lock" /\ pc["id"] = "lock"
    BY <1>1 DEF Init, Threads
  <2>3. /\ led_buff = 0 /\ presses = 0 /\ kill_thread = 0 /\ caps_history = <<>>
        /\ Len(<<>>) = 0
    BY <1>1 DEF Init
  <2> QED BY <1>1, <2>1, <2>2, <2>3 DEF Init, Turns, InHand, At, Killed, History
<1>2. Inv /\ [Next]_vars => Inv'
  <2> SUFFICES ASSUME Inv, [Next]_vars PROVE Inv'
    OBVIOUS
  <2>1. Bits' /\ Toggling' /\ Placed
    BY BitsStep, TogglingStep DEF Bits
  <2>2. Turns' /\ Killed'
    BY <2>1, TurnsStep, KilledStep
  <2> QED BY <2>1, <2>2, HistoryStep
<1>3. ASSUME Inv PROVE CapsFollowsPresses
  <2>1. Len(caps_history) \in Nat /\ Owed \in Nat
    BY <1>3, LenProperties DEF Bits, Owed
  <2>2. ~overtaken => FollowsAcknowledged
    BY <1>3 DEF Bits, Toggling, FollowsAcknowledged, Pending
  <2>3. ~overtaken => HistoryNearPresses
    BY <1>3, <2>1 DEF History, HistoryNearPresses, Bits
  <2> QED BY <2>2, <2>3 DEF CapsFollowsPresses
<1> QED BY <1>1, <1>2, <1>3, PTL DEF Spec
=============================================================================
