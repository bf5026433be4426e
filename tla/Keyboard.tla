----------------------------- MODULE Keyboard ------------------------------
(***************************************************************************)
(* Assignment7/submission/keyboard_sim.c: a keyboard process types a file  *)
(* into a pipe, a driver process prints it.  A toggle key flips the driver *)
(* process's led_buff; its control thread then sends a message back, and   *)
(* the keyboard's control thread flips CAPS_LOCK if led_buff is on by the  *)
(* time it handles the message, and keeps a history of the flips, which    *)
(* the keyboard process prints when both its threads have ended.           *)
(*                                                                         *)
(* Threads: ik and ck, interrupt_keyboard_thread and control_keyboard_     *)
(* thread; id and cd, interrupt_driver_thread and control_driver_thread.   *)
(* usb_kbd_irq and usb_kbd_event are joined by their creator, so that they *)
(* are steps of id.  m_lock_int is held over several steps; nothing blocks *)
(* under m_lock_led and control_mutex, whose sections are one step each.   *)
(* Both pipes are read without blocking.                                   *)
(***************************************************************************)
EXTENDS Integers, SequencesExt

CONSTANTS
  Files,     \* the texts that may be typed, as sequences of keys
  Letters,   \* the keys that CAPS LOCK changes
  Toggles,   \* '@' and '&'
  Ignored    \* '#'

ASSUME KeysAssumption ==
  Letters \intersect (Toggles \union Ignored) = {} /\ Toggles \intersect Ignored = {}

VARIABLES
  file,          \* the text
  next,          \* how many of its keys the keyboard has read
  done_reading,  \* shared: 1 when the last key was handled, -1 at the end
  m_lock_int,    \* shared: the thread that holds the mutex, or "none"
  int_pipe,      \* the keys on their way to the driver, with their case
  led_buff,      \* shared: the LED
  kill_thread,   \* shared
  kill_control,  \* shared
  send_control,  \* of the driver process: a message is wanted
  ctrl_pipe,     \* how many messages are on their way to the keyboard
  ctrl_open,     \* the driver process has its end of that pipe
  CAPS_LOCK,     \* of the keyboard process
  caps_history,  \* of the keyboard process: the first caps_delim entries
  printed,       \* what the driver printed
  pc,            \* where each thread is
  presses,       \* history: how often led_buff went on
  overtaken      \* history: a toggle came before the last one was acknowledged

typing == <<file, next, done_reading, m_lock_int, int_pipe, printed>>
led == <<led_buff, presses, overtaken>>
control == <<send_control, ctrl_pipe, ctrl_open>>
kill == <<kill_thread, kill_control>>
caps == <<CAPS_LOCK, caps_history>>
vars == <<typing, led, control, kill, caps, pc>>

Threads == {"ik", "ck", "id", "cd"}
At(t, l) == pc[t] = l
Goto(t, l) == pc' = [pc EXCEPT ![t] = l]

\* pthread_cond_signal with t at l: a waiting u goes back to its mutex.
GotoWaking(t, l, u) ==
  pc' = [pc EXCEPT ![t] = l, ![u] = IF @ # "wait" THEN @
                                    ELSE IF u = "ik" THEN "lock" ELSE "take"]

-----------------------------------------------------------------------------
\* interrupt_keyboard_thread

\* The key that is typed may not overtake the one before.
\* mutant: the thread does not wait for the driver.
MustWait_Never == FALSE
MustWait == done_reading = 0

IkLock ==
  /\ At("ik", "lock") /\ m_lock_int = "none"
  /\ \/ MustWait /\ Goto("ik", "wait") /\ UNCHANGED <<m_lock_int, done_reading>>
     \/ /\ ~MustWait
        /\ m_lock_int' = "ik" /\ done_reading' = 0
        /\ Goto("ik", "read")
  /\ UNCHANGED <<file, next, int_pipe, printed, led, control, kill, caps>>

\* Under m_lock_led: read a key, change its case, write it.  Both mutexes go.
IkRead ==
  /\ At("ik", "read")
  /\ m_lock_int' = "none"
  /\ \/ /\ next < Len(file)
        /\ next' = next + 1
        /\ int_pipe' = Append(int_pipe, [key |-> file[next + 1],
                                         upper |-> file[next + 1] \in Letters /\ CAPS_LOCK = 1])
        /\ Goto("ik", "lock")
     \/ next = Len(file) /\ Goto("ik", "end") /\ UNCHANGED <<next, int_pipe>>
  /\ UNCHANGED <<file, done_reading, printed, led, control, kill, caps>>

IkEnd ==
  /\ At("ik", "end") /\ m_lock_int = "none"
  /\ done_reading' = -1
  /\ Goto("ik", "kill")
  /\ UNCHANGED <<file, next, m_lock_int, int_pipe, printed, led, control, kill, caps>>

IkKill ==
  /\ At("ik", "kill")
  /\ kill_thread' = 1
  /\ Goto("ik", "done")
  /\ UNCHANGED <<typing, led, control, kill_control, caps>>

Ik == IkLock \/ IkRead \/ IkEnd \/ IkKill

-----------------------------------------------------------------------------
\* control_keyboard_thread

CkTest ==
  /\ At("ck", "test")
  /\ Goto("ck", IF kill_control = 0 THEN "read" ELSE "done")
  /\ UNCHANGED <<typing, led, control, kill, caps>>

CkRead ==
  /\ At("ck", "read")
  /\ \/ ctrl_pipe = 0 /\ Goto("ck", "test") /\ UNCHANGED ctrl_pipe
     \/ ctrl_pipe > 0 /\ Goto("ck", "led") /\ ctrl_pipe' = ctrl_pipe - 1
  /\ UNCHANGED <<typing, led, send_control, ctrl_open, kill, caps>>

\* mutant: every message flips CAPS_LOCK.
Flips_Always == TRUE
Flips == led_buff = 1

CkLed ==
  /\ At("ck", "led")
  /\ \/ /\ Flips
        /\ CAPS_LOCK' = 1 - CAPS_LOCK
        /\ caps_history' = Append(caps_history, 1 - CAPS_LOCK)
     \/ ~Flips /\ UNCHANGED caps
  /\ Goto("ck", "test")
  /\ UNCHANGED <<typing, led, control, kill>>

Ck == CkTest \/ CkRead \/ CkLed

-----------------------------------------------------------------------------
\* interrupt_driver_thread, usb_kbd_irq and usb_kbd_event

IdLock ==
  /\ At("id", "lock") /\ m_lock_int = "none"
  /\ m_lock_int' = "id"
  /\ Goto("id", "read")
  /\ UNCHANGED <<file, next, done_reading, int_pipe, printed, led, control, kill, caps>>

IdRead ==
  /\ At("id", "read")
  /\ \/ int_pipe = <<>> /\ Goto("id", "unlock") /\ UNCHANGED <<int_pipe, printed>>
     \/ /\ int_pipe # <<>>
        /\ int_pipe' = Tail(int_pipe)
        /\ LET c == Head(int_pipe) IN
           \/ c.key \in Ignored /\ Goto("id", "ack") /\ UNCHANGED printed
           \/ c.key \in Toggles /\ Goto("id", "event") /\ UNCHANGED printed
           \/ /\ c.key \notin Ignored \union Toggles
              /\ printed' = Append(printed, c)
              /\ Goto("id", "ack")
  /\ UNCHANGED <<file, next, done_reading, m_lock_int, led, control, kill, caps>>

\* A message is wanted, on its way or being handled.
Unacknowledged == send_control = 1 \/ ctrl_pipe > 0 \/ At("ck", "led")

IdEvent ==
  /\ At("id", "event")
  /\ led_buff' = 1 - led_buff
  /\ presses' = IF led_buff = 0 THEN presses + 1 ELSE presses
  /\ overtaken' = (overtaken \/ Unacknowledged)
  /\ Goto("id", "notify")
  /\ UNCHANGED <<typing, control, kill, caps>>

IdNotify ==
  /\ At("id", "notify")
  /\ send_control' = 1
  /\ GotoWaking("id", "ack", "cd")
  /\ UNCHANGED <<typing, led, ctrl_pipe, ctrl_open, kill, caps>>

IdAck ==
  /\ At("id", "ack")
  /\ done_reading' = 1
  /\ Goto("id", "unlock")
  /\ UNCHANGED <<file, next, m_lock_int, int_pipe, printed, led, control, kill, caps>>

\* val = *done_reading, signal and unlock; the loop ends at -1.
IdUnlock ==
  /\ At("id", "unlock")
  /\ m_lock_int' = "none"
  /\ GotoWaking("id", IF done_reading = -1 THEN "over" ELSE "lock", "ik")
  /\ UNCHANGED <<file, next, done_reading, int_pipe, printed, led, control, kill, caps>>

IdOver ==
  /\ At("id", "over")
  /\ kill_thread' = 1
  /\ GotoWaking("id", "last", "ik")
  /\ UNCHANGED <<typing, led, control, kill_control, caps>>

\* mutant: the control thread is not woken at the end.
IdLast_Forgotten ==
  /\ At("id", "last")
  /\ Goto("id", "close")
  /\ UNCHANGED <<typing, led, control, kill, caps>>

\* The control thread is made to send once more, so that it sees kill_thread.
IdLast ==
  /\ At("id", "last")
  /\ send_control' = 1
  /\ GotoWaking("id", "close", "cd")
  /\ UNCHANGED <<typing, led, ctrl_pipe, ctrl_open, kill, caps>>

IdClose ==
  /\ At("id", "close")
  /\ ctrl_open' = FALSE
  /\ Goto("id", "done")
  /\ UNCHANGED <<typing, led, send_control, ctrl_pipe, kill, caps>>

Id == IdLock \/ IdRead \/ IdEvent \/ IdNotify \/ IdAck \/ IdUnlock
        \/ IdOver \/ IdLast \/ IdClose

-----------------------------------------------------------------------------
\* control_driver_thread

CdTest ==
  /\ At("cd", "test")
  /\ Goto("cd", IF kill_thread = 0 THEN "take" ELSE "kill")
  /\ UNCHANGED <<typing, led, control, kill, caps>>

CdTake ==
  /\ At("cd", "take")
  /\ \/ send_control = 0 /\ Goto("cd", "wait") /\ UNCHANGED <<send_control, ctrl_pipe>>
     \/ /\ send_control = 1
        /\ send_control' = 0
        /\ ctrl_pipe' = IF ctrl_open THEN ctrl_pipe + 1 ELSE ctrl_pipe
        /\ Goto("cd", "test")
  /\ UNCHANGED <<typing, led, ctrl_open, kill, caps>>

CdKill ==
  /\ At("cd", "kill")
  /\ kill_control' = 1
  /\ Goto("cd", "done")
  /\ UNCHANGED <<typing, led, control, kill_thread, caps>>

Cd == CdTest \/ CdTake \/ CdKill

\* pthread_cond_wait may return without a signal.
Spurious ==
  /\ \/ At("ik", "wait") /\ Goto("ik", "lock")
     \/ At("cd", "wait") /\ Goto("cd", "take")
  /\ UNCHANGED <<typing, led, control, kill, caps>>

\* The keyboard process prints caps_history as it stands once ik and ck are done;
\* the driver process and main never add to theirs and print nothing.
Ended == (\A t \in Threads : At(t, "done")) /\ UNCHANGED vars

-----------------------------------------------------------------------------
Init ==
  /\ file \in Files /\ next = 0
  /\ done_reading = 1 /\ m_lock_int = "none"
  /\ int_pipe = <<>> /\ printed = <<>>
  /\ led_buff = 0 /\ presses = 0 /\ overtaken = FALSE
  /\ kill_thread = 0 /\ kill_control = 0
  /\ send_control = 0 /\ ctrl_pipe = 0 /\ ctrl_open = TRUE
  /\ CAPS_LOCK = 0 /\ caps_history = <<>>
  /\ pc = [t \in Threads |-> IF t \in {"ik", "id"} THEN "lock" ELSE "test"]

Next == Ik \/ Ck \/ Id \/ Cd \/ Spurious \/ Ended

Spec == Init /\ [][Next]_vars

\* Every thread is scheduled, and a thread that wants m_lock_int gets it although
\* the other one takes it again and again.
LiveSpec ==
  /\ Spec
  /\ WF_vars(Ik) /\ WF_vars(Ck) /\ WF_vars(Id) /\ WF_vars(Cd)
  /\ SF_vars(IkLock \/ IkEnd) /\ SF_vars(IdLock)

-----------------------------------------------------------------------------
\* Properties.

Places == {"lock", "wait", "read", "end", "kill", "test", "led", "event", "notify",
           "ack", "unlock", "over", "last", "close", "take", "done"}

\* Every variable has its type.
TypeOK ==
  /\ file \in Files /\ next \in 0 .. Len(file)
  /\ done_reading \in {-1, 0, 1} /\ m_lock_int \in {"none", "ik", "id"}
  /\ led_buff \in {0, 1} /\ kill_thread \in {0, 1} /\ kill_control \in {0, 1}
  /\ send_control \in {0, 1} /\ ctrl_pipe \in Nat /\ ctrl_open \in BOOLEAN
  /\ CAPS_LOCK \in {0, 1} /\ caps_history \in Seq({0, 1}) /\ presses \in Nat
  /\ overtaken \in BOOLEAN
  /\ pc \in [Threads -> Places]

\* The places of the first n keys that are to be printed.
Shown(n) == {i \in 1 .. n : file[i] \notin Toggles \union Ignored}

\* The two processes take turns key by key: at most one key is under way, what is
\* printed is what was typed before it without the control keys, in its order, and
\* nothing is missing when the driver leaves.
KeysInOrder ==
  LET shown == Shown(next - Len(int_pipe)) IN
  /\ Len(int_pipe) <= 1
  /\ int_pipe # <<>> => int_pipe[1].key = file[next]
  /\ Len(printed) = Cardinality(shown)
  /\ \A i \in shown : printed[Cardinality(Shown(i))].key = file[i]
  /\ pc["id"] \in {"over", "last", "close", "done"} => next = Len(file) /\ int_pipe = <<>>

\* Whenever every toggle has been acknowledged, until the end of the file.
FollowsAcknowledged ==
  ~Unacknowledged /\ ~At("id", "notify") /\ kill_thread = 0
    => Len(caps_history) = presses /\ CAPS_LOCK = presses % 2

\* At the end of the text the message of a last press that leaves the LED on may be
\* lost, as the control threads stop and the pipe is closed, or the message that only
\* wakes the driver's thread may count that press twice.
HistoryNearPresses ==
  IF led_buff = 0 THEN Len(caps_history) = presses
                  ELSE Len(caps_history) \in presses - 1 .. presses + 1

\* Unless toggles overtook one another, CAPS_LOCK has flipped once for every press when
\* all are acknowledged, and the history the keyboard process prints at its end has an
\* entry for every press, but perhaps for the last one with the LED left on.
CapsFollowsPresses == ~overtaken => FollowsAcknowledged /\ HistoryNearPresses

\* Every text is typed to its end and all four threads exit.
AllThreadsEnd == <>(\A t \in Threads : At(t, "done"))
=============================================================================
