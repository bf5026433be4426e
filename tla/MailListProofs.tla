--------------------------- MODULE MailListProofs ---------------------------
(***************************************************************************)
(* Proofs about MailList, for any limit of the list, any e-mails and any   *)
(* length of the input, with either DeleteEvent.  What processCalendar     *)
(* does to the calendar plays a part in its type only.                     *)
(***************************************************************************)
EXTENDS MailList, CalendarProofs

\* The list is within its limit, and below it wherever the reader is not about to
\* compare: it has just left the loop that waits for room.
Roomy ==
  /\ ValidEmails \in Seq(Emails)
  /\ line \in Emails \union {NoEmail}
  /\ Len(ValidEmails) <= BufferLength
  /\ reader # "spin" => Len(ValidEmails) < BufferLength

\* Taking an e-mail off the list leaves a shorter list.
LEMMA TailShorter ==
  ASSUME NEW S, NEW s \in Seq(S), s # <<>>
  PROVE  Tail(s) \in Seq(S) /\ Len(Tail(s)) < Len(s)
OBVIOUS

\* The list starts empty, below any limit the program accepts.
LEMMA InitRoomy == Init => Roomy
BY BufferLengthAssumption DEF Init, Roomy

\* No step makes the list outgrow its limit: the reader compares once per e-mail.
LEMMA RoomyStep == Roomy /\ [Next]_vars => Roomy'
<1> SUFFICES ASSUME Roomy, [Next]_vars PROVE Roomy'
  OBVIOUS
<1> USE BufferLengthAssumption DEF Roomy
<1>1. CASE GetLine
  BY <1>1 DEF GetLine
<1>2. CASE Push
  <2>1. CASE line = NoEmail /\ UNCHANGED <<ValidEmails, received>>
    BY <1>2, <2>1 DEF Push
  <2>2. CASE line # NoEmail /\ ValidEmails' = Append(ValidEmails, line)
    <3>1. Len(ValidEmails) < BufferLength
      BY <1>2 DEF Push
    <3>2. ValidEmails' \in Seq(Emails) /\ Len(ValidEmails') = Len(ValidEmails) + 1
      BY <2>2
    <3>3. line' = NoEmail /\ reader' = "spin"
      BY <1>2 DEF Push
    <3> QED BY <3>1, <3>2, <3>3
  <2> QED BY <1>2, <2>1, <2>2 DEF Push
<1>3. CASE Spin
  BY <1>3 DEF Spin, Full
<1>4. CASE EndOfInput
  BY <1>4 DEF EndOfInput
<1>5. CASE FinalSignal
  BY <1>5 DEF FinalSignal
<1>6. CASE Process
  <2>1. UNCHANGED <<reader, line>>
    BY <1>6 DEF Process, reading
  <2>2. CASE UNCHANGED ValidEmails
    BY <2>1, <2>2
  <2>3. CASE ValidEmails # <<>> /\ ValidEmails' = Tail(ValidEmails)
    <3>1. ValidEmails' \in Seq(Emails) /\ Len(ValidEmails') < Len(ValidEmails)
      BY <2>3, TailShorter
    <3>2. Len(ValidEmails') \in Nat /\ Len(ValidEmails) \in Nat
      BY <3>1
    <3> QED BY <2>1, <3>1, <3>2
  <2> QED BY <1>6, <2>2, <2>3 DEF Process
<1>7. CASE OuterTest \/ Lock \/ InnerTest \/ Wait \/ Unlock \/ Spurious
  BY <1>7 DEF OuterTest, Lock, InnerTest, Wait, Unlock, Spurious, reading
<1>8. CASE UNCHANGED vars
  BY <1>8 DEF vars, reading
<1> QED BY <1>1, <1>2, <1>3, <1>4, <1>5, <1>6, <1>7, <1>8
        DEF Next, ParseValidEmailsThread, processCalendarThread

\* The list is always within its limit.
LEMMA RoomyAlways == Spec => []Roomy
BY InitRoomy, RoomyStep, PTL DEF Spec

\* The types of the other variables; the calendar's entries whole, not only their
\* events.
Types ==
  /\ Done \in BOOLEAN
  /\ CalendarFilter \in Seq(Entries(Emails))
  /\ reader \in {"getline", "lock", "spin", "signal", "exited"}
  /\ updater \in {"outer", "lock", "test", "wait", "asleep", "drain", "exited",
                  "undefined"}
  /\ lines \in 0 .. MaxLines
  /\ received \in Seq(Emails) /\ processed \in Seq(Emails)

\* The calendar thread takes an e-mail off the list and updates the calendar.
LEMMA ProcessTypes ==
  ASSUME Roomy, Types, Process
  PROVE  Types'
<1> DEFINE email == Head(ValidEmails)
           effect == processCalendar(CalendarFilter, email, SafeDelete)
<1>1. email \in Emails
  BY HeadTailProperties DEF Process, Roomy
<1>2. processed' \in Seq(Emails)
  <2>1. processed' = Append(processed, email)
    BY Zenon DEF Process
  <2> QED BY <1>1, <2>1, AppendProperties DEF Types
<1>3. updater' \in {updater, "undefined"}
  BY Zenon DEF Process, Goto
<1>4. CalendarFilter' \in Seq(Entries(Emails))
  <2>1. \/ effect.defined /\ CalendarFilter' = effect.calendar
        \/ CalendarFilter' = CalendarFilter
    BY Zenon DEF Process
  <2>2. effect.defined => effect.calendar \in Seq(Entries(Emails))
    <3> HIDE DEF email
    <3> QED BY <1>1, ProcessTyped DEF Types
  <2> HIDE DEF effect
  <2> QED BY <2>1, <2>2 DEF Types
<1>5. UNCHANGED <<Done, reader, lines, received>>
  BY DEF Process, reading
<1> QED BY <1>2, <1>3, <1>4, <1>5 DEF Types

\* Every step keeps the types.
LEMMA TypesStep == Roomy /\ Types /\ [Next]_vars => Types'
<1> SUFFICES ASSUME Roomy, Types, [Next]_vars PROVE Types'
  OBVIOUS
<1>1. CASE GetLine
  BY <1>1, MaxLinesAssumption DEF GetLine, Types, updating
<1>2. CASE Push
  <2>1. received' \in Seq(Emails)
    <3>1. received \in Seq(Emails) /\ line \in Emails \union {NoEmail}
      BY DEF Roomy, Types
    <3>2. CASE line = NoEmail /\ UNCHANGED received
      BY <3>1, <3>2
    <3>3. CASE line # NoEmail /\ received' = Append(received, line)
      <4>1. line \in Emails
        BY <3>1, <3>3
      <4> QED BY <3>1, <3>3, <4>1, AppendProperties
    <3> QED BY <1>2, <3>2, <3>3 DEF Push
  <2> QED BY <1>2, <2>1 DEF Push, Types, updating
<1>3. CASE Spin
  BY <1>3 DEF Spin, FullSignal, Signal, Types, updating
<1>4. CASE EndOfInput \/ FinalSignal
  BY <1>4 DEF EndOfInput, FinalSignal, LastSignal, Signal, Types, updating
<1>5. CASE OuterTest \/ Lock \/ InnerTest \/ Wait \/ Unlock \/ Spurious
  BY <1>5 DEF OuterTest, Lock, InnerTest, Wait, Unlock, Spurious, Goto, Types,
              reading, updating
<1>6. CASE Process
  BY <1>6, ProcessTypes
<1>7. CASE UNCHANGED vars
  BY <1>7 DEF vars, reading, updating, Types
<1> QED BY <1>1, <1>2, <1>3, <1>4, <1>5, <1>6, <1>7
        DEF Next, ParseValidEmailsThread, processCalendarThread

\* Every variable has its type and the list is within its limit, whatever it is:
\* the calendar holds e-mails of the input only, each under the date of one of them.
THEOREM TypeTheorem == Spec => []TypeOK
<1>1. Init => Types
  <2> SUFFICES ASSUME Init PROVE Types
    OBVIOUS
  <2>1. <<>> \in Seq(Emails) /\ <<>> \in Seq(Entries(Emails))
    BY EmptySeq
  <2>2. lines \in 0 .. MaxLines
    BY MaxLinesAssumption DEF Init
  <2> QED BY <2>1, <2>2 DEF Init, Types
<1>2. Roomy /\ Types => TypeOK
  <2> SUFFICES ASSUME Roomy, Types PROVE TypeOK
    OBVIOUS
  <2>1. DOMAIN CalendarFilter = 1 .. Len(CalendarFilter)
    BY LenProperties DEF Types
  <2>2. \A i \in DOMAIN CalendarFilter :
          /\ CalendarFilter[i].event \in Emails
          /\ CalendarFilter[i].key \in {e.date : e \in Emails}
    <3>1. \A i \in 1 .. Len(CalendarFilter) : CalendarFilter[i] \in Entries(Emails)
      BY ElementOfSeq DEF Types
    <3> QED BY <2>1, <3>1 DEF Entries
  <2> QED BY <2>2 DEF Roomy, Types, TypeOK
<1> QED BY <1>1, <1>2, TypesStep, RoomyAlways, PTL DEF Spec

-----------------------------------------------------------------------------

\* Done is set by a reader that has left its loop, and only Done lets the calendar
\* thread leave.
Parting ==
  /\ Done => reader \in {"signal", "exited"}
  /\ updater = "exited" => Done

\* No step clears Done or lets the reader back into its loop once it is set.
LEMMA PartingStep == Parting /\ [Next]_vars => Parting'
<1> SUFFICES ASSUME Parting, [Next]_vars PROVE Parting'
  OBVIOUS
<1> USE DEF Parting
<1>1. CASE GetLine \/ Push
  BY <1>1 DEF GetLine, Push
<1>2. CASE Spin
  BY <1>2 DEF Spin, FullSignal, Signal
<1>3. CASE EndOfInput \/ FinalSignal
  BY <1>3 DEF EndOfInput, FinalSignal, LastSignal, Signal
<1>4. CASE OuterTest \/ Lock \/ InnerTest \/ Wait \/ Unlock \/ Spurious
  BY <1>4 DEF OuterTest, Lock, InnerTest, Wait, Unlock, Spurious, reading, Goto
<1>5. CASE Process
  BY <1>5 DEF Process, reading, Goto
<1>6. CASE UNCHANGED vars
  BY <1>6 DEF vars, reading
<1> QED BY <1>1, <1>2, <1>3, <1>4, <1>5, <1>6
        DEF Next, ParseValidEmailsThread, processCalendarThread

\* Whatever the limit, fewer e-mails than it are lost when the calendar thread
\* leaves: the reader sets Done only with room in the list.
THEOREM FewLostHolds == Spec => []FewLost
<1>1. Init => Parting
  BY DEF Init, Parting
<1>2. Roomy /\ Parting => FewLost
  BY DEF Roomy, Parting, FewLost
<1> QED BY <1>1, <1>2, PartingStep, RoomyAlways, PTL DEF Spec

-----------------------------------------------------------------------------

\* The calendar thread is about to wait, or sleeps when the reader is gone, only
\* with an empty list.
Rested ==
  /\ updater = "wait" => ValidEmails = <<>>
  /\ reader = "exited" /\ updater = "asleep" => ValidEmails = <<>>

\* Between the test and the wait the mutex keeps the reader from appending; once
\* asleep, the thread is woken by the final signal, which comes after every append.
LEMMA RestedStep == Rested /\ [Next]_vars => Rested'
<1> SUFFICES ASSUME Rested, [Next]_vars PROVE Rested'
  OBVIOUS
<1> USE DEF Rested
<1>1. CASE GetLine \/ EndOfInput
  BY <1>1 DEF GetLine, EndOfInput
<1>2. CASE Push
  BY <1>2 DEF Push, Locked
<1>3. CASE Spin
  BY <1>3 DEF Spin, FullSignal, Signal
<1>4. CASE FinalSignal
  BY <1>4 DEF FinalSignal, LastSignal, Signal
<1>5. CASE OuterTest \/ Lock \/ InnerTest \/ Wait \/ Unlock \/ Spurious
  BY <1>5 DEF OuterTest, Lock, InnerTest, Wait, Unlock, Spurious, reading, Goto
<1>6. CASE Process
  BY <1>6 DEF Process, reading, Goto
<1>7. CASE UNCHANGED vars
  BY <1>7 DEF vars, reading
<1> QED BY <1>1, <1>2, <1>3, <1>4, <1>5, <1>6, <1>7
        DEF Next, ParseValidEmailsThread, processCalendarThread

\* A final signal that comes between the calendar thread's test and its wait is
\* missed, and the thread sleeps for ever, but only over an empty list.
THEOREM SleepsOverNothingHolds == Spec => []SleepsOverNothing
<1>1. Init => Rested
  BY DEF Init, Rested
<1>2. Rested => SleepsOverNothing
  BY DEF Rested, SleepsOverNothing
<1> QED BY <1>1, <1>2, RestedStep, PTL DEF Spec
=============================================================================
