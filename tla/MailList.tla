------------------------------ MODULE MailList ------------------------------
(***************************************************************************)
(* Assignment2/locationUpdater.cpp: a reader thread appends the valid      *)
(* e-mails of the input to a list of limited length, a calendar thread     *)
(* takes them off and updates the calendar.  They share a mutex and a      *)
(* condition variable; the flag Done and the length of the list are also   *)
(* read, and the condition signalled, without the mutex.                   *)
(***************************************************************************)
EXTENDS Calendar

CONSTANTS
  Emails,        \* the valid e-mails the input may hold
  MaxLines,      \* a bound on the lines of the input
  BufferLength,  \* the argument of the program
  SafeDelete     \* FALSE in Assignment2; TRUE with Assignment4's DeleteEvent

ASSUME BufferLengthAssumption == BufferLength \in Nat \ {0}
ASSUME MaxLinesAssumption == MaxLines \in Nat
ASSUME SafeDeleteAssumption == SafeDelete \in BOOLEAN

VARIABLES
  ValidEmails,   \* the list of e-mails waiting for the calendar
  Done,          \* whether the reader has read all its input
  CalendarFilter,
  reader,        \* where the reader thread is
  updater,       \* where the calendar thread is
  line,          \* the line the reader has read, NoEmail if it is not valid
  lines,         \* how many lines it has read
  received,      \* history: the valid e-mails it has read
  processed,     \* history: the e-mails given to processCalendar
  output         \* the lines printed

\* The calendar thread has the mutex; the reader's critical section is one step.
Locked == updater \in {"test", "wait", "drain", "undefined"}

reading == <<reader, line, lines, received>>
updating == <<CalendarFilter, processed, output>>
vars == <<ValidEmails, Done, reading, updater, updating>>

-----------------------------------------------------------------------------
\* ParseValidEmailsThread

GetLine ==
  /\ reader = "getline" /\ lines < MaxLines
  /\ line' \in Emails \union {NoEmail}
  /\ lines' = lines + 1
  /\ reader' = "lock"
  /\ UNCHANGED <<ValidEmails, Done, received, updater, updating>>

Push ==
  /\ reader = "lock" /\ ~ Locked
  /\ \/ line = NoEmail /\ UNCHANGED <<ValidEmails, received>>
     \/ /\ line # NoEmail
        /\ ValidEmails' = Append(ValidEmails, line)
        /\ received' = Append(received, line)
  /\ line' = NoEmail
  /\ reader' = "spin"
  /\ UNCHANGED <<Done, lines, updater, updating>>

\* pthread_cond_signal wakes the calendar thread if it is asleep.
Signal == updater' = IF updater = "asleep" THEN "lock" ELSE updater

LastSignal_None == UNCHANGED updater            \* mutant: no signal at the end
LastSignal == Signal
FullSignal_None == UNCHANGED updater            \* mutant: no signal when full
FullSignal == Signal

Full_OneMore == Len(ValidEmails) > BufferLength \* mutant: off by one
Full == Len(ValidEmails) >= BufferLength

Spin ==
  /\ reader = "spin"
  /\ \/ Full /\ FullSignal /\ UNCHANGED reader
     \/ ~ Full /\ reader' = "getline" /\ UNCHANGED updater
  /\ UNCHANGED <<ValidEmails, Done, line, lines, received, updating>>

EndOfInput ==
  /\ reader = "getline"
  /\ Done' = TRUE
  /\ reader' = "signal"
  /\ UNCHANGED <<ValidEmails, line, lines, received, updater, updating>>

FinalSignal ==
  /\ reader = "signal"
  /\ LastSignal
  /\ reader' = "exited"
  /\ UNCHANGED <<ValidEmails, Done, line, lines, received, updating>>

-----------------------------------------------------------------------------
\* processCalendarThread

Goto(l) == updater' = l

\* while(!Done), without the mutex.
OuterTest ==
  /\ updater = "outer"
  /\ Goto(IF Done THEN "exited" ELSE "lock")
  /\ UNCHANGED <<ValidEmails, Done, reading, updating>>

\* The mutex is free: taken on the way in, or again after cond_wait.
Lock ==
  /\ updater = "lock"
  /\ Goto("test")
  /\ UNCHANGED <<ValidEmails, Done, reading, updating>>

InnerTest ==
  /\ updater = "test"
  /\ Goto(IF ValidEmails = <<>> /\ ~ Done THEN "wait" ELSE "drain")
  /\ UNCHANGED <<ValidEmails, Done, reading, updating>>

\* pthread_cond_wait unlocks and falls asleep in one step.
Wait ==
  /\ updater = "wait"
  /\ Goto("asleep")
  /\ UNCHANGED <<ValidEmails, Done, reading, updating>>

Spurious ==
  /\ updater = "asleep"
  /\ Goto("lock")
  /\ UNCHANGED <<ValidEmails, Done, reading, updating>>

Process ==
  /\ updater = "drain" /\ ValidEmails # <<>>
  /\ LET effect == processCalendar(CalendarFilter, Head(ValidEmails), SafeDelete) IN
     \/ /\ effect.defined
        /\ CalendarFilter' = effect.calendar
        /\ output' = output \o effect.lines
        /\ processed' = Append(processed, Head(ValidEmails))
        /\ ValidEmails' = Tail(ValidEmails)
        /\ UNCHANGED updater
     \/ /\ ~ effect.defined
        /\ Goto("undefined")
        /\ processed' = Append(processed, Head(ValidEmails))
        /\ UNCHANGED <<ValidEmails, CalendarFilter, output>>
  /\ UNCHANGED <<Done, reading>>

Unlock ==
  /\ updater = "drain" /\ ValidEmails = <<>>
  /\ Goto("outer")
  /\ UNCHANGED <<ValidEmails, Done, reading, updating>>

-----------------------------------------------------------------------------
Init ==
  /\ ValidEmails = <<>> /\ Done = FALSE /\ CalendarFilter = <<>>
  /\ reader = "getline" /\ updater = "outer"
  /\ line = NoEmail /\ lines = 0
  /\ received = <<>> /\ processed = <<>> /\ output = <<>>

ParseValidEmailsThread == GetLine \/ Push \/ Spin \/ EndOfInput \/ FinalSignal

processCalendarThread ==
  OuterTest \/ Lock \/ InnerTest \/ Wait \/ Process \/ Unlock

Next == ParseValidEmailsThread \/ processCalendarThread \/ Spurious

Spec == Init /\ [][Next]_vars

\* What the pipeline promises: nothing from a use of CalendarFilter.end() on.
Promise == Init /\ [][Next \/ updater' = "undefined"]_vars

\* Both threads are scheduled; the input comes to an end.
LiveSpec ==
  Spec /\ WF_vars(ParseValidEmailsThread) /\ WF_vars(processCalendarThread)

-----------------------------------------------------------------------------
\* Properties.

\* Every variable has its type, and the list never outgrows its limit although
\* the reader compares its length without the mutex and after it has appended.
TypeOK ==
  /\ ValidEmails \in Seq(Emails) /\ Len(ValidEmails) <= BufferLength
  /\ Done \in BOOLEAN
  /\ \A i \in DOMAIN CalendarFilter :
       /\ CalendarFilter[i].event \in Emails
       /\ CalendarFilter[i].key \in {e.date : e \in Emails}
  /\ reader \in {"getline", "lock", "spin", "signal", "exited"}
  /\ updater \in {"outer", "lock", "test", "wait", "asleep", "drain", "exited",
                  "undefined"}
  /\ line \in Emails \union {NoEmail} /\ lines \in 0 .. MaxLines
  /\ received \in Seq(Emails) /\ processed \in Seq(Emails)

\* The final signal comes without the mutex and may find the calendar thread
\* between its test and its wait; it then sleeps for ever, but never over e-mails.
SleepsOverNothing ==
  reader = "exited" /\ updater \in {"wait", "asleep"} => ValidEmails = <<>>

\* The calendar thread leaves as soon as it sees Done: fewer e-mails than the list
\* can hold are lost, the limit included.
FewLost == updater = "exited" => Len(ValidEmails) < BufferLength

\* Comment of the final signal: "in case we are still blocking in the other thread
\* and we have stuff left to process".  Nothing is left when both have exited.
LeftoversProcessed ==
  reader = "exited" /\ updater = "exited" => ValidEmails = <<>>

\* A reader that finds the list full goes on in the end: its signals are repeated,
\* so one that falls between the other thread's test and wait does no harm.
FullListDrains ==
  reader = "spin" ~> reader # "spin" \/ updater = "undefined"

\* The edits so far changed neither date nor time of an event.
OnlyLocationsEdited ==
  \A j, k \in DOMAIN processed :
    j < k /\ processed[k].action = "X" /\ processed[j].title = processed[k].title
      => processed[j].date = processed[k].date /\ processed[j].time = processed[k].time

\* As long as edits change locations only, the last line printed for a date tells
\* its earliest event, or that none is left.
AnnouncesEarliest ==
  OnlyLocationsEdited =>
    \A d \in {processed[k].date : k \in DOMAIN processed} :
      LET events == {x.event : x \in {y \in ToSet(CalendarFilter) : y.event.date = d}}
          last == SelectLastInSeq(output, LAMBDA l : l.date = d)
          announced == output[last]
      IN IF events = {}
           THEN last # 0 => announced = NotAvailable(d)
           ELSE /\ last # 0
                /\ \E e \in events : /\ announced = Line(e)
                                     /\ \A f \in events : e.time <= f.time
=============================================================================
