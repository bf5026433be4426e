------------------------------ MODULE MailRing ------------------------------
(***************************************************************************)
(* Assignment4/locationUpdater.cpp: the pipeline of Assignment2 with two   *)
(* processes.  The valid e-mails pass through a ring of slots in shared    *)
(* memory, with a count and an index for each side; the mutex, the         *)
(* condition variable and the flag are shared between the processes.       *)
(***************************************************************************)
EXTENDS Calendar

CONSTANTS
  Emails,        \* the valid e-mails the input may hold
  MaxLines,      \* a bound on the lines of the input
  BufferLength   \* the argument of the program

ASSUME BufferLengthAssumption == BufferLength \in Nat \ {0}
ASSUME MaxLinesAssumption == MaxLines \in Nat

VARIABLES
  Shared_Valid_Emails,   \* the slots, NoEmail where the bytes are zero
  Shared_Email_count,
  Shared_Buffer_Read,
  Shared_Buffer_Write,
  Shared_Done,
  CalendarFilter,        \* of the calendar process
  reader,                \* where the reading process is
  updater,               \* where the calendar process is
  line,                  \* the line the reader has read, NoEmail if not valid
  lines,                 \* how many lines it has read
  received,              \* history: the valid e-mails it has read
  processed,             \* history: the e-mails given to processCalendar
  output                 \* the lines printed

\* The calendar process has the mutex, for ever if it dies in its critical section.
Locked == updater \in {"test", "wait", "drain", "undefined"}

ring == <<Shared_Valid_Emails, Shared_Email_count, Shared_Buffer_Read,
          Shared_Buffer_Write>>
reading == <<reader, line, lines, received>>
updating == <<CalendarFilter, processed, output>>
vars == <<ring, Shared_Done, reading, updater, updating>>

After_NoWrap(i) == i + 1                        \* mutant: no % BufferLength
After(i) == (i + 1) % BufferLength

-----------------------------------------------------------------------------
\* ParseValidEmailsThread, in the first child process

GetLine ==
  /\ reader = "getline" /\ lines < MaxLines
  /\ line' \in Emails \union {NoEmail}
  /\ lines' = lines + 1
  /\ reader' = "lock"
  /\ UNCHANGED <<ring, Shared_Done, received, updater, updating>>

Push ==
  /\ reader = "lock" /\ ~ Locked
  /\ \/ line = NoEmail /\ UNCHANGED <<ring, received>>
     \/ /\ line # NoEmail
        /\ Shared_Valid_Emails' =
             [Shared_Valid_Emails EXCEPT ![Shared_Buffer_Write] = line]
        /\ Shared_Buffer_Write' = After(Shared_Buffer_Write)
        /\ Shared_Email_count' = Shared_Email_count + 1
        /\ received' = Append(received, line)
        /\ UNCHANGED Shared_Buffer_Read
  /\ line' = NoEmail
  /\ reader' = "spin"
  /\ UNCHANGED <<Shared_Done, lines, updater, updating>>

\* pthread_cond_signal wakes the calendar process if it is asleep.
Signal == updater' = IF updater = "asleep" THEN "lock" ELSE updater

LastSignal_None == UNCHANGED updater            \* mutant: no signal at the end
LastSignal == Signal

Full_OneMore == Shared_Email_count > BufferLength  \* mutant: off by one
Full == Shared_Email_count >= BufferLength

Spin ==
  /\ reader = "spin"
  /\ \/ Full /\ Signal /\ UNCHANGED reader
     \/ ~ Full /\ reader' = "getline" /\ UNCHANGED updater
  /\ UNCHANGED <<ring, Shared_Done, line, lines, received, updating>>

EndOfInput ==
  /\ reader = "getline"
  /\ Shared_Done' = TRUE
  /\ reader' = "signal"
  /\ UNCHANGED <<ring, line, lines, received, updater, updating>>

FinalSignal ==
  /\ reader = "signal"
  /\ LastSignal
  /\ reader' = "exited"
  /\ UNCHANGED <<ring, Shared_Done, line, lines, received, updating>>

-----------------------------------------------------------------------------
\* processCalendarThread, in the second child process

Goto(l) == updater' = l

\* while(!*Shared_Done), without the mutex.
OuterTest ==
  /\ updater = "outer"
  /\ Goto(IF Shared_Done THEN "exited" ELSE "lock")
  /\ UNCHANGED <<ring, Shared_Done, reading, updating>>

\* The mutex is free: taken on the way in, or again after cond_wait.
Lock ==
  /\ updater = "lock"
  /\ Goto("test")
  /\ UNCHANGED <<ring, Shared_Done, reading, updating>>

InnerTest ==
  /\ updater = "test"
  /\ Goto(IF Shared_Email_count <= 0 /\ ~ Shared_Done THEN "wait" ELSE "drain")
  /\ UNCHANGED <<ring, Shared_Done, reading, updating>>

\* pthread_cond_wait unlocks and falls asleep in one step.
Wait ==
  /\ updater = "wait"
  /\ Goto("asleep")
  /\ UNCHANGED <<ring, Shared_Done, reading, updating>>

Spurious ==
  /\ updater = "asleep"
  /\ Goto("lock")
  /\ UNCHANGED <<ring, Shared_Done, reading, updating>>

\* The count goes down first, where the reader can see it, the rest is under the
\* mutex: the slot is copied and zeroed, the e-mail processed, the index advanced.
Process ==
  /\ updater = "drain" /\ Shared_Email_count > 0
  /\ Shared_Email_count' = Shared_Email_count - 1
  /\ Shared_Valid_Emails' =
       [Shared_Valid_Emails EXCEPT ![Shared_Buffer_Read] = NoEmail]
  /\ LET email == Shared_Valid_Emails[Shared_Buffer_Read]
         effect == processCalendar(CalendarFilter, email, TRUE)
     IN \/ /\ effect.defined
           /\ CalendarFilter' = effect.calendar
           /\ output' = output \o effect.lines
           /\ processed' = Append(processed, email)
           /\ Shared_Buffer_Read' = After(Shared_Buffer_Read)
           /\ UNCHANGED updater
        \/ /\ ~ effect.defined
           /\ Goto("undefined")
           /\ processed' = Append(processed, email)
           /\ UNCHANGED <<Shared_Buffer_Read, CalendarFilter, output>>
  /\ UNCHANGED <<Shared_Buffer_Write, Shared_Done, reading>>

Unlock ==
  /\ updater = "drain" /\ Shared_Email_count <= 0
  /\ Goto("outer")
  /\ UNCHANGED <<ring, Shared_Done, reading, updating>>

-----------------------------------------------------------------------------
Init ==
  /\ Shared_Valid_Emails = [i \in 0 .. BufferLength - 1 |-> NoEmail]
  /\ Shared_Email_count = 0 /\ Shared_Buffer_Read = 0 /\ Shared_Buffer_Write = 0
  /\ Shared_Done = FALSE /\ CalendarFilter = <<>>
  /\ reader = "getline" /\ updater = "outer"
  /\ line = NoEmail /\ lines = 0
  /\ received = <<>> /\ processed = <<>> /\ output = <<>>

ParseValidEmailsThread == GetLine \/ Push \/ Spin \/ EndOfInput \/ FinalSignal

processCalendarThread ==
  OuterTest \/ Lock \/ InnerTest \/ Wait \/ Process \/ Unlock

Next == ParseValidEmailsThread \/ processCalendarThread \/ Spurious

Spec == Init /\ [][Next]_vars

-----------------------------------------------------------------------------
\* Properties.

\* Every variable has its type; the count stays between zero and the length of
\* the ring although the reader tests it without the mutex and after it has written.
TypeOK ==
  /\ Shared_Valid_Emails \in [0 .. BufferLength - 1 -> Emails \union {NoEmail}]
  /\ Shared_Email_count \in 0 .. BufferLength
  /\ Shared_Buffer_Read \in 0 .. BufferLength - 1
  /\ Shared_Buffer_Write \in 0 .. BufferLength - 1
  /\ Shared_Done \in BOOLEAN
  /\ \A i \in DOMAIN CalendarFilter :
       /\ CalendarFilter[i].event \in Emails
       /\ CalendarFilter[i].key \in {e.date : e \in Emails}
  /\ reader \in {"getline", "lock", "spin", "signal", "exited"}
  /\ updater \in {"outer", "lock", "test", "wait", "asleep", "drain", "exited",
                  "undefined"}
  /\ line \in Emails \union {NoEmail} /\ lines \in 0 .. MaxLines
  /\ received \in Seq(Emails) /\ processed \in Seq(Emails)

\* The e-mails in the ring, from the next one to read.
Unread == [k \in 1 .. Shared_Email_count |->
             Shared_Valid_Emails[(Shared_Buffer_Read + k - 1) % BufferLength]]

\* No e-mail is overwritten, skipped, taken twice or out of order: what the calendar
\* process was given and what the ring still holds is what the reader has read.
InOrder == updater # "undefined" => received = processed \o Unread

\* The ring is the list of Assignment2, with Assignment4's DeleteEvent.
List == INSTANCE MailList WITH
  ValidEmails <- Unread, Done <- Shared_Done, SafeDelete <- TRUE

ImplementsList == List!Promise

\* As long as edits change locations only, the last line printed for a date tells
\* its earliest event, or that none is left.
AnnouncesEarliest == List!AnnouncesEarliest

\* As long as edits change locations only, the calendar process uses the end of the
\* multimap for one reason: it is to delete an event that is not there.
UndefinedOnlyByDeletingAbsent ==
  updater = "undefined" /\ List!OnlyLocationsEdited =>
    LET e == Last(processed) IN
    /\ e.action = "D"
    /\ searchEventByDateTitleTime(CalendarFilter, e) = 0
=============================================================================
