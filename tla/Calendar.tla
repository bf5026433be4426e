------------------------------ MODULE Calendar ------------------------------
(***************************************************************************)
(* The calendar of Assignment2 and Assignment4/locationUpdater.cpp: what   *)
(* an e-mail does to the multimap CalendarFilter and what it prints.       *)
(*                                                                         *)
(* The multimap is the sequence of its entries in iteration order: by key, *)
(* and in the order of insertion among equal keys.  Dates and times are    *)
(* numbers that compare as the strings do.                                 *)
(***************************************************************************)
EXTENDS Integers, SequencesExt

NoEmail == [action |-> "none", title |-> "", date |-> 0, time |-> 0, location |-> ""]

\* What a call does: the calendar after it and the lines it prints, or nothing
\* that is known, once the code has used CalendarFilter.end() as an event.
Effect(c, lines) == [defined |-> TRUE, calendar |-> c, lines |-> lines]
Undefined == [defined |-> FALSE]

Line(e) == [date |-> e.date, time |-> e.time, location |-> e.location]
NotAvailable(d) == [date |-> d, time |-> 0, location |-> "NA"]

-----------------------------------------------------------------------------
\* Searches, 0 standing for CalendarFilter.end().

Find(c, d) == SelectInSeq(c, LAMBDA x : x.key = d)

SearchEventByTitle(c, t) == SelectInSeq(c, LAMBDA x : x.event.title = t)

searchEventByDateTitleTime(c, e) ==
  SelectInSeq(c, LAMBDA x : /\ x.event.time = e.time
                            /\ x.event.title = e.title
                            /\ x.event.date = e.date)

\* CompareTime(time1, time2): time1 is earlier.
CompareTime(t, u) == t < u

\* The earliest event of a date, the last of them if several are.  The search
\* starts at the key and goes on by the date of the event.
searchEarliestEventByDate(c, d) ==
  FoldLeft(LAMBDA earliest, x :
             IF x.event.date = d /\ ~ CompareTime(earliest.time, x.event.time)
               THEN x.event ELSE earliest,
           c[Find(c, d)].event, c)

Emplace(c, e) ==
  InsertAt(c, 1 + Cardinality({i \in DOMAIN c : c[i].key <= e.date}),
           [key |-> e.date, event |-> e])

-----------------------------------------------------------------------------
\* The three actions of an e-mail.

CreateEvent(c, e) ==
  LET after == Emplace(c, e) IN
  Effect(after,
         IF Find(c, e.date) = 0 \/ searchEarliestEventByDate(after, e.date) = e
           THEN <<Line(e)>> ELSE <<>>)

\* The entry keeps its key, even when the event's date changes.
EditEvent(c, e) ==
  LET i == SearchEventByTitle(c, e.title)
      after == [c EXCEPT ![i].event = e]
  IN CASE i = 0 -> Effect(c, <<>>)
       [] i # 0 /\ Find(after, e.date) = 0 -> Undefined
       [] OTHER ->
            Effect(after, IF searchEarliestEventByDate(after, e.date) = e
                            THEN <<Line(e)>> ELSE <<>>)

\* What DeleteEvent prints when it has erased the earliest event of date d.
NextEarliest_Silent(c, d) == <<>>               \* mutant: nothing
NextEarliest(c, d) ==
  IF Find(c, d) = 0 THEN <<NotAvailable(d)>>
                    ELSE <<Line(searchEarliestEventByDate(c, d))>>

\* Assignment4 searches again safely after it has erased the earliest event;
\* Assignment2 searches as before, also when it was the only event of the date.
SearchFails_Always(c, d, safe) == Find(c, d) = 0  \* mutant: never safely
SearchFails(c, d, safe) == Find(c, d) = 0 /\ ~ safe

DeleteEvent(c, e, safe) ==
  LET i == searchEventByDateTitleTime(c, e)
      after == RemoveAt(c, i)
      first == searchEarliestEventByDate(c, e.date)
  IN CASE i = 0 \/ Find(c, e.date) = 0 -> Undefined
       [] i # 0 /\ Find(c, e.date) # 0 /\ first = c[i].event ->
            IF SearchFails(after, e.date, safe)
              THEN Undefined
              ELSE Effect(after, NextEarliest(after, e.date))
       [] OTHER ->
            Effect(after, IF Find(after, e.date) = 0
                            THEN <<NotAvailable(e.date)>> ELSE <<>>)

processCalendar(c, e, safe) ==
  CASE e.action = "C" -> CreateEvent(c, e)
    [] e.action = "X" -> EditEvent(c, e)
    [] e.action = "D" -> DeleteEvent(c, e, safe)
    [] OTHER -> Effect(c, <<>>)
=============================================================================
