--------------------------- MODULE FilterCalendar ---------------------------
(***************************************************************************)
(* Assignment1/calendar_filter.c: the same calendar as Calendar's, kept as *)
(* a list in the order of creation, and what it prints for an event.       *)
(* Assignment1 runs email_filter and this program on the two ends of a     *)
(* pipe; an event is read, processed and printed before the next.          *)
(*                                                                         *)
(* A time is a number of minutes.  A head of the list that is deleted is   *)
(* not freed; nobody looks at it again.  The lines come from email_filter, *)
(* which lets only whole events pass, so that none fails main's test for   *)
(* an empty action, title or time.                                         *)
(***************************************************************************)
EXTENDS Calendar

CONSTANTS
  Kept,    \* Kept[l][b]: the first eight of the ten characters of l, then the byte b
  Strays   \* the bytes that an array on the stack may hold before it is written

\* parseInput copies eight characters of the location, writes a blank and the end
\* after one that it leaves as it was, and the whole is then compared and printed.
parseInput(e, stray) == [e EXCEPT !.location = Kept[@][stray]]

\* The list after an event, and the lines printed.
Result(list, lines) == [list |-> list, lines |-> lines]

Hour(t) == t \div 60
Minute(t) == t % 60

\* mutant: a later time is taken for the earlier one.
isTimeEarlier_Later(t, u) == Hour(t) > Hour(u) \/ Minute(t) > Minute(u)

\* The minutes are compared whatever the hours.
isTimeEarlier(t, u) == Hour(t) < Hour(u) \/ Minute(t) < Minute(u)

SearchTitle(list, t) == SelectInSeq(list, LAMBDA e : e.title = t)
SearchDate(list, d) == SelectInSeq(list, LAMBDA e : e.date = d)
Search_EventByTitle_Date_Time(list, x) ==
  SelectInSeq(list, LAMBDA e : e.title = x.title /\ e.date = x.date /\ e.time = x.time)

\* The first event of the date, unless a later one in the list is earlier.
EarliestEvent(list, d) ==
  FoldLeft(LAMBDA earliest, e : IF e.date = d /\ isTimeEarlier(e.time, earliest.time)
                                  THEN e ELSE earliest,
           list[SearchDate(list, d)], list)

\* compareEvents = 0: all but the titles are equal.
SameEvent(e, f) == [e EXCEPT !.title = f.title] = f

Create(list, e) ==
  LET after == Append(list, e) IN
  Result(after, IF SearchDate(list, e.date) = 0 \/ SameEvent(EarliestEvent(after, e.date), e)
                  THEN <<Line(e)>> ELSE <<>>)

\* An edit is announced only if it changes the location.
Edit(list, e) ==
  LET i == SearchTitle(list, e.title)
      after == [list EXCEPT ![i] = e]
  IN IF i = 0 THEN Result(list, <<>>)
     ELSE Result(after, IF /\ list[i].location # e.location
                           /\ SameEvent(EarliestEvent(after, e.date), e)
                          THEN <<Line(e)>> ELSE <<>>)

\* Deleting what looks like the earliest event announces the next one.
Delete(list, e) ==
  LET i == Search_EventByTitle_Date_Time(list, e)
      after == RemoveAt(list, i)
  IN IF i = 0 THEN Result(list, <<>>)
     ELSE Result(after,
            IF SearchDate(after, e.date) = 0 THEN <<NotAvailable(e.date)>>
            ELSE IF SameEvent(EarliestEvent(list, e.date), list[i])
                   THEN <<Line(EarliestEvent(after, e.date))>> ELSE <<>>)

ProcessCalendar(list, e) ==
  CASE e.action = "C" -> Create(list, e)
    [] e.action = "X" -> Edit(list, e)
    [] e.action = "D" -> Delete(list, e)
    [] OTHER -> Result(list, <<>>)

\* The events of a sequence of e-mails, with whatever each location has picked up.
Parsed(emails, strays) == [i \in DOMAIN emails |-> parseInput(emails[i], strays[i])]

\* The program run on the events of a sequence.
Filtered(emails) ==
  FoldLeft(LAMBDA r, e : LET p == ProcessCalendar(r.list, e)
                         IN Result(p.list, r.lines \o p.lines),
           Result(<<>>, <<>>), emails)
=============================================================================
