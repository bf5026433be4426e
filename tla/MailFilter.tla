----------------------------- MODULE MailFilter -----------------------------
(***************************************************************************)
(* The calendar of Assignment1 on the e-mails that the calendar process of *)
(* Assignment4 has processed: the two programs do the same with the same   *)
(* e-mails, one with a list, the other with a multimap.                    *)
(***************************************************************************)
EXTENDS MailRing, FilterCalendar

\* Among the events created, the earlier also has the smaller minute.
MinutesOrderedAlike ==
  \A j, k \in DOMAIN processed :
    processed[j].time < processed[k].time
      => Minute(processed[j].time) <= Minute(processed[k].time)

\* The calendar filter of Assignment1 too has last announced a date's earliest event,
\* or that none is left, whatever the bytes that parseInput does not write, as long as
\* edits change locations only and minutes are ordered as the hours are, which
\* isTimeEarlier takes for granted.
FilterAnnouncesEarliest ==
  List!OnlyLocationsEdited /\ MinutesOrderedAlike =>
    \A strays \in [DOMAIN processed -> Strays] :
      LET filtered == Filtered(Parsed(processed, strays)) IN
      \A d \in {processed[k].date : k \in DOMAIN processed} :
        LET events == {e \in ToSet(filtered.list) : e.date = d}
            last == SelectLastInSeq(filtered.lines, LAMBDA l : l.date = d)
            announced == filtered.lines[last]
        IN IF events = {}
             THEN last # 0 => announced = NotAvailable(d)
             ELSE /\ last # 0
                  /\ \E e \in events : /\ announced = Line(e)
                                       /\ \A f \in events : e.time <= f.time
=============================================================================
