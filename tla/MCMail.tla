------------------------------- MODULE MCMail -------------------------------
(* E-mails for the pipelines: three events of one date, cancellations, and     *)
(* edits of a location, of a time and of a date.                               *)
EXTENDS Naturals

Email(a, t, d, h, l) ==
  [action |-> a, title |-> t, date |-> d, time |-> h, location |-> l]

\* Times are in minutes: 01:05, 02:10 and 03:05.
FewEmails == { Email("C", "a", 1, 130, "p"), Email("D", "a", 1, 130, "p") }

ManyEmails ==
  { Email("C", "a", 1, 130, "p"), Email("C", "b", 1, 65, "p"),
    Email("C", "c", 1, 185, "p"),
    Email("X", "a", 1, 130, "q"), Email("X", "b", 1, 65, "r"),
    Email("X", "b", 1, 185, "q"), Email("X", "a", 2, 130, "p"),
    Email("D", "a", 1, 130, "p"), Email("D", "b", 1, 65, "p") }
=============================================================================
