----------------------------- MODULE MCMailRing -----------------------------
(* MailRing with the e-mails of MCMail, and the calendar of Assignment1 on the *)
(* same e-mails, where locations p and r have the same first eight characters. *)
EXTENDS MailFilter, MCMail
MCStrays == {"?", "!"}
MCKept == [l \in {"p", "q", "r"} |->
             [b \in MCStrays |-> (IF l = "r" THEN "p" ELSE l) \o b]]
=============================================================================
