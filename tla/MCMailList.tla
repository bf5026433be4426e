----------------------------- MODULE MCMailList -----------------------------
(* MailList with the e-mails of MCMail.                                       *)
EXTENDS MailList, MCMail
=============================================================================
