--------------------------- MODULE MCMailerOutbox ---------------------------
(* Instances of MailerOutbox for TLC.                                      *)
EXTENDS MailerOutbox, TLC

MCEspEvents == {"bounced"}

=============================================================================
