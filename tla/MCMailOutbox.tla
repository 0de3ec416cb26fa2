---------------------------- MODULE MCMailOutbox ----------------------------
(* Small instances of MailOutbox.                                          *)
EXTENDS MailOutbox, TLC

CONSTANTS m1, r1

OneMail == {m1}
OneRequest == {r1}
=============================================================================
