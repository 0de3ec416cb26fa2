-------------------------- MODULE MCMailContention --------------------------
(* Small instances of MailContention.                                      *)
EXTENDS MailContention, TLC

CONSTANTS m1, r1, r2

=============================================================================
