------------------------------ MODULE MailLife ------------------------------
(***************************************************************************)
(* What the outbox promises of each mail: a draft is sent, delivered and   *)
(* then recorded as sent, or fails undelivered, returns with an error and  *)
(* may be sent again; what was sent or discarded stays so.  The promise    *)
(* ends when two requests, or a request and the timeout, contend for it.   *)
(***************************************************************************)
EXTENDS Naturals

CONSTANT Mails

VARIABLE life     \* of each mail: its phase, its deliveries, the error shown

-----------------------------------------------------------------------------
Phases == {"none", "draft", "sending", "sent", "deleted", "contended"}

Life == [phase : Phases, delivered : 0..1, error : BOOLEAN]

Unwritten == [phase |-> "none", delivered |-> 0, error |-> FALSE]
Contended == [phase |-> "contended", delivered |-> 0, error |-> FALSE]

Write(a, b) == a.phase = "none" /\ b = [a EXCEPT !.phase = "draft"]

Drop(a, b) ==
    /\ a.phase = "draft"
    /\ b = [phase |-> "deleted", delivered |-> a.delivered, error |-> FALSE]

HandOver(a, b) ==
    /\ a.phase = "draft"
    /\ b = [phase |-> "sending", delivered |-> a.delivered, error |-> FALSE]

\* A plugin may deliver the mail in place of the worker.
Bypass(a, b) ==
    /\ a.phase = "draft" /\ a.delivered = 0
    /\ b = [phase |-> "sent", delivered |-> 1, error |-> a.error]

Arrive(a, b) ==
    a.phase = "sending" /\ a.delivered = 0 /\ b = [a EXCEPT !.delivered = 1]

\* Only what has not arrived may fail.
Fail(a, b) ==
    /\ a.phase = "sending" /\ a.delivered = 0
    /\ b = [phase |-> "draft", delivered |-> 0, error |-> TRUE]

\* Only what has arrived is recorded as sent.
Record(a, b) ==
    /\ a.phase = "sending" /\ a.delivered = 1
    /\ b = [phase |-> "sent", delivered |-> 1, error |-> FALSE]

Contend(a, b) == a.phase \in {"draft", "sending"} /\ b = Contended

Step(a, b) ==
    \/ Write(a, b) \/ Drop(a, b) \/ HandOver(a, b) \/ Bypass(a, b)
    \/ Arrive(a, b) \/ Fail(a, b) \/ Record(a, b) \/ Contend(a, b)

LifeInit == life = [m \in Mails |-> Unwritten]

LifeNext ==
    /\ life' \in [Mails -> Life]
    /\ \A m \in Mails : life'[m] = life[m] \/ Step(life[m], life'[m])

LifeSpec == LifeInit /\ [][LifeNext]_life

=============================================================================
