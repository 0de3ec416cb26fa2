--------------------------- MODULE MailContention ---------------------------
(***************************************************************************)
(* MailOutbox with a history variable: the mails over which requests and   *)
(* the timeout contended.  The code neither locks nor compares rows, so    *)
(* what it promises of a single delivery holds for the others.             *)
(***************************************************************************)
EXTENDS MailOutbox

VARIABLE contended

contentionVars == <<rows, request, tasks, sends, delivered, contended>>

-----------------------------------------------------------------------------
\* A request is busy with the mail that another one loads, or the timeout
\* returns the mail to the outbox while it is being sent.
Contends(m) ==
    \/ \E r, s \in Requests :
          r # s /\ \A q \in {r, s} : request'[q].at # "idle" /\ request'[q].mail = m
    \/ rows[m].state = "sending" /\ rows[m].old /\ rows'[m].state = "draft" /\ ~rows'[m].old

ContentionInit == MailInit /\ contended = {}

ContentionNext == MailNext /\ contended' = contended \cup {m \in Mails : Contends(m)}

ContentionSpec == ContentionInit /\ [][ContentionNext]_contentionVars /\ MailFairness

-----------------------------------------------------------------------------
(* The life of each mail, as far as nobody contended for it.               *)

Uncontended == INSTANCE MailLife WITH life <-
    [m \in Mails |->
        IF m \in contended
        THEN [phase |-> "contended", delivered |-> 0, error |-> FALSE]
        ELSE [phase |-> rows[m].state, delivered |-> delivered[m], error |-> rows[m].error]]

-----------------------------------------------------------------------------
(* Properties.                                                             *)

\* Without contention no mail is delivered twice, however often it fails, is
\* edited and is sent again: a failure returns it to the outbox only when
\* nothing is on its way any more.
AtMostOnce == \A m \in Mails \ contended : delivered[m] <= 1

\* Without contention a mail that was being sent never returns to the outbox
\* without an error that tells the organiser so.
ReturnsWithError ==
    [][\A m \in Mails \ contended :
          rows[m].state = "sending" /\ rows'[m].state = "draft" => rows'[m].error]_contentionVars

\* Without contention a mail lives as MailLife says: it is recorded as sent
\* only after it arrived, fails only before, returns with an error, and stays
\* sent or discarded for good.
ImplementsMailLife == Uncontended!LifeSpec

=============================================================================
