----------------------------- MODULE MailOutbox -----------------------------
(***************************************************************************)
(* The outbox of an event: QueuedMail rows that organisers edit, send and  *)
(* discard, the Celery tasks that deliver them, and the periodic task that *)
(* returns mails stuck in SENDING to the outbox.                           *)
(*                                                                         *)
(* A request works on the copy of the row it has loaded.  The table is     *)
(* read and written without row locks, so every database access is a step  *)
(* of its own.  Sending a whole outbox is one request per mail here, each  *)
(* with a copy loaded before the first of them was sent.                   *)
(***************************************************************************)
EXTENDS Naturals

CONSTANTS
    Mails,          \* primary keys of QueuedMail rows
    Requests,       \* requests and bulk runs that may be in progress together
    MaxSends,       \* bound on how often one mail is sent
    MaxRetries,     \* max_retries of task_send_draft
    HourPasses      \* whether an hour may go by

ASSUME MailBounds == MaxSends \in Nat \ {0} /\ MaxRetries \in Nat
ASSUME HourAssumption == HourPasses \in BOOLEAN

VARIABLES
    rows,       \* the QueuedMail table
    request,    \* what each request is doing, and its copy of the row
    tasks,      \* the worker's task for the n-th time a mail was sent
    sends,      \* how often a mail was handed over for delivery
    delivered   \* how often its recipients got it

mailVars == <<rows, request, tasks, sends, delivered>>

-----------------------------------------------------------------------------
Stored == {"draft", "sending", "sent"}

\* `sent` and `error`: the columns of these names are not NULL.  `old`:
\* `updated` is over an hour ago.  `overdue` is no column: the mail has been
\* SENDING for over an hour.
Row == [state : Stored \cup {"none", "deleted"},
        sent : BOOLEAN, error : BOOLEAN, old : BOOLEAN, overdue : BOOLEAN]

Absent == [state |-> "none", sent |-> FALSE, error |-> FALSE,
           old |-> FALSE, overdue |-> FALSE]

Request == [at : {"idle", "loaded", "committed"}, mail : Mails, copy : Row]
Task == [at : {"none", "queued", "delivered"}, retries : 0..MaxRetries]
NoTask == [at |-> "none", retries |-> 0]

\* The n-th time the mail m was sent.
Sendings == Mails \X (1..MaxSends)

Exists(m) == rows[m].state \in Stored

MailInit ==
    /\ rows = [m \in Mails |-> Absent]
    /\ \E m \in Mails :
          request = [r \in Requests |-> [at |-> "idle", mail |-> m, copy |-> Absent]]
    /\ tasks = [t \in Sendings |-> NoTask]
    /\ sends = [m \in Mails |-> 0]
    /\ delivered = [m \in Mails |-> 0]

\* Mutant: the state is reset without a trace of the error.
MarkFailedSilently(m) ==
    rows' = IF Exists(m) THEN [rows EXCEPT ![m].state = "draft"] ELSE rows

\* save(update_fields=[...]) fails when the row is gone, and does not touch
\* `updated`.
MarkFailed(m) ==
    rows' = IF Exists(m)
            THEN [rows EXCEPT ![m] = [@ EXCEPT !.state = "draft", !.error = TRUE]]
            ELSE rows

MarkSent(m) ==
    rows' = IF Exists(m)
            THEN [rows EXCEPT ![m] = [@ EXCEPT !.state = "sent", !.sent = TRUE,
                                              !.error = FALSE]]
            ELSE rows

Finish(r) == request' = [request EXCEPT ![r] = [@ EXCEPT !.at = "idle", !.copy = Absent]]

-----------------------------------------------------------------------------
(* Requests.                                                               *)

\* save_draft; copy_to_draft and bulk_create_drafts make new rows as well.
SaveDraft(m) ==
    /\ rows[m].state = "none"
    /\ rows' = [rows EXCEPT ![m].state = "draft"]
    /\ UNCHANGED <<request, tasks, sends, delivered>>

\* Every view that edits, sends or discards looks for DRAFT when it loads.
Load(r, m) ==
    /\ request[r].at = "idle"
    /\ rows[m].state = "draft"
    /\ request' = [request EXCEPT ![r] = [at |-> "loaded", mail |-> m, copy |-> rows[m]]]
    /\ UNCHANGED <<rows, tasks, sends, delivered>>

\* MailDetail saves the whole row from the copy, which inserts it again if
\* it is gone.
SaveEdit(r) ==
    /\ request[r].at = "loaded"
    /\ rows' = [rows EXCEPT ![request[r].mail] = [request[r].copy EXCEPT !.old = FALSE]]
    /\ UNCHANGED <<request, tasks, sends, delivered>>

Discard(r) ==
    /\ request[r].at = "loaded"
    /\ rows' = [rows EXCEPT ![request[r].mail] = [Absent EXCEPT !.state = "deleted"]]
    /\ Finish(r)
    /\ UNCHANGED <<tasks, sends, delivered>>

\* A plugin's SendMailException, a copy that is only viewed, an edit without
\* sending, a request that dies.
Abandon(r) ==
    /\ request[r].at # "idle"
    /\ Finish(r)
    /\ UNCHANGED <<rows, tasks, sends, delivered>>

\* The transaction of send_draft: a plugin may send the mail itself;
\* otherwise the row becomes SENDING and the worker is told after the commit.
BeginSend(r) ==
    LET m == request[r].mail
    IN  /\ request[r].at = "loaded"
        /\ request[r].copy.state = "draft"
        /\ sends[m] < MaxSends
        /\ \/ /\ ~Exists(m)
              /\ Finish(r)
              /\ UNCHANGED <<rows, sends, delivered>>
           \/ /\ Exists(m) /\ request[r].copy.sent
              /\ rows' = [rows EXCEPT ![m] = [@ EXCEPT !.state = "sent", !.sent = TRUE]]
              /\ Finish(r)
              /\ UNCHANGED <<sends, delivered>>
           \/ /\ Exists(m) /\ ~request[r].copy.sent
              /\ rows' = [rows EXCEPT ![m] = [@ EXCEPT !.state = "sent", !.sent = TRUE]]
              /\ sends' = [sends EXCEPT ![m] = @ + 1]
              /\ delivered' = [delivered EXCEPT ![m] = @ + 1]
              /\ Finish(r)
           \/ /\ Exists(m) /\ ~request[r].copy.sent
              /\ rows' = [rows EXCEPT ![m] = [@ EXCEPT !.state = "sending", !.error = FALSE,
                                                        !.overdue = FALSE]]
              /\ sends' = [sends EXCEPT ![m] = @ + 1]
              /\ request' = [request EXCEPT ![r].at = "committed"]
              /\ UNCHANGED delivered
        /\ UNCHANGED tasks

\* apply_async, or mark_failed when the broker cannot be reached.
Dispatch(r) ==
    LET m == request[r].mail
    IN  /\ request[r].at = "committed"
        /\ \/ /\ \E t \in {m} \X (1..sends[m]) :
                    /\ tasks[t].at = "none"
                    /\ tasks' = [tasks EXCEPT ![t].at = "queued"]
              /\ UNCHANGED rows
           \/ MarkFailed(m) /\ UNCHANGED tasks
        /\ Finish(r)
        /\ UNCHANGED <<sends, delivered>>

-----------------------------------------------------------------------------
(* The worker: task_send_draft.  It never looks at the state of the row.   *)

\* Mutant: the task stays queued until the row is marked as sent.
DeliverAgain(t) ==
    /\ tasks[t].at = "queued" /\ Exists(t[1])
    /\ delivered[t[1]] <= MaxSends
    /\ delivered' = [delivered EXCEPT ![t[1]] = @ + 1]
    /\ UNCHANGED <<rows, request, tasks, sends>>

Deliver(t) ==
    /\ tasks[t].at = "queued" /\ Exists(t[1])
    /\ delivered' = [delivered EXCEPT ![t[1]] = @ + 1]
    /\ tasks' = [tasks EXCEPT ![t].at = "delivered"]
    /\ UNCHANGED <<rows, request, sends>>

\* Mutant: the row is marked before the mail is delivered.
RecordSentFirst(t) ==
    /\ tasks[t].at # "none"
    /\ MarkSent(t[1])
    /\ tasks' = [tasks EXCEPT ![t] = NoTask]
    /\ UNCHANGED <<request, sends, delivered>>

RecordSent(t) ==
    /\ tasks[t].at = "delivered"
    /\ MarkSent(t[1])
    /\ tasks' = [tasks EXCEPT ![t] = NoTask]
    /\ UNCHANGED <<request, sends, delivered>>

\* Mutant: the mail is marked as failed although the task goes on.
RetryMarkingFailed(t) ==
    /\ tasks[t].at = "queued" /\ Exists(t[1])
    /\ tasks[t].retries < MaxRetries
    /\ MarkFailed(t[1])
    /\ tasks' = [tasks EXCEPT ![t].retries = @ + 1]
    /\ UNCHANGED <<request, sends, delivered>>

\* A retryable SMTP error.
Retry(t) ==
    /\ tasks[t].at = "queued" /\ Exists(t[1])
    /\ tasks[t].retries < MaxRetries
    /\ tasks' = [tasks EXCEPT ![t].retries = @ + 1]
    /\ UNCHANGED <<rows, request, sends, delivered>>

\* Mutant: an error after the delivery is reported as a failure of it.
FailAfterDelivery(t) ==
    /\ tasks[t].at # "none" /\ Exists(t[1])
    /\ MarkFailed(t[1])
    /\ tasks' = [tasks EXCEPT ![t] = NoTask]
    /\ UNCHANGED <<request, sends, delivered>>

\* Any other error, or no retry left.
FailDelivery(t) ==
    /\ tasks[t].at = "queued" /\ Exists(t[1])
    /\ MarkFailed(t[1])
    /\ tasks' = [tasks EXCEPT ![t] = NoTask]
    /\ UNCHANGED <<request, sends, delivered>>

\* The row is gone, or the worker dies: tasks are acknowledged when they start.
LoseTask(t) ==
    /\ tasks[t].at # "none"
    /\ tasks' = [tasks EXCEPT ![t] = NoTask]
    /\ UNCHANGED <<rows, request, sends, delivered>>

-----------------------------------------------------------------------------
(* Time.                                                                   *)

HourGoesBy ==
    /\ HourPasses
    /\ rows' = [m \in Mails |->
                   IF Exists(m)
                   THEN [rows[m] EXCEPT !.old = TRUE, !.overdue = (rows[m].state = "sending")]
                   ELSE rows[m]]
    /\ UNCHANGED <<request, tasks, sends, delivered>>

\* Mutant: a mail that is sent again does not time out.
ExpireFirstSend ==
    /\ rows' = [m \in Mails |->
                   IF rows[m].state = "sending" /\ rows[m].old /\ sends[m] = 1
                   THEN [rows[m] EXCEPT !.state = "draft", !.error = TRUE,
                                        !.old = FALSE, !.overdue = FALSE]
                   ELSE rows[m]]
    /\ UNCHANGED <<request, tasks, sends, delivered>>

\* expire_stale_queued_mails
Expire ==
    /\ rows' = [m \in Mails |->
                   IF rows[m].state = "sending" /\ rows[m].old
                   THEN [rows[m] EXCEPT !.state = "draft", !.error = TRUE,
                                        !.old = FALSE, !.overdue = FALSE]
                   ELSE rows[m]]
    /\ UNCHANGED <<request, tasks, sends, delivered>>

-----------------------------------------------------------------------------
MailNext ==
    \/ \E m \in Mails : SaveDraft(m)
    \/ \E r \in Requests :
          \/ \E m \in Mails : Load(r, m)
          \/ SaveEdit(r)
          \/ Discard(r)
          \/ Abandon(r)
          \/ BeginSend(r)
          \/ Dispatch(r)
    \/ \E t \in Sendings :
          \/ Deliver(t)
          \/ RecordSent(t)
          \/ Retry(t)
          \/ FailDelivery(t)
          \/ LoseTask(t)
    \/ HourGoesBy
    \/ Expire

\* Only time and the periodic task are sure to go on: requests, workers and
\* the broker may stop for good.
MailFairness == WF_mailVars(HourGoesBy) /\ WF_mailVars(Expire)

MailSpec == MailInit /\ [][MailNext]_mailVars /\ MailFairness

-----------------------------------------------------------------------------
(* Properties.                                                             *)

MailTypeOK ==
    /\ rows \in [Mails -> Row]
    /\ request \in [Requests -> Request]
    /\ tasks \in [Sendings -> Task]
    /\ sends \in [Mails -> 0..MaxSends]
    /\ delivered \in [Mails -> Nat]

\* A mail that is listed as sent reached its recipients, although requests
\* with old copies, workers and the timeout all write the state.
SentWasDelivered ==
    \A m \in Mails : rows[m].state = "sent" => delivered[m] > 0

\* Retries, timeouts and failures never multiply a delivery: the recipients
\* get a mail at most once for every time send_draft handed it over.
OneDeliveryPerSend == \A m \in Mails : delivered[m] <= sends[m]

\* No mail is stuck in SENDING: whatever dies, the timeout ends it.
NeverStuck ==
    \A m \in Mails : rows[m].state = "sending" ~> rows[m].state # "sending"

\* expire_stale_queued_mails resets "mails stuck in SENDING state for over an
\* hour", and no others.
ExpiresOnlyOverdue ==
    [][Expire => \A m \in Mails :
          rows[m].state = "sending" /\ rows'[m].state = "draft" => rows[m].overdue]_mailVars

=============================================================================
