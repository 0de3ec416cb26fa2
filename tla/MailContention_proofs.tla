------------------------ MODULE MailContention_proofs ------------------------
(***************************************************************************)
(* Proofs about MailContention, for every number of mails, requests, sends *)
(* and retries.  The rows are not locked; what stands in for a lock is     *)
(* that a mail without contention has one owner: the outbox, one request,  *)
(* or one task, and only the owner changes it.                             *)
(***************************************************************************)
EXTENDS MailContention, MailOutbox_proofs

Busy(r, m) == request[r].at # "idle" /\ request[r].mail = m
Quiet(m) == \A n \in 1..MaxSends : tasks[<<m, n>>].at = "none"

\* The mail m has at most one owner.
Owned(m) ==
    /\ delivered[m] <= 1
    /\ rows[m].state \in {"none", "draft"} => delivered[m] = 0 /\ Quiet(m)
    /\ \A r \in Requests : Busy(r, m) =>
          /\ delivered[m] = 0 /\ Quiet(m)
          /\ request[r].at = "loaded" =>
                /\ rows[m].state = "draft" /\ request[r].copy.state = "draft"
                /\ request[r].copy.error = rows[m].error
          /\ request[r].at = "committed" => rows[m].state = "sending"
          /\ \A s \in Requests : Busy(s, m) => s = r
    /\ \A n \in 1..MaxSends : tasks[<<m, n>>].at # "none" =>
          /\ rows[m].state = "sending"
          /\ tasks[<<m, n>>].at = "queued" => delivered[m] = 0
          /\ \A k \in 1..MaxSends : tasks[<<m, k>>].at # "none" => k = n

OwnedInv == MailInv /\ \A m \in Mails \ contended : Owned(m)

-----------------------------------------------------------------------------
\* What the requests do with the other mails does not matter to m.
LEMMA Elsewhere ==
    ASSUME NEW m \in Mails, Owned(m),
           rows'[m].state = rows[m].state, rows'[m].error = rows[m].error,
           delivered'[m] = delivered[m],
           \A n \in 1..MaxSends : tasks'[<<m, n>>].at = tasks[<<m, n>>].at,
           \A r \in Requests : Busy(r, m)' => UNCHANGED request[r]
    PROVE  Owned(m)'
  BY DEF Owned, Busy, Quiet

LEMMA Types ==
    ASSUME MailInv
    PROVE  /\ rows \in [Mails -> Row] /\ request \in [Requests -> Request]
           /\ tasks \in [Sendings -> Task] /\ delivered \in [Mails -> Nat]
           /\ \A m \in Mails, n \in 1..MaxSends : <<m, n>> \in Sendings
  BY DEF MailInv, MailTypeOK, Sendings

\* A request that is done with its mail.
LEMMA Finished ==
    ASSUME MailInv, NEW r \in Requests, Finish(r)
    PROVE  /\ \A m : ~Busy(r, m)'
           /\ \A s \in Requests : s # r => request'[s] = request[s]
  <1> DEFINE new == [request[r] EXCEPT !.at = "idle", !.copy = Absent]
  <1>1. new.at = "idle"
    BY Types DEF Request
  <1>2. request' = [request EXCEPT ![r] = new]
    BY DEF Finish
  <1> HIDE DEF new
  <1> QED
    BY <1>1, <1>2, Types DEF Busy

LEMMA LoadOwned ==
    ASSUME MailInv, NEW m \in Mails, Owned(m), NEW r \in Requests, NEW k \in Mails, Load(r, k),
           \A p, q \in Requests : Busy(p, m)' /\ Busy(q, m)' => p = q
    PROVE  Owned(m)'
  <1>1. /\ request[r].at = "idle" /\ rows[k].state = "draft"
        /\ request' = [request EXCEPT ![r] = [at |-> "loaded", mail |-> k, copy |-> rows[k]]]
        /\ UNCHANGED <<rows, tasks, delivered>>
    BY DEF Load
  <1>2. /\ request'[r].at = "loaded" /\ request'[r].mail = k /\ request'[r].copy = rows[k]
        /\ \A s \in Requests : s # r => request'[s] = request[s]
    BY <1>1, Types
  <1>3. CASE k # m
    BY <1>1, <1>2, <1>3, Elsewhere DEF Busy
  <1>4. CASE k = m
    BY <1>1, <1>2, <1>4 DEF Owned, Busy, Quiet
  <1> QED
    BY <1>3, <1>4

LEMMA SaveOwned ==
    ASSUME MailInv, NEW m \in Mails, Owned(m),
           \/ \E k \in Mails : SaveDraft(k)
           \/ \E r \in Requests : SaveEdit(r)
    PROVE  Owned(m)'
  <1>1. ASSUME NEW k \in Mails, SaveDraft(k) PROVE Owned(m)'
    <2> DEFINE row == [rows[k] EXCEPT !.state = "draft"]
    <2>1. row.state = "draft"
      BY Types DEF Row
    <2>2. rows' = [rows EXCEPT ![k] = row] /\ rows[k].state = "none" /\ UNCHANGED <<request, tasks, delivered>>
      BY <1>1 DEF SaveDraft
    <2> HIDE DEF row
    <2> QED
      BY <2>1, <2>2, Types DEF Owned, Busy, Quiet
  <1>2. ASSUME NEW r \in Requests, SaveEdit(r) PROVE Owned(m)'
    <2> DEFINE copy == request[r].copy
               row == [copy EXCEPT !.old = FALSE]
    <2>1. rows' = [rows EXCEPT ![request[r].mail] = row] /\ request[r].at = "loaded" /\ UNCHANGED <<request, tasks, delivered>>
      BY <1>2 DEF SaveEdit
    <2>2. copy \in Row
      BY Types DEF Request
    <2>3. row.state = copy.state /\ row.error = copy.error
      BY <2>2 DEF Row
    <2> HIDE DEF row
    <2> QED
      BY <2>1, <2>3, Types DEF Owned, Busy, Quiet
  <1> QED
    BY <1>1, <1>2

LEMMA LeaveOwned ==
    ASSUME MailInv, NEW m \in Mails, Owned(m), NEW r \in Requests, Discard(r) \/ Abandon(r)
    PROVE  Owned(m)'
  <1>1. /\ \A s \in Requests : Busy(s, m)' => s # r /\ request'[s] = request[s] /\ Busy(s, m)
    BY Finished DEF Discard, Abandon, Busy
  <1>2. CASE Abandon(r)
    BY <1>1, <1>2, Elsewhere DEF Abandon
  <1>3. CASE Discard(r)
    <2> DEFINE row == [Absent EXCEPT !.state = "deleted"]
    <2>1. row.state = "deleted"
      BY DEF Absent
    <2>2. rows' = [rows EXCEPT ![request[r].mail] = row] /\ request[r].at = "loaded" /\ UNCHANGED <<tasks, delivered>>
      BY <1>3 DEF Discard
    <2> HIDE DEF row
    <2>3. CASE request[r].mail # m
      BY <1>1, <2>2, <2>3, Types, Elsewhere
    <2>4. CASE request[r].mail = m
      <3>1. Busy(r, m)
        BY <2>2, <2>4 DEF Busy
      <3>2. delivered[m] = 0 /\ Quiet(m) /\ \A s \in Requests : ~Busy(s, m)'
        BY <1>1, <3>1 DEF Owned
      <3>3. rows'[m].state = "deleted"
        BY <2>1, <2>2, <2>4, Types
      <3> QED
        BY <2>2, <3>2, <3>3 DEF Owned, Quiet
    <2> QED
      BY <2>3, <2>4
  <1> QED
    BY <1>2, <1>3

\* A row that the worker or the broker has failed to send.
LEMMA Failed ==
    ASSUME MailInv, NEW k \in Mails, MarkFailed(k)
    PROVE  \A m \in Mails : /\ rows'[m].state = rows[m].state \/ (m = k /\ rows'[m].state = "draft")
                            /\ m # k => rows'[m] = rows[m]
                            /\ rows'[m].state # rows[m].state => rows'[m].error
                            /\ m = k => rows'[m].state # "sending"
  <1> DEFINE old == rows[k]
             row == [old EXCEPT !.state = "draft", !.error = TRUE]
  <1>1. old \in Row
    BY Types
  <1>2. \/ rows' = [rows EXCEPT ![k] = row]
        \/ old.state # "sending" /\ rows' = rows
    BY DEF MarkFailed, Exists, Stored
  <1> HIDE DEF old
  <1>3. row.state = "draft" /\ row.error = TRUE
    BY <1>1 DEF Row
  <1> HIDE DEF row
  <1> QED
    BY <1>2, <1>3, Types DEF old

LEMMA BeginSendOwned ==
    ASSUME MailInv, NEW m \in Mails, Owned(m), NEW r \in Requests, BeginSend(r)
    PROVE  Owned(m)'
  <1> DEFINE k == request[r].mail
             old == rows[k]
             sent == [old EXCEPT !.state = "sent", !.sent = TRUE]
             sending == [old EXCEPT !.state = "sending", !.error = FALSE, !.overdue = FALSE]
             req == request[r]
             commit == [req EXCEPT !.at = "committed"]
  <1>1. k \in Mails /\ old \in Row /\ request[r].at = "loaded" /\ UNCHANGED tasks /\ req \in Request
    BY Types DEF BeginSend, Request
  <1>2. \/ Finish(r) /\ UNCHANGED <<rows, delivered>>
        \/ Finish(r) /\ rows' = [rows EXCEPT ![k] = sent] /\ UNCHANGED delivered
        \/ Finish(r) /\ rows' = [rows EXCEPT ![k] = sent] /\ delivered' = [delivered EXCEPT ![k] = @ + 1]
        \/ request' = [request EXCEPT ![r] = commit] /\ rows' = [rows EXCEPT ![k] = sending] /\ UNCHANGED delivered
    BY DEF BeginSend
  <1>3. Busy(r, k)
    BY <1>1 DEF Busy
  <1> HIDE DEF old, req
  <1>4. sent.state = "sent" /\ sending.state = "sending"
    BY <1>1 DEF Row
  <1>5. commit.at = "committed" /\ commit.mail = req.mail
    BY <1>1 DEF Request
  <1> HIDE DEF sent, sending, commit
  <1>6. CASE k # m
    <2>1. rows'[m] = rows[m] /\ delivered'[m] = delivered[m]
      BY <1>1, <1>2, <1>6, Types
    <2>2. \A s \in Requests : Busy(s, m)' => UNCHANGED request[s]
      <3>1. CASE Finish(r)
        BY <3>1, Finished DEF Busy
      <3>2. CASE request' = [request EXCEPT ![r] = commit]
        BY <1>5, <1>6, <3>2, Types DEF Busy, req
      <3> QED
        BY <1>2, <3>1, <3>2
    <2> QED
      BY <1>1, <2>1, <2>2, Elsewhere
  <1>7. CASE k = m
    <2>1. delivered[m] = 0 /\ Quiet(m) /\ \A s \in Requests : Busy(s, m) => s = r
      BY <1>3, <1>7 DEF Owned
    <2>2. Quiet(m)'
      BY <1>1, <2>1 DEF Quiet
    <2>3. CASE /\ Finish(r)
               /\ \/ UNCHANGED <<rows, delivered>>
                  \/ rows' = [rows EXCEPT ![k] = sent] /\ UNCHANGED delivered
                  \/ rows' = [rows EXCEPT ![k] = sent] /\ delivered' = [delivered EXCEPT ![k] = @ + 1]
      <3>1. \A s \in Requests : ~Busy(s, m)'
        BY <2>1, <2>3, Finished DEF Busy
      <3>2. \/ rows' = rows /\ delivered'[m] = 0
            \/ rows'[m].state = "sent" /\ delivered'[m] <= 1
        BY <1>4, <1>7, <2>1, <2>3, Types
      <3> QED
        BY <2>1, <2>2, <3>1, <3>2 DEF Owned, Quiet
    <2>4. CASE request' = [request EXCEPT ![r] = commit] /\ rows' = [rows EXCEPT ![k] = sending] /\ UNCHANGED delivered
      <3>1. rows'[m].state = "sending" /\ delivered'[m] = 0
        BY <1>4, <1>7, <2>1, <2>4, Types
      <3>2. \A s \in Requests : Busy(s, m)' => s = r /\ request'[s].at = "committed"
        BY <1>5, <2>1, <2>4, Types DEF Busy
      <3> QED
        BY <2>2, <3>1, <3>2 DEF Owned, Quiet
    <2> QED
      BY <1>2, <2>3, <2>4
  <1> QED
    BY <1>6, <1>7

LEMMA DispatchOwned ==
    ASSUME MailInv, NEW m \in Mails, Owned(m), NEW r \in Requests, Dispatch(r)
    PROVE  Owned(m)'
  <1> DEFINE k == request[r].mail
  <1>1. k \in Mails /\ Busy(r, k) /\ request[r].at = "committed" /\ UNCHANGED delivered
        /\ sends[k] \in 0..MaxSends
    BY Types, Elements DEF Dispatch, Request, Busy
  <1>2. \A s \in Requests : Busy(s, m)' => s # r /\ request'[s] = request[s] /\ Busy(s, m)
    BY Finished DEF Dispatch, Busy
  <1>3. CASE UNCHANGED rows /\ \E t \in {k} \X (1..sends[k]) : tasks' = [tasks EXCEPT ![t].at = "queued"]
    <2>0. PICK t \in {k} \X (1..sends[k]) : tasks' = [tasks EXCEPT ![t].at = "queued"]
      BY <1>3
    <2>a. PICK n \in 1..sends[k] : t = <<k, n>>
      OBVIOUS
    <2>1. tasks' = [tasks EXCEPT ![<<k, n>>].at = "queued"]
      BY <2>0, <2>a
    <2> DEFINE task == [tasks[<<k, n>>] EXCEPT !.at = "queued"]
    <2>2. n \in 1..MaxSends /\ <<k, n>> \in Sendings /\ tasks[<<k, n>>] \in Task
      BY <1>1, MailBounds, Types
    <2>3. task.at = "queued" /\ tasks' = [tasks EXCEPT ![<<k, n>>] = task]
      BY <2>1, <2>2 DEF Task
    <2> HIDE DEF task
    <2>4. CASE k # m
      <3>1. \A j \in 1..MaxSends : tasks'[<<m, j>>] = tasks[<<m, j>>]
        BY <2>3, <2>4, Types
      <3> QED
        BY <1>1, <1>2, <1>3, <3>1, Elsewhere
    <2>5. CASE k = m
      <3>1. /\ delivered[m] = 0 /\ Quiet(m) /\ rows[m].state = "sending"
            /\ \A s \in Requests : ~Busy(s, m)'
        BY <1>1, <1>2, <2>5 DEF Owned
      <3>2. \A j \in 1..MaxSends : tasks'[<<m, j>>].at = IF j = n THEN "queued" ELSE "none"
        BY <2>2, <2>3, <2>5, <3>1, Types DEF Quiet
      <3> QED
        BY <1>1, <1>3, <3>1, <3>2 DEF Owned
    <2> QED
      BY <2>4, <2>5
  <1>4. CASE MarkFailed(k) /\ UNCHANGED tasks
    <2>1. CASE k # m
      <3>1. rows'[m] = rows[m]
        BY <1>1, <1>4, <2>1, Failed
      <3> QED
        BY <1>1, <1>2, <1>4, <3>1, Elsewhere
    <2>2. CASE k = m
      <3>1. /\ delivered[m] = 0 /\ Quiet(m) /\ rows[m].state = "sending"
            /\ \A s \in Requests : ~Busy(s, m)'
        BY <1>1, <1>2, <2>2 DEF Owned
      <3> QED
        BY <1>1, <1>4, <3>1 DEF Owned, Quiet
    <2> QED
      BY <2>1, <2>2
  <1> QED
    BY <1>3, <1>4 DEF Dispatch

-----------------------------------------------------------------------------
(* The worker.                                                             *)

LEMMA WorkerOwned ==
    ASSUME MailInv, NEW m \in Mails, Owned(m), NEW t \in Sendings,
           Deliver(t) \/ RecordSent(t) \/ Retry(t) \/ FailDelivery(t) \/ LoseTask(t)
    PROVE  Owned(m)'
  <1>1. PICK k \in Mails, n \in 1..MaxSends : t = <<k, n>> /\ t[1] = k
    BY DEF Sendings
  <1>2. /\ tasks[t] \in Task /\ tasks[t].at # "none" /\ UNCHANGED request
        /\ \A u \in Sendings : u # t => tasks'[u] = tasks[u]
    BY Types DEF Deliver, RecordSent, Retry, FailDelivery, LoseTask
  <1>3. \A s \in Requests : Busy(s, m)' => UNCHANGED request[s] /\ Busy(s, m)
    BY <1>2 DEF Busy
  <1>4. CASE k # m
    <2>1. \A j \in 1..MaxSends : tasks'[<<m, j>>] = tasks[<<m, j>>]
      BY <1>1, <1>2, <1>4, Types
    <2>2. delivered'[m] = delivered[m]
      BY <1>1, <1>4, Types DEF Deliver, RecordSent, Retry, FailDelivery, LoseTask
    <2>3. rows'[m] = rows[m]
      <3>1. CASE FailDelivery(t)
        BY <1>1, <1>4, <3>1, Failed DEF FailDelivery
      <3>2. CASE RecordSent(t)
        BY <1>1, <1>4, <3>2, Types DEF RecordSent, MarkSent
      <3>3. CASE UNCHANGED rows
        BY <3>3
      <3> QED
        BY <3>1, <3>2, <3>3 DEF Deliver, Retry, LoseTask
    <2> QED
      BY <1>3, <2>1, <2>2, <2>3, Elsewhere
  <1>5. CASE k = m
    <2>1. /\ rows[m].state = "sending" /\ \A s \in Requests : ~Busy(s, m)'
          /\ tasks[t].at = "queued" => delivered[m] = 0
          /\ delivered[m] <= 1
          /\ \A j \in 1..MaxSends : j # n => tasks[<<m, j>>].at = "none"
      BY <1>1, <1>2, <1>3, <1>5 DEF Owned, Quiet
    <2>2. \A j \in 1..MaxSends : j # n => tasks'[<<m, j>>].at = "none"
      BY <1>1, <1>2, <1>5, <2>1, Types
    <2> DEFINE task == tasks[t]
    <2>3. CASE Deliver(t)
      <3>1. tasks'[t].at = "delivered" /\ tasks[t].at = "queued" /\ delivered'[m] = delivered[m] + 1 /\ UNCHANGED rows
        BY <1>1, <1>5, <2>3, Types DEF Deliver, Task
      <3> QED
        BY <1>1, <1>5, <2>1, <2>2, <3>1 DEF Owned
    <2>4. CASE Retry(t)
      <3>1. tasks'[t].at = "queued" /\ tasks[t].at = "queued" /\ UNCHANGED <<rows, delivered>>
        BY <2>4, Types DEF Retry, Task
      <3> QED
        BY <1>1, <1>5, <2>1, <2>2, <3>1 DEF Owned
    <2>5. ASSUME tasks' = [tasks EXCEPT ![t] = NoTask], UNCHANGED delivered
          PROVE  Quiet(m)'
      BY <1>1, <1>5, <2>2, <2>5, Types DEF NoTask, Quiet
    <2>6. CASE LoseTask(t)
      BY <2>1, <2>5, <2>6 DEF LoseTask, Owned, Quiet
    <2>7. CASE RecordSent(t)
      <3>1. rows'[m].state = "sent"
        <4> DEFINE old == rows[m]
                   row == [old EXCEPT !.state = "sent", !.sent = TRUE, !.error = FALSE]
        <4>1. rows' = [rows EXCEPT ![m] = row] /\ old \in Row
          BY <1>1, <1>5, <2>1, <2>7, Types DEF RecordSent, MarkSent, Exists, Stored
        <4> HIDE DEF old
        <4>2. row.state = "sent"
          BY <4>1 DEF Row
        <4> HIDE DEF row
        <4> QED
          BY <4>1, <4>2, Types
      <3> QED
        BY <2>1, <2>5, <2>7, <3>1 DEF RecordSent, Owned, Quiet
    <2>8. CASE FailDelivery(t)
      BY <2>1, <2>5, <2>8 DEF FailDelivery, Owned, Quiet
    <2> QED
      BY <2>3, <2>4, <2>6, <2>7, <2>8
  <1> QED
    BY <1>4, <1>5

-----------------------------------------------------------------------------
(* Time.                                                                   *)

LEMMA HourOwned == ASSUME MailInv, NEW m \in Mails, Owned(m), HourGoesBy PROVE Owned(m)'
  <1> DEFINE old == rows[m]
             row == [old EXCEPT !.old = TRUE, !.overdue = (old.state = "sending")]
  <1>1. old \in Row /\ rows'[m] \in {old, row} /\ UNCHANGED <<request, tasks, delivered>>
    BY Types DEF HourGoesBy
  <1> HIDE DEF old
  <1>2. row.state = old.state /\ row.error = old.error
    BY <1>1 DEF Row
  <1> HIDE DEF row
  <1>3. rows'[m].state = rows[m].state /\ rows'[m].error = rows[m].error
    BY <1>1, <1>2 DEF old
  <1> QED
    BY <1>1, <1>3, Elsewhere

\* What the timeout makes of a row.
LEMMA Expired ==
    ASSUME MailInv, NEW m \in Mails, Expire
    PROVE  \/ rows'[m] = rows[m]
           \/ /\ rows[m].state = "sending" /\ rows[m].old
              /\ rows'[m].state = "draft" /\ rows'[m].error /\ ~rows'[m].old
  <1> DEFINE old == rows[m]
             row == [old EXCEPT !.state = "draft", !.error = TRUE, !.old = FALSE, !.overdue = FALSE]
  <1>1. old \in Row /\ rows'[m] = IF old.state = "sending" /\ old.old THEN row ELSE old
    BY Types DEF Expire
  <1> HIDE DEF old
  <1>2. row.state = "draft" /\ row.error /\ ~row.old
    BY <1>1 DEF Row
  <1> HIDE DEF row
  <1> QED
    BY <1>1, <1>2 DEF old

-----------------------------------------------------------------------------
(* Every step.                                                             *)

LEMMA OwnedNext == OwnedInv /\ [ContentionNext]_contentionVars => OwnedInv'
  <1> SUFFICES ASSUME OwnedInv, [ContentionNext]_contentionVars PROVE OwnedInv'
    OBVIOUS
  <1>1. MailInv /\ [MailNext]_mailVars
    BY DEF OwnedInv, ContentionNext, contentionVars, mailVars
  <1>2. MailInv'
    BY <1>1, MailNextInv
  <1>3. CASE UNCHANGED contentionVars
    BY <1>2, <1>3 DEF contentionVars, OwnedInv, Owned, Busy, Quiet
  <1>4. CASE ContentionNext
    <2> SUFFICES ASSUME NEW m \in Mails \ contended' PROVE Owned(m)'
      BY <1>2 DEF OwnedInv
    <2>1. m \in Mails /\ m \notin contended /\ ~Contends(m) /\ MailNext /\ Owned(m)
      BY <1>4 DEF ContentionNext, OwnedInv
    <2>2. \A p, q \in Requests : Busy(p, m)' /\ Busy(q, m)' => p = q
      BY <2>1 DEF Contends, Busy
    <2>3. CASE HourGoesBy
      BY <1>1, <2>1, <2>3, HourOwned
    <2>4. CASE Expire
      <3>1. rows'[m] = rows[m]
        BY <1>1, <2>1, <2>4, Expired DEF Contends
      <3> QED
        BY <2>1, <2>4, <3>1, Elsewhere DEF Expire
    <2>5. ASSUME NEW r \in Requests, NEW k \in Mails, Load(r, k) PROVE Owned(m)'
      BY <1>1, <2>1, <2>2, <2>5, LoadOwned
    <2> QED
      BY <1>1, <2>1, <2>3, <2>4, <2>5, SaveOwned, LeaveOwned, BeginSendOwned, DispatchOwned, WorkerOwned DEF MailNext
  <1> QED
    BY <1>3, <1>4

LEMMA OwnedInit == ContentionInit => OwnedInv
  <1> SUFFICES ASSUME ContentionInit PROVE OwnedInv
    OBVIOUS
  <1>1. MailInv
    BY MailInitInv DEF ContentionInit
  <1>2. /\ rows = [m \in Mails |-> Absent] /\ tasks = [t \in Sendings |-> NoTask]
        /\ delivered = [m \in Mails |-> 0] /\ \A r \in Requests : request[r].at = "idle"
    BY DEF ContentionInit, MailInit
  <1>3. ASSUME NEW m \in Mails PROVE Owned(m)
    <2>1. rows[m].state = "none" /\ delivered[m] = 0 /\ Quiet(m) /\ \A r \in Requests : ~Busy(r, m)
      BY <1>2, <1>1, Types, AbsentType DEF NoTask, Quiet, Busy
    <2> QED
      BY <2>1 DEF Owned, Quiet
  <1> QED
    BY <1>1, <1>3 DEF OwnedInv

THEOREM OneOwner == ContentionSpec => []OwnedInv
  BY OwnedInit, OwnedNext, PTL DEF ContentionSpec

\* Without contention no mail is delivered twice, however often it fails, is
\* edited and is sent again.
THEOREM DeliveredAtMostOnce == ContentionSpec => []AtMostOnce
  <1>1. OwnedInv => AtMostOnce
    BY DEF OwnedInv, Owned, AtMostOnce
  <1> QED
    BY <1>1, OneOwner, PTL

\* Without contention a mail that was being sent returns with an error.
THEOREM MailsReturnWithError == ContentionSpec => ReturnsWithError
  <1>1. ASSUME OwnedInv, ContentionNext, NEW m \in Mails \ contended,
               rows[m].state = "sending", rows'[m].state = "draft"
        PROVE  rows'[m].error
    <2>1. m \in Mails /\ MailInv /\ MailNext /\ Owned(m)
      BY <1>1 DEF OwnedInv, ContentionNext
    <2>2. ~UNCHANGED rows
      BY <1>1
    <2>3. CASE Expire
      BY <1>1, <2>1, <2>3, Expired
    <2>4. CASE HourGoesBy
      <3> DEFINE old == rows[m]
                 row == [old EXCEPT !.old = TRUE, !.overdue = (old.state = "sending")]
      <3>1. old \in Row /\ rows'[m] \in {old, row}
        BY <2>1, <2>4, Types DEF HourGoesBy
      <3> HIDE DEF old
      <3>2. row.state = old.state
        BY <3>1 DEF Row
      <3> HIDE DEF row
      <3> QED
        BY <1>1, <3>1, <3>2 DEF old
    <2>5. ASSUME NEW k \in Mails, MarkFailed(k) PROVE rows'[m].error
      BY <1>1, <2>1, <2>5, Failed
    <2>6. ASSUME NEW k \in Mails, SaveDraft(k) PROVE FALSE
      BY <1>1, <2>1, <2>6, Types DEF SaveDraft
    <2>7. ASSUME NEW r \in Requests, SaveEdit(r) PROVE FALSE
      <3>1. request[r].mail = m
        BY <1>1, <2>1, <2>7, Types DEF SaveEdit
      <3> QED
        BY <1>1, <2>1, <2>7, <3>1 DEF SaveEdit, Owned, Busy
    <2>8. ASSUME NEW r \in Requests, Discard(r) PROVE FALSE
      <3>1. request[r].mail = m
        BY <1>1, <2>1, <2>8, Types DEF Discard
      <3> QED
        BY <1>1, <2>1, <2>8, <3>1 DEF Discard, Owned, Busy
    <2>9. ASSUME NEW r \in Requests, BeginSend(r) PROVE FALSE
      <3>1. request[r].mail = m
        BY <1>1, <2>1, <2>9, Types DEF BeginSend
      <3> QED
        BY <1>1, <2>1, <2>9, <3>1 DEF BeginSend, Owned, Busy
    <2>10. ASSUME NEW r \in Requests, Dispatch(r) PROVE rows'[m].error
      BY <2>2, <2>5, <2>10, Types, <2>1 DEF Dispatch, Request
    <2>11. ASSUME NEW t \in Sendings, RecordSent(t) PROVE FALSE
      <3>1. t[1] \in Mails
        BY DEF Sendings
      <3> DEFINE old == rows[t[1]]
                 row == [old EXCEPT !.state = "sent", !.sent = TRUE, !.error = FALSE]
      <3>2. rows' = [rows EXCEPT ![t[1]] = row] /\ old \in Row
        BY <2>1, <2>2, <2>11, <3>1, Types DEF RecordSent, MarkSent
      <3> HIDE DEF old
      <3>3. row.state = "sent"
        BY <3>2 DEF Row
      <3> HIDE DEF row
      <3> QED
        BY <1>1, <2>1, <3>1, <3>2, <3>3, Types
    <2>12. ASSUME NEW t \in Sendings, FailDelivery(t) PROVE rows'[m].error
      <3>1. t[1] \in Mails
        BY DEF Sendings
      <3> QED
        BY <2>5, <2>12, <3>1 DEF FailDelivery
    <2>13. ASSUME NEW r \in Requests, Abandon(r) \/ \E k \in Mails : Load(r, k) PROVE FALSE
      BY <2>2, <2>13 DEF Abandon, Load
    <2>14. ASSUME NEW t \in Sendings, Deliver(t) \/ Retry(t) \/ LoseTask(t) PROVE FALSE
      BY <2>2, <2>14 DEF Deliver, Retry, LoseTask
    <2> QED
      BY <2>1, <2>3, <2>4, <2>6, <2>7, <2>8, <2>9, <2>10, <2>11, <2>12, <2>13, <2>14 DEF MailNext
  <1>2. OwnedInv /\ [ContentionNext]_contentionVars =>
          [\A m \in Mails \ contended :
             rows[m].state = "sending" /\ rows'[m].state = "draft" => rows'[m].error]_contentionVars
    BY <1>1
  <1> QED
    BY <1>2, OneOwner, PTL DEF ReturnsWithError, ContentionSpec

-----------------------------------------------------------------------------
(* The life of a mail that nobody contends for.                            *)

Seen(m) == [phase |-> rows[m].state, delivered |-> delivered[m], error |-> rows[m].error]

\* What organisers see of m does not change, or changes as MailLife allows.
Lives(m) == Seen(m)' = Seen(m) \/ Uncontended!Step(Seen(m), Seen(m)')

\* What MailLife allows, between records that are written out.
LEMMA LifeSteps ==
    ASSUME NEW d, NEW e
    PROVE  LET R(p, n, f) == [phase |-> p, delivered |-> n, error |-> f]
           IN  /\ Uncontended!Step(R("none", d, e), R("draft", d, e))
               /\ Uncontended!Step(R("draft", d, e), R("deleted", d, FALSE))
               /\ Uncontended!Step(R("draft", d, e), R("sending", d, FALSE))
               /\ Uncontended!Step(R("draft", 0, e), R("sent", 1, e))
               /\ Uncontended!Step(R("sending", 0, e), R("sending", 1, e))
               /\ Uncontended!Step(R("sending", 0, e), R("draft", 0, TRUE))
               /\ Uncontended!Step(R("sending", 1, e), R("sent", 1, FALSE))
  <1> DEFINE R(p, n, f) == [phase |-> p, delivered |-> n, error |-> f]
  <1>1. Uncontended!Write(R("none", d, e), R("draft", d, e))
    BY DEF Uncontended!Write
  <1>2. Uncontended!Drop(R("draft", d, e), R("deleted", d, FALSE))
    BY DEF Uncontended!Drop
  <1>3. Uncontended!HandOver(R("draft", d, e), R("sending", d, FALSE))
    BY DEF Uncontended!HandOver
  <1>4. Uncontended!Bypass(R("draft", 0, e), R("sent", 1, e))
    BY DEF Uncontended!Bypass
  <1>5. Uncontended!Arrive(R("sending", 0, e), R("sending", 1, e))
    BY DEF Uncontended!Arrive
  <1>6. Uncontended!Fail(R("sending", 0, e), R("draft", 0, TRUE))
    BY DEF Uncontended!Fail
  <1>7. Uncontended!Record(R("sending", 1, e), R("sent", 1, FALSE))
    BY DEF Uncontended!Record
  <1> HIDE DEF R
  <1>8. /\ Uncontended!Step(R("none", d, e), R("draft", d, e))
        /\ Uncontended!Step(R("draft", d, e), R("deleted", d, FALSE))
        /\ Uncontended!Step(R("draft", d, e), R("sending", d, FALSE))
        /\ Uncontended!Step(R("draft", 0, e), R("sent", 1, e))
        /\ Uncontended!Step(R("sending", 0, e), R("sending", 1, e))
        /\ Uncontended!Step(R("sending", 0, e), R("draft", 0, TRUE))
        /\ Uncontended!Step(R("sending", 1, e), R("sent", 1, FALSE))
    BY <1>1, <1>2, <1>3, <1>4, <1>5, <1>6, <1>7 DEF Uncontended!Step
  <1> QED
    BY <1>8 DEF R

LEMMA EditLives ==
    ASSUME MailInv, NEW m \in Mails, Owned(m),
           \/ \E k \in Mails : SaveDraft(k)
           \/ \E r \in Requests : SaveEdit(r) \/ Discard(r)
    PROVE  Lives(m)
  <1>1. ASSUME NEW k \in Mails, SaveDraft(k) PROVE Lives(m)
    <2> DEFINE old == rows[k]
               row == [old EXCEPT !.state = "draft"]
    <2>1. rows' = [rows EXCEPT ![k] = row] /\ old.state = "none" /\ UNCHANGED delivered /\ old \in Row
      BY <1>1, Types DEF SaveDraft
    <2> HIDE DEF old
    <2>2. row.state = "draft" /\ row.error = old.error
      BY <2>1 DEF Row
    <2> HIDE DEF row
    <2>3. CASE k # m
      BY <2>1, <2>3, Types DEF Lives, Seen
    <2>4. CASE k = m
      <3>1. /\ rows'[m].state = "draft" /\ rows'[m].error = rows[m].error
            /\ rows[m].state = "none" /\ delivered'[m] = delivered[m]
        BY <2>1, <2>2, <2>4, Types DEF old
      <3>2. Seen(m)' = [phase |-> "draft", delivered |-> delivered[m], error |-> rows[m].error]
        BY <3>1 DEF Seen
      <3> QED
        BY <3>1, <3>2, LifeSteps DEF Lives, Seen
    <2> QED
      BY <2>3, <2>4
  <1>2. ASSUME NEW r \in Requests, SaveEdit(r) PROVE Lives(m)
    <2> DEFINE copy == request[r].copy
               row == [copy EXCEPT !.old = FALSE]
    <2>1. rows' = [rows EXCEPT ![request[r].mail] = row] /\ request[r].at = "loaded" /\ UNCHANGED delivered
      BY <1>2 DEF SaveEdit
    <2>2. copy \in Row
      BY Types DEF Request
    <2>3. row.state = copy.state /\ row.error = copy.error
      BY <2>2 DEF Row
    <2> HIDE DEF row
    <2> QED
      BY <2>1, <2>3, Types DEF Owned, Busy, Lives, Seen
  <1>3. ASSUME NEW r \in Requests, Discard(r) PROVE Lives(m)
    <2> DEFINE row == [Absent EXCEPT !.state = "deleted"]
    <2>1. row.state = "deleted" /\ row.error = FALSE
      BY DEF Absent
    <2>2. rows' = [rows EXCEPT ![request[r].mail] = row] /\ request[r].at = "loaded" /\ UNCHANGED delivered
      BY <1>3 DEF Discard
    <2> HIDE DEF row
    <2>3. CASE request[r].mail # m
      BY <2>2, <2>3, Types DEF Lives, Seen
    <2>4. CASE request[r].mail = m
      <3>1. rows[m].state = "draft"
        BY <2>2, <2>4 DEF Owned, Busy
      <3>2. rows'[m].state = "deleted" /\ rows'[m].error = FALSE /\ delivered'[m] = delivered[m]
        BY <2>1, <2>2, <2>4, Types
      <3>3. Seen(m)' = [phase |-> "deleted", delivered |-> delivered[m], error |-> FALSE]
        BY <3>2 DEF Seen
      <3> QED
        BY <3>1, <3>3, LifeSteps DEF Lives, Seen
    <2> QED
      BY <2>3, <2>4
  <1> QED
    BY <1>1, <1>2, <1>3

\* A row that is to be sent again is not one that was sent: nothing of its
\* mail was delivered as long as a request holds a draft of it.
LEMMA SendLives ==
    ASSUME MailInv, NEW m \in Mails, Owned(m), NEW r \in Requests, BeginSend(r)
    PROVE  Lives(m)
  <1> DEFINE k == request[r].mail
             old == rows[k]
             sent == [old EXCEPT !.state = "sent", !.sent = TRUE]
             sending == [old EXCEPT !.state = "sending", !.error = FALSE, !.overdue = FALSE]
  <1>1. k \in Mails /\ old \in Row /\ request[r].at = "loaded"
    BY Types DEF BeginSend, Request
  <1>2. \/ UNCHANGED <<rows, delivered>>
        \/ rows' = [rows EXCEPT ![k] = sent] /\ request[r].copy.sent
        \/ rows' = [rows EXCEPT ![k] = sent] /\ delivered' = [delivered EXCEPT ![k] = @ + 1]
        \/ rows' = [rows EXCEPT ![k] = sending] /\ UNCHANGED delivered
    BY DEF BeginSend
  <1>3. Busy(r, k) /\ (request[r].copy.sent => delivered[k] > 0)
    BY <1>1 DEF Busy, MailInv, CopiesDelivered
  <1>a. k # m => delivered'[m] = delivered[m]
    BY <1>1, Types DEF BeginSend
  <1> HIDE DEF old
  <1>4. /\ sent.state = "sent" /\ sent.error = old.error
        /\ sending.state = "sending" /\ sending.error = FALSE
    BY <1>1 DEF Row
  <1> HIDE DEF sent, sending
  <1>6. CASE k # m
    BY <1>1, <1>2, <1>a, <1>6, Types DEF Lives, Seen
  <1>7. CASE k = m
    <2>1. delivered[m] = 0 /\ rows[m].state = "draft" /\ ~request[r].copy.sent
      BY <1>1, <1>3, <1>7 DEF Owned
    <2>2. CASE UNCHANGED <<rows, delivered>>
      BY <2>2 DEF Lives, Seen
    <2>3. CASE rows' = [rows EXCEPT ![k] = sent] /\ delivered' = [delivered EXCEPT ![k] = @ + 1]
      <3>1. rows'[m].state = "sent" /\ rows'[m].error = rows[m].error /\ delivered'[m] = 1
        BY <1>4, <1>7, <2>1, <2>3, Types DEF old
      <3>2. Seen(m)' = [phase |-> "sent", delivered |-> 1, error |-> rows[m].error]
        BY <3>1 DEF Seen
      <3> QED
        BY <2>1, <3>2, LifeSteps DEF Lives, Seen
    <2>4. CASE rows' = [rows EXCEPT ![k] = sending] /\ UNCHANGED delivered
      <3>1. rows'[m].state = "sending" /\ rows'[m].error = FALSE /\ delivered'[m] = delivered[m]
        BY <1>4, <1>7, <2>4, Types
      <3>2. Seen(m)' = [phase |-> "sending", delivered |-> delivered[m], error |-> FALSE]
        BY <3>1 DEF Seen
      <3> QED
        BY <2>1, <3>2, LifeSteps DEF Lives, Seen
    <2> QED
      BY <1>2, <2>1, <2>2, <2>3, <2>4
  <1> QED
    BY <1>6, <1>7

\* A failure that is reported, by the broker or by the worker, is one of a
\* mail that is on its way and has not arrived.
LEMMA FailureLives ==
    ASSUME MailInv, NEW m \in Mails, NEW k \in Mails, MarkFailed(k), UNCHANGED delivered,
           k = m => rows[m].state = "sending" /\ delivered[m] = 0
    PROVE  Lives(m)
  <1>1. CASE k # m
    BY <1>1, Failed DEF Lives, Seen
  <1>2. CASE k = m
    <2> DEFINE old == rows[m]
               row == [old EXCEPT !.state = "draft", !.error = TRUE]
    <2>1. old \in Row /\ old.state = "sending" /\ rows' = [rows EXCEPT ![m] = row]
      BY <1>2, Types DEF MarkFailed, Exists, Stored
    <2> HIDE DEF old
    <2>2. row.state = "draft" /\ row.error = TRUE
      BY <2>1 DEF Row
    <2> HIDE DEF row
    <2>3. rows'[m].state = "draft" /\ rows'[m].error = TRUE
      BY <2>1, <2>2, Types
    <2>4. Seen(m)' = [phase |-> "draft", delivered |-> delivered[m], error |-> TRUE]
      BY <2>3 DEF Seen
    <2> QED
      BY <1>2, <2>4, LifeSteps DEF Lives, Seen
  <1> QED
    BY <1>1, <1>2

LEMMA DispatchLives ==
    ASSUME MailInv, NEW m \in Mails, Owned(m), NEW r \in Requests, Dispatch(r)
    PROVE  Lives(m)
  <1> DEFINE k == request[r].mail
  <1>1. k \in Mails /\ request[r].at = "committed" /\ UNCHANGED delivered
        /\ (UNCHANGED rows \/ MarkFailed(k))
    BY Types DEF Dispatch, Request
  <1>2. k = m => rows[m].state = "sending" /\ delivered[m] = 0
    BY <1>1 DEF Owned, Busy
  <1>3. CASE UNCHANGED rows
    BY <1>1, <1>3 DEF Lives, Seen
  <1>4. CASE MarkFailed(k)
    BY <1>1, <1>2, <1>4, FailureLives
  <1> QED
    BY <1>1, <1>3, <1>4

LEMMA WorkerLives ==
    ASSUME MailInv, NEW m \in Mails, Owned(m), NEW t \in Sendings,
           Deliver(t) \/ RecordSent(t) \/ Retry(t) \/ FailDelivery(t) \/ LoseTask(t)
    PROVE  Lives(m)
  <1>1. PICK k \in Mails, n \in 1..MaxSends : t = <<k, n>> /\ t[1] = k
    BY DEF Sendings
  <1>2. k = m =>
          /\ rows[m].state = "sending" /\ delivered[m] <= 1 /\ delivered[m] \in Nat
          /\ tasks[t].at = "queued" => delivered[m] = 0
          /\ tasks[t].at = "delivered" => delivered[m] = 1
    <2>1. tasks[t].at # "none"
      BY DEF Deliver, RecordSent, Retry, FailDelivery, LoseTask
    <2>2. tasks[t].at = "delivered" => delivered[k] > 0
      BY <1>1 DEF MailInv, TasksDelivered
    <2> QED
      BY <1>1, <2>1, <2>2, Types DEF Owned
  <1>3. CASE Deliver(t)
    <2>1. tasks[t].at = "queued" /\ UNCHANGED rows /\ delivered' = [delivered EXCEPT ![k] = @ + 1]
      BY <1>1, <1>3 DEF Deliver
    <2>2. CASE k # m
      BY <2>1, <2>2, Types DEF Lives, Seen
    <2>3. CASE k = m
      <3>1. delivered'[m] = 1 /\ delivered[m] = 0
        BY <1>2, <2>1, <2>3, Types
      <3>2. Seen(m)' = [phase |-> "sending", delivered |-> 1, error |-> rows[m].error]
        BY <1>2, <2>1, <2>3, <3>1 DEF Seen
      <3> QED
        BY <1>2, <2>3, <3>1, <3>2, LifeSteps DEF Lives, Seen
    <2> QED
      BY <2>2, <2>3
  <1>4. CASE RecordSent(t)
    <2> DEFINE old == rows[k]
               row == [old EXCEPT !.state = "sent", !.sent = TRUE, !.error = FALSE]
    <2>1. /\ old \in Row /\ UNCHANGED delivered /\ tasks[t].at = "delivered"
          /\ rows' = IF old.state \in Stored THEN [rows EXCEPT ![k] = row] ELSE rows
      BY <1>1, <1>4, Types DEF RecordSent, MarkSent, Exists
    <2> HIDE DEF old
    <2>2. row.state = "sent" /\ row.error = FALSE
      BY <2>1 DEF Row
    <2> HIDE DEF row
    <2>3. CASE k # m
      BY <2>1, <2>3, Types DEF Lives, Seen
    <2>4. CASE k = m
      <3>1. rows'[m].state = "sent" /\ rows'[m].error = FALSE
        BY <1>2, <2>1, <2>2, <2>4, Types DEF old, Stored
      <3>2. delivered[m] = 1 /\ Seen(m)' = [phase |-> "sent", delivered |-> 1, error |-> FALSE]
        BY <1>2, <2>1, <2>4, <3>1 DEF Seen
      <3> QED
        BY <1>2, <2>4, <3>2, LifeSteps DEF Lives, Seen
    <2> QED
      BY <2>3, <2>4
  <1>5. CASE FailDelivery(t)
    BY <1>1, <1>2, <1>5, FailureLives DEF FailDelivery
  <1>6. CASE Retry(t) \/ LoseTask(t)
    BY <1>6 DEF Retry, LoseTask, Lives, Seen
  <1> QED
    BY <1>3, <1>4, <1>5, <1>6

LEMMA HourLives == ASSUME MailInv, NEW m \in Mails, HourGoesBy PROVE Lives(m)
  <1> DEFINE old == rows[m]
             row == [old EXCEPT !.old = TRUE, !.overdue = (old.state = "sending")]
  <1>1. old \in Row /\ rows'[m] \in {old, row} /\ UNCHANGED delivered
    BY Types DEF HourGoesBy
  <1> HIDE DEF old
  <1>2. row.state = old.state /\ row.error = old.error
    BY <1>1 DEF Row
  <1> HIDE DEF row
  <1> QED
    BY <1>1, <1>2 DEF old, Lives, Seen

\* A request gets hold of a mail only by loading it, and only as a draft.
LEMMA OnlyLoads ==
    ASSUME MailInv, MailNext, NEW m \in Mails, NEW r \in Requests, Busy(r, m)', ~Busy(r, m)
    PROVE  rows[m].state = "draft"
  <1>1. ASSUME UNCHANGED request PROVE FALSE
    BY <1>1 DEF Busy
  <1>2. ASSUME NEW s \in Requests, Finish(s) PROVE FALSE
    BY <1>2, Finished DEF Busy
  <1>3. ASSUME NEW s \in Requests, NEW k \in Mails, Load(s, k) PROVE rows[m].state = "draft"
    <2>1. \/ r = s /\ request'[r].mail = k
          \/ request'[r] = request[r]
      BY <1>3, Types DEF Load
    <2> QED
      BY <1>3, <2>1 DEF Load, Busy
  <1>4. ASSUME NEW s \in Requests, BeginSend(s) PROVE FALSE
    <2> DEFINE req == request[s]
               commit == [req EXCEPT !.at = "committed"]
    <2>1. Finish(s) \/ (req.at = "loaded" /\ request' = [request EXCEPT ![s] = commit])
      BY <1>4 DEF BeginSend
    <2>2. req \in Request
      BY Types
    <2> HIDE DEF req
    <2>3. commit.mail = req.mail
      BY <2>2 DEF Request
    <2> HIDE DEF commit
    <2>4. CASE req.at = "loaded" /\ request' = [request EXCEPT ![s] = commit]
      BY <2>3, <2>4, Types DEF Busy, req
    <2> QED
      BY <1>2, <2>1, <2>4
  <1>5. ASSUME NEW s \in Requests, SaveEdit(s) \/ Discard(s) \/ Abandon(s) \/ Dispatch(s) PROVE FALSE
    BY <1>1, <1>2, <1>5 DEF SaveEdit, Discard, Abandon, Dispatch
  <1>6. ASSUME NEW t \in Sendings,
               Deliver(t) \/ RecordSent(t) \/ Retry(t) \/ FailDelivery(t) \/ LoseTask(t)
        PROVE  FALSE
    BY <1>1, <1>6 DEF Deliver, RecordSent, Retry, FailDelivery, LoseTask
  <1>7. ASSUME HourGoesBy \/ Expire \/ \E k \in Mails : SaveDraft(k) PROVE FALSE
    BY <1>1, <1>7 DEF HourGoesBy, Expire, SaveDraft
  <1> QED
    BY <1>3, <1>4, <1>5, <1>6, <1>7 DEF MailNext

\* Only a draft or a mail on its way is contended for: what was sent or
\* discarded is out of reach.
LEMMA ContendedEarly ==
    ASSUME MailInv, MailNext, NEW m \in Mails, Owned(m), Contends(m)
    PROVE  rows[m].state \in {"draft", "sending"}
  <1>1. CASE \E r, s \in Requests :
               r # s /\ \A q \in {r, s} : request'[q].at # "idle" /\ request'[q].mail = m
    <2>1. PICK r, s \in Requests : r # s /\ Busy(r, m)' /\ Busy(s, m)'
      BY <1>1 DEF Busy
    <2>2. ~Busy(r, m) \/ ~Busy(s, m)
      BY <2>1 DEF Owned
    <2> QED
      BY <2>1, <2>2, OnlyLoads
  <1>2. CASE rows[m].state = "sending"
    BY <1>2
  <1> QED
    BY <1>1, <1>2 DEF Contends

\* The step of a mail that nobody contends for.
LEMMA NextLives ==
    ASSUME MailInv, MailNext, NEW m \in Mails, Owned(m), ~Contends(m)
    PROVE  Lives(m)
  <1>1. CASE Expire
    <2>1. rows'[m] = rows[m] /\ UNCHANGED delivered
      BY <1>1, Expired DEF Contends, Expire
    <2> QED
      BY <2>1 DEF Lives, Seen
  <1>2. CASE HourGoesBy
    BY <1>2, HourLives
  <1>3. ASSUME NEW r \in Requests, Abandon(r) \/ \E k \in Mails : Load(r, k) PROVE Lives(m)
    BY <1>3 DEF Abandon, Load, Lives, Seen
  <1> QED
    BY <1>1, <1>2, <1>3, EditLives, SendLives, DispatchLives, WorkerLives DEF MailNext

\* What MailLife is told of the mail m.
Told(m) ==
    IF m \in contended
    THEN [phase |-> "contended", delivered |-> 0, error |-> FALSE]
    ELSE Seen(m)

\* Without contention the outbox implements MailLife.
THEOREM OutboxImplements == ContentionSpec => ImplementsMailLife
  <1> DEFINE life == [m \in Mails |-> Told(m)]
  <1>1. ContentionInit => Uncontended!LifeInit
    BY AbsentType DEF ContentionInit, MailInit, Uncontended!LifeInit, Uncontended!Unwritten, Absent
  <1>2. ASSUME OwnedInv, OwnedInv', ContentionNext PROVE Uncontended!LifeNext
    <2>1. /\ MailInv /\ MailNext /\ contended \subseteq contended'
          /\ \A m \in Mails : m \in contended' <=> m \in contended \/ Contends(m)
      BY <1>2 DEF OwnedInv, ContentionNext
    <2>2. ASSUME NEW m \in Mails PROVE Told(m)' \in Uncontended!Life
      <3>1. CASE m \in contended'
        BY <3>1 DEF Told, Uncontended!Life, Uncontended!Phases
      <3>2. CASE m \notin contended'
        <4>1. MailInv' /\ Owned(m)'
          BY <1>2, <3>2 DEF OwnedInv
        <4>2. rows'[m] \in Row /\ delivered'[m] \in Nat /\ delivered'[m] <= 1
          BY <4>1 DEF MailInv, MailTypeOK, Owned
        <4>3. rows'[m].state \in Uncontended!Phases /\ rows'[m].error \in BOOLEAN /\ delivered'[m] \in 0..1
          BY <4>2 DEF Row, Stored, Uncontended!Phases
        <4> QED
          BY <3>2, <4>3 DEF Told, Seen, Uncontended!Life
      <3> QED
        BY <3>1, <3>2
    <2>3. ASSUME NEW m \in Mails PROVE Told(m)' = Told(m) \/ Uncontended!Step(Told(m), Told(m)')
      <3>1. CASE m \in contended
        BY <2>1, <3>1 DEF Told
      <3>2. CASE m \notin contended /\ Contends(m)
        <4>1. rows[m].state \in {"draft", "sending"}
          BY <1>2, <2>1, <3>2, ContendedEarly DEF OwnedInv
        <4> QED
          BY <2>1, <3>2, <4>1 DEF Told, Seen, Uncontended!Step, Uncontended!Contend, Uncontended!Contended
      <3>3. CASE m \notin contended /\ ~Contends(m)
        <4>1. Lives(m)
          BY <1>2, <2>1, <3>3, NextLives DEF OwnedInv
        <4>2. Told(m) = Seen(m) /\ Told(m)' = Seen(m)'
          BY <2>1, <3>3 DEF Told
        <4> QED
          BY <4>1, <4>2 DEF Lives
      <3> QED
        BY <3>1, <3>2, <3>3
    <2> QED
      BY <2>2, <2>3 DEF Uncontended!LifeNext, Told, Seen
  <1>3. UNCHANGED contentionVars => UNCHANGED [m \in Mails |->
           IF m \in contended
           THEN [phase |-> "contended", delivered |-> 0, error |-> FALSE]
           ELSE [phase |-> rows[m].state, delivered |-> delivered[m], error |-> rows[m].error]]
    BY DEF contentionVars
  <1> QED
    BY <1>1, <1>2, <1>3, OneOwner, PTL DEF ContentionSpec, ImplementsMailLife, Uncontended!LifeSpec

\* The history variable changes nothing: what is proved of MailOutbox holds
\* of MailContention.
THEOREM ContentionImplementsOutbox == ContentionSpec => MailSpec
  <1>1. ContentionInit => MailInit
    BY DEF ContentionInit
  <1>2. [ContentionNext]_contentionVars => [MailNext]_mailVars
    BY DEF ContentionNext, contentionVars, mailVars
  <1> QED
    BY <1>1, <1>2, PTL DEF ContentionSpec, MailSpec

=============================================================================
