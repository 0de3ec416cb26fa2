-------------------------- MODULE MailOutbox_proofs --------------------------
(***************************************************************************)
(* Proofs about MailOutbox, for every number of mails, requests, sends and *)
(* retries.                                                                *)
(*                                                                         *)
(* A row can become SENT in the worker, through a plugin, or from a copy   *)
(* whose `sent` is set already; MailInv says of each of the places where   *)
(* such knowledge waits - the row, the copies, the finished tasks - that   *)
(* the mail was delivered.  Copies are always copies of drafts, so that an *)
(* edit saved late cannot bring back SENT.                                 *)
(***************************************************************************)
EXTENDS MailOutbox, FiniteSets, FiniteSetTheorems, TLAPS

RowsDelivered ==
    \A m \in Mails : rows[m].state = "sent" \/ rows[m].sent => delivered[m] > 0

CopiesDelivered ==
    \A r \in Requests :
        /\ request[r].copy.state \in {"none", "draft"}
        /\ request[r].copy.sent => delivered[request[r].mail] > 0

TasksDelivered ==
    \A t \in Sendings : tasks[t].at = "delivered" => delivered[t[1]] > 0

MailInv == MailTypeOK /\ RowsDelivered /\ CopiesDelivered /\ TasksDelivered

-----------------------------------------------------------------------------
\* The row that is not there is a row.
LEMMA AbsentType == Absent \in Row /\ ~Absent.sent /\ Absent.state = "none"
  BY DEF Absent, Row, Stored

\* An outbox that was never used satisfies MailInv.
LEMMA MailInitInv == MailInit => MailInv
  <1> SUFFICES ASSUME MailInit PROVE MailInv
    OBVIOUS
  <1> USE DEF MailInit
  <1>1. PICK m \in Mails :
          request = [r \in Requests |-> [at |-> "idle", mail |-> m, copy |-> Absent]]
    OBVIOUS
  <1>2. request \in [Requests -> Request]
    BY <1>1, AbsentType DEF Request
  <1>3. tasks \in [Sendings -> Task]
    BY MailBounds DEF Task, NoTask
  <1>4. MailTypeOK
    BY <1>2, <1>3, AbsentType, MailBounds DEF MailTypeOK
  <1>5. RowsDelivered
    BY AbsentType DEF RowsDelivered
  <1>6. CopiesDelivered
    BY <1>1, AbsentType DEF CopiesDelivered
  <1>7. TasksDelivered
    BY DEF TasksDelivered, NoTask
  <1> QED
    BY <1>4, <1>5, <1>6, <1>7 DEF MailInv

\* The invariant only looks at these parts of a step.
LEMMA RowsStep ==
    ASSUME MailInv, NEW m \in Mails, NEW row \in Row,
           rows' = [rows EXCEPT ![m] = row],
           row.state = "sent" \/ row.sent => delivered'[m] > 0,
           delivered' \in [Mails -> Nat], \A k \in Mails : delivered'[k] >= delivered[k]
    PROVE  rows' \in [Mails -> Row] /\ RowsDelivered'
  <1>1. rows \in [Mails -> Row]
    BY DEF MailInv, MailTypeOK
  <1>2. rows' \in [Mails -> Row]
    BY <1>1
  <1>3. rows'[m] = row /\ \A k \in Mails : k # m => rows'[k] = rows[k]
    BY <1>1
  <1>4. ASSUME NEW k \in Mails, rows'[k].state = "sent" \/ rows'[k].sent
        PROVE  delivered'[k] > 0
    <2>1. CASE k = m
      BY <2>1, <1>3, <1>4
    <2>2. CASE k # m
      <3>1. delivered[k] > 0
        BY <2>2, <1>3, <1>4 DEF MailInv, RowsDelivered
      <3>2. delivered[k] \in Nat /\ delivered'[k] \in Nat /\ delivered'[k] >= delivered[k]
        BY DEF MailInv, MailTypeOK
      <3> QED
        BY <3>1, <3>2
    <2> QED
      BY <2>1, <2>2
  <1> QED
    BY <1>2, <1>4 DEF RowsDelivered

\* A step that leaves rows, copies or tasks alone keeps their conjunct when
\* deliveries only grow.
LEMMA Kept ==
    ASSUME MailInv,
           delivered' \in [Mails -> Nat], \A k \in Mails : delivered'[k] >= delivered[k]
    PROVE  /\ UNCHANGED rows => rows' \in [Mails -> Row] /\ RowsDelivered'
           /\ UNCHANGED request =>
                 request' \in [Requests -> Request] /\ CopiesDelivered'
           /\ UNCHANGED tasks => tasks' \in [Sendings -> Task] /\ TasksDelivered'
  <1>1. ASSUME NEW k \in Mails, delivered[k] > 0
        PROVE  delivered'[k] > 0
    <2>1. delivered[k] \in Nat /\ delivered'[k] \in Nat /\ delivered'[k] >= delivered[k]
      BY DEF MailInv, MailTypeOK
    <2> QED
      BY <1>1, <2>1
  <1>2. ASSUME UNCHANGED rows
        PROVE  rows' \in [Mails -> Row] /\ RowsDelivered'
    BY <1>1, <1>2 DEF MailInv, MailTypeOK, RowsDelivered
  <1>3. ASSUME UNCHANGED request
        PROVE  request' \in [Requests -> Request] /\ CopiesDelivered'
    <2>1. \A r \in Requests : request[r].mail \in Mails
      BY DEF MailInv, MailTypeOK, Request
    <2> QED
      BY <1>1, <1>3, <2>1 DEF MailInv, MailTypeOK, CopiesDelivered
  <1>4. ASSUME UNCHANGED tasks
        PROVE  tasks' \in [Sendings -> Task] /\ TasksDelivered'
    <2>1. \A t \in Sendings : t[1] \in Mails
      BY DEF Sendings
    <2> QED
      BY <1>1, <1>4, <2>1 DEF MailInv, MailTypeOK, TasksDelivered
  <1> QED
    BY <1>2, <1>3, <1>4

\* A task that changes is only DELIVERED when its mail is.
LEMMA TasksStep ==
    ASSUME MailInv, NEW t \in Sendings, NEW task \in Task,
           tasks' = [tasks EXCEPT ![t] = task],
           task.at = "delivered" => delivered'[t[1]] > 0,
           delivered' \in [Mails -> Nat], \A k \in Mails : delivered'[k] >= delivered[k]
    PROVE  tasks' \in [Sendings -> Task] /\ TasksDelivered'
  <1>1. tasks \in [Sendings -> Task]
    BY DEF MailInv, MailTypeOK
  <1>2. tasks' \in [Sendings -> Task]
    BY <1>1
  <1>3. tasks'[t] = task /\ \A u \in Sendings : u # t => tasks'[u] = tasks[u]
    BY <1>1
  <1>4. ASSUME NEW u \in Sendings, tasks'[u].at = "delivered"
        PROVE  delivered'[u[1]] > 0
    <2>1. CASE u = t
      BY <2>1, <1>3, <1>4
    <2>2. CASE u # t
      <3>1. u[1] \in Mails
        BY DEF Sendings
      <3>2. delivered[u[1]] > 0
        BY <2>2, <1>3, <1>4 DEF MailInv, TasksDelivered
      <3>3. /\ delivered[u[1]] \in Nat /\ delivered'[u[1]] \in Nat
            /\ delivered'[u[1]] >= delivered[u[1]]
        BY <3>1 DEF MailInv, MailTypeOK
      <3> QED
        BY <3>2, <3>3
    <2> QED
      BY <2>1, <2>2
  <1> QED
    BY <1>2, <1>4 DEF TasksDelivered

\* A request that changes without finishing keeps a copy that is not SENT.
LEMMA RequestStep ==
    ASSUME MailInv, NEW r \in Requests, NEW req \in Request,
           request' = [request EXCEPT ![r] = req],
           req.copy.state \in {"none", "draft"}, req.copy.sent => delivered'[req.mail] > 0,
           delivered' \in [Mails -> Nat], \A k \in Mails : delivered'[k] >= delivered[k]
    PROVE  request' \in [Requests -> Request] /\ CopiesDelivered'
  <1>1. request \in [Requests -> Request]
    BY DEF MailInv, MailTypeOK
  <1>2. request' \in [Requests -> Request]
    BY <1>1
  <1>3. request'[r] = req /\ \A q \in Requests : q # r => request'[q] = request[q]
    BY <1>1
  <1>4. ASSUME NEW q \in Requests
        PROVE  /\ request'[q].copy.state \in {"none", "draft"}
               /\ request'[q].copy.sent => delivered'[request'[q].mail] > 0
    <2>1. CASE q = r
      BY <2>1, <1>3
    <2>2. CASE q # r
      <3>1. request[q].mail \in Mails
        BY <1>1 DEF Request
      <3>2. /\ delivered[request[q].mail] \in Nat /\ delivered'[request[q].mail] \in Nat
            /\ delivered'[request[q].mail] >= delivered[request[q].mail]
        BY <3>1 DEF MailInv, MailTypeOK
      <3>3. /\ request[q].copy.state \in {"none", "draft"}
            /\ request[q].copy.sent => delivered[request[q].mail] > 0
        BY DEF MailInv, CopiesDelivered
      <3> QED
        BY <2>2, <1>3, <3>2, <3>3
    <2> QED
      BY <2>1, <2>2
  <1> QED
    BY <1>2, <1>4 DEF CopiesDelivered

\* A request that finishes forgets its copy.
LEMMA FinishStep ==
    ASSUME MailInv, NEW r \in Requests, Finish(r),
           delivered' \in [Mails -> Nat], \A k \in Mails : delivered'[k] >= delivered[k]
    PROVE  request' \in [Requests -> Request] /\ CopiesDelivered'
  <1> DEFINE idle == [request[r] EXCEPT !.at = "idle", !.copy = Absent]
  <1>1. request[r] \in Request
    BY DEF MailInv, MailTypeOK
  <1>2. idle \in Request /\ idle.copy = Absent
    BY <1>1, AbsentType DEF Request
  <1>3. request' = [request EXCEPT ![r] = idle]
    BY DEF Finish
  <1> HIDE DEF idle
  <1> QED
    BY <1>2, <1>3, AbsentType, RequestStep

\* Deliveries that stay the same satisfy what the lemmas above ask for.
LEMMA SameDeliveries ==
    ASSUME MailInv, UNCHANGED delivered
    PROVE  delivered' \in [Mails -> Nat] /\ \A k \in Mails : delivered'[k] >= delivered[k]
  BY DEF MailInv, MailTypeOK

\* One more delivery of m counts as delivered.
LEMMA MoreDeliveries ==
    ASSUME MailInv, NEW m \in Mails, delivered' = [delivered EXCEPT ![m] = @ + 1]
    PROVE  /\ delivered' \in [Mails -> Nat]
           /\ \A k \in Mails : delivered'[k] >= delivered[k]
           /\ delivered'[m] > 0
  BY DEF MailInv, MailTypeOK

\* Another send below the bound keeps the type of `sends`.
LEMMA MoreSends ==
    ASSUME MailInv, NEW m \in Mails, sends[m] < MaxSends,
           sends' = [sends EXCEPT ![m] = @ + 1]
    PROVE  sends' \in [Mails -> 0..MaxSends]
  BY MailBounds DEF MailInv, MailTypeOK

\* The parts of the invariant in the form the lemmas about steps give them.
LEMMA Assemble ==
    ASSUME rows' \in [Mails -> Row] /\ RowsDelivered',
           request' \in [Requests -> Request] /\ CopiesDelivered',
           tasks' \in [Sendings -> Task] /\ TasksDelivered',
           sends' \in [Mails -> 0..MaxSends], delivered' \in [Mails -> Nat]
    PROVE  MailInv'
  BY DEF MailInv, MailTypeOK

\* What each type says of one element.
LEMMA Elements ==
    ASSUME MailInv
    PROVE  /\ \A m \in Mails : rows[m] \in Row
           /\ \A r \in Requests : request[r] \in Request /\ request[r].mail \in Mails
           /\ \A t \in Sendings : tasks[t] \in Task /\ t[1] \in Mails
           /\ sends \in [Mails -> 0..MaxSends]
  BY DEF MailInv, MailTypeOK, Request, Sendings

\* Marking a row keeps RowsDelivered, whether or not the row is there.
LEMMA MarkFailedStep ==
    ASSUME MailInv, NEW m \in Mails, MarkFailed(m),
           delivered' \in [Mails -> Nat], \A k \in Mails : delivered'[k] >= delivered[k]
    PROVE  rows' \in [Mails -> Row] /\ RowsDelivered'
  <1> DEFINE row == [rows[m] EXCEPT !.state = "draft", !.error = TRUE]
  <1>1. CASE ~Exists(m)
    BY <1>1, Kept DEF MarkFailed
  <1>2. CASE Exists(m)
    <2>1. row \in Row /\ row.state = "draft" /\ row.sent = rows[m].sent
      BY Elements DEF Row, Stored
    <2>2. rows' = [rows EXCEPT ![m] = row]
      BY <1>2 DEF MarkFailed
    <2>3. row.sent => delivered'[m] > 0
      <3>1. /\ delivered[m] \in Nat /\ delivered'[m] \in Nat /\ delivered'[m] >= delivered[m]
            /\ rows[m].sent => delivered[m] > 0
        BY DEF MailInv, MailTypeOK, RowsDelivered
      <3> QED
        BY <2>1, <3>1
    <2> HIDE DEF row
    <2> QED
      BY <2>1, <2>2, <2>3, RowsStep
  <1> QED
    BY <1>1, <1>2

\* Marking a row as sent is fine once its mail was delivered.
LEMMA MarkSentStep ==
    ASSUME MailInv, NEW m \in Mails, MarkSent(m), delivered'[m] > 0,
           delivered' \in [Mails -> Nat], \A k \in Mails : delivered'[k] >= delivered[k]
    PROVE  rows' \in [Mails -> Row] /\ RowsDelivered'
  <1> DEFINE row == [rows[m] EXCEPT !.state = "sent", !.sent = TRUE, !.error = FALSE]
  <1>1. CASE ~Exists(m)
    BY <1>1, Kept DEF MarkSent
  <1>2. CASE Exists(m)
    <2>1. row \in Row
      BY Elements DEF Row, Stored
    <2>2. rows' = [rows EXCEPT ![m] = row]
      BY <1>2 DEF MarkSent
    <2> HIDE DEF row
    <2> QED
      BY <2>1, <2>2, RowsStep
  <1> QED
    BY <1>1, <1>2

-----------------------------------------------------------------------------
(* One lemma per action.                                                   *)

\* A new draft has not been sent.
LEMMA SaveDraftInv == ASSUME MailInv, NEW m \in Mails, SaveDraft(m) PROVE MailInv'
  <1> DEFINE row == [rows[m] EXCEPT !.state = "draft"]
  <1>1. row \in Row /\ row.state = "draft" /\ row.sent = rows[m].sent
    BY Elements DEF Row, Stored
  <1>2. rows' = [rows EXCEPT ![m] = row]
    BY DEF SaveDraft
  <1>3. UNCHANGED <<request, tasks, sends, delivered>>
    BY DEF SaveDraft
  <1>4. row.sent => delivered'[m] > 0
    BY <1>1, <1>3 DEF MailInv, RowsDelivered
  <1> HIDE DEF row
  <1>5. rows' \in [Mails -> Row] /\ RowsDelivered'
    BY <1>1, <1>2, <1>3, <1>4, SameDeliveries, RowsStep
  <1> QED
    BY <1>3, <1>5, SameDeliveries, Kept, Elements, Assemble

\* A copy is made of a draft and knows no more than the row.
LEMMA LoadInv ==
    ASSUME MailInv, NEW r \in Requests, NEW m \in Mails, Load(r, m) PROVE MailInv'
  <1> DEFINE req == [at |-> "loaded", mail |-> m, copy |-> rows[m]]
  <1>1. req \in Request /\ req.copy = rows[m] /\ req.mail = m
    BY Elements DEF Request
  <1>2. request' = [request EXCEPT ![r] = req]
    BY DEF Load
  <1>3. UNCHANGED <<rows, tasks, sends, delivered>> /\ rows[m].state = "draft"
    BY DEF Load
  <1>4. rows[m].sent => delivered'[m] > 0
    BY <1>3 DEF MailInv, RowsDelivered
  <1> HIDE DEF req
  <1>5. request' \in [Requests -> Request] /\ CopiesDelivered'
    BY <1>1, <1>2, <1>3, <1>4, SameDeliveries, RequestStep
  <1> QED
    BY <1>3, <1>5, SameDeliveries, Kept, Elements, Assemble

\* Saving a whole old copy may undo SENT, but never brings it back.
LEMMA SaveEditInv == ASSUME MailInv, NEW r \in Requests, SaveEdit(r) PROVE MailInv'
  <1> DEFINE row == [request[r].copy EXCEPT !.old = FALSE]
             m == request[r].mail
  <1>1. m \in Mails /\ request[r].copy \in Row
    BY Elements DEF Request
  <1>2. row \in Row /\ row.state = request[r].copy.state /\ row.sent = request[r].copy.sent
    BY <1>1 DEF Row
  <1>3. rows' = [rows EXCEPT ![m] = row] /\ UNCHANGED <<request, tasks, sends, delivered>>
    BY DEF SaveEdit
  <1>4. row.state # "sent" /\ (row.sent => delivered'[m] > 0)
    BY <1>2, <1>3 DEF MailInv, CopiesDelivered
  <1> HIDE DEF row, m
  <1>5. rows' \in [Mails -> Row] /\ RowsDelivered'
    BY <1>1, <1>2, <1>3, <1>4, SameDeliveries, RowsStep
  <1> QED
    BY <1>3, <1>5, SameDeliveries, Kept, Elements, Assemble

\* Discarding a mail deletes its row.
LEMMA DiscardInv == ASSUME MailInv, NEW r \in Requests, Discard(r) PROVE MailInv'
  <1> DEFINE row == [Absent EXCEPT !.state = "deleted"]
             m == request[r].mail
  <1>1. m \in Mails
    BY Elements
  <1>2. row \in Row /\ row.state = "deleted" /\ ~row.sent
    BY DEF Absent, Row, Stored
  <1>3. rows' = [rows EXCEPT ![m] = row] /\ UNCHANGED <<tasks, sends, delivered>>
    BY DEF Discard
  <1> HIDE DEF row, m
  <1>4. rows' \in [Mails -> Row] /\ RowsDelivered'
    BY <1>1, <1>2, <1>3, SameDeliveries, RowsStep
  <1>5. request' \in [Requests -> Request] /\ CopiesDelivered'
    BY <1>3, SameDeliveries, FinishStep DEF Discard
  <1> QED
    BY <1>3, <1>4, <1>5, SameDeliveries, Kept, Elements, Assemble

\* A request that stops changes nothing.
LEMMA AbandonInv == ASSUME MailInv, NEW r \in Requests, Abandon(r) PROVE MailInv'
  <1>1. UNCHANGED <<rows, tasks, sends, delivered>>
    BY DEF Abandon
  <1>2. request' \in [Requests -> Request] /\ CopiesDelivered'
    BY <1>1, SameDeliveries, FinishStep DEF Abandon
  <1> QED
    BY <1>1, <1>2, SameDeliveries, Kept, Elements, Assemble

\* Telling the worker, or failing to, delivers nothing.
LEMMA DispatchInv == ASSUME MailInv, NEW r \in Requests, Dispatch(r) PROVE MailInv'
  <1> DEFINE m == request[r].mail
  <1>1. m \in Mails /\ sends[m] \in 0..MaxSends
    BY Elements
  <1>2. UNCHANGED <<sends, delivered>>
    BY DEF Dispatch
  <1>3. request' \in [Requests -> Request] /\ CopiesDelivered'
    BY <1>2, SameDeliveries, FinishStep DEF Dispatch
  <1>4. CASE /\ \E t \in {m} \X (1..sends[m]) : tasks' = [tasks EXCEPT ![t].at = "queued"]
             /\ UNCHANGED rows
    <2>1. PICK t \in {m} \X (1..sends[m]) : tasks' = [tasks EXCEPT ![t].at = "queued"]
      BY <1>4
    <2> DEFINE task == [tasks[t] EXCEPT !.at = "queued"]
    <2>2. t \in Sendings
      BY <1>1, MailBounds DEF Sendings
    <2>3. task \in Task /\ task.at = "queued"
      BY <2>2, Elements DEF Task
    <2>4. tasks' = [tasks EXCEPT ![t] = task]
      BY <2>1
    <2> HIDE DEF task
    <2>5. tasks' \in [Sendings -> Task] /\ TasksDelivered'
      BY <2>2, <2>3, <2>4, <1>2, SameDeliveries, TasksStep
    <2> QED
      BY <1>2, <1>3, <1>4, <2>5, SameDeliveries, Kept, Elements, Assemble
  <1>5. CASE MarkFailed(m) /\ UNCHANGED tasks
    <2>1. rows' \in [Mails -> Row] /\ RowsDelivered'
      BY <1>1, <1>2, <1>5, SameDeliveries, MarkFailedStep
    <2> QED
      BY <1>2, <1>3, <1>5, <2>1, SameDeliveries, Kept, Elements, Assemble
  <1> QED
    BY <1>4, <1>5 DEF Dispatch

\* A delivered task knows that its mail was delivered.
LEMMA DeliverInv == ASSUME MailInv, NEW t \in Sendings, Deliver(t) PROVE MailInv'
  <1> DEFINE task == [tasks[t] EXCEPT !.at = "delivered"]
  <1>1. task \in Task
    BY Elements DEF Task
  <1>2. tasks' = [tasks EXCEPT ![t] = task] /\ UNCHANGED <<rows, request, sends>>
    BY DEF Deliver
  <1>3. /\ delivered' \in [Mails -> Nat] /\ delivered'[t[1]] > 0
        /\ \A k \in Mails : delivered'[k] >= delivered[k]
    BY Elements, MoreDeliveries DEF Deliver
  <1> HIDE DEF task
  <1>4. tasks' \in [Sendings -> Task] /\ TasksDelivered'
    BY <1>1, <1>2, <1>3, TasksStep
  <1> QED
    BY <1>2, <1>3, <1>4, Kept, Elements, Assemble

\* A task that ends is not DELIVERED.
LEMMA NoTaskStep ==
    ASSUME MailInv, NEW t \in Sendings, tasks' = [tasks EXCEPT ![t] = NoTask],
           UNCHANGED delivered
    PROVE  tasks' \in [Sendings -> Task] /\ TasksDelivered'
  <1>1. NoTask \in Task /\ NoTask.at = "none"
    BY MailBounds DEF NoTask, Task
  <1> QED
    BY <1>1, SameDeliveries, TasksStep

\* The worker records SENT after its own delivery.
LEMMA RecordSentInv == ASSUME MailInv, NEW t \in Sendings, RecordSent(t) PROVE MailInv'
  <1>1. UNCHANGED <<request, sends, delivered>> /\ t[1] \in Mails
    BY Elements DEF RecordSent
  <1>2. delivered'[t[1]] > 0
    BY <1>1 DEF RecordSent, MailInv, TasksDelivered
  <1>3. rows' \in [Mails -> Row] /\ RowsDelivered'
    BY <1>1, <1>2, SameDeliveries, MarkSentStep DEF RecordSent
  <1>4. tasks' \in [Sendings -> Task] /\ TasksDelivered'
    BY <1>1, NoTaskStep DEF RecordSent
  <1> QED
    BY <1>1, <1>3, <1>4, SameDeliveries, Kept, Elements, Assemble

\* A retry below the bound leaves the task queued.
LEMMA RetryInv == ASSUME MailInv, NEW t \in Sendings, Retry(t) PROVE MailInv'
  <1> DEFINE task == [tasks[t] EXCEPT !.retries = @ + 1]
  <1>1. task \in Task /\ task.at = "queued"
    BY Elements, MailBounds DEF Retry, Task
  <1>2. tasks' = [tasks EXCEPT ![t] = task] /\ UNCHANGED <<rows, request, sends, delivered>>
    BY DEF Retry
  <1> HIDE DEF task
  <1>3. tasks' \in [Sendings -> Task] /\ TasksDelivered'
    BY <1>1, <1>2, SameDeliveries, TasksStep
  <1> QED
    BY <1>2, <1>3, SameDeliveries, Kept, Elements, Assemble

\* A failed delivery returns the mail to the outbox and ends the task.
LEMMA FailDeliveryInv == ASSUME MailInv, NEW t \in Sendings, FailDelivery(t) PROVE MailInv'
  <1>1. UNCHANGED <<request, sends, delivered>> /\ t[1] \in Mails
    BY Elements DEF FailDelivery
  <1>2. rows' \in [Mails -> Row] /\ RowsDelivered'
    BY <1>1, SameDeliveries, MarkFailedStep DEF FailDelivery
  <1>3. tasks' \in [Sendings -> Task] /\ TasksDelivered'
    BY <1>1, NoTaskStep DEF FailDelivery
  <1> QED
    BY <1>1, <1>2, <1>3, SameDeliveries, Kept, Elements, Assemble

\* A lost task leaves the mail as it is.
LEMMA LoseTaskInv == ASSUME MailInv, NEW t \in Sendings, LoseTask(t) PROVE MailInv'
  <1>1. UNCHANGED <<rows, request, sends, delivered>>
    BY DEF LoseTask
  <1>2. tasks' \in [Sendings -> Task] /\ TasksDelivered'
    BY <1>1, NoTaskStep DEF LoseTask
  <1> QED
    BY <1>1, <1>2, SameDeliveries, Kept, Elements, Assemble

\* The transaction of send_draft: each of its four outcomes.
LEMMA BeginSendInv == ASSUME MailInv, NEW r \in Requests, BeginSend(r) PROVE MailInv'
  <1> DEFINE m == request[r].mail
             sent == [rows[m] EXCEPT !.state = "sent", !.sent = TRUE]
             sending == [rows[m] EXCEPT !.state = "sending", !.error = FALSE,
                                        !.overdue = FALSE]
  <1>1. m \in Mails /\ rows[m] \in Row /\ UNCHANGED tasks /\ sends[m] < MaxSends
    BY Elements DEF BeginSend
  <1>2. sent \in Row
    BY <1>1 DEF Row, Stored
  <1>3. sending \in Row /\ sending.state = "sending" /\ sending.sent = rows[m].sent
    BY <1>1 DEF Row, Stored
  <1>4. CASE Finish(r) /\ UNCHANGED <<rows, sends, delivered>>
    <2>1. request' \in [Requests -> Request] /\ CopiesDelivered'
      BY <1>4, SameDeliveries, FinishStep
    <2> QED
      BY <1>1, <1>4, <2>1, SameDeliveries, Kept, Elements, Assemble
  <1>5. CASE /\ request[r].copy.sent /\ Finish(r) /\ UNCHANGED <<sends, delivered>>
             /\ rows' = [rows EXCEPT ![m] = sent]
    <2>1. request' \in [Requests -> Request] /\ CopiesDelivered'
      BY <1>5, SameDeliveries, FinishStep
    <2>2. delivered'[m] > 0
      BY <1>5 DEF MailInv, CopiesDelivered
    <2> HIDE DEF sent
    <2>3. rows' \in [Mails -> Row] /\ RowsDelivered'
      BY <1>1, <1>2, <1>5, <2>2, SameDeliveries, RowsStep
    <2> QED
      BY <1>1, <1>5, <2>1, <2>3, SameDeliveries, Kept, Elements, Assemble
  <1>6. CASE /\ rows' = [rows EXCEPT ![m] = sent]
             /\ sends' = [sends EXCEPT ![m] = @ + 1]
             /\ delivered' = [delivered EXCEPT ![m] = @ + 1]
             /\ Finish(r)
    <2>1. /\ delivered' \in [Mails -> Nat] /\ delivered'[m] > 0
          /\ \A k \in Mails : delivered'[k] >= delivered[k]
      BY <1>1, <1>6, MoreDeliveries
    <2>2. request' \in [Requests -> Request] /\ CopiesDelivered'
      BY <1>6, <2>1, FinishStep
    <2>3. sends' \in [Mails -> 0..MaxSends]
      BY <1>1, <1>6, MoreSends
    <2> HIDE DEF sent
    <2>4. rows' \in [Mails -> Row] /\ RowsDelivered'
      BY <1>1, <1>2, <1>6, <2>1, RowsStep
    <2> QED
      BY <1>1, <2>1, <2>2, <2>3, <2>4, Kept, Assemble
  <1>7. CASE /\ rows' = [rows EXCEPT ![m] = sending]
             /\ sends' = [sends EXCEPT ![m] = @ + 1]
             /\ request' = [request EXCEPT ![r].at = "committed"]
             /\ UNCHANGED delivered
    <2> DEFINE req == [request[r] EXCEPT !.at = "committed"]
    <2>1. /\ req \in Request /\ req.copy = request[r].copy
          /\ req.mail = request[r].mail
      BY Elements DEF Request
    <2>2. request' = [request EXCEPT ![r] = req]
      BY <1>7
    <2>3. req.copy.state \in {"none", "draft"} /\ (req.copy.sent => delivered'[req.mail] > 0)
      BY <1>7, <2>1 DEF MailInv, CopiesDelivered
    <2>4. sends' \in [Mails -> 0..MaxSends]
      BY <1>1, <1>7, MoreSends
    <2>5. sending.sent => delivered'[m] > 0
      BY <1>1, <1>3, <1>7 DEF MailInv, RowsDelivered
    <2> HIDE DEF req, sending
    <2>6. request' \in [Requests -> Request] /\ CopiesDelivered'
      BY <1>7, <2>1, <2>2, <2>3, SameDeliveries, RequestStep
    <2>7. rows' \in [Mails -> Row] /\ RowsDelivered'
      BY <1>1, <1>3, <1>7, <2>5, SameDeliveries, RowsStep
    <2> QED
      BY <1>1, <1>7, <2>4, <2>6, <2>7, SameDeliveries, Kept, Assemble
  <1> QED
    BY <1>4, <1>5, <1>6, <1>7 DEF BeginSend

\* Time and the timeout rewrite the whole table, but neither marks a row as
\* sent nor sets `sent`.
LEMMA TableStep ==
    ASSUME MailInv, UNCHANGED <<request, tasks, sends, delivered>>,
           rows' \in [Mails -> Row],
           \A m \in Mails : /\ rows'[m].sent = rows[m].sent
                            /\ rows'[m].state = "sent" => rows[m].state = "sent"
    PROVE  MailInv'
  <1>1. RowsDelivered'
    BY DEF MailInv, RowsDelivered
  <1> QED
    BY <1>1, SameDeliveries, Kept, Elements, Assemble

\* Time marks rows as old, and no more.
LEMMA HourGoesByInv == ASSUME MailInv, HourGoesBy PROVE MailInv'
  <1> DEFINE row(m) == IF Exists(m)
                       THEN [rows[m] EXCEPT !.old = TRUE, !.overdue = (rows[m].state = "sending")]
                       ELSE rows[m]
  <1>1. ASSUME NEW m \in Mails
        PROVE  row(m) \in Row /\ row(m).sent = rows[m].sent /\ row(m).state = rows[m].state
    BY Elements DEF Row
  <1>2. rows' = [m \in Mails |-> row(m)] /\ UNCHANGED <<request, tasks, sends, delivered>>
    BY DEF HourGoesBy
  <1> HIDE DEF row
  <1> QED
    BY <1>1, <1>2, TableStep

\* The timeout only returns mails to the outbox.
LEMMA ExpireInv == ASSUME MailInv, Expire PROVE MailInv'
  <1> DEFINE row(m) == IF rows[m].state = "sending" /\ rows[m].old
                       THEN [rows[m] EXCEPT !.state = "draft", !.error = TRUE,
                                            !.old = FALSE, !.overdue = FALSE]
                       ELSE rows[m]
  <1>1. ASSUME NEW m \in Mails
        PROVE  /\ row(m) \in Row /\ row(m).sent = rows[m].sent
               /\ row(m).state = "sent" => rows[m].state = "sent"
    <2> DEFINE old == rows[m]
               new == [old EXCEPT !.state = "draft", !.error = TRUE, !.old = FALSE, !.overdue = FALSE]
    <2>1. old \in Row
      BY Elements
    <2> HIDE DEF old
    <2>2. new \in Row /\ new.sent = old.sent /\ new.state = "draft"
      BY <2>1 DEF Row, Stored
    <2> HIDE DEF new
    <2>3. row(m) = IF old.state = "sending" /\ old.old THEN new ELSE old
      BY DEF new, old
    <2> QED
      BY <2>1, <2>2, <2>3 DEF old
  <1>2. rows' = [m \in Mails |-> row(m)] /\ UNCHANGED <<request, tasks, sends, delivered>>
    BY DEF Expire
  <1> HIDE DEF row
  <1> QED
    BY <1>1, <1>2, TableStep

\* Every step of the system keeps MailInv.
LEMMA MailNextInv == MailInv /\ [MailNext]_mailVars => MailInv'
  <1> SUFFICES ASSUME MailInv, [MailNext]_mailVars PROVE MailInv'
    OBVIOUS
  <1>1. ASSUME NEW m \in Mails, SaveDraft(m) PROVE MailInv'
    BY <1>1, SaveDraftInv
  <1>2. ASSUME NEW r \in Requests, NEW m \in Mails, Load(r, m) PROVE MailInv'
    BY <1>2, LoadInv
  <1>3. ASSUME NEW r \in Requests, SaveEdit(r) \/ Discard(r) \/ Abandon(r)
        PROVE  MailInv'
    BY <1>3, SaveEditInv, DiscardInv, AbandonInv
  <1>4. ASSUME NEW r \in Requests, BeginSend(r) \/ Dispatch(r) PROVE MailInv'
    BY <1>4, BeginSendInv, DispatchInv
  <1>5. ASSUME NEW t \in Sendings, Deliver(t) \/ RecordSent(t) \/ Retry(t) PROVE MailInv'
    BY <1>5, DeliverInv, RecordSentInv, RetryInv
  <1>6. ASSUME NEW t \in Sendings, FailDelivery(t) \/ LoseTask(t) PROVE MailInv'
    BY <1>6, FailDeliveryInv, LoseTaskInv
  <1>7. CASE HourGoesBy \/ Expire
    BY <1>7, HourGoesByInv, ExpireInv
  <1>8. CASE UNCHANGED mailVars
    BY <1>8 DEF mailVars, MailInv, MailTypeOK, RowsDelivered, CopiesDelivered, TasksDelivered
  <1> QED
    BY <1>1, <1>2, <1>3, <1>4, <1>5, <1>6, <1>7, <1>8 DEF MailNext

-----------------------------------------------------------------------------
\* Every behaviour of the outbox satisfies MailInv, whatever requests,
\* workers, the broker and time do.
THEOREM MailInvariance == MailSpec => []MailInv
  BY MailInitInv, MailNextInv, PTL DEF MailSpec

\* The columns and the tasks only hold what the code writes to them: a task
\* is never retried more than max_retries times, a mail is handed over at
\* most MaxSends times.
THEOREM MailTypeCorrect == MailSpec => []MailTypeOK
  <1>1. MailInv => MailTypeOK
    BY DEF MailInv
  <1> QED
    BY <1>1, MailInvariance, PTL

\* A mail listed as sent was delivered, although nothing locks the rows and
\* the worker never looks at the state it overwrites.
THEOREM SentMailsWereDelivered == MailSpec => []SentWasDelivered
  <1>1. MailInv => SentWasDelivered
    BY DEF MailInv, RowsDelivered, SentWasDelivered
  <1> QED
    BY <1>1, MailInvariance, PTL

-----------------------------------------------------------------------------
(* Deliveries are paid for.  Every time a mail was handed over is a        *)
(* delivery, a task that is queued, or a request that has still to tell    *)
(* the worker, or it is lost.                                              *)

Pending(m) == {n \in 1..MaxSends : tasks[<<m, n>>].at = "queued"}
Handing(m) == {r \in Requests : request[r].at = "committed" /\ request[r].mail = m}
PaidFor(m) == delivered[m] + Cardinality(Pending(m)) + Cardinality(Handing(m)) <= sends[m]

LEMMA Counted ==
    ASSUME IsFiniteSet(Requests), NEW m
    PROVE  /\ IsFiniteSet(Pending(m)) /\ IsFiniteSet(Handing(m))
           /\ IsFiniteSet(Pending(m)') /\ IsFiniteSet(Handing(m)')
           /\ Cardinality(Pending(m)) \in Nat /\ Cardinality(Handing(m)) \in Nat
           /\ Cardinality(Pending(m)') \in Nat /\ Cardinality(Handing(m)') \in Nat
  <1>1. IsFiniteSet(1..MaxSends)
    BY MailBounds, FS_Interval
  <1>2. /\ Pending(m) \in SUBSET (1..MaxSends) /\ Pending(m)' \in SUBSET (1..MaxSends)
        /\ Handing(m) \in SUBSET Requests /\ Handing(m)' \in SUBSET Requests
    BY DEF Pending, Handing
  <1>3. IsFiniteSet(Pending(m)) /\ IsFiniteSet(Handing(m)) /\ IsFiniteSet(Pending(m)') /\ IsFiniteSet(Handing(m)')
    BY <1>1, <1>2, FS_Subset
  <1> QED
    BY <1>3, FS_CardinalityType

LEMMA Amounts ==
    ASSUME MailInv, NEW m \in Mails
    PROVE  delivered[m] \in Nat /\ sends[m] \in Nat
  BY MailBounds DEF MailInv, MailTypeOK

\* A step that takes, and delivers nothing.
LEMMA TakesStep ==
    ASSUME IsFiniteSet(Requests), MailInv, NEW m \in Mails, PaidFor(m),
           Pending(m)' \subseteq Pending(m), Handing(m)' \subseteq Handing(m),
           delivered'[m] = delivered[m], sends'[m] = sends[m]
    PROVE  PaidFor(m)'
  <1>1. /\ Cardinality(Pending(m)') <= Cardinality(Pending(m))
        /\ Cardinality(Handing(m)') <= Cardinality(Handing(m))
    BY Counted, FS_Subset
  <1>2. Cardinality(Pending(m))' = Cardinality(Pending(m)') /\ Cardinality(Handing(m))' = Cardinality(Handing(m)')
    OBVIOUS
  <1> QED
    BY <1>1, <1>2, Counted, Amounts DEF PaidFor

\* What a request leaves of Handing when it finishes.
LEMMA FinishHanding ==
    ASSUME MailInv, NEW r \in Requests, NEW m, Finish(r)
    PROVE  Handing(m)' = Handing(m) \ {r}
  <1> DEFINE idle == [request[r] EXCEPT !.at = "idle", !.copy = Absent]
  <1>1. idle.at = "idle" /\ request' = [request EXCEPT ![r] = idle] /\ request \in [Requests -> Request]
    BY Elements DEF Finish, Request, MailInv, MailTypeOK
  <1> HIDE DEF idle
  <1> QED
    BY <1>1 DEF Handing

LEMMA RequestsPaid ==
    ASSUME IsFiniteSet(Requests), MailInv, NEW m \in Mails, PaidFor(m), NEW r \in Requests,
           (\E k \in Mails : Load(r, k)) \/ SaveEdit(r) \/ Discard(r) \/ Abandon(r)
    PROVE  PaidFor(m)'
  <1>1. UNCHANGED <<tasks, sends, delivered>>
    BY DEF Load, SaveEdit, Discard, Abandon
  <1>2. Pending(m)' = Pending(m)
    BY <1>1 DEF Pending
  <1>3. Handing(m)' \subseteq Handing(m)
    <2>1. CASE Discard(r) \/ Abandon(r)
      BY <2>1, FinishHanding DEF Discard, Abandon
    <2>2. CASE SaveEdit(r)
      BY <2>2 DEF SaveEdit, Handing
    <2>3. ASSUME NEW k \in Mails, Load(r, k) PROVE Handing(m)' \subseteq Handing(m)
      BY <2>3 DEF Load, Handing, MailInv, MailTypeOK
    <2> QED
      BY <2>1, <2>2, <2>3
  <1> QED
    BY <1>1, <1>2, <1>3, TakesStep

LEMMA BeginSendPaid ==
    ASSUME IsFiniteSet(Requests), MailInv, NEW m \in Mails, PaidFor(m), NEW r \in Requests, BeginSend(r)
    PROVE  PaidFor(m)'
  <1> DEFINE k == request[r].mail
             req == request[r]
             commit == [req EXCEPT !.at = "committed"]
  <1>1. k \in Mails /\ req \in Request /\ req.at = "loaded" /\ UNCHANGED tasks
    BY Elements DEF BeginSend
  <1>2. \/ Finish(r) /\ UNCHANGED <<sends, delivered>>
        \/ Finish(r) /\ sends' = [sends EXCEPT ![k] = @ + 1] /\ delivered' = [delivered EXCEPT ![k] = @ + 1]
        \/ request' = [request EXCEPT ![r] = commit] /\ sends' = [sends EXCEPT ![k] = @ + 1] /\ UNCHANGED delivered
    BY DEF BeginSend
  <1>3. Pending(m)' = Pending(m)
    BY <1>1 DEF Pending
  <1>t. /\ sends \in [Mails -> Nat] /\ delivered \in [Mails -> Nat] /\ request \in [Requests -> Request]
    BY MailBounds DEF MailInv, MailTypeOK
  <1>4. CASE Finish(r) /\ UNCHANGED <<sends, delivered>>
    BY <1>3, <1>4, FinishHanding, TakesStep
  <1>5. CASE Finish(r) /\ sends' = [sends EXCEPT ![k] = @ + 1] /\ delivered' = [delivered EXCEPT ![k] = @ + 1]
    <2>1. Handing(m)' \subseteq Handing(m)
      BY <1>5, FinishHanding
    <2>2. Cardinality(Handing(m)') <= Cardinality(Handing(m))
      BY <2>1, Counted, FS_Subset
    <2>3. \/ delivered'[m] = delivered[m] /\ sends'[m] = sends[m]
          \/ delivered'[m] = delivered[m] + 1 /\ sends'[m] = sends[m] + 1
      BY <1>1, <1>5, <1>t
    <2> QED
      BY <1>3, <2>2, <2>3, Counted, Amounts DEF PaidFor
  <1>6. CASE request' = [request EXCEPT ![r] = commit] /\ sends' = [sends EXCEPT ![k] = @ + 1] /\ UNCHANGED delivered
    <2>1. commit.at = "committed" /\ commit.mail = k
      BY <1>1 DEF Request
    <2> HIDE DEF commit
    <2>2. CASE k # m
      <3>1. Handing(m)' \subseteq Handing(m) /\ sends'[m] = sends[m]
        BY <1>1, <1>6, <1>t, <2>1, <2>2 DEF Handing
      <3> QED
        BY <1>3, <1>6, <3>1, TakesStep
    <2>3. CASE k = m
      <3>1. Handing(m)' = Handing(m) \cup {r} /\ r \notin Handing(m) /\ sends'[m] = sends[m] + 1
        BY <1>1, <1>6, <1>t, <2>1, <2>3 DEF Handing
      <3>2. Cardinality(Handing(m)') = Cardinality(Handing(m)) + 1
        BY <3>1, Counted, FS_AddElement
      <3> QED
        BY <1>3, <1>6, <3>1, <3>2, Counted, Amounts DEF PaidFor
    <2> QED
      BY <2>2, <2>3
  <1> QED
    BY <1>2, <1>4, <1>5, <1>6

LEMMA DispatchPaid ==
    ASSUME IsFiniteSet(Requests), MailInv, NEW m \in Mails, PaidFor(m), NEW r \in Requests, Dispatch(r)
    PROVE  PaidFor(m)'
  <1> DEFINE k == request[r].mail
  <1>1. k \in Mails /\ sends[k] \in 0..MaxSends /\ request[r].at = "committed" /\ UNCHANGED <<sends, delivered>>
    BY Elements DEF Dispatch
  <1>2. Handing(m)' = Handing(m) \ {r}
    BY FinishHanding DEF Dispatch
  <1>3. CASE UNCHANGED tasks
    <2>1. Pending(m)' = Pending(m)
      BY <1>3 DEF Pending
    <2> QED
      BY <1>1, <1>2, <2>1, TakesStep
  <1>4. ASSUME NEW t \in {k} \X (1..sends[k]), tasks[t].at = "none", tasks' = [tasks EXCEPT ![t].at = "queued"]
        PROVE  PaidFor(m)'
    <2>1. PICK n \in 1..sends[k] : t = <<k, n>>
      OBVIOUS
    <2> DEFINE task == [tasks[t] EXCEPT !.at = "queued"]
    <2>2. n \in 1..MaxSends /\ t \in Sendings /\ tasks[t] \in Task /\ tasks \in [Sendings -> Task]
      BY <1>1, <2>1, MailBounds DEF Sendings, MailInv, MailTypeOK
    <2>3. task.at = "queued" /\ tasks' = [tasks EXCEPT ![t] = task]
      BY <1>4, <2>2 DEF Task
    <2> HIDE DEF task
    <2>4. \A j \in 1..MaxSends : <<m, j>> \in Sendings
      BY DEF Sendings
    <2>5. CASE k # m
      <3>1. Pending(m)' = Pending(m)
        BY <2>1, <2>2, <2>3, <2>4, <2>5 DEF Pending
      <3> QED
        BY <1>1, <1>2, <3>1, TakesStep
    <2>6. CASE k = m
      <3>0. /\ tasks'[<<m, n>>].at = "queued" /\ tasks[<<m, n>>].at = "none"
            /\ \A j \in 1..MaxSends : j # n => tasks'[<<m, j>>] = tasks[<<m, j>>]
        BY <1>4, <2>1, <2>2, <2>3, <2>4, <2>6
      <3>1. Pending(m)' = Pending(m) \cup {n} /\ n \notin Pending(m) /\ r \in Handing(m)
        BY <1>1, <2>2, <2>6, <3>0 DEF Pending, Handing
      <3>2. /\ Cardinality(Pending(m)') = Cardinality(Pending(m)) + 1
            /\ Cardinality(Handing(m)') = Cardinality(Handing(m)) - 1
        <4>1. Cardinality(Pending(m) \cup {n}) = Cardinality(Pending(m)) + 1
          BY <3>1, Counted, FS_AddElement
        <4>2. Cardinality(Handing(m) \ {r}) = Cardinality(Handing(m)) - 1
          BY <3>1, Counted, FS_RemoveElement
        <4> QED
          BY <1>2, <3>1, <4>1, <4>2
      <3> QED
        BY <1>1, <3>2, Counted, Amounts DEF PaidFor
    <2> QED
      BY <2>5, <2>6
  <1> QED
    BY <1>3, <1>4 DEF Dispatch

LEMMA WorkerPaid ==
    ASSUME IsFiniteSet(Requests), MailInv, NEW m \in Mails, PaidFor(m), NEW t \in Sendings,
           Deliver(t) \/ RecordSent(t) \/ Retry(t) \/ FailDelivery(t) \/ LoseTask(t)
    PROVE  PaidFor(m)'
  <1>1. PICK k \in Mails, n \in 1..MaxSends : t = <<k, n>> /\ t[1] = k
    BY DEF Sendings
  <1>2. /\ UNCHANGED <<request, sends>> /\ tasks \in [Sendings -> Task] /\ tasks[t] \in Task
        /\ \A j \in 1..MaxSends : <<m, j>> \in Sendings
        /\ \A u \in Sendings : u # t => tasks'[u] = tasks[u]
    BY DEF Deliver, RecordSent, Retry, FailDelivery, LoseTask, MailInv, MailTypeOK, Sendings
  <1>3. Handing(m)' = Handing(m)
    BY <1>2 DEF Handing
  <1>4. CASE ~Deliver(t)
    <2>1. tasks'[t].at = "queued" => tasks[t].at = "queued"
      BY <1>2, <1>4 DEF RecordSent, Retry, FailDelivery, LoseTask, NoTask
    <2>2. Pending(m)' \subseteq Pending(m)
      BY <1>2, <2>1 DEF Pending
    <2>3. UNCHANGED delivered
      BY <1>4 DEF RecordSent, Retry, FailDelivery, LoseTask
    <2> QED
      BY <1>2, <1>3, <2>2, <2>3, TakesStep
  <1>5. CASE Deliver(t)
    <2> DEFINE task == [tasks[t] EXCEPT !.at = "delivered"]
    <2>1. task.at = "delivered" /\ tasks' = [tasks EXCEPT ![t] = task] /\ tasks[t].at = "queued"
          /\ delivered' = [delivered EXCEPT ![k] = @ + 1] /\ delivered \in [Mails -> Nat]
      BY <1>1, <1>2, <1>5 DEF Deliver, Task, MailInv, MailTypeOK
    <2> HIDE DEF task
    <2>2. CASE k # m
      <3>1. Pending(m)' = Pending(m) /\ delivered'[m] = delivered[m]
        BY <1>1, <1>2, <2>1, <2>2 DEF Pending
      <3> QED
        BY <1>2, <1>3, <3>1, TakesStep
    <2>3. CASE k = m
      <3>1. Pending(m)' = Pending(m) \ {n} /\ n \in Pending(m) /\ delivered'[m] = delivered[m] + 1
        BY <1>1, <1>2, <2>1, <2>3 DEF Pending
      <3>2. Cardinality(Pending(m)') = Cardinality(Pending(m)) - 1
        BY <3>1, Counted, FS_RemoveElement
      <3> QED
        BY <1>2, <1>3, <3>1, <3>2, Counted, Amounts DEF PaidFor
    <2> QED
      BY <2>2, <2>3
  <1> QED
    BY <1>4, <1>5

LEMMA PaidNext ==
    ASSUME IsFiniteSet(Requests), MailInv, NEW m \in Mails, PaidFor(m), [MailNext]_mailVars
    PROVE  PaidFor(m)'
  <1>1. CASE UNCHANGED <<request, tasks, sends, delivered>>
    BY <1>1 DEF PaidFor, Pending, Handing
  <1>2. CASE UNCHANGED mailVars \/ HourGoesBy \/ Expire \/ \E k \in Mails : SaveDraft(k)
    BY <1>1, <1>2 DEF mailVars, HourGoesBy, Expire, SaveDraft
  <1> QED
    BY <1>2, RequestsPaid, BeginSendPaid, DispatchPaid, WorkerPaid DEF MailNext

\* Retries, timeouts and failures never multiply a delivery: recipients get a
\* mail at most once for every time it was handed over.
THEOREM DeliveriesPaidFor ==
    ASSUME IsFiniteSet(Requests)
    PROVE  MailSpec => []OneDeliveryPerSend
  <1> DEFINE Paid == \A m \in Mails : PaidFor(m)
  <1>1. MailInit => Paid
    <2> SUFFICES ASSUME MailInit, NEW m \in Mails PROVE PaidFor(m)
      OBVIOUS
    <2>1. Pending(m) = {} /\ Handing(m) = {} /\ delivered[m] = 0 /\ sends[m] = 0
      BY DEF MailInit, Pending, Handing, NoTask, Sendings
    <2> QED
      BY <2>1, FS_EmptySet DEF PaidFor
  <1>2. MailInv /\ Paid /\ [MailNext]_mailVars => Paid'
    BY PaidNext
  <1>3. MailInv /\ Paid => OneDeliveryPerSend
    BY Counted, Amounts DEF PaidFor, OneDeliveryPerSend
  <1> HIDE DEF Paid
  <1> QED
    BY <1>1, <1>2, <1>3, MailInvariance, PTL DEF MailSpec

-----------------------------------------------------------------------------
(* The timeout: the steps behind NeverStuck.                               *)

Sending(m) == rows[m].state = "sending"

\* A mail in SENDING comes within reach of the timeout when an hour goes by,
\* stays so whatever requests, workers and old copies write, until it leaves
\* SENDING, and leaves with the next run (expire_stale_queued_mails).
TimeoutInReach ==
    [][\A m \in Mails : Sending(m) =>
          /\ rows[m].old => ~Sending(m)' \/ rows'[m].old
          /\ HourGoesBy => ~Sending(m)' \/ rows'[m].old
          /\ Expire /\ rows[m].old => ~Sending(m)']_mailVars

\* A step that writes one row.
LEMMA OneRow ==
    ASSUME rows \in [Mails -> Row], NEW m \in Mails, NEW k \in Mails, NEW row \in Row,
           rows' = [rows EXCEPT ![k] = row], Sending(m), rows[m].old,
           row.state # "sending" \/ (k = m => row.old)
    PROVE  ~Sending(m)' \/ rows'[m].old
  BY DEF Sending

LEMMA HourReaches ==
    ASSUME MailInv, NEW m \in Mails, HourGoesBy, Sending(m)
    PROVE  rows'[m].old
  <1> DEFINE old == rows[m]
             row == [old EXCEPT !.old = TRUE, !.overdue = (old.state = "sending")]
  <1>1. old \in Row /\ rows'[m] = row
    BY Elements DEF HourGoesBy, Sending, Exists, Stored
  <1> HIDE DEF old
  <1>2. row.old
    BY <1>1 DEF Row
  <1> QED
    BY <1>1, <1>2

LEMMA ExpireEnds ==
    ASSUME MailInv, NEW m \in Mails, Expire, Sending(m), rows[m].old
    PROVE  ~Sending(m)'
  <1> DEFINE old == rows[m]
             row == [old EXCEPT !.state = "draft", !.error = TRUE, !.old = FALSE, !.overdue = FALSE]
  <1>1. old \in Row /\ rows'[m] = row
    BY Elements DEF Expire, Sending
  <1> HIDE DEF old
  <1>2. row.state = "draft"
    BY <1>1 DEF Row
  <1> QED
    BY <1>1, <1>2 DEF Sending

LEMMA StaysInReach ==
    ASSUME MailInv, MailNext, NEW m \in Mails, Sending(m), rows[m].old
    PROVE  ~Sending(m)' \/ rows'[m].old
  <1>1. rows \in [Mails -> Row] /\ request \in [Requests -> Request]
    BY DEF MailInv, MailTypeOK
  <1>2. ASSUME UNCHANGED rows PROVE rows'[m].old
    BY <1>2
  <1>3. ASSUME NEW k \in Mails, SaveDraft(k) PROVE rows'[m].old
    BY <1>1, <1>3 DEF SaveDraft, Sending
  <1>4. ASSUME NEW r \in Requests, SaveEdit(r) PROVE ~Sending(m)' \/ rows'[m].old
    <2> DEFINE copy == request[r].copy
               row == [copy EXCEPT !.old = FALSE]
    <2>1. copy \in Row /\ request[r].mail \in Mails /\ copy.state # "sending"
      BY <1>1 DEF Request, MailInv, CopiesDelivered
    <2>2. rows' = [rows EXCEPT ![request[r].mail] = row]
      BY <1>4 DEF SaveEdit
    <2> HIDE DEF copy
    <2>3. row \in Row /\ row.state # "sending"
      BY <2>1 DEF Row
    <2> QED
      BY <1>1, <2>1, <2>2, <2>3, OneRow
  <1>5. ASSUME NEW r \in Requests, Discard(r) PROVE ~Sending(m)' \/ rows'[m].old
    <2> DEFINE row == [Absent EXCEPT !.state = "deleted"]
    <2>1. row \in Row /\ row.state # "sending" /\ request[r].mail \in Mails
      BY <1>1 DEF Absent, Row, Request
    <2>2. rows' = [rows EXCEPT ![request[r].mail] = row]
      BY <1>5 DEF Discard
    <2> QED
      BY <1>1, <2>1, <2>2, OneRow
  <1>6. ASSUME NEW r \in Requests, BeginSend(r) PROVE ~Sending(m)' \/ rows'[m].old
    <2> DEFINE k == request[r].mail
               old == rows[k]
               sent == [old EXCEPT !.state = "sent", !.sent = TRUE]
               sending == [old EXCEPT !.state = "sending", !.error = FALSE, !.overdue = FALSE]
    <2>1. k \in Mails /\ old \in Row
      BY <1>1 DEF Request
    <2>2. \/ UNCHANGED rows
          \/ rows' = [rows EXCEPT ![k] = sent]
          \/ rows' = [rows EXCEPT ![k] = sending]
      BY <1>6 DEF BeginSend
    <2> HIDE DEF old
    <2>3. sent \in Row /\ sent.state # "sending" /\ sending \in Row /\ sending.old = old.old
      BY <2>1 DEF Row, Stored
    <2> HIDE DEF sent, sending
    <2>4. CASE rows' = [rows EXCEPT ![k] = sent]
      BY <1>1, <2>1, <2>3, <2>4, OneRow
    <2>5. CASE rows' = [rows EXCEPT ![k] = sending]
      <3>1. k = m => sending.old
        BY <2>3 DEF old
      <3> QED
        BY <1>1, <2>1, <2>3, <2>5, <3>1, OneRow
    <2> QED
      BY <1>2, <2>2, <2>4, <2>5
  <1>7. ASSUME NEW k \in Mails, MarkFailed(k) \/ MarkSent(k) PROVE ~Sending(m)' \/ rows'[m].old
    <2> DEFINE old == rows[k]
               failed == [old EXCEPT !.state = "draft", !.error = TRUE]
               sent == [old EXCEPT !.state = "sent", !.sent = TRUE, !.error = FALSE]
    <2>1. old \in Row
      BY <1>1
    <2>2. \/ UNCHANGED rows
          \/ rows' = [rows EXCEPT ![k] = failed]
          \/ rows' = [rows EXCEPT ![k] = sent]
      BY <1>7 DEF MarkFailed, MarkSent
    <2> HIDE DEF old
    <2>3. /\ failed \in Row /\ failed.state # "sending"
          /\ sent \in Row /\ sent.state # "sending"
      BY <2>1 DEF Row, Stored
    <2> HIDE DEF failed, sent
    <2> QED
      BY <1>1, <1>2, <2>2, <2>3, OneRow
  <1>8. ASSUME NEW r \in Requests, Dispatch(r) PROVE ~Sending(m)' \/ rows'[m].old
    <2>1. request[r].mail \in Mails /\ (UNCHANGED rows \/ MarkFailed(request[r].mail))
      BY <1>1, <1>8 DEF Dispatch, Request
    <2> QED
      BY <1>2, <1>7, <2>1
  <1>9. ASSUME NEW t \in Sendings, RecordSent(t) \/ FailDelivery(t)
        PROVE  ~Sending(m)' \/ rows'[m].old
    <2>1. t[1] \in Mails
      BY DEF Sendings
    <2> QED
      BY <1>7, <1>9, <2>1 DEF RecordSent, FailDelivery
  <1>10. ASSUME NEW r \in Requests, Abandon(r) \/ \E k \in Mails : Load(r, k) PROVE rows'[m].old
    BY <1>2, <1>10 DEF Abandon, Load
  <1>11. ASSUME NEW t \in Sendings, Deliver(t) \/ Retry(t) \/ LoseTask(t) PROVE rows'[m].old
    BY <1>2, <1>11 DEF Deliver, Retry, LoseTask
  <1> QED
    BY <1>3, <1>4, <1>5, <1>6, <1>8, <1>9, <1>10, <1>11, HourReaches, ExpireEnds DEF MailNext

THEOREM TimeoutReaches == MailSpec => TimeoutInReach
  <1>1. MailInv /\ [MailNext]_mailVars =>
          [\A m \in Mails : Sending(m) =>
              /\ rows[m].old => ~Sending(m)' \/ rows'[m].old
              /\ HourGoesBy => ~Sending(m)' \/ rows'[m].old
              /\ Expire /\ rows[m].old => ~Sending(m)']_mailVars
    BY StaysInReach, HourReaches, ExpireEnds
  <1> QED
    BY <1>1, MailInvariance, PTL DEF MailSpec, TimeoutInReach

\* HourGoesBy and Expire have no guard but HourPasses, and change the row of
\* a mail in SENDING.
TimeHasWork ==
    \A m \in Mails : Sending(m) =>
        IF rows[m].old THEN ENABLED <<Expire>>_mailVars ELSE ENABLED <<HourGoesBy>>_mailVars

\* No mail is stuck in SENDING, as far as time and the periodic task can go on
\* whenever one is: TimeHasWork is the one fact about ENABLED that fairness
\* needs here.
THEOREM MailsLeaveSending == MailSpec /\ []TimeHasWork => NeverStuck
  <1>1. ASSUME NEW m \in Mails
        PROVE  MailSpec /\ []TimeHasWork =>
                  (rows[m].state = "sending" ~> rows[m].state # "sending")
    <2> DEFINE Reached == Sending(m) /\ rows[m].old
               Ahead == Sending(m) /\ ~rows[m].old
    <2>1. TimeHasWork => /\ Ahead => ENABLED <<HourGoesBy>>_mailVars
                         /\ Reached => ENABLED <<Expire>>_mailVars
      BY DEF TimeHasWork
    <2>2. MailInv /\ Ahead /\ <<HourGoesBy>>_mailVars => Reached' \/ ~Sending(m)'
      BY HourReaches
    <2>3. MailInv /\ Reached /\ [MailNext]_mailVars => Reached' \/ ~Sending(m)'
      BY StaysInReach DEF mailVars, Sending
    <2>4. MailInv /\ Reached /\ <<Expire>>_mailVars => ~Sending(m)'
      BY ExpireEnds
    <2>5. Sending(m) <=> Ahead \/ Reached
      OBVIOUS
    <2>6. /\ Sending(m) <=> rows[m].state = "sending"
          /\ ~Sending(m) <=> rows[m].state # "sending"
      BY DEF Sending
    <2> HIDE DEF Reached, Ahead
    <2> QED
      BY <2>1, <2>2, <2>3, <2>4, <2>5, <2>6, MailInvariance, PTL DEF MailSpec, MailFairness
  <1> QED
    BY <1>1 DEF NeverStuck

=============================================================================
