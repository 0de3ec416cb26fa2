-------------------------- MODULE ScheduleRelease --------------------------
(***************************************************************************)
(* The life of an event's schedule: proposals move through their states,   *)
(* `update_talk_slots` keeps the slots of the work-in-progress (WIP)       *)
(* schedule in line with them, organisers place slots, breaks and          *)
(* blockers, and `freeze_schedule` turns the WIP schedule into a released  *)
(* version and starts a fresh copy of it.                                  *)
(*                                                                         *)
(* Requests are executed one at a time here.  A schedule is a function     *)
(* from the rows of its `talks` relation to slots: a talk row belongs to a *)
(* submission, the other rows are breaks and blockers.                     *)
(***************************************************************************)
EXTENDS Integers, Sequences, FiniteSets

CONSTANTS
    Submissions,    \* proposals an event may hold
    MaxSlots,       \* bound on slot_count
    Breaks,         \* identities of the slots of type BREAK
    Blockers,       \* identities of the slots of type BLOCKER
    Starts,         \* start times, as numbers; the bound of every move
    Rooms,          \* rooms, ordered by their position as numbers
    Targets,        \* states organisers may choose (TARGETS)
    MaxReleases,    \* bound on the number of released versions
    NullsFirst      \* ORDER BY: NULL sorts first (SQLite) or last (PostgreSQL)

ASSUME BoundsAssumption == MaxSlots \in Nat \ {0} /\ MaxReleases \in Nat

Null == 0

ASSUME PlaceAssumption == Starts \subseteq Nat \ {Null} /\ Rooms \subseteq Nat \ {Null}

AllTargets ==
    {"submitted", "accepted", "rejected", "confirmed", "withdrawn", "canceled"}

ASSUME TargetsAssumption == Targets \subseteq AllTargets

TalkRows == Submissions \X (1..MaxSlots)

ASSUME RowsAssumption ==
    /\ Breaks \cap Blockers = {}
    /\ (TalkRows \cup Submissions) \cap (Breaks \cup Blockers) = {}

ASSUME OrderAssumption == NullsFirst \in BOOLEAN

VARIABLES
    state,      \* Submission.state, "none" while there is no such row
    pending,    \* Submission.pending_state, "none" for NULL
    slotCount,  \* Submission.slot_count
    wip,        \* the talks of event.wip_schedule
    releases,   \* the talks of the released versions, oldest first
    unreconciled \* history: proposals whose pending_state the API has written
                \* since update_talk_slots last ran for them

vars == <<state, pending, slotCount, wip, releases, unreconciled>>

-----------------------------------------------------------------------------
(* Slots and schedules.                                                    *)

States == AllTargets \cup {"none", "draft"}
AcceptedStates == {"accepted", "confirmed"}

Slot == [start : Starts \cup {Null}, room : Rooms \cup {Null}, is_visible : BOOLEAN]
Rows == TalkRows \cup Breaks \cup Blockers
RowsOf(s) == {s} \X (1..MaxSlots)
Schedule == UNION {[R -> Slot] : R \in SUBSET Rows}

Without(sch, R) == [r \in DOMAIN sch \ R |-> sch[r]]

\* What `scheduled_talks` selects, as calculate_schedule_changes compares it.
ScheduledTalks(sch) ==
    {<<r[1], sch[r].start, sch[r].room>> :
        r \in {q \in DOMAIN sch \cap TalkRows :
                   /\ sch[q].room # Null
                   /\ sch[q].start # Null
                   /\ sch[q].is_visible}}

-----------------------------------------------------------------------------
(* update_talk_slots and set_wip_slot, as the schedules they may produce.  *)

SchedulingAllowed(st, pend) == st \in AcceptedStates \/ pend \in AcceptedStates

\* ORDER BY a nullable column, ascending.
ColumnBefore(x, y) ==
    /\ x # y
    /\ IF x = Null THEN NullsFirst
       ELSE IF y = Null THEN ~NullsFirst
       ELSE x < y

\* Mutant: sort by room first.
SlotBeforeByRoom(a, b) ==
    \/ ColumnBefore(a.room, b.room)
    \/ a.room = b.room /\ ColumnBefore(a.start, b.start)

\* order_by("start", "room", "is_visible")
SlotBefore(a, b) ==
    \/ ColumnBefore(a.start, b.start)
    \/ /\ a.start = b.start
       /\ \/ ColumnBefore(a.room, b.room)
          \/ a.room = b.room /\ ~a.is_visible /\ b.is_visible

\* The rows of s that are there after the count was brought to n: surplus
\* slots go in the order of SlotBefore, missing ones are created.
KeptRows(sch, s, n) ==
    LET have == DOMAIN sch \cap RowsOf(s)
    IN  {keep \in SUBSET RowsOf(s) :
            /\ Cardinality(keep) = n
            /\ keep \subseteq have \/ have \subseteq keep
            /\ \A k \in keep \cap have, d \in have \ keep :
                  ~SlotBefore(sch[k], sch[d])}

NewSlot == [start |-> Null, room |-> Null, is_visible |-> FALSE]
SlotAt(sch, r) == IF r \in DOMAIN sch THEN sch[r] ELSE NewSlot

\* Mutant: the visibility of slots that stay is not updated.
WithTalksStale(sch, s, keep, st) ==
    [r \in (DOMAIN sch \ RowsOf(s)) \cup keep |->
        IF r \in DOMAIN sch THEN sch[r]
        ELSE [NewSlot EXCEPT !.is_visible = (st = "confirmed")]]

\* The surviving rows track the CONFIRMED state.
WithTalks(sch, s, keep, st) ==
    [r \in (DOMAIN sch \ RowsOf(s)) \cup keep |->
        IF r \in RowsOf(s)
        THEN [SlotAt(sch, r) EXCEPT !.is_visible = (st = "confirmed")]
        ELSE sch[r]]

UpdateTalkSlots(sch, s, st, pend, n) ==
    IF SchedulingAllowed(st, pend)
    THEN {WithTalks(sch, s, keep, st) : keep \in KeptRows(sch, s, n)}
    ELSE {Without(sch, RowsOf(s))}

Placed(sch, r, start, room) ==
    [sch EXCEPT ![r] = [@ EXCEPT !.start = start, !.room = room]]

\* order_by("start").first(); ties are broken arbitrarily.
EarliestRows(sch, s) ==
    LET have == DOMAIN sch \cap RowsOf(s)
    IN  {r \in have : \A q \in have : ~ColumnBefore(sch[q].start, sch[r].start)}

SetWipSlot(sch, s, st, pend, n, start, room) ==
    IF st \notin AcceptedStates
    THEN UpdateTalkSlots(Without(sch, RowsOf(s)), s, st, pend, n)
    ELSE IF EarliestRows(sch, s) = {} THEN {sch}
    ELSE {Placed(sch, r, start, room) : r \in EarliestRows(sch, s)}

-----------------------------------------------------------------------------
(* Proposals.                                                              *)

Init ==
    /\ state = [s \in Submissions |-> "none"]
    /\ pending = [s \in Submissions |-> "none"]
    /\ slotCount = [s \in Submissions |-> 1]
    /\ wip = [r \in {} |-> NewSlot]
    /\ releases = <<>>
    /\ unreconciled = {}

\* Mutant: slots are reconciled only when a pending state is set, not cleared.
SetPendingStateOnly(s, p) ==
    /\ pending' = [pending EXCEPT ![s] = p]
    /\ IF p \in AcceptedStates
       THEN /\ wip' \in UpdateTalkSlots(wip, s, state[s], p, slotCount[s])
            /\ unreconciled' = unreconciled \ {s}
       ELSE UNCHANGED <<wip, unreconciled>>
    /\ UNCHANGED <<state, slotCount, releases>>

\* set_pending_state
SetPendingState(s, p) ==
    /\ pending' = [pending EXCEPT ![s] = p]
    /\ IF pending[s] \in AcceptedStates \/ p \in AcceptedStates
       THEN /\ wip' \in UpdateTalkSlots(wip, s, state[s], p, slotCount[s])
            /\ unreconciled' = unreconciled \ {s}
       ELSE UNCHANGED <<wip, unreconciled>>
    /\ UNCHANGED <<state, slotCount, releases>>

\* set_submission_state; a plugin's veto leaves everything as it is.
SetSubmissionState(s, st) ==
    IF state[s] = st
    THEN SetPendingState(s, "none")
    ELSE /\ state' = [state EXCEPT ![s] = st]
         /\ pending' = [pending EXCEPT ![s] = "none"]
         /\ wip' \in UpdateTalkSlots(wip, s, st, "none", slotCount[s])
         /\ unreconciled' = unreconciled \ {s}
         /\ UNCHANGED <<slotCount, releases>>

\* create_submission, by a speaker or by an organiser who may choose the
\* state, and place the new session in the same form.
CreateSubmission(s, st, n) ==
    /\ state[s] = "none"
    /\ state' = [state EXCEPT ![s] = st]
    /\ pending' = [pending EXCEPT ![s] = "none"]
    /\ slotCount' = [slotCount EXCEPT ![s] = n]
    /\ \E w \in UpdateTalkSlots(wip, s, st, "none", n) :
          \/ wip' = w
          \/ /\ st # "draft"
             /\ \E start \in Starts, room \in Rooms :
                   wip' \in SetWipSlot(w, s, st, "none", n, start, room)
    /\ UNCHANGED <<releases, unreconciled>>

\* SubmissionOrgaSerializer.create: the API makes submitted proposals, which
\* may have a pending state.
PostSubmission(s, p, n) ==
    /\ state[s] = "none"
    /\ state' = [state EXCEPT ![s] = "submitted"]
    /\ pending' = [pending EXCEPT ![s] = p]
    /\ slotCount' = [slotCount EXCEPT ![s] = n]
    /\ wip' \in UpdateTalkSlots(wip, s, "submitted", p, n)
    /\ UNCHANGED <<releases, unreconciled>>

SubmitDraft(s) ==
    /\ state[s] = "draft"
    /\ SetSubmissionState(s, "submitted")

\* Mutant: the count is stored off by one.
EditSubmissionOffByOne(s, n) ==
    /\ state[s] # "none"
    /\ slotCount' = [slotCount EXCEPT ![s] = n - 1]
    /\ wip' \in UpdateTalkSlots(wip, s, state[s], pending[s], n - 1)
    /\ UNCHANGED <<state, pending, releases, unreconciled>>

\* The edit forms: a changed slot_count reconciles the slots, and organisers
\* may place an accepted session.
EditSubmission(s, n) ==
    /\ state[s] # "none"
    /\ slotCount' = [slotCount EXCEPT ![s] = n]
    /\ \E w \in IF n = slotCount[s] THEN {wip}
               ELSE UpdateTalkSlots(wip, s, state[s], pending[s], n) :
          \/ wip' = w
          \/ /\ state[s] \in AcceptedStates
             /\ \E start \in Starts, room \in Rooms :
                   wip' \in SetWipSlot(w, s, state[s], pending[s], n, start, room)
    /\ unreconciled' = IF n = slotCount[s] THEN unreconciled ELSE unreconciled \ {s}
    /\ UNCHANGED <<state, pending, releases>>

\* SubmissionOrgaSerializer.update writes pending_state like any column; only
\* a changed slot_count makes apply_field_changes reconcile the slots.
PatchSubmission(s, p, n) ==
    /\ state[s] \notin {"none", "draft"}
    /\ pending' = [pending EXCEPT ![s] = p]
    /\ slotCount' = [slotCount EXCEPT ![s] = n]
    /\ IF n = slotCount[s]
       THEN /\ unreconciled' = IF p = pending[s] THEN unreconciled ELSE unreconciled \cup {s}
            /\ UNCHANGED wip
       ELSE /\ wip' \in UpdateTalkSlots(wip, s, state[s], p, n)
            /\ unreconciled' = unreconciled \ {s}
    /\ UNCHANGED <<state, releases>>

\* SubmissionStateChange.form_valid, for a state or for a pending state.
ChangeState(s, target) ==
    /\ state[s] \notin {"none", "draft"}
    /\ state[s] # target \/ pending[s] # "none"
    /\ SetSubmissionState(s, target) \/ SetPendingState(s, target)

ApplyPendingState(s) ==
    /\ pending[s] # "none"
    /\ SetSubmissionState(s, pending[s])

\* The speaker's own transitions.
Withdraw(s) ==
    /\ state[s] \in {"submitted", "accepted"}
    /\ SetSubmissionState(s, "withdrawn")

Confirm(s) ==
    /\ state[s] = "accepted"
    /\ SetSubmissionState(s, "confirmed")

\* delete_submission takes the slots in every schedule along.
DeleteSubmission(s) ==
    /\ state[s] # "none"
    /\ state' = [state EXCEPT ![s] = "none"]
    /\ pending' = [pending EXCEPT ![s] = "none"]
    /\ slotCount' = [slotCount EXCEPT ![s] = 1]
    /\ wip' = Without(wip, RowsOf(s))
    /\ releases' = [v \in DOMAIN releases |-> Without(releases[v], RowsOf(s))]
    /\ unreconciled' = unreconciled \ {s}

-----------------------------------------------------------------------------
(* The schedule editor.                                                    *)

proposalVars == <<state, pending, slotCount, unreconciled>>

\* TalkUpdate.patch and QuickScheduleView
MoveSlot(r, start, room) ==
    /\ r \in DOMAIN wip
    /\ wip' = Placed(wip, r, start, room)
    /\ UNCHANGED <<proposalVars, releases>>

UnscheduleSlot(r) ==
    /\ r \in DOMAIN wip
    /\ wip' = Placed(wip, r, Null, Null)
    /\ UNCHANGED <<proposalVars, releases>>

\* The slot endpoint of the API writes start and room independently.
PatchSlot(r, start, room) ==
    /\ r \in DOMAIN wip
    /\ wip' = Placed(wip, r, start, room)
    /\ UNCHANGED <<proposalVars, releases>>

CreateSlot(b, start, room) ==
    /\ b \notin DOMAIN wip
    /\ wip' = [r \in DOMAIN wip \cup {b} |->
                  IF r = b THEN [start |-> start, room |-> room, is_visible |-> FALSE]
                           ELSE wip[r]]
    /\ UNCHANGED <<proposalVars, releases>>

DeleteSlot(b) ==
    /\ b \in DOMAIN wip
    /\ wip' = Without(wip, {b})
    /\ UNCHANGED <<proposalVars, releases>>

-----------------------------------------------------------------------------
(* Releasing.                                                              *)

\* Mutant: accepted talks are shown before they are confirmed.
ShownAccepted(r) ==
    /\ wip[r].start # Null
    /\ r \in Breaks \/ (r \in TalkRows /\ state[r[1]] \in AcceptedStates)

\* freeze_schedule first recomputes the visibility of every slot ...
ShownOnRelease(r) ==
    /\ wip[r].start # Null
    /\ r \in Breaks \/ (r \in TalkRows /\ state[r[1]] = "confirmed")

Frozen == [r \in DOMAIN wip |-> [wip[r] EXCEPT !.is_visible = ShownOnRelease(r)]]

\* Mutant: the slots are copied between the two updates of their visibility.
FreezeCopyBetween ==
    /\ Len(releases) < MaxReleases
    /\ wip' = [r \in DOMAIN wip |-> [wip[r] EXCEPT !.is_visible = FALSE]]
    /\ releases' = Append(releases, Without(Frozen, Blockers))
    /\ UNCHANGED proposalVars

\* Mutant: blockers are dropped before the slots are copied.
FreezeDropFirst ==
    /\ Len(releases) < MaxReleases
    /\ wip' = Without(Frozen, Blockers)
    /\ releases' = Append(releases, wip')
    /\ UNCHANGED proposalVars

\* Mutant: blockers are not dropped.
FreezeKeepBlockers ==
    /\ Len(releases) < MaxReleases
    /\ wip' = Frozen
    /\ releases' = Append(releases, Frozen)
    /\ UNCHANGED proposalVars

\* ... then copies all of them to the new WIP schedule, and only then drops
\* the blockers from the version it releases.
FreezeSchedule ==
    /\ Len(releases) < MaxReleases
    /\ wip' = Frozen
    /\ releases' = Append(releases, Without(Frozen, Blockers))
    /\ UNCHANGED proposalVars

CurrentSchedule == releases[Len(releases)]

-----------------------------------------------------------------------------
(* Edits of the event itself.  Its days and its time zone are not kept: any *)
(* edit of them is possible, within the bound Starts.                      *)

Deltas == {b - a : a, b \in Starts}

\* _move_slots
Moved(sch, d) ==
    [r \in DOMAIN sch |->
        IF sch[r].start = Null THEN sch[r] ELSE [sch[r] EXCEPT !.start = @ + d]]

\* Slots outside the days that are left lose time and room.
Dropped(sch, days) ==
    [r \in DOMAIN sch |->
        IF sch[r].start \in days \cup {Null} THEN sch[r]
        ELSE [sch[r] EXCEPT !.start = Null, !.room = Null]]

HasStart(sch) == \E r \in DOMAIN sch : sch[r].start # Null
CanMove(sch, d) == \A r \in DOMAIN sch : sch[r].start # Null => sch[r].start + d \in Starts

\* apply_date_edit: the WIP schedule moves with the event, if both its ends move,
\* and loses what is outside a shortened event.
AfterDateEdit(sch) ==
    IF HasStart(sch)
    THEN {Dropped(Moved(sch, d), days) :
             d \in {d \in Deltas : CanMove(sch, d)},
             days \in {Starts} \cup {(a..b) \cap Starts : a, b \in Starts}}
    ELSE {sch}

\* _move_slots(past=True): the released versions move as well.
MoveAll(sch, d) ==
    /\ CanMove(sch, d) /\ \A v \in DOMAIN releases : CanMove(releases[v], d)
    /\ wip' = Moved(sch, d)
    /\ releases' = [v \in DOMAIN releases |-> Moved(releases[v], d)]
    /\ UNCHANGED proposalVars

\* apply_event_changes, for EventForm: apply_timezone_edit moves all versions,
\* unless the WIP schedule has no start from which to tell how far.
EditEvent ==
    \E sch \in AfterDateEdit(wip), d \in Deltas :
        /\ d # 0 => HasStart(sch)
        /\ MoveAll(sch, d)

\* move_full_event, for the command move_event.
MoveEvent == \E d \in Deltas \ {0} : MoveAll(wip, d)

-----------------------------------------------------------------------------
(* What is known of unreleased changes.                                    *)

\* calculate_schedule_changes / _get_boolean_changes on the WIP schedule
HasChanges ==
    IF releases = <<>> THEN ScheduledTalks(wip) # {}
    ELSE ScheduledTalks(wip) # ScheduledTalks(CurrentSchedule)

-----------------------------------------------------------------------------
\* The forms with which a proposal is made, or edited, and perhaps placed.
FormNext(s) ==
    \/ \E st \in Targets \cup {"submitted", "draft"}, n \in 1..MaxSlots :
          CreateSubmission(s, st, n)
    \/ \E n \in 1..MaxSlots : EditSubmission(s, n)

DecisionNext(s) ==
    \/ \E p \in Targets \cup {"draft", "none"}, n \in 1..MaxSlots :
          PostSubmission(s, p, n) \/ PatchSubmission(s, p, n)
    \/ \E target \in Targets : ChangeState(s, target)
    \/ SubmitDraft(s) \/ ApplyPendingState(s) \/ Withdraw(s) \/ Confirm(s)
    \/ DeleteSubmission(s)

EditorNext ==
    \/ \E r \in Rows :
          \/ \E start \in Starts, room \in Rooms : MoveSlot(r, start, room)
          \/ UnscheduleSlot(r)
          \/ \E start \in Starts \cup {Null}, room \in Rooms \cup {Null} :
                PatchSlot(r, start, room)
    \/ \E b \in Breaks \cup Blockers :
          \/ \E start \in Starts, room \in Rooms : CreateSlot(b, start, room)
          \/ DeleteSlot(b)

EventNext == EditEvent \/ MoveEvent

Next ==
    \/ \E s \in Submissions : FormNext(s) \/ DecisionNext(s)
    \/ EditorNext
    \/ EventNext
    \/ FreezeSchedule

Spec == Init /\ [][Next]_vars

-----------------------------------------------------------------------------
(* Properties.                                                             *)

TypeOK ==
    /\ state \in [Submissions -> States]
    /\ pending \in [Submissions -> States]
    /\ slotCount \in [Submissions -> 1..MaxSlots]
    /\ wip \in Schedule
    /\ releases \in Seq(Schedule)
    /\ unreconciled \subseteq Submissions

\* After any sequence of state changes, pending decisions, edits, slot moves
\* and releases, a proposal holds exactly slot_count slots of the WIP
\* schedule if it is accepted or pending accepted, and none otherwise:
\* the promise of update_talk_slots, which the API leaves out when it writes
\* a pending state.
SlotsFollowState ==
    \A s \in Submissions \ unreconciled :
        LET have == DOMAIN wip \cap RowsOf(s)
        IN  IF SchedulingAllowed(state[s], pending[s])
            THEN Cardinality(have) = slotCount[s]
            ELSE have = {}

\* Nothing of an unconfirmed proposal is ever marked visible in the WIP
\* schedule, though visibility is copied from version to version and moves
\* and un-confirmations happen in between.
VisibleOnlyConfirmed ==
    \A r \in DOMAIN wip \cap TalkRows :
        wip[r].is_visible => state[r[1]] = "confirmed"

\* Blockers are for organisers only: no released version holds one.
NoBlockersReleased ==
    \A v \in DOMAIN releases : DOMAIN releases[v] \cap Blockers = {}

\* freeze_schedule sets the unreleased-changes flag to False without
\* recomputing it; that is right, because a release leaves no difference
\* between the new WIP schedule and the new version.
ReleaseInSync == [][Len(releases') > Len(releases) => ~HasChanges']_vars

\* A release never costs the organisers planning work: every row of the WIP
\* schedule keeps its time and room, blockers and unconfirmed talks included.
ReleaseKeepsPlan ==
    [][Len(releases') > Len(releases) =>
         /\ DOMAIN wip' = DOMAIN wip
         /\ \A r \in DOMAIN wip :
               wip'[r].start = wip[r].start /\ wip'[r].room = wip[r].room]_vars

\* "We delete unscheduled slots first" (update_talk_slots): a slot with a
\* time only goes when every slot of its proposal goes or those left have a
\* time as well.
UnscheduledFirst ==
    [][\A s \in Submissions :
         LET had == DOMAIN wip \cap RowsOf(s)
             has == DOMAIN wip' \cap RowsOf(s)
         IN  \A gone \in had \ has, left \in had \cap has :
                wip[gone].start # Null => wip[left].start # Null]_vars

\* event.has_unreleased_schedule_changes is "True iff the WIP schedule
\* differs from the latest released schedule": if it reports nothing, then
\* releasing now would publish the same talks as the current version.
SilentMeansSame ==
    ~HasChanges /\ releases # <<>> =>
        ScheduledTalks(Frozen) = ScheduledTalks(CurrentSchedule)

-----------------------------------------------------------------------------
(* What is public (public_talk_slots): the visible slots of a released     *)
(* version, as entries of PublicAgenda.                                    *)

Who(r) == IF r \in TalkRows THEN r[1] ELSE r

PublicSlots(sch) ==
    {<<Who(r), sch[r].start, sch[r].room>> :
        r \in {q \in DOMAIN sch : sch[q].is_visible}}

Agenda == INSTANCE PublicAgenda WITH
    NoRoom <- Null,
    agendas <- [v \in DOMAIN releases |-> PublicSlots(releases[v])],
    confirmed <- {s \in Submissions : state[s] = "confirmed"}

\* Released versions implement PublicAgenda: whatever happens to proposals,
\* slots and later versions, a published version shows only sessions that
\* were confirmed when it was released, and never changes except that deleted
\* sessions disappear, and that a change of the event's time zone, or of the
\* whole event's date, moves all versions by the same time.
ImplementsAgenda == Agenda!AgendaSpec

=============================================================================
