-------------------------- MODULE ScheduleChanges --------------------------
(***************************************************************************)
(* What organisers and speakers are told of changes to the schedule: the   *)
(* list of changes of the WIP schedule, the indicator of unreleased        *)
(* changes, and the mails that a release writes from the list              *)
(* (schedule/domain/changes.py, schedule/domain/notifications.py).         *)
(* List and indicator are cached, and computed again by a task that only   *)
(* some of the views send.  Composed with ScheduleRelease.                 *)
(***************************************************************************)
EXTENDS ScheduleRelease

CONSTANTS
    Readers,    \* requests and workers that compute the list
    None        \* no entry in the cache, nothing computed

VARIABLES
    listed,     \* the list in the cache under the id of the WIP schedule
    indicator,  \* has_unreleased_schedule_changes in the cache
    reading,    \* the list each reader has at hand and has not written out yet
    queued,     \* a task_update_unreleased_schedule_changes waits
    suspect,    \* history: a change was not announced, or computations overlapped
    mailed      \* history: the sessions about which this step mails speakers

cacheVars == <<listed, indicator, reading, queued, suspect>>
changesVars == <<vars, cacheVars, mailed>>

-----------------------------------------------------------------------------
(* A list of changes as it reads now: the slots that are new and those that *)
(* have moved there, `lost` for moved slots that have been deleted since.   *)
List == [create : BOOLEAN, changed : BOOLEAN, new : SUBSET TalkRows,
         moved : SUBSET TalkRows, lost : SUBSET Submissions]
Reading == [list : List, stored : BOOLEAN, released : BOOLEAN]

ASSUME NoneAssumption ==
    None \notin List \cup Reading \cup BOOLEAN /\ \A S \in SUBSET Submissions : S # None

PreviousTalks == IF releases = <<>> THEN {} ELSE ScheduledTalks(CurrentSchedule)
Of(talks, s) == {t \in talks : t[1] = s}

\* The rows of scheduled talks, with their place.
Showing(sch) ==
    {<<r, sch[r].start, sch[r].room>> :
        r \in {q \in DOMAIN sch \cap TalkRows :
                   sch[q].room # Null /\ sch[q].start # Null /\ sch[q].is_visible}}

\* calculate_schedule_changes and _handle_submission_move: slots at the same
\* place are one, and of a session's places as many have moved as are gone;
\* which ones is left to the order of a set.
ChangesOf(sch) ==
    LET now == ScheduledTalks(sch)
        news == now \ PreviousTalks
        gone == PreviousTalks \ now
        Talk(r) == <<r[1], sch[r].start, sch[r].room>>
        shown == {w[1] : w \in Showing(sch)}
        One(R) == \A t \in news : \E r \in R : Talk(r) = t /\ \A q \in R : Talk(q) = t => q = r
        AsMany(M) == \A s \in Submissions :
            LET new == Cardinality(Of(news, s))  old == Cardinality(Of(gone, s))
            IN  Cardinality(M \cap RowsOf(s)) = IF new < old THEN new ELSE old
    IN  IF releases = <<>>
        THEN {[create |-> TRUE, changed |-> now # {}, new |-> {}, moved |-> {}, lost |-> {}]}
        ELSE {[create |-> FALSE, changed |-> now # PreviousTalks,
               new |-> c.all \ c.moved, moved |-> c.moved, lost |-> {}] :
                 c \in {c \in [all : SUBSET {r \in shown : Talk(r) \in news}, moved : SUBSET shown] :
                          c.moved \subseteq c.all /\ One(c.all) /\ AsMany(c.moved)}}

Lost(list) ==
    {s \in list.lost \cup {r[1] : r \in list.moved \ DOMAIN wip'} : state'[s] # "none"}

\* Mutant: the slots of the list are not looked up again.
RereadBlindly(list) ==
    IF list = None THEN None
    ELSE [create |-> list.create, changed |-> list.changed, new |-> list.new,
          moved |-> list.moved, lost |-> Lost(list)]

\* _deserialize_changes: slots and sessions that have been deleted drop out,
\* but a moved session remains without its slot.
Reread(list) ==
    IF list = None THEN None
    ELSE [create |-> list.create, changed |-> list.changed,
          new |-> list.new \cap DOMAIN wip', moved |-> list.moved \cap DOMAIN wip',
          lost |-> Lost(list)]

\* What a reader has at hand once rows have gone, the list is in the cache, or a
\* version has been released.
Reviewed(has) == [has EXCEPT !.list = Reread(@)]
Written(has) == [has EXCEPT !.stored = TRUE]
Outdated(has) == [has EXCEPT !.released = TRUE]

\* _get_boolean_changes, for a list of changes of the schedule sch.
HasListed(list, sch) == IF list.create THEN ScheduledTalks(sch) # {} ELSE list.changed

Idle == \A r \in Readers : reading[r] = None
Settled == Idle /\ ~queued /\ ~suspect

-----------------------------------------------------------------------------
ChangesInit ==
    /\ Init
    /\ listed = None /\ indicator = None
    /\ reading = [r \in Readers |-> None]
    /\ queued = FALSE /\ suspect = FALSE
    /\ mailed = None

\* A step that changes proposals and slots, and sends the task or not.
Changes(sent) ==
    /\ listed' = Reread(listed)
    /\ reading' = [r \in Readers |-> IF reading[r] = None THEN None
                                     ELSE Reviewed(reading[r])]
    /\ queued' = (queued \/ sent)
    /\ suspect' = (suspect \/ (~sent /\ (Showing(wip') # Showing(wip) \/ PreviousTalks' # PreviousTalks)))
    /\ UNCHANGED indicator
    /\ mailed' = None

\* set_wip_slot sends the task when a form places the slot, inside the
\* transaction of the form: workers may run it before the commit, and find
\* nothing new; or the form fails after it.
SubmitForm(s) == FormNext(s) /\ \E sent \in BOOLEAN : Changes(sent)

SendEarly ==
    /\ queued' = TRUE
    /\ mailed' = None
    /\ UNCHANGED <<vars, listed, indicator, reading, suspect>>

\* Decisions send no task, whatever they do to slots.
Decision(s) == DecisionNext(s) /\ Changes(FALSE)

\* The views and the API of the schedule editor send the task.
EditSlot == EditorNext /\ Changes(TRUE)

\* EventForm.save and the command move_event send none.
MoveDates == EventNext /\ Changes(FALSE)

-----------------------------------------------------------------------------
Begin(r, lists, stored) ==
    /\ reading[r] = None
    /\ \E list \in lists :
          reading' = [reading EXCEPT ![r] = [list |-> list, stored |-> stored, released |-> FALSE]]
    /\ mailed' = None
    /\ UNCHANGED <<vars, indicator>>

Overlap == \E q \in Readers : reading[q] # None

\* Reader r compares the schedules; what it finds is right unless others who are
\* at it store older answers later.
Compute(r) == Begin(r, ChangesOf(wip), FALSE) /\ suspect' = Overlap

\* get_cached_schedule_changes, for a page that shows the list or the indicator.
OpenPage(r) ==
    /\ listed = None
    /\ Compute(r)
    /\ UNCHANGED <<listed, queued>>

\* has_unreleased_schedule_changes, with the list in the cache.
ShowIndicator(r) ==
    /\ indicator = None /\ listed # None
    /\ Begin(r, {listed}, TRUE)
    /\ suspect' = (suspect \/ Overlap)
    /\ UNCHANGED <<listed, queued>>

\* Mutant: the task trusts the list in the cache.
RunTaskCached(r) ==
    /\ queued
    /\ queued' = FALSE
    /\ UNCHANGED listed
    /\ IF listed = None THEN Compute(r) ELSE Begin(r, {listed}, TRUE) /\ suspect' = Overlap

\* update_unreleased_schedule_changes without a value: the list is dropped first.
RunTask(r) ==
    /\ queued
    /\ queued' = FALSE /\ listed' = None
    /\ Compute(r)

\* The list goes to the cache under the id of the schedule it was made for,
\* which is not that of the WIP schedule any more after a release.
StoreList(r) ==
    /\ reading[r] # None /\ ~reading[r].stored
    /\ reading' = [reading EXCEPT ![r] = Written(@)]
    /\ listed' = IF reading[r].released THEN listed ELSE reading[r].list
    /\ mailed' = None
    /\ UNCHANGED <<vars, indicator, queued, suspect>>

\* Then the indicator is stored, twice by some.
StoreIndicator(r) ==
    /\ reading[r] # None /\ reading[r].stored
    /\ reading' \in {reading, [reading EXCEPT ![r] = None]}
    /\ indicator' = HasListed(reading[r].list, IF reading[r].released THEN releases[1] ELSE wip)
    /\ suspect' = (suspect \/ reading[r].released)
    /\ mailed' = None
    /\ UNCHANGED <<vars, listed, queued>>

\* The list is kept for a minute, the indicator for a day.
Forget ==
    /\ \/ listed # None /\ listed' = None /\ UNCHANGED indicator
       \/ indicator # None /\ indicator' = None /\ UNCHANGED listed
    /\ mailed' = None
    /\ UNCHANGED <<vars, reading, queued, suspect>>

\* A worker dies, or the broker loses the task.
LoseTask ==
    /\ \/ queued /\ queued' = FALSE /\ UNCHANGED reading
       \/ \E r \in Readers : /\ reading[r] # None /\ reading' = [reading EXCEPT ![r] = None]
                             /\ UNCHANGED queued
    /\ suspect' = TRUE
    /\ mailed' = None
    /\ UNCHANGED <<vars, listed, indicator>>

-----------------------------------------------------------------------------
\* compute_speakers_concerned: a first release tells of every session with a
\* place, shown or not, others of what is new or has moved.
Concerned(list, sch) ==
    IF list.create
    THEN {r[1] : r \in {q \in DOMAIN sch \cap TalkRows : sch[q].start # Null /\ sch[q].room # Null}}
    ELSE {r[1] : r \in list.new \cup list.moved}

\* Mutant: the mails are written before the visibility is computed again.
ListBeforeRelease == IF listed # None THEN {listed} ELSE ChangesOf(wip)

\* generate_notifications: the released schedule still has the id of the WIP
\* schedule, so that a list in the cache is the list of the WIP schedule.
ListOfRelease == IF listed # None THEN {listed} ELSE ChangesOf(Frozen)

\* A release, by the page or the API, with mails or without.  A moved session
\* whose slot is gone makes the mail to its speakers fail, and with it the
\* release, unless the list cannot find the session either.  Every session has
\* speakers here.
Release ==
    /\ FreezeSchedule
    /\ \/ mailed' = None
       \/ \E list \in ListOfRelease : /\ \A s \in list.lost : state[s] = "draft"
                                      /\ mailed' = Concerned(list, Frozen)
    /\ listed' = None /\ indicator' = FALSE
    /\ reading' = [r \in Readers |-> IF reading[r] = None THEN None
                                     ELSE Outdated(reading[r])]
    /\ suspect' = FALSE
    /\ UNCHANGED queued

ChangesNext ==
    \/ \E s \in Submissions : SubmitForm(s) \/ Decision(s)
    \/ EditSlot \/ MoveDates \/ SendEarly
    \/ \E r \in Readers : OpenPage(r) \/ ShowIndicator(r) \/ RunTask(r)
                        \/ StoreList(r) \/ StoreIndicator(r)
    \/ Forget \/ LoseTask
    \/ Release

ChangesSpec == ChangesInit /\ [][ChangesNext]_changesVars

-----------------------------------------------------------------------------
(* Properties.                                                             *)

\* The cached indicator says whether there are unreleased changes, through
\* edits, recomputations, expiry of the caches and releases, once the tasks
\* are done; except after a change that sends no task (a decision, an edit of
\* the event's dates or time zone) or whose task ran before its commit, a lost
\* task, or computations that overlapped with each other or with a release.
IndicatorRight == Settled /\ indicator # None => indicator = HasChanges

\* Sessions that a release shows at a place where the last one did not.
News == {t[1] : t \in ScheduledTalks(releases'[Len(releases')]) \ PreviousTalks}

\* The list in the cache still stands for what a release publishes.
Reliable == listed = None \/ (Settled /\ Showing(Frozen) = Showing(wip))

\* "notification emails for speakers whose sessions are new or have been moved
\* since the last release" (doc/user/schedule.rst): exactly those, and all that
\* are shown by a first release, unless the mails are written from a list that
\* was cached before an unannounced change or hides slots the release shows.
NotifiesExactly ==
    [][mailed' # None /\ Reliable =>
         IF releases = <<>> THEN News \subseteq mailed' ELSE mailed' = News]_changesVars

\* Types; what a list names exists.
ChangesTypeOK ==
    /\ listed \in List \cup {None} /\ indicator \in BOOLEAN \cup {None}
    /\ reading \in [Readers -> Reading \cup {None}]
    /\ queued \in BOOLEAN /\ suspect \in BOOLEAN
    /\ mailed # None => mailed \subseteq Submissions
    /\ listed # None => listed.new \cup listed.moved \subseteq DOMAIN wip
=============================================================================
