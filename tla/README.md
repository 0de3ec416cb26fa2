# A TLA+ model of pretalx

pretalx runs the call for papers, the review and the schedule of a conference. This directory holds TLA+
modules translated from its source, TLC configurations that check them on small instances, and TLAPS
proofs that hold for every instance. `PROJECT.json` lists the components, the runs, the source lines
behind every definition, the hazards the properties are aimed at, the findings and the theorems.

Paths below are relative to `src/pretalx/` of the repository.

## 1. The system

pretalx is a Django application. Organisers, reviewers, speakers and attendees send HTTP requests (HTML
views in `orga/`, `cfp/`, `agenda/`, a REST API in `api/`); each request loads rows, calls functions of
a `domain` package and saves rows. Celery workers run tasks (mail delivery, exports, the refresh of
cached answers), and a cron job fires the signal `periodic_task`. All of them share one database,
PostgreSQL or SQLite, and one cache. Row locks are rare: `select_for_update` occurs in signup, access
codes and team invitations only.

| Component | State | Operations | Interacts with | What makes it correct | Model |
|---|---|---|---|---|---|
| Proposal states (`submission/domain/submission.py`) | `Submission.state`, `pending_state`, `slot_count` | create, submit, accept, reject, confirm, withdraw, cancel, set and apply pending states, edit, delete | calls `update_talk_slots`; decision mails go to the outbox; vetoes by plugins | the slots in the WIP schedule follow state, pending state and count | `ScheduleRelease` |
| Schedule editor and release (`schedule/domain/{slot,release}.py`) | `TalkSlot` rows, the unversioned (WIP) `Schedule`, released versions | place, unschedule, create and delete slots, freeze; move with the dates and the time zone of the event | reads states; written by `update_talk_slots`; read by public pages | versions change only by deletions or all together with the event, show confirmed sessions only, and cost no planning work | `ScheduleRelease`, `PublicAgenda` |
| Schedule changes and notifications (`schedule/domain/{changes,notifications}.py`) | caches of the list of changes and of one boolean, a queued task | compare, cache, compute again, forget, release with mails | WIP and current schedule, broker | the indicator says whether a release would publish something; speakers hear of exactly what is new or moved | `ScheduleChanges` |
| Mail outbox (`mail/domain/{queue,send}.py`, `mail/tasks.py`) | `QueuedMail.state`, `sent`, `error_*`, `updated`; queued tasks | draft, edit, discard, send, deliver, retry, fail, time out | organisers, workers, broker, SMTP, cron, plugins | SENT means delivered; no mail is lost, stuck or multiplied | `MailOutbox`, `MailContention`, `MailLife` |
| Attendee signup (`submission/domain/signup.py`) | `AttendeeSignup.state`, the requirement and capacity of sessions, tracks, types, rooms | sign up, cancel; edit, release, switch the requirement on or off | releases and edits write capacities; four forms write the requirement | no sign-up exceeds the capacity; nobody is stranded | `Signup`, `Seats` |
| Call for papers, access codes, drafts, speaker invitations (`submission/domain/{access_code,invitation}.py`, `cfp/`) | `redeemed`, `maximum_uses`, drafts, parked addresses, invitations, the deadline | open and finish the wizard, save and submit drafts, edit, invite, accept, retract | the wizard and the edit page of speakers, organisers | a code is redeemed once per proposal and within its limit; drafts invite nobody; the limit of speakers holds | `Proposals` |
| Reviews and phases (`submission/domain/review.py`) | `ReviewPhase.is_active`, categories, scores, the stored `Review.score` | activate by time or by hand, review, change categories and tracks | cron, permissions of reviewers | stored scores are what they should be; the active phase is the one whose window is open | `Reviews` |
| E-mail verification (`person/domain/verification.py`) | `email`, `pending_email`, state, signed links, cooldowns in the cache | register, confirm, correct, change, cancel, resend, save the whole account, deactivate, delete | accounts, invitations, mail | verified means proven; established accounts move only to proven addresses; mails are limited | `Verification` |
| Speaker profiles and claims (`person/domain/profile.py`) | the contact address, `invitation_token`, the user of a profile | create, edit, invite, retract, claim, merge, delete | promotes accounts of `Verification` | a link counts for the address its mail went to | `SpeakerClaims` |
| Team membership and API tokens (`event/domain/team.py`, `person/domain/auth_token.py`) | members, invitations, permissions, the events of tokens | invite, accept, edit, remove, delete; create, edit, revoke tokens | organisers, new and deleted events, deactivated users | an invitation is used once; removed members' tokens shrink for good; somebody can manage the teams | `Teams` |
| Periodic tasks (`common/signals.py`, `event/domain/lifecycle.py`) | cache keys of `minimum_interval`, `sent_mail_*` flags | run, time out | cache, mails | no overlap within the timeout; once-only mails | in part: the tasks of the outbox and of review phases |
| Availabilities, warnings (`schedule/domain/availability.py`) | none (pure) | union, intersection, containment | schedule editor | agree with sets of points in time | not modelled (section 8) |
| Rooms, custom fields, rendering, event cache, exports, pages, front end | configuration, files | | | | not modelled (section 8) |

The behaviours that are hard to test are the long sequences (states, pending states, counts, moves,
releases), the copies of data that must stay in step (`is_visible`, the indicator, stored scores, the
events of tokens), the database's sort order, requests that save a copy they read before somebody else's
change, and in the outbox the interleaving of requests, workers, failures and the timeout.
`PROJECT.json` lists them one by one.

## 2. The modules

| Module | What it is |
|---|---|
| `PublicAgenda` | abstract: what the public schedule promises, a growing list of versions that change only by deletions and by moves of all at once |
| `ScheduleRelease` | proposals, `update_talk_slots`, the schedule editor, `freeze_schedule`; implements `PublicAgenda` |
| `ScheduleChanges` | composes `ScheduleRelease` with the caches, the task and the mails to speakers |
| `MailOutbox` | the outbox, its requests, the delivery tasks and the timeout |
| `MailLife` | abstract: what the outbox promises of the life of each mail |
| `MailContention` | `MailOutbox` with a history of who contended for a mail; implements `MailLife` |
| `Seats` | abstract: seats of a session, taken and given up in one step each |
| `Signup` | sign-ups of attendees, capacities, the requirement to sign up; implements `Seats` |
| `Proposals` | the call for papers: wizard, drafts, access codes, speakers and invitations |
| `Reviews` | review phases, reviews, score categories, stored scores |
| `Verification` | the address of an account and how it is proven |
| `SpeakerClaims` | composes `Verification` with a managed profile and its claim; implements `Verification` |
| `Teams` | teams, invitations, API tokens, events of one organiser |
| `MC...` | the small instances of the module of that name |
| `..._proofs` | its theorems; `ScheduleRelease_proofs` also holds those of `ScheduleChanges`, `Verification_proofs` those of `SpeakerClaims` |

### ScheduleRelease

| Variable | In the code |
|---|---|
| `state`, `pending`, `slotCount` | the columns of `Submission`; `"none"` for no row, or NULL |
| `wip` | the `talks` of `event.wip_schedule`: a function from rows to slots `[start, room, is_visible]` |
| `releases` | the `talks` of the released versions, oldest first |
| `unreconciled` | history: the proposals whose `pending_state` the API wrote without `update_talk_slots` |

A talk row is `<<submission, i>>`; breaks and blockers have identities of their own. A copied slot keeps
its identity in the new schedule, which makes "the same slot before and after a release" expressible;
the code has no use for that identity. Starts and rooms are numbers (a room's number is its `position`)
with `Null = 0`.

Each action is a whole handler: `SetSubmissionState` includes the clearing of the pending state and
`update_talk_slots`, `CreateSubmission` the placement that the same form may ask for, `DeleteSubmission`
the slots of every version. `UpdateTalkSlots` and `SetWipSlot` are sets of possible results, because the
code leaves the choice between equal rows to the database. The order of `ORDER BY start, room,
is_visible` is `SlotBefore`; the constant `NullsFirst` says where NULL sorts. `FreezeSchedule` follows
the order of the code: recompute visibility, copy, drop blockers.

The REST API has writes of its own: `PostSubmission` makes submitted proposals, with a pending state if
it is given one, and `PatchSubmission` writes `pending_state` like any column and reconciles the slots
only when `slot_count` has changed. A proposal is `unreconciled` from then on until `update_talk_slots`
runs for it again, and `SlotsFollowState` makes an exception for it and for nothing else. `Next` is
divided by who does it, since `ScheduleChanges` needs to know: `FormNext(s)` are the forms and API calls
that may place a slot, `DecisionNext(s)` all other changes of a proposal, `EditorNext` the schedule
editor and its API, `EventNext` edits of the event; then `FreezeSchedule`.

Edits of the event move slots too. Its dates and time zone are not kept, so any edit of them is possible
at any time, as long as every start stays in `Starts`. `EditEvent` is `apply_event_changes`: first
`apply_date_edit`, which moves the WIP schedule alone, and unschedules what falls outside the days that
are left; then `apply_timezone_edit`, which moves the WIP schedule and every released version, unless
the WIP schedule has no start to tell how far. `MoveEvent` is `move_full_event`, for the command
`move_event`. `start` is the point in time in the database: where an edit of the time zone returns
early, the local times of the versions change and the points in time do not.

A plugin's veto (`before_submission_state_change`) leaves everything as it is, so it is no step.
Decision mails, notifications, log entries, featured flags, scores, `end` and signup capacities are
projected out: nothing here reads them. Requests run one at a time (section 8). `HasChanges` is the
boolean that `_get_boolean_changes` computes from `calculate_schedule_changes`.

The public sees `PublicSlots`, the visible slots of the released versions (`public_talk_slots`). `Agenda
== INSTANCE PublicAgenda WITH ...` maps them to `agendas`; only `FreezeSchedule` is a `Publish`, only
`DeleteSubmission` an `Erase`, only `EventNext` a `Shift`, which moves all versions by the same time;
changes of states are `Decide`, all else stutters.

### ScheduleChanges

| Variable | In the code |
|---|---|
| `listed` | the list of changes, cached for a minute under the id of the WIP schedule |
| `indicator` | `has_unreleased_schedule_changes`, cached for a day |
| `reading` | the list a request or worker has computed or fetched and not written out yet |
| `queued` | whether a `task_update_unreleased_schedule_changes` waits |
| `suspect` | history: something happened after which the code does not promise a right indicator |
| `mailed` | history: the sessions about which the current step mails speakers |

Every step of `ScheduleRelease` is a step here: `SubmitForm` (which sends the task when it places the
slot), `Decision` (which sends none), `EditSlot` (which always does), `MoveDates` (edits of the event,
which send none), `Release`. `OpenPage`, `ShowIndicator` and `RunTask` begin a computation, `StoreList`
and `StoreIndicator` end it, and anybody may act in between; `Forget` is a cache entry that expires,
`LoseTask` a worker that dies or a lost message. `SendEarly` is the task that `set_wip_slot` sends
inside the transaction of the form: a worker may run it before the commit, when there is nothing new to
see.

A cached list holds ids of slots, which are read again when it is used (`Reread`), so it changes with
the rows. A release gives the WIP schedule's id to the version it makes. A list that is stored by its
old id afterwards is found by nobody (`StoreList`), while a list that was cached before a release is
what the release mails its speakers about (`ListOfRelease`). A release whose list names a moved session
with no slot left fails in the code and is no step. Which of several equal slots counts as moved is left
to the order of a set, hence `ChangesOf` is a set of lists.

`IndicatorRight` speaks of moments in which nothing is under way (`Settled`). `suspect` is set by a
decision or an edit of the event that changes what the WIP schedule or the current version shows, by a
form whose task does not see its change, by a lost task, by an answer that is stored over the one a
release left, and by two computations at a time; it is cleared by a computation that runs alone, and by
a release.

### MailOutbox

| Variable | In the code |
|---|---|
| `rows` | the `QueuedMail` table: `state`, whether `sent` and `error_data` are set, whether `updated` is over an hour `old`. `overdue` is a history variable: the mail has been SENDING for over an hour |
| `request` | what each request or bulk run does, with the copy of the row it loaded |
| `tasks` | the Celery task of the n-th time a mail was sent, with its number of retries |
| `sends`, `delivered` | history: how often a mail was handed over, and how often it was delivered |

There are no row locks, so each database access is a step: `Load` (with the view's check for DRAFT),
`SaveEdit` (the whole row from the copy; a row that is gone is inserted again), `Discard`, `BeginSend`
(the transaction of `send_draft`), `Dispatch` (the broker, or `mark_failed`), then `Deliver` and
`RecordSent`, `Retry`, `FailDelivery` or `LoseTask` in the worker, and `Expire` in the periodic task.
`BeginSend` has the outcomes of the code: the row is gone and the save fails; `sent` is set already; a
plugin's `queuedmail_pre_send` did the sending; or the row becomes SENDING. The worker never looks at
the state. `LoseTask` is a worker that dies (tasks are acknowledged when they start) as well as a row
that is gone. A request may stop after any of its steps (`Abandon`).

"Delivered" means that the SMTP backend accepted the mail. `deliver_persisted` drops addresses of debug
domains; a mail with no other address counts as delivered here as it does in the code.

`MailContention` adds `contended`: the mails that two requests were busy with at a time, or that the
timeout took back while they were being sent. What holds of the others is what the code promises if
nothing goes wrong between people. `Uncontended == INSTANCE MailLife WITH ...` maps each of them to its
life: the state of its row, the number of its deliveries, and whether its row shows an error. A
contended mail has no more promises. Tasks, retries, copies and requests are not part of the life, so
`Deliver` is an `Arrive`, `RecordSent` a `Record`, `FailDelivery` and a failed `Dispatch` a `Fail`, and
the rest of what workers do stutters.

### Signup

| Variable | In the code |
|---|---|
| `row` | per session `attendee_signup_required` (`"unknown"` is NULL), `attendee_signup_capacity` (`0` is NULL), `track`, `submission_type` |
| `signups` | the `AttendeeSignup` rows, one at most per session and attendee (`unique_together`) |
| `request` | how far the `create_signup` of each attendee is, and what it has read |
| `typeRequires`, `trackRequires` | `attendee_signup_required` of types and tracks |
| `roomCapacity` | the capacity of the room a session has in the released schedule |

`create_signup` takes three steps: `BeginSignup` checks `requires_signup` on the copy the view loaded;
`LockSession` gets the row with `SELECT ... FOR UPDATE` and reads capacity and count; `ConfirmSignup` or
`TurnAway` ends the transaction. Between the steps everybody else may act. Every write of the session's
row waits for the lock, as PostgreSQL makes it: `CancelSignup`, which locks the row itself,
`SaveSession`, `Release`, and the pinning of `SubmissionTypeForm` and `TrackForm` on the rows it
touches. `RoomForm` and `EventForm` write other tables and never wait. SQLite has no row locks and
admits one writer at a time.

`SaveSession` may store any row, because a request stores the columns of a copy that may be old; its
guard is `validate_signup_required`, which runs on the rows of the database and only when the override
becomes False. A validator and the save that follows are one step. `Release` raises the capacities the
organiser ticked and fills in the missing ones from the rooms, in the order of `apply_expand_capacity`
and `apply_signup_capacity_defaults`; which rooms the sessions get is free, since that is
`ScheduleRelease`'s concern. Attendees are users whose address the event admits. A session has one
placed slot at most, so the least capacity of its rooms is that of its room.

`Booking == INSTANCE Seats WITH ...` shows of all this only who attends which session and the session's
own capacity. `ConfirmSignup` is a `TakeSeat`: with the capacity of that moment, although the request
has read it in an earlier step. `CancelSignup` is a `GiveUpSeat`, the deletion of an account a `Leave`,
saves and releases `SetCapacities`.

### Proposals

| Variable | In the code |
|---|---|
| `codes` | the `SubmitterAccessCode` table: `maximum_uses`, `redeemed`, whether `valid_until` is past, whether the code opens a session type that needs one |
| `proposals` | the `Submission` table with speakers and invitations; `cols` are the columns a request saves at once. History: `paid` (how often it redeemed a code), `clean`, `checked` |
| `open` | `cfp.is_open` |
| `request` | what a request of the wizard or the edit page has read: the copy, the code of the URL, the list of addresses |
| `visit` | a request that invites somebody, with the number of people it has counted, or accepts an invitation, with the row it has read |

The pages of the wizard live in the session, so a proposal exists from its last step: `OpenWizard`
(dispatch, with the checks of deadline and code) and then `CreateSubmission`, `SaveDraft` or
`SubmitDraft`, between which everybody else may act. `Redeem` locks the code and looks at it again.
`OpenEdit` and `SaveEdit` are the edit page of a speaker, which saves all columns of the copy it loaded.
Organisers create, edit, expire and delete codes, decide, set the code of a proposal, add and remove
speakers, and invite.

Inviting and accepting take two steps each, without a lock in the code: `CheckInvitation` (the
validators of the form or the serializer) and `SendInvitation`; `OpenInvitation`, which reads the
invitation, and `AcceptInvitation`, which adds the speaker and deletes the row, whether or not it is
still there. Between them everybody else may act, other visits included.

`clean` and `checked` say which proposals the invariants speak of. `clean` becomes FALSE when a copy is
saved over a later change (the code does not lock or compare rows), and when an organiser sets the code,
which the code lets them do without redeeming. `checked` becomes FALSE when an invitation is made
although more people are on the proposal than were counted, when somebody accepts an invitation that was
retracted since, and when an organiser adds a speaker, whom nothing holds to the limit. On such
proposals the limit may be exceeded; `SpeakersWithinLimit` speaks of those that are `clean` and
`checked`, the other invariants of those that are `clean`.

Simplified: a session type that needs no code always exists; no review phase lets speakers edit
submitted proposals; inviting through the organisers' API and through the speaker's view is one pair of
actions. `DeleteAccessCode` is held back by any proposal that has the code, drafts included.

### Reviews

| Variable | In the code |
|---|---|
| `active`, `due` | the phases with `is_active`; those whose window contains the present |
| `tracks`, `track` | the rows of `Track`; the track of each proposal |
| `category` | the `ReviewScoreCategory` rows: independent, the worth of its score, the tracks it is limited to |
| `review` | the `Review` rows: the categories scored, and the stored score |
| `skipped` | history: reviews whose score the code did not compute again when it should have |

The stored score is kept as the set of its parts instead of their sum, so that no two mistakes cancel
out. `SaveScores` is the whole formset of the review settings: forms are saved in turn, deletion of the
last category that counts is refused in the middle, and the recalculation happens only at the end and
only for changes that `affects_review_scores` names. `UpdateReviewPhase` is the periodic task,
`ActivatePhase` the button. Tasks run inside the request that sends them, a category offers one score,
and all proposals are submitted.

`skipped` names the four places where the code leaves a stored score as it was: `MoveReview` (the API
puts a review on another proposal), `DeleteTrack` (a limit becomes empty, which means all tracks), a
deletion that is refused half-way, and the deletion of an independent category, which may leave a review
without any score. `ScoresCurrent` is about all other reviews.

### Verification

| Variable | In the code |
|---|---|
| `account` | the `User` rows, None before the registration and after a deletion: `email`, verification state, `pending_email`, whether `pending_email_sent` is over a day ago |
| `links` | the confirmation links that are less than a day old |
| `cooldown`, `corrected` | the two cache keys that limit mails |
| `loaded` | what a request works with: the copy of its user, the address it has asked for and whether that was free, and whether the cooldown lets it send a mail |
| `proven`, `burst` | history: who has read the mail of which address; mails since the last quiet moment |

A link is signed over the values it was made from, so a link is those values, and it works when they are
the values of the row (`Fits`). `Load` reads the row, the other actions of a request decide by the copy.
Most save the columns their code names (`Saved`); `SaveWholeRow` (`OrgaProfileForm.save`, `LocaleSet`)
and `deactivate_user` save all of them. So two requests may overwrite each other. `ValidateEmailUnique`
and `CheckSendCooldown` are steps before the last one: the address may be taken by then, which only the
constraints of the database refuse (`Refused`), and another request may have sent its mail, which
nothing refuses. A registration asks for the address as well, but all that counts is whether the row can
be inserted. Time is `CooldownOver`, `RowAges`, `CorrectionDayOver` and `LinkExpires`. Recovery of
passwords touches no address and is left out.

### SpeakerClaims

| Variable | In the code |
|---|---|
| `profile` | one managed `SpeakerProfile`: contact address, the address its link went to, its user |
| `opened` | the copy of the profile behind the claim page of a request |
| `editing` | the copy an organiser or speaker edits |

The mail with the link is delivered with the save of the token. A visitor without an account registers
first (`RegisterToClaim`, `FinalizeRegistration`, two steps of one request) and claims with a later
request. `ClaimProfile` makes the profile the user's own, or merges it into the one they have, which
deletes it; either way the account is promoted when the address the request has read is that of the
account. That promotion is the action of `Verification`, and `ImplementsVerification` says that claims
do nothing to accounts that `Verification` does not allow.

### Teams

| Variable | In the code |
|---|---|
| `events`, `active` | the events of the organiser; the users that are not deactivated |
| `team`, `invite`, `token` | the rows of `Team`, `TeamInvite` and `UserApiToken` |
| `visit` | the invitation a user's request has loaded |
| `request` | the change a request has written and not committed |
| `form` | what a form of a token is going to save: the token it has loaded, the new events, and whether the expiry date it has loaded is past by now |
| `admitted`, `dropped` | history: who has joined by an invitation; what tokens lost with a removed member |

A request that changes a team writes, checks the coverage of the organiser (`check_access_permissions`),
then commits: `Stage`, whose guard is the check on what is committed and its own change, and `Commit`.
Between them others may commit, except to the columns of the same row. `WritersExclude` says whether the
database admits one writer at a time, as SQLite does. `AcceptInvite` locks the invitation and reads it
again; `OpenInvite` is the request that has loaded it. Tokens shrink when members are removed and when
events are deleted; edits and deletions of teams do not look at them.

The form of a token takes two steps: `OpenTokenForm` finds the token active, and `SaveTokenForm` saves
all columns of the copy, `expires` included. A revocation or removal that commits in between is undone,
and a row that was deleted is inserted again. That is why `ExpiredForGood` speaks of tokens that expire
while no form of theirs is in hand, and why `RemovalShrinksTokens` counts a late save as an edit of the
user. `RevokeToken` is the button, `LapseToken` the date in `expires` that passes. Of the permissions
only those the coverage and new events depend on are kept; `"control"` stands for the two that count as
control of an event.

## 3. The runs

| Run | Instance | Properties | Shows |
|---|---|---|---|
| `schedule` | 1 session, up to 2 slots, 1 blocker, 2 starts, 1 room, 1 release, three decisions, edits of the event, NULL first | `TypeOK` `SlotsFollowState` `VisibleOnlyConfirmed` `NoBlockersReleased` `UnscheduledFirst` `ReleaseInSync` `ReleaseKeepsPlan` `ImplementsAgenda` | slots follow the proposal; with SQLite's order unscheduled slots go first; a release loses nothing, publishes no blocker, leaves no difference, implements the agenda; moves of the event move all versions alike |
| `changes` | 1 session, 1 slot, 2 starts, 1 room, 2 releases, 2 readers, edits of the event | `ChangesTypeOK` `IndicatorRight` `NotifiesExactly` | the indicator is right once tasks are done; speakers are mailed about exactly what is new or moved |
| `mail_races` | 1 mail, 2 requests, 3 sends, 1 retry, hours pass | `ImplementsMailLife` `SentWasDelivered` `OneDeliveryPerSend` `AtMostOnce` `NeverStuck` `ReturnsWithError` | the races leave SENT meaningful and end; a mail nobody contended for is delivered once, and lives as `MailLife` says |
| `signup` | 1 session, 3 attendees, 1 type, 1 track, capacities up to 2 | `CapacityRespected` `FormsStrandNobody` `ImplementsSeats` | the last place is given once; a sign-up of three steps takes its seat like one of a single step; the forms of tracks and types strand nobody |
| `proposals` | 1 code, 2 users, 1 request, 2 visits, 1 proposal, 2 speakers at most, codes for 1 use or any number | `ProposalsTypeOK` `RedeemsOnce` `InvitedWhenReal` `SpeakersWithinLimit` `RedeemedWithinLimit` | limits hold although codes, deadline and proposal change under an open request; the limit of speakers holds where checks are not overtaken |
| `reviews` | 1 reviewer, 2 proposals, 1 track, 2 phases, 2 categories | `ReviewsTypeOK` `ScoresCurrent` `PhaseFollowsWindow` | stored scores are current; the active phase comes back to an open window |
| `verification` | `SpeakerClaims`: 2 people, 2 addresses, 1 request, 1 editor, 2 links | `VerificationTypeOK` `VerifiedMeansProven` `MailsPerCooldown` `LinksMatchAddress` `AddressMovesWithProof` `ImplementsVerification` | verified means proven with old links around, and with claims; mails are limited when requests take turns |
| `teams` | 2 users, 1 event, 2 teams, 1 invitation, 1 token, 1 request | `TeamsTypeOK` `InviteAdmitsOnce` `RemovalShrinksTokens` `SomebodyManages` `ExpiredForGood` | access is given once, taken for good but for forms that are open, and always in somebody's hands |
| `slots_postgres` | 1 session, 2 slots, 2 starts, all states, NULL last | `UnscheduledFirst`, violated | finding 1 |
| `silent` | 1 session, 1 slot, 1 release | `SilentMeansSame`, violated | finding 2 |
| `mail_expiry` | 1 mail, 1 request, 1 send | `ExpiresOnlyOverdue`, violated | finding 3 |
| `signup_settings` | as `signup` | `SwitchOffStrandsNobody`, violated | finding 4 |

Deadlock is checked in `schedule`, `changes`, `signup` and the mail runs. It is not in `teams`,
`verification`, `proposals` and `reviews`, where the system may stop: an organiser who is done, ids and
bounds that are used up.

### Bounds

`MaxSlots` bounds `slot_count`: two slots are the least with a choice of which one to delete, and two
starts the least with an order among placed slots and with anywhere to move to. `WholePlaces` keeps
slots with a start and no room, or a room and no start, out of `schedule` once there is a version.
`MaxReleases` bounds the versions: one release shows what a release does; `changes` needs two, for lists
of what moved in between. Sessions touch each other's rows nowhere, which the proofs establish for any
number of sessions, so one session per run is enough, and so it is with breaks, more slots and more
releases. `Decisions` leaves out cancelled, withdrawn and submitted as what organisers choose in
`schedule`: cancelled fares like rejected, sessions begin as submitted, and speakers withdraw. In
`changes` the constraint `FewStates` keeps one state without slots besides accepted and confirmed, and
slots with a place or none, since what other states do to slots is the subject of `schedule`; and two
compute at a time between the releases only, since a first release tells of everything anyway.

`MaxSends` bounds how often a mail is sent: three with two requests lets both send, and one of them
again after a failure or timeout. `MaxRetries` is 5 in the code (`mail/tasks.py:50`); one retry reaches
and passes the bound. `HourPasses` takes time out of an instance. `MaxCapacity` bounds capacities: with
two, capacities of one and two are binding for three attendees, and both can be changed into each other
while a request runs.

`MaxUses` and `MaxRedeemed` bound the limit and the count of codes: a limit of one is reached by the
first proposal and missed by the second one. One request interleaves with every change of organisers,
which is what the checks under the lock are for. `MaxWorth` bounds the value of a score: scores of 0 and
1 differ, which is all `ScoresCurrent` asks. `MaxLinks` bounds the links around at a time: with two, one
is old. `MailBound` follows mails of one account at a time, and a profile only while no link is around
and no mail was sent lately; before a profile exists, accounts are explored without it. `FormBound`
follows forms of tokens while no invitation is open, and with one team only once an invitation was used
or retracted; `VisitBound` follows visits while no access code is in use, at most one of them next to a
request of the wizard or the edit page: invitations into teams and forms of tokens, codes and visits
write different rows. The theorems need none of these bounds. Symmetry is used in `changes`,
`verification`, `proposals` and `teams`, whose properties are about states and single steps.

### What the instances leave to a condition

The code locks little, so many properties come with a condition. Hypotheses of the theorems:

- `VerifiedMeansProven`, `AddressMovesWithProof` and `MailsPerCooldown` hold when requests of the same
  user do not overlap (`UsersTakeTurns`). With two, one can save a state over an address the other has
  changed, or the whole row as it was; and both pass the cooldown before either has sent its mail.
- `LinksMatchAddress` holds when an edit that somebody begins on their own profile overlaps with no
  other edit (`EditorsTakeTurns`); organisers may overlap with each other as long as nobody has claimed
  the profile.
- `SomebodyManages` holds when the database admits one writer: with `WritersExclude` FALSE and two
  requests, each may remove the last manager the other one counted on.

The runs have one request, one editor and one writer, which is less. In the properties themselves, as a
part of the state they speak of:

- `SpeakersWithinLimit` speaks of proposals where every check of the limit still held when its request
  wrote (`checked`), and like `RedeemsOnce` and `InvitedWhenReal` of proposals over which no stale copy
  was saved (`clean`).
- `ExpiredForGood` speaks of tokens that expire while no form of theirs is in hand; for
  `RemovalShrinksTokens` a form that is saved late is an edit.
- `AtMostOnce`, `ReturnsWithError` and `ImplementsMailLife` speak of mails nobody contended for.
- `IndicatorRight` and `NotifiesExactly` make the exceptions that `suspect` names, `SlotsFollowState`
  those of `unreconciled`, `ScoresCurrent` those of `skipped`.

And two modules execute one request at a time, so that nothing they say holds for overlapping requests:
`ScheduleRelease`, with what `ScheduleChanges` takes over from it (pages, workers and tasks do overlap
there), and `Reviews`. What is left holds for any number of overlapping requests: the properties of
`Signup` (where a validator and its save are one step), of `MailOutbox`, `InviteAdmitsOnce` and
`RedeemedWithinLimit`.

That no two accounts share an address is not among the properties. The code asks before it saves, and
only the unique constraints of the database (`person/models/user.py:121`, `:171`) refuse a save after
which two would; the model takes them as a guard.

### Fairness

`MailFairness` is weak fairness of `HourGoesBy` and `Expire`: time passes, and the installation guide
requires cron to run the periodic tasks, one of which is `expire_stale_mails_periodic`. Nothing is
assumed of requests, workers, the broker or SMTP: each may stop for good at any step, and `NeverStuck`
holds nevertheless. `ReviewsSpec` assumes weak fairness of `UpdateReviewPhase`, another periodic task,
and nothing of organisers or time. The task looks only at events that ended less than three days ago or
have not ended (`event/receivers.py:23-29`), so the assumption is about these; the phases of an event
that is over stay as they are. `PhaseFollowsWindow` says that the active phase is right time and again,
however often windows move and phases are switched by hand. The other modules state no fairness; nobody
is obliged to release, to review or to sign up.

## 4. The proofs

All theorems hold for all values of the constants under the assumptions named in the modules (bounds are
positive numbers, starts and rooms are numbers other than `Null`, targets are states, the identities of
talk rows, breaks and blockers are distinct).

**ScheduleRelease_proofs.** `IndInv` is `TypeOK`, `SlotsFollowState`, `VisibleOnlyConfirmed` and
`NoBlockersReleased` together, and `ReleasedHaveStart`: what a version shows has a start, so that a move
of the event moves it. The conjuncts need each other: that every row of a proposal is counted needs the
type of `wip`; that a step for one proposal leaves the others alone needs the rows of different
proposals to be disjoint (`RowFacts`). Every action is shown to be one of a few kinds of step: a
`ProposalStep`, which changes one proposal and reconciles its slots; an `EditorStep`, which moves, adds
or deletes slots but shows none; an `EventStep`, which moves or unschedules slots of the WIP schedule
and moves all versions alike; a deletion; or a release. `Invariance` follows by induction over the
steps, with one step of the proof per action. `TypeCorrect`, `SlotsAlwaysFollowState`,
`OnlyConfirmedVisible` and `BlockersNeverReleased` are its conjuncts. `ReleasesKeepPlan` and
`ReleasesInSync` are action properties: the list of versions only grows in `FreezeSchedule`, whose copy
keeps every row, and a blocker is no talk, so dropping it makes no difference. `Refinement` proves `Spec
=> ImplementsAgenda`: initial states map to initial states, `FreezeSchedule` to `Publish` (what it shows
is confirmed and has a start), `DeleteSubmission` to `Erase`, edits of the event to `Shift`, and every
other step to `Decide` or a stutter. So the versions are not immutable: deletions and moves of the whole
event change them, and the theorem says that nothing else does.

`UnscheduledGoFirst` needs the assumption `NullsFirst`: the slots that `update_talk_slots` deletes come
first in an order in which unscheduled slots precede placed ones, so a placed slot among them means that
all unscheduled ones are.

`ReleaseShowsHidden` says what a release would add to the WIP schedule as people see it: the confirmed
sessions whose slot is placed but still hidden, and nothing else. `SilentUnlessHidden` draws the
consequence for finding 2: where no such slot exists, the silence of the indicator means what its
documentation says, so the finding has this one cause.

`SlotsAlwaysAnswer` is about what is not there: `update_talk_slots` is a set of results, and an empty
set would take a step out of the model and make every invariant easier. It is never empty, since the
order of `ORDER BY` is a strict order (`SlotOrder`), and from a finite set in such an order any number
of elements can be deleted first (`RestExists`). The induction over finite sets behind this is the
well-foundedness of strict inclusion, from the library, applied to the sets that are left.
`ComparisonAnswers` says the same of `ChangesOf`, and how many slots of a session its list calls new and
moved.

The second half of the module is about `ScheduleChanges`. `ChangesImplementsRelease` says that its steps
are steps of `ScheduleRelease` or leave it alone, which brings over `IndInv`. `CacheInv` then says what
readers rely on: once nothing is under way a cached list agrees with the schedules (`Fits`), and while
nothing is suspect a computation is alone, and right unless a task is still queued to correct it.
`IndicatorAlwaysRight` and `SpeakersNotified` follow, for any number of sessions, slots, readers and
releases. An edit of the event (`MoveDates`) is announced to nobody: it makes the system suspect when it
changes what is shown, and then neither theorem claims anything until a computation has run alone.
`ChangesTypeCorrect` needs one more fact: the slots a cached list or a reader names exist, because every
step that deletes slots reads the lists again.

**MailOutbox_proofs.** `SentWasDelivered` is not inductive: SENT is written by the worker after its
delivery, by `send_draft` when the copy has `sent` set, and could come back with an edit saved late.
`MailInv` adds what each place knows: a row whose `sent` is set was delivered (`RowsDelivered`), so was
the mail of a copy whose `sent` is set, and no copy is SENDING or SENT (`CopiesDelivered`), and the mail
of a task that is done (`TasksDelivered`). `SentMailsWereDelivered` and `MailTypeCorrect` follow.
`DeliveriesPaidFor` is the property `OneDeliveryPerSend`, for finitely many requests: deliveries, tasks
that are still queued and requests that are about to hand the mail over are at most as many as its sends
(`PaidFor`), each step only moves one from one kind to another.

`TimeoutReaches` is the part of `NeverStuck` that is about steps: a mail that is SENDING and not `old`
becomes so with the next hour; while it is SENDING it stays `old`, whatever is saved over it, since
copies are never SENDING; and `Expire` ends it. `MailsLeaveSending` derives `NeverStuck` from it with
the fairness of the specification and the hypothesis `[]TimeHasWork`, which says that `HourGoesBy` and
`Expire` are enabled when a mail waits for them.

**MailContention_proofs.** A mail without contention has one owner at a time (`OwnedInv`): it rests in
the outbox, or one request is busy with it, or one task is, and what the others once read of it is past.
`DeliveredAtMostOnce` and `MailsReturnWithError` are what the owner does. For `OutboxImplements` the
invariant also says that the owner's copy shows the error of the row, since it is what a plugin's
sending leaves there; then each action of a request, of a worker and of time is a step of `MailLife` for
one mail and a stutter for the others (`EditLives`, `SendLives`, `FailureLives`, `DispatchLives`,
`WorkerLives`, `HourLives`). A mail becomes contended only as a draft or while it is sent
(`ContendedEarly`), so `sent` and `deleted` are final. `ContentionImplementsOutbox` carries what is
proved of `MailOutbox` over to `MailContention`.

**Signup_proofs.** Attendees are finitely many (`AttendeesFinite`); sessions, types and tracks may be
any sets. `CapacityRespected` rests on what a request has read still being true when it writes.
`SignupInv` says so: at most one request holds the lock of a session (`OneLocks`), and while one does,
the capacity and the count it has read are those of the database, unless the capacity comes from the
room (`SeenUnderLock`). Every action that could change them waits for the lock. A room may be edited
meanwhile, which is why the property speaks of the session's own capacity only. The same invariant gives
`SignupImplementsSeats`: what `ConfirmSignup` has read under the lock is still true, so its step is a
`TakeSeat` of the abstract booking, and all others move nobody or are the step they are named after.
`FormsNeverStrand` needs no more than the types: a session that required a sign-up either is pinned, has
its own override, or inherits from the other flag.

**Proposals_proofs.** `CfpInv` says of every proposal that is `clean` what the three invariants say, and
that a draft has its owner as the only speaker (`RowsOK`); that is why the list of addresses a request
of the wizard brought along, checked against the limit when it was read, still fits when it is saved
(`ReadsOK`). For visits, `VisitsOK` keeps that one more person fits the number that was counted, and
that the invitation in hand, if it still exists, is one of the proposal's. `LimitKept` then holds for
proposals that are `clean` and `checked`: the check was made in an earlier step, and what it has counted
is still what is there. `RedeemedWithinLimit` is the guard of the locked row, whatever was read before.
Users are finitely many, `MaxSpeakers` is at least 1.

**Reviews_proofs.** `ScoresCurrent` is inductive with the types; the work is in `SaveScores`, where a
score is shown to depend on nothing that `affects_review_scores` overlooks, except what `skipped`
records. `TaskFinds` says that one run of `UpdateReviewPhase` makes the active phase right from every
reachable state, and that only time, edits of windows and organisers can make it wrong again.
`PhaseIsFound` derives `PhaseFollowsWindow` from it under the fairness of the task, with the hypothesis
`[]TaskHasWork`: the task is enabled when the phase is wrong.

**Verification_proofs.** `VerifiedProven`, `AddressMovesProven` and `CooldownKept` are about requests
that ask, and write in a later step. All three take the hypothesis `UsersTakeTurns`: then what a request
has loaded is what the row still says (`LoadedInv`), also for those that save the whole row, and what
the cooldown has told it is still true when the mail leaves (`BurstInv`: a request that may send a mail
although the cooldown has begun holds the key of the free correction, and one mail at most was sent
before). Requests of different users overlap as they like. For claims, `ClaimsInv` carries two facts
through every edit: in the row and in every copy of it, a link went to the address beside it (`Sound`),
and the copy of a profile that has a user has the address of the row, and its link if there is one
(`OwnCopy`), under the hypothesis `EditorsTakeTurns`. `ClaimsImplement` maps a claim to the promotion of
somebody who has read the mail, and `ClaimsVerifyProven` brings `VerifiedMeansProven` over to the system
with claims.

**Teams_proofs.** `TeamInv` goes table by table: an invitation that is not used up has admitted nobody,
what a token lost is not in a token that works, and a change that waits for its commit names events that
exist and takes from tokens all they are to lose (`FormPart` is the types of the forms in hand).
`ExpiredStays` needs that a form which saves token k has k in hand, so a token that has expired with no
such form is written by none. `TeamsStayManaged` carries `Managed`, coverage of the committed rows
together with coverage after whichever change is staged, under the hypothesis `WritersExclude`.

What the prover cannot do: it has rules for `WF_v(A)` but none for `ENABLED`, so the two liveness
properties are proved from `TimeHasWork` and `TaskHasWork` as hypotheses, and without hypotheses they
are only model-checked. `UpdateReviewPhase` and `Expire` have no guard, `HourGoesBy` only the constant
`HourPasses`, and each changes a variable when it has work, which is all that the hypotheses say. Every
invariant, action property and refinement a run checks is proved. No module declares a recursive
operator. `ClaimsTypeOK`, `MailTypeOK` and `SignupTypeOK` are proved and not part of a run.

## 5. Findings

1. **A placed slot is deleted before an unscheduled one on PostgreSQL** (`slots_postgres`). The comment
   and docstring of `update_talk_slots` promise the opposite; `ORDER BY start` sorts NULL last there.
2. **A session placed after a release can be missing from the unreleased changes** (`silent`). A release
   hides unscheduled slots in the new WIP schedule too, placing one does not show it again, and the
   comparison ignores hidden slots; the next release shows it.
3. **The timeout of the outbox hits mails that were just sent** (`mail_expiry`). `send_draft` does not
   write `updated`, from which the timeout is measured.
4. **The event settings strand attendees** (`signup_settings`). Taking a track or type off the lists of
   the event settings clears the same flag as their own forms, but without `pin_signup_required`:
   attended sessions stop requiring a sign-up.

Besides, and without a run: `Submission.editable` says that "drafts should only be editable when they
could also be submitted" and passes over the redemption count "since the code was already redeemed when
creating the draft" (`submission/models/submission.py:341-344`). Drafts redeem nothing until they are
submitted (`RedeemsOnce`), so a draft whose code is used up can be edited and not be submitted.

## 6. Reading and running

`tlc -config <run>.cfg <module>.tla`: the module is `MCScheduleRelease` for `schedule`, `slots_postgres`
and `silent`, `MCScheduleChanges` for `changes`, `MCMailContention` for `mail_races`, `MCMailOutbox` for
`mail_expiry`, `MCSignup` for the two signup files, and `MCProposals`, `MCReviews`, `MCVerification` and
`MCTeams` for the files of their names. `tlapm <module>_proofs.tla` checks the proofs of a module.
Operators marked `Mutant:` in the modules are wrong versions of the definition that follows; no action
uses them. They document which mistake each property would catch.

A good order: `ScheduleRelease` with `PublicAgenda`, then `ScheduleChanges`; `MailOutbox`, then
`MailContention` with `MailLife`; `Seats`, then `Signup`; `Verification`, then `SpeakerClaims`; the
other three stand alone.

## 7. Plan

Done, in the order of importance: `ScheduleRelease` and its refinement of `PublicAgenda` with the API's
writes, `ScheduleChanges`, `MailOutbox` with `MailContention` and its refinement of `MailLife`, `Signup`
and its refinement of `Seats`, `Proposals`, `Teams`, `Verification` with `SpeakerClaims`, `Reviews`; all
with runs and proofs.

Left:

1. Two overlapping requests on `ScheduleRelease`: copies of a proposal and of the WIP schedule, a
   release during an edit, and the duplicate WIP schedule that two requests may create.
2. Availabilities: union, intersection and containment of intervals as operators, checked against sets
   of points in time.
3. `minimum_interval`, the lock of periodic tasks, and the mails of the life cycle of an event that go
   out once.
4. Recovery of passwords next to `Verification`; custom fields and the answers to them next to
   `Proposals`; assignments of reviewers next to `Reviews`.
5. Which sessions a speaker has in the mails of a release, so that they become drafts of `MailOutbox`.

## 8. Not modelled, and why

Rendering of mails and pages, exports, the schedule editor in the browser, search, themes and
configuration forms are text and presentation. The wizard holds its data in the session until its last
step. Tags, custom fields, questions and the editor of the call for papers are configuration with
cascading deletions. Tracks and types matter where `Signup`, `Reviews` and `Proposals` name them. Rooms
have an order and a capacity, which `ScheduleRelease` and `Signup` take as given. `unfreeze_schedule` is
documented for plugins and has no caller in the program; the theorems speak of a system in which nobody
uses it. The event cache holds values that can be computed again; the two entries whose age matters are
in `ScheduleChanges`, the cooldowns in `Verification`. Availabilities and warnings are pure functions
whose answers refuse nothing. Plugins appear where the code calls them and their answer changes the
state: vetoes, and sending a mail themselves.

Requests on proposals and schedules run one at a time in `ScheduleRelease`: the code loads the whole
row, saves it without a comparison, and promises nothing when two people do that at once. `Reviews` does
the same. The dates and the time zone of an event are not state, so its edits are freer than the form's.

What the code does and no property forbids, because nothing in the repository promises otherwise: edits
of the time zone and `move_event` rewrite published versions; an edit of the dates leaves the indicator
of unreleased changes wrong for up to a day; overlapping requests of one user get more mails than the
cooldown says; overlapping invitations, and acceptances of retracted ones, pass the limit of speakers; a
form that was open brings a revoked token back. All of these are steps of the models, and hazards in
`PROJECT.json`. Uniqueness of addresses is left to the database.
