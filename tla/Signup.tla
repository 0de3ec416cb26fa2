------------------------------- MODULE Signup -------------------------------
(***************************************************************************)
(* Attendees sign up for sessions and cancel, while organisers edit the    *)
(* sessions, switch the requirement to sign up on tracks and session       *)
(* types, edit rooms and release schedules.                                *)
(*                                                                         *)
(* create_signup checks the session it loaded, then locks the session's    *)
(* row, reads the capacity and counts, and writes: three steps.  All       *)
(* other writes of a session's row wait for that lock.  Requests of        *)
(* organisers store a whole row, possibly one they loaded long ago, so an  *)
(* edit may store any row.  The attendee_signup feature is on.             *)
(***************************************************************************)
EXTENDS Naturals, FiniteSets

CONSTANTS
    Sessions,
    Attendees,      \* users whose address the event admits
    Types,          \* session types
    Tracks,
    NoTrack,        \* NULL in the column track
    MaxCapacity     \* bound on capacities

ASSUME NoTrackIsNone == NoTrack \notin Tracks
ASSUME AttendeesFinite == IsFiniteSet(Attendees)
ASSUME CapacityBound == MaxCapacity \in Nat \ {0}

VARIABLES
    row,            \* the columns of each session that matter here
    signups,        \* the AttendeeSignup rows: session, then attendee
    request,        \* the running create_signup of each attendee
    typeRequires,   \* SubmissionType.attendee_signup_required
    trackRequires,  \* Track.attendee_signup_required
    roomCapacity    \* capacity of the room each session has in the
                    \* released schedule; NULL also if it has none

signupVars ==
    <<row, signups, request, typeRequires, trackRequires, roomCapacity>>
flagVars == <<typeRequires, trackRequires>>

-----------------------------------------------------------------------------
\* NULL; the validators admit no capacity below 1.
Unlimited == 0
Capacities == 0..MaxCapacity

\* required: the override of the session; "unknown" is NULL, as in the form.
Row == [required : {"unknown", "true", "false"}, capacity : Capacities,
        track : Tracks \cup {NoTrack}, type : Types]

\* capacity and count are what the request has read under the lock.
Request == [at : {"idle", "checked", "locked"}, session : Sessions,
            capacity : Capacities, count : Nat]

Confirmed(s) == {a \in Attendees : signups[s][a] = "confirmed"}

Inherits(r) ==
    \/ r.track # NoTrack /\ trackRequires[r.track]
    \/ typeRequires[r.type]

RequiresSignup(s) ==
    \/ row[s].required = "true"
    \/ row[s].required = "unknown" /\ Inherits(row[s])

EffectiveCapacity(s) ==
    IF row[s].capacity # Unlimited THEN row[s].capacity ELSE roomCapacity[s]

\* select_for_update: somebody is inside create_signup for this session.
Locked(s) ==
    \E a \in Attendees : request[a].at = "locked" /\ request[a].session = s

SignupInit ==
    /\ row \in [Sessions -> Row]
    /\ signups = [s \in Sessions |-> [a \in Attendees |-> "none"]]
    /\ \E s \in Sessions :
          request = [a \in Attendees |->
                        [at |-> "idle", session |-> s,
                         capacity |-> Unlimited, count |-> 0]]
    /\ typeRequires \in [Types -> BOOLEAN]
    /\ trackRequires \in [Tracks -> BOOLEAN]
    /\ roomCapacity \in [Sessions -> Capacities]

-----------------------------------------------------------------------------
(* Attendees.                                                              *)

BeginSignup(a, s) ==
    /\ request[a].at = "idle"
    /\ RequiresSignup(s)
    /\ request' = [request EXCEPT ![a] = [@ EXCEPT !.at = "checked", !.session = s]]
    /\ UNCHANGED <<row, signups, flagVars, roomCapacity>>

ReadLocked(a) ==
    LET s == request[a].session IN
    request' = [request EXCEPT ![a] =
        [at |-> "locked", session |-> s,
         capacity |-> EffectiveCapacity(s), count |-> Cardinality(Confirmed(s))]]

\* Mutant: the session is read without select_for_update.
LockSessionUnlocked(a) ==
    /\ request[a].at = "checked"
    /\ ReadLocked(a)
    /\ UNCHANGED <<row, signups, flagVars, roomCapacity>>

LockSession(a) ==
    /\ request[a].at = "checked"
    /\ ~Locked(request[a].session)
    /\ ReadLocked(a)
    /\ UNCHANGED <<row, signups, flagVars, roomCapacity>>

Full(a) ==
    request[a].capacity # Unlimited /\ request[a].count >= request[a].capacity

EndRequest(a) ==
    request' = [request EXCEPT ![a] =
        [at |-> "idle", session |-> @.session, capacity |-> Unlimited, count |-> 0]]

\* Signed up already, or the session is full.
TurnAway(a) ==
    /\ request[a].at = "locked"
    /\ signups[request[a].session][a] = "confirmed" \/ Full(a)
    /\ EndRequest(a)
    /\ UNCHANGED <<row, signups, flagVars, roomCapacity>>

\* A row is created, or the cancelled one is confirmed again.
ConfirmSignup(a) ==
    /\ request[a].at = "locked"
    /\ signups[request[a].session][a] # "confirmed"
    /\ ~Full(a)
    /\ signups' = [signups EXCEPT ![request[a].session] =
                      [@ EXCEPT ![a] = "confirmed"]]
    /\ EndRequest(a)
    /\ UNCHANGED <<row, flagVars, roomCapacity>>

CancelSignup(a, s) ==
    /\ ~Locked(s)
    /\ signups[s][a] = "confirmed"
    /\ signups' = [signups EXCEPT ![s] = [@ EXCEPT ![a] = "canceled"]]
    /\ UNCHANGED <<row, request, flagVars, roomCapacity>>

\* The profile and its sign-ups go with the user; a request that is under
\* way fails on its foreign keys.
ShredUser(a) ==
    /\ signups' = [s \in Sessions |-> [signups[s] EXCEPT ![a] = "none"]]
    /\ EndRequest(a)
    /\ UNCHANGED <<row, flagVars, roomCapacity>>

-----------------------------------------------------------------------------
(* Organisers.                                                             *)

\* Mutant: the row is written while somebody is inside create_signup.
SaveSessionAnyTime(s, new) ==
    /\ new.required = "false" => row[s].required = "false" \/ Confirmed(s) = {}
    /\ row' = [row EXCEPT ![s] = new]
    /\ UNCHANGED <<signups, request, flagVars, roomCapacity>>

\* The edit form, the capacity form and the API.  validate_signup_required
\* looks at an override that is being set to False only.
SaveSession(s, new) ==
    /\ ~Locked(s)
    /\ new.required = "false" => row[s].required = "false" \/ Confirmed(s) = {}
    /\ row' = [row EXCEPT ![s] = new]
    /\ UNCHANGED <<signups, request, flagVars, roomCapacity>>

\* Mutant: sessions without a track are forgotten.
PinnedInTracks(S, types, tracks) ==
    {s \in S : /\ row[s].required = "unknown"
               /\ Confirmed(s) # {}
               /\ ~types[row[s].type]
               /\ row[s].track # NoTrack
               /\ ~tracks[row[s].track]}

Pinned(S, types, tracks) ==
    {s \in S : /\ row[s].required = "unknown"
               /\ Confirmed(s) # {}
               /\ ~types[row[s].type]
               /\ row[s].track = NoTrack \/ ~tracks[row[s].track]}

\* pin_signup_required, over the sessions S of the type or track just saved.
PinSignupRequired(S, types, tracks) ==
    LET pinned == Pinned(S, types, tracks) IN
    /\ \A s \in pinned : ~Locked(s)
    /\ row' = [s \in Sessions |->
                  IF s \in pinned THEN [row[s] EXCEPT !.required = "true"] ELSE row[s]]

SubmissionTypeForm(t) ==
    /\ typeRequires' = [typeRequires EXCEPT ![t] = ~@]
    /\ IF typeRequires'[t]
       THEN UNCHANGED row
       ELSE PinSignupRequired({s \in Sessions : row[s].type = t},
                              typeRequires', trackRequires)
    /\ UNCHANGED <<signups, request, trackRequires, roomCapacity>>

TrackForm(k) ==
    /\ trackRequires' = [trackRequires EXCEPT ![k] = ~@]
    /\ IF trackRequires'[k]
       THEN UNCHANGED row
       ELSE PinSignupRequired({s \in Sessions : row[s].track = k},
                              typeRequires, trackRequires')
    /\ UNCHANGED <<signups, request, typeRequires, roomCapacity>>

\* The settings of the event hold the same flags as two lists.
EventForm(tracks, types) ==
    /\ trackRequires' = [k \in Tracks |-> k \in tracks]
    /\ typeRequires' = [t \in Types |-> t \in types]
    /\ UNCHANGED <<row, signups, request, roomCapacity>>

\* No lock is taken on the sessions in a room.
RoomForm(rooms) ==
    /\ roomCapacity' = rooms
    /\ UNCHANGED <<row, signups, request, flagVars>>

\* A release puts sessions in rooms.  Sessions without a capacity get that
\* of their room, and those the organiser ticked grow to it.
CapacityOnRelease(s, rooms, expand) ==
    IF RequiresSignup(s) /\ (row[s].capacity = Unlimited \/ s \in expand)
    THEN rooms[s] ELSE row[s].capacity

Release(rooms, expand) ==
    LET CapacityThen(s) == CapacityOnRelease(s, rooms, expand) IN
    /\ \A s \in expand :
          row[s].capacity # Unlimited /\ rooms[s] > row[s].capacity
    /\ \A s \in Sessions : CapacityThen(s) # row[s].capacity => ~Locked(s)
    /\ row' = [s \in Sessions |-> [row[s] EXCEPT !.capacity = CapacityThen(s)]]
    /\ roomCapacity' = rooms
    /\ UNCHANGED <<signups, request, flagVars>>

-----------------------------------------------------------------------------
SignupNext ==
    \/ \E a \in Attendees, s \in Sessions : BeginSignup(a, s) \/ CancelSignup(a, s)
    \/ \E a \in Attendees :
          LockSession(a) \/ TurnAway(a) \/ ConfirmSignup(a) \/ ShredUser(a)
    \/ \E s \in Sessions, new \in Row : SaveSession(s, new)
    \/ \E t \in Types : SubmissionTypeForm(t)
    \/ \E k \in Tracks : TrackForm(k)
    \/ \E tracks \in SUBSET Tracks, types \in SUBSET Types : EventForm(tracks, types)
    \/ \E rooms \in [Sessions -> Capacities] :
          RoomForm(rooms) \/ \E expand \in SUBSET Sessions : Release(rooms, expand)

SignupSpec == SignupInit /\ [][SignupNext]_signupVars

-----------------------------------------------------------------------------
(* The seats, without the three steps of create_signup and its lock.       *)

Booking == INSTANCE Seats WITH
    attending <- [s \in Sessions |-> Confirmed(s)],
    capacity <- [s \in Sessions |-> row[s].capacity]

\* A sign-up takes its seat in one step although it checks, counts and writes
\* in three: no request sees the others half done, and no capacity that was
\* changed meanwhile is overlooked.
ImplementsSeats == Booking!SeatsSpec

-----------------------------------------------------------------------------
\* Types; capacities stay within the bound.
SignupTypeOK ==
    /\ row \in [Sessions -> Row]
    /\ signups \in [Sessions -> [Attendees -> {"none", "confirmed", "canceled"}]]
    /\ request \in [Attendees -> Request]
    /\ typeRequires \in [Types -> BOOLEAN]
    /\ trackRequires \in [Tracks -> BOOLEAN]
    /\ roomCapacity \in [Sessions -> Capacities]

\* A sign-up never takes a session beyond its own capacity, however many
\* attendees press the button together and whoever changes the capacity
\* meanwhile (create_signup).  Capacities that are lowered afterwards may
\* leave a session overbooked; the capacity of a room is read without a
\* lock on the room.
CapacityRespected ==
    [][\A s \in Sessions :
          Confirmed(s)' \ Confirmed(s) # {} /\ row[s].capacity # Unlimited =>
              Cardinality(Confirmed(s)') <= row[s].capacity]_signupVars

\* Attended sessions that require a sign-up go on doing so.
AttendedKeepRequirement ==
    \A s \in Sessions :
        Confirmed(s) # {} /\ RequiresSignup(s) => RequiresSignup(s)'

\* Switching a track or type off in its own form or through the API strands
\* no attendees (pin_signup_required).
FormsStrandNobody ==
    [][(\E t \in Types : SubmissionTypeForm(t)) \/ (\E k \in Tracks : TrackForm(k))
          => AttendedKeepRequirement]_signupVars

\* What pin_signup_required is documented to ensure: whenever a track or type
\* switches off, attended sessions go on requiring a sign-up.
SwitchOffStrandsNobody ==
    [][flagVars' # flagVars => AttendedKeepRequirement]_signupVars
=============================================================================
