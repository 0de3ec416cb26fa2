---------------------------- MODULE Signup_proofs ----------------------------
(***************************************************************************)
(* Proofs about Signup, for every number of sessions, attendees, types and *)
(* tracks.                                                                 *)
(*                                                                         *)
(* What a request has read under the lock must still be true when it       *)
(* writes.  SeenUnderLock says so: the capacity it has read is the one the *)
(* session has, and it has counted everybody who is signed up, perhaps     *)
(* more, as users may be deleted.  It is inductive together with OneLocks. *)
(***************************************************************************)
EXTENDS Signup, FiniteSetTheorems, TLAPS

OneLocks ==
    \A a, b \in Attendees :
        /\ request[a].at = "locked"
        /\ request[b].at = "locked"
        /\ request[a].session = request[b].session
        => a = b

Seen(a) ==
    LET s == request[a].session IN
    /\ row[s].capacity # Unlimited => request[a].capacity = row[s].capacity
    /\ Cardinality(Confirmed(s)) <= request[a].count

SeenUnderLock == \A a \in Attendees : request[a].at = "locked" => Seen(a)

SignupInv == SignupTypeOK /\ OneLocks /\ SeenUnderLock

-----------------------------------------------------------------------------
\* A set of attendees can be counted.
LEMMA AttendeesCounted ==
    ASSUME NEW S \in SUBSET Attendees
    PROVE  IsFiniteSet(S) /\ Cardinality(S) \in Nat
  BY AttendeesFinite, FS_Subset, FS_CardinalityType

\* One attendee more is counted as one more at most.
LEMMA OneMore ==
    ASSUME NEW S \in SUBSET Attendees, NEW a
    PROVE  /\ Cardinality(S \cup {a}) \in Nat
           /\ Cardinality(S \cup {a}) <= Cardinality(S) + 1
  <1>1. IsFiniteSet(S) /\ Cardinality(S) \in Nat
    BY AttendeesCounted
  <1>2. Cardinality(S \cup {a}) = IF a \in S THEN Cardinality(S) ELSE Cardinality(S) + 1
    BY <1>1, FS_AddElement
  <1> QED
    BY <1>1, <1>2

\* Fewer attendees are not counted as more.
LEMMA CountedMonotone ==
    ASSUME NEW S \in SUBSET Attendees, NEW T \in SUBSET S
    PROVE  Cardinality(T) <= Cardinality(S)
  BY AttendeesCounted, FS_Subset

\* At the start nobody has asked for anything.
LEMMA SignupInitInv == SignupInit => SignupInv
  <1> SUFFICES ASSUME SignupInit PROVE SignupInv
    OBVIOUS
  <1>1. PICK s \in Sessions :
          request = [a \in Attendees |->
                        [at |-> "idle", session |-> s,
                         capacity |-> Unlimited, count |-> 0]]
    BY DEF SignupInit
  <1>2. Unlimited \in Capacities
    BY CapacityBound DEF Unlimited, Capacities
  <1>3. SignupTypeOK
    BY <1>1, <1>2 DEF SignupInit, SignupTypeOK, Request
  <1>4. \A a \in Attendees : request[a].at # "locked"
    BY <1>1
  <1> QED
    BY <1>3, <1>4 DEF SignupInv, OneLocks, SeenUnderLock

-----------------------------------------------------------------------------
(* Types.                                                                  *)

\* An effective capacity is a capacity.
LEMMA EffectiveCapacityType ==
    ASSUME SignupTypeOK, NEW s \in Sessions
    PROVE  EffectiveCapacity(s) \in Capacities
  BY DEF SignupTypeOK, EffectiveCapacity, Row

\* Ending a request leaves it well typed, and every other request alone.
LEMMA EndRequestEffect ==
    ASSUME SignupTypeOK, NEW a \in Attendees, EndRequest(a)
    PROVE  /\ request' \in [Attendees -> Request]
           /\ request'[a].at = "idle"
           /\ \A b \in Attendees : b # a => request'[b] = request[b]
  <1>1. request[a].session \in Sessions
    BY DEF SignupTypeOK, Request
  <1>2. Unlimited \in Capacities
    BY CapacityBound DEF Unlimited, Capacities
  <1>3. [at |-> "idle", session |-> request[a].session,
         capacity |-> Unlimited, count |-> 0] \in Request
    BY <1>1, <1>2 DEF Request
  <1> QED
    BY <1>3 DEF EndRequest, SignupTypeOK

\* Taking the lock leaves the requests well typed, and every other alone.
LEMMA ReadLockedEffect ==
    ASSUME SignupTypeOK, NEW a \in Attendees, ReadLocked(a)
    PROVE  /\ request' \in [Attendees -> Request]
           /\ request'[a] = [at |-> "locked", session |-> request[a].session,
                             capacity |-> EffectiveCapacity(request[a].session),
                             count |-> Cardinality(Confirmed(request[a].session))]
           /\ \A b \in Attendees : b # a => request'[b] = request[b]
  <1>1. request[a].session \in Sessions
    BY DEF SignupTypeOK, Request
  <1>2. EffectiveCapacity(request[a].session) \in Capacities
    BY <1>1, EffectiveCapacityType
  <1>3. Cardinality(Confirmed(request[a].session)) \in Nat
    BY AttendeesCounted DEF Confirmed
  <1>4. [at |-> "locked", session |-> request[a].session,
         capacity |-> EffectiveCapacity(request[a].session),
         count |-> Cardinality(Confirmed(request[a].session))] \in Request
    BY <1>1, <1>2, <1>3 DEF Request
  <1> QED
    BY <1>4 DEF ReadLocked, SignupTypeOK

\* Pinning changes no capacity, and no row that is locked.
LEMMA PinEffect ==
    ASSUME SignupTypeOK, NEW S \in SUBSET Sessions, NEW types, NEW tracks,
           PinSignupRequired(S, types, tracks)
    PROVE  /\ row' \in [Sessions -> Row]
           /\ \A s \in Sessions : row'[s].capacity = row[s].capacity
           /\ \A s \in Sessions \ Pinned(S, types, tracks) : row'[s] = row[s]
           /\ \A s \in Pinned(S, types, tracks) : row'[s].required = "true"
  <1> DEFINE pinned == Pinned(S, types, tracks)
  <1>1. row' = [s \in Sessions |->
                  IF s \in pinned THEN [row[s] EXCEPT !.required = "true"] ELSE row[s]]
    BY DEF PinSignupRequired
  <1>2. pinned \subseteq Sessions
    BY DEF Pinned
  <1> HIDE DEF pinned
  <1>3. row \in [Sessions -> Row]
    BY DEF SignupTypeOK
  <1>4. \A s \in Sessions : [row[s] EXCEPT !.required = "true"] \in Row
    BY <1>3 DEF Row
  <1>5. \A s \in Sessions :
          /\ [row[s] EXCEPT !.required = "true"].capacity = row[s].capacity
          /\ [row[s] EXCEPT !.required = "true"].required = "true"
    BY <1>3 DEF Row
  <1>6. row' \in [Sessions -> Row]
    BY <1>1, <1>3, <1>4
  <1>7. \A s \in Sessions : row'[s].capacity = row[s].capacity
    BY <1>1, <1>5
  <1>8. \A s \in Sessions \ pinned : row'[s] = row[s]
    BY <1>1
  <1>9. \A s \in pinned : row'[s].required = "true"
    BY <1>1, <1>2, <1>5
  <1> QED
    BY <1>6, <1>7, <1>8, <1>9 DEF pinned

\* Every step keeps the types.
LEMMA SignupTypeStep ==
    ASSUME SignupTypeOK, [SignupNext]_signupVars
    PROVE  SignupTypeOK'
  <1> USE DEF SignupTypeOK, flagVars
  <1>1. CASE UNCHANGED signupVars
    BY <1>1 DEF signupVars
  <1>2. ASSUME NEW a \in Attendees, NEW s \in Sessions, BeginSignup(a, s)
        PROVE  SignupTypeOK'
    <2>1. [request[a] EXCEPT !.at = "checked", !.session = s] \in Request
      BY DEF Request
    <2> QED
      BY <1>2, <2>1 DEF BeginSignup
  <1>3. ASSUME NEW a \in Attendees, NEW s \in Sessions, CancelSignup(a, s)
        PROVE  SignupTypeOK'
    BY <1>3 DEF CancelSignup
  <1>4. ASSUME NEW a \in Attendees, LockSession(a)
        PROVE  SignupTypeOK'
    BY <1>4, ReadLockedEffect DEF LockSession
  <1>5. ASSUME NEW a \in Attendees, TurnAway(a)
        PROVE  SignupTypeOK'
    BY <1>5, EndRequestEffect DEF TurnAway
  <1>6. ASSUME NEW a \in Attendees, ConfirmSignup(a)
        PROVE  SignupTypeOK'
    BY <1>6, EndRequestEffect DEF ConfirmSignup
  <1>7. ASSUME NEW a \in Attendees, ShredUser(a)
        PROVE  SignupTypeOK'
    BY <1>7, EndRequestEffect DEF ShredUser
  <1>8. ASSUME NEW s \in Sessions, NEW new \in Row, SaveSession(s, new)
        PROVE  SignupTypeOK'
    BY <1>8 DEF SaveSession
  <1>9. ASSUME NEW t \in Types, SubmissionTypeForm(t)
        PROVE  SignupTypeOK'
    <2>1. row' \in [Sessions -> Row]
      BY <1>9, PinEffect DEF SubmissionTypeForm
    <2> QED
      BY <1>9, <2>1 DEF SubmissionTypeForm
  <1>10. ASSUME NEW k \in Tracks, TrackForm(k)
         PROVE  SignupTypeOK'
    <2>1. row' \in [Sessions -> Row]
      BY <1>10, PinEffect DEF TrackForm
    <2> QED
      BY <1>10, <2>1 DEF TrackForm
  <1>11. ASSUME NEW tracks \in SUBSET Tracks, NEW types \in SUBSET Types,
                EventForm(tracks, types)
         PROVE  SignupTypeOK'
    BY <1>11 DEF EventForm
  <1>12. ASSUME NEW rooms \in [Sessions -> Capacities], RoomForm(rooms)
         PROVE  SignupTypeOK'
    BY <1>12 DEF RoomForm
  <1>13. ASSUME NEW rooms \in [Sessions -> Capacities], NEW expand \in SUBSET Sessions,
                Release(rooms, expand)
         PROVE  SignupTypeOK'
    <2>1. \A s \in Sessions : CapacityOnRelease(s, rooms, expand) \in Capacities
      BY DEF CapacityOnRelease, Row
    <2>2. \A s \in Sessions :
            [row[s] EXCEPT !.capacity = CapacityOnRelease(s, rooms, expand)] \in Row
      BY <2>1 DEF Row
    <2> QED
      BY <1>13, <2>2 DEF Release
  <1> QED
    BY <1>1, <1>2, <1>3, <1>4, <1>5, <1>6, <1>7, <1>8, <1>9, <1>10, <1>11, <1>12, <1>13
       DEF SignupNext

-----------------------------------------------------------------------------
(* The lock.                                                               *)

\* What the invariant says of locks survives a step that takes no lock and
\* leaves the sessions that stay locked alone.
LEMMA LocksKept ==
    ASSUME SignupInv, SignupTypeOK',
           \A a \in Attendees :
              request'[a].at = "locked" =>
                 /\ request'[a] = request[a]
                 /\ row'[request[a].session].capacity = row[request[a].session].capacity
                 /\ Confirmed(request[a].session)' \subseteq Confirmed(request[a].session)
    PROVE  OneLocks' /\ SeenUnderLock'
  <1>1. OneLocks'
    BY DEF SignupInv, OneLocks
  <1>2. ASSUME NEW a \in Attendees, request'[a].at = "locked"
        PROVE  Seen(a)'
    <2> DEFINE s == request[a].session
    <2>1. /\ request'[a] = request[a]
          /\ row'[s].capacity = row[s].capacity
          /\ Confirmed(s)' \subseteq Confirmed(s)
      BY <1>2
    <2>2. Seen(a)
      BY <1>2, <2>1 DEF SignupInv, SeenUnderLock
    <2>3. request[a].count \in Nat
      BY DEF SignupInv, SignupTypeOK, Request
    <2>4. Confirmed(s) \in SUBSET Attendees
      BY DEF Confirmed
    <2>5. Cardinality(Confirmed(s)') <= Cardinality(Confirmed(s))
      BY <2>1, <2>4, CountedMonotone
    <2>6. Cardinality(Confirmed(s)') \in Nat /\ Cardinality(Confirmed(s)) \in Nat
      BY <2>1, <2>4, AttendeesCounted
    <2>7. Cardinality(Confirmed(s)) <= request[a].count
      BY <2>2 DEF Seen
    <2>8. Cardinality(Confirmed(s)') <= request[a].count
      BY <2>3, <2>5, <2>6, <2>7
    <2>9. row[s].capacity # Unlimited => request[a].capacity = row[s].capacity
      BY <2>2 DEF Seen
    <2> QED
      BY <2>1, <2>8, <2>9 DEF Seen
  <1> QED
    BY <1>1, <1>2 DEF SeenUnderLock

\* A request that confirms holds the lock alone: no other session changes,
\* and nobody else is inside.
LEMMA ConfirmKeepsLocks ==
    ASSUME SignupInv, SignupTypeOK', NEW a \in Attendees, ConfirmSignup(a)
    PROVE  OneLocks' /\ SeenUnderLock'
  <1>1. SignupTypeOK
    BY DEF SignupInv
  <1>2. /\ request'[a].at = "idle"
        /\ \A b \in Attendees : b # a => request'[b] = request[b]
    BY <1>1, EndRequestEffect DEF ConfirmSignup
  <1>3. ASSUME NEW b \in Attendees, request'[b].at = "locked"
        PROVE  /\ request'[b] = request[b]
               /\ row'[request[b].session].capacity = row[request[b].session].capacity
               /\ Confirmed(request[b].session)' \subseteq Confirmed(request[b].session)
    <2>1. b # a /\ request'[b] = request[b]
      BY <1>2, <1>3
    <2>2. request[b].session # request[a].session
      BY <1>3, <2>1 DEF SignupInv, OneLocks, ConfirmSignup
    <2>3. signups'[request[b].session] = signups[request[b].session]
      BY <1>1, <2>2 DEF ConfirmSignup, SignupTypeOK, Request
    <2> QED
      BY <2>1, <2>3 DEF ConfirmSignup, Confirmed
  <1> QED
    BY <1>3, LocksKept

\* A request that gets the lock is alone inside, and has just read.
LEMMA LockKeepsLocks ==
    ASSUME SignupInv, SignupTypeOK', NEW a \in Attendees, LockSession(a)
    PROVE  OneLocks' /\ SeenUnderLock'
  <1> DEFINE s == request[a].session
  <1>1. SignupTypeOK
    BY DEF SignupInv
  <1>2. /\ request'[a] = [at |-> "locked", session |-> s,
                          capacity |-> EffectiveCapacity(s),
                          count |-> Cardinality(Confirmed(s))]
        /\ \A b \in Attendees : b # a => request'[b] = request[b]
    BY <1>1, ReadLockedEffect DEF LockSession
  <1>3. row' = row /\ signups' = signups /\ ~Locked(s)
    BY DEF LockSession
  <1>4. \A b \in Attendees :
          b # a /\ request'[b].at = "locked" => request'[b].session # s
    BY <1>2, <1>3 DEF Locked
  <1>5. OneLocks'
    BY <1>2, <1>4 DEF SignupInv, OneLocks
  <1>6. Confirmed(s)' = Confirmed(s) /\ request'[a].session = s
    BY <1>2, <1>3 DEF Confirmed
  <1>7. Cardinality(Confirmed(s)) \in Nat
    BY AttendeesCounted DEF Confirmed
  <1>8. Seen(a)'
    <2>1. row[s].capacity # Unlimited => request'[a].capacity = row[s].capacity
      BY <1>2 DEF EffectiveCapacity
    <2>2. Cardinality(Confirmed(s)) <= request'[a].count
      BY <1>2, <1>7
    <2> QED
      BY <1>3, <1>6, <2>1, <2>2 DEF Seen
  <1>9. ASSUME NEW b \in Attendees, b # a, request'[b].at = "locked"
        PROVE  Seen(b)'
    <2>1. request'[b] = request[b]
      BY <1>2, <1>9
    <2>2. Seen(b)
      BY <1>9, <2>1 DEF SignupInv, SeenUnderLock
    <2>3. Confirmed(request[b].session)' = Confirmed(request[b].session)
      BY <1>3, <2>1 DEF Confirmed
    <2> QED
      BY <1>3, <2>1, <2>2, <2>3 DEF Seen
  <1> QED
    BY <1>5, <1>8, <1>9 DEF SeenUnderLock

\* Steps of organisers wait for the lock where they write a session.
LEMMA OrganisersKeepLocks ==
    ASSUME SignupInv, SignupTypeOK', signups' = signups, request' = request,
           \A s \in Sessions : Locked(s) => row'[s].capacity = row[s].capacity
    PROVE  OneLocks' /\ SeenUnderLock'
  <1>1. ASSUME NEW a \in Attendees, request'[a].at = "locked"
        PROVE  /\ request'[a] = request[a]
               /\ row'[request[a].session].capacity = row[request[a].session].capacity
               /\ Confirmed(request[a].session)' \subseteq Confirmed(request[a].session)
    <2>1. request[a].session \in Sessions
      BY DEF SignupInv, SignupTypeOK, Request
    <2>2. Locked(request[a].session)
      BY <1>1 DEF Locked
    <2> QED
      BY <2>1, <2>2 DEF Confirmed
  <1> QED
    BY <1>1, LocksKept

\* Every step keeps the invariant.
LEMMA SignupStep ==
    ASSUME SignupInv, [SignupNext]_signupVars
    PROVE  SignupInv'
  <1>1. SignupTypeOK /\ SignupTypeOK'
    BY SignupTypeStep DEF SignupInv
  <1> SUFFICES OneLocks' /\ SeenUnderLock'
    BY <1>1 DEF SignupInv
  <1> USE DEF flagVars
  <1>2. CASE UNCHANGED signupVars
    BY <1>1, <1>2, OrganisersKeepLocks DEF signupVars
  <1>3. ASSUME NEW a \in Attendees, NEW s \in Sessions, BeginSignup(a, s)
        PROVE  OneLocks' /\ SeenUnderLock'
    <2>1. \A b \in Attendees : request'[b].at = "locked" => request'[b] = request[b]
      BY <1>1, <1>3 DEF BeginSignup, SignupTypeOK, Request
    <2>2. row' = row /\ \A k : Confirmed(k)' = Confirmed(k)
      BY <1>3 DEF BeginSignup, Confirmed
    <2> QED
      BY <1>1, <2>1, <2>2, LocksKept
  <1>4. ASSUME NEW a \in Attendees, NEW s \in Sessions, CancelSignup(a, s)
        PROVE  OneLocks' /\ SeenUnderLock'
    <2>1. \A k \in Sessions : Confirmed(k)' \subseteq Confirmed(k)
      BY <1>1, <1>4 DEF CancelSignup, Confirmed, SignupTypeOK
    <2>2. row' = row /\ request' = request
      BY <1>4 DEF CancelSignup
    <2>3. \A b \in Attendees : request[b].session \in Sessions
      BY <1>1 DEF SignupTypeOK, Request
    <2> QED
      BY <1>1, <2>1, <2>2, <2>3, LocksKept
  <1>5. ASSUME NEW a \in Attendees, LockSession(a)
        PROVE  OneLocks' /\ SeenUnderLock'
    BY <1>1, <1>5, LockKeepsLocks
  <1>6. ASSUME NEW a \in Attendees, TurnAway(a)
        PROVE  OneLocks' /\ SeenUnderLock'
    <2>1. \A b \in Attendees : request'[b].at = "locked" => request'[b] = request[b]
      BY <1>1, <1>6, EndRequestEffect DEF TurnAway
    <2>2. row' = row /\ \A k : Confirmed(k)' = Confirmed(k)
      BY <1>6 DEF TurnAway, Confirmed
    <2> QED
      BY <1>1, <2>1, <2>2, LocksKept
  <1>7. ASSUME NEW a \in Attendees, ConfirmSignup(a)
        PROVE  OneLocks' /\ SeenUnderLock'
    BY <1>1, <1>7, ConfirmKeepsLocks
  <1>8. ASSUME NEW a \in Attendees, ShredUser(a)
        PROVE  OneLocks' /\ SeenUnderLock'
    <2>1. \A b \in Attendees : request'[b].at = "locked" => request'[b] = request[b]
      BY <1>1, <1>8, EndRequestEffect DEF ShredUser
    <2>2. \A k \in Sessions : Confirmed(k)' \subseteq Confirmed(k)
      BY <1>1, <1>8 DEF ShredUser, Confirmed, SignupTypeOK
    <2>3. \A b \in Attendees : request[b].session \in Sessions
      BY <1>1 DEF SignupTypeOK, Request
    <2>4. row' = row
      BY <1>8 DEF ShredUser
    <2> QED
      BY <1>1, <2>1, <2>2, <2>3, <2>4, LocksKept
  <1>9. ASSUME NEW s \in Sessions, NEW new \in Row, SaveSession(s, new)
        PROVE  OneLocks' /\ SeenUnderLock'
    BY <1>1, <1>9, OrganisersKeepLocks DEF SaveSession, SignupTypeOK
  <1>10. ASSUME NEW t \in Types, SubmissionTypeForm(t)
         PROVE  OneLocks' /\ SeenUnderLock'
    <2>1. \A s \in Sessions : row'[s].capacity = row[s].capacity
      BY <1>1, <1>10, PinEffect DEF SubmissionTypeForm
    <2> QED
      BY <1>1, <1>10, <2>1, OrganisersKeepLocks DEF SubmissionTypeForm
  <1>11. ASSUME NEW k \in Tracks, TrackForm(k)
         PROVE  OneLocks' /\ SeenUnderLock'
    <2>1. \A s \in Sessions : row'[s].capacity = row[s].capacity
      BY <1>1, <1>11, PinEffect DEF TrackForm
    <2> QED
      BY <1>1, <1>11, <2>1, OrganisersKeepLocks DEF TrackForm
  <1>12. ASSUME NEW tracks \in SUBSET Tracks, NEW types \in SUBSET Types,
                EventForm(tracks, types)
         PROVE  OneLocks' /\ SeenUnderLock'
    BY <1>1, <1>12, OrganisersKeepLocks DEF EventForm
  <1>13. ASSUME NEW rooms \in [Sessions -> Capacities], RoomForm(rooms)
         PROVE  OneLocks' /\ SeenUnderLock'
    BY <1>1, <1>13, OrganisersKeepLocks DEF RoomForm
  <1>14. ASSUME NEW rooms \in [Sessions -> Capacities], NEW expand \in SUBSET Sessions,
                Release(rooms, expand)
         PROVE  OneLocks' /\ SeenUnderLock'
    <2>1. \A s \in Sessions : row'[s].capacity = CapacityOnRelease(s, rooms, expand)
      BY <1>1, <1>14 DEF Release, SignupTypeOK, Row
    <2>2. \A s \in Sessions : Locked(s) => row'[s].capacity = row[s].capacity
      BY <1>14, <2>1 DEF Release
    <2> QED
      BY <1>1, <1>14, <2>2, OrganisersKeepLocks DEF Release
  <1> QED
    BY <1>2, <1>3, <1>4, <1>5, <1>6, <1>7, <1>8, <1>9, <1>10, <1>11, <1>12, <1>13, <1>14
       DEF SignupNext

\* The inductive invariant holds in every reachable state.
THEOREM SignupInvariance == SignupSpec => []SignupInv
  BY SignupInitInv, SignupStep, PTL DEF SignupSpec

\* Types and bounds hold in every reachable state.
THEOREM SignupTypeCorrect == SignupSpec => []SignupTypeOK
  <1>1. SignupInv => SignupTypeOK
    BY DEF SignupInv
  <1> QED
    BY <1>1, SignupInvariance, PTL

-----------------------------------------------------------------------------
(* Capacity.                                                               *)

\* Only ConfirmSignup adds an attendee to a session.
LEMMA OnlyConfirmAdds ==
    ASSUME SignupTypeOK, [SignupNext]_signupVars,
           \A a \in Attendees : ~ConfirmSignup(a), NEW s \in Sessions
    PROVE  Confirmed(s)' \subseteq Confirmed(s)
  <1> USE DEF flagVars
  <1>1. CASE signups' = signups
    BY <1>1 DEF Confirmed
  <1>2. ASSUME NEW a \in Attendees, NEW k \in Sessions, CancelSignup(a, k)
        PROVE  Confirmed(s)' \subseteq Confirmed(s)
    BY <1>2 DEF CancelSignup, Confirmed, SignupTypeOK
  <1>3. ASSUME NEW a \in Attendees, ShredUser(a)
        PROVE  Confirmed(s)' \subseteq Confirmed(s)
    BY <1>3 DEF ShredUser, Confirmed, SignupTypeOK
  <1> QED
    BY <1>1, <1>2, <1>3
       DEF SignupNext, signupVars, BeginSignup, LockSession, TurnAway, SaveSession,
           SubmissionTypeForm, TrackForm, EventForm, RoomForm, Release

\* The attendee who is confirmed was not counted, and there was room.
LEMMA ConfirmRespectsCapacity ==
    ASSUME SignupInv, NEW a \in Attendees, ConfirmSignup(a), NEW s \in Sessions,
           Confirmed(s)' \ Confirmed(s) # {}, row[s].capacity # Unlimited
    PROVE  Cardinality(Confirmed(s)') <= row[s].capacity
  <1>1. SignupTypeOK
    BY DEF SignupInv
  <1>2. request[a].session = s
    BY <1>1 DEF ConfirmSignup, Confirmed, SignupTypeOK, Request
  <1>3. Confirmed(s)' = Confirmed(s) \cup {a}
    BY <1>1, <1>2 DEF ConfirmSignup, Confirmed, SignupTypeOK
  <1>4. Seen(a)
    BY DEF SignupInv, SeenUnderLock, ConfirmSignup
  <1>5. request[a].capacity = row[s].capacity /\ Cardinality(Confirmed(s)) <= request[a].count
    BY <1>2, <1>4 DEF Seen
  <1>6. ~(request[a].count >= request[a].capacity)
    BY <1>5 DEF ConfirmSignup, Full
  <1>7. request[a].count \in Nat /\ row[s].capacity \in Nat
    BY <1>1, CapacityBound DEF SignupTypeOK, Request, Row, Capacities
  <1>8. Confirmed(s) \in SUBSET Attendees
    BY DEF Confirmed
  <1>9. /\ Cardinality(Confirmed(s) \cup {a}) \in Nat
        /\ Cardinality(Confirmed(s) \cup {a}) <= Cardinality(Confirmed(s)) + 1
        /\ Cardinality(Confirmed(s)) \in Nat
    BY <1>8, OneMore, AttendeesCounted
  <1>10. Cardinality(Confirmed(s) \cup {a}) <= row[s].capacity
    BY <1>5, <1>6, <1>7, <1>9
  <1> QED
    BY <1>3, <1>10

\* No sign-up takes a session beyond its capacity, for any number of
\* attendees, sessions and organisers who change capacities meanwhile.
THEOREM CapacityAlwaysRespected == SignupSpec => CapacityRespected
  <1>1. ASSUME SignupInv, [SignupNext]_signupVars, NEW s \in Sessions,
               Confirmed(s)' \ Confirmed(s) # {}, row[s].capacity # Unlimited
        PROVE  Cardinality(Confirmed(s)') <= row[s].capacity
    <2>1. SignupTypeOK
      BY <1>1 DEF SignupInv
    <2>2. PICK a \in Attendees : ConfirmSignup(a)
      BY <1>1, <2>1, OnlyConfirmAdds
    <2> QED
      BY <1>1, <2>2, ConfirmRespectsCapacity
  <1>2. SignupInv /\ [SignupNext]_signupVars =>
          [\A s \in Sessions :
              Confirmed(s)' \ Confirmed(s) # {} /\ row[s].capacity # Unlimited =>
                  Cardinality(Confirmed(s)') <= row[s].capacity]_signupVars
    BY <1>1
  <1> QED
    BY <1>2, SignupInvariance, PTL DEF SignupSpec, CapacityRespected

-----------------------------------------------------------------------------
(* Pinning.                                                                *)

\* Whoever no longer inherits the requirement is pinned, and so still has it.
LEMMA PinStrandsNobody ==
    ASSUME SignupTypeOK, NEW S \in SUBSET Sessions,
           PinSignupRequired(S, typeRequires', trackRequires'), signups' = signups,
           \A s \in Sessions \ S : Inherits(row[s]) =>
               \/ row[s].track # NoTrack /\ trackRequires'[row[s].track]
               \/ typeRequires'[row[s].type]
    PROVE  AttendedKeepRequirement
  <1> DEFINE pinned == Pinned(S, typeRequires', trackRequires')
  <1>1. /\ row' \in [Sessions -> Row]
        /\ \A s \in Sessions \ pinned : row'[s] = row[s]
        /\ \A s \in pinned : row'[s].required = "true"
    BY PinEffect
  <1>2. ASSUME NEW s \in Sessions, Confirmed(s) # {}, RequiresSignup(s)
        PROVE  RequiresSignup(s)'
    <2>1. CASE s \in pinned
      <3>1. row'[s].required = "true"
        BY <1>1, <2>1
      <3> QED
        BY <3>1 DEF RequiresSignup
    <2>2. CASE s \notin pinned
      <3>1. row'[s] = row[s]
        BY <1>1, <2>2
      <3>2. CASE row[s].required = "true"
        BY <3>1, <3>2 DEF RequiresSignup
      <3>3. CASE row[s].required = "unknown" /\ Inherits(row[s]) /\ s \in S
        <4>1. \/ typeRequires'[row[s].type]
              \/ row[s].track # NoTrack /\ trackRequires'[row[s].track]
          BY <1>2, <2>2, <3>3 DEF Pinned
        <4> QED
          BY <3>1, <3>3, <4>1 DEF RequiresSignup, Inherits
      <3>4. CASE row[s].required = "unknown" /\ Inherits(row[s]) /\ s \notin S
        <4>1. \/ row[s].track # NoTrack /\ trackRequires'[row[s].track]
              \/ typeRequires'[row[s].type]
          BY <3>4
        <4> QED
          BY <3>1, <3>4, <4>1 DEF RequiresSignup, Inherits
      <3> QED
        BY <1>2, <3>2, <3>3, <3>4 DEF RequiresSignup
    <2> QED
      BY <2>1, <2>2
  <1> QED
    BY <1>2 DEF AttendedKeepRequirement

\* The form of a session type strands nobody.
LEMMA TypeFormStrandsNobody ==
    ASSUME SignupTypeOK, NEW t \in Types, SubmissionTypeForm(t)
    PROVE  AttendedKeepRequirement
  <1>1. typeRequires' = [typeRequires EXCEPT ![t] = ~@]
    BY DEF SubmissionTypeForm
  <1>2. signups' = signups /\ trackRequires' = trackRequires
    BY DEF SubmissionTypeForm
  <1>3. CASE typeRequires'[t]
    <2>1. row' = row
      BY <1>3 DEF SubmissionTypeForm
    <2>2. \A k \in Types : typeRequires[k] => typeRequires'[k]
      BY <1>1, <1>3 DEF SignupTypeOK
    <2>3. \A s \in Sessions : row[s].type \in Types
      BY DEF SignupTypeOK, Row
    <2> QED
      BY <1>2, <2>1, <2>2, <2>3 DEF AttendedKeepRequirement, RequiresSignup, Inherits
  <1>4. CASE ~typeRequires'[t]
    <2> DEFINE S == {s \in Sessions : row[s].type = t}
    <2>1. PinSignupRequired(S, typeRequires', trackRequires')
      BY <1>2, <1>4 DEF SubmissionTypeForm
    <2>2. \A k \in Types : k # t => typeRequires'[k] = typeRequires[k]
      BY <1>1 DEF SignupTypeOK
    <2>3. \A s \in Sessions : row[s].type \in Types
      BY DEF SignupTypeOK, Row
    <2>4. ASSUME NEW s \in Sessions \ S, Inherits(row[s])
          PROVE  \/ row[s].track # NoTrack /\ trackRequires'[row[s].track]
                 \/ typeRequires'[row[s].type]
      BY <1>2, <2>2, <2>3, <2>4 DEF Inherits
    <2>5. S \in SUBSET Sessions
      OBVIOUS
    <2> HIDE DEF S
    <2> QED
      BY <1>2, <2>1, <2>4, <2>5, PinStrandsNobody
  <1> QED
    BY <1>3, <1>4

\* The form of a track strands nobody.
LEMMA TrackFormStrandsNobody ==
    ASSUME SignupTypeOK, NEW k \in Tracks, TrackForm(k)
    PROVE  AttendedKeepRequirement
  <1>1. trackRequires' = [trackRequires EXCEPT ![k] = ~@]
    BY DEF TrackForm
  <1>2. signups' = signups /\ typeRequires' = typeRequires
    BY DEF TrackForm
  <1>3. \A s \in Sessions : row[s].track # NoTrack => row[s].track \in Tracks
    BY DEF SignupTypeOK, Row
  <1>4. CASE trackRequires'[k]
    <2>1. row' = row
      BY <1>4 DEF TrackForm
    <2>2. \A j \in Tracks : trackRequires[j] => trackRequires'[j]
      BY <1>1, <1>4 DEF SignupTypeOK
    <2> QED
      BY <1>2, <1>3, <2>1, <2>2 DEF AttendedKeepRequirement, RequiresSignup, Inherits
  <1>5. CASE ~trackRequires'[k]
    <2> DEFINE S == {s \in Sessions : row[s].track = k}
    <2>1. PinSignupRequired(S, typeRequires', trackRequires')
      BY <1>2, <1>5 DEF TrackForm
    <2>2. \A j \in Tracks : j # k => trackRequires'[j] = trackRequires[j]
      BY <1>1 DEF SignupTypeOK
    <2>3. ASSUME NEW s \in Sessions \ S, Inherits(row[s])
          PROVE  \/ row[s].track # NoTrack /\ trackRequires'[row[s].track]
                 \/ typeRequires'[row[s].type]
      BY <1>2, <1>3, <2>2, <2>3 DEF Inherits
    <2>4. S \in SUBSET Sessions
      OBVIOUS
    <2> HIDE DEF S
    <2> QED
      BY <1>2, <2>1, <2>3, <2>4, PinStrandsNobody
  <1> QED
    BY <1>4, <1>5

\* Switching off in the forms and the API keeps attended sessions attended,
\* for any number of sessions, tracks and types.
THEOREM FormsNeverStrand == SignupSpec => FormsStrandNobody
  <1>1. SignupTypeOK =>
          [(\E t \in Types : SubmissionTypeForm(t)) \/ (\E k \in Tracks : TrackForm(k))
              => AttendedKeepRequirement]_signupVars
    BY TypeFormStrandsNobody, TrackFormStrandsNobody
  <1> QED
    BY <1>1, SignupTypeCorrect, PTL DEF SignupSpec, FormsStrandNobody

-----------------------------------------------------------------------------
(* Seats are taken in one step.                                            *)

\* Seats counts as Signup does.
LEMMA SameCount == \A S : Booking!Cardinality(S) = Cardinality(S)
  BY DEF Booking!Cardinality, Cardinality, Booking!IsFiniteSet, IsFiniteSet

\* A step that adds one attendee where there is room takes a seat.
LEMMA SeatTaken ==
    ASSUME NEW a \in Attendees, NEW s \in Sessions, a \notin Confirmed(s),
           row[s].capacity # Unlimited => Cardinality(Confirmed(s)) < row[s].capacity,
           Confirmed(s)' = Confirmed(s) \cup {a},
           \A k \in Sessions : k # s => Confirmed(k)' = Confirmed(k),
           row' = row
    PROVE  Booking!TakeSeat(a, s)
  <1> DEFINE attending == [k \in Sessions |-> Confirmed(k)]
  <1>1. attending' = [attending EXCEPT ![s] = @ \cup {a}]
    OBVIOUS
  <1>2. attending[s] = Confirmed(s) /\ [k \in Sessions |-> row[k].capacity][s] = row[s].capacity
    OBVIOUS
  <1>3. Booking!HasRoom(s)
    BY <1>2, SameCount DEF Booking!HasRoom
  <1> QED
    BY <1>1, <1>2, <1>3 DEF Booking!TakeSeat

\* Whoever is confirmed takes a seat that is free at that moment: what was
\* read under the lock is still so.
LEMMA ConfirmTakesSeat ==
    ASSUME SignupInv, NEW a \in Attendees, ConfirmSignup(a)
    PROVE  Booking!TakeSeat(a, request[a].session)
  <1>1. PICK s \in Sessions : s = request[a].session
    BY DEF SignupInv, SignupTypeOK, Request
  <1>2. SignupTypeOK /\ row' = row /\ a \notin Confirmed(s)
    BY <1>1 DEF SignupInv, ConfirmSignup, Confirmed
  <1>3. /\ Confirmed(s)' = Confirmed(s) \cup {a}
        /\ \A k \in Sessions : k # s => Confirmed(k)' = Confirmed(k)
    <2> DEFINE mine == [signups[s] EXCEPT ![a] = "confirmed"]
    <2>1. signups' = [signups EXCEPT ![s] = mine]
      BY <1>1 DEF ConfirmSignup
    <2>2. \A b \in Attendees : mine[b] = IF b = a THEN "confirmed" ELSE signups[s][b]
      BY <1>2 DEF SignupTypeOK
    <2> HIDE DEF mine
    <2>3. signups'[s] = mine /\ \A k \in Sessions : k # s => signups'[k] = signups[k]
      BY <1>2, <2>1 DEF SignupTypeOK
    <2> QED
      BY <2>2, <2>3 DEF Confirmed
  <1>4. row[s].capacity # Unlimited => Cardinality(Confirmed(s)) < row[s].capacity
    <2> SUFFICES ASSUME row[s].capacity # Unlimited
                 PROVE  Cardinality(Confirmed(s)) < row[s].capacity
      OBVIOUS
    <2>1. request[a].capacity = row[s].capacity /\ Cardinality(Confirmed(s)) <= request[a].count
      BY <1>1 DEF SignupInv, SeenUnderLock, Seen, ConfirmSignup
    <2>2. ~(request[a].count >= request[a].capacity)
      BY <2>1 DEF ConfirmSignup, Full
    <2>3. request[a].count \in Nat /\ row[s].capacity \in Nat
      BY <1>2, CapacityBound DEF SignupTypeOK, Request, Row, Capacities
    <2>4. Cardinality(Confirmed(s)) \in Nat
      BY AttendeesCounted DEF Confirmed
    <2> QED
      BY <2>1, <2>2, <2>3, <2>4
  <1> QED
    BY <1>1, <1>2, <1>3, <1>4, SeatTaken

\* Cancelling gives up one seat, and no other.
LEMMA CancelGivesUpSeat ==
    ASSUME SignupTypeOK, NEW a \in Attendees, NEW s \in Sessions, CancelSignup(a, s)
    PROVE  Booking!GiveUpSeat(a, s)
  <1>1. a \in Confirmed(s) /\ row' = row
    BY DEF CancelSignup, Confirmed
  <1>2. /\ Confirmed(s)' = Confirmed(s) \ {a}
        /\ \A k \in Sessions : k # s => Confirmed(k)' = Confirmed(k)
    BY DEF CancelSignup, Confirmed, SignupTypeOK
  <1>3. [k \in Sessions |-> Confirmed(k)]' =
            [[k \in Sessions |-> Confirmed(k)] EXCEPT ![s] = @ \ {a}]
    BY <1>2
  <1> QED
    BY <1>1, <1>3 DEF Booking!GiveUpSeat

\* A deleted user leaves every seat.
LEMMA ShredLeaves ==
    ASSUME SignupTypeOK, NEW a \in Attendees, ShredUser(a)
    PROVE  Booking!Leave(a)
  <1>1. \A k \in Sessions : Confirmed(k)' = Confirmed(k) \ {a}
    BY DEF ShredUser, Confirmed, SignupTypeOK
  <1>2. row' = row
    BY DEF ShredUser
  <1> QED
    BY <1>1, <1>2 DEF Booking!Leave

\* Whatever touches no seat sets capacities, or leaves them.
LEMMA OthersMoveNobody ==
    ASSUME SignupTypeOK', signups' = signups
    PROVE  Booking!SetCapacities
  <1>1. \A k \in Sessions : Confirmed(k)' = Confirmed(k)
    BY DEF Confirmed
  <1>2. \A k \in Sessions : row'[k].capacity \in Capacities
    BY DEF SignupTypeOK, Row
  <1> QED
    BY <1>1, <1>2 DEF Booking!SetCapacities

\* A sign-up implements a step that takes the seat at once, for any number of
\* sessions and attendees, and whoever edits sessions meanwhile.
THEOREM SignupImplementsSeats == SignupSpec => ImplementsSeats
  <1>1. SignupInit => Booking!SeatsInit
    <2> SUFFICES ASSUME SignupInit PROVE Booking!SeatsInit
      OBVIOUS
    <2>1. \A s \in Sessions : Confirmed(s) = {} /\ row[s].capacity \in Capacities
      BY DEF SignupInit, Confirmed, Row
    <2> QED
      BY <2>1 DEF Booking!SeatsInit
  <1>2. ASSUME SignupInv, SignupInv', SignupNext PROVE Booking!SeatsNext
    <2>1. SignupTypeOK /\ SignupTypeOK'
      BY <1>2 DEF SignupInv
    <2>2. ASSUME NEW a \in Attendees, ConfirmSignup(a) PROVE Booking!SeatsNext
      <3>1. request[a].session \in Sessions
        BY <2>1 DEF SignupTypeOK, Request
      <3> QED
        BY <1>2, <2>2, <3>1, ConfirmTakesSeat DEF Booking!SeatsNext
    <2>3. ASSUME NEW a \in Attendees, NEW s \in Sessions, CancelSignup(a, s)
          PROVE  Booking!SeatsNext
      BY <2>1, <2>3, CancelGivesUpSeat DEF Booking!SeatsNext
    <2>4. ASSUME NEW a \in Attendees, ShredUser(a) PROVE Booking!SeatsNext
      BY <2>1, <2>4, ShredLeaves DEF Booking!SeatsNext
    <2>5. ASSUME signups' = signups PROVE Booking!SeatsNext
      BY <2>1, <2>5, OthersMoveNobody DEF Booking!SeatsNext
    <2> QED
      BY <1>2, <2>2, <2>3, <2>4, <2>5
         DEF SignupNext, BeginSignup, LockSession, TurnAway, SaveSession, SubmissionTypeForm,
             TrackForm, EventForm, RoomForm, Release
  <1>3. UNCHANGED signupVars => UNCHANGED <<[s \in Sessions |-> Confirmed(s)],
                                            [s \in Sessions |-> row[s].capacity]>>
    BY DEF signupVars, Confirmed
  <1> QED
    BY <1>1, <1>2, <1>3, SignupInvariance, PTL
       DEF SignupSpec, ImplementsSeats, Booking!SeatsSpec, Booking!seatVars

=============================================================================
