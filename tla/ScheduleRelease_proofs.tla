----------------------- MODULE ScheduleRelease_proofs -----------------------
(***************************************************************************)
(* Proofs about ScheduleRelease, for every number of proposals, slots,     *)
(* breaks, blockers, places and releases and either order of NULLs.        *)
(*                                                                         *)
(* IndInv is the conjunction of the type invariant and the three safety    *)
(* invariants: none of the three is inductive without the types, and what  *)
(* is released stays right only because the WIP schedule is.  Every action *)
(* on a proposal is shown to be a ProposalStep, every action of the        *)
(* schedule editor an EditorStep, every edit of the event an EventStep,    *)
(* and the lemmas about those kinds of step carry the invariant.           *)
(*                                                                         *)
(* The second half is about ScheduleChanges: its steps are steps of        *)
(* ScheduleRelease or leave the schedule alone, so that all of this holds  *)
(* there, and CacheInv says of the caches what their readers rely on.      *)
(***************************************************************************)
EXTENDS ScheduleChanges, FiniteSetTheorems, TLAPS

\* What a released version shows has a start.
ReleasedHaveStart ==
    \A v \in DOMAIN releases : \A r \in DOMAIN releases[v] :
        releases[v][r].is_visible => releases[v][r].start # Null

IndInv ==
    /\ TypeOK
    /\ SlotsFollowState
    /\ VisibleOnlyConfirmed
    /\ NoBlockersReleased
    /\ ReleasedHaveStart

\* What update_talk_slots establishes for one proposal.
SlotsFit(sch, s, st, pend, n) ==
    IF SchedulingAllowed(st, pend)
    THEN Cardinality(DOMAIN sch \cap RowsOf(s)) = n
    ELSE DOMAIN sch \cap RowsOf(s) = {}

VisibleFit(sch, s, st) ==
    \A r \in DOMAIN sch \cap RowsOf(s) : sch[r].is_visible => st = "confirmed"

\* w differs from sch in the rows of s only.
OthersSame(sch, w, s) ==
    /\ DOMAIN w \ RowsOf(s) = DOMAIN sch \ RowsOf(s)
    /\ \A r \in DOMAIN sch \ RowsOf(s) : w[r] = sch[r]

ProposalStep(s, st, pend, n) ==
    /\ state' = [state EXCEPT ![s] = st]
    /\ pending' = [pending EXCEPT ![s] = pend]
    /\ slotCount' = [slotCount EXCEPT ![s] = n]
    /\ wip' \in Schedule
    /\ OthersSame(wip, wip', s)
    /\ s \in unreconciled' \/ SlotsFit(wip', s, st, pend, n)
    /\ VisibleFit(wip', s, st)
    /\ releases' = releases
    /\ unreconciled' \ {s} = unreconciled \ {s}

EditorStep ==
    /\ wip' \in Schedule
    /\ DOMAIN wip' \cap TalkRows = DOMAIN wip \cap TalkRows
    /\ \A r \in DOMAIN wip \cap TalkRows : wip'[r].is_visible = wip[r].is_visible
    /\ UNCHANGED <<proposalVars, releases>>

EventStep(d) ==
    /\ wip' \in Schedule
    /\ DOMAIN wip' = DOMAIN wip
    /\ \A r \in DOMAIN wip : wip'[r].is_visible = wip[r].is_visible
    /\ \A v \in DOMAIN releases : CanMove(releases[v], d)
    /\ releases' = [v \in DOMAIN releases |-> Moved(releases[v], d)]
    /\ UNCHANGED proposalVars

-----------------------------------------------------------------------------
(* Rows and schedules.                                                     *)

\* A schedule is a function from some of the rows to slots.
LEMMA ScheduleFacts ==
    ASSUME NEW sch
    PROVE  sch \in Schedule <=>
             /\ DOMAIN sch \subseteq Rows
             /\ sch \in [DOMAIN sch -> Slot]
  BY DEF Schedule

\* The rows of a proposal are its own, and are neither breaks nor blockers.
LEMMA RowFacts ==
    /\ \A s \in Submissions :
          /\ RowsOf(s) \subseteq TalkRows
          /\ RowsOf(s) \cap (Breaks \cup Blockers) = {}
          /\ \A r \in RowsOf(s) : r[1] = s
    /\ \A r \in TalkRows : r[1] \in Submissions /\ r \in RowsOf(r[1])
    /\ TalkRows \subseteq Rows
  BY RowsAssumption DEF RowsOf, TalkRows, Rows

\* A slot that update_talk_slots has just created is a slot.
LEMMA NewSlotType == NewSlot \in Slot
  BY DEF NewSlot, Slot

\* Deleting slots leaves the others of the schedule as they are.
LEMMA WithoutFacts ==
    ASSUME NEW sch \in Schedule, NEW R
    PROVE  /\ Without(sch, R) \in Schedule
           /\ DOMAIN Without(sch, R) = DOMAIN sch \ R
           /\ \A r \in DOMAIN sch \ R : Without(sch, R)[r] = sch[r]
  BY ScheduleFacts DEF Without

\* Moving a slot changes its time and room, never its visibility or another slot.
LEMMA PlacedFacts ==
    ASSUME NEW sch \in Schedule, NEW r \in DOMAIN sch,
           NEW start \in Starts \cup {Null}, NEW room \in Rooms \cup {Null}
    PROVE  /\ Placed(sch, r, start, room) \in Schedule
           /\ DOMAIN Placed(sch, r, start, room) = DOMAIN sch
           /\ \A q \in DOMAIN sch :
                 /\ Placed(sch, r, start, room)[q].is_visible = sch[q].is_visible
                 /\ q # r => Placed(sch, r, start, room)[q] = sch[q]
  <1> DEFINE w == Placed(sch, r, start, room)
  <1>1. sch \in [DOMAIN sch -> Slot] /\ DOMAIN sch \subseteq Rows
    BY ScheduleFacts
  <1> DEFINE placed == [sch[r] EXCEPT !.start = start, !.room = room]
  <1>2. w = [sch EXCEPT ![r] = placed]
    BY DEF Placed
  <1>4. placed \in Slot /\ placed.is_visible = sch[r].is_visible
    BY <1>1 DEF Slot
  <1> HIDE DEF placed
  <1>5. w \in [DOMAIN sch -> Slot]
    BY <1>1, <1>2, <1>4
  <1>6. \A q \in DOMAIN sch : w[q].is_visible = sch[q].is_visible
    BY <1>1, <1>2, <1>4
  <1>7. \A q \in DOMAIN sch : q # r => w[q] = sch[q]
    BY <1>1, <1>2
  <1>8. w \in Schedule
    BY <1>1, <1>5, ScheduleFacts
  <1> QED
    BY <1>5, <1>6, <1>7, <1>8 DEF w

\* A schedule that moves keeps its rows, their rooms and what they show, and a
\* slot without a start stays without one.
LEMMA MovedFacts ==
    ASSUME NEW sch \in Schedule, NEW d \in Deltas, CanMove(sch, d)
    PROVE  /\ Moved(sch, d) \in Schedule
           /\ DOMAIN Moved(sch, d) = DOMAIN sch
           /\ \A r \in DOMAIN sch :
                 /\ Moved(sch, d)[r].is_visible = sch[r].is_visible
                 /\ Moved(sch, d)[r].room = sch[r].room
                 /\ sch[r].start = Null => Moved(sch, d)[r].start = Null
                 /\ sch[r].start # Null => /\ Moved(sch, d)[r].start = sch[r].start + d
                                            /\ Moved(sch, d)[r].start # Null
  <1>1. sch \in [DOMAIN sch -> Slot] /\ DOMAIN sch \subseteq Rows
    BY ScheduleFacts
  <1> DEFINE later(r) == [sch[r] EXCEPT !.start = @ + d]
  <1>2. ASSUME NEW r \in DOMAIN sch, sch[r].start # Null
        PROVE  /\ later(r) \in Slot /\ later(r).start = sch[r].start + d
               /\ later(r).start # Null /\ later(r).room = sch[r].room
               /\ later(r).is_visible = sch[r].is_visible
    <2>1. sch[r].start + d \in Starts
      BY <1>2 DEF CanMove
    <2> QED
      BY <1>1, <2>1, PlaceAssumption DEF Slot
  <1>3. Moved(sch, d) = [r \in DOMAIN sch |-> IF sch[r].start = Null THEN sch[r] ELSE later(r)]
    BY DEF Moved
  <1> HIDE DEF later
  <1> QED
    BY <1>1, <1>2, <1>3, ScheduleFacts

\* Slots that are dropped from the days of an event stay, with what they show.
LEMMA DroppedFacts ==
    ASSUME NEW sch \in Schedule, NEW days
    PROVE  /\ Dropped(sch, days) \in Schedule
           /\ DOMAIN Dropped(sch, days) = DOMAIN sch
           /\ \A r \in DOMAIN sch : Dropped(sch, days)[r].is_visible = sch[r].is_visible
  <1>1. sch \in [DOMAIN sch -> Slot] /\ DOMAIN sch \subseteq Rows
    BY ScheduleFacts
  <1> DEFINE bare(r) == [sch[r] EXCEPT !.start = Null, !.room = Null]
  <1>2. \A r \in DOMAIN sch : bare(r) \in Slot /\ bare(r).is_visible = sch[r].is_visible
    BY <1>1 DEF Slot
  <1>3. Dropped(sch, days) =
          [r \in DOMAIN sch |-> IF sch[r].start \in days \cup {Null} THEN sch[r] ELSE bare(r)]
    BY DEF Dropped
  <1> HIDE DEF bare
  <1> QED
    BY <1>1, <1>2, <1>3, ScheduleFacts

-----------------------------------------------------------------------------
(* update_talk_slots and set_wip_slot.                                     *)

\* Reconciling the slots of s gives it the rows of keep, with the visibility its
\* state asks for, and touches no other row.
LEMMA WithTalksFacts ==
    ASSUME NEW sch \in Schedule, NEW s \in Submissions,
           NEW keep \in SUBSET RowsOf(s), NEW st,
           NEW w, w = WithTalks(sch, s, keep, st)
    PROVE  /\ w \in Schedule
           /\ OthersSame(sch, w, s)
           /\ DOMAIN w \cap RowsOf(s) = keep
           /\ VisibleFit(w, s, st)
  <1> DEFINE D == (DOMAIN sch \ RowsOf(s)) \cup keep
             shown(r) == [SlotAt(sch, r) EXCEPT !.is_visible = (st = "confirmed")]
  <1>1. sch \in [DOMAIN sch -> Slot] /\ DOMAIN sch \subseteq Rows
    BY ScheduleFacts
  <1>2. \A r : SlotAt(sch, r) \in Slot
    BY <1>1, NewSlotType DEF SlotAt
  <1>3. \A r : shown(r) \in Slot /\ (shown(r).is_visible => st = "confirmed")
    BY <1>2 DEF Slot
  <1>4. w = [r \in D |-> IF r \in RowsOf(s) THEN shown(r) ELSE sch[r]]
    BY DEF WithTalks
  <1> HIDE DEF shown
  <1>5. w \in [D -> Slot] /\ D \subseteq Rows
    BY <1>1, <1>3, <1>4, RowFacts
  <1>6. w \in Schedule
    BY <1>5, ScheduleFacts
  <1>7. OthersSame(sch, w, s)
    BY <1>4 DEF OthersSame
  <1>8. VisibleFit(w, s, st)
    BY <1>3, <1>4 DEF VisibleFit
  <1> QED
    BY <1>4, <1>6, <1>7, <1>8

\* update_talk_slots leaves slot_count slots of an accepted proposal, none of
\* another, marks them visible only when confirmed and touches nothing else.
LEMMA UpdateTalkSlotsFacts ==
    ASSUME NEW sch \in Schedule, NEW s \in Submissions, NEW st, NEW pend,
           NEW n, NEW w \in UpdateTalkSlots(sch, s, st, pend, n)
    PROVE  /\ w \in Schedule
           /\ OthersSame(sch, w, s)
           /\ SlotsFit(w, s, st, pend, n)
           /\ VisibleFit(w, s, st)
  <1>1. CASE SchedulingAllowed(st, pend)
    <2>1. PICK keep \in KeptRows(sch, s, n) :
             w = WithTalks(sch, s, keep, st)
      BY <1>1 DEF UpdateTalkSlots
    <2>2. keep \in SUBSET RowsOf(s) /\ Cardinality(keep) = n
      BY DEF KeptRows
    <2>3. /\ w \in Schedule
          /\ OthersSame(sch, w, s)
          /\ DOMAIN w \cap RowsOf(s) = keep
          /\ VisibleFit(w, s, st)
      BY <2>1, <2>2, WithTalksFacts
    <2> QED
      BY <1>1, <2>2, <2>3 DEF SlotsFit
  <1>2. CASE ~SchedulingAllowed(st, pend)
    <2>1. w = Without(sch, RowsOf(s))
      BY <1>2 DEF UpdateTalkSlots
    <2>2. /\ w \in Schedule
          /\ DOMAIN w = DOMAIN sch \ RowsOf(s)
          /\ \A r \in DOMAIN sch \ RowsOf(s) : w[r] = sch[r]
      BY <2>1, WithoutFacts
    <2> QED
      BY <1>2, <2>2 DEF OthersSame, SlotsFit, VisibleFit
  <1> QED
    BY <1>1, <1>2

\* Two calls that leave the rows of others alone do so together.
LEMMA OthersSameTransitive ==
    ASSUME NEW a, NEW b, NEW c, NEW s, OthersSame(a, b, s), OthersSame(b, c, s)
    PROVE  OthersSame(a, c, s)
  BY DEF OthersSame

\* set_wip_slot keeps what update_talk_slots established.
LEMMA SetWipSlotFacts ==
    ASSUME NEW sch \in Schedule, NEW s \in Submissions, NEW st, NEW pend, NEW n,
           NEW start \in Starts \cup {Null}, NEW room \in Rooms \cup {Null},
           VisibleFit(sch, s, st),
           NEW w \in SetWipSlot(sch, s, st, pend, n, start, room)
    PROVE  /\ w \in Schedule
           /\ OthersSame(sch, w, s)
           /\ SlotsFit(sch, s, st, pend, n) => SlotsFit(w, s, st, pend, n)
           /\ VisibleFit(w, s, st)
  <1>1. CASE st \notin AcceptedStates
    <2> DEFINE bare == Without(sch, RowsOf(s))
    <2>1. bare \in Schedule /\ OthersSame(sch, bare, s)
      BY WithoutFacts DEF OthersSame
    <2>2. w \in UpdateTalkSlots(bare, s, st, pend, n)
      BY <1>1 DEF SetWipSlot
    <2> HIDE DEF bare
    <2> QED
      BY <2>1, <2>2, UpdateTalkSlotsFacts, OthersSameTransitive
  <1>2. CASE st \in AcceptedStates /\ EarliestRows(sch, s) = {}
    <2>1. w = sch
      BY <1>2 DEF SetWipSlot
    <2> QED
      BY <2>1 DEF OthersSame
  <1>3. CASE st \in AcceptedStates /\ EarliestRows(sch, s) # {}
    <2>1. PICK r \in EarliestRows(sch, s) : w = Placed(sch, r, start, room)
      BY <1>3 DEF SetWipSlot
    <2>2. r \in DOMAIN sch /\ r \in RowsOf(s)
      BY DEF EarliestRows
    <2>3. /\ w \in Schedule
          /\ DOMAIN w = DOMAIN sch
          /\ \A q \in DOMAIN sch :
                /\ w[q].is_visible = sch[q].is_visible
                /\ q # r => w[q] = sch[q]
      BY <2>1, <2>2, PlacedFacts
    <2> QED
      BY <2>2, <2>3 DEF OthersSame, SlotsFit, VisibleFit
  <1> QED
    BY <1>1, <1>2, <1>3

-----------------------------------------------------------------------------
(* The two kinds of step.                                                  *)

\* A step that reconciles the slots of the one proposal it changes keeps IndInv.
LEMMA ProposalStepInv ==
    ASSUME IndInv, NEW s \in Submissions, NEW st \in States,
           NEW pend \in States, NEW n \in 1..MaxSlots,
           ProposalStep(s, st, pend, n)
    PROVE  IndInv'
  <1> USE DEF ProposalStep
  <1>0. \A t \in Submissions \ {s} : t \in unreconciled' <=> t \in unreconciled
    OBVIOUS
  <1>1. TypeOK'
    BY DEF IndInv, TypeOK
  <1>2. ASSUME NEW t \in Submissions, t # s
        PROVE  /\ DOMAIN wip' \cap RowsOf(t) = DOMAIN wip \cap RowsOf(t)
               /\ \A r \in DOMAIN wip \cap RowsOf(t) : wip'[r] = wip[r]
               /\ state'[t] = state[t] /\ pending'[t] = pending[t]
               /\ slotCount'[t] = slotCount[t]
    <2>1. RowsOf(t) \cap RowsOf(s) = {}
      BY <1>2, RowFacts
    <2> QED
      BY <1>2, <2>1 DEF OthersSame, IndInv, TypeOK
  <1>3. state'[s] = st /\ pending'[s] = pend /\ slotCount'[s] = n
    BY DEF IndInv, TypeOK
  <1>4. SlotsFollowState'
    <2> SUFFICES ASSUME NEW t \in Submissions, t \notin unreconciled'
                 PROVE  SlotsFit(wip', t, state'[t], pending'[t], slotCount'[t])
      BY DEF SlotsFollowState, SlotsFit
    <2>1. CASE t = s
      BY <2>1, <1>3
    <2>2. CASE t # s
      BY <2>2, <1>0, <1>2 DEF IndInv, SlotsFollowState, SlotsFit
    <2> QED
      BY <2>1, <2>2
  <1>5. VisibleOnlyConfirmed'
    <2> SUFFICES ASSUME NEW r \in DOMAIN wip' \cap TalkRows, wip'[r].is_visible
                 PROVE  state'[r[1]] = "confirmed"
      BY DEF VisibleOnlyConfirmed
    <2>1. r[1] \in Submissions /\ r \in RowsOf(r[1])
      BY RowFacts
    <2>2. CASE r[1] = s
      BY <2>1, <2>2, <1>3 DEF VisibleFit
    <2>3. CASE r[1] # s
      BY <2>1, <2>3, <1>2 DEF IndInv, VisibleOnlyConfirmed
    <2> QED
      BY <2>2, <2>3
  <1>6. NoBlockersReleased' /\ ReleasedHaveStart'
    BY DEF IndInv, NoBlockersReleased, ReleasedHaveStart
  <1> QED
    BY <1>1, <1>4, <1>5, <1>6 DEF IndInv

\* A step of the schedule editor, which shows no slot and takes none from a
\* proposal, keeps IndInv.
LEMMA EditorStepInv ==
    ASSUME IndInv, EditorStep
    PROVE  IndInv'
  <1> USE DEF EditorStep, proposalVars
  <1>1. TypeOK'
    BY DEF IndInv, TypeOK
  <1>2. \A s \in Submissions : DOMAIN wip' \cap RowsOf(s) = DOMAIN wip \cap RowsOf(s)
    BY RowFacts
  <1>3. SlotsFollowState'
    BY <1>2 DEF IndInv, SlotsFollowState
  <1>4. VisibleOnlyConfirmed'
    BY DEF IndInv, VisibleOnlyConfirmed
  <1>5. NoBlockersReleased' /\ ReleasedHaveStart'
    BY DEF IndInv, NoBlockersReleased, ReleasedHaveStart
  <1> QED
    BY <1>1, <1>3, <1>4, <1>5 DEF IndInv

\* An edit of the event, which moves slots in every version and takes none, keeps
\* IndInv.
LEMMA EventStepInv ==
    ASSUME IndInv, NEW d \in Deltas, EventStep(d)
    PROVE  IndInv'
  <1> USE DEF EventStep, proposalVars
  <1>1. releases \in Seq(Schedule)
    BY DEF IndInv, TypeOK
  <1>2. ASSUME NEW v \in DOMAIN releases
        PROVE  /\ releases[v] \in Schedule /\ releases'[v] \in Schedule
               /\ DOMAIN releases'[v] = DOMAIN releases[v]
               /\ \A r \in DOMAIN releases[v] :
                     /\ releases'[v][r].is_visible = releases[v][r].is_visible
                     /\ releases[v][r].start # Null => releases'[v][r].start # Null
    <2>1. releases[v] \in Schedule
      BY <1>1
    <2>2. releases'[v] = Moved(releases[v], d) /\ CanMove(releases[v], d)
      OBVIOUS
    <2> QED
      BY <2>1, <2>2, MovedFacts
  <1>3. releases' \in Seq(Schedule) /\ DOMAIN releases' = DOMAIN releases
    BY <1>1, <1>2
  <1>4. TypeOK'
    BY <1>3 DEF IndInv, TypeOK
  <1>5. SlotsFollowState' /\ VisibleOnlyConfirmed'
    BY DEF IndInv, SlotsFollowState, VisibleOnlyConfirmed
  <1>6. NoBlockersReleased' /\ ReleasedHaveStart'
    BY <1>2, <1>3 DEF IndInv, NoBlockersReleased, ReleasedHaveStart
  <1> QED
    BY <1>4, <1>5, <1>6 DEF IndInv

-----------------------------------------------------------------------------
(* Every action preserves IndInv.                                          *)

\* An event without proposals satisfies IndInv.
LEMMA InitInv == Init => IndInv
  <1> SUFFICES ASSUME Init PROVE IndInv
    OBVIOUS
  <1> USE DEF Init
  <1>1. wip \in Schedule /\ DOMAIN wip = {}
    BY ScheduleFacts
  <1>2. TypeOK
    BY <1>1, BoundsAssumption DEF TypeOK, States, AllTargets
  <1>3. SlotsFollowState
    BY <1>1 DEF SlotsFollowState, SchedulingAllowed, AcceptedStates
  <1>4. VisibleOnlyConfirmed
    BY <1>1 DEF VisibleOnlyConfirmed
  <1>5. NoBlockersReleased /\ ReleasedHaveStart
    BY DEF NoBlockersReleased, ReleasedHaveStart
  <1> QED
    BY <1>2, <1>3, <1>4, <1>5 DEF IndInv

\* The states that the actions write are states.
LEMMA StateFacts ==
    /\ Targets \subseteq AllTargets
    /\ AllTargets \subseteq States
    /\ {"submitted", "draft", "withdrawn", "confirmed", "none"} \subseteq States
  BY TargetsAssumption DEF States, AllTargets

\* What IndInv says of one proposal.
LEMMA ProposalFits ==
    ASSUME IndInv, NEW s \in Submissions
    PROVE  /\ wip \in Schedule
           /\ s \in unreconciled \/ SlotsFit(wip, s, state[s], pending[s], slotCount[s])
           /\ VisibleFit(wip, s, state[s])
           /\ state[s] \in States
           /\ pending[s] \in States
           /\ slotCount[s] \in 1..MaxSlots
           /\ state = [state EXCEPT ![s] = state[s]]
           /\ pending = [pending EXCEPT ![s] = pending[s]]
           /\ slotCount = [slotCount EXCEPT ![s] = slotCount[s]]
  <1>1. s \in unreconciled \/ SlotsFit(wip, s, state[s], pending[s], slotCount[s])
    BY DEF IndInv, SlotsFollowState, SlotsFit
  <1>2. VisibleFit(wip, s, state[s])
    BY RowFacts DEF IndInv, VisibleOnlyConfirmed, VisibleFit
  <1> QED
    BY <1>1, <1>2 DEF IndInv, TypeOK

\* A call that changes no slot leaves those of others alone.
LEMMA OthersSameReflexive == \A sch, s : OthersSame(sch, sch, s)
  BY DEF OthersSame

\* set_pending_state reconciles the slots whenever the decision matters to them.
LEMMA SetPendingStateIsStep ==
    ASSUME IndInv, NEW s \in Submissions, NEW p \in States,
           SetPendingState(s, p)
    PROVE  ProposalStep(s, state[s], p, slotCount[s])
  <1> USE DEF SetPendingState
  <1>1. CASE pending[s] \in AcceptedStates \/ p \in AcceptedStates
    BY <1>1, ProposalFits, UpdateTalkSlotsFacts DEF ProposalStep
  <1>2. CASE ~(pending[s] \in AcceptedStates \/ p \in AcceptedStates)
    <2>1. wip' = wip /\ unreconciled' = unreconciled
      BY <1>2
    <2>2. s \in unreconciled \/ SlotsFit(wip, s, state[s], p, slotCount[s])
      BY <1>2, ProposalFits DEF SlotsFit, SchedulingAllowed
    <2> QED
      BY <2>1, <2>2, ProposalFits, OthersSameReflexive DEF ProposalStep
  <1> QED
    BY <1>1, <1>2

\* set_submission_state reconciles the slots with the new state.
LEMMA SetSubmissionStateIsStep ==
    ASSUME IndInv, NEW s \in Submissions, NEW st \in States,
           SetSubmissionState(s, st)
    PROVE  ProposalStep(s, st, "none", slotCount[s])
  <1>1. CASE state[s] = st
    BY <1>1, SetPendingStateIsStep, StateFacts DEF SetSubmissionState
  <1>2. CASE state[s] # st
    BY <1>2, ProposalFits, UpdateTalkSlotsFacts DEF SetSubmissionState, ProposalStep
  <1> QED
    BY <1>1, <1>2

\* create_submission, with or without a place, leaves the new proposal its slots.
LEMMA CreateSubmissionIsStep ==
    ASSUME IndInv, NEW s \in Submissions, NEW st \in States, NEW n \in 1..MaxSlots,
           CreateSubmission(s, st, n)
    PROVE  ProposalStep(s, st, "none", n)
  <1> USE DEF CreateSubmission
  <1>1. PICK w \in UpdateTalkSlots(wip, s, st, "none", n) :
          \/ wip' = w
          \/ \E start \in Starts, room \in Rooms :
                wip' \in SetWipSlot(w, s, st, "none", n, start, room)
    OBVIOUS
  <1>2. w \in Schedule /\ OthersSame(wip, w, s)
        /\ SlotsFit(w, s, st, "none", n) /\ VisibleFit(w, s, st)
    BY ProposalFits, UpdateTalkSlotsFacts
  <1>3. wip' \in Schedule /\ OthersSame(wip, wip', s)
        /\ SlotsFit(wip', s, st, "none", n) /\ VisibleFit(wip', s, st)
    BY <1>1, <1>2, SetWipSlotFacts, OthersSameTransitive
  <1> QED
    BY <1>3, ProposalFits DEF ProposalStep

\* The edit forms reconcile the slots with the new count before they place one.
LEMMA EditSubmissionIsStep ==
    ASSUME IndInv, NEW s \in Submissions, NEW n \in 1..MaxSlots, EditSubmission(s, n)
    PROVE  ProposalStep(s, state[s], pending[s], n)
  <1> USE DEF EditSubmission
  <1>1. PICK w \in IF n = slotCount[s] THEN {wip}
                   ELSE UpdateTalkSlots(wip, s, state[s], pending[s], n) :
          \/ wip' = w
          \/ \E start \in Starts, room \in Rooms :
                wip' \in SetWipSlot(w, s, state[s], pending[s], n, start, room)
    OBVIOUS
  <1>2. w \in Schedule /\ OthersSame(wip, w, s)
        /\ (s \in unreconciled' \/ SlotsFit(w, s, state[s], pending[s], n))
        /\ VisibleFit(w, s, state[s])
    <2>1. CASE n = slotCount[s]
      BY <2>1, <1>1, ProposalFits, OthersSameReflexive
    <2>2. CASE n # slotCount[s]
      BY <2>2, <1>1, ProposalFits, UpdateTalkSlotsFacts
    <2> QED
      BY <2>1, <2>2
  <1>3. wip' \in Schedule /\ OthersSame(wip, wip', s)
        /\ (SlotsFit(w, s, state[s], pending[s], n)
              => SlotsFit(wip', s, state[s], pending[s], n))
        /\ VisibleFit(wip', s, state[s])
    BY <1>1, <1>2, SetWipSlotFacts, OthersSameTransitive
  <1> QED
    BY <1>2, <1>3, ProposalFits DEF ProposalStep

\* A proposal made through the API gets the slots of its pending state.
LEMMA PostSubmissionIsStep ==
    ASSUME IndInv, NEW s \in Submissions, NEW p \in States, NEW n \in 1..MaxSlots,
           PostSubmission(s, p, n)
    PROVE  ProposalStep(s, "submitted", p, n)
  BY ProposalFits, UpdateTalkSlotsFacts DEF PostSubmission, ProposalStep

\* The API either reconciles the slots of a proposal or leaves it unreconciled.
LEMMA PatchSubmissionIsStep ==
    ASSUME IndInv, NEW s \in Submissions, NEW p \in States, NEW n \in 1..MaxSlots,
           PatchSubmission(s, p, n)
    PROVE  ProposalStep(s, state[s], p, n)
  <1> USE DEF PatchSubmission
  <1>1. CASE n = slotCount[s]
    BY <1>1, ProposalFits, OthersSameReflexive DEF ProposalStep
  <1>2. CASE n # slotCount[s]
    BY <1>2, ProposalFits, UpdateTalkSlotsFacts DEF ProposalStep
  <1> QED
    BY <1>1, <1>2

\* delete_submission takes the slots along in every schedule.
LEMMA DeleteSubmissionInv ==
    ASSUME IndInv, NEW s \in Submissions, DeleteSubmission(s)
    PROVE  IndInv'
  <1> DEFINE w == Without(wip, RowsOf(s))
  <1>1. w \in Schedule /\ DOMAIN w = DOMAIN wip \ RowsOf(s)
        /\ \A r \in DOMAIN wip \ RowsOf(s) : w[r] = wip[r]
    BY WithoutFacts DEF IndInv, TypeOK
  <1>2. wip' = w
    BY DEF DeleteSubmission
  <1> HIDE DEF w
  <1>3. releases' \in Seq(Schedule) /\ DOMAIN releases' = DOMAIN releases
        /\ \A v \in DOMAIN releases : releases'[v] = Without(releases[v], RowsOf(s))
    <2>1. releases \in Seq(Schedule)
      BY DEF IndInv, TypeOK
    <2>2. \A v \in DOMAIN releases : releases[v] \in Schedule
      BY <2>1
    <2>3. \A v \in DOMAIN releases : Without(releases[v], RowsOf(s)) \in Schedule
      BY <2>2, WithoutFacts
    <2> QED
      BY <2>1, <2>3 DEF DeleteSubmission
  <1>4. /\ state' = [state EXCEPT ![s] = "none"]
        /\ pending' = [pending EXCEPT ![s] = "none"]
        /\ slotCount' = [slotCount EXCEPT ![s] = 1]
        /\ unreconciled' = unreconciled \ {s}
    BY DEF DeleteSubmission
  <1>5. TypeOK'
    BY <1>1, <1>2, <1>3, <1>4, StateFacts, BoundsAssumption DEF IndInv, TypeOK
  <1>6. SlotsFollowState'
    <2> SUFFICES ASSUME NEW t \in Submissions, t \notin unreconciled'
                 PROVE  SlotsFit(wip', t, state'[t], pending'[t], slotCount'[t])
      BY DEF SlotsFollowState, SlotsFit
    <2>1. CASE t = s
      BY <2>1, <1>1, <1>2, <1>4
         DEF SlotsFit, SchedulingAllowed, AcceptedStates, IndInv, TypeOK
    <2>2. CASE t # s
      <3>1. DOMAIN wip' \cap RowsOf(t) = DOMAIN wip \cap RowsOf(t)
        BY <1>1, <1>2, <2>2, RowFacts
      <3> QED
        BY <2>2, <3>1, <1>4 DEF IndInv, TypeOK, SlotsFollowState, SlotsFit
    <2> QED
      BY <2>1, <2>2
  <1>7. VisibleOnlyConfirmed'
    BY <1>1, <1>2, <1>4, RowFacts DEF IndInv, TypeOK, VisibleOnlyConfirmed
  <1>8. NoBlockersReleased' /\ ReleasedHaveStart'
    <2>1. ASSUME NEW v \in DOMAIN releases
          PROVE  /\ DOMAIN releases'[v] \subseteq DOMAIN releases[v]
                 /\ \A r \in DOMAIN releases'[v] : releases'[v][r] = releases[v][r]
      BY <1>3 DEF Without
    <2> QED
      BY <1>3, <2>1 DEF IndInv, NoBlockersReleased, ReleasedHaveStart
  <1> QED
    BY <1>5, <1>6, <1>7, <1>8 DEF IndInv

\* The visibility freeze_schedule recomputes, for the whole WIP schedule.
LEMMA FrozenFacts ==
    ASSUME IndInv
    PROVE  /\ Frozen \in Schedule
           /\ DOMAIN Frozen = DOMAIN wip
           /\ \A r \in DOMAIN wip :
                 /\ Frozen[r].start = wip[r].start
                 /\ Frozen[r].room = wip[r].room
                 /\ Frozen[r].is_visible = ShownOnRelease(r)
  <1>1. wip \in [DOMAIN wip -> Slot] /\ DOMAIN wip \subseteq Rows
    BY ScheduleFacts DEF IndInv, TypeOK
  <1> DEFINE shown(r) == [wip[r] EXCEPT !.is_visible = ShownOnRelease(r)]
  <1>2. \A r \in DOMAIN wip :
          /\ shown(r) \in Slot
          /\ shown(r).start = wip[r].start
          /\ shown(r).room = wip[r].room
          /\ shown(r).is_visible = ShownOnRelease(r)
    BY <1>1 DEF Slot, ShownOnRelease
  <1>3. Frozen = [r \in DOMAIN wip |-> shown(r)]
    BY DEF Frozen
  <1> HIDE DEF shown
  <1> QED
    BY <1>1, <1>2, <1>3, ScheduleFacts

\* What freeze_schedule releases is the WIP schedule with recomputed visibility,
\* without its blockers.
LEMMA VersionFacts ==
    ASSUME IndInv, NEW version, version = Without(Frozen, Blockers)
    PROVE  /\ version \in Schedule
           /\ DOMAIN version = DOMAIN wip \ Blockers
           /\ \A r \in DOMAIN version : version[r] = Frozen[r]
  <1>1. Frozen \in Schedule /\ DOMAIN Frozen = DOMAIN wip
    BY FrozenFacts
  <1>2. \A sch \in Schedule :
           /\ Without(sch, Blockers) \in Schedule
           /\ DOMAIN Without(sch, Blockers) = DOMAIN sch \ Blockers
           /\ \A r \in DOMAIN sch \ Blockers : Without(sch, Blockers)[r] = sch[r]
    BY WithoutFacts
  <1> QED
    BY <1>1, <1>2

\* freeze_schedule keeps IndInv: it shows confirmed talks only and releases no
\* blocker.
LEMMA FreezeScheduleInv ==
    ASSUME IndInv, FreezeSchedule
    PROVE  IndInv'
  <1> DEFINE version == Without(Frozen, Blockers)
  <1>1. /\ wip' = Frozen
        /\ releases' = Append(releases, version)
        /\ UNCHANGED proposalVars
    BY DEF FreezeSchedule
  <1>2. version \in Schedule /\ DOMAIN version \cap Blockers = {}
    BY FrozenFacts, WithoutFacts
  <1> HIDE DEF version
  <1>3. TypeOK'
    BY <1>1, <1>2, FrozenFacts DEF IndInv, TypeOK, proposalVars
  <1>4. SlotsFollowState'
    BY <1>1, FrozenFacts DEF IndInv, SlotsFollowState, proposalVars
  <1>5. VisibleOnlyConfirmed'
    <2> SUFFICES ASSUME NEW r \in DOMAIN wip' \cap TalkRows, wip'[r].is_visible
                 PROVE  state'[r[1]] = "confirmed"
      BY DEF VisibleOnlyConfirmed
    <2>1. ShownOnRelease(r) /\ r \notin Breaks
      BY <1>1, FrozenFacts, RowsAssumption
    <2> QED
      BY <2>1, <1>1 DEF ShownOnRelease, proposalVars
  <1>6. NoBlockersReleased'
    BY <1>1, <1>2 DEF IndInv, TypeOK, NoBlockersReleased
  <1>7. ReleasedHaveStart'
    <2>1. \A r \in DOMAIN version : version[r].is_visible => version[r].start # Null
      <3>1. DOMAIN version = DOMAIN wip \ Blockers
            /\ \A r \in DOMAIN version : version[r] = Frozen[r]
        BY VersionFacts DEF version
      <3>2. ASSUME NEW r \in DOMAIN version, version[r].is_visible
            PROVE  version[r].start # Null
        <4>1. r \in DOMAIN wip /\ Frozen[r].start = wip[r].start /\ ShownOnRelease(r)
          BY <3>1, <3>2, FrozenFacts
        <4> QED
          BY <3>1, <3>2, <4>1 DEF ShownOnRelease
      <3> QED
        BY <3>2
    <2> QED
      BY <1>1, <1>2, <2>1 DEF IndInv, TypeOK, ReleasedHaveStart
  <1> QED
    BY <1>3, <1>4, <1>5, <1>6, <1>7 DEF IndInv

\* move_slot and unschedule_slot are steps of the schedule editor.
LEMMA PlacedIsEditorStep ==
    ASSUME IndInv, NEW r \in DOMAIN wip,
           NEW start \in Starts \cup {Null}, NEW room \in Rooms \cup {Null},
           wip' = Placed(wip, r, start, room), UNCHANGED <<proposalVars, releases>>
    PROVE  EditorStep
  <1>1. wip \in Schedule
    BY DEF IndInv, TypeOK
  <1>2. /\ wip' \in Schedule
        /\ DOMAIN wip' = DOMAIN wip
        /\ \A q \in DOMAIN wip : wip'[q].is_visible = wip[q].is_visible
    BY <1>1, PlacedFacts
  <1> QED
    BY <1>2 DEF EditorStep, proposalVars

\* A new break or blocker is a step of the schedule editor.
LEMMA CreateSlotIsEditorStep ==
    ASSUME IndInv, NEW b \in Breaks \cup Blockers, NEW start \in Starts, NEW room \in Rooms,
           CreateSlot(b, start, room)
    PROVE  EditorStep
  <1> DEFINE new == [start |-> start, room |-> room, is_visible |-> FALSE]
  <1>1. wip \in [DOMAIN wip -> Slot] /\ DOMAIN wip \subseteq Rows /\ b \in Rows
    BY ScheduleFacts DEF IndInv, TypeOK, Rows
  <1>2. new \in Slot
    BY DEF Slot
  <1>3. wip' = [r \in DOMAIN wip \cup {b} |-> IF r = b THEN new ELSE wip[r]]
    BY DEF CreateSlot
  <1> HIDE DEF new
  <1>4. wip' \in [DOMAIN wip \cup {b} -> Slot]
    BY <1>1, <1>2, <1>3
  <1>5. wip' \in Schedule
    BY <1>1, <1>4, ScheduleFacts
  <1>6. b \notin TalkRows
    BY RowsAssumption
  <1> QED
    BY <1>3, <1>5, <1>6 DEF EditorStep, CreateSlot

\* Deleting a break or blocker is a step of the schedule editor.
LEMMA DeleteSlotIsEditorStep ==
    ASSUME IndInv, NEW b \in Breaks \cup Blockers, DeleteSlot(b)
    PROVE  EditorStep
  <1>1. wip \in Schedule /\ b \notin TalkRows
    BY RowsAssumption DEF IndInv, TypeOK
  <1>2. /\ wip' \in Schedule
        /\ DOMAIN wip' = DOMAIN wip \ {b}
        /\ \A q \in DOMAIN wip \ {b} : wip'[q] = wip[q]
    BY <1>1, WithoutFacts DEF DeleteSlot
  <1> QED
    BY <1>1, <1>2 DEF EditorStep, DeleteSlot, proposalVars

\* Edits of the event and the command that moves it are steps of that kind.
LEMMA EventIsStep ==
    ASSUME IndInv, EventNext
    PROVE  \E d \in Deltas : EventStep(d)
  <1>1. wip \in Schedule
    BY DEF IndInv, TypeOK
  <1>2. ASSUME NEW sch \in Schedule, NEW d \in Deltas, MoveAll(sch, d),
               DOMAIN sch = DOMAIN wip, \A r \in DOMAIN wip : sch[r].is_visible = wip[r].is_visible
        PROVE  EventStep(d)
    BY <1>2, MovedFacts DEF MoveAll, EventStep
  <1>3. ASSUME NEW sch \in AfterDateEdit(wip)
        PROVE  /\ sch \in Schedule /\ DOMAIN sch = DOMAIN wip
               /\ \A r \in DOMAIN wip : sch[r].is_visible = wip[r].is_visible
    <2>1. CASE ~HasStart(wip)
      BY <1>1, <2>1 DEF AfterDateEdit
    <2>2. CASE HasStart(wip)
      <3>1. PICK d \in Deltas, days \in {Starts} \cup {(a..b) \cap Starts : a, b \in Starts} :
                CanMove(wip, d) /\ sch = Dropped(Moved(wip, d), days)
        BY <2>2 DEF AfterDateEdit
      <3> DEFINE moved == Moved(wip, d)
      <3>2. moved \in Schedule /\ DOMAIN moved = DOMAIN wip
            /\ \A r \in DOMAIN wip : moved[r].is_visible = wip[r].is_visible
        BY <1>1, <3>1, MovedFacts
      <3> HIDE DEF moved
      <3>3. sch = Dropped(moved, days)
        BY <3>1 DEF moved
      <3> QED
        BY <3>2, <3>3, DroppedFacts
    <2> QED
      BY <2>1, <2>2
  <1> QED
    BY <1>1, <1>2, <1>3 DEF EventNext, EditEvent, MoveEvent

\* Every step of the system keeps IndInv: one step of the proof per action.
LEMMA NextInv == IndInv /\ [Next]_vars => IndInv'
  <1> SUFFICES ASSUME IndInv, [Next]_vars PROVE IndInv'
    OBVIOUS
  <1>1. ASSUME NEW s \in Submissions, NEW st \in Targets \cup {"submitted", "draft"},
               NEW n \in 1..MaxSlots, CreateSubmission(s, st, n)
        PROVE  IndInv'
    BY <1>1, CreateSubmissionIsStep, ProposalStepInv, StateFacts
  <1>2. ASSUME NEW s \in Submissions, NEW n \in 1..MaxSlots, EditSubmission(s, n)
        PROVE  IndInv'
    BY <1>2, EditSubmissionIsStep, ProposalFits, ProposalStepInv
  <1>3. ASSUME NEW s \in Submissions, NEW st \in States, SetSubmissionState(s, st)
        PROVE  IndInv'
    BY <1>3, SetSubmissionStateIsStep, ProposalFits, ProposalStepInv, StateFacts
  <1>4. ASSUME NEW s \in Submissions, SubmitDraft(s)
        PROVE  IndInv'
    BY <1>4, <1>3, StateFacts DEF SubmitDraft
  <1>5. ASSUME NEW s \in Submissions, NEW target \in Targets, ChangeState(s, target)
        PROVE  IndInv'
    <2>1. CASE SetSubmissionState(s, target)
      BY <2>1, <1>3, StateFacts
    <2>2. CASE SetPendingState(s, target)
      BY <2>2, SetPendingStateIsStep, ProposalFits, ProposalStepInv, StateFacts
    <2> QED
      BY <1>5, <2>1, <2>2 DEF ChangeState
  <1>6. ASSUME NEW s \in Submissions, ApplyPendingState(s)
        PROVE  IndInv'
    <2>1. pending[s] \in States
      BY ProposalFits, StateFacts
    <2> QED
      BY <1>6, <2>1, <1>3 DEF ApplyPendingState
  <1>7. ASSUME NEW s \in Submissions, Withdraw(s)
        PROVE  IndInv'
    BY <1>7, <1>3, StateFacts DEF Withdraw
  <1>8. ASSUME NEW s \in Submissions, Confirm(s)
        PROVE  IndInv'
    BY <1>8, <1>3, StateFacts DEF Confirm
  <1>9. ASSUME NEW s \in Submissions, DeleteSubmission(s)
        PROVE  IndInv'
    BY <1>9, DeleteSubmissionInv
  <1>10. ASSUME NEW r \in Rows, NEW start \in Starts, NEW room \in Rooms,
                MoveSlot(r, start, room)
         PROVE  IndInv'
    BY <1>10, PlacedIsEditorStep, EditorStepInv DEF MoveSlot
  <1>11. ASSUME NEW r \in Rows, UnscheduleSlot(r)
         PROVE  IndInv'
    BY <1>11, PlacedIsEditorStep, EditorStepInv DEF UnscheduleSlot
  <1>12. ASSUME NEW r \in Rows, NEW start \in Starts \cup {Null},
                NEW room \in Rooms \cup {Null}, PatchSlot(r, start, room)
         PROVE  IndInv'
    BY <1>12, PlacedIsEditorStep, EditorStepInv DEF PatchSlot
  <1>13. ASSUME NEW b \in Breaks \cup Blockers, NEW start \in Starts, NEW room \in Rooms,
                CreateSlot(b, start, room)
         PROVE  IndInv'
    BY <1>13, CreateSlotIsEditorStep, EditorStepInv
  <1>14. ASSUME NEW b \in Breaks \cup Blockers, DeleteSlot(b)
         PROVE  IndInv'
    BY <1>14, DeleteSlotIsEditorStep, EditorStepInv
  <1>15. ASSUME FreezeSchedule
         PROVE  IndInv'
    BY <1>15, FreezeScheduleInv
  <1>16. ASSUME NEW s \in Submissions, NEW p \in Targets \cup {"draft", "none"},
                NEW n \in 1..MaxSlots, PostSubmission(s, p, n)
         PROVE  IndInv'
    BY <1>16, PostSubmissionIsStep, ProposalStepInv, StateFacts
  <1>17. ASSUME NEW s \in Submissions, NEW p \in Targets \cup {"draft", "none"},
                NEW n \in 1..MaxSlots, PatchSubmission(s, p, n)
         PROVE  IndInv'
    BY <1>17, PatchSubmissionIsStep, ProposalFits, ProposalStepInv, StateFacts
  <1>18. CASE UNCHANGED vars
    BY <1>18 DEF vars, IndInv, TypeOK, SlotsFollowState, VisibleOnlyConfirmed,
                 NoBlockersReleased, ReleasedHaveStart
  <1>19. CASE EventNext
    BY <1>19, EventIsStep, EventStepInv
  <1> QED
    BY <1>1, <1>2, <1>4, <1>5, <1>6, <1>7, <1>8, <1>9, <1>10, <1>11, <1>12,
       <1>13, <1>14, <1>15, <1>16, <1>17, <1>18, <1>19 DEF Next, FormNext, DecisionNext, EditorNext

\* IndInv holds in every reachable state, for every number of proposals, slots,
\* rooms, times and releases.
THEOREM Invariance == Spec => []IndInv
  BY InitInv, NextInv, PTL DEF Spec

-----------------------------------------------------------------------------
(* The invariants that the runs check on small instances.                  *)

\* Every reachable state has the types TypeOK gives, whatever the sizes.
THEOREM TypeCorrect == Spec => []TypeOK
  <1>1. IndInv => TypeOK
    BY DEF IndInv
  <1> QED
    BY <1>1, Invariance, PTL

\* update_talk_slots: a proposal that is or is pending to be accepted holds
\* exactly slot_count slots of the WIP schedule, any other none.
THEOREM SlotsAlwaysFollowState == Spec => []SlotsFollowState
  <1>1. IndInv => SlotsFollowState
    BY DEF IndInv
  <1> QED
    BY <1>1, Invariance, PTL

\* No unconfirmed proposal ever has a visible slot in the WIP schedule.
THEOREM OnlyConfirmedVisible == Spec => []VisibleOnlyConfirmed
  <1>1. IndInv => VisibleOnlyConfirmed
    BY DEF IndInv
  <1> QED
    BY <1>1, Invariance, PTL

\* freeze_schedule never publishes a blocker.
THEOREM BlockersNeverReleased == Spec => []NoBlockersReleased
  <1>1. IndInv => NoBlockersReleased
    BY DEF IndInv
  <1> QED
    BY <1>1, Invariance, PTL

-----------------------------------------------------------------------------
(* What a release does.                                                    *)

\* Released versions change in a release, in a deletion and with the event only.
LEMMA StepKinds ==
    ASSUME [Next]_vars
    PROVE  \/ FreezeSchedule
           \/ EventNext
           \/ \E s \in Submissions : DeleteSubmission(s)
           \/ releases' = releases
  <1> USE DEF SetSubmissionState, SetPendingState
  <1>1. CASE UNCHANGED vars
    BY <1>1 DEF vars
  <1>2. CASE Next
    BY <1>2 DEF Next, FormNext, DecisionNext, EditorNext, CreateSubmission, EditSubmission, PostSubmission, PatchSubmission, SubmitDraft, ChangeState,
       ApplyPendingState, Withdraw, Confirm, MoveSlot, UnscheduleSlot, PatchSlot,
       CreateSlot, DeleteSlot
  <1> QED
    BY <1>1, <1>2

\* The list of versions grows in freeze_schedule and nowhere else.
LEMMA OnlyFreezeAddsVersions ==
    ASSUME IndInv, [Next]_vars, Len(releases') > Len(releases)
    PROVE  FreezeSchedule
  <1>1. releases \in Seq(Schedule) /\ releases' \in Seq(Schedule)
    BY NextInv DEF IndInv, TypeOK
  <1>2. CASE releases' = releases
    BY <1>1, <1>2
  <1>3. CASE EventNext \/ \E s \in Submissions : DeleteSubmission(s)
    <2>1. DOMAIN releases' = DOMAIN releases
      BY <1>3, EventIsStep DEF DeleteSubmission, EventStep
    <2>2. 1..Len(releases') = 1..Len(releases)
      BY <1>1, <2>1
    <2> QED
      BY <1>1, <2>2
  <1> QED
    BY <1>2, <1>3, StepKinds

\* A release keeps the time and the room of every row of the WIP schedule.
THEOREM ReleasesKeepPlan == Spec => ReleaseKeepsPlan
  <1>1. IndInv /\ [Next]_vars =>
          [Len(releases') > Len(releases) =>
             /\ DOMAIN wip' = DOMAIN wip
             /\ \A r \in DOMAIN wip :
                   wip'[r].start = wip[r].start /\ wip'[r].room = wip[r].room]_vars
    BY OnlyFreezeAddsVersions, FrozenFacts DEF FreezeSchedule
  <1> QED
    BY <1>1, Invariance, PTL DEF Spec, ReleaseKeepsPlan

\* The talks of a new version are those of the WIP schedule, blockers or not.
LEMMA ReleasedTalks ==
    ASSUME IndInv, FreezeSchedule
    PROVE  /\ wip' = Frozen /\ releases' # <<>>
           /\ ScheduledTalks(releases'[Len(releases')]) = ScheduledTalks(Frozen)
  <1> DEFINE version == Without(Frozen, Blockers)
  <1>1. wip' = Frozen /\ releases' = Append(releases, version)
    BY DEF FreezeSchedule
  <1> HIDE DEF version
  <1>2. releases \in Seq(Schedule) /\ version \in Schedule
    BY VersionFacts DEF IndInv, TypeOK, version
  <1>3. releases' # <<>> /\ releases'[Len(releases')] = version
    BY <1>1, <1>2
  <1>4. DOMAIN version \cap TalkRows = DOMAIN Frozen \cap TalkRows
        /\ \A r \in DOMAIN version : version[r] = Frozen[r]
    BY FrozenFacts, VersionFacts, RowsAssumption DEF version
  <1>5. ScheduledTalks(version) = ScheduledTalks(Frozen)
    BY <1>4 DEF ScheduledTalks
  <1> QED
    BY <1>1, <1>3, <1>5

LEMMA ReleaseLeavesNothing ==
    ASSUME IndInv, FreezeSchedule
    PROVE  ~HasChanges'
  BY ReleasedTalks DEF HasChanges, CurrentSchedule

\* Straight after a release there is nothing unreleased, so freeze_schedule
\* may set the indicator to False without comparing.
THEOREM ReleasesInSync == Spec => ReleaseInSync
  <1>1. IndInv /\ [Next]_vars =>
          [Len(releases') > Len(releases) => ~HasChanges']_vars
    BY ReleaseLeavesNothing, OnlyFreezeAddsVersions
  <1> QED
    BY <1>1, Invariance, PTL DEF Spec, ReleaseInSync

-----------------------------------------------------------------------------
(* What a release would show that the comparison does not see.             *)

\* The places of confirmed talks whose slot is not visible, because it was
\* placed after the last time the visibility was recomputed.
HiddenTalks ==
    {<<r[1], wip[r].start, wip[r].room>> :
        r \in {q \in DOMAIN wip \cap TalkRows :
                  /\ wip[q].room # Null /\ wip[q].start # Null
                  /\ state[q[1]] = "confirmed" /\ ~wip[q].is_visible}}

ShowsHidden == ScheduledTalks(Frozen) = ScheduledTalks(wip) \cup HiddenTalks

\* VisibleOnlyConfirmed is what keeps a release from hiding a talk.
LEMMA FrozenTalks == IndInv => ShowsHidden
  <1> SUFFICES ASSUME IndInv PROVE ScheduledTalks(Frozen) = ScheduledTalks(wip) \cup HiddenTalks
    BY DEF ShowsHidden
  <1> DEFINE sch == Frozen
             IsPlaced(r) == wip[r].room # Null /\ wip[r].start # Null
             Talk(r) == <<r[1], wip[r].start, wip[r].room>>
             talks == DOMAIN wip \cap TalkRows
  <1>1. /\ DOMAIN sch = DOMAIN wip
        /\ \A r \in talks : /\ sch[r].start = wip[r].start /\ sch[r].room = wip[r].room
                            /\ sch[r].is_visible = (wip[r].start # Null /\ state[r[1]] = "confirmed")
    <2>1. \A r \in talks : ShownOnRelease(r) = (wip[r].start # Null /\ state[r[1]] = "confirmed")
      BY RowsAssumption DEF ShownOnRelease
    <2> QED
      BY <2>1, FrozenFacts
  <1> HIDE DEF sch
  <1>2. ScheduledTalks(sch) = {Talk(r) : r \in {q \in talks : IsPlaced(q) /\ state[q[1]] = "confirmed"}}
    BY <1>1 DEF ScheduledTalks
  <1>3. ScheduledTalks(wip) = {Talk(r) : r \in {q \in talks : IsPlaced(q) /\ wip[q].is_visible}}
    BY DEF ScheduledTalks
  <1>4. HiddenTalks =
          {Talk(r) : r \in {q \in talks : IsPlaced(q) /\ state[q[1]] = "confirmed" /\ ~wip[q].is_visible}}
    BY DEF HiddenTalks
  <1>5. \A q \in talks : wip[q].is_visible => state[q[1]] = "confirmed"
    BY DEF IndInv, VisibleOnlyConfirmed
  <1> HIDE DEF IsPlaced, Talk, talks
  <1> QED
    BY <1>2, <1>3, <1>4, <1>5 DEF sch

\* What a release would publish is what the WIP schedule shows, and the hidden
\* talks: calculate_schedule_changes overlooks these, and nothing else.
THEOREM ReleaseShowsHidden == Spec => []ShowsHidden
  BY FrozenTalks, Invariance, PTL

\* Hence the indicator of unreleased changes can be silent about a change only
\* when a confirmed talk is hidden at a place where no other slot of it shows.
COROLLARY SilentUnlessHidden ==
    Spec => [](HiddenTalks \subseteq ScheduledTalks(wip) => SilentMeansSame)
  <1>1. ShowsHidden => (HiddenTalks \subseteq ScheduledTalks(wip) => SilentMeansSame)
    BY DEF ShowsHidden, SilentMeansSame, HasChanges
  <1> QED
    BY <1>1, ReleaseShowsHidden, PTL

-----------------------------------------------------------------------------
(* Which slots go first.                                                   *)

\* UnscheduledFirst for a step from the schedule a to the schedule b.
UnscheduledGo(a, b) ==
    \A s \in Submissions :
        \A gone \in (DOMAIN a \cap RowsOf(s)) \ (DOMAIN b \cap RowsOf(s)),
           left \in (DOMAIN a \cap RowsOf(s)) \cap (DOMAIN b \cap RowsOf(s)) :
              a[gone].start # Null => a[left].start # Null

\* Nothing goes, or all slots of one proposal.
LEMMA NothingGoes ==
    ASSUME NEW a, NEW b, DOMAIN a \cap TalkRows = DOMAIN b \cap TalkRows
    PROVE  UnscheduledGo(a, b)
  BY RowFacts DEF UnscheduledGo

LEMMA AllGo ==
    ASSUME NEW a, NEW b, NEW c, NEW s \in Submissions, UnscheduledGo(a, b),
           DOMAIN c = DOMAIN b \ RowsOf(s)
    PROVE  UnscheduledGo(a, c)
  <1> SUFFICES ASSUME NEW t \in Submissions,
                      NEW gone \in (DOMAIN a \cap RowsOf(t)) \ (DOMAIN c \cap RowsOf(t)),
                      NEW left \in (DOMAIN a \cap RowsOf(t)) \cap (DOMAIN c \cap RowsOf(t)),
                      a[gone].start # Null
               PROVE  a[left].start # Null
    BY DEF UnscheduledGo
  <1>1. t # s /\ gone \notin RowsOf(s)
    BY RowFacts
  <1> QED
    BY <1>1 DEF UnscheduledGo

\* update_talk_slots deletes the first slots by start, and NULL comes first.
LEMMA ReconcileOrder ==
    ASSUME NullsFirst, NEW sch \in Schedule, NEW s \in Submissions, NEW st, NEW pend,
           NEW n, NEW w \in UpdateTalkSlots(sch, s, st, pend, n)
    PROVE  UnscheduledGo(sch, w)
  <1>1. CASE SchedulingAllowed(st, pend)
    <2>1. PICK keep \in KeptRows(sch, s, n) : w = WithTalks(sch, s, keep, st)
      BY <1>1 DEF UpdateTalkSlots
    <2>2. keep \in SUBSET RowsOf(s)
      BY DEF KeptRows
    <2>3. OthersSame(sch, w, s) /\ DOMAIN w \cap RowsOf(s) = keep
      BY <2>1, <2>2, WithTalksFacts
    <2> SUFFICES ASSUME NEW t \in Submissions,
                        NEW gone \in (DOMAIN sch \cap RowsOf(t)) \ (DOMAIN w \cap RowsOf(t)),
                        NEW left \in (DOMAIN sch \cap RowsOf(t)) \cap (DOMAIN w \cap RowsOf(t)),
                        sch[gone].start # Null, sch[left].start = Null
                 PROVE  FALSE
      BY DEF UnscheduledGo
    <2>4. t = s
      BY <2>3, RowFacts DEF OthersSame
    <2>5. ~SlotBefore(sch[left], sch[gone])
      BY <2>3, <2>4 DEF KeptRows
    <2> QED
      BY <2>5 DEF SlotBefore, ColumnBefore
  <1>2. CASE ~SchedulingAllowed(st, pend)
    <2>1. DOMAIN w = DOMAIN sch \ RowsOf(s)
      BY <1>2, WithoutFacts DEF UpdateTalkSlots
    <2> QED
      BY <2>1, NothingGoes, AllGo
  <1> QED
    BY <1>1, <1>2

\* set_wip_slot takes no slot of an accepted proposal.
LEMMA PlacingOrder ==
    ASSUME NEW a, NEW sch \in Schedule, NEW s \in Submissions, NEW st, NEW pend, NEW n,
           NEW start \in Starts \cup {Null}, NEW room \in Rooms \cup {Null},
           NEW w \in SetWipSlot(sch, s, st, pend, n, start, room),
           st \in AcceptedStates \/ pend \notin AcceptedStates, UnscheduledGo(a, sch)
    PROVE  UnscheduledGo(a, w)
  <1>1. CASE st \notin AcceptedStates
    <2> DEFINE bare == Without(sch, RowsOf(s))
    <2>1. bare \in Schedule /\ DOMAIN bare = DOMAIN sch \ RowsOf(s)
      BY WithoutFacts
    <2>2. w = Without(bare, RowsOf(s))
      BY <1>1 DEF SetWipSlot, UpdateTalkSlots, SchedulingAllowed
    <2> HIDE DEF bare
    <2>3. DOMAIN w = DOMAIN sch \ RowsOf(s)
      BY <2>1, <2>2, WithoutFacts
    <2> QED
      BY <2>3, AllGo
  <1>2. CASE st \in AcceptedStates /\ EarliestRows(sch, s) = {}
    BY <1>2 DEF SetWipSlot
  <1>3. CASE st \in AcceptedStates /\ EarliestRows(sch, s) # {}
    <2>1. PICK r \in EarliestRows(sch, s) : w = Placed(sch, r, start, room)
      BY <1>3 DEF SetWipSlot
    <2>2. DOMAIN w = DOMAIN sch
      BY <2>1, PlacedFacts DEF EarliestRows
    <2> QED
      BY <2>2 DEF UnscheduledGo
  <1> QED
    BY <1>1, <1>2, <1>3

\* Every step but those of the editor and of a release reconciles one proposal.
LEMMA StepOrder ==
    ASSUME IndInv, [Next]_vars, NullsFirst
    PROVE  UnscheduledGo(wip, wip')
  <1>0. wip \in Schedule
    BY DEF IndInv, TypeOK
  <1>1. CASE wip' = wip
    BY <1>1, NothingGoes
  <1>2. ASSUME NEW s \in Submissions, NEW st, NEW n, CreateSubmission(s, st, n)
        PROVE  UnscheduledGo(wip, wip')
    <2>1. PICK w \in UpdateTalkSlots(wip, s, st, "none", n) :
             \/ wip' = w
             \/ \E start \in Starts, room \in Rooms :
                   wip' \in SetWipSlot(w, s, st, "none", n, start, room)
      BY <1>2 DEF CreateSubmission
    <2>2. w \in Schedule /\ UnscheduledGo(wip, w)
      BY <1>0, UpdateTalkSlotsFacts, ReconcileOrder
    <2>3. "none" \notin AcceptedStates
      BY DEF AcceptedStates
    <2> QED
      BY <2>1, <2>2, <2>3, PlacingOrder
  <1>3. ASSUME NEW s \in Submissions, NEW n, EditSubmission(s, n)
        PROVE  UnscheduledGo(wip, wip')
    <2>1. PICK w \in IF n = slotCount[s] THEN {wip}
                     ELSE UpdateTalkSlots(wip, s, state[s], pending[s], n) :
             \/ wip' = w
             \/ /\ state[s] \in AcceptedStates
                /\ \E start \in Starts, room \in Rooms :
                      wip' \in SetWipSlot(w, s, state[s], pending[s], n, start, room)
      BY <1>3 DEF EditSubmission
    <2>2. w \in Schedule /\ UnscheduledGo(wip, w)
      BY <1>0, UpdateTalkSlotsFacts, ReconcileOrder, NothingGoes
    <2> QED
      BY <2>1, <2>2, PlacingOrder
  <1>4. ASSUME NEW s \in Submissions, NEW st, NEW pend, NEW n,
               wip' \in UpdateTalkSlots(wip, s, st, pend, n)
        PROVE  UnscheduledGo(wip, wip')
    BY <1>0, <1>4, ReconcileOrder
  <1>5. ASSUME NEW s \in Submissions, NEW st, SetSubmissionState(s, st) \/ SetPendingState(s, st)
        PROVE  UnscheduledGo(wip, wip')
    BY <1>1, <1>4, <1>5 DEF SetSubmissionState, SetPendingState
  <1>6. ASSUME NEW s \in Submissions, NEW p, NEW n,
               PostSubmission(s, p, n) \/ PatchSubmission(s, p, n)
        PROVE  UnscheduledGo(wip, wip')
    BY <1>1, <1>4, <1>6 DEF PostSubmission, PatchSubmission
  <1>7. ASSUME NEW s \in Submissions, DeleteSubmission(s)
        PROVE  UnscheduledGo(wip, wip')
    <2>1. DOMAIN wip' = DOMAIN wip \ RowsOf(s)
      BY <1>0, <1>7, WithoutFacts DEF DeleteSubmission
    <2> QED
      BY <2>1, NothingGoes, AllGo
  <1>8. ASSUME EditorStep
        PROVE  UnscheduledGo(wip, wip')
    BY <1>8, NothingGoes DEF EditorStep
  <1>9. ASSUME NEW r \in Rows, NEW start \in Starts \cup {Null}, NEW room \in Rooms \cup {Null},
               MoveSlot(r, start, room) \/ PatchSlot(r, start, room)
        PROVE  EditorStep
    BY <1>9, PlacedIsEditorStep DEF MoveSlot, PatchSlot
  <1>10. ASSUME NEW b \in Breaks \cup Blockers, NEW start \in Starts, NEW room \in Rooms,
                CreateSlot(b, start, room)
         PROVE  EditorStep
    BY <1>10, CreateSlotIsEditorStep
  <1>11. ASSUME NEW b \in Breaks \cup Blockers, DeleteSlot(b)
         PROVE  EditorStep
    BY <1>11, DeleteSlotIsEditorStep
  <1>12. ASSUME FreezeSchedule
         PROVE  UnscheduledGo(wip, wip')
    BY <1>12, FrozenFacts, NothingGoes DEF FreezeSchedule
  <1>13. ASSUME NEW r \in Rows, UnscheduleSlot(r)
         PROVE  EditorStep
    BY <1>13, PlacedIsEditorStep DEF UnscheduleSlot
  <1>14. ASSUME NEW s \in Submissions,
                \/ SubmitDraft(s) \/ ApplyPendingState(s) \/ Withdraw(s) \/ Confirm(s)
                \/ \E target \in Targets : ChangeState(s, target)
         PROVE  UnscheduledGo(wip, wip')
    BY <1>5, <1>14 DEF SubmitDraft, ApplyPendingState, Withdraw, Confirm, ChangeState
  <1>15. CASE UNCHANGED vars
    BY <1>1, <1>15 DEF vars
  <1>16. CASE EventNext
    BY <1>16, EventIsStep, NothingGoes DEF EventStep
  <1> QED
    BY <1>2, <1>3, <1>6, <1>7, <1>8, <1>9, <1>10, <1>11, <1>12, <1>13, <1>14,
       <1>15, <1>16 DEF Next, FormNext, DecisionNext, EditorNext

\* Where NULL sorts first, as it does in SQLite, a slot with a time goes only
\* when no unscheduled slot of its proposal is left.
THEOREM UnscheduledGoFirst ==
    ASSUME NullsFirst
    PROVE  Spec => UnscheduledFirst
  <1>1. IndInv /\ [Next]_vars =>
          [\A s \in Submissions :
             LET had == DOMAIN wip \cap RowsOf(s)
                 has == DOMAIN wip' \cap RowsOf(s)
             IN  \A gone \in had \ has, left \in had \cap has :
                    wip[gone].start # Null => wip[left].start # Null]_vars
    BY StepOrder DEF UnscheduledGo
  <1> QED
    BY <1>1, Invariance, PTL DEF Spec, UnscheduledFirst

-----------------------------------------------------------------------------
(* update_talk_slots always has a result.                                  *)

\* A finite set has subsets of every size up to its own.
LEMMA SubsetOfSize ==
    ASSUME NEW S, IsFiniteSet(S), NEW k \in Nat, k <= Cardinality(S)
    PROVE  \E T \in SUBSET S : Cardinality(T) = k
  <1> DEFINE n == Cardinality(S)
  <1>1. n \in Nat
    BY FS_CardinalityType
  <1>2. PICK f \in Bijection(1..n, S) : TRUE
    BY FS_CardinalityType DEF ExistsBijection
  <1> DEFINE g == [i \in 1..k |-> f[i]]
             T == {f[i] : i \in 1..k}
  <1>3. 1..k \subseteq 1..n
    BY <1>1
  <1>4. g \in Bijection(1..k, T) /\ T \subseteq S
    BY <1>2, <1>3 DEF Bijection, Injection, Surjection, IsInjective
  <1>5. IsFiniteSet(1..k) /\ Cardinality(1..k) = k
    BY FS_Interval
  <1>6. ExistsBijection(1..k, T)
    BY <1>4, Zenon DEF ExistsBijection
  <1>7. Cardinality(T) = k
    BY <1>5, <1>6, FS_Bijection, Zenon
  <1> QED
    BY <1>4, <1>7

\* The rows of a proposal are finitely many.
LEMMA RowsFinite == ASSUME NEW s PROVE IsFiniteSet(RowsOf(s))
  <1>1. IsFiniteSet({s}) /\ IsFiniteSet(1..MaxSlots)
    <2>1. IsFiniteSet({s})
      BY FS_Singleton
    <2>2. MaxSlots \in Int /\ 1 \in Int
      BY BoundsAssumption
    <2> QED
      BY <2>1, <2>2, FS_Interval
  <1>2. IsFiniteSet({s} \X (1..MaxSlots))
    BY <1>1, FS_Product, Zenon
  <1> QED
    BY <1>2, Zenon DEF RowsOf

StrictOrder(R, S) ==
    /\ \A x \in S : <<x, x>> \notin R
    /\ \A x, y, z \in S : <<x, y>> \in R /\ <<y, z>> \in R => <<x, z>> \in R

\* Something comes first in a finite set.
LEMMA FirstExists ==
    ASSUME NEW S, IsFiniteSet(S), S # {}, NEW R, StrictOrder(R, S)
    PROVE  \E x \in S : \A y \in S : <<y, x>> \notin R
  <1> DEFINE Before(x) == {y \in S : <<y, x>> \in R}
             T == {Before(x) : x \in S}
  <1>1. T \subseteq FiniteSubsetsOf(S) /\ T # {}
    <2>1. T \subseteq SUBSET S /\ T # {}
      OBVIOUS
    <2> HIDE DEF T
    <2> QED
      BY <2>1, FS_FiniteSubsetsOfFinite
  <1>2. PICK B \in T : \A C \in T : <<C, B>> \notin StrictSubsetOrdering(S)
    <2> HIDE DEF T
    <2> QED
      BY <1>1, FS_StrictSubsetOrderingWellFounded, WFMin
  <1>3. PICK x \in S : B = Before(x)
    BY <1>2
  <1>4. ASSUME NEW y \in S, <<y, x>> \in R PROVE FALSE
    <2>1. Before(y) \subseteq Before(x) /\ y \in Before(x) /\ y \notin Before(y)
      BY <1>4 DEF StrictOrder
    <2>2. Before(y) \in T /\ Before(y) \in SUBSET S /\ Before(x) \in SUBSET S
      OBVIOUS
    <2> HIDE DEF Before, T
    <2> QED
      BY <1>2, <1>3, <2>1, <2>2 DEF StrictSubsetOrdering
  <1> QED
    BY <1>4

\* Of a finite set any number of elements can be removed so that none of them
\* comes after one that stays.
LEMMA RestExists ==
    ASSUME NEW S, IsFiniteSet(S), NEW R, StrictOrder(R, S), NEW n \in Nat, n <= Cardinality(S)
    PROVE  \E K \in SUBSET S : Cardinality(K) = n /\ \A k \in K, d \in S \ K : <<k, d>> \notin R
  <1> DEFINE T == {K \in SUBSET S : /\ n <= Cardinality(K)
                                    /\ \A k \in K, d \in S \ K : <<k, d>> \notin R}
  <1>1. T \subseteq FiniteSubsetsOf(S) /\ S \in T
    BY FS_FiniteSubsetsOfFinite
  <1>2. PICK K \in T : \A L \in T : <<L, K>> \notin StrictSubsetOrdering(S)
    <2> HIDE DEF T
    <2> QED
      BY <1>1, FS_StrictSubsetOrderingWellFounded, WFMin
  <1>3. IsFiniteSet(K) /\ Cardinality(K) \in Nat
    BY FS_Subset, FS_CardinalityType
  <1>4. ASSUME Cardinality(K) # n PROVE FALSE
    <2>1. K # {}
      BY <1>2, <1>4, FS_EmptySet
    <2>2. PICK x \in K : \A y \in K : <<y, x>> \notin R
      <3>1. StrictOrder(R, K)
        BY DEF StrictOrder
      <3> QED
        BY <1>3, <2>1, <3>1, FirstExists
    <2> DEFINE L == K \ {x}
    <2>3. Cardinality(L) = Cardinality(K) - 1
      BY <1>3, FS_RemoveElement
    <2>4. L \in T
      <3>1. n <= Cardinality(L)
        BY <1>2, <1>3, <1>4, <2>3
      <3>2. \A k \in L, d \in S \ L : <<k, d>> \notin R
        BY <1>2, <2>2
      <3> HIDE DEF L
      <3> QED
        BY <3>1, <3>2 DEF L
    <2> QED
      BY <1>2, <2>4 DEF StrictSubsetOrdering
  <1> QED
    BY <1>2, <1>4

\* The order of the columns is one.
LEMMA ColumnOrder ==
    ASSUME NEW x \in Nat, NEW y \in Nat, NEW z \in Nat
    PROVE  /\ ~ColumnBefore(x, x)
           /\ ColumnBefore(x, y) /\ ColumnBefore(y, z) => ColumnBefore(x, z)
  BY OrderAssumption DEF ColumnBefore, Null

LEMMA SlotOrder ==
    ASSUME NEW a \in Slot, NEW b \in Slot, NEW c \in Slot
    PROVE  /\ ~SlotBefore(a, a)
           /\ SlotBefore(a, b) /\ SlotBefore(b, c) => SlotBefore(a, c)
  <1>0. Starts \cup {Null} \subseteq Nat /\ Rooms \cup {Null} \subseteq Nat
    BY PlaceAssumption DEF Null
  <1>1. \A x \in {a, b, c} : x.start \in Nat /\ x.room \in Nat
    BY <1>0 DEF Slot
  <1>2. ~SlotBefore(a, a)
    BY <1>1, ColumnOrder DEF SlotBefore
  <1>3. ASSUME SlotBefore(a, b), SlotBefore(b, c) PROVE SlotBefore(a, c)
    <2>1. ColumnBefore(a.start, b.start) /\ ColumnBefore(b.start, c.start)
            => ColumnBefore(a.start, c.start)
      BY <1>1, ColumnOrder
    <2>2. ColumnBefore(a.room, b.room) /\ ColumnBefore(b.room, c.room)
            => ColumnBefore(a.room, c.room)
      BY <1>1, ColumnOrder
    <2> QED
      BY <1>3, <2>1, <2>2, Zenon DEF SlotBefore
  <1> QED
    BY <1>2, <1>3

LEMMA KeptExist ==
    ASSUME NEW sch \in Schedule, NEW s \in Submissions, NEW n \in 0..MaxSlots
    PROVE  KeptRows(sch, s, n) # {}
  <1> DEFINE have == DOMAIN sch \cap RowsOf(s)
             R == {p \in have \X have : SlotBefore(sch[p[1]], sch[p[2]])}
  <1>1. IsFiniteSet(have) /\ IsFiniteSet(RowsOf(s)) /\ Cardinality(have) \in Nat
    BY RowsFinite, FS_Subset, FS_CardinalityType
  <1>2. Cardinality(RowsOf(s)) = MaxSlots /\ MaxSlots \in Nat
    <2>1. Cardinality({s}) = 1 /\ IsFiniteSet({s})
      BY FS_Singleton
    <2>2. MaxSlots \in Nat \ {0} /\ Cardinality(1..MaxSlots) = MaxSlots /\ IsFiniteSet(1..MaxSlots)
      BY BoundsAssumption, FS_Interval
    <2>3. Cardinality({s} \X (1..MaxSlots)) = 1 * MaxSlots
      BY <2>1, <2>2, FS_Product
    <2> QED
      BY <2>2, <2>3 DEF RowsOf
  <1>3. CASE n <= Cardinality(have)
    <2>1. \A r \in have : sch[r] \in Slot
      BY DEF Schedule
    <2>2. \A p, q \in have : <<p, q>> \in R <=> SlotBefore(sch[p], sch[q])
      OBVIOUS
    <2> HIDE DEF R, have
    <2>3. StrictOrder(R, have)
      BY <2>1, <2>2, SlotOrder DEF StrictOrder
    <2>4. PICK K \in SUBSET have : Cardinality(K) = n /\ \A k \in K, d \in have \ K : <<k, d>> \notin R
      BY <1>1, <1>3, <2>3, RestExists
    <2>5. K \in KeptRows(sch, s, n)
      BY <2>2, <2>4 DEF KeptRows, have
    <2> QED
      BY <2>5
  <1>4. CASE ~(n <= Cardinality(have))
    <2> DEFINE free == RowsOf(s) \ have
               more == n - Cardinality(have)
    <2>1. IsFiniteSet(free) /\ Cardinality(free) = MaxSlots - Cardinality(have)
      <3>1. RowsOf(s) \cap have = have
        OBVIOUS
      <3> HIDE DEF have
      <3> QED
        BY <1>1, <1>2, <3>1, FS_Difference
    <2>2. more \in Nat /\ more <= Cardinality(free)
      <3> HIDE DEF have, free
      <3> QED
        BY <1>1, <1>2, <1>4, <2>1
    <2>3. PICK F \in SUBSET free : Cardinality(F) = more
      <3> HIDE DEF free, more
      <3> QED
        BY <2>1, <2>2, SubsetOfSize
    <2>4. IsFiniteSet(F) /\ have \cap F = {}
      BY <2>1, FS_Subset
    <2>5. Cardinality(have \cup F) = n
      <3>1. Cardinality(have \cap F) = 0
        BY <2>4, FS_EmptySet
      <3> HIDE DEF have
      <3>2. Cardinality(have \cup F)
              = Cardinality(have) + Cardinality(F) - Cardinality(have \cap F)
        BY <1>1, <2>4, FS_Union
      <3> QED
        BY <1>1, <2>3, <3>1, <3>2
    <2>6. have \cup F \in KeptRows(sch, s, n)
      BY <2>3, <2>5 DEF KeptRows
    <2> QED
      BY <2>6
  <1> QED
    BY <1>3, <1>4

\* Whatever the WIP schedule holds and however the database sorts, there are
\* surplus slots to delete in its order, or slots to add, until the proposal has
\* as many as it should; and a place for it can be written: no state change,
\* edit or creation is held up by its slots (update_talk_slots, set_wip_slot).
SlotsAnswer ==
    \A s \in Submissions, st \in States, pend \in States, n \in 1..MaxSlots :
       /\ UpdateTalkSlots(wip, s, st, pend, n) # {}
       /\ \A start \in Starts, room \in Rooms, w \in UpdateTalkSlots(wip, s, st, pend, n) \cup {wip} :
             SetWipSlot(w, s, st, pend, n, start, room) # {}

THEOREM SlotsAlwaysAnswer == Spec => []SlotsAnswer
  <1>1. TypeOK => SlotsAnswer
    <2> SUFFICES ASSUME TypeOK, NEW s \in Submissions, NEW st \in States, NEW pend \in States,
                        NEW n \in 1..MaxSlots
                 PROVE  /\ UpdateTalkSlots(wip, s, st, pend, n) # {}
                        /\ \A start \in Starts, room \in Rooms,
                              w \in UpdateTalkSlots(wip, s, st, pend, n) \cup {wip} :
                             SetWipSlot(w, s, st, pend, n, start, room) # {}
      BY DEF SlotsAnswer
    <2>1. n \in 0..MaxSlots /\ wip \in Schedule
      BY BoundsAssumption DEF TypeOK
    <2>2. ASSUME NEW sch \in Schedule PROVE UpdateTalkSlots(sch, s, st, pend, n) # {}
      <3>1. KeptRows(sch, s, n) # {}
        BY <2>1, KeptExist
      <3> QED
        BY <3>1 DEF UpdateTalkSlots
    <2>3. ASSUME NEW sch \in Schedule, NEW start \in Starts, NEW room \in Rooms
          PROVE  SetWipSlot(sch, s, st, pend, n, start, room) # {}
      <3>1. UpdateTalkSlots(Without(sch, RowsOf(s)), s, st, pend, n) # {}
        BY <2>2, WithoutFacts
      <3> QED
        BY <3>1 DEF SetWipSlot
    <2>4. \A w \in UpdateTalkSlots(wip, s, st, pend, n) : w \in Schedule
      BY <2>1, UpdateTalkSlotsFacts
    <2> QED
      BY <2>1, <2>2, <2>3, <2>4
  <1> QED
    BY <1>1, TypeCorrect, PTL

-----------------------------------------------------------------------------
(* ScheduleRelease implements PublicAgenda.                                *)

Confirmed == {s \in Submissions : state[s] = "confirmed"}
Agendas == [v \in DOMAIN releases |-> PublicSlots(releases[v])]

\* freeze_schedule is a step Publish of the abstract agenda.
LEMMA FreezePublishes ==
    ASSUME IndInv, FreezeSchedule
    PROVE  Agenda!Publish
  <1> DEFINE version == Without(Frozen, Blockers)
             shown == PublicSlots(version)
  <1>1. /\ releases' = Append(releases, version)
        /\ state' = state
    BY DEF FreezeSchedule, proposalVars
  <1> HIDE DEF version
  <1>2. releases \in Seq(Schedule) /\ version \in Schedule
    BY VersionFacts DEF IndInv, TypeOK, version
  <1>3. shown \in SUBSET Agenda!Entries(Confirmed \cup Breaks)
    <2> SUFFICES ASSUME NEW r \in DOMAIN version, version[r].is_visible
                 PROVE  <<Who(r), version[r].start, version[r].room>>
                           \in Agenda!Entries(Confirmed \cup Breaks)
      BY DEF PublicSlots
    <2>1. r \in DOMAIN wip /\ version[r] = Frozen[r]
      BY VersionFacts DEF version
    <2>2. ShownOnRelease(r) /\ Frozen[r].start = wip[r].start
      BY <2>1, FrozenFacts
    <2>3. Who(r) \in Confirmed \cup Breaks
      BY <2>2, RowFacts, RowsAssumption DEF ShownOnRelease, Who, Confirmed
    <2>4. version[r] \in Slot /\ version[r].start # Null
      BY <1>2, <2>1, <2>2, ScheduleFacts DEF ShownOnRelease
    <2>5. version[r].start \in Starts /\ version[r].room \in Rooms \cup {Null}
      BY <2>4 DEF Slot
    <2> QED
      BY <2>3, <2>5 DEF Agenda!Entries
  <1>4. Agendas' = Append(Agendas, shown)
    <2>1. Agendas \in Seq({PublicSlots(v) : v \in Schedule})
      <3>1. \A v \in DOMAIN releases : releases[v] \in Schedule
        BY <1>2
      <3>2. DOMAIN releases = 1..Len(releases) /\ Len(releases) \in Nat
        BY <1>2
      <3> QED
        BY <3>1, <3>2 DEF Agendas
    <2>2. Len(Agendas) = Len(releases)
      BY <1>2, <2>1 DEF Agendas
    <2>3. \A v \in 1..Len(releases) + 1 :
             releases'[v] = IF v = Len(releases) + 1 THEN version ELSE releases[v]
      BY <1>1, <1>2
    <2>4. DOMAIN releases' = 1..Len(releases) + 1
      BY <1>1, <1>2
    <2> QED
      BY <1>2, <2>1, <2>2, <2>3, <2>4 DEF Agendas
  <1>5. Confirmed' = Confirmed
    BY <1>1 DEF Confirmed
  <1> HIDE DEF shown
  <1> QED
    BY <1>3, <1>4, <1>5 DEF Agenda!Publish, Agendas, Confirmed

\* delete_submission is a step Erase of the abstract agenda.
LEMMA DeletionErases ==
    ASSUME IndInv, NEW s \in Submissions, DeleteSubmission(s)
    PROVE  Agenda!Erase(s)
  <1>1. releases \in Seq(Schedule) /\ state \in [Submissions -> States]
    BY DEF IndInv, TypeOK
  <1>2. Confirmed' = Confirmed \ {s}
    BY <1>1 DEF DeleteSubmission, Confirmed
  <1>3. ASSUME NEW sch \in Schedule
        PROVE  PublicSlots(Without(sch, RowsOf(s))) = {e \in PublicSlots(sch) : e[1] # s}
    <2>1. DOMAIN sch \subseteq Rows
      BY ScheduleFacts
    <2>2. \A r \in DOMAIN sch : Who(r) = s <=> r \in RowsOf(s)
      BY <2>1, RowFacts, RowsAssumption DEF Who, Rows
    <2> DEFINE w == Without(sch, RowsOf(s))
               entry(r) == <<Who(r), sch[r].start, sch[r].room>>
    <2>3. DOMAIN w = DOMAIN sch \ RowsOf(s) /\ \A r \in DOMAIN w : w[r] = sch[r]
      BY WithoutFacts
    <2> HIDE DEF w
    <2>4. PublicSlots(w) = {entry(r) : r \in {q \in DOMAIN w : sch[q].is_visible}}
      BY <2>3 DEF PublicSlots
    <2>5. PublicSlots(sch) = {entry(r) : r \in {q \in DOMAIN sch : sch[q].is_visible}}
      BY DEF PublicSlots
    <2>6. \A r : entry(r)[1] = Who(r)
      OBVIOUS
    <2> HIDE DEF entry
    <2>7. PublicSlots(w) = {e \in PublicSlots(sch) : e[1] # s}
      BY <2>2, <2>3, <2>4, <2>5, <2>6
    <2> QED
      BY <2>7 DEF w
  <1>4. \A v \in DOMAIN releases : releases[v] \in Schedule
    BY <1>1
  <1>5. Agendas' = [v \in DOMAIN Agendas |-> {e \in Agendas[v] : e[1] # s}]
    BY <1>3, <1>4 DEF Agendas, DeleteSubmission
  <1> QED
    BY <1>2, <1>5 DEF Agenda!Erase, Agendas, Confirmed

\* An edit of the event is a step Shift of the abstract agenda, or none.
LEMMA EventShifts ==
    ASSUME IndInv, NEW d \in Deltas, EventStep(d)
    PROVE  Agenda!Shift
  <1>1. releases \in Seq(Schedule)
    BY DEF IndInv, TypeOK
  <1>2. ASSUME NEW v \in DOMAIN releases
        PROVE  PublicSlots(releases'[v]) =
                 {<<e[1], e[2] + d, e[3]>> : e \in PublicSlots(releases[v])}
    <2> DEFINE sch == releases[v]
               now == releases'[v]
               entry(r) == <<Who(r), sch[r].start, sch[r].room>>
               later(r) == <<Who(r), sch[r].start + d, sch[r].room>>
    <2>1. sch \in Schedule /\ now = Moved(sch, d) /\ CanMove(sch, d)
      BY <1>1 DEF EventStep
    <2>2. /\ DOMAIN now = DOMAIN sch
          /\ \A r \in DOMAIN sch : /\ now[r].is_visible = sch[r].is_visible
                                   /\ now[r].room = sch[r].room
                                   /\ sch[r].start # Null => now[r].start = sch[r].start + d
      BY <2>1, MovedFacts
    <2>3. \A r \in DOMAIN sch : sch[r].is_visible => sch[r].start # Null
      BY DEF IndInv, ReleasedHaveStart
    <2>4. PublicSlots(sch) = {entry(r) : r \in {q \in DOMAIN sch : sch[q].is_visible}}
      BY DEF PublicSlots
    <2>5. PublicSlots(now) =
            {<<Who(r), now[r].start, now[r].room>> : r \in {q \in DOMAIN now : now[q].is_visible}}
      BY DEF PublicSlots
    <2> HIDE DEF sch, now
    <2>6. PublicSlots(now) = {later(r) : r \in {q \in DOMAIN sch : sch[q].is_visible}}
      BY <2>2, <2>3, <2>5
    <2>7. \A r : later(r) = <<entry(r)[1], entry(r)[2] + d, entry(r)[3]>>
      OBVIOUS
    <2> HIDE DEF entry, later
    <2>8. PublicSlots(now) = {<<e[1], e[2] + d, e[3]>> : e \in PublicSlots(sch)}
      BY <2>4, <2>6, <2>7
    <2> QED
      BY <2>8 DEF sch, now
  <1>3. Agendas' = [v \in DOMAIN Agendas |-> {<<e[1], e[2] + d, e[3]>> : e \in Agendas[v]}]
    BY <1>2 DEF EventStep, Agendas
  <1>4. Confirmed' = Confirmed
    BY DEF EventStep, proposalVars, Confirmed
  <1> QED
    BY <1>3, <1>4 DEF Agenda!Shift, Agendas, Confirmed, Deltas

\* Whatever happens to proposals, slots and later versions, a published
\* version shows only what was confirmed at its release, and changes only by
\* the deletion of a session, or together with all others when the event moves
\* or changes its time zone (apply_timezone_edit, move_full_event).
THEOREM Refinement == Spec => ImplementsAgenda
  <1>1. Init => Agenda!AgendaInit
    BY DEF Init, Agenda!AgendaInit
  <1>2. IndInv /\ [Next]_vars => [Agenda!AgendaNext]_(Agenda!agendaVars)
    <2> SUFFICES ASSUME IndInv, [Next]_vars PROVE Agenda!AgendaNext
      OBVIOUS
    <2>1. CASE FreezeSchedule
      BY <2>1, FreezePublishes DEF Agenda!AgendaNext
    <2>2. ASSUME NEW s \in Submissions, DeleteSubmission(s)
          PROVE  Agenda!AgendaNext
      BY <2>2, DeletionErases DEF Agenda!AgendaNext
    <2>3. CASE releases' = releases
      BY <2>3 DEF Agenda!AgendaNext, Agenda!Decide
    <2>4. CASE EventNext
      BY <2>4, EventIsStep, EventShifts DEF Agenda!AgendaNext
    <2> QED
      BY <2>1, <2>2, <2>3, <2>4, StepKinds
  <1> QED
    BY <1>1, <1>2, Invariance, PTL DEF Spec, ImplementsAgenda, Agenda!AgendaSpec

-----------------------------------------------------------------------------
(* The cached list of changes and the cached indicator (ScheduleChanges).  *)
(* The indicator is right because whatever is cached while the tasks are   *)
(* done and nothing has gone unannounced is right: CacheInv says so of the *)
(* list, and of the one computation that nobody has overlapped.            *)

Pending(r) == reading[r] # None /\ ~reading[r].released
SameVersion(list) == list.create = (releases = <<>>)

\* The slots that a list names are shown, at the places that are new in sch.
Names(list, sch, previous) ==
    \/ list.create
    \/ /\ list.new \cup list.moved \subseteq {w[1] : w \in Showing(sch)}
       /\ {r[1] : r \in list.new \cup list.moved}
            = {t[1] : t \in ScheduledTalks(sch) \ previous}

Fits(list) == list.changed = HasChanges /\ Names(list, wip, PreviousTalks)

CacheTypes ==
    /\ listed \in List \cup {None}
    /\ reading \in [Readers -> Reading \cup {None}]
    /\ queued \in BOOLEAN /\ suspect \in BOOLEAN

CacheInv ==
    /\ CacheTypes
    /\ listed # None => SameVersion(listed)
    /\ Settled /\ listed # None => Fits(listed)
    /\ IndicatorRight
    /\ \A r \in Readers : Pending(r) => SameVersion(reading[r].list)
    /\ ~suspect => \A r \in Readers : Pending(r) =>
          /\ \A q \in Readers \ {r} : reading[q] = None
          /\ ~queued => Fits(reading[r].list) /\ (listed # None => Fits(listed))

\* Every step of ChangesSpec does to the schedule what a step of Spec does.
LEMMA ChangesStepIsStep == [ChangesNext]_changesVars => [Next]_vars
  BY DEF ChangesNext, changesVars, SubmitForm, Decision, EditSlot, MoveDates, SendEarly, OpenPage,
         ShowIndicator, RunTask, Compute, Begin, StoreList, StoreIndicator, Forget, LoseTask, Release, Next, vars

\* The caches do not touch the schedule.
THEOREM ChangesImplementsRelease == ChangesSpec => Spec
  <1>1. ChangesInit => Init
    BY DEF ChangesInit
  <1> QED
    BY <1>1, ChangesStepIsStep, PTL DEF ChangesSpec, Spec

\* The indicator compares what is scheduled with what was released last.
LEMMA ChangedMeans == HasChanges = (ScheduledTalks(wip) # PreviousTalks)
  BY DEF HasChanges, PreviousTalks

\* What a comparison finds is right when it is made.
LEMMA ComparedFacts ==
    ASSUME NEW sch, NEW list \in ChangesOf(sch)
    PROVE  /\ list \in List /\ SameVersion(list) /\ Names(list, sch, PreviousTalks)
           /\ list.changed = (ScheduledTalks(sch) # PreviousTalks)
  <1> DEFINE now == ScheduledTalks(sch)
             shown == {w[1] : w \in Showing(sch)}
             Talk(r) == <<r[1], sch[r].start, sch[r].room>>
  <1>1. shown \subseteq TalkRows
    BY DEF Showing
  <1>2. PICK all \in SUBSET shown, moved \in SUBSET shown, create \in BOOLEAN,
             changed \in BOOLEAN :
           /\ moved \subseteq all
           /\ create = (releases = <<>>) /\ changed = (now # PreviousTalks)
           /\ list = [create |-> create, changed |-> changed, new |-> all \ moved,
                      moved |-> moved, lost |-> {}]
           /\ ~create => /\ \A r \in all : Talk(r) \in now \ PreviousTalks
                         /\ \A t \in now \ PreviousTalks : \E r \in all : Talk(r) = t
    <2>1. CASE releases = <<>>
      <3>1. list = [create |-> TRUE, changed |-> now # {}, new |-> {}, moved |-> {}, lost |-> {}]
        BY <2>1 DEF ChangesOf
      <3>2. PreviousTalks = {} /\ {} \ {} = {}
        BY <2>1 DEF PreviousTalks
      <3> WITNESS {} \in SUBSET shown, {} \in SUBSET shown, TRUE \in BOOLEAN,
                  (now # {}) \in BOOLEAN
      <3> QED
        BY <2>1, <3>1, <3>2, Zenon
    <2>2. CASE releases # <<>>
      <3>1. PICK c \in [all : SUBSET {r \in shown : Talk(r) \in now \ PreviousTalks},
                        moved : SUBSET shown] :
               /\ list = [create |-> FALSE, changed |-> now # PreviousTalks,
                          new |-> c.all \ c.moved, moved |-> c.moved, lost |-> {}]
               /\ c.moved \subseteq c.all
               /\ \A t \in now \ PreviousTalks : \E r \in c.all : Talk(r) = t
        BY <2>2 DEF ChangesOf
      <3>2. c.all \in SUBSET shown /\ c.moved \in SUBSET c.all
            /\ \A r \in c.all : Talk(r) \in now \ PreviousTalks
        BY <3>1
      <3> WITNESS c.all \in SUBSET shown, c.moved \in SUBSET shown,
                  FALSE \in BOOLEAN, (now # PreviousTalks) \in BOOLEAN
      <3> QED
        BY <2>2, <3>1, <3>2, Zenon
    <2> QED
      BY <2>1, <2>2
  <1>3. list \in List
    BY <1>1, <1>2 DEF List
  <1>4. list.create = create /\ list.changed = changed /\ list.new \cup list.moved = all
    BY <1>2
  <1>5. ~create => {r[1] : r \in all} = {t[1] : t \in now \ PreviousTalks}
    <2> SUFFICES ASSUME ~create
                 PROVE  {r[1] : r \in all} = {t[1] : t \in now \ PreviousTalks}
      OBVIOUS
    <2>1. \A r : Talk(r)[1] = r[1]
      OBVIOUS
    <2>2. \A r \in all : Talk(r) \in now \ PreviousTalks
      BY <1>2
    <2>3. \A t \in now \ PreviousTalks : \E r \in all : Talk(r) = t
      BY <1>2
    <2> HIDE DEF Talk, now
    <2> QED
      BY <2>1, <2>2, <2>3
  <1> QED
    BY <1>2, <1>3, <1>4, <1>5 DEF SameVersion, Names

LEMMA ComputedFacts ==
    ASSUME NEW list \in ChangesOf(wip)
    PROVE  list \in List /\ SameVersion(list) /\ Fits(list)
  BY ComparedFacts, ChangedMeans DEF Fits

LEMMA RereadFacts ==
    ASSUME NEW list \in List \cup {None}
    PROVE  /\ Reread(list) \in List \cup {None}
           /\ Reread(list) = None <=> list = None
           /\ list # None => Reread(list).create = list.create
                             /\ Reread(list).changed = list.changed
                             /\ Reread(list).new \cup Reread(list).moved
                                  = (list.new \cup list.moved) \cap DOMAIN wip'
  <1>1. CASE list = None
    BY <1>1 DEF Reread
  <1>2. CASE list # None
    <2>1. list \in List
      BY <1>2
    <2>2. Lost(list) \subseteq Submissions
      BY <2>1 DEF List, Lost, TalkRows
    <2>3. Reread(list) \in List
      BY <1>2, <2>1, <2>2 DEF Reread, List
    <2> QED
      BY <1>2, <2>3, NoneAssumption DEF Reread
  <1> QED
    BY <1>1, <1>2

\* Forms, decisions, the editor and edits of the event neither add nor remove versions.
LEMMA SameVersions ==
    ASSUME IndInv, [Next]_vars,
           EditorNext \/ EventNext \/ \E s \in Submissions : FormNext(s) \/ DecisionNext(s)
    PROVE  releases' = <<>> <=> releases = <<>>
  <1> USE DEF SetSubmissionState, SetPendingState
  <1>1. DOMAIN releases' = DOMAIN releases
    BY DEF FormNext, DecisionNext, EditorNext, CreateSubmission, EditSubmission,
       PostSubmission, PatchSubmission, SubmitDraft, ChangeState, ApplyPendingState,
       Withdraw, Confirm, MoveSlot, UnscheduleSlot, PatchSlot, CreateSlot, DeleteSlot,
       DeleteSubmission, EventNext, EditEvent, MoveEvent, MoveAll
  <1>2. releases \in Seq(Schedule) /\ releases' \in Seq(Schedule)
    BY NextInv DEF IndInv, TypeOK
  <1> QED
    BY <1>1, <1>2

\* Slots that show the same leave the same talks.
LEMMA ShowingTalks ==
    ASSUME NEW a, NEW b, Showing(a) = Showing(b)
    PROVE  ScheduledTalks(a) = ScheduledTalks(b)
  <1>1. ASSUME NEW c, NEW d, Showing(c) = Showing(d), NEW t \in ScheduledTalks(c)
        PROVE  t \in ScheduledTalks(d)
    <2>1. PICK r \in DOMAIN c \cap TalkRows :
             /\ c[r].room # Null /\ c[r].start # Null /\ c[r].is_visible
             /\ t = <<r[1], c[r].start, c[r].room>>
      BY <1>1 DEF ScheduledTalks
    <2>2. <<r, c[r].start, c[r].room>> \in Showing(d)
      BY <1>1, <2>1 DEF Showing
    <2>3. PICK q \in DOMAIN d \cap TalkRows :
             /\ d[q].room # Null /\ d[q].start # Null /\ d[q].is_visible
             /\ <<r, c[r].start, c[r].room>> = <<q, d[q].start, d[q].room>>
      BY <2>2 DEF Showing
    <2> QED
      BY <2>1, <2>3 DEF ScheduledTalks
  <1> QED
    BY <1>1

\* A change that sends no task and is not held against the caches leaves the
\* comparison as it was.
LEMMA QuietChange ==
    ASSUME Showing(wip') = Showing(wip), PreviousTalks' = PreviousTalks
    PROVE  /\ HasChanges' = HasChanges
           /\ \A list \in List : Names(list, wip, PreviousTalks) =>
                                   Names(Reread(list), wip', PreviousTalks')
  <1>1. ScheduledTalks(wip') = ScheduledTalks(wip)
    BY ShowingTalks
  <1>2. HasChanges' = (ScheduledTalks(wip') # PreviousTalks')
    BY DEF HasChanges, PreviousTalks
  <1>3. ASSUME NEW list \in List, Names(list, wip, PreviousTalks)
        PROVE  Names(Reread(list), wip', PreviousTalks')
    <2> DEFINE named == list.new \cup list.moved
    <2>1. list # None
      BY NoneAssumption
    <2>2. /\ Reread(list).create = list.create
          /\ Reread(list).new \cup Reread(list).moved = named \cap DOMAIN wip'
      BY <2>1, RereadFacts
    <2>3. CASE list.create
      BY <2>2, <2>3 DEF Names
    <2>4. CASE ~list.create
      <3>1. named \subseteq {w[1] : w \in Showing(wip)}
            /\ {r[1] : r \in named} = {t[1] : t \in ScheduledTalks(wip) \ PreviousTalks}
        BY <2>4, <1>3 DEF Names
      <3>2. {w[1] : w \in Showing(wip')} \subseteq DOMAIN wip'
        BY DEF Showing
      <3>3. named \cap DOMAIN wip' = named
        BY <3>1, <3>2
      <3>4. named \subseteq {w[1] : w \in Showing(wip')}
            /\ {r[1] : r \in named} = {t[1] : t \in ScheduledTalks(wip') \ PreviousTalks'}
        BY <3>1, <1>1
      <3> HIDE DEF named
      <3> QED
        BY <3>3, <3>4, <2>2 DEF Names
    <2> QED
      BY <2>3, <2>4
  <1> QED
    BY <1>1, <1>2, <1>3, ChangedMeans

LEMMA SameComparison ==
    ASSUME UNCHANGED vars
    PROVE  /\ HasChanges' = HasChanges /\ releases' = releases /\ wip' = wip
           /\ PreviousTalks' = PreviousTalks
  BY DEF vars, HasChanges, ScheduledTalks, CurrentSchedule, PreviousTalks

LEMMA ReadingFacts ==
    ASSUME CacheTypes, NEW r \in Readers, reading[r] # None
    PROVE  reading[r] \in Reading /\ reading[r].list \in List /\ reading[r].list # None
  <1>1. reading[r] \in Reading
    BY DEF CacheTypes
  <1> QED
    BY <1>1, NoneAssumption DEF Reading

LEMMA ReviewedFacts ==
    ASSUME NEW has \in Reading
    PROVE  /\ Reviewed(has) \in Reading
           /\ Reviewed(has).list = Reread(has.list)
           /\ Reviewed(has).released = has.released
  <1>1. has.list \in List /\ has.list # None
    BY NoneAssumption DEF Reading
  <1>2. PICK list : list = Reread(has.list) /\ list \in List
    BY <1>1, RereadFacts
  <1>3. Reviewed(has) = [has EXCEPT !.list = list]
    BY <1>2 DEF Reviewed
  <1> QED
    BY <1>2, <1>3 DEF Reading

LEMMA WrittenFacts ==
    ASSUME NEW has \in Reading
    PROVE  /\ Written(has) \in Reading
           /\ Written(has).list = has.list
           /\ Written(has).released = has.released
  BY DEF Reading, Written

LEMMA OutdatedFacts ==
    ASSUME NEW has \in Reading
    PROVE  Outdated(has) \in Reading /\ Outdated(has).released
  BY DEF Reading, Outdated

\* Steps that change proposals and slots.
LEMMA ChangesKeepInv ==
    ASSUME IndInv, CacheInv, [Next]_vars, NEW sent \in BOOLEAN, Changes(sent),
           EditorNext \/ EventNext \/ \E s \in Submissions : FormNext(s) \/ DecisionNext(s)
    PROVE  CacheInv'
  <1>1. releases' = <<>> <=> releases = <<>>
    BY SameVersions
  <1>2. listed' = Reread(listed) /\ indicator' = indicator
        /\ queued' = (queued \/ sent) /\ suspect' \in BOOLEAN
        /\ (~suspect' => ~suspect) /\ (~queued' => ~queued)
    BY DEF Changes, CacheInv, CacheTypes
  <1>3. ~suspect' /\ ~queued' =>
          /\ HasChanges' = HasChanges
          /\ \A list \in List : Names(list, wip, PreviousTalks) =>
                                  Names(Reread(list), wip', PreviousTalks')
    <2>1. ~suspect' /\ ~queued' => Showing(wip') = Showing(wip) /\ PreviousTalks' = PreviousTalks
      BY DEF Changes
    <2> QED
      BY <2>1, QuietChange
  <1>4. ASSUME NEW r \in Readers
        PROVE  /\ reading'[r] \in Reading \cup {None}
               /\ reading'[r] = None <=> reading[r] = None
               /\ reading[r] # None =>
                     /\ reading'[r].released = reading[r].released
                     /\ reading'[r].list.create = reading[r].list.create
                     /\ reading'[r].list.changed = reading[r].list.changed
    <2>1. CASE reading[r] = None
      BY <2>1 DEF Changes
    <2>2. CASE reading[r] # None
      <3>1. reading[r] \in Reading /\ reading[r].list \in List /\ reading[r].list # None
        BY <2>2, ReadingFacts DEF CacheInv
      <3>2. reading'[r] = Reviewed(reading[r])
        BY <2>2 DEF Changes
      <3>3. Reread(reading[r].list) \in List
            /\ Reread(reading[r].list).create = reading[r].list.create
            /\ Reread(reading[r].list).changed = reading[r].list.changed
        BY <3>1, RereadFacts
      <3> QED
        BY <2>2, <3>1, <3>2, <3>3, NoneAssumption, ReviewedFacts
    <2> QED
      BY <2>1, <2>2
  <1>5. CacheTypes'
    <2>1. listed' \in List \cup {None}
      BY <1>2, RereadFacts DEF CacheInv, CacheTypes
    <2>2. reading' \in [Readers -> Reading \cup {None}]
      BY <1>4 DEF Changes
    <2> QED
      BY <2>1, <2>2, <1>2 DEF CacheTypes, CacheInv
  <1>6. listed' # None => listed # None /\ listed'.create = listed.create
                                        /\ listed'.changed = listed.changed
    BY <1>2, RereadFacts DEF CacheInv, CacheTypes
  <1>7. Settled' => Settled /\ HasChanges' = HasChanges
    BY <1>2, <1>3, <1>4 DEF Settled, Idle
  <1>8. listed' # None => SameVersion(listed)'
    BY <1>1, <1>6 DEF CacheInv, SameVersion
  <1>9. ~suspect' /\ ~queued' /\ listed' # None /\ Fits(listed) => Fits(listed)'
    <2> SUFFICES ASSUME ~suspect', ~queued', listed' # None, Fits(listed) PROVE Fits(listed)'
      OBVIOUS
    <2>1. listed \in List
      BY <1>6 DEF CacheInv, CacheTypes
    <2>2. Names(listed', wip', PreviousTalks')
      BY <2>1, <1>2, <1>3 DEF Fits
    <2> QED
      BY <2>1, <2>2, <1>3, <1>6 DEF Fits
  <1>10. IndicatorRight'
    BY <1>2, <1>7 DEF CacheInv, IndicatorRight
  <1>11. ASSUME NEW r \in Readers, Pending(r)'
         PROVE  /\ Pending(r)
                /\ SameVersion(reading[r].list)'
                /\ ~suspect' => \A q \in Readers \ {r} : reading'[q] = None
                /\ ~suspect' /\ ~queued' =>
                      Fits(reading[r].list)' /\ (listed' # None => Fits(listed)')
    <2>1. Pending(r)
      BY <1>4, <1>11 DEF Pending
    <2>2. SameVersion(reading[r].list)'
      BY <1>1, <1>4, <2>1 DEF CacheInv, SameVersion, Pending
    <2>3. ~suspect' => \A q \in Readers \ {r} : reading'[q] = None
      BY <1>2, <1>4, <2>1 DEF CacheInv
    <2>4. ~suspect' /\ ~queued' /\ listed' # None => Fits(listed)'
      BY <1>2, <1>6, <1>9, <2>1 DEF CacheInv
    <2>5. ~suspect' /\ ~queued' => Fits(reading[r].list)'
      <3> SUFFICES ASSUME ~suspect', ~queued' PROVE Fits(reading[r].list)'
        OBVIOUS
      <3>1. Fits(reading[r].list) /\ reading[r].list \in List /\ reading[r] # None
        BY <1>2, <2>1, ReadingFacts DEF CacheInv, Pending
      <3>2. reading'[r].list = Reread(reading[r].list)
        BY <3>1, ReadingFacts, ReviewedFacts DEF Changes, CacheInv
      <3>3. Names(reading'[r].list, wip', PreviousTalks')
        BY <3>1, <3>2, <1>3 DEF Fits
      <3> QED
        BY <3>1, <3>3, <1>3, <1>4 DEF Fits
    <2> QED
      BY <2>1, <2>2, <2>3, <2>4, <2>5
  <1>12. Settled' /\ listed' # None => Fits(listed)'
    BY <1>6, <1>7, <1>9 DEF CacheInv, Settled
  <1> QED
    BY <1>5, <1>8, <1>10, <1>11, <1>12 DEF CacheInv

\* A reader begins with a list that is right, if anything is.
LEMMA BeginKeepsInv ==
    ASSUME CacheInv, NEW r \in Readers, NEW list \in List, reading[r] = None,
           NEW stored \in BOOLEAN,
           reading' = [reading EXCEPT ![r] = [list |-> list, stored |-> stored, released |-> FALSE]],
           UNCHANGED <<vars, indicator>>,
           queued' \in BOOLEAN, suspect' \in BOOLEAN, listed' \in {listed, None},
           SameVersion(list), Overlap => suspect',
           ~suspect' /\ ~queued' => Fits(list) /\ (listed' # None => Fits(listed))
    PROVE  CacheInv'
  <1>1. /\ HasChanges' = HasChanges /\ releases' = releases
        /\ wip' = wip /\ PreviousTalks' = PreviousTalks
    BY SameComparison
  <1>2. /\ reading'[r] = [list |-> list, stored |-> stored, released |-> FALSE]
        /\ \A q \in Readers \ {r} : reading'[q] = reading[q]
        /\ [list |-> list, stored |-> stored, released |-> FALSE] \in Reading
    BY DEF CacheInv, CacheTypes, Reading
  <1>3. CacheTypes'
    BY <1>2 DEF CacheInv, CacheTypes
  <1>4. ~Settled'
    BY <1>2, NoneAssumption DEF Settled, Idle
  <1>5. listed' # None => listed' = listed /\ SameVersion(listed)'
    BY <1>1 DEF CacheInv, SameVersion
  <1>6. ASSUME NEW q \in Readers, Pending(q)'
        PROVE  /\ SameVersion(reading[q].list)'
               /\ ~suspect' => \A p \in Readers \ {q} : reading'[p] = None
               /\ ~suspect' /\ ~queued' =>
                     Fits(reading[q].list)' /\ (listed' # None => Fits(listed)')
    <2>1. CASE q = r
      BY <2>1, <1>1, <1>2, <1>5 DEF SameVersion, Fits, Overlap
    <2>2. CASE q # r
      BY <2>2, <1>1, <1>2, <1>6 DEF CacheInv, Pending, SameVersion, Overlap
    <2> QED
      BY <2>1, <2>2
  <1> QED
    BY <1>3, <1>4, <1>5, <1>6 DEF CacheInv, IndicatorRight

LEMMA ComputeKeepsInv ==
    ASSUME CacheInv, NEW r \in Readers, Compute(r), listed' = None, queued' \in BOOLEAN
    PROVE  CacheInv'
  <1>1. PICK list \in ChangesOf(wip) :
           reading' = [reading EXCEPT ![r] = [list |-> list, stored |-> FALSE, released |-> FALSE]]
    BY DEF Compute, Begin
  <1>2. UNCHANGED <<vars, indicator>> /\ reading[r] = None /\ suspect' = Overlap
    BY DEF Compute, Begin
  <1>3. suspect' \in BOOLEAN
    BY <1>2 DEF Overlap
  <1> QED
    BY <1>1, <1>2, <1>3, ComputedFacts, BeginKeepsInv

LEMMA ShowIndicatorKeepsInv ==
    ASSUME CacheInv, NEW r \in Readers, ShowIndicator(r)
    PROVE  CacheInv'
  <1>1. /\ reading' = [reading EXCEPT ![r] = [list |-> listed, stored |-> TRUE, released |-> FALSE]]
        /\ UNCHANGED <<vars, indicator>> /\ reading[r] = None /\ listed # None
        /\ suspect' = (suspect \/ Overlap) /\ listed' = listed /\ queued' = queued
    BY DEF ShowIndicator, Begin
  <1>2. listed \in List /\ SameVersion(listed) /\ suspect' \in BOOLEAN /\ queued' \in BOOLEAN
    BY <1>1 DEF CacheInv, CacheTypes, Overlap
  <1>3. ~suspect' /\ ~queued' => Fits(listed)
    BY <1>1 DEF CacheInv, Settled, Idle, Overlap
  <1> QED
    BY <1>1, <1>2, <1>3, BeginKeepsInv

LEMMA StoreListKeepsInv ==
    ASSUME CacheInv, NEW r \in Readers, StoreList(r)
    PROVE  CacheInv'
  <1>1. /\ UNCHANGED <<vars, indicator, queued, suspect>> /\ reading[r] # None
        /\ reading' = [reading EXCEPT ![r] = Written(@)]
        /\ listed' = IF reading[r].released THEN listed ELSE reading[r].list
    BY DEF StoreList
  <1>2. /\ HasChanges' = HasChanges /\ releases' = releases
        /\ wip' = wip /\ PreviousTalks' = PreviousTalks
    BY <1>1, SameComparison
  <1>3. reading[r] \in Reading /\ reading[r].list \in List /\ reading[r].list # None
        /\ reading[r].released \in BOOLEAN
    BY <1>1, ReadingFacts DEF CacheInv, Reading
  <1>4. /\ reading'[r] = Written(reading[r])
        /\ \A q \in Readers \ {r} : reading'[q] = reading[q]
    BY <1>1 DEF CacheInv, CacheTypes
  <1>5. reading'[r] \in Reading /\ reading'[r].list = reading[r].list
        /\ reading'[r].released = reading[r].released
    BY <1>3, <1>4, WrittenFacts
  <1>6. CacheTypes'
    BY <1>1, <1>3, <1>4, <1>5 DEF CacheInv, CacheTypes
  <1>7. listed' # None => SameVersion(listed)'
    BY <1>1, <1>2, <1>3 DEF CacheInv, SameVersion, Pending
  <1>8. ~Settled'
    BY <1>5, NoneAssumption DEF Settled, Idle
  <1>9. ASSUME NEW q \in Readers, Pending(q)'
        PROVE  /\ SameVersion(reading[q].list)'
               /\ ~suspect' => \A p \in Readers \ {q} : reading'[p] = None
               /\ ~suspect' /\ ~queued' =>
                     Fits(reading[q].list)' /\ (listed' # None => Fits(listed)')
    <2>1. Pending(q) /\ reading'[q].list = reading[q].list
      BY <1>1, <1>4, <1>5, <1>9 DEF Pending
    <2>2. SameVersion(reading[q].list)'
      BY <2>1, <1>2 DEF CacheInv, SameVersion
    <2>3. CASE q = r
      BY <2>1, <2>2, <2>3, <1>1, <1>2, <1>3, <1>4 DEF CacheInv, Fits, Pending
    <2>4. CASE q # r
      BY <2>1, <2>2, <2>4, <1>1, <1>2, <1>3, <1>4, <1>5, NoneAssumption DEF CacheInv, Fits
    <2> QED
      BY <2>3, <2>4
  <1> QED
    BY <1>6, <1>7, <1>8, <1>9 DEF CacheInv, IndicatorRight

LEMMA StoreIndicatorKeepsInv ==
    ASSUME CacheInv, NEW r \in Readers, StoreIndicator(r)
    PROVE  CacheInv'
  <1>1. /\ UNCHANGED <<vars, listed, queued>> /\ reading[r] # None
        /\ reading' \in {reading, [reading EXCEPT ![r] = None]}
        /\ indicator' = HasListed(reading[r].list, IF reading[r].released THEN releases[1] ELSE wip)
        /\ suspect' = (suspect \/ reading[r].released)
    BY DEF StoreIndicator
  <1>2. /\ HasChanges' = HasChanges /\ releases' = releases
        /\ wip' = wip /\ PreviousTalks' = PreviousTalks
    BY <1>1, SameComparison
  <1>3. reading[r] \in Reading /\ reading[r].released \in BOOLEAN
    BY <1>1, ReadingFacts DEF CacheInv, Reading
  <1>4. /\ reading' \in [Readers -> Reading \cup {None}]
        /\ \A q \in Readers : reading'[q] = reading[q] \/ reading'[q] = None
    BY <1>1 DEF CacheInv, CacheTypes
  <1>5. CacheTypes'
    BY <1>1, <1>3, <1>4 DEF CacheInv, CacheTypes
  <1>6. listed' # None => SameVersion(listed)'
    BY <1>1, <1>2 DEF CacheInv, SameVersion
  <1>7. ~suspect' /\ ~queued' =>
          /\ Fits(reading[r].list) /\ SameVersion(reading[r].list)
          /\ listed' # None => Fits(listed)
          /\ indicator' = HasListed(reading[r].list, wip)
    BY <1>1, <1>3 DEF CacheInv, Pending
  <1>8. Settled' => (listed' # None => Fits(listed)') /\ IndicatorRight'
    BY <1>1, <1>2, <1>7 DEF Settled, Fits, SameVersion, HasListed, HasChanges, IndicatorRight
  <1>9. ASSUME NEW q \in Readers, Pending(q)'
        PROVE  /\ SameVersion(reading[q].list)'
               /\ ~suspect' => \A p \in Readers \ {q} : reading'[p] = None
               /\ ~suspect' /\ ~queued' =>
                     Fits(reading[q].list)' /\ (listed' # None => Fits(listed)')
    <2>1. Pending(q) /\ reading'[q] = reading[q]
      BY <1>4, <1>9 DEF Pending
    <2> QED
      BY <2>1, <1>1, <1>2, <1>4 DEF CacheInv, SameVersion, Fits
  <1> QED
    BY <1>5, <1>6, <1>8, <1>9 DEF CacheInv, IndicatorRight

LEMMA ForgetKeepsInv ==
    ASSUME CacheInv, Forget
    PROVE  CacheInv'
  <1>1. /\ UNCHANGED <<vars, reading, queued, suspect>>
        /\ listed' = listed \/ listed' = None
        /\ indicator' = indicator \/ indicator' = None
    BY DEF Forget
  <1>2. /\ HasChanges' = HasChanges /\ releases' = releases
        /\ wip' = wip /\ PreviousTalks' = PreviousTalks
    BY <1>1, SameComparison
  <1> QED
    BY <1>1, <1>2 DEF CacheInv, CacheTypes, Settled, Idle, IndicatorRight, SameVersion,
       Fits, Pending

LEMMA LoseTaskKeepsInv ==
    ASSUME CacheInv, LoseTask
    PROVE  CacheInv'
  <1>1. /\ UNCHANGED <<vars, listed, indicator>> /\ suspect' = TRUE /\ queued' \in BOOLEAN
        /\ reading' \in [Readers -> Reading \cup {None}]
        /\ \A q \in Readers : reading'[q] = reading[q] \/ reading'[q] = None
    BY DEF LoseTask, CacheInv, CacheTypes
  <1>2. /\ HasChanges' = HasChanges /\ releases' = releases
        /\ wip' = wip /\ PreviousTalks' = PreviousTalks
    BY <1>1, SameComparison
  <1> QED
    BY <1>1, <1>2 DEF CacheInv, CacheTypes, Settled, IndicatorRight, SameVersion, Pending

LEMMA SendEarlyKeepsInv ==
    ASSUME CacheInv, SendEarly
    PROVE  CacheInv'
  <1>1. UNCHANGED <<vars, listed, indicator, reading, suspect>> /\ queued' = TRUE
    BY DEF SendEarly
  <1>2. HasChanges' = HasChanges /\ releases' = releases
    BY <1>1, SameComparison
  <1> QED
    BY <1>1, <1>2 DEF CacheInv, CacheTypes, Settled, IndicatorRight, SameVersion, Pending

\* A release starts the caches afresh, and marks the computations under way.
LEMMA ReleaseKeepsInv ==
    ASSUME IndInv, CacheInv, Release
    PROVE  CacheInv'
  <1>1. /\ FreezeSchedule /\ listed' = None /\ indicator' = FALSE /\ suspect' = FALSE
        /\ queued' = queued
        /\ reading' = [r \in Readers |-> IF reading[r] = None THEN None
                                         ELSE Outdated(reading[r])]
    BY DEF Release
  <1>2. ~HasChanges'
    BY <1>1, ReleaseLeavesNothing
  <1>3. ASSUME NEW r \in Readers
        PROVE  reading'[r] \in Reading \cup {None} /\ ~Pending(r)'
    <2>1. CASE reading[r] = None
      BY <2>1, <1>1 DEF Pending
    <2>2. CASE reading[r] # None
      <3>1. reading[r] \in Reading /\ reading'[r] = Outdated(reading[r])
        BY <2>2, <1>1, ReadingFacts DEF CacheInv
      <3> QED
        BY <3>1, OutdatedFacts DEF Pending
    <2> QED
      BY <2>1, <2>2
  <1>4. CacheTypes'
    BY <1>1, <1>3 DEF CacheInv, CacheTypes
  <1>5. IndicatorRight'
    BY <1>1, <1>2, NoneAssumption DEF IndicatorRight, HasChanges
  <1> QED
    BY <1>1, <1>3, <1>4, <1>5 DEF CacheInv

LEMMA CacheNextInv == IndInv /\ CacheInv /\ [ChangesNext]_changesVars => CacheInv'
  <1> SUFFICES ASSUME IndInv, CacheInv, [ChangesNext]_changesVars PROVE CacheInv'
    OBVIOUS
  <1>0. [Next]_vars
    BY ChangesStepIsStep
  <1>1. ASSUME NEW s \in Submissions, SubmitForm(s)
        PROVE  CacheInv'
    BY <1>0, <1>1, ChangesKeepInv DEF SubmitForm
  <1>2. ASSUME NEW s \in Submissions, Decision(s)
        PROVE  CacheInv'
    BY <1>0, <1>2, ChangesKeepInv DEF Decision
  <1>3. CASE EditSlot
    BY <1>0, <1>3, ChangesKeepInv DEF EditSlot
  <1>6. CASE MoveDates
    BY <1>0, <1>6, ChangesKeepInv DEF MoveDates
  <1>4. ASSUME NEW r \in Readers, OpenPage(r) \/ RunTask(r)
        PROVE  CacheInv'
    BY <1>4, ComputeKeepsInv DEF OpenPage, RunTask, CacheInv, CacheTypes
  <1>5. CASE UNCHANGED changesVars
    <2>1. /\ HasChanges' = HasChanges /\ releases' = releases
        /\ wip' = wip /\ PreviousTalks' = PreviousTalks
      BY <1>5, SameComparison DEF changesVars
    <2> QED
      BY <1>5, <2>1 DEF changesVars, cacheVars, CacheInv, CacheTypes, Settled, Idle,
         IndicatorRight, SameVersion, Fits, Pending
  <1> QED
    BY <1>1, <1>2, <1>3, <1>4, <1>5, <1>6, StoreListKeepsInv, StoreIndicatorKeepsInv,
       ShowIndicatorKeepsInv, ForgetKeepsInv, LoseTaskKeepsInv, SendEarlyKeepsInv, ReleaseKeepsInv DEF ChangesNext

\* The cached indicator of unreleased changes is right whenever the tasks are
\* done, for any number of pages and workers that compute it; unless the change
\* was one that sends no task, as decisions and edits of the event's dates are.
THEOREM IndicatorAlwaysRight == ChangesSpec => []IndicatorRight
  <1>1. ChangesInit => CacheInv
    BY DEF ChangesInit, CacheInv, CacheTypes, IndicatorRight, Pending
  <1>2. ChangesSpec => []IndInv
    BY ChangesImplementsRelease, Invariance
  <1>3. CacheInv => IndicatorRight
    BY DEF CacheInv
  <1> QED
    BY <1>1, <1>2, <1>3, CacheNextInv, PTL DEF ChangesSpec

\* The mails of a release, from a list that still stands for what it publishes.
LEMMA ReleaseNotifies ==
    ASSUME IndInv, CacheInv, Release, mailed' # None, Reliable
    PROVE  IF releases = <<>> THEN News \subseteq mailed' ELSE mailed' = News
  <1>1. PICK list \in ListOfRelease : mailed' = Concerned(list, Frozen)
    BY DEF Release
  <1>2. SameVersion(list) /\ list.create \in BOOLEAN
        /\ Names(list, Frozen, PreviousTalks)
    <2>1. CASE listed # None
      <3>1. list = listed /\ Settled /\ Showing(Frozen) = Showing(wip)
        BY <2>1, <1>1 DEF ListOfRelease, Reliable
      <3>2. listed \in List /\ SameVersion(listed) /\ Names(listed, wip, PreviousTalks)
        BY <2>1, <3>1 DEF CacheInv, CacheTypes, Fits
      <3>3. ScheduledTalks(Frozen) = ScheduledTalks(wip)
        BY <3>1, ShowingTalks
      <3> QED
        BY <3>1, <3>2, <3>3 DEF Names, List
    <2>2. CASE listed = None
      BY <2>2, <1>1, ComparedFacts DEF ListOfRelease, List
    <2> QED
      BY <2>1, <2>2
  <1>3. News = {t[1] : t \in ScheduledTalks(Frozen) \ PreviousTalks}
    BY ReleasedTalks DEF Release, News
  <1>4. CASE releases = <<>>
    <2>1. mailed' = {r[1] : r \in {q \in DOMAIN Frozen \cap TalkRows :
                                      Frozen[q].start # Null /\ Frozen[q].room # Null}}
      BY <1>1, <1>2, <1>4 DEF Concerned, SameVersion
    <2>2. ASSUME NEW t \in ScheduledTalks(Frozen)
          PROVE  t[1] \in mailed'
      <3>1. PICK r \in DOMAIN Frozen \cap TalkRows :
               /\ Frozen[r].room # Null /\ Frozen[r].start # Null
               /\ t = <<r[1], Frozen[r].start, Frozen[r].room>>
        BY <2>2 DEF ScheduledTalks
      <3>2. t[1] = r[1]
        BY <3>1
      <3> HIDE DEF Frozen
      <3> QED
        BY <2>1, <3>1, <3>2
    <2> QED
      BY <1>3, <1>4, <2>2
  <1>5. CASE releases # <<>>
    <2>1. ~list.create
      BY <1>2, <1>5 DEF SameVersion
    <2> QED
      BY <1>1, <1>2, <1>3, <1>5, <2>1 DEF Concerned, Names
  <1> QED
    BY <1>4, <1>5

\* A release mails speakers exactly about the sessions that are new or have
\* moved, for any number of sessions, slots and releases.
THEOREM SpeakersNotified == ChangesSpec => NotifiesExactly
  <1>1. IndInv /\ CacheInv /\ [ChangesNext]_changesVars =>
          [mailed' # None /\ Reliable =>
             IF releases = <<>> THEN News \subseteq mailed' ELSE mailed' = News]_changesVars
    <2> SUFFICES ASSUME IndInv, CacheInv, ChangesNext, mailed' # None, Reliable
                 PROVE  IF releases = <<>> THEN News \subseteq mailed' ELSE mailed' = News
      OBVIOUS
    <2>1. Release
      BY DEF ChangesNext, SubmitForm, Decision, EditSlot, MoveDates, SendEarly, Changes, OpenPage,
         ShowIndicator, RunTask, Compute, Begin, StoreList, StoreIndicator, Forget, LoseTask
    <2> QED
      BY <2>1, ReleaseNotifies
  <1>2. ChangesInit => CacheInv
    BY DEF ChangesInit, CacheInv, CacheTypes, IndicatorRight, Pending
  <1>3. ChangesSpec => []IndInv
    BY ChangesImplementsRelease, Invariance
  <1> QED
    BY <1>1, <1>2, <1>3, CacheNextInv, PTL DEF ChangesSpec, NotifiesExactly

-----------------------------------------------------------------------------
(* What the cache and the readers hold.                                    *)

SlotsOf(list) == list.new \cup list.moved

\* What a list names exists, in the cache and in the hands of the readers that
\* have still to write their list there.
ListsExist ==
    /\ listed # None => SlotsOf(listed) \subseteq DOMAIN wip
    /\ \A r \in Readers : Pending(r) => SlotsOf(reading[r].list) \subseteq DOMAIN wip

\* A comparison finds slots of the schedule it is made for.
LEMMA ComparedExist ==
    ASSUME NEW sch, NEW list \in ChangesOf(sch)
    PROVE  SlotsOf(list) \subseteq DOMAIN sch
  <1>1. CASE releases = <<>>
    <2>1. list.new = {} /\ list.moved = {}
      BY <1>1 DEF ChangesOf
    <2> QED
      BY <2>1 DEF SlotsOf
  <1>2. CASE releases # <<>>
    <2>1. SameVersion(list) /\ Names(list, sch, PreviousTalks)
      BY ComparedFacts
    <2>2. SlotsOf(list) \subseteq {w[1] : w \in Showing(sch)}
      BY <1>2, <2>1 DEF SameVersion, Names, SlotsOf
    <2> QED
      BY <2>2 DEF Showing
  <1> QED
    BY <1>1, <1>2

\* Slots that go are dropped from every list there is.
LEMMA ChangesKeepLists ==
    ASSUME CacheInv, CacheInv', NEW sent \in BOOLEAN, Changes(sent)
    PROVE  ListsExist'
  <1>1. ASSUME NEW list \in List
        PROVE  Reread(list) # None => SlotsOf(Reread(list)) \subseteq DOMAIN wip'
    BY RereadFacts, NoneAssumption DEF SlotsOf
  <1>2. listed' # None => SlotsOf(listed') \subseteq DOMAIN wip'
    <2>1. listed' = Reread(listed) /\ listed \in List \cup {None}
      BY DEF Changes, CacheInv, CacheTypes
    <2>2. listed = None => listed' = None
      BY <2>1 DEF Reread
    <2> QED
      BY <1>1, <2>1, <2>2
  <1>3. ASSUME NEW r \in Readers, reading'[r] # None
        PROVE  SlotsOf(reading'[r].list) \subseteq DOMAIN wip'
    <2>1. reading[r] # None /\ reading'[r] = Reviewed(reading[r])
      BY <1>3 DEF Changes
    <2>2. reading[r] \in Reading /\ reading[r].list \in List /\ reading[r].list # None
      BY <2>1, ReadingFacts DEF CacheInv
    <2>3. reading'[r].list = Reread(reading[r].list) /\ Reread(reading[r].list) # None
      BY <2>1, <2>2, ReviewedFacts, RereadFacts
    <2> QED
      BY <1>1, <2>2, <2>3
  <1> QED
    BY <1>2, <1>3 DEF ListsExist, Pending

\* A reader that begins with a list of existing slots.
LEMMA BeginKeepsLists ==
    ASSUME CacheInv, ListsExist, NEW r \in Readers, NEW lists, NEW stored \in BOOLEAN,
           Begin(r, lists, stored), listed' \in {listed, None},
           \A list \in lists : SlotsOf(list) \subseteq DOMAIN wip
    PROVE  ListsExist'
  <1>1. PICK list \in lists :
           reading' = [reading EXCEPT ![r] = [list |-> list, stored |-> stored, released |-> FALSE]]
    BY DEF Begin
  <1>2. wip' = wip
    BY DEF Begin, vars
  <1>3. /\ reading'[r].list = list
        /\ \A q \in Readers \ {r} : reading'[q] = reading[q]
    BY <1>1 DEF CacheInv, CacheTypes
  <1> QED
    BY <1>2, <1>3 DEF ListsExist, Pending

LEMMA ListsExistNext ==
    ASSUME IndInv, CacheInv, CacheInv', ListsExist, [ChangesNext]_changesVars
    PROVE  ListsExist'
  <1>1. ASSUME NEW s \in Submissions, SubmitForm(s) \/ Decision(s)
        PROVE  ListsExist'
    BY <1>1, ChangesKeepLists DEF SubmitForm, Decision
  <1>2. CASE EditSlot \/ MoveDates
    BY <1>2, ChangesKeepLists DEF EditSlot, MoveDates
  <1>3. ASSUME NEW r \in Readers, OpenPage(r) \/ RunTask(r)
        PROVE  ListsExist'
    <2>1. Begin(r, ChangesOf(wip), FALSE) /\ listed' \in {listed, None}
      BY <1>3 DEF OpenPage, RunTask, Compute
    <2> QED
      BY <2>1, ComparedExist, BeginKeepsLists
  <1>4. ASSUME NEW r \in Readers, ShowIndicator(r)
        PROVE  ListsExist'
    <2> DEFINE lists == {listed}
    <2>1. Begin(r, lists, TRUE) /\ listed' \in {listed, None} /\ listed # None
      BY <1>4 DEF ShowIndicator
    <2>2. \A list \in lists : SlotsOf(list) \subseteq DOMAIN wip
      BY <2>1 DEF ListsExist
    <2> HIDE DEF lists
    <2> QED
      BY <2>1, <2>2, BeginKeepsLists
  <1>5. ASSUME NEW r \in Readers, StoreList(r)
        PROVE  ListsExist'
    <2>1. /\ wip' = wip /\ reading[r] # None
          /\ reading' = [reading EXCEPT ![r] = Written(@)]
          /\ listed' = IF reading[r].released THEN listed ELSE reading[r].list
      BY <1>5 DEF StoreList, vars
    <2>2. reading[r] \in Reading /\ reading[r].released \in BOOLEAN
      BY <2>1, ReadingFacts DEF CacheInv, Reading
    <2>3. /\ reading'[r].list = reading[r].list
          /\ reading'[r].released = reading[r].released
          /\ \A q \in Readers \ {r} : reading'[q] = reading[q]
      BY <2>1, <2>2, WrittenFacts DEF CacheInv, CacheTypes
    <2> QED
      BY <2>1, <2>2, <2>3 DEF ListsExist, Pending
  <1>6. ASSUME /\ wip' = wip /\ listed' \in {listed, None}
               /\ \A r \in Readers : reading'[r] = reading[r] \/ reading'[r] = None
        PROVE  ListsExist'
    BY <1>6 DEF ListsExist, Pending
  <1>7. ASSUME NEW r \in Readers, StoreIndicator(r)
        PROVE  ListsExist'
    BY <1>6, <1>7 DEF StoreIndicator, vars, CacheInv, CacheTypes
  <1>8. CASE SendEarly \/ Forget \/ LoseTask \/ UNCHANGED changesVars
    BY <1>6, <1>8 DEF SendEarly, Forget, LoseTask, changesVars, cacheVars, vars, CacheInv, CacheTypes
  <1>9. CASE Release
    <2>1. /\ listed' = None
          /\ reading' = [r \in Readers |-> IF reading[r] = None THEN None
                                           ELSE Outdated(reading[r])]
      BY <1>9 DEF Release
    <2>2. \A r \in Readers : ~Pending(r)'
      BY <2>1, ReadingFacts, OutdatedFacts DEF Pending, CacheInv
    <2> QED
      BY <2>1, <2>2 DEF ListsExist
  <1> QED
    BY <1>1, <1>2, <1>3, <1>4, <1>5, <1>7, <1>8, <1>9 DEF ChangesNext

\* The indicator in the cache is an answer, and mails are about sessions.
LEMMA AnswersNext ==
    ASSUME CacheInv, indicator \in BOOLEAN \cup {None}, mailed # None => mailed \subseteq Submissions,
           [ChangesNext]_changesVars
    PROVE  /\ indicator' \in BOOLEAN \cup {None}
           /\ mailed' # None => mailed' \subseteq Submissions
  <1>1. CASE Release
    <2>1. ASSUME NEW list \in ListOfRelease
          PROVE  Concerned(list, Frozen) \subseteq Submissions
      <3>1. list \in List
        BY ComparedFacts DEF ListOfRelease, CacheInv, CacheTypes
      <3>2. list.new \subseteq TalkRows /\ list.moved \subseteq TalkRows
        BY <3>1 DEF List
      <3>3. \A q \in TalkRows : q[1] \in Submissions
        BY DEF TalkRows
      <3> HIDE DEF Frozen
      <3> QED
        BY <3>2, <3>3 DEF Concerned
    <2> QED
      BY <1>1, <2>1 DEF Release
  <1>2. ASSUME NEW r \in Readers, StoreIndicator(r)
        PROVE  indicator' \in BOOLEAN /\ mailed' = None
    <2>1. reading[r].list \in List
      BY <1>2, ReadingFacts DEF StoreIndicator, CacheInv
    <2>2. reading[r].list.changed \in BOOLEAN
      BY <2>1 DEF List
    <2> QED
      BY <1>2, <2>2 DEF StoreIndicator, HasListed
  <1>3. CASE ~Release /\ ~\E r \in Readers : StoreIndicator(r)
    <2>1. /\ indicator' \in {indicator, None}
          /\ mailed' = None \/ mailed' = mailed
      BY <1>3 DEF ChangesNext, SubmitForm, Decision, EditSlot, MoveDates, SendEarly, Changes, OpenPage,
         ShowIndicator, RunTask, Compute, Begin, StoreList, Forget, LoseTask, changesVars, cacheVars
    <2> QED
      BY <2>1
  <1> QED
    BY <1>1, <1>2, <1>3

\* Caches and readers hold what they are meant to hold, and no list in the
\* cache names a slot that is gone: whatever is deleted while pages and workers
\* compute, they look the slots up again before they use them.
THEOREM ChangesTypeCorrect == ChangesSpec => []ChangesTypeOK
  <1> DEFINE Inv == /\ CacheInv /\ ListsExist /\ indicator \in BOOLEAN \cup {None}
                    /\ mailed # None => mailed \subseteq Submissions
  <1>1. ChangesInit => Inv
    BY DEF ChangesInit, CacheInv, CacheTypes, IndicatorRight, Pending, ListsExist
  <1>2. IndInv /\ Inv /\ [ChangesNext]_changesVars => Inv'
    BY CacheNextInv, ListsExistNext, AnswersNext
  <1>3. ChangesSpec => []IndInv
    BY ChangesImplementsRelease, Invariance
  <1>4. Inv => ChangesTypeOK
    BY DEF ChangesTypeOK, CacheInv, CacheTypes, ListsExist, SlotsOf
  <1> QED
    BY <1>1, <1>2, <1>3, <1>4, PTL DEF ChangesSpec

-----------------------------------------------------------------------------
(* Comparisons always have an answer.                                      *)

\* A session has no more places in a schedule than it has rows.
LEMMA PlacesFinite ==
    ASSUME NEW sch, NEW s \in Submissions
    PROVE  IsFiniteSet(Of(ScheduledTalks(sch), s))
  <1> DEFINE R == {q \in DOMAIN sch \cap TalkRows : /\ sch[q].room # Null /\ sch[q].start # Null
                                                    /\ sch[q].is_visible /\ q[1] = s}
             f == [r \in R |-> <<r[1], sch[r].start, sch[r].room>>]
  <1>1. R \subseteq RowsOf(s)
    BY RowFacts
  <1>2. f \in Surjection(R, Of(ScheduledTalks(sch), s))
    <2> DEFINE Talks == Of(ScheduledTalks(sch), s)
    <2>1. \A r \in R : f[r] \in Talks
      BY DEF Of, ScheduledTalks
    <2>2. \A t \in Talks : \E r \in R : f[r] = t
      BY DEF Of, ScheduledTalks
    <2>3. f \in [R -> Talks]
      BY <2>1
    <2> HIDE DEF R, f, Talks
    <2> QED
      BY <2>2, <2>3 DEF Surjection, Talks
  <1>3. IsFiniteSet(R)
    BY <1>1, RowsFinite, FS_Subset
  <1> HIDE DEF R, f
  <1> QED
    BY <1>2, <1>3, FS_Surjection, Zenon

LEMMA PreviousFinite == ASSUME NEW s \in Submissions PROVE IsFiniteSet(Of(PreviousTalks, s))
  <1>1. CASE releases = <<>>
    <2>1. Of(PreviousTalks, s) = {}
      BY <1>1 DEF PreviousTalks, Of
    <2> QED
      BY <2>1, FS_EmptySet
  <1>2. CASE releases # <<>>
    BY <1>2, PlacesFinite DEF PreviousTalks
  <1> QED
    BY <1>1, <1>2

\* The row of a talk: its session and its place.
TalkAt(sch, r) == <<r[1], sch[r].start, sch[r].room>>
NewTalks(sch) == ScheduledTalks(sch) \ PreviousTalks
ShownRows(sch) == {w[1] : w \in Showing(sch)}

LEMMA ShownRowsAre ==
    ASSUME NEW sch
    PROVE  ShownRows(sch) = {r \in DOMAIN sch \cap TalkRows :
                               sch[r].room # Null /\ sch[r].start # Null /\ sch[r].is_visible}
  <1> DEFINE R == {r \in DOMAIN sch \cap TalkRows :
                     sch[r].room # Null /\ sch[r].start # Null /\ sch[r].is_visible}
             W(r) == <<r, sch[r].start, sch[r].room>>
  <1>1. Showing(sch) = {W(r) : r \in R}
    BY DEF Showing
  <1>2. \A r : W(r)[1] = r
    OBVIOUS
  <1> HIDE DEF R, W
  <1>3. {w[1] : w \in {W(r) : r \in R}} = R
    BY <1>2
  <1> QED
    BY <1>1, <1>3 DEF ShownRows, R

\* Rows that stand for the new talks of a schedule, one for each.
Stand(all, sch) ==
    /\ all \subseteq {r \in ShownRows(sch) : TalkAt(sch, r) \in NewTalks(sch)}
    /\ \A t \in NewTalks(sch) :
          \E r \in all : TalkAt(sch, r) = t /\ \A q \in all : TalkAt(sch, q) = t => q = r

\* There are as many of them, session by session, as there are new talks.
LEMMA StandCount ==
    ASSUME NEW sch, NEW all, Stand(all, sch), NEW s \in Submissions
    PROVE  /\ IsFiniteSet(all \cap RowsOf(s))
           /\ Cardinality(all \cap RowsOf(s)) = Cardinality(Of(NewTalks(sch), s))
  <1> DEFINE A == all \cap RowsOf(s)
             f == [r \in A |-> TalkAt(sch, r)]
  <1>1. IsFiniteSet(A)
    BY RowsFinite, FS_Subset
  <1>2. \A r \in A : f[r] \in Of(NewTalks(sch), s)
    BY RowFacts DEF Stand, Of, TalkAt
  <1>3. \A t \in Of(NewTalks(sch), s) : \E r \in A : f[r] = t
    <2> SUFFICES ASSUME NEW t \in NewTalks(sch), t[1] = s PROVE \E r \in A : f[r] = t
      BY DEF Of
    <2>1. PICK r \in all : TalkAt(sch, r) = t
      BY DEF Stand
    <2>2. r \in TalkRows /\ r[1] = s
      BY <2>1, ShownRowsAre DEF Stand, TalkAt
    <2> QED
      BY <2>1, <2>2, RowFacts
  <1>4. \A r, q \in A : f[r] = f[q] => r = q
    <2> SUFFICES ASSUME NEW r \in A, NEW q \in A, TalkAt(sch, r) = TalkAt(sch, q) PROVE r = q
      OBVIOUS
    <2>1. TalkAt(sch, r) \in NewTalks(sch)
      BY DEF Stand
    <2> QED
      BY <2>1 DEF Stand
  <1>5. f \in Bijection(A, Of(NewTalks(sch), s))
    BY <1>2, <1>3, <1>4 DEF Bijection, Injection, Surjection, IsInjective
  <1>6. ExistsBijection(A, Of(NewTalks(sch), s))
    BY <1>5, Zenon DEF ExistsBijection
  <1> HIDE DEF A
  <1> QED
    BY <1>1, <1>6, FS_Bijection, Zenon DEF A

\* Each new talk has a row that stands for it.
LEMMA StandExists == ASSUME NEW sch PROVE \E all \in SUBSET ShownRows(sch) : Stand(all, sch)
  <1> DEFINE pick(t) == CHOOSE r \in ShownRows(sch) : TalkAt(sch, r) = t
             all == {pick(t) : t \in NewTalks(sch)}
  <1>1. \A t \in NewTalks(sch) : \E r \in ShownRows(sch) : TalkAt(sch, r) = t
    BY ShownRowsAre DEF NewTalks, ScheduledTalks, TalkAt
  <1>2. \A t \in NewTalks(sch) : pick(t) \in ShownRows(sch) /\ TalkAt(sch, pick(t)) = t
    BY <1>1
  <1> HIDE DEF pick
  <1>3. \A t \in NewTalks(sch) :
          pick(t) \in all /\ \A q \in all : TalkAt(sch, q) = t => q = pick(t)
    BY <1>2
  <1>4. \A r \in all : r \in ShownRows(sch) /\ TalkAt(sch, r) \in NewTalks(sch)
    BY <1>2
  <1> HIDE DEF all
  <1>5. Stand(all, sch)
    BY <1>2, <1>3, <1>4 DEF Stand
  <1> QED
    BY <1>4, <1>5

\* A moved slot stands for one place that is gone and one that is new.
MovedOf(sch, s) ==
    LET new == Cardinality(Of(NewTalks(sch), s))
        old == Cardinality(Of(PreviousTalks \ ScheduledTalks(sch), s))
    IN  IF new < old THEN new ELSE old

LEMMA MovedBound ==
    ASSUME NEW sch, NEW s \in Submissions
    PROVE  /\ MovedOf(sch, s) \in Nat
           /\ Cardinality(Of(NewTalks(sch), s)) \in Nat
           /\ MovedOf(sch, s) <= Cardinality(Of(NewTalks(sch), s))
  <1>1. /\ Of(NewTalks(sch), s) \subseteq Of(ScheduledTalks(sch), s)
        /\ Of(PreviousTalks \ ScheduledTalks(sch), s) \subseteq Of(PreviousTalks, s)
    BY DEF Of, NewTalks
  <1>2. /\ IsFiniteSet(Of(NewTalks(sch), s))
        /\ IsFiniteSet(Of(PreviousTalks \ ScheduledTalks(sch), s))
    BY <1>1, PlacesFinite, PreviousFinite, FS_Subset
  <1>3. /\ Cardinality(Of(NewTalks(sch), s)) \in Nat
        /\ Cardinality(Of(PreviousTalks \ ScheduledTalks(sch), s)) \in Nat
    BY <1>2, FS_CardinalityType
  <1> QED
    BY <1>3 DEF MovedOf

\* The slots that a comparison calls moved can be chosen, session by session.
LEMMA MovedExist ==
    ASSUME NEW sch, NEW all, Stand(all, sch)
    PROVE  \E moved \in SUBSET all :
              \A s \in Submissions : Cardinality(moved \cap RowsOf(s)) = MovedOf(sch, s)
  <1> DEFINE part(s) == CHOOSE T \in SUBSET (all \cap RowsOf(s)) : Cardinality(T) = MovedOf(sch, s)
             moved == UNION {part(s) : s \in Submissions}
  <1>1. ASSUME NEW s \in Submissions
        PROVE  \E T \in SUBSET (all \cap RowsOf(s)) : Cardinality(T) = MovedOf(sch, s)
    <2> DEFINE S == all \cap RowsOf(s)
    <2>1. IsFiniteSet(S) /\ MovedOf(sch, s) \in Nat /\ MovedOf(sch, s) <= Cardinality(S)
      BY StandCount, MovedBound
    <2> HIDE DEF S
    <2>2. \E T \in SUBSET S : Cardinality(T) = MovedOf(sch, s)
      BY <2>1, SubsetOfSize
    <2> QED
      BY <2>2 DEF S
  <1>2. \A s \in Submissions : part(s) \in SUBSET (all \cap RowsOf(s))
                               /\ Cardinality(part(s)) = MovedOf(sch, s)
    BY <1>1
  <1> HIDE DEF part
  <1>3. \A s \in Submissions : moved \cap RowsOf(s) = part(s)
    BY <1>2, RowFacts
  <1>4. moved \in SUBSET all
    BY <1>2
  <1> QED
    BY <1>2, <1>3, <1>4

\* A comparison in terms of the above: when a version was released, its list
\* names rows that stand for the new talks, as many moved as there are places gone.
ListFor(c, sch) ==
    [create |-> FALSE, changed |-> ScheduledTalks(sch) # PreviousTalks,
     new |-> c.all \ c.moved, moved |-> c.moved, lost |-> {}]

Choices(sch) ==
    {c \in [all : SUBSET {r \in ShownRows(sch) : TalkAt(sch, r) \in NewTalks(sch)},
            moved : SUBSET ShownRows(sch)] :
        /\ c.moved \subseteq c.all
        /\ \A t \in NewTalks(sch) :
              \E r \in c.all : TalkAt(sch, r) = t /\ \A q \in c.all : TalkAt(sch, q) = t => q = r
        /\ \A s \in Submissions : Cardinality(c.moved \cap RowsOf(s)) = MovedOf(sch, s)}

LEMMA ChangesAre ==
    ASSUME NEW sch, releases # <<>>
    PROVE  ChangesOf(sch) = {ListFor(c, sch) : c \in Choices(sch)}
  BY DEF ChangesOf, TalkAt, NewTalks, MovedOf, ShownRows, ListFor, Choices

LEMMA ChoicesAre ==
    ASSUME NEW sch, NEW all, NEW moved
    PROVE  [all |-> all, moved |-> moved] \in Choices(sch) <=>
             /\ Stand(all, sch) /\ moved \subseteq all
             /\ \A s \in Submissions : Cardinality(moved \cap RowsOf(s)) = MovedOf(sch, s)
  <1> DEFINE c == [all |-> all, moved |-> moved]
  <1>1. c.all = all /\ c.moved = moved
    OBVIOUS
  <1>2. ASSUME moved \subseteq all
        PROVE  c \in [all : SUBSET {r \in ShownRows(sch) : TalkAt(sch, r) \in NewTalks(sch)},
                      moved : SUBSET ShownRows(sch)]
               <=> all \subseteq {r \in ShownRows(sch) : TalkAt(sch, r) \in NewTalks(sch)}
    BY <1>2
  <1> HIDE DEF c
  <1> QED
    BY <1>1, <1>2 DEF Choices, Stand, c

\* Every comparison has an answer, so that no page, task or release waits for
\* one; and its list tells the sessions right in number: as many slots of a
\* session have moved as it has new places for old ones, the others are new
\* (calculate_schedule_changes, _handle_submission_move).
THEOREM ComparisonAnswers ==
    ASSUME NEW sch
    PROVE  /\ ChangesOf(sch) # {}
           /\ releases # <<>> =>
                \A list \in ChangesOf(sch), s \in Submissions :
                   /\ Cardinality(list.moved \cap RowsOf(s)) = MovedOf(sch, s)
                   /\ Cardinality(list.new \cap RowsOf(s))
                        = Cardinality(Of(NewTalks(sch), s)) - MovedOf(sch, s)
  <1>1. CASE releases = <<>>
    BY <1>1 DEF ChangesOf
  <1>2. CASE releases # <<>>
    <2>1. ChangesOf(sch) # {}
      <3>1. PICK all \in SUBSET ShownRows(sch) : Stand(all, sch)
        BY StandExists
      <3>2. PICK moved \in SUBSET all :
              \A s \in Submissions : Cardinality(moved \cap RowsOf(s)) = MovedOf(sch, s)
        BY <3>1, MovedExist
      <3>3. [all |-> all, moved |-> moved] \in Choices(sch)
        BY <3>1, <3>2, ChoicesAre
      <3> QED
        BY <1>2, <3>3, ChangesAre
    <2>2. ASSUME NEW list \in ChangesOf(sch), NEW s \in Submissions
          PROVE  /\ Cardinality(list.moved \cap RowsOf(s)) = MovedOf(sch, s)
                 /\ Cardinality(list.new \cap RowsOf(s))
                      = Cardinality(Of(NewTalks(sch), s)) - MovedOf(sch, s)
      <3>0. PICK c \in Choices(sch) : list = ListFor(c, sch)
        BY <1>2, <2>2, ChangesAre
      <3> DEFINE all == c.all
                 moved == c.moved
      <3>1. /\ list.new = all \ moved /\ list.moved = moved
            /\ moved \subseteq all /\ Stand(all, sch)
            /\ Cardinality(moved \cap RowsOf(s)) = MovedOf(sch, s)
        BY <3>0 DEF Choices, Stand, ListFor
      <3> HIDE DEF all, moved
      <3> DEFINE A == all \cap RowsOf(s)
                 M == moved \cap RowsOf(s)
      <3>2. IsFiniteSet(A) /\ Cardinality(A) = Cardinality(Of(NewTalks(sch), s))
        BY <3>1, StandCount
      <3>3. A \cap M = M /\ list.new \cap RowsOf(s) = A \ M /\ list.moved \cap RowsOf(s) = M
        BY <3>1
      <3>4. Cardinality(A \ M) = Cardinality(A) - Cardinality(A \cap M)
        BY <3>2, FS_Difference
      <3> QED
        BY <3>1, <3>2, <3>3, <3>4
    <2> QED
      BY <2>1, <2>2
  <1> QED
    BY <1>1, <1>2

=============================================================================
