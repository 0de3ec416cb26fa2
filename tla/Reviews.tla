------------------------------- MODULE Reviews -------------------------------
(***************************************************************************)
(* Review phases and review scores: submission/domain/review.py with the   *)
(* periodic task, the review settings, the review page and the API.        *)
(* The score of a review is stored, and computed again where the code      *)
(* remembers to; tasks run inside the request that sends them, as they do  *)
(* without a message broker.  A category offers one score to choose, and   *)
(* all proposals are submitted: deciding one only stops its reviewers.     *)
(***************************************************************************)
EXTENDS Naturals, FiniteSets

CONSTANTS Reviewers, Proposals, Tracks,
          Phases,      \* review phases, numbered in the order of their windows
          Reviewing,   \* the phases with can_review
          Categories,  \* score categories, numbered in the order of the form
          MaxWorth,    \* bound: the value of a score times the weight of its category, if not 0
          None

ASSUME ReviewsAssumption ==
  /\ Phases \subseteq Nat /\ Categories \subseteq Nat /\ IsFiniteSet(Categories)
  /\ Reviewing \subseteq Phases
  /\ MaxWorth \in Nat \ {0} /\ None \notin Nat \cup Tracks

VARIABLES active,    \* the phases with is_active
          due,       \* the phases whose window contains the present
          tracks,    \* the rows of Track
          track,     \* the track of each proposal
          category,  \* the rows of ReviewScoreCategory
          review,    \* the rows of Review, with the categories that are scored
          skipped    \* history: reviews the code did not compute when it should have

reviewVars == <<active, due, tracks, track, category, review, skipped>>

-----------------------------------------------------------------------------
(* worth is 0 for independent categories; an empty set of tracks means all.  A *)
(* category that is not active counts for nothing, like one that is limited to *)
(* a track without proposals, and is left out.                                 *)
Category == [independent : BOOLEAN, worth : 0..MaxWorth, tracks : SUBSET Tracks]
Review == [scores : SUBSET Categories, score : (SUBSET (Categories \X Nat)) \cup {None}]
Keys == Reviewers \X Proposals

(* ReviewScoreCategory.save *)
CategoryRows == {row \in Category : row.independent <=> row.worth = 0}

(* Submission.score_categories, for the rows `cats` and a proposal of track t. *)
ScoreCategories(cats, t) ==
  {c \in Categories : cats[c] # None /\ (cats[c].tracks = {} \/ t \in cats[c].tracks)}

(* No row is missing in the sense of None. *)
ASSUME RowAssumption == None \notin Category \cup Review

(* update_review_score for the scores S: None without any, else a sum, of which *)
(* the parts are kept here instead of their total.                              *)
Total(cats, t, S) ==
  LET counted == S \cap ScoreCategories(cats, t)
  IN IF counted = {} THEN None
     ELSE {<<c, cats[c].worth>> : c \in {d \in counted : ~cats[d].independent}}

Scored(cats, t, S) == [scores |-> S, score |-> Total(cats, t, S)]

Existing == {k \in Keys : review[k] # None}
IsCurrent(k) == review[k].score = Total(category, track[k[2]], review[k].scores)

(* _ensure_review_phases: the first phase is active, if its window is open. *)
ReviewsInit ==
  /\ \E p \in Phases : (\A q \in Phases : p <= q) /\ due \in {{}, {p}} /\ active = due
  /\ tracks = Tracks
  /\ track = [p \in Proposals |-> None]
  /\ \E first \in Categories : category = [c \in Categories |-> IF c = first
       THEN [independent |-> FALSE, worth |-> 1, tracks |-> {}] ELSE None]
  /\ review = [k \in Keys |-> None]
  /\ skipped = {}

-----------------------------------------------------------------------------
(* Phases.                                                                     *)

First(S) == CHOOSE p \in S : \A q \in S : p <= q

phaseFrame == UNCHANGED <<tracks, track, category, review, skipped>>

(* Time goes by, or the windows are edited: validate_review_phases lets two    *)
(* neighbours share the instant between them and nothing else overlap.         *)
WindowsMove ==
  /\ due' \in {S \in SUBSET Phases : \A p, q \in S : p = q \/ p = q + 1 \/ q = p + 1}
  /\ due' # due
  /\ UNCHANGED active /\ phaseFrame

(* Mutant: a phase that has ended is left to the next one. *)
UpdateOnlyWhenNext ==
  /\ active' = IF active \cap due # {} \/ due = {} THEN active ELSE {First(due)}
  /\ UNCHANGED due /\ phaseFrame

(* update_review_phase: a phase outside its window ends, and the first one     *)
(* inside its window is activated, in place of any other.                      *)
UpdateReviewPhase ==
  /\ active' = IF active # {} /\ First(active) \in due THEN active
               ELSE IF due # {} THEN {First(due)}
               ELSE IF active = {} THEN {} ELSE active \ {First(active)}
  /\ UNCHANGED due /\ phaseFrame

(* Mutant: the phase that was active stays so. *)
ActivateAlso(p) ==
  /\ active' = IF p \in active THEN active \ {p} ELSE active \cup {p}
  /\ UNCHANGED due /\ phaseFrame

(* PhaseActivate and activate_review_phase. *)
ActivatePhase(p) ==
  /\ active' = IF p \in active THEN active \ {p} ELSE {p}
  /\ UNCHANGED due /\ phaseFrame

-----------------------------------------------------------------------------
(* Reviews.                                                                    *)

(* reviews_are_open, and can_be_reviewed. *)
ReviewsOpen == active \cap Reviewing # {}

SetReview(k, row, left) ==
  /\ review' = [review EXCEPT ![k] = row]
  /\ skipped' = (skipped \ {k}) \cup left
  /\ UNCHANGED <<active, due, tracks, track, category>>

(* ReviewForm.save and create_or_update_review: the form offers the categories *)
(* of the proposal, and scores in others are dropped.                          *)
SaveReview(k, S) ==
  /\ ReviewsOpen /\ S \subseteq ScoreCategories(category, track[k[2]])
  /\ SetReview(k, Scored(category, track[k[2]], S), {})

(* ReviewSubmission.post: an abstention is a review without text and scores.   *)
Abstain(k) ==
  /\ review[k] = None
  /\ SetReview(k, [scores |-> {}, score |-> None], {})

Offered == {c \in Categories : category[c] # None}

(* ReviewWriteSerializer.create, which asks for open reviews only and takes    *)
(* scores of every category.                                                   *)
PostReview(k, S) ==
  /\ ReviewsOpen /\ review[k] = None /\ S \subseteq Offered
  /\ SetReview(k, Scored(category, track[k[2]], S), {})

(* ReviewWriteSerializer.update with scores, or without: then the review may   *)
(* move to a proposal its author has not reviewed, and keeps its score.        *)
PatchScores(k, S) ==
  /\ k \in Existing /\ ReviewsOpen /\ S \subseteq Offered
  /\ SetReview(k, Scored(category, track[k[2]], S), {})

MoveReview(k, p) ==
  LET to == <<k[1], p>> IN
  /\ k \in Existing /\ ReviewsOpen /\ review[to] = None
  /\ review' = [review EXCEPT ![k] = None, ![to] = review[k]]
  /\ skipped' = (skipped \ {k}) \cup {to}
  /\ UNCHANGED <<active, due, tracks, track, category>>

(* ReviewSubmissionDelete and the API. *)
DeleteReview(k) ==
  /\ k \in Existing /\ ReviewsOpen
  /\ SetReview(k, None, {})

-----------------------------------------------------------------------------
(* Proposals, tracks and categories.                                           *)

(* Mutant: no score is computed. *)
ChangeTrackOnly(p, t) ==
  /\ t \in tracks \cup {None} /\ t # track[p]
  /\ track' = [track EXCEPT ![p] = t]
  /\ UNCHANGED <<active, due, tracks, category, review, skipped>>

(* The edit forms and the API: apply_field_changes, recalculate_submission_scores. *)
ChangeTrack(p, t) ==
  /\ t \in tracks \cup {None} /\ t # track[p]
  /\ track' = [track EXCEPT ![p] = t]
  /\ review' = [k \in Keys |-> IF k[2] = p /\ review[k] # None
                                 THEN Scored(category, t, review[k].scores) ELSE review[k]]
  /\ skipped' = {k \in skipped : k[2] # p}
  /\ UNCHANGED <<active, due, tracks, category>>

(* can_delete_track; limits that become empty stand for all tracks. *)
DeleteTrack(t) ==
  /\ t \in tracks /\ \A p \in Proposals : track[p] # t
  /\ tracks' = tracks \ {t}
  /\ category' = [c \in Categories |-> IF category[c] = None THEN None
                                       ELSE [category[c] EXCEPT !.tracks = @ \ {t}]]
  /\ skipped' = skipped \cup {k \in Existing :
       \E c \in review[k].scores : category[c].tracks = {t}}
  /\ UNCHANGED <<active, due, track, review>>

CreateTrack(t) ==
  /\ t \notin tracks /\ tracks' = tracks \cup {t}
  /\ UNCHANGED <<active, due, track, category, review, skipped>>

(* validate_non_independent_category_remains *)
Remains(cats, c) == \E d \in Categories \ {c} : cats[d] # None /\ ~cats[d].independent

(* The rows while the form of category c is saved: those before it are new.    *)
Until(new, c) == [d \in Categories |-> IF d < c THEN new[d] ELSE category[d]]

(* The categories whose deletion is refused.                                   *)
Refused(new) ==
  {c \in Categories : category[c] # None /\ new[c] = None /\ ~Remains(Until(new, c), c)}

(* Mutant: the limit to tracks is not watched. *)
AffectsButTracks(old, row) ==
  IF row = None THEN ~old.independent
  ELSE old.worth # row.worth \/ old.independent # row.independent

(* affects_review_scores *)
Affects(old, row) ==
  IF row = None THEN ~old.independent
  ELSE old # row

(* EventReviewSettings.form_valid: the forms are saved in turn.  A deletion that  *)
(* is refused stops it, and what was saved before stays, without a recalculation. *)
SaveScores(new) ==
  LET rows == IF Refused(new) = {} THEN new ELSE Until(new, First(Refused(new)))
      kept == [k \in Keys |-> IF review[k] = None THEN None
                 ELSE [review[k] EXCEPT !.scores = {c \in @ : rows[c] # None}]]
      again == Refused(new) = {} /\ \E c \in Offered : Affects(category[c], new[c])
  IN /\ \A c \in Offered : new[c] # None => (new[c].independent => Remains(category, c))
     /\ category' = rows
     /\ review' = IF again
          THEN [k \in Keys |-> IF review[k] = None THEN None
                               ELSE Scored(rows, track[k[2]], kept[k].scores)]
          ELSE kept
     /\ skipped' = IF again THEN {} ELSE IF Refused(new) # {} THEN Existing
          ELSE skipped \cup {k \in Existing : kept[k] # review[k]}
     /\ UNCHANGED <<active, due, tracks, track>>

-----------------------------------------------------------------------------
ReviewsNext ==
  \/ UpdateReviewPhase \/ WindowsMove
  \/ \E p \in Phases : ActivatePhase(p)
  \/ \E k \in Keys : \/ Abstain(k) \/ DeleteReview(k)
                     \/ \E S \in SUBSET Categories : SaveReview(k, S) \/ PostReview(k, S) \/ PatchScores(k, S)
                     \/ \E p \in Proposals : MoveReview(k, p)
  \/ \E p \in Proposals : \E t \in Tracks \cup {None} : ChangeTrack(p, t)
  \/ \E t \in Tracks : DeleteTrack(t) \/ CreateTrack(t)
  \/ \E new \in [Categories -> {row \in CategoryRows : row.tracks \subseteq tracks} \cup {None}] : SaveScores(new)

(* The periodic task is run every few minutes. *)
ReviewsSpec == ReviewsInit /\ [][ReviewsNext]_reviewVars /\ WF_reviewVars(UpdateReviewPhase)

-----------------------------------------------------------------------------
(* Types; at most one phase is active (activate_review_phase); every score    *)
(* belongs to a category and every limit to a track that exists.              *)
ReviewsTypeOK ==
  /\ active \subseteq Phases /\ due \subseteq Phases
  /\ \A p, q \in active : p = q
  /\ tracks \subseteq Tracks
  /\ track \in [Proposals -> tracks \cup {None}]
  /\ category \in [Categories -> CategoryRows \cup {None}]
  /\ \A c \in Offered : category[c].tracks \subseteq tracks
  /\ review \in [Keys -> Review \cup {None}]
  /\ \A k \in Existing : review[k].scores \subseteq Offered
  /\ skipped \subseteq Keys

(* The stored score of a review is what its scores are worth now, whatever was *)
(* done to reviews, proposals, tracks and categories since it was computed.    *)
(* The exceptions are recorded by skipped: a review that moved to another      *)
(* proposal, a track that was deleted, categories of which one could not be    *)
(* deleted, and independent categories that were.                              *)
ScoresCurrent == \A k \in Existing \ skipped : IsCurrent(k)

(* Time and again the active phase is one whose window is open, or there is    *)
(* none: whatever organisers activate, update_review_phase comes back to it.   *)
PhaseFollowsWindow == []<>(IF due = {} THEN active = {} ELSE active # {} /\ active \subseteq due)
=============================================================================
