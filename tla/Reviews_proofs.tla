--------------------------- MODULE Reviews_proofs ---------------------------
(***************************************************************************)
(* Theorems about Reviews: types, one active phase at most, and stored     *)
(* scores that are current, for any number of reviewers, proposals,        *)
(* tracks, phases and categories.                                          *)
(***************************************************************************)
EXTENDS Reviews, WellFoundedInduction, TLAPS

\* The least element of a set of numbers is one of them.
LEMMA FirstIn ==
  ASSUME NEW S \in SUBSET Nat, S # {}
  PROVE  First(S) \in S
<1> DEFINE R == {ss \in Nat \X Nat : ss[1] < ss[2]}
<1>1. IsWellFoundedOn(R, Nat)
  BY NatLessThanWellFounded DEF OpToRel
<1>2. \A x, y \in Nat : y < x => <<y, x>> \in R
  OBVIOUS
<1> HIDE DEF R
<1>3. \E x \in S : \A y \in S : ~(<<y, x>> \in R)
  BY <1>1, WFMin
<1>4. PICK x \in S : \A y \in S : ~(<<y, x>> \in R)
  BY <1>3
<1>5. ASSUME NEW y \in S PROVE x <= y
  <2>1. x \in Nat /\ y \in Nat
    OBVIOUS
  <2>2. ~(y < x)
    BY <1>2, <1>4, <2>1
  <2> QED
    BY <2>1, <2>2
<1> QED
  BY <1>5 DEF First

LEMMA FirstPhase == \A S \in SUBSET Phases : S # {} => First(S) \in S /\ First(S) \in Phases
BY FirstIn, ReviewsAssumption

-----------------------------------------------------------------------------
(* The score of a review.                                                  *)

\* A score depends on the categories that are scored, and on nothing else.
LEMMA TotalSame ==
  ASSUME NEW cats, NEW rows, NEW t, NEW S \in SUBSET Categories,
         \A c \in S : /\ c \in ScoreCategories(cats, t) <=> c \in ScoreCategories(rows, t)
                      /\ cats[c].worth = rows[c].worth
                      /\ cats[c].independent = rows[c].independent
  PROVE  Total(cats, t, S) = Total(rows, t, S)
<1> DEFINE counted == S \cap ScoreCategories(cats, t)
           D == {d \in counted : ~cats[d].independent}
<1>1. counted = S \cap ScoreCategories(rows, t)
  OBVIOUS
<1>2. D = {d \in counted : ~rows[d].independent}
  OBVIOUS
<1> DEFINE before == {<<c, cats[c].worth>> : c \in D}
           after == {<<c, rows[c].worth>> : c \in D}
<1>3. before = after
  OBVIOUS
<1> HIDE DEF D
<1>4. Total(rows, t, S) = IF counted = {} THEN None ELSE after
  BY <1>1, <1>2 DEF Total
<1>5. Total(cats, t, S) = IF counted = {} THEN None ELSE before
  BY DEF Total, D
<1> HIDE DEF before, after
<1> QED
  BY <1>3, <1>4, <1>5

LEMMA ScoredIs ==
  ASSUME NEW cats \in [Categories -> Category \cup {None}], NEW t, NEW S \in SUBSET Categories
  PROVE  /\ Scored(cats, t, S) \in Review
         /\ Scored(cats, t, S).scores = S /\ Scored(cats, t, S).score = Total(cats, t, S)
<1> DEFINE counted == S \cap ScoreCategories(cats, t)
<1>1. counted \subseteq {c \in Categories : cats[c] \in Category}
  BY DEF ScoreCategories
<1> DEFINE parts == {<<c, cats[c].worth>> : c \in {d \in counted : ~cats[d].independent}}
<1>2. parts \in SUBSET (Categories \X Nat)
  BY <1>1, ReviewsAssumption DEF Category
<1>a. Total(cats, t, S) = IF counted = {} THEN None ELSE parts
  BY DEF Total
<1> DEFINE Parts == SUBSET (Categories \X Nat)
<1> HIDE DEF parts
<1>3. Total(cats, t, S) \in Parts \cup {None}
  <2>1. parts \in Parts
    BY <1>2
  <2> HIDE DEF Parts, counted
  <2> QED
    BY <1>a, <2>1
<1>4. Review = [scores : SUBSET Categories, score : Parts \cup {None}]
  BY DEF Review
<1> HIDE DEF Parts
<1> QED
  BY <1>3, <1>4 DEF Scored

-----------------------------------------------------------------------------
(* The invariant, and what the steps on phases do to it.                   *)

ReviewInv == ReviewsTypeOK /\ ScoresCurrent

LEMMA PhaseStep ==
  ASSUME ReviewInv, phaseFrame, active' \subseteq Phases, due' \subseteq Phases, \A p, q \in active' : p = q
  PROVE  ReviewInv'
BY DEF ReviewInv, ReviewsTypeOK, ScoresCurrent, phaseFrame, IsCurrent, Existing, Offered

LEMMA UpdateStep ==
  ASSUME ReviewInv, UpdateReviewPhase \/ WindowsMove \/ \E p \in Phases : ActivatePhase(p)
  PROVE  ReviewInv'
<1>t. active \subseteq Phases /\ due \subseteq Phases /\ \A p, q \in active : p = q
  BY DEF ReviewInv, ReviewsTypeOK
<1>1. CASE UpdateReviewPhase
  <2>1. active' \subseteq Phases /\ \A p, q \in active' : p = q
    BY <1>1, <1>t, FirstPhase DEF UpdateReviewPhase
  <2> QED
    BY <1>1, <1>t, <2>1, PhaseStep DEF UpdateReviewPhase
<1>2. CASE WindowsMove
  BY <1>2, <1>t, PhaseStep DEF WindowsMove
<1>3. ASSUME NEW p \in Phases, ActivatePhase(p) PROVE ReviewInv'
  <2>1. active' \subseteq Phases /\ \A x, y \in active' : x = y
    BY <1>3, <1>t DEF ActivatePhase
  <2> QED
    BY <1>3, <1>t, <2>1, PhaseStep DEF ActivatePhase
<1> QED
  BY <1>1, <1>2, <1>3

-----------------------------------------------------------------------------
(* Steps on one review.                                                    *)

\* The parts of the invariant that say nothing of reviews.
TablesOK ==
  /\ active \subseteq Phases /\ due \subseteq Phases
  /\ \A p, q \in active : p = q
  /\ tracks \subseteq Tracks
  /\ track \in [Proposals -> tracks \cup {None}]
  /\ category \in [Categories -> CategoryRows \cup {None}]
  /\ \A c \in Offered : category[c].tracks \subseteq tracks

LEMMA Categorised == TablesOK => category \in [Categories -> Category \cup {None}]
BY DEF TablesOK, CategoryRows

LEMMA SetStep ==
  ASSUME ReviewInv, NEW k \in Keys, NEW row,
         SetReview(k, row, {}),
         \/ row = None
         \/ row \in Review /\ row.scores \subseteq Offered
              /\ row.score = Total(category, track[k[2]], row.scores)
  PROVE  ReviewInv'
<1>t. /\ review \in [Keys -> Review \cup {None}] /\ \A j \in Existing : review[j].scores \subseteq Offered
      /\ skipped \subseteq Keys /\ \A j \in Existing \ skipped : IsCurrent(j)
  BY DEF ReviewInv, ReviewsTypeOK, ScoresCurrent
<1>1. /\ review' = [review EXCEPT ![k] = row] /\ skipped' = skipped \ {k}
      /\ UNCHANGED <<active, due, tracks, track, category>>
  BY DEF SetReview
<1>2. review' \in [Keys -> Review \cup {None}] /\ skipped' \subseteq Keys
  BY <1>1, <1>t
<1>3. \A j \in Existing' : review'[j].scores \subseteq Offered'
  BY <1>1, <1>t DEF Existing, Offered
<1>4. ScoresCurrent'
  BY <1>1, <1>t DEF ScoresCurrent, Existing, IsCurrent
<1> QED
  BY <1>1, <1>2, <1>3, <1>4 DEF ReviewInv, ReviewsTypeOK, Offered

LEMMA ReviewStep ==
  ASSUME ReviewInv, NEW k \in Keys,
         \/ Abstain(k) \/ DeleteReview(k)
         \/ \E S \in SUBSET Categories : SaveReview(k, S) \/ PostReview(k, S) \/ PatchScores(k, S)
         \/ \E p \in Proposals : MoveReview(k, p)
  PROVE  ReviewInv'
<1>t. TablesOK
  BY DEF ReviewInv, ReviewsTypeOK, TablesOK
<1>1. CASE Abstain(k)
  <2> DEFINE row == [scores |-> {}, score |-> None]
  <2>1. Total(category, track[k[2]], {}) = None
    BY DEF Total
  <2>2. row \in Review /\ row.scores = {} /\ row.score = None
    <3> DEFINE Parts == SUBSET (Categories \X Nat)
    <3>1. {} \in SUBSET Categories /\ None \in Parts \cup {None}
      <4> HIDE DEF Parts
      <4> QED
        OBVIOUS
    <3>2. Review = [scores : SUBSET Categories, score : Parts \cup {None}]
      BY DEF Review
    <3> HIDE DEF Parts
    <3> QED
      BY <3>1, <3>2
  <2>3. SetReview(k, row, {})
    BY <1>1 DEF Abstain
  <2> HIDE DEF row
  <2> QED
    BY <2>1, <2>2, <2>3, SetStep
<1>2. CASE DeleteReview(k)
  BY <1>2, SetStep DEF DeleteReview
<1>3. ASSUME NEW S \in SUBSET Categories, SaveReview(k, S) \/ PostReview(k, S) \/ PatchScores(k, S) PROVE ReviewInv'
  <2> DEFINE row == Scored(category, track[k[2]], S)
  <2>1. SetReview(k, row, {}) /\ S \subseteq Offered
    BY <1>3 DEF SaveReview, PostReview, PatchScores, ScoreCategories, Offered
  <2>2. row \in Review /\ row.scores = S /\ row.score = Total(category, track[k[2]], S)
    BY <1>t, ScoredIs, Categorised
  <2> HIDE DEF row
  <2> QED
    BY <2>1, <2>2, SetStep
<1>4. ASSUME NEW p \in Proposals, MoveReview(k, p) PROVE ReviewInv'
  <2> DEFINE to == <<k[1], p>>
  <2>t. /\ review \in [Keys -> Review \cup {None}] /\ \A j \in Existing : review[j].scores \subseteq Offered
        /\ skipped \subseteq Keys /\ \A j \in Existing \ skipped : IsCurrent(j)
    BY DEF ReviewInv, ReviewsTypeOK, ScoresCurrent
  <2>1. to \in Keys
    BY DEF Keys
  <2>2. k \in Existing /\ review[to] = None /\ review' = [review EXCEPT ![k] = None, ![to] = review[k]]
        /\ skipped' = (skipped \ {k}) \cup {to} /\ UNCHANGED <<active, due, tracks, track, category>>
    BY <1>4 DEF MoveReview
  <2> HIDE DEF to
  <2>3. /\ review'[to] = review[k]
        /\ \A j \in Keys \ {to} : review'[j] = IF j = k THEN None ELSE review[j]
    BY <2>1, <2>2, <2>t
  <2>4. review' \in [Keys -> Review \cup {None}] /\ skipped' \subseteq Keys
    BY <2>1, <2>2, <2>t
  <2>5. \A j \in Existing' : review'[j].scores \subseteq Offered'
    BY <2>2, <2>3, <2>t DEF Existing, Offered
  <2>6. ScoresCurrent'
    BY <2>2, <2>3, <2>t DEF ScoresCurrent, Existing, IsCurrent
  <2> QED
    BY <2>2, <2>4, <2>5, <2>6 DEF ReviewInv, ReviewsTypeOK, Offered
<1> QED
  BY <1>1, <1>2, <1>3, <1>4

-----------------------------------------------------------------------------
(* Steps on tracks and categories.                                         *)

LEMMA ChangeTrackStep ==
  ASSUME ReviewInv, NEW p \in Proposals, NEW t \in Tracks \cup {None}, ChangeTrack(p, t)
  PROVE  ReviewInv'
<1>t. /\ review \in [Keys -> Review \cup {None}] /\ \A j \in Existing : review[j].scores \subseteq Offered
      /\ TablesOK /\ skipped \subseteq Keys /\ \A j \in Existing \ skipped : IsCurrent(j)
  BY DEF ReviewInv, ReviewsTypeOK, ScoresCurrent, TablesOK
<1>1. /\ track' = [track EXCEPT ![p] = t] /\ t \in tracks \cup {None}
      /\ review' = [k \in Keys |-> IF k[2] = p /\ review[k] # None
                                     THEN Scored(category, t, review[k].scores) ELSE review[k]]
      /\ skipped' = {k \in skipped : k[2] # p}
      /\ UNCHANGED <<active, due, tracks, category>>
  BY DEF ChangeTrack
<1>2. \A k \in Existing : review[k] \in Review /\ review[k].scores \in SUBSET Categories
  BY <1>t DEF Existing, Review
<1>3. \A k \in Existing : /\ Scored(category, t, review[k].scores) \in Review
                          /\ Scored(category, t, review[k].scores).scores = review[k].scores
                          /\ Scored(category, t, review[k].scores).score = Total(category, t, review[k].scores)
  BY <1>2, <1>t, ScoredIs, Categorised DEF TablesOK
<1>4. \A k \in Keys : /\ k \in Existing' => k \in Existing
                      /\ review'[k] = IF k[2] = p /\ review[k] # None
                                      THEN Scored(category, t, review[k].scores) ELSE review[k]
  BY <1>1 DEF Existing
<1>5. review' \in [Keys -> Review \cup {None}]
  BY <1>1, <1>3, <1>t DEF Existing
<1>6. \A k \in Existing' : review'[k].scores \subseteq Offered'
  BY <1>1, <1>3, <1>4, <1>t DEF Existing, Offered
<1>7. track' \in [Proposals -> tracks' \cup {None}] /\ \A q \in Proposals : track'[q] = IF q = p THEN t ELSE track[q]
  BY <1>1, <1>t DEF TablesOK
<1>8. ScoresCurrent'
  <2> SUFFICES ASSUME NEW k \in Existing', k \notin skipped' PROVE IsCurrent(k)'
    BY DEF ScoresCurrent
  <2>1. k \in Existing /\ k[2] \in Proposals
    BY <1>4 DEF Existing, Keys
  <2>2. CASE k[2] = p
    BY <1>1, <1>3, <1>4, <1>7, <2>1, <2>2 DEF IsCurrent, Existing
  <2>3. CASE k[2] # p
    <3>1. k \notin skipped /\ k \in Keys
      BY <1>1, <2>1, <2>3 DEF Existing
    <3>2. review[k].score = Total(category, track[k[2]], review[k].scores)
      BY <1>t, <2>1, <3>1 DEF IsCurrent
    <3>3. review'[k] = review[k] /\ track'[k[2]] = track[k[2]] /\ category' = category
      BY <1>1, <1>4, <1>7, <2>1, <2>3, <3>1
    <3> QED
      BY <3>2, <3>3 DEF IsCurrent
  <2> QED
    BY <2>2, <2>3
<1> QED
  BY <1>1, <1>5, <1>6, <1>7, <1>8, <1>t DEF ReviewInv, ReviewsTypeOK, TablesOK, Offered

\* A category row without track t in its limit.
LEMMA Unlimited ==
  ASSUME NEW row \in CategoryRows, NEW t
  PROVE  LET new == [row EXCEPT !.tracks = @ \ {t}]
         IN /\ new \in CategoryRows /\ new # None /\ new.tracks = row.tracks \ {t}
            /\ new.worth = row.worth /\ new.independent = row.independent
<1>1. row \in Category /\ (row.independent <=> row.worth = 0)
  BY DEF CategoryRows
<1> DEFINE new == [row EXCEPT !.tracks = @ \ {t}]
<1>2. new \in Category /\ new.tracks = row.tracks \ {t} /\ new.worth = row.worth /\ new.independent = row.independent
  BY <1>1 DEF Category
<1> QED
  BY <1>1, <1>2, RowAssumption DEF CategoryRows

LEMMA DeleteTrackStep ==
  ASSUME ReviewInv, NEW t \in Tracks, DeleteTrack(t)
  PROVE  ReviewInv'
<1>t. /\ review \in [Keys -> Review \cup {None}] /\ \A j \in Existing : review[j].scores \subseteq Offered
      /\ TablesOK /\ skipped \subseteq Keys /\ \A j \in Existing \ skipped : IsCurrent(j)
  BY DEF ReviewInv, ReviewsTypeOK, ScoresCurrent, TablesOK
<1>c. category \in [Categories -> CategoryRows \cup {None}]
  BY <1>t DEF TablesOK
<1>1. /\ \A p \in Proposals : track[p] # t
      /\ tracks' = tracks \ {t}
      /\ category' = [c \in Categories |-> IF category[c] = None THEN None
                                           ELSE [category[c] EXCEPT !.tracks = @ \ {t}]]
      /\ skipped' = skipped \cup {k \in Existing : \E c \in review[k].scores : category[c].tracks = {t}}
      /\ UNCHANGED <<active, due, track, review>>
  BY DEF DeleteTrack
<1>2. \A c \in Categories : /\ category[c] = None <=> category'[c] = None
                            /\ category[c] # None => /\ category'[c] \in CategoryRows
                                                     /\ category'[c].tracks = category[c].tracks \ {t}
                                                     /\ category'[c].worth = category[c].worth
                                                     /\ category'[c].independent = category[c].independent
  BY <1>1, <1>c, Unlimited
<1>3. category' \in [Categories -> CategoryRows \cup {None}]
  BY <1>1, <1>2
<1>4. Offered' = Offered
  BY <1>2 DEF Offered
<1>5. \A c \in Offered' : category'[c].tracks \subseteq tracks'
  BY <1>1, <1>2, <1>4, <1>t DEF TablesOK, Offered
<1>6. track' \in [Proposals -> tracks' \cup {None}]
  BY <1>1, <1>t DEF TablesOK
<1>7. ScoresCurrent'
  <2> SUFFICES ASSUME NEW k \in Existing', k \notin skipped' PROVE IsCurrent(k)'
    BY DEF ScoresCurrent
  <2>1. k \in Existing /\ k \in Keys /\ k \notin skipped /\ \A c \in review[k].scores : category[c].tracks # {t}
    BY <1>1 DEF Existing
  <2>2. review[k].scores \in SUBSET Categories /\ review[k].scores \subseteq Offered /\ track[k[2]] # t
    BY <1>1, <1>t, <2>1 DEF Existing, Review, Keys
  <2>3. \A c \in review[k].scores :
          /\ c \in ScoreCategories(category, track[k[2]]) <=> c \in ScoreCategories(category', track[k[2]])
          /\ category[c].worth = category'[c].worth
          /\ category[c].independent = category'[c].independent
    BY <1>2, <2>1, <2>2 DEF ScoreCategories, Offered
  <2>4. Total(category, track[k[2]], review[k].scores) = Total(category', track[k[2]], review[k].scores)
    BY <2>2, <2>3, TotalSame
  <2> QED
    BY <1>1, <1>t, <2>1, <2>4 DEF IsCurrent
<1>8. skipped' \subseteq Keys /\ review' \in [Keys -> Review \cup {None}]
      /\ \A k \in Existing' : review'[k].scores \subseteq Offered'
  BY <1>1, <1>4, <1>t DEF Existing
<1> QED
  BY <1>1, <1>3, <1>5, <1>6, <1>7, <1>8, <1>t DEF ReviewInv, ReviewsTypeOK, TablesOK

LEMMA CreateTrackStep ==
  ASSUME ReviewInv, NEW t \in Tracks, CreateTrack(t)
  PROVE  ReviewInv'
<1>1. tracks' = tracks \cup {t} /\ UNCHANGED <<active, due, track, category, review, skipped>>
  BY DEF CreateTrack
<1>2. track' \in [Proposals -> tracks' \cup {None}]
  BY <1>1 DEF ReviewInv, ReviewsTypeOK
<1> QED
  BY <1>1, <1>2 DEF ReviewInv, ReviewsTypeOK, ScoresCurrent, Existing, IsCurrent, Offered

LEMMA SaveScoresStep ==
  ASSUME ReviewInv, NEW new \in [Categories -> {row \in CategoryRows : row.tracks \subseteq tracks} \cup {None}],
         SaveScores(new)
  PROVE  ReviewInv'
<1> DEFINE rows == IF Refused(new) = {} THEN new ELSE Until(new, First(Refused(new)))
           kept == [k \in Keys |-> IF review[k] = None THEN None
                      ELSE [review[k] EXCEPT !.scores = {c \in @ : rows[c] # None}]]
           again == Refused(new) = {} /\ \E c \in Offered : Affects(category[c], new[c])
<1>t. /\ review \in [Keys -> Review \cup {None}] /\ \A j \in Existing : review[j].scores \subseteq Offered
      /\ TablesOK /\ skipped \subseteq Keys /\ \A j \in Existing \ skipped : IsCurrent(j)
  BY DEF ReviewInv, ReviewsTypeOK, ScoresCurrent, TablesOK
<1>1. /\ category' = rows
      /\ review' = IF again
           THEN [k \in Keys |-> IF review[k] = None THEN None
                                ELSE Scored(rows, track[k[2]], kept[k].scores)]
           ELSE kept
      /\ skipped' = IF again THEN {} ELSE IF Refused(new) # {} THEN Existing
           ELSE skipped \cup {k \in Existing : kept[k] # review[k]}
      /\ UNCHANGED <<active, due, tracks, track>>
  BY DEF SaveScores
<1>2. rows \in [Categories -> CategoryRows \cup {None}]
      /\ \A c \in Categories : rows[c] # None => rows[c].tracks \subseteq tracks
  <2>1. category \in [Categories -> CategoryRows \cup {None}]
        /\ \A c \in Categories : category[c] # None => category[c].tracks \subseteq tracks
    BY <1>t DEF TablesOK, Offered
  <2>2. ASSUME NEW d
        PROVE  /\ Until(new, d) \in [Categories -> CategoryRows \cup {None}]
               /\ \A c \in Categories : Until(new, d)[c] # None => Until(new, d)[c].tracks \subseteq tracks
    BY <2>1 DEF Until
  <2> QED
    BY <2>2
<1>3. \A k \in Keys : /\ review[k] = None => kept[k] = None
                      /\ review[k] # None => /\ kept[k] \in Review /\ kept[k] # None
                                             /\ kept[k].scores = {c \in review[k].scores : rows[c] # None}
                                             /\ kept[k].scores \in SUBSET Categories
                                             /\ kept[k].score = review[k].score
  <2> HIDE DEF rows
  <2> SUFFICES ASSUME NEW k \in Keys, review[k] # None
               PROVE  /\ kept[k] \in Review /\ kept[k] # None
                      /\ kept[k].scores = {c \in review[k].scores : rows[c] # None}
                      /\ kept[k].scores \in SUBSET Categories
                      /\ kept[k].score = review[k].score
    OBVIOUS
  <2>1. review[k] \in Review
    BY <1>t
  <2> DEFINE left == {c \in review[k].scores : rows[c] # None}
             row == [review[k] EXCEPT !.scores = left]
  <2>2. left \in SUBSET Categories
    BY <2>1 DEF Review
  <2>3. kept[k] = row
    OBVIOUS
  <2> HIDE DEF kept, left
  <2>4. row \in Review /\ row.scores = left /\ row.score = review[k].score
    BY <2>1, <2>2 DEF Review
  <2> HIDE DEF row
  <2> QED
    BY <2>2, <2>3, <2>4, RowAssumption DEF left
<1>4. kept \in [Keys -> Review \cup {None}]
  BY <1>3
<1>5. skipped' \subseteq Keys
  BY <1>1, <1>t DEF Existing
<1>n. Refused(new) = {} => rows = new
  OBVIOUS
<1> HIDE DEF rows, kept
<1>6. \A k \in Existing : /\ Scored(rows, track[k[2]], kept[k].scores) \in Review
                          /\ Scored(rows, track[k[2]], kept[k].scores).scores = kept[k].scores
                          /\ Scored(rows, track[k[2]], kept[k].scores).score = Total(rows, track[k[2]], kept[k].scores)
  <2>1. rows \in [Categories -> Category \cup {None}]
    BY <1>2 DEF CategoryRows
  <2> QED
    BY <1>3, <2>1, ScoredIs DEF Existing
<1>7. /\ review' \in [Keys -> Review \cup {None}]
      /\ \A k \in Keys : k \in Existing' <=> k \in Existing
      /\ \A k \in Existing : review'[k].scores = kept[k].scores
  <2>1. CASE again
    BY <1>1, <1>6, <2>1, RowAssumption DEF Existing
  <2>2. CASE ~again
    BY <1>1, <1>3, <1>4, <2>2 DEF Existing
  <2> QED
    BY <2>1, <2>2
<1>8. \A k \in Existing' : review'[k].scores \subseteq Offered'
  BY <1>1, <1>3, <1>7 DEF Existing, Offered
<1>9. ScoresCurrent'
  <2> SUFFICES ASSUME NEW k \in Existing', k \notin skipped' PROVE IsCurrent(k)'
    BY DEF ScoresCurrent
  <2>1. k \in Keys /\ k \in Existing /\ review[k] # None
    BY <1>7 DEF Existing
  <2>2. CASE again
    <3>1. review'[k] = Scored(rows, track[k[2]], kept[k].scores)
      BY <1>1, <2>1, <2>2
    <3> QED
      BY <1>1, <1>6, <2>1, <3>1 DEF IsCurrent
  <2>3. CASE ~again
    <3>1. Refused(new) = {} /\ k \notin skipped /\ kept[k] = review[k] /\ review'[k] = review[k]
      BY <1>1, <2>1, <2>3
    <3>2. \A c \in Offered : ~Affects(category[c], new[c])
      BY <2>3, <3>1
    <3>3. \A c \in review[k].scores : c \in Offered /\ rows[c] # None /\ rows[c] = category[c]
      BY <1>3, <1>n, <1>t, <2>1, <3>1, <3>2 DEF Affects
    <3>4. review[k].scores \in SUBSET Categories
      BY <1>3, <2>1, <3>1
    <3>5. Total(category, track[k[2]], review[k].scores) = Total(rows, track[k[2]], review[k].scores)
      BY <3>3, <3>4, TotalSame DEF ScoreCategories
    <3> QED
      BY <1>1, <1>t, <2>1, <3>1, <3>5 DEF IsCurrent
  <2> QED
    BY <2>2, <2>3
<1>10. TablesOK'
  BY <1>1, <1>2, <1>t DEF TablesOK, Offered
<1> QED
  BY <1>5, <1>7, <1>8, <1>9, <1>10 DEF ReviewInv, ReviewsTypeOK, TablesOK

-----------------------------------------------------------------------------
LEMMA ReviewInit == ReviewsInit => ReviewInv
<1> SUFFICES ASSUME ReviewsInit PROVE ReviewInv
  OBVIOUS
<1>1. PICK p \in Phases : due \in {{}, {p}} /\ active = due
  BY DEF ReviewsInit
<1>2. PICK first \in Categories : category = [c \in Categories |-> IF c = first
         THEN [independent |-> FALSE, worth |-> 1, tracks |-> {}] ELSE None]
  BY DEF ReviewsInit
<1>3. [independent |-> FALSE, worth |-> 1, tracks |-> {}] \in CategoryRows
  BY ReviewsAssumption DEF CategoryRows, Category
<1>4. category \in [Categories -> CategoryRows \cup {None}] /\ \A c \in Offered : category[c].tracks \subseteq tracks
  BY <1>2, <1>3 DEF Offered
<1>5. Existing = {}
  BY DEF ReviewsInit, Existing
<1> QED
  BY <1>1, <1>4, <1>5 DEF ReviewsInit, ReviewInv, ReviewsTypeOK, ScoresCurrent

LEMMA ReviewNext == ReviewInv /\ [ReviewsNext]_reviewVars => ReviewInv'
<1> SUFFICES ASSUME ReviewInv, [ReviewsNext]_reviewVars PROVE ReviewInv'
  OBVIOUS
<1>1. CASE UNCHANGED reviewVars
  BY <1>1 DEF reviewVars, ReviewInv, ReviewsTypeOK, ScoresCurrent, Existing, IsCurrent, Offered
<1> QED
  BY <1>1, UpdateStep, ReviewStep, ChangeTrackStep, DeleteTrackStep, CreateTrackStep, SaveScoresStep DEF ReviewsNext

\* Types, one active phase at most, and no score or limit that names what is gone.
THEOREM ReviewsTypeCorrect == ReviewsSpec => []ReviewsTypeOK
<1>1. ReviewInv => ReviewsTypeOK
  BY DEF ReviewInv
<1> QED
  BY ReviewInit, ReviewNext, <1>1, PTL DEF ReviewsSpec

\* The stored score of a review is what its scores are worth now, but for the reviews the
\* code is known to skip.
THEOREM ScoresStayCurrent == ReviewsSpec => []ScoresCurrent
<1>1. ReviewInv => ScoresCurrent
  BY DEF ReviewInv
<1> QED
  BY ReviewInit, ReviewNext, <1>1, PTL DEF ReviewsSpec

-----------------------------------------------------------------------------
(* Phases follow their windows: the steps behind PhaseFollowsWindow.       *)

PhaseFits == IF due = {} THEN active = {} ELSE active # {} /\ active \subseteq due

\* One run of the periodic task is enough to find the phase whose window is
\* open, or to end the last one, whatever organisers activated before
\* (update_review_phase); and only organisers or time can undo that.
TaskFindsPhase ==
  [][/\ UpdateReviewPhase => PhaseFits'
     /\ PhaseFits => \/ PhaseFits' \/ due' # due
                     \/ \E p \in Phases : ActivatePhase(p)]_reviewVars

\* In every reachable state one run is enough, for any number of phases and
\* any windows that the form admits, because at most one phase is active.
THEOREM TaskFinds == ReviewsSpec => TaskFindsPhase
<1>1. ASSUME ReviewsTypeOK, UpdateReviewPhase PROVE PhaseFits'
  <2>1. due' = due /\ due \subseteq Phases /\ active \subseteq Phases /\ \A p, q \in active : p = q
    BY <1>1 DEF UpdateReviewPhase, ReviewsTypeOK
  <2>2. active # {} => active = {First(active)}
    BY <2>1, FirstPhase
  <2>3. due # {} => First(due) \in due
    BY <2>1, FirstPhase
  <2> QED
    BY <1>1, <2>1, <2>2, <2>3 DEF UpdateReviewPhase, PhaseFits
<1>2. ASSUME ReviewsTypeOK, ReviewsNext, PhaseFits, due' = due,
             ~ \E p \in Phases : ActivatePhase(p)
      PROVE  PhaseFits'
  <2>1. CASE UpdateReviewPhase
    BY <1>1, <1>2, <2>1
  <2>2. CASE active' = active
    BY <1>2, <2>2 DEF PhaseFits
  <2> QED
    BY <1>2, <2>1, <2>2
       DEF ReviewsNext, WindowsMove, Abstain, DeleteReview, SaveReview, PostReview, PatchScores,
           SetReview, MoveReview, ChangeTrack, DeleteTrack, CreateTrack, SaveScores
<1>3. ReviewsTypeOK /\ [ReviewsNext]_reviewVars =>
        [/\ UpdateReviewPhase => PhaseFits'
         /\ PhaseFits => \/ PhaseFits' \/ due' # due
                         \/ \E p \in Phases : ActivatePhase(p)]_reviewVars
  BY <1>1, <1>2
<1> QED
  BY <1>3, ReviewsTypeCorrect, PTL DEF ReviewsSpec, TaskFindsPhase

\* UpdateReviewPhase has no guard, and changes `active` unless it fits.
TaskHasWork == ~PhaseFits => ENABLED <<UpdateReviewPhase>>_reviewVars

\* Time and again the active phase is one whose window is open, as far as the
\* periodic task can run whenever it has work: TaskHasWork is the one fact
\* about ENABLED that fairness needs here.
THEOREM PhaseIsFound == ReviewsSpec /\ []TaskHasWork => PhaseFollowsWindow
<1>1. TaskFindsPhase => [][UpdateReviewPhase => PhaseFits']_reviewVars
  <2>1. [/\ UpdateReviewPhase => PhaseFits'
         /\ PhaseFits => \/ PhaseFits' \/ due' # due
                         \/ \E p \in Phases : ActivatePhase(p)]_reviewVars
        => [UpdateReviewPhase => PhaseFits']_reviewVars
    OBVIOUS
  <2> QED
    BY <2>1, PTL DEF TaskFindsPhase
<1>2. ReviewsSpec /\ []TaskHasWork => []<>PhaseFits
  BY <1>1, TaskFinds, PTL DEF ReviewsSpec, TaskHasWork
<1> QED
  BY <1>2, PTL DEF PhaseFollowsWindow, PhaseFits

=============================================================================
