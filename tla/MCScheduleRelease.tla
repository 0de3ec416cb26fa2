------------------------- MODULE MCScheduleRelease -------------------------
(* Small instances of ScheduleRelease.                                     *)
EXTENDS ScheduleRelease, TLC

CONSTANTS s1, k1

OneSubmission == {s1}
OneBlocker == {k1}
NoExtras == {}
OneStart == {1}
TwoStarts == {1, 2}
OneRoom == {1}

AllStates == AllTargets
\* Cancelled sessions fare like rejected ones, sessions begin as submitted, and
\* speakers withdraw.
Decisions == {"accepted", "confirmed", "rejected"}
AcceptedTargets == {"accepted", "confirmed"}

\* Once there is a version to compare with, slots have a place or none.
WholePlaces ==
    releases # <<>> => \A r \in DOMAIN wip : wip[r].start = Null <=> wip[r].room = Null
=============================================================================
