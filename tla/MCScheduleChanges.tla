------------------------- MODULE MCScheduleChanges -------------------------
(* Small instances of ScheduleChanges.                                     *)
EXTENDS ScheduleChanges, TLC

CONSTANTS s1, r1, r2

ShortTargets == {"accepted", "confirmed"}

\* Of the states without slots one is enough, besides "none": lists only ask
\* whether the session exists.  Slots have a place or none, and come and go with
\* the states; pending decisions are left to the run of ScheduleRelease.  Two
\* compute at a time between the releases.
FewStates ==
    /\ \A s \in Submissions :
        pending[s] = "none" /\ state[s] \in {"none", "accepted", "confirmed", "withdrawn"}
    /\ \A r \in DOMAIN wip : wip[r].start = Null <=> wip[r].room = Null
    /\ Len(releases) = 1 \/ \E r \in Readers : \A q \in Readers \ {r} : reading[q] = None

AnyReader == Permutations({r1, r2})
=============================================================================
