------------------------------- MODULE Seats -------------------------------
(***************************************************************************)
(* What create_signup and cancel_signup promise of the seats of a session: *)
(* each is taken or given up in one step, one attendee at a time, and      *)
(* taken only while the capacity the session has at that moment is not     *)
(* used up.  Organisers set capacities as they like, and move nobody.      *)
(***************************************************************************)
EXTENDS Naturals, FiniteSets

CONSTANTS Sessions, Attendees, Capacities, Unlimited

VARIABLES
    attending,  \* who has a seat, by session
    capacity    \* the session's own capacity

seatVars == <<attending, capacity>>

-----------------------------------------------------------------------------
SeatsInit ==
    /\ attending = [s \in Sessions |-> {}]
    /\ capacity \in [Sessions -> Capacities]

HasRoom(s) == capacity[s] = Unlimited \/ Cardinality(attending[s]) < capacity[s]

TakeSeat(a, s) ==
    /\ a \notin attending[s] /\ HasRoom(s)
    /\ attending' = [attending EXCEPT ![s] = @ \cup {a}]
    /\ UNCHANGED capacity

GiveUpSeat(a, s) ==
    /\ a \in attending[s]
    /\ attending' = [attending EXCEPT ![s] = @ \ {a}]
    /\ UNCHANGED capacity

Leave(a) ==
    /\ attending' = [s \in Sessions |-> attending[s] \ {a}]
    /\ UNCHANGED capacity

SetCapacities ==
    /\ capacity' \in [Sessions -> Capacities]
    /\ UNCHANGED attending

SeatsNext ==
    \/ \E a \in Attendees, s \in Sessions : TakeSeat(a, s) \/ GiveUpSeat(a, s)
    \/ \E a \in Attendees : Leave(a)
    \/ SetCapacities

SeatsSpec == SeatsInit /\ [][SeatsNext]_seatVars

=============================================================================
