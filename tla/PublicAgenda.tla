---------------------------- MODULE PublicAgenda ----------------------------
(***************************************************************************)
(* What the public schedule of an event promises: a growing list of        *)
(* versions.  A version is published with confirmed sessions and breaks    *)
(* that have a start time.  After that it can change in two ways only, and *)
(* all versions together: a deleted session disappears from each, and a    *)
(* change of the event's time zone or date moves each by the same time.    *)
(***************************************************************************)
EXTENDS Integers, Sequences

CONSTANTS Submissions, Breaks, Starts, Rooms, NoRoom

VARIABLES
    agendas,    \* the published versions, oldest first: sets of entries
    confirmed   \* the sessions that are confirmed now

agendaVars == <<agendas, confirmed>>

Entries(who) == who \X Starts \X (Rooms \cup {NoRoom})

AgendaInit == agendas = <<>> /\ confirmed = {}

\* A new version may only show what is confirmed at that moment.
Publish ==
    /\ \E shown \in SUBSET Entries(confirmed \cup Breaks) :
          agendas' = Append(agendas, shown)
    /\ UNCHANGED confirmed

Decide ==
    /\ confirmed' \in SUBSET Submissions
    /\ UNCHANGED agendas

Erase(s) ==
    /\ agendas' = [v \in DOMAIN agendas |-> {e \in agendas[v] : e[1] # s}]
    /\ confirmed' = confirmed \ {s}

\* The whole event moves, and all that was ever published with it.
Shift ==
    /\ \E d \in {b - a : a, b \in Starts} :
          agendas' = [v \in DOMAIN agendas |->
                         {<<e[1], e[2] + d, e[3]>> : e \in agendas[v]}]
    /\ UNCHANGED confirmed

AgendaNext == Publish \/ Decide \/ Shift \/ \E s \in Submissions : Erase(s)

AgendaSpec == AgendaInit /\ [][AgendaNext]_agendaVars
=============================================================================
