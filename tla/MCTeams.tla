------------------------------ MODULE MCTeams ------------------------------
(* Small instances of Teams.  *)
EXTENDS Teams, TLC
CONSTANTS ann, bob, e1, t1, t2, i1, k1, r1

MCUsers == {ann, bob}
MCPermissionSets == {{"can_change_teams", "can_create_events"}, {"control"}}

(* Forms of tokens are followed while no invitation is open, and once one was *)
(* used or retracted as long as there is one team.                            *)
FormBound ==
  (\E r \in Requests : form[r] # None) =>
    /\ OpenInvites = {} /\ \A u \in Users : visit[u] = None
    /\ (\A i \in InviteIds : invite[i] = None) \/ Cardinality(Rows(team)) <= 1

MCSymmetry == Permutations({t1, t2}) \cup Permutations({ann, bob})
=============================================================================
