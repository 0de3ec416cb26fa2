---------------------------- MODULE MCProposals ----------------------------
(* Small instances of Proposals. *)
EXTENDS Proposals, TLC
CONSTANTS ann, bob, c1, p1, r1, v1, v2

MCSymmetry == Permutations({ann, bob}) \cup Permutations({v1, v2})

(* Requests that invite or accept are followed while no access code is in use and *)
(* at most one of them overlaps with a request of the wizard or the edit page.    *)
VisitBound ==
  LET busy == {v \in Visits : visit[v] # None}
  IN busy # {} => /\ \A c \in Codes : codes[c] = None
                  /\ Cardinality(busy) = 1 \/ \A r \in Requests : request[r] = None
=============================================================================
