--------------------------- MODULE MCVerification ---------------------------
(* Small instances of SpeakerClaims and Verification. *)
EXTENDS SpeakerClaims, TLC
CONSTANTS ann, bob, x, y, r1, e1

MCSymmetry == Permutations({ann, bob}) \cup Permutations({x, y})

(* One account at a time has had mails of late.  A profile is followed while none has, *)
(* and with no confirmation link around.                                              *)
MailBound ==
  /\ Cardinality({u \in People : u \in cooldown \/ corrected[u] # "no"}) <= 1
  /\ \/ profile = None /\ (\A r \in Requests : opened[r] = None) /\ \A e \in Editors : editing[e] = None
     \/ links = {} /\ cooldown = {} /\ \A u \in People : corrected[u] = "no"
=============================================================================
