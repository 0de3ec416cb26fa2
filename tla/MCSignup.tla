------------------------------ MODULE MCSignup ------------------------------
(* Small instances of Signup.                                              *)
EXTENDS Signup

CONSTANTS s1, a1, a2, a3, t1, k1

OneSession == {s1}
ThreeAttendees == {a1, a2, a3}
OneType == {t1}
OneTrack == {k1}
=============================================================================
