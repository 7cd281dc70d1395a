----------------------------- MODULE MCLoginQueue ---------------------------
(* Small instances of LoginQueue for TLC. *)
EXTENDS LoginQueue

OneAtATime == {1}
TwoAtATime == {2}
OneOrTwo   == {1, 2}
=============================================================================
