----------------------------- MODULE MCE1000Rx ------------------------------
(* E1000Rx for TLC. *)
EXTENDS E1000Rx

CONSTANTS f1, f2
OneFrame == {f1}
TwoFrames == {f1, f2}

=============================================================================
