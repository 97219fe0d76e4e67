---------------------------- MODULE MCAdminQueue ----------------------------
(* Instances of AdminQueue for TLC. *)
EXTENDS AdminQueue

CONSTANTS v1, v2

MCData == {v1, v2}
OneDatum == {v1}
=============================================================================
