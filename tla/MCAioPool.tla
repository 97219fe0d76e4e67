------------------------------ MODULE MCAioPool ------------------------------
(* AioPool for TLC. *)
EXTENDS AioPool

CONSTANTS r1, r2, t1, t2

TwoReqs == {r1, r2}
TwoThreads == {t1, t2}
=============================================================================
