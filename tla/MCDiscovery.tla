---------------------------- MODULE MCDiscovery -----------------------------
(* Discovery for TLC: how the processes may be started.                     *)
EXTENDS Discovery

CONSTANTS c1, c2

TwoClients == {c1, c2}

Setting(packets, timeout, n1, n2, faults) ==
    [packets |-> packets, timeout |-> timeout, faults |-> faults,
     tries |-> [c \in TwoClients |-> IF c = c1 THEN n1 ELSE n2]]

\* Everything may fail but leaving the multicast group.
CallsFail == (Calls \ {"leave"}) \cup {"die"}

Settings == {
    Setting(0, 0, 2, 2, {}),
    Setting(0, 10, 1, 1, {}),
    Setting(2, 10, 2, 0, CallsFail),
    Setting(1, 10, 1, 1, {"accept", "die"}),
    Setting(1, 10, 2, 0, {"leave", "die"})}
=============================================================================
