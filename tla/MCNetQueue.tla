----------------------------- MODULE MCNetQueue -----------------------------
(* NetQueue for TLC: the machines it looks at.                              *)
EXTENDS NetQueue

CONSTANTS nic, user, t1, t2

Machine(order, vlan, removable, links, max) ==
    [order |-> order, vlan |-> vlan, removable |-> removable, links |-> links,
     max |-> max]

Small == {
    Machine(<<nic, t1>>, FALSE, {t1}, TRUE, 3),
    Machine(<<nic, t1>>, TRUE, {t1}, TRUE, 3),
    Machine(<<nic, user>>, TRUE, {}, TRUE, 3),
    Machine(<<t1, t2>>, TRUE, {}, FALSE, 3),
    Machine(<<t1, t2>>, TRUE, {t2}, FALSE, 2),
    Machine(<<t1, t2, nic>>, TRUE, {}, FALSE, 1)}

Hub == {Machine(<<t1, t2, nic>>, TRUE, {t2}, FALSE, 2)}
=============================================================================
