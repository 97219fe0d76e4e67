----------------------------- MODULE MCE1000Tx ------------------------------
(* E1000Tx for TLC. *)
EXTENDS E1000Tx

Plain(cuts) ==
    [tso |-> FALSE, sum |-> FALSE, vlan |-> FALSE, hdr |-> 2, pay |-> 1, mss |-> 0, cuts |-> cuts]
Csum == [Plain(<<2, 1>>) EXCEPT !.sum = TRUE, !.vlan = TRUE]

\* Segmented packets: five bytes of header and payload in buffers cut in every
\* way, also inside the header.
Cuts(n) ==
    IF n = 0 THEN {<<>>}
    ELSE {<<n>>} \cup {<<a, n - a>> : a \in 1 .. n - 1}
         \cup UNION {{<<a, b, n - a - b>> : b \in 1 .. n - a - 1} : a \in 1 .. n - 2}
Tso(hdr, pay, mss) ==
    {[tso |-> TRUE, sum |-> TRUE, vlan |-> hdr = 1, hdr |-> hdr, pay |-> pay, mss |-> mss,
      cuts |-> c] : c \in Cuts(hdr + pay)}

SomePackets ==
    {Plain(<<1, 2>>), Csum} \cup Tso(2, 3, 2) \cup Tso(1, 4, 2) \cup Tso(2, 1, 3)

TwoTags == {1, 2}

=============================================================================
