--------------------------- MODULE MCAdminChannel ---------------------------
(* Instances of AdminChannel for TLC. *)
EXTENDS AdminChannel

CONSTANTS v1, v2, bad

MCData == {v1, v2}
OneDatum == {v1}

Cmd(opcode, cookie, len) ==
    [Fresh(opcode, cookie) EXCEPT !.datalen = len, !.addr = IF len > 0 THEN 1 ELSE 0]

\* What the driver makes the device serve: version queries, echoes of two
\* units, and the empty descriptor under the tail write of the initialisation;
\* and an echo without a buffer, which leaves echobuf set in the firmware.
\* Two cookies tell a command from the one before it.
DriverCommands ==
    {Cmd(aqc_get_version, 1, 0), Cmd(aqc_echo, 1, 2), Cmd(aqc_echo, 2, 2),
     Cmd(0, 0, 0), Cmd(aqc_echo, 1, 0)}

EchoCommands == {Cmd(aqc_echo, 2, 2)}

NoGarbage == {}
SomeGarbage == {Cmd(0, 0, 0), Cmd(aqc_echo, 3, 1)}
SomeLens == {0, 3, 9}
=============================================================================
