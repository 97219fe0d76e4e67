----------------------------- MODULE AdminDesc -----------------------------
(***************************************************************************)
(* The Admin Queue descriptor (struct e1000_aq_desc) and what executing a  *)
(* command does to it, once in the firmware thread and once in the QEMU    *)
(* device's own fallback.                                                  *)
(*                                                                         *)
(* A descriptor keeps the fields the properties tell apart.  The two       *)
(* cookie words are one number, the two parameter words are one field that *)
(* is "zero" until a version is stored in it, the two address words are    *)
(* one address (0 when the command has no buffer), and of the flags only   *)
(* DD is kept: nothing in the device or the firmware reads the others.     *)
(***************************************************************************)
EXTENDS Integers

aqc_get_version == 1
aqc_driver_heartbeat == 2
aqc_echo == 3

RC_OK == 0
RC_ENOSYS == 1

Desc == [opcode  : Nat,
         datalen : Nat,
         cookie  : Nat,
         retval  : Nat,
         dd      : BOOLEAN,
         param   : {"zero", "version"},
         addr    : Nat]

\* A descriptor as e1000_fill_default_direct_cmd_desc leaves it: all zero but
\* for the opcode and the cookie.
Fresh(opcode, cookie) ==
    [opcode |-> opcode, datalen |-> 0, cookie |-> cookie, retval |-> RC_OK,
     dd |-> FALSE, param |-> "zero", addr |-> 0]

\* e1000_aq_get_version: the same four numbers in the firmware and in QEMU.
GetVersion(d) == [d EXCEPT !.param = "version"]

\* FwSwitch with the error code negated, as the Linux kernel returns it.
FwSwitchNegative(d) ==
    CASE d.opcode = aqc_get_version -> GetVersion(d)
      [] d.opcode \in {aqc_driver_heartbeat, aqc_echo} -> d
      [] OTHER -> [d EXCEPT !.retval = - RC_ENOSYS]

\* The switch of t_0_entry.  Heartbeat and echo leave the descriptor alone.
FwSwitch(d) ==
    CASE d.opcode = aqc_get_version -> GetVersion(d)
      [] d.opcode \in {aqc_driver_heartbeat, aqc_echo} -> d
      [] OTHER -> [d EXCEPT !.retval = RC_ENOSYS]

\* What the firmware answers.
FwExec(d) == [FwSwitch(d) EXCEPT !.dd = TRUE]

\* The switch of e1000_set_atq_tail, taken when the firmware did not answer.
\* It has no heartbeat case.  Echo copies the guest buffer onto itself.
LocalExec(d) ==
    [ CASE d.opcode = aqc_get_version -> GetVersion(d)
        [] d.opcode = aqc_echo -> d
        [] OTHER -> [d EXCEPT !.retval = RC_ENOSYS]
      EXCEPT !.dd = TRUE ]

\* A command comes back executed by the one or by the other.
Answers(d) == {FwExec(d), LocalExec(d)}
=============================================================================
