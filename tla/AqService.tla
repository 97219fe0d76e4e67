----------------------------- MODULE AqService -----------------------------
(***************************************************************************)
(* What the device promises the driver about one Admin Queue command: a    *)
(* descriptor that was handed over comes back executed, by the firmware or *)
(* by the device itself, and the indirect buffer comes back as it went.    *)
(* AdminChannel, the socket protocol behind the device, implements this    *)
(* specification; AdminQueue uses it as the device's behaviour.            *)
(***************************************************************************)
EXTENDS AdminDesc

CONSTANTS
    Commands,   \* the descriptors a guest may post
    Data        \* contents of an indirect buffer

VARIABLES
    busy,       \* a tail write is being served (e1000_set_atq_tail is running)
    slot,       \* the descriptor in guest memory
    buf         \* the indirect buffer in guest memory

svcVars == <<busy, slot, buf>>

SvcInit ==
    /\ busy = FALSE
    /\ slot \in Commands
    /\ buf \in Data

Post(c, v) ==
    /\ ~busy
    /\ busy' = TRUE
    /\ slot' = c
    /\ buf' = v

Finish ==
    /\ busy
    /\ busy' = FALSE
    /\ slot' \in Answers(slot)
    /\ buf' = buf

SvcNext == (\E c \in Commands, v \in Data : Post(c, v)) \/ Finish

SvcSpec == SvcInit /\ [][SvcNext]_svcVars
=============================================================================
