----------------------------- MODULE AdminQueue -----------------------------
(***************************************************************************)
(* The Admin Send Queue between the guest's e1000 driver and the QEMU      *)
(* device: a ring of descriptors in guest memory and five registers.       *)
(*                                                                         *)
(* The registers lie in the range e1000_mmio_map registers for coalescing, *)
(* so under KVM a register write only joins a FIFO, which QEMU empties     *)
(* later (kvm_flush_coalesced_mmio_buffer) while the guest runs on.        *)
(* Without KVM the guest waits for each write: Coalesced = FALSE.          *)
(*                                                                         *)
(* e1000_set_atq_tail serves one descriptor per tail write, the one at the *)
(* head register, whatever the tail.  What happens between its reading the *)
(* descriptor and writing it back is what AqService promises.              *)
(*                                                                         *)
(* The driver holds asq_spinlock from the filling of a descriptor to its   *)
(* completion or timeout, and in shutdown, so it is one process.  Its only *)
(* callers are the probe and remove routines and the watchdog task, which  *)
(* all access a register that is not coalesced between two commands (the   *)
(* watchdog ends by writing ICS): such an access waits until QEMU has      *)
(* emptied the FIFO.  Only the first command follows the initialisation's  *)
(* writes without one.                                                     *)
(***************************************************************************)
EXTENDS AdminDesc, Sequences

CONSTANTS
    N,              \* num_asq_entries
    Regions,        \* where the allocator may place the ring
    Data,           \* contents of an indirect buffer
    Cookies,        \* bound: cookies are counted modulo this number
    Coalesced,      \* are register writes queued by KVM?
    Timely          \* do the writes of the initialisation arrive in time?

ASSUME QueueAssumption ==
    /\ N \in Nat \ {0}
    /\ 0 \notin Regions
    /\ Cookies \in Nat \ {0}
    /\ Coalesced \in BOOLEAN
    /\ Timely \in BOOLEAN

VARIABLES
    dpc,        \* where the driver is
    cmd,        \* the descriptor it sends
    sent,       \* the contents of the buffer it sends
    cookie,     \* the static counter of e1000_fill_default_direct_cmd_desc
    next_to_use,
    region,     \* where the ring is; 0 while none is allocated
    ring,       \* the descriptors
    bufs,       \* the mapped buffers, one per descriptor
    mmio,       \* register writes on their way to the device
    atqba, atqlen, atqh, atqt,      \* the registers
    qpc,        \* where e1000_set_atq_tail is
    ddesc,      \* its copy of the descriptor
    dbuf        \* and of the buffer

driverVars == <<dpc, cmd, sent, cookie, next_to_use, region>>
regs == <<atqba, atqlen, atqh, atqt>>
vars == <<driverVars, ring, bufs, mmio, regs, qpc, ddesc, dbuf>>

Slots == 0 .. N - 1

\* The next position on a ring of n descriptors.
Wrap(i, n) == IF i + 1 >= n THEN 0 ELSE i + 1

\* The descriptor the driver is waiting for is the one before next_to_use.
InUse == IF next_to_use = 0 THEN N - 1 ELSE next_to_use - 1

Write(reg, val) == [reg |-> reg, val |-> val]

Init ==
    /\ dpc = "off" /\ cmd = Fresh(0, 0) /\ sent \in Data /\ cookie = 0
    /\ next_to_use = 0 /\ region = 0
    /\ ring = [i \in Slots |-> Fresh(0, 0)] /\ bufs \in [Slots -> Data]
    /\ mmio = <<>>
    /\ atqba = 0 /\ atqlen = 0 /\ atqh = 0 /\ atqt = 0
    /\ qpc = "idle" /\ ddesc = Fresh(0, 0) /\ dbuf \in Data

\* The device has nothing left to do.
Drained == mmio = <<>> /\ qpc = "idle"

\* The driver can run.
Running == Coalesced \/ Drained

\* The initial write of the head register has reached the device.
Settled == \A i \in 1 .. Len(mmio) : mmio[i].reg # "ATQH"

-----------------------------------------------------------------------------
(* The driver *)

\* Config with the tail register first.
ConfigTailFirst(g) ==
    <<Write("ATQT", 0), Write("ATQH", 0), Write("ATQBA", g), Write("ATQLEN", N)>>

\* The register writes of e1000_config_adminq_regs; the two halves of the
\* address are one register.
Config(g) ==
    <<Write("ATQBA", g), Write("ATQLEN", N), Write("ATQT", 0), Write("ATQH", 0)>>

\* e1000_init_adminq up to its first command.  The probe routine has just read
\* device registers, and a read reaches QEMU only after the FIFO is empty.
Start(g) ==
    /\ dpc = "off"
    /\ Drained
    /\ region' = g
    /\ ring' = [i \in Slots |-> Fresh(0, 0)]
    /\ next_to_use' = 0
    /\ mmio' = Config(g)
    /\ dpc' = "first"
    /\ UNCHANGED <<cmd, sent, cookie, bufs, regs, qpc, ddesc, dbuf>>

\* A command is put on the ring, as yet without its buffer.  The first one
\* is e1000_aq_get_firmware_version, the others come from adminq_cmd.
Fill(op, v) ==
    /\ dpc \in {"first", "idle"} /\ Running
    /\ dpc = "idle" \/ Timely => Drained
    /\ dpc = "first" => op = aqc_get_version
    /\ cookie' = (cookie % Cookies) + 1
    /\ cmd' = Fresh(op, cookie')
    /\ sent' = v
    /\ ring' = [ring EXCEPT ![next_to_use] = cmd']
    /\ dpc' = IF op = aqc_echo THEN "buf" ELSE "bump"
    /\ UNCHANGED <<next_to_use, region, bufs, mmio, regs, qpc, ddesc, dbuf>>

\* The descriptor gets the length and the address of the i-th mapped buffer.
Indirect(d, i) == [d EXCEPT !.datalen = 1, !.addr = i + 1]

\* The buffer of an indirect command.
FillBuf ==
    /\ dpc = "buf" /\ Running
    /\ cmd' = Indirect(cmd, next_to_use)
    /\ bufs' = [bufs EXCEPT ![next_to_use] = sent]
    /\ ring' = [ring EXCEPT ![next_to_use] = Indirect(@, next_to_use)]
    /\ dpc' = "bump"
    /\ UNCHANGED <<sent, cookie, next_to_use, region, mmio, regs, qpc, ddesc, dbuf>>

\* Bump that lets next_to_use reach the number of descriptors.
BumpLate ==
    /\ dpc = "bump" /\ Running
    /\ next_to_use' = IF next_to_use = N THEN 0 ELSE next_to_use + 1
    /\ mmio' = Append(mmio, Write("ATQT", next_to_use'))
    /\ dpc' = "wait"
    /\ UNCHANGED <<cmd, sent, cookie, region, ring, bufs, regs, qpc, ddesc, dbuf>>

Bump ==
    /\ dpc = "bump" /\ Running
    /\ next_to_use' = IF next_to_use + 1 = N THEN 0 ELSE next_to_use + 1
    /\ mmio' = Append(mmio, Write("ATQT", next_to_use'))
    /\ dpc' = "wait"
    /\ UNCHANGED <<cmd, sent, cookie, region, ring, bufs, regs, qpc, ddesc, dbuf>>

\* The poll ends: DD is set and the descriptor and the buffer are copied back,
\* or E1000_ASQ_CMD_TIMEOUT has passed and nothing is.
Completed == dpc = "wait" /\ Running /\ ring[InUse].dd
TimedOut == dpc = "wait" /\ Running /\ ~ring[InUse].dd

EndPoll ==
    /\ Completed \/ TimedOut
    /\ dpc' = "idle"
    /\ UNCHANGED <<cmd, sent, cookie, next_to_use, region, ring, bufs, mmio, regs,
                   qpc, ddesc, dbuf>>

\* e1000_shutdown_adminq: the memory goes first, then the length register.
\* The remove routine has waited for the watchdog task to end.
Shutdown ==
    /\ dpc = "idle" /\ Drained
    /\ region' = 0
    /\ mmio' = Append(mmio, Write("ATQLEN", 0))
    /\ dpc' = "off"
    /\ UNCHANGED <<cmd, sent, cookie, next_to_use, ring, bufs, regs, qpc, ddesc, dbuf>>

Driver ==
    \/ \E g \in Regions : Start(g)
    \/ \E op \in {aqc_get_version, aqc_echo}, v \in Data : Fill(op, v)
    \/ FillBuf
    \/ Bump
    \/ EndPoll
    \/ Shutdown

-----------------------------------------------------------------------------
(* The device *)

\* What the device addresses is the ring the driver uses.
OnRing == region # 0 /\ atqba = region

\* mac_writereg: a register other than the tail.
WriteReg ==
    /\ qpc = "idle"
    /\ mmio # <<>>
    /\ LET w == Head(mmio)
       IN  /\ w.reg # "ATQT"
           /\ atqba' = IF w.reg = "ATQBA" THEN w.val ELSE atqba
           /\ atqlen' = IF w.reg = "ATQLEN" THEN w.val ELSE atqlen
           /\ atqh' = IF w.reg = "ATQH" THEN w.val ELSE atqh
    /\ mmio' = Tail(mmio)
    /\ UNCHANGED <<driverVars, ring, bufs, atqt, qpc, ddesc, dbuf>>

\* TailWrite that serves the descriptor at the tail.
TailWriteAtTail ==
    /\ qpc = "idle"
    /\ mmio # <<>>
    /\ Head(mmio).reg = "ATQT"
    /\ mmio' = Tail(mmio)
    /\ atqt' = Head(mmio).val
    /\ ddesc' = ring[atqt']
    /\ qpc' = IF ddesc'.datalen > 0 THEN "read" ELSE "serve"
    /\ UNCHANGED <<driverVars, ring, bufs, atqba, atqlen, atqh, dbuf>>

\* e1000_set_atq_tail up to the exchange with the firmware.  Memory that was
\* freed may hold what it held or something else.
TailWrite ==
    /\ qpc = "idle"
    /\ mmio # <<>>
    /\ Head(mmio).reg = "ATQT"
    /\ mmio' = Tail(mmio)
    /\ atqt' = Head(mmio).val
    /\ ddesc' \in {ring[atqh]} \cup IF OnRing THEN {} ELSE {Fresh(0, 0)}
    /\ qpc' = IF ddesc'.datalen > 0 THEN "read" ELSE "serve"
    /\ UNCHANGED <<driverVars, ring, bufs, atqba, atqlen, atqh, dbuf>>

\* The indirect buffer is read and sent.
ReadBuf ==
    /\ qpc = "read"
    /\ dbuf' = bufs[ddesc.addr - 1]
    /\ qpc' = "serve"
    /\ UNCHANGED <<driverVars, ring, bufs, mmio, regs, ddesc>>

\* The firmware answered, or the device fell back on its own switch, which
\* reads the buffer of an echo command once more.
Serve ==
    /\ qpc = "serve"
    /\ ddesc' \in Answers(ddesc)
    /\ dbuf' \in {dbuf} \cup IF ddesc.datalen > 0 THEN {bufs[ddesc.addr - 1]} ELSE {}
    /\ qpc' = IF ddesc.datalen > 0 THEN "wbuf" ELSE "wdesc"
    /\ UNCHANGED <<driverVars, ring, bufs, mmio, regs>>

WriteBuf ==
    /\ qpc = "wbuf"
    /\ bufs' = IF OnRing THEN [bufs EXCEPT ![ddesc.addr - 1] = dbuf] ELSE bufs
    /\ qpc' = "wdesc"
    /\ UNCHANGED <<driverVars, ring, mmio, regs, ddesc, dbuf>>

\* WriteBack with > for >= in the test that wraps the head.
WriteBackLate ==
    /\ qpc = "wdesc"
    /\ ring' = IF OnRing THEN [ring EXCEPT ![atqh] = ddesc] ELSE ring
    /\ atqh' = IF atqh + 1 > atqlen THEN 0 ELSE atqh + 1
    /\ qpc' = "idle"
    /\ UNCHANGED <<driverVars, bufs, mmio, atqba, atqlen, atqt, ddesc, dbuf>>

\* The descriptor is written back and the head moves on.
WriteBack ==
    /\ qpc = "wdesc"
    /\ ring' = IF OnRing THEN [ring EXCEPT ![atqh] = ddesc] ELSE ring
    /\ atqh' = Wrap(atqh, atqlen)
    /\ qpc' = "idle"
    /\ UNCHANGED <<driverVars, bufs, mmio, atqba, atqlen, atqt, ddesc, dbuf>>

Device == WriteReg \/ TailWrite \/ ReadBuf \/ Serve \/ WriteBuf \/ WriteBack

Next == Driver \/ Device

Spec == Init /\ [][Next]_vars

-----------------------------------------------------------------------------
(* Properties *)

Reg == {"ATQBA", "ATQLEN", "ATQT", "ATQH"}

\* Every variable of the driver, of the device and of the FIFO between them
\* holds a value of its C type, and the head register an index of the ring.
TypeOK ==
    /\ dpc \in {"off", "first", "idle", "buf", "bump", "wait"}
    /\ cmd \in Desc /\ ddesc \in Desc /\ ring \in [Slots -> Desc]
    /\ sent \in Data /\ dbuf \in Data /\ bufs \in [Slots -> Data]
    /\ cookie \in 0 .. Cookies
    /\ next_to_use \in Slots /\ atqh \in Slots /\ atqt \in Slots
    /\ region \in Regions \cup {0} /\ atqba \in Regions \cup {0}
    /\ atqlen \in {0, N}
    /\ mmio \in Seq([reg : Reg, val : Nat \cup Regions])
    /\ qpc \in {"idle", "read", "serve", "wbuf", "wdesc"}

\* The device counts the descriptors it serves in ATQH and never compares it
\* with ATQT; the driver counts those it posts in next_to_use and never reads
\* ATQH.  However late the writes arrive, the two counts agree: a tail write
\* leaves the head where the tail is, and once every write is served the head
\* is the next descriptor the driver will use.
HeadInStep ==
    /\ Settled => atqt = IF qpc = "idle" THEN atqh ELSE Wrap(atqh, N)
    /\ Drained /\ region # 0 => atqh = next_to_use

\* What e1000_asq_send_command hands its caller when it finds DD set is the
\* answer to the command it sent, and the buffer of an echo is the one it sent.
CompletionMatches ==
    dpc = "wait" /\ ring[InUse].dd =>
        /\ ring[InUse] \in Answers(cmd)
        /\ cmd.datalen > 0 => bufs[InUse] = sent

\* If the guest waits for each register write, no command times out: DD is
\* set when the tail write returns.
AnsweredAtOnce == ~Coalesced => ~TimedOut

\* The device reads and writes descriptors and buffers only in the memory the
\* driver has allocated for them.
DmaOnRing == qpc # "idle" => OnRing
=============================================================================
