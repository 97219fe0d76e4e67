------------------------------ MODULE E1000Rx -------------------------------
(***************************************************************************)
(* The receive ring of the e1000 device and its interrupt, with the Linux  *)
(* driver of src/drivers on the other side.                                *)
(*                                                                         *)
(* The device runs under QEMU's global mutex: e1000_receive and a register *)
(* access exclude each other, but the guest reads and writes the ring in   *)
(* memory meanwhile.  RDH, RDT and RCTL are coalesced registers: a write   *)
(* joins a FIFO that is emptied later, at the latest before the next       *)
(* access to a register that is not (ICR, ICS, IMS, IMC) or a read.        *)
(*                                                                         *)
(* A frame that receive_filter rejects, or that is larger than the         *)
(* buffers, changes nothing.  The driver is the NAPI one: an interrupt     *)
(* masks the device and starts a poll, the poll cleans descriptors and     *)
(* refills the ring and unmasks the device when it finds no more work.     *)
(***************************************************************************)
EXTENDS Naturals, Sequences, FiniteSets

CONSTANTS
    N,              \* descriptors of the ring, RDLEN / 16
    MinShift,       \* rxbuf_min_shift
    Frames,         \* what a frame may hold
    None,           \* no frame
    Budget,         \* the budget of one poll
    RefillAt,       \* E1000_RX_BUFFER_WRITE
    Early,          \* may frames arrive before the ring is first filled, or
                    \* that filling fall short?
    Snapshots,      \* may the machine be saved and restored?
    MaxFails        \* bound: failing allocations

ASSUME RxAssumption ==
    /\ N \in Nat /\ N > 2
    /\ MinShift \in Nat
    /\ None \notin Frames
    /\ Budget \in Nat \ {0}
    /\ RefillAt \in Nat \ {0}
    /\ Early \in BOOLEAN
    /\ Snapshots \in BOOLEAN
    /\ MaxFails \in Nat

VARIABLES
    rdh, rdt,       \* the registers RDH and RDT
    en,             \* RCTL.EN
    check_rxov,
    icr, ims, line, \* the interrupt causes, their mask and the INTx pin
    rpc,            \* where e1000_receive is
    rframe,         \* the frame it was given
    rdesc,          \* its copy of a descriptor
    rdh_start,
    ring,           \* the descriptors; frame is what the buffer holds
    mmio,           \* coalesced register writes
    gpc,            \* where the driver is
    ntc, ntu,       \* next_to_clean and next_to_use
    mapped,         \* the descriptors whose buffer is mapped for the device
    gi,             \* the index i of e1000_clean_rx_irq
    ai,             \* the index i of e1000_alloc_rx_buffers
    need,           \* its argument cleaned_count
    work,           \* *work_done
    cleaned,        \* cleaned_count of e1000_clean_rx_irq
    discarding,     \* E1000_FLAG_IS_DISCARDING
    pending,        \* history: frames stored and not yet cleaned, at most N
    fails

regs == <<rdh, rdt, en, check_rxov>>
irq == <<icr, ims, line>>
rvars == <<rpc, rframe, rdesc, rdh_start>>
gvars == <<ntc, ntu, gi, ai, need, work, cleaned, discarding, fails>>
vars == <<regs, irq, rvars, ring, mmio, gpc, gvars, mapped, pending>>

Slots == 0 .. N - 1
Causes == {"RXT0", "RXDMT0", "RXO", "LSC"}
IMS_ENABLE_MASK == {"RXT0", "RXDMT0", "LSC"}

\* addr: is buffer_addr set?
Desc == [addr : BOOLEAN, dd : BOOLEAN, eop : BOOLEAN, frame : Frames \cup {None}]
Zeroed == [addr |-> FALSE, dd |-> FALSE, eop |-> FALSE, frame |-> None]

\* Succ that wraps one descriptor too late.
SuccLate(i) == IF i + 1 > N THEN 0 ELSE i + 1

Succ(i) == IF i + 1 >= N THEN 0 ELSE i + 1
Pred(i) == IF i = 0 THEN N - 1 ELSE i - 1

Init ==
    /\ rdh = 0 /\ rdt = 0 /\ en = FALSE /\ check_rxov = FALSE
    /\ icr = {} /\ ims = {} /\ line = FALSE
    /\ rpc = "idle" /\ rframe = None /\ rdesc = Zeroed /\ rdh_start = 0
    /\ ring = [i \in Slots |-> Zeroed]
    /\ mmio = <<>>
    /\ gpc = "down" /\ ntc = 0 /\ ntu = 0 /\ mapped = {}
    /\ gi = 0 /\ ai = 0 /\ need = 0 /\ work = 0 /\ cleaned = 0
    /\ discarding = FALSE /\ pending = <<>> /\ fails = 0

-----------------------------------------------------------------------------
(* Interrupt causes *)

\* set_interrupt_cause, with the mask a handler has just stored.
SetInterruptCause(val, mask) ==
    /\ icr' = val
    /\ ims' = mask
    /\ line' = (mask \cap val # {})

\* set_ics that leaves the pin as it is.
set_icsQuiet(val) == icr' = icr \cup val /\ ims' = ims /\ line' = line

set_ics(val) == SetInterruptCause(icr \cup val, ims)

set_imc(val) == SetInterruptCause(icr, ims \ val)

\* set_ims without its call of set_ics.
set_imsQuiet(val) == icr' = icr /\ ims' = ims \cup val /\ line' = line

set_ims(val) == SetInterruptCause(icr, ims \cup val)

mac_icr_read == SetInterruptCause({}, ims)

-----------------------------------------------------------------------------
(* e1000_receive *)

\* The device has not yet been given the buffers of the first filling.
Unfilled == gpc = "fill" \/ (gpc = "up" /\ mmio # <<>>)

\* e1000_can_receive lets the frame through; the loop starts.
Receive(f) ==
    /\ rpc = "idle" /\ en
    /\ Early \/ ~Unfilled
    /\ rframe' = f /\ rdh_start' = rdh
    /\ rpc' = "desc"
    /\ UNCHANGED <<regs, irq, rdesc, ring, mmio, gpc, gvars, mapped, pending>>

\* e1000_receive returns, and its variables are gone.
RxReturn == rpc' = "idle" /\ rframe' = None /\ rdesc' = Zeroed /\ rdh_start' = 0

\* The ring is full: the frame is dropped.
RxOverrun ==
    /\ rpc = "desc" /\ rdh = rdt /\ check_rxov
    /\ set_ics({"RXO"})
    /\ RxReturn
    /\ UNCHANGED <<regs, ring, mmio, gpc, gvars, mapped, pending>>

\* Without check_rxov a full ring and an empty one look the same.
RxReadAlways ==
    /\ rpc = "desc"
    /\ rdesc' = ring[rdh]
    /\ rpc' = "write"
    /\ UNCHANGED <<regs, irq, rframe, rdh_start, ring, mmio, gpc, gvars, mapped, pending>>

RxRead ==
    /\ rpc = "desc" /\ ~(rdh = rdt /\ check_rxov)
    /\ rdesc' = ring[rdh]
    /\ rpc' = "write"
    /\ UNCHANGED <<regs, irq, rframe, rdh_start, ring, mmio, gpc, gvars, mapped, pending>>

\* What e1000_receive writes back: the descriptor it read, now with DD and,
\* if there is a buffer, the frame.
Completed ==
    IF rdesc.addr
    THEN [rdesc EXCEPT !.dd = TRUE, !.eop = TRUE, !.frame = rframe]
    ELSE [rdesc EXCEPT !.dd = TRUE]

\* The causes of an accepted frame; h is the new RDH.
RxCauses(h) ==
    LET free == IF rdt < h THEN rdt + N - h ELSE rdt - h
    IN  {"RXT0"} \cup (IF free <= N \div (2^MinShift) THEN {"RXDMT0"} ELSE {})

\* RxWrite that stays at a null descriptor.
RxWriteStays ==
    /\ rpc = "write"
    /\ ring' = [ring EXCEPT ![rdh] = Completed]
    /\ rdh' = (IF rdesc.addr THEN Succ(rdh) ELSE rdh) /\ check_rxov' = rdesc.addr
    /\ rpc' = IF rdesc.addr THEN "idle" ELSE "desc"
    /\ UNCHANGED <<rdt, en, irq, rframe, rdesc, rdh_start, mmio, gpc, gvars, mapped, pending>>

\* The write-back, the new head and the end of the loop: a wrap-around, a
\* frame accepted, or a null descriptor that is skipped.
RxWrite ==
    /\ rpc = "write"
    /\ ring' = [ring EXCEPT ![rdh] = Completed]
    /\ rdh' = Succ(rdh) /\ check_rxov' = TRUE
    /\ \/ rdh' = rdh_start /\ RxReturn /\ set_ics({"RXO"})
       \/ rdh' # rdh_start /\ rdesc.addr /\ RxReturn /\ set_ics(RxCauses(rdh'))
       \/ /\ rdh' # rdh_start /\ ~rdesc.addr /\ rpc' = "desc" /\ rdesc' = Zeroed
          /\ UNCHANGED <<irq, rframe, rdh_start>>
    /\ pending' = IF rdesc.addr /\ Len(pending) < N THEN Append(pending, rframe) ELSE pending
    /\ UNCHANGED <<rdt, en, mmio, gpc, gvars, mapped>>

-----------------------------------------------------------------------------
(* Register writes *)

Write(reg, val) == [reg |-> reg, val |-> val]

\* One coalesced write reaches the device.
Flush ==
    /\ rpc = "idle" /\ mmio # <<>>
    /\ mmio' = Tail(mmio)
    /\ LET w == Head(mmio)
       IN  /\ rdh' = IF w.reg = "RDH" THEN w.val ELSE rdh
           /\ rdt' = IF w.reg = "RDT" THEN w.val ELSE rdt
           /\ check_rxov' = (w.reg # "RDT" /\ check_rxov)
           /\ en' = IF w.reg = "RCTL" THEN w.val = 1 ELSE en
    /\ UNCHANGED <<irq, rvars, ring, gpc, gvars, mapped, pending>>

\* The guest may access a register that is not coalesced.
Reached == rpc = "idle" /\ mmio = <<>>

-----------------------------------------------------------------------------
(* The driver *)

Unused == (IF ntc > ntu THEN 0 ELSE N) + ntc - ntu - 1

\* e1000_configure_rx, and the call of e1000_alloc_rx_buffers that follows.
Configure ==
    /\ gpc = "down" /\ Reached
    /\ mmio' = <<Write("RDH", 0), Write("RDT", 0), Write("RCTL", 1)>>
    /\ need' = Unused /\ ai' = ntu
    /\ gpc' = "fill"
    /\ UNCHANGED <<regs, irq, rvars, ring, ntc, ntu, gi, work, cleaned, discarding,
                   fails, mapped, pending>>

\* Where e1000_alloc_rx_buffers was called from, and what follows the call.
Allocating == {"fill", "refill", "last"}
After(pc) == CASE pc = "fill"   -> "up"
               [] pc = "refill" -> "poll"
               [] OTHER         -> "enable"

\* One buffer for the ring.
Alloc ==
    /\ gpc \in Allocating /\ need > 0
    /\ ring' = [ring EXCEPT ![ai].addr = TRUE]
    /\ mapped' = mapped \cup {ai}
    /\ ai' = Succ(ai) /\ need' = need - 1
    /\ UNCHANGED <<regs, irq, rvars, mmio, gpc, ntc, ntu, gi, work, cleaned, discarding,
                   fails, pending>>

\* The allocator has no memory: "better luck next round".
AllocFails ==
    /\ gpc \in Allocating /\ need > 0 /\ fails < MaxFails
    /\ gpc = "fill" => Early
    /\ need' = 0 /\ fails' = fails + 1
    /\ UNCHANGED <<regs, irq, rvars, ring, mmio, gpc, ntc, ntu, gi, ai, work, cleaned,
                   discarding, mapped, pending>>

\* The end of e1000_alloc_rx_buffers, and of e1000_poll after the last one.
AllocEnds ==
    /\ gpc \in Allocating /\ need = 0
    /\ ntu' = ai
    /\ mmio' = IF ai # ntu THEN Append(mmio, Write("RDT", Pred(ai))) ELSE mmio
    /\ cleaned' = 0
    /\ gpc' = IF gpc = "last" /\ work >= Budget THEN "repoll" ELSE After(gpc)
    /\ work' = IF gpc = "last" THEN 0 ELSE work
    /\ UNCHANGED <<regs, irq, rvars, ring, ntc, gi, ai, need, discarding, fails,
                   mapped, pending>>

\* e1000_irq_enable, from e1000_up or from e1000_poll.
Enable ==
    /\ gpc \in {"up", "enable"} /\ Reached
    /\ set_ims(IMS_ENABLE_MASK)
    /\ gpc' = IF gpc = "up" THEN "lsc" ELSE "idle"
    /\ UNCHANGED <<regs, rvars, ring, mmio, gvars, mapped, pending>>

\* set_ics by the driver.
Ics(cause, from) ==
    /\ gpc = from /\ Reached
    /\ set_ics({cause})
    /\ gpc' = "idle"
    /\ UNCHANGED <<regs, rvars, ring, mmio, gvars, mapped, pending>>

\* e1000_up fires a link change, the watchdog every two seconds RXDMT0.
Link == Ics("LSC", "lsc")
Watchdog == Ics("RXDMT0", "idle")

\* e1000_intr reads ICR.
Intr ==
    /\ gpc = "idle" /\ line /\ Reached
    /\ mac_icr_read
    /\ gpc' = IF icr = {} THEN "idle" ELSE "imc"
    /\ UNCHANGED <<regs, rvars, ring, mmio, gvars, mapped, pending>>

\* e1000_intr masks the device and schedules the poll.
Mask ==
    /\ gpc = "imc" /\ Reached
    /\ set_imc(Causes)
    /\ gpc' = "poll" /\ gi' = ntc /\ work' = 0 /\ cleaned' = 0
    /\ UNCHANGED <<regs, rvars, ring, mmio, ntc, ntu, ai, need, discarding, fails,
                   mapped, pending>>

\* The next call of e1000_poll, after one that used up its budget.
Repoll ==
    /\ gpc = "repoll"
    /\ gpc' = "poll" /\ gi' = ntc /\ work' = 0 /\ cleaned' = 0
    /\ UNCHANGED <<regs, irq, rvars, ring, mmio, ntc, ntu, ai, need, discarding, fails,
                   mapped, pending>>

Ready == ring[gi].dd /\ work < Budget

\* One turn of the loop of e1000_clean_rx_irq.  A descriptor without EOP is
\* tossed, and so is the frame after it.
Clean ==
    /\ gpc = "poll" /\ Ready
    /\ discarding' = ~ring[gi].eop
    /\ pending' = IF ring[gi].eop /\ pending # <<>> THEN Tail(pending) ELSE pending
    /\ ring' = [ring EXCEPT ![gi].dd = FALSE, ![gi].eop = FALSE, ![gi].frame = None]
    /\ mapped' = mapped \ {gi}
    /\ gi' = Succ(gi) /\ work' = work + 1 /\ cleaned' = cleaned + 1
    /\ \/ cleaned' < RefillAt /\ UNCHANGED <<gpc, need, ai>>
       \/ cleaned' >= RefillAt /\ gpc' = "refill" /\ need' = cleaned' /\ ai' = ntu
    /\ UNCHANGED <<regs, irq, rvars, mmio, ntc, ntu, fails>>

\* The loop ends: next_to_clean is stored and the ring refilled.
CleanEnds ==
    /\ gpc = "poll" /\ ~Ready
    /\ ntc' = gi
    /\ need' = (IF gi > ntu THEN 0 ELSE N) + gi - ntu - 1 /\ ai' = ntu
    /\ gpc' = "last"
    /\ UNCHANGED <<regs, irq, rvars, ring, mmio, ntu, gi, work, cleaned, discarding,
                   fails, mapped, pending>>

\* e1000_down: receives are disabled and the rings emptied.
Down ==
    /\ gpc = "idle" /\ Reached
    /\ rdh' = 0 /\ rdt' = 0 /\ check_rxov' = FALSE /\ en' = FALSE
    /\ SetInterruptCause({}, {})
    /\ ring' = [i \in Slots |-> Zeroed] /\ mapped' = {}
    /\ ntc' = 0 /\ ntu' = 0 /\ discarding' = FALSE /\ pending' = <<>>
    /\ gi' = 0 /\ ai' = 0
    /\ gpc' = "down"
    /\ UNCHANGED <<rvars, mmio, need, work, cleaned, fails>>

Driver ==
    \/ Configure \/ Alloc \/ AllocEnds \/ Enable \/ Link \/ Intr \/ Mask \/ Repoll
    \/ Clean \/ CleanEnds

\* The machine is saved and its state loaded into a fresh device: of this
\* state the description lacks only check_rxov.
SaveRestore ==
    /\ Snapshots /\ Reached
    /\ check_rxov' = FALSE
    /\ UNCHANGED <<rdh, rdt, en, irq, rvars, ring, mmio, gpc, gvars, mapped, pending>>

-----------------------------------------------------------------------------
Receiving == RxOverrun \/ RxRead \/ RxWrite

Next ==
    \/ \E f \in Frames : Receive(f)
    \/ Receiving \/ Flush \/ Driver \/ AllocFails \/ Watchdog \/ Down \/ SaveRestore

Spec == Init /\ [][Next]_vars

\* e1000_receive runs to its end; a thread that waits for the global mutex, to
\* empty the FIFO or for a register access, gets it between two frames.
FairSpec == Spec /\ WF_vars(Receiving) /\ SF_vars(Flush) /\ SF_vars(Driver)

-----------------------------------------------------------------------------
(* Properties *)

GPcs == Allocating \cup
        {"down", "up", "lsc", "idle", "imc", "poll", "repoll", "enable"}

Writes ==
    [reg : {"RDH", "RDT"}, val : Slots] \cup [reg : {"RCTL"}, val : {0, 1}]

\* Every variable has its type: the head and tail registers and the driver's
\* indices stay on the ring, whatever the order of their updates.
TypeOK ==
    /\ rdh \in Slots /\ rdt \in Slots /\ en \in BOOLEAN /\ check_rxov \in BOOLEAN
    /\ icr \subseteq Causes /\ ims \subseteq Causes /\ line \in BOOLEAN
    /\ rpc \in {"idle", "desc", "write"}
    /\ rframe \in Frames \cup {None} /\ rdesc \in Desc /\ rdh_start \in Slots
    /\ ring \in [Slots -> Desc]
    /\ mmio \in Seq(Writes)
    /\ gpc \in GPcs
    /\ ntc \in Slots /\ ntu \in Slots /\ gi \in Slots /\ ai \in Slots
    /\ mapped \subseteq Slots /\ need \in 0 .. N - 1
    /\ work \in 0 .. Budget /\ cleaned \in Nat /\ discarding \in BOOLEAN
    /\ fails \in 0 .. MaxFails

\* e1000_receive stores a frame only in a buffer the driver has mapped for
\* the device, and never over a frame the driver has not yet cleaned.
NoOverwrite ==
    rpc = "write" /\ rdesc.addr => rdh \in mapped /\ ~ring[rdh].dd

\* The frames the device has stored and the driver has not handed on are
\* exactly the completed descriptors from next_to_clean on, in the order of
\* their arrival: none is lost, doubled or overtaken.
Lossless ==
    /\ \A k \in 1 .. Len(pending) :
         LET d == ring[(gi + k - 1) % N]
         IN  d.dd /\ d.eop /\ d.frame = pending[k]
    /\ Cardinality({i \in Slots : ring[i].dd}) = Len(pending)

\* A stored frame brings the driver's poll to its descriptor, however
\* e1000_receive, the reading of ICR, the mask and the unmask interleave: no
\* interrupt is lost between them.  (A driver that goes down drops the frame.)
FrameServed == pending # <<>> ~> (gpc = "poll" /\ ring[gi].dd) \/ gpc = "down"

\* e1000_receive, which runs with QEMU's global mutex held, comes to an end,
\* also on a ring of null descriptors that the driver is about to fill.
ReceiveEnds == rpc # "idle" ~> rpc = "idle"

\* A device whose ring has run full gets new descriptors, even if the driver
\* found no memory when it cleaned the ring: RXO alone interrupts nobody, but
\* the watchdog's timer fires again and again.
Reopens == SF_vars(Watchdog) => (en /\ rdh = rdt ~> ~en \/ rdh # rdt)

=============================================================================
