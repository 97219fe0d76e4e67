---------------------------- MODULE E1000RxProofs ----------------------------
(***************************************************************************)
(* The device never stores a frame in a buffer that is not its own, and    *)
(* the driver hands on every stored frame once and in order, whatever the  *)
(* size of the ring, the budget of a poll and the number of failing        *)
(* allocations.  As in the runs about the ring, the first filling          *)
(* of it is complete and reaches the device before frames arrive (~Early), *)
(* and the machine is not restored from a snapshot (~Snapshots).           *)
(*                                                                         *)
(* Positions are compared by their distance from gi, the descriptor the    *)
(* driver looks at next.  Seen from there come, in this order: the head    *)
(* register, the tail register, the tails in the FIFO, next_to_use and, in *)
(* e1000_alloc_rx_buffers, its index ai.                                   *)
(***************************************************************************)
EXTENDS E1000Rx, Integers, SequenceTheorems, FunctionTheorems, FiniteSetTheorems, TLAPS

\* Steps from a to b along the ring.
Dist(a, b) == IF b >= a THEN b - a ELSE b - a + N

\* The driver has filled the ring and the device knows.
Running == gpc # "down" /\ ~Unfilled

\* The descriptors from gi up to here are mapped.
Edge == IF gpc \in Allocating THEN ai ELSE ntu

\* While the ring is set up the device does not use it.
SetupInv ==
    /\ gpc = "down" => ~en /\ mmio = <<>>
    /\ ~Running =>
          rdh = 0 /\ rpc = "idle" /\ gi = 0 /\ \A i \in Slots : ~ring[i].dd
    /\ gpc \in {"down", "fill"} => ntu = 0
    /\ gpc = "fill" => ai = N - 1 - need
    /\ gpc = "up" => ntu = N - 1 /\ gi = 0
    /\ Unfilled => \A k \in 1 .. Len(mmio) : mmio[k].reg = "RDH" => mmio[k].val = 0
    /\ gpc = "up" /\ mmio # <<>> => mmio[Len(mmio)] = Write("RDT", N - 2)

\* The driver asks for no more buffers than there are descriptors free.
RefillInv ==
    /\ gpc \notin {"poll", "refill"} => gi = ntc
    /\ gpc \in Allocating =>
          Dist(gi, ntu) <= Dist(gi, ai) /\ Dist(gi, ai) + need <= N - 1
    /\ gpc = "poll" => Dist(gi, ntu) + cleaned <= N - 1

MappedInv == \A i \in Slots : Dist(gi, i) < Dist(gi, Edge) => i \in mapped

\* The tails the driver has written, the last one next_to_use - 1.
TailInv ==
    Running =>
       /\ Dist(gi, rdt) < Dist(gi, ntu)
       /\ mmio = <<>> => rdt = Pred(ntu)
       /\ mmio # <<>> => mmio[Len(mmio)].val = Pred(ntu)
       /\ \A k \in 1 .. Len(mmio) :
             /\ mmio[k].reg = "RDT"
             /\ Dist(gi, rdt) < Dist(gi, mmio[k].val)
             /\ Dist(gi, mmio[k].val) < Dist(gi, ntu)
       /\ \A j, k \in 1 .. Len(mmio) :
             j < k => Dist(gi, mmio[j].val) < Dist(gi, mmio[k].val)

\* The device is at most at the tail, and what is complete is behind it.
HeadInv ==
    Running =>
       /\ Dist(gi, rdh) <= Dist(gi, rdt)
       /\ check_rxov \/ rdh # rdt
       /\ rpc = "write" => rdh # rdt
       /\ \A i \in Slots : ring[i].dd => Dist(gi, i) < Dist(gi, rdh)

RingInv == TypeOK /\ SetupInv /\ RefillInv /\ MappedInv /\ TailInv /\ HeadInv

-----------------------------------------------------------------------------
(* Distances *)

\* The ring's next and previous positions are positions.
LEMMA RingSteps ==
    ASSUME NEW a \in Slots
    PROVE  Succ(a) \in Slots /\ Pred(a) \in Slots /\ Succ(a) # a
  BY RxAssumption DEF Slots, Succ, Pred

\* A distance is less than the size of the ring and tells positions apart.
LEMMA DistType ==
    ASSUME NEW a \in Slots, NEW b \in Slots, NEW c \in Slots
    PROVE  /\ Dist(a, b) \in 0 .. N - 1 /\ Dist(a, a) = 0
           /\ Dist(a, b) = Dist(a, c) => b = c
  BY RxAssumption DEF Slots, Dist

\* Moving the far end on.
LEMMA DistSucc ==
    ASSUME NEW a \in Slots, NEW b \in Slots, Dist(a, b) < N - 1
    PROVE  Dist(a, Succ(b)) = Dist(a, b) + 1
  BY RxAssumption DEF Slots, Dist, Succ

\* Moving the far end back.
LEMMA DistPred ==
    ASSUME NEW a \in Slots, NEW b \in Slots, a # b
    PROVE  Dist(a, Pred(b)) = Dist(a, b) - 1
  BY RxAssumption DEF Slots, Dist, Pred

\* Moving the near end on, as the driver does when it cleans a descriptor.
LEMMA DistClean ==
    ASSUME NEW a \in Slots, NEW b \in Slots
    PROVE  Dist(Succ(a), b) = IF a = b THEN N - 1 ELSE Dist(a, b) - 1
  BY RxAssumption DEF Slots, Dist, Succ

\* e1000_desc_unused: the descriptors outside the distance, but for one.
LEMMA FreeSlots ==
    ASSUME NEW a \in Slots, NEW b \in Slots
    PROVE  /\ (IF a > b THEN 0 ELSE N) + a - b - 1 = N - 1 - Dist(a, b)
           /\ N - 1 - Dist(a, b) \in 0 .. N - 1
  <1>1. a \in Int /\ b \in Int /\ N \in Int /\ a >= 0 /\ b >= 0 /\ a < N /\ b < N
    BY RxAssumption DEF Slots
  <1>2. CASE a > b
    BY <1>1, <1>2 DEF Dist
  <1>3. CASE ~(a > b)
    BY <1>1, <1>3 DEF Dist
  <1> QED
    BY <1>2, <1>3

-----------------------------------------------------------------------------
(* Types *)

\* Each step of the device or the driver leaves every variable its type, the
\* descriptors the driver asks for included.
LEMMA RxTypes ==
    ASSUME TypeOK, RefillInv, TailInv, [Next]_vars
    PROVE  TypeOK'
  <1>0. /\ N \in Nat /\ N > 2 /\ 0 \in Slots /\ 0 \in 0 .. N - 1
        /\ Zeroed \in Desc /\ \A i \in Slots : Succ(i) \in Slots /\ Pred(i) \in Slots
    BY RxAssumption, RingSteps DEF Slots, Zeroed, Desc
  <1>1. ASSUME NEW f \in Frames, Receive(f) PROVE TypeOK'
    BY <1>1 DEF Receive, TypeOK, regs, irq, gvars
  <1>2. CASE RxOverrun
    BY <1>0, <1>2 DEF RxOverrun, RxReturn, set_ics, SetInterruptCause, Causes, TypeOK, regs, gvars
  <1>3. CASE RxRead
    BY <1>3 DEF RxRead, TypeOK, regs, irq, gvars
  <1>4. CASE RxWrite
    <2>1. Completed \in Desc
      BY Zenon DEF Completed, TypeOK, Desc
    <2>2. rdh' \in Slots /\ ring' \in [Slots -> Desc] /\ check_rxov' \in BOOLEAN
      BY <1>0, <1>4, <2>1 DEF RxWrite, TypeOK
    <2>3. /\ rpc' \in {"idle", "desc", "write"} /\ rframe' \in Frames \cup {None}
          /\ rdesc' \in Desc /\ rdh_start' \in Slots
      BY <1>0, <1>4 DEF RxWrite, RxReturn, TypeOK
    <2>4. icr' \subseteq Causes /\ ims' \subseteq Causes /\ line' \in BOOLEAN
      <3>1. RxCauses(rdh') \subseteq Causes
        BY DEF RxCauses, Causes
      <3> QED
        BY <1>4, <3>1, Zenon DEF RxWrite, set_ics, SetInterruptCause, Causes, TypeOK, irq
    <2> QED
      BY <1>4, <2>2, <2>3, <2>4 DEF RxWrite, TypeOK, gvars
  <1>5. CASE Flush
    <2>1. Head(mmio) \in Writes /\ mmio' \in Seq(Writes)
      BY <1>5 DEF Flush, TypeOK
    <2>2. /\ rdh' \in Slots /\ rdt' \in Slots /\ en' \in BOOLEAN /\ check_rxov' \in BOOLEAN
      BY <1>5, <2>1, Zenon DEF Flush, Writes, TypeOK
    <2> QED
      BY <1>5, <2>1, <2>2 DEF Flush, TypeOK, irq, rvars, gvars
  <1>6. CASE Configure
    <2>1. /\ Write("RDH", 0) \in Writes /\ Write("RDT", 0) \in Writes
          /\ Write("RCTL", 1) \in Writes
      BY <1>0 DEF Write, Writes
    <2>2. mmio' \in Seq(Writes)
      BY <1>6, <2>1 DEF Configure
    <2>3. need' \in 0 .. N - 1
      BY <1>6, FreeSlots, Zenon DEF Configure, Unused, TypeOK
    <2> QED
      BY <1>6, <2>2, <2>3 DEF Configure, TypeOK, GPcs, Allocating, regs, irq, rvars
  <1>7. CASE Alloc
    <2>1. ring' \in [Slots -> Desc]
      BY <1>7, Zenon DEF Alloc, TypeOK, Desc
    <2>2. ai' \in Slots /\ need' \in 0 .. N - 1 /\ mapped' \subseteq Slots
      BY <1>0, <1>7 DEF Alloc, TypeOK
    <2> QED
      BY <1>7, <2>1, <2>2 DEF Alloc, TypeOK, regs, irq, rvars
  <1>8. CASE AllocFails
    BY <1>0, <1>8, RxAssumption DEF AllocFails, TypeOK, regs, irq, rvars
  <1>9. CASE AllocEnds
    <2>1. Write("RDT", Pred(ai)) \in Writes
      BY <1>0 DEF Write, Writes, TypeOK
    <2>2. mmio' \in Seq(Writes)
      BY <1>9, <2>1 DEF AllocEnds, TypeOK
    <2>3. gpc' \in GPcs /\ work' \in 0 .. Budget /\ cleaned' \in Nat
      BY <1>9, RxAssumption DEF AllocEnds, TypeOK, GPcs, After
    <2> QED
      BY <1>9, <2>2, <2>3 DEF AllocEnds, TypeOK, regs, irq, rvars
  <1>10. CASE Enable
    BY <1>10 DEF Enable, set_ims, SetInterruptCause, IMS_ENABLE_MASK, Causes, TypeOK, GPcs,
       regs, rvars, gvars
  <1>11. CASE Link \/ Watchdog
    BY <1>11, Zenon DEF Link, Watchdog, Ics, set_ics, SetInterruptCause, Causes, TypeOK, GPcs, regs,
       rvars, gvars
  <1>12. CASE Intr
    BY <1>12 DEF Intr, mac_icr_read, SetInterruptCause, Causes, TypeOK, GPcs, regs, rvars, gvars
  <1>13. CASE Mask
    BY <1>0, <1>13, RxAssumption DEF Mask, set_imc, SetInterruptCause, Causes, TypeOK, GPcs, regs, rvars
  <1>14. CASE Repoll
    BY <1>0, <1>14, RxAssumption DEF Repoll, TypeOK, GPcs, regs, irq, rvars
  <1>15. CASE Clean
    <2>1. ring' \in [Slots -> Desc] /\ discarding' \in BOOLEAN
      BY <1>0, <1>15, Zenon DEF Clean, TypeOK, Desc
    <2>2. gi' \in Slots /\ work' \in 0 .. Budget /\ cleaned' \in Nat /\ mapped' \subseteq Slots
      <3>1. /\ gi' = Succ(gi) /\ work' = work + 1 /\ cleaned' = cleaned + 1
            /\ mapped' = mapped \ {gi} /\ work < Budget
        BY <1>15 DEF Clean, Ready
      <3>2. gi \in Slots /\ work \in 0 .. Budget /\ cleaned \in Nat /\ mapped \subseteq Slots
        BY DEF TypeOK
      <3>3. gi' \in Slots /\ mapped' \subseteq Slots
        BY <3>1, <3>2, RingSteps
      <3>4. work' \in 0 .. Budget /\ cleaned' \in Nat
        BY <3>1, <3>2, RxAssumption
      <3> QED
        BY <3>3, <3>4
    <2>3. need' \in 0 .. N - 1 /\ ai' \in Slots
      <3>1. /\ Dist(gi, ntu) \in 0 .. N - 1 /\ Dist(gi, rdt) \in 0 .. N - 1
            /\ Dist(gi, rdt) < Dist(gi, ntu) /\ Dist(gi, ntu) + cleaned <= N - 1
        BY <1>15, DistType DEF Clean, RefillInv, TailInv, Running, Unfilled, TypeOK
      <3>2. cleaned + 1 \in 0 .. N - 1
        BY <1>0, <3>1 DEF TypeOK
      <3> QED
        BY <1>15, <3>2 DEF Clean, TypeOK
    <2> QED
      BY <1>15, <2>1, <2>2, <2>3 DEF Clean, TypeOK, GPcs, Allocating, regs, irq, rvars
  <1>16. CASE CleanEnds
    <2>1. need' \in 0 .. N - 1
      BY <1>16, FreeSlots, Zenon DEF CleanEnds, TypeOK
    <2> QED
      BY <1>16, <2>1 DEF CleanEnds, TypeOK, GPcs, Allocating, regs, irq, rvars
  <1>17. CASE Down
    <2>1. ring' \in [Slots -> Desc] /\ mapped' \subseteq Slots
      BY <1>0, <1>17 DEF Down
    <2>2. icr' \subseteq Causes /\ ims' \subseteq Causes /\ line' \in BOOLEAN
      BY <1>17 DEF Down, SetInterruptCause
    <2>3. en' \in BOOLEAN /\ check_rxov' \in BOOLEAN /\ discarding' \in BOOLEAN
      BY <1>17, Zenon DEF Down
    <2> QED
      BY <1>0, <1>17, <2>1, <2>2, <2>3 DEF Down, TypeOK, GPcs, rvars
  <1>18. CASE SaveRestore
    BY <1>18, Zenon DEF SaveRestore, TypeOK, irq, rvars, gvars
  <1>19. CASE UNCHANGED vars
    BY <1>19 DEF vars, TypeOK, regs, irq, rvars, gvars
  <1> QED
    BY <1>1, <1>2, <1>3, <1>4, <1>5, <1>6, <1>7, <1>8, <1>9, <1>10, <1>11, <1>12, <1>13,
       <1>14, <1>15, <1>16, <1>17, <1>18, <1>19
       DEF Next, Receiving, Driver

\* The facts about distances that every step below needs.
LEMMA RxFacts ==
    ASSUME TypeOK, TailInv
    PROVE  /\ N \in Nat /\ N > 2 /\ 0 \in Slots /\ gi \in Slots
           /\ \A b \in Slots : Dist(gi, b) \in Nat /\ Dist(gi, b) <= N - 1
           /\ Dist(gi, gi) = 0 /\ Dist(0, 0) = 0
           /\ Running => Dist(gi, ntu) > 0 /\ gi # ntu
  <1>1. N \in Nat /\ N > 2 /\ 0 \in Slots /\ gi \in Slots
    BY RxAssumption DEF TypeOK, Slots
  <1>2. \A b \in Slots : Dist(gi, b) \in 0 .. N - 1
    BY <1>1, DistType
  <1>3. \A b \in Slots : Dist(gi, b) \in Nat /\ Dist(gi, b) <= N - 1
    BY <1>1, <1>2
  <1>4. Dist(gi, gi) = 0 /\ Dist(0, 0) = 0
    BY <1>1, DistType
  <1>5. Running => Dist(gi, ntu) > 0 /\ gi # ntu
    BY <1>3, <1>4 DEF TailInv, TypeOK
  <1> QED
    BY <1>1, <1>3, <1>4, <1>5

-----------------------------------------------------------------------------
(* Refilling *)

\* The driver never asks for a buffer for a descriptor it has not cleaned.
LEMMA RxRefill ==
    ASSUME RingInv, [Next]_vars
    PROVE  RefillInv'
  <1> USE DEF RingInv
  <1>0. /\ N \in Nat /\ N > 2 /\ 0 \in Slots /\ gi \in Slots /\ ai \in Slots /\ ntu \in Slots
        /\ \A b \in Slots : Dist(gi, b) \in Nat /\ Dist(gi, b) <= N - 1
        /\ Dist(gi, gi) = 0 /\ Dist(0, 0) = 0 /\ need \in 0 .. N - 1 /\ cleaned \in Nat
    BY RxFacts DEF TypeOK
  <1>1. CASE UNCHANGED <<gpc, gvars>>
    BY <1>1 DEF RefillInv, gvars
  <1>2. CASE Configure
    <2>1. gi = 0 /\ ntc = 0 /\ ntu = 0
      BY <1>2 DEF Configure, SetupInv, RefillInv, Running
    <2>2. need' = N - 1 /\ ai' = 0 /\ gi' = 0 /\ ntc' = 0 /\ ntu' = 0 /\ gpc' = "fill"
      BY <1>0, <1>2, <2>1 DEF Configure, Unused
    <2> QED
      BY <1>0, <2>2 DEF RefillInv
  <1>3. CASE Alloc
    <2>1. Dist(gi, ai) + need <= N - 1 /\ need > 0 /\ Dist(gi, ntu) <= Dist(gi, ai)
      BY <1>3 DEF Alloc, RefillInv
    <2>2. Dist(gi, ai') = Dist(gi, ai) + 1
      BY <1>0, <1>3, <2>1, DistSucc DEF Alloc
    <2>3. Dist(gi, ntu) <= Dist(gi, ai') /\ Dist(gi, ai') + need' <= N - 1
      BY <1>0, <1>3, <2>1, <2>2 DEF Alloc
    <2> QED
      BY <1>3, <2>3 DEF Alloc, RefillInv, Allocating
  <1>4. CASE AllocFails
    BY <1>0, <1>4 DEF AllocFails, RefillInv, Allocating
  <1>5. CASE AllocEnds
    BY <1>0, <1>5 DEF AllocEnds, After, RefillInv, Allocating
  <1>6. CASE Enable \/ Link \/ Watchdog \/ Intr
    BY <1>6 DEF Enable, Link, Watchdog, Ics, Intr, RefillInv, Allocating, gvars
  <1>7. CASE Mask \/ Repoll
    BY <1>0, <1>7 DEF Mask, Repoll, RefillInv, Allocating
  <1>8. CASE Clean
    <2>1. gi # ntu /\ Dist(gi, ntu) + cleaned <= N - 1
      BY <1>8, RxFacts DEF Clean, Running, Unfilled, RefillInv
    <2>2. Dist(gi', ntu) = Dist(gi, ntu) - 1
      BY <1>0, <1>8, <2>1, DistClean DEF Clean
    <2>3. Dist(gi', ntu) + cleaned' <= N - 1
      BY <1>0, <1>8, <2>1, <2>2 DEF Clean
    <2>4. gpc' \in {"poll", "refill"} /\ (gpc' = "refill" => need' = cleaned' /\ ai' = ntu)
      BY <1>8 DEF Clean
    <2> QED
      BY <1>0, <1>8, <2>2, <2>3, <2>4 DEF Clean, RefillInv, Allocating
  <1>9. CASE CleanEnds
    <2>1. need' = N - 1 - Dist(gi, ntu) /\ ai' = ntu /\ gi' = gi /\ ntu' = ntu
      BY <1>0, <1>9, FreeSlots DEF CleanEnds
    <2> QED
      BY <1>0, <1>9, <2>1 DEF CleanEnds, RefillInv
  <1>10. CASE Down
    BY <1>10 DEF Down, RefillInv, Allocating
  <1>11. CASE Receiving \/ Flush \/ SaveRestore \/ (\E f \in Frames : Receive(f)) \/ UNCHANGED vars
    BY <1>1, <1>11 DEF Receiving, RxOverrun, RxRead, RxWrite, Flush, SaveRestore, Receive, vars
  <1> QED
    BY <1>2, <1>3, <1>4, <1>5, <1>6, <1>7, <1>8, <1>9, <1>10, <1>11 DEF Next, Driver

-----------------------------------------------------------------------------
(* Buffers *)

\* The descriptors between the driver's two indices keep their buffers.
LEMMA RxMapped ==
    ASSUME RingInv, [Next]_vars
    PROVE  MappedInv'
  <1> USE DEF RingInv
  <1>0. /\ N \in Nat /\ N > 2 /\ 0 \in Slots /\ gi \in Slots /\ ai \in Slots /\ ntu \in Slots
        /\ \A b \in Slots : Dist(gi, b) \in Nat /\ Dist(gi, b) <= N - 1
        /\ Dist(gi, gi) = 0 /\ Dist(0, 0) = 0 /\ need \in 0 .. N - 1
        /\ \A b \in Slots : Dist(0, b) \in Nat
    <2>1. \A b \in Slots : Dist(0, b) \in 0 .. N - 1
      BY RxFacts, DistType
    <2>2. \A b \in Slots : Dist(0, b) \in Nat
      BY <2>1, RxFacts
    <2> QED
      BY <2>2, RxFacts DEF TypeOK
  <1>1. CASE UNCHANGED <<gi, Edge, mapped>>
    BY <1>1 DEF MappedInv
  <1>2. CASE Configure
    <2>1. gi = 0 /\ ntu = 0
      BY <1>2 DEF Configure, SetupInv, Running
    <2>2. gi' = 0 /\ Edge' = 0
      BY <1>2, <2>1 DEF Configure, Edge, Allocating
    <2> QED
      BY <1>0, <2>2 DEF MappedInv
  <1>3. CASE Alloc
    <2>1. Dist(gi, ai) < N - 1
      BY <1>0, <1>3 DEF Alloc, RefillInv
    <2>2. Dist(gi, ai') = Dist(gi, ai) + 1
      BY <1>0, <1>3, <2>1, DistSucc DEF Alloc
    <2>3. Edge = ai /\ Edge' = ai' /\ gi' = gi /\ mapped' = mapped \cup {ai}
      BY <1>3 DEF Alloc, Edge
    <2>4. ASSUME NEW i \in Slots, Dist(gi, i) < Dist(gi, ai) + 1 PROVE i \in mapped'
      <3>1. Dist(gi, i) < Dist(gi, ai) \/ Dist(gi, i) = Dist(gi, ai)
        BY <1>0, <2>4
      <3>2. Dist(gi, i) = Dist(gi, ai) => i = ai
        BY <1>0, DistType
      <3> QED
        BY <2>3, <3>1, <3>2 DEF MappedInv
    <2> QED
      BY <2>2, <2>3, <2>4 DEF MappedInv
  <1>4. CASE AllocEnds
    <2>1. UNCHANGED <<gi, Edge, mapped>>
      BY <1>4 DEF AllocEnds, After, Edge, Allocating
    <2> QED
      BY <1>1, <2>1
  <1>5. CASE Clean
    <2>1. gi # ntu /\ Edge = ntu /\ Edge' = ntu /\ mapped' = mapped \ {gi} /\ gi' = Succ(gi)
      BY <1>5, RxFacts DEF Clean, Running, Unfilled, Edge, Allocating
    <2>2. Dist(gi', ntu) = Dist(gi, ntu) - 1
      BY <1>0, <2>1, DistClean
    <2>3. ASSUME NEW i \in Slots, Dist(gi', i) < Dist(gi', ntu) PROVE i \in mapped'
      <3>1. i # gi /\ Dist(gi', i) = Dist(gi, i) - 1
        BY <1>0, <2>1, <2>2, <2>3, DistClean
      <3>2. Dist(gi, i) < Dist(gi, ntu)
        BY <1>0, <2>2, <2>3, <3>1
      <3> QED
        BY <2>1, <3>1, <3>2 DEF MappedInv
    <2> QED
      BY <2>1, <2>3 DEF MappedInv
  <1>6. CASE Down
    <2>1. gi' = 0 /\ Edge' = 0
      BY <1>6 DEF Down, Edge, Allocating
    <2> QED
      BY <1>0, <2>1 DEF MappedInv
  <1>7. CASE Mask \/ Repoll
    <2>1. UNCHANGED <<gi, Edge, mapped>>
      BY <1>7 DEF Mask, Repoll, RefillInv, Edge, Allocating
    <2> QED
      BY <1>1, <2>1
  <1>8. CASE AllocFails \/ Enable \/ Link \/ Watchdog \/ Intr \/ CleanEnds
    <2>1. UNCHANGED <<gi, Edge, mapped>>
      BY <1>8 DEF AllocFails, Enable, Link, Watchdog, Ics, Intr, CleanEnds, Edge, Allocating, gvars
    <2> QED
      BY <1>1, <2>1
  <1>9. CASE Receiving \/ Flush \/ SaveRestore \/ (\E f \in Frames : Receive(f)) \/ UNCHANGED vars
    <2>1. UNCHANGED <<gi, Edge, mapped>>
      BY <1>9 DEF Receiving, RxOverrun, RxRead, RxWrite, Flush, SaveRestore, Receive, vars,
         Edge, gvars
    <2> QED
      BY <1>1, <2>1
  <1> QED
    BY <1>2, <1>3, <1>4, <1>5, <1>6, <1>7, <1>8, <1>9 DEF Next, Driver

-----------------------------------------------------------------------------
(* Setting the ring up *)

\* The last write of a FIFO that is not emptied by one step stays the last.
LEMMA LastStays ==
    ASSUME TypeOK, mmio # <<>>, mmio' = Tail(mmio)
    PROVE  /\ Len(mmio) \in Nat /\ Len(mmio) > 0 /\ Len(mmio') = Len(mmio) - 1
           /\ Head(mmio) = mmio[1] /\ mmio[1] \in Writes
           /\ \A k \in 1 .. Len(mmio') : k + 1 \in 1 .. Len(mmio) /\ mmio'[k] = mmio[k + 1]
           /\ mmio' # <<>> => mmio'[Len(mmio')] = mmio[Len(mmio)]
           /\ mmio' = <<>> => mmio[Len(mmio)] = mmio[1]
  <1>1. /\ mmio \in Seq(Writes) /\ Len(mmio) \in Nat /\ Len(mmio) > 0
        /\ Len(mmio') = Len(mmio) - 1 /\ Head(mmio) = mmio[1] /\ mmio[1] \in Writes
        /\ mmio' \in Seq(Writes)
    BY DEF TypeOK
  <1>2. \A k \in 1 .. Len(mmio') : k + 1 \in 1 .. Len(mmio) /\ mmio'[k] = mmio[k + 1]
    BY <1>1
  <1>3. ASSUME mmio' # <<>> PROVE mmio'[Len(mmio')] = mmio[Len(mmio)]
    <2>1. Len(mmio') \in 1 .. Len(mmio') /\ Len(mmio') + 1 = Len(mmio)
      BY <1>1, <1>3
    <2> QED
      BY <1>2, <2>1
  <1>4. ASSUME mmio' = <<>> PROVE mmio[Len(mmio)] = mmio[1]
    <2>1. Len(mmio') = 0
      BY <1>1, <1>4, EmptySeq, Zenon
    <2>2. Len(mmio) = 1
      BY <1>1, <2>1
    <2> QED
      BY <2>2
  <1> QED
    BY <1>1, <1>2, <1>3, <1>4

\* Until the first filling has reached the device no frame is received, and the
\* last write on its way is the tail of that filling.
LEMMA RxSetup ==
    ASSUME RingInv, [Next]_vars, ~Early
    PROVE  SetupInv'
  <1> USE DEF RingInv
  <1>1. ASSUME UNCHANGED <<gpc, en, mmio, rdh, rpc, gi, ring, ntu, ai, need>> PROVE SetupInv'
    BY <1>1 DEF SetupInv, Running, Unfilled
  <1>2. ASSUME gpc' \notin {"down", "fill", "up"} PROVE SetupInv'
    BY <1>2 DEF SetupInv, Running, Unfilled
  <1>3. ASSUME NEW f \in Frames, Receive(f) PROVE SetupInv'
    <2>1. Running
      BY <1>3 DEF Receive, SetupInv, Running
    <2> QED
      BY <1>3, <2>1 DEF Receive, SetupInv, Running, Unfilled, regs, gvars
  <1>4. CASE Receiving
    <2>1. Running
      BY <1>4 DEF Receiving, RxOverrun, RxRead, RxWrite, SetupInv
    <2>2. UNCHANGED <<gpc, en, mmio, gi, ntu, ai, need>>
      BY <1>4 DEF Receiving, RxOverrun, RxRead, RxWrite, regs, gvars
    <2> QED
      BY <2>1, <2>2 DEF SetupInv, Running, Unfilled
  <1>5. CASE Flush
    <2>1. /\ mmio # <<>> /\ mmio' = Tail(mmio) /\ gpc' = gpc /\ gpc # "down"
          /\ UNCHANGED <<rpc, gi, ring, ntu, ai, need>>
      BY <1>5 DEF Flush, SetupInv, rvars, gvars
    <2>2. CASE gpc \in {"fill", "up"}
      <3>1. Unfilled /\ ~Running
        BY <2>1, <2>2 DEF Unfilled, Running
      <3>2. \A k \in 1 .. Len(mmio) : mmio[k].reg = "RDH" => mmio[k].val = 0
        BY <3>1 DEF SetupInv
      <3>3. rdh' = 0
        <4>1. 1 \in 1 .. Len(mmio) /\ Head(mmio) = mmio[1]
          BY <2>1, LastStays
        <4>2. rdh = 0
          BY <3>1 DEF SetupInv
        <4> QED
          BY <1>5, <3>2, <4>1, <4>2 DEF Flush
      <3>4. \A k \in 1 .. Len(mmio') : mmio'[k].reg = "RDH" => mmio'[k].val = 0
        BY <2>1, <3>2, LastStays
      <3>5. gpc = "up" /\ mmio' # <<>> => mmio'[Len(mmio')] = Write("RDT", N - 2)
        BY <2>1, LastStays DEF SetupInv
      <3>6. rpc = "idle" /\ gi = 0 /\ \A i \in Slots : ~ring[i].dd
        BY <3>1 DEF SetupInv
      <3>7. /\ gpc = "fill" => ntu = 0 /\ ai = N - 1 - need
            /\ gpc = "up" => ntu = N - 1
        BY DEF SetupInv
      <3>8. rpc' = "idle" /\ gi' = 0 /\ \A i \in Slots : ~ring'[i].dd
        BY <2>1, <3>6
      <3> QED
        BY <2>1, <2>2, <3>3, <3>4, <3>5, <3>7, <3>8 DEF SetupInv
    <2>3. CASE gpc \notin {"fill", "up"}
      BY <1>2, <2>1, <2>3
    <2> QED
      BY <2>2, <2>3
  <1>6. CASE Configure
    <2>1. rdh = 0 /\ rpc = "idle" /\ gi = 0 /\ ntu = 0 /\ \A i \in Slots : ~ring[i].dd
      BY <1>6 DEF Configure, SetupInv, Running
    <2>2. ntc = 0
      BY <1>6, <2>1 DEF Configure, RefillInv
    <2>3. need' = N - 1 /\ ai' = 0
      BY <1>6, <2>1, <2>2, RxAssumption DEF Configure, Unused
    <2>4. \A k \in 1 .. Len(mmio') : mmio'[k].reg = "RDH" => mmio'[k].val = 0
      <3>1. mmio' = <<Write("RDH", 0), Write("RDT", 0), Write("RCTL", 1)>>
        BY <1>6 DEF Configure
      <3>2. Len(mmio') = 3 /\ mmio'[1].val = 0 /\ mmio'[2].val = 0 /\ mmio'[3].reg = "RCTL"
        BY <3>1 DEF Write
      <3> QED
        BY <3>2
    <2>5. gpc' = "fill" /\ UNCHANGED <<rdh, rpc, gi, ntu, ring>>
      BY <1>6 DEF Configure, regs, rvars
    <2>6. rdh' = 0 /\ rpc' = "idle" /\ gi' = 0 /\ ntu' = 0 /\ \A i \in Slots : ~ring'[i].dd
      BY <2>1, <2>5
    <2>7. ai' = N - 1 - need'
      BY <2>3, RxAssumption
    <2> QED
      BY <2>4, <2>5, <2>6, <2>7 DEF SetupInv
  <1>7. CASE Alloc
    <2>1. CASE gpc = "fill"
      <3>1. ai = N - 1 - need /\ need > 0 /\ ai' = Succ(ai) /\ need' = need - 1
        BY <1>7, <2>1 DEF Alloc, SetupInv
      <3>2. ai' = N - 1 - need'
        BY <3>1, RxAssumption DEF Succ, TypeOK
      <3>3. \A i \in Slots : ring'[i].dd = ring[i].dd
        BY <1>7 DEF Alloc, TypeOK, Desc
      <3>4. gpc' = "fill" /\ UNCHANGED <<rdh, rpc, gi, ntu, mmio>>
        BY <1>7, <2>1 DEF Alloc, regs, rvars
      <3>5. /\ rdh = 0 /\ rpc = "idle" /\ gi = 0 /\ ntu = 0 /\ \A i \in Slots : ~ring[i].dd
            /\ \A k \in 1 .. Len(mmio) : mmio[k].reg = "RDH" => mmio[k].val = 0
        BY <2>1 DEF SetupInv, Running, Unfilled
      <3> QED
        BY <3>2, <3>3, <3>4, <3>5 DEF SetupInv
    <2>2. CASE gpc # "fill"
      BY <1>2, <1>7, <2>2 DEF Alloc, Allocating
    <2> QED
      BY <2>1, <2>2
  <1>8. CASE AllocFails
    BY <1>2, <1>8 DEF AllocFails, Allocating
  <1>9. CASE AllocEnds
    <2>1. CASE gpc = "fill"
      <3>1. /\ ai = N - 1 /\ ntu = 0 /\ rdh = 0 /\ rpc = "idle" /\ gi = 0
            /\ \A i \in Slots : ~ring[i].dd
            /\ \A k \in 1 .. Len(mmio) : mmio[k].reg = "RDH" => mmio[k].val = 0
        BY <1>9, <2>1, RxAssumption DEF AllocEnds, SetupInv, Running, Unfilled
      <3>2. ai # ntu /\ Pred(ai) = N - 2
        BY <3>1, RxAssumption DEF Pred
      <3>3. mmio' = Append(mmio, Write("RDT", N - 2))
        BY <1>9, <3>2 DEF AllocEnds
      <3>4. /\ mmio \in Seq(Writes) /\ Len(mmio) \in Nat /\ Len(mmio') = Len(mmio) + 1
            /\ mmio'[Len(mmio')] = Write("RDT", N - 2)
            /\ \A k \in 1 .. Len(mmio) : mmio'[k] = mmio[k]
        BY <3>3 DEF TypeOK
      <3>5. \A k \in 1 .. Len(mmio') : mmio'[k].reg = "RDH" => mmio'[k].val = 0
        BY <3>1, <3>4 DEF Write
      <3>6. /\ gpc' = "up" /\ ntu' = N - 1 /\ rdh' = 0 /\ rpc' = "idle" /\ gi' = 0
            /\ \A i \in Slots : ~ring'[i].dd
        BY <1>9, <2>1, <3>1 DEF AllocEnds, After, regs, rvars
      <3> QED
        BY <3>4, <3>5, <3>6 DEF SetupInv
    <2>2. CASE gpc # "fill"
      BY <1>2, <1>9, <2>2 DEF AllocEnds, After, Allocating
    <2> QED
      BY <2>1, <2>2
  <1>10. CASE Enable \/ Link \/ Watchdog \/ Intr \/ Mask \/ Repoll \/ Clean \/ CleanEnds
    BY <1>2, <1>10 DEF Enable, Link, Watchdog, Ics, Intr, Mask, Repoll, Clean, CleanEnds
  <1>11. CASE Down
    <2>1. /\ gpc' = "down" /\ ~en' /\ mmio' = <<>> /\ rdh' = 0 /\ rpc' = "idle" /\ gi' = 0
          /\ ntu' = 0
      BY <1>11 DEF Down, Reached, rvars
    <2>2. \A i \in Slots : ~ring'[i].dd
      BY <1>11 DEF Down, Zeroed
    <2> QED
      BY <2>1, <2>2 DEF SetupInv, Unfilled
  <1>12. CASE SaveRestore \/ UNCHANGED vars
    BY <1>1, <1>12 DEF SaveRestore, vars, regs, rvars, gvars
  <1> QED
    BY <1>3, <1>4, <1>5, <1>6, <1>7, <1>8, <1>9, <1>10, <1>11, <1>12 DEF Next, Driver

-----------------------------------------------------------------------------
(* The tails *)

\* The ring in use: the tail register and the tails on their way to it keep
\* their order, and the last one stays next_to_use - 1.
LEMMA RxTails ==
    ASSUME RingInv, [Next]_vars, ~Early
    PROVE  TailInv'
  <1> USE DEF RingInv
  <1>0. /\ N \in Nat /\ N > 2 /\ gi \in Slots /\ ntu \in Slots /\ rdt \in Slots /\ ai \in Slots
        /\ \A b \in Slots : Dist(gi, b) \in Nat /\ Dist(gi, b) <= N - 1
        /\ mmio \in Seq(Writes) /\ Len(mmio) \in Nat
    BY RxFacts DEF TypeOK
  <1>1. ASSUME UNCHANGED <<mmio, gi, rdt, ntu>>, Running' => Running PROVE TailInv'
    BY <1>1 DEF TailInv
  <1>2. CASE Flush
    <2>0. /\ mmio # <<>> /\ mmio' = Tail(mmio) /\ UNCHANGED <<gpc, gi, ntu>>
          /\ rdt' = (IF Head(mmio).reg = "RDT" THEN Head(mmio).val ELSE rdt)
      BY <1>2 DEF Flush, gvars
    <2>1. CASE Running
      <3>1. \A k \in 1 .. Len(mmio) : /\ mmio[k].reg = "RDT"
                                      /\ Dist(gi, mmio[k].val) < Dist(gi, ntu)
        BY <2>1 DEF TailInv
      <3>2. \A j, k \in 1 .. Len(mmio) : j < k => Dist(gi, mmio[j].val) < Dist(gi, mmio[k].val)
        BY <2>1 DEF TailInv
      <3>3. /\ Len(mmio) > 0 /\ Len(mmio') = Len(mmio) - 1 /\ Head(mmio) = mmio[1]
            /\ \A k \in 1 .. Len(mmio') : k + 1 \in 1 .. Len(mmio) /\ mmio'[k] = mmio[k + 1]
        BY <2>0, LastStays
      <3>4. rdt' = mmio[1].val /\ 1 \in 1 .. Len(mmio)
        BY <1>0, <2>0, <3>1, <3>3
      <3>5. \A k \in 1 .. Len(mmio') :
               /\ mmio'[k].reg = "RDT" /\ Dist(gi, mmio'[k].val) < Dist(gi, ntu)
               /\ Dist(gi, rdt') < Dist(gi, mmio'[k].val)
        <4> SUFFICES ASSUME NEW k \in 1 .. Len(mmio')
                     PROVE  /\ mmio'[k].reg = "RDT" /\ Dist(gi, mmio'[k].val) < Dist(gi, ntu)
                            /\ Dist(gi, rdt') < Dist(gi, mmio'[k].val)
          OBVIOUS
        <4>1. k + 1 \in 1 .. Len(mmio) /\ 1 < k + 1 /\ mmio'[k] = mmio[k + 1]
          BY <1>0, <3>3
        <4> QED
          BY <3>1, <3>2, <3>4, <4>1
      <3>6. ASSUME NEW j \in 1 .. Len(mmio'), NEW k \in 1 .. Len(mmio'), j < k
            PROVE  Dist(gi, mmio'[j].val) < Dist(gi, mmio'[k].val)
        <4>1. j + 1 < k + 1
          BY <3>6
        <4> QED
          BY <3>2, <3>3, <4>1
      <3>7. /\ mmio' = <<>> => rdt' = Pred(ntu)
            /\ mmio' # <<>> => mmio'[Len(mmio')].val = Pred(ntu)
        BY <2>0, <2>1, <3>4, LastStays DEF TailInv
      <3>8. Dist(gi, rdt') < Dist(gi, ntu)
        BY <3>1, <3>4
      <3> QED
        BY <2>0, <3>5, <3>6, <3>7, <3>8 DEF TailInv
    <2>2. CASE ~Running /\ Running'
      <3>1. gpc = "up" /\ mmio' = <<>>
        BY <2>0, <2>2 DEF Running, Unfilled, SetupInv
      <3>2. mmio[1] = Write("RDT", N - 2) /\ Head(mmio) = mmio[1] /\ ntu = N - 1 /\ gi = 0
        BY <2>0, <3>1, LastStays DEF SetupInv
      <3>3. rdt' = N - 2 /\ Pred(ntu) = N - 2 /\ Pred(ntu) = rdt'
        BY <1>0, <2>0, <3>2 DEF Write, Pred
      <3>4. Dist(gi, rdt') < Dist(gi, ntu)
        BY <1>0, <3>2, <3>3 DEF Dist
      <3>5. 1 .. Len(mmio') = {}
        BY <3>1
      <3> QED
        BY <2>0, <3>1, <3>3, <3>4, <3>5, Zenon DEF TailInv
    <2> QED
      BY <2>1, <2>2 DEF TailInv
  <1>3. CASE AllocEnds
    <2>1. CASE gpc = "fill"
      <3>1. gpc' = "up" /\ ai = N - 1 /\ ntu = 0
        BY <1>0, <1>3, <2>1 DEF AllocEnds, After, SetupInv
      <3>2. mmio' = Append(mmio, Write("RDT", Pred(ai)))
        BY <1>0, <1>3, <3>1 DEF AllocEnds
      <3>3. mmio' # <<>>
        BY <1>0, <3>2
      <3> QED
        BY <3>1, <3>3 DEF TailInv, Running, Unfilled
    <2>2. CASE gpc # "fill" /\ ai = ntu
      BY <1>1, <1>3, <2>2 DEF AllocEnds, regs, Running, Unfilled, Allocating
    <2>3. CASE gpc # "fill" /\ ai # ntu
      <3>0. /\ Running /\ mmio' = Append(mmio, Write("RDT", Pred(ai))) /\ ntu' = ai
            /\ UNCHANGED <<gi, rdt>>
        BY <1>3, <2>3 DEF AllocEnds, Running, Unfilled, Allocating, regs
      <3>1. Dist(gi, ntu) < Dist(gi, ai)
        <4>1. Dist(gi, ntu) <= Dist(gi, ai)
          BY <1>3 DEF AllocEnds, RefillInv
        <4>2. Dist(gi, ntu) # Dist(gi, ai)
          BY <1>0, <2>3, DistType
        <4> QED
          BY <1>0, <4>1, <4>2
      <3>2. Dist(gi, Pred(ai)) = Dist(gi, ai) - 1
        <4>1. gi # ai
          BY <1>0, <3>1, RxFacts
        <4> QED
          BY <1>0, <4>1, DistPred
      <3>3. Dist(gi, ntu) <= Dist(gi, Pred(ai)) /\ Dist(gi, Pred(ai)) < Dist(gi, ai)
        BY <1>0, <3>1, <3>2
      <3>4. /\ Len(mmio') = Len(mmio) + 1 /\ mmio'[Len(mmio')] = Write("RDT", Pred(ai))
            /\ \A k \in 1 .. Len(mmio) : mmio'[k] = mmio[k]
            /\ mmio' # <<>>
        BY <1>0, <3>0
      <3>5. /\ Dist(gi, rdt) < Dist(gi, ntu)
            /\ \A k \in 1 .. Len(mmio) :
                  /\ mmio[k].reg = "RDT" /\ mmio[k].val \in Slots
                  /\ Dist(gi, rdt) < Dist(gi, mmio[k].val)
                  /\ Dist(gi, mmio[k].val) < Dist(gi, ntu)
            /\ \A j, k \in 1 .. Len(mmio) :
                  j < k => Dist(gi, mmio[j].val) < Dist(gi, mmio[k].val)
        <4>1. \A k \in 1 .. Len(mmio) : mmio[k].reg = "RDT" => mmio[k].val \in Slots
          BY <1>0 DEF Writes
        <4> QED
          BY <3>0, <4>1 DEF TailInv
      <3>6. /\ Dist(gi, rdt) < Dist(gi, Pred(ai)) /\ Dist(gi, rdt) < Dist(gi, ai)
            /\ Pred(ai) \in Slots
        <4>1. Pred(ai) \in Slots
          BY <1>0, RingSteps
        <4>2. /\ Dist(gi, rdt) \in Nat /\ Dist(gi, ntu) \in Nat
              /\ Dist(gi, Pred(ai)) \in Nat /\ Dist(gi, ai) \in Nat
          BY <1>0, <4>1
        <4>3. Dist(gi, rdt) < Dist(gi, ntu)
          BY <3>5
        <4> QED
          BY <3>1, <3>3, <4>1, <4>2, <4>3
      <3>7. ASSUME NEW k \in 1 .. Len(mmio)
            PROVE  /\ Dist(gi, mmio[k].val) < Dist(gi, Pred(ai))
                   /\ Dist(gi, mmio[k].val) < Dist(gi, ai)
        <4>1. mmio[k].val \in Slots /\ Dist(gi, mmio[k].val) < Dist(gi, ntu)
          BY <3>5
        <4>2. /\ Dist(gi, mmio[k].val) \in Nat /\ Dist(gi, ntu) \in Nat
              /\ Dist(gi, Pred(ai)) \in Nat /\ Dist(gi, ai) \in Nat
          BY <1>0, <3>6, <4>1
        <4> QED
          BY <3>1, <3>3, <4>1, <4>2
      <3>8. ASSUME NEW k \in 1 .. Len(mmio')
            PROVE  /\ mmio'[k].reg = "RDT" /\ Dist(gi, rdt) < Dist(gi, mmio'[k].val)
                   /\ Dist(gi, mmio'[k].val) < Dist(gi, ai)
        <4>1. k \in 1 .. Len(mmio) \/ k = Len(mmio')
          BY <1>0, <3>4
        <4>2. CASE k \in 1 .. Len(mmio)
          <5>1. mmio'[k] = mmio[k]
            BY <3>4, <4>2
          <5>2. mmio[k].reg = "RDT" /\ Dist(gi, rdt) < Dist(gi, mmio[k].val)
            BY <3>5, <4>2
          <5>3. Dist(gi, mmio[k].val) < Dist(gi, ai)
            BY <3>7, <4>2
          <5> QED
            BY <5>1, <5>2, <5>3
        <4>3. CASE k = Len(mmio')
          BY <3>3, <3>4, <3>6, <4>3 DEF Write
        <4> QED
          BY <4>1, <4>2, <4>3
      <3>9. ASSUME NEW j \in 1 .. Len(mmio'), NEW k \in 1 .. Len(mmio'), j < k
            PROVE  Dist(gi, mmio'[j].val) < Dist(gi, mmio'[k].val)
        <4>1. j \in 1 .. Len(mmio) /\ (k \in 1 .. Len(mmio) \/ k = Len(mmio'))
          BY <1>0, <3>4, <3>9
        <4>2. CASE k \in 1 .. Len(mmio)
          BY <3>4, <3>5, <3>9, <4>1, <4>2
        <4>3. CASE k = Len(mmio')
          BY <3>4, <3>7, <4>1, <4>3 DEF Write
        <4> QED
          BY <4>1, <4>2, <4>3
      <3>10. mmio'[Len(mmio')].val = Pred(ai)
        BY <3>4 DEF Write
      <3> QED
        BY <3>0, <3>4, <3>6, <3>8, <3>9, <3>10 DEF TailInv
    <2> QED
      BY <2>1, <2>2, <2>3
  <1>4. CASE Clean
    <2>0. Running /\ gi' = Succ(gi) /\ ring[gi].dd /\ UNCHANGED <<mmio, rdt, ntu>>
      BY <1>4 DEF Clean, Ready, Running, Unfilled, regs
    <2>1. Dist(gi, rdh) > 0 /\ Dist(gi, rdt) > 0
      <3>1. rdh \in Slots /\ Dist(gi, gi) < Dist(gi, rdh) /\ Dist(gi, rdh) <= Dist(gi, rdt)
        BY <1>0, <2>0 DEF HeadInv, TypeOK
      <3> QED
        BY <1>0, <3>1, RxFacts
    <2>2. \A b \in Slots : Dist(gi, b) > 0 => Dist(gi', b) = Dist(gi, b) - 1
      BY <1>0, <2>0, RxFacts, DistClean
    <2>3. /\ Dist(gi, rdt) < Dist(gi, ntu)
          /\ \A k \in 1 .. Len(mmio) :
                /\ mmio[k].reg = "RDT" /\ mmio[k].val \in Slots
                /\ Dist(gi, rdt) < Dist(gi, mmio[k].val)
                /\ Dist(gi, mmio[k].val) < Dist(gi, ntu)
          /\ \A j, k \in 1 .. Len(mmio) :
                j < k => Dist(gi, mmio[j].val) < Dist(gi, mmio[k].val)
          /\ mmio = <<>> => rdt = Pred(ntu)
          /\ mmio # <<>> => mmio[Len(mmio)].val = Pred(ntu)
      <3>1. \A k \in 1 .. Len(mmio) : mmio[k].reg = "RDT" => mmio[k].val \in Slots
        BY <1>0 DEF Writes
      <3> QED
        BY <2>0, <3>1 DEF TailInv
    <2>4. /\ Dist(gi, rdt) \in Nat /\ Dist(gi, ntu) \in Nat
          /\ Dist(gi', rdt) = Dist(gi, rdt) - 1 /\ Dist(gi', ntu) = Dist(gi, ntu) - 1
          /\ Dist(gi', rdt) < Dist(gi', ntu)
      BY <1>0, <2>1, <2>2, <2>3
    <2>5. ASSUME NEW k \in 1 .. Len(mmio)
          PROVE  /\ Dist(gi', rdt) < Dist(gi', mmio[k].val)
                 /\ Dist(gi', mmio[k].val) < Dist(gi', ntu)
                 /\ Dist(gi', mmio[k].val) = Dist(gi, mmio[k].val) - 1
                 /\ Dist(gi, mmio[k].val) \in Nat
      <3>1. /\ mmio[k].val \in Slots /\ Dist(gi, rdt) < Dist(gi, mmio[k].val)
            /\ Dist(gi, mmio[k].val) < Dist(gi, ntu)
        BY <2>3
      <3>2. Dist(gi, mmio[k].val) \in Nat
        BY <1>0, <3>1
      <3>3. Dist(gi, mmio[k].val) > 0
        BY <2>4, <3>1, <3>2
      <3>4. Dist(gi', mmio[k].val) = Dist(gi, mmio[k].val) - 1
        BY <2>2, <3>1, <3>3
      <3> QED
        BY <2>4, <3>1, <3>2, <3>4
    <2>6. ASSUME NEW j \in 1 .. Len(mmio), NEW k \in 1 .. Len(mmio), j < k
          PROVE  Dist(gi', mmio[j].val) < Dist(gi', mmio[k].val)
      <3>1. Dist(gi, mmio[j].val) < Dist(gi, mmio[k].val)
        BY <2>3, <2>6
      <3> QED
        BY <2>5, <3>1
    <2> QED
      BY <2>0, <2>3, <2>4, <2>5, <2>6 DEF TailInv
  <1>5. CASE Configure \/ Down
    BY <1>5 DEF Configure, Down, TailInv, Running, Unfilled
  <1>6. CASE Mask \/ Repoll
    BY <1>1, <1>6 DEF Mask, Repoll, RefillInv, Running, Unfilled, regs
  <1>7. CASE Alloc \/ AllocFails \/ CleanEnds
    BY <1>1, <1>7 DEF Alloc, AllocFails, CleanEnds, Running, Unfilled, regs
  <1>8. CASE Enable \/ Link \/ Watchdog \/ Intr
    BY <1>1, <1>8 DEF Enable, Link, Watchdog, Ics, Intr, Reached, Running, Unfilled, regs, gvars
  <1>9. CASE Receiving \/ SaveRestore \/ (\E f \in Frames : Receive(f)) \/ UNCHANGED vars
    BY <1>1, <1>9 DEF Receiving, RxOverrun, RxRead, RxWrite, SaveRestore, Receive, vars,
       Running, Unfilled, regs, gvars
  <1> QED
    BY <1>2, <1>3, <1>4, <1>5, <1>6, <1>7, <1>8, <1>9 DEF Next, Driver

-----------------------------------------------------------------------------
(* The head *)

\* e1000_receive stops at the tail it was given, and a later tail lies further
\* on: a ring run full is told from an empty one.
LEMMA RxHead ==
    ASSUME RingInv, [Next]_vars, ~Early, ~Snapshots
    PROVE  HeadInv'
  <1> USE DEF RingInv
  <1>0. /\ N \in Nat /\ N > 2 /\ gi \in Slots /\ ntu \in Slots /\ rdt \in Slots /\ rdh \in Slots
        /\ \A b \in Slots : Dist(gi, b) \in Nat /\ Dist(gi, b) <= N - 1
        /\ ring \in [Slots -> Desc] /\ ai \in Slots
    BY RxFacts DEF TypeOK
  <1>1. ASSUME UNCHANGED <<rdh, rdt, check_rxov, rpc, gi, ring>>, Running' => Running
        PROVE  HeadInv'
    BY <1>1 DEF HeadInv
  <1>2. ASSUME ~Running' PROVE HeadInv'
    BY <1>2 DEF HeadInv
  <1>3. CASE Flush
    <2>0. /\ mmio # <<>> /\ mmio' = Tail(mmio) /\ UNCHANGED <<gpc, gi, ring>>
          /\ rpc' = "idle" /\ rpc = "idle"
          /\ rdt' = (IF Head(mmio).reg = "RDT" THEN Head(mmio).val ELSE rdt)
          /\ rdh' = (IF Head(mmio).reg = "RDH" THEN Head(mmio).val ELSE rdh)
      BY <1>3 DEF Flush, gvars, rvars
    <2>1. CASE Running
      <3>1. 1 \in 1 .. Len(mmio) /\ Head(mmio) = mmio[1]
        BY <2>0, LastStays
      <3>2. /\ mmio[1].reg = "RDT" /\ Dist(gi, rdt) < Dist(gi, mmio[1].val)
            /\ mmio[1].val \in Slots
        <4>1. mmio[1] \in Writes
          BY <2>0, LastStays
        <4>2. mmio[1].reg = "RDT" => mmio[1].val \in Slots
          BY <4>1 DEF Writes
        <4> QED
          BY <2>1, <3>1, <4>2 DEF TailInv
      <3>3. rdt' = mmio[1].val /\ rdh' = rdh
        BY <2>0, <3>1, <3>2
      <3>4. Dist(gi, rdh) < Dist(gi, rdt')
        <4>1. Dist(gi, rdh) <= Dist(gi, rdt)
          BY <2>1 DEF HeadInv
        <4> QED
          BY <1>0, <3>2, <3>3, <4>1
      <3>5. rdh' # rdt' /\ Dist(gi, rdh') <= Dist(gi, rdt')
        BY <1>0, <3>2, <3>3, <3>4
      <3>6. \A i \in Slots : ring[i].dd => Dist(gi, i) < Dist(gi, rdh')
        BY <2>1, <3>3 DEF HeadInv
      <3> QED
        BY <2>0, <3>5, <3>6 DEF HeadInv
    <2>2. CASE ~Running /\ Running'
      <3>1. gpc = "up" /\ mmio' = <<>>
        BY <2>0, <2>2 DEF Running, Unfilled, SetupInv
      <3>2. mmio[1] = Write("RDT", N - 2) /\ Head(mmio) = mmio[1] /\ gi = 0 /\ rdh = 0
        BY <2>0, <2>2, <3>1, LastStays DEF SetupInv
      <3>3. rdt' = N - 2 /\ rdh' = 0
        BY <2>0, <3>2 DEF Write
      <3>4. rdt' # 0 /\ N - 2 \in Slots /\ Dist(gi, rdh') = 0 /\ Dist(gi, rdh') <= Dist(gi, rdt')
        BY <1>0, <3>2, <3>3 DEF Slots, Dist
      <3>5. \A i \in Slots : ~ring[i].dd
        BY <2>2 DEF SetupInv
      <3>6. \A i \in Slots : ring'[i].dd => Dist(gi', i) < Dist(gi', rdh')
        BY <2>0, <3>5
      <3> QED
        BY <2>0, <3>3, <3>4, <3>6 DEF HeadInv
    <2> QED
      BY <1>2, <2>1, <2>2
  <1>4. CASE Alloc
    <2>0. /\ ring' = [ring EXCEPT ![ai].addr = TRUE]
          /\ UNCHANGED <<rdh, rdt, check_rxov, rpc, gi, gpc, mmio>>
      BY <1>4 DEF Alloc, regs, rvars
    <2>1. \A i \in Slots : ring'[i].dd = ring[i].dd
      BY <1>0, <2>0 DEF Desc
    <2> QED
      BY <2>0, <2>1 DEF HeadInv, Running, Unfilled
  <1>5. CASE Clean
    <2>0. /\ Running /\ gi' = Succ(gi) /\ ring[gi].dd /\ UNCHANGED <<rdh, rdt, check_rxov, rpc>>
          /\ ring' = [ring EXCEPT ![gi].dd = FALSE, ![gi].eop = FALSE, ![gi].frame = None]
      BY <1>5 DEF Clean, Ready, Running, Unfilled, regs, rvars
    <2>1. /\ Dist(gi, rdh) <= Dist(gi, rdt)
          /\ check_rxov \/ rdh # rdt
          /\ rpc = "write" => rdh # rdt
          /\ \A i \in Slots : ring[i].dd => Dist(gi, i) < Dist(gi, rdh)
      BY <2>0 DEF HeadInv
    <2>2. Dist(gi, rdh) > 0 /\ Dist(gi, rdt) > 0
      BY <1>0, <2>0, <2>1, RxFacts
    <2>3. \A b \in Slots : b # gi => Dist(gi', b) = Dist(gi, b) - 1
      BY <1>0, <2>0, DistClean
    <2>4. rdh # gi /\ rdt # gi
      BY <1>0, <2>2, RxFacts
    <2>5. Dist(gi', rdh) <= Dist(gi', rdt)
      BY <1>0, <2>1, <2>3, <2>4
    <2>6. ASSUME NEW i \in Slots, ring'[i].dd PROVE Dist(gi', i) < Dist(gi', rdh)
      <3>1. ~ring'[gi].dd
        BY <1>0, <2>0 DEF Desc
      <3>2. i # gi
        BY <2>6, <3>1
      <3>3. ring'[i] = ring[i]
        BY <1>0, <2>0, <3>2
      <3>4. Dist(gi, i) < Dist(gi, rdh)
        BY <2>1, <2>6, <3>3
      <3> QED
        BY <1>0, <2>3, <2>4, <3>2, <3>4
    <2> QED
      BY <2>0, <2>1, <2>5, <2>6, Zenon DEF HeadInv
  <1>6. CASE RxRead
    BY <1>6 DEF RxRead, HeadInv, Running, Unfilled, regs, gvars
  <1>7. CASE RxWrite
    <2>0. /\ rpc = "write" /\ ring' = [ring EXCEPT ![rdh] = Completed] /\ rdh' = Succ(rdh)
          /\ check_rxov' = TRUE /\ rpc' # "write" /\ UNCHANGED <<rdt, gi, gpc, mmio>>
      BY <1>7 DEF RxWrite, RxReturn, gvars
    <2>1. Running
      BY <2>0 DEF SetupInv
    <2>2. rdh # rdt /\ Dist(gi, rdh) <= Dist(gi, rdt)
      BY <2>0, <2>1 DEF HeadInv
    <2>3. Dist(gi, rdh) # Dist(gi, rdt)
      BY <1>0, <2>2, DistType
    <2>4. Dist(gi, rdh) < Dist(gi, rdt) /\ Dist(gi, rdh) < N - 1
      BY <1>0, <2>2, <2>3
    <2>5. Dist(gi, rdh') = Dist(gi, rdh) + 1
      BY <1>0, <2>0, <2>4, DistSucc
    <2>6. Dist(gi, rdh') <= Dist(gi, rdt)
      BY <1>0, <2>4, <2>5
    <2>7. ASSUME NEW i \in Slots, ring'[i].dd PROVE Dist(gi, i) < Dist(gi, rdh')
      <3>1. CASE i = rdh
        BY <1>0, <2>5, <3>1
      <3>2. CASE i # rdh
        <4>1. ring'[i] = ring[i]
          BY <1>0, <2>0, <3>2
        <4>2. Dist(gi, i) < Dist(gi, rdh)
          BY <2>1, <2>7, <4>1 DEF HeadInv
        <4> QED
          BY <1>0, <2>5, <4>2
      <3> QED
        BY <3>1, <3>2
    <2> QED
      BY <2>0, <2>6, <2>7 DEF HeadInv
  <1>8. CASE AllocEnds
    <2>1. CASE gpc = "fill"
      <3>1. gpc' = "up" /\ ai = N - 1 /\ ntu = 0
        BY <1>0, <1>8, <2>1 DEF AllocEnds, After, SetupInv
      <3>2. mmio' = Append(mmio, Write("RDT", Pred(ai)))
        BY <1>0, <1>8, <3>1 DEF AllocEnds
      <3>3. mmio \in Seq(Writes)
        BY DEF TypeOK
      <3>4. mmio' # <<>>
        BY <3>2, <3>3
      <3> QED
        BY <1>2, <3>1, <3>4 DEF Running, Unfilled
    <2>2. CASE gpc # "fill"
      BY <1>1, <1>8, <2>2 DEF AllocEnds, regs, rvars, Running, Unfilled, Allocating
    <2> QED
      BY <2>1, <2>2
  <1>9. CASE Configure \/ Down
    BY <1>2, <1>9 DEF Configure, Down, Running, Unfilled
  <1>10. CASE Mask \/ Repoll
    BY <1>1, <1>10 DEF Mask, Repoll, RefillInv, Running, Unfilled, regs, rvars
  <1>11. CASE AllocFails \/ CleanEnds
    BY <1>1, <1>11 DEF AllocFails, CleanEnds, Running, Unfilled, regs, rvars
  <1>12. CASE Enable \/ Link \/ Watchdog \/ Intr
    BY <1>1, <1>12 DEF Enable, Link, Watchdog, Ics, Intr, Reached, Running, Unfilled, regs,
       rvars, gvars
  <1>13. CASE RxOverrun \/ \E f \in Frames : Receive(f)
    BY <1>13 DEF RxOverrun, RxReturn, Receive, HeadInv, Running, Unfilled, regs, gvars
  <1>14. CASE UNCHANGED vars
    BY <1>1, <1>14 DEF vars, regs, rvars, gvars, Running, Unfilled
  <1>15. ~SaveRestore
    BY DEF SaveRestore
  <1> QED
    BY <1>3, <1>4, <1>5, <1>6, <1>7, <1>8, <1>9, <1>10, <1>11, <1>12, <1>13, <1>14, <1>15
       DEF Next, Driver, Receiving

-----------------------------------------------------------------------------
(* What the ring holds *)

\* The descriptors up to Edge have the address of their buffer, and so has the
\* copy e1000_receive is about to write back.
AddrInv ==
    /\ \A i \in Slots : Dist(gi, i) < Dist(gi, Edge) => ring[i].addr
    /\ rpc = "write" => rdesc.addr

\* The completed descriptors are the ones from gi to the head, and hold the
\* pending frames in their order.
StoredInv ==
    /\ pending \in Seq(Frames \cup {None})
    /\ ~Running => pending = <<>>
    /\ Running =>
          /\ Len(pending) = Dist(gi, rdh)
          /\ \A i \in Slots : Dist(gi, i) < Dist(gi, rdh) =>
                /\ ring[i].dd /\ ring[i].eop
                /\ ring[i].frame = pending[Dist(gi, i) + 1]

\* The head is short of the end of what the driver has given away.
LEMMA HeadEdge ==
    ASSUME RingInv, Running, rdh # rdt
    PROVE  /\ Dist(gi, rdh) \in Nat /\ Dist(gi, rdh) < Dist(gi, Edge)
           /\ Dist(gi, rdh) < N - 1 /\ Edge \in Slots
  <1> USE DEF RingInv
  <1>0. /\ N \in Nat /\ rdh \in Slots /\ rdt \in Slots /\ ntu \in Slots /\ ai \in Slots
        /\ \A b \in Slots : Dist(gi, b) \in Nat /\ Dist(gi, b) <= N - 1
    BY RxFacts DEF TypeOK
  <1>1. Dist(gi, rdh) <= Dist(gi, rdt) /\ Dist(gi, rdt) < Dist(gi, ntu)
    BY DEF HeadInv, TailInv
  <1>2. Dist(gi, ntu) <= Dist(gi, Edge) /\ Edge \in Slots
    BY <1>0 DEF RefillInv, Edge
  <1> QED
    BY <1>0, <1>1, <1>2

\* The buffers' addresses stay in their descriptors: the driver gives a
\* descriptor away with one, and e1000_receive writes back the one it has read.
LEMMA RxAddr ==
    ASSUME RingInv, AddrInv, [Next]_vars
    PROVE  AddrInv'
  <1> USE DEF RingInv
  <1>0. /\ N \in Nat /\ N > 2 /\ 0 \in Slots /\ gi \in Slots /\ ai \in Slots /\ ntu \in Slots
        /\ \A b \in Slots : Dist(gi, b) \in Nat /\ Dist(gi, b) <= N - 1
        /\ Dist(gi, gi) = 0 /\ Dist(0, 0) = 0 /\ rdh \in Slots
        /\ ring \in [Slots -> Desc] /\ rdesc \in Desc /\ need \in 0 .. N - 1
    BY RxFacts DEF TypeOK
  <1>1. ASSUME UNCHANGED <<gi, Edge>>, rpc' = "write" => rdesc'.addr,
               \A i \in Slots : ring[i].addr => ring'[i].addr
        PROVE  AddrInv'
    BY <1>1 DEF AddrInv
  <1>2. ASSUME gi' = 0, Edge' = 0, rpc' # "write" PROVE AddrInv'
    <2>1. \A i \in Slots : Dist(0, i) \in 0 .. N - 1
      BY <1>0, DistType
    <2>2. \A i \in Slots : ~(Dist(gi', i) < Dist(gi', Edge'))
      BY <1>0, <1>2, <2>1
    <2> QED
      BY <1>2, <2>2 DEF AddrInv
  <1>3. CASE Configure
    <2>1. gi = 0 /\ ntu = 0 /\ rpc = "idle"
      BY <1>3 DEF Configure, SetupInv, Running
    <2>2. gi' = 0 /\ Edge' = 0 /\ rpc' = "idle"
      BY <1>3, <2>1 DEF Configure, Edge, Allocating, rvars
    <2> QED
      BY <1>2, <2>2
  <1>4. CASE Alloc
    <2>1. Dist(gi, ai) < N - 1
      BY <1>0, <1>4 DEF Alloc, RefillInv
    <2>2. Dist(gi, ai') = Dist(gi, ai) + 1
      BY <1>0, <1>4, <2>1, DistSucc DEF Alloc
    <2>3. /\ Edge = ai /\ Edge' = ai' /\ gi' = gi /\ UNCHANGED <<rpc, rdesc>>
          /\ ring' = [ring EXCEPT ![ai].addr = TRUE]
      BY <1>4 DEF Alloc, Edge, rvars
    <2>4. ring'[ai].addr /\ \A i \in Slots : ring[i].addr => ring'[i].addr
      BY <1>0, <2>3 DEF Desc
    <2>5. ASSUME NEW i \in Slots, Dist(gi, i) < Dist(gi, ai) + 1 PROVE ring'[i].addr
      <3>1. Dist(gi, i) < Dist(gi, ai) \/ Dist(gi, i) = Dist(gi, ai)
        BY <1>0, <2>5
      <3>2. Dist(gi, i) = Dist(gi, ai) => i = ai
        BY <1>0, DistType
      <3> QED
        BY <2>3, <2>4, <3>1, <3>2 DEF AddrInv
    <2> QED
      BY <2>2, <2>3, <2>5 DEF AddrInv
  <1>5. CASE AllocEnds
    <2>1. UNCHANGED <<gi, Edge, ring, rpc, rdesc>>
      BY <1>5 DEF AllocEnds, After, Edge, Allocating, rvars
    <2> QED
      BY <1>1, <2>1 DEF AddrInv
  <1>6. CASE Clean
    <2>1. /\ gi # ntu /\ Edge = ntu /\ Edge' = ntu /\ gi' = Succ(gi) /\ UNCHANGED <<rpc, rdesc>>
          /\ ring' = [ring EXCEPT ![gi].dd = FALSE, ![gi].eop = FALSE, ![gi].frame = None]
      BY <1>6, RxFacts DEF Clean, Running, Unfilled, Edge, Allocating, rvars
    <2>2. Dist(gi', ntu) = Dist(gi, ntu) - 1
      BY <1>0, <2>1, DistClean
    <2>3. ASSUME NEW i \in Slots, Dist(gi', i) < Dist(gi', ntu) PROVE ring'[i].addr
      <3>1. i # gi /\ Dist(gi', i) = Dist(gi, i) - 1
        BY <1>0, <2>1, <2>2, <2>3, DistClean
      <3>2. Dist(gi, i) < Dist(gi, ntu)
        BY <1>0, <2>2, <2>3, <3>1
      <3>3. ring'[i] = ring[i]
        BY <1>0, <2>1, <3>1
      <3> QED
        BY <2>1, <3>2, <3>3 DEF AddrInv
    <2> QED
      BY <2>1, <2>3, Zenon DEF AddrInv
  <1>7. CASE Down
    <2>1. gi' = 0 /\ Edge' = 0 /\ rpc' = "idle"
      BY <1>7 DEF Down, Reached, Edge, Allocating, rvars
    <2> QED
      BY <1>2, <2>1
  <1>8. CASE Mask \/ Repoll
    <2>1. UNCHANGED <<gi, Edge, ring, rpc, rdesc>>
      BY <1>8 DEF Mask, Repoll, RefillInv, Edge, Allocating, rvars
    <2> QED
      BY <1>1, <2>1 DEF AddrInv
  <1>9. CASE AllocFails \/ Enable \/ Link \/ Watchdog \/ Intr \/ CleanEnds
    <2>1. UNCHANGED <<gi, Edge, ring, rpc, rdesc>>
      BY <1>9 DEF AllocFails, Enable, Link, Watchdog, Ics, Intr, CleanEnds, Edge, Allocating,
         gvars, rvars
    <2> QED
      BY <1>1, <2>1 DEF AddrInv
  <1>10. CASE RxRead
    <2>1. UNCHANGED <<gi, Edge, ring>> /\ rpc = "desc" /\ rdesc' = ring[rdh]
      BY <1>10 DEF RxRead, Edge, gvars
    <2>2. Running /\ rdh # rdt
      BY <1>10 DEF RxRead, SetupInv, HeadInv
    <2>3. ring[rdh].addr
      BY <1>0, <2>2, HeadEdge DEF AddrInv
    <2> QED
      BY <1>1, <2>1, <2>3
  <1>11. CASE RxWrite
    <2>1. /\ UNCHANGED <<gi, Edge>> /\ rpc = "write" /\ rpc' # "write"
          /\ ring' = [ring EXCEPT ![rdh] = Completed]
      BY <1>11 DEF RxWrite, RxReturn, Edge, gvars
    <2>2. Completed.addr
      BY <1>0, <2>1 DEF Completed, AddrInv, Desc
    <2>3. \A i \in Slots : ring[i].addr => ring'[i].addr
      BY <1>0, <2>1, <2>2
    <2> QED
      BY <1>1, <2>1, <2>3
  <1>12. CASE RxOverrun \/ Flush \/ SaveRestore \/ (\E f \in Frames : Receive(f)) \/ UNCHANGED vars
    <2>1. UNCHANGED <<gi, Edge, ring>> /\ (rpc' = "write" => rpc = "write" /\ rdesc' = rdesc)
      BY <1>12 DEF RxOverrun, RxReturn, Flush, SaveRestore, Receive, vars, Edge, gvars, rvars
    <2> QED
      BY <1>1, <2>1 DEF AddrInv
  <1> QED
    BY <1>3, <1>4, <1>5, <1>6, <1>7, <1>8, <1>9, <1>10, <1>11, <1>12 DEF Next, Driver, Receiving

\* A frame that e1000_receive stores joins the others at the head, one the driver
\* cleans leaves them at gi, and nothing else moves them.
LEMMA RxStored ==
    ASSUME RingInv, AddrInv, StoredInv, [Next]_vars
    PROVE  StoredInv'
  <1> USE DEF RingInv
  <1>0. /\ N \in Nat /\ N > 2 /\ 0 \in Slots /\ gi \in Slots /\ ai \in Slots /\ rdh \in Slots
        /\ \A b \in Slots : Dist(gi, b) \in Nat /\ Dist(gi, b) <= N - 1
        /\ Dist(gi, gi) = 0 /\ Dist(0, 0) = 0
        /\ ring \in [Slots -> Desc] /\ rdesc \in Desc /\ rframe \in Frames \cup {None}
    BY RxFacts DEF TypeOK
  <1>S. pending \in Seq(Frames \cup {None}) /\ Len(pending) \in Nat
    BY LenProperties DEF StoredInv
  <1>1. ASSUME UNCHANGED <<gi, rdh, pending>>, Running' <=> Running,
               \A i \in Slots : /\ ring'[i].dd = ring[i].dd /\ ring'[i].eop = ring[i].eop
                                /\ ring'[i].frame = ring[i].frame
        PROVE  StoredInv'
    BY <1>1 DEF StoredInv
  <1>2. ASSUME ~Running', pending' = <<>> PROVE StoredInv'
    BY <1>2, EmptySeq DEF StoredInv
  <1>3. CASE Flush
    <2>0. /\ mmio # <<>> /\ mmio' = Tail(mmio) /\ UNCHANGED <<gpc, gi, ring, pending>>
          /\ rdh' = (IF Head(mmio).reg = "RDH" THEN Head(mmio).val ELSE rdh)
      BY <1>3, Zenon DEF Flush, gvars
    <2>1. Head(mmio) = mmio[1] /\ 1 \in 1 .. Len(mmio)
      BY <2>0, LastStays
    <2>2. CASE Running
      <3>1. mmio[1].reg = "RDT" /\ Running'
        BY <2>0, <2>1, <2>2 DEF TailInv, Running, Unfilled
      <3> QED
        BY <1>1, <2>0, <2>1, <2>2, <3>1
    <2>3. CASE ~Running
      <3>1. pending' = <<>> /\ gi = 0 /\ rdh = 0
        BY <2>0, <2>3 DEF StoredInv, SetupInv
      <3>2. CASE ~Running'
        BY <1>2, <3>1, <3>2
      <3>3. CASE Running'
        <4>1. gpc = "up" /\ mmio' = <<>>
          BY <2>0, <2>3, <3>3 DEF Running, Unfilled, SetupInv
        <4>2. mmio[1] = Write("RDT", N - 2)
          BY <2>0, <4>1, LastStays DEF SetupInv
        <4>3. gi' = 0 /\ rdh' = 0
          BY <2>0, <2>1, <3>1, <4>2 DEF Write
        <4>4. \A i \in Slots : Dist(0, i) \in 0 .. N - 1
          BY <1>0, DistType
        <4>5. /\ Len(pending') = Dist(gi', rdh')
              /\ \A i \in Slots : ~(Dist(gi', i) < Dist(gi', rdh'))
          BY <1>0, <3>1, <4>3, <4>4
        <4> QED
          BY <3>1, <3>3, <4>5, EmptySeq DEF StoredInv
      <3> QED
        BY <3>2, <3>3
    <2> QED
      BY <2>2, <2>3
  <1>4. CASE Alloc
    <2>1. /\ ring' = [ring EXCEPT ![ai].addr = TRUE]
          /\ UNCHANGED <<rdh, gi, gpc, mmio, pending>>
      BY <1>4 DEF Alloc, regs
    <2>2. \A i \in Slots : /\ ring'[i].dd = ring[i].dd /\ ring'[i].eop = ring[i].eop
                           /\ ring'[i].frame = ring[i].frame
      BY <1>0, <2>1 DEF Desc
    <2>3. Running' <=> Running
      BY <2>1 DEF Running, Unfilled
    <2> QED
      BY <1>1, <2>1, <2>2, <2>3
  <1>5. CASE Clean
    <2>0. /\ Running /\ Running' /\ gi' = Succ(gi) /\ ring[gi].dd /\ UNCHANGED rdh
          /\ ring' = [ring EXCEPT ![gi].dd = FALSE, ![gi].eop = FALSE, ![gi].frame = None]
          /\ pending' = IF ring[gi].eop /\ pending # <<>> THEN Tail(pending) ELSE pending
      BY <1>5 DEF Clean, Ready, Running, Unfilled, regs
    <2>1. Dist(gi, rdh) > 0 /\ rdh # gi
      BY <1>0, <2>0 DEF HeadInv
    <2>2. /\ Len(pending) = Dist(gi, rdh)
          /\ \A i \in Slots : Dist(gi, i) < Dist(gi, rdh) =>
                /\ ring[i].dd /\ ring[i].eop
                /\ ring[i].frame = pending[Dist(gi, i) + 1]
      BY <2>0 DEF StoredInv
    <2>3. ring[gi].eop /\ pending # <<>>
      BY <1>0, <1>S, <2>1, <2>2, EmptySeq
    <2>4. /\ pending' \in Seq(Frames \cup {None}) /\ Len(pending') = Len(pending) - 1
          /\ \A k \in 1 .. Len(pending) - 1 : pending'[k] = pending[k + 1]
      BY <1>S, <2>0, <2>3, HeadTailProperties
    <2>5. \A b \in Slots : b # gi => Dist(gi', b) = Dist(gi, b) - 1
      BY <1>0, <2>0, DistClean
    <2>6. Len(pending') = Dist(gi', rdh)
      BY <1>0, <2>1, <2>2, <2>4, <2>5
    <2>7. ASSUME NEW i \in Slots, Dist(gi', i) < Dist(gi', rdh)
          PROVE  /\ ring'[i].dd /\ ring'[i].eop
                 /\ ring'[i].frame = pending'[Dist(gi', i) + 1]
      <3>1. i # gi
        BY <1>0, <2>0, <2>1, <2>5, <2>7, DistClean
      <3>2. Dist(gi', i) = Dist(gi, i) - 1 /\ Dist(gi, i) < Dist(gi, rdh)
        BY <1>0, <2>1, <2>5, <2>7, <3>1
      <3>3. Dist(gi, i) > 0
        BY <1>0, <3>1, DistType
      <3>4. Dist(gi, i) \in 1 .. Len(pending) - 1 /\ Dist(gi', i) + 1 = Dist(gi, i)
        <4>1. Dist(gi, i) \in Nat /\ Len(pending) \in Nat /\ Len(pending) = Dist(gi, rdh)
          BY <1>0, <1>S, <2>2
        <4> QED
          BY <3>2, <3>3, <4>1
      <3>5. pending'[Dist(gi', i) + 1] = pending[Dist(gi, i) + 1]
        BY <2>4, <3>4
      <3>6. ring'[i] = ring[i]
        BY <1>0, <2>0, <3>1
      <3> QED
        BY <2>2, <3>2, <3>5, <3>6
    <2> QED
      BY <2>0, <2>4, <2>6, <2>7, Zenon DEF StoredInv
  <1>6. CASE RxWrite
    <2>0. /\ rpc = "write" /\ ring' = [ring EXCEPT ![rdh] = Completed] /\ rdh' = Succ(rdh)
          /\ UNCHANGED <<gi, gpc, mmio>>
          /\ pending' = IF rdesc.addr /\ Len(pending) < N THEN Append(pending, rframe) ELSE pending
      BY <1>6 DEF RxWrite, gvars
    <2>1. Running /\ Running' /\ rdh # rdt /\ rdesc.addr
      BY <2>0 DEF SetupInv, HeadInv, AddrInv, Running, Unfilled
    <2>2. Dist(gi, rdh) < N - 1
      BY <2>1, HeadEdge
    <2>3. Dist(gi, rdh') = Dist(gi, rdh) + 1
      BY <1>0, <2>0, <2>2, DistSucc
    <2>4. /\ Len(pending) = Dist(gi, rdh)
          /\ \A i \in Slots : Dist(gi, i) < Dist(gi, rdh) =>
                /\ ring[i].dd /\ ring[i].eop
                /\ ring[i].frame = pending[Dist(gi, i) + 1]
      BY <2>1 DEF StoredInv
    <2>5. pending' = Append(pending, rframe)
      <3>1. Len(pending) < N
        BY <1>0, <1>S, <2>2, <2>4
      <3> QED
        BY <2>0, <2>1, <3>1
    <2>6. /\ pending' \in Seq(Frames \cup {None}) /\ Len(pending') = Len(pending) + 1
          /\ pending'[Len(pending) + 1] = rframe
          /\ \A k \in 1 .. Len(pending) : pending'[k] = pending[k]
      BY <1>0, <1>S, <2>5, AppendProperties
    <2>7. Completed.dd /\ Completed.eop /\ Completed.frame = rframe
      BY <1>0, <2>1 DEF Completed, Desc
    <2>8. ASSUME NEW i \in Slots, Dist(gi, i) < Dist(gi, rdh')
          PROVE  /\ ring'[i].dd /\ ring'[i].eop
                 /\ ring'[i].frame = pending'[Dist(gi, i) + 1]
      <3>1. CASE i = rdh
        <4>1. ring'[i] = Completed
          BY <1>0, <2>0, <3>1
        <4> QED
          BY <2>4, <2>6, <2>7, <3>1, <4>1
      <3>2. CASE i # rdh
        <4>1. ring'[i] = ring[i]
          BY <1>0, <2>0, <3>2
        <4>2. Dist(gi, i) # Dist(gi, rdh)
          BY <1>0, <3>2, DistType
        <4>3. Dist(gi, i) < Dist(gi, rdh)
          BY <1>0, <2>3, <2>8, <4>2
        <4>4. Dist(gi, i) + 1 \in 1 .. Len(pending)
          <5>1. Dist(gi, i) \in Nat /\ Len(pending) \in Nat /\ Len(pending) = Dist(gi, rdh)
            BY <1>0, <1>S, <2>4
          <5> QED
            BY <4>3, <5>1
        <4>5. pending'[Dist(gi, i) + 1] = pending[Dist(gi, i) + 1]
          BY <2>6, <4>4
        <4> QED
          BY <2>4, <4>1, <4>3, <4>5
      <3> QED
        BY <3>1, <3>2
    <2>9. Len(pending') = Dist(gi, rdh')
      BY <2>3, <2>4, <2>6
    <2> QED
      BY <2>0, <2>1, <2>6, <2>8, <2>9, Zenon DEF StoredInv
  <1>7. CASE Configure
    <2>1. ~Running /\ ~Running' /\ pending' = pending
      BY <1>7 DEF Configure, Running, Unfilled
    <2> QED
      BY <1>2, <2>1 DEF StoredInv
  <1>8. CASE Down
    BY <1>2, <1>8 DEF Down, Running
  <1>9. CASE AllocEnds
    <2>1. UNCHANGED <<rdh, gi, ring, pending>>
      BY <1>9 DEF AllocEnds, regs
    <2>2. CASE gpc = "fill"
      <3>1. gpc' = "up" /\ ai = N - 1 /\ ntu = 0
        BY <1>0, <1>9, <2>2 DEF AllocEnds, After, SetupInv
      <3>2. mmio' = Append(mmio, Write("RDT", Pred(ai)))
        BY <1>0, <1>9, <3>1 DEF AllocEnds
      <3>3. mmio \in Seq(Writes)
        BY DEF TypeOK
      <3>4. mmio' # <<>>
        BY <3>2, <3>3
      <3>5. ~Running /\ ~Running'
        BY <2>2, <3>1, <3>4 DEF Running, Unfilled
      <3> QED
        BY <1>1, <2>1, <3>5
    <2>3. CASE gpc # "fill"
      <3>1. Running /\ Running'
        BY <1>9, <2>3 DEF AllocEnds, After, Running, Unfilled, Allocating
      <3> QED
        BY <1>1, <2>1, <3>1
    <2> QED
      BY <2>2, <2>3
  <1>10. CASE Mask \/ Repoll
    BY <1>1, <1>10 DEF Mask, Repoll, RefillInv, Running, Unfilled, regs
  <1>11. CASE AllocFails \/ CleanEnds
    BY <1>1, <1>11 DEF AllocFails, CleanEnds, Running, Unfilled, regs
  <1>12. CASE Enable \/ Link \/ Watchdog \/ Intr
    BY <1>1, <1>12 DEF Enable, Link, Watchdog, Ics, Intr, Reached, Running, Unfilled, regs, gvars
  <1>13. CASE RxOverrun \/ RxRead \/ SaveRestore \/ (\E f \in Frames : Receive(f)) \/ UNCHANGED vars
    BY <1>1, <1>13 DEF RxOverrun, RxRead, SaveRestore, Receive, vars, Running, Unfilled, regs, gvars
  <1> QED
    BY <1>3, <1>4, <1>5, <1>6, <1>7, <1>8, <1>9, <1>10, <1>11, <1>12, <1>13
       DEF Next, Driver, Receiving

\* The position d steps from a.
LEMMA DistMod ==
    ASSUME NEW a \in Slots, NEW d \in Nat, d < N
    PROVE  (a + d) % N \in Slots /\ Dist(a, (a + d) % N) = d
  <1>1. N \in Nat /\ N > 2 /\ a \in Nat /\ a < N
    BY RxAssumption DEF Slots
  <1>2. CASE a + d < N
    <2>1. (a + d) % N = a + d
      BY <1>1, <1>2
    <2> QED
      BY <1>1, <1>2, <2>1 DEF Slots, Dist
  <1>3. CASE a + d >= N
    <2>1. (a + d) % N = a + d - N
      BY <1>1, <1>3
    <2> QED
      BY <1>1, <1>3, <2>1 DEF Slots, Dist
  <1> QED
    BY <1>1, <1>2, <1>3

-----------------------------------------------------------------------------
(* The theorems *)

\* The device starts with an empty ring that it does not use.
LEMMA RxInit == Init => RingInv
  <1> SUFFICES ASSUME Init PROVE RingInv
    OBVIOUS
  <1>1. N \in Nat /\ N > 2 /\ 0 \in Slots /\ MaxFails \in Nat /\ Budget \in Nat
    BY RxAssumption DEF Slots
  <1>2. Zeroed \in Desc /\ ~Zeroed.dd
    BY DEF Zeroed, Desc
  <1>3. TypeOK
    BY <1>1, <1>2, EmptySeq DEF Init, TypeOK, GPcs
  <1>4. ~Running /\ \A i \in Slots : ~ring[i].dd
    BY <1>2 DEF Init, Running
  <1>5. SetupInv
    BY <1>4, EmptySeq DEF Init, SetupInv, Unfilled
  <1>6. Dist(gi, Edge) = 0 /\ \A i \in Slots : Dist(gi, i) \in Nat
    BY <1>1, DistType DEF Init, Edge, Allocating
  <1>7. RefillInv /\ MappedInv
    BY <1>6 DEF Init, RefillInv, MappedInv, Allocating
  <1> QED
    BY <1>3, <1>4, <1>5, <1>7 DEF RingInv, TailInv, HeadInv

\* The order of the positions is inductive.
THEOREM RxRing ==
    ASSUME ~Early, ~Snapshots
    PROVE  Spec => []RingInv
  <1>1. Init => RingInv
    BY RxInit
  <1>2. RingInv /\ [Next]_vars => RingInv'
    BY RxTypes, RxSetup, RxRefill, RxMapped, RxTails, RxHead DEF RingInv
  <1> QED
    BY <1>1, <1>2, PTL DEF Spec

\* The registers and the driver's indices stay on the ring (TypeOK).
THEOREM RxTypesHold ==
    ASSUME ~Early, ~Snapshots
    PROVE  Spec => []TypeOK
  <1>1. RingInv => TypeOK
    BY DEF RingInv
  <1> QED
    BY <1>1, RxRing, PTL

\* e1000_receive stores a frame only in a mapped buffer the driver has cleaned:
\* the head is short of the tail, and the tail of next_to_use.
THEOREM RxNoOverwrite ==
    ASSUME ~Early, ~Snapshots
    PROVE  Spec => []NoOverwrite
  <1>1. RingInv => NoOverwrite
    <2> SUFFICES ASSUME RingInv, rpc = "write" PROVE rdh \in mapped /\ ~ring[rdh].dd
      BY DEF NoOverwrite
    <2> USE DEF RingInv
    <2>0. /\ N \in Nat /\ rdh \in Slots /\ rdt \in Slots /\ ntu \in Slots /\ ai \in Slots
          /\ \A b \in Slots : Dist(gi, b) \in Nat
      BY RxFacts DEF TypeOK
    <2>1. Running /\ rdh # rdt
      BY Zenon DEF SetupInv, HeadInv
    <2>2. /\ Dist(gi, rdh) <= Dist(gi, rdt) /\ Dist(gi, rdt) < Dist(gi, ntu)
          /\ ring[rdh].dd => Dist(gi, rdh) < Dist(gi, rdh)
      BY <2>0, <2>1 DEF HeadInv, TailInv
    <2>3. Dist(gi, ntu) <= Dist(gi, Edge) /\ Edge \in Slots
      BY <2>0 DEF RefillInv, Edge
    <2>4. Dist(gi, rdh) < Dist(gi, Edge)
      BY <2>0, <2>2, <2>3
    <2>5. rdh \in mapped
      BY <2>0, <2>4 DEF MappedInv
    <2>6. ~ring[rdh].dd
      BY <2>0, <2>2
    <2> QED
      BY <2>5, <2>6
  <1> QED
    BY <1>1, RxRing, PTL

\* What is stored is inductive together with the order of the positions.
THEOREM RxContents ==
    ASSUME ~Early, ~Snapshots
    PROVE  Spec => [](RingInv /\ AddrInv /\ StoredInv)
  <1>1. Init => AddrInv /\ StoredInv
    <2> SUFFICES ASSUME Init PROVE AddrInv /\ StoredInv
      OBVIOUS
    <2>1. Edge = 0 /\ gi = 0 /\ ~Running /\ rpc = "idle" /\ pending = <<>>
      BY DEF Init, Edge, Allocating, Running
    <2>2. \A i \in Slots : ~(Dist(0, i) < Dist(0, 0))
      <3>1. 0 \in Slots /\ N \in Nat
        BY RxAssumption DEF Slots
      <3>2. Dist(0, 0) = 0 /\ \A i \in Slots : Dist(0, i) \in 0 .. N - 1
        BY <3>1, DistType
      <3> QED
        BY <3>1, <3>2
    <2> QED
      BY <2>1, <2>2, EmptySeq DEF AddrInv, StoredInv
  <1>2. RingInv /\ AddrInv /\ StoredInv /\ [Next]_vars => AddrInv' /\ StoredInv'
    BY RxAddr, RxStored
  <1> QED
    BY <1>1, <1>2, RxRing, PTL DEF Spec

\* The pending frames are the completed descriptors.
LEMMA RxLossless ==
    ASSUME RingInv, StoredInv
    PROVE  Lossless
  <1> USE DEF RingInv
  <1>0. /\ N \in Nat /\ N > 2 /\ gi \in Slots /\ rdh \in Slots
        /\ \A b \in Slots : Dist(gi, b) \in Nat /\ Dist(gi, b) <= N - 1
    BY RxFacts DEF TypeOK
  <1> DEFINE Full == {i \in Slots : ring[i].dd}
  <1>1. CASE ~Running
    <2>1. Len(pending) = 0 /\ Full = {}
      BY <1>1, EmptySeq DEF StoredInv, SetupInv
    <2>2. Cardinality(Full) = Len(pending)
      BY <2>1, FS_EmptySet
    <2>3. 1 .. Len(pending) = {}
      BY <2>1
    <2> QED
      BY <2>2, <2>3 DEF Lossless
  <1>2. CASE Running
    <2>1. PICK n \in Nat : n = Len(pending) /\ n = Dist(gi, rdh) /\ n < N
      BY <1>0, <1>2 DEF StoredInv
    <2>2. ASSUME NEW k \in 1 .. n
          PROVE  /\ (gi + k - 1) % N \in Slots /\ Dist(gi, (gi + k - 1) % N) = k - 1
                 /\ ring[(gi + k - 1) % N].dd /\ ring[(gi + k - 1) % N].eop
                 /\ ring[(gi + k - 1) % N].frame = pending[k]
      <3>1. k - 1 \in Nat /\ k - 1 < N /\ gi + k - 1 = gi + (k - 1) /\ (k - 1) + 1 = k /\ k - 1 < n
        BY <1>0, <2>1 DEF Slots
      <3>2. (gi + k - 1) % N \in Slots /\ Dist(gi, (gi + k - 1) % N) = k - 1
        BY <1>0, <3>1, DistMod, Zenon
      <3> QED
        BY <1>2, <2>1, <3>1, <3>2 DEF StoredInv
    <2>3. Cardinality(Full) = n
      <3> DEFINE f == [k \in 1 .. n |-> (gi + k - 1) % N]
      <3>1. f \in [1 .. n -> Full]
        BY <2>2, Zenon
      <3>2. ASSUME NEW j \in 1 .. n, NEW k \in 1 .. n, f[j] = f[k] PROVE j = k
        <4>1. Dist(gi, f[j]) = j - 1 /\ Dist(gi, f[k]) = k - 1
          BY <2>2, Zenon
        <4>2. j - 1 = k - 1
          BY <3>2, <4>1
        <4> QED
          BY <4>2
      <3>3. ASSUME NEW i \in Full PROVE \E k \in 1 .. n : f[k] = i
        <4>1. i \in Slots /\ Dist(gi, i) < n
          BY <1>2, <2>1 DEF HeadInv
        <4>2. PICK k \in 1 .. n : k - 1 = Dist(gi, i)
          <5>1. Dist(gi, i) + 1 \in 1 .. n /\ (Dist(gi, i) + 1) - 1 = Dist(gi, i)
            BY <1>0, <4>1
          <5> QED
            BY <5>1
        <4>3. f[k] \in Slots /\ Dist(gi, f[k]) = Dist(gi, i)
          BY <2>2, <4>2
        <4>4. f[k] = i
          BY <1>0, <4>1, <4>3, DistType
        <4> QED
          BY <4>4
      <3> HIDE DEF f, Full
      <3>4. f \in Bijection(1 .. n, Full)
        BY <3>1, <3>2, <3>3, Fun_IsBij
      <3>5. ExistsBijection(1 .. n, Full)
        BY <3>4 DEF ExistsBijection
      <3> QED
        BY <3>5, FS_CountingElements
    <2> QED
      BY <2>1, <2>2, <2>3 DEF Lossless
  <1> QED
    BY <1>1, <1>2

\* No frame that e1000_receive has stored is lost, doubled or overtaken before
\* e1000_clean_rx_irq hands it on, however large the ring and whatever the order
\* of the register writes and the driver's refills.
THEOREM RxLosslessHolds ==
    ASSUME ~Early, ~Snapshots
    PROVE  Spec => []Lossless
  <1>1. RingInv /\ StoredInv => Lossless
    BY RxLossless
  <1> QED
    BY <1>1, RxContents, PTL

=============================================================================
