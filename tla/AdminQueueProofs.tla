-------------------------- MODULE AdminQueueProofs --------------------------
(***************************************************************************)
(* Proofs about AdminQueue for every ring size, with and without           *)
(* coalesced register writes.                                              *)
(*                                                                         *)
(* HeadInStep is not inductive: what keeps the device's head and the       *)
(* driver's next_to_use together while writes are under way is that the    *)
(* FIFO holds consecutive tail values, from the one after the tail         *)
(* register up to next_to_use.  FifoInv says so, pair by pair.             *)
(***************************************************************************)
EXTENDS AdminQueue, SequenceTheorems, TLAPS

\* b may follow a in the FIFO.
Follows(a, b) ==
    \/ a.reg = "ATQBA" /\ b = Write("ATQLEN", N)
    \/ a = Write("ATQLEN", N) /\ b = Write("ATQT", 0)
    \/ a = Write("ATQT", 0) /\ b = Write("ATQH", 0)
    \/ a.reg \in {"ATQT", "ATQH"} /\ b = Write("ATQT", Wrap(a.val, N))
    \/ a.reg \in {"ATQT", "ATQH"} /\ b = Write("ATQLEN", 0)

Writes ==
    [reg : {"ATQBA"}, val : Regions] \cup [reg : {"ATQLEN"}, val : {0, N}]
    \cup [reg : {"ATQT"}, val : Slots] \cup [reg : {"ATQH"}, val : {0}]

\* The head register once the descriptor being served is written back.
Ahead == IF qpc = "idle" THEN atqh ELSE Wrap(atqh, N)

\* What the FIFO holds, apart from the registers.
FifoInv ==
    /\ mmio \in Seq(Writes)
    /\ \A i, j \in 1 .. Len(mmio) : j = i + 1 => Follows(mmio[i], mmio[j])
    /\ \A i, j \in 1 .. Len(mmio) :
          mmio[i].reg = "ATQH" /\ mmio[j].reg = "ATQH" => i = j
    /\ \A i \in 1 .. Len(mmio) :
          mmio[i].reg = "ATQBA" \/ mmio[i] = Write("ATQLEN", N) => ~Settled

\* How its front fits the registers, and its end the driver.
RegInv ==
    /\ Settled => atqt = Ahead
    /\ qpc # "idle" => atqlen = N
    /\ mmio # <<>> =>
          /\ mmio[1].reg \in {"ATQT", "ATQH"} => atqlen = N
          /\ mmio[1].reg = "ATQH" => atqt = 0
          /\ mmio[1].reg = "ATQT" /\ Settled => mmio[1].val = Wrap(atqt, N)
    /\ dpc # "off" <=> region # 0
    /\ region # 0 =>
          IF mmio = <<>> THEN atqt = next_to_use /\ atqlen = N
          ELSE /\ mmio[Len(mmio)].reg \in {"ATQT", "ATQH"}
               /\ mmio[Len(mmio)].val = next_to_use

\* An indirect command's address is that of a mapped buffer.
AddrOK(d) == d.datalen > 0 => d.addr \in 1 .. N

AddrInv ==
    /\ AddrOK(ddesc)
    /\ \A i \in Slots : AddrOK(ring[i])
    /\ dpc = "buf" => cmd.datalen = 0
    /\ qpc \in {"read", "wbuf"} => ddesc.datalen > 0

QueueInv == TypeOK /\ FifoInv /\ RegInv /\ AddrInv
-----------------------------------------------------------------------------
(* Operators *)

\* The next position is a position, and the driver's way to find it is the
\* device's.
LEMMA WrapSlot ==
    ASSUME NEW i \in Slots
    PROVE  /\ Wrap(i, N) \in Slots /\ Wrap(i, 0) \in Slots
           /\ (IF i + 1 = N THEN 0 ELSE i + 1) = Wrap(i, N)
  BY QueueAssumption DEF Wrap, Slots

\* An answer is a descriptor with the length and the address of the command.
LEMMA AnswerKeeps ==
    ASSUME NEW d \in Desc, NEW e \in Answers(d)
    PROVE  e \in Desc /\ e.datalen = d.datalen /\ e.addr = d.addr /\ e.dd
  <1>1. CASE e = FwExec(d)
    BY <1>1 DEF FwExec, FwSwitch, GetVersion, Desc, RC_ENOSYS
  <1>2. CASE e = LocalExec(d)
    BY <1>2 DEF LocalExec, GetVersion, Desc, RC_ENOSYS
  <1> QED
    BY <1>1, <1>2 DEF Answers

\* A fresh descriptor is one, and has no buffer.
LEMMA FreshType ==
    ASSUME NEW op \in Nat, NEW c \in Nat
    PROVE  Fresh(op, c) \in Desc /\ Fresh(op, c).datalen = 0
  BY DEF Fresh, Desc, RC_OK

\* An indirect command has the address of a mapped buffer.
LEMMA IndirectType ==
    ASSUME NEW d \in Desc, NEW i \in Slots
    PROVE  Indirect(d, i) \in Desc /\ Indirect(d, i).addr \in 1 .. N
  <1>1. i + 1 \in 1 .. N /\ i + 1 \in Nat
    BY QueueAssumption DEF Slots
  <1> QED
    BY <1>1 DEF Indirect, Desc

-----------------------------------------------------------------------------
(* The FIFO *)

\* The writes are of the type TypeOK gives them.
LEMMA WritesType == \A w \in Writes : w \in [reg : Reg, val : Nat \cup Regions]
  BY QueueAssumption DEF Writes, Reg, Slots

\* Taking the first write off the FIFO leaves a FIFO, whose first write may
\* follow the one taken.
LEMMA FifoPop ==
    ASSUME FifoInv, mmio # <<>>, mmio' = Tail(mmio)
    PROVE  /\ FifoInv'
           /\ Head(mmio) = mmio[1] /\ mmio[1] \in Writes
           /\ mmio' # <<>> => /\ Follows(mmio[1], mmio'[1])
                              /\ mmio'[Len(mmio')] = mmio[Len(mmio)]
           /\ mmio' = <<>> => mmio[Len(mmio)] = mmio[1]
           /\ Settled' <=> Settled \/ mmio[1].reg = "ATQH"
  <1>1. /\ mmio \in Seq(Writes) /\ Len(mmio) \in Nat /\ Len(mmio) > 0
        /\ mmio' \in Seq(Writes) /\ Len(mmio') = Len(mmio) - 1
        /\ Head(mmio) = mmio[1] /\ mmio[1] \in Writes
    BY DEF FifoInv
  <1>2. \A i \in 1 .. Len(mmio') : i + 1 \in 1 .. Len(mmio) /\ mmio'[i] = mmio[i + 1]
    BY <1>1
  <1>3. \A i, j \in 1 .. Len(mmio') : j = i + 1 => Follows(mmio'[i], mmio'[j])
    <2> SUFFICES ASSUME NEW i \in 1 .. Len(mmio'), NEW j \in 1 .. Len(mmio'), j = i + 1
                 PROVE  Follows(mmio'[i], mmio'[j])
      OBVIOUS
    <2> QED
      BY <1>1, <1>2 DEF FifoInv
  <1>4. \A i, j \in 1 .. Len(mmio') :
           mmio'[i].reg = "ATQH" /\ mmio'[j].reg = "ATQH" => i = j
    <2> SUFFICES ASSUME NEW i \in 1 .. Len(mmio'), NEW j \in 1 .. Len(mmio'),
                        mmio'[i].reg = "ATQH", mmio'[j].reg = "ATQH"
                 PROVE  i = j
      OBVIOUS
    <2>1. i + 1 = j + 1
      BY <1>2 DEF FifoInv
    <2> QED
      BY <1>1, <2>1
  <1>5. Settled' <=> Settled \/ mmio[1].reg = "ATQH"
    <2>1. CASE mmio[1].reg = "ATQH"
      <3>1. ASSUME NEW i \in 1 .. Len(mmio'), mmio'[i].reg = "ATQH" PROVE FALSE
        <4>1. i + 1 = 1
          BY <1>1, <1>2, <2>1, <3>1 DEF FifoInv
        <4> QED
          BY <1>1, <4>1
      <3> QED
        BY <2>1, <3>1 DEF Settled
    <2>2. CASE mmio[1].reg # "ATQH"
      <3>1. ASSUME Settled' PROVE Settled
        <4> SUFFICES ASSUME NEW i \in 1 .. Len(mmio) PROVE mmio[i].reg # "ATQH"
          BY DEF Settled
        <4>1. CASE i = 1
          BY <2>2, <4>1
        <4>2. CASE i # 1
          <5>1. PICK k \in 1 .. Len(mmio') : k + 1 = i
            BY <1>1, <4>2
          <5> QED
            BY <1>2, <3>1, <5>1 DEF Settled
        <4> QED
          BY <4>1, <4>2
      <3>2. ASSUME Settled PROVE Settled'
        BY <1>1, <1>2, <3>2 DEF Settled
      <3> QED
        BY <2>2, <3>1, <3>2
    <2> QED
      BY <2>1, <2>2
  <1>6. ASSUME NEW i \in 1 .. Len(mmio'),
               mmio'[i].reg = "ATQBA" \/ mmio'[i] = Write("ATQLEN", N)
        PROVE  ~Settled'
    <2>1. ~Settled
      BY <1>2, <1>6 DEF FifoInv
    <2>2. PICK k \in 1 .. Len(mmio) : k = i
      BY <1>1
    <2>3. k + 1 \in 1 .. Len(mmio) /\ mmio[k + 1] = mmio'[i]
      BY <1>2, <2>2
    <2>4. Follows(mmio[k], mmio[k + 1])
      BY <2>3 DEF FifoInv
    <2>5. mmio[k].reg = "ATQBA"
      BY <1>6, <2>3, <2>4, QueueAssumption DEF Follows, Write
    <2>6. k = 1
      <3> SUFFICES ASSUME k # 1 PROVE FALSE
        OBVIOUS
      <3>1. PICK h \in 1 .. Len(mmio) : k = h + 1
        BY <1>1
      <3>2. Follows(mmio[h], mmio[k])
        BY <3>1 DEF FifoInv
      <3> QED
        BY <2>5, <3>2 DEF Follows, Write
    <2> QED
      BY <1>5, <2>1, <2>5, <2>6
  <1>7. mmio' # <<>> => Follows(mmio[1], mmio'[1]) /\ mmio'[Len(mmio')] = mmio[Len(mmio)]
    <2> SUFFICES ASSUME mmio' # <<>>
                 PROVE  Follows(mmio[1], mmio'[1]) /\ mmio'[Len(mmio')] = mmio[Len(mmio)]
      OBVIOUS
    <2>1. Len(mmio') \in 1 .. Len(mmio') /\ 1 \in 1 .. Len(mmio')
      BY <1>1
    <2>2. mmio'[Len(mmio')] = mmio[Len(mmio)]
      BY <1>1, <1>2, <2>1
    <2>3. PICK k \in 1 .. Len(mmio) : k = 2
      BY <1>1, <2>1
    <2>4. mmio'[1] = mmio[k]
      BY <1>2, <2>1, <2>3
    <2>5. Follows(mmio[1], mmio[k])
      BY <1>1, <2>3 DEF FifoInv
    <2> QED
      BY <2>2, <2>4, <2>5
  <1>8. mmio' = <<>> => mmio[Len(mmio)] = mmio[1]
    BY <1>1
  <1> QED
    BY <1>1, <1>3, <1>4, <1>5, <1>6, <1>7, <1>8 DEF FifoInv

\* A write that may follow the last one can join the FIFO.
LEMMA FifoPush ==
    ASSUME FifoInv, NEW w \in Writes, mmio' = Append(mmio, w),
           w.reg \in {"ATQT", "ATQLEN"}, w # Write("ATQLEN", N),
           mmio # <<>> => Follows(mmio[Len(mmio)], w)
    PROVE  /\ FifoInv'
           /\ Settled' <=> Settled
           /\ mmio' # <<>> /\ mmio'[Len(mmio')] = w
           /\ mmio # <<>> => mmio'[1] = mmio[1]
           /\ mmio = <<>> => mmio'[1] = w
  <1>1. /\ mmio \in Seq(Writes) /\ Len(mmio) \in Nat
        /\ mmio' \in Seq(Writes) /\ Len(mmio') = Len(mmio) + 1 /\ mmio' # <<>>
        /\ mmio'[Len(mmio')] = w
    BY DEF FifoInv
  <1>2. \A i \in 1 .. Len(mmio) : i \in 1 .. Len(mmio') /\ mmio'[i] = mmio[i]
    BY <1>1
  <1>3. \A i \in 1 .. Len(mmio') : i \in 1 .. Len(mmio) \/ i = Len(mmio')
    BY <1>1
  <1>4. \A i, j \in 1 .. Len(mmio') : j = i + 1 => Follows(mmio'[i], mmio'[j])
    <2> SUFFICES ASSUME NEW i \in 1 .. Len(mmio'), NEW j \in 1 .. Len(mmio'), j = i + 1
                 PROVE  Follows(mmio'[i], mmio'[j])
      OBVIOUS
    <2>1. i \in 1 .. Len(mmio)
      BY <1>1
    <2>2. CASE j \in 1 .. Len(mmio)
      BY <1>2, <2>1, <2>2 DEF FifoInv
    <2>3. CASE j = Len(mmio')
      <3>1. i = Len(mmio) /\ mmio # <<>>
        BY <1>1, <2>1, <2>3
      <3> QED
        BY <1>1, <1>2, <2>1, <2>3, <3>1
    <2> QED
      BY <1>3, <2>2, <2>3
  <1>5. \A i \in 1 .. Len(mmio') : mmio'[i].reg = "ATQH" =>
           i \in 1 .. Len(mmio) /\ mmio[i].reg = "ATQH"
    BY <1>1, <1>2, <1>3
  <1>6. Settled' <=> Settled
    BY <1>2, <1>5 DEF Settled
  <1>7. \A i \in 1 .. Len(mmio') :
           mmio'[i].reg = "ATQBA" \/ mmio'[i] = Write("ATQLEN", N) => ~Settled'
    <2> SUFFICES ASSUME NEW i \in 1 .. Len(mmio'),
                        mmio'[i].reg = "ATQBA" \/ mmio'[i] = Write("ATQLEN", N)
                 PROVE  ~Settled'
      OBVIOUS
    <2>1. i \in 1 .. Len(mmio)
      BY <1>1, <1>3
    <2> QED
      BY <1>2, <1>6, <2>1 DEF FifoInv
  <1>8. \A i, j \in 1 .. Len(mmio') :
           mmio'[i].reg = "ATQH" /\ mmio'[j].reg = "ATQH" => i = j
    BY <1>5 DEF FifoInv
  <1>9. mmio # <<>> => mmio'[1] = mmio[1]
    BY <1>1, <1>2
  <1>10. mmio = <<>> => mmio'[1] = w
    BY <1>1
  <1> QED
    BY <1>1, <1>4, <1>6, <1>7, <1>8, <1>9, <1>10 DEF FifoInv

-----------------------------------------------------------------------------
(* The invariant *)

\* The unloaded driver and the reset device satisfy it.
LEMMA QueueInit == Init => QueueInv
  <1> SUFFICES ASSUME Init PROVE QueueInv
    OBVIOUS
  <1>1. Fresh(0, 0) \in Desc /\ Fresh(0, 0).datalen = 0
    BY FreshType
  <1>2. TypeOK
    BY <1>1, QueueAssumption DEF Init, TypeOK, Slots
  <1>3. mmio = <<>> /\ Settled /\ FifoInv
    BY DEF Init, FifoInv, Settled
  <1>4. RegInv
    BY <1>3 DEF Init, RegInv, Ahead
  <1>5. AddrInv
    BY <1>1 DEF Init, AddrInv, AddrOK
  <1> QED
    BY <1>2, <1>3, <1>4, <1>5 DEF QueueInv

\* The initialisation.
LEMMA QueueStart ==
    ASSUME QueueInv, NEW g \in Regions, Start(g)
    PROVE  QueueInv'
  <1> USE DEF QueueInv
  <1>1. Fresh(0, 0) \in Desc /\ Fresh(0, 0).datalen = 0
    BY FreshType
  <1>2. TypeOK'
    <2>1. Config(g) \in Seq([reg : Reg, val : Nat \cup Regions])
      BY QueueAssumption DEF Config, Write, Reg
    <2>2. ring' \in [Slots -> Desc] /\ next_to_use' \in Slots
      BY <1>1, QueueAssumption DEF Start, Slots
    <2> QED
      BY <2>1, <2>2 DEF Start, TypeOK, regs
  <1>3. /\ mmio' \in Seq(Writes) /\ Len(mmio') = 4
        /\ mmio'[1] = Write("ATQBA", g) /\ mmio'[2] = Write("ATQLEN", N)
        /\ mmio'[3] = Write("ATQT", 0) /\ mmio'[4] = Write("ATQH", 0)
    <2>1. /\ Write("ATQBA", g) \in Writes /\ Write("ATQLEN", N) \in Writes
          /\ Write("ATQT", 0) \in Writes /\ Write("ATQH", 0) \in Writes
      BY QueueAssumption DEF Writes, Write, Slots
    <2> QED
      BY <2>1 DEF Start, Config
  <1>4. ~Settled'
    <2>1. 4 \in 1 .. Len(mmio') /\ mmio'[4].reg = "ATQH"
      BY <1>3 DEF Write
    <2> QED
      BY <2>1 DEF Settled
  <1>5. FifoInv'
    <2>1. 1 .. Len(mmio') = {1, 2, 3, 4}
      BY <1>3
    <2>2. /\ Follows(mmio'[1], mmio'[2]) /\ Follows(mmio'[2], mmio'[3])
          /\ Follows(mmio'[3], mmio'[4])
      BY <1>3 DEF Follows, Write
    <2>3. \A i, j \in {1, 2, 3, 4} : j = i + 1 => Follows(mmio'[i], mmio'[j])
      BY <2>2
    <2>4. \A i \in {1, 2, 3, 4} : mmio'[i].reg = "ATQH" => i = 4
      BY <1>3 DEF Write
    <2> QED
      BY <1>3, <1>4, <2>1, <2>3, <2>4 DEF FifoInv
  <1>6. RegInv'
    BY <1>3, <1>4, QueueAssumption DEF RegInv, Start, Drained, Write
  <1>7. AddrInv'
    BY <1>1 DEF AddrInv, AddrOK, Start, Drained
  <1> QED
    BY <1>2, <1>5, <1>6, <1>7

\* The steps of the driver that write no register.
LEMMA QueueFill ==
    ASSUME QueueInv,
           NEW op \in {aqc_get_version, aqc_echo}, NEW v \in Data,
           Fill(op, v) \/ FillBuf \/ EndPoll
    PROVE  QueueInv'
  <1> USE DEF QueueInv
  <1>1. UNCHANGED <<next_to_use, region, mmio, regs, qpc, ddesc, dbuf>>
    BY DEF Fill, FillBuf, EndPoll
  <1>2. dpc # "off" /\ dpc' # "off"
    BY DEF Fill, FillBuf, EndPoll, Completed, TimedOut
  <1>3. FifoInv' /\ RegInv'
    BY <1>1, <1>2 DEF FifoInv, RegInv, Settled, Ahead, regs
  <1>4. CASE Fill(op, v)
    <2>1. cookie' \in 1 .. Cookies /\ op \in Nat
      BY <1>4, QueueAssumption DEF Fill, TypeOK, aqc_get_version, aqc_echo
    <2>2. cmd' \in Desc /\ cmd'.datalen = 0
      BY <1>4, <2>1, FreshType DEF Fill
    <2>3. ring' = [ring EXCEPT ![next_to_use] = cmd'] /\ ring' \in [Slots -> Desc]
      BY <1>4, <2>2 DEF Fill, TypeOK
    <2>4. TypeOK'
      BY <1>1, <1>4, <2>1, <2>2, <2>3 DEF Fill, TypeOK, regs
    <2>5. \A i \in Slots : ring'[i] = cmd' \/ ring'[i] = ring[i]
      BY <2>3 DEF TypeOK
    <2>6. AddrInv'
      BY <1>1, <1>4, <2>2, <2>5 DEF Fill, AddrInv, AddrOK
    <2> QED
      BY <1>3, <2>4, <2>6
  <1>5. CASE FillBuf
    <2>1. next_to_use \in Slots /\ next_to_use + 1 \in 1 .. N
      BY QueueAssumption DEF TypeOK, Slots
    <2>2. cmd' \in Desc
      BY <1>5, <2>1, IndirectType DEF FillBuf, TypeOK
    <2>3. ring' \in [Slots -> Desc] /\ (\A i \in Slots : AddrOK(ring'[i]))
      <3>1. /\ Indirect(ring[next_to_use], next_to_use) \in Desc
            /\ AddrOK(Indirect(ring[next_to_use], next_to_use))
        BY <2>1, IndirectType DEF TypeOK, AddrOK
      <3>2. ring' = [ring EXCEPT ![next_to_use] = Indirect(ring[next_to_use], next_to_use)]
        BY <1>5 DEF FillBuf
      <3> QED
        BY <3>1, <3>2 DEF TypeOK, AddrInv
    <2>4. TypeOK'
      BY <1>1, <1>5, <2>1, <2>2, <2>3 DEF FillBuf, TypeOK, regs
    <2>5. AddrInv'
      BY <1>1, <1>5, <2>3 DEF FillBuf, AddrInv
    <2> QED
      BY <1>3, <2>4, <2>5
  <1>6. CASE EndPoll
    BY <1>3, <1>6 DEF EndPoll, TypeOK, AddrInv, regs
  <1> QED
    BY <1>4, <1>5, <1>6

\* The steps of the driver that write a register.
LEMMA QueuePost ==
    ASSUME QueueInv, Bump \/ Shutdown
    PROVE  QueueInv'
  <1> USE DEF QueueInv
  <1>1. next_to_use \in Slots /\ region # 0
    BY DEF TypeOK, RegInv, Bump, Shutdown
  <1>2. PICK w \in Writes :
           /\ mmio' = Append(mmio, w)
           /\ \/ /\ Bump /\ w = Write("ATQT", Wrap(next_to_use, N))
                 /\ next_to_use' = Wrap(next_to_use, N)
              \/ Shutdown /\ w = Write("ATQLEN", 0)
    <2>1. CASE Bump
      <3>1. next_to_use' = Wrap(next_to_use, N) /\ Wrap(next_to_use, N) \in Slots
        BY <1>1, <2>1, WrapSlot DEF Bump
      <3>2. Write("ATQT", Wrap(next_to_use, N)) \in Writes
        BY <3>1 DEF Writes, Write
      <3> QED
        BY <2>1, <3>1, <3>2 DEF Bump
    <2>2. CASE Shutdown
      <3>1. Write("ATQLEN", 0) \in Writes
        BY DEF Writes, Write
      <3> QED
        BY <2>2, <3>1 DEF Shutdown
    <2> QED
      BY <2>1, <2>2
  <1>3. /\ w.reg \in {"ATQT", "ATQLEN"} /\ w # Write("ATQLEN", N)
        /\ w.reg = "ATQT" => w.val = Wrap(next_to_use, N)
        /\ w.reg = "ATQT" <=> Bump
    BY <1>2, QueueAssumption DEF Write, Bump, Shutdown
  <1>4. mmio # <<>> => Follows(mmio[Len(mmio)], w)
    BY <1>1, <1>2 DEF RegInv, Follows
  <1>5. /\ FifoInv'
        /\ Settled' <=> Settled
        /\ mmio' # <<>> /\ mmio'[Len(mmio')] = w
        /\ mmio # <<>> => mmio'[1] = mmio[1]
        /\ mmio = <<>> => mmio'[1] = w
    BY <1>2, <1>3, <1>4, FifoPush
  <1>6. UNCHANGED <<cmd, sent, cookie, ring, bufs, regs, qpc, ddesc, dbuf>>
    BY DEF Bump, Shutdown
  <1>7. RegInv'
    <2>1. mmio = <<>> => Settled /\ atqt = next_to_use /\ atqlen = N
      BY <1>1 DEF RegInv, Settled
    <2>2. (Settled => atqt = Ahead)' /\ (qpc # "idle" => atqlen = N)'
      BY <1>5, <1>6 DEF RegInv, Ahead, regs
    <2>3. /\ mmio'[1].reg \in {"ATQT", "ATQH"} => atqlen = N
          /\ mmio'[1].reg = "ATQH" => atqt = 0
          /\ mmio'[1].reg = "ATQT" /\ Settled' => mmio'[1].val = Wrap(atqt, N)
      <3>1. CASE mmio = <<>>
        BY <1>3, <1>5, <2>1, <3>1
      <3>2. CASE mmio # <<>>
        BY <1>5, <3>2 DEF RegInv
      <3> QED
        BY <3>1, <3>2
    <2>4. (dpc # "off" <=> region # 0)'
      BY <1>1 DEF Bump, Shutdown
    <2>5. region' # 0 => w.reg = "ATQT" /\ w.val = next_to_use'
      BY <1>2, <1>3 DEF Shutdown
    <2> QED
      BY <1>5, <1>6, <2>2, <2>3, <2>4, <2>5 DEF RegInv, regs
  <1>8. TypeOK'
    <2>1. mmio' \in Seq([reg : Reg, val : Nat \cup Regions])
      <3>1. w \in [reg : Reg, val : Nat \cup Regions]
        BY WritesType
      <3> QED
        BY <1>2, <3>1 DEF TypeOK
    <2>2. next_to_use' \in Slots /\ region' \in Regions \cup {0}
      BY <1>1, <1>2, WrapSlot DEF TypeOK, Bump, Shutdown
    <2>3. dpc' \in {"wait", "off"}
      BY DEF Bump, Shutdown
    <2> QED
      BY <1>6, <2>1, <2>2, <2>3 DEF TypeOK, regs
  <1>9. AddrInv'
    BY <1>6 DEF AddrInv, Bump, Shutdown
  <1> QED
    BY <1>5, <1>7, <1>8, <1>9

\* The device takes a write off the FIFO.
LEMMA QueueTake ==
    ASSUME QueueInv, WriteReg \/ TailWrite
    PROVE  QueueInv'
  <1> USE DEF QueueInv
  <1>1. qpc = "idle" /\ mmio # <<>> /\ mmio' = Tail(mmio)
    BY DEF WriteReg, TailWrite
  <1>2. /\ FifoInv'
        /\ Head(mmio) = mmio[1] /\ mmio[1] \in Writes
        /\ mmio' # <<>> => /\ Follows(mmio[1], mmio'[1])
                           /\ mmio'[Len(mmio')] = mmio[Len(mmio)]
        /\ mmio' = <<>> => mmio[Len(mmio)] = mmio[1]
        /\ Settled' <=> Settled \/ mmio[1].reg = "ATQH"
    BY <1>1, FifoPop
  <1>3. UNCHANGED <<driverVars, ring, bufs, dbuf>>
    BY DEF WriteReg, TailWrite
  <1>4. mmio' \in Seq([reg : Reg, val : Nat \cup Regions])
    BY <1>1 DEF TypeOK
  <1>5. 1 \in 1 .. Len(mmio)
    BY <1>1 DEF FifoInv
  <1>6. mmio[1].reg = "ATQBA" \/ mmio[1] = Write("ATQLEN", N) => ~Settled
    BY <1>5 DEF FifoInv
  <1>7. CASE WriteReg
    <2>1. /\ mmio[1].reg # "ATQT"
          /\ atqba' = IF mmio[1].reg = "ATQBA" THEN mmio[1].val ELSE atqba
          /\ atqlen' = IF mmio[1].reg = "ATQLEN" THEN mmio[1].val ELSE atqlen
          /\ atqh' = IF mmio[1].reg = "ATQH" THEN mmio[1].val ELSE atqh
          /\ UNCHANGED <<atqt, qpc, ddesc>>
      BY <1>2, <1>7 DEF WriteReg
    <2>2. /\ mmio[1].reg = "ATQBA" => mmio[1].val \in Regions
          /\ mmio[1].reg = "ATQLEN" => mmio[1].val \in {0, N}
          /\ mmio[1].reg = "ATQH" => mmio[1].val = 0
          /\ mmio[1].reg \in {"ATQBA", "ATQLEN", "ATQH"}
      BY <1>2, <2>1 DEF Writes
    <2>3. TypeOK'
      <3>1. /\ atqba' \in Regions \cup {0} /\ atqlen' \in {0, N} /\ atqh' \in Slots
        BY <2>1, <2>2, QueueAssumption DEF TypeOK, Slots
      <3> QED
        BY <1>3, <1>4, <2>1, <3>1 DEF TypeOK, driverVars
    <2>4. (Settled => atqt = Ahead)'
      <3>1. CASE mmio[1].reg = "ATQH"
        <4>1. atqt = 0 /\ atqh' = 0 /\ qpc' = "idle"
          BY <1>1, <2>1, <2>2, <3>1 DEF RegInv
        <4> QED
          BY <2>1, <4>1 DEF Ahead
      <3>2. CASE mmio[1].reg # "ATQH"
        BY <1>1, <1>2, <2>1, <3>2 DEF RegInv, Ahead
      <3> QED
        BY <3>1, <3>2
    <2>5. ASSUME mmio' # <<>>
          PROVE  /\ mmio'[1].reg \in {"ATQT", "ATQH"} => atqlen' = N
                 /\ mmio'[1].reg = "ATQH" => atqt' = 0
                 /\ mmio'[1].reg = "ATQT" /\ Settled' => mmio'[1].val = Wrap(atqt', N)
      <3>1. Follows(mmio[1], mmio'[1])
        BY <1>2, <2>5
      <3>2. CASE mmio[1].reg = "ATQBA"
        BY <3>1, <3>2 DEF Follows, Write
      <3>3. CASE mmio[1].reg = "ATQLEN"
        <4>1. mmio[1] = Write("ATQLEN", N) /\ mmio'[1] = Write("ATQT", 0)
          BY <3>1, <3>3 DEF Follows, Write
        <4> QED
          BY <1>2, <1>6, <2>1, <4>1 DEF Write
      <3>4. CASE mmio[1].reg = "ATQH"
        <4>1. mmio'[1] = Write("ATQT", Wrap(0, N)) \/ mmio'[1] = Write("ATQLEN", 0)
          BY <2>2, <3>1, <3>4 DEF Follows, Write
        <4>2. atqt' = 0 /\ atqlen' = N
          BY <1>1, <2>1, <3>4 DEF RegInv
        <4> QED
          BY <4>1, <4>2 DEF Write
      <3> QED
        BY <2>2, <3>2, <3>3, <3>4
    <2>6. region' # 0 =>
             IF mmio' = <<>> THEN atqt' = next_to_use' /\ atqlen' = N
             ELSE /\ mmio'[Len(mmio')].reg \in {"ATQT", "ATQH"}
                  /\ mmio'[Len(mmio')].val = next_to_use'
      <3> SUFFICES ASSUME region # 0
                   PROVE  IF mmio' = <<>> THEN atqt' = next_to_use /\ atqlen' = N
                          ELSE /\ mmio'[Len(mmio')].reg \in {"ATQT", "ATQH"}
                               /\ mmio'[Len(mmio')].val = next_to_use
        BY <1>3 DEF driverVars
      <3>1. CASE mmio' = <<>>
        <4>1. mmio[1].reg = "ATQH" /\ mmio[1].val = next_to_use
          BY <1>1, <1>2, <2>1, <3>1 DEF RegInv
        <4> QED
          BY <1>1, <2>1, <2>2, <3>1, <4>1 DEF RegInv
      <3>2. CASE mmio' # <<>>
        BY <1>1, <1>2, <3>2 DEF RegInv
      <3> QED
        BY <3>1, <3>2
    <2>7. RegInv'
      BY <1>1, <1>3, <2>1, <2>4, <2>5, <2>6 DEF RegInv, driverVars
    <2>8. AddrInv'
      BY <1>3, <2>1 DEF AddrInv, driverVars
    <2> QED
      BY <1>2, <2>3, <2>7, <2>8
  <1>8. CASE TailWrite
    <2>1. /\ mmio[1].reg = "ATQT" /\ atqt' = mmio[1].val
          /\ UNCHANGED <<atqba, atqlen, atqh>>
          /\ qpc' = IF ddesc'.datalen > 0 THEN "read" ELSE "serve"
      BY <1>2, <1>8 DEF TailWrite
    <2>2. atqt' \in Slots /\ atqlen = N
      BY <1>1, <1>2, <2>1 DEF Writes, RegInv
    <2>3. ddesc' \in Desc /\ AddrOK(ddesc')
      <3>1. ddesc' = ring[atqh] \/ ddesc' = Fresh(0, 0)
        BY <1>8 DEF TailWrite
      <3>2. Fresh(0, 0) \in Desc /\ AddrOK(Fresh(0, 0))
        BY FreshType DEF AddrOK
      <3> QED
        BY <3>1, <3>2 DEF TypeOK, AddrInv
    <2>4. TypeOK'
      BY <1>3, <1>4, <2>1, <2>2, <2>3 DEF TypeOK, driverVars
    <2>5. AddrInv'
      BY <1>3, <2>1, <2>3 DEF AddrInv, driverVars
    <2>6. (Settled => atqt = Ahead)'
      <3>1. ASSUME Settled PROVE atqt' = Wrap(atqh, N)
        BY <1>1, <2>1, <3>1 DEF RegInv, Ahead
      <3>2. Settled' => Settled
        BY <1>2, <2>1
      <3> QED
        BY <2>1, <3>1, <3>2 DEF Ahead
    <2>7. ASSUME mmio' # <<>>
          PROVE  /\ mmio'[1].reg \in {"ATQT", "ATQH"} => atqlen' = N
                 /\ mmio'[1].reg = "ATQH" => atqt' = 0
                 /\ mmio'[1].reg = "ATQT" /\ Settled' => mmio'[1].val = Wrap(atqt', N)
      <3>1. Follows(mmio[1], mmio'[1])
        BY <1>2, <2>7
      <3> QED
        BY <2>1, <2>2, <3>1 DEF Follows, Write
    <2>8. region' # 0 =>
             IF mmio' = <<>> THEN atqt' = next_to_use' /\ atqlen' = N
             ELSE /\ mmio'[Len(mmio')].reg \in {"ATQT", "ATQH"}
                  /\ mmio'[Len(mmio')].val = next_to_use'
      BY <1>1, <1>2, <1>3, <2>1, <2>2 DEF RegInv, driverVars
    <2>9. RegInv'
      BY <1>3, <2>1, <2>2, <2>6, <2>7, <2>8 DEF RegInv, driverVars
    <2> QED
      BY <1>2, <2>4, <2>5, <2>9
  <1> QED
    BY <1>7, <1>8

\* The device serves a descriptor.
LEMMA QueueServe ==
    ASSUME QueueInv, ReadBuf \/ Serve \/ WriteBuf \/ WriteBack
    PROVE  QueueInv'
  <1> USE DEF QueueInv
  <1>1. UNCHANGED <<driverVars, mmio, atqba, atqlen, atqt>> /\ qpc # "idle"
    BY DEF ReadBuf, Serve, WriteBuf, WriteBack, regs
  <1>2. FifoInv' /\ (Settled' <=> Settled)
    BY <1>1 DEF FifoInv, Settled
  <1>3. Ahead' = Ahead
    BY <1>1 DEF ReadBuf, Serve, WriteBuf, WriteBack, Ahead, regs, RegInv
  <1>4. RegInv'
    BY <1>1, <1>2, <1>3 DEF RegInv, driverVars
  <1>5. ddesc.datalen > 0 => ddesc.addr - 1 \in Slots
    BY QueueAssumption DEF AddrInv, AddrOK, Slots
  <1>6. CASE ReadBuf
    <2>1. dbuf' \in Data
      BY <1>5, <1>6 DEF ReadBuf, TypeOK, AddrInv
    <2> QED
      BY <1>2, <1>4, <1>6, <2>1 DEF ReadBuf, TypeOK, AddrInv, driverVars, regs
  <1>7. CASE Serve
    <2>1. ddesc' \in Desc /\ ddesc'.datalen = ddesc.datalen /\ ddesc'.addr = ddesc.addr
      BY <1>7, AnswerKeeps DEF Serve, TypeOK
    <2>2. dbuf' \in Data
      BY <1>5, <1>7 DEF Serve, TypeOK
    <2>3. TypeOK'
      BY <1>7, <2>1, <2>2 DEF Serve, TypeOK, driverVars, regs
    <2>4. AddrInv'
      BY <1>7, <2>1 DEF Serve, AddrInv, AddrOK, driverVars
    <2> QED
      BY <1>2, <1>4, <2>3, <2>4
  <1>8. CASE WriteBuf
    <2>1. bufs' \in [Slots -> Data]
      BY <1>5, <1>8 DEF WriteBuf, TypeOK, AddrInv
    <2> QED
      BY <1>2, <1>4, <1>8, <2>1 DEF WriteBuf, TypeOK, AddrInv, driverVars, regs
  <1>9. CASE WriteBack
    <2>1. atqh' \in Slots
      BY <1>9, WrapSlot DEF WriteBack, TypeOK
    <2>2. ring' \in [Slots -> Desc] /\ (\A i \in Slots : AddrOK(ring'[i]))
      <3>1. CASE ring' = ring
        BY <3>1 DEF TypeOK, AddrInv
      <3>2. CASE ring' = [ring EXCEPT ![atqh] = ddesc]
        BY <3>2 DEF TypeOK, AddrInv
      <3> QED
        BY <1>9, <3>1, <3>2 DEF WriteBack
    <2>3. TypeOK'
      BY <1>9, <2>1, <2>2 DEF WriteBack, TypeOK, driverVars
    <2>4. AddrInv'
      BY <1>9, <2>2 DEF WriteBack, AddrInv, driverVars
    <2> QED
      BY <1>2, <1>4, <2>3, <2>4
  <1> QED
    BY <1>6, <1>7, <1>8, <1>9

\* Every step of the driver and the device keeps it.
LEMMA QueueStep ==
    ASSUME QueueInv, [Next]_vars
    PROVE  QueueInv'
  <1>1. CASE Driver
    <2>1. CASE \E g \in Regions : Start(g)
      BY <2>1, QueueStart
    <2>2. CASE \E op \in {aqc_get_version, aqc_echo}, v \in Data : Fill(op, v)
      BY <2>2, QueueFill
    <2>3. CASE FillBuf \/ EndPoll
      <3>1. aqc_echo \in {aqc_get_version, aqc_echo} /\ sent \in Data
        BY DEF QueueInv, TypeOK
      <3> QED
        BY <2>3, <3>1, QueueFill
    <2>4. CASE Bump \/ Shutdown
      BY <2>4, QueuePost
    <2> QED
      BY <1>1, <2>1, <2>2, <2>3, <2>4 DEF Driver
  <1>2. CASE Device
    BY <1>2, QueueTake, QueueServe DEF Device
  <1>3. CASE UNCHANGED vars
    <2>1. UNCHANGED <<dpc, cmd, sent, cookie, next_to_use, region, ring, bufs, mmio,
                      atqba, atqlen, atqh, atqt, qpc, ddesc, dbuf>>
      BY <1>3 DEF vars, driverVars, regs
    <2>2. TypeOK'
      BY <2>1 DEF QueueInv, TypeOK
    <2>3. FifoInv'
      BY <2>1 DEF QueueInv, FifoInv, Settled
    <2>4. RegInv'
      BY <2>1 DEF QueueInv, RegInv, Settled, Ahead
    <2>5. AddrInv'
      BY <2>1 DEF QueueInv, AddrInv
    <2> QED
      BY <2>2, <2>3, <2>4, <2>5 DEF QueueInv
  <1> QED
    BY <1>1, <1>2, <1>3 DEF Next

\* The invariant holds throughout.
THEOREM QueueInvariant == Spec => []QueueInv
  BY QueueInit, QueueStep, PTL DEF Spec

\* The head register stays on the ring, the FIFO carries register values and
\* an indirect descriptor the address of a mapped buffer, for every ring size.
THEOREM QueueTypes == Spec => []TypeOK
  BY QueueInvariant, PTL DEF QueueInv

\* However late the register writes arrive, and through every shutdown and new
\* start, the device's head and the driver's next_to_use stay in step, for
\* every ring size.
THEOREM HeadStaysInStep == Spec => []HeadInStep
  <1>1. QueueInv => HeadInStep
    BY DEF QueueInv, RegInv, HeadInStep, Ahead, Drained, Settled
  <1> QED
    BY <1>1, QueueInvariant, PTL
-----------------------------------------------------------------------------
(* The memory of the ring *)

\* While the driver has a ring the device addresses it, or will before the
\* next tail write; without one the device is at rest.
RingInv ==
    /\ region = 0 => qpc = "idle" /\ mmio \in {<<>>, <<Write("ATQLEN", 0)>>}
    /\ region # 0 => IF mmio # <<>> /\ mmio[1].reg = "ATQBA"
                     THEN qpc = "idle" /\ mmio[1].val = region
                     ELSE atqba = region

\* The initial state.
LEMMA RingInit == Init => RingInv
  BY DEF Init, RingInv

\* The driver frees the ring only when the device is at rest.
LEMMA RingDriver ==
    ASSUME QueueInv, RingInv, Driver
    PROVE  RingInv'
  <1> USE DEF QueueInv
  <1>1. ASSUME NEW g \in Regions, Start(g)
        PROVE  RingInv'
    <2>1. /\ mmio'[1].reg = "ATQBA" /\ mmio'[1].val = region'
          /\ mmio' # <<>> /\ region' # 0
      BY <1>1, QueueAssumption DEF Start, Config, Write
    <2> QED
      BY <1>1, <2>1 DEF Start, Drained, RingInv
  <1>2. CASE (\E op \in {aqc_get_version, aqc_echo}, v \in Data : Fill(op, v))
             \/ FillBuf \/ EndPoll
    <2>1. UNCHANGED <<region, mmio, atqba, qpc>>
      BY <1>2 DEF Fill, FillBuf, EndPoll, regs
    <2> QED
      BY <2>1 DEF RingInv
  <1>3. CASE Bump
    <2>1. /\ dpc = "bump" /\ UNCHANGED <<region, atqba, qpc>>
          /\ mmio' = Append(mmio, Write("ATQT", next_to_use'))
      BY <1>3 DEF Bump, regs
    <2>2. region # 0
      BY <2>1 DEF RegInv
    <2>3. CASE mmio = <<>>
      <3>1. mmio' = <<Write("ATQT", next_to_use')>>
        BY <2>1, <2>3
      <3>2. mmio'[1].reg = "ATQT"
        BY <3>1 DEF Write
      <3> QED
        BY <2>1, <2>2, <2>3, <3>2 DEF RingInv
    <2>4. CASE mmio # <<>>
      <3>1. mmio' # <<>> /\ mmio'[1] = mmio[1]
        BY <2>1, <2>4 DEF TypeOK
      <3> QED
        BY <2>1, <2>2, <2>4, <3>1 DEF RingInv
    <2> QED
      BY <2>3, <2>4
  <1>4. CASE Shutdown
    <2>1. /\ mmio = <<>> /\ mmio' = Append(mmio, Write("ATQLEN", 0))
          /\ region' = 0 /\ qpc' = "idle"
      BY <1>4 DEF Shutdown, Drained
    <2>2. mmio' = <<Write("ATQLEN", 0)>>
      BY <2>1
    <2> QED
      BY <2>1, <2>2 DEF RingInv
  <1> QED
    BY <1>1, <1>2, <1>3, <1>4 DEF Driver

\* The device takes the base address before it serves a tail write.
LEMMA RingDevice ==
    ASSUME QueueInv, RingInv, Device
    PROVE  RingInv'
  <1> USE DEF QueueInv
  <1>1. CASE WriteReg \/ TailWrite
    <2>1. qpc = "idle" /\ mmio # <<>> /\ mmio' = Tail(mmio) /\ region' = region
      BY <1>1 DEF WriteReg, TailWrite, driverVars
    <2>2. /\ Head(mmio) = mmio[1]
          /\ mmio' # <<>> => Follows(mmio[1], mmio'[1])
      BY <2>1, FifoPop
    <2>3. mmio' # <<>> => mmio'[1].reg # "ATQBA"
      BY <2>2 DEF Follows, Write
    <2>4. CASE region = 0
      <3>1. mmio = <<Write("ATQLEN", 0)>>
        BY <2>1, <2>4 DEF RingInv
      <3>2. Head(mmio).reg = "ATQLEN" /\ Tail(mmio) = <<>>
        BY <3>1 DEF Write
      <3>3. qpc' = "idle"
        BY <1>1, <2>1, <3>2 DEF WriteReg, TailWrite
      <3> QED
        BY <2>1, <2>4, <3>2, <3>3 DEF RingInv
    <2>5. CASE region # 0
      <3>1. atqba' = IF mmio[1].reg = "ATQBA" THEN mmio[1].val ELSE atqba
        BY <1>1, <2>2 DEF WriteReg, TailWrite
      <3>2. atqba' = region
        BY <2>1, <2>5, <3>1 DEF RingInv
      <3> QED
        BY <2>1, <2>3, <2>5, <3>2 DEF RingInv
    <2> QED
      BY <2>4, <2>5
  <1>2. CASE ReadBuf \/ Serve \/ WriteBuf \/ WriteBack
    <2>1. UNCHANGED <<region, mmio, atqba>> /\ qpc # "idle"
      BY <1>2 DEF ReadBuf, Serve, WriteBuf, WriteBack, regs, driverVars
    <2> QED
      BY <2>1 DEF RingInv
  <1> QED
    BY <1>1, <1>2 DEF Device

\* The device has the ring's address whenever it serves a descriptor.
THEOREM RingInvariant == Spec => []RingInv
  <1>1. QueueInv /\ RingInv /\ [Next]_vars => RingInv'
    <2> SUFFICES ASSUME QueueInv, RingInv, [Next]_vars
                 PROVE  RingInv'
      OBVIOUS
    <2>1. CASE UNCHANGED vars
      BY <2>1 DEF vars, driverVars, regs, RingInv
    <2> QED
      BY <2>1, RingDriver, RingDevice DEF Next
  <1> QED
    BY <1>1, RingInit, QueueInvariant, PTL DEF Spec

\* Through every shutdown and new start the device reads and writes only the
\* ring and the buffers the driver has allocated, for every ring size, with
\* and without coalescing.
THEOREM DmaStaysOnRing == Spec => []DmaOnRing
  <1>1. QueueInv /\ RingInv => DmaOnRing
    BY DEF QueueInv, RingInv, DmaOnRing, OnRing
  <1> QED
    BY <1>1, QueueInvariant, RingInvariant, PTL

-----------------------------------------------------------------------------
(* If the initialisation's writes are served before the first command *)

\* The device finds the command and its buffer at slot i.
Carries(i) ==
    /\ ring[i] = cmd
    /\ cmd.datalen > 0 => cmd.addr = i + 1 /\ bufs[i] = sent

\* How far the device is with the command the driver waits for.
Progress ==
    \/ /\ qpc = "idle" /\ mmio = <<Write("ATQT", next_to_use)>>
       /\ atqh = InUse /\ Carries(InUse)
    \/ /\ qpc \in {"read", "serve"} /\ mmio = <<>>
       /\ atqh = InUse /\ Carries(InUse)
       /\ ddesc = cmd
       /\ qpc = "serve" /\ cmd.datalen > 0 => dbuf = sent
    \/ /\ qpc \in {"wbuf", "wdesc"} /\ mmio = <<>>
       /\ atqh = InUse /\ Carries(InUse)
       /\ ddesc \in Answers(cmd)
       /\ cmd.datalen > 0 => dbuf = sent
    \/ /\ Drained
       /\ ring[InUse] \in Answers(cmd)
       /\ cmd.datalen > 0 => bufs[InUse] = sent

\* The guest waits for each register write, or KVM delivers those of the
\* initialisation in time.
Prompt == ~Coalesced \/ Timely

\* The device is at rest while the driver fills a descriptor, and then works
\* on that one only.
PromptInv ==
    /\ dpc \in {"buf", "bump"} => Drained
    /\ dpc \in {"buf", "bump", "wait"} => ~cmd.dd
    /\ dpc = "buf" => ring[next_to_use] = cmd
    /\ dpc = "bump" => Carries(next_to_use)
    /\ dpc = "wait" => Progress

\* The descriptor before next_to_use is one, and bumping next_to_use makes it
\* the descriptor just filled.
LEMMA InUseSlot ==
    ASSUME TypeOK
    PROVE  InUse \in Slots /\ (Bump => InUse' = next_to_use)
  BY QueueAssumption DEF TypeOK, InUse, Bump, Slots

\* The initial state.
LEMMA PromptInit == Init => PromptInv
  BY DEF Init, PromptInv

\* A step of the driver.
LEMMA PromptDriver ==
    ASSUME Prompt, QueueInv, PromptInv, Driver
    PROVE  PromptInv'
  <1> USE DEF QueueInv
  <1>1. CASE (\E g \in Regions : Start(g)) \/ EndPoll \/ Shutdown
    BY <1>1 DEF Start, EndPoll, Shutdown, PromptInv
  <1>2. ASSUME NEW op \in {aqc_get_version, aqc_echo}, NEW v \in Data, Fill(op, v)
        PROVE  PromptInv'
    <2>1. /\ Drained /\ UNCHANGED <<next_to_use, bufs, mmio, qpc>>
          /\ dpc' \in {"buf", "bump"}
          /\ cmd' = Fresh(op, cookie')
          /\ ring' = [ring EXCEPT ![next_to_use] = cmd']
      BY <1>2 DEF Fill, Running, Prompt
    <2>2. ring'[next_to_use] = cmd' /\ ~cmd'.dd /\ cmd'.datalen = 0
      BY <2>1 DEF TypeOK, Fresh
    <2> QED
      BY <2>1, <2>2 DEF PromptInv, Drained, Carries
  <1>3. CASE FillBuf
    <2>1. /\ UNCHANGED <<next_to_use, mmio, qpc, sent>>
          /\ dpc = "buf" /\ dpc' = "bump"
          /\ cmd' = Indirect(cmd, next_to_use)
          /\ bufs' = [bufs EXCEPT ![next_to_use] = sent]
          /\ ring' = [ring EXCEPT ![next_to_use] = Indirect(@, next_to_use)]
      BY <1>3 DEF FillBuf
    <2>2. ring[next_to_use] = cmd /\ ~cmd.dd /\ Drained
      BY <2>1 DEF PromptInv
    <2>3. ring'[next_to_use] = cmd' /\ bufs'[next_to_use] = sent
      BY <2>1, <2>2 DEF TypeOK
    <2>4. cmd'.addr = next_to_use + 1 /\ ~cmd'.dd
      BY <2>1, <2>2 DEF TypeOK, Desc, Indirect
    <2> QED
      BY <2>1, <2>2, <2>3, <2>4 DEF PromptInv, Drained, Carries
  <1>4. CASE Bump
    <2>1. /\ UNCHANGED <<cmd, sent, region, ring, bufs, regs, qpc, ddesc, dbuf>>
          /\ dpc = "bump" /\ dpc' = "wait"
          /\ mmio' = Append(mmio, Write("ATQT", next_to_use'))
      BY <1>4 DEF Bump
    <2>2. InUse' = next_to_use
      BY <1>4, InUseSlot
    <2>3. Drained /\ atqh = next_to_use /\ ~cmd.dd
      BY <2>1 DEF RegInv, PromptInv, Drained, Settled, Ahead
    <2>4. mmio' = <<Write("ATQT", next_to_use')>>
      BY <2>1, <2>3 DEF Drained
    <2>5. Progress'
      BY <2>1, <2>2, <2>3, <2>4 DEF Progress, PromptInv, Carries, Drained, regs
    <2> QED
      BY <2>1, <2>3, <2>5 DEF PromptInv
  <1> QED
    BY <1>1, <1>2, <1>3, <1>4 DEF Driver

\* The device takes a write.
LEMMA PromptTake ==
    ASSUME QueueInv, RingInv, PromptInv, WriteReg \/ TailWrite
    PROVE  PromptInv'
  <1> USE DEF QueueInv
  <1>1. /\ qpc = "idle" /\ mmio # <<>> /\ mmio' = Tail(mmio)
        /\ UNCHANGED <<driverVars, ring, bufs, dbuf>>
    BY DEF WriteReg, TailWrite
  <1>2. dpc \notin {"buf", "bump"}
    BY <1>1 DEF PromptInv, Drained
  <1>3. dpc = "wait" => Progress'
    <2> SUFFICES ASSUME dpc = "wait" PROVE Progress'
      OBVIOUS
    <2>1. Progress /\ region # 0
      BY DEF PromptInv, RegInv
    <2>2. mmio = <<Write("ATQT", next_to_use)>> /\ atqh = InUse /\ Carries(InUse)
      BY <1>1, <2>1 DEF Progress, Drained
    <2>3. Head(mmio).reg = "ATQT" /\ mmio[1].reg = "ATQT" /\ Tail(mmio) = <<>>
      BY <2>2 DEF Write
    <2>4. TailWrite /\ OnRing
      BY <2>1, <2>3 DEF WriteReg, RingInv, OnRing
    <2>5. ddesc' = cmd /\ atqh' = atqh /\ qpc' = IF ddesc'.datalen > 0 THEN "read" ELSE "serve"
      BY <2>2, <2>4 DEF TailWrite, Carries
    <2>6. InUse' = InUse /\ Carries(InUse)'
      BY <1>1, <2>2 DEF InUse, Carries, driverVars
    <2>7. cmd' = cmd /\ mmio' = <<>>
      BY <1>1, <2>3 DEF driverVars
    <2> QED
      BY <2>2, <2>5, <2>6, <2>7 DEF Progress
  <1> QED
    BY <1>1, <1>2, <1>3 DEF PromptInv, driverVars

\* The device serves the descriptor.
LEMMA PromptServe ==
    ASSUME QueueInv, RingInv, PromptInv, ReadBuf \/ Serve \/ WriteBuf \/ WriteBack
    PROVE  PromptInv'
  <1> USE DEF QueueInv
  <1>1. UNCHANGED <<driverVars, mmio, atqba, atqlen, atqt>> /\ qpc # "idle"
    BY DEF ReadBuf, Serve, WriteBuf, WriteBack, regs
  <1>2. dpc \notin {"buf", "bump"} /\ OnRing
    BY <1>1 DEF PromptInv, Drained, RingInv, OnRing
  <1>3. /\ UNCHANGED <<dpc, cmd, sent, cookie, next_to_use, region>>
        /\ InUse' = InUse /\ InUse \in Slots
    BY <1>1, InUseSlot DEF driverVars, InUse
  <1>4. ASSUME dpc = "wait"
        PROVE  /\ mmio = <<>> /\ atqh = InUse /\ Carries(InUse)
               /\ qpc \in {"read", "serve"} => ddesc = cmd
               /\ qpc \in {"wbuf", "wdesc"} => ddesc \in Answers(cmd)
               /\ qpc \in {"serve", "wbuf", "wdesc"} /\ cmd.datalen > 0 => dbuf = sent
    <2>1. Progress
      BY <1>4 DEF PromptInv
    <2> QED
      BY <1>1, <2>1 DEF Progress, Drained
  <1>5. cmd.addr = InUse + 1 => cmd.addr - 1 = InUse
    BY <1>3 DEF Slots
  <1>6. ASSUME dpc = "wait"
        PROVE  Progress'
    <2> USE <1>4
    <2>1. CASE ReadBuf
      <3>1. /\ qpc = "read" /\ qpc' = "serve" /\ dbuf' = bufs[ddesc.addr - 1]
            /\ UNCHANGED <<ring, bufs, mmio, atqh, ddesc>>
        BY <2>1 DEF ReadBuf, regs
      <3>2. ddesc = cmd /\ Carries(InUse) /\ mmio = <<>> /\ atqh = InUse
        BY <1>6, <3>1
      <3>3. cmd.datalen > 0 => dbuf' = sent
        BY <1>5, <3>1, <3>2 DEF Carries
      <3>4. Carries(InUse)'
        BY <1>3, <3>1, <3>2 DEF Carries
      <3> QED
        BY <1>3, <3>1, <3>2, <3>3, <3>4 DEF Progress
    <2>2. CASE Serve
      <3>1. /\ qpc = "serve" /\ ddesc' \in Answers(ddesc)
            /\ dbuf' \in {dbuf} \cup IF ddesc.datalen > 0 THEN {bufs[ddesc.addr - 1]} ELSE {}
            /\ qpc' \in {"wbuf", "wdesc"}
            /\ UNCHANGED <<ring, bufs, mmio, atqh>>
        BY <2>2 DEF Serve, regs
      <3>2. ddesc = cmd /\ Carries(InUse) /\ mmio = <<>> /\ atqh = InUse
        BY <1>6, <3>1
      <3>3. cmd.datalen > 0 => dbuf' = sent
        BY <1>4, <1>5, <1>6, <3>1, <3>2 DEF Carries
      <3>4. Carries(InUse)'
        BY <1>3, <3>1, <3>2 DEF Carries
      <3>5. ddesc' \in Answers(cmd')
        BY <1>3, <3>1, <3>2
      <3> QED
        BY <1>3, <3>1, <3>2, <3>3, <3>4, <3>5 DEF Progress
    <2>3. CASE WriteBuf
      <3>1. /\ qpc = "wbuf" /\ bufs' = [bufs EXCEPT ![ddesc.addr - 1] = dbuf]
            /\ qpc' = "wdesc"
            /\ UNCHANGED <<ring, mmio, atqh, ddesc, dbuf>>
        BY <1>2, <2>3 DEF WriteBuf, regs
      <3>2. ddesc \in Answers(cmd) /\ Carries(InUse) /\ mmio = <<>> /\ atqh = InUse
        BY <1>6, <3>1
      <3>3. ddesc.datalen = cmd.datalen /\ ddesc.addr = cmd.addr
        BY <3>2, AnswerKeeps DEF TypeOK
      <3>4. cmd.datalen > 0 => dbuf = sent /\ bufs'[InUse] = sent
        BY <1>3, <1>4, <1>5, <1>6, <3>1, <3>2, <3>3 DEF Carries, TypeOK
      <3>5. Carries(InUse)'
        BY <1>3, <3>1, <3>2, <3>4 DEF Carries
      <3> QED
        BY <1>3, <3>1, <3>2, <3>4, <3>5 DEF Progress
    <2>4. CASE WriteBack
      <3>1. /\ qpc = "wdesc" /\ ring' = [ring EXCEPT ![atqh] = ddesc]
            /\ qpc' = "idle"
            /\ UNCHANGED <<bufs, mmio>>
        BY <1>2, <2>4 DEF WriteBack
      <3>2. ddesc \in Answers(cmd) /\ Carries(InUse) /\ mmio = <<>> /\ atqh = InUse
        BY <1>6, <3>1
      <3>3. ring'[InUse] = ddesc
        BY <1>3, <3>1, <3>2 DEF TypeOK
      <3>4. Drained' /\ ring'[InUse'] \in Answers(cmd')
        BY <1>3, <3>1, <3>2, <3>3 DEF Drained
      <3>5. cmd'.datalen > 0 => bufs'[InUse'] = sent'
        BY <1>3, <3>1, <3>2 DEF Carries
      <3> QED
        BY <3>4, <3>5 DEF Progress
    <2> QED
      BY <2>1, <2>2, <2>3, <2>4
  <1>7. dpc = "wait" => ~cmd.dd
    BY DEF PromptInv
  <1> QED
    BY <1>2, <1>3, <1>6, <1>7 DEF PromptInv

\* The invariant of a guest whose initialisation is over in time.
THEOREM PromptInvariant ==
    ASSUME Prompt
    PROVE  Spec => []PromptInv
  <1>1. QueueInv /\ RingInv /\ PromptInv /\ [Next]_vars => PromptInv'
    <2> SUFFICES ASSUME QueueInv, RingInv, PromptInv, [Next]_vars
                 PROVE  PromptInv'
      OBVIOUS
    <2>1. CASE Driver
      BY <2>1, PromptDriver
    <2>2. CASE Device
      BY <2>2, PromptTake, PromptServe DEF Device
    <2>3. CASE UNCHANGED vars
      BY <2>3 DEF vars, driverVars, regs, PromptInv, Progress, Carries, Drained, InUse
    <2> QED
      BY <2>1, <2>2, <2>3 DEF Next
  <1> QED
    BY <1>1, PromptInit, QueueInvariant, RingInvariant, PTL DEF Spec

\* If the execution that the initialisation's tail write triggers is over
\* before the first command is filled, every answer e1000_asq_send_command
\* finds is the answer to its command, timeouts and late answers included.
THEOREM PromptCompletionMatches ==
    ASSUME Prompt
    PROVE  Spec => []CompletionMatches
  <1>1. QueueInv /\ PromptInv => CompletionMatches
    BY DEF QueueInv, PromptInv, Progress, Carries, CompletionMatches
  <1> QED
    BY <1>1, QueueInvariant, PromptInvariant, PTL

\* A guest that waits for each register write never reaches the timeout of
\* e1000_asq_send_command.
THEOREM SyncAnsweredAtOnce == Spec => []AnsweredAtOnce
  <1>1. CASE Coalesced
    BY <1>1, PTL DEF AnsweredAtOnce
  <1>2. CASE ~Coalesced
    <2>1. QueueInv /\ PromptInv => AnsweredAtOnce
      <3> SUFFICES ASSUME QueueInv, PromptInv, TimedOut PROVE FALSE
        BY DEF AnsweredAtOnce
      <3>1. Progress /\ Drained /\ ~ring[InUse].dd
        BY <1>2 DEF TimedOut, Running, PromptInv
      <3>2. ring[InUse] \in Answers(cmd)
        BY <3>1 DEF Progress, Drained
      <3> QED
        BY <3>1, <3>2, AnswerKeeps DEF QueueInv, TypeOK
    <2>2. Prompt
      BY <1>2 DEF Prompt
    <2>3. Spec => []PromptInv
      BY <2>2, PromptInvariant
    <2> QED
      BY <2>1, <2>3, QueueInvariant, PTL
  <1> QED
    BY <1>1, <1>2
=============================================================================
