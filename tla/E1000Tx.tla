------------------------------ MODULE E1000Tx -------------------------------
(***************************************************************************)
(* The transmit ring of the e1000 device: start_xmit, process_tx_desc with *)
(* TCP segmentation, xmit_seg and the write-back, below the Linux driver   *)
(* of src/drivers.                                                         *)
(*                                                                         *)
(* TDT and TCTL are not coalesced: the processor that writes one waits     *)
(* until start_xmit has served the ring.  Another may clean descriptors    *)
(* that are written back meanwhile, and free their buffers.                *)
(*                                                                         *)
(* A byte of a packet is the pair of the packet's tag and its position.    *)
(* Of the headers xmit_seg patches, the TCP sequence number, PSH and FIN   *)
(* and whether the checksums were put in are kept; the IP length and       *)
(* identification follow from the frame's length and number.               *)
(***************************************************************************)
EXTENDS Naturals, SequencesExt

CONSTANTS
    N,              \* descriptors of the ring, TDLEN / 16
    Packets,        \* the packets the driver may send
    Tags,           \* tags that tell consecutive packets apart
    MaxOwed         \* bound: frames of the packets in the ring

\* hdr and pay: bytes of header and payload; cuts: the sizes of the buffers
\* that hold them.
PacketType ==
    [tso : BOOLEAN, sum : BOOLEAN, vlan : BOOLEAN, hdr : Nat, pay : Nat, mss : Nat,
     cuts : Seq(Nat \ {0})]

ASSUME TxAssumption ==
    /\ N \in Nat /\ N > 1
    /\ Packets \subseteq PacketType
    /\ \A p \in Packets : p.hdr > 0 /\ (p.tso => p.mss > 0)

VARIABLES
    tdh, tdt,       \* the registers TDH and TDT
    en,             \* TCTL.EN
    tpc,            \* where start_xmit is
    tdh_start,
    tx,             \* struct e1000_tx
    left,           \* what process_tx_desc has still to read of the buffer
    ring,           \* the descriptors and their buffers
    ntc, ntu,       \* the driver's next_to_clean and next_to_use
    tag,            \* the tag of the next packet
    wire,           \* history: the frames sent since the ring was last empty
    owed            \* history: the frames of the packets posted since then

dvars == <<tdh, tdt, en, tpc, tdh_start, tx, left>>
gvars == <<ntc, ntu, tag, owed>>
vars == <<dvars, ring, gvars, wire>>

Slots == 0 .. N - 1
Succ(i) == IF i + 1 >= N THEN 0 ELSE i + 1

Empty ==
    [type |-> "legacy", bytes |-> <<>>, eop |-> FALSE, tse |-> FALSE, sum |-> FALSE,
     vle |-> FALSE, hdr |-> 0, mss |-> 0, paylen |-> 0, dd |-> FALSE]

NoTx ==
    [data |-> <<>>, header |-> <<>>, sum_needed |-> FALSE, vlan_needed |-> FALSE,
     hdr |-> 0, mss |-> 0, paylen |-> 0, tso_frames |-> 0, tse |-> FALSE, cptse |-> FALSE]

Init ==
    /\ tdh = 0 /\ tdt = 0 /\ en = FALSE
    /\ tpc = "idle" /\ tdh_start = 0 /\ tx = NoTx /\ left = <<>>
    /\ ring = [i \in Slots |-> Empty]
    /\ ntc = 0 /\ ntu = 0 /\ tag \in Tags
    /\ wire = <<>> /\ owed = <<>>

-----------------------------------------------------------------------------
(* process_tx_desc *)

\* Is the packet in tx cut into segments?
Segmenting(t) == t.tse /\ t.cptse

\* The frame xmit_seg sends.  FIN and PSH stay only on a segment that no
\* payload follows.
Frame(t) ==
    LET sofar == IF Segmenting(t) THEN t.tso_frames * t.mss ELSE 0
    IN  [bytes |-> t.data, seq |-> sofar,
         fin |-> Segmenting(t) => t.paylen <= sofar + t.mss,
         sum |-> t.sum_needed, vlan |-> t.vlan_needed]

\* EndPacket that leaves the checksums on.
EndPacketSumming(t) ==
    [t EXCEPT !.data = <<>>, !.tso_frames = 0, !.vlan_needed = FALSE, !.cptse = FALSE]

\* What process_tx_desc resets after the last descriptor of a packet.
EndPacket(t) ==
    [t EXCEPT !.data = <<>>, !.tso_frames = 0, !.sum_needed = FALSE,
              !.vlan_needed = FALSE, !.cptse = FALSE]

\* A context descriptor.
Context(t, d) ==
    [t EXCEPT !.hdr = d.hdr, !.mss = d.mss, !.paylen = d.paylen, !.tse = d.tse,
              !.tso_frames = 0]

\* The flags of a data or legacy descriptor, before its buffer is read; the
\* driver sets CTRL.VME when it sends tags.
Flags(t, d) ==
    LET cptse == d.type = "data" /\ d.tse
    IN  [t EXCEPT !.cptse = cptse,
                  !.sum_needed = IF d.type = "data" THEN d.sum ELSE @,
                  !.vlan_needed = @ \/ (d.vle /\ (cptse \/ d.eop))]

\* txdesc_writeback, which the driver asks for on the last descriptor of a
\* packet, and the new head.  The loop ends at the tail or where it began.
Advance(t, d) ==
    /\ tdh' = Succ(tdh)
    /\ ring' = IF d.eop THEN [ring EXCEPT ![tdh].dd = TRUE] ELSE ring
    /\ tx' = t /\ left' = <<>>
    /\ tpc' = IF tdh' \in {tdt, tdh_start} THEN "idle" ELSE "loop"

\* The end of a buffer, with these frames sent: at EOP the packet, or its last
\* segment, follows.
EndBuffer(t, d, sent) ==
    LET send == d.eop /\ ~(Segmenting(t) /\ Len(t.data) < t.hdr)
    IN  /\ wire' = IF send THEN Append(sent, Frame(t)) ELSE sent
        /\ Advance(IF d.eop THEN EndPacket(t) ELSE t, d)

\* One turn of the loop of start_xmit.
XmitDesc ==
    /\ tpc = "loop"
    /\ LET d == ring[tdh]
           t == Flags(tx, d)
       IN  \/ /\ d.type = "context"
              /\ Advance(Context(tx, d), d)
              /\ UNCHANGED wire
           \/ /\ d.type # "context" /\ Segmenting(t)
              /\ tx' = t /\ left' = d.bytes /\ tpc' = "seg"
              /\ UNCHANGED <<tdh, ring, wire>>
           \/ /\ d.type # "context" /\ ~Segmenting(t)
              /\ EndBuffer([t EXCEPT !.data = IF t.cptse THEN @ ELSE @ \o d.bytes], d, wire)
    /\ UNCHANGED <<tdt, en, tdh_start, gvars>>

\* One turn of the loop over a buffer of a packet that is cut into segments.
\* The buffer is copied up to the size of a segment; the header is saved when
\* it is complete, and a full segment is sent and leaves only the header.
XmitSeg ==
    /\ tpc = "seg"
    /\ LET d == ring[tdh]
           msh == tx.hdr + tx.mss
           k == IF Len(tx.data) + Len(left) > msh THEN msh - Len(tx.data) ELSE Len(left)
           data == tx.data \o SubSeq(left, 1, k)
           rest == SubSeq(left, k + 1, Len(left))
           header == IF Len(data) >= tx.hdr /\ Len(tx.data) < tx.hdr
                     THEN SubSeq(data, 1, tx.hdr) ELSE tx.header
           full == Len(data) = msh
           t == [tx EXCEPT !.header = header, !.data = IF full THEN header ELSE data,
                           !.tso_frames = IF full THEN @ + 1 ELSE @]
           sent == IF full THEN Append(wire, Frame([tx EXCEPT !.data = data])) ELSE wire
       IN  \/ /\ rest # <<>>
              /\ wire' = sent /\ tx' = t /\ left' = rest
              /\ UNCHANGED <<tpc, tdh, ring>>
           \/ /\ rest = <<>>
              /\ EndBuffer(t, d, sent)
    /\ UNCHANGED <<tdt, en, tdh_start, gvars>>

-----------------------------------------------------------------------------
(* Register writes and the driver *)

\* start_xmit is called with this tail.
StartXmit(t, enabled) ==
    /\ tdt' = t /\ en' = enabled /\ tdh_start' = tdh
    /\ tpc' = IF enabled /\ tdh # t THEN "loop" ELSE "idle"
    /\ UNCHANGED <<tdh, tx, left>>

\* The bytes of a packet, and the buffers it is handed over in.
Bytes(p, g) == [k \in 1 .. p.hdr + p.pay |-> <<g, k>>]
Start(p, j) == FoldSeq(+, 0, SubSeq(p.cuts, 1, j - 1))
Buffer(p, g, j) == SubSeq(Bytes(p, g), Start(p, j) + 1, Start(p, j) + p.cuts[j])

\* The descriptors of a packet: e1000_tso or e1000_tx_csum, and e1000_tx_queue.
Descs(p, g) ==
    LET first == [Empty EXCEPT !.type = "context", !.tse = p.tso, !.hdr = p.hdr,
                               !.mss = p.mss, !.paylen = p.pay]
        n == Len(p.cuts)
        data == [j \in 1 .. n |->
                   [Empty EXCEPT !.type = IF p.tso \/ p.sum THEN "data" ELSE "legacy",
                                 !.bytes = Buffer(p, g, j), !.eop = (j = n),
                                 !.tse = p.tso, !.sum = p.sum, !.vle = p.vlan]]
    IN  IF p.tso \/ p.sum THEN <<first>> \o data ELSE data

\* The frames a packet is worth: the whole packet, or its header with each
\* stretch of mss bytes of payload and with what is left, if only nothing.
Worth(p, g) ==
    LET b == Bytes(p, g)
        Seg(k) == LET from == (k - 1) * p.mss
                      to == IF from + p.mss < p.pay THEN from + p.mss ELSE p.pay
                  IN  [bytes |-> SubSeq(b, 1, p.hdr) \o SubSeq(b, p.hdr + from + 1, p.hdr + to),
                       seq |-> from, fin |-> to = p.pay, sum |-> p.sum, vlan |-> p.vlan]
    IN  IF p.tso THEN [k \in 1 .. (p.pay \div p.mss) + 1 |-> Seg(k)]
        ELSE <<[bytes |-> b, seq |-> 0, fin |-> TRUE, sum |-> p.sum, vlan |-> p.vlan]>>

Unused == (IF ntc > ntu THEN 0 ELSE N) + ntc - ntu - 1

\* e1000_xmit_frame: the descriptors are written, then the tail.
Post(p) ==
    LET ds == Descs(p, tag)
        idle == tdh = tdt
    IN  /\ tpc = "idle" /\ Len(ds) <= Unused
        /\ ring' = [i \in Slots |->
                      LET j == ((i + N - ntu) % N) + 1 IN IF j <= Len(ds) THEN ds[j] ELSE ring[i]]
        /\ ntu' = (ntu + Len(ds)) % N
        /\ tag' \in {g \in Tags : g # tag \/ Tags = {tag}}
        /\ owed' = (IF idle THEN <<>> ELSE owed) \o Worth(p, tag)
        /\ Len(owed') <= MaxOwed
        /\ wire' = IF idle THEN <<>> ELSE wire
        /\ StartXmit(ntu', en)
        /\ UNCHANGED ntc

\* A write to TCTL that does not look at the ring.
SetTctlOnly(enabled) ==
    /\ tpc = "idle" /\ en # enabled /\ en' = enabled
    /\ UNCHANGED <<tdh, tdt, tpc, tdh_start, tx, left, ring, gvars, wire>>

\* A write to TCTL, which also calls start_xmit.
SetTctl(enabled) ==
    /\ tpc = "idle" /\ en # enabled
    /\ StartXmit(tdt, enabled)
    /\ UNCHANGED <<ring, gvars, wire>>

\* e1000_clean_tx_irq: the buffers of a packet whose last descriptor is
\* written back are freed.
Clean ==
    /\ ntc # ntu
    /\ \E n \in 0 .. N - 1 :
        LET Nth(k) == (ntc + k) % N
        IN  /\ ring[Nth(n)].eop /\ ring[Nth(n)].dd
            /\ \A k \in 0 .. n - 1 : ~ring[Nth(k)].eop
            /\ ring' = [i \in Slots |->
                          IF (i + N - ntc) % N <= n
                          THEN [ring[i] EXCEPT !.bytes = <<>>, !.eop = FALSE, !.dd = FALSE]
                          ELSE ring[i]]
            /\ ntc' = Nth(n + 1)
    /\ UNCHANGED <<dvars, ntu, tag, owed, wire>>

\* e1000_down, with the ring emptied; the device keeps its context.
Down ==
    /\ tpc = "idle" /\ ~en
    /\ tdh' = 0 /\ tdt' = 0 /\ ntc' = 0 /\ ntu' = 0
    /\ ring' = [i \in Slots |-> Empty]
    /\ wire' = <<>> /\ owed' = <<>>
    /\ UNCHANGED <<en, tpc, tdh_start, tx, left, tag>>

-----------------------------------------------------------------------------
Xmit == XmitDesc \/ XmitSeg

Next ==
    \/ Xmit \/ Clean \/ Down
    \/ \E p \in Packets : Post(p)
    \/ \E e \in BOOLEAN : SetTctl(e)

Spec == Init /\ [][Next]_vars

\* start_xmit runs to its end; a transmitter that was disabled is enabled
\* again (e1000_down is followed by e1000_up).
FairSpec == Spec /\ WF_vars(Xmit) /\ WF_vars(SetTctl(TRUE))

-----------------------------------------------------------------------------
(* Properties *)

\* What goes out is what the driver posted: every packet once, in order, each
\* cut into the segments its context asks for with its own header, checksum
\* and tag, however it lies in buffers, whatever packets came before it and
\* although the driver frees a buffer as soon as it is written back.
Faithful ==
    /\ IsPrefix(wire, owed)
    /\ tpc = "idle" /\ tdh = tdt => wire = owed

\* The ring is served to its tail in the end.
Served == tdh # tdt ~> tdh = tdt

=============================================================================
