---------------------------- MODULE AdminChannel ----------------------------
(***************************************************************************)
(* One Admin Queue command travelling from the QEMU e1000 device to the    *)
(* firmware process and back: e1000_send_aq_cmd and the fallback of        *)
(* e1000_set_atq_tail on one side, t_0_entry of vf_tx on the other,        *)
(* senddata and recvdata over one TCP connection in between.               *)
(*                                                                         *)
(* Each direction of the connection is a FIFO of segments, one per send(). *)
(* Lengths are counted in units of the 8-byte message header, so a header  *)
(* is one unit and a descriptor (32 bytes) four.  A segment of kind "frag" *)
(* is what a short read left of a longer one; "val" of a header or of a    *)
(* fragment is the message length its first unit decodes to.               *)
(*                                                                         *)
(* A receiving call is two steps: the peek, the length check and the       *)
(* removal of the header are one (only this thread reads the socket and    *)
(* the peeked bytes are already there), the payload is the other.  A       *)
(* sending call is two steps, header and payload.                          *)
(***************************************************************************)
EXTENDS AdminDesc, Sequences

CONSTANTS
    Commands,       \* descriptors the guest posts
    Data,           \* contents of an indirect buffer
    Garbled,        \* buffer contents that are no member of Data
    Garbage,        \* descriptors that misaligned bytes may decode to
    GarbageLens,    \* message lengths that misaligned bytes may decode to
    ShortReads,     \* may recv() return less than it was asked for?
    Timeout,        \* OPT.timeout of the QEMU side, in seconds
    MaxBacklog      \* bound: no command is posted on a longer backlog

ASSUME ChannelAssumption ==
    /\ Commands \subseteq Desc
    /\ Garbage \subseteq Desc
    /\ GarbageLens \subseteq Nat
    /\ Garbled \notin Data
    /\ ShortReads \in BOOLEAN
    /\ Timeout \in Nat
    /\ MaxBacklog \in Nat

VARIABLES
    qpc,        \* where e1000_set_atq_tail is; "idle" outside it
    slot,       \* the descriptor in guest memory
    buf,        \* the indirect buffer in guest memory
    rdesc,      \* recv_desc of e1000_send_aq_cmd
    qlen,       \* m.length of QEMU's current recvdata
    fs,         \* s->fs # INVALID_SOCKET
    link,       \* "up" while the two sockets are connected to each other
    c2s,        \* bytes from QEMU not yet read by the firmware
    s2c,        \* bytes from the firmware not yet read by QEMU
    fpc,        \* where the firmware process is
    fdesc,      \* desc of t_0_entry
    fbuf,       \* buffer of t_0_entry
    flen,       \* m.length of the firmware's current recvdata
    mlen,       \* msg_length of t_0_entry
    dlen,       \* dat_length of t_0_entry
    echobuf     \* echobuf of t_0_entry

qvars == <<qpc, slot, buf, rdesc, qlen, fs>>
fvars == <<fpc, fdesc, fbuf, flen, mlen, dlen, echobuf>>
vars == <<qvars, link, c2s, s2c, fvars>>

DescSize == 4

QSending == {"sendHdr", "sendDesc", "sendBufHdr", "sendBuf"}
QReceiving == {"recvHdr", "recvDesc", "recvBufHdr", "recvBuf"}
FReceiving == {"recvHdr", "recvDesc", "recvBufHdr", "recvBuf"}
FSending == {"sendHdr", "sendDesc", "sendBufHdr", "sendBuf"}

-----------------------------------------------------------------------------
(* Segments, and what send() and recv() do to a direction *)

Segment(kind, len, val) == [kind |-> kind, len |-> len, val |-> val]
Header(n) == Segment("hdr", 1, n)
DescSeg(d) == Segment("desc", DescSize, d)
DataSeg(n, v) == Segment("data", n, v)

\* The number of units in the first i segments of a direction.
Upto(ch, i) ==
    LET units[j \in 0 .. i] == IF j = 0 THEN 0 ELSE units[j-1] + ch[j].len
    IN  units[i]

\* The firmware takes the first k units off the stream.  What is left of a
\* segment that was cut decodes to some length if it is read as a header.
Consume(k) ==
    IF k = Head(c2s).len
    THEN c2s' = Tail(c2s)
    ELSE \E i \in 1 .. Len(c2s), g \in GarbageLens :
            \E left \in 0 .. c2s[i].len - 1 :
                LET rest == SubSeq(c2s, i + 1, Len(c2s))
                IN  /\ Upto(c2s, i) = k + left
                    /\ c2s' = IF left = 0 THEN rest
                              ELSE <<Segment("frag", left, g)>> \o rest

\* How much of n wanted units one recv() may deliver: what has arrived, be it
\* less than a segment or several.  Without short reads a segment arrives
\* whole.
Takes(ch, n) ==
    IF ShortReads
    THEN {k \in 1 .. n : k <= Upto(ch, Len(ch))}
    ELSE {IF Head(ch).len < n THEN Head(ch).len ELSE n}

\* The delivered units are one whole payload of the wanted kind.
Clean(ch, k, kind) == Head(ch).kind = kind /\ k = Head(ch).len

\* A broken connection keeps a prefix of what was in flight.
Truncate(ch, k) == SubSeq(ch, 1, k)

\* A segment that is not a header lies where recvdata expects one: its first
\* unit decodes to some length.
Misread(ch, g) == <<Segment("frag", Head(ch).len, g)>> \o Tail(ch)

-----------------------------------------------------------------------------
Init ==
    /\ qpc = "idle" /\ slot \in Commands /\ buf \in Data
    /\ rdesc = Fresh(0, 0) /\ qlen = 0 /\ fs = FALSE
    /\ link = "down" /\ c2s = <<>> /\ s2c = <<>>
    /\ fpc = "announce" /\ fdesc = Fresh(0, 0) /\ fbuf = Garbled
    /\ flen = 0 /\ mlen = 0 /\ dlen = 0 /\ echobuf = FALSE

-----------------------------------------------------------------------------
(* QEMU: e1000_set_atq_tail and e1000_send_aq_cmd *)

\* A tail write arrives: the descriptor at the head is read.
Post(c, v) ==
    /\ qpc = "idle"
    /\ Len(c2s) + Len(s2c) <= MaxBacklog
    /\ slot' = c
    /\ buf' = v
    /\ rdesc' = Fresh(0, 0)
    /\ qpc' = IF fs THEN "sendHdr" ELSE "locate"
    /\ UNCHANGED <<qlen, fs, link, c2s, s2c, fvars>>

\* locate() returned a socket, and so did the firmware's announce().
Connect ==
    /\ qpc = "locate" /\ fpc = "announce"
    /\ fs' = TRUE /\ link' = "up"
    /\ c2s' = <<>> /\ s2c' = <<>>
    /\ qpc' = "sendHdr" /\ fpc' = "recvHdr"
    /\ UNCHANGED <<slot, buf, rdesc, qlen, fdesc, fbuf, flen, mlen, dlen, echobuf>>

\* Fallback without the close() of the err label.
FallbackKeepingSocket ==
    /\ slot' = LocalExec(slot)
    /\ qpc' = "idle"
    /\ UNCHANGED <<buf, rdesc, qlen, fs, link, c2s, s2c, fvars>>

\* Fallback without the local switch: the descriptor goes back as it came.
FallbackUnserved ==
    /\ qpc' = "idle"
    /\ fs' = FALSE
    /\ link' = "down"
    /\ \E k \in IF fs THEN 0 .. Len(c2s) ELSE {Len(c2s)} : c2s' = Truncate(c2s, k)
    /\ s2c' = <<>>
    /\ UNCHANGED <<slot, buf, rdesc, qlen, fvars>>

\* The err label of e1000_send_aq_cmd, then the local switch and write-back.
Fallback ==
    /\ slot' = LocalExec(slot)
    /\ qpc' = "idle"
    /\ fs' = FALSE
    /\ link' = "down"
    /\ \E k \in IF fs THEN 0 .. Len(c2s) ELSE {Len(c2s)} : c2s' = Truncate(c2s, k)
    /\ s2c' = <<>>
    /\ UNCHANGED <<buf, rdesc, qlen, fvars>>

\* select() in locate() expired, which only OPT.timeout > 0 lets it do.
LocateExpires ==
    /\ qpc = "locate"
    /\ Timeout > 0
    /\ Fallback

\* A socket call of locate() failed, connect() included.
LocateError ==
    /\ qpc = "locate"
    /\ Fallback

\* One send() of QEMU.  On a broken connection it may still report success.
QemuSend(pc, seg, next) ==
    /\ qpc = pc
    /\ c2s' = IF link = "up" THEN Append(c2s, seg) ELSE c2s
    /\ qpc' = next
    /\ UNCHANGED <<slot, buf, rdesc, qlen, fs, link, s2c, fvars>>

QemuSendDesc ==
    \/ QemuSend("sendHdr", Header(DescSize), "sendDesc")
    \/ QemuSend("sendDesc", DescSeg(slot),
                IF slot.datalen > 0 THEN "sendBufHdr" ELSE "recvHdr")

QemuSendBuf ==
    \/ QemuSend("sendBufHdr", Header(slot.datalen), "sendBuf")
    \/ QemuSend("sendBuf", DataSeg(slot.datalen, buf), "recvHdr")

QemuSendError ==
    /\ qpc \in QSending
    /\ link = "down"
    /\ Fallback

\* recvdata up to the removal of the header; max is *length.  The firmware
\* sends whole messages and QEMU closes the socket after the first failed
\* read, so this direction never loses its framing (ResponseFramed below) and
\* each successful recv() takes one whole segment.
QemuRecvHdr(pc, max, next) ==
    /\ qpc = pc
    /\ s2c # <<>>
    /\ Head(s2c).kind = "hdr"
    /\ Head(s2c).val <= max
    /\ s2c' = Tail(s2c)
    /\ qlen' = Head(s2c).val
    /\ qpc' = next
    /\ UNCHANGED <<slot, buf, rdesc, fs, link, c2s, fvars>>

QemuRecvHeader ==
    \/ QemuRecvHdr("recvHdr", DescSize, "recvDesc")
    \/ QemuRecvHdr("recvBufHdr", rdesc.datalen, "recvBuf")

\* The whole command succeeded: the received descriptor is written back.
Complete(d, v) ==
    /\ slot' = d
    /\ buf' = v
    /\ qpc' = "idle"

\* QemuRecvDesc without the receipt of the return buffer.
QemuRecvDescOnly ==
    /\ qpc = "recvDesc"
    /\ s2c # <<>>
    /\ Head(s2c).len = qlen
    /\ s2c' = Tail(s2c)
    /\ rdesc' \in IF Head(s2c).kind = "desc" THEN {Head(s2c).val} ELSE Garbage
    /\ Complete(rdesc', buf)
    /\ UNCHANGED <<qlen, fs, link, c2s, fvars>>

QemuRecvDesc ==
    /\ qpc = "recvDesc"
    /\ s2c # <<>>
    /\ Head(s2c).len = qlen
    /\ s2c' = Tail(s2c)
    /\ rdesc' \in IF Head(s2c).kind = "desc" THEN {Head(s2c).val} ELSE Garbage
    /\ \/ /\ rdesc'.datalen > 0
          /\ qpc' = "recvBufHdr"
          /\ UNCHANGED <<slot, buf>>
       \/ /\ rdesc'.datalen = 0
          /\ Complete(rdesc', buf)
    /\ UNCHANGED <<qlen, fs, link, c2s, fvars>>

\* What the guest's buffer holds after recv_desc.datalen units were written to
\* recv_desc's address.
Written(seg) ==
    CASE rdesc.addr # slot.addr -> buf
      [] seg.kind = "data" /\ qlen = rdesc.datalen -> seg.val
      [] OTHER -> Garbled

QemuRecvBuf ==
    /\ qpc = "recvBuf"
    /\ s2c # <<>>
    /\ Head(s2c).len = qlen
    /\ s2c' = Tail(s2c)
    /\ Complete(rdesc, Written(Head(s2c)))
    /\ UNCHANGED <<rdesc, qlen, fs, link, c2s, fvars>>

\* QemuRecvError that takes the zero recv() returns at the end of the stream
\* for "nothing yet".
QemuRecvErrorNoEnd ==
    /\ qpc \in QReceiving
    /\ s2c # <<>>
    /\ ShortReads
    /\ Fallback

\* recvdata returns -1: end of stream, a message too long for the buffer, or
\* a short read of the header or the payload.
QemuRecvError ==
    /\ qpc \in QReceiving
    /\ \/ s2c = <<>> /\ link = "down"
       \/ s2c # <<>> /\ ShortReads
       \/ /\ s2c # <<>>
          /\ qpc \in {"recvHdr", "recvBufHdr"}
          /\ Head(s2c).kind = "hdr"
          /\ Head(s2c).val > IF qpc = "recvHdr" THEN DescSize ELSE rdesc.datalen
    /\ Fallback

QemuNext ==
    \/ Connect
    \/ LocateExpires
    \/ QemuSendDesc
    \/ QemuSendBuf
    \/ QemuSendError
    \/ QemuRecvHeader
    \/ QemuRecvDesc
    \/ QemuRecvBuf
    \/ QemuRecvError

-----------------------------------------------------------------------------
(* The firmware: t_0_entry *)

\* recvdata up to the removal of the header; max is *length.  A message longer
\* than max stays in the stream, and so does a header that only partly arrived.
FwRecvHdr(pc, max, next) ==
    /\ fpc = pc
    /\ c2s # <<>>
    /\ Head(c2s).kind \in {"hdr", "frag"}
    /\ Head(c2s).val <= max
    /\ Consume(1)
    /\ flen' = Head(c2s).val
    /\ fpc' = next
    /\ UNCHANGED <<qvars, link, s2c, fdesc, fbuf, mlen, dlen, echobuf>>

FwRecvHeader ==
    \/ FwRecvHdr("recvHdr", DescSize, "recvDesc")
    \/ FwRecvHdr("recvBufHdr", dlen, "recvBuf")

FwMisread ==
    /\ fpc \in {"recvHdr", "recvBufHdr"}
    /\ c2s # <<>>
    /\ Head(c2s).kind \in {"desc", "data"}
    /\ \E g \in GarbageLens : c2s' = Misread(c2s, g)
    /\ UNCHANGED <<qvars, link, s2c, fvars>>

\* The descriptor arrived; a data message follows if it says so.
FwRecvDesc ==
    /\ fpc = "recvDesc"
    /\ c2s # <<>>
    /\ flen \in Takes(c2s, flen)
    /\ Consume(flen)
    /\ fdesc' \in IF Clean(c2s, flen, "desc") THEN {Head(c2s).val} ELSE Garbage
    /\ mlen' = flen
    /\ dlen' = fdesc'.datalen
    /\ fpc' = IF fdesc'.datalen > 0 THEN "recvBufHdr" ELSE "switch"
    /\ UNCHANGED <<qvars, link, s2c, fbuf, flen, echobuf>>

FwRecvBuf ==
    /\ fpc = "recvBuf"
    /\ c2s # <<>>
    /\ flen \in Takes(c2s, flen)
    /\ Consume(flen)
    /\ fbuf' = IF Clean(c2s, flen, "data") THEN Head(c2s).val ELSE Garbled
    /\ dlen' = flen
    /\ fpc' = "switch"
    /\ UNCHANGED <<qvars, link, s2c, fdesc, flen, mlen, echobuf>>

\* recvdata of the descriptor fails: log it and go round the loop.  Only the
\* failures that move the stream or the thread are steps; an end of stream or
\* an over-long message at the header leaves everything as it was.
FwDescError ==
    /\ fpc = "recvDesc"
    /\ \/ c2s = <<>> /\ link = "down" /\ UNCHANGED c2s
       \/ flen = 0 /\ UNCHANGED c2s
       \/ /\ c2s # <<>>
          /\ \E k \in Takes(c2s, flen) \ {flen} : Consume(k)
    /\ fpc' = "recvHdr"
    /\ UNCHANGED <<qvars, link, s2c, fdesc, fbuf, flen, mlen, dlen, echobuf>>

\* recvdata of the buffer fails: log it and execute the command all the same,
\* with whatever the buffer now holds.
FwBufError ==
    /\ \/ /\ fpc = "recvBufHdr"
          /\ \/ c2s = <<>> /\ link = "down"
             \/ c2s # <<>> /\ ShortReads
             \/ /\ c2s # <<>>
                /\ Head(c2s).kind \in {"hdr", "frag"}
                /\ Head(c2s).val > dlen
          /\ UNCHANGED <<c2s, fbuf>>
       \/ /\ fpc = "recvBuf"
          /\ \/ c2s = <<>> /\ link = "down" /\ UNCHANGED <<c2s, fbuf>>
             \/ flen = 0 /\ UNCHANGED <<c2s, fbuf>>
             \/ /\ c2s # <<>>
                /\ \E k \in Takes(c2s, flen) \ {flen} : Consume(k)
                /\ fbuf' = Garbled
    /\ fpc' = "switch"
    /\ UNCHANGED <<qvars, link, s2c, fdesc, flen, mlen, dlen, echobuf>>

\* FwSwitchStep without the assignment to echobuf.
FwSwitchStepNoEcho ==
    /\ fpc = "switch"
    /\ fdesc' = FwExec(fdesc)
    /\ fpc' = "sendHdr"
    /\ UNCHANGED <<qvars, link, c2s, s2c, fbuf, flen, mlen, dlen, echobuf>>

\* The switch on desc.opcode and the DD flag.
FwSwitchStep ==
    /\ fpc = "switch"
    /\ fdesc' = FwExec(fdesc)
    /\ echobuf' = (echobuf \/ fdesc.opcode = aqc_echo)
    /\ fpc' = "sendHdr"
    /\ UNCHANGED <<qvars, link, c2s, s2c, fbuf, flen, mlen, dlen>>

\* One send() of the firmware.
FwSend(pc, seg, next) ==
    /\ fpc = pc
    /\ s2c' = IF link = "up" THEN Append(s2c, seg) ELSE s2c
    /\ fpc' = next
    /\ UNCHANGED <<qvars, link, c2s, fdesc, fbuf, flen, mlen, dlen>>

\* A descriptor shorter than the structure is not one QEMU can decode.
FwAnswer == IF mlen = DescSize THEN DescSeg(fdesc) ELSE DataSeg(mlen, Garbled)

FwSendDesc ==
    /\ \/ FwSend("sendHdr", Header(mlen), "sendDesc")
       \/ FwSend("sendDesc", FwAnswer,
                 IF echobuf /\ dlen > 0 THEN "sendBufHdr" ELSE "recvHdr")
    /\ UNCHANGED echobuf

FwSendBuf ==
    \/ FwSend("sendBufHdr", Header(dlen), "sendBuf") /\ UNCHANGED echobuf
    \/ FwSend("sendBuf", DataSeg(dlen, fbuf), "recvHdr") /\ echobuf' = FALSE

\* senddata fails: break out of the loop, which ends the thread for good.
FwSendError ==
    /\ fpc \in FSending
    /\ link = "down"
    /\ fpc' = "ended"
    /\ UNCHANGED <<qvars, link, c2s, s2c, fdesc, fbuf, flen, mlen, dlen, echobuf>>

FwNext ==
    \/ FwRecvHeader
    \/ FwMisread
    \/ FwRecvDesc
    \/ FwRecvBuf
    \/ FwDescError
    \/ FwBufError
    \/ FwSwitchStep
    \/ FwSendDesc
    \/ FwSendBuf
    \/ FwSendError

-----------------------------------------------------------------------------
(* The environment *)

\* The connection breaks under both ends.
Break ==
    /\ link = "up"
    /\ link' = "down"
    /\ \E k \in 0 .. Len(c2s) : c2s' = Truncate(c2s, k)
    /\ \E k \in 0 .. Len(s2c) : s2c' = Truncate(s2c, k)
    /\ UNCHANGED <<qvars, fvars>>

\* The firmware process dies; its kernel closes the socket.
FwCrash ==
    /\ fpc # "off"
    /\ fpc' = "off"
    /\ link' = "down"
    /\ c2s' = <<>>
    /\ \E k \in 0 .. Len(s2c) : s2c' = Truncate(s2c, k)
    /\ UNCHANGED <<qvars, fdesc, fbuf, flen, mlen, dlen, echobuf>>

\* It is started again: main() announces once, then runs the thread.
FwRestart ==
    /\ fpc = "off"
    /\ fpc' = "announce"
    /\ fdesc' = Fresh(0, 0) /\ fbuf' = Garbled
    /\ flen' = 0 /\ mlen' = 0 /\ dlen' = 0 /\ echobuf' = FALSE
    /\ UNCHANGED <<qvars, link, c2s, s2c>>

Env ==
    \/ \E c \in Commands, v \in Data : Post(c, v)
    \/ LocateError
    \/ Break
    \/ FwCrash
    \/ FwRestart

Next == QemuNext \/ FwNext \/ Env

Spec == Init /\ [][Next]_vars

\* QEMU's handler and the firmware thread are each scheduled by a preemptive
\* kernel; nothing is assumed of the guest, the network or whoever restarts
\* the firmware.
FairSpec == Spec /\ WF_vars(QemuNext) /\ WF_vars(FwNext)

-----------------------------------------------------------------------------
(* Properties *)

Seg == [kind : {"hdr", "frag"}, len : Nat, val : Nat]
       \cup [kind : {"desc"}, len : {DescSize}, val : Desc]
       \cup [kind : {"data"}, len : Nat, val : Data \cup {Garbled}]

\* Every variable of the device's handler, of the connection and of the
\* firmware thread holds a value of its C type.
TypeOK ==
    /\ qpc \in {"idle", "locate"} \cup QSending \cup QReceiving
    /\ slot \in Desc /\ rdesc \in Desc /\ fdesc \in Desc
    /\ buf \in Data \cup {Garbled} /\ fbuf \in Data \cup {Garbled}
    /\ qlen \in Nat /\ flen \in Nat /\ mlen \in Nat /\ dlen \in Nat
    /\ fs \in BOOLEAN /\ echobuf \in BOOLEAN
    /\ link \in {"up", "down"}
    /\ c2s \in Seq(Seg) /\ s2c \in Seq(Seg)
    /\ fpc \in {"off", "announce", "switch", "ended"} \cup FReceiving \cup FSending

\* e1000_send_aq_cmd accepts whatever descriptor comes next: it compares no
\* cookie and no opcode.  All that keeps it from taking the answer to an
\* earlier command is that the err label closes the socket.  So: what the
\* firmware has sent on the socket QEMU holds belongs to the command in the
\* slot, and once a command is finished nothing of its answer is left.
NoStaleAnswer ==
    fs => /\ qpc = "idle" => s2c = <<>>
          /\ \A i \in 1 .. Len(s2c) :
                /\ s2c[i].kind = "desc" => s2c[i].val = FwExec(slot)
                /\ s2c[i].kind = "data" => s2c[i].val = buf

\* Whatever the firmware makes of what it reads, QEMU always finds a header
\* where it expects one and a payload of the announced length after it: the
\* firmware writes whole messages and QEMU gives the socket up on any error.
ResponseFramed ==
    fs => LET s == IF qpc \in {"recvDesc", "recvBuf"}
                   THEN <<Header(qlen)>> \o s2c ELSE s2c
          IN  \A i \in 1 .. Len(s) :
                IF i % 2 = 1
                THEN s[i].kind = "hdr" /\ s[i].len = 1
                ELSE s[i].kind \in {"desc", "data"} /\ s[i].len = s[i-1].val

\* QEMU and the firmware never both wait for the other to speak.  recvdata
\* has no timeout on either side, so such a wait would hold the device's
\* handler, and with it the global mutex of QEMU, for ever.
NoMutualWait ==
    ~ /\ fs /\ link = "up"
      /\ qpc \in QReceiving /\ s2c = <<>>
      /\ fpc \in FReceiving /\ c2s = <<>>

\* The echo command "simply returns the indirect buffer that it was given":
\* no command ends with other contents in the guest's buffer.
EchoReturnsBuffer == [][qpc # "idle" => buf' = buf]_vars

\* The protocol implements the service the driver relies on: every posted
\* descriptor comes back executed, by the firmware or by the device, and it
\* is the descriptor that was posted.
Svc == INSTANCE AqService WITH busy <- (qpc # "idle")
Service == Svc!SvcSpec

\* If QEMU is given a timeout, every tail write is served to the end: the
\* firmware answers, or the device falls back to executing the command itself.
\* With the default of 0 (CONNECT_TIMEOUT, hw/msg/opt.h) locate() does not return
\* while no firmware announces itself, and nothing is promised.
CommandCompletes == Timeout > 0 => ((qpc # "idle") ~> (qpc = "idle"))
=============================================================================
