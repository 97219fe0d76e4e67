------------------------- MODULE AdminChannelProofs -------------------------
(***************************************************************************)
(* Proofs about AdminChannel, for every set of commands and every buffer:  *)
(* with and without short reads the type invariant holds and QEMU finds    *)
(* the firmware's answers framed as it expects; when recv() delivers whole *)
(* segments no answer is taken for another command's, the                  *)
(* protocol implements AqService, and the two ends never wait for each     *)
(* other as long as buffers travel with echo commands only.                *)
(***************************************************************************)
EXTENDS AdminChannel, SequenceTheorems, TLAPS

-----------------------------------------------------------------------------
(* The inductive invariant *)

\* The four segments that carry a descriptor and its buffer.
Msg(d, v) == <<Header(DescSize), DescSeg(d), Header(d.datalen), DataSeg(d.datalen, v)>>

\* Segments j+1 .. k of a message.
Chunk(m, j, k) == SubSeq(m, j + 1, k)

\* A command without a buffer uses only the first two segments.
Whole == IF slot.datalen > 0 THEN 4 ELSE 2

\* Segments of the request QEMU has sent and the firmware has read, and
\* segments of the answer the firmware has sent and QEMU has read.
QSent == CASE qpc \in {"idle", "sendHdr"} -> 0
           [] qpc = "sendDesc" -> 1
           [] qpc = "sendBufHdr" -> 2
           [] qpc = "sendBuf" -> 3
           [] OTHER -> Whole

FTaken == CASE fpc = "recvDesc" -> 1
            [] fpc = "recvBufHdr" -> 2
            [] fpc = "recvBuf" -> 3
            [] OTHER -> 0

FSent == CASE fpc = "sendDesc" -> 1
           [] fpc = "sendBufHdr" -> 2
           [] fpc = "sendBuf" -> 3
           [] OTHER -> 0

QTaken == CASE qpc = "recvDesc" -> 1
            [] qpc = "recvBufHdr" -> 2
            [] qpc = "recvBuf" -> 3
            [] OTHER -> 0

Request == Msg(slot, buf)
Answer == Msg(FwExec(slot), buf)

QemuInv ==
    /\ ~fs => link = "down" /\ qpc \in {"idle", "locate"}
    /\ fs => qpc # "locate"
    /\ qpc \in {"sendBufHdr", "sendBuf", "recvBufHdr", "recvBuf"} => slot.datalen > 0
    /\ qpc = "recvDesc" => qlen = DescSize
    /\ qpc \in {"recvBufHdr", "recvBuf"} => rdesc = FwExec(slot)
    /\ qpc = "recvBuf" => qlen = slot.datalen

\* What QEMU may still read is the rest, or a part of the rest, of the answer
\* to the command in the slot.
AnswerInv ==
    fs => \E m \in QTaken .. Whole :
             /\ s2c = Chunk(Answer, QTaken, m)
             /\ qpc \notin QReceiving => m = 0

\* The firmware is reading the request, answering it, or done with it.
Reading ==
    /\ fpc \in FReceiving
    /\ s2c = <<>>
    /\ qpc \in QSending \cup {"idle", "recvHdr"}
    /\ FTaken <= QSent
    /\ c2s = Chunk(Request, FTaken, QSent)
    /\ fpc = "recvDesc" => flen = DescSize
    /\ fpc \in {"recvBufHdr", "recvBuf"} =>
          /\ fdesc = slot /\ mlen = DescSize
          /\ dlen = slot.datalen /\ slot.datalen > 0
    /\ fpc = "recvBuf" => flen = slot.datalen

Answering ==
    /\ fpc \in {"switch"} \cup FSending
    /\ qpc \in QReceiving
    /\ c2s = <<>>
    /\ mlen = DescSize /\ dlen = slot.datalen
    /\ slot.datalen > 0 => fbuf = buf
    /\ fdesc = IF fpc = "switch" THEN slot ELSE FwExec(slot)
    /\ QTaken <= FSent
    /\ s2c = Chunk(Answer, QTaken, FSent)
    /\ fpc \in {"sendBufHdr", "sendBuf"} => echobuf /\ slot.datalen > 0

Answered ==
    /\ fpc = "recvHdr"
    /\ qpc \in QReceiving
    /\ c2s = <<>>
    /\ \E m \in {2, Whole} : QTaken <= m /\ s2c = Chunk(Answer, QTaken, m)

LinkInv == link = "up" => fs /\ (Reading \/ Answering \/ Answered)

ChannelInv == QemuInv /\ AnswerInv /\ LinkInv

\* Buffers travel with echo commands and with no other.
Balanced == \A c \in Commands : c.datalen > 0 <=> c.opcode = aqc_echo

BalancedInv ==
    /\ qpc # "idle" => slot \in Commands
    /\ fpc = "announce" => ~echobuf
    /\ link = "up" =>
          /\ fpc \in FReceiving \cup {"switch"} => ~echobuf
          /\ fpc \in FSending => echobuf = (slot.opcode = aqc_echo)
          /\ Answered => s2c = Chunk(Answer, QTaken, Whole)
-----------------------------------------------------------------------------
(* Chunks of a message *)

\* Nothing lies between a position and itself.
LEMMA ChunkEmpty ==
    ASSUME NEW m, NEW j \in Nat
    PROVE  Chunk(m, j, j) = <<>>
  BY SubSeqEmpty DEF Chunk

\* A chunk is a sequence of segments of the length its bounds say.
LEMMA ChunkType ==
    ASSUME NEW S, NEW m \in Seq(S), NEW j \in Nat, NEW k \in Nat,
           j <= k, k <= Len(m)
    PROVE  /\ Chunk(m, j, k) \in Seq(S)
           /\ Len(Chunk(m, j, k)) = k - j
           /\ \A i \in 1 .. (k - j) : Chunk(m, j, k)[i] = m[j + i]
  <1>1. \A i \in (j + 1) .. k : m[i] \in S
    BY ElementOfSeq, LenProperties
  <1> QED
    BY <1>1, SubSeqProperties DEF Chunk

\* send() of the next segment lengthens what is in flight by it.
LEMMA ChunkAppend ==
    ASSUME NEW S, NEW m \in Seq(S), NEW j \in Nat, NEW k \in Nat, NEW l \in Nat,
           j <= k, k < l, l <= k + 1, l <= Len(m)
    PROVE  Append(Chunk(m, j, k), m[l]) = Chunk(m, j, l)
  <1> DEFINE a == Append(Chunk(m, j, k), m[l])
             b == Chunk(m, j, l)
  <1>1. m[l] \in S /\ k <= Len(m) /\ j <= l
    BY ElementOfSeq, LenProperties
  <1>2. /\ Chunk(m, j, k) \in Seq(S) /\ Len(Chunk(m, j, k)) = k - j
        /\ \A i \in 1 .. (k - j) : Chunk(m, j, k)[i] = m[j + i]
    BY <1>1, ChunkType
  <1>3. /\ b \in Seq(S) /\ Len(b) = l - j
        /\ \A i \in 1 .. (l - j) : b[i] = m[j + i]
    BY <1>1, ChunkType
  <1>4. /\ a \in Seq(S) /\ Len(a) = l - j
        /\ \A i \in 1 .. (k - j) : a[i] = m[j + i]
        /\ a[l - j] = m[l]
    <2>1. /\ a \in Seq(S) /\ Len(a) = Len(Chunk(m, j, k)) + 1
          /\ \A i \in 1 .. Len(Chunk(m, j, k)) : a[i] = Chunk(m, j, k)[i]
          /\ a[Len(Chunk(m, j, k)) + 1] = m[l]
      BY <1>1, <1>2, AppendProperties
    <2>2. Len(Chunk(m, j, k)) + 1 = l - j
      BY <1>2
    <2> QED
      BY <1>2, <2>1, <2>2
  <1>5. Len(a) = Len(b) /\ \A i \in 1 .. Len(a) : a[i] = b[i]
    <2> HIDE DEF a, b
    <2> QED
      BY <1>3, <1>4
  <1> QED
    BY <1>3, <1>4, <1>5, SeqEqual

\* recv() of the first segment in flight shortens it by that segment.
LEMMA ChunkHead ==
    ASSUME NEW S, NEW m \in Seq(S), NEW j \in Nat, NEW k \in Nat, NEW l \in Nat,
           j < l, l <= j + 1, l <= k, k <= Len(m)
    PROVE  /\ Chunk(m, j, k) # <<>>
           /\ Head(Chunk(m, j, k)) = m[l]
           /\ Tail(Chunk(m, j, k)) = Chunk(m, l, k)
  <1>1. j <= k /\ k - j > 0
    OBVIOUS
  <1>2. Len(Chunk(m, j, k)) = k - j
    BY <1>1, ChunkType
  <1>3. l \in 1 .. Len(m) /\ k \in l .. Len(m)
    BY LenProperties
  <1>4. /\ Head(SubSeq(m, l, k)) = m[l]
        /\ Tail(SubSeq(m, l, k)) = SubSeq(m, l + 1, k)
    BY <1>3, HeadTailOfSubSeq
  <1>5. l = j + 1
    OBVIOUS
  <1> QED
    BY <1>1, <1>2, <1>4, <1>5, EmptySeq DEF Chunk

\* A connection that breaks keeps a shorter chunk from the same position.
LEMMA ChunkPrefix ==
    ASSUME NEW S, NEW m \in Seq(S), NEW j \in Nat, NEW k \in Nat, NEW l \in Nat,
           j <= l, l <= k, k <= Len(m)
    PROVE  Truncate(Chunk(m, j, k), l - j) = Chunk(m, j, l)
  <1> DEFINE a == Truncate(Chunk(m, j, k), l - j)
             b == Chunk(m, j, l)
  <1>0. j <= k /\ l <= Len(m)
    BY LenProperties
  <1>1. /\ Chunk(m, j, k) \in Seq(S) /\ Len(Chunk(m, j, k)) = k - j
        /\ \A i \in 1 .. (k - j) : Chunk(m, j, k)[i] = m[j + i]
    BY <1>0, ChunkType
  <1>2. /\ b \in Seq(S) /\ Len(b) = l - j
        /\ \A i \in 1 .. (l - j) : b[i] = m[j + i]
    BY <1>0, ChunkType
  <1>3. \A i \in 1 .. (l - j) : Chunk(m, j, k)[i] \in S
    BY <1>1, ElementOfSeq
  <1>4. /\ a \in Seq(S) /\ Len(a) = l - j
        /\ \A i \in 1 .. (l - j) : a[i] = m[j + i]
    BY <1>1, <1>3, SubSeqProperties DEF Truncate
  <1>5. Len(a) = Len(b) /\ \A i \in 1 .. Len(a) : a[i] = b[i]
    BY <1>2, <1>4
  <1> QED
    BY <1>2, <1>4, <1>5, SeqEqual

-----------------------------------------------------------------------------
(* Types *)

\* Executing a command yields a descriptor, and fresh ones are descriptors.
LEMMA DescTypes ==
    /\ Fresh(0, 0) \in Desc
    /\ \A d \in Desc : FwExec(d) \in Desc /\ LocalExec(d) \in Desc
  BY DEF Fresh, Desc, FwExec, FwSwitch, LocalExec, GetVersion, RC_OK, RC_ENOSYS

\* What a side sends is a segment.
LEMMA SegTypes ==
    /\ \A n \in Nat : Header(n) \in Seg
    /\ \A d \in Desc : DescSeg(d) \in Seg
    /\ \A n \in Nat, v \in Data \cup {Garbled} : DataSeg(n, v) \in Seg
    /\ \A n, g \in Nat : Segment("frag", n, g) \in Seg
  BY DEF Header, DescSeg, DataSeg, Segment, Seg, DescSize

\* What lies at the head of a direction, by its kind.
LEMMA SegKinds ==
    ASSUME NEW x \in Seg
    PROVE  /\ x.kind \in {"hdr", "frag"} => x.val \in Nat
           /\ x.kind = "desc" => x.val \in Desc
           /\ x.kind = "data" => x.val \in Data \cup {Garbled}
           /\ x.len \in Nat
  BY DEF Seg, DescSize

\* A broken connection leaves a sequence of segments.
LEMMA TruncateType ==
    ASSUME NEW s \in Seq(Seg), NEW k \in 0 .. Len(s)
    PROVE  Truncate(s, k) \in Seq(Seg)
  <1>1. \A i \in 1 .. k : s[i] \in Seg
    BY ElementOfSeq, LenProperties
  <1> QED
    BY <1>1, SubSeqProperties, LenProperties DEF Truncate

\* Reading from the stream leaves a sequence of segments.
LEMMA ConsumeType ==
    ASSUME c2s \in Seq(Seg), c2s # <<>>, NEW k, Consume(k)
    PROVE  c2s' \in Seq(Seg)
  <1>1. CASE k = Head(c2s).len
    BY <1>1, HeadTailProperties DEF Consume
  <1>2. CASE k # Head(c2s).len
    <2>1. PICK i \in 1 .. Len(c2s), g \in GarbageLens :
             \E left \in 0 .. c2s[i].len - 1 :
                c2s' = IF left = 0 THEN SubSeq(c2s, i + 1, Len(c2s))
                       ELSE <<Segment("frag", left, g)>> \o SubSeq(c2s, i + 1, Len(c2s))
      BY <1>2 DEF Consume
    <2>2. PICK left \in 0 .. c2s[i].len - 1 :
                c2s' = IF left = 0 THEN SubSeq(c2s, i + 1, Len(c2s))
                       ELSE <<Segment("frag", left, g)>> \o SubSeq(c2s, i + 1, Len(c2s))
      BY <2>1
    <2>3. SubSeq(c2s, i + 1, Len(c2s)) \in Seq(Seg)
      <3>1. \A n \in (i + 1) .. Len(c2s) : c2s[n] \in Seg
        BY ElementOfSeq, LenProperties
      <3> QED
        BY <3>1, SubSeqProperties, LenProperties
    <2>4. Segment("frag", left, g) \in Seg
      <3>1. c2s[i] \in Seg
        BY ElementOfSeq
      <3> QED
        BY <3>1, SegKinds, SegTypes, ChannelAssumption
    <2>5. <<Segment("frag", left, g)>> \in Seq(Seg)
      BY <2>4
    <2> QED
      BY <2>2, <2>3, <2>5, ConcatProperties
  <1> QED
    BY <1>1, <1>2

\* The initial state has the types.
LEMMA TypeInit == Init => TypeOK
  <1> SUFFICES ASSUME Init PROVE TypeOK
    OBVIOUS
  <1>1. c2s \in Seq(Seg) /\ s2c \in Seq(Seg)
    BY EmptySeq DEF Init
  <1> QED
    BY <1>1, DescTypes, ChannelAssumption DEF Init, TypeOK, QSending, QReceiving, FReceiving, FSending

\* The error path of the device's handler keeps the types.
LEMMA TypeFallback == TypeOK /\ Fallback => TypeOK'
  <1> SUFFICES ASSUME TypeOK, Fallback PROVE TypeOK'
    OBVIOUS
  <1>1. slot' \in Desc
    BY DescTypes DEF Fallback, TypeOK
  <1>2. c2s' \in Seq(Seg)
    <2>1. PICK k \in 0 .. Len(c2s) : c2s' = Truncate(c2s, k)
      BY LenProperties DEF Fallback, TypeOK
    <2> QED
      BY <2>1, TruncateType DEF TypeOK
  <1>3. s2c' \in Seq(Seg)
    BY EmptySeq DEF Fallback
  <1> QED
    BY <1>1, <1>2, <1>3 DEF Fallback, TypeOK, fvars

\* Every step of QEMU's handler keeps the types.
LEMMA TypeQemu == TypeOK /\ QemuNext => TypeOK'
  <1> SUFFICES ASSUME TypeOK, QemuNext PROVE TypeOK'
    OBVIOUS
  <1> USE DEF QSending, QReceiving, FReceiving, FSending
  <1>1. CASE Connect
    BY <1>1, EmptySeq DEF Connect, TypeOK
  <1>2. CASE LocateExpires \/ QemuSendError \/ QemuRecvError
    BY <1>2, TypeFallback DEF LocateExpires, QemuSendError, QemuRecvError
  <1>3. ASSUME NEW pc, NEW seg \in Seg, NEW next \in QSending \cup QReceiving,
               QemuSend(pc, seg, next)
        PROVE  TypeOK'
    <2>1. c2s' \in Seq(Seg)
      BY <1>3, AppendProperties DEF QemuSend, TypeOK
    <2> QED
      BY <1>3, <2>1 DEF QemuSend, TypeOK, fvars
  <1>4. CASE QemuSendDesc
    <2>1. Header(DescSize) \in Seg /\ DescSeg(slot) \in Seg
      BY SegTypes DEF TypeOK, DescSize
    <2>2. CASE QemuSend("sendHdr", Header(DescSize), "sendDesc")
      BY <1>3, <2>1, <2>2
    <2>3. CASE QemuSend("sendDesc", DescSeg(slot),
                        IF slot.datalen > 0 THEN "sendBufHdr" ELSE "recvHdr")
      BY <1>3, <2>1, <2>3
    <2> QED
      BY <1>4, <2>2, <2>3 DEF QemuSendDesc
  <1>5. CASE QemuSendBuf
    <2>1. Header(slot.datalen) \in Seg /\ DataSeg(slot.datalen, buf) \in Seg
      BY SegTypes DEF TypeOK, Desc
    <2>2. CASE QemuSend("sendBufHdr", Header(slot.datalen), "sendBuf")
      BY <1>3, <2>1, <2>2
    <2>3. CASE QemuSend("sendBuf", DataSeg(slot.datalen, buf), "recvHdr")
      BY <1>3, <2>1, <2>3
    <2> QED
      BY <1>5, <2>2, <2>3 DEF QemuSendBuf
  <1>6. ASSUME s2c # <<>> PROVE Head(s2c) \in Seg /\ Tail(s2c) \in Seq(Seg)
    BY <1>6, HeadTailProperties DEF TypeOK
  <1>7. CASE QemuRecvHeader
    <2>1. ASSUME NEW pc, NEW max, NEW next \in QReceiving, QemuRecvHdr(pc, max, next)
          PROVE  TypeOK'
      BY <1>6, <2>1, SegKinds DEF QemuRecvHdr, TypeOK, fvars
    <2> QED
      BY <1>7, <2>1 DEF QemuRecvHeader
  <1>8. CASE QemuRecvDesc
    <2>1. rdesc' \in Desc /\ s2c' \in Seq(Seg)
      BY <1>6, <1>8, SegKinds, ChannelAssumption DEF QemuRecvDesc
    <2> QED
      BY <1>8, <2>1 DEF QemuRecvDesc, Complete, TypeOK, fvars
  <1>9. CASE QemuRecvBuf
    <2>1. Written(Head(s2c)) \in Data \cup {Garbled} /\ s2c' \in Seq(Seg)
      BY <1>6, <1>9, SegKinds DEF QemuRecvBuf, Written, TypeOK
    <2> QED
      BY <1>9, <2>1 DEF QemuRecvBuf, Complete, TypeOK, fvars
  <1> QED
    BY <1>1, <1>2, <1>4, <1>5, <1>7, <1>8, <1>9 DEF QemuNext

\* Every step of the firmware keeps the types, short reads included.
LEMMA TypeFw == TypeOK /\ FwNext => TypeOK'
  <1> SUFFICES ASSUME TypeOK, FwNext PROVE TypeOK'
    OBVIOUS
  <1> USE DEF QSending, QReceiving, FReceiving, FSending
  <1>0. ASSUME c2s # <<>> PROVE Head(c2s) \in Seg /\ Tail(c2s) \in Seq(Seg)
    BY <1>0, HeadTailProperties DEF TypeOK
  <1>1. CASE FwRecvHeader
    <2>1. ASSUME NEW pc, NEW max, NEW next \in FReceiving, FwRecvHdr(pc, max, next)
          PROVE  TypeOK'
      <3>1. c2s' \in Seq(Seg)
        BY <2>1, ConsumeType DEF FwRecvHdr, TypeOK
      <3>2. flen' \in Nat
        BY <1>0, <2>1, SegKinds DEF FwRecvHdr
      <3> QED
        BY <2>1, <3>1, <3>2 DEF FwRecvHdr, TypeOK, qvars
    <2> QED
      BY <1>1, <2>1 DEF FwRecvHeader
  <1>2. CASE FwMisread
    <2>1. PICK g \in GarbageLens : c2s' = Misread(c2s, g)
      BY <1>2 DEF FwMisread
    <2>2. <<Segment("frag", Head(c2s).len, g)>> \in Seq(Seg)
      BY <1>0, <1>2, SegKinds, SegTypes, ChannelAssumption DEF FwMisread
    <2>3. c2s' \in Seq(Seg)
      BY <1>0, <1>2, <2>1, <2>2, ConcatProperties DEF FwMisread, Misread
    <2> QED
      BY <1>2, <2>3 DEF FwMisread, TypeOK, qvars, fvars
  <1>3. CASE FwRecvDesc
    <2>1. c2s' \in Seq(Seg)
      BY <1>3, ConsumeType DEF FwRecvDesc, TypeOK
    <2>2. fdesc' \in Desc
      BY <1>0, <1>3, SegKinds, ChannelAssumption DEF FwRecvDesc, Clean
    <2>3. fdesc'.datalen \in Nat
      BY <2>2 DEF Desc
    <2> QED
      BY <1>3, <2>1, <2>2, <2>3 DEF FwRecvDesc, TypeOK, qvars
  <1>4. CASE FwRecvBuf
    <2>1. c2s' \in Seq(Seg)
      BY <1>4, ConsumeType DEF FwRecvBuf, TypeOK
    <2>2. fbuf' \in Data \cup {Garbled}
      BY <1>0, <1>4, SegKinds DEF FwRecvBuf, Clean
    <2> QED
      BY <1>4, <2>1, <2>2 DEF FwRecvBuf, TypeOK, qvars
  <1>5. CASE FwDescError
    <2>1. c2s' \in Seq(Seg)
      BY <1>5, ConsumeType DEF FwDescError, TypeOK
    <2> QED
      BY <1>5, <2>1 DEF FwDescError, TypeOK, qvars
  <1>6. CASE FwBufError
    <2>1. c2s' \in Seq(Seg) /\ fbuf' \in Data \cup {Garbled}
      BY <1>6, ConsumeType DEF FwBufError, TypeOK
    <2> QED
      BY <1>6, <2>1 DEF FwBufError, TypeOK, qvars
  <1>7. CASE FwSwitchStep
    <2>1. fdesc' \in Desc
      BY <1>7, DescTypes DEF FwSwitchStep, TypeOK
    <2>2. echobuf' \in BOOLEAN
      BY <1>7 DEF FwSwitchStep, TypeOK
    <2> QED
      BY <1>7, <2>1, <2>2 DEF FwSwitchStep, TypeOK, qvars
  <1>8. ASSUME NEW pc, NEW seg \in Seg, NEW next \in FSending \cup FReceiving,
               FwSend(pc, seg, next), echobuf' \in BOOLEAN
        PROVE  TypeOK'
    <2>1. s2c' \in Seq(Seg)
      BY <1>8, AppendProperties DEF FwSend, TypeOK
    <2> QED
      BY <1>8, <2>1 DEF FwSend, TypeOK, qvars
  <1>9. CASE FwSendDesc
    <2>1. Header(mlen) \in Seg /\ FwAnswer \in Seg
      BY SegTypes DEF TypeOK, FwAnswer
    <2>2. echobuf' \in BOOLEAN
      BY <1>9 DEF FwSendDesc, TypeOK
    <2>3. CASE FwSend("sendHdr", Header(mlen), "sendDesc")
      BY <1>8, <2>1, <2>2, <2>3
    <2>4. CASE FwSend("sendDesc", FwAnswer,
                      IF echobuf /\ dlen > 0 THEN "sendBufHdr" ELSE "recvHdr")
      BY <1>8, <2>1, <2>2, <2>4
    <2> QED
      BY <1>9, <2>3, <2>4 DEF FwSendDesc
  <1>10. CASE FwSendBuf
    <2>1. Header(dlen) \in Seg /\ DataSeg(dlen, fbuf) \in Seg
      BY SegTypes DEF TypeOK
    <2>2. echobuf' \in BOOLEAN
      BY <1>10 DEF FwSendBuf, TypeOK
    <2> QED
      BY <1>8, <1>10, <2>1, <2>2 DEF FwSendBuf
  <1>11. CASE FwSendError
    BY <1>11 DEF FwSendError, TypeOK, qvars
  <1> QED
    BY <1>1, <1>2, <1>3, <1>4, <1>5, <1>6, <1>7, <1>9, <1>10, <1>11 DEF FwNext

\* Every step of the guest, the network and the operator keeps the types.
LEMMA TypeEnv == TypeOK /\ Env => TypeOK'
  <1> SUFFICES ASSUME TypeOK, Env PROVE TypeOK'
    OBVIOUS
  <1> USE DEF QSending, QReceiving, FReceiving, FSending
  <1>1. ASSUME NEW c \in Commands, NEW v \in Data, Post(c, v) PROVE TypeOK'
    BY <1>1, DescTypes, ChannelAssumption DEF Post, TypeOK, fvars
  <1>2. CASE LocateError
    BY <1>2, TypeFallback DEF LocateError
  <1>3. CASE Break
    BY <1>3, TruncateType DEF Break, TypeOK, qvars, fvars
  <1>4. CASE FwCrash
    BY <1>4, TruncateType, EmptySeq DEF FwCrash, TypeOK, qvars
  <1>5. CASE FwRestart
    BY <1>5, DescTypes DEF FwRestart, TypeOK, qvars
  <1> QED
    BY <1>1, <1>2, <1>3, <1>4, <1>5 DEF Env

\* Every step keeps the types.
LEMMA TypeStep == TypeOK /\ [Next]_vars => TypeOK'
  <1> SUFFICES ASSUME TypeOK, [Next]_vars PROVE TypeOK'
    OBVIOUS
  <1>1. CASE Next
    BY <1>1, TypeQemu, TypeFw, TypeEnv DEF Next
  <1>2. CASE UNCHANGED vars
    BY <1>2 DEF TypeOK, vars, qvars, fvars
  <1> QED
    BY <1>1, <1>2

\* The handler, the connection and the firmware thread hold values of their
\* types in every reachable state, whatever recv() delivers.
THEOREM ChannelTypes == Spec => []TypeOK
  BY TypeInit, TypeStep, PTL DEF Spec

-----------------------------------------------------------------------------
(* The framing of the answers, also when recv() delivers less than a segment *)

Odd(n) == n % 2 = 1

\* QEMU has taken a header and not yet its payload.
Half == IF qpc \in {"recvDesc", "recvBuf"} THEN 1 ELSE 0

\* The length that the header before segment k of the answer announces.
Announced(k) == IF k = 1 THEN qlen ELSE s2c[k - 1].val

\* ... and the last header of all, when its payload is still to come.
Owed == Announced(Len(s2c) + 1)

\* The segments of the answer are headers and payloads in turn, and the
\* firmware is between the two when the last one is a header.
FrameInv ==
    /\ link = "up" => fs
    /\ fs => \A k \in 1 .. Len(s2c) :
                /\ Odd(k + Half) => s2c[k].kind = "hdr" /\ s2c[k].len = 1
                /\ ~Odd(k + Half) =>
                      s2c[k].kind \in {"desc", "data"} /\ s2c[k].len = Announced(k)
    /\ link = "up" => (Odd(Len(s2c) + Half) <=> fpc \in {"sendDesc", "sendBuf"})
    /\ link = "up" /\ fpc = "sendDesc" => Owed = mlen
    /\ link = "up" /\ fpc = "sendBuf" => Owed = dlen

\* Odd and even numbers take turns.
LEMMA Parity == ~Odd(0) /\ \A n \in Nat : Odd(n + 1) <=> ~Odd(n)
  BY DEF Odd

\* What the two ends agree on is what QEMU relies on.
LEMMA FrameFramed == TypeOK /\ FrameInv => ResponseFramed
  <1> SUFFICES ASSUME TypeOK, FrameInv, fs PROVE ResponseFramed
    BY DEF ResponseFramed
  <1>0. s2c \in Seq(Seg) /\ Len(s2c) \in Nat
    BY DEF TypeOK
  <1>1. CASE Half = 0
    <2>1. qpc \notin {"recvDesc", "recvBuf"}
      BY <1>1 DEF Half
    <2>2. ASSUME NEW i \in 1 .. Len(s2c)
          PROVE  IF i % 2 = 1 THEN s2c[i].kind = "hdr" /\ s2c[i].len = 1
                 ELSE s2c[i].kind \in {"desc", "data"} /\ s2c[i].len = s2c[i-1].val
      <3>1. i \in Nat /\ i + Half = i
        BY <1>0, <1>1
      <3>2. /\ Odd(i) => s2c[i].kind = "hdr" /\ s2c[i].len = 1
            /\ ~Odd(i) => s2c[i].kind \in {"desc", "data"} /\ s2c[i].len = Announced(i)
        BY <3>1 DEF FrameInv
      <3>3. Odd(1)
        BY DEF Odd
      <3>4. ~Odd(i) => Announced(i) = s2c[i - 1].val
        BY <3>3 DEF Announced
      <3> QED
        BY <3>2, <3>4 DEF Odd
    <2> QED
      BY <2>1, <2>2 DEF ResponseFramed
  <1>2. CASE Half = 1
    <2>1. qpc \in {"recvDesc", "recvBuf"}
      BY <1>2 DEF Half
    <2> DEFINE s == <<Header(qlen)>> \o s2c
    <2>2. /\ Len(s) = Len(s2c) + 1 /\ s[1] = Header(qlen)
          /\ \A i \in 2 .. Len(s) : s[i] = s2c[i - 1]
      <3>1. Header(qlen) \in Seg
        BY DEF TypeOK, Header, Segment, Seg
      <3>2. <<Header(qlen)>> \in Seq(Seg) /\ Len(<<Header(qlen)>>) = 1
        BY <3>1
      <3>3. /\ Len(s) = 1 + Len(s2c)
            /\ \A i \in 1 .. Len(s) : s[i] = IF i <= 1 THEN <<Header(qlen)>>[i] ELSE s2c[i - 1]
        BY <1>0, <3>2, ConcatProperties
      <3> QED
        BY <1>0, <3>3
    <2>3. ASSUME NEW i \in 1 .. Len(s)
          PROVE  IF i % 2 = 1 THEN s[i].kind = "hdr" /\ s[i].len = 1
                 ELSE s[i].kind \in {"desc", "data"} /\ s[i].len = s[i-1].val
      <3>1. CASE i = 1
        <4>1. i % 2 = 1
          BY <3>1
        <4>2. s[i].kind = "hdr" /\ s[i].len = 1
          BY <2>2, <3>1 DEF Header, Segment
        <4> QED
          BY <4>1, <4>2
      <3>2. CASE i # 1
        <4>1. i \in 2 .. Len(s) /\ i - 1 \in 1 .. Len(s2c) /\ (i - 1) + Half = i /\ s[i] = s2c[i - 1]
          BY <1>0, <1>2, <2>2, <3>2
        <4> HIDE DEF s
        <4>2. /\ Odd(i) => s[i].kind = "hdr" /\ s[i].len = 1
              /\ ~Odd(i) => s[i].kind \in {"desc", "data"} /\ s[i].len = Announced(i - 1)
          BY <4>1 DEF FrameInv
        <4>3. Announced(i - 1) = s[i - 1].val
          <5>1. CASE i = 2
            <6>1. s[i - 1] = Header(qlen)
              BY <2>2, <5>1
            <6>2. Header(qlen).val = qlen
              BY DEF Header, Segment
            <6> QED
              BY <5>1, <6>1, <6>2 DEF Announced
          <5>2. CASE i # 2
            <6>1. i - 1 \in 2 .. Len(s) /\ (i - 1) - 1 = i - 2 /\ i - 1 # 1
              BY <1>0, <2>2, <4>1, <5>2
            <6>2. s[i - 1] = s2c[i - 2]
              BY <2>2, <6>1
            <6> QED
              BY <6>1, <6>2 DEF Announced
          <5> QED
            BY <5>1, <5>2
        <4> QED
          BY <4>2, <4>3 DEF Odd
      <3> QED
        BY <3>1, <3>2
    <2> QED
      BY <2>1, <2>3 DEF ResponseFramed
  <1> QED
    BY <1>1, <1>2 DEF Half

\* QEMU takes one more segment off the stream.
LEMMA FrameTake ==
    ASSUME TypeOK, FrameInv, s2c # <<>>, s2c' = Tail(s2c), UNCHANGED <<fs, link, fpc, mlen, dlen>>, fs,
           \/ Half = 0 /\ Half' = 1 /\ qlen' = s2c[1].val
           \/ Half = 1 /\ Half' = 0
    PROVE  FrameInv'
  <1>1. /\ s2c \in Seq(Seg) /\ Len(s2c) \in Nat /\ Len(s2c) > 0
        /\ Len(s2c') = Len(s2c) - 1
        /\ \A k \in 1 .. Len(s2c) - 1 : s2c'[k] = s2c[k + 1]
    <2>1. s2c \in Seq(Seg) /\ s2c # <<>>
      BY DEF TypeOK
    <2> QED
      BY <2>1, HeadTailProperties, EmptySeq
  <1>2. Half \in {0, 1} /\ Half' \in {0, 1}
    OBVIOUS
  <1>3. ASSUME NEW k \in Nat
        PROVE  Odd(k + Half') <=> Odd((k + 1) + Half)
    <2>1. CASE Half = 0
      <3>1. k + Half' = (k + 1) + Half
        BY <2>1
      <3> QED
        BY <3>1, <2>1
    <2>2. CASE Half = 1
      <3>1. k + Half' = k /\ (k + 1) + Half = (k + 1) + 1
        BY <2>2
      <3>2. Odd((k + 1) + 1) <=> Odd(k)
        <4>1. k + 1 \in Nat
          OBVIOUS
        <4>2. Odd((k + 1) + 1) <=> ~Odd(k + 1)
          BY <4>1, Parity
        <4>3. Odd(k + 1) <=> ~Odd(k)
          BY Parity
        <4> QED
          BY <4>2, <4>3
      <3> QED
        BY <3>1, <3>2, <2>2
    <2> QED
      BY <1>2, <2>1, <2>2
  <1>4. ASSUME NEW k \in 1 .. Len(s2c), Half' = 1 \/ k > 1
        PROVE  Announced(k)' = Announced(k + 1)
    <2>1. CASE k = 1
      <3>1. Half' = 1 /\ k + 1 # 1 /\ (k + 1) - 1 = 1
        BY <1>4, <2>1
      <3>2. qlen' = s2c[1].val
        BY <3>1, <1>2
      <3> QED
        BY <2>1, <3>1, <3>2 DEF Announced
    <2>2. CASE k # 1
      <3>1. k - 1 \in 1 .. Len(s2c) - 1 /\ (k - 1) + 1 = k /\ (k + 1) - 1 = k /\ k + 1 # 1
        BY <1>1, <2>2
      <3>2. s2c'[k - 1] = s2c[k]
        BY <1>1, <3>1
      <3> QED
        BY <2>2, <3>1, <3>2 DEF Announced
    <2> QED
      BY <2>1, <2>2
  <1>5. ASSUME NEW k \in 1 .. Len(s2c')
        PROVE  /\ Odd(k + Half') => s2c'[k].kind = "hdr" /\ s2c'[k].len = 1
               /\ ~Odd(k + Half') => /\ s2c'[k].kind \in {"desc", "data"}
                                     /\ s2c'[k].len = Announced(k)'
    <2>1. k \in Nat /\ k + 1 \in 1 .. Len(s2c) /\ k \in 1 .. Len(s2c) /\ s2c'[k] = s2c[k + 1]
      BY <1>1
    <2>2. /\ Odd((k + 1) + Half) => s2c[k + 1].kind = "hdr" /\ s2c[k + 1].len = 1
          /\ ~Odd((k + 1) + Half) => /\ s2c[k + 1].kind \in {"desc", "data"}
                                     /\ s2c[k + 1].len = Announced(k + 1)
      BY <2>1 DEF FrameInv
    <2>3. ~Odd(k + Half') => Half' = 1 \/ k > 1
      <3>1. Odd(1)
        BY DEF Odd
      <3>2. CASE Half' = 0 /\ k = 1
        BY <3>1, <3>2
      <3> QED
        BY <1>2, <2>1, <3>2
    <2> QED
      BY <1>3, <1>4, <2>1, <2>2, <2>3
  <1>6. Odd(Len(s2c') + Half') <=> Odd(Len(s2c) + Half)
    <2>1. Len(s2c') \in Nat /\ Len(s2c') + 1 = Len(s2c)
      BY <1>1
    <2> QED
      BY <1>3, <2>1
  <1>7. ASSUME link = "up", fpc \in {"sendDesc", "sendBuf"} PROVE Owed' = Owed
    <2>1. Odd(Len(s2c') + Half')
      BY <1>6, <1>7 DEF FrameInv
    <2>2. PICK n \in Nat : n = Len(s2c)
      BY <1>1
    <2>3. Len(s2c') + 1 = n /\ n \in 1 .. Len(s2c) /\ Len(s2c') \in Nat
      BY <1>1, <2>2
    <2>4. Half' = 1 \/ n > 1
      <3>1. CASE Half' = 0 /\ n = 1
        <4>1. Len(s2c') + Half' = 0
          BY <3>1, <2>3
        <4> QED
          BY <2>1, <4>1, Parity
      <3> QED
        BY <1>2, <2>3, <3>1
    <2>5. Announced(n)' = Announced(n + 1)
      BY <1>4, <2>3, <2>4
    <2>6. Owed' = Announced(n)'
      BY <2>3 DEF Owed
    <2> QED
      BY <2>2, <2>5, <2>6 DEF Owed
  <1> QED
    BY <1>5, <1>6, <1>7 DEF FrameInv

\* The firmware sends the next segment: a header between two messages, or the
\* payload its last header has announced.
LEMMA FramePut ==
    ASSUME TypeOK, FrameInv, link = "up", NEW x, x \in Seg, s2c' = Append(s2c, x),
           UNCHANGED <<fs, link, qpc, qlen, mlen, dlen>>,
           \/ /\ fpc \notin {"sendDesc", "sendBuf"} /\ x.kind = "hdr" /\ x.len = 1
              /\ \/ fpc' = "sendDesc" /\ x.val = mlen
                 \/ fpc' = "sendBuf" /\ x.val = dlen
           \/ /\ fpc \in {"sendDesc", "sendBuf"} /\ x.kind \in {"desc", "data"} /\ x.len = Owed
              /\ fpc' \notin {"sendDesc", "sendBuf"}
    PROVE  FrameInv'
  <1>1. /\ s2c \in Seq(Seg) /\ Len(s2c) \in Nat
        /\ Len(s2c') = Len(s2c) + 1 /\ s2c'[Len(s2c) + 1] = x
        /\ \A k \in 1 .. Len(s2c) : s2c'[k] = s2c[k]
    <2>1. s2c \in Seq(Seg)
      BY DEF TypeOK
    <2> QED
      BY <2>1, AppendProperties
  <1>2. Half' = Half /\ Half \in {0, 1} /\ fs /\ fs'
    BY DEF Half, FrameInv
  <1>3. PICK n \in Nat : n = Len(s2c) + 1
    BY <1>1
  <1>4. ASSUME NEW k \in 1 .. n PROVE Announced(k)' = Announced(k)
    <2>1. CASE k = 1
      BY <2>1 DEF Announced
    <2>2. CASE k # 1
      <3>1. k - 1 \in 1 .. Len(s2c)
        BY <1>1, <1>3, <2>2
      <3> QED
        BY <1>1, <2>2, <3>1 DEF Announced
    <2> QED
      BY <2>1, <2>2
  <1>5. /\ Odd(n + Half) <=> ~Odd(Len(s2c) + Half)
        /\ Len(s2c') = n /\ s2c'[n] = x /\ n \in 1 .. n
        /\ Odd(Len(s2c) + Half) <=> fpc \in {"sendDesc", "sendBuf"}
    <2>1. Len(s2c) + Half \in Nat /\ n + Half = (Len(s2c) + Half) + 1
      BY <1>1, <1>2, <1>3
    <2>2. Odd(n + Half) <=> ~Odd(Len(s2c) + Half)
      BY <2>1, Parity
    <2>3. Odd(Len(s2c) + Half) <=> fpc \in {"sendDesc", "sendBuf"}
      BY DEF FrameInv
    <2>4. Len(s2c') = n /\ s2c'[n] = x /\ n \in 1 .. n
      BY <1>1, <1>3
    <2> QED
      BY <2>2, <2>3, <2>4
  <1>6. ASSUME NEW k \in 1 .. Len(s2c')
        PROVE  /\ Odd(k + Half') => s2c'[k].kind = "hdr" /\ s2c'[k].len = 1
               /\ ~Odd(k + Half') => /\ s2c'[k].kind \in {"desc", "data"}
                                     /\ s2c'[k].len = Announced(k)'
    <2>1. CASE k = n
      <3>1. Announced(n)' = Owed
        BY <1>3, <1>4, <1>5 DEF Owed
      <3>2. /\ Odd(n + Half) => x.kind = "hdr" /\ x.len = 1
            /\ ~Odd(n + Half) => x.kind \in {"desc", "data"} /\ x.len = Owed
        BY <1>5
      <3> QED
        BY <1>2, <1>5, <2>1, <3>1, <3>2
    <2>2. CASE k # n
      <3>1. k \in 1 .. Len(s2c) /\ k \in 1 .. n
        BY <1>1, <1>3, <2>2
      <3>2. /\ Odd(k + Half) => s2c[k].kind = "hdr" /\ s2c[k].len = 1
            /\ ~Odd(k + Half) => s2c[k].kind \in {"desc", "data"} /\ s2c[k].len = Announced(k)
        BY <1>2, <3>1 DEF FrameInv
      <3> QED
        BY <1>1, <1>2, <1>4, <3>1, <3>2
    <2> QED
      BY <2>1, <2>2
  <1>7. Odd(Len(s2c') + Half') <=> fpc' \in {"sendDesc", "sendBuf"}
    BY <1>2, <1>5
  <1>8. Owed' = x.val
    <2>1. Owed' = Announced(n + 1)'
      BY <1>5 DEF Owed
    <2>2. n + 1 # 1 /\ (n + 1) - 1 = n
      BY <1>1, <1>3
    <2> QED
      BY <1>5, <2>1, <2>2 DEF Announced
  <1>9. /\ fpc' = "sendDesc" => Owed' = mlen'
        /\ fpc' = "sendBuf" => Owed' = dlen'
    BY <1>8
  <1> QED
    BY <1>2, <1>6, <1>7, <1>9 DEF FrameInv

\* A connection that breaks keeps whole segments.
LEMMA FrameBreaks ==
    ASSUME TypeOK, FrameInv, link' = "down", UNCHANGED <<fs, qpc, qlen>>,
           NEW n \in 0 .. Len(s2c), s2c' = Truncate(s2c, n)
    PROVE  FrameInv'
  <1>1. /\ Len(s2c) \in Nat /\ Len(s2c') = n /\ n \in Nat /\ n <= Len(s2c)
        /\ \A k \in 1 .. n : s2c'[k] = s2c[k]
    <2>1. s2c \in Seq(Seg) /\ Len(s2c) \in Nat /\ \A k \in 1 .. n : s2c[k] \in Seg
      BY DEF TypeOK
    <2> QED
      BY <2>1, SubSeqProperties DEF Truncate
  <1>2. Half' = Half
    BY DEF Half
  <1>3. ASSUME fs', NEW k \in 1 .. Len(s2c')
        PROVE  /\ Odd(k + Half') => s2c'[k].kind = "hdr" /\ s2c'[k].len = 1
               /\ ~Odd(k + Half') => /\ s2c'[k].kind \in {"desc", "data"}
                                     /\ s2c'[k].len = Announced(k)'
    <2>1. k \in 1 .. n /\ k \in 1 .. Len(s2c) /\ (k # 1 => k - 1 \in 1 .. n)
      BY <1>1
    <2>2. Announced(k)' = Announced(k)
      BY <1>1, <2>1 DEF Announced
    <2>3. /\ Odd(k + Half) => s2c[k].kind = "hdr" /\ s2c[k].len = 1
          /\ ~Odd(k + Half) => s2c[k].kind \in {"desc", "data"} /\ s2c[k].len = Announced(k)
      BY <1>3, <2>1 DEF FrameInv
    <2> QED
      BY <1>1, <1>2, <2>1, <2>2, <2>3
  <1> QED
    BY <1>3 DEF FrameInv

\* Steps that leave the answer's direction alone.
LEMMA FrameKeeps ==
    ASSUME FrameInv, UNCHANGED <<s2c, link, fs, qlen>>, Half' = Half,
           \/ link = "down"
           \/ UNCHANGED <<fpc, mlen, dlen>>
           \/ fpc \notin {"sendDesc", "sendBuf"} /\ fpc' \notin {"sendDesc", "sendBuf"}
    PROVE  FrameInv'
  <1>1. Owed' = Owed /\ \A k : Announced(k)' = Announced(k)
    BY DEF Owed, Announced
  <1> QED
    BY <1>1 DEF FrameInv

\* Every step keeps the framing, short reads of the firmware included.
LEMMA FrameStep ==
    ASSUME TypeOK, FrameInv, [Next]_vars
    PROVE  FrameInv'
  <1>1. ASSUME Fallback PROVE FrameInv'
    BY <1>1 DEF Fallback, FrameInv
  <1>2. CASE LocateExpires \/ LocateError \/ QemuSendError \/ QemuRecvError
    BY <1>1, <1>2 DEF LocateExpires, LocateError, QemuSendError, QemuRecvError
  <1>3. CASE Connect
    <2>1. /\ Len(s2c') = 0 /\ Half' = 0 /\ fs' /\ fpc' = "recvHdr"
      BY <1>3, EmptySeq DEF Connect, Half
    <2> QED
      BY <2>1, Parity DEF FrameInv
  <1>4. CASE QemuSendDesc \/ QemuSendBuf
    <2>1. /\ UNCHANGED <<s2c, link, fs, qlen, fvars>>
          /\ qpc \in QSending /\ qpc' \in QSending \cup {"recvHdr"}
      BY <1>4 DEF QemuSendDesc, QemuSendBuf, QemuSend, QSending
    <2>2. Half' = Half /\ UNCHANGED <<s2c, link, fs, qlen, fpc, mlen, dlen>>
      BY <2>1 DEF Half, QSending, fvars
    <2> QED
      BY <2>2, FrameKeeps
  <1>5. CASE QemuRecvHeader
    <2>1. /\ s2c # <<>> /\ s2c' = Tail(s2c) /\ qlen' = Head(s2c).val
          /\ UNCHANGED <<fs, link, fpc, mlen, dlen>>
          /\ qpc \in {"recvHdr", "recvBufHdr"} /\ qpc' \in {"recvDesc", "recvBuf"}
      BY <1>5 DEF QemuRecvHeader, QemuRecvHdr, fvars
    <2>2. Half = 0 /\ Half' = 1
      BY <2>1 DEF Half
    <2>3. Head(s2c) = s2c[1]
      BY <2>1, HeadTailProperties DEF TypeOK
    <2>4. CASE fs
      BY <2>1, <2>2, <2>3, <2>4, FrameTake
    <2>5. CASE ~fs
      BY <2>1, <2>5 DEF FrameInv
    <2> QED
      BY <2>4, <2>5
  <1>6. CASE QemuRecvDesc \/ QemuRecvBuf
    <2>1. /\ s2c # <<>> /\ s2c' = Tail(s2c) /\ UNCHANGED <<fs, link, fpc, mlen, dlen>>
          /\ qpc \in {"recvDesc", "recvBuf"} /\ qpc' \in {"recvBufHdr", "idle"}
      BY <1>6 DEF QemuRecvDesc, QemuRecvBuf, Complete, fvars
    <2>2. Half = 1 /\ Half' = 0
      BY <2>1 DEF Half
    <2>3. CASE fs
      BY <2>1, <2>2, <2>3, FrameTake
    <2>4. CASE ~fs
      BY <2>1, <2>4 DEF FrameInv
    <2> QED
      BY <2>3, <2>4
  <1>7. ASSUME UNCHANGED <<s2c, link, qvars>>,
               fpc \notin {"sendDesc", "sendBuf"}, fpc' \notin {"sendDesc", "sendBuf"}
        PROVE  FrameInv'
    <2>1. UNCHANGED <<s2c, link, fs, qlen>> /\ Half' = Half
      BY <1>7 DEF qvars, Half
    <2> QED
      BY <1>7, <2>1, FrameKeeps
  <1>8. CASE FwRecvHeader \/ FwMisread \/ FwRecvDesc \/ FwRecvBuf
    <2>1. /\ UNCHANGED <<s2c, link, qvars>>
          /\ fpc \notin {"sendDesc", "sendBuf"} /\ fpc' \notin {"sendDesc", "sendBuf"}
      BY <1>8 DEF FwRecvHeader, FwRecvHdr, FwMisread, FwRecvDesc, FwRecvBuf, fvars
    <2> QED
      BY <1>7, <2>1
  <1>9. CASE FwDescError \/ FwBufError \/ FwSwitchStep \/ FwRestart
    <2>1. /\ UNCHANGED <<s2c, link, qvars>>
          /\ fpc \notin {"sendDesc", "sendBuf"} /\ fpc' \notin {"sendDesc", "sendBuf"}
      BY <1>9 DEF FwDescError, FwBufError, FwSwitchStep, FwRestart
    <2> QED
      BY <1>7, <2>1
  <1>10. ASSUME NEW pc, NEW x \in Seg, NEW next, FwSend(pc, x, next),
                \/ /\ pc = "sendHdr" /\ x = Header(mlen) /\ next = "sendDesc"
                \/ /\ pc = "sendBufHdr" /\ x = Header(dlen) /\ next = "sendBuf"
                \/ /\ pc \in {"sendDesc", "sendBuf"} /\ next \notin {"sendDesc", "sendBuf"}
                   /\ x.kind \in {"desc", "data"}
                   /\ x.len = IF pc = "sendDesc" THEN mlen ELSE dlen
         PROVE  FrameInv'
    <2>1. fpc = pc /\ fpc' = next /\ UNCHANGED <<fs, link, qpc, qlen, mlen, dlen>>
      BY <1>10 DEF FwSend, qvars
    <2>2. CASE link = "up"
      <3>1. s2c' = Append(s2c, x)
        BY <1>10, <2>2 DEF FwSend
      <3>2. CASE pc \in {"sendHdr", "sendBufHdr"}
        <4>1. /\ x.kind = "hdr" /\ x.len = 1
              /\ \/ fpc' = "sendDesc" /\ x.val = mlen
                 \/ fpc' = "sendBuf" /\ x.val = dlen
          BY <1>10, <2>1, <3>2 DEF Header, Segment
        <4>2. fpc \notin {"sendDesc", "sendBuf"}
          BY <2>1, <3>2
        <4> QED
          BY <2>1, <2>2, <3>1, <4>1, <4>2, FramePut
      <3>3. CASE pc \in {"sendDesc", "sendBuf"}
        <4>1. x.kind \in {"desc", "data"} /\ x.len = Owed /\ fpc' \notin {"sendDesc", "sendBuf"}
          BY <1>10, <2>1, <2>2, <3>3 DEF FrameInv
        <4> QED
          BY <2>1, <2>2, <3>1, <3>3, <4>1, FramePut
      <3> QED
        BY <1>10, <3>2, <3>3
    <2>3. CASE link # "up"
      <3>1. link = "down" /\ s2c' = s2c
        BY <1>10, <2>3 DEF FwSend, TypeOK
      <3>2. Half' = Half
        BY <2>1 DEF Half
      <3> QED
        BY <2>1, <3>1, <3>2, FrameKeeps
    <2> QED
      BY <2>2, <2>3
  <1>11. CASE FwSendDesc
    <2>1. Header(mlen) \in Seg
      BY SegTypes DEF TypeOK
    <2>2. /\ FwAnswer \in Seg /\ FwAnswer.kind \in {"desc", "data"} /\ FwAnswer.len = mlen
      <3>1. mlen \in Nat /\ fdesc \in Desc /\ Garbled \in Data \cup {Garbled}
        BY DEF TypeOK
      <3>2. CASE mlen = DescSize
        BY <3>1, <3>2, SegTypes DEF FwAnswer, DescSeg, Segment
      <3>3. CASE mlen # DescSize
        BY <3>1, <3>3, SegTypes DEF FwAnswer, DataSeg, Segment
      <3> QED
        BY <3>2, <3>3
    <2> QED
      BY <1>10, <1>11, <2>1, <2>2 DEF FwSendDesc
  <1>12. CASE FwSendBuf
    <2>1. Header(dlen) \in Seg
      BY SegTypes DEF TypeOK
    <2>2. DataSeg(dlen, fbuf) \in Seg /\ DataSeg(dlen, fbuf).kind = "data" /\ DataSeg(dlen, fbuf).len = dlen
      BY SegTypes DEF TypeOK, DataSeg, Segment
    <2> QED
      BY <1>10, <1>12, <2>1, <2>2 DEF FwSendBuf
  <1>13. CASE FwSendError
    <2>1. link = "down" /\ UNCHANGED <<s2c, link, fs, qlen>> /\ Half' = Half
      BY <1>13 DEF FwSendError, qvars, Half
    <2> QED
      BY <2>1, FrameKeeps
  <1>14. CASE Break \/ FwCrash
    <2>1. /\ link' = "down" /\ UNCHANGED <<fs, qpc, qlen>>
          /\ \E n \in 0 .. Len(s2c) : s2c' = Truncate(s2c, n)
      BY <1>14 DEF Break, FwCrash, qvars
    <2> QED
      BY <2>1, FrameBreaks
  <1>15. ASSUME NEW c \in Commands, NEW v \in Data, Post(c, v) PROVE FrameInv'
    <2>1. UNCHANGED <<s2c, link, fs, qlen, fpc, mlen, dlen>> /\ Half' = Half
      BY <1>15 DEF Post, fvars, Half
    <2> QED
      BY <2>1, FrameKeeps
  <1>16. CASE UNCHANGED vars
    <2>1. UNCHANGED <<s2c, link, fs, qlen, fpc, mlen, dlen>> /\ Half' = Half
      BY <1>16 DEF vars, qvars, fvars, Half
    <2> QED
      BY <2>1, FrameKeeps
  <1>17. CASE QemuNext
    BY <1>2, <1>3, <1>4, <1>5, <1>6, <1>17 DEF QemuNext
  <1>18. CASE FwNext
    BY <1>8, <1>9, <1>11, <1>12, <1>13, <1>18 DEF FwNext
  <1>19. CASE Env
    BY <1>2, <1>9, <1>14, <1>15, <1>19 DEF Env
  <1> QED
    BY <1>16, <1>17, <1>18, <1>19 DEF Next

\* Whatever commands the driver posts, however the firmware's recv() cuts up
\* what QEMU sends and however often the connection breaks, recvdata in
\* e1000_send_aq_cmd finds a header where it expects one and a payload of the
\* announced length after it.
THEOREM ResponseFramedHolds == Spec => []ResponseFramed
  <1>1. Init => FrameInv
    <2>1. Init => Len(s2c) = 0 /\ link = "down" /\ ~fs
      BY EmptySeq DEF Init
    <2> QED
      BY <2>1 DEF FrameInv
  <1> QED
    BY <1>1, FrameStep, FrameFramed, ChannelTypes, PTL DEF Spec

-----------------------------------------------------------------------------
(* The protocol, when recv() delivers whole segments *)

\* A message has four segments of known kinds.
LEMMA MsgSegments ==
    ASSUME NEW d \in Desc, NEW v \in Data \cup {Garbled}
    PROVE  /\ Msg(d, v) \in Seq(Seg) /\ Len(Msg(d, v)) = 4
           /\ Msg(d, v)[1] = Header(DescSize)
           /\ Msg(d, v)[2] = DescSeg(d)
           /\ Msg(d, v)[3] = Header(d.datalen)
           /\ Msg(d, v)[4] = DataSeg(d.datalen, v)
  <1>1. /\ Header(DescSize) \in Seg /\ DescSeg(d) \in Seg
        /\ Header(d.datalen) \in Seg /\ DataSeg(d.datalen, v) \in Seg
    BY SegTypes DEF Desc, DescSize
  <1> QED
    BY <1>1 DEF Msg

\* The chunk lemmas for the positions of a message m.
ChunkFacts(m) ==
    /\ \A j \in 0 .. 4 : Chunk(m, j, j) = <<>>
    /\ \A j, k, l \in 0 .. 4 : j <= k /\ k < l /\ l <= k + 1 =>
          Append(Chunk(m, j, k), m[l]) = Chunk(m, j, l)
    /\ \A j, k, l \in 0 .. 4 : j < l /\ l <= j + 1 /\ l <= k =>
          /\ Chunk(m, j, k) # <<>>
          /\ Head(Chunk(m, j, k)) = m[l]
          /\ Tail(Chunk(m, j, k)) = Chunk(m, l, k)
    /\ \A j, k, l \in 0 .. 4 : j <= l /\ l <= k =>
          Truncate(Chunk(m, j, k), l - j) = Chunk(m, j, l)
    /\ \A j, k \in 0 .. 4 : j <= k => Len(Chunk(m, j, k)) = k - j

\* They hold of every message.
LEMMA MsgChunks ==
    ASSUME NEW d \in Desc, NEW v \in Data \cup {Garbled}
    PROVE  ChunkFacts(Msg(d, v))
  <1> DEFINE m == Msg(d, v)
  <1>1. m \in Seq(Seg) /\ Len(m) = 4
    BY MsgSegments
  <1> HIDE DEF m
  <1>2. \A j \in 0 .. 4 : Chunk(m, j, j) = <<>>
    BY ChunkEmpty
  <1>3. \A j, k, l \in 0 .. 4 : j <= k /\ k < l /\ l <= k + 1 =>
                 Append(Chunk(m, j, k), m[l]) = Chunk(m, j, l)
    <2> TAKE j, k, l \in 0 .. 4
    <2> HAVE j <= k /\ k < l /\ l <= k + 1
    <2>1. j \in Nat /\ k \in Nat /\ l \in Nat /\ l <= Len(m)
      BY <1>1
    <2>2. m \in Seq(Seg)
      BY <1>1
    <2> QED
      BY <2>1, <2>2, ChunkAppend
  <1>4. \A j, k, l \in 0 .. 4 : j < l /\ l <= j + 1 /\ l <= k =>
                 /\ Chunk(m, j, k) # <<>>
                 /\ Head(Chunk(m, j, k)) = m[l]
                 /\ Tail(Chunk(m, j, k)) = Chunk(m, l, k)
    <2> TAKE j, k, l \in 0 .. 4
    <2> HAVE j < l /\ l <= j + 1 /\ l <= k
    <2>1. j \in Nat /\ k \in Nat /\ l \in Nat /\ k <= Len(m)
      BY <1>1
    <2>2. m \in Seq(Seg)
      BY <1>1
    <2> QED
      BY <2>1, <2>2, ChunkHead
  <1>5. \A j, k, l \in 0 .. 4 : j <= l /\ l <= k =>
                 Truncate(Chunk(m, j, k), l - j) = Chunk(m, j, l)
    <2> TAKE j, k, l \in 0 .. 4
    <2> HAVE j <= l /\ l <= k
    <2>1. j \in Nat /\ k \in Nat /\ l \in Nat /\ k <= Len(m)
      BY <1>1
    <2>2. m \in Seq(Seg)
      BY <1>1
    <2> QED
      BY <2>1, <2>2, ChunkPrefix
  <1>6. \A j, k \in 0 .. 4 : j <= k => Len(Chunk(m, j, k)) = k - j
    <2> TAKE j, k \in 0 .. 4
    <2> HAVE j <= k
    <2>1. j \in Nat /\ k \in Nat /\ k <= Len(m)
      BY <1>1
    <2>2. m \in Seq(Seg)
      BY <1>1
    <2> QED
      BY <2>1, <2>2, ChunkType
  <1>7. ChunkFacts(m)
    BY <1>2, <1>3, <1>4, <1>5, <1>6 DEF ChunkFacts
  <1> QED
    BY <1>7 DEF m

\* Executing a command in the firmware keeps its buffer and its identity.
LEMMA FwExecKeeps ==
    ASSUME NEW d \in Desc
    PROVE  /\ FwExec(d) \in Desc
           /\ FwExec(d).datalen = d.datalen
           /\ FwExec(d).addr = d.addr
           /\ FwExec(d).opcode = d.opcode
  BY DEF Desc, FwExec, FwSwitch, GetVersion, RC_ENOSYS

\* The request in flight.
LEMMA RequestFacts ==
    ASSUME TypeOK
    PROVE  /\ ChunkFacts(Request)
           /\ Request[1] = Header(DescSize) /\ Request[2] = DescSeg(slot)
           /\ Request[3] = Header(slot.datalen)
           /\ Request[4] = DataSeg(slot.datalen, buf)
  <1>1. slot \in Desc /\ buf \in Data \cup {Garbled}
    BY DEF TypeOK
  <1> QED
    BY <1>1, MsgChunks, MsgSegments DEF Request

\* The answer in flight.
LEMMA AnswerFacts ==
    ASSUME TypeOK
    PROVE  /\ ChunkFacts(Answer)
           /\ Answer[1] = Header(DescSize) /\ Answer[2] = DescSeg(FwExec(slot))
           /\ Answer[3] = Header(slot.datalen)
           /\ Answer[4] = DataSeg(slot.datalen, buf)
  <1>1. slot \in Desc /\ buf \in Data \cup {Garbled}
    BY DEF TypeOK
  <1>2. FwExec(slot) \in Desc /\ FwExec(slot).datalen = slot.datalen
    BY <1>1, FwExecKeeps
  <1>3. /\ Answer[1] = Header(DescSize) /\ Answer[2] = DescSeg(FwExec(slot))
        /\ Answer[3] = Header(FwExec(slot).datalen)
        /\ Answer[4] = DataSeg(FwExec(slot).datalen, buf)
    BY <1>1, <1>2, MsgSegments DEF Answer
  <1>4. ChunkFacts(Answer)
    BY <1>1, <1>2, MsgChunks DEF Answer
  <1> QED
    BY <1>2, <1>3, <1>4

\* While the connection is up, where the firmware stands tells how much of the
\* answer has been sent.
LEMMA UpAnswer == TypeOK /\ QemuInv /\ LinkInv /\ (link = "up") => AnswerInv
  <1> SUFFICES ASSUME TypeOK, QemuInv, LinkInv, link = "up"
               PROVE  AnswerInv
    OBVIOUS
  <1>1. CASE Reading
    <2>1. QTaken = 0 /\ Whole \in {2, 4} /\ s2c = Chunk(Answer, 0, 0)
      BY <1>1, ChunkEmpty DEF Reading, QTaken, Whole, QSending
    <2> QED
      BY <2>1 DEF AnswerInv
  <1>2. CASE Answering
    <2>1. FSent \in QTaken .. Whole
      BY <1>2 DEF Answering, FSent, QTaken, Whole, FSending, QReceiving, TypeOK, Desc
    <2> QED
      BY <1>2, <2>1 DEF AnswerInv, Answering
  <1>3. CASE Answered
    <2>1. PICK m \in {2, Whole} : QTaken <= m /\ s2c = Chunk(Answer, QTaken, m)
      BY <1>3 DEF Answered
    <2>2. m \in QTaken .. Whole
      BY <1>3, <2>1 DEF Answered, QTaken, Whole
    <2> QED
      BY <1>3, <2>1, <2>2 DEF AnswerInv, Answered
  <1> QED
    BY <1>1, <1>2, <1>3 DEF LinkInv

\* The protocol invariant holds initially.
LEMMA InvInit == Init => ChannelInv
  BY DEF Init, ChannelInv, QemuInv, AnswerInv, LinkInv

\* Giving the socket up leaves nothing in flight to be mistaken.
LEMMA InvFallback ==
    ASSUME TypeOK, ChannelInv, Fallback
    PROVE  ChannelInv'
  BY DEF Fallback, ChannelInv, QemuInv, AnswerInv, LinkInv

\* A new command starts with both directions empty.
LEMMA InvPost ==
    ASSUME TypeOK, ChannelInv, NEW c \in Commands, NEW v \in Data, Post(c, v)
    PROVE  ChannelInv'
  <1>1. QemuInv'
    BY DEF Post, ChannelInv, QemuInv
  <1>2. ASSUME fs PROVE s2c = <<>>
    <2>1. s2c = Chunk(Answer, 0, 0)
      BY <1>2 DEF Post, ChannelInv, AnswerInv, QTaken, QReceiving
    <2> QED
      BY <2>1, ChunkEmpty
  <1>3. AnswerInv'
    <2>1. QTaken' = 0 /\ Whole' \in {2, 4} /\ Chunk(Answer', 0, 0) = <<>>
      BY ChunkEmpty DEF Post, QTaken, Whole
    <2> QED
      BY <1>2, <2>1 DEF AnswerInv, Post
  <1>4. LinkInv'
    <2> SUFFICES ASSUME link' = "up" PROVE (fs /\ Reading)'
      BY DEF LinkInv
    <2>1. fs /\ Reading
      BY DEF Post, ChannelInv, LinkInv, Answering, Answered, QReceiving
    <2>2. FTaken = 0 /\ fpc = "recvHdr"
      BY <2>1 DEF Post, Reading, FTaken, QSent, FReceiving
    <2>3. c2s = <<>>
      BY <2>1, <2>2, ChunkEmpty DEF Post, Reading, QSent
    <2>4. QSent' = 0 /\ FTaken' = 0 /\ Chunk(Request', 0, 0) = <<>> /\ qpc' = "sendHdr"
      BY <2>1, <2>2, ChunkEmpty DEF Post, QSent, FTaken, fvars
    <2> QED
      BY <2>1, <2>2, <2>3, <2>4 DEF Post, Reading, fvars, QSending, FReceiving
  <1> QED
    BY <1>1, <1>3, <1>4 DEF ChannelInv

\* A new connection starts with both directions empty.
LEMMA InvConnect ==
    ASSUME TypeOK, ChannelInv, Connect
    PROVE  ChannelInv'
  <1>1. QSent' = 0 /\ FTaken' = 0 /\ QTaken' = 0 /\ Whole' \in {2, 4}
        /\ Chunk(Request', 0, 0) = <<>> /\ Chunk(Answer', 0, 0) = <<>>
    BY ChunkEmpty DEF Connect, QSent, FTaken, QTaken, Whole
  <1>2. QemuInv'
    BY DEF Connect, ChannelInv, QemuInv
  <1>3. AnswerInv'
    BY <1>1 DEF AnswerInv, Connect
  <1>4. Reading'
    BY <1>1 DEF Reading, Connect, QSending, FReceiving
  <1> QED
    BY <1>2, <1>3, <1>4 DEF ChannelInv, LinkInv, Connect

\* Each send() of QEMU puts the next segment of the request in flight.
LEMMA InvQemuSend ==
    ASSUME TypeOK, ChannelInv, QemuSendDesc \/ QemuSendBuf
    PROVE  ChannelInv'
  <1>1. /\ qpc \in QSending /\ qpc' \in QSending \cup {"recvHdr"}
        /\ UNCHANGED <<slot, buf, rdesc, qlen, fs, link, s2c, fvars>>
    BY DEF QemuSendDesc, QemuSendBuf, QemuSend, QSending
  <1>2. fs /\ (qpc \in {"sendBufHdr", "sendBuf"} => slot.datalen > 0)
    BY <1>1 DEF ChannelInv, QemuInv, QSending
  <1>3. /\ QSent \in 0 .. 3 /\ QSent' \in 0 .. 4
        /\ QSent < QSent' /\ QSent' <= QSent + 1
        /\ c2s' = IF link = "up" THEN Append(c2s, Request[QSent']) ELSE c2s
    <2>1. Whole' = Whole /\ (Whole = IF slot.datalen > 0 THEN 4 ELSE 2)
      BY <1>1 DEF Whole
    <2>2. CASE QemuSend("sendHdr", Header(DescSize), "sendDesc")
      BY <2>2, RequestFacts DEF QemuSend, QSent
    <2>3. CASE QemuSend("sendDesc", DescSeg(slot),
                        IF slot.datalen > 0 THEN "sendBufHdr" ELSE "recvHdr")
      BY <2>1, <2>3, RequestFacts DEF QemuSend, QSent
    <2>4. CASE QemuSend("sendBufHdr", Header(slot.datalen), "sendBuf")
      BY <2>4, RequestFacts DEF QemuSend, QSent
    <2>5. CASE QemuSend("sendBuf", DataSeg(slot.datalen, buf), "recvHdr")
      <3>1. qpc = "sendBuf" /\ qpc' = "recvHdr" /\ Whole' = 4
        BY <1>2, <2>1, <2>5 DEF QemuSend
      <3> QED
        BY <2>5, <3>1, RequestFacts DEF QemuSend, QSent
    <2> QED
      BY <2>2, <2>3, <2>4, <2>5 DEF QemuSendDesc, QemuSendBuf
  <1>4. QemuInv'
    <2>1. qpc' = "sendBufHdr" \/ qpc' = "sendBuf" => slot.datalen > 0
      BY DEF QemuSendDesc, QemuSendBuf, QemuSend, ChannelInv, QemuInv
    <2> QED
      BY <1>1, <1>2, <2>1 DEF ChannelInv, QemuInv, QSending
  <1>5. CASE link = "down"
    <2>1. s2c = Chunk(Answer, 0, 0)
      BY <1>1, <1>2 DEF ChannelInv, AnswerInv, QTaken, QSending, QReceiving
    <2>2. QTaken' = 0 /\ Whole' \in {2, 4} /\ Answer' = Answer
      BY <1>1 DEF QTaken, Whole, QSending, Answer
    <2>3. AnswerInv'
      BY <1>1, <2>1, <2>2 DEF AnswerInv
    <2> QED
      BY <1>1, <1>4, <1>5, <2>3 DEF ChannelInv, LinkInv
  <1>6. CASE link = "up"
    <2>1. Reading
      BY <1>1, <1>6 DEF ChannelInv, LinkInv, Answering, Answered, QSending, QReceiving
    <2>2. FTaken \in 0 .. 4 /\ FTaken' = FTaken /\ Request' = Request
      BY <1>1 DEF FTaken, fvars, Request
    <2>3. c2s' = Chunk(Request', FTaken', QSent')
      <3>1. c2s' = Append(Chunk(Request, FTaken, QSent), Request[QSent'])
        BY <1>3, <1>6, <2>1 DEF Reading
      <3>2. FTaken <= QSent
        BY <2>1 DEF Reading
      <3>3. \A j, k, l \in 0 .. 4 : j <= k /\ k < l /\ l <= k + 1 =>
               Append(Chunk(Request, j, k), Request[l]) = Chunk(Request, j, l)
        BY RequestFacts DEF ChunkFacts
      <3>4. QSent \in 0 .. 4
        BY <1>3
      <3> QED
        BY <1>3, <2>2, <3>1, <3>2, <3>3, <3>4
    <2>4. Reading'
      BY <1>1, <1>3, <2>1, <2>2, <2>3 DEF Reading, fvars
    <2>5. LinkInv'
      BY <1>1, <1>2, <2>4 DEF LinkInv
    <2>6. TypeOK'
      BY TypeQemu DEF QemuNext
    <2>7. AnswerInv'
      <3>1. QTaken' = 0 /\ Whole' \in {2, 4}
        BY <1>1 DEF QTaken, Whole, QSending
      <3>2. s2c' = Chunk(Answer', 0, 0)
        BY <2>4, ChunkEmpty DEF Reading
      <3> QED
        BY <3>1, <3>2 DEF AnswerInv
    <2> QED
      BY <1>4, <2>5, <2>7 DEF ChannelInv
  <1> QED
    BY <1>5, <1>6 DEF TypeOK

\* Taking one segment off the answer in flight.
LEMMA AnswerTail ==
    ASSUME TypeOK, s2c # <<>>, NEW l \in 0 .. 4, QTaken < l, l <= QTaken + 1
    PROVE  \A k \in 0 .. 4 : QTaken <= k /\ s2c = Chunk(Answer, QTaken, k) =>
              /\ l <= k
              /\ Head(s2c) = Answer[l]
              /\ Tail(s2c) = Chunk(Answer, l, k)
  <1> TAKE k \in 0 .. 4
  <1> HAVE QTaken <= k /\ s2c = Chunk(Answer, QTaken, k)
  <1>0. QTaken \in 0 .. 4
    BY DEF QTaken
  <1>1. QTaken # k
    <2>1. \A j \in 0 .. 4 : Chunk(Answer, j, j) = <<>>
      BY AnswerFacts DEF ChunkFacts
    <2> QED
      BY <1>0, <2>1
  <1>2. l <= k
    BY <1>0, <1>1
  <1>3. \A x, y, z \in 0 .. 4 : x < z /\ z <= x + 1 /\ z <= y =>
           /\ Chunk(Answer, x, y) # <<>>
           /\ Head(Chunk(Answer, x, y)) = Answer[z]
           /\ Tail(Chunk(Answer, x, y)) = Chunk(Answer, z, y)
    BY AnswerFacts DEF ChunkFacts
  <1>4. /\ Head(Chunk(Answer, QTaken, k)) = Answer[l]
        /\ Tail(Chunk(Answer, QTaken, k)) = Chunk(Answer, l, k)
    BY <1>0, <1>2, <1>3
  <1> QED
    BY <1>2, <1>4

\* What QEMU finds at the head of its socket is the next segment of the answer.
LEMMA NextAnswer ==
    ASSUME TypeOK, ChannelInv, qpc \in QReceiving, s2c # <<>>,
           NEW l \in 0 .. 4, QTaken < l, l <= QTaken + 1
    PROVE  /\ fs
           /\ Head(s2c) = Answer[l]
           /\ \E m \in l .. Whole : Tail(s2c) = Chunk(Answer, l, m)
           /\ link = "up" =>
                \/ Answering /\ l <= FSent /\ Tail(s2c) = Chunk(Answer, l, FSent)
                \/ Answered /\ \E m \in {2, Whole} : l <= m /\ Tail(s2c) = Chunk(Answer, l, m)
  <1>1. fs
    BY DEF ChannelInv, QemuInv, QReceiving
  <1>2. /\ QTaken \in 0 .. 4 /\ Whole \in 0 .. 4 /\ FSent \in 0 .. 4
        /\ Whole \in {2, 4}
    BY DEF QTaken, Whole, FSent
  <1>3. \A k \in 0 .. 4 : QTaken <= k /\ s2c = Chunk(Answer, QTaken, k) =>
           /\ l <= k
           /\ Head(s2c) = Answer[l]
           /\ Tail(s2c) = Chunk(Answer, l, k)
    BY AnswerTail
  <1>4. PICK m \in QTaken .. Whole : s2c = Chunk(Answer, QTaken, m)
    BY <1>1 DEF ChannelInv, AnswerInv
  <1>5. m \in 0 .. 4 /\ QTaken <= m /\ m <= Whole
    BY <1>2, <1>4
  <1>6. l <= m /\ Head(s2c) = Answer[l] /\ Tail(s2c) = Chunk(Answer, l, m)
    BY <1>3, <1>4, <1>5
  <1>7. m \in l .. Whole
    BY <1>2, <1>5, <1>6
  <1>8. ASSUME link = "up"
        PROVE  \/ Answering /\ l <= FSent /\ Tail(s2c) = Chunk(Answer, l, FSent)
               \/ Answered /\ \E k \in {2, Whole} : l <= k /\ Tail(s2c) = Chunk(Answer, l, k)
    <2>1. Answering \/ Answered
      BY <1>8 DEF ChannelInv, LinkInv, Reading
    <2>2. CASE Answering
      <3>1. QTaken <= FSent /\ s2c = Chunk(Answer, QTaken, FSent)
        BY <2>2 DEF Answering
      <3> QED
        BY <1>2, <1>3, <2>2, <3>1
    <2>3. CASE Answered
      <3>1. PICK k \in {2, Whole} : QTaken <= k /\ s2c = Chunk(Answer, QTaken, k)
        BY <2>3 DEF Answered
      <3>2. k \in 0 .. 4
        BY <1>2
      <3>3. l <= k /\ Tail(s2c) = Chunk(Answer, l, k)
        BY <1>3, <3>1, <3>2
      <3> QED
        BY <2>3, <3>3
    <2> QED
      BY <2>1, <2>2, <2>3
  <1> QED
    BY <1>1, <1>6, <1>7, <1>8

\* A successful read that leaves the command unfinished moves QEMU one segment
\* on in the answer.
LEMMA InvQemuAdvance ==
    ASSUME TypeOK, ChannelInv, qpc \in QReceiving, s2c # <<>>,
           NEW l \in 0 .. 4, QTaken < l, l <= QTaken + 1,
           s2c' = Tail(s2c), UNCHANGED <<slot, buf, fs, link, c2s, fvars>>,
           qpc' \in QReceiving, QTaken' = l, QemuInv'
    PROVE  ChannelInv'
  <1>1. /\ fs
        /\ \E m \in l .. Whole : Tail(s2c) = Chunk(Answer, l, m)
        /\ link = "up" =>
             \/ Answering /\ l <= FSent /\ Tail(s2c) = Chunk(Answer, l, FSent)
             \/ Answered /\ \E m \in {2, Whole} : l <= m /\ Tail(s2c) = Chunk(Answer, l, m)
    BY NextAnswer
  <1>2. Whole' = Whole /\ Answer' = Answer /\ FSent' = FSent
    BY DEF Whole, Answer, FSent, fvars
  <1>3. AnswerInv'
    BY <1>1, <1>2 DEF AnswerInv
  <1>4. ASSUME Answering, l <= FSent, Tail(s2c) = Chunk(Answer, l, FSent)
        PROVE  Answering'
    BY <1>2, <1>4 DEF Answering, fvars
  <1>5. ASSUME Answered, \E m \in {2, Whole} : l <= m /\ Tail(s2c) = Chunk(Answer, l, m)
        PROVE  Answered'
    BY <1>2, <1>5 DEF Answered, fvars
  <1>6. LinkInv'
    BY <1>1, <1>4, <1>5 DEF LinkInv
  <1> QED
    BY <1>3, <1>6 DEF ChannelInv

\* A command that succeeds leaves both directions empty.
LEMMA InvComplete ==
    ASSUME TypeOK, fs, UNCHANGED <<fs, link, c2s, fvars>>,
           qpc' = "idle", s2c' = <<>>,
           link = "up" => fpc = "recvHdr" /\ c2s = <<>>
    PROVE  ChannelInv'
  <1>1. QSent' = 0 /\ QTaken' = 0 /\ Whole' \in {2, 4}
        /\ Chunk(Request', 0, 0) = <<>> /\ Chunk(Answer', 0, 0) = <<>>
    BY ChunkEmpty DEF QSent, QTaken, Whole
  <1>2. QemuInv' /\ AnswerInv'
    BY <1>1 DEF QemuInv, AnswerInv
  <1>3. ASSUME link = "up" PROVE Reading'
    <2>1. FTaken' = 0 /\ fpc' = "recvHdr"
      BY <1>3 DEF FTaken, fvars
    <2> QED
      BY <1>1, <1>3, <2>1 DEF Reading, FReceiving
  <1> QED
    BY <1>2, <1>3 DEF ChannelInv, LinkInv

\* Each successful read of QEMU preserves the invariant.
LEMMA InvQemuRecv ==
    ASSUME TypeOK, ChannelInv, QemuRecvHeader \/ QemuRecvDesc \/ QemuRecvBuf
    PROVE  ChannelInv'
  <1> USE DEF QReceiving
  <1>0. QemuInv /\ slot \in Desc
    BY DEF ChannelInv, TypeOK
  <1>1. CASE QemuRecvHdr("recvHdr", DescSize, "recvDesc")
    <2>1. /\ qpc = "recvHdr" /\ s2c # <<>> /\ qpc' = "recvDesc"
          /\ s2c' = Tail(s2c) /\ qlen' = Head(s2c).val
          /\ UNCHANGED <<slot, buf, rdesc, fs, link, c2s, fvars>>
      BY <1>1 DEF QemuRecvHdr
    <2>2. QTaken = 0 /\ QTaken' = 1
      BY <2>1 DEF QTaken
    <2>3. fs /\ Head(s2c) = Answer[1]
      BY <2>1, <2>2, NextAnswer
    <2>4. qlen' = DescSize
      BY <2>1, <2>3, AnswerFacts DEF Header, Segment
    <2>5. QemuInv'
      BY <1>0, <2>1, <2>3, <2>4 DEF QemuInv
    <2> QED
      BY <2>1, <2>2, <2>5, InvQemuAdvance
  <1>2. CASE QemuRecvHdr("recvBufHdr", rdesc.datalen, "recvBuf")
    <2>1. /\ qpc = "recvBufHdr" /\ s2c # <<>> /\ qpc' = "recvBuf"
          /\ s2c' = Tail(s2c) /\ qlen' = Head(s2c).val
          /\ UNCHANGED <<slot, buf, rdesc, fs, link, c2s, fvars>>
      BY <1>2 DEF QemuRecvHdr
    <2>2. QTaken = 2 /\ QTaken' = 3
      BY <2>1 DEF QTaken
    <2>3. fs /\ Head(s2c) = Answer[3]
      BY <2>1, <2>2, NextAnswer
    <2>4. qlen' = slot.datalen
      BY <2>1, <2>3, AnswerFacts DEF Header, Segment
    <2>5. QemuInv'
      BY <1>0, <2>1, <2>3, <2>4 DEF QemuInv
    <2> QED
      BY <2>1, <2>2, <2>5, InvQemuAdvance
  <1>3. CASE QemuRecvDesc
    <2>1. /\ qpc = "recvDesc" /\ s2c # <<>> /\ s2c' = Tail(s2c)
          /\ UNCHANGED <<qlen, fs, link, c2s, fvars>>
      BY <1>3 DEF QemuRecvDesc
    <2>2. QTaken = 1
      BY <2>1 DEF QTaken
    <2>3. /\ fs /\ Head(s2c) = Answer[2]
          /\ \E m \in 2 .. Whole : Tail(s2c) = Chunk(Answer, 2, m)
          /\ link = "up" => Answered \/ (Answering /\ 2 <= FSent)
      BY <2>1, <2>2, NextAnswer
    <2>4. Head(s2c) = DescSeg(FwExec(slot))
      BY <2>3, AnswerFacts
    <2>5. rdesc' = FwExec(slot) /\ rdesc'.datalen = slot.datalen
      <3>1. rdesc' = Head(s2c).val
        BY <1>3, <2>4 DEF QemuRecvDesc, DescSeg, Segment
      <3>2. rdesc' = FwExec(slot)
        BY <2>4, <3>1 DEF DescSeg, Segment
      <3> QED
        BY <1>0, <3>2, FwExecKeeps
    <2>6. CASE slot.datalen > 0
      <3>1. qpc' = "recvBufHdr" /\ UNCHANGED <<slot, buf>>
        BY <1>3, <2>5, <2>6 DEF QemuRecvDesc
      <3>2. QTaken' = 2
        BY <3>1 DEF QTaken
      <3>3. QemuInv'
        BY <1>0, <2>1, <2>3, <2>5, <2>6, <3>1 DEF QemuInv
      <3> QED
        BY <2>1, <2>2, <3>1, <3>2, <3>3, InvQemuAdvance
    <2>7. CASE ~(slot.datalen > 0)
      <3>1. qpc' = "idle"
        BY <1>0, <1>3, <2>5, <2>7 DEF QemuRecvDesc, Complete
      <3>2. s2c' = <<>>
        BY <2>1, <2>3, <2>7, ChunkEmpty DEF Whole
      <3>3. link = "up" => fpc = "recvHdr" /\ c2s = <<>>
        BY <2>3, <2>7 DEF Answered, Answering, FSent, FSending
      <3> QED
        BY <2>1, <2>3, <3>1, <3>2, <3>3, InvComplete
    <2> QED
      BY <2>6, <2>7
  <1>4. CASE QemuRecvBuf
    <2>1. /\ qpc = "recvBuf" /\ s2c # <<>> /\ s2c' = Tail(s2c) /\ qpc' = "idle"
          /\ UNCHANGED <<fs, link, c2s, fvars>>
      BY <1>4 DEF QemuRecvBuf, Complete
    <2>2. QTaken = 3
      BY <2>1 DEF QTaken
    <2>3. /\ fs
          /\ \E m \in 4 .. Whole : Tail(s2c) = Chunk(Answer, 4, m)
          /\ link = "up" => Answered \/ (Answering /\ 4 <= FSent)
      BY <2>1, <2>2, NextAnswer
    <2>4. s2c' = <<>>
      BY <2>1, <2>3, ChunkEmpty DEF Whole
    <2>5. link = "up" => fpc = "recvHdr" /\ c2s = <<>>
      BY <2>3 DEF Answered, FSent
    <2> QED
      BY <2>1, <2>3, <2>4, <2>5, InvComplete
  <1> QED
    BY <1>1, <1>2, <1>3, <1>4 DEF QemuRecvHeader

\* What the firmware finds at the head of its socket is the next segment of
\* the request.
LEMMA NextRequest ==
    ASSUME TypeOK, Reading, c2s # <<>>,
           NEW l \in 0 .. 4, FTaken < l, l <= FTaken + 1
    PROVE  /\ l <= QSent
           /\ Head(c2s) = Request[l]
           /\ Tail(c2s) = Chunk(Request, l, QSent)
  <1>1. FTaken \in 0 .. 4 /\ QSent \in 0 .. 4
    BY DEF FTaken, QSent, Whole
  <1>2. FTaken <= QSent /\ c2s = Chunk(Request, FTaken, QSent)
    BY DEF Reading
  <1>3. \A j \in 0 .. 4 : Chunk(Request, j, j) = <<>>
    BY RequestFacts DEF ChunkFacts
  <1>4. l <= QSent
    BY <1>1, <1>2, <1>3
  <1>5. \A j, k, z \in 0 .. 4 : j < z /\ z <= j + 1 /\ z <= k =>
           /\ Chunk(Request, j, k) # <<>>
           /\ Head(Chunk(Request, j, k)) = Request[z]
           /\ Tail(Chunk(Request, j, k)) = Chunk(Request, z, k)
    BY RequestFacts DEF ChunkFacts
  <1>6. /\ Head(Chunk(Request, FTaken, QSent)) = Request[l]
        /\ Tail(Chunk(Request, FTaken, QSent)) = Chunk(Request, l, QSent)
    BY <1>1, <1>4, <1>5
  <1> QED
    BY <1>2, <1>4, <1>6

\* Where QEMU stands once the firmware has read a whole request.
LEMMA RequestRead ==
    ASSUME TypeOK, QemuInv, Reading, Whole <= QSent
    PROVE  qpc = "recvHdr" /\ QSent = Whole
  <1>1. qpc \in {"idle", "sendHdr", "sendDesc", "sendBufHdr", "sendBuf", "recvHdr"}
    BY DEF Reading, QSending
  <1>2. Whole \in {2, 4} /\ (slot.datalen > 0 => Whole = 4)
    BY DEF Whole
  <1>3. qpc \in {"sendBufHdr", "sendBuf"} => Whole = 4
    BY <1>2 DEF QemuInv
  <1>4. qpc = "recvHdr"
    BY <1>1, <1>2, <1>3 DEF QSent
  <1> QED
    BY <1>4 DEF QSent

\* A step of the firmware on a broken connection changes nothing QEMU can see.
LEMMA InvFwDown ==
    ASSUME TypeOK, ChannelInv, link = "down", FwNext
    PROVE  ChannelInv'
  <1>1. UNCHANGED <<qvars, link, s2c>>
    BY DEF FwNext, FwRecvHeader, FwRecvHdr, FwMisread, FwRecvDesc, FwRecvBuf, FwDescError,
           FwBufError, FwSwitchStep, FwSendDesc, FwSendBuf, FwSend, FwSendError
  <1> QED
    BY <1>1 DEF qvars, ChannelInv, QemuInv, AnswerInv, LinkInv, QTaken, Whole, Answer

\* With whole segments, every read of the firmware on a live connection finds
\* what it expects and none fails.
LEMMA InvFwRecv ==
    ASSUME ~ShortReads, TypeOK, ChannelInv, link = "up",
           FwRecvHeader \/ FwMisread \/ FwRecvDesc \/ FwRecvBuf \/ FwDescError \/ FwBufError
    PROVE  fs /\ (Reading \/ Answering)' /\ UNCHANGED <<qvars, link>>
  <1> USE DEF FReceiving
  <1>1. Reading /\ fs /\ QemuInv
    BY DEF ChannelInv, LinkInv, Answering, Answered, FSending, FwRecvHeader, FwRecvHdr,
           FwMisread, FwRecvDesc, FwRecvBuf, FwDescError, FwBufError
  <1>2. slot \in Desc /\ slot.datalen \in Nat
    BY DEF TypeOK, Desc
  <1>3. CASE FwRecvHdr("recvHdr", DescSize, "recvDesc")
    <2>1. /\ fpc = "recvHdr" /\ c2s # <<>> /\ fpc' = "recvDesc" /\ Consume(1)
          /\ flen' = Head(c2s).val
          /\ UNCHANGED <<qvars, link, s2c, fdesc, fbuf, mlen, dlen, echobuf>>
      BY <1>3 DEF FwRecvHdr
    <2>2. FTaken = 0 /\ FTaken' = 1
      BY <2>1 DEF FTaken
    <2>3. 1 <= QSent /\ Head(c2s) = Request[1] /\ Tail(c2s) = Chunk(Request, 1, QSent)
      BY <1>1, <2>1, <2>2, NextRequest
    <2>4. Head(c2s) = Header(DescSize)
      BY <2>3, RequestFacts
    <2>5. c2s' = Tail(c2s) /\ flen' = DescSize
      <3>1. Head(c2s).len = 1 /\ Head(c2s).val = DescSize
        BY <2>4 DEF Header, Segment
      <3> QED
        BY <2>1, <3>1 DEF Consume
    <2>6. QSent' = QSent /\ Request' = Request
      BY <2>1 DEF QSent, Whole, Request, qvars
    <2>7. Reading'
      BY <1>1, <2>1, <2>2, <2>3, <2>5, <2>6 DEF Reading, qvars
    <2> QED
      BY <1>1, <2>1, <2>7
  <1>4. CASE FwRecvHdr("recvBufHdr", dlen, "recvBuf")
    <2>1. /\ fpc = "recvBufHdr" /\ c2s # <<>> /\ fpc' = "recvBuf" /\ Consume(1)
          /\ flen' = Head(c2s).val
          /\ UNCHANGED <<qvars, link, s2c, fdesc, fbuf, mlen, dlen, echobuf>>
      BY <1>4 DEF FwRecvHdr
    <2>2. FTaken = 2 /\ FTaken' = 3
      BY <2>1 DEF FTaken
    <2>3. 3 <= QSent /\ Head(c2s) = Request[3] /\ Tail(c2s) = Chunk(Request, 3, QSent)
      BY <1>1, <2>1, <2>2, NextRequest
    <2>4. Head(c2s) = Header(slot.datalen)
      BY <2>3, RequestFacts
    <2>5. c2s' = Tail(c2s) /\ flen' = slot.datalen
      <3>1. Head(c2s).len = 1 /\ Head(c2s).val = slot.datalen
        BY <2>4 DEF Header, Segment
      <3> QED
        BY <2>1, <3>1 DEF Consume
    <2>6. QSent' = QSent /\ Request' = Request
      BY <2>1 DEF QSent, Whole, Request, qvars
    <2>7. Reading'
      BY <1>1, <2>1, <2>2, <2>3, <2>5, <2>6 DEF Reading, qvars
    <2> QED
      BY <1>1, <2>1, <2>7
  <1>5. CASE FwMisread
    <2>1. c2s # <<>> /\ fpc \in {"recvHdr", "recvBufHdr"}
          /\ Head(c2s).kind \in {"desc", "data"}
      BY <1>5 DEF FwMisread
    <2>2. CASE fpc = "recvHdr"
      <3>1. FTaken = 0
        BY <2>2 DEF FTaken
      <3>2. Head(c2s) = Header(DescSize)
        BY <1>1, <2>1, <3>1, NextRequest, RequestFacts
      <3> QED
        BY <2>1, <3>2 DEF Header, Segment
    <2>3. CASE fpc = "recvBufHdr"
      <3>1. FTaken = 2
        BY <2>3 DEF FTaken
      <3>2. Head(c2s) = Header(slot.datalen)
        BY <1>1, <2>1, <3>1, NextRequest, RequestFacts
      <3> QED
        BY <2>1, <3>2 DEF Header, Segment
    <2> QED
      BY <2>1, <2>2, <2>3
  <1>6. CASE FwRecvDesc
    <2>1. /\ fpc = "recvDesc" /\ c2s # <<>> /\ Consume(flen) /\ mlen' = flen
          /\ UNCHANGED <<qvars, link, s2c, fbuf, flen, echobuf>>
      BY <1>6 DEF FwRecvDesc
    <2>2. FTaken = 1 /\ flen = DescSize
      BY <1>1, <2>1 DEF FTaken, Reading
    <2>3. 2 <= QSent /\ Head(c2s) = Request[2] /\ Tail(c2s) = Chunk(Request, 2, QSent)
      BY <1>1, <2>1, <2>2, NextRequest
    <2>4. Head(c2s) = DescSeg(slot)
      BY <2>3, RequestFacts
    <2>5. c2s' = Tail(c2s)
      BY <2>1, <2>2, <2>4 DEF Consume, DescSeg, Segment
    <2>6. /\ fdesc' = slot /\ dlen' = slot.datalen
          /\ fpc' = IF slot.datalen > 0 THEN "recvBufHdr" ELSE "switch"
      <3>1. Clean(c2s, flen, "desc") /\ Head(c2s).val = slot
        BY <2>2, <2>4 DEF Clean, DescSeg, Segment
      <3> QED
        BY <1>6, <3>1 DEF FwRecvDesc
    <2>7. QSent' = QSent /\ Request' = Request /\ Answer' = Answer /\ QTaken' = QTaken
      BY <2>1 DEF QSent, QTaken, Whole, Request, Answer, qvars
    <2>8. CASE slot.datalen > 0
      <3>1. FTaken' = 2
        BY <2>6, <2>8 DEF FTaken
      <3>2. Reading'
        BY <1>1, <2>1, <2>2, <2>3, <2>5, <2>6, <2>7, <2>8, <3>1 DEF Reading, qvars
      <3> QED
        BY <1>1, <2>1, <3>2
    <2>9. CASE ~(slot.datalen > 0)
      <3>1. Whole = 2
        BY <2>9 DEF Whole
      <3>2. qpc = "recvHdr" /\ QSent = 2
        BY <1>1, <2>3, <3>1, RequestRead
      <3>3. c2s' = <<>>
        BY <2>3, <2>5, <3>2, ChunkEmpty
      <3>4. QTaken = 0 /\ FSent' = 0
        BY <2>6, <2>9, <3>2 DEF QTaken, FSent
      <3>5. s2c' = Chunk(Answer', 0, 0)
        BY <1>1, <2>1, ChunkEmpty DEF Reading
      <3>6. Answering'
        BY <2>1, <2>2, <2>6, <2>7, <2>9, <3>2, <3>3, <3>4, <3>5
           DEF Answering, qvars, QReceiving
      <3> QED
        BY <1>1, <2>1, <3>6
    <2> QED
      BY <2>8, <2>9
  <1>7. CASE FwRecvBuf
    <2>1. /\ fpc = "recvBuf" /\ c2s # <<>> /\ Consume(flen) /\ dlen' = flen
          /\ fpc' = "switch"
          /\ UNCHANGED <<qvars, link, s2c, fdesc, flen, mlen, echobuf>>
      BY <1>7 DEF FwRecvBuf
    <2>2. /\ FTaken = 3 /\ flen = slot.datalen /\ slot.datalen > 0
          /\ fdesc = slot /\ mlen = DescSize
      BY <1>1, <2>1 DEF FTaken, Reading
    <2>3. 4 <= QSent /\ Head(c2s) = Request[4] /\ Tail(c2s) = Chunk(Request, 4, QSent)
      BY <1>1, <2>1, <2>2, NextRequest
    <2>4. Head(c2s) = DataSeg(slot.datalen, buf)
      BY <2>3, RequestFacts
    <2>5. c2s' = Tail(c2s) /\ fbuf' = buf
      <3>1. /\ Head(c2s).kind = "data" /\ Head(c2s).len = slot.datalen
            /\ Head(c2s).val = buf
        BY <2>4 DEF DataSeg, Segment
      <3>2. c2s' = Tail(c2s)
        BY <2>1, <2>2, <3>1 DEF Consume
      <3>3. fbuf' = buf
        BY <1>7, <2>2, <3>1 DEF FwRecvBuf, Clean
      <3> QED
        BY <3>2, <3>3
    <2>6. Whole = 4
      BY <2>2 DEF Whole
    <2>7. qpc = "recvHdr" /\ QSent = 4
      BY <1>1, <2>3, <2>6, RequestRead
    <2>8. c2s' = <<>>
      BY <2>3, <2>5, <2>7, ChunkEmpty
    <2>9. QTaken' = 0 /\ FSent' = 0
      BY <2>1, <2>7 DEF QTaken, FSent, qvars
    <2>10. s2c' = Chunk(Answer', 0, 0)
      BY <1>1, <2>1, ChunkEmpty DEF Reading
    <2>11. Answering'
      BY <2>1, <2>2, <2>5, <2>7, <2>8, <2>9, <2>10 DEF Answering, qvars, QReceiving
    <2> QED
      BY <1>1, <2>1, <2>11
  <1>8. CASE FwDescError
    <2>1. fpc = "recvDesc"
      BY <1>8 DEF FwDescError
    <2>2. FTaken = 1 /\ flen = DescSize
      BY <1>1, <2>1 DEF FTaken, Reading
    <2>3. c2s # <<>> => Head(c2s) = DescSeg(slot)
      BY <1>1, <2>2, NextRequest, RequestFacts
    <2>4. c2s # <<>> => Takes(c2s, flen) = {flen}
      BY <2>2, <2>3 DEF Takes, DescSeg, Segment
    <2> QED
      BY <1>8, <2>2, <2>4 DEF FwDescError, DescSize
  <1>9. CASE FwBufError
    <2>1. CASE fpc = "recvBufHdr"
      <3>1. FTaken = 2 /\ dlen = slot.datalen
        BY <1>1, <2>1 DEF FTaken, Reading
      <3>2. c2s # <<>> => Head(c2s) = Header(slot.datalen)
        BY <1>1, <3>1, NextRequest, RequestFacts
      <3>3. c2s # <<>> => Head(c2s).val = slot.datalen
        BY <3>2 DEF Header, Segment
      <3> QED
        BY <1>2, <1>9, <2>1, <3>1, <3>3 DEF FwBufError
    <2>2. CASE fpc = "recvBuf"
      <3>1. FTaken = 3 /\ flen = slot.datalen /\ slot.datalen > 0
        BY <1>1, <2>2 DEF FTaken, Reading
      <3>2. c2s # <<>> => Head(c2s) = DataSeg(slot.datalen, buf)
        BY <1>1, <3>1, NextRequest, RequestFacts
      <3>3. c2s # <<>> => Takes(c2s, flen) = {flen}
        BY <3>1, <3>2 DEF Takes, DataSeg, Segment
      <3> QED
        BY <1>9, <2>2, <3>1, <3>3 DEF FwBufError
    <2> QED
      BY <1>9, <2>1, <2>2 DEF FwBufError
  <1> QED
    BY <1>3, <1>4, <1>5, <1>6, <1>7, <1>8, <1>9 DEF FwRecvHeader

\* Executing the command and sending its answer, on a live connection.
LEMMA InvFwSend ==
    ASSUME TypeOK, ChannelInv, link = "up", FwSwitchStep \/ FwSendDesc \/ FwSendBuf
    PROVE  fs /\ (Answering \/ Answered)' /\ UNCHANGED <<qvars, link>>
  <1> USE DEF FSending
  <1>1. Answering /\ fs
    BY DEF ChannelInv, LinkInv, Reading, Answered, FReceiving, FwSwitchStep, FwSendDesc,
           FwSendBuf, FwSend
  <1>2. UNCHANGED <<qvars, link, c2s, fbuf, mlen, dlen>>
    BY DEF FwSwitchStep, FwSendDesc, FwSendBuf, FwSend
  <1>3. /\ QTaken' = QTaken /\ Answer' = Answer /\ Whole' = Whole
        /\ QTaken \in 0 .. 4 /\ QTaken <= FSent
    BY <1>1, <1>2 DEF QTaken, Answer, Whole, qvars, Answering
  <1>4. ASSUME NEW k \in 0 .. 4, NEW l \in 0 .. 4, k = FSent, k < l, l <= k + 1,
               s2c' = Append(s2c, Answer[l])
        PROVE  s2c' = Chunk(Answer', QTaken', l) /\ QTaken' <= l
    <2>1. \A x, y, z \in 0 .. 4 : x <= y /\ y < z /\ z <= y + 1 =>
             Append(Chunk(Answer, x, y), Answer[z]) = Chunk(Answer, x, z)
      BY AnswerFacts DEF ChunkFacts
    <2>2. QTaken <= k /\ s2c = Chunk(Answer, QTaken, k)
      BY <1>1, <1>3, <1>4 DEF Answering
    <2>3. Append(Chunk(Answer, QTaken, k), Answer[l]) = Chunk(Answer, QTaken, l)
      BY <1>3, <1>4, <2>1, <2>2
    <2> QED
      BY <1>3, <1>4, <2>2, <2>3
  <1>5. CASE FwSwitchStep
    <2>1. fpc = "switch" /\ fpc' = "sendHdr" /\ fdesc' = FwExec(fdesc) /\ s2c' = s2c
      BY <1>5 DEF FwSwitchStep
    <2>2. fdesc = slot /\ FSent = 0 /\ FSent' = 0
      BY <1>1, <2>1 DEF Answering, FSent
    <2>3. Answering'
      BY <1>1, <1>2, <1>3, <2>1, <2>2 DEF Answering, qvars
    <2> QED
      BY <1>1, <1>2, <2>3
  <1>6. CASE FwSend("sendHdr", Header(mlen), "sendDesc") /\ UNCHANGED echobuf
    <2>1. /\ fpc = "sendHdr" /\ fpc' = "sendDesc" /\ fdesc' = fdesc
          /\ s2c' = Append(s2c, Header(mlen))
      BY <1>6 DEF FwSend
    <2>2. FSent = 0 /\ FSent' = 1 /\ Header(mlen) = Answer[1] /\ fdesc = FwExec(slot)
      BY <1>1, <2>1, AnswerFacts DEF Answering, FSent
    <2>3. s2c' = Chunk(Answer', QTaken', 1) /\ QTaken' <= 1
      BY <1>4, <2>1, <2>2
    <2>4. Answering'
      BY <1>1, <1>2, <2>1, <2>2, <2>3 DEF Answering, qvars
    <2> QED
      BY <1>1, <1>2, <2>4
  <1>7. CASE FwSend("sendDesc", FwAnswer,
                    IF echobuf /\ dlen > 0 THEN "sendBufHdr" ELSE "recvHdr")
             /\ UNCHANGED echobuf
    <2>1. /\ fpc = "sendDesc" /\ fdesc' = fdesc
          /\ fpc' = IF echobuf /\ dlen > 0 THEN "sendBufHdr" ELSE "recvHdr"
          /\ s2c' = Append(s2c, FwAnswer)
      BY <1>7 DEF FwSend
    <2>2. /\ FSent = 1 /\ FwAnswer = Answer[2] /\ fdesc = FwExec(slot)
          /\ dlen = slot.datalen
      BY <1>1, <2>1, AnswerFacts DEF Answering, FSent, FwAnswer
    <2>3. s2c' = Chunk(Answer', QTaken', 2) /\ QTaken' <= 2
      BY <1>4, <2>1, <2>2
    <2>4. CASE echobuf /\ dlen > 0
      <3>1. fpc' = "sendBufHdr" /\ FSent' = 2 /\ echobuf' /\ slot.datalen > 0
        BY <1>7, <2>1, <2>2, <2>4 DEF FSent
      <3>2. Answering'
        BY <1>1, <1>2, <2>1, <2>2, <2>3, <3>1 DEF Answering, qvars
      <3> QED
        BY <1>1, <1>2, <3>2
    <2>5. CASE ~(echobuf /\ dlen > 0)
      <3>1. fpc' = "recvHdr"
        BY <2>1, <2>5
      <3>2. Answered'
        BY <1>1, <1>2, <2>3, <3>1 DEF Answered, Answering, qvars
      <3> QED
        BY <1>1, <1>2, <3>2
    <2> QED
      BY <2>4, <2>5
  <1>8. CASE FwSend("sendBufHdr", Header(dlen), "sendBuf") /\ UNCHANGED echobuf
    <2>1. /\ fpc = "sendBufHdr" /\ fpc' = "sendBuf" /\ fdesc' = fdesc
          /\ s2c' = Append(s2c, Header(dlen))
      BY <1>8 DEF FwSend
    <2>2. /\ FSent = 2 /\ FSent' = 3 /\ Header(dlen) = Answer[3]
          /\ fdesc = FwExec(slot) /\ echobuf' /\ slot.datalen > 0
      BY <1>1, <1>8, <2>1, AnswerFacts DEF Answering, FSent
    <2>3. s2c' = Chunk(Answer', QTaken', 3) /\ QTaken' <= 3
      BY <1>4, <2>1, <2>2
    <2>4. Answering'
      BY <1>1, <1>2, <2>1, <2>2, <2>3 DEF Answering, qvars
    <2> QED
      BY <1>1, <1>2, <2>4
  <1>9. CASE FwSend("sendBuf", DataSeg(dlen, fbuf), "recvHdr")
    <2>1. /\ fpc = "sendBuf" /\ fpc' = "recvHdr"
          /\ s2c' = Append(s2c, DataSeg(dlen, fbuf))
      BY <1>9 DEF FwSend
    <2>2. FSent = 3 /\ DataSeg(dlen, fbuf) = Answer[4] /\ slot.datalen > 0
      BY <1>1, <2>1, AnswerFacts DEF Answering, FSent
    <2>3. s2c' = Chunk(Answer', QTaken', 4) /\ QTaken' <= 4 /\ Whole' = 4
      BY <1>3, <1>4, <2>1, <2>2 DEF Whole
    <2>4. Answered'
      BY <1>1, <1>2, <2>1, <2>3 DEF Answered, Answering, qvars
    <2> QED
      BY <1>1, <1>2, <2>4
  <1> QED
    BY <1>5, <1>6, <1>7, <1>8, <1>9 DEF FwSendDesc, FwSendBuf

\* Every step of the firmware preserves the protocol invariant.
LEMMA InvFw ==
    ASSUME ~ShortReads, TypeOK, ChannelInv, FwNext
    PROVE  ChannelInv'
  <1>1. CASE link = "down"
    BY <1>1, InvFwDown
  <1>2. CASE link = "up"
    <2>1. ~FwSendError
      BY <1>2 DEF FwSendError
    <2>2. fs /\ (Reading \/ Answering \/ Answered)' /\ UNCHANGED <<qvars, link>>
      BY <1>2, <2>1, InvFwRecv, InvFwSend DEF FwNext
    <2>3. QemuInv'
      BY <2>2 DEF ChannelInv, QemuInv, qvars
    <2>4. LinkInv'
      BY <2>2 DEF LinkInv, qvars
    <2>5. TypeOK'
      BY TypeFw
    <2>6. AnswerInv'
      <3>1. (link = "up")'
        BY <1>2, <2>2
      <3> QED
        BY <2>3, <2>4, <2>5, <3>1, UpAnswer, PTL
    <2> QED
      BY <2>3, <2>4, <2>6 DEF ChannelInv
  <1> QED
    BY <1>1, <1>2 DEF TypeOK

\* A connection that breaks, or a firmware that dies, leaves QEMU a part of the
\* rest of the answer.
LEMMA InvBreak ==
    ASSUME TypeOK, ChannelInv, UNCHANGED qvars, link' = "down",
           \E k \in 0 .. Len(s2c) : s2c' = Truncate(s2c, k)
    PROVE  ChannelInv'
  <1>1. Whole' = Whole /\ QTaken' = QTaken /\ Answer' = Answer
    BY DEF Whole, QTaken, Answer, qvars
  <1>2. QemuInv' /\ LinkInv'
    BY DEF ChannelInv, QemuInv, LinkInv, qvars
  <1>3. fs => \E m \in QTaken .. Whole : /\ s2c' = Chunk(Answer, QTaken, m)
                                         /\ qpc \notin QReceiving => m = 0
    <2> HAVE fs
    <2>1. PICK m \in QTaken .. Whole : /\ s2c = Chunk(Answer, QTaken, m)
                                       /\ qpc \notin QReceiving => m = 0
      BY DEF ChannelInv, AnswerInv
    <2>2. QTaken \in 0 .. 4 /\ Whole \in 0 .. 4
      BY DEF QTaken, Whole
    <2>3. m \in 0 .. 4 /\ QTaken <= m /\ m <= Whole
      BY <2>2
    <2>4. \A j, k \in 0 .. 4 : j <= k => Len(Chunk(Answer, j, k)) = k - j
      BY AnswerFacts DEF ChunkFacts
    <2>5. Len(s2c) = m - QTaken
      BY <2>1, <2>2, <2>3, <2>4
    <2>6. PICK k \in 0 .. (m - QTaken) : s2c' = Truncate(s2c, k)
      BY <2>5
    <2>7. PICK l \in 0 .. 4 : l - QTaken = k /\ QTaken <= l /\ l <= m
      <3>1. QTaken + k \in 0 .. 4 /\ (QTaken + k) - QTaken = k
            /\ QTaken <= QTaken + k /\ QTaken + k <= m
        BY <2>2, <2>3, <2>6
      <3> QED
        BY <3>1
    <2>8. \A x, y, z \in 0 .. 4 : x <= z /\ z <= y =>
             Truncate(Chunk(Answer, x, y), z - x) = Chunk(Answer, x, z)
      BY AnswerFacts DEF ChunkFacts
    <2>9. s2c' = Chunk(Answer, QTaken, l)
      <3>1. Truncate(Chunk(Answer, QTaken, m), l - QTaken) = Chunk(Answer, QTaken, l)
        BY <2>2, <2>3, <2>7, <2>8
      <3> QED
        BY <2>1, <2>6, <2>7, <3>1
    <2>10. l \in QTaken .. Whole /\ (qpc \notin QReceiving => l = 0)
      BY <2>1, <2>2, <2>3, <2>7
    <2> QED
      BY <2>9, <2>10
  <1>4. AnswerInv'
    <2>1. fs' = fs /\ qpc' = qpc
      BY DEF qvars
    <2> SUFFICES ASSUME fs' PROVE AnswerInv'
      BY DEF AnswerInv
    <2>2. PICK m \in QTaken .. Whole : /\ s2c' = Chunk(Answer, QTaken, m)
                                       /\ qpc \notin QReceiving => m = 0
      BY <1>3, <2>1
    <2>3. m \in QTaken' .. Whole' /\ s2c' = Chunk(Answer', QTaken', m)
      BY <1>1, <2>2
    <2>4. qpc' \notin QReceiving => m = 0
      BY <2>1, <2>2
    <2> QED
      BY <2>3, <2>4 DEF AnswerInv, QReceiving
  <1> QED
    BY <1>2, <1>4 DEF ChannelInv

\* Every step preserves the protocol invariant.
LEMMA InvStep ==
    ASSUME ~ShortReads, TypeOK, ChannelInv, [Next]_vars
    PROVE  ChannelInv'
  <1>1. CASE QemuNext
    BY <1>1, InvConnect, InvFallback, InvQemuSend, InvQemuRecv
       DEF QemuNext, LocateExpires, QemuSendError, QemuRecvError
  <1>2. CASE FwNext
    BY <1>2, InvFw
  <1>3. CASE Env
    <2>1. CASE \E c \in Commands, v \in Data : Post(c, v)
      BY <2>1, InvPost
    <2>2. CASE LocateError
      BY <2>2, InvFallback DEF LocateError
    <2>3. CASE Break \/ FwCrash
      BY <2>3, InvBreak DEF Break, FwCrash
    <2>4. CASE FwRestart
      <3>1. link = "down"
        BY <2>4 DEF FwRestart, ChannelInv, LinkInv, Reading, Answering, Answered,
                    FReceiving, FSending, TypeOK
      <3> QED
        BY <2>4, <3>1 DEF FwRestart, ChannelInv, QemuInv, AnswerInv, LinkInv, QTaken,
                          Whole, Answer, qvars
    <2> QED
      BY <1>3, <2>1, <2>2, <2>3, <2>4 DEF Env
  <1>4. CASE UNCHANGED vars
    BY <1>4 DEF vars, qvars, fvars, ChannelInv, QemuInv, AnswerInv, LinkInv, Reading,
                Answering, Answered, QTaken, QSent, FTaken, FSent, Whole, Answer, Request
  <1> QED
    BY <1>1, <1>2, <1>3, <1>4 DEF Next

\* The invariant says that nothing QEMU can read belongs to another command.
LEMMA InvNoStale ==
    ASSUME TypeOK, ChannelInv
    PROVE  NoStaleAnswer
  <1> SUFFICES ASSUME fs
               PROVE  /\ qpc = "idle" => s2c = <<>>
                      /\ \A i \in 1 .. Len(s2c) :
                           /\ s2c[i].kind = "desc" => s2c[i].val = FwExec(slot)
                           /\ s2c[i].kind = "data" => s2c[i].val = buf
    BY DEF NoStaleAnswer
  <1>1. PICK m \in QTaken .. Whole : /\ s2c = Chunk(Answer, QTaken, m)
                                     /\ qpc \notin QReceiving => m = 0
    BY DEF ChannelInv, AnswerInv
  <1>2. /\ QTaken \in 0 .. 4 /\ Whole \in 0 .. 4
        /\ m \in 0 .. 4 /\ QTaken <= m
    BY <1>1 DEF QTaken, Whole
  <1>3. qpc = "idle" => s2c = <<>>
    BY <1>1, ChunkEmpty DEF QTaken, QReceiving
  <1>4. ASSUME NEW i \in 1 .. Len(s2c)
        PROVE  \E n \in 1 .. 4 : s2c[i] = Answer[n]
    <2>1. FwExec(slot) \in Desc /\ buf \in Data \cup {Garbled}
      BY DescTypes DEF TypeOK
    <2>2. Answer \in Seq(Seg) /\ Len(Answer) = 4
      BY <2>1, MsgSegments DEF Answer
    <2>3. QTaken \in Nat /\ m \in Nat /\ m <= Len(Answer)
      BY <1>2, <2>2
    <2>4. /\ Len(s2c) = m - QTaken
          /\ \A k \in 1 .. (m - QTaken) : s2c[k] = Answer[QTaken + k]
      BY <1>1, <1>2, <2>2, <2>3, ChunkType
    <2>5. QTaken + i \in 1 .. 4 /\ s2c[i] = Answer[QTaken + i]
      BY <1>2, <1>4, <2>4
    <2> QED
      BY <2>5
  <1>5. \A n \in 1 .. 4 : /\ Answer[n].kind = "desc" => Answer[n].val = FwExec(slot)
                          /\ Answer[n].kind = "data" => Answer[n].val = buf
    <2>1. TAKE n \in 1 .. 4
    <2>2. n = 1 \/ n = 2 \/ n = 3 \/ n = 4
      OBVIOUS
    <2>3. /\ Answer[1].kind = "hdr" /\ Answer[3].kind = "hdr"
          /\ Answer[2].kind = "desc" /\ Answer[2].val = FwExec(slot)
          /\ Answer[4].kind = "data" /\ Answer[4].val = buf
      BY AnswerFacts DEF Header, DescSeg, DataSeg, Segment
    <2> QED
      BY <2>2, <2>3
  <1> QED
    BY <1>3, <1>4, <1>5

\* The protocol invariant holds in every reachable state.
THEOREM ChannelInvariant ==
    ASSUME ~ShortReads
    PROVE  Spec => []ChannelInv
  BY InvInit, InvStep, ChannelTypes, PTL DEF Spec

\* For every set of commands a driver may post, and through every crash and
\* broken connection, e1000_send_aq_cmd never accepts the answer to another
\* command, although it compares neither cookie nor opcode.
THEOREM NoStaleAnswerHolds ==
    ASSUME ~ShortReads
    PROVE  Spec => []NoStaleAnswer
  BY InvNoStale, ChannelTypes, ChannelInvariant, PTL

-----------------------------------------------------------------------------
(* The protocol implements AqService *)

\* Every step is a step of the service or leaves its state alone.
LEMMA ServiceStep ==
    ASSUME ~ShortReads, TypeOK, ChannelInv, [Next]_vars
    PROVE  [Svc!SvcNext]_(Svc!svcVars)
  <1> USE DEF Svc!svcVars
  <1>0. QemuInv /\ slot \in Desc
    BY DEF ChannelInv, TypeOK
  <1>1. ASSUME Fallback, qpc # "idle" PROVE Svc!Finish
    <2>1. slot' = LocalExec(slot) /\ qpc' = "idle" /\ buf' = buf
      BY <1>1 DEF Fallback
    <2>2. LocalExec(slot) = Svc!LocalExec(slot)
      BY DEF LocalExec, GetVersion, aqc_get_version, aqc_echo, RC_ENOSYS, Svc!LocalExec,
             Svc!GetVersion, Svc!aqc_get_version, Svc!aqc_echo, Svc!RC_ENOSYS
    <2> QED
      BY <1>1, <2>1, <2>2 DEF Svc!Finish, Svc!Answers
  <1>2. ASSUME qpc # "idle", qpc' = "idle", slot' = FwExec(slot), buf' = buf
        PROVE  Svc!Finish
    <2>1. FwExec(slot) = Svc!FwExec(slot)
      BY DEF FwExec, FwSwitch, GetVersion, aqc_get_version, aqc_echo, aqc_driver_heartbeat,
             RC_ENOSYS, Svc!FwExec, Svc!FwSwitch, Svc!GetVersion, Svc!aqc_get_version,
             Svc!aqc_echo, Svc!aqc_driver_heartbeat, Svc!RC_ENOSYS
    <2> QED
      BY <1>2, <2>1 DEF Svc!Finish, Svc!Answers
  <1>3. CASE QemuNext
    <2>1. CASE Connect \/ QemuSendDesc \/ QemuSendBuf \/ QemuRecvHeader
      BY <2>1 DEF Connect, QemuSendDesc, QemuSendBuf, QemuSend, QemuRecvHeader, QemuRecvHdr
    <2>2. CASE LocateExpires \/ QemuSendError \/ QemuRecvError
      BY <1>1, <2>2 DEF LocateExpires, QemuSendError, QemuRecvError, QSending, QReceiving,
                        Svc!SvcNext
    <2>3. CASE QemuRecvDesc
      <3>1. qpc = "recvDesc" /\ s2c # <<>>
        BY <2>3 DEF QemuRecvDesc
      <3>2. QTaken = 1 /\ qpc \in QReceiving
        BY <3>1 DEF QTaken, QReceiving
      <3>3. Head(s2c) = Answer[2]
        BY <3>1, <3>2, NextAnswer
      <3>4. Head(s2c) = DescSeg(FwExec(slot))
        BY <3>3, AnswerFacts
      <3>5. rdesc' = FwExec(slot)
        <4>1. Head(s2c).kind = "desc" /\ Head(s2c).val = FwExec(slot)
          BY <3>4 DEF DescSeg, Segment
        <4> QED
          BY <2>3, <4>1 DEF QemuRecvDesc
      <3>6. CASE UNCHANGED <<slot, buf>> /\ qpc' = "recvBufHdr"
        BY <3>1, <3>6
      <3>7. CASE Complete(rdesc', buf)
        BY <1>2, <3>1, <3>5, <3>7 DEF Complete, Svc!SvcNext
      <3> QED
        BY <2>3, <3>6, <3>7 DEF QemuRecvDesc
    <2>4. CASE QemuRecvBuf
      <3>1. /\ qpc = "recvBuf" /\ s2c # <<>> /\ qpc' = "idle"
            /\ slot' = rdesc /\ buf' = Written(Head(s2c))
        BY <2>4 DEF QemuRecvBuf, Complete
      <3>2. QTaken = 3 /\ qpc \in QReceiving
        BY <3>1 DEF QTaken, QReceiving
      <3>3. Head(s2c) = Answer[4]
        BY <3>1, <3>2, NextAnswer
      <3>4. Head(s2c) = DataSeg(slot.datalen, buf)
        BY <3>3, AnswerFacts
      <3>5. /\ rdesc = FwExec(slot) /\ qlen = slot.datalen
            /\ rdesc.addr = slot.addr /\ rdesc.datalen = slot.datalen
        BY <1>0, <3>1, FwExecKeeps DEF QemuInv
      <3>6. Written(Head(s2c)) = buf
        BY <3>4, <3>5 DEF Written, DataSeg, Segment
      <3> QED
        BY <1>2, <3>1, <3>5, <3>6 DEF Svc!SvcNext
    <2> QED
      BY <1>3, <2>1, <2>2, <2>3, <2>4 DEF QemuNext
  <1>4. CASE FwNext
    <2>1. UNCHANGED qvars
      BY <1>4 DEF FwNext, FwRecvHeader, FwRecvHdr, FwMisread, FwRecvDesc, FwRecvBuf,
                  FwDescError, FwBufError, FwSwitchStep, FwSendDesc, FwSendBuf, FwSend,
                  FwSendError
    <2> QED
      BY <2>1 DEF qvars
  <1>5. CASE Env
    <2>1. ASSUME NEW c \in Commands, NEW v \in Data, Post(c, v)
          PROVE  Svc!SvcNext
      BY <2>1 DEF Post, Svc!SvcNext, Svc!Post
    <2>2. CASE LocateError
      BY <1>1, <2>2 DEF LocateError, Svc!SvcNext
    <2>3. CASE Break \/ FwCrash \/ FwRestart
      BY <2>3 DEF Break, FwCrash, FwRestart, qvars
    <2> QED
      BY <1>5, <2>1, <2>2, <2>3 DEF Env
  <1>6. CASE UNCHANGED vars
    BY <1>6 DEF vars, qvars
  <1> QED
    BY <1>3, <1>4, <1>5, <1>6 DEF Next

\* The socket protocol, with its crashes, lost connections and local fallback,
\* implements the service: a posted descriptor comes back executed, it is the
\* one that was posted, and its buffer is the one that went out.
THEOREM ServiceRefined ==
    ASSUME ~ShortReads
    PROVE  Spec => Service
  <1>1. Init => Svc!SvcInit
    BY DEF Init, Svc!SvcInit
  <1> QED
    BY <1>1, ServiceStep, ChannelTypes, ChannelInvariant, PTL DEF Spec, Service, Svc!SvcSpec

-----------------------------------------------------------------------------
(* Nobody waits for ever *)

\* A request in flight and an answer given exclude each other.
LEMMA ReadingOrAnswered == TypeOK /\ Reading /\ Answered => FALSE
  <1> SUFFICES ASSUME TypeOK, Reading, Answered PROVE FALSE
    OBVIOUS
  <1>1. FTaken = 0 /\ QSent = Whole /\ Whole \in {2, 4} /\ c2s = <<>>
    BY DEF Reading, Answered, FTaken, QSent, Whole, QSending, QReceiving
  <1>2. c2s = Chunk(Request, 0, Whole)
    BY <1>1 DEF Reading
  <1>3. \A j, k, l \in 0 .. 4 : j < l /\ l <= j + 1 /\ l <= k =>
           /\ Chunk(Request, j, k) # <<>>
           /\ Head(Chunk(Request, j, k)) = Request[l]
           /\ Tail(Chunk(Request, j, k)) = Chunk(Request, l, k)
    BY RequestFacts DEF ChunkFacts
  <1>4. Chunk(Request, 0, 2) # <<>> /\ Chunk(Request, 0, 4) # <<>>
    BY <1>3
  <1> QED
    BY <1>1, <1>2, <1>4

\* If buffers travel with echo commands only, the firmware sends one back
\* exactly when QEMU waits for one.
LEMMA BalancedStep ==
    ASSUME ~ShortReads, Balanced, TypeOK, ChannelInv, BalancedInv, [Next]_vars
    PROVE  BalancedInv'
  <1>1. TypeOK' /\ ChannelInv'
    BY TypeStep, InvStep
  <1>2. ASSUME Reading' PROVE ~Answered'
    BY <1>1, <1>2, ReadingOrAnswered, PTL
  <1>3. ASSUME Fallback, qpc' = "idle" PROVE BalancedInv'
    BY <1>3 DEF BalancedInv, Fallback, fvars
  <1>4. ASSUME NEW c \in Commands, NEW v \in Data, Post(c, v) PROVE BalancedInv'
    <2>1. qpc' \notin QReceiving /\ slot' \in Commands
      BY <1>4 DEF Post, QReceiving
    <2>2. link = "up" => fpc \in FReceiving
      BY <1>4 DEF Post, ChannelInv, LinkInv, Reading, Answering, Answered, QReceiving
    <2> QED
      BY <1>4, <2>1, <2>2 DEF BalancedInv, Post, fvars, Answered, FReceiving, FSending
  <1>5. CASE Connect
    <2>1. qpc' \notin QReceiving
      BY <1>5 DEF Connect, QReceiving
    <2> QED
      BY <1>5, <2>1 DEF BalancedInv, Connect, Answered, FReceiving, FSending
  <1>6. CASE QemuSendDesc \/ QemuSendBuf
    <2>1. /\ qpc \in QSending /\ UNCHANGED <<slot, link, fvars>>
      BY <1>6 DEF QemuSendDesc, QemuSendBuf, QemuSend, QSending
    <2>2. ASSUME link' = "up" PROVE ~Answered'
      <3>1. Reading
        BY <2>1, <2>2 DEF ChannelInv, LinkInv, Answering, Answered, QSending, QReceiving
      <3>2. c2s' # <<>>
        <4>1. PICK seg \in Seg : c2s' = Append(c2s, seg)
          BY <1>6, <2>1, <2>2, SegTypes
             DEF QemuSendDesc, QemuSendBuf, QemuSend, TypeOK, Desc, DescSize
        <4> QED
          BY <4>1, AppendProperties DEF TypeOK
      <3> QED
        BY <3>2 DEF Answered
    <2> QED
      BY <2>1, <2>2 DEF BalancedInv, fvars, QSending
  <1>7. ASSUME UNCHANGED <<slot, buf, link, c2s, fvars>>, qpc \in QReceiving,
               qpc' \in QReceiving, s2c # <<>>, s2c' = Tail(s2c),
               NEW l \in 0 .. 4, QTaken < l, l <= QTaken + 1, QTaken' = l
        PROVE  BalancedInv'
    <2>1. Whole' = Whole /\ Answer' = Answer
      BY <1>7 DEF Whole, Answer
    <2>2. ASSUME link = "up", Answered' PROVE s2c' = Chunk(Answer', QTaken', Whole')
      <3>1. Answered
        BY <1>7, <2>2 DEF Answered, ChannelInv, LinkInv, Reading, Answering, fvars, FSending
      <3>2. s2c = Chunk(Answer, QTaken, Whole)
        BY <2>2, <3>1 DEF BalancedInv
      <3>3. QTaken <= Whole /\ Whole \in 0 .. 4
        BY <3>1 DEF Answered, QTaken, Whole, ChannelInv, QemuInv
      <3>4. Tail(s2c) = Chunk(Answer, l, Whole)
        BY <1>7, <3>2, <3>3, AnswerTail
      <3> QED
        BY <1>7, <2>1, <3>4
    <2> QED
      BY <1>7, <2>2 DEF BalancedInv, fvars, QReceiving
  <1>8. ASSUME UNCHANGED <<link, c2s, fvars>>, qpc' = "idle", qpc \in QReceiving,
               link = "up" => fpc = "recvHdr"
        PROVE  BalancedInv'
    <2>1. ~Answered'
      BY <1>8 DEF Answered, QReceiving
    <2> QED
      BY <1>8, <2>1 DEF BalancedInv, fvars, FReceiving, FSending
  <1>9. CASE QemuRecvHeader
    <2>1. CASE QemuRecvHdr("recvHdr", DescSize, "recvDesc")
      <3>1. QTaken = 0 /\ QTaken' = 1 /\ qpc \in QReceiving /\ qpc' \in QReceiving
        BY <2>1 DEF QemuRecvHdr, QTaken, QReceiving
      <3> QED
        BY <1>7, <2>1, <3>1 DEF QemuRecvHdr
    <2>2. CASE QemuRecvHdr("recvBufHdr", rdesc.datalen, "recvBuf")
      <3>1. QTaken = 2 /\ QTaken' = 3 /\ qpc \in QReceiving /\ qpc' \in QReceiving
        BY <2>2 DEF QemuRecvHdr, QTaken, QReceiving
      <3> QED
        BY <1>7, <2>2, <3>1 DEF QemuRecvHdr
    <2> QED
      BY <1>9, <2>1, <2>2 DEF QemuRecvHeader
  <1>10. CASE QemuRecvDesc \/ QemuRecvBuf
    <2>1. UNCHANGED <<link, c2s, fvars>> /\ qpc \in QReceiving
      BY <1>10 DEF QemuRecvDesc, QemuRecvBuf, QReceiving
    <2>2. CASE qpc' = "idle"
      <3>1. link = "up" => fpc = "recvHdr"
        BY <1>1, <2>1, <2>2 DEF ChannelInv, LinkInv, Reading, Answering, Answered, QReceiving,
                                FTaken, QSent, fvars, FReceiving
      <3> QED
        BY <1>8, <2>1, <2>2, <3>1
    <2>3. CASE qpc' # "idle"
      <3>1. /\ qpc = "recvDesc" /\ qpc' = "recvBufHdr" /\ s2c # <<>> /\ s2c' = Tail(s2c)
            /\ UNCHANGED <<slot, buf>>
        BY <1>10, <2>3 DEF QemuRecvDesc, QemuRecvBuf, Complete
      <3>2. QTaken = 1 /\ QTaken' = 2 /\ qpc' \in QReceiving
        BY <3>1 DEF QTaken, QReceiving
      <3> QED
        BY <1>7, <2>1, <3>1, <3>2
    <2> QED
      BY <2>2, <2>3
  <1>11. ASSUME FwNext, link = "down" PROVE BalancedInv'
    <2>1. CASE FwRecvHeader \/ FwRecvDesc \/ FwRecvBuf
      BY <1>11, <2>1 DEF FwRecvHeader, FwRecvHdr, FwRecvDesc, FwRecvBuf, BalancedInv, qvars
    <2>2. CASE FwMisread \/ FwDescError \/ FwBufError
      BY <1>11, <2>2 DEF FwMisread, FwDescError, FwBufError, BalancedInv, qvars, fvars
    <2>3. CASE FwSwitchStep \/ FwSendDesc \/ FwSendBuf \/ FwSendError
      BY <1>11, <2>3 DEF FwSwitchStep, FwSendDesc, FwSendBuf, FwSend, FwSendError,
                         BalancedInv, qvars
    <2> QED
      BY <1>11, <2>1, <2>2, <2>3 DEF FwNext
  <1>12. ASSUME FwRecvHeader \/ FwMisread \/ FwRecvDesc \/ FwRecvBuf \/ FwDescError
                  \/ FwBufError,
                link = "up"
         PROVE  BalancedInv'
    <2>1. (Reading \/ Answering)' /\ UNCHANGED <<qvars, link>>
      BY <1>12, InvFwRecv
    <2>2. /\ echobuf' = echobuf
          /\ fpc \in FReceiving /\ fpc' \in FReceiving \cup {"switch"}
      BY <1>12 DEF FwRecvHeader, FwRecvHdr, FwMisread, FwRecvDesc, FwRecvBuf, FwDescError,
                   FwBufError, FReceiving, fvars
    <2>3. ~Answered'
      BY <1>2, <2>1 DEF Answering, Answered, FSending
    <2>4. ~echobuf
      BY <1>12, <2>2 DEF BalancedInv
    <2> QED
      BY <2>1, <2>2, <2>3, <2>4 DEF BalancedInv, qvars, FReceiving, FSending
  <1>13. ASSUME FwSwitchStep \/ FwSendDesc \/ FwSendBuf, link = "up"
         PROVE  BalancedInv'
    <2>1. fs /\ (Answering \/ Answered)' /\ UNCHANGED <<qvars, link>>
      BY <1>13, InvFwSend
    <2>2. Answering
      BY <1>13 DEF ChannelInv, LinkInv, Reading, Answered, FReceiving, FwSwitchStep,
                   FwSendDesc, FwSendBuf, FwSend
    <2>3. slot \in Commands /\ slot.datalen \in Nat
          /\ (slot.datalen > 0 <=> slot.opcode = aqc_echo)
      BY <2>2 DEF BalancedInv, Answering, QReceiving, Balanced, TypeOK, Desc
    <2>4. CASE FwSwitchStep
      <3>1. fdesc = slot /\ ~echobuf
        BY <1>13, <2>2, <2>4 DEF FwSwitchStep, Answering, BalancedInv
      <3>2. fpc' = "sendHdr" /\ echobuf' = (slot.opcode = aqc_echo)
        BY <2>4, <3>1 DEF FwSwitchStep
      <3> QED
        BY <2>1, <2>3, <3>2 DEF BalancedInv, qvars, Answered, FReceiving, FSending
    <2>5. echobuf = (slot.opcode = aqc_echo) \/ FwSwitchStep
      BY <1>13 DEF BalancedInv, FwSendDesc, FwSendBuf, FwSend, FSending
    <2>6. CASE FwSendDesc
      <3>1. echobuf' = echobuf /\ echobuf = (slot.opcode = aqc_echo) /\ dlen = slot.datalen
        BY <2>2, <2>5, <2>6 DEF FwSendDesc, FwSwitchStep, FwSend, Answering
      <3>2. CASE fpc' = "sendDesc" \/ fpc' = "sendBufHdr"
        BY <2>1, <2>3, <3>1, <3>2 DEF BalancedInv, qvars, Answered, FReceiving, FSending
      <3>3. CASE fpc' = "recvHdr"
        <4>1. ~echobuf /\ ~(slot.datalen > 0)
          BY <2>3, <2>6, <3>1, <3>3 DEF FwSendDesc, FwSend
        <4>2. Whole' = 2
          BY <2>1, <4>1 DEF Whole, qvars
        <4>3. Answered' => s2c' = Chunk(Answer', QTaken', Whole')
          BY <4>2 DEF Answered
        <4> QED
          BY <2>1, <2>3, <3>1, <3>3, <4>1, <4>3 DEF BalancedInv, qvars, FReceiving, FSending
      <3> QED
        BY <2>6, <3>2, <3>3 DEF FwSendDesc, FwSend
    <2>7. CASE FwSendBuf
      <3>1. CASE fpc = "sendBufHdr"
        <4>1. fpc' = "sendBuf" /\ echobuf' = echobuf
          BY <2>7, <3>1 DEF FwSendBuf, FwSend
        <4>2. echobuf = (slot.opcode = aqc_echo)
          BY <2>5, <3>1 DEF FwSwitchStep
        <4> QED
          BY <2>1, <2>3, <4>1, <4>2 DEF BalancedInv, qvars, Answered, FReceiving, FSending
      <3>2. CASE fpc = "sendBuf"
        <4>1. /\ fpc' = "recvHdr" /\ echobuf' = FALSE
              /\ s2c' = Append(s2c, DataSeg(dlen, fbuf))
          BY <1>13, <2>7, <3>2 DEF FwSendBuf, FwSend
        <4>2. /\ s2c = Chunk(Answer, QTaken, 3) /\ QTaken <= 3
              /\ DataSeg(dlen, fbuf) = Answer[4] /\ slot.datalen > 0
          BY <2>2, <3>2, AnswerFacts DEF Answering, FSent
        <4>3. QTaken \in 0 .. 4
          BY DEF QTaken
        <4>4. \A x, y, z \in 0 .. 4 : x <= y /\ y < z /\ z <= y + 1 =>
                 Append(Chunk(Answer, x, y), Answer[z]) = Chunk(Answer, x, z)
          BY AnswerFacts DEF ChunkFacts
        <4>5. s2c' = Chunk(Answer, QTaken, 4)
          <5>1. Append(Chunk(Answer, QTaken, 3), Answer[4]) = Chunk(Answer, QTaken, 4)
            <6>1. PICK y \in 0 .. 4 : y = 3
              OBVIOUS
            <6>2. PICK z \in 0 .. 4 : z = 4
              OBVIOUS
            <6>3. Append(Chunk(Answer, QTaken, y), Answer[z]) = Chunk(Answer, QTaken, z)
              <7>1. QTaken <= y /\ y < z /\ z <= y + 1
                BY <4>2, <6>1, <6>2
              <7> QED
                BY ONLY <4>3, <4>4, <7>1, y \in 0 .. 4, z \in 0 .. 4
            <6> QED
              BY ONLY <6>1, <6>2, <6>3
          <5> QED
            BY ONLY <4>1, <4>2, <5>1
        <4>6. Whole' = 4 /\ Answer' = Answer /\ QTaken' = QTaken
          BY <2>1, <4>2 DEF Whole, Answer, QTaken, qvars
        <4> QED
          BY <2>1, <2>3, <4>1, <4>5, <4>6 DEF BalancedInv, qvars, FReceiving, FSending
      <3> QED
        BY <2>7, <3>1, <3>2 DEF FwSendBuf, FwSend
    <2> QED
      BY <1>13, <2>4, <2>6, <2>7
  <1>14. CASE Break \/ FwCrash \/ FwRestart
    <2>1. link' = "down"
      <3>1. link = "up" => fpc # "off"
        BY DEF ChannelInv, LinkInv, Reading, Answering, Answered, FReceiving, FSending
      <3> QED
        BY <1>14, <3>1 DEF Break, FwCrash, FwRestart, TypeOK
    <2>2. qpc' = qpc /\ slot' = slot
      BY <1>14 DEF Break, FwCrash, FwRestart, qvars
    <2>3. fpc' = "announce" => ~echobuf'
      <3>1. CASE Break
        BY <3>1 DEF Break, fvars, BalancedInv
      <3>2. CASE FwCrash \/ FwRestart
        BY <3>2 DEF FwCrash, FwRestart
      <3> QED
        BY <1>14, <3>1, <3>2
    <2> QED
      BY <2>1, <2>2, <2>3 DEF BalancedInv
  <1>15. CASE QemuNext
    BY <1>3, <1>5, <1>6, <1>9, <1>10, <1>15
       DEF QemuNext, LocateExpires, QemuSendError, QemuRecvError, Fallback
  <1>16. CASE FwNext
    <2>1. CASE link = "down"
      BY <1>11, <1>16, <2>1
    <2>2. CASE link = "up"
      BY <1>12, <1>13, <1>16, <2>2 DEF FwNext, FwSendError
    <2> QED
      BY <2>1, <2>2 DEF TypeOK
  <1>17. CASE Env
    BY <1>3, <1>4, <1>14, <1>17 DEF Env, LocateError, Fallback
  <1>18. CASE UNCHANGED vars
    BY <1>18 DEF vars, qvars, fvars, BalancedInv, Answered, QTaken, Whole, Answer
  <1> QED
    BY <1>15, <1>16, <1>17, <1>18 DEF Next

\* Then one of the two always has something to read, or something to send.
LEMMA BalancedWait ==
    TypeOK /\ ChannelInv /\ BalancedInv => NoMutualWait
  <1> SUFFICES ASSUME TypeOK, ChannelInv, BalancedInv, link = "up",
                      qpc \in QReceiving, s2c = <<>>, fpc \in FReceiving, c2s = <<>>
               PROVE  FALSE
    BY DEF NoMutualWait
  <1>1. Whole \in {2, 4} /\ (slot.datalen > 0 => Whole = 4)
    BY DEF Whole
  <1>2. ~Answering
    BY DEF Answering, FReceiving, FSending
  <1>3. CASE Reading
    <2>1. QSent = Whole /\ FTaken \in 0 .. 3 /\ FTaken < Whole
      BY <1>1, <1>3 DEF Reading, QSent, FTaken, QReceiving, QSending
    <2>2. \A j, k, l \in 0 .. 4 : j < l /\ l <= j + 1 /\ l <= k =>
             /\ Chunk(Request, j, k) # <<>>
             /\ Head(Chunk(Request, j, k)) = Request[l]
             /\ Tail(Chunk(Request, j, k)) = Chunk(Request, l, k)
      BY RequestFacts DEF ChunkFacts
    <2>3. PICK l \in 0 .. 4 : FTaken < l /\ l <= FTaken + 1 /\ l <= Whole
      <3>1. FTaken + 1 \in 0 .. 4 /\ FTaken < FTaken + 1 /\ FTaken + 1 <= Whole
        BY <1>1, <2>1
      <3> QED
        BY <2>1, <3>1
    <2>4. Chunk(Request, FTaken, Whole) # <<>>
      <3>1. FTaken \in 0 .. 4 /\ Whole \in 0 .. 4
        BY <1>1, <2>1
      <3> QED
        BY ONLY <2>2, <2>3, <3>1, l \in 0 .. 4
    <2> QED
      BY <1>3, <2>1, <2>4 DEF Reading
  <1>4. CASE Answered
    <2>1. s2c = Chunk(Answer, QTaken, Whole)
      BY <1>4 DEF BalancedInv
    <2>2. QTaken \in 0 .. 3 /\ QTaken < Whole
      BY <1>1 DEF QTaken, QReceiving, ChannelInv, QemuInv
    <2>3. \A j, k, l \in 0 .. 4 : j < l /\ l <= j + 1 /\ l <= k =>
             /\ Chunk(Answer, j, k) # <<>>
             /\ Head(Chunk(Answer, j, k)) = Answer[l]
             /\ Tail(Chunk(Answer, j, k)) = Chunk(Answer, l, k)
      BY AnswerFacts DEF ChunkFacts
    <2>4. PICK l \in 0 .. 4 : QTaken < l /\ l <= QTaken + 1 /\ l <= Whole
      <3>1. QTaken + 1 \in 0 .. 4 /\ QTaken < QTaken + 1 /\ QTaken + 1 <= Whole
        BY <1>1, <2>2
      <3> QED
        BY <2>2, <3>1
    <2>5. Chunk(Answer, QTaken, Whole) # <<>>
      <3>1. QTaken \in 0 .. 4 /\ Whole \in 0 .. 4
        BY <1>1, <2>2
      <3> QED
        BY ONLY <2>3, <2>4, <3>1, l \in 0 .. 4
    <2> QED
      BY <2>1, <2>5
  <1> QED
    BY <1>2, <1>3, <1>4 DEF ChannelInv, LinkInv

\* If the driver attaches a buffer to echo commands and to no other, as
\* e1000_aq_echo and e1000_aq_get_firmware_version do, the device's handler
\* and the firmware thread are never both blocked in recvdata.
THEOREM NoMutualWaitHolds ==
    ASSUME ~ShortReads, Balanced
    PROVE  Spec => []NoMutualWait
  <1>1. Init => BalancedInv
    BY DEF Init, BalancedInv
  <1> QED
    BY <1>1, BalancedStep, BalancedWait, ChannelTypes, ChannelInvariant, PTL DEF Spec
=============================================================================
