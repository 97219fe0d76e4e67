--------------------------- MODULE NetQueueProofs ---------------------------
(***************************************************************************)
(* Proofs about NetQueue, for every machine: any number of TAP backends,   *)
(* on a VLAN or as two peers, with any number of packets.                  *)
(***************************************************************************)
EXTENDS NetQueue, SequenceTheorems, FiniteSetTheorems, TLAPS

-----------------------------------------------------------------------------
(* The inductive invariants *)

\* Only the innermost call can be between two packets, each call works on a
\* queue of its own, and none will return 0 once it flushes.
StackInv ==
    /\ \A i, j \in DOMAIN stack : stack[i].q = stack[j].q => i = j
    /\ \A i \in DOMAIN stack :
          /\ stack[i].p = NoOne => i = 1 /\ stack[i].flush /\ stack[i].ret = "err"
          /\ stack[i].p # NoOne => \A k \in DOMAIN stack[i].todo :
                QueueFrom(stack[i].todo[k]) = stack[i].q
          /\ stack[i].val # "zero"

\* The host supplies Max packets at the most, and there is one to read where
\* select() said so.
HostInv ==
    /\ \A t \in Taps : sent[t] + wire[t] + left[t] <= Max
    /\ told => \A t \in rfds : wire[t] > 0
    /\ reader # NoOne => told /\ reader \notin rfds

\* A packet of the queue q is a packet sent to it, by a client that is there,
\* and it has a callback if that is a TAP.
Owned(p, q) ==
    QueueTo(p.from) = q /\ p.from \in alive /\ (p.cb <=> p.from \in Taps)

\* Only a TAP is ever removed; it does not poll its descriptor then, and has left
\* no packet behind.
OwnerInv ==
    /\ Clients \ Tap \subseteq alive
    /\ \A t \in Taps : read_poll[t] => t \in alive
    /\ reader # NoOne => read_poll[reader]
    /\ \A q \in Queues : \A i \in DOMAIN queue[q] : Owned(queue[q][i], q)
    /\ \A i \in DOMAIN stack : stack[i].p # NoOne => Owned(stack[i].p, stack[i].q)

-----------------------------------------------------------------------------
(* The machine *)

\* No packet is NoOne.
LEMMA PacketType == ASSUME net \in Networks PROVE NoOne \notin Packet
  <1>1. Clients \subseteq Known /\ Max \in Nat
    BY NetAssumption, ElementOfSeq DEF Clients, Max
  <1>2. \A p \in Packet : p \in [from : Known, id : Nat, cb : BOOLEAN]
    BY <1>1 DEF Packet
  <1> QED
    BY <1>2, NetAssumption

\* Two peers are each other's, and every client sends to a queue.
LEMMA NetFacts ==
    ASSUME net \in Networks
    PROVE  /\ net.vlan \in BOOLEAN /\ Max \in Nat /\ NoOne \notin Clients
           /\ net.order \in Seq(Clients) /\ Taps \subseteq Clients
           /\ \A c \in Clients : QueueTo(c) \in Queues /\ QueueFrom(c) \in Queues
           /\ ~net.vlan => \A c \in Clients : Peer(c) \in Clients /\ Peer(c) # c
           /\ ~net.vlan => \A c, d \in Clients : d # c => d = Peer(c)
  <1>1. /\ net.order \in Seq(Known) /\ net.vlan \in BOOLEAN /\ net.max \in Nat /\ NoOne \notin Known
        /\ \A i, j \in DOMAIN net.order : net.order[i] = net.order[j] => i = j
        /\ ~net.vlan => Len(net.order) = 2
    BY NetAssumption
  <1>2. net.order \in Seq(Clients) /\ Clients \subseteq Known
    <2>1. /\ Len(net.order) \in Nat /\ DOMAIN net.order = 1 .. Len(net.order)
          /\ net.order \in [1 .. Len(net.order) -> Known]
      BY <1>1, LenProperties
    <2>2. net.order \in [1 .. Len(net.order) -> Clients]
      BY <2>1 DEF Clients
    <2>3. net.order \in Seq(Clients)
      BY <2>1, <2>2
    <2> QED
      BY <2>1, <2>3 DEF Clients
  <1>3. ASSUME ~net.vlan
        PROVE  /\ \A c \in Clients : Peer(c) \in Clients /\ Peer(c) # c
               /\ \A c, d \in Clients : d # c => d = Peer(c)
    <2>1. /\ DOMAIN net.order = {1, 2} /\ net.order[1] # net.order[2]
      BY <1>1, <1>3
    <2>2. Clients = {net.order[1], net.order[2]}
      BY <2>1 DEF Clients
    <2>3. \A c \in Clients : \E d \in Clients : d # c
      BY <2>1, <2>2
    <2>4. \A c \in Clients : Peer(c) \in Clients /\ Peer(c) # c
      BY <2>3 DEF Peer
    <2> QED
      BY <2>2, <2>4
  <1>4. \A c \in Clients : QueueTo(c) \in Queues /\ QueueFrom(c) \in Queues
    BY <1>3 DEF QueueTo, QueueFrom, Queues
  <1> QED
    BY <1>1, <1>2, <1>3, <1>4 DEF Max, Taps

-----------------------------------------------------------------------------
(* Selecting from a sequence *)

\* At(seq, I) has the elements at the positions I, and has them in order.
LEMMA AtFacts ==
    ASSUME NEW S, NEW seq \in Seq(S), NEW I \in SUBSET (DOMAIN seq)
    PROVE  /\ Cardinality(I) \in Nat
           /\ At(seq, I) \in Seq(S) /\ DOMAIN At(seq, I) = 1 .. Cardinality(I)
           /\ \A i \in I : \E k \in DOMAIN At(seq, I) : At(seq, I)[k] = seq[i]
           /\ \A k \in DOMAIN At(seq, I) : \E i \in I : At(seq, I)[k] = seq[i]
           /\ \A k, l \in DOMAIN At(seq, I) : k < l =>
                 \E i, j \in I : i < j /\ At(seq, I)[k] = seq[i] /\ At(seq, I)[l] = seq[j]
  <1> DEFINE Rank(i) == Cardinality({j \in I : j <= i})
             g == [k \in 1 .. Cardinality(I) |-> CHOOSE i \in I : Rank(i) = k]
  <1>1. DOMAIN seq = 1 .. Len(seq) /\ Len(seq) \in Nat /\ \A i \in I : i \in Nat
    BY LenProperties
  <1>2. IsFiniteSet(I) /\ Cardinality(I) \in Nat
    <2>1. IsFiniteSet(1 .. Len(seq))
      BY <1>1, FS_Interval
    <2> QED
      BY <1>1, <2>1, FS_Subset, FS_CardinalityType
  <1>3. \A i \in I : IsFiniteSet({j \in I : j <= i}) /\ Rank(i) \in Nat
    <2>1. TAKE i \in I
    <2>2. {j \in I : j <= i} \subseteq I
      OBVIOUS
    <2> QED
      BY <1>2, <2>2, FS_Subset, FS_CardinalityType
  <1>4. ASSUME NEW i \in I, NEW j \in I, i < j PROVE Rank(i) < Rank(j)
    <2> DEFINE A == {k \in I : k <= i}
               B == {k \in I : k <= j}
    <2>1. A \subseteq B /\ j \in B /\ j \notin A
      BY <1>1, <1>4
    <2>2. IsFiniteSet(B) /\ Cardinality(A) \in Nat /\ Cardinality(B) \in Nat
      BY <1>3, Zenon
    <2> HIDE DEF A, B
    <2>3. Cardinality(A) <= Cardinality(B) /\ Cardinality(A) # Cardinality(B)
      BY <2>1, <2>2, FS_Subset
    <2>4. Cardinality(A) < Cardinality(B)
      BY <2>2, <2>3
    <2> QED
      BY <2>4 DEF A, B
  <1>5. \A i \in I : Rank(i) \in 1 .. Cardinality(I)
    <2>1. TAKE i \in I
    <2> DEFINE A == {j \in I : j <= i}
    <2>2. i \in A /\ A \subseteq I
      BY <1>1
    <2>3. IsFiniteSet(A) /\ Cardinality(A) \in Nat
      BY <1>3, Zenon
    <2> HIDE DEF A
    <2>4. Cardinality(A) <= Cardinality(I)
      BY <1>2, <2>2, FS_Subset
    <2>5. Cardinality(A) # 0
      BY <2>2, <2>3, FS_EmptySet
    <2>6. Cardinality(A) \in 1 .. Cardinality(I)
      BY <1>2, <2>3, <2>4, <2>5
    <2> QED
      BY <2>6 DEF A
  <1>6. \A i, j \in I : Rank(i) = Rank(j) => i = j
    <2>1. TAKE i, j \in I
    <2>2. i < j \/ j < i \/ i = j
      BY <1>1
    <2>3. Rank(i) \in Nat /\ Rank(j) \in Nat
      BY <1>3, Zenon
    <2>4. (i < j => Rank(i) < Rank(j)) /\ (j < i => Rank(j) < Rank(i))
      BY <1>4
    <2> HIDE DEF Rank
    <2> QED
      BY <2>2, <2>3, <2>4
  <1> HIDE DEF Rank
  <1>7. \A k \in 1 .. Cardinality(I) : \E i \in I : Rank(i) = k
    <2> DEFINE R == {Rank(i) : i \in I}
               r == [i \in I |-> Rank(i)]
    <2>1. R \subseteq 1 .. Cardinality(I)
      BY <1>5
    <2>2. IsFiniteSet(1 .. Cardinality(I)) /\ Cardinality(1 .. Cardinality(I)) = Cardinality(I)
      BY <1>2, FS_Interval
    <2>3. ExistsBijection(I, R)
      <3>1. r \in [I -> R] /\ \A i, j \in I : r[i] = r[j] => i = j
        BY <1>6
      <3>2. \A x \in R : \E i \in I : r[i] = x
        OBVIOUS
      <3>3. r \in Bijection(I, R)
        <4> HIDE DEF r, R
        <4> QED
          BY <3>1, <3>2 DEF Bijection, Injection, Surjection, IsInjective
      <3> QED
        BY <3>3 DEF ExistsBijection
    <2>4. Cardinality(R) = Cardinality(I)
      <3> HIDE DEF R
      <3> QED
        BY <1>2, <2>3, FS_Bijection
    <2>5. R = 1 .. Cardinality(I)
      <3> HIDE DEF R
      <3> QED
        BY <2>1, <2>2, <2>4, FS_Subset, Zenon
    <2> QED
      BY <2>5
  <1>8. \A k \in 1 .. Cardinality(I) : g[k] \in I /\ Rank(g[k]) = k
    BY <1>7
  <1>9. At(seq, I) = [k \in 1 .. Cardinality(I) |-> seq[g[k]]]
    BY DEF At, Rank
  <1> HIDE DEF g
  <1>10. g \in [1 .. Cardinality(I) -> I]
    <2>1. g = [k \in 1 .. Cardinality(I) |-> g[k]]
      BY DEF g
    <2> QED
      BY <1>8, <2>1
  <1>11. \A k \in 1 .. Cardinality(I) : At(seq, I)[k] = seq[g[k]] /\ seq[g[k]] \in S
    <2>1. TAKE k \in 1 .. Cardinality(I)
    <2>2. g[k] \in DOMAIN seq
      BY <1>8
    <2> QED
      BY <1>1, <1>9, <2>2, ElementOfSeq
  <1>12. At(seq, I) \in Seq(S) /\ DOMAIN At(seq, I) = 1 .. Cardinality(I)
    BY <1>2, <1>9, <1>11
  <1>13. ASSUME NEW k \in 1 .. Cardinality(I), NEW l \in 1 .. Cardinality(I), k < l
         PROVE  g[k] < g[l]
    <2>1. g[k] \in Nat /\ g[l] \in Nat /\ g[k] # g[l]
      BY <1>1, <1>2, <1>8, <1>13
    <2>2. g[l] < g[k] => l < k
      BY <1>4, <1>8
    <2> QED
      BY <1>2, <1>13, <2>1, <2>2
  <1>14. \A i \in I : \E k \in 1 .. Cardinality(I) : g[k] = i
    BY <1>5, <1>6, <1>8
  <1>15. \A i \in I : \E k \in DOMAIN At(seq, I) : At(seq, I)[k] = seq[i]
    BY <1>11, <1>12, <1>14
  <1>16. \A k \in DOMAIN At(seq, I) : \E i \in I : At(seq, I)[k] = seq[i]
    BY <1>8, <1>11, <1>12
  <1>17. ASSUME NEW k \in DOMAIN At(seq, I), NEW l \in DOMAIN At(seq, I), k < l
         PROVE  \E i, j \in I : i < j /\ At(seq, I)[k] = seq[i] /\ At(seq, I)[l] = seq[j]
    <2>1. /\ g[k] \in I /\ g[l] \in I /\ g[k] < g[l]
          /\ At(seq, I)[k] = seq[g[k]] /\ At(seq, I)[l] = seq[g[l]]
      BY <1>8, <1>11, <1>12, <1>13, <1>17
    <2> QED
      BY <2>1
  <1> QED
    BY <1>2, <1>12, <1>15, <1>16, <1>17

-----------------------------------------------------------------------------
(* Calls in progress *)

\* A call is made.
LEMMA Pushed ==
    ASSUME NEW S, NEW st \in Seq(S), NEW f \in S
    PROVE  /\ <<f>> \o st \in Seq(S) /\ Len(st) \in Nat /\ Len(<<f>> \o st) = Len(st) + 1
           /\ DOMAIN st = 1 .. Len(st) /\ DOMAIN (<<f>> \o st) = 1 .. Len(st) + 1
           /\ (<<f>> \o st)[1] = f
           /\ \A i \in 1 .. Len(st) : (<<f>> \o st)[i + 1] = st[i]
  OBVIOUS

\* The innermost call returns.
LEMMA Popped ==
    ASSUME NEW S, NEW st \in Seq(S), st # <<>>
    PROVE  /\ Tail(st) \in Seq(S) /\ Len(st) \in Nat /\ Len(st) > 0
           /\ DOMAIN st = 1 .. Len(st) /\ Len(Tail(st)) = Len(st) - 1
           /\ DOMAIN Tail(st) = 1 .. Len(st) - 1 /\ Head(st) = st[1] /\ st[1] \in S
           /\ \A i \in 1 .. Len(st) - 1 : Tail(st)[i] = st[i + 1]
  OBVIOUS

\* The innermost call changes.
LEMMA Replaced ==
    ASSUME NEW S, NEW st \in Seq(S), st # <<>>, NEW f \in S
    PROVE  /\ [st EXCEPT ![1] = f] \in Seq(S) /\ Len(st) \in Nat /\ Len(st) > 0
           /\ DOMAIN st = 1 .. Len(st) /\ DOMAIN [st EXCEPT ![1] = f] = 1 .. Len(st)
           /\ Len([st EXCEPT ![1] = f]) = Len(st) /\ [st EXCEPT ![1] = f][1] = f
           /\ \A i \in 2 .. Len(st) : [st EXCEPT ![1] = f][i] = st[i]
  OBVIOUS

\* A packet's targets are the readers of its queue.
LEMMA TargetsType ==
    ASSUME TypeOK, NEW q \in Queues, NEW s
    PROVE  /\ Targets(q, s) \in Seq(Clients)
           /\ \A k \in DOMAIN Targets(q, s) : QueueFrom(Targets(q, s)[k]) = q
  <1>0. net \in Networks /\ net.order \in Seq(Clients)
    BY NetFacts DEF TypeOK
  <1>1. CASE net.vlan
    <2> DEFINE I == {i \in DOMAIN net.order : net.order[i] \in alive \ {s}}
    <2>1. Targets(q, s) = At(net.order, I) /\ I \in SUBSET (DOMAIN net.order)
      BY <1>1 DEF Targets
    <2> HIDE DEF I
    <2>2. Targets(q, s) \in Seq(Clients)
      BY <1>0, <2>1, AtFacts
    <2> QED
      BY <1>1, <2>2 DEF QueueFrom, Queues
  <1>2. CASE ~net.vlan
    <2>1. Targets(q, s) = <<q>> /\ q \in Clients
      BY <1>2 DEF Targets, Queues
    <2> QED
      BY <1>2, <2>1 DEF QueueFrom
  <1> QED
    BY <1>1, <1>2

\* The call of a client that sends.
LEMMA SendCall ==
    ASSUME TypeOK, NEW q \in Queues, NEW p \in Packet
    PROVE  \E f \in Frame : /\ f = Call(q, p, FALSE, "err") /\ p # NoOne /\ f.q = q /\ f.p = p
                            /\ f.flush = FALSE /\ f.val = "err" /\ f.ret = "err"
                            /\ f.todo = Targets(q, p.from)
  <1>1. Targets(q, p.from) \in Seq(Clients)
    BY TargetsType
  <1>2. p # NoOne
    BY PacketType DEF TypeOK
  <1>3. PICK f : f = Call(q, p, FALSE, "err")
    BY Zenon
  <1>4. f \in Frame
    BY <1>1, <1>3 DEF Call, Frame, Sizes
  <1>5. /\ f.q = q /\ f.p = p /\ f.flush = FALSE /\ f.val = "err" /\ f.ret = "err"
        /\ f.todo = Targets(q, p.from)
    BY <1>3 DEF Call
  <1> QED
    BY <1>2, <1>3, <1>4, <1>5, Zenon

\* The frame of a round of a flush.
FlushFrame(q, p, v) == Call(q, p, TRUE, v)

\* It has the packet and the readers of the queue.
LEMMA FlushCall ==
    ASSUME TypeOK, NEW q \in Queues, NEW p \in Packet, NEW v \in Sizes
    PROVE  \E f \in Frame : /\ f = FlushFrame(q, p, v) /\ p # NoOne /\ f.q = q /\ f.p = p
                            /\ f.flush /\ f.val = v /\ f.ret = "err"
                            /\ f.todo = Targets(q, p.from)
  <1>1. Targets(q, p.from) \in Seq(Clients)
    BY TargetsType
  <1>2. p # NoOne
    BY PacketType DEF TypeOK
  <1>3. PICK f : f = FlushFrame(q, p, v)
    OBVIOUS
  <1>4. f \in Frame
    BY <1>1, <1>3 DEF FlushFrame, Call, Frame, Sizes
  <1>5. /\ f.q = q /\ f.p = p /\ f.flush /\ f.val = v /\ f.ret = "err"
        /\ f.todo = Targets(q, p.from)
    BY <1>3 DEF FlushFrame, Call
  <1> QED
    BY <1>2, <1>3, <1>4, <1>5

-----------------------------------------------------------------------------
(* The kinds of step *)

\* A client answers the innermost call: its link is down, it could not write
\* before, it takes or refuses the packet, or it cannot write now.
AnswerStep ==
    /\ Offering
    /\ \E r \in Sizes :
          /\ stack' = Answered(r)
          /\ \/ /\ link_down[Client] /\ r = "size" /\ See(Client)
                /\ UNCHANGED <<receive_disabled, write_poll>>
             \/ /\ ~link_down[Client] /\ receive_disabled[Client] /\ r = "zero"
                /\ UNCHANGED <<receive_disabled, write_poll, seen>>
             \/ /\ ~link_down[Client] /\ ~receive_disabled[Client]
                /\ r = First("size") \/ r = First("err")
                /\ See(Client) /\ UNCHANGED <<receive_disabled, write_poll>>
             \/ /\ ~link_down[Client] /\ ~receive_disabled[Client] /\ r = First("zero")
                /\ Client \in Taps \cap alive
                /\ receive_disabled' = [receive_disabled EXCEPT ![Client] = TRUE]
                /\ write_poll' = [write_poll EXCEPT ![Client] = TRUE]
                /\ UNCHANGED seen
    /\ UNCHANGED <<net, queue, delivering, reader, size, read_poll, alive, link_down, sent>>

\* A client sends: a TAP in tap_send, or another one.
SendStep(s, cb) ==
    /\ s \in Clients /\ cb \in BOOLEAN /\ sent[s] < Max
    /\ Send(s, cb, stack)
    /\ \/ /\ cb /\ s \in Taps /\ stack = <<>> /\ read_poll[s] /\ reader' = s
          /\ reader = NoOne \/ (reader = s /\ size # "zero")
       \/ ~cb /\ s \notin Tap /\ UNCHANGED reader /\ (Idle \/ (Offering /\ s = User /\ Client = User))
    /\ UNCHANGED <<net, read_poll, write_poll, receive_disabled, alive, link_down, seen>>

\* Everything else leaves the queues and the calls alone.
QuietStep ==
    /\ UNCHANGED <<net, queue, delivering, stack, size, receive_disabled, alive, sent, seen>>
    /\ \/ UNCHANGED <<reader, read_poll>>
       \/ /\ stack = <<>> /\ reader # NoOne /\ reader' = NoOne
          /\ read_poll' = [read_poll EXCEPT ![reader] = @ /\ size # "zero"]
    /\ link_down' = link_down \/ Idle
    /\ write_poll' = write_poll

\* Every step is of one of these kinds.
LEMMA Steps ==
    ASSUME TypeOK, HostInv, OwnerInv, [Next]_vars
    PROVE  \/ AnswerStep
           \/ \E s \in Clients, cb \in BOOLEAN : SendStep(s, cb)
           \/ Sent \/ FlushNext \/ Flushed
           \/ \E t \in Taps : TapWritable(t) \/ Remove(t)
           \/ QuietStep
  <1>0. /\ Taps \subseteq Clients /\ Max \in Nat /\ NoOne \notin Clients
        /\ \A t \in Taps : sent[t] \in Nat /\ wire[t] \in Nat /\ left[t] \in Nat
        /\ sent \in [Clients -> 0 .. Max]
    BY NetFacts DEF TypeOK
  <1>1. Offering => \A d \in Sizes : First(d) \in Sizes
    <2>1. Offering => Top \in Frame
      BY Popped DEF Offering, Top, TypeOK
    <2> QED
      BY <2>1 DEF First, Frame
  <1>2. CASE OfferDown \/ OfferDisabled
    BY <1>2 DEF OfferDown, OfferDisabled, AnswerStep, Sizes, pvars, cvars
  <1>3. ASSUME NEW t \in Taps, tap_receive(t) PROVE AnswerStep
    <2>1. /\ Offering /\ t = Client /\ ~link_down[Client] /\ ~receive_disabled[Client]
          /\ "size" \in Sizes /\ "err" \in Sizes /\ "zero" \in Sizes
      BY <1>3 DEF tap_receive, Receiving, Sizes
    <2>2. CASE room[t] > 0 \/ t \notin alive
      <3>1. /\ stack' = Answered(First("size")) \/ stack' = Answered(First("err"))
            /\ See(Client) /\ UNCHANGED <<write_poll, receive_disabled>>
        BY <1>3, <2>1, <2>2 DEF tap_receive
      <3> QED
        BY <1>1, <1>3, <2>1, <3>1 DEF tap_receive, AnswerStep
    <2>3. CASE ~(room[t] > 0 \/ t \notin alive)
      <3>1. /\ stack' = Answered(First("zero")) /\ Client \in Taps \cap alive /\ UNCHANGED seen
            /\ receive_disabled' = [receive_disabled EXCEPT ![Client] = TRUE]
            /\ write_poll' = [write_poll EXCEPT ![Client] = TRUE]
        BY <1>3, <2>1, <2>3 DEF tap_receive, WritePoll
      <3> QED
        BY <1>1, <1>3, <2>1, <3>1 DEF tap_receive, AnswerStep
    <2> QED
      BY <2>2, <2>3
  <1>4. CASE e1000_receive
    <2>1. /\ Offering /\ ~link_down[Client] /\ ~receive_disabled[Client]
          /\ stack' = Answered(First("size")) \/ stack' = Answered(First("err"))
          /\ See(Client) /\ "size" \in Sizes /\ "err" \in Sizes
      BY <1>4 DEF e1000_receive, Receiving, Sizes
    <2> QED
      BY <1>1, <1>4, <2>1 DEF e1000_receive, AnswerStep, pvars, cvars
  <1>5. CASE net_slirp_receive
    <2>1. Offering /\ User = Client /\ "size" \in Sizes /\ ~link_down[Client] /\ ~receive_disabled[Client]
      BY <1>5 DEF net_slirp_receive, Receiving, Sizes
    <2>2. ASSUME stack' = Answered(First("size")), See(User), UNCHANGED <<queue, delivering, size, sent>>
          PROVE  AnswerStep
      BY <1>1, <1>5, <2>1, <2>2 DEF net_slirp_receive, AnswerStep, cvars
    <2>3. ASSUME sent[User] < Max, Send(User, FALSE, stack), UNCHANGED seen
          PROVE  \E s \in Clients, cb \in BOOLEAN : SendStep(s, cb)
      <3>1. User \in Clients /\ User \notin Tap
        <4>1. Top.todo \in Seq(Clients) /\ Top.todo # <<>>
          <5>1. Top \in Frame
            BY <2>1, Popped DEF Offering, Top, TypeOK
          <5> QED
            BY <2>1, <5>1 DEF Offering, Frame
        <4>2. User \in Clients
          BY <2>1, <4>1, Popped DEF Client
        <4> QED
          BY <4>2, NetAssumption
      <3>2. SendStep(User, FALSE)
        BY <1>5, <2>1, <2>3, <3>1, Zenon DEF net_slirp_receive, SendStep, cvars
      <3> QED
        BY <3>1, <3>2, Zenon
    <2> QED
      BY <1>5, <2>2, <2>3, Zenon DEF net_slirp_receive
  <1>6. ASSUME NEW t \in Taps, Idle, told, t \in rfds, read_poll[t], reader' = t, tap_read(t),
               UNCHANGED <<read_poll, write_poll, cvars, seen>>
        PROVE  \E s \in Clients, cb \in BOOLEAN : SendStep(s, cb)
    <2>1. wire[t] > 0 /\ sent[t] + wire[t] + left[t] <= Max
      BY <1>6 DEF HostInv
    <2>2. sent[t] < Max
      BY <1>0, <2>1
    <2>3. SendStep(t, TRUE)
      BY <1>0, <1>6, <2>2, Zenon DEF SendStep, tap_read, cvars, Idle
    <2> QED
      BY <1>0, <2>3, Zenon
  <1>7. ASSUME NEW t \in Taps, TapSend(t)
        PROVE  \E s \in Clients, cb \in BOOLEAN : SendStep(s, cb)
    BY <1>6, <1>7 DEF TapSend, Idle
  <1>8. CASE TapSendLoop
    <2>1. reader \in Taps /\ read_poll[reader] /\ stack = <<>> /\ reader # NoOne
      BY <1>8 DEF TapSendLoop, TypeOK, OwnerInv
    <2>2. CASE size = "size" /\ qemu_can_send_packet(reader) /\ wire[reader] > 0
      <3>1. sent[reader] < Max
        BY <1>0, <2>1, <2>2 DEF HostInv
      <3>2. Send(reader, TRUE, <<>>) /\ UNCHANGED <<reader, read_poll, write_poll, cvars, seen>>
        BY <1>8, <2>2, Zenon DEF TapSendLoop, tap_read
      <3>3. SendStep(reader, TRUE)
        BY <1>0, <2>1, <2>2, <3>1, <3>2, Zenon DEF SendStep, cvars
      <3> QED
        BY <1>0, <2>1, <3>3, Zenon
    <2>3. CASE ~(size = "size" /\ qemu_can_send_packet(reader) /\ wire[reader] > 0)
      BY <1>8, <2>1, <2>3 DEF TapSendLoop, QuietStep, qvars, cvars
    <2> QED
      BY <2>2, <2>3
  <1>9. ASSUME NEW s \in {Nic, User}, s \in Clients, Idle, sent[s] < Max, Send(s, FALSE, <<>>),
               UNCHANGED <<reader, read_poll, write_poll, cvars, seen>>
        PROVE  \E c \in Clients, cb \in BOOLEAN : SendStep(c, cb)
    <2>1. s \notin Tap
      BY NetAssumption
    <2>2. SendStep(s, FALSE)
      BY <1>9, <2>1, Zenon DEF SendStep, cvars, Idle
    <2> QED
      BY <1>9, <2>2, Zenon
  <1>10. CASE NicXmit \/ slirp_output
    BY <1>9, <1>10, Zenon DEF NicXmit, slirp_output
  <1>11. CASE Fill \/ Select \/ set_rx_control
    BY <1>11 DEF Fill, Select, set_rx_control, QuietStep, qvars, pvars, cvars
  <1>12. ASSUME NEW c \in Clients, do_set_link(c) PROVE QuietStep
    BY <1>12 DEF do_set_link, QuietStep, qvars, pvars
  <1>13. ASSUME NEW t \in Taps, HostSends(t) \/ HostReads(t) PROVE QuietStep
    BY <1>13 DEF HostSends, HostReads, QuietStep, qvars, pvars, cvars
  <1>14. CASE UNCHANGED vars
    BY <1>14 DEF vars, QuietStep, qvars, pvars, cvars
  <1>15. CASE Handler
    BY <1>2, <1>3, <1>4, <1>5, <1>8, <1>15 DEF Handler
  <1>16. CASE MainLoop
    BY <1>7, <1>11, <1>16 DEF MainLoop
  <1> QED
    BY <1>10, <1>11, <1>12, <1>13, <1>14, <1>15, <1>16 DEF Next

-----------------------------------------------------------------------------
(* Types *)

\* The frame of a call in progress.
LEMMA TopType ==
    ASSUME TypeOK, stack # <<>>
    PROVE  /\ Top \in Frame /\ stack \in Seq(Frame) /\ DOMAIN stack = 1 .. Len(stack)
           /\ Len(stack) \in Nat /\ 1 \in DOMAIN stack
           /\ Top.q \in Queues /\ Top.todo \in Seq(Clients) /\ Top.ret \in Sizes
           /\ Top.flush \in BOOLEAN /\ Top.val \in Sizes /\ (Top.p # NoOne => Top.p \in Packet)
  <1>1. /\ Top \in Frame /\ stack \in Seq(Frame) /\ DOMAIN stack = 1 .. Len(stack)
        /\ Len(stack) \in Nat /\ Len(stack) > 0
    BY Popped DEF TypeOK, Top
  <1> QED
    BY <1>1 DEF Frame

\* The innermost call after an answer.
LEMMA AnsweredTop ==
    ASSUME TypeOK, Offering, NEW r \in Sizes
    PROVE  \E f \in Frame :
              /\ Answered(r) = [stack EXCEPT ![1] = f]
              /\ f.q = Top.q /\ f.p = Top.p /\ f.todo = Tail(Top.todo) /\ f.ret = r
              /\ f.flush = Top.flush /\ f.val = Top.val
  <1> DEFINE f == [Top EXCEPT !.todo = Tail(@), !.ret = r]
  <1>1. stack # <<>> /\ Top.todo # <<>>
    BY DEF Offering
  <1>2. Tail(Top.todo) \in Seq(Clients)
    BY <1>1, TopType, Popped
  <1>3. f \in Frame
    BY <1>1, <1>2, TopType, Zenon DEF Frame
  <1>4. /\ f.q = Top.q /\ f.p = Top.p /\ f.todo = Tail(Top.todo) /\ f.ret = r
        /\ f.flush = Top.flush /\ f.val = Top.val
    BY <1>1, TopType DEF Frame
  <1>5. Answered(r) = [stack EXCEPT ![1] = f]
    BY <1>1, TopType, Zenon DEF Answered, Top, Frame
  <1> QED
    BY <1>3, <1>4, <1>5, Zenon

\* The innermost call when its delivery is over and it goes on to flush.
LEMMA FlushingTop ==
    ASSUME TypeOK, stack # <<>>, NEW v \in Sizes
    PROVE  \E f \in Frame :
              /\ Flushing(v) = [stack EXCEPT ![1] = f]
              /\ f.q = Top.q /\ f.p = NoOne /\ f.todo = Top.todo /\ f.ret = "err"
              /\ f.flush = TRUE /\ f.val = v
  <1> DEFINE f == [Top EXCEPT !.p = NoOne, !.ret = "err", !.flush = TRUE, !.val = v]
  <1>1. f \in Frame
    BY TopType, Zenon DEF Frame, Sizes
  <1>2. /\ f.q = Top.q /\ f.p = NoOne /\ f.todo = Top.todo /\ f.ret = "err"
        /\ f.flush = TRUE /\ f.val = v
    BY TopType DEF Frame
  <1>3. Flushing(v) = [stack EXCEPT ![1] = f]
    BY TopType, Zenon DEF Flushing, Top, Frame
  <1> QED
    BY <1>1, <1>2, <1>3, Zenon

\* The frame with which tap_writable flushes a queue.
WritableFrame(q) ==
    [q |-> q, p |-> NoOne, todo |-> <<>>, ret |-> "err", flush |-> TRUE, val |-> "err"]

\* It is a frame.
LEMMA WritableType ==
    ASSUME NEW q \in Queues PROVE WritableFrame(q) \in Frame
  BY EmptySeq DEF WritableFrame, Frame, Sizes

\* The packet a client sends.
New(s, cb) == [from |-> s, id |-> sent[s] + 1, cb |-> cb]

\* It is a packet, and goes to a queue.
LEMMA NewType ==
    ASSUME TypeOK, NEW s \in Clients, NEW cb \in BOOLEAN, sent[s] < Max
    PROVE  /\ New(s, cb) \in Packet /\ [New(s, cb) EXCEPT !.cb = FALSE] \in Packet
           /\ QueueTo(s) \in Queues /\ sent[s] + 1 \in 0 .. Max
  <1>1. Max \in Nat /\ sent[s] \in 0 .. Max /\ QueueTo(s) \in Queues
    BY NetFacts DEF TypeOK
  <1>2. sent[s] + 1 \in 1 .. Max
    BY <1>1
  <1>3. New(s, cb) \in Packet
    BY <1>2 DEF New, Packet
  <1>4. [New(s, cb) EXCEPT !.cb = FALSE] \in Packet
    BY <1>3, Zenon DEF Packet
  <1> QED
    BY <1>1, <1>2, <1>3, <1>4

\* What qemu_del_vlan_client leaves in a queue.
LEMMA PurgedFacts ==
    ASSUME TypeOK, NEW t \in Taps
    PROVE  /\ Purged(t) \in [Queues -> Seq(Packet)]
           /\ \A q \in Queues : q # QueueTo(t) => Purged(t)[q] = queue[q]
           /\ \A k \in DOMAIN Purged(t)[QueueTo(t)] :
                 /\ Purged(t)[QueueTo(t)][k].from # t
                 /\ \E i \in DOMAIN queue[QueueTo(t)] :
                       queue[QueueTo(t)][i] = Purged(t)[QueueTo(t)][k]
           /\ \A i \in DOMAIN queue[QueueTo(t)] : queue[QueueTo(t)][i].from # t =>
                 \E k \in DOMAIN Purged(t)[QueueTo(t)] :
                    Purged(t)[QueueTo(t)][k] = queue[QueueTo(t)][i]
  <1>1. t \in Clients /\ QueueTo(t) \in Queues /\ queue \in [Queues -> Seq(Packet)]
    BY NetFacts DEF TypeOK, Taps
  <1>2. PICK q \in Queues : q = QueueTo(t)
    BY <1>1
  <1>3. PICK Q \in Seq(Packet) : Q = queue[q]
    BY <1>1
  <1> DEFINE I == {i \in DOMAIN Q : Q[i].from # t}
  <1>4. Purged(t) = [queue EXCEPT ![q] = At(Q, I)]
    BY <1>1, <1>2, <1>3 DEF Purged
  <1>5. I \in SUBSET (DOMAIN Q)
    OBVIOUS
  <1>6. \A i \in DOMAIN Q : i \in I <=> Q[i].from # t
    OBVIOUS
  <1> HIDE DEF I
  <1>7. /\ At(Q, I) \in Seq(Packet)
        /\ \A i \in I : \E k \in DOMAIN At(Q, I) : At(Q, I)[k] = Q[i]
        /\ \A k \in DOMAIN At(Q, I) : \E i \in I : At(Q, I)[k] = Q[i]
    BY <1>5, AtFacts
  <1>8. PICK R \in Seq(Packet) : R = At(Q, I)
    BY <1>7
  <1>9. /\ \A k \in DOMAIN R : R[k].from # t /\ \E i \in DOMAIN Q : Q[i] = R[k]
        /\ \A i \in DOMAIN Q : Q[i].from # t => \E k \in DOMAIN R : R[k] = Q[i]
    BY <1>5, <1>6, <1>7, <1>8
  <1>10. /\ Purged(t) \in [Queues -> Seq(Packet)] /\ Purged(t)[q] = R
         /\ \A r \in Queues : r # q => Purged(t)[r] = queue[r]
    BY <1>1, <1>4, <1>8
  <1> QED
    BY <1>2, <1>3, <1>9, <1>10

-----------------------------------------------------------------------------
(* The calls stay apart *)

\* A call is delivering from q.
Busy(q) == \E i \in DOMAIN stack : stack[i].q = q /\ stack[i].p # NoOne

\* What a frame must be to keep StackInv.
Sound(f) ==
    /\ f.val # "zero"
    /\ f.p = NoOne => f.flush /\ f.ret = "err"
    /\ f.p # NoOne => \A k \in DOMAIN f.todo : QueueFrom(f.todo[k]) = f.q

\* The innermost call changes.
LEMMA SwapStack ==
    ASSUME TypeOK, StackInv, net' = net, stack # <<>>, NEW f \in Frame, Sound(f),
           stack' = [stack EXCEPT ![1] = f], f.q = Top.q
    PROVE  /\ stack' \in Seq(Frame) /\ StackInv'
           /\ \A q \in Queues : Busy(q)' <=> IF q = Top.q THEN f.p # NoOne ELSE Busy(q)
  <1>1. /\ stack' \in Seq(Frame) /\ DOMAIN stack = 1 .. Len(stack) /\ Len(stack) \in Nat /\ Len(stack) > 0
        /\ DOMAIN stack' = 1 .. Len(stack) /\ stack'[1] = f
        /\ \A i \in 2 .. Len(stack) : stack'[i] = stack[i]
    BY Replaced DEF TypeOK
  <1>2. \A i \in DOMAIN stack' : i \in DOMAIN stack /\ stack'[i].q = stack[i].q
    <2>1. TAKE i \in DOMAIN stack'
    <2>2. i = 1 \/ i \in 2 .. Len(stack)
      BY <1>1
    <2> QED
      BY <1>1, <2>2 DEF Top
  <1>3. \A i, j \in DOMAIN stack' : stack'[i].q = stack'[j].q => i = j
    BY <1>2 DEF StackInv
  <1>4. ASSUME NEW i \in DOMAIN stack'
        PROVE  /\ stack'[i].p = NoOne => i = 1 /\ stack'[i].flush /\ stack'[i].ret = "err"
               /\ stack'[i].p # NoOne => \A k \in DOMAIN stack'[i].todo :
                     QueueFrom(stack[i].todo[k])' = stack'[i].q
               /\ stack'[i].val # "zero"
    <2>1. CASE i = 1
      BY <1>1, <2>1 DEF Sound, QueueFrom
    <2>2. CASE i # 1
      <3>1. i \in DOMAIN stack /\ stack'[i] = stack[i]
        BY <1>1, <2>2
      <3> QED
        BY <3>1 DEF StackInv, QueueFrom
    <2> QED
      BY <2>1, <2>2
  <1>5. StackInv'
    BY <1>3, <1>4 DEF StackInv
  <1>6. ASSUME NEW q \in Queues
        PROVE  Busy(q)' <=> IF q = Top.q THEN f.p # NoOne ELSE Busy(q)
    <2>1. CASE q = Top.q
      <3>1. 1 \in DOMAIN stack' /\ stack'[1].q = q
        BY <1>1, <2>1
      <3> QED
        BY <1>1, <1>3, <2>1, <3>1 DEF Busy
    <2>2. CASE q # Top.q
      <3>1. \A i \in 1 .. Len(stack) : i = 1 \/ stack'[i] = stack[i]
        BY <1>1
      <3> QED
        BY <1>1, <2>2, <3>1 DEF Busy, Top
    <2> QED
      BY <2>1, <2>2
  <1> QED
    BY <1>1, <1>5, <1>6

\* The innermost call returns.
LEMMA PopStack ==
    ASSUME TypeOK, StackInv, net' = net, stack # <<>>, stack' = Tail(stack)
    PROVE  /\ stack' \in Seq(Frame) /\ StackInv'
           /\ \A q \in Queues : Busy(q)' <=> q # Top.q /\ Busy(q)
  <1>1. /\ stack' \in Seq(Frame) /\ DOMAIN stack = 1 .. Len(stack) /\ Len(stack) \in Nat /\ Len(stack) > 0
        /\ DOMAIN stack' = 1 .. Len(stack) - 1
        /\ \A i \in 1 .. Len(stack) - 1 : stack'[i] = stack[i + 1]
    BY Popped DEF TypeOK
  <1>2. \A i \in DOMAIN stack' : i + 1 \in DOMAIN stack /\ i \in Nat /\ i + 1 # 1 /\ stack'[i] = stack[i + 1]
    BY <1>1
  <1>3. ASSUME NEW i \in DOMAIN stack', NEW j \in DOMAIN stack', stack'[i].q = stack'[j].q PROVE i = j
    <2>1. i + 1 = j + 1
      BY <1>2, <1>3 DEF StackInv
    <2> QED
      BY <1>2, <2>1
  <1>4. ASSUME NEW i \in DOMAIN stack'
        PROVE  /\ stack'[i].p # NoOne
               /\ \A k \in DOMAIN stack'[i].todo : QueueFrom(stack[i].todo[k])' = stack'[i].q
               /\ stack'[i].val # "zero"
    <2>1. i + 1 \in DOMAIN stack /\ i + 1 # 1 /\ stack'[i] = stack[i + 1]
      BY <1>2
    <2> QED
      BY <2>1 DEF StackInv, QueueFrom
  <1>5. StackInv'
    BY <1>3, <1>4 DEF StackInv
  <1>6. ASSUME NEW q \in Queues PROVE Busy(q)' <=> q # Top.q /\ Busy(q)
    <2>1. Busy(q)' => q # Top.q /\ Busy(q)
      <3>1. ASSUME NEW i \in DOMAIN stack', stack'[i].q = q, stack'[i].p # NoOne
            PROVE  q # Top.q /\ Busy(q)
        <4>1. i + 1 \in DOMAIN stack /\ i + 1 # 1 /\ 1 \in DOMAIN stack /\ stack[i + 1].q = q
              /\ stack[i + 1].p # NoOne
          BY <1>1, <1>2, <3>1
        <4> QED
          BY <4>1 DEF StackInv, Busy, Top
      <3> QED
        BY <3>1 DEF Busy
    <2>2. ASSUME q # Top.q, NEW i \in DOMAIN stack, stack[i].q = q, stack[i].p # NoOne
          PROVE  Busy(q)'
      <3>1. i # 1
        BY <2>2 DEF Top
      <3>2. i - 1 \in DOMAIN stack' /\ stack'[i - 1] = stack[i]
        BY <1>1, <3>1
      <3> QED
        BY <2>2, <3>2 DEF Busy
    <2> QED
      BY <2>1, <2>2 DEF Busy
  <1> QED
    BY <1>1, <1>5, <1>6

\* A new call, on a queue no other is working on.
LEMMA PushStack ==
    ASSUME TypeOK, StackInv, net' = net, NEW f \in Frame, Sound(f), stack' = <<f>> \o stack,
           \A i \in DOMAIN stack : stack[i].p # NoOne /\ stack[i].q # f.q
    PROVE  /\ stack' \in Seq(Frame) /\ StackInv'
           /\ \A q \in Queues : Busy(q)' <=> IF q = f.q THEN f.p # NoOne ELSE Busy(q)
  <1>1. /\ stack' \in Seq(Frame) /\ DOMAIN stack = 1 .. Len(stack) /\ Len(stack) \in Nat
        /\ DOMAIN stack' = 1 .. Len(stack) + 1 /\ stack'[1] = f
        /\ \A i \in 1 .. Len(stack) : stack'[i + 1] = stack[i]
    BY Pushed DEF TypeOK
  <1>2. \A i \in DOMAIN stack' : i = 1 \/ (i - 1 \in DOMAIN stack /\ i \in Nat /\ stack'[i] = stack[i - 1])
    <2>1. TAKE i \in DOMAIN stack'
    <2>2. i = 1 \/ (i - 1 \in 1 .. Len(stack) /\ (i - 1) + 1 = i /\ i \in Nat)
      BY <1>1
    <2> QED
      BY <1>1, <2>2
  <1>3. ASSUME NEW i \in DOMAIN stack', NEW j \in DOMAIN stack', stack'[i].q = stack'[j].q PROVE i = j
    <2>1. CASE i = 1 \/ j = 1
      BY <1>1, <1>2, <1>3, <2>1
    <2>2. CASE i # 1 /\ j # 1
      <3>1. i - 1 = j - 1 /\ i \in Nat /\ j \in Nat
        BY <1>2, <1>3, <2>2 DEF StackInv
      <3> QED
        BY <3>1
    <2> QED
      BY <2>1, <2>2
  <1>4. ASSUME NEW i \in DOMAIN stack'
        PROVE  /\ stack'[i].p = NoOne => i = 1 /\ stack'[i].flush /\ stack'[i].ret = "err"
               /\ stack'[i].p # NoOne => \A k \in DOMAIN stack'[i].todo :
                     QueueFrom(stack[i].todo[k])' = stack'[i].q
               /\ stack'[i].val # "zero"
    <2>1. CASE i = 1
      BY <1>1, <2>1 DEF Sound, QueueFrom
    <2>2. CASE i # 1
      <3>1. i - 1 \in DOMAIN stack /\ stack'[i] = stack[i - 1] /\ stack[i - 1].p # NoOne
        BY <1>2, <2>2
      <3> QED
        BY <3>1 DEF StackInv, QueueFrom
    <2> QED
      BY <2>1, <2>2
  <1>5. StackInv'
    BY <1>3, <1>4 DEF StackInv
  <1>6. ASSUME NEW q \in Queues
        PROVE  Busy(q)' <=> IF q = f.q THEN f.p # NoOne ELSE Busy(q)
    <2>1. CASE q = f.q
      <3>1. 1 \in DOMAIN stack' /\ stack'[1].q = q
        BY <1>1, <2>1
      <3> QED
        BY <1>1, <1>3, <2>1, <3>1 DEF Busy
    <2>2. CASE q # f.q
      <3>1. Busy(q)' => Busy(q)
        BY <1>1, <1>2, <2>2 DEF Busy
      <3>2. ASSUME NEW i \in DOMAIN stack, stack[i].q = q, stack[i].p # NoOne PROVE Busy(q)'
        <4>1. i + 1 \in DOMAIN stack' /\ stack'[i + 1] = stack[i]
          BY <1>1
        <4> QED
          BY <3>2, <4>1 DEF Busy
      <3> QED
        BY <2>2, <3>1, <3>2 DEF Busy
    <2> QED
      BY <2>1, <2>2
  <1> QED
    BY <1>1, <1>5, <1>6

\* What depends on the machine only never changes.
LEMMA SameNet ==
    ASSUME net' = net
    PROVE  /\ Clients' = Clients /\ Taps' = Taps /\ Queues' = Queues /\ Packet' = Packet
           /\ Frame' = Frame /\ Max' = Max
           /\ \A c : QueueTo(c)' = QueueTo(c) /\ QueueFrom(c)' = QueueFrom(c)
  <1>1. Clients' = Clients /\ Max' = Max
    BY DEF Clients, Max
  <1> QED
    BY <1>1 DEF Taps, Queues, Packet, Frame, QueueTo, QueueFrom, Peer

\* The queues, the calls and delivering keep their types, and the calls stay
\* apart: qemu_net_queue_send is called again while a client receives, but never
\* delivers from a queue that is being delivered from.
LEMMA StackStep ==
    ASSUME TypeOK, StackInv, HostInv, OwnerInv, [Next]_vars
    PROVE  /\ net' = net /\ queue' \in [Queues -> Seq(Packet)] /\ stack' \in Seq(Frame)
           /\ size' \in Sizes /\ sent' \in [Clients -> 0 .. Max] /\ StackInv'
           /\ delivering' = [q \in Queues |-> Busy(q)']
  <1> DEFINE Goal == /\ net' = net /\ queue' \in [Queues -> Seq(Packet)] /\ stack' \in Seq(Frame)
                     /\ size' \in Sizes /\ sent' \in [Clients -> 0 .. Max] /\ StackInv'
                     /\ delivering' = [q \in Queues |-> Busy(q)']
  <1>0. /\ queue \in [Queues -> Seq(Packet)] /\ stack \in Seq(Frame) /\ size \in Sizes
        /\ sent \in [Clients -> 0 .. Max] /\ delivering = [q \in Queues |-> Busy(q)]
        /\ NoOne \notin Packet /\ net \in Networks
    BY PacketType DEF TypeOK, Busy
  <1>1. CASE AnswerStep
    <2>1. PICK r \in Sizes : stack' = Answered(r)
      BY <1>1 DEF AnswerStep
    <2>2. Offering /\ stack # <<>> /\ Top.p # NoOne /\ Top.todo # <<>>
      BY <1>1 DEF AnswerStep, Offering
    <2>3. PICK f \in Frame :
             /\ Answered(r) = [stack EXCEPT ![1] = f]
             /\ f.q = Top.q /\ f.p = Top.p /\ f.todo = Tail(Top.todo) /\ f.ret = r
             /\ f.flush = Top.flush /\ f.val = Top.val
      BY <2>2, AnsweredTop
    <2>4. Sound(f)
      <3>1. Top.todo \in Seq(Clients) /\ 1 \in DOMAIN stack
        BY <2>2, TopType
      <3>2. \A k \in DOMAIN f.todo : k + 1 \in DOMAIN Top.todo /\ f.todo[k] = Top.todo[k + 1]
        BY <2>2, <2>3, <3>1, Popped
      <3> QED
        BY <2>2, <2>3, <3>1, <3>2 DEF Sound, StackInv, Top
    <2>5. UNCHANGED <<net, queue, delivering, size, sent>>
      BY <1>1 DEF AnswerStep
    <2>6. /\ stack' \in Seq(Frame) /\ StackInv'
          /\ \A q \in Queues : Busy(q)' <=> IF q = Top.q THEN f.p # NoOne ELSE Busy(q)
      BY <2>1, <2>2, <2>3, <2>4, <2>5, SwapStack, Zenon
    <2>7. Busy(Top.q)
      BY <2>2, TopType DEF Busy, Top
    <2>8. \A q \in Queues : Busy(q)' = Busy(q)
      BY <2>2, <2>3, <2>6, <2>7 DEF Busy
    <2> QED
      BY <1>0, <2>5, <2>6, <2>8
  <1>2. ASSUME NEW s \in Clients, NEW cb \in BOOLEAN, SendStep(s, cb) PROVE Goal
    <2>1. /\ sent[s] < Max /\ net' = net /\ Send(s, cb, stack)
          /\ stack = <<>> \/ (stack # <<>> /\ Top.p # NoOne)
      BY <1>2 DEF SendStep, Idle, Offering
    <2>2. /\ New(s, cb) \in Packet /\ [New(s, cb) EXCEPT !.cb = FALSE] \in Packet
          /\ QueueTo(s) \in Queues /\ sent[s] + 1 \in 0 .. Max
      BY <2>1, NewType
    <2>3. CASE link_down[s]
      <3>1. UNCHANGED <<stack, queue, delivering, sent>> /\ size' = "size"
        BY <2>1, <2>3 DEF Send
      <3>2. \A q \in Queues : Busy(q)' = Busy(q)
        BY <3>1 DEF Busy
      <3>3. StackInv'
        BY <2>1, <3>1 DEF StackInv, QueueFrom
      <3> QED
        BY <1>0, <2>1, <3>1, <3>2, <3>3 DEF Sizes
    <2>4. CASE ~link_down[s] /\ delivering[QueueTo(s)]
      <3>1. /\ UNCHANGED <<stack, delivering>> /\ size' = "size" /\ sent' = [sent EXCEPT ![s] = @ + 1]
            /\ queue' = [queue EXCEPT ![QueueTo(s)] = Append(@, [New(s, cb) EXCEPT !.cb = FALSE])]
        BY <2>1, <2>4 DEF Send, New
      <3>2. \A q \in Queues : Busy(q)' = Busy(q)
        BY <3>1 DEF Busy
      <3>3. StackInv'
        BY <2>1, <3>1 DEF StackInv, QueueFrom
      <3>4. queue' \in [Queues -> Seq(Packet)]
        <4>1. Append(queue[QueueTo(s)], [New(s, cb) EXCEPT !.cb = FALSE]) \in Seq(Packet)
          BY <1>0, <2>2
        <4> QED
          BY <1>0, <3>1, <4>1, Zenon
      <3>5. sent' \in [Clients -> 0 .. Max]
        BY <1>0, <2>2, <3>1
      <3> QED
        BY <1>0, <2>1, <3>1, <3>2, <3>3, <3>4, <3>5 DEF Sizes
    <2>5. CASE ~link_down[s] /\ ~delivering[QueueTo(s)]
      <3>1. /\ UNCHANGED <<queue, size>> /\ sent' = [sent EXCEPT ![s] = @ + 1]
            /\ stack' = <<Call(QueueTo(s), New(s, cb), FALSE, "err")>> \o stack
            /\ delivering' = [delivering EXCEPT ![QueueTo(s)] = TRUE]
        BY <2>1, <2>5, Zenon DEF Send, New
      <3>2. PICK p \in Packet : p = New(s, cb)
        BY <2>2
      <3>3. PICK u \in Queues : u = QueueTo(s)
        BY <2>2
      <3>4. PICK f \in Frame :
               /\ f = Call(u, p, FALSE, "err") /\ p # NoOne /\ f.q = u /\ f.p = p
               /\ f.flush = FALSE /\ f.val = "err" /\ f.ret = "err" /\ f.todo = Targets(u, p.from)
        BY SendCall, Zenon
      <3>5. f.q = u /\ f.p = p /\ p # NoOne /\ f.val = "err" /\ f.todo = Targets(u, p.from)
        BY <3>4, Zenon
      <3>6. Sound(f)
        BY <3>5, TargetsType DEF Sound
      <3>7. \A i \in DOMAIN stack : stack[i].p # NoOne /\ stack[i].q # f.q
        <4>1. \A i \in DOMAIN stack : stack[i].p # NoOne
          BY <2>1, TopType DEF StackInv, Top
        <4>2. ~Busy(u)
          BY <1>0, <2>5, <3>3
        <4> QED
          BY <3>5, <4>1, <4>2 DEF Busy
      <3>8. stack' = <<f>> \o stack
        BY <3>1, <3>2, <3>3, <3>4
      <3>9. /\ stack' \in Seq(Frame) /\ StackInv'
            /\ \A q \in Queues : Busy(q)' <=> IF q = f.q THEN f.p # NoOne ELSE Busy(q)
        BY <2>1, <3>6, <3>7, <3>8, PushStack
      <3>10. delivering' = [q \in Queues |-> Busy(q)']
        <4>1. \A q \in Queues : Busy(q)' = (IF q = u THEN TRUE ELSE Busy(q))
          BY <3>5, <3>9 DEF Busy
        <4>2. delivering' = [q \in Queues |-> IF q = u THEN TRUE ELSE Busy(q)]
          BY <1>0, <3>1, <3>3, Zenon
        <4> QED
          BY <4>1, <4>2, Zenon
      <3>11. sent' \in [Clients -> 0 .. Max]
        BY <1>0, <2>2, <3>1
      <3> QED
        BY <1>0, <2>1, <3>1, <3>9, <3>10, <3>11, Zenon
    <2> QED
      BY <2>3, <2>4, <2>5
  <1>3. CASE Sent
    <2>1. /\ stack # <<>> /\ Top.p # NoOne /\ UNCHANGED <<net, sent>>
          /\ delivering' = [delivering EXCEPT ![Top.q] = FALSE]
      BY <1>3, Zenon DEF Sent, Finished, Done, cvars
    <2>2. CASE Top.ret = "zero"
      <3>1. /\ queue' = [queue EXCEPT ![Top.q] = Append(@, Top.p)]
            /\ size' = "zero" /\ stack' = Tail(stack)
        BY <1>3, <2>2 DEF Sent, Queued
      <3>2. /\ stack' \in Seq(Frame) /\ StackInv'
            /\ \A q \in Queues : Busy(q)' <=> q # Top.q /\ Busy(q)
        BY <2>1, <3>1, PopStack
      <3>3. queue' \in [Queues -> Seq(Packet)]
        <4>1. Append(queue[Top.q], Top.p) \in Seq(Packet)
          BY <1>0, <2>1, TopType
        <4> QED
          BY <1>0, <3>1, <4>1, Zenon
      <3>4. delivering' = [q \in Queues |-> Busy(q)']
        <4>1. \A q \in Queues : Busy(q)' = (IF q = Top.q THEN FALSE ELSE Busy(q))
          BY <3>2 DEF Busy
        <4>2. delivering' = [q \in Queues |-> IF q = Top.q THEN FALSE ELSE Busy(q)]
          BY <1>0, <2>1, Zenon
        <4> QED
          BY <4>1, <4>2, Zenon
      <3> QED
        BY <1>0, <2>1, <3>1, <3>2, <3>3, <3>4, Zenon DEF Sizes
    <2>3. CASE Top.ret # "zero"
      <3>1. stack' = Flushing(Top.ret) /\ UNCHANGED <<queue, size>>
        BY <1>3, <2>3 DEF Sent
      <3>2. PICK f \in Frame :
               /\ Flushing(Top.ret) = [stack EXCEPT ![1] = f]
               /\ f.q = Top.q /\ f.p = NoOne /\ f.todo = Top.todo /\ f.ret = "err"
               /\ f.flush = TRUE /\ f.val = Top.ret
        BY <2>1, FlushingTop, TopType, Zenon
      <3>3. Sound(f)
        BY <2>3, <3>2 DEF Sound
      <3>4. /\ stack' \in Seq(Frame) /\ StackInv'
            /\ \A q \in Queues : Busy(q)' <=> IF q = Top.q THEN f.p # NoOne ELSE Busy(q)
        BY <2>1, <3>1, <3>2, <3>3, SwapStack, Zenon
      <3>5. delivering' = [q \in Queues |-> Busy(q)']
        <4>1. \A q \in Queues : Busy(q)' = (IF q = Top.q THEN FALSE ELSE Busy(q))
          BY <3>2, <3>4 DEF Busy
        <4>2. delivering' = [q \in Queues |-> IF q = Top.q THEN FALSE ELSE Busy(q)]
          BY <1>0, <2>1, Zenon
        <4> QED
          BY <4>1, <4>2, Zenon
      <3> QED
        BY <1>0, <2>1, <3>1, <3>4, <3>5, Zenon
    <2> QED
      BY <2>2, <2>3
  <1>4. CASE FlushNext
    <2>1. /\ stack # <<>> /\ Top.p = NoOne /\ UNCHANGED <<net, sent>>
          /\ Top.q \in Queues /\ Top.val \in Sizes /\ 1 \in DOMAIN stack
      BY <1>4, TopType DEF FlushNext, cvars
    <2>2. PICK u \in Queues : u = Top.q
      BY <2>1
    <2>3. CASE queue[u] = <<>>
      <3>1. stack' = Tail(stack) /\ size' = Top.val /\ UNCHANGED <<queue, delivering>>
        BY <1>4, <2>2, <2>3 DEF FlushNext
      <3>2. /\ stack' \in Seq(Frame) /\ StackInv'
            /\ \A q \in Queues : Busy(q)' <=> q # Top.q /\ Busy(q)
        BY <2>1, <3>1, PopStack
      <3>3. ~Busy(u)
        BY <2>1, <2>2 DEF Busy, StackInv, Top
      <3>4. \A q \in Queues : Busy(q)' = Busy(q)
        BY <2>2, <3>2, <3>3 DEF Busy
      <3> QED
        BY <1>0, <2>1, <3>1, <3>2, <3>4
    <2>4. CASE queue[u] # <<>>
      <3>1. /\ queue' = [queue EXCEPT ![u] = Tail(@)]
            /\ delivering' = [delivering EXCEPT ![u] = TRUE]
            /\ stack' = [stack EXCEPT ![1] = FlushFrame(u, Head(queue[u]), Top.val)]
            /\ UNCHANGED size
        BY <1>4, <2>2, <2>4, Zenon DEF FlushNext, FlushFrame
      <3>2. Head(queue[u]) \in Packet /\ Tail(queue[u]) \in Seq(Packet)
        BY <1>0, <2>4, Popped
      <3>3. PICK p \in Packet : p = Head(queue[u])
        BY <3>2
      <3> PICK v \in Sizes : v = Top.val
        BY <2>1
      <3>4. PICK f \in Frame :
               /\ f = FlushFrame(u, p, v) /\ p # NoOne /\ f.q = u /\ f.p = p
               /\ f.flush /\ f.val = v /\ f.ret = "err" /\ f.todo = Targets(u, p.from)
        BY FlushCall
      <3>5. f.q = u /\ f.p = p /\ p # NoOne /\ f.val = Top.val /\ f.todo = Targets(u, p.from)
        BY <3>4
      <3>6. Sound(f)
        BY <2>1, <3>5, TargetsType DEF Sound, StackInv, Top
      <3>7. /\ stack' \in Seq(Frame) /\ StackInv'
            /\ \A q \in Queues : Busy(q)' <=> IF q = Top.q THEN f.p # NoOne ELSE Busy(q)
        BY <2>1, <2>2, <3>1, <3>3, <3>4, <3>5, <3>6, SwapStack, Zenon
      <3>8. queue' \in [Queues -> Seq(Packet)]
        BY <1>0, <3>1, <3>2
      <3>9. delivering' = [q \in Queues |-> Busy(q)']
        <4>1. \A q \in Queues : Busy(q)' = (IF q = u THEN TRUE ELSE Busy(q))
          BY <2>2, <3>5, <3>7 DEF Busy
        <4>2. delivering' = [q \in Queues |-> IF q = u THEN TRUE ELSE Busy(q)]
          BY <1>0, <3>1, Zenon
        <4> QED
          BY <4>1, <4>2, Zenon
      <3> QED
        BY <1>0, <2>1, <3>1, <3>7, <3>8, <3>9, Zenon
    <2> QED
      BY <2>3, <2>4
  <1>5. CASE Flushed
    <2>1. /\ stack # <<>> /\ Top.p # NoOne /\ UNCHANGED <<net, sent>>
          /\ delivering' = [delivering EXCEPT ![Top.q] = FALSE]
          /\ Top.val \in Sizes /\ 1 \in DOMAIN stack
      BY <1>5, TopType DEF Flushed, Finished, Done, cvars
    <2>2. CASE Top.ret = "zero"
      <3>1. /\ queue' = [queue EXCEPT ![Top.q] = <<Top.p>> \o @]
            /\ size' = Top.val /\ stack' = Tail(stack)
        BY <1>5, <2>2 DEF Flushed, PutBack
      <3>2. /\ stack' \in Seq(Frame) /\ StackInv'
            /\ \A q \in Queues : Busy(q)' <=> q # Top.q /\ Busy(q)
        BY <2>1, <3>1, PopStack
      <3>3. queue' \in [Queues -> Seq(Packet)]
        <4>1. <<Top.p>> \o queue[Top.q] \in Seq(Packet)
          BY <1>0, <2>1, TopType, Pushed
        <4> QED
          BY <1>0, <3>1, <4>1, Zenon
      <3>4. delivering' = [q \in Queues |-> Busy(q)']
        <4>1. \A q \in Queues : Busy(q)' = (IF q = Top.q THEN FALSE ELSE Busy(q))
          BY <3>2 DEF Busy
        <4>2. delivering' = [q \in Queues |-> IF q = Top.q THEN FALSE ELSE Busy(q)]
          BY <1>0, <2>1, Zenon
        <4> QED
          BY <4>1, <4>2, Zenon
      <3> QED
        BY <1>0, <2>1, <3>1, <3>2, <3>3, <3>4, Zenon
    <2>3. CASE Top.ret # "zero"
      <3>1. stack' = Flushing(Top.val) /\ UNCHANGED <<queue, size>>
        BY <1>5, <2>3 DEF Flushed
      <3>2. PICK f \in Frame :
               /\ Flushing(Top.val) = [stack EXCEPT ![1] = f]
               /\ f.q = Top.q /\ f.p = NoOne /\ f.todo = Top.todo /\ f.ret = "err"
               /\ f.flush = TRUE /\ f.val = Top.val
        BY <2>1, FlushingTop, Zenon
      <3>3. Sound(f)
        BY <2>1, <3>2 DEF Sound, StackInv, Top
      <3>4. /\ stack' \in Seq(Frame) /\ StackInv'
            /\ \A q \in Queues : Busy(q)' <=> IF q = Top.q THEN f.p # NoOne ELSE Busy(q)
        BY <2>1, <3>1, <3>2, <3>3, SwapStack, Zenon
      <3>5. delivering' = [q \in Queues |-> Busy(q)']
        <4>1. \A q \in Queues : Busy(q)' = (IF q = Top.q THEN FALSE ELSE Busy(q))
          BY <3>2, <3>4 DEF Busy
        <4>2. delivering' = [q \in Queues |-> IF q = Top.q THEN FALSE ELSE Busy(q)]
          BY <1>0, <2>1, Zenon
        <4> QED
          BY <4>1, <4>2, Zenon
      <3> QED
        BY <1>0, <2>1, <3>1, <3>4, <3>5, Zenon
    <2> QED
      BY <2>2, <2>3
  <1>6. ASSUME NEW t \in Taps, TapWritable(t) PROVE Goal
    <2>1. /\ stack = <<>> /\ stack' = <<WritableFrame(QueueFrom(t))>>
          /\ UNCHANGED <<net, queue, delivering, size, sent>>
      BY <1>6 DEF TapWritable, Idle, WritableFrame
    <2>2. t \in Clients /\ QueueFrom(t) \in Queues
      BY <1>0, NetFacts DEF Taps
    <2>3. PICK f \in Frame : f = WritableFrame(QueueFrom(t))
      BY <2>2, WritableType
    <2>4. Sound(f) /\ f.p = NoOne
      BY <2>3 DEF Sound, WritableFrame
    <2>5. stack' = <<f>> \o stack /\ \A i \in DOMAIN stack : stack[i].p # NoOne /\ stack[i].q # f.q
      BY <2>1, <2>3
    <2>6. /\ stack' \in Seq(Frame) /\ StackInv'
          /\ \A q \in Queues : Busy(q)' <=> IF q = f.q THEN f.p # NoOne ELSE Busy(q)
      BY <2>1, <2>4, <2>5, PushStack
    <2>7. \A q \in Queues : Busy(q)' = Busy(q)
      BY <2>1, <2>4, <2>6 DEF Busy
    <2> QED
      BY <1>0, <2>1, <2>6, <2>7
  <1>7. ASSUME NEW t \in Taps, Remove(t) PROVE Goal
    <2>1. queue' = Purged(t) /\ UNCHANGED <<net, delivering, stack, size, sent>>
      BY <1>7, Zenon DEF Remove
    <2>2. queue' \in [Queues -> Seq(Packet)]
      BY <2>1, PurgedFacts
    <2>3. StackInv' /\ \A q \in Queues : Busy(q)' = Busy(q)
      BY <2>1 DEF StackInv, QueueFrom, Busy
    <2> QED
      BY <1>0, <2>1, <2>2, <2>3
  <1>8. CASE QuietStep
    <2>1. UNCHANGED <<net, queue, delivering, stack, size, sent>>
      BY <1>8 DEF QuietStep
    <2>2. StackInv' /\ \A q \in Queues : Busy(q)' = Busy(q)
      BY <2>1 DEF StackInv, QueueFrom, Busy
    <2> QED
      BY <1>0, <2>1, <2>2
  <1> QED
    BY <1>1, <1>2, <1>3, <1>4, <1>5, <1>6, <1>7, <1>8, Steps

\* A flag is set or cleared.
LEMMA Flag ==
    ASSUME NEW S, NEW f \in [S -> BOOLEAN], NEW x, NEW b \in BOOLEAN
    PROVE  [f EXCEPT ![x] = b] \in [S -> BOOLEAN]
  BY Zenon

\* A packet is counted as seen.
LEMMA SeeType ==
    ASSUME TypeOK, Offering, NEW c, See(c)
    PROVE  seen' \in [Clients -> [Clients -> 0 .. Max]]
  <1>1. stack # <<>> /\ Top.p \in Packet
    BY TopType DEF Offering
  <1>2. Top.p.id \in 0 .. Max /\ Max \in Nat
    BY <1>1, NetFacts DEF Packet, TypeOK
  <1> PICK s : s = Top.p.from
    OBVIOUS
  <1>3. PICK n \in 0 .. Max : n = Top.p.id
    BY <1>2
  <1>4. seen' = [seen EXCEPT ![c][s] = IF n > @ THEN n ELSE @] /\ seen \in [Clients -> [Clients -> 0 .. Max]]
    BY <1>3 DEF See, TypeOK
  <1>5. CASE c \in Clients /\ s \in Clients
    <2>1. (IF n > seen[c][s] THEN n ELSE seen[c][s]) \in 0 .. Max
      BY <1>4, <1>5
    <2> QED
      BY <1>4, <1>5, <2>1
  <1>6. CASE c \notin Clients
    BY <1>4, <1>6, Zenon
  <1>7. CASE c \in Clients /\ s \notin Clients
    BY <1>4, <1>7, Zenon
  <1> QED
    BY <1>5, <1>6, <1>7

\* Only the sender's count changes.
LEMMA SendCount ==
    ASSUME TypeOK, NEW s \in Clients, NEW cb, NEW below, Send(s, cb, below)
    PROVE  /\ \A c \in Clients : c # s => sent'[c] = sent[c]
           /\ sent'[s] = sent[s] \/ sent'[s] = sent[s] + 1
  <1>1. UNCHANGED sent \/ sent' = [sent EXCEPT ![s] = @ + 1]
    BY DEF Send
  <1> QED
    BY <1>1 DEF TypeOK

\* The descriptors of the TAP backends and the main loop's view of them keep
\* their types.
LEMMA PollTypes ==
    ASSUME TypeOK, HostInv, [Next]_vars
    PROVE  /\ reader' \in Taps \cup {NoOne} /\ alive' \subseteq Clients
           /\ receive_disabled' \in [Clients -> BOOLEAN] /\ link_down' \in [Clients -> BOOLEAN]
           /\ read_poll' \in [Taps -> BOOLEAN] /\ write_poll' \in [Taps -> BOOLEAN]
           /\ told' \in BOOLEAN /\ rfds' \subseteq Taps /\ wfds' \subseteq Taps /\ en' \in BOOLEAN
  <1> DEFINE Goal == /\ reader' \in Taps \cup {NoOne} /\ alive' \subseteq Clients
                     /\ receive_disabled' \in [Clients -> BOOLEAN] /\ link_down' \in [Clients -> BOOLEAN]
                     /\ read_poll' \in [Taps -> BOOLEAN] /\ write_poll' \in [Taps -> BOOLEAN]
                     /\ told' \in BOOLEAN /\ rfds' \subseteq Taps /\ wfds' \subseteq Taps /\ en' \in BOOLEAN
  <1>0. /\ reader \in Taps \cup {NoOne} /\ alive \subseteq Clients
        /\ receive_disabled \in [Clients -> BOOLEAN] /\ link_down \in [Clients -> BOOLEAN]
        /\ read_poll \in [Taps -> BOOLEAN] /\ write_poll \in [Taps -> BOOLEAN]
        /\ told \in BOOLEAN /\ rfds \subseteq Taps /\ wfds \subseteq Taps /\ en \in BOOLEAN
    BY DEF TypeOK
  <1>1. CASE UNCHANGED <<pvars, cvars>>
    BY <1>0, <1>1 DEF pvars, lvars, cvars
  <1>2. CASE OfferDown \/ OfferDisabled \/ e1000_receive
    BY <1>1, <1>2 DEF OfferDown, OfferDisabled, e1000_receive
  <1>3. CASE net_slirp_receive \/ Sent \/ FlushNext \/ NicXmit \/ slirp_output
    BY <1>0, <1>3, Zenon DEF net_slirp_receive, Sent, FlushNext, NicXmit, slirp_output, lvars, cvars
  <1>4. ASSUME NEW t \in Taps, tap_receive(t) PROVE Goal
    <2>1. /\ UNCHANGED <<reader, read_poll, told, rfds, wfds, link_down, alive, en>>
          /\ write_poll' = write_poll \/ write_poll' = [write_poll EXCEPT ![t] = TRUE]
          /\ \/ receive_disabled' = receive_disabled
             \/ receive_disabled' = [receive_disabled EXCEPT ![t] = TRUE]
      BY <1>4 DEF tap_receive, lvars, WritePoll
    <2>2. write_poll' \in [Taps -> BOOLEAN] /\ receive_disabled' \in [Clients -> BOOLEAN]
      BY <1>0, <2>1, Flag, Zenon
    <2> QED
      BY <1>0, <2>1, <2>2
  <1>5. CASE Flushed
    <2>1. /\ UNCHANGED <<reader, write_poll, told, rfds, wfds, receive_disabled, link_down, alive, en>>
          /\ read_poll' = read_poll \/ read_poll' = [read_poll EXCEPT ![Top.p.from] = TRUE]
      BY <1>5 DEF Flushed, lvars, cvars, Completed
    <2>2. read_poll' \in [Taps -> BOOLEAN]
      BY <1>0, <2>1, Flag, Zenon
    <2> QED
      BY <1>0, <2>1, <2>2
  <1>6. CASE TapSendLoop
    <2>1. /\ UNCHANGED <<write_poll, told, rfds, wfds, receive_disabled, link_down, alive, en>>
          /\ reader' = reader \/ reader' = NoOne
          /\ \/ read_poll' = read_poll
             \/ read_poll' = [read_poll EXCEPT ![reader] = read_poll[reader] /\ size # "zero"]
      BY <1>6 DEF TapSendLoop, lvars, cvars
    <2>2. (read_poll[reader] /\ size # "zero") \in BOOLEAN
      OBVIOUS
    <2>3. read_poll' \in [Taps -> BOOLEAN]
      BY <1>0, <2>1, <2>2, Flag, Zenon
    <2> QED
      BY <1>0, <2>1, <2>3
  <1>7. CASE Fill \/ Select
    BY <1>0, <1>7, Zenon DEF Fill, Select, cvars
  <1>8. ASSUME NEW t \in Taps, TapSend(t) PROVE Goal
    BY <1>0, <1>8 DEF TapSend, cvars
  <1>9. ASSUME NEW t \in Taps, TapWritable(t) PROVE Goal
    <2>1. /\ UNCHANGED <<reader, read_poll, told, rfds, link_down, alive, en>>
          /\ wfds' = wfds \ {t} /\ write_poll' = [write_poll EXCEPT ![t] = FALSE]
          /\ receive_disabled' = [receive_disabled EXCEPT ![t] = FALSE]
      BY <1>9 DEF TapWritable, Enabled
    <2>2. write_poll' \in [Taps -> BOOLEAN] /\ receive_disabled' \in [Clients -> BOOLEAN]
      BY <1>0, <2>1, Flag
    <2> QED
      BY <1>0, <2>1, <2>2
  <1>10. CASE set_rx_control
    BY <1>0, <1>10 DEF set_rx_control, pvars, lvars
  <1>11. ASSUME NEW c \in Clients, do_set_link(c) PROVE Goal
    <2>1. link_down' = [link_down EXCEPT ![c] = ~link_down[c]] /\ (~link_down[c]) \in BOOLEAN
      BY <1>11 DEF do_set_link
    <2>2. link_down' \in [Clients -> BOOLEAN]
      BY <1>0, <2>1, Flag
    <2> QED
      BY <1>0, <1>11, <2>2 DEF do_set_link, pvars, lvars
  <1>12. ASSUME NEW t \in Taps, Remove(t) PROVE Goal
    <2>1. /\ UNCHANGED <<reader, told, rfds, wfds, receive_disabled, en>> /\ alive' = alive \ {t}
          /\ read_poll' = [read_poll EXCEPT ![t] = FALSE]
          /\ write_poll' = [write_poll EXCEPT ![t] = FALSE]
          /\ link_down' = link_down \/ link_down' = [link_down EXCEPT ![Peer(t)] = TRUE]
      BY <1>12 DEF Remove, lvars
    <2>2. /\ read_poll' \in [Taps -> BOOLEAN] /\ write_poll' \in [Taps -> BOOLEAN]
          /\ link_down' \in [Clients -> BOOLEAN]
      BY <1>0, <2>1, Flag, Zenon
    <2> QED
      BY <1>0, <2>1, <2>2
  <1>13. ASSUME NEW t \in Taps, HostSends(t) \/ HostReads(t) PROVE Goal
    BY <1>1, <1>13 DEF HostSends, HostReads
  <1>14. CASE UNCHANGED vars
    BY <1>1, <1>14 DEF vars
  <1>15. CASE Handler
    BY <1>2, <1>3, <1>4, <1>5, <1>6, <1>15 DEF Handler
  <1>16. CASE MainLoop
    BY <1>7, <1>8, <1>9, <1>16 DEF MainLoop
  <1> QED
    BY <1>3, <1>10, <1>11, <1>12, <1>13, <1>14, <1>15, <1>16 DEF Next

\* What a TAP in tap_send, its wire and the host's supply amount to.
LEMMA ReadKeeps ==
    ASSUME TypeOK, HostInv, net' = net, NEW t \in Taps, tap_read(t), wire[t] > 0, t \notin rfds', left' = left,
           rfds' \subseteq rfds, told
    PROVE  /\ wire' \in [Taps -> 0 .. Max]
           /\ \A x \in Taps : sent'[x] + wire'[x] + left'[x] <= Max
           /\ \A x \in rfds' : wire'[x] > 0
  <1>1. /\ Max \in Nat /\ t \in Clients /\ Taps \subseteq Clients
        /\ wire \in [Taps -> 0 .. Max] /\ left \in [Taps -> 0 .. Max] /\ rfds \subseteq Taps
        /\ \A c \in Clients : sent[c] \in Nat
    <2>1. Max \in Nat /\ Taps \subseteq Clients /\ sent \in [Clients -> 0 .. Max]
      BY NetFacts DEF TypeOK
    <2> QED
      BY <2>1 DEF TypeOK
  <1>2. wire' = [wire EXCEPT ![t] = @ - 1]
    BY DEF tap_read
  <1>3. wire[t] - 1 \in 0 .. Max
    BY <1>1
  <1>4. /\ \A c \in Clients : c # t => sent'[c] = sent[c]
        /\ sent'[t] = sent[t] \/ sent'[t] = sent[t] + 1
    BY <1>1, SendCount, Zenon DEF tap_read
  <1>5. wire' \in [Taps -> 0 .. Max]
    BY <1>1, <1>2, <1>3
  <1>6. ASSUME NEW x \in Taps PROVE sent'[x] + wire'[x] + left'[x] <= Max
    <2>1. sent[x] + wire[x] + left[x] <= Max /\ sent[x] \in Nat /\ wire[x] \in Nat /\ left[x] \in Nat
      BY <1>1 DEF HostInv
    <2>2. CASE x = t
      <3>1. wire'[x] = wire[x] - 1 /\ (sent'[x] = sent[x] \/ sent'[x] = sent[x] + 1)
        BY <1>1, <1>2, <1>4, <2>2
      <3> QED
        BY <1>1, <2>1, <3>1
    <2>3. CASE x # t
      <3>1. wire'[x] = wire[x] /\ sent'[x] = sent[x]
        BY <1>1, <1>2, <1>4, <2>3
      <3> QED
        BY <2>1, <3>1
    <2> QED
      BY <2>2, <2>3
  <1>7. ASSUME NEW x \in rfds' PROVE wire'[x] > 0
    <2>1. x \in rfds /\ x \in Taps /\ x # t
      BY <1>1, <1>7
    <2>2. wire[x] > 0
      BY <2>1 DEF HostInv
    <2> QED
      BY <1>1, <1>2, <2>1, <2>2
  <1> QED
    BY <1>5, <1>6, <1>7

\* The host supplies Max packets at the most, and tap_send reads one only where
\* there is one.
LEMMA HostStep ==
    ASSUME TypeOK, HostInv, OwnerInv, [Next]_vars
    PROVE  /\ room' \in [Taps -> 0 .. Room] /\ wire' \in [Taps -> 0 .. Max]
           /\ left' \in [Taps -> 0 .. Max] /\ seen' \in [Clients -> [Clients -> 0 .. Max]]
           /\ HostInv'
  <1> DEFINE Types == /\ room' \in [Taps -> 0 .. Room] /\ wire' \in [Taps -> 0 .. Max]
                      /\ left' \in [Taps -> 0 .. Max] /\ seen' \in [Clients -> [Clients -> 0 .. Max]]
             Goal == Types /\ HostInv'
             Same == net' = net /\ UNCHANGED <<wire, left, told, rfds, reader>>
  <1>0. /\ room \in [Taps -> 0 .. Room] /\ wire \in [Taps -> 0 .. Max] /\ Room \in Nat /\ Max \in Nat
        /\ left \in [Taps -> 0 .. Max] /\ seen \in [Clients -> [Clients -> 0 .. Max]]
        /\ Taps \subseteq Clients /\ \A c \in Clients : sent[c] \in Nat
        /\ rfds \subseteq Taps /\ reader \in Taps \cup {NoOne} /\ NoOne \notin Taps
    BY NetFacts, NetAssumption DEF TypeOK
  <1>1. ASSUME Same, \A t \in Taps : sent'[t] = sent[t] PROVE HostInv'
    BY <1>1, SameNet, Zenon DEF HostInv
  <1>2. CASE UNCHANGED <<hvars, sent, seen, lvars, reader, net>>
    BY <1>0, <1>1, <1>2 DEF hvars, lvars
  <1>3. CASE OfferDown \/ e1000_receive
    <2>1. Offering /\ UNCHANGED <<hvars, sent, pvars, cvars>> /\ \E c : See(c)
      BY <1>3 DEF OfferDown, e1000_receive, Receiving
    <2>2. seen' \in [Clients -> [Clients -> 0 .. Max]]
      BY <2>1, SeeType
    <2> QED
      BY <1>0, <1>1, <2>1, <2>2 DEF hvars, pvars, lvars, cvars
  <1>4. CASE OfferDisabled
    BY <1>2, <1>4 DEF OfferDisabled, pvars, cvars
  <1>5. ASSUME NEW t \in Taps, tap_receive(t) PROVE Goal
    <2>1. /\ Offering /\ Same /\ UNCHANGED sent
          /\ UNCHANGED seen \/ See(t)
          /\ UNCHANGED room \/ (room[t] > 0 /\ room' = [room EXCEPT ![t] = @ - 1])
      BY <1>0, <1>5, Zenon DEF tap_receive, Receiving, lvars
    <2>2. seen' \in [Clients -> [Clients -> 0 .. Max]]
      BY <1>0, <2>1, SeeType
    <2>3. room' \in [Taps -> 0 .. Room]
      <3>1. room[t] > 0 => room[t] - 1 \in 0 .. Room
        BY <1>0
      <3> QED
        BY <1>0, <2>1, <3>1
    <2> QED
      BY <1>0, <1>1, <2>1, <2>2, <2>3
  <1>6. ASSUME NEW s \in Clients, s \notin Tap, NEW below, Send(s, FALSE, below)
        PROVE  \A t \in Taps : sent'[t] = sent[t]
    BY <1>0, <1>6, SendCount, Zenon DEF Taps
  <1>7. CASE net_slirp_receive
    <2>1. Offering /\ Same /\ UNCHANGED hvars /\ Client = User
      BY <1>7, Zenon DEF net_slirp_receive, Receiving, cvars, lvars, hvars
    <2>2. CASE See(User) /\ UNCHANGED sent
      <3>1. seen' \in [Clients -> [Clients -> 0 .. Max]]
        BY <2>1, <2>2, SeeType
      <3> QED
        BY <1>0, <1>1, <2>1, <2>2, <3>1 DEF hvars
    <2>3. CASE Send(User, FALSE, stack) /\ UNCHANGED seen
      <3>1. User \in Clients
        <4>1. stack # <<>> /\ Top.todo # <<>>
          BY <2>1 DEF Offering
        <4> QED
          BY <2>1, <4>1, TopType, Popped, Zenon DEF Client
      <3>2. \A t \in Taps : sent'[t] = sent[t]
        BY <1>6, <2>3, <3>1, NetAssumption, Zenon
      <3> QED
        BY <1>0, <1>1, <2>1, <2>3, <3>2, Zenon DEF hvars
    <2> QED
      BY <1>7, <2>2, <2>3, Zenon DEF net_slirp_receive
  <1>8. CASE Sent \/ FlushNext \/ Flushed
    BY <1>2, <1>8, Zenon DEF Sent, FlushNext, Flushed, cvars
  <1>9. CASE TapSendLoop
    <2>1. reader \in Taps /\ told /\ reader \notin rfds /\ UNCHANGED <<told, rfds, room, left, seen, net>>
      BY <1>0, <1>9 DEF TapSendLoop, HostInv, lvars, cvars
    <2>2. CASE size = "size" /\ qemu_can_send_packet(reader) /\ wire[reader] > 0
      <3>1. tap_read(reader) /\ UNCHANGED reader
        BY <1>9, <2>2 DEF TapSendLoop
      <3>2. /\ wire' \in [Taps -> 0 .. Max]
            /\ \A x \in Taps : sent'[x] + wire'[x] + left'[x] <= Max
            /\ \A x \in rfds' : wire'[x] > 0
        BY <2>1, <2>2, <3>1, ReadKeeps
      <3> QED
        BY <1>0, <2>1, <3>1, <3>2, SameNet, Zenon DEF HostInv
    <2>3. CASE ~(size = "size" /\ qemu_can_send_packet(reader) /\ wire[reader] > 0)
      <3>1. UNCHANGED <<wire, sent>> /\ reader' = NoOne
        BY <1>9, <2>3 DEF TapSendLoop
      <3> QED
        BY <1>0, <2>1, <3>1, SameNet DEF HostInv
    <2> QED
      BY <2>2, <2>3
  <1>10. CASE Fill
    <2>1. told' = FALSE /\ UNCHANGED <<reader, hvars, sent, seen, net>> /\ reader = NoOne
      BY <1>10, Zenon DEF Fill, cvars, Idle
    <2> QED
      BY <1>0, <2>1, SameNet DEF HostInv, hvars
  <1>11. CASE Select
    <2>1. ~told /\ rfds' = {t \in rfds : wire[t] > 0} /\ UNCHANGED <<reader, hvars, sent, seen, net>>
      BY <1>11 DEF Select, cvars
    <2> QED
      BY <1>0, <2>1, SameNet DEF HostInv, hvars
  <1>12. ASSUME NEW t \in Taps, TapSend(t) PROVE Goal
    <2>1. /\ told /\ t \in rfds /\ rfds' = rfds \ {t} /\ reader' = t /\ tap_read(t)
          /\ UNCHANGED <<told, net, room, left, seen>>
      BY <1>12 DEF TapSend, cvars
    <2>2. wire[t] > 0
      BY <2>1 DEF HostInv
    <2>3. /\ wire' \in [Taps -> 0 .. Max]
          /\ \A x \in Taps : sent'[x] + wire'[x] + left'[x] <= Max
          /\ \A x \in rfds' : wire'[x] > 0
      BY <2>1, <2>2, ReadKeeps
    <2> QED
      BY <1>0, <2>1, <2>3, SameNet DEF HostInv
  <1>13. ASSUME NEW t \in Taps, TapWritable(t) PROVE Goal
    BY <1>0, <1>1, <1>13 DEF TapWritable, hvars
  <1>14. ASSUME NEW s \in {Nic, User} \cap Clients, Send(s, FALSE, <<>>), UNCHANGED <<reader, lvars, cvars, hvars, seen>>
         PROVE  Goal
    <2>1. \A t \in Taps : sent'[t] = sent[t]
      BY <1>6, <1>14, NetAssumption, Zenon
    <2> QED
      BY <1>0, <1>1, <1>14, <2>1, Zenon DEF lvars, cvars, hvars
  <1>15. CASE NicXmit \/ slirp_output
    BY <1>14, <1>15, Zenon DEF NicXmit, slirp_output
  <1>16. CASE set_rx_control
    BY <1>2, <1>16 DEF set_rx_control, pvars
  <1>17. ASSUME NEW c \in Clients, do_set_link(c) PROVE Goal
    BY <1>2, <1>17 DEF do_set_link, pvars
  <1>18. ASSUME NEW t \in Taps, Remove(t) PROVE Goal
    BY <1>2, <1>18 DEF Remove
  <1>19. ASSUME NEW t \in Taps, HostSends(t) PROVE Goal
    <2>1. /\ left[t] > 0 /\ left' = [left EXCEPT ![t] = @ - 1] /\ wire' = [wire EXCEPT ![t] = @ + 1]
          /\ UNCHANGED <<told, rfds, reader, room, sent, seen, net>>
      BY <1>19 DEF HostSends, pvars, lvars, cvars
    <2>2. sent[t] + wire[t] + left[t] <= Max
      BY DEF HostInv
    <2>3. left[t] - 1 \in 0 .. Max /\ wire[t] + 1 \in 0 .. Max
      BY <1>0, <2>1, <2>2
    <2>4. left' \in [Taps -> 0 .. Max] /\ wire' \in [Taps -> 0 .. Max]
      BY <1>0, <2>1, <2>3
    <2>5. ASSUME NEW x \in Taps PROVE sent'[x] + wire'[x] + left'[x] <= Max
      <3>1. sent[x] + wire[x] + left[x] <= Max /\ sent[x] \in Nat /\ wire[x] \in Nat /\ left[x] \in Nat
        BY <1>0 DEF HostInv
      <3>2. \/ wire'[x] = wire[x] /\ left'[x] = left[x]
            \/ wire'[x] = wire[x] + 1 /\ left'[x] = left[x] - 1
        BY <1>0, <2>1
      <3> QED
        BY <2>1, <3>1, <3>2
    <2>6. \A x \in rfds : wire[x] > 0 => wire'[x] > 0
      BY <1>0, <2>1
    <2> QED
      BY <1>0, <2>1, <2>4, <2>5, <2>6, SameNet DEF HostInv
  <1>20. ASSUME NEW t \in Taps, HostReads(t) PROVE Goal
    <2>1. room[t] < Room /\ room' = [room EXCEPT ![t] = @ + 1] /\ Same /\ UNCHANGED <<sent, seen>>
      BY <1>20 DEF HostReads, pvars, lvars, cvars
    <2>2. room[t] + 1 \in 0 .. Room
      BY <1>0, <2>1
    <2>3. room' \in [Taps -> 0 .. Room]
      BY <1>0, <2>1, <2>2
    <2> QED
      BY <1>0, <1>1, <2>1, <2>3
  <1>21. CASE UNCHANGED vars
    BY <1>2, <1>21 DEF vars, pvars, cvars
  <1>22. CASE Handler
    BY <1>3, <1>4, <1>5, <1>7, <1>8, <1>9, <1>22 DEF Handler
  <1>23. CASE MainLoop
    BY <1>10, <1>11, <1>12, <1>13, <1>23 DEF MainLoop
  <1> QED
    BY <1>15, <1>16, <1>17, <1>18, <1>19, <1>20, <1>21, <1>22, <1>23 DEF Next

\* Together: every step keeps the types.
LEMMA TypeStep ==
    ASSUME TypeOK, StackInv, HostInv, OwnerInv, [Next]_vars PROVE TypeOK' /\ StackInv' /\ HostInv'
  <1>1. net' = net /\ net \in Networks
    BY StackStep, Zenon DEF TypeOK
  <1>2. delivering' = [q \in Queues |-> Busy(q)']
    BY StackStep
  <1>3. delivering' = [q \in Queues |-> \E i \in DOMAIN stack' : stack'[i].q = q /\ stack'[i].p # NoOne]
    BY <1>2 DEF Busy
  <1> QED
    BY <1>1, <1>3, SameNet, StackStep, PollTypes, HostStep, Zenon DEF TypeOK

-----------------------------------------------------------------------------
(* Where the packets are *)

\* One queue gets a packet at its end, loses its first or gets one back in front.
LEMMA QueueAppend ==
    ASSUME NEW S, NEW P, NEW Q \in [S -> Seq(P)], NEW R, NEW u \in S, NEW p \in P,
           R = [Q EXCEPT ![u] = Append(@, p)]
    PROVE  /\ \A q \in S : q # u => R[q] = Q[q]
           /\ Len(Q[u]) \in Nat /\ DOMAIN Q[u] = 1 .. Len(Q[u]) /\ DOMAIN R[u] = 1 .. Len(Q[u]) + 1
           /\ \A i \in 1 .. Len(Q[u]) : R[u][i] = Q[u][i]
           /\ R[u][Len(Q[u]) + 1] = p
  <1>1. R[u] = Append(Q[u], p) /\ Q[u] \in Seq(P) /\ \A q \in S : q # u => R[q] = Q[q]
    OBVIOUS
  <1> QED
    BY <1>1

\* The first packet of a queue is taken.
LEMMA QueueTail ==
    ASSUME NEW S, NEW P, NEW Q \in [S -> Seq(P)], NEW R, NEW u \in S, Q[u] # <<>>,
           R = [Q EXCEPT ![u] = Tail(@)]
    PROVE  /\ \A q \in S : q # u => R[q] = Q[q]
           /\ Len(Q[u]) \in Nat /\ DOMAIN Q[u] = 1 .. Len(Q[u]) /\ 1 \in DOMAIN Q[u]
           /\ DOMAIN R[u] = 1 .. Len(Q[u]) - 1 /\ Head(Q[u]) = Q[u][1]
           /\ \A i \in 1 .. Len(Q[u]) - 1 : R[u][i] = Q[u][i + 1]
  <1>1. R[u] = Tail(Q[u]) /\ Q[u] \in Seq(P) /\ \A q \in S : q # u => R[q] = Q[q]
    OBVIOUS
  <1>2. /\ Len(Q[u]) \in Nat /\ Len(Q[u]) > 0 /\ DOMAIN Q[u] = 1 .. Len(Q[u])
        /\ DOMAIN Tail(Q[u]) = 1 .. Len(Q[u]) - 1 /\ Head(Q[u]) = Q[u][1]
        /\ \A i \in 1 .. Len(Q[u]) - 1 : Tail(Q[u])[i] = Q[u][i + 1]
    BY <1>1, Popped
  <1> QED
    BY <1>1, <1>2

\* A packet is put back in front.
LEMMA QueuePut ==
    ASSUME NEW S, NEW P, NEW Q \in [S -> Seq(P)], NEW R, NEW u \in S, NEW p \in P,
           R = [Q EXCEPT ![u] = <<p>> \o @]
    PROVE  /\ \A q \in S : q # u => R[q] = Q[q]
           /\ Len(Q[u]) \in Nat /\ DOMAIN Q[u] = 1 .. Len(Q[u]) /\ DOMAIN R[u] = 1 .. Len(Q[u]) + 1
           /\ R[u][1] = p /\ \A i \in 1 .. Len(Q[u]) : R[u][i + 1] = Q[u][i]
  <1>1. R[u] = <<p>> \o Q[u] /\ Q[u] \in Seq(P) /\ \A q \in S : q # u => R[q] = Q[q]
    OBVIOUS
  <1> QED
    BY <1>1, Pushed

\* Every packet of a queue or a call was there before, or is as it should be.
LEMMA OwnerFrame ==
    ASSUME OwnerInv, net' = net, alive' = alive,
           \A q \in Queues : \A i \in DOMAIN queue'[q] :
              Owned(queue'[q][i], q) \/ \E j \in DOMAIN queue[q] : queue'[q][i] = queue[q][j],
           \A i \in DOMAIN stack' : stack'[i].p # NoOne =>
              \/ Owned(stack'[i].p, stack'[i].q)
              \/ \E j \in DOMAIN stack : stack'[i].p = stack[j].p /\ stack'[i].q = stack[j].q,
           \A t \in Taps : read_poll'[t] => t \in alive,
           reader' # NoOne => read_poll'[reader']
    PROVE  OwnerInv'
  <1>1. \A p, q : Owned(p, q)' <=> Owned(p, q)
    BY SameNet DEF Owned
  <1>2. \A q \in Queues : \A i \in DOMAIN queue'[q] : Owned(queue'[q][i], q)
    BY DEF OwnerInv
  <1>3. \A i \in DOMAIN stack' : stack'[i].p # NoOne => Owned(stack'[i].p, stack'[i].q)
    BY DEF OwnerInv
  <1>4. \A q \in Queues : \A i \in DOMAIN queue'[q] : Owned(queue[q][i], q)'
    BY <1>2, SameNet, Zenon DEF Owned
  <1>5. \A i \in DOMAIN stack' : stack'[i].p # NoOne => Owned(stack[i].p, stack[i].q)'
    BY <1>3, SameNet, Zenon DEF Owned
  <1> QED
    BY <1>4, <1>5, SameNet, Zenon DEF OwnerInv

\* The innermost call is replaced: the others stay.
LEMMA Swapped ==
    ASSUME TypeOK, stack # <<>>, NEW f \in Frame, stack' = [stack EXCEPT ![1] = f]
    PROVE  /\ DOMAIN stack' = DOMAIN stack /\ Len(stack') = Len(stack) /\ 1 \in DOMAIN stack
           /\ DOMAIN stack = 1 .. Len(stack) /\ Len(stack) \in Nat
           /\ stack'[1] = f /\ \A i \in DOMAIN stack : i # 1 => stack'[i] = stack[i]
  <1>1. /\ DOMAIN stack = 1 .. Len(stack) /\ DOMAIN stack' = 1 .. Len(stack) /\ Len(stack) \in Nat
        /\ Len(stack) > 0 /\ Len(stack') = Len(stack) /\ stack'[1] = f
        /\ \A i \in 2 .. Len(stack) : stack'[i] = stack[i]
    BY Replaced DEF TypeOK
  <1> QED
    BY <1>1

\* A packet is added only to the queue it was sent to, and a TAP that is removed
\* takes its packets with it.
LEMMA OwnerStep ==
    ASSUME TypeOK, StackInv, HostInv, OwnerInv, [Next]_vars PROVE OwnerInv'
  <1>0. /\ net' = net /\ queue \in [Queues -> Seq(Packet)] /\ stack \in Seq(Frame)
        /\ delivering = [q \in Queues |-> Busy(q)] /\ Taps \subseteq Clients
        /\ \A t \in Taps : read_poll[t] => t \in alive
        /\ reader # NoOne => read_poll[reader]
    BY StackStep, NetFacts, Zenon DEF TypeOK, Busy, OwnerInv
  <1>1. CASE AnswerStep
    <2>1. Offering /\ stack # <<>> /\ UNCHANGED <<queue, reader, read_poll, alive>>
      BY <1>1, Zenon DEF AnswerStep, Offering
    <2>2. PICK r \in Sizes : stack' = Answered(r)
      BY <1>1 DEF AnswerStep
    <2>3. PICK f \in Frame :
             /\ Answered(r) = [stack EXCEPT ![1] = f]
             /\ f.q = Top.q /\ f.p = Top.p /\ f.todo = Tail(Top.todo) /\ f.ret = r
             /\ f.flush = Top.flush /\ f.val = Top.val
      BY <2>1, AnsweredTop
    <2>4. \A i \in DOMAIN stack' : \E j \in DOMAIN stack : stack'[i].p = stack[j].p /\ stack'[i].q = stack[j].q
      BY <2>1, <2>2, <2>3, Swapped DEF Top
    <2> QED
      BY <1>0, <2>1, <2>4, OwnerFrame, Zenon
  <1>2. ASSUME NEW s \in Clients, NEW cb \in BOOLEAN, SendStep(s, cb) PROVE OwnerInv'
    <2>1. /\ sent[s] < Max /\ Send(s, cb, stack) /\ UNCHANGED <<read_poll, alive>>
          /\ \/ cb /\ s \in Taps /\ stack = <<>> /\ read_poll[s] /\ reader' = s
             \/ ~cb /\ s \notin Tap /\ UNCHANGED reader
      BY <1>2, Zenon DEF SendStep
    <2>2. /\ New(s, cb) \in Packet /\ [New(s, cb) EXCEPT !.cb = FALSE] \in Packet
          /\ QueueTo(s) \in Queues
      BY <2>1, NewType
    <2>3. s \in alive /\ (cb <=> s \in Taps)
      BY <1>0, <2>1, Zenon DEF OwnerInv, Taps
    <2>4. reader' # NoOne => read_poll'[reader']
      BY <1>0, <2>1
    <2>5. CASE UNCHANGED <<stack, queue>>
      BY <1>0, <2>1, <2>4, <2>5, OwnerFrame, Zenon
    <2>6. CASE ~link_down[s] /\ delivering[QueueTo(s)]
      <3>1. /\ UNCHANGED stack
            /\ queue' = [queue EXCEPT ![QueueTo(s)] = Append(@, [New(s, cb) EXCEPT !.cb = FALSE])]
        BY <2>1, <2>6, Zenon DEF Send, New
      <3>2. PICK p \in Packet : p = [New(s, cb) EXCEPT !.cb = FALSE]
        BY <2>2
      <3>3. PICK u \in Queues : u = QueueTo(s)
        BY <2>2
      <3>4. ~cb
        <4>1. Busy(u)
          BY <1>0, <2>6, <3>3
        <4> QED
          BY <2>1, <4>1 DEF Busy
      <3>5. Owned(p, u)
        BY <2>3, <3>2, <3>3, <3>4 DEF Owned, New
      <3>6. \A q \in Queues : \A i \in DOMAIN queue'[q] :
               Owned(queue'[q][i], q) \/ \E j \in DOMAIN queue[q] : queue'[q][i] = queue[q][j]
        <4>1. TAKE q \in Queues
        <4>2. TAKE i \in DOMAIN queue'[q]
        <4>3. /\ q # u => queue'[q] = queue[q]
              /\ Len(queue[u]) \in Nat /\ DOMAIN queue[u] = 1 .. Len(queue[u])
              /\ DOMAIN queue'[u] = 1 .. Len(queue[u]) + 1
              /\ \A k \in 1 .. Len(queue[u]) : queue'[u][k] = queue[u][k]
              /\ queue'[u][Len(queue[u]) + 1] = p
          BY <1>0, <3>1, <3>2, <3>3, QueueAppend
        <4>4. CASE q = u
          <5>1. i \in 1 .. Len(queue[u]) \/ i = Len(queue[u]) + 1
            BY <4>2, <4>3, <4>4
          <5> QED
            BY <3>5, <4>3, <4>4, <5>1
        <4> QED
          BY <4>3, <4>4
      <3> QED
        BY <1>0, <2>1, <2>4, <3>1, <3>6, OwnerFrame, Zenon
    <2>7. CASE ~link_down[s] /\ ~delivering[QueueTo(s)]
      <3>1. /\ UNCHANGED queue
            /\ stack' = <<Call(QueueTo(s), New(s, cb), FALSE, "err")>> \o stack
        BY <2>1, <2>7, Zenon DEF Send, New
      <3>2. PICK p \in Packet : p = New(s, cb)
        BY <2>2
      <3>3. PICK u \in Queues : u = QueueTo(s)
        BY <2>2
      <3>4. PICK f \in Frame :
               /\ f = Call(u, p, FALSE, "err") /\ p # NoOne /\ f.q = u /\ f.p = p
               /\ f.flush = FALSE /\ f.val = "err" /\ f.ret = "err" /\ f.todo = Targets(u, p.from)
        BY SendCall, Zenon
      <3>5. Owned(p, u)
        BY <2>3, <3>2, <3>3 DEF Owned, New
      <3>6. \A i \in DOMAIN stack' : \/ Owned(stack'[i].p, stack'[i].q)
                                     \/ \E j \in DOMAIN stack : stack'[i] = stack[j]
        <4>1. stack' = <<f>> \o stack
          BY <3>1, <3>2, <3>3, <3>4
        <4>2. /\ DOMAIN stack = 1 .. Len(stack) /\ DOMAIN stack' = 1 .. Len(stack) + 1 /\ stack'[1] = f
              /\ Len(stack) \in Nat /\ \A i \in 1 .. Len(stack) : stack'[i + 1] = stack[i]
          BY <1>0, <4>1, Pushed
        <4>3. TAKE i \in DOMAIN stack'
        <4>4. i = 1 \/ (i - 1 \in 1 .. Len(stack) /\ (i - 1) + 1 = i)
          BY <4>2
        <4> QED
          BY <3>4, <3>5, <4>2, <4>4, Zenon
      <3> QED
        BY <1>0, <2>1, <2>4, <3>1, <3>6, OwnerFrame, Zenon
    <2> QED
      BY <2>1, <2>5, <2>6, <2>7 DEF Send
  <1>3. ASSUME NEW u \in Queues, NEW p \in Packet, Owned(p, u), stack # <<>>, stack' = Tail(stack),
               \/ UNCHANGED queue
               \/ queue' = [queue EXCEPT ![u] = Append(@, p)]
               \/ queue' = [queue EXCEPT ![u] = <<p>> \o @],
               UNCHANGED <<reader, read_poll, alive>>
        PROVE  OwnerInv'
    <2>1. \A i \in DOMAIN stack' : \E j \in DOMAIN stack : stack'[i] = stack[j]
      <3>1. /\ DOMAIN stack = 1 .. Len(stack) /\ DOMAIN stack' = 1 .. Len(stack) - 1 /\ Len(stack) \in Nat
            /\ \A i \in 1 .. Len(stack) - 1 : stack'[i] = stack[i + 1]
        BY <1>0, <1>3, Popped
      <3> QED
        BY <3>1
    <2>2. \A q \in Queues : \A i \in DOMAIN queue'[q] :
             Owned(queue'[q][i], q) \/ \E j \in DOMAIN queue[q] : queue'[q][i] = queue[q][j]
      <3>1. TAKE q \in Queues
      <3>2. TAKE i \in DOMAIN queue'[q]
      <3>3. CASE queue' = [queue EXCEPT ![u] = Append(@, p)]
        <4>1. /\ q # u => queue'[q] = queue[q]
              /\ Len(queue[u]) \in Nat /\ DOMAIN queue[u] = 1 .. Len(queue[u])
              /\ DOMAIN queue'[u] = 1 .. Len(queue[u]) + 1
              /\ \A k \in 1 .. Len(queue[u]) : queue'[u][k] = queue[u][k]
              /\ queue'[u][Len(queue[u]) + 1] = p
          BY <1>0, <3>3, QueueAppend
        <4>2. q = u => i \in 1 .. Len(queue[u]) \/ i = Len(queue[u]) + 1
          BY <3>2, <4>1
        <4> QED
          BY <1>3, <4>1, <4>2
      <3>4. CASE queue' = [queue EXCEPT ![u] = <<p>> \o @]
        <4>1. /\ q # u => queue'[q] = queue[q]
              /\ Len(queue[u]) \in Nat /\ DOMAIN queue[u] = 1 .. Len(queue[u])
              /\ DOMAIN queue'[u] = 1 .. Len(queue[u]) + 1 /\ queue'[u][1] = p
              /\ \A k \in 1 .. Len(queue[u]) : queue'[u][k + 1] = queue[u][k]
          BY <1>0, <3>4, QueuePut
        <4>2. q = u => i = 1 \/ (i - 1 \in 1 .. Len(queue[u]) /\ (i - 1) + 1 = i)
          BY <3>2, <4>1
        <4> QED
          BY <1>3, <4>1, <4>2
      <3> QED
        BY <1>3, <3>3, <3>4
    <2> QED
      BY <1>0, <1>3, <2>1, <2>2, OwnerFrame, Zenon
  <1>4. ASSUME NEW f \in Frame, f.p = NoOne, stack # <<>>, stack' = [stack EXCEPT ![1] = f],
               UNCHANGED <<queue, reader, alive>>, \A t \in Taps : read_poll'[t] => t \in alive,
               \A t \in Taps : read_poll[t] => read_poll'[t]
        PROVE  OwnerInv'
    <2>1. \A i \in DOMAIN stack' : stack'[i].p # NoOne => \E j \in DOMAIN stack : stack'[i] = stack[j]
      BY <1>4, Swapped
    <2>2. reader \in Taps \cup {NoOne}
      BY DEF TypeOK
    <2> QED
      BY <1>0, <1>4, <2>1, <2>2, OwnerFrame, Zenon
  <1>5. ASSUME stack # <<>>, Top.p # NoOne PROVE Top.p \in Packet /\ Top.q \in Queues /\ Owned(Top.p, Top.q)
    BY <1>5, TopType DEF OwnerInv, Top
  <1>6. CASE Sent
    <2>1. stack # <<>> /\ Top.p # NoOne /\ UNCHANGED <<reader, read_poll, alive>>
      BY <1>6 DEF Sent, Finished, cvars
    <2>2. CASE Top.ret = "zero"
      BY <1>3, <1>5, <1>6, <2>1, <2>2, Zenon DEF Sent, Queued
    <2>3. CASE Top.ret # "zero"
      <3>1. PICK f \in Frame :
               /\ Flushing(Top.ret) = [stack EXCEPT ![1] = f]
               /\ f.q = Top.q /\ f.p = NoOne /\ f.todo = Top.todo /\ f.ret = "err"
               /\ f.flush = TRUE /\ f.val = Top.ret
        BY <2>1, FlushingTop, TopType, Zenon
      <3> QED
        BY <1>0, <1>4, <1>6, <2>1, <2>3, <3>1, Zenon DEF Sent
    <2> QED
      BY <2>2, <2>3
  <1>7. CASE FlushNext
    <2>1. stack # <<>> /\ Top.p = NoOne /\ UNCHANGED <<reader, read_poll, alive>> /\ Top.q \in Queues /\ Top.val \in Sizes
      BY <1>7, TopType, Zenon DEF FlushNext, cvars
    <2>2. PICK u \in Queues : u = Top.q
      BY <2>1
    <2>3. CASE queue[u] = <<>>
      <3>1. stack' = Tail(stack) /\ UNCHANGED queue
        BY <1>7, <2>2, <2>3 DEF FlushNext
      <3>2. \A i \in DOMAIN stack' : \E j \in DOMAIN stack : stack'[i] = stack[j]
        <4>1. /\ DOMAIN stack = 1 .. Len(stack) /\ DOMAIN stack' = 1 .. Len(stack) - 1 /\ Len(stack) \in Nat
              /\ \A i \in 1 .. Len(stack) - 1 : stack'[i] = stack[i + 1]
          BY <1>0, <2>1, <3>1, Popped
        <4> QED
          BY <4>1
      <3> QED
        BY <1>0, <2>1, <3>1, <3>2, OwnerFrame, Zenon
    <2>4. CASE queue[u] # <<>>
      <3>1. /\ queue' = [queue EXCEPT ![u] = Tail(@)]
            /\ stack' = [stack EXCEPT ![1] = FlushFrame(u, Head(queue[u]), Top.val)]
        BY <1>7, <2>2, <2>4, Zenon DEF FlushNext, FlushFrame
      <3>2. /\ \A q \in Queues : q # u => queue'[q] = queue[q]
            /\ Len(queue[u]) \in Nat /\ DOMAIN queue[u] = 1 .. Len(queue[u]) /\ 1 \in DOMAIN queue[u]
            /\ DOMAIN queue'[u] = 1 .. Len(queue[u]) - 1 /\ Head(queue[u]) = queue[u][1]
            /\ \A i \in 1 .. Len(queue[u]) - 1 : queue'[u][i] = queue[u][i + 1]
        BY <1>0, <2>4, <3>1, QueueTail
      <3>3. PICK p \in Packet : p = Head(queue[u])
        BY <1>0, <2>4, Popped
      <3> PICK v \in Sizes : v = Top.val
        BY <2>1
      <3>4. PICK f \in Frame :
               /\ f = FlushFrame(u, p, v) /\ p # NoOne /\ f.q = u /\ f.p = p
               /\ f.flush /\ f.val = v /\ f.ret = "err" /\ f.todo = Targets(u, p.from)
        BY FlushCall
      <3>5. Owned(p, u)
        BY <3>2, <3>3 DEF OwnerInv
      <3>6. \A i \in DOMAIN stack' : \/ Owned(stack'[i].p, stack'[i].q)
                                     \/ \E j \in DOMAIN stack : stack'[i] = stack[j]
        <4>1. stack' = [stack EXCEPT ![1] = f]
          BY <3>1, <3>3, <3>4
        <4> QED
          BY <2>1, <3>4, <3>5, <4>1, Swapped, Zenon
      <3>7. \A q \in Queues : \A i \in DOMAIN queue'[q] : \E j \in DOMAIN queue[q] : queue'[q][i] = queue[q][j]
        <4>1. \A i \in DOMAIN queue'[u] : i + 1 \in DOMAIN queue[u] /\ queue'[u][i] = queue[u][i + 1]
          BY <3>2
        <4> QED
          BY <3>2, <4>1
      <3> QED
        BY <1>0, <2>1, <3>6, <3>7, OwnerFrame, Zenon
    <2> QED
      BY <2>3, <2>4
  <1>8. CASE Flushed
    <2>1. stack # <<>> /\ Top.p # NoOne /\ UNCHANGED <<reader, alive>> /\ Top.val \in Sizes
      BY <1>8, TopType DEF Flushed, Finished, cvars
    <2>2. CASE Top.ret = "zero"
      BY <1>3, <1>5, <1>8, <2>1, <2>2, Zenon DEF Flushed, PutBack
    <2>3. CASE Top.ret # "zero"
      <3>1. PICK f \in Frame :
               /\ Flushing(Top.val) = [stack EXCEPT ![1] = f]
               /\ f.q = Top.q /\ f.p = NoOne /\ f.todo = Top.todo /\ f.ret = "err"
               /\ f.flush = TRUE /\ f.val = Top.val
        BY <2>1, FlushingTop, Zenon
      <3>2. UNCHANGED queue /\ stack' = [stack EXCEPT ![1] = f] /\ read_poll' = Completed(Top.p)
        BY <1>8, <2>3, <3>1, Zenon DEF Flushed
      <3>3. Top.p.from \in alive
        BY <1>5, <2>1 DEF Owned
      <3>4. /\ \A t \in Taps : read_poll'[t] => t \in alive
            /\ \A t \in Taps : read_poll[t] => read_poll'[t]
        <4>1. read_poll' = read_poll \/ read_poll' = [read_poll EXCEPT ![Top.p.from] = TRUE]
          BY <3>2 DEF Completed
        <4>2. read_poll \in [Taps -> BOOLEAN]
          BY DEF TypeOK
        <4>3. \A t \in Taps : read_poll'[t] = read_poll[t] \/ (read_poll'[t] /\ t = Top.p.from)
          BY <4>1, <4>2
        <4> QED
          BY <1>0, <3>3, <4>3, Zenon
      <3> QED
        BY <1>4, <2>1, <3>1, <3>2, <3>4, Zenon
    <2> QED
      BY <2>2, <2>3
  <1>9. ASSUME NEW t \in Taps, TapWritable(t) PROVE OwnerInv'
    <2>1. stack' = <<WritableFrame(QueueFrom(t))>> /\ UNCHANGED <<queue, reader, read_poll, alive>>
      BY <1>9 DEF TapWritable, WritableFrame
    <2>2. \A i \in DOMAIN stack' : stack'[i].p = NoOne
      BY <2>1 DEF WritableFrame
    <2> QED
      BY <1>0, <2>1, <2>2, OwnerFrame, Zenon
  <1>10. ASSUME NEW t \in Taps, Remove(t) PROVE OwnerInv'
    <2>1. /\ stack = <<>> /\ stack' = <<>> /\ reader = NoOne /\ reader' = NoOne /\ alive' = alive \ {t}
          /\ queue' = Purged(t) /\ read_poll' = [read_poll EXCEPT ![t] = FALSE]
      BY <1>10, Zenon DEF Remove, Idle
    <2>2. \A x \in Taps : read_poll'[x] => x \in alive'
      <3>1. read_poll \in [Taps -> BOOLEAN]
        BY DEF TypeOK
      <3>2. \A x \in Taps : read_poll'[x] => x # t /\ read_poll[x]
        BY <2>1, <3>1
      <3> QED
        BY <1>0, <2>1, <3>2
    <2>3. ASSUME NEW q \in Queues, NEW i \in DOMAIN queue'[q] PROVE Owned(queue[q][i], q)'
      <3>1. PICK p : p = queue'[q][i]
        OBVIOUS
      <3>2. Owned(p, q) /\ p.from # t
        <4>1. CASE q = QueueTo(t)
          <5>1. p.from # t /\ \E j \in DOMAIN queue[q] : queue[q][j] = p
            BY <2>1, <3>1, <4>1, PurgedFacts
          <5> QED
            BY <5>1, Zenon DEF OwnerInv
        <4>2. CASE q # QueueTo(t)
          <5>1. queue'[q] = queue[q]
            BY <2>1, <4>2, PurgedFacts
          <5> QED
            BY <3>1, <4>2, <5>1 DEF OwnerInv, Owned
        <4> QED
          BY <4>1, <4>2
      <3> QED
        BY <1>0, <2>1, <3>1, <3>2, SameNet, Zenon DEF Owned
    <2>4. \A i \in DOMAIN stack' : FALSE
      BY <2>1
    <2>5. Clients \ Tap \subseteq alive'
      BY <2>1, Zenon DEF OwnerInv, Taps
    <2> QED
      BY <1>0, <2>1, <2>2, <2>3, <2>4, <2>5, SameNet, Zenon DEF OwnerInv
  <1>11. CASE QuietStep
    <2>1. UNCHANGED <<queue, stack, alive>>
      BY <1>11 DEF QuietStep
    <2>2. CASE UNCHANGED <<reader, read_poll>>
      BY <1>0, <2>1, <2>2, OwnerFrame
    <2>3. CASE reader' = NoOne /\ read_poll' = [read_poll EXCEPT ![reader] = @ /\ size # "zero"]
      <3>1. read_poll \in [Taps -> BOOLEAN]
        BY DEF TypeOK
      <3>2. \A t \in Taps : read_poll'[t] => read_poll[t]
        BY <2>3, <3>1
      <3> QED
        BY <1>0, <2>1, <2>3, <3>2, OwnerFrame, Zenon
    <2> QED
      BY <1>11, <2>2, <2>3 DEF QuietStep
  <1> QED
    BY <1>1, <1>2, <1>6, <1>7, <1>8, <1>9, <1>10, <1>11, Steps

-----------------------------------------------------------------------------
(* The theorems *)

\* What is true of every machine at every moment, whatever waits in its queues.
BaseInv == TypeOK /\ StackInv /\ HostInv /\ OwnerInv

\* A machine starts with empty queues and nothing under way.
LEMMA InitBase == Init => BaseInv
  <1> SUFFICES ASSUME Init PROVE BaseInv
    OBVIOUS
  <1>1. /\ Max \in Nat /\ NoOne \notin Clients /\ Taps \subseteq Clients /\ net \in Networks
        /\ \A c \in Clients : QueueTo(c) \in Queues
    BY NetFacts DEF Init
  <1>2. Room \in Nat
    BY NetAssumption
  <1>3. /\ stack = <<>> /\ DOMAIN stack = {} /\ reader = NoOne /\ alive = Clients /\ rfds = {}
        /\ read_poll = [t \in Taps |-> TRUE] /\ queue = [q \in Queues |-> <<>>]
        /\ receive_disabled = [c \in Clients |-> FALSE]
    BY DEF Init
  <1>4. TypeOK
    <2>1. queue \in [Queues -> Seq(Packet)] /\ stack \in Seq(Frame)
      BY <1>3, EmptySeq
    <2>2. delivering = [q \in Queues |-> \E i \in DOMAIN stack : stack[i].q = q /\ stack[i].p # NoOne]
      BY <1>3 DEF Init
    <2>3. /\ room \in [Taps -> 0 .. Room] /\ wire \in [Taps -> 0 .. Max] /\ left \in [Taps -> 0 .. Max]
          /\ sent \in [Clients -> 0 .. Max] /\ seen \in [Clients -> [Clients -> 0 .. Max]]
      BY <1>1, <1>2 DEF Init
    <2>4. /\ link_down \in [Clients -> BOOLEAN] /\ write_poll \in [Taps -> BOOLEAN]
          /\ size \in Sizes /\ told \in BOOLEAN /\ wfds \subseteq Taps /\ en \in BOOLEAN
      BY Zenon DEF Init, Sizes
    <2> QED
      BY <1>1, <1>3, <2>1, <2>2, <2>3, <2>4 DEF TypeOK
  <1>5. StackInv
    BY <1>3 DEF StackInv
  <1>6. HostInv
    <2>1. \A t \in Taps : sent[t] = 0 /\ wire[t] = 0 /\ left[t] = Max
      BY <1>1 DEF Init
    <2> QED
      BY <1>1, <1>3, <2>1 DEF HostInv
  <1>7. OwnerInv
    BY <1>1, <1>3 DEF OwnerInv
  <1> QED
    BY <1>4, <1>5, <1>6, <1>7 DEF BaseInv

\* The calls in progress, the host and the owners of the packets.
THEOREM NetBase == Spec => []BaseInv
  <1>1. BaseInv /\ [Next]_vars => BaseInv'
    BY TypeStep, OwnerStep DEF BaseInv
  <1> QED
    BY InitBase, <1>1, PTL DEF Spec

\* Every variable keeps its type, and delivering is set exactly while a call is
\* delivering from the queue (net/queue.c).
THEOREM NetTypes == Spec => []TypeOK
  BY NetBase, PTL DEF BaseInv

\* qemu_del_vlan_client leaves no packet of the client in a queue, so no callback
\* is made on its freed state.
THEOREM NetNoDanglingCallback == Spec => []NoDanglingCallback
  <1>1. BaseInv => NoDanglingCallback
    BY DEF BaseInv, OwnerInv, Owned, NoDanglingCallback
  <1> QED
    BY <1>1, NetBase, PTL

-----------------------------------------------------------------------------
(* The packets of a queue, by number *)

\* The packets of s among those of a queue, by number.
IdsIn(packets, s) == {packets[i].id : i \in {j \in DOMAIN packets : packets[j].from = s}}

Sorted(packets) ==
    \A i, j \in DOMAIN packets :
        i < j /\ packets[i].from = packets[j].from => packets[i].id < packets[j].id

\* An empty queue has no packets of anyone.
LEMMA IdsEmpty == ASSUME NEW s PROVE IdsIn(<<>>, s) = {} /\ Sorted(<<>>)
  <1>1. DOMAIN <<>> = {}
    OBVIOUS
  <1> QED
    BY <1>1 DEF IdsIn, Sorted

\* A packet is sent after all those of the same sender, or before them.
Newest(p, packets) == \A n \in IdsIn(packets, p.from) : n < p.id
Oldest(p, packets) == \A n \in IdsIn(packets, p.from) : p.id < n

\* A packet is appended.
LEMMA IdsAppend ==
    ASSUME NEW P, NEW Q \in Seq(P), NEW p \in P
    PROVE  /\ \A s : IdsIn(Append(Q, p), s) = IF p.from = s THEN IdsIn(Q, s) \cup {p.id} ELSE IdsIn(Q, s)
           /\ Sorted(Q) /\ Newest(p, Q) => Sorted(Append(Q, p))
  <1>a. PICK R : R = Append(Q, p)
    BY Zenon
  <1>1. /\ Len(Q) \in Nat /\ DOMAIN Q = 1 .. Len(Q) /\ DOMAIN R = 1 .. Len(Q) + 1
        /\ \A i \in 1 .. Len(Q) : R[i] = Q[i]
        /\ R[Len(Q) + 1] = p
    BY <1>a
  <1>2. \A i \in DOMAIN R : i \in DOMAIN Q \/ i = Len(Q) + 1
    BY <1>1
  <1>3. \A i \in DOMAIN Q : i \in DOMAIN R /\ R[i] = Q[i] /\ i < Len(Q) + 1
    BY <1>1
  <1>4. Len(Q) + 1 \in DOMAIN R
    BY <1>1
  <1>5. ASSUME NEW s, p.from = s PROVE IdsIn(R, s) = IdsIn(Q, s) \cup {p.id}
    BY <1>1, <1>2, <1>3, <1>4, <1>5 DEF IdsIn
  <1>6. ASSUME NEW s, p.from # s PROVE IdsIn(R, s) = IdsIn(Q, s)
    BY <1>1, <1>2, <1>3, <1>6 DEF IdsIn
  <1>7. ASSUME Sorted(Q), Newest(p, Q) PROVE Sorted(R)
    <2>1. SUFFICES ASSUME NEW i \in DOMAIN R, NEW j \in DOMAIN R, i < j, R[i].from = R[j].from
                   PROVE  R[i].id < R[j].id
      BY DEF Sorted
    <2>2. i \in DOMAIN Q
      BY <1>1, <2>1
    <2>3. CASE j \in DOMAIN Q
      BY <1>3, <1>7, <2>1, <2>2, <2>3 DEF Sorted
    <2>4. CASE j = Len(Q) + 1
      <3>1. Q[i].id \in IdsIn(Q, p.from)
        BY <1>1, <1>3, <2>1, <2>2, <2>4 DEF IdsIn
      <3> QED
        BY <1>1, <1>3, <1>7, <2>2, <2>4, <3>1 DEF Newest
    <2> QED
      BY <1>2, <2>3, <2>4
  <1> QED
    BY <1>5, <1>6, <1>7, <1>a

InFront(p, packets) == <<p>> \o packets

\* A packet is put back in front.
LEMMA IdsPut ==
    ASSUME NEW P, NEW Q \in Seq(P), NEW p \in P
    PROVE  /\ \A s : IdsIn(InFront(p, Q), s) = IF p.from = s THEN IdsIn(Q, s) \cup {p.id} ELSE IdsIn(Q, s)
           /\ Sorted(Q) /\ Oldest(p, Q) => Sorted(InFront(p, Q))
  <1>a. PICK R : R = InFront(p, Q)
    OBVIOUS
  <1>1. /\ Len(Q) \in Nat /\ DOMAIN Q = 1 .. Len(Q) /\ DOMAIN R = 1 .. Len(Q) + 1
        /\ R[1] = p /\ \A i \in 1 .. Len(Q) : R[i + 1] = Q[i]
    BY <1>a, Pushed DEF InFront
  <1>2. \A i \in DOMAIN R : i = 1 \/ (i - 1 \in DOMAIN Q /\ R[i] = Q[i - 1])
    <2>1. TAKE i \in DOMAIN R
    <2>2. i = 1 \/ (i - 1 \in 1 .. Len(Q) /\ (i - 1) + 1 = i)
      BY <1>1
    <2> QED
      BY <1>1, <2>2
  <1>3. \A i \in DOMAIN Q : i + 1 \in DOMAIN R /\ R[i + 1] = Q[i]
    BY <1>1
  <1>4. 1 \in DOMAIN R
    BY <1>1
  <1>5. ASSUME NEW s, p.from = s PROVE IdsIn(R, s) = IdsIn(Q, s) \cup {p.id}
    <2>1. \A i \in DOMAIN R : R[i].from = s => R[i].id \in IdsIn(Q, s) \cup {p.id}
      BY <1>1, <1>2 DEF IdsIn
    <2>2. \A i \in DOMAIN Q : Q[i].from = s => Q[i].id \in IdsIn(R, s)
      BY <1>3 DEF IdsIn
    <2>3. p.id \in IdsIn(R, s)
      BY <1>1, <1>4, <1>5 DEF IdsIn
    <2>4. IdsIn(R, s) \subseteq IdsIn(Q, s) \cup {p.id}
      BY <2>1 DEF IdsIn
    <2>5. IdsIn(Q, s) \subseteq IdsIn(R, s)
      BY <2>2 DEF IdsIn
    <2> QED
      BY <2>3, <2>4, <2>5
  <1>6. ASSUME NEW s, p.from # s PROVE IdsIn(R, s) = IdsIn(Q, s)
    <2>1. \A i \in DOMAIN R : R[i].from = s => R[i].id \in IdsIn(Q, s)
      BY <1>1, <1>2, <1>6 DEF IdsIn
    <2>2. \A i \in DOMAIN Q : Q[i].from = s => Q[i].id \in IdsIn(R, s)
      BY <1>3 DEF IdsIn
    <2>4. IdsIn(R, s) \subseteq IdsIn(Q, s)
      BY <2>1 DEF IdsIn
    <2>5. IdsIn(Q, s) \subseteq IdsIn(R, s)
      BY <2>2 DEF IdsIn
    <2> QED
      BY <2>4, <2>5, Zenon
  <1>7. ASSUME Sorted(Q), Oldest(p, Q) PROVE Sorted(R)
    <2>1. SUFFICES ASSUME NEW i \in DOMAIN R, NEW j \in DOMAIN R, i < j, R[i].from = R[j].from
                   PROVE  R[i].id < R[j].id
      BY DEF Sorted
    <2>2. i \in Nat /\ j \in Nat /\ j # 1 /\ j - 1 \in DOMAIN Q /\ R[j] = Q[j - 1]
      BY <1>1, <1>2, <2>1
    <2>3. CASE i = 1
      <3>1. Q[j - 1].id \in IdsIn(Q, p.from)
        BY <1>1, <2>1, <2>2, <2>3 DEF IdsIn
      <3> QED
        BY <1>1, <1>7, <2>2, <2>3, <3>1 DEF Oldest
    <2>4. CASE i # 1
      <3>1. i - 1 \in DOMAIN Q /\ R[i] = Q[i - 1] /\ i - 1 < j - 1
        BY <1>2, <2>1, <2>2, <2>4
      <3> QED
        BY <1>7, <2>1, <2>2, <3>1 DEF Sorted
    <2> QED
      BY <2>3, <2>4
  <1> QED
    BY <1>5, <1>6, <1>7, <1>a

Numbered(P) == \A p \in P : p.id \in Nat

\* The first packet is taken.
LEMMA IdsTail ==
    ASSUME NEW P, NEW Q \in Seq(P), Q # <<>>, NEW p, p = Head(Q), Sorted(Q), Numbered(P)
    PROVE  /\ p \in P /\ Sorted(Tail(Q)) /\ p.id \in IdsIn(Q, p.from)
           /\ \A s : s # p.from => IdsIn(Tail(Q), s) = IdsIn(Q, s)
           /\ IdsIn(Tail(Q), p.from) = IdsIn(Q, p.from) \ {p.id}
           /\ \A n \in IdsIn(Tail(Q), p.from) : p.id < n
  <1>a. PICK R : R = Tail(Q)
    BY Zenon
  <1>1. /\ Len(Q) \in Nat /\ Len(Q) > 0 /\ DOMAIN Q = 1 .. Len(Q) /\ DOMAIN R = 1 .. Len(Q) - 1
        /\ p = Q[1] /\ p \in P /\ \A i \in 1 .. Len(Q) - 1 : R[i] = Q[i + 1]
    BY <1>a, Popped
  <1>2. \A i \in DOMAIN R : i + 1 \in DOMAIN Q /\ R[i] = Q[i + 1] /\ i \in Nat /\ 1 < i + 1
    BY <1>1
  <1>3. \A i \in DOMAIN Q : i = 1 \/ (i - 1 \in DOMAIN R /\ R[i - 1] = Q[i])
    <2>1. TAKE i \in DOMAIN Q
    <2>2. i = 1 \/ (i - 1 \in 1 .. Len(Q) - 1 /\ (i - 1) + 1 = i)
      BY <1>1
    <2> QED
      BY <1>1, <2>2
  <1>4. 1 \in DOMAIN Q
    BY <1>1
  <1>5. \A s : IdsIn(R, s) \subseteq IdsIn(Q, s)
    BY <1>2 DEF IdsIn
  <1>6. ASSUME NEW s, s # p.from PROVE IdsIn(Q, s) \subseteq IdsIn(R, s)
    <2>1. \A i \in DOMAIN Q : Q[i].from = s => \E j \in DOMAIN R : R[j] = Q[i]
      BY <1>1, <1>3, <1>6
    <2> QED
      BY <2>1 DEF IdsIn
  <1>7. IdsIn(Q, p.from) \subseteq IdsIn(R, p.from) \cup {p.id}
    <2>1. \A i \in DOMAIN Q : Q[i] = p \/ \E j \in DOMAIN R : R[j] = Q[i]
      BY <1>1, <1>3
    <2> QED
      BY <2>1 DEF IdsIn
  <1>8. p.id \in IdsIn(Q, p.from)
    BY <1>1, <1>4 DEF IdsIn
  <1>9. \A n \in IdsIn(R, p.from) : p.id < n
    <2>1. SUFFICES ASSUME NEW i \in DOMAIN R, R[i].from = p.from PROVE p.id < R[i].id
      BY DEF IdsIn
    <2> QED
      BY <1>1, <1>2, <1>4, <2>1 DEF Sorted
  <1>10. p.id \notin IdsIn(R, p.from)
    <2>1. p.id \in Nat
      BY <1>1 DEF Numbered
    <2> QED
      BY <1>9, <2>1
  <1>11. Sorted(R)
    <2>1. SUFFICES ASSUME NEW i \in DOMAIN R, NEW j \in DOMAIN R, i < j, R[i].from = R[j].from
                   PROVE  R[i].id < R[j].id
      BY DEF Sorted
    <2>2. i + 1 < j + 1
      BY <1>2, <2>1
    <2> QED
      BY <1>2, <2>1, <2>2 DEF Sorted
  <1>12. ASSUME NEW s, s # p.from PROVE IdsIn(R, s) = IdsIn(Q, s)
    <2>1. IdsIn(R, s) \subseteq IdsIn(Q, s)
      BY <1>5
    <2>2. IdsIn(Q, s) \subseteq IdsIn(R, s)
      BY <1>6, <1>12
    <2> QED
      BY <2>1, <2>2, Zenon
  <1>13. IdsIn(R, p.from) = IdsIn(Q, p.from) \ {p.id}
    BY <1>5, <1>7, <1>10
  <1> QED
    BY <1>1, <1>8, <1>9, <1>11, <1>12, <1>13, <1>a

\* Where the packets of the others are.
NotFrom(packets, t) == {i \in DOMAIN packets : packets[i].from # t}

\* The packets of a client are purged.
LEMMA IdsPurge ==
    ASSUME NEW P, NEW Q \in Seq(P), NEW t, Sorted(Q)
    PROVE  /\ Sorted(At(Q, NotFrom(Q, t))) /\ IdsIn(At(Q, NotFrom(Q, t)), t) = {}
           /\ \A s : s # t => IdsIn(At(Q, NotFrom(Q, t)), s) = IdsIn(Q, s)
  <1>a. PICK I \in SUBSET (DOMAIN Q) : I = NotFrom(Q, t)
    BY Zenon DEF NotFrom
  <1>b. \A i \in DOMAIN Q : Q[i].from # t => i \in I
    BY <1>a DEF NotFrom
  <1>1. \A i \in I : i \in DOMAIN Q /\ Q[i].from # t
    BY <1>a DEF NotFrom
  <1>2. PICK R \in Seq(P) : R = At(Q, I)
    BY AtFacts
  <1>3. \A k, l \in DOMAIN R : k < l =>
           \E i, j \in I : i < j /\ R[k] = Q[i] /\ R[l] = Q[j]
    BY <1>2, AtFacts
  <1>7. \A k \in DOMAIN R : \E i \in DOMAIN Q : R[k] = Q[i] /\ Q[i].from # t
    <2>1. \A k \in DOMAIN R : \E i \in I : R[k] = Q[i]
      BY <1>2, AtFacts, Zenon
    <2> QED
      BY <1>1, <2>1
  <1>8. \A i \in DOMAIN Q : Q[i].from # t => \E k \in DOMAIN R : R[k] = Q[i]
    <2>1. \A i \in I : \E k \in DOMAIN R : R[k] = Q[i]
      BY <1>2, AtFacts
    <2> QED
      BY <1>b, <2>1
  <1>9. Sorted(R)
    <2>1. SUFFICES ASSUME NEW k \in DOMAIN R, NEW l \in DOMAIN R, k < l, R[k].from = R[l].from
                   PROVE  R[k].id < R[l].id
      BY DEF Sorted
    <2>2. PICK i \in I, j \in I : i < j /\ R[k] = Q[i] /\ R[l] = Q[j]
      BY <1>3, <2>1
    <2> QED
      BY <1>1, <2>1, <2>2 DEF Sorted
  <1>10. IdsIn(R, t) = {}
    BY <1>7 DEF IdsIn
  <1>11. \A s : IdsIn(R, s) \subseteq IdsIn(Q, s)
    BY <1>7 DEF IdsIn
  <1>12. \A s : s # t => IdsIn(Q, s) \subseteq IdsIn(R, s)
    BY <1>8 DEF IdsIn
  <1>13. ASSUME NEW s, s # t PROVE IdsIn(R, s) = IdsIn(Q, s)
    <2>1. IdsIn(R, s) \subseteq IdsIn(Q, s)
      BY <1>11
    <2>2. IdsIn(Q, s) \subseteq IdsIn(R, s)
      BY <1>12, <1>13
    <2> QED
      BY <2>1, <2>2, Zenon
  <1> QED
    BY <1>2, <1>9, <1>10, <1>13, <1>a
=============================================================================
