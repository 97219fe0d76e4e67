--------------------------- MODULE NetQueueOrder ----------------------------
(***************************************************************************)
(* Two clients of NetQueue get each other's packets once each and in the   *)
(* order they were sent: the theorem NetInOrder.                           *)
(***************************************************************************)
EXTENDS NetQueueWaiting

-----------------------------------------------------------------------------
(* The steps *)

\* A client answers.
LEMMA AnswerOrder ==
    ASSUME Inv, Two, NestInv, SortInv, \A s \in Clients : SenderInv(s), AnswerStep
    PROVE  NestInv' /\ SortInv' /\ \A s \in Clients : SenderInv(s)'
  <1>1. /\ Offering /\ stack # <<>> /\ Top.p # NoOne /\ Top.todo # <<>>
        /\ UNCHANGED <<net, queue, reader, size, read_poll, alive, link_down, sent>>
    BY DEF AnswerStep, Offering
  <1> USE <1>1
  <1>2. PICK a \in Clients :
           /\ a = Top.p.from /\ QueueTo(a) = Top.q /\ Carries(Top, a) /\ a \in alive
           /\ Calls(a) = {Top} /\ Top.p \in Packet /\ Top.p.id \in Nat
           /\ Peer(a) \in Clients /\ Peer(a) # a /\ Peer(Peer(a)) = a /\ ~Carries(Top, Peer(a))
           /\ \A s \in Clients : s = a \/ s = Peer(a)
    BY TopSender
  <1> USE <1>2
  <1>3. PICK c \in Clients : c = Peer(a)
    OBVIOUS
  <1> USE <1>3
  <1>4. Top.todo = <<c>> /\ Top.ret = "err"
    BY Zenon DEF SenderInv, Offers
  <1>5. Client = c /\ Tail(Top.todo) = <<>>
    BY <1>4 DEF Client
  <1>6. PICK r \in Sizes :
           /\ stack' = Answered(r)
           /\ \/ /\ r # "zero" /\ See(c) /\ UNCHANGED receive_disabled
                 /\ link_down[c] \/ ~receive_disabled[c]
              \/ /\ r = "zero" /\ UNCHANGED seen /\ c \in Taps /\ ~link_down[c]
                 /\ receive_disabled' = receive_disabled \/ receive_disabled' = [receive_disabled EXCEPT ![c] = TRUE]
                 /\ receive_disabled'[c]
    <2>1. \A x : First(x) = x
      BY <1>4 DEF First
    <2>2. \A d \in Clients : receive_disabled[d] => d \in Taps
      BY DEF Inv, FlushInv
    <2>3. receive_disabled \in [Clients -> BOOLEAN]
      BY DEF Inv, TypeOK
    <2> QED
      BY <1>5, <2>1, <2>2, <2>3 DEF AnswerStep
  <1>7. PICK f \in Frame :
           /\ Answered(r) = [stack EXCEPT ![1] = f]
           /\ f.q = Top.q /\ f.p = Top.p /\ f.todo = Tail(Top.todo) /\ f.ret = r
           /\ f.flush = Top.flush /\ f.val = Top.val
    BY AnsweredTop DEF Inv
  <1> USE <1>6
  <1>8. /\ NestInv' /\ stack' # <<>>
        /\ \A s \in Clients : /\ Calls(s)' = IF QueueTo(s) = Top.q THEN {f} ELSE Calls(s)
                              /\ QueueTo(s) = Top.q => Calls(s) = {Top}
    BY <1>7, SwapSender, Zenon
  <1>9. SortInv' /\ \A s : Ids(s)' = Ids(s)
    BY SameIds
  <1>10. seen \in [Clients -> [Clients -> 0 .. Max]] /\ receive_disabled \in [Clients -> BOOLEAN]
    BY Zenon DEF Inv, TypeOK
  <1>11. /\ Got(c)' = Got(c)
         /\ UNCHANGED seen => Got(a)' = Got(a)
         /\ See(c) => Got(a)' = IF Top.p.id > Got(a) THEN Top.p.id ELSE Got(a)
    <2>1. Peer(a)' = c /\ Peer(a) = c /\ Peer(c)' = a /\ Peer(c) = a /\ a # c
      BY SameTwo
    <2>2. Got(a) = seen[c][a] /\ Got(a)' = seen'[c][a] /\ Got(c) = seen[a][c] /\ Got(c)' = seen'[a][c]
      BY <2>1 DEF Got
    <2>3. UNCHANGED seen => Got(c)' = Got(c) /\ Got(a)' = Got(a)
      BY <2>2
    <2>4. See(c) => /\ Got(c)' = Got(c)
                    /\ Got(a)' = IF Top.p.id > Got(a) THEN Top.p.id ELSE Got(a)
      <3>1. SUFFICES ASSUME See(c) PROVE /\ seen'[a][c] = seen[a][c]
                                         /\ seen'[c][a] = IF Top.p.id > seen[c][a] THEN Top.p.id ELSE seen[c][a]
        BY <2>2
      <3>2. seen' = [seen EXCEPT ![c] = [seen[c] EXCEPT ![a] = IF Top.p.id > @ THEN Top.p.id ELSE @]]
        BY <3>1 DEF See
      <3>3. seen[c] \in [Clients -> 0 .. Max]
        BY <1>10, Zenon
      <3> QED
        BY <1>10, <2>1, <3>2, <3>3, Zenon
    <2> QED
      BY <2>3, <2>4
  <1> USE <1>8, <1>9, <1>11
  <1>12. SenderInv(a)'
    <2>1. PICK t : t = Top
      OBVIOUS
    <2>2. /\ SenderInv(a) /\ net' = net /\ UNCHANGED <<alive, link_down, reader>> /\ read_poll' = read_poll
          /\ stack # <<>> /\ stack' # <<>> /\ Ids(a)' = Ids(a) /\ sent'[a] = sent[a]
      OBVIOUS
    <2>3. /\ Calls(a) = {t} /\ Carries(t, a) /\ t.todo # <<>>
          /\ Calls(a)' = {f} /\ f.p = t.p /\ f.flush = t.flush /\ f.todo = <<>> /\ f.ret = r
      BY <1>5, <1>7, <2>1
    <2>4. CASE r # "zero"
      <3>1. /\ receive_disabled' = receive_disabled /\ Got(a)' = IF t.p.id > Got(a) THEN t.p.id ELSE Got(a)
            /\ link_down[Peer(a)] \/ ~receive_disabled[Peer(a)]
        BY <2>1, <2>4, Zenon
      <3> QED
        BY <2>2, <2>3, <2>4, <3>1, AnswerSeen, Zenon
    <2>5. CASE r = "zero"
      <3>1. /\ Got(a)' = Got(a) /\ Peer(a) \in Taps /\ ~link_down[Peer(a)] /\ receive_disabled'[Peer(a)]
        BY <2>5
      <3> HIDE <1>1, <1>2, <1>3, <1>6, <1>8, <1>9, <1>11
      <3> QED
        BY <2>2, <2>3, <2>5, <3>1, AnswerZero, Zenon
    <2> QED
      BY <2>4, <2>5
  <1>13. SenderInv(c)'
    <2>1. ~Carries(f, c)
      BY <1>7 DEF Carries
    <2>2. Top.flush \/ ~Unseen(Top) => f.flush \/ ~Unseen(f)
      BY <1>7 DEF Unseen
    <2>3. receive_disabled'[Peer(c)] = receive_disabled[Peer(c)]
      <3>1. \/ receive_disabled' = receive_disabled
            \/ receive_disabled' = [receive_disabled EXCEPT ![c] = TRUE]
        BY Zenon
      <3>2. Peer(c) = a /\ a # c
        BY Zenon
      <3> HIDE <1>1, <1>2, <1>3, <1>6, <1>8, <1>9, <1>11
      <3> QED
        BY <1>10, <3>1, <3>2, Zenon
    <2> QED
      BY <2>1, <2>2, <2>3, SwapOther, Zenon
  <1> QED
    BY <1>12, <1>13

\* A packet that was answered with 0 is queued or put back.
LEMMA BackSender ==
    ASSUME Inv, Two, NEW a \in Clients, SenderInv(a), net' = net,
           UNCHANGED <<alive, link_down, receive_disabled, reader, read_poll>>,
           stack # <<>>, sent'[a] = sent[a], Got(a)' = Got(a),
           NEW t, Calls(a) = {t}, Carries(t, a), t.ret = "zero",
           Calls(a)' = {}, Ids(a)' = Ids(a) \cup {t.p.id},
           a \in Taps /\ ~t.flush => stack' = <<>> /\ size' = "zero"
    PROVE  SenderInv(a)'
  <1>1. Peer(a)' = Peer(a) /\ Taps' = Taps
    BY SameTwo, SameNet, Zenon
  <1>2. /\ Unseen(t) /\ Peer(a) \in Taps /\ receive_disabled[Peer(a)] /\ ~link_down[Peer(a)]
        /\ t.p.id \in Nat
    BY SenderTypes, Zenon DEF Unseen, SenderInv, Offers
  <1>3. Offers(a)'
    BY DEF Offers
  <1>4. Numbers(a)'
    BY DEF SenderInv, Numbers
  <1>5. Single(a)'
    <2>1. SUFFICES ASSUME a \in Taps PROVE Halted(a)' /\ \A m, n \in Ids(a)' : m = n
      BY <1>1, Zenon DEF Single
    <2>2. Ids(a)' = {t.p.id}
      BY <2>1, Zenon DEF SenderInv, Single
    <2>3. Halted(a)'
      BY <2>1 DEF SenderInv, Single, Halted
    <2> QED
      BY <2>2, <2>3
  <1>6. Blocked(a)'
    BY <1>1, <1>2 DEF Blocked
  <1>7. Ordered(a)'
    <2>1. ~Drains(a)
      BY <1>2 DEF Drains
    <2>2. Fresh(a) => Fresh(a)'
      BY <1>2 DEF Fresh
    <2>3. Pending(a) => Pending(a)'
      BY <1>2 DEF Pending
    <2> QED
      BY <1>1, <2>1, <2>2, <2>3, Zenon DEF SenderInv, Ordered
  <1> QED
    BY <1>3, <1>4, <1>5, <1>6, <1>7, Zenon DEF SenderInv

\* A packet has been taken, refused or dropped, and the call goes on to flush.
LEMMA OverSender ==
    ASSUME Inv, Two, NEW a \in Clients, SenderInv(a), net' = net,
           UNCHANGED <<alive, link_down, receive_disabled>>,
           sent'[a] = sent[a], Got(a)' = Got(a), Ids(a)' = Ids(a),
           NEW t, Calls(a) = {t}, Carries(t, a), t.ret # "zero", t.todo = <<>>,
           NEW f, Calls(a)' = {f}, f.p = NoOne, f.flush
    PROVE  SenderInv(a)'
  <1>1. Peer(a)' = Peer(a) /\ Taps' = Taps
    BY SameTwo, SameNet, Zenon
  <1>2. ~Unseen(t) /\ ~Carries(f, a)
    BY Zenon DEF Unseen, Carries
  <1>3. Offers(a)'
    BY DEF Offers, Carries
  <1>4. Numbers(a)'
    BY Zenon DEF SenderInv, Numbers, Carries
  <1>5. Single(a)'
    <2>1. a \in Taps => Ids(a) = {}
      BY Zenon DEF SenderInv, Single
    <2> QED
      BY <1>1, <2>1, Zenon DEF Single, Carries
  <1>6. Blocked(a)'
    BY DEF Blocked
  <1>7. Ordered(a)'
    <2>1. Drains(a) => Drains(a)'
      BY <1>1, Zenon DEF Drains
    <2>2. Fresh(a) => Fresh(a)'
      BY Zenon DEF Fresh, Carries
    <2>3. Pending(a) => Pending(a)'
      BY <1>2, Zenon DEF Pending
    <2> QED
      BY <1>1, <2>1, <2>2, <2>3, Zenon DEF SenderInv, Ordered
  <1> QED
    BY <1>3, <1>4, <1>5, <1>6, <1>7, Zenon DEF SenderInv

\* A flush takes the first packet of the queue.
LEMMA TakeSender ==
    ASSUME Inv, Two, NEW a \in Clients, SenderInv(a), net' = net,
           UNCHANGED <<alive, link_down, receive_disabled, reader, read_poll>>,
           stack # <<>>, sent'[a] = sent[a], Got(a)' = Got(a),
           NEW t, Calls(a) = {t}, ~Carries(t, a), t.flush,
           NEW f, Calls(a)' = {f}, Carries(f, a), f.flush, f.ret = "err",
           f.todo = IF net.vlan /\ Peer(a) \notin alive THEN <<>> ELSE <<Peer(a)>>,
           f.p.id \in Ids(a), Ids(a)' = Ids(a) \ {f.p.id}, \A n \in Ids(a)' : f.p.id < n
    PROVE  SenderInv(a)'
  <1>1. Peer(a)' = Peer(a) /\ Taps' = Taps
    BY SameTwo, SameNet, Zenon
  <1>2. <<Peer(a)>> # <<>>
    BY Zenon
  <1>3. Offers(a)'
    BY <1>1, <1>2 DEF Offers
  <1>4. Numbers(a)'
    BY Zenon DEF SenderInv, Numbers
  <1>5. Single(a)'
    <2>1. a \in Taps => Halted(a) /\ Ids(a)' = {}
      BY Zenon DEF SenderInv, Single
    <2> QED
      BY <1>1, <2>1 DEF Single, Halted
  <1>6. Blocked(a)'
    BY DEF Blocked
  <1>7. Ordered(a)'
    <2>1. SUFFICES ASSUME a \in alive, net.vlan => Peer(a) \in alive PROVE (Drains(a) \/ Fresh(a))' /\ Pending(a)'
      BY <1>1 DEF Ordered
    <2>2. (Drains(a) \/ Fresh(a)) /\ Pending(a)
      BY <2>1, Zenon DEF SenderInv, Ordered
    <2>3. Drains(a) => Drains(a)'
      BY <1>1, Zenon DEF Drains
    <2>4. Fresh(a) => Fresh(a)'
      BY Zenon DEF Fresh
    <2>5. Pending(a)'
      <3>1. Unseen(f)
        BY <1>2, <2>1 DEF Unseen
      <3> QED
        BY <2>2, <3>1 DEF Pending
    <2> QED
      BY <2>2, <2>3, <2>4, <2>5, Zenon
  <1> QED
    BY <1>3, <1>4, <1>5, <1>6, <1>7, Zenon DEF SenderInv

\* A packet is queued because its queue is being delivered from.
LEMMA QueuedSender ==
    ASSUME Inv, Two, NEW a \in Clients \ Taps, SenderInv(a), net' = net,
           UNCHANGED <<alive, link_down, receive_disabled>>,
           Got(a)' = Got(a), sent'[a] = sent[a] + 1, Ids(a)' = Ids(a) \cup {sent[a] + 1},
           Calls(a)' = Calls(a), Calls(a) # {}, \A f \in Calls(a) : ~Carries(f, a)
    PROVE  SenderInv(a)'
  <1>1. Peer(a)' = Peer(a) /\ Taps' = Taps
    BY SameTwo, SameNet, Zenon
  <1>2. Got(a) \in Nat /\ sent[a] \in Nat /\ Ids(a) \subseteq Nat /\ Got(a) <= sent[a]
    BY SenderTypes, Zenon DEF SenderInv, Numbers
  <1>3. Offers(a)'
    BY Zenon DEF Offers, Carries
  <1>4. Numbers(a)'
    <2>1. Got(a)' <= sent'[a]
      BY <1>2
    <2>2. \A n \in Ids(a) : n <= sent[a]
      BY DEF SenderInv, Numbers
    <2>3. \A n \in Ids(a)' : n <= sent'[a]
      BY <1>2, <2>2
    <2>4. \A f \in Calls(a)' : ~Carries(f, a)
      OBVIOUS
    <2> QED
      BY <2>1, <2>3, <2>4, Zenon DEF Numbers
  <1>5. Single(a)'
    BY <1>1 DEF Single
  <1>6. Blocked(a)'
    BY DEF Blocked, Carries
  <1>7. Ordered(a)'
    <2>1. Drains(a) => Drains(a)'
      BY <1>1, Zenon DEF Drains, Unseen
    <2>2. Fresh(a) => Fresh(a)'
      BY <1>2 DEF Fresh, Carries
    <2>3. Pending(a) => Pending(a)'
      <3>1. SUFFICES ASSUME Pending(a), NEW n \in Got(a) + 1 .. sent[a] + 1 PROVE n \in Ids(a)'
        BY DEF Pending
      <3>2. n = sent[a] + 1 \/ n \in Got(a) + 1 .. sent[a]
        BY <1>2
      <3> QED
        BY <3>1, <3>2, Zenon DEF Pending
    <2> QED
      BY <1>1, <2>1, <2>2, <2>3, Zenon DEF SenderInv, Ordered
  <1> QED
    BY <1>3, <1>4, <1>5, <1>6, <1>7 DEF SenderInv

\* A packet is sent.
LEMMA CalledSender ==
    ASSUME Inv, Two, NEW a \in Clients, SenderInv(a), net' = net,
           UNCHANGED <<alive, link_down, receive_disabled>>,
           Got(a)' = Got(a), sent'[a] = sent[a] + 1, Ids(a)' = Ids(a),
           Calls(a) = {}, NEW f, Calls(a)' = {f}, Carries(f, a), ~f.flush, f.ret = "err",
           f.p.id = sent[a] + 1,
           f.todo = IF net.vlan /\ Peer(a) \notin alive THEN <<>> ELSE <<Peer(a)>>,
           a \in Taps => ~Halted(a) /\ reader' = a
    PROVE  SenderInv(a)'
  <1>1. Peer(a)' = Peer(a) /\ Taps' = Taps
    BY SameTwo, SameNet, Zenon
  <1>2. Got(a) \in Nat /\ sent[a] \in Nat /\ Ids(a) \subseteq Nat /\ Got(a) <= sent[a]
    BY SenderTypes, Zenon DEF SenderInv, Numbers
  <1>3. <<Peer(a)>> # <<>>
    OBVIOUS
  <1>4. Offers(a)'
    BY <1>1, <1>3, Zenon DEF Offers
  <1>5. Numbers(a)'
    <2>1. \A n \in Ids(a) : n <= sent[a]
      BY Zenon DEF SenderInv, Numbers
    <2>2. /\ Got(a)' <= sent'[a] /\ f.p.id <= sent'[a] /\ f.p.id = sent'[a]
          /\ \A n \in Ids(a)' : n <= sent'[a] /\ n < f.p.id
      BY <1>2, <2>1
    <2> QED
      BY <2>2, Zenon DEF Numbers
  <1>6. Single(a)'
    <2>1. a \in Taps => Ids(a) = {}
      BY Zenon DEF SenderInv, Single
    <2> QED
      BY <1>1, <2>1, Zenon DEF Single
  <1>7. Blocked(a)'
    BY <1>1, Zenon DEF SenderInv, Blocked
  <1>8. Ordered(a)'
    <2>1. SUFFICES ASSUME a \in alive, net.vlan => Peer(a) \in alive PROVE (Drains(a) \/ Fresh(a))' /\ Pending(a)'
      BY <1>1, Zenon DEF Ordered
    <2>2. Fresh(a) /\ Pending(a)
      BY <2>1, Zenon DEF SenderInv, Ordered, Drains
    <2>3. Unseen(f)
      BY <1>3, <2>1 DEF Unseen
    <2>4. Fresh(a)'
      <3>1. (\A n \in Ids(a)' : n > Got(a)') /\ f.p.id > Got(a)'
        BY <1>2, <2>2 DEF Fresh
      <3> QED
        BY <3>1, Zenon DEF Fresh
    <2>5. Pending(a)'
      <3>1. SUFFICES ASSUME NEW n \in Got(a) + 1 .. sent[a] + 1 PROVE n \in Ids(a) \/ n = f.p.id
        BY <2>3 DEF Pending
      <3>2. n = sent[a] + 1 \/ n \in Got(a) + 1 .. sent[a]
        BY <1>2
      <3> QED
        BY <2>2, <3>1, <3>2, Zenon DEF Pending
    <2> QED
      BY <2>4, <2>5, Zenon
  <1> QED
    BY <1>4, <1>5, <1>6, <1>7, <1>8, Zenon DEF SenderInv

\* The delivery of a packet that was being sent is over.
LEMMA SentOrder ==
    ASSUME Inv, Two, NestInv, SortInv, \A s \in Clients : SenderInv(s), Sent
    PROVE  NestInv' /\ SortInv' /\ \A s \in Clients : SenderInv(s)'
  <1>1. /\ stack # <<>> /\ Top.p # NoOne /\ Top.todo = <<>> /\ ~Top.flush
        /\ UNCHANGED <<net, alive, link_down, receive_disabled, reader, read_poll, sent, seen>>
    BY Zenon DEF Sent, Finished, cvars
  <1> USE <1>1
  <1>2. PICK a \in Clients :
           /\ a = Top.p.from /\ QueueTo(a) = Top.q /\ Carries(Top, a) /\ a \in alive
           /\ Calls(a) = {Top} /\ Top.p \in Packet /\ Top.p.id \in Nat
           /\ Peer(a) \in Clients /\ Peer(a) # a /\ Peer(Peer(a)) = a /\ ~Carries(Top, Peer(a))
           /\ \A s \in Clients : s = a \/ s = Peer(a)
    BY TopSender
  <1> USE <1>2
  <1>3. PICK c \in Clients : c = Peer(a)
    OBVIOUS
  <1>4. \A s \in Clients : Got(s)' = Got(s)
    BY SameTwo DEF Got
  <1>5. Top.q \in Queues /\ Top.ret \in Sizes
    BY TopType DEF Inv
  <1> USE <1>3
  <1>6. CASE Top.ret = "zero"
    <2> USE <1>6
    <2>1. /\ queue' = [queue EXCEPT ![Top.q] = Append(@, Top.p)]
          /\ size' = "zero" /\ stack' = Tail(stack)
      BY Zenon DEF Sent, Queued
    <2>2. c \in Taps
      BY Zenon DEF SenderInv, Offers
    <2>3. \A n \in Ids(a) : n < Top.p.id
      BY Zenon DEF SenderInv, Numbers
    <2>4. PICK p \in Packet : p = Top.p
      OBVIOUS
    <2>5. PICK u \in Queues : u = Top.q
      BY <1>5
    <2> USE <2>1, <2>4
    <2>6. /\ SortInv'
          /\ \A s \in Clients : Ids(s)' = IF s = p.from THEN Ids(s) \cup {p.id} ELSE Ids(s)
      BY <2>3, <2>5, AppendSender, Zenon
    <2>7. /\ NestInv'
          /\ \A s \in Clients : /\ Calls(s)' = IF QueueTo(s) = Top.q THEN {} ELSE Calls(s)
                                /\ QueueTo(s) = Top.q => Calls(s) = {Top}
                                /\ QueueTo(s) = Top.q /\ s \in Taps => stack' = <<>>
      BY PopSender
    <2> USE <2>6, <2>7
    <2>8. SenderInv(a)'
      BY <1>4, BackSender, Zenon
    <2>9. SenderInv(c)'
      BY <1>4, <2>2, PopOther, Zenon
    <2> QED
      BY <2>8, <2>9
  <1>7. CASE Top.ret # "zero"
    <2>1. UNCHANGED queue /\ stack' = Flushing(Top.ret)
      BY <1>7, Zenon DEF Sent
    <2>2. PICK f \in Frame :
             /\ Flushing(Top.ret) = [stack EXCEPT ![1] = f]
             /\ f.q = Top.q /\ f.p = NoOne /\ f.todo = Top.todo /\ f.ret = "err" /\ f.flush = TRUE
      BY <1>5, FlushingTop, Zenon DEF Inv
    <2> USE <2>2
    <2>3. /\ NestInv' /\ stack' # <<>>
          /\ \A s \in Clients : /\ Calls(s)' = IF QueueTo(s) = Top.q THEN {f} ELSE Calls(s)
                                /\ QueueTo(s) = Top.q => Calls(s) = {Top}
      BY <2>1, SwapSender, Zenon
    <2>4. SortInv' /\ \A s : Ids(s)' = Ids(s)
      BY <2>1, SameIds
    <2> USE <2>3, <2>4
    <2>5. SenderInv(a)'
      BY <1>4, <1>7, OverSender, Zenon
    <2>6. ~Carries(f, c)
      BY DEF Carries
    <2>7. SenderInv(c)'
      BY <1>4, <2>6, SwapOther, Zenon
    <2> QED
      BY <2>5, <2>7
  <1> QED
    BY <1>6, <1>7

\* The delivery of a packet that was being flushed is over.
LEMMA FlushedOrder ==
    ASSUME Inv, Two, NestInv, SortInv, \A s \in Clients : SenderInv(s), Flushed
    PROVE  NestInv' /\ SortInv' /\ \A s \in Clients : SenderInv(s)'
  <1>1. /\ stack # <<>> /\ Top.p # NoOne /\ Top.todo = <<>> /\ Top.flush
        /\ UNCHANGED <<net, alive, link_down, receive_disabled, reader, sent, seen>>
    BY Zenon DEF Flushed, Finished, cvars
  <1> USE <1>1
  <1>2. PICK a \in Clients :
           /\ a = Top.p.from /\ QueueTo(a) = Top.q /\ Carries(Top, a) /\ a \in alive
           /\ Calls(a) = {Top} /\ Top.p \in Packet /\ Top.p.id \in Nat
           /\ Peer(a) \in Clients /\ Peer(a) # a /\ Peer(Peer(a)) = a /\ ~Carries(Top, Peer(a))
           /\ \A s \in Clients : s = a \/ s = Peer(a)
    BY TopSender
  <1> USE <1>2
  <1>3. PICK c \in Clients : c = Peer(a)
    OBVIOUS
  <1>4. \A s \in Clients : Got(s)' = Got(s)
    BY SameTwo DEF Got
  <1>5. Top.q \in Queues /\ Top.val \in Sizes
    BY TopType DEF Inv
  <1> USE <1>3
  <1>6. CASE Top.ret = "zero"
    <2> USE <1>6
    <2>1. /\ queue' = [queue EXCEPT ![Top.q] = <<Top.p>> \o @]
          /\ stack' = Tail(stack) /\ UNCHANGED read_poll
      BY DEF Flushed, PutBack
    <2>2. c \in Taps
      BY DEF SenderInv, Offers
    <2>3. \A n \in Ids(a) : Top.p.id < n
      BY Zenon DEF SenderInv, Numbers
    <2>4. PICK p \in Packet : p = Top.p
      OBVIOUS
    <2>5. PICK u \in Queues : u = Top.q
      BY <1>5
    <2> USE <2>1, <2>4
    <2>6. /\ SortInv'
          /\ \A s \in Clients : Ids(s)' = IF s = p.from THEN Ids(s) \cup {p.id} ELSE Ids(s)
      BY <2>3, <2>5, PutSender, Zenon
    <2>7. /\ NestInv'
          /\ \A s \in Clients : /\ Calls(s)' = IF QueueTo(s) = Top.q THEN {} ELSE Calls(s)
                                /\ QueueTo(s) = Top.q => Calls(s) = {Top}
      BY PopSender, Zenon
    <2> USE <2>6, <2>7
    <2>8. SenderInv(a)'
      BY <1>4, BackSender, Zenon
    <2>9. SenderInv(c)'
      BY <1>4, <2>2, PopOther, Zenon
    <2> QED
      BY <2>8, <2>9, Zenon
  <1>7. CASE Top.ret # "zero"
    <2>1. UNCHANGED queue /\ stack' = Flushing(Top.val) /\ read_poll' = Completed(Top.p)
      BY <1>7, Zenon DEF Flushed
    <2>2. PICK f \in Frame :
             /\ Flushing(Top.val) = [stack EXCEPT ![1] = f]
             /\ f.q = Top.q /\ f.p = NoOne /\ f.todo = Top.todo /\ f.ret = "err" /\ f.flush = TRUE
      BY <1>5, FlushingTop, Zenon DEF Inv
    <2> USE <2>1, <2>2
    <2>3. /\ NestInv' /\ stack' # <<>>
          /\ \A s \in Clients : /\ Calls(s)' = IF QueueTo(s) = Top.q THEN {f} ELSE Calls(s)
                                /\ QueueTo(s) = Top.q => Calls(s) = {Top}
      BY SwapSender, Zenon
    <2>4. SortInv' /\ \A s : Ids(s)' = Ids(s)
      BY SameIds, Zenon
    <2> USE <2>3, <2>4
    <2>5. SenderInv(a)'
      BY <1>4, <1>7, OverSender, Zenon
    <2>6. ~Carries(f, c)
      BY DEF Carries
    <2>7. c \in Taps => read_poll'[c] = read_poll[c]
      BY Zenon DEF Completed, Inv, TypeOK
    <2>8. SenderInv(c)'
      BY <1>4, <2>6, <2>7, SwapOther, Zenon
    <2> QED
      BY <2>5, <2>8
  <1> QED
    BY <1>6, <1>7

\* A flush takes the next packet, or ends.
LEMMA FlushNextOrder ==
    ASSUME Inv, Two, NestInv, SortInv, \A s \in Clients : SenderInv(s), FlushNext
    PROVE  NestInv' /\ SortInv' /\ \A s \in Clients : SenderInv(s)'
  <1>1. /\ stack # <<>> /\ Top.p = NoOne
        /\ UNCHANGED <<net, alive, link_down, receive_disabled, reader, read_poll, sent, seen>>
    BY DEF FlushNext, cvars
  <1> USE <1>1
  <1>2. Top.flush
    BY TopType DEF Inv, StackInv, Top
  <1>3. \A s \in Clients : Got(s)' = Got(s)
    BY SameTwo DEF Got
  <1>4. \A s \in Clients : ~Carries(Top, s)
    BY DEF Carries
  <1>5. PICK u \in Queues : u = Top.q
    BY TopType DEF Inv
  <1> USE <1>5
  <1>6. CASE queue[u] = <<>>
    <2>1. stack' = Tail(stack) /\ UNCHANGED queue
      BY <1>6 DEF FlushNext
    <2>2. SortInv' /\ \A s : Ids(s)' = Ids(s)
      BY <2>1, SameIds
    <2>3. /\ NestInv'
          /\ \A s \in Clients : /\ Calls(s)' = IF QueueTo(s) = Top.q THEN {} ELSE Calls(s)
                                /\ QueueTo(s) = Top.q => Calls(s) = {Top}
      BY <2>1, PopSender
    <2>4. \A s \in Clients : QueueTo(s) = Top.q => Ids(s) = {}
      BY <1>6, IdsEmpty DEF Ids
    <2>5. ASSUME NEW s \in Clients PROVE SenderInv(s)'
      BY <1>3, <1>4, <2>2, <2>3, <2>4, PopOther
    <2> QED
      BY <2>2, <2>3, <2>5
  <1>7. CASE queue[u] # <<>>
    <2>1. PICK p : p = Head(queue[u])
      OBVIOUS
    <2>2. PICK v \in Sizes : v = Top.val
      BY TopType DEF Inv
    <2>3. /\ queue' = [queue EXCEPT ![u] = Tail(@)]
          /\ stack' = [stack EXCEPT ![1] = FlushFrame(u, p, v)]
      BY <1>7, <2>1, <2>2, Zenon DEF FlushNext, FlushFrame
    <2>4. /\ SortInv' /\ p \in Packet /\ QueueTo(p.from) = u
          /\ p.id \in Ids(p.from) /\ Ids(p.from)' = Ids(p.from) \ {p.id}
          /\ \A n \in Ids(p.from)' : p.id < n
          /\ \A s \in Clients : s # p.from => Ids(s)' = Ids(s)
      BY <1>7, <2>1, <2>3, TailSender, Zenon
    <2> USE <2>4
    <2>5. PICK f \in Frame : /\ f = FlushFrame(u, p, v) /\ p # NoOne /\ f.q = u /\ f.p = p
                             /\ f.flush /\ f.val = v /\ f.ret = "err" /\ f.todo = Targets(u, p.from)
      BY FlushCall DEF Inv
    <2>6. PICK a \in Clients : a = p.from
      BY DEF Packet
    <2>7. /\ Peer(a) \in Clients /\ Peer(a) # a
          /\ \A s \in Clients : s = a \/ s = Peer(a)
      BY TwoFacts DEF Inv, TypeOK
    <2> USE <2>5, <2>6
    <2>8. Carries(f, a) /\ \A s \in Clients : s # a => ~Carries(f, s)
      BY Zenon DEF Carries
    <2>9. f.todo = IF net.vlan /\ Peer(a) \notin alive THEN <<>> ELSE <<Peer(a)>>
      BY TargetsTwo, Zenon DEF Inv
    <2>10. /\ NestInv' /\ stack' # <<>>
           /\ \A s \in Clients : /\ Calls(s)' = IF QueueTo(s) = Top.q THEN {f} ELSE Calls(s)
                                 /\ QueueTo(s) = Top.q => Calls(s) = {Top}
      BY <2>3, SwapSender, Zenon
    <2>11. /\ f.p.id \in Ids(a) /\ Ids(a)' = Ids(a) \ {f.p.id} /\ \A n \in Ids(a)' : f.p.id < n
           /\ QueueTo(a) = Top.q
      BY Zenon
    <2> USE <2>10
    <2>12. SenderInv(a)'
      BY <1>2, <1>3, <1>4, <2>8, <2>9, <2>11, TakeSender, Zenon
    <2>13. ASSUME NEW s \in Clients, s # a PROVE SenderInv(s)'
      BY <1>3, <1>4, <2>8, <2>13, SwapOther, Zenon
    <2> QED
      BY <2>12, <2>13
  <1> QED
    BY <1>6, <1>7

\* A client sends.
LEMMA SendOrder ==
    ASSUME Inv, Two, NestInv, SortInv, \A s \in Clients : SenderInv(s),
           NEW a \in Clients, NEW cb \in BOOLEAN, SendStep(a, cb)
    PROVE  NestInv' /\ SortInv' /\ \A s \in Clients : SenderInv(s)'
  <1>1. /\ sent[a] < Max /\ Send(a, cb, stack)
        /\ UNCHANGED <<net, alive, link_down, receive_disabled, read_poll, seen>>
        /\ \/ /\ a \in Taps /\ stack = <<>> /\ read_poll[a] /\ reader' = a
              /\ reader = NoOne \/ (reader = a /\ size # "zero")
           \/ a \notin Tap /\ UNCHANGED reader /\ (Idle \/ (Offering /\ a = User /\ Client = User))
    BY DEF SendStep
  <1>2. /\ net \in Networks /\ sent \in [Clients -> 0 .. Max] /\ reader \in Taps \cup {NoOne}
        /\ delivering = [q \in Queues |-> Busy(q)] /\ stack \in Seq(Frame)
    BY DEF Inv, TypeOK, Busy
  <1>3. Max \in Nat /\ NoOne \notin Clients /\ QueueTo(a) \in Queues /\ Taps \subseteq Clients
    BY <1>2, NetFacts
  <1>4. /\ Peer(a) \in Clients /\ Peer(a) # a /\ Peer(Peer(a)) = a
        /\ QueueTo(a) = QueueFrom(Peer(a)) /\ QueueTo(Peer(a)) = QueueFrom(Peer(Peer(a)))
        /\ \A s \in Clients : s = a \/ s = Peer(a)
    BY <1>2, TwoFacts
  <1>5. PICK c \in Clients : c = Peer(a)
    BY <1>4
  <1> USE <1>1
  <1>6. a \in Taps => ~Halted(a) /\ reader' = a
    BY <1>3 DEF Halted, Taps
  <1>7. ASSUME NEW s \in Clients
        PROVE  /\ reader = s => reader' = s
               /\ s \in Taps /\ Halted(s) => Halted(s)'
    <2>1. reader = s => reader' = s
      BY <1>3, Zenon
    <2>2. ASSUME s \in Taps, Halted(s) PROVE Halted(s)'
      <3>1. s = a => FALSE
        BY <1>6, <2>2
      <3>2. ~(reader = s /\ stack = <<>>)
        BY <1>3, <3>1 DEF Idle, Offering
      <3>3. ~read_poll[s] /\ reader # s
        BY <2>2, <3>2 DEF Halted
      <3> QED
        BY <3>1, <3>3 DEF Halted
    <2> QED
      BY <2>1, <2>2
  <1>8. \A s \in Clients : Got(s)' = Got(s)
    BY SameTwo DEF Got
  <1>9. Offering /\ Client = User /\ a = User => Top.q = QueueFrom(a) /\ Carries(Top, c) /\ ~Carries(Top, a)
    <2>1. SUFFICES ASSUME Offering, Client = User, a = User
                   PROVE  Top.q = QueueFrom(a) /\ Carries(Top, c) /\ ~Carries(Top, a)
      OBVIOUS
    <2>2. stack # <<>> /\ Top.p # NoOne /\ Top.todo # <<>>
      BY <2>1 DEF Offering
    <2>3. PICK b \in Clients :
             /\ b = Top.p.from /\ QueueTo(b) = Top.q /\ Carries(Top, b) /\ b \in alive
             /\ Calls(b) = {Top} /\ Peer(b) # b /\ ~Carries(Top, Peer(b))
      BY <2>2, TopSender
    <2> USE <2>3
    <2>4. Top.todo = <<Peer(b)>>
      BY <2>2, Zenon DEF SenderInv, Offers
    <2>5. Peer(b) = a
      BY <2>1, <2>4 DEF Client
    <2>6. b = c
      BY <1>4, <1>5, <2>5
    <2> QED
      BY <1>4, <1>5, <2>5, <2>6
  <1>10. CASE link_down[a]
    <2>1. UNCHANGED <<stack, queue, sent>>
      BY <1>10 DEF Send
    <2> USE <2>1
    <2>2. SortInv' /\ \A s : Ids(s)' = Ids(s)
      BY SameIds, Zenon
    <2>3. NestInv' /\ \A s : Calls(s)' = Calls(s)
      BY SameCalls
    <2> USE <2>3
    <2>4. ASSUME NEW s \in Clients PROVE SenderInv(s)'
      <3>1. Drains(s) => Drains(s)'
        BY SameTwo, SameNet, Zenon DEF Drains, Unseen
      <3> QED
        BY <1>7, <1>8, <2>2, <3>1, Unmoved, Zenon
    <2> QED
      BY <2>2, <2>4
  <1>11. CASE ~link_down[a] /\ delivering[QueueTo(a)]
    <2>1. /\ sent' = [sent EXCEPT ![a] = @ + 1] /\ UNCHANGED stack
          /\ queue' = [queue EXCEPT ![QueueTo(a)] = Append(@, [New(a, cb) EXCEPT !.cb = FALSE])]
      BY <1>11, Zenon DEF Send, New
    <2>2. PICK i \in DOMAIN stack : stack[i].q = QueueTo(a)
      BY <1>2, <1>3, <1>11, Zenon DEF Busy
    <2>3. a \notin Taps /\ Offering /\ Client = User /\ a = User
      BY <2>2 DEF Idle, Taps
    <2>4. i = 1
      <3>1. SUFFICES ASSUME i # 1 PROVE FALSE
        OBVIOUS
      <3>2. stack[i].q = Top.q
        BY <1>9, <2>3, <3>1 DEF NestInv
      <3>3. 1 \in DOMAIN stack
        BY <2>3, TopType DEF Offering, Inv
      <3> QED
        BY <3>1, <3>2, <3>3 DEF Inv, StackInv, Top
    <2>5. Calls(a) # {} /\ \A f \in Calls(a) : ~Carries(f, a)
      <3>1. \A j \in DOMAIN stack : stack[j].q = QueueTo(a) => j = i
        BY <2>2 DEF Inv, StackInv
      <3>2. Calls(a) = {Top}
        BY <2>2, <2>4, <3>1 DEF Calls, CallsOn, Top
      <3> QED
        BY <1>9, <2>3, <3>2
    <2>6. PICK p \in Packet : p = [New(a, cb) EXCEPT !.cb = FALSE]
      BY NewType, Zenon DEF Inv
    <2>7. p.from = a /\ p.id = sent[a] + 1
      BY <2>6 DEF New
    <2>8. PICK u \in Queues : u = QueueTo(a)
      BY <1>3
    <2>9. \A n \in Ids(a) : n < sent[a] + 1
      <3>1. sent[a] \in Nat /\ Ids(a) \subseteq Nat
        BY SenderTypes
      <3>2. \A n \in Ids(a) : n <= sent[a]
        BY Zenon DEF SenderInv, Numbers
      <3> QED
        BY <3>1, <3>2
    <2> USE <2>1, <2>7
    <2>10. /\ SortInv'
           /\ \A s \in Clients : Ids(s)' = IF s = p.from THEN Ids(s) \cup {p.id} ELSE Ids(s)
      <3>1. queue' = [queue EXCEPT ![u] = Append(@, p)]
        BY <2>6, <2>8, Zenon
      <3>2. QueueTo(p.from) = u /\ \A n \in Ids(p.from) : n < p.id
        BY <2>8, <2>9, Zenon
      <3>3. net' = net
        OBVIOUS
      <3> QED
        BY <3>1, <3>2, <3>3, AppendSender, Zenon
    <2>11. NestInv' /\ \A s : Calls(s)' = Calls(s)
      BY SameCalls, Zenon
    <2>12. sent'[a] = sent[a] + 1 /\ sent'[c] = sent[c]
      BY <1>2, <1>4, <1>5, Zenon
    <2> USE <2>10, <2>11
    <2>13. SenderInv(a)'
      BY <1>8, <2>3, <2>5, <2>12, QueuedSender, Zenon
    <2>14. SenderInv(c)'
      <3>1. Drains(c) => Drains(c)'
        BY SameTwo, SameNet, Zenon DEF Drains, Unseen
      <3> QED
        BY <1>4, <1>5, <1>7, <1>8, <2>12, <3>1, Unmoved, Zenon
    <2> QED
      BY <1>4, <1>5, <2>13, <2>14, Zenon
  <1>12. CASE ~link_down[a] /\ ~delivering[QueueTo(a)]
    <2>1. /\ sent' = [sent EXCEPT ![a] = @ + 1] /\ UNCHANGED queue
          /\ stack' = <<Call(QueueTo(a), New(a, cb), FALSE, "err")>> \o stack
      BY <1>12, Zenon DEF Send, New
    <2>2. PICK p \in Packet : p = New(a, cb)
      BY NewType, Zenon DEF Inv
    <2>3. p.from = a /\ p.id = sent[a] + 1
      BY <2>2 DEF New
    <2>4. PICK u \in Queues : u = QueueTo(a)
      BY <1>3
    <2>5. PICK f \in Frame :
             /\ f = Call(u, p, FALSE, "err") /\ p # NoOne /\ f.q = u /\ f.p = p
             /\ f.flush = FALSE /\ f.val = "err" /\ f.ret = "err" /\ f.todo = Targets(u, p.from)
      BY SendCall, Zenon DEF Inv
    <2> USE <2>4, <2>5
    <2>6. stack' = <<f>> \o stack
      BY <2>1, <2>2
    <2>7. \A i \in DOMAIN stack : stack[i].q # f.q
      <3>1. SUFFICES ASSUME NEW i \in DOMAIN stack PROVE stack[i].q # u
        BY Zenon
      <3>2. ~Busy(u)
        BY <1>2, <1>12, Zenon
      <3>3. stack[i].p # NoOne
        <4>1. Offering
          <5>1. stack # <<>>
            BY <3>1
          <5> QED
            BY <5>1, Zenon DEF Idle
        <4> QED
          BY <3>1, <4>1, Zenon DEF Offering, Top, Inv, StackInv
      <3> QED
        BY <3>2, <3>3, Zenon DEF Busy
    <2>8. stack # <<>> => Top.q = QueueFrom(User)
      BY <1>9, Zenon DEF Idle
    <2>9. /\ NestInv' /\ stack' # <<>>
          /\ \A s \in Clients : /\ Calls(s)' = IF QueueTo(s) = f.q THEN {f} ELSE Calls(s)
                                /\ QueueTo(s) = f.q => Calls(s) = {}
      BY <2>6, <2>7, <2>8, PushSender, Zenon
    <2>10. SortInv' /\ \A s : Ids(s)' = Ids(s)
      BY <2>1, SameIds, Zenon
    <2>11. sent'[a] = sent[a] + 1 /\ sent'[c] = sent[c]
      BY <1>2, <1>4, <1>5, <2>1, Zenon
    <2>12. f.todo = IF net.vlan /\ Peer(a) \notin alive THEN <<>> ELSE <<Peer(a)>>
      BY <2>3, TargetsTwo, Zenon DEF Inv
    <2>13. Carries(f, a) /\ ~Carries(f, c) /\ f.p.id = sent[a] + 1
      BY <1>4, <1>5, <2>3, Zenon DEF Carries
    <2> USE <2>9, <2>10
    <2>14. SenderInv(a)'
      BY <1>6, <1>8, <2>11, <2>12, <2>13, CalledSender, Zenon
    <2>15. SenderInv(c)'
      BY <1>7, <1>8, <1>4, <1>5, <2>11, <2>13, PushOther, Zenon
    <2> QED
      BY <1>4, <1>5, <2>14, <2>15, Zenon
  <1> QED
    BY <1>10, <1>11, <1>12, Zenon

\* tap_writable: the TAP can be written to again, and what waits for it is flushed.
LEMMA WritableOrder ==
    ASSUME Inv, Two, NestInv, SortInv, \A s \in Clients : SenderInv(s), NEW t \in Taps, TapWritable(t)
    PROVE  NestInv' /\ SortInv' /\ \A s \in Clients : SenderInv(s)'
  <1>1. /\ stack = <<>> /\ reader = NoOne /\ receive_disabled' = [receive_disabled EXCEPT ![t] = FALSE]
        /\ UNCHANGED <<net, queue, reader, size, read_poll, alive, link_down, sent, seen>>
        /\ stack' = <<WritableFrame(QueueFrom(t))>>
    BY DEF TapWritable, Idle, Enabled, WritableFrame
  <1>2. /\ net \in Networks /\ t \in Clients /\ receive_disabled \in [Clients -> BOOLEAN]
        /\ QueueFrom(t) \in Queues /\ NoOne \notin Clients
    BY NetFacts DEF Inv, TypeOK, Taps
  <1> USE <1>2
  <1>3. PICK c \in Clients : /\ c = Peer(t) /\ c # t /\ Peer(c) = t /\ QueueTo(c) = QueueFrom(t)
                             /\ \A s \in Clients : s = t \/ s = c
    <2>1. Peer(t) \in Clients /\ Peer(t) # t /\ Peer(Peer(t)) = t /\ \A s \in Clients : s = t \/ s = Peer(t)
      BY TwoFacts
    <2>2. QueueTo(Peer(t)) = QueueFrom(Peer(Peer(t)))
      BY <2>1, TwoFacts
    <2> QED
      BY <2>1, <2>2
  <1>4. PICK f \in Frame : f = WritableFrame(QueueFrom(t))
    BY WritableType
  <1>5. f.q = QueueFrom(t) /\ f.p = NoOne /\ f.flush
    BY <1>4 DEF WritableFrame
  <1> USE <1>1
  <1>6. stack' = <<f>> \o stack
    BY <1>4
  <1>7. /\ NestInv'
        /\ \A s \in Clients : /\ Calls(s)' = IF QueueTo(s) = f.q THEN {f} ELSE Calls(s)
                              /\ QueueTo(s) = f.q => Calls(s) = {}
    <2>1. \A i \in DOMAIN stack : FALSE
      OBVIOUS
    <2> QED
      BY <1>6, <2>1, PushSender, Zenon
  <1>8. SortInv' /\ \A s : Ids(s)' = Ids(s)
    BY SameIds
  <1>9. \A s \in Clients : Got(s)' = Got(s) /\ ~Carries(f, s) /\ Calls(s) = {}
    BY <1>5, SameTwo, NoCalls, Zenon DEF Got, Carries
  <1>10. \A s \in Taps : Halted(s) => Halted(s)'
    BY DEF Halted, Taps
  <1>11. SenderInv(t)'
    <2>1. receive_disabled'[Peer(t)] = receive_disabled[Peer(t)]
      BY <1>3
    <2> QED
      BY <1>7, <1>8, <1>9, <1>10, <2>1, PushOther, Zenon
  <1>12. SenderInv(c)'
    <2>1. Calls(c)' = {f} /\ Calls(c) = {} /\ Ids(c)' = Ids(c) /\ Got(c)' = Got(c) /\ ~Carries(f, c)
      BY <1>3, <1>5, <1>7, <1>8, <1>9, Zenon
    <2>2. Peer(c)' = Peer(c) /\ Taps' = Taps
      BY SameTwo, SameNet
    <2> USE <2>1
    <2>3. Offers(c)'
      BY Zenon DEF Offers, Carries
    <2>4. Numbers(c)'
      BY Zenon DEF SenderInv, Numbers, Carries
    <2>5. Single(c)'
      BY <1>10, <2>2, Zenon DEF SenderInv, Single, Carries
    <2>6. Blocked(c)'
      BY <1>5 DEF Blocked
    <2>7. Ordered(c)'
      <3>1. ~Drains(c)
        BY DEF Drains
      <3>2. Fresh(c) => Fresh(c)'
        BY Zenon DEF Fresh, Carries
      <3>3. Pending(c) => Pending(c)'
        BY Zenon DEF Pending
      <3> QED
        BY <2>2, <3>1, <3>2, <3>3 DEF SenderInv, Ordered
    <2> QED
      BY <2>3, <2>4, <2>5, <2>6, <2>7 DEF SenderInv
  <1> QED
    BY <1>3, <1>7, <1>8, <1>11, <1>12

\* qemu_del_vlan_client.
LEMMA RemoveOrder ==
    ASSUME Inv, Two, NestInv, SortInv, \A s \in Clients : SenderInv(s), NEW t \in Taps, Remove(t)
    PROVE  NestInv' /\ SortInv' /\ \A s \in Clients : SenderInv(s)'
  <1>1. /\ stack = <<>> /\ queue' = Purged(t) /\ alive' = alive \ {t}
        /\ read_poll' = [read_poll EXCEPT ![t] = FALSE]
        /\ UNCHANGED <<net, stack, reader, size, receive_disabled, sent, seen>>
    BY Zenon DEF Remove, Idle
  <1>2. t \in Clients /\ read_poll \in [Taps -> BOOLEAN]
    BY DEF Inv, TypeOK, Taps
  <1> USE <1>1
  <1>3. SortInv' /\ Ids(t)' = {} /\ \A s \in Clients : s # t => Ids(s)' = Ids(s)
    BY PurgeSender
  <1>4. NestInv' /\ \A s : Calls(s)' = Calls(s)
    BY SameCalls
  <1>5. \A s \in Clients : Got(s)' = Got(s) /\ Calls(s) = {}
    BY SameTwo, NoCalls DEF Got
  <1> USE <1>2, <1>3, <1>4, <1>5
  <1>6. ASSUME NEW s \in Clients, s # t PROVE SenderInv(s)'
    <2>1. ~Drains(s)
      BY DEF Drains
    <2>2. s \in Taps /\ Halted(s) => Halted(s)'
      BY <1>6 DEF Halted
    <2>3. receive_disabled'[Peer(s)] = receive_disabled[Peer(s)] /\ alive' \subseteq alive
      OBVIOUS
    <2> QED
      BY <1>6, <2>1, <2>2, <2>3, Unmoved
  <1>7. SenderInv(t)'
    <2>1. Calls(t)' = {} /\ Ids(t)' = {} /\ Got(t)' = Got(t)
      OBVIOUS
    <2>2. Offers(t)' /\ Single(t)' /\ Blocked(t)'
      BY <2>1, Zenon DEF Offers, Single, Blocked
    <2>3. Numbers(t)'
      BY <2>1, Zenon DEF SenderInv, Numbers
    <2>4. Ordered(t)'
      BY DEF Ordered
    <2> QED
      BY <2>2, <2>3, <2>4 DEF SenderInv
  <1> QED
    BY <1>6, <1>7

\* Nothing is sent or delivered.
LEMMA QuietOrder ==
    ASSUME Inv, Two, NestInv, SortInv, \A s \in Clients : SenderInv(s), QuietStep
    PROVE  NestInv' /\ SortInv' /\ \A s \in Clients : SenderInv(s)'
  <1>1. /\ UNCHANGED <<net, queue, stack, size, receive_disabled, alive, sent, seen>>
        /\ \/ UNCHANGED <<reader, read_poll>>
           \/ /\ stack = <<>> /\ reader # NoOne /\ reader' = NoOne
              /\ read_poll' = [read_poll EXCEPT ![reader] = @ /\ size # "zero"]
        /\ link_down' = link_down \/ stack = <<>>
    BY DEF QuietStep, Idle
  <1>2. read_poll \in [Taps -> BOOLEAN] /\ NoOne \notin Clients
    BY NetFacts DEF Inv, TypeOK
  <1> USE <1>1
  <1>3. SortInv' /\ \A s : Ids(s)' = Ids(s)
    BY SameIds
  <1>4. NestInv' /\ \A s : Calls(s)' = Calls(s)
    BY SameCalls
  <1>5. \A s \in Clients : Got(s)' = Got(s)
    BY SameTwo DEF Got
  <1> USE <1>3, <1>4
  <1>6. ASSUME NEW s \in Clients PROVE SenderInv(s)'
    <2>1. s \in Taps /\ Halted(s) => Halted(s)'
      <3>1. CASE UNCHANGED <<reader, read_poll>>
        BY <3>1 DEF Halted
      <3>2. ASSUME stack = <<>>, reader' = NoOne, s \in Taps, Halted(s),
                   read_poll' = [read_poll EXCEPT ![reader] = @ /\ size # "zero"]
            PROVE  Halted(s)'
        <4>1. reader' # s
          BY <1>2, <3>2
        <4>2. ~read_poll'[s]
          BY <1>2, <3>2, Zenon DEF Halted
        <4> QED
          BY <4>1, <4>2 DEF Halted
      <3> QED
        BY <3>1, <3>2
    <2>2. CASE stack = <<>>
      <3>1. Calls(s) = {} /\ Calls(s)' = {} /\ ~Drains(s)
        BY <2>2, NoCalls DEF Drains
      <3> QED
        BY <1>5, <2>1, <3>1, Unmoved
    <2>3. CASE stack # <<>>
      <3>1. UNCHANGED <<reader, read_poll, link_down>>
        BY <2>3
      <3>2. Drains(s) => Drains(s)'
        BY <3>1, SameTwo, SameNet, Zenon DEF Drains, Unseen
      <3> QED
        BY <1>5, <2>1, <3>1, <3>2, Unmoved
    <2> QED
      BY <2>2, <2>3
  <1> QED
    BY <1>6

-----------------------------------------------------------------------------
(* The theorem *)

\* Every step keeps the packets of two clients in order.
LEMMA OrderStep == ASSUME Inv, OrderInv, [Next]_vars PROVE OrderInv'
  <1>1. net' = net
    BY StackStep DEF Inv
  <1>2. SUFFICES ASSUME Two, NestInv, SortInv, \A s \in Clients : SenderInv(s)
                 PROVE  NestInv' /\ SortInv' /\ \A s \in Clients : SenderInv(s)'
    BY <1>1, SameTwo, SameNet DEF OrderInv
  <1>3. \/ AnswerStep
        \/ \E s \in Clients, cb \in BOOLEAN : SendStep(s, cb)
        \/ Sent \/ FlushNext \/ Flushed
        \/ \E t \in Taps : TapWritable(t) \/ Remove(t)
        \/ QuietStep
    BY Steps DEF Inv
  <1> QED
    BY <1>2, <1>3, AnswerOrder, SendOrder, SentOrder, FlushNextOrder, FlushedOrder, WritableOrder,
       RemoveOrder, QuietOrder

\* No packet has been sent yet.
LEMMA InitOrder == Init => OrderInv
  <1> SUFFICES ASSUME Init, Two PROVE NestInv /\ SortInv /\ \A s \in Clients : SenderInv(s)
    BY DEF OrderInv
  <1>1. /\ net \in Networks /\ stack = <<>> /\ queue = [q \in Queues |-> <<>>]
        /\ sent = [c \in Clients |-> 0] /\ seen = [c \in Clients |-> [s \in Clients |-> 0]]
    BY DEF Init
  <1>2. NestInv
    BY <1>1 DEF NestInv
  <1>3. SortInv
    BY <1>1, IdsEmpty DEF SortInv
  <1>4. ASSUME NEW s \in Clients PROVE SenderInv(s)
    <2>1. Peer(s) \in Clients /\ QueueTo(s) \in Queues
      BY <1>1, TwoFacts, NetFacts
    <2>2. Got(s) = 0 /\ sent[s] = 0 /\ Ids(s) = {} /\ Calls(s) = {}
      BY <1>1, <2>1, IdsEmpty, NoCalls DEF Got, Ids
    <2>3. Offers(s) /\ Single(s) /\ Blocked(s) /\ Fresh(s)
      BY <2>2, Zenon DEF Offers, Single, Blocked, Fresh
    <2>4. Numbers(s)
      <3>1. Got(s) <= sent[s]
        BY <2>2
      <3> QED
        BY <2>2, <3>1, Zenon DEF Numbers
    <2>5. Ordered(s)
      <3>1. Got(s) + 1 .. sent[s] = {}
        BY <2>2
      <3>2. Pending(s)
        BY <3>1, Zenon DEF Pending
      <3> QED
        BY <2>3, <3>2, Zenon DEF Ordered
    <2> QED
      BY <2>3, <2>4, <2>5 DEF SenderInv
  <1> QED
    BY <1>2, <1>3, <1>4

\* The packet that is offered to a client that can take it is the first it has
\* not seen.
LEMMA NextOffered == ASSUME Inv, OrderInv PROVE InOrder
  <1>1. SUFFICES ASSUME Two, Offering, ~link_down[Client], ~receive_disabled[Client]
                 PROVE  Top.p.id = seen[Client][Top.p.from] + 1
    BY DEF InOrder, Two
  <1>2. stack # <<>> /\ Top.p # NoOne /\ Top.todo # <<>> /\ \A s \in Clients : SenderInv(s)
    BY <1>1 DEF Offering, OrderInv
  <1>3. PICK a \in Clients :
           /\ a = Top.p.from /\ Carries(Top, a) /\ a \in alive
           /\ Calls(a) = {Top} /\ Top.p \in Packet /\ Top.p.id \in Nat
    BY <1>1, <1>2, TopSender, Zenon
  <1>4. Top.todo = <<Peer(a)>> /\ (net.vlan => Peer(a) \in alive)
    BY <1>2, <1>3, Zenon DEF SenderInv, Offers
  <1>5. Client = Peer(a)
    BY <1>4 DEF Client
  <1>6. Got(a) \in Nat /\ sent[a] \in Nat /\ Ids(a) \subseteq Nat /\ Unseen(Top)
    BY <1>1, <1>2, SenderTypes DEF Unseen
  <1>7. Fresh(a) /\ Pending(a)
    BY <1>1, <1>2, <1>3, <1>4, <1>5, Zenon DEF SenderInv, Ordered, Drains
  <1>8. Top.p.id > Got(a) /\ Top.p.id <= sent[a]
    BY <1>2, <1>3, <1>6, <1>7, Zenon DEF Fresh, SenderInv, Numbers
  <1>9. Top.p.id = Got(a) + 1
    <2>1. SUFFICES ASSUME Top.p.id # Got(a) + 1 PROVE FALSE
      OBVIOUS
    <2>2. PICK n \in Got(a) + 1 .. sent[a] : n = Got(a) + 1 /\ n < Top.p.id
      <3>1. \A g, k, m \in Nat :
               k > g /\ k <= m /\ k # g + 1 => g + 1 \in g + 1 .. m /\ g + 1 < k
        OBVIOUS
      <3> QED
        BY <1>3, <1>6, <1>8, <2>1, <3>1, Zenon
    <2>3. n \in Ids(a)
      BY <1>3, <1>7, <2>1, <2>2 DEF Pending
    <2>4. ~Top.flush
      <3>1. Top.flush => Top.p.id < n
        BY <1>2, <1>3, <2>3, Zenon DEF SenderInv, Numbers
      <3>2. \A k, m \in Nat : m < k => ~(k < m)
        OBVIOUS
      <3> QED
        BY <1>3, <1>6, <2>2, <2>3, <3>1, <3>2, Zenon
    <2>5. a \notin Taps
      BY <1>2, <1>3, <2>3, Zenon DEF SenderInv, Single
    <2> QED
      BY <1>1, <1>2, <1>3, <1>5, <1>6, <2>3, <2>4, <2>5, Zenon DEF SenderInv, Blocked
  <1> QED
    BY <1>3, <1>5, <1>9 DEF Got

\* Between two clients, on a VLAN or as peers, a client that can take packets is
\* offered every packet of the other once and in the order they were sent:
\* whatever is queued, flushed, put back or sent from within a call (net/queue.c).
THEOREM NetInOrder == Spec => []InOrder
  <1>1. Inv /\ OrderInv /\ [Next]_vars => OrderInv'
    BY OrderStep
  <1>2. Inv /\ OrderInv => InOrder
    BY NextOffered
  <1> QED
    BY NetInvariant, InitOrder, <1>1, <1>2, PTL DEF Spec
=============================================================================
