-------------------------- MODULE NetQueueWaiting ---------------------------
(***************************************************************************)
(* What waits in the queues of NetQueue: a TAP that has stopped reading is *)
(* owed a callback, and a queue is left with packets in it only while a    *)
(* TAP that reads it waits to write.                                       *)
(*                                                                         *)
(* It ends with what NetQueueOrder is built from: the packets and the      *)
(* calls of one client, and the invariant that keeps them in order.        *)
(***************************************************************************)
EXTENDS NetQueueProofs

-----------------------------------------------------------------------------
(* The inductive invariants *)

\* A packet of t with a callback is queued, or is being flushed.
Waits(t) ==
    \E i \in DOMAIN queue[QueueTo(t)] :
        queue[QueueTo(t)][i].from = t /\ queue[QueueTo(t)][i].cb

IsFlushed(t) ==
    \E i \in DOMAIN stack :
        stack[i].flush /\ stack[i].p # NoOne /\ stack[i].p.from = t /\ stack[i].p.cb

\* A TAP that has stopped reading is owed a callback, and one that is about to
\* stop is too.
StopInv ==
    /\ \A t \in Taps \cap alive : ~read_poll[t] => Waits(t) \/ IsFlushed(t)
    /\ reader # NoOne /\ stack # <<>> /\ ~stack[Len(stack)].flush =>
          stack[Len(stack)].p.from = reader /\ stack[Len(stack)].p.cb
    /\ reader # NoOne /\ stack = <<>> /\ size = "zero" => Waits(reader)

\* A TAP that reads the queue q cannot write.
Disabled(q) == \E t \in Taps : QueueFrom(t) = q /\ receive_disabled[t]

\* Who answered 0 cannot write, and a queue is left with packets in it only
\* because of such a TAP.
FlushInv ==
    /\ \A c \in Clients : receive_disabled[c] =>
          c \in Taps /\ (net.removable = {} => write_poll[c])
    /\ \A i \in DOMAIN stack : stack[i].ret = "zero" => Disabled(stack[i].q)
    /\ \A q \in Queues : queue[q] # <<>> => Disabled(q) \/ \E i \in DOMAIN stack : stack[i].q = q

-----------------------------------------------------------------------------
(* A TAP that has stopped is called back *)

\* A queue that gets a packet has it, and all it had.
LEMMA AppendHas ==
    ASSUME NEW S, NEW P, NEW Q \in [S -> Seq(P)], NEW R, NEW u \in S, NEW p \in P,
           R = [Q EXCEPT ![u] = Append(@, p)]
    PROVE  /\ \A q \in S : \A i \in DOMAIN Q[q] : \E j \in DOMAIN R[q] : R[q][j] = Q[q][i]
           /\ \E j \in DOMAIN R[u] : R[u][j] = p
  <1>1. /\ \A q \in S : q # u => R[q] = Q[q]
        /\ Len(Q[u]) \in Nat /\ DOMAIN Q[u] = 1 .. Len(Q[u]) /\ DOMAIN R[u] = 1 .. Len(Q[u]) + 1
        /\ \A i \in 1 .. Len(Q[u]) : R[u][i] = Q[u][i]
        /\ R[u][Len(Q[u]) + 1] = p
    BY QueueAppend
  <1>2. Len(Q[u]) + 1 \in DOMAIN R[u] /\ \A i \in DOMAIN Q[u] : i \in DOMAIN R[u]
    BY <1>1
  <1> QED
    BY <1>1, <1>2, Zenon

\* So has one that gets a packet back.
LEMMA PutHas ==
    ASSUME NEW S, NEW P, NEW Q \in [S -> Seq(P)], NEW R, NEW u \in S, NEW p \in P,
           R = [Q EXCEPT ![u] = <<p>> \o @]
    PROVE  /\ \A q \in S : \A i \in DOMAIN Q[q] : \E j \in DOMAIN R[q] : R[q][j] = Q[q][i]
           /\ \E j \in DOMAIN R[u] : R[u][j] = p
  <1>1. /\ \A q \in S : q # u => R[q] = Q[q]
        /\ Len(Q[u]) \in Nat /\ DOMAIN Q[u] = 1 .. Len(Q[u]) /\ DOMAIN R[u] = 1 .. Len(Q[u]) + 1
        /\ R[u][1] = p /\ \A i \in 1 .. Len(Q[u]) : R[u][i + 1] = Q[u][i]
    BY QueuePut
  <1>2. 1 \in DOMAIN R[u] /\ \A i \in DOMAIN Q[u] : i + 1 \in DOMAIN R[u] /\ R[u][i + 1] = Q[u][i]
    BY <1>1
  <1>3. ASSUME NEW q \in S, NEW i \in DOMAIN Q[q] PROVE \E j \in DOMAIN R[q] : R[q][j] = Q[q][i]
    <2>1. CASE q = u
      BY <1>2, <2>1, Zenon
    <2>2. CASE q # u
      <3>1. R[q] = Q[q]
        BY <1>1, <2>2
      <3> QED
        BY <3>1
    <2> QED
      BY <2>1, <2>2
  <1> QED
    BY <1>1, <1>2, <1>3, Zenon

\* The packets of the queues stay where they are.
Kept == \A q \in Queues : \A i \in DOMAIN queue[q] : \E j \in DOMAIN queue'[q] : queue'[q][j] = queue[q][i]

\* A packet that waits still does.
LEMMA WaitsKept ==
    ASSUME net \in Networks, net' = net, Kept, NEW t \in Taps, Waits(t) PROVE Waits(t)'
  <1>1. PICK q \in Queues : q = QueueTo(t)
    BY NetFacts
  <1>2. PICK i \in DOMAIN queue[q] : queue[q][i].from = t /\ queue[q][i].cb
    BY <1>1 DEF Waits
  <1>3. PICK j \in DOMAIN queue'[q] : queue'[q][j] = queue[q][i]
    BY <1>2 DEF Kept
  <1>4. q = QueueTo(t)'
    BY <1>1, SameNet
  <1> QED
    BY <1>2, <1>3, <1>4 DEF Waits

\* A packet put into a queue waits there.
LEMMA WaitsNow ==
    ASSUME net' = net, NEW t, NEW j \in DOMAIN queue'[QueueTo(t)],
           queue'[QueueTo(t)][j].from = t, queue'[QueueTo(t)][j].cb
    PROVE  Waits(t)'
  <1>1. PICK q : q = QueueTo(t)
    OBVIOUS
  <1>2. QueueTo(t)' = q
    BY <1>1, SameNet
  <1>3. Waits(t)' <=> \E i \in DOMAIN queue'[QueueTo(t)'] :
                         queue'[QueueTo(t)'][i].from = t /\ queue'[QueueTo(t)'][i].cb
    BY DEF Waits
  <1> QED
    BY <1>1, <1>2, <1>3

\* What a call that is flushing has taken from its queue.
LEMMA FlushedKept ==
    ASSUME NEW t, IsFlushed(t),
           \A i \in DOMAIN stack : stack[i].flush /\ stack[i].p # NoOne =>
              \E j \in DOMAIN stack' : stack'[j].flush /\ stack'[j].p = stack[i].p
    PROVE  IsFlushed(t)'
  BY DEF IsFlushed

\* The outermost call, as calls return, are made and change.
LEMMA PopBottom ==
    ASSUME TypeOK, stack # <<>>, stack' = Tail(stack)
    PROVE  /\ stack' # <<>> => stack'[Len(stack')] = stack[Len(stack)]
           /\ stack' = <<>> => Len(stack) = 1
           /\ \A i \in DOMAIN stack : i # 1 => \E j \in DOMAIN stack' : stack'[j] = stack[i]
  <1>1. /\ stack' \in Seq(Frame) /\ Len(stack) \in Nat /\ Len(stack) > 0
        /\ DOMAIN stack = 1 .. Len(stack) /\ Len(stack') = Len(stack) - 1
        /\ DOMAIN stack' = 1 .. Len(stack) - 1
        /\ \A i \in 1 .. Len(stack) - 1 : stack'[i] = stack[i + 1]
    BY Popped DEF TypeOK
  <1>2. stack' = <<>> <=> Len(stack') = 0
    BY <1>1, EmptySeq, Zenon
  <1>3. \A i \in DOMAIN stack : i # 1 => i - 1 \in DOMAIN stack' /\ stack'[i - 1] = stack[i]
    BY <1>1
  <1>4. stack' # <<>> => Len(stack) \in DOMAIN stack /\ Len(stack) # 1
    BY <1>1, <1>2
  <1> QED
    BY <1>1, <1>2, <1>3, <1>4

\* A call is made.
LEMMA PushBottom ==
    ASSUME TypeOK, NEW f \in Frame, stack' = <<f>> \o stack
    PROVE  /\ stack' # <<>>
           /\ stack # <<>> => stack'[Len(stack')] = stack[Len(stack)]
           /\ stack = <<>> => stack'[Len(stack')] = f
           /\ \A i \in DOMAIN stack : \E j \in DOMAIN stack' : stack'[j] = stack[i]
  <1>1. /\ stack' \in Seq(Frame) /\ Len(stack) \in Nat /\ Len(stack') = Len(stack) + 1
        /\ DOMAIN stack = 1 .. Len(stack) /\ DOMAIN stack' = 1 .. Len(stack) + 1 /\ stack'[1] = f
        /\ \A i \in 1 .. Len(stack) : stack'[i + 1] = stack[i]
    BY Pushed DEF TypeOK
  <1>2. \A i \in DOMAIN stack : i + 1 \in DOMAIN stack' /\ stack'[i + 1] = stack[i]
    BY <1>1
  <1>3. stack = <<>> => Len(stack) = 0
    BY <1>1
  <1>4. stack # <<>> => Len(stack) \in DOMAIN stack
    BY <1>1, EmptySeq DEF TypeOK
  <1>5. stack # <<>> => stack'[Len(stack')] = stack[Len(stack)]
    BY <1>1, <1>2, <1>4
  <1>6. stack = <<>> => stack'[Len(stack')] = f
    BY <1>1, <1>3
  <1>7. stack' # <<>>
    BY <1>1, EmptySeq
  <1> QED
    BY <1>2, <1>5, <1>6, <1>7, Zenon

\* A call changes.
LEMMA SwapBottom ==
    ASSUME TypeOK, stack # <<>>, NEW f \in Frame, stack' = [stack EXCEPT ![1] = f]
    PROVE  /\ stack' # <<>>
           /\ stack'[Len(stack')] = IF Len(stack) = 1 THEN f ELSE stack[Len(stack)]
  <1>1. /\ DOMAIN stack' = DOMAIN stack /\ Len(stack') = Len(stack) /\ 1 \in DOMAIN stack
        /\ DOMAIN stack = 1 .. Len(stack) /\ Len(stack) \in Nat
        /\ stack'[1] = f /\ \A i \in DOMAIN stack : i # 1 => stack'[i] = stack[i]
    BY Swapped
  <1>2. Len(stack) \in DOMAIN stack
    BY <1>1
  <1> QED
    BY <1>1, <1>2

\* tap_send_completed is owed to every TAP that has stopped reading: the packet
\* it could not send goes from the queue to the call that flushes it and back,
\* until it is delivered and the callback made.
LEMMA StopStep ==
    ASSUME TypeOK, StackInv, HostInv, OwnerInv, StopInv, [Next]_vars PROVE StopInv'
  <1>0. /\ net' = net /\ queue \in [Queues -> Seq(Packet)] /\ stack \in Seq(Frame) /\ net \in Networks
        /\ delivering = [q \in Queues |-> Busy(q)] /\ Taps \subseteq Clients
        /\ reader \in Taps \cup {NoOne} /\ read_poll \in [Taps -> BOOLEAN] /\ NoOne \notin Clients
        /\ Taps' = Taps /\ NoOne \notin Taps
    BY StackStep, NetFacts, SameNet DEF TypeOK, Busy
  <1>a. stack # <<>> => stack[Len(stack)] \in Frame /\ Len(stack) \in DOMAIN stack /\ 1 \in DOMAIN stack
    <2>1. stack # <<>> => Len(stack) \in 1 .. Len(stack)
      BY <1>0, EmptySeq
    <2> QED
      BY <1>0, <2>1, ElementOfSeq, TopType
  <1>1. CASE AnswerStep
    <2>1. Offering /\ stack # <<>> /\ UNCHANGED <<queue, reader, read_poll, alive>>
      BY <1>1 DEF AnswerStep, Offering
    <2>2. PICK r \in Sizes : stack' = Answered(r)
      BY <1>1 DEF AnswerStep
    <2>3. PICK f \in Frame :
             /\ Answered(r) = [stack EXCEPT ![1] = f]
             /\ f.q = Top.q /\ f.p = Top.p /\ f.todo = Tail(Top.todo) /\ f.ret = r
             /\ f.flush = Top.flush /\ f.val = Top.val
      BY <2>1, AnsweredTop
    <2>4. \A i \in DOMAIN stack : i \in DOMAIN stack' /\ stack'[i].flush = stack[i].flush /\ stack'[i].p = stack[i].p
      BY <2>1, <2>2, <2>3, Swapped DEF Top
    <2>5. stack' # <<>> /\ Len(stack') = Len(stack)
      BY <2>1, <2>2, <2>3, Swapped, SwapBottom
    <2>6. \A t \in Taps : Waits(t) => Waits(t)'
      BY <1>0, <2>1, WaitsKept DEF Kept
    <2>7. \A t \in Taps : IsFlushed(t) => IsFlushed(t)'
      BY <2>4, FlushedKept
    <2> QED
      BY <1>0, <1>a, <2>1, <2>4, <2>5, <2>6, <2>7 DEF StopInv
  <1>2. ASSUME NEW s \in Clients, NEW cb \in BOOLEAN, SendStep(s, cb) PROVE StopInv'
    <2>1. /\ sent[s] < Max /\ Send(s, cb, stack) /\ UNCHANGED <<read_poll, alive>>
          /\ \/ cb /\ s \in Taps /\ stack = <<>> /\ reader' = s
             \/ ~cb /\ UNCHANGED reader /\ (stack = <<>> => reader = NoOne)
      BY <1>2 DEF SendStep, Idle, Offering
    <2>2. /\ New(s, cb) \in Packet /\ [New(s, cb) EXCEPT !.cb = FALSE] \in Packet
          /\ QueueTo(s) \in Queues
      BY <2>1, NewType
    <2>3. CASE link_down[s]
      <3>1. UNCHANGED <<stack, queue>> /\ size' = "size"
        BY <2>1, <2>3 DEF Send
      <3>2. \A t \in Taps : Waits(t) => Waits(t)'
        BY <1>0, <3>1, WaitsKept DEF Kept
      <3>3. \A t \in Taps : IsFlushed(t) => IsFlushed(t)'
        BY <3>1, FlushedKept
      <3> QED
        BY <1>0, <2>1, <3>1, <3>2, <3>3 DEF StopInv
    <2>4. CASE ~link_down[s] /\ delivering[QueueTo(s)]
      <3>1. /\ UNCHANGED stack
            /\ queue' = [queue EXCEPT ![QueueTo(s)] = Append(@, [New(s, cb) EXCEPT !.cb = FALSE])]
        BY <2>1, <2>4 DEF Send, New
      <3>2. stack # <<>>
        <4>1. Busy(QueueTo(s))
          BY <1>0, <2>2, <2>4
        <4> QED
          BY <4>1 DEF Busy
      <3>3. Kept
        <4>1. PICK p \in Packet : p = [New(s, cb) EXCEPT !.cb = FALSE]
          BY <2>2
        <4>2. PICK u \in Queues : u = QueueTo(s)
          BY <2>2
        <4>3. queue' = [queue EXCEPT ![u] = Append(@, p)]
          BY <3>1, <4>1, <4>2
        <4>4. queue \in [Queues -> Seq(Packet)]
          BY <1>0
        <4>5. \A q \in Queues : \A i \in DOMAIN queue[q] : \E j \in DOMAIN queue'[q] : queue'[q][j] = queue[q][i]
          BY <4>3, <4>4, AppendHas
        <4> QED
          BY <4>5 DEF Kept
      <3>4. \A t \in Taps : Waits(t) => Waits(t)'
        BY <1>0, <3>3, WaitsKept
      <3>5. \A t \in Taps : IsFlushed(t) => IsFlushed(t)'
        BY <3>1, FlushedKept
      <3> QED
        BY <1>0, <2>1, <3>1, <3>2, <3>4, <3>5 DEF StopInv
    <2>5. CASE ~link_down[s] /\ ~delivering[QueueTo(s)]
      <3>1. /\ UNCHANGED queue
            /\ stack' = <<Call(QueueTo(s), New(s, cb), FALSE, "err")>> \o stack
        BY <2>1, <2>5, Zenon DEF Send, New
      <3>2. PICK p \in Packet : p = New(s, cb)
        BY <2>2
      <3>3. PICK u \in Queues : u = QueueTo(s)
        BY <2>2
      <3>4. PICK f \in Frame :
               /\ f = Call(u, p, FALSE, "err") /\ p # NoOne /\ f.q = u /\ f.p = p
               /\ f.flush = FALSE /\ f.val = "err" /\ f.ret = "err" /\ f.todo = Targets(u, p.from)
        BY SendCall, Zenon
      <3>5. stack' = <<f>> \o stack
        BY <3>1, <3>2, <3>3, <3>4
      <3>6. /\ stack' # <<>>
            /\ stack # <<>> => stack'[Len(stack')] = stack[Len(stack)]
            /\ stack = <<>> => stack'[Len(stack')] = f
            /\ \A i \in DOMAIN stack : \E j \in DOMAIN stack' : stack'[j] = stack[i]
        BY <3>5, PushBottom, Zenon
      <3>7. \A t \in Taps : Waits(t) => Waits(t)'
        BY <1>0, <3>1, WaitsKept DEF Kept
      <3>8. \A t \in Taps : IsFlushed(t) => IsFlushed(t)'
        BY <3>6, FlushedKept
      <3>9. reader' # NoOne => stack'[Len(stack')].flush \/ (stack'[Len(stack')].p.from = reader' /\ stack'[Len(stack')].p.cb)
        <4> p.from = s /\ p.cb = cb
          BY <3>2 DEF New
        <4>1. f.p.from = s /\ f.p.cb = cb
          BY <3>4, Zenon
        <4>2. CASE stack = <<>>
          BY <2>1, <3>6, <4>1, <4>2
        <4>3. CASE stack # <<>>
          <5>1. stack' # <<>> /\ reader' = reader
            BY <2>1, <3>5, <4>3, PushBottom, Pushed, <1>0
          <5> QED
            BY <3>6, <4>3, <5>1 DEF StopInv
        <4> QED
          BY <4>2, <4>3
      <3>10. stack' # <<>>
        BY <1>0, <3>5, Pushed
      <3> QED
        BY <1>0, <2>1, <3>7, <3>8, <3>9, <3>10 DEF StopInv
    <2> QED
      BY <2>3, <2>4, <2>5
  <1>3. CASE Sent
    <2>1. stack # <<>> /\ Top.p # NoOne /\ ~Top.flush /\ UNCHANGED <<reader, read_poll, alive>>
      BY <1>3 DEF Sent, Finished, cvars
    <2>2. Top.p \in Packet /\ Top.q \in Queues /\ Owned(Top.p, Top.q) /\ Top.ret \in Sizes
      BY <2>1, TopType DEF OwnerInv, Top
    <2>3. CASE Top.ret = "zero"
      <3>1. queue' = [queue EXCEPT ![Top.q] = Append(@, Top.p)] /\ stack' = Tail(stack)
        BY <1>3, <2>3 DEF Sent, Queued
      <3>2. Kept /\ \E j \in DOMAIN queue'[Top.q] : queue'[Top.q][j] = Top.p
        <4>1. PICK p \in Packet : p = Top.p
          BY <2>2
        <4>2. PICK u \in Queues : u = Top.q
          BY <2>2
        <4>3. queue' = [queue EXCEPT ![u] = Append(@, p)]
          BY <3>1, <4>1, <4>2
        <4>4. queue \in [Queues -> Seq(Packet)]
          BY <1>0
        <4>5. \A q \in Queues : \A i \in DOMAIN queue[q] : \E j \in DOMAIN queue'[q] : queue'[q][j] = queue[q][i]
          BY <4>3, <4>4, AppendHas
        <4>6. \E j \in DOMAIN queue'[u] : queue'[u][j] = p
          BY <4>3, <4>4, AppendHas
        <4> QED
          BY <4>1, <4>2, <4>5, <4>6 DEF Kept
      <3>3. /\ stack' # <<>> => stack'[Len(stack')] = stack[Len(stack)]
            /\ stack' = <<>> => Len(stack) = 1
            /\ \A i \in DOMAIN stack : i # 1 => \E j \in DOMAIN stack' : stack'[j] = stack[i]
        BY <2>1, <3>1, PopBottom
      <3>4. \A t \in Taps : Waits(t) => Waits(t)'
        BY <1>0, <3>2, WaitsKept
      <3>5. \A t \in Taps : IsFlushed(t) => IsFlushed(t)'
        BY <2>1, <3>3, FlushedKept DEF Top
      <3>6. reader # NoOne /\ stack' = <<>> => Waits(reader)'
        <4>1. ASSUME reader # NoOne, stack' = <<>> PROVE \E x : x = reader /\ Waits(x)'
          <5>1. Top.p.from = reader /\ Top.p.cb
            BY <2>1, <3>3, <4>1, Zenon DEF StopInv, Top
          <5>2. PICK t : t = reader
            OBVIOUS
          <5>3. QueueTo(t) = Top.q
            BY <2>2, <5>1, <5>2 DEF Owned
          <5>4. Waits(t)'
            BY <1>0, <3>2, <5>1, <5>2, <5>3, WaitsNow
          <5> QED
            BY <5>2, <5>4
        <4>2. reader' = reader
          BY <2>1
        <4> QED
          BY <4>1, <4>2
      <3> QED
        BY <1>0, <2>1, <3>3, <3>4, <3>5, <3>6 DEF StopInv
    <2>4. CASE Top.ret # "zero"
      <3>1. PICK f \in Frame :
               /\ Flushing(Top.ret) = [stack EXCEPT ![1] = f]
               /\ f.q = Top.q /\ f.p = NoOne /\ f.todo = Top.todo /\ f.ret = "err"
               /\ f.flush = TRUE /\ f.val = Top.ret
        BY <2>1, <2>2, FlushingTop, Zenon
      <3>2. stack' = [stack EXCEPT ![1] = f] /\ UNCHANGED queue
        BY <1>3, <2>4, <3>1 DEF Sent
      <3>3. \A i \in DOMAIN stack : i # 1 => i \in DOMAIN stack' /\ stack'[i] = stack[i]
        BY <2>1, <3>2, Swapped
      <3>4. stack' # <<>> /\ stack'[Len(stack')] = IF Len(stack) = 1 THEN f ELSE stack[Len(stack)]
        BY <2>1, <3>2, SwapBottom
      <3>5. \A t \in Taps : Waits(t) => Waits(t)'
        BY <1>0, <3>2, WaitsKept DEF Kept
      <3>6. \A t \in Taps : IsFlushed(t) => IsFlushed(t)'
        BY <2>1, <3>3, FlushedKept DEF Top
      <3> QED
        BY <1>0, <2>1, <3>1, <3>4, <3>5, <3>6 DEF StopInv
    <2> QED
      BY <2>3, <2>4
  <1>4. CASE FlushNext
    <2>1. /\ stack # <<>> /\ Top.p = NoOne /\ UNCHANGED <<reader, read_poll, alive>>
          /\ Top.q \in Queues /\ Top.val \in Sizes /\ Top.val # "zero"
      BY <1>4, TopType DEF FlushNext, cvars, StackInv, Top
    <2>2. PICK u \in Queues : u = Top.q
      BY <2>1
    <2>3. CASE queue[u] = <<>>
      <3>1. stack' = Tail(stack) /\ size' = Top.val /\ UNCHANGED queue
        BY <1>4, <2>2, <2>3 DEF FlushNext
      <3>2. /\ stack' # <<>> => stack'[Len(stack')] = stack[Len(stack)]
            /\ \A i \in DOMAIN stack : i # 1 => \E j \in DOMAIN stack' : stack'[j] = stack[i]
        BY <2>1, <3>1, PopBottom
      <3>3. \A t \in Taps : Waits(t) => Waits(t)'
        BY <1>0, <3>1, WaitsKept DEF Kept
      <3>4. \A t \in Taps : IsFlushed(t) => IsFlushed(t)'
        BY <2>1, <3>2, FlushedKept DEF Top
      <3> QED
        BY <1>0, <2>1, <3>1, <3>2, <3>3, <3>4 DEF StopInv
    <2>4. CASE queue[u] # <<>>
      <3>1. /\ queue' = [queue EXCEPT ![u] = Tail(@)]
            /\ stack' = [stack EXCEPT ![1] = FlushFrame(u, Head(queue[u]), Top.val)]
        BY <1>4, <2>2, <2>4, Zenon DEF FlushNext, FlushFrame
      <3>2. /\ \A q \in Queues : q # u => queue'[q] = queue[q]
            /\ Len(queue[u]) \in Nat /\ DOMAIN queue[u] = 1 .. Len(queue[u]) /\ 1 \in DOMAIN queue[u]
            /\ DOMAIN queue'[u] = 1 .. Len(queue[u]) - 1 /\ Head(queue[u]) = queue[u][1]
            /\ \A i \in 1 .. Len(queue[u]) - 1 : queue'[u][i] = queue[u][i + 1]
        BY <1>0, <2>4, <3>1, QueueTail
      <3>3. PICK p \in Packet : p = Head(queue[u])
        BY <1>0, <2>4, Popped
      <3> PICK v \in Sizes : v = Top.val
        BY <2>1
      <3>4. PICK f \in Frame :
               /\ f = FlushFrame(u, p, v) /\ p # NoOne /\ f.q = u /\ f.p = p
               /\ f.flush /\ f.val = v /\ f.ret = "err" /\ f.todo = Targets(u, p.from)
        BY FlushCall
      <3>5. stack' = [stack EXCEPT ![1] = f]
        BY <3>1, <3>3, <3>4
      <3>6. 1 \in DOMAIN stack' /\ stack'[1] = f /\ \A i \in DOMAIN stack : i # 1 => i \in DOMAIN stack' /\ stack'[i] = stack[i]
        BY <2>1, <3>5, Swapped
      <3>7. stack' # <<>> /\ stack'[Len(stack')] = IF Len(stack) = 1 THEN f ELSE stack[Len(stack)]
        BY <2>1, <3>5, SwapBottom
      <3>8. \A t \in Taps : IsFlushed(t) => IsFlushed(t)'
        BY <2>1, <3>6, FlushedKept DEF Top
      <3>9. ASSUME NEW t \in Taps, Waits(t) PROVE Waits(t)' \/ IsFlushed(t)'
        <4>1. PICK w \in Queues : w = QueueTo(t)
          BY <1>0, NetFacts
        <4>2. PICK i \in DOMAIN queue[w] : queue[w][i].from = t /\ queue[w][i].cb
          BY <3>9, <4>1 DEF Waits
        <4>3. CASE w # u
          BY <1>0, <3>2, <4>1, <4>2, <4>3, WaitsNow, Zenon
        <4>4. CASE w = u /\ i = 1
          <5>1. f.flush /\ f.p # NoOne /\ f.p.from = t /\ f.p.cb
            BY <3>2, <3>3, <3>4, <4>2, <4>4
          <5> QED
            BY <3>6, <5>1 DEF IsFlushed
        <4>5. CASE w = u /\ i # 1
          <5>1. i \in 1 .. Len(queue[u]) /\ i # 1 /\ Len(queue[u]) \in Nat
            BY <3>2, <4>2, <4>5
          <5>2. i - 1 \in 1 .. Len(queue[u]) - 1 /\ (i - 1) + 1 = i
            BY <5>1
          <5>3. i - 1 \in DOMAIN queue'[w] /\ queue'[w][i - 1] = queue[w][i]
            BY <3>2, <4>5, <5>2
          <5> QED
            BY <1>0, <4>1, <4>2, <5>3, WaitsNow
        <4> QED
          BY <4>3, <4>4, <4>5
      <3> QED
        BY <1>0, <2>1, <3>4, <3>7, <3>8, <3>9 DEF StopInv
    <2> QED
      BY <2>3, <2>4
  <1>5. CASE Flushed
    <2>1. /\ stack # <<>> /\ Top.p # NoOne /\ Top.flush /\ UNCHANGED <<reader, alive>>
          /\ Top.val \in Sizes /\ Top.val # "zero"
      BY <1>5, TopType DEF Flushed, Finished, cvars, StackInv, Top
    <2>2. Top.p \in Packet /\ Top.q \in Queues /\ Owned(Top.p, Top.q)
      BY <2>1, TopType DEF OwnerInv, Top
    <2>3. CASE Top.ret = "zero"
      <3>1. /\ queue' = [queue EXCEPT ![Top.q] = <<Top.p>> \o @] /\ stack' = Tail(stack)
            /\ size' = Top.val /\ UNCHANGED read_poll
        BY <1>5, <2>3 DEF Flushed, PutBack
      <3>2. Kept /\ \E j \in DOMAIN queue'[Top.q] : queue'[Top.q][j] = Top.p
        <4>1. PICK p \in Packet : p = Top.p
          BY <2>2
        <4>2. PICK u \in Queues : u = Top.q
          BY <2>2
        <4>3. queue' = [queue EXCEPT ![u] = <<p>> \o @]
          BY <3>1, <4>1, <4>2
        <4>4. queue \in [Queues -> Seq(Packet)]
          BY <1>0
        <4>5. ASSUME NEW q \in Queues, NEW i \in DOMAIN queue[q]
              PROVE  \E j \in DOMAIN queue'[q] : queue'[q][j] = queue[q][i]
          <5>1. /\ q # u => queue'[q] = queue[q]
                /\ Len(queue[u]) \in Nat /\ DOMAIN queue[u] = 1 .. Len(queue[u])
                /\ DOMAIN queue'[u] = 1 .. Len(queue[u]) + 1
                /\ \A k \in 1 .. Len(queue[u]) : queue'[u][k + 1] = queue[u][k]
            BY <4>3, <4>4, QueuePut
          <5>2. q = u => i + 1 \in DOMAIN queue'[q] /\ queue'[q][i + 1] = queue[q][i]
            BY <4>5, <5>1
          <5> QED
            BY <4>5, <5>1, <5>2
        <4>6. \E j \in DOMAIN queue'[u] : queue'[u][j] = p
          BY <4>3, <4>4, PutHas
        <4> QED
          BY <4>1, <4>2, <4>5, <4>6 DEF Kept
      <3>3. /\ stack' # <<>> => stack'[Len(stack')] = stack[Len(stack)]
            /\ \A i \in DOMAIN stack : i # 1 => \E j \in DOMAIN stack' : stack'[j] = stack[i]
        BY <2>1, <3>1, PopBottom
      <3>4. \A t \in Taps : Waits(t) => Waits(t)'
        BY <1>0, <3>2, WaitsKept
      <3>5. ASSUME NEW t \in Taps, IsFlushed(t) PROVE Waits(t)' \/ IsFlushed(t)'
        <4>1. PICK i \in DOMAIN stack :
                 stack[i].flush /\ stack[i].p # NoOne /\ stack[i].p.from = t /\ stack[i].p.cb
          BY <3>5 DEF IsFlushed
        <4>2. CASE i = 1
          <5>1. QueueTo(t) = Top.q /\ Top.p.from = t /\ Top.p.cb
            BY <2>2, <4>1, <4>2 DEF Owned, Top
          <5> QED
            BY <1>0, <3>2, <5>1, WaitsNow
        <4>3. CASE i # 1
          BY <3>3, <4>1, <4>3 DEF IsFlushed
        <4> QED
          BY <4>2, <4>3
      <3> QED
        BY <1>0, <2>1, <3>1, <3>3, <3>4, <3>5 DEF StopInv
    <2>4. CASE Top.ret # "zero"
      <3>1. PICK f \in Frame :
               /\ Flushing(Top.val) = [stack EXCEPT ![1] = f]
               /\ f.q = Top.q /\ f.p = NoOne /\ f.todo = Top.todo /\ f.ret = "err"
               /\ f.flush = TRUE /\ f.val = Top.val
        BY <2>1, FlushingTop, Zenon
      <3>2. UNCHANGED queue /\ stack' = [stack EXCEPT ![1] = f] /\ read_poll' = Completed(Top.p)
        BY <1>5, <2>4, <3>1 DEF Flushed
      <3>3. \A i \in DOMAIN stack : i # 1 => i \in DOMAIN stack' /\ stack'[i] = stack[i]
        BY <2>1, <3>2, Swapped
      <3>4. stack' # <<>> /\ stack'[Len(stack')] = IF Len(stack) = 1 THEN f ELSE stack[Len(stack)]
        BY <2>1, <3>2, SwapBottom
      <3>5. \A t \in Taps : Waits(t) => Waits(t)'
        BY <1>0, <3>2, WaitsKept DEF Kept
      <3>6. ASSUME NEW t \in Taps, IsFlushed(t) PROVE IsFlushed(t)' \/ read_poll'[t]
        <4>1. PICK i \in DOMAIN stack :
                 stack[i].flush /\ stack[i].p # NoOne /\ stack[i].p.from = t /\ stack[i].p.cb
          BY <3>6 DEF IsFlushed
        <4>2. CASE i = 1
          <5>1. read_poll' = [read_poll EXCEPT ![t] = TRUE]
            BY <3>2, <4>1, <4>2, Zenon DEF Completed, Top
          <5> QED
            BY <1>0, <5>1
        <4>3. CASE i # 1
          BY <3>3, <4>1, <4>3 DEF IsFlushed
        <4> QED
          BY <4>2, <4>3
      <3>7. \A t \in Taps : read_poll[t] => read_poll'[t]
        BY <1>0, <3>2 DEF Completed
      <3> QED
        BY <1>0, <2>1, <3>1, <3>4, <3>5, <3>6, <3>7 DEF StopInv
    <2> QED
      BY <2>3, <2>4
  <1>6. ASSUME NEW t \in Taps, TapWritable(t) PROVE StopInv'
    <2>1. /\ stack = <<>> /\ stack' = <<WritableFrame(QueueFrom(t))>> /\ reader = NoOne
          /\ UNCHANGED <<queue, reader, read_poll, alive>>
      BY <1>6 DEF TapWritable, Idle, WritableFrame
    <2>2. \A x \in Taps : ~IsFlushed(x)
      BY <2>1 DEF IsFlushed
    <2>3. \A x \in Taps : Waits(x) => Waits(x)'
      BY <1>0, <2>1, WaitsKept DEF Kept
    <2> QED
      BY <1>0, <2>1, <2>2, <2>3 DEF StopInv
  <1>7. ASSUME NEW t \in Taps, Remove(t) PROVE StopInv'
    <2>1. /\ stack = <<>> /\ stack' = <<>> /\ reader = NoOne /\ reader' = NoOne /\ alive' = alive \ {t}
          /\ queue' = Purged(t) /\ read_poll' = [read_poll EXCEPT ![t] = FALSE]
      BY <1>7, Zenon DEF Remove, Idle
    <2>2. \A x \in Taps : ~IsFlushed(x)
      BY <2>1 DEF IsFlushed
    <2>3. ASSUME NEW x \in Taps, x # t, Waits(x) PROVE Waits(x)'
      <3>1. PICK w \in Queues : w = QueueTo(x)
        BY <1>0, NetFacts
      <3>2. PICK i \in DOMAIN queue[w] : queue[w][i].from = x /\ queue[w][i].cb
        BY <2>3, <3>1 DEF Waits
      <3>3. \E k \in DOMAIN queue'[w] : queue'[w][k] = queue[w][i]
        <4>1. CASE w = QueueTo(t)
          BY <2>1, <2>3, <3>2, <4>1, PurgedFacts
        <4>2. CASE w # QueueTo(t)
          <5>1. queue'[w] = queue[w]
            BY <2>1, <4>2, PurgedFacts
          <5> QED
            BY <3>2, <5>1
        <4> QED
          BY <4>1, <4>2
      <3> QED
        BY <1>0, <3>1, <3>2, <3>3, WaitsNow
    <2>4. \A x \in Taps : x # t => read_poll'[x] = read_poll[x]
      BY <1>0, <2>1
    <2> QED
      BY <1>0, <2>1, <2>2, <2>3, <2>4, Zenon DEF StopInv
  <1>8. CASE QuietStep
    <2>1. UNCHANGED <<queue, stack, size, alive>>
      BY <1>8 DEF QuietStep
    <2>2. \A t \in Taps : Waits(t) => Waits(t)'
      BY <1>0, <2>1, WaitsKept DEF Kept
    <2>3. \A t \in Taps : IsFlushed(t) => IsFlushed(t)'
      BY <2>1, FlushedKept
    <2>4. CASE UNCHANGED <<reader, read_poll>>
      BY <1>0, <2>1, <2>2, <2>3, <2>4 DEF StopInv
    <2>5. CASE /\ stack = <<>> /\ reader # NoOne /\ reader' = NoOne
               /\ read_poll' = [read_poll EXCEPT ![reader] = @ /\ size # "zero"]
      <3>1. \A t \in Taps : read_poll'[t] \/ ~read_poll[t] \/ (t = reader /\ size = "zero")
        BY <1>0, <2>5
      <3>2. size = "zero" => Waits(reader)
        BY <2>5 DEF StopInv
      <3>3. \A t \in Taps : t = reader /\ size = "zero" => Waits(t)
        BY <3>2
      <3> QED
        BY <1>0, <2>1, <2>2, <2>3, <2>5, <3>1, <3>3 DEF StopInv
    <2> QED
      BY <1>8, <2>4, <2>5 DEF QuietStep
  <1> QED
    BY <1>1, <1>2, <1>3, <1>4, <1>5, <1>6, <1>7, <1>8, Steps

-----------------------------------------------------------------------------
(* A queue with packets in it is flushed *)

\* What is left of FlushInv where no TAP becomes able to write.
LEMMA FlushFrames ==
    ASSUME FlushInv, net' = net,
           \A c \in Clients : receive_disabled'[c] => c \in Taps /\ (net.removable = {} => write_poll'[c]),
           \A c \in Taps : receive_disabled[c] => receive_disabled'[c],
           \A i \in DOMAIN stack' : stack'[i].ret = "zero" =>
              \/ Disabled(stack'[i].q)
              \/ \E t \in Taps : QueueFrom(t) = stack'[i].q /\ receive_disabled'[t]
              \/ \E j \in DOMAIN stack : stack[j].ret = "zero" /\ stack[j].q = stack'[i].q,
           \A q \in Queues : queue'[q] # <<>> =>
              \/ queue[q] # <<>> /\ \A i \in DOMAIN stack : stack[i].q # q
              \/ Disabled(q)
              \/ \E i \in DOMAIN stack' : stack'[i].q = q
    PROVE  FlushInv'
  <1>1. \A q : Disabled(q)' <=> \E t \in Taps : QueueFrom(t) = q /\ receive_disabled'[t]
    BY SameNet, Zenon DEF Disabled
  <1>2. \A q : Disabled(q) => Disabled(q)'
    BY <1>1 DEF Disabled
  <1>3. \A i \in DOMAIN stack' : stack'[i].ret = "zero" =>
           \E t \in Taps : QueueFrom(t) = stack'[i].q /\ receive_disabled'[t]
    <2>1. TAKE i \in DOMAIN stack'
    <2>2. HAVE stack'[i].ret = "zero"
    <2>3. CASE \E t \in Taps : QueueFrom(t) = stack'[i].q /\ receive_disabled'[t]
      BY <2>3
    <2>4. CASE Disabled(stack'[i].q)
      BY <2>4 DEF Disabled
    <2>5. ASSUME NEW j \in DOMAIN stack, stack[j].ret = "zero", stack[j].q = stack'[i].q
          PROVE  \E t \in Taps : QueueFrom(t) = stack'[i].q /\ receive_disabled'[t]
      <3>1. Disabled(stack[j].q)
        BY <2>5 DEF FlushInv
      <3>2. PICK t \in Taps : QueueFrom(t) = stack[j].q /\ receive_disabled[t]
        BY <3>1 DEF Disabled
      <3> QED
        BY <2>5, <3>2
    <2> QED
      BY <2>2, <2>3, <2>4, <2>5
  <1>4. \A i \in DOMAIN stack' : stack'[i].ret = "zero" => Disabled(stack[i].q)'
    BY <1>3, SameNet DEF Disabled
  <1>5. \A q \in Queues : queue'[q] # <<>> => Disabled(q)' \/ \E i \in DOMAIN stack' : stack'[i].q = q
    BY <1>2 DEF FlushInv
  <1> QED
    BY <1>4, <1>5, SameNet, Zenon DEF FlushInv

\* A packet is left in a queue only when a TAP could not write, which has then
\* asked the main loop to be told when it can.
LEMMA FlushStep ==
    ASSUME TypeOK, StackInv, HostInv, OwnerInv, FlushInv, [Next]_vars PROVE FlushInv'
  <1>0. /\ net' = net /\ queue \in [Queues -> Seq(Packet)] /\ stack \in Seq(Frame) /\ net \in Networks
        /\ delivering = [q \in Queues |-> Busy(q)] /\ Taps \subseteq Clients
        /\ receive_disabled \in [Clients -> BOOLEAN] /\ write_poll \in [Taps -> BOOLEAN]
        /\ \A c \in Clients : receive_disabled[c] => c \in Taps /\ (net.removable = {} => write_poll[c])
    BY StackStep, NetFacts, Zenon DEF TypeOK, Busy, FlushInv
  <1>1. CASE AnswerStep
    <2>1. Offering /\ stack # <<>> /\ Top.p # NoOne /\ Top.todo # <<>> /\ UNCHANGED queue
      BY <1>1, Zenon DEF AnswerStep, Offering
    <2>2. PICK r \in Sizes :
             /\ stack' = Answered(r)
             /\ \/ /\ r = "zero" => receive_disabled[Client] \/ Top.ret = "zero"
                   /\ UNCHANGED <<receive_disabled, write_poll>>
                \/ /\ Client \in Taps
                   /\ receive_disabled' = [receive_disabled EXCEPT ![Client] = TRUE]
                   /\ write_poll' = [write_poll EXCEPT ![Client] = TRUE]
      BY <1>1 DEF AnswerStep, First
    <2>3. PICK f \in Frame :
             /\ Answered(r) = [stack EXCEPT ![1] = f]
             /\ f.q = Top.q /\ f.p = Top.p /\ f.todo = Tail(Top.todo) /\ f.ret = r
             /\ f.flush = Top.flush /\ f.val = Top.val
      BY <2>1, AnsweredTop
    <2>4. /\ DOMAIN stack' = DOMAIN stack /\ 1 \in DOMAIN stack /\ stack'[1] = f
          /\ \A i \in DOMAIN stack : i # 1 => stack'[i] = stack[i]
      BY <2>1, <2>2, <2>3, Swapped
    <2>5. PICK c \in Clients : c = Client /\ QueueFrom(c) = Top.q
      <3>1. Top.todo \in Seq(Clients)
        BY <2>1, TopType
      <3>2. Client = Top.todo[1] /\ 1 \in DOMAIN Top.todo /\ Client \in Clients
        BY <2>1, <3>1, Popped DEF Client
      <3>3. QueueFrom(Top.todo[1]) = Top.q
        BY <2>1, <2>4, <3>2 DEF StackInv, Top
      <3> QED
        BY <3>2, <3>3
    <2>6. /\ \A x \in Clients : receive_disabled'[x] => x \in Taps /\ (net.removable = {} => write_poll'[x])
          /\ \A x \in Taps : receive_disabled[x] => receive_disabled'[x]
          /\ r = "zero" => receive_disabled'[c] \/ Top.ret = "zero"
      <3>1. CASE /\ r = "zero" => receive_disabled[Client] \/ Top.ret = "zero"
                 /\ UNCHANGED <<receive_disabled, write_poll>>
        BY <1>0, <2>5, <3>1
      <3>2. CASE /\ Client \in Taps
                 /\ receive_disabled' = [receive_disabled EXCEPT ![Client] = TRUE]
                 /\ write_poll' = [write_poll EXCEPT ![Client] = TRUE]
        <4>1. \A x \in Clients : receive_disabled'[x] <=> receive_disabled[x] \/ x = c
          BY <1>0, <2>5, <3>2
        <4>2. \A x \in Taps : write_poll'[x] <=> write_poll[x] \/ x = c
          BY <1>0, <2>5, <3>2
        <4> QED
          BY <1>0, <2>5, <3>2, <4>1, <4>2
      <3> QED
        BY <2>2, <3>1, <3>2
    <2>7. r = "zero" => \/ \E t \in Taps : QueueFrom(t) = f.q /\ receive_disabled'[t]
                        \/ Top.ret = "zero"
      BY <2>3, <2>5, <2>6
    <2>8. \A i \in DOMAIN stack' : stack'[i].ret = "zero" =>
             \/ \E t \in Taps : QueueFrom(t) = stack'[i].q /\ receive_disabled'[t]
             \/ \E j \in DOMAIN stack : stack[j].ret = "zero" /\ stack[j].q = stack'[i].q
      BY <2>3, <2>4, <2>7 DEF Top
    <2>9. \A q \in Queues : queue'[q] # <<>> =>
             \/ queue[q] # <<>> /\ \A i \in DOMAIN stack : stack[i].q # q
             \/ \E i \in DOMAIN stack' : stack'[i].q = q
      BY <2>1, <2>3, <2>4 DEF Top
    <2> QED
      BY <1>0, <2>6, <2>8, <2>9, FlushFrames, Zenon
  <1>2. ASSUME NEW s \in Clients, NEW cb \in BOOLEAN, SendStep(s, cb) PROVE FlushInv'
    <2>1. /\ sent[s] < Max /\ Send(s, cb, stack) /\ UNCHANGED <<receive_disabled, write_poll>>
      BY <1>2 DEF SendStep
    <2>2. New(s, cb) \in Packet /\ [New(s, cb) EXCEPT !.cb = FALSE] \in Packet /\ QueueTo(s) \in Queues
      BY <2>1, NewType
    <2>3. CASE UNCHANGED <<stack, queue>>
      BY <1>0, <2>1, <2>3, FlushFrames
    <2>4. CASE ~link_down[s] /\ delivering[QueueTo(s)]
      <3>1. /\ UNCHANGED stack
            /\ queue' = [queue EXCEPT ![QueueTo(s)] = Append(@, [New(s, cb) EXCEPT !.cb = FALSE])]
        BY <2>1, <2>4, Zenon DEF Send, New
      <3>2. Busy(QueueTo(s))
        BY <1>0, <2>2, <2>4
      <3>3. \A q \in Queues : q # QueueTo(s) => queue'[q] = queue[q]
        BY <1>0, <3>1
      <3>4. \A q \in Queues : queue'[q] # <<>> =>
               \/ queue[q] # <<>> /\ \A i \in DOMAIN stack : stack[i].q # q
               \/ \E i \in DOMAIN stack' : stack'[i].q = q
        BY <3>1, <3>2, <3>3 DEF Busy
      <3> QED
        BY <1>0, <2>1, <3>1, <3>4, FlushFrames, Zenon
    <2>5. CASE ~link_down[s] /\ ~delivering[QueueTo(s)]
      <3>1. /\ UNCHANGED queue
            /\ stack' = <<Call(QueueTo(s), New(s, cb), FALSE, "err")>> \o stack
        BY <2>1, <2>5, Zenon DEF Send, New
      <3>2. PICK p \in Packet : p = New(s, cb)
        BY <2>2
      <3>3. PICK u \in Queues : u = QueueTo(s)
        BY <2>2
      <3>4. PICK f \in Frame :
               /\ f = Call(u, p, FALSE, "err") /\ p # NoOne /\ f.q = u /\ f.p = p
               /\ f.flush = FALSE /\ f.val = "err" /\ f.ret = "err" /\ f.todo = Targets(u, p.from)
        BY SendCall, Zenon
      <3>5. stack' = <<f>> \o stack
        BY <3>1, <3>2, <3>3, <3>4
      <3>6. /\ DOMAIN stack = 1 .. Len(stack) /\ DOMAIN stack' = 1 .. Len(stack) + 1 /\ stack'[1] = f
            /\ Len(stack) \in Nat /\ \A i \in 1 .. Len(stack) : stack'[i + 1] = stack[i]
        <4>1. stack \in Seq(Frame)
          BY <1>0
        <4> QED
          <5>1. PICK w : w = <<f>> \o stack
            BY Zenon
          <5>2. /\ DOMAIN stack = 1 .. Len(stack) /\ DOMAIN w = 1 .. Len(stack) + 1 /\ w[1] = f
                /\ Len(stack) \in Nat /\ \A i \in 1 .. Len(stack) : w[i + 1] = stack[i]
            BY <4>1, <5>1, Pushed
          <5> QED
            BY <3>5, <5>1, <5>2, Zenon
      <3>7. /\ \A i \in DOMAIN stack' : i = 1 \/ \E j \in DOMAIN stack : stack'[i] = stack[j]
            /\ \A j \in DOMAIN stack : \E i \in DOMAIN stack' : stack'[i] = stack[j]
        <4>1. \A i \in DOMAIN stack' : i = 1 \/ (i - 1 \in DOMAIN stack /\ stack'[i] = stack[i - 1])
          <5>1. TAKE i \in DOMAIN stack'
          <5>2. i = 1 \/ (i - 1 \in 1 .. Len(stack) /\ (i - 1) + 1 = i)
            BY <3>6
          <5> QED
            BY <3>6, <5>2
        <4>2. \A j \in DOMAIN stack : j + 1 \in DOMAIN stack' /\ stack'[j + 1] = stack[j]
          BY <3>6
        <4> QED
          BY <4>1, <4>2
      <3>8. \A i \in DOMAIN stack' : stack'[i].ret = "zero" =>
               \E j \in DOMAIN stack : stack[j].ret = "zero" /\ stack[j].q = stack'[i].q
        <4>1. TAKE i \in DOMAIN stack'
        <4>2. HAVE stack'[i].ret = "zero"
        <4>3. i # 1
          BY <3>4, <3>6, <4>2, Zenon
        <4>4. PICK j \in DOMAIN stack : stack'[i] = stack[j]
          BY <3>7, <4>3
        <4> QED
          BY <4>2, <4>4
      <3>9. \A q \in Queues : queue'[q] # <<>> =>
               \/ queue[q] # <<>> /\ \A i \in DOMAIN stack : stack[i].q # q
               \/ \E i \in DOMAIN stack' : stack'[i].q = q
        <4>1. ASSUME NEW q, NEW j \in DOMAIN stack, stack[j].q = q PROVE \E i \in DOMAIN stack' : stack'[i].q = q
          <5>1. PICK i \in DOMAIN stack' : stack'[i] = stack[j]
            BY <3>7
          <5> QED
            BY <4>1, <5>1
        <4> QED
          BY <3>1, <4>1, Zenon
      <3> QED
        BY <1>0, <2>1, <3>8, <3>9, FlushFrames, Zenon
    <2> QED
      BY <2>1, <2>3, <2>4, <2>5 DEF Send
  <1>3. ASSUME stack # <<>>, stack' = Tail(stack), UNCHANGED <<receive_disabled, write_poll>>,
               \A q \in Queues : q # Top.q => queue'[q] = queue[q],
               Disabled(Top.q) \/ queue'[Top.q] = <<>>
        PROVE  FlushInv'
    <2>1. /\ DOMAIN stack = 1 .. Len(stack) /\ DOMAIN stack' = 1 .. Len(stack) - 1 /\ Len(stack) \in Nat
          /\ \A i \in 1 .. Len(stack) - 1 : stack'[i] = stack[i + 1]
      BY <1>0, <1>3, Popped
    <2>2. \A i \in DOMAIN stack' : i + 1 \in DOMAIN stack /\ stack'[i] = stack[i + 1]
      BY <2>1
    <2>3. \A i \in DOMAIN stack : i # 1 => i - 1 \in DOMAIN stack' /\ stack'[i - 1] = stack[i]
      BY <2>1
    <2>4. \A i \in DOMAIN stack' : stack'[i].ret = "zero" =>
             \E j \in DOMAIN stack : stack[j].ret = "zero" /\ stack[j].q = stack'[i].q
      BY <2>2
    <2>5. \A q \in Queues : queue'[q] # <<>> =>
             \/ queue[q] # <<>> /\ \A i \in DOMAIN stack : stack[i].q # q
             \/ Disabled(q)
             \/ \E i \in DOMAIN stack' : stack'[i].q = q
      BY <1>3, <2>3, Zenon DEF Top
    <2> QED
      BY <1>0, <1>3, <2>4, <2>5, FlushFrames, Zenon
  <1>4. ASSUME stack # <<>>, NEW f \in Frame, stack' = [stack EXCEPT ![1] = f], f.q = Top.q, f.ret = "err",
               UNCHANGED <<receive_disabled, write_poll>>,
               \A q \in Queues : q # Top.q => queue'[q] = queue[q]
        PROVE  FlushInv'
    <2>1. /\ DOMAIN stack' = DOMAIN stack /\ 1 \in DOMAIN stack /\ stack'[1] = f
          /\ \A i \in DOMAIN stack : i # 1 => stack'[i] = stack[i]
      BY <1>4, Swapped
    <2>2. \A i \in DOMAIN stack' : stack'[i].ret = "zero" =>
             \E j \in DOMAIN stack : stack[j].ret = "zero" /\ stack[j].q = stack'[i].q
      BY <1>4, <2>1
    <2>3. \A q \in Queues : queue'[q] # <<>> =>
             \/ queue[q] # <<>> /\ \A i \in DOMAIN stack : stack[i].q # q
             \/ \E i \in DOMAIN stack' : stack'[i].q = q
      BY <1>4, <2>1 DEF Top
    <2> QED
      BY <1>0, <1>4, <2>2, <2>3, FlushFrames, Zenon
  <1>5. ASSUME stack # <<>> PROVE /\ Top.q \in Queues /\ Top.ret \in Sizes /\ Top.val \in Sizes
                                  /\ Top.ret = "zero" => Disabled(Top.q)
    BY <1>5, TopType DEF FlushInv, Top
  <1>6. CASE Sent
    <2>1. stack # <<>> /\ UNCHANGED <<receive_disabled, write_poll>>
      BY <1>6 DEF Sent, Finished, cvars
    <2>2. CASE Top.ret = "zero"
      <3>1. queue' = [queue EXCEPT ![Top.q] = Append(@, Top.p)] /\ stack' = Tail(stack)
        BY <1>6, <2>2 DEF Sent, Queued
      <3>2. \A q \in Queues : q # Top.q => queue'[q] = queue[q]
        BY <1>0, <3>1
      <3> QED
        BY <1>3, <1>5, <2>1, <2>2, <3>1, <3>2
    <2>3. CASE Top.ret # "zero"
      <3>1. PICK f \in Frame :
               /\ Flushing(Top.ret) = [stack EXCEPT ![1] = f]
               /\ f.q = Top.q /\ f.p = NoOne /\ f.todo = Top.todo /\ f.ret = "err"
               /\ f.flush = TRUE /\ f.val = Top.ret
        BY <1>5, <2>1, FlushingTop, Zenon
      <3>2. stack' = [stack EXCEPT ![1] = f] /\ UNCHANGED queue
        BY <1>6, <2>3, <3>1 DEF Sent
      <3> QED
        BY <1>4, <2>1, <3>1, <3>2, Zenon
    <2> QED
      BY <2>2, <2>3
  <1>7. CASE FlushNext
    <2>1. stack # <<>> /\ UNCHANGED <<receive_disabled, write_poll>>
      BY <1>7 DEF FlushNext, cvars
    <2>2. PICK u \in Queues : u = Top.q
      BY <1>5, <2>1
    <2>3. CASE queue[u] = <<>>
      <3>1. stack' = Tail(stack) /\ UNCHANGED queue
        BY <1>7, <2>2, <2>3 DEF FlushNext
      <3> QED
        BY <1>3, <2>1, <2>2, <2>3, <3>1
    <2>4. CASE queue[u] # <<>>
      <3>1. /\ queue' = [queue EXCEPT ![u] = Tail(@)]
            /\ stack' = [stack EXCEPT ![1] = FlushFrame(u, Head(queue[u]), Top.val)]
        BY <1>7, <2>2, <2>4, Zenon DEF FlushNext, FlushFrame
      <3>a. queue[u] \in Seq(Packet)
        BY <1>0
      <3>2. PICK p \in Packet : p = Head(queue[u])
        BY <2>4, <3>a, Popped
      <3> PICK v \in Sizes : v = Top.val
        BY <1>5, <2>1
      <3>3. PICK f \in Frame :
               /\ f = FlushFrame(u, p, v) /\ p # NoOne /\ f.q = u /\ f.p = p
               /\ f.flush /\ f.val = v /\ f.ret = "err" /\ f.todo = Targets(u, p.from)
        BY FlushCall
      <3>4. stack' = [stack EXCEPT ![1] = f]
        BY <3>1, <3>2, <3>3
      <3>5. \A q \in Queues : q # Top.q => queue'[q] = queue[q]
        BY <1>0, <2>2, <3>1
      <3> QED
        BY <1>4, <2>1, <2>2, <3>3, <3>4, <3>5, Zenon
    <2> QED
      BY <2>3, <2>4
  <1>8. CASE Flushed
    <2>1. stack # <<>> /\ UNCHANGED <<receive_disabled, write_poll>>
      BY <1>8 DEF Flushed, Finished, cvars
    <2>2. CASE Top.ret = "zero"
      <3>1. queue' = [queue EXCEPT ![Top.q] = <<Top.p>> \o @] /\ stack' = Tail(stack)
        BY <1>8, <2>2 DEF Flushed, PutBack
      <3>2. \A q \in Queues : q # Top.q => queue'[q] = queue[q]
        BY <1>0, <3>1
      <3> QED
        BY <1>3, <1>5, <2>1, <2>2, <3>1, <3>2
    <2>3. CASE Top.ret # "zero"
      <3>1. PICK f \in Frame :
               /\ Flushing(Top.val) = [stack EXCEPT ![1] = f]
               /\ f.q = Top.q /\ f.p = NoOne /\ f.todo = Top.todo /\ f.ret = "err"
               /\ f.flush = TRUE /\ f.val = Top.val
        BY <1>5, <2>1, FlushingTop, Zenon
      <3>2. stack' = [stack EXCEPT ![1] = f] /\ UNCHANGED queue
        BY <1>8, <2>3, <3>1 DEF Flushed
      <3> QED
        BY <1>4, <2>1, <3>1, <3>2, Zenon
    <2> QED
      BY <2>2, <2>3
  <1>9. ASSUME NEW t \in Taps, TapWritable(t) PROVE FlushInv'
    <2>1. /\ stack = <<>> /\ stack' = <<WritableFrame(QueueFrom(t))>> /\ UNCHANGED queue
          /\ receive_disabled' = [receive_disabled EXCEPT ![t] = FALSE]
          /\ write_poll' = [write_poll EXCEPT ![t] = FALSE]
      BY <1>9 DEF TapWritable, Idle, WritableFrame, Enabled
    <2>2. /\ \A x \in Clients : receive_disabled'[x] <=> receive_disabled[x] /\ x # t
          /\ \A x \in Taps : x # t => write_poll'[x] = write_poll[x]
      BY <1>0, <2>1
    <2>3. \A x \in Clients : receive_disabled'[x] => x \in Taps /\ (net.removable = {} => write_poll'[x])
      BY <1>0, <2>2
    <2>4. DOMAIN stack' = {1} /\ stack'[1].ret = "err" /\ stack'[1].q = QueueFrom(t)
      BY <2>1 DEF WritableFrame
    <2>5. \A q \in Queues : queue'[q] # <<>> => Disabled(q)' \/ \E i \in DOMAIN stack' : stack'[i].q = q
      <3>1. TAKE q \in Queues
      <3>2. HAVE queue'[q] # <<>>
      <3>3. Disabled(q)
        <4>1. queue[q] # <<>> /\ DOMAIN stack = {}
          BY <2>1, <3>2
        <4> QED
          BY <4>1 DEF FlushInv
      <3>4. PICK x \in Taps : QueueFrom(x) = q /\ receive_disabled[x]
        BY <3>3 DEF Disabled
      <3>5. x # t => Disabled(q)'
        BY <1>0, <2>2, <3>4, SameNet DEF Disabled
      <3> QED
        BY <2>4, <3>4, <3>5
    <2> QED
      BY <1>0, <2>3, <2>4, <2>5, SameNet, Zenon DEF FlushInv
  <1>10. ASSUME NEW t \in Taps, Remove(t) PROVE FlushInv'
    <2>1. /\ stack = <<>> /\ stack' = <<>> /\ queue' = Purged(t) /\ UNCHANGED receive_disabled
          /\ t \in net.removable
      BY <1>10, Zenon DEF Remove, Idle
    <2>2. ASSUME NEW q \in Queues, queue'[q] # <<>> PROVE queue[q] # <<>>
      <3>1. CASE q # QueueTo(t)
        <4>1. queue'[q] = queue[q]
          BY <2>1, <3>1, PurgedFacts
        <4> QED
          BY <2>2, <4>1
      <3>2. CASE q = QueueTo(t)
        <4>1. queue' \in [Queues -> Seq(Packet)]
          BY StackStep
        <4>2. 1 \in DOMAIN queue'[q]
          <5>1. /\ Len(queue'[q]) \in Nat /\ Len(queue'[q]) > 0 /\ DOMAIN queue'[q] = 1 .. Len(queue'[q])
            BY <2>2, <4>1, Popped, Zenon
          <5>2. \A k \in Nat : k > 0 => 1 \in 1 .. k
            OBVIOUS
          <5> QED
            BY <5>1, <5>2, Zenon
        <4>3. \E i \in DOMAIN queue[q] : queue[q][i] = queue'[q][1]
          <5>1. \A k \in DOMAIN Purged(t)[QueueTo(t)] :
                   \E i \in DOMAIN queue[QueueTo(t)] : queue[QueueTo(t)][i] = Purged(t)[QueueTo(t)][k]
            BY PurgedFacts
          <5> QED
            BY <2>1, <3>2, <4>2, <5>1
        <4> QED
          BY <4>3
      <3> QED
        BY <3>1, <3>2
    <2>3. \A i \in DOMAIN stack' : FALSE
      BY <2>1
    <2>4. \A c \in Clients : receive_disabled'[c] => c \in Taps /\ (net.removable = {} => write_poll'[c])
      BY <1>0, <2>1
    <2>5. \A q \in Queues : queue'[q] # <<>> => queue[q] # <<>> /\ \A i \in DOMAIN stack : stack[i].q # q
      BY <2>1, <2>2
    <2> QED
      BY <1>0, <2>1, <2>3, <2>4, <2>5, FlushFrames
  <1>11. CASE QuietStep
    <2>1. UNCHANGED <<queue, stack, receive_disabled, write_poll>>
      BY <1>11 DEF QuietStep
    <2> QED
      BY <1>0, <2>1, FlushFrames
  <1> QED
    BY <1>1, <1>2, <1>6, <1>7, <1>8, <1>9, <1>10, <1>11, Steps

-----------------------------------------------------------------------------
(* The theorems *)

\* What is true of every machine at every moment.
Inv == TypeOK /\ StackInv /\ HostInv /\ OwnerInv /\ StopInv /\ FlushInv

\* Nothing waits yet.
LEMMA InitInv == Init => Inv
  <1> SUFFICES ASSUME Init PROVE Inv
    OBVIOUS
  <1>1. BaseInv /\ Taps \subseteq Clients
    BY InitBase, NetFacts DEF Init
  <1>2. /\ stack = <<>> /\ DOMAIN stack = {} /\ reader = NoOne
        /\ read_poll = [t \in Taps |-> TRUE] /\ queue = [q \in Queues |-> <<>>]
        /\ receive_disabled = [c \in Clients |-> FALSE]
    BY DEF Init
  <1>3. StopInv
    BY <1>1, <1>2 DEF StopInv
  <1>4. FlushInv
    BY <1>2 DEF FlushInv
  <1> QED
    BY <1>1, <1>3, <1>4 DEF Inv, BaseInv

\* The whole invariant: the calls in progress, the host, the owners of the
\* packets, the TAP backends that have stopped and the queues that wait.
THEOREM NetInvariant == Spec => []Inv
  <1>1. Inv /\ [Next]_vars => Inv'
    BY TypeStep, OwnerStep, StopStep, FlushStep DEF Inv
  <1> QED
    BY InitInv, <1>1, PTL DEF Spec

\* A TAP that has stopped reading is owed tap_send_completed.
THEOREM NetStoppedIsQueued == Spec => []StoppedIsQueued
  <1>1. Inv => StoppedIsQueued
    <2> SUFFICES ASSUME Inv, Idle, NEW t \in Taps \cap alive, ~read_poll[t]
                 PROVE  \E i \in DOMAIN queue[QueueTo(t)] :
                           queue[QueueTo(t)][i].from = t /\ queue[QueueTo(t)][i].cb
      BY DEF StoppedIsQueued
    <2>1. Waits(t) \/ IsFlushed(t)
      BY DEF Inv, StopInv
    <2>2. ~IsFlushed(t)
      BY DEF Idle, IsFlushed
    <2> QED
      BY <2>1, <2>2 DEF Waits
  <1> QED
    BY <1>1, NetInvariant, PTL

\* A queue is left with packets in it only while a TAP that reads it waits for
\* its descriptor to become writable.
THEOREM NetFlushComes == Spec => []FlushComes
  <1>1. Inv => FlushComes
    <2> SUFFICES ASSUME Inv, Idle, net.removable = {}, NEW q \in Queues, queue[q] # <<>>
                 PROVE  \E t \in Taps : QueueFrom(t) = q /\ receive_disabled[t] /\ write_poll[t]
      BY DEF FlushComes
    <2>1. Disabled(q)
      BY DEF Inv, FlushInv, Idle
    <2>2. PICK t \in Taps : QueueFrom(t) = q /\ receive_disabled[t]
      BY <2>1 DEF Disabled
    <2>3. write_poll[t]
      BY <2>2 DEF Inv, FlushInv, Taps
    <2> QED
      BY <2>2, <2>3
  <1> QED
    BY <1>1, NetInvariant, PTL

-----------------------------------------------------------------------------
(* The packets of a client *)

\* The packets of s that are queued.
Ids(s) == IdsIn(queue[QueueTo(s)], s)

SortInv == \A q \in Queues : Sorted(queue[q])

\* The queues and the numbers in them as a packet is appended.
LEMMA AppendSender ==
    ASSUME Inv, SortInv, net' = net, NEW u \in Queues, NEW p \in Packet, QueueTo(p.from) = u,
           queue' = [queue EXCEPT ![u] = Append(@, p)], \A n \in Ids(p.from) : n < p.id
    PROVE  /\ SortInv'
           /\ \A s \in Clients : Ids(s)' = IF s = p.from THEN Ids(s) \cup {p.id} ELSE Ids(s)
  <1>1. queue \in [Queues -> Seq(Packet)] /\ net \in Networks
    BY DEF Inv, TypeOK
  <1>2. PICK Q \in Seq(Packet) : Q = queue[u]
    BY <1>1
  <1>3. PICK R : R = Append(Q, p)
    BY Zenon
  <1>4. queue'[u] = R /\ \A q \in Queues : q # u => queue'[q] = queue[q]
    BY <1>1, <1>2, <1>3
  <1>5. Newest(p, Q)
    BY <1>2 DEF Ids, Newest
  <1>6. /\ \A s : IdsIn(R, s) = IF p.from = s THEN IdsIn(Q, s) \cup {p.id} ELSE IdsIn(Q, s)
        /\ Sorted(Q) => Sorted(R)
    <2>1. \A s : IdsIn(Append(Q, p), s) = IF p.from = s THEN IdsIn(Q, s) \cup {p.id} ELSE IdsIn(Q, s)
      BY IdsAppend
    <2>2. Sorted(Q) => Sorted(Append(Q, p))
      BY <1>5, IdsAppend
    <2> QED
      BY <1>3, <2>1, <2>2
  <1>7. SortInv'
    BY <1>2, <1>4, <1>6, SameNet, Zenon DEF SortInv
  <1>8. ASSUME NEW s \in Clients PROVE Ids(s)' = IF s = p.from THEN Ids(s) \cup {p.id} ELSE Ids(s)
    <2>1. QueueTo(s) \in Queues /\ Ids(s) = IdsIn(queue[QueueTo(s)], s)
      BY <1>1, NetFacts DEF Ids
    <2>2. Ids(s)' = IdsIn(queue'[QueueTo(s)], s)
      BY SameNet DEF Ids
    <2>3. CASE QueueTo(s) = u
      BY <1>2, <1>4, <1>6, <2>1, <2>2, <2>3, Zenon
    <2>4. CASE QueueTo(s) # u
      BY <1>4, <2>1, <2>2, <2>4
    <2> QED
      BY <2>3, <2>4
  <1> QED
    BY <1>7, <1>8

\* As a packet is put back in front.
LEMMA PutSender ==
    ASSUME Inv, SortInv, net' = net, NEW u \in Queues, NEW p \in Packet, QueueTo(p.from) = u,
           queue' = [queue EXCEPT ![u] = <<p>> \o @], \A n \in Ids(p.from) : p.id < n
    PROVE  /\ SortInv'
           /\ \A s \in Clients : Ids(s)' = IF s = p.from THEN Ids(s) \cup {p.id} ELSE Ids(s)
  <1>1. queue \in [Queues -> Seq(Packet)] /\ net \in Networks
    BY DEF Inv, TypeOK
  <1>2. PICK Q \in Seq(Packet) : Q = queue[u]
    BY <1>1
  <1>3. PICK R : R = InFront(p, Q)
    OBVIOUS
  <1>4. queue'[u] = R /\ \A q \in Queues : q # u => queue'[q] = queue[q]
    BY <1>1, <1>2, <1>3 DEF InFront
  <1>5. Oldest(p, Q)
    BY <1>2 DEF Ids, Oldest
  <1>6. /\ \A s : IdsIn(R, s) = IF p.from = s THEN IdsIn(Q, s) \cup {p.id} ELSE IdsIn(Q, s)
        /\ Sorted(Q) => Sorted(R)
    <2>1. \A s : IdsIn(InFront(p, Q), s) = IF p.from = s THEN IdsIn(Q, s) \cup {p.id} ELSE IdsIn(Q, s)
      BY IdsPut
    <2>2. Sorted(Q) => Sorted(InFront(p, Q))
      BY <1>5, IdsPut
    <2> QED
      BY <1>3, <2>1, <2>2
  <1>7. SortInv'
    BY <1>2, <1>4, <1>6, SameNet, Zenon DEF SortInv
  <1>8. ASSUME NEW s \in Clients PROVE Ids(s)' = IF s = p.from THEN Ids(s) \cup {p.id} ELSE Ids(s)
    <2>1. QueueTo(s) \in Queues /\ Ids(s) = IdsIn(queue[QueueTo(s)], s)
      BY <1>1, NetFacts DEF Ids
    <2>2. Ids(s)' = IdsIn(queue'[QueueTo(s)], s)
      BY SameNet DEF Ids
    <2>3. CASE QueueTo(s) = u
      BY <1>2, <1>4, <1>6, <2>1, <2>2, <2>3, Zenon
    <2>4. CASE QueueTo(s) # u
      BY <1>4, <2>1, <2>2, <2>4
    <2> QED
      BY <2>3, <2>4
  <1> QED
    BY <1>7, <1>8

\* As the first packet is taken.
LEMMA TailSender ==
    ASSUME Inv, SortInv, net' = net, NEW u \in Queues, queue[u] # <<>>, NEW p, p = Head(queue[u]),
           queue' = [queue EXCEPT ![u] = Tail(@)]
    PROVE  /\ SortInv' /\ p \in Packet /\ QueueTo(p.from) = u
           /\ p.id \in Ids(p.from) /\ Ids(p.from)' = Ids(p.from) \ {p.id}
           /\ \A n \in Ids(p.from)' : p.id < n
           /\ \A s \in Clients : s # p.from => Ids(s)' = Ids(s)
  <1>1. queue \in [Queues -> Seq(Packet)] /\ net \in Networks
    BY DEF Inv, TypeOK
  <1>2. PICK Q \in Seq(Packet) : Q = queue[u]
    BY <1>1
  <1>3. PICK R : R = Tail(Q)
    BY Zenon
  <1>4. queue'[u] = R /\ \A q \in Queues : q # u => queue'[q] = queue[q]
    BY <1>1, <1>2, <1>3
  <1>5. Numbered(Packet)
    <2>1. Max \in Nat
      BY <1>1, NetFacts
    <2> QED
      BY <2>1 DEF Packet, Numbered
  <1>6. Sorted(Q)
    BY <1>2 DEF SortInv
  <1>7. /\ p \in Packet /\ Sorted(R) /\ p.id \in IdsIn(Q, p.from)
        /\ \A s : s # p.from => IdsIn(R, s) = IdsIn(Q, s)
        /\ IdsIn(R, p.from) = IdsIn(Q, p.from) \ {p.id}
        /\ \A n \in IdsIn(R, p.from) : p.id < n
    <2>1. Q # <<>> /\ p = Head(Q)
      BY <1>2
    <2>2. /\ p \in Packet /\ Sorted(Tail(Q)) /\ p.id \in IdsIn(Q, p.from)
          /\ \A s : s # p.from => IdsIn(Tail(Q), s) = IdsIn(Q, s)
          /\ IdsIn(Tail(Q), p.from) = IdsIn(Q, p.from) \ {p.id}
          /\ \A n \in IdsIn(Tail(Q), p.from) : p.id < n
      BY <1>5, <1>6, <2>1, IdsTail, Zenon
    <2> QED
      BY <1>3, <2>2
  <1>8. QueueTo(p.from) = u
    <2>1. 1 \in DOMAIN Q /\ p = Q[1]
      BY <1>2, Popped
    <2>2. Owned(queue[u][1], u)
      BY <1>2, <2>1 DEF Inv, OwnerInv
    <2> QED
      BY <1>2, <2>1, <2>2 DEF Owned
  <1>9. SortInv'
    BY <1>4, <1>7, SameNet, Zenon DEF SortInv
  <1>10. PICK a : a = p.from
    OBVIOUS
  <1>11. Ids(a) = IdsIn(Q, a) /\ Ids(a)' = IdsIn(R, a)
    BY <1>2, <1>4, <1>8, <1>10, SameNet, Zenon DEF Ids
  <1>12. ASSUME NEW s \in Clients, s # p.from PROVE Ids(s)' = Ids(s)
    <2>1. QueueTo(s) \in Queues
      BY <1>1, NetFacts
    <2> QED
      BY <1>2, <1>4, <1>7, <1>12, <2>1, SameNet, Zenon DEF Ids
  <1> QED
    BY <1>7, <1>8, <1>9, <1>10, <1>11, <1>12

\* As the packets of t are purged.
LEMMA PurgeSender ==
    ASSUME Inv, SortInv, net' = net, NEW t \in Taps, queue' = Purged(t)
    PROVE  /\ SortInv' /\ Ids(t)' = {}
           /\ \A s \in Clients : s # t => Ids(s)' = Ids(s)
  <1>1. queue \in [Queues -> Seq(Packet)] /\ net \in Networks /\ t \in Clients
    BY DEF Inv, TypeOK, Taps
  <1>2. PICK u \in Queues : u = QueueTo(t)
    BY <1>1, NetFacts
  <1>3. PICK Q \in Seq(Packet) : Q = queue[u]
    BY <1>1
  <1>4. PICK R : R = At(Q, NotFrom(Q, t))
    OBVIOUS
  <1>5. queue'[u] = R /\ \A q \in Queues : q # u => queue'[q] = queue[q]
    <2>1. Purged(t) = [queue EXCEPT ![u] = At(Q, NotFrom(Q, t))]
      BY <1>1, <1>2, <1>3 DEF Purged, NotFrom
    <2> QED
      BY <1>1, <1>4, <2>1
  <1>6. Sorted(Q)
    BY <1>3 DEF SortInv
  <1>7. /\ Sorted(R) /\ IdsIn(R, t) = {}
        /\ \A s : s # t => IdsIn(R, s) = IdsIn(Q, s)
    BY <1>4, <1>6, IdsPurge
  <1>8. SortInv'
    BY <1>5, <1>7, SameNet, Zenon DEF SortInv
  <1>9. Ids(t)' = {}
    BY <1>2, <1>5, <1>7, SameNet, Zenon DEF Ids
  <1>10. ASSUME NEW s \in Clients, s # t PROVE Ids(s)' = Ids(s)
    <2>1. QueueTo(s) \in Queues
      BY <1>1, NetFacts
    <2> QED
      BY <1>3, <1>5, <1>7, <1>10, <2>1, SameNet DEF Ids
  <1> QED
    BY <1>8, <1>9, <1>10

\* The queues do not change.
LEMMA SameIds ==
    ASSUME SortInv, net' = net, queue' = queue
    PROVE  SortInv' /\ \A s : Ids(s)' = Ids(s)
  BY SameNet DEF SortInv, Ids

-----------------------------------------------------------------------------
(* The calls on a queue, by the clients that send to it *)

Two == Cardinality(Clients) = 2

\* The frames of calls on the queue q: one at the most.
CallsOn(frames, q) == {frames[i] : i \in {j \in DOMAIN frames : frames[j].q = q}}

\* The calls on the queue that s sends to.
Calls(s) == CallsOn(stack, QueueTo(s))

\* A call is made during another only by the user mode stack.
NestInv == \A i \in DOMAIN stack : i # 1 => stack[i].q = QueueFrom(User)

\* The innermost call changes.
LEMMA SwapCalls ==
    ASSUME NEW S, NEW st \in Seq(S), st # <<>>, NEW f \in S, f.q = st[1].q,
           \A i, j \in DOMAIN st : st[i].q = st[j].q => i = j
    PROVE  /\ \A q : CallsOn([st EXCEPT ![1] = f], q) = IF q = f.q THEN {f} ELSE CallsOn(st, q)
           /\ CallsOn(st, f.q) = {st[1]}
  <1>1. PICK u : u = [st EXCEPT ![1] = f]
    BY Zenon
  <1>2. /\ Len(st) \in Nat /\ Len(st) > 0 /\ DOMAIN st = 1 .. Len(st)
        /\ DOMAIN u = 1 .. Len(st) /\ u[1] = f /\ \A i \in 2 .. Len(st) : u[i] = st[i]
    BY <1>1, Replaced
  <1>3. DOMAIN u = DOMAIN st /\ 1 \in DOMAIN st /\ \A i \in DOMAIN st : i # 1 => u[i] = st[i]
    BY <1>2
  <1>4. \A i \in DOMAIN st : st[i].q = f.q => i = 1
    BY <1>3
  <1>5. CallsOn(u, f.q) = {f} /\ CallsOn(st, f.q) = {st[1]}
    BY <1>2, <1>3, <1>4 DEF CallsOn
  <1>6. \A q : q # f.q => CallsOn(u, q) = CallsOn(st, q)
    BY <1>2, <1>3 DEF CallsOn
  <1> QED
    BY <1>1, <1>5, <1>6, Zenon

\* The innermost call returns.
LEMMA PopCalls ==
    ASSUME NEW S, NEW st \in Seq(S), st # <<>>, \A i, j \in DOMAIN st : st[i].q = st[j].q => i = j
    PROVE  /\ \A q : CallsOn(Tail(st), q) = IF q = st[1].q THEN {} ELSE CallsOn(st, q)
           /\ CallsOn(st, st[1].q) = {st[1]}
  <1>1. PICK u : u = Tail(st)
    BY Zenon
  <1>2. /\ Len(st) \in Nat /\ Len(st) > 0 /\ DOMAIN st = 1 .. Len(st)
        /\ DOMAIN u = 1 .. Len(st) - 1 /\ \A i \in 1 .. Len(st) - 1 : u[i] = st[i + 1]
    BY <1>1, Popped
  <1>3. \A i \in DOMAIN u : i + 1 \in DOMAIN st /\ u[i] = st[i + 1] /\ i + 1 # 1
    BY <1>2
  <1>4. \A i \in DOMAIN st : i # 1 => i - 1 \in DOMAIN u /\ u[i - 1] = st[i]
    <2>1. TAKE i \in DOMAIN st
    <2>2. i = 1 \/ (i - 1 \in 1 .. Len(st) - 1 /\ (i - 1) + 1 = i)
      BY <1>2
    <2> QED
      BY <1>2, <2>2
  <1>5. 1 \in DOMAIN st
    BY <1>2
  <1>6. CallsOn(u, st[1].q) = {} /\ CallsOn(st, st[1].q) = {st[1]}
    BY <1>3, <1>5 DEF CallsOn
  <1>7. \A q : q # st[1].q => CallsOn(u, q) = CallsOn(st, q)
    BY <1>3, <1>4 DEF CallsOn
  <1> QED
    BY <1>1, <1>6, <1>7

\* A call is made, on a queue no other is working on.
LEMMA PushCalls ==
    ASSUME NEW S, NEW st \in Seq(S), NEW f \in S, \A i \in DOMAIN st : st[i].q # f.q
    PROVE  /\ \A q : CallsOn(<<f>> \o st, q) = IF q = f.q THEN {f} ELSE CallsOn(st, q)
           /\ CallsOn(st, f.q) = {}
  <1>1. PICK u : u = <<f>> \o st
    BY Zenon
  <1>2. /\ Len(st) \in Nat /\ DOMAIN st = 1 .. Len(st) /\ DOMAIN u = 1 .. Len(st) + 1
        /\ u[1] = f /\ \A i \in 1 .. Len(st) : u[i + 1] = st[i]
    BY <1>1, Pushed
  <1>3. \A i \in DOMAIN st : i + 1 \in DOMAIN u /\ u[i + 1] = st[i]
    BY <1>2
  <1>4. \A i \in DOMAIN u : i = 1 \/ (i - 1 \in DOMAIN st /\ u[i] = st[i - 1])
    <2>1. TAKE i \in DOMAIN u
    <2>2. i = 1 \/ (i - 1 \in 1 .. Len(st) /\ (i - 1) + 1 = i)
      BY <1>2
    <2> QED
      BY <1>2, <2>2
  <1>5. 1 \in DOMAIN u
    BY <1>2
  <1>6. CallsOn(u, f.q) = {f}
    BY <1>2, <1>4, <1>5 DEF CallsOn
  <1>7. \A q : q # f.q => CallsOn(u, q) = CallsOn(st, q)
    BY <1>2, <1>3, <1>4 DEF CallsOn
  <1>8. CallsOn(st, f.q) = {}
    BY DEF CallsOn
  <1> QED
    BY <1>1, <1>6, <1>7, <1>8, Zenon

\* Each is the other's peer, on a VLAN as well.
LEMMA TwoFacts ==
    ASSUME net \in Networks, Two, NEW s \in Clients
    PROVE  /\ Peer(s) \in Clients /\ Peer(s) # s /\ Peer(Peer(s)) = s
           /\ \A d \in Clients : d = s \/ d = Peer(s)
           /\ QueueTo(s) = QueueFrom(Peer(s))
           /\ QueueTo(Peer(s)) = QueueTo(s) <=> net.vlan
  <1>1. /\ Len(net.order) \in Nat /\ DOMAIN net.order = 1 .. Len(net.order)
        /\ net.order \in [1 .. Len(net.order) -> Clients]
    BY NetFacts, LenProperties
  <1>2. IsFiniteSet(Clients)
    <2>1. net.order \in Surjection(1 .. Len(net.order), Clients)
      BY <1>1, Zenon DEF Surjection, Clients
    <2>2. IsFiniteSet(1 .. Len(net.order))
      <3>1. 1 \in Int /\ Len(net.order) \in Int
        BY <1>1
      <3> QED
        BY <3>1, FS_Interval, Zenon
    <2> QED
      BY <2>1, <2>2, FS_Surjection
  <1>3. ASSUME NEW c \in Clients PROVE \E d : Clients \ {c} = {d}
    <2>1. IsFiniteSet(Clients \ {c}) /\ Cardinality(Clients \ {c}) = Cardinality(Clients) - 1
      BY <1>2, FS_RemoveElement
    <2>2. Cardinality(Clients \ {c}) = 1
      BY <2>1 DEF Two
    <2> QED
      BY <2>1, <2>2, FS_Singleton, Zenon
  <1>4. ASSUME NEW c \in Clients
        PROVE  Peer(c) \in Clients /\ Peer(c) # c /\ \A d \in Clients : d = c \/ d = Peer(c)
    <2>1. PICK d : Clients \ {c} = {d}
      BY <1>3, Zenon
    <2>2. \A x : x \in Clients /\ x # c <=> x = d
      BY <2>1
    <2>3. Peer(c) \in Clients /\ Peer(c) # c
      BY <2>2 DEF Peer
    <2> QED
      BY <2>2, <2>3
  <1>5. Peer(s) \in Clients /\ Peer(s) # s /\ \A d \in Clients : d = s \/ d = Peer(s)
    BY <1>4
  <1>6. Peer(Peer(s)) = s
    BY <1>4, <1>5
  <1>7. net.vlan \in BOOLEAN
    BY NetFacts
  <1> QED
    BY <1>5, <1>6, <1>7 DEF QueueTo, QueueFrom

\* A packet is offered to the other client, if it is still there.
LEMMA TargetsTwo ==
    ASSUME TypeOK, Two, NEW s \in Clients
    PROVE  Targets(QueueTo(s), s) = IF net.vlan /\ Peer(s) \notin alive THEN <<>> ELSE <<Peer(s)>>
  <1>1. /\ net \in Networks /\ net.order \in Seq(Clients) /\ alive \subseteq Clients
        /\ \A i, j \in DOMAIN net.order : net.order[i] = net.order[j] => i = j
    BY NetFacts, NetAssumption, Zenon DEF TypeOK
  <1>2. PICK c \in Clients : c = Peer(s) /\ c # s /\ \A d \in Clients : d = s \/ d = c
    BY <1>1, TwoFacts
  <1>3. CASE ~net.vlan
    BY <1>3 DEF Targets, QueueTo
  <1>4. CASE net.vlan
    <2> DEFINE I == {i \in DOMAIN net.order : net.order[i] \in alive \ {s}}
    <2>1. PICK T : T = Targets(QueueTo(s), s)
      OBVIOUS
    <2>2. T = At(net.order, I) /\ I \in SUBSET (DOMAIN net.order)
      BY <1>4, <2>1 DEF Targets
    <2>3. \A i : i \in I <=> i \in DOMAIN net.order /\ net.order[i] = c /\ c \in alive
      BY <1>1, <1>2, ElementOfSeq, Zenon DEF Clients
    <2> HIDE DEF I
    <2>4. /\ T \in Seq(Clients) /\ Len(T) = Cardinality(I)
          /\ \A k \in 1 .. Len(T) : \E i \in I : T[k] = net.order[i]
      <3>1. PICK O \in Seq(Clients) : O = net.order
        BY <1>1
      <3>2. I \in SUBSET (DOMAIN O) /\ T = At(O, I)
        BY <2>2, <3>1
      <3>3. /\ At(O, I) \in Seq(Clients) /\ DOMAIN At(O, I) = 1 .. Cardinality(I)
            /\ Cardinality(I) \in Nat
            /\ \A k \in DOMAIN At(O, I) : \E i \in I : At(O, I)[k] = O[i]
        BY <3>2, AtFacts
      <3>4. Len(T) = Cardinality(I)
        BY <3>2, <3>3
      <3> QED
        BY <3>1, <3>2, <3>3, <3>4
    <2>5. CASE c \notin alive
      <3>1. I = {}
        BY <2>3, <2>5
      <3>2. Len(T) = 0
        BY <2>4, <3>1, FS_EmptySet
      <3>3. T = <<>>
        BY <2>4, <3>2, EmptySeq
      <3> QED
        BY <1>2, <1>4, <2>1, <2>5, <3>3
    <2>6. CASE c \in alive
      <3>1. PICK k \in DOMAIN net.order : net.order[k] = c
        BY DEF Clients
      <3>2. I = {k}
        BY <1>1, <2>3, <2>6, <3>1
      <3>3. Len(T) = 1 /\ Cardinality(I) = 1
        BY <2>4, <3>2, FS_Singleton, Zenon
      <3>4. T[1] = c
        <4>1. 1 \in 1 .. Len(T)
          BY <3>3
        <4> QED
          BY <2>4, <3>1, <3>2, <4>1
      <3>5. T = <<c>>
        <4>1. <<c>> \in Seq(Clients) /\ Len(<<c>>) = 1 /\ <<c>>[1] = c
          OBVIOUS
        <4>2. \A i \in 1 .. Len(T) : T[i] = <<c>>[i]
          BY <3>3, <3>4, <4>1
        <4> QED
          BY <2>4, <3>3, <4>1, <4>2, SeqEqual
      <3> QED
        BY <1>2, <1>4, <2>1, <2>6, <3>5
    <2> QED
      BY <2>5, <2>6
  <1>5. net.vlan \in BOOLEAN
    BY <1>1, NetFacts
  <1> QED
    BY <1>3, <1>4, <1>5

\* The machine does not change.
LEMMA SameTwo ==
    ASSUME net' = net
    PROVE  (Two' <=> Two) /\ \A s : Peer(s)' = Peer(s)
  <1>1. Clients' = Clients
    BY SameNet
  <1> QED
    BY <1>1 DEF Two, Peer

\* The innermost call changes.
LEMMA SwapSender ==
    ASSUME Inv, NestInv, net' = net, stack # <<>>, NEW f \in Frame, f.q = Top.q,
           stack' = [stack EXCEPT ![1] = f]
    PROVE  /\ NestInv' /\ stack' # <<>>
           /\ \A s \in Clients : /\ Calls(s)' = IF QueueTo(s) = Top.q THEN {f} ELSE Calls(s)
                                 /\ QueueTo(s) = Top.q => Calls(s) = {Top}
  <1>1. stack \in Seq(Frame) /\ \A i, j \in DOMAIN stack : stack[i].q = stack[j].q => i = j
    BY DEF Inv, TypeOK, StackInv
  <1>2. /\ DOMAIN stack' = DOMAIN stack /\ 1 \in DOMAIN stack
        /\ \A i \in DOMAIN stack : i # 1 => stack'[i] = stack[i]
    BY Swapped DEF Inv
  <1>3. NestInv'
    BY <1>2, SameNet DEF NestInv
  <1>4. /\ \A q : CallsOn(stack', q) = IF q = Top.q THEN {f} ELSE CallsOn(stack, q)
        /\ CallsOn(stack, Top.q) = {Top}
    <2>1. f.q = stack[1].q /\ Top = stack[1]
      BY DEF Top
    <2>2. /\ \A q : CallsOn([stack EXCEPT ![1] = f], q) = IF q = f.q THEN {f} ELSE CallsOn(stack, q)
          /\ CallsOn(stack, f.q) = {stack[1]}
      BY <1>1, <2>1, SwapCalls, Zenon
    <2> QED
      BY <2>1, <2>2, Zenon
  <1>5. stack' # <<>>
    BY <1>2
  <1> QED
    BY <1>3, <1>4, <1>5, SameNet, Zenon DEF Calls

\* The innermost call returns; with a packet of a TAP it is the only one.
LEMMA PopSender ==
    ASSUME Inv, NestInv, Two, net' = net, stack # <<>>, stack' = Tail(stack)
    PROVE  /\ NestInv'
           /\ \A s \in Clients : /\ Calls(s)' = IF QueueTo(s) = Top.q THEN {} ELSE Calls(s)
                                 /\ QueueTo(s) = Top.q => Calls(s) = {Top}
                                 /\ QueueTo(s) = Top.q /\ s \in Taps => stack' = <<>>
  <1>1. stack \in Seq(Frame) /\ \A i, j \in DOMAIN stack : stack[i].q = stack[j].q => i = j
    BY DEF Inv, TypeOK, StackInv
  <1>2. /\ stack' \in Seq(Frame) /\ Len(stack) \in Nat /\ Len(stack) > 0
        /\ DOMAIN stack = 1 .. Len(stack) /\ Len(stack') = Len(stack) - 1
        /\ DOMAIN stack' = 1 .. Len(stack) - 1
        /\ \A i \in 1 .. Len(stack) - 1 : stack'[i] = stack[i + 1]
    BY <1>1, Popped
  <1>3. NestInv'
    <2>1. \A i \in DOMAIN stack' : i + 1 \in DOMAIN stack /\ i + 1 # 1 /\ stack'[i] = stack[i + 1]
      BY <1>2
    <2> QED
      BY <2>1, SameNet DEF NestInv
  <1>4. /\ \A q : CallsOn(stack', q) = IF q = Top.q THEN {} ELSE CallsOn(stack, q)
        /\ CallsOn(stack, Top.q) = {Top}
    BY <1>1, PopCalls DEF Top
  <1>5. ASSUME NEW s \in Taps, QueueTo(s) = Top.q PROVE stack' = <<>>
    <2>1. SUFFICES ASSUME stack' # <<>> PROVE FALSE
      OBVIOUS
    <2>2. Len(stack') # 0
      BY <1>2, <2>1, EmptySeq
    <2>3. 1 \in DOMAIN stack /\ 2 \in DOMAIN stack
      BY <1>2, <2>2
    <2>4. stack[2].q = QueueFrom(User) /\ stack[2].q # Top.q
      BY <1>1, <2>3 DEF NestInv, Top
    <2>5. net \in Networks /\ s \in Clients /\ s # User /\ stack[2].q \in Queues
      <3>1. stack[2] \in Frame
        BY <1>1, <1>2, <2>3, ElementOfSeq
      <3>2. s \in Clients /\ s \in Tap /\ User \notin Tap
        BY NetAssumption DEF Taps
      <3> QED
        BY <3>1, <3>2, Zenon DEF Frame, Inv, TypeOK
    <2>6. CASE net.vlan
      BY <1>5, <2>4, <2>6 DEF QueueTo, QueueFrom
    <2>7. CASE ~net.vlan
      <3>1. User \in Clients
        BY <2>4, <2>5, <2>7 DEF QueueFrom, Queues
      <3>2. User = Peer(s)
        BY <2>5, <3>1, TwoFacts
      <3> QED
        BY <1>5, <2>4, <2>7, <3>2 DEF QueueFrom, QueueTo
    <2> QED
      BY <2>6, <2>7
  <1> QED
    BY <1>3, <1>4, <1>5, SameNet DEF Calls

\* A call is made, on a queue no other is working on.
LEMMA PushSender ==
    ASSUME Inv, NestInv, net' = net, NEW f \in Frame, stack' = <<f>> \o stack,
           \A i \in DOMAIN stack : stack[i].q # f.q,
           stack # <<>> => Top.q = QueueFrom(User)
    PROVE  /\ NestInv' /\ stack' # <<>>
           /\ \A s \in Clients : /\ Calls(s)' = IF QueueTo(s) = f.q THEN {f} ELSE Calls(s)
                                 /\ QueueTo(s) = f.q => Calls(s) = {}
  <1>1. stack \in Seq(Frame)
    BY DEF Inv, TypeOK
  <1>2. /\ Len(stack) \in Nat /\ DOMAIN stack = 1 .. Len(stack) /\ DOMAIN stack' = 1 .. Len(stack) + 1
        /\ \A i \in 1 .. Len(stack) : stack'[i + 1] = stack[i]
    BY <1>1, Pushed
  <1>3. NestInv'
    <2>1. SUFFICES ASSUME NEW i \in DOMAIN stack', i # 1 PROVE stack'[i].q = QueueFrom(User)
      BY SameNet DEF NestInv
    <2>2. i - 1 \in DOMAIN stack /\ stack'[i] = stack[i - 1]
      <3>1. i - 1 \in 1 .. Len(stack) /\ (i - 1) + 1 = i
        BY <1>2, <2>1
      <3> QED
        BY <1>2, <3>1
    <2>3. CASE i - 1 = 1
      <3>1. stack # <<>>
        BY <2>2
      <3> QED
        BY <2>2, <2>3, <3>1 DEF Top
    <2>4. CASE i - 1 # 1
      BY <2>2, <2>4 DEF NestInv
    <2> QED
      BY <2>3, <2>4
  <1>4. /\ \A q : CallsOn(stack', q) = IF q = f.q THEN {f} ELSE CallsOn(stack, q)
        /\ CallsOn(stack, f.q) = {}
    <2>1. /\ \A q : CallsOn(<<f>> \o stack, q) = IF q = f.q THEN {f} ELSE CallsOn(stack, q)
          /\ CallsOn(stack, f.q) = {}
      BY <1>1, PushCalls, Zenon
    <2> QED
      BY <2>1, Zenon
  <1>5. stack' # <<>>
    BY <1>2
  <1> QED
    BY <1>3, <1>4, <1>5, SameNet, Zenon DEF Calls

\* The calls do not change.
LEMMA SameCalls ==
    ASSUME NestInv, net' = net, stack' = stack
    PROVE  NestInv' /\ \A s : Calls(s)' = Calls(s)
  BY SameNet DEF NestInv, Calls

\* Without a call nothing is being delivered.
LEMMA NoCalls == ASSUME stack = <<>>, NEW s PROVE Calls(s) = {}
  BY DEF Calls, CallsOn

-----------------------------------------------------------------------------
(* The inductive invariant of NetQueueOrder *)

\* A call with the frame f is delivering a packet of s.
Carries(f, s) == f.p # NoOne /\ f.p.from = s

\* The client it is for has neither taken nor refused it yet.
Unseen(f) == f.todo # <<>> \/ f.ret = "zero"

\* What the other client has taken or refused of s.
Got(s) == seen[Peer(s)][s]

\* A call offers a packet to the other client, which has answered 0 only if it
\* is a TAP that cannot write.
Offers(s) ==
    \A f \in Calls(s) : Carries(f, s) =>
        /\ f.todo # <<>> => f.todo = <<Peer(s)>> /\ f.ret = "err" /\ (net.vlan => Peer(s) \in alive)
        /\ f.ret = "zero" => Peer(s) \in Taps /\ receive_disabled[Peer(s)] /\ ~link_down[Peer(s)]

\* Packets are numbered as they are sent.  One that is flushed is older than
\* those in the queue, one that is being sent is the newest.
Numbers(s) ==
    /\ Got(s) <= sent[s]
    /\ \A n \in Ids(s) : n <= sent[s]
    /\ \A f \in Calls(s) : Carries(f, s) =>
          /\ f.p.id <= sent[s]
          /\ f.flush => \A n \in Ids(s) : f.p.id < n
          /\ ~f.flush => f.p.id = sent[s] /\ \A n \in Ids(s) : n < f.p.id

\* A TAP has stopped reading, or is about to.
Halted(s) ==
    \/ ~read_poll[s] /\ reader # s
    \/ reader = s /\ stack = <<>> /\ size = "zero"

\* A TAP with a packet in the queue, or in a call that flushes it, does not read
\* a second one.
Single(s) ==
    s \in Taps =>
        /\ Ids(s) # {} => Halted(s)
        /\ \A m, n \in Ids(s) : m = n
        /\ \A f \in Calls(s) : Carries(f, s) =>
              Ids(s) = {} /\ IF f.flush THEN Halted(s) ELSE reader = s

\* The packets of any other client are queued only for a TAP that cannot write,
\* or during a call that will flush them.
Blocked(s) ==
    s \notin Taps /\ Ids(s) # {} =>
        /\ Calls(s) = {} => receive_disabled[Peer(s)]
        /\ \A f \in Calls(s) : ~f.flush /\ Carries(f, s) /\ Unseen(f) => receive_disabled[Peer(s)]

\* With its link down a client drops the packet that is being sent before those
\* in the queue, which the same call will then drop as well.
Drains(s) ==
    /\ link_down[Peer(s)] /\ s \notin Taps
    /\ \E f \in Calls(s) : f.flush \/ ~Unseen(f)

\* Nothing is on its way that the other client has seen.
Fresh(s) ==
    /\ \A n \in Ids(s) : n > Got(s)
    /\ \A f \in Calls(s) : Carries(f, s) /\ Unseen(f) => f.p.id > Got(s)

\* Whatever it has not seen is on its way.
Pending(s) ==
    \A n \in Got(s) + 1 .. sent[s] :
        n \in Ids(s) \/ \E f \in Calls(s) : Carries(f, s) /\ Unseen(f) /\ f.p.id = n

Ordered(s) ==
    s \in alive /\ (net.vlan => Peer(s) \in alive) => (Drains(s) \/ Fresh(s)) /\ Pending(s)

SenderInv(s) == Offers(s) /\ Numbers(s) /\ Single(s) /\ Blocked(s) /\ Ordered(s)

OrderInv == Two => NestInv /\ SortInv /\ \A s \in Clients : SenderInv(s)

-----------------------------------------------------------------------------
(* One client *)

\* The numbers are numbers, and a packet of s is on the queue s sends to.
LEMMA SenderTypes ==
    ASSUME Inv, Two, NEW s \in Clients
    PROVE  /\ Got(s) \in Nat /\ sent[s] \in Nat /\ Ids(s) \subseteq Nat
           /\ Calls(s) \subseteq Frame /\ \A f \in Calls(s) : f.q = QueueTo(s)
           /\ \A f \in Calls(s) : Carries(f, s) => f.p \in Packet /\ f.p.id \in Nat /\ s \in alive
  <1>1. /\ net \in Networks /\ queue \in [Queues -> Seq(Packet)] /\ stack \in Seq(Frame)
        /\ sent \in [Clients -> 0 .. Max] /\ seen \in [Clients -> [Clients -> 0 .. Max]]
    BY DEF Inv, TypeOK
  <1>2. Max \in Nat /\ QueueTo(s) \in Queues
    BY <1>1, NetFacts
  <1>3. Peer(s) \in Clients
    BY <1>1, TwoFacts
  <1>4. Got(s) \in Nat /\ sent[s] \in Nat
    BY <1>1, <1>2, <1>3 DEF Got
  <1>5. \A p \in Packet : p.id \in Nat
    BY <1>2 DEF Packet
  <1>6. Ids(s) \subseteq Nat
    <2>1. queue[QueueTo(s)] \in Seq(Packet)
      BY <1>1, <1>2
    <2>2. \A i \in DOMAIN queue[QueueTo(s)] : queue[QueueTo(s)][i] \in Packet
      BY <2>1, ElementOfSeq, LenProperties
    <2> QED
      BY <1>5, <2>2 DEF Ids, IdsIn
  <1>7. \A i \in DOMAIN stack : stack[i] \in Frame
    BY <1>1, ElementOfSeq, LenProperties
  <1>8. Calls(s) \subseteq Frame /\ \A f \in Calls(s) : f.q = QueueTo(s)
    BY <1>7 DEF Calls, CallsOn
  <1>9. ASSUME NEW f \in Calls(s), Carries(f, s) PROVE f.p \in Packet /\ f.p.id \in Nat /\ s \in alive
    <2>1. PICK i \in DOMAIN stack : f = stack[i]
      BY DEF Calls, CallsOn
    <2>2. f.p # NoOne /\ f.p.from = s /\ Owned(f.p, f.q)
      BY <1>9, <2>1 DEF Carries, Inv, OwnerInv
    <2>3. f.p \in Packet
      BY <1>8, <2>2 DEF Frame
    <2> QED
      BY <1>5, <2>2, <2>3 DEF Owned
  <1> QED
    BY <1>4, <1>6, <1>8, <1>9

\* Nothing that concerns s happens.
LEMMA Unmoved ==
    ASSUME net' = net, NEW s \in Clients, SenderInv(s),
           Ids(s)' = Ids(s), Got(s)' = Got(s), sent'[s] = sent[s],
           receive_disabled'[Peer(s)] = receive_disabled[Peer(s)],
           \/ alive' = alive /\ link_down' = link_down /\ (reader = s => reader' = s)
           \/ alive' \subseteq alive /\ Calls(s) = {},
           \A f : Carries(f, s) => (f \in Calls(s)' <=> f \in Calls(s)),
           Calls(s)' = {} => Calls(s) = {} \/ s \in Taps \/ Ids(s) = {},
           Drains(s) => Drains(s)' \/ (Ids(s) = {} /\ \A f \in Calls(s) : ~Carries(f, s)),
           s \in Taps /\ Halted(s) => Halted(s)'
    PROVE  SenderInv(s)'
  <1>1. Peer(s)' = Peer(s) /\ Taps' = Taps
    BY SameTwo, SameNet, Zenon
  <1>2. Offers(s)'
    BY <1>1, Zenon DEF SenderInv, Offers, Carries
  <1>3. Numbers(s)'
    BY <1>1, Zenon DEF SenderInv, Numbers, Carries
  <1>4. Single(s)'
    BY <1>1, Zenon DEF SenderInv, Single, Carries
  <1>5. Blocked(s)'
    BY <1>1, Zenon DEF SenderInv, Blocked, Carries, Unseen
  <1>6. Ordered(s)'
    <2>1. SUFFICES ASSUME s \in alive', net.vlan => Peer(s) \in alive' PROVE (Drains(s) \/ Fresh(s))' /\ Pending(s)'
      BY <1>1, Zenon DEF Ordered
    <2>2. (Drains(s) \/ Fresh(s)) /\ Pending(s)
      BY <2>1, Zenon DEF SenderInv, Ordered
    <2>3. Pending(s)'
      BY <1>1, <2>2, Zenon DEF Pending, Carries, Unseen
    <2>4. Fresh(s) => Fresh(s)'
      BY <1>1, Zenon DEF Fresh, Carries, Unseen
    <2>5. Drains(s) => Drains(s)' \/ Fresh(s)'
      BY <1>1, Zenon DEF Fresh, Carries, Unseen
    <2> QED
      BY <2>2, <2>3, <2>4, <2>5, Zenon
  <1> QED
    BY <1>2, <1>3, <1>4, <1>5, <1>6, Zenon DEF SenderInv

\* A call changes that has nothing to do with s.
LEMMA SwapOther ==
    ASSUME net' = net, UNCHANGED <<alive, link_down, reader>>, stack # <<>>, NEW s \in Clients,
           SenderInv(s), Ids(s)' = Ids(s), Got(s)' = Got(s), sent'[s] = sent[s],
           receive_disabled'[Peer(s)] = receive_disabled[Peer(s)],
           s \in Taps => read_poll'[s] = read_poll[s], NEW f,
           Calls(s)' = IF QueueTo(s) = Top.q THEN {f} ELSE Calls(s),
           QueueTo(s) = Top.q => Calls(s) = {Top},
           ~Carries(Top, s), ~Carries(f, s),
           Top.flush \/ ~Unseen(Top) => f.flush \/ ~Unseen(f)
    PROVE  SenderInv(s)'
  <1>1. \A g : Carries(g, s) => (g \in Calls(s)' <=> g \in Calls(s))
    BY Zenon
  <1>2. Calls(s)' = {} => Calls(s) = {}
    OBVIOUS
  <1>3. Drains(s) => Drains(s)'
    BY SameTwo, SameNet, Zenon DEF Drains, Unseen
  <1>4. s \in Taps /\ Halted(s) => Halted(s)'
    BY DEF Halted
  <1> QED
    BY <1>1, <1>2, <1>3, <1>4, Unmoved, Zenon

\* A call returns that has nothing to do with s.
LEMMA PopOther ==
    ASSUME net' = net, UNCHANGED <<alive, link_down, reader, read_poll>>, stack # <<>>,
           NEW s \in Clients, SenderInv(s), Ids(s)' = Ids(s), Got(s)' = Got(s), sent'[s] = sent[s],
           receive_disabled'[Peer(s)] = receive_disabled[Peer(s)],
           Calls(s)' = IF QueueTo(s) = Top.q THEN {} ELSE Calls(s),
           QueueTo(s) = Top.q => Calls(s) = {Top} /\ (s \in Taps \/ Ids(s) = {}),
           ~Carries(Top, s)
    PROVE  SenderInv(s)'
  <1>1. \A g : Carries(g, s) => (g \in Calls(s)' <=> g \in Calls(s))
    OBVIOUS
  <1>2. Calls(s)' = {} => Calls(s) = {} \/ s \in Taps \/ Ids(s) = {}
    OBVIOUS
  <1>3. Drains(s) => Drains(s)' \/ (Ids(s) = {} /\ \A g \in Calls(s) : ~Carries(g, s))
    BY SameTwo, SameNet, Zenon DEF Drains, Unseen
  <1>4. s \in Taps /\ Halted(s) => Halted(s)'
    BY DEF Halted
  <1> QED
    BY <1>1, <1>2, <1>3, <1>4, Unmoved, Zenon

\* A call is made that has nothing to do with s.
LEMMA PushOther ==
    ASSUME net' = net, UNCHANGED <<alive, link_down>>, NEW s \in Clients, SenderInv(s),
           Ids(s)' = Ids(s), Got(s)' = Got(s), sent'[s] = sent[s],
           receive_disabled'[Peer(s)] = receive_disabled[Peer(s)], NEW f,
           Calls(s)' = IF QueueTo(s) = f.q THEN {f} ELSE Calls(s),
           QueueTo(s) = f.q => Calls(s) = {}, ~Carries(f, s),
           reader = s => reader' = s, s \in Taps /\ Halted(s) => Halted(s)'
    PROVE  SenderInv(s)'
  <1>1. \A g : Carries(g, s) => (g \in Calls(s)' <=> g \in Calls(s))
    OBVIOUS
  <1>2. Calls(s)' = {} => Calls(s) = {}
    OBVIOUS
  <1>3. Drains(s) => Drains(s)'
    BY SameTwo, SameNet, Zenon DEF Drains, Unseen
  <1> QED
    BY <1>1, <1>2, <1>3, Unmoved, Zenon

\* The client whose packet the innermost call delivers.
LEMMA TopSender ==
    ASSUME Inv, Two, stack # <<>>, Top.p # NoOne
    PROVE  \E a \in Clients :
              /\ a = Top.p.from /\ QueueTo(a) = Top.q /\ Carries(Top, a) /\ a \in alive
              /\ Calls(a) = {Top} /\ Top.p \in Packet /\ Top.p.id \in Nat
              /\ Peer(a) \in Clients /\ Peer(a) # a /\ Peer(Peer(a)) = a /\ ~Carries(Top, Peer(a))
              /\ \A s \in Clients : s = a \/ s = Peer(a)
  <1>1. Top.p \in Packet /\ Top.q \in Queues /\ Owned(Top.p, Top.q) /\ stack \in Seq(Frame)
    BY TopType, Zenon DEF Inv, OwnerInv, Top, TypeOK
  <1>2. PICK a \in Clients : a = Top.p.from
    BY <1>1, Zenon DEF Packet
  <1>3. QueueTo(a) = Top.q /\ Carries(Top, a) /\ a \in alive
    BY <1>1, <1>2 DEF Owned, Carries
  <1>4. Calls(a) = {Top}
    <2>1. \A i, j \in DOMAIN stack : stack[i].q = stack[j].q => i = j
      BY DEF Inv, StackInv
    <2> QED
      BY <1>1, <1>3, <2>1, PopCalls, Zenon DEF Calls, Top
  <1>5. Top.p.id \in Nat
    BY <1>3, <1>4, SenderTypes
  <1>6. /\ Peer(a) \in Clients /\ Peer(a) # a /\ Peer(Peer(a)) = a
        /\ \A s \in Clients : s = a \/ s = Peer(a)
    BY TwoFacts DEF Inv, TypeOK
  <1>7. ~Carries(Top, Peer(a))
    BY <1>2, <1>6 DEF Carries
  <1> QED
    BY <1>1, <1>2, <1>3, <1>4, <1>5, <1>6, <1>7

\* A number above the later of two is above both.
LEMMA AboveBoth ==
    ASSUME NEW g \in Nat, NEW k \in Nat, NEW m \in Nat
    PROVE  /\ k > g => \A n \in k + 1 .. m : n \in g + 1 .. m /\ n # k
           /\ ~(k > g) => \A n \in g + 1 .. m : n # k
  OBVIOUS

\* The client takes or refuses the packet, or drops it: it is the next one, or
\* the client's link is down.
LEMMA AnswerSeen ==
    ASSUME Inv, Two, NEW a \in Clients, SenderInv(a), net' = net, UNCHANGED <<alive, link_down, reader>>,
           stack # <<>>, stack' # <<>>, Ids(a)' = Ids(a), sent'[a] = sent[a], receive_disabled' = receive_disabled,
           read_poll' = read_poll, NEW t, Calls(a) = {t}, Carries(t, a), t.todo # <<>>,
           Got(a)' = IF t.p.id > Got(a) THEN t.p.id ELSE Got(a),
           NEW f, Calls(a)' = {f}, f.p = t.p, f.flush = t.flush, f.todo = <<>>, f.ret # "zero",
           link_down[Peer(a)] \/ ~receive_disabled[Peer(a)]
    PROVE  SenderInv(a)'
  <1>1. Peer(a)' = Peer(a) /\ Taps' = Taps
    BY SameTwo, SameNet, Zenon
  <1>2. /\ Got(a) \in Nat /\ sent[a] \in Nat /\ Ids(a) \subseteq Nat /\ t.p.id \in Nat
        /\ Carries(f, a) /\ Unseen(t) /\ ~Unseen(f) /\ Got(a)' \in Nat
    BY SenderTypes, Zenon DEF Carries, Unseen
  <1>3. Offers(a)'
    BY DEF Offers
  <1>4. Numbers(a)'
    BY <1>2, Zenon DEF SenderInv, Numbers
  <1>5. Single(a)'
    BY <1>1, <1>2, Zenon DEF SenderInv, Single, Halted
  <1>6. Blocked(a)'
    BY <1>2 DEF Blocked, Unseen
  <1>7. Ordered(a)'
    <2>1. SUFFICES ASSUME a \in alive, net.vlan => Peer(a) \in alive PROVE (Drains(a) \/ Fresh(a))' /\ Pending(a)'
      BY <1>1, Zenon DEF Ordered
    <2>2. (Drains(a) \/ Fresh(a)) /\ Pending(a)
      BY <2>1, Zenon DEF SenderInv, Ordered
    <2>3. Pending(a)'
      <3>1. SUFFICES ASSUME NEW n \in Got(a)' + 1 .. sent[a] PROVE n \in Ids(a)
        BY DEF Pending
      <3>2. n \in Got(a) + 1 .. sent[a] /\ n # t.p.id
        <4>1. /\ t.p.id > Got(a) =>
                    \A j \in t.p.id + 1 .. sent[a] : j \in Got(a) + 1 .. sent[a] /\ j # t.p.id
              /\ ~(t.p.id > Got(a)) => \A j \in Got(a) + 1 .. sent[a] : j # t.p.id
          BY <1>2, AboveBoth
        <4>2. CASE t.p.id > Got(a)
          <5>1. n \in t.p.id + 1 .. sent[a]
            BY <3>1, <4>2
          <5> QED
            BY <4>1, <4>2, <5>1, Zenon
        <4>3. CASE ~(t.p.id > Got(a))
          <5>1. n \in Got(a) + 1 .. sent[a]
            BY <3>1, <4>3
          <5> QED
            BY <4>1, <4>3, <5>1, Zenon
        <4> QED
          BY <4>2, <4>3, Zenon
      <3> QED
        BY <2>2, <3>2, Zenon DEF Pending
    <2>4. CASE a \in Taps
      <3>1. Ids(a) = {}
        BY <2>4, Zenon DEF SenderInv, Single
      <3> QED
        BY <1>2, <2>3, <3>1, Zenon DEF Fresh, Unseen
    <2>5. CASE a \notin Taps /\ link_down[Peer(a)]
      BY <1>1, <1>2, <2>3, <2>5, Zenon DEF Drains, Unseen
    <2>6. CASE a \notin Taps /\ ~link_down[Peer(a)]
      <3>1. Fresh(a) /\ t.p.id > Got(a)
        BY <1>2, <2>2, <2>6, Zenon DEF Drains, Fresh
      <3>2. \A n \in Ids(a) : t.p.id < n
        <4>1. CASE t.flush
          BY <4>1, Zenon DEF SenderInv, Numbers
        <4>2. CASE ~t.flush
          <5>1. Ids(a) = {}
            BY <1>2, <2>6, <4>2, Zenon DEF SenderInv, Blocked
          <5> QED
            BY <5>1, Zenon
        <4> QED
          BY <4>1, <4>2, Zenon
      <3>3. Fresh(a)'
        BY <1>2, <3>1, <3>2, Zenon DEF Fresh, Unseen
      <3> QED
        BY <2>3, <3>3, Zenon
    <2> QED
      BY <2>4, <2>5, <2>6, Zenon
  <1> QED
    BY <1>3, <1>4, <1>5, <1>6, <1>7, Zenon DEF SenderInv

\* The client is a TAP that cannot write: the packet stays unseen.
LEMMA AnswerZero ==
    ASSUME Inv, Two, NEW a \in Clients, SenderInv(a), net' = net, UNCHANGED <<alive, link_down, reader>>,
           stack # <<>>, stack' # <<>>, Ids(a)' = Ids(a), sent'[a] = sent[a], Got(a)' = Got(a),
           read_poll' = read_poll, NEW t, Calls(a) = {t}, Carries(t, a), t.todo # <<>>,
           NEW f, Calls(a)' = {f}, f.p = t.p, f.flush = t.flush, f.todo = <<>>, f.ret = "zero",
           Peer(a) \in Taps, ~link_down[Peer(a)], receive_disabled'[Peer(a)]
    PROVE  SenderInv(a)'
  <1>1. Peer(a)' = Peer(a) /\ Taps' = Taps
    BY SameTwo, SameNet, Zenon
  <1>2. Carries(f, a) /\ Unseen(t) /\ Unseen(f)
    BY Zenon DEF Carries, Unseen
  <1>3. Offers(a)'
    BY <1>1, Zenon DEF Offers
  <1>4. Numbers(a)'
    BY <1>2, Zenon DEF SenderInv, Numbers
  <1>5. Single(a)'
    BY <1>1, <1>2, Zenon DEF SenderInv, Single, Halted
  <1>6. Blocked(a)'
    BY <1>1, Zenon DEF Blocked
  <1>7. Ordered(a)'
    <2>1. Fresh(a)' <=> Fresh(a)
      BY <1>2, Zenon DEF Fresh, Carries, Unseen
    <2>2. Pending(a)' <=> Pending(a)
      <3>1. Pending(a) <=> \A n \in Got(a) + 1 .. sent[a] : n \in Ids(a) \/ t.p.id = n
        BY <1>2, Zenon DEF Pending
      <3>2. Pending(a)' <=> \A n \in Got(a) + 1 .. sent[a] : n \in Ids(a) \/ t.p.id = n
        BY <1>2, Zenon DEF Pending
      <3> QED
        BY <3>1, <3>2, Zenon
    <2>3. ~Drains(a)
      BY Zenon DEF Drains
    <2> QED
      BY <1>1, <2>1, <2>2, <2>3, Zenon DEF SenderInv, Ordered
  <1> QED
    BY <1>3, <1>4, <1>5, <1>6, <1>7, Zenon DEF SenderInv
=============================================================================
