------------------------------ MODULE NetQueue ------------------------------
(***************************************************************************)
(* How a packet gets from one network client of QEMU to another: the       *)
(* packet queue (net/queue.c), delivery to a VLAN or to a peer (net.c),    *)
(* the TAP backend that stops and resumes polling its descriptor           *)
(* (net/tap.c) and the main loop that calls it (vl.c).                     *)
(*                                                                         *)
(* All of it runs under the global mutex, so a handler is never            *)
(* interrupted; but it calls back into the queue it was called from.  The  *)
(* calls in progress are the frames of stack, the innermost first.  The    *)
(* mutex is free when stack is empty and no tap_send is under way.         *)
(***************************************************************************)
EXTENDS Integers, Sequences, FiniteSets

CONSTANTS
    Tap, Nic, User, \* TAP backends, the e1000 and the user mode stack (slirp)
    NoOne,
    Networks,       \* the configurations, see net
    Room            \* packets a TAP descriptor holds

Known == Tap \cup {Nic, User}

ASSUME NetAssumption ==
    /\ Nic # User /\ {Nic, User} \cap Tap = {} /\ NoOne \notin Known
    /\ NoOne \notin [from : Known, id : Nat, cb : BOOLEAN]
    /\ \A c \in Networks :
          /\ c.order \in Seq(Known) /\ c.vlan \in BOOLEAN /\ c.links \in BOOLEAN
          /\ \A i, j \in DOMAIN c.order : c.order[i] = c.order[j] => i = j
          /\ ~c.vlan => Len(c.order) = 2
          /\ c.removable \subseteq Tap /\ c.max \in Nat \ {0}
    /\ Room \in Nat \ {0}

VARIABLES
    net,            \* how the machine was started, which never changes:
                    \*   order      the clients, in the order of the VLAN's list
                    \*   vlan       on a VLAN, or each the other's peer?
                    \*   removable  the TAP backends that may be removed
                    \*   links      may the monitor take links down and up?
                    \*   max        bound: packets of each sender
    queue,          \* the packets of each queue
    delivering,
    stack,          \* the calls of deliver and flush in progress
    reader, size,   \* the TAP in tap_send, and its variable size
    receive_disabled, link_down,
    alive,          \* the clients not removed
    read_poll, write_poll,
    told,           \* has select() returned?
    rfds, wfds,     \* the descriptors it is asked about, then those it found ready
    room,           \* free places of each TAP descriptor
    wire,           \* packets of the host waiting in it
    left,           \* packets the host has still to send
    en,             \* RCTL.EN of the e1000
    sent,           \* packets each client has handed to its queue
    seen            \* seen[c][s]: packets of s that c took, or that it refused

qvars == <<queue, delivering, stack>>
lvars == <<told, rfds, wfds>>
pvars == <<reader, size, read_poll, write_poll, lvars>>
cvars == <<net, receive_disabled, link_down, alive, en>>
hvars == <<room, wire, left>>
vars == <<qvars, pvars, cvars, hvars, sent, seen>>

-----------------------------------------------------------------------------
Clients == {net.order[i] : i \in DOMAIN net.order}

Taps == Clients \cap Tap

Max == net.max

Peer(c) == CHOOSE d \in Clients : d # c

\* A VLAN has one queue, named NoOne; without one each client has its own.
Queues == IF net.vlan THEN {NoOne} ELSE Clients

QueueTo(s) == IF net.vlan THEN NoOne ELSE Peer(s)

QueueFrom(c) == IF net.vlan THEN NoOne ELSE c

Packet == [from : Clients, id : 1..Max, cb : BOOLEAN]

Sizes == {"err", "zero", "size"}

Frame == [q : Queues, p : Packet \cup {NoOne}, todo : Seq(Clients),
          ret : Sizes, flush : BOOLEAN, val : Sizes]

\* The elements of seq at the positions I, in their order.
At(seq, I) ==
    LET Rank(i) == Cardinality({j \in I : j <= i})
    IN  [k \in 1 .. Cardinality(I) |-> seq[CHOOSE i \in I : Rank(i) = k]]

\* The clients a packet is offered to, in the order they are.
Targets(q, s) ==
    IF net.vlan THEN At(net.order, {i \in DOMAIN net.order : net.order[i] \in alive \ {s}})
                ELSE <<q>>

Init ==
    /\ net \in Networks
    /\ queue = [q \in Queues |-> <<>>]
    /\ delivering = [q \in Queues |-> FALSE]
    /\ stack = <<>>
    /\ reader = NoOne /\ size = "err"
    /\ receive_disabled = [c \in Clients |-> FALSE]
    /\ link_down = [c \in Clients |-> FALSE]
    /\ alive = Clients
    /\ read_poll = [t \in Taps |-> TRUE]
    /\ write_poll = [t \in Taps |-> FALSE]
    /\ told = TRUE /\ rfds = {} /\ wfds = {}
    /\ room = [t \in Taps |-> Room]
    /\ wire = [t \in Taps |-> 0]
    /\ left = [t \in Taps |-> Max]
    /\ en = FALSE
    /\ sent = [c \in Clients |-> 0]
    /\ seen = [c \in Clients |-> [s \in Clients |-> 0]]

Idle == stack = <<>> /\ reader = NoOne

can_receive(c) == c = Nic => en

qemu_can_send_packet(s) ==
    IF net.vlan THEN \E c \in alive \ {s} : can_receive(c)
            ELSE ~receive_disabled[Peer(s)] /\ can_receive(Peer(s))

-----------------------------------------------------------------------------
(* Sending: a step of the client s, with the frames below its call.        *)

Call(q, p, fl, v) ==
    [q |-> q, p |-> p, todo |-> Targets(q, p.from), ret |-> "err",
     flush |-> fl, val |-> v]

Send(s, cb, below) ==
    LET q == QueueTo(s)
        p == [from |-> s, id |-> sent[s] + 1, cb |-> cb]
    IN  IF link_down[s]
        THEN stack' = below /\ size' = "size" /\ UNCHANGED <<queue, delivering, sent>>
        ELSE /\ sent' = [sent EXCEPT ![s] = @ + 1]
             /\ IF delivering[q]
                THEN /\ queue' = [queue EXCEPT ![q] = Append(@, [p EXCEPT !.cb = FALSE])]
                     /\ size' = "size"
                     /\ stack' = below
                     /\ UNCHANGED delivering
                ELSE /\ stack' = <<Call(q, p, FALSE, "err")>> \o below
                     /\ delivering' = [delivering EXCEPT ![q] = TRUE]
                     /\ UNCHANGED <<queue, size>>

-----------------------------------------------------------------------------
(* Delivery: the innermost frame offers its packet to the next client.     *)

Top == stack[1]

Offering == stack # <<>> /\ Top.p # NoOne /\ Top.todo # <<>>

Client == Head(Top.todo)

\* The frames once the client has answered r.
Answered(r) == [stack EXCEPT ![1].todo = Tail(@), ![1].ret = r]

First(len) == IF Top.ret # "err" THEN Top.ret ELSE len

See(c) ==
    seen' = [seen EXCEPT ![c][Top.p.from] = IF Top.p.id > @ THEN Top.p.id ELSE @]

OfferDown ==
    /\ Offering /\ link_down[Client]
    /\ stack' = Answered("size")
    /\ See(Client)
    /\ UNCHANGED <<queue, delivering, pvars, cvars, hvars, sent>>

OfferDisabled ==
    /\ Offering /\ ~link_down[Client] /\ receive_disabled[Client]
    /\ stack' = Answered("zero")
    /\ UNCHANGED <<queue, delivering, pvars, cvars, hvars, sent, seen>>

Receiving(c) == Offering /\ c = Client /\ ~link_down[c] /\ ~receive_disabled[c]

NoWritePoll(t) == write_poll

WritePoll(t) == [write_poll EXCEPT ![t] = TRUE]

\* writev() on the descriptor; that of a removed backend is closed.
tap_receive(t) ==
    /\ Receiving(t)
    /\ IF room[t] > 0 \/ t \notin alive
       THEN /\ room' = [room EXCEPT ![t] = IF t \in alive THEN @ - 1 ELSE @]
            /\ stack' = Answered(First(IF t \in alive THEN "size" ELSE "err"))
            /\ See(t)
            /\ UNCHANGED <<write_poll, receive_disabled>>
       ELSE /\ write_poll' = WritePoll(t)
            /\ receive_disabled' = [receive_disabled EXCEPT ![t] = TRUE]
            /\ stack' = Answered(First("zero"))
            /\ UNCHANGED <<room, seen>>
    /\ UNCHANGED <<queue, delivering, reader, size, read_poll, lvars,
                   net, link_down, alive, en, wire, left, sent>>

\* The e1000 keeps the packet, or is out of descriptors or switched off.
e1000_receive ==
    /\ Receiving(Nic)
    /\ \E r \in {"err"} \cup (IF en THEN {"size"} ELSE {}) : stack' = Answered(First(r))
    /\ See(Nic)
    /\ UNCHANGED <<queue, delivering, pvars, cvars, hvars, sent>>

\* slirp_input may send packets before it returns.
net_slirp_receive ==
    /\ Receiving(User)
    /\ \/ /\ stack' = Answered(First("size"))
          /\ See(User)
          /\ UNCHANGED <<queue, delivering, size, sent>>
       \/ sent[User] < Max /\ Send(User, FALSE, stack) /\ UNCHANGED seen
    /\ UNCHANGED <<reader, read_poll, write_poll, lvars, cvars, hvars>>

-----------------------------------------------------------------------------
(* The end of a delivery, and flushing.                                    *)

Finished == stack # <<>> /\ Top.p # NoOne /\ Top.todo = <<>>

\* The rest of a call that goes on to flush its queue and then returns v.
Flushing(v) ==
    [stack EXCEPT ![1].p = NoOne, ![1].ret = "err", ![1].flush = TRUE, ![1].val = v]

NotDone(q) == delivering

Done(q) == [delivering EXCEPT ![q] = FALSE]

QueuedSilently(p) == [p EXCEPT !.cb = FALSE]

Queued(p) == p

\* qemu_net_queue_send after the delivery.
Sent ==
    /\ Finished /\ ~Top.flush
    /\ delivering' = Done(Top.q)
    /\ IF Top.ret = "zero"
       THEN /\ queue' = [queue EXCEPT ![Top.q] = Append(@, Queued(Top.p))]
            /\ size' = "zero"
            /\ stack' = Tail(stack)
       ELSE /\ stack' = Flushing(Top.ret)
            /\ UNCHANGED <<queue, size>>
    /\ UNCHANGED <<reader, read_poll, write_poll, lvars, cvars, hvars, sent, seen>>

\* One round of the loop of qemu_net_queue_flush begins, or the loop ends.
FlushNext ==
    /\ stack # <<>> /\ Top.p = NoOne
    /\ LET q == Top.q
       IN  IF queue[q] = <<>>
           THEN /\ stack' = Tail(stack)
                /\ size' = Top.val
                /\ UNCHANGED <<queue, delivering>>
           ELSE /\ queue' = [queue EXCEPT ![q] = Tail(@)]
                /\ delivering' = [delivering EXCEPT ![q] = TRUE]
                /\ stack' = [stack EXCEPT ![1] = Call(q, Head(queue[q]), TRUE, Top.val)]
                /\ UNCHANGED size
    /\ UNCHANGED <<reader, read_poll, write_poll, lvars, cvars, hvars, sent, seen>>

\* tap_send_completed, the only callback of these clients.
CompletedSilently(p) == read_poll

Completed(p) == IF p.cb THEN [read_poll EXCEPT ![p.from] = TRUE] ELSE read_poll

PutBackLast(p, packets) == Append(packets, p)

PutBack(p, packets) == <<p>> \o packets

Flushed ==
    /\ Finished /\ Top.flush
    /\ delivering' = Done(Top.q)
    /\ IF Top.ret = "zero"
       THEN /\ queue' = [queue EXCEPT ![Top.q] = PutBack(Top.p, @)]
            /\ stack' = Tail(stack)
            /\ size' = Top.val
            /\ UNCHANGED read_poll
       ELSE /\ stack' = Flushing(Top.val)
            /\ read_poll' = Completed(Top.p)
            /\ UNCHANGED <<queue, size>>
    /\ UNCHANGED <<reader, write_poll, lvars, cvars, hvars, sent, seen>>

-----------------------------------------------------------------------------
(* The callers: the main loop, a processor and the monitor.                *)

\* main_loop_wait chooses what to ask select() about once it has called the
\* handlers of the last round; select() answers without the mutex.  A TAP that
\* reads again after the walk has passed it is called in this round, not the next.
Fill ==
    /\ Idle /\ told
    /\ \A t \in Taps : ~(t \in rfds /\ read_poll[t]) /\ ~(t \in wfds /\ write_poll[t])
    /\ told' = FALSE
    /\ rfds' = {t \in Taps : read_poll[t] /\ qemu_can_send_packet(t)}
    /\ wfds' = {t \in Taps : write_poll[t]}
    /\ UNCHANGED <<qvars, reader, size, read_poll, write_poll, cvars, hvars, sent, seen>>

Select ==
    /\ ~told /\ told' = TRUE
    /\ rfds' = {t \in rfds : wire[t] > 0}
    /\ wfds' = {t \in wfds : room[t] > 0}
    /\ UNCHANGED <<qvars, reader, size, read_poll, write_poll, cvars, hvars, sent, seen>>

tap_read(t) ==
    /\ wire' = [wire EXCEPT ![t] = @ - 1]
    /\ Send(t, TRUE, <<>>)

\* tap_send begins, on what select() said.
TapSend(t) ==
    /\ Idle /\ told /\ t \in rfds /\ read_poll[t]
    /\ rfds' = rfds \ {t}
    /\ reader' = t
    /\ tap_read(t)
    /\ UNCHANGED <<read_poll, write_poll, told, wfds, cvars, room, left, seen>>

\* qemu_send_packet_async has returned to tap_send.
TapSendLoop ==
    /\ stack = <<>> /\ reader # NoOne
    /\ IF size = "size" /\ qemu_can_send_packet(reader) /\ wire[reader] > 0
       THEN tap_read(reader) /\ UNCHANGED <<reader, read_poll>>
       ELSE /\ reader' = NoOne
            /\ read_poll' = [read_poll EXCEPT ![reader] = @ /\ size # "zero"]
            /\ UNCHANGED <<qvars, size, wire, sent>>
    /\ UNCHANGED <<write_poll, lvars, cvars, room, left, seen>>

StillDisabled(t) == receive_disabled

Enabled(t) == [receive_disabled EXCEPT ![t] = FALSE]

TapWritable(t) ==
    /\ Idle /\ told /\ t \in wfds /\ write_poll[t]
    /\ wfds' = wfds \ {t}
    /\ write_poll' = [write_poll EXCEPT ![t] = FALSE]
    /\ receive_disabled' = Enabled(t)
    /\ stack' = <<[q |-> QueueFrom(t), p |-> NoOne, todo |-> <<>>, ret |-> "err",
                   flush |-> TRUE, val |-> "err"]>>
    /\ UNCHANGED <<queue, delivering, reader, size, read_poll, told, rfds,
                   net, link_down, alive, en, hvars, sent, seen>>

\* The guest transmits; the user mode stack sends something of its own.
NicXmit ==
    /\ Idle /\ Nic \in Clients /\ sent[Nic] < Max
    /\ Send(Nic, FALSE, <<>>)
    /\ UNCHANGED <<reader, read_poll, write_poll, lvars, cvars, hvars, seen>>

slirp_output ==
    /\ Idle /\ User \in Clients /\ sent[User] < Max /\ qemu_can_send_packet(User)
    /\ Send(User, FALSE, <<>>)
    /\ UNCHANGED <<reader, read_poll, write_poll, lvars, cvars, hvars, seen>>

set_rx_control ==
    /\ Idle /\ Nic \in Clients
    /\ en' = ~en
    /\ UNCHANGED <<net, qvars, pvars, receive_disabled, link_down, alive, hvars, sent, seen>>

do_set_link(c) ==
    /\ Idle /\ net.links /\ c \in alive
    /\ link_down' = [link_down EXCEPT ![c] = ~@]
    /\ UNCHANGED <<net, qvars, pvars, receive_disabled, alive, en, hvars, sent, seen>>

\* qemu_del_vlan_client of a TAP, tap_cleanup included.
NotPurged(t) == queue

Purged(t) ==
    [queue EXCEPT ![QueueTo(t)] = At(@, {i \in DOMAIN @ : @[i].from # t})]

Remove(t) ==
    /\ Idle /\ t \in net.removable \cap alive
    /\ alive' = alive \ {t}
    /\ queue' = Purged(t)
    /\ link_down' = IF net.vlan THEN link_down ELSE [link_down EXCEPT ![Peer(t)] = TRUE]
    /\ read_poll' = [read_poll EXCEPT ![t] = FALSE]
    /\ write_poll' = [write_poll EXCEPT ![t] = FALSE]
    /\ UNCHANGED <<net, delivering, stack, reader, size, lvars, receive_disabled, en,
                   hvars, sent, seen>>

-----------------------------------------------------------------------------
(* The host's end of a TAP descriptor.                                     *)

HostSends(t) ==
    /\ left[t] > 0
    /\ left' = [left EXCEPT ![t] = @ - 1]
    /\ wire' = [wire EXCEPT ![t] = @ + 1]
    /\ UNCHANGED <<qvars, pvars, cvars, room, sent, seen>>

HostReads(t) ==
    /\ room[t] < Room
    /\ room' = [room EXCEPT ![t] = @ + 1]
    /\ UNCHANGED <<qvars, pvars, cvars, wire, left, sent, seen>>

-----------------------------------------------------------------------------
\* What the thread that holds the mutex does next.
Handler ==
    \/ OfferDown \/ OfferDisabled \/ e1000_receive \/ net_slirp_receive
    \/ Sent \/ FlushNext \/ Flushed \/ TapSendLoop
    \/ \E t \in Taps : tap_receive(t)

MainLoop == Fill \/ Select \/ \E t \in Taps : TapSend(t) \/ TapWritable(t)

Next ==
    \/ Handler \/ MainLoop \/ NicXmit \/ slirp_output \/ set_rx_control
    \/ \E c \in Clients : do_set_link(c)
    \/ \E t \in Taps : Remove(t) \/ HostSends(t) \/ HostReads(t)

Spec == Init /\ [][Next]_vars

\* A handler runs to its end, the main loop gets the mutex again and again, and
\* the host empties the descriptors it is connected to.
FairSpec ==
    /\ Spec /\ WF_vars(Handler) /\ SF_vars(MainLoop)
    /\ \A t \in Tap : WF_vars(t \in Taps /\ HostReads(t))

-----------------------------------------------------------------------------
\* Every variable holds a value of its type, and a queue is being delivered from
\* exactly when a frame is in the middle of a delivery.
TypeOK ==
    /\ net \in Networks
    /\ queue \in [Queues -> Seq(Packet)]
    /\ stack \in Seq(Frame)
    /\ delivering = [q \in Queues |->
                       \E i \in DOMAIN stack : stack[i].q = q /\ stack[i].p # NoOne]
    /\ reader \in Taps \cup {NoOne} /\ size \in Sizes
    /\ receive_disabled \in [Clients -> BOOLEAN] /\ link_down \in [Clients -> BOOLEAN]
    /\ alive \subseteq Clients
    /\ read_poll \in [Taps -> BOOLEAN] /\ write_poll \in [Taps -> BOOLEAN]
    /\ told \in BOOLEAN /\ rfds \subseteq Taps /\ wfds \subseteq Taps
    /\ room \in [Taps -> 0..Room] /\ wire \in [Taps -> 0..Max] /\ left \in [Taps -> 0..Max]
    /\ en \in BOOLEAN
    /\ sent \in [Clients -> 0..Max]
    /\ seen \in [Clients -> [Clients -> 0..Max]]

\* Between two clients qemu_net_queue_send and qemu_net_queue_flush offer a
\* client every packet of the other exactly once and in the order they were
\* sent, however often the client was not ready and whatever it sends itself
\* while it is being called.
InOrder ==
    /\ Cardinality(Clients) = 2
    /\ Offering /\ ~link_down[Client] /\ ~receive_disabled[Client]
    => Top.p.id = seen[Client][Top.p.from] + 1

\* No packet waits in a queue that nobody is going to flush: between two
\* handlers a queue that is not empty has a TAP behind it that could not write
\* and has asked the main loop to be told when it can.  (Of a VLAN this is
\* true as long as no backend is removed from it.)
FlushComes ==
    Idle /\ net.removable = {} => \A q \in Queues : queue[q] # <<>> =>
        \E t \in Taps : QueueFrom(t) = q /\ receive_disabled[t] /\ write_poll[t]

\* A TAP that has stopped reading has a packet queued whose callback will make
\* it read again: tap_read_poll(s, 0) is never left over.
StoppedIsQueued ==
    Idle => \A t \in Taps \cap alive : ~read_poll[t] =>
        \E i \in DOMAIN queue[QueueTo(t)] :
            LET p == queue[QueueTo(t)][i] IN p.from = t /\ p.cb

\* The packets of a removed backend are gone from the queue: no callback is made
\* on freed memory.
NoDanglingCallback ==
    \A q \in Queues : \A i \in DOMAIN queue[q] :
        queue[q][i].cb => queue[q][i].from \in alive

\* Has every client that is still there been offered what the others sent?
AllSeen == \A s, c \in alive : s # c => seen[c][s] = sent[s]

\* Between two clients every packet that was sent is in the end taken or refused
\* by the other, if both are still there: when the senders pause, the queues
\* run empty.
Settled == Cardinality(Clients) = 2 /\ ~AllSeen ~> AllSeen

Stopped(t) == t \in Taps \cap alive /\ ~read_poll[t]

\* A TAP backend that has stopped reading reads again.
ReadsAgain == \A t \in Tap : Stopped(t) ~> ~Stopped(t)

\* ... for certain, if no backend is removed.
KeepsReading == \A t \in Tap : net.removable = {} /\ Stopped(t) ~> ~Stopped(t)
=============================================================================
