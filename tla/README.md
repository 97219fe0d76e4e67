# VirtualFirmware: TLA+ specifications and proofs

The repository lets a Linux guest talk to a firmware that does not exist: the guest's
e1000 driver sends commands through an Admin Queue, QEMU's e1000 device forwards each
one over TCP to a firmware process, and executes it itself when the firmware does not
answer.  This directory specifies that path, and the parts of QEMU the device lives
on: the packet rings of the e1000, the network layer and the disk requests.  The
specifications are checked with TLC on small instances; every safety property but one,
and both refinements, are proved with TLAPS for every value of the constants.

`MC*.tla` and `*.cfg` are TLC instances.  `*Proofs.tla`, `NetQueueWaiting.tla` and
`NetQueueOrder.tla` hold the proofs.  `PROJECT.json` is the index: which definition models which lines,
which run checks what, which theorem states what.  Paths below are relative to `src/`;
`hw/`, `net/` and the files of QEMU without a directory are those of
`qemu-kvm-0.14.1/`.

## 1. The system and its modules

```
 guest                      QEMU                                    firmware process
 driver --ring in memory--> e1000: Admin Queue --senddata/recvdata--> vf_tx
   |    --MMIO (coalesced)->  |    <--------announce / locate------->
   |                          |
   +------packet rings------> e1000: rx, tx <--> packet queue <--> TAP, user stack
                              disk requests <--> thread pool
```

| Part | Source | Module | Proofs |
|---|---|---|---|
| descriptor, execution of a command | `vf_tx/e1000.h`, `vf_tx/vf_tx.c` 103-177, `hw/e1000.c` 315-361 | `AdminDesc` | |
| the driver's queue, the device's registers, coalescing | `patches/`, `hw/e1000.c` 459-502, `kvm-all.c` | `AdminQueue` | `AdminQueueProofs` |
| the exchange with the firmware, its thread, `senddata` and `recvdata` | `hw/e1000.c` 363-457, `vf_tx/vf_tx.c`, `message.c` 537-686 | `AdminChannel` | `AdminChannelProofs` |
| what a tail write promises | `hw/e1000.c` 459-502 | `AqService` (abstract) | |
| `announce`, `locate`, panels | `message.c` 69-535, `panel.c`, in `vf_tx/` and `hw/msg/` | `Discovery` | `DiscoveryProofs` |
| what the two promise together | the same | `Rendezvous` (abstract) | |
| receive ring and interrupt | `hw/e1000.c`: `e1000_receive`, `set_interrupt_cause` and its callers, `set_rdt` | `E1000Rx` | `E1000RxProofs` |
| transmit ring | `hw/e1000.c`: `start_xmit`, `process_tx_desc`, `xmit_seg` | `E1000Tx` | |
| packet queue, VLAN, TAP, main loop | `net/queue.c`, `net.c`, `net/tap.c`, `net/slirp.c`, `vl.c` | `NetQueue` | `NetQueueProofs`, `NetQueueWaiting`, `NetQueueOrder` |
| disk requests | `posix-aio-compat.c`, `aio.c`, `async.c`, `block.c` | `AioPool` | `AioPoolProofs` |

How they compose: `AdminQueue` uses the exchange with the firmware only through what
`AqService` promises, and `AdminChannel` is shown to implement `AqService`.
`AdminChannel` uses discovery only through its outcome (a connection, an expired
select, an error), and `Discovery` is shown to implement `Rendezvous`, which says that
every connection made is served or closed.

### AdminDesc, AqService

The descriptor is a record: the two cookie words are one number, the two address words
one address, the parameter words one field.  Of the flags only DD is kept, since
neither side reads another.  `FwExec` is the firmware's switch followed by DD,
`LocalExec` the device's own; they differ for the heartbeat, which only the firmware
knows, and `Answers` is the set of the two.  `AqService` is one slot and its buffer:
`Post` hands a command over, `Finish` gives it back as a member of `Answers`, the
buffer unchanged.

### AdminChannel

| State | Code |
|---|---|
| `qpc`, `slot`, `buf`, `rdesc`, `fs` | the handler `e1000_set_atq_tail`, the guest's descriptor and buffer, `recv_desc`, `s->fs` |
| `fpc`, `fdesc`, `fbuf`, `mlen`, `dlen`, `echobuf` | `t_0_entry` and its variables |
| `qlen`, `flen` | `m.length` in the current `recvdata` of each end |
| `link`, `c2s`, `s2c` | the TCP connection and the bytes under way in each direction |

`QemuNext` is the handler, one action per call.  `Fallback` is its error label followed
by the device's own switch and the write-back.  `FwNext` is the firmware's loop with
its error paths: a failed receipt of the descriptor goes round the loop, a failed
receipt of the buffer does not stop the command, a failed send ends the thread for
good.  `Break`, `FwCrash` and `FwRestart` are the environment.

Lengths are counted in units of the 8-byte header, and a direction is a sequence of
segments, one per `send()`.  A short read cuts a segment; what is left decodes, read as
a header or as a descriptor, to any member of `GarbageLens` or `Garbage`.  `recvdata`
is two steps, the header and the payload.  The checksum is not in the messages:
`recvdata` only prints a warning when it differs.

### AdminQueue

| State | Code |
|---|---|
| `dpc`, `cmd`, `sent`, `cookie`, `next_to_use` | `e1000_asq_send_command` and its caller |
| `region`, `ring`, `bufs` | the memory of `e1000_alloc_adminq_rings` and `_bufs`; `region` is 0 once freed |
| `mmio` | the ring of coalesced writes |
| `atqba`, `atqlen`, `atqh`, `atqt` | the device's registers (the halves of the address are one) |
| `qpc`, `ddesc`, `dbuf` | `e1000_set_atq_tail` and its copies |

The driver's actions are `Start`, `Fill`, `FillBuf`, `Bump`, `EndPoll`, `Shutdown`; the
device's are `WriteReg`, `TailWrite`, `ReadBuf`, `Serve`, `WriteBuf`, `WriteBack`.
`asq_spinlock` makes the driver one process.

With `Coalesced` a write joins `mmio` and the driver runs on; without it the driver
waits until the device is at rest.  An access to a register outside the coalesced range
leaves the guest until QEMU has emptied the ring of writes.  Every caller of the queue
makes such an access between two commands (the watchdog task ends by writing ICS, and
remove reads registers), so `Fill` after the first command, and `Shutdown`, wait for
`Drained`.  The exception is the command `e1000_init_adminq` sends right after its own
register writes; `Timely` makes that one wait as well.

### Discovery, Rendezvous

| State | Code |
|---|---|
| `opt` | the options of both programs, and which calls may fail |
| `apc`, `ai`, `count`, `hs`, `cs`, `afds`, `sock` | `announce`: its place, loop index, packets sent, panels of each interface, open sockets, the accepted connection |
| `backlog`, `inbox`, `conn` | the kernel's side: connections not yet accepted, datagrams not yet read, the state of each connection |
| `lpc`, `lhs`, `lcs`, `lfds`, `lsock`, `dest`, `tries` | `locate` in each device: place, panels, open sockets, `s->fs`, whom it connects to |
| `expired` | history: the calls whose select expired |

A panel is null, live or freed.  Freeing one twice, or using a null one, is undefined
behaviour and takes the process to `doubleFree` or `nullPanel`, where it crashes.
`opt.faults` names the calls that may fail, each at the place where it is made.
`Announce` is the firmware, `Locate(c)` a device, `Foreign(c)` somebody else's datagram.

`Rendezvous` has a server that takes one client and turns the others away: it neither
serves nor gives up while a client is pending.  The mapping takes the firmware's place
and accepted client to `server` (`Stage`), the state of each connection to `place`.

### E1000Rx

| State | Code |
|---|---|
| `rdh`, `rdt`, `en`, `check_rxov` | RDH, RDT, RCTL.EN and the flag that tells a full ring from an empty one |
| `icr`, `ims`, `line` | the interrupt causes, their mask, the pin |
| `rpc`, `rframe`, `rdesc`, `rdh_start` | `e1000_receive` and its variables |
| `ring`, `mapped`, `mmio` | descriptors with what their buffers hold, the buffers mapped for the device, coalesced writes |
| `gpc`, `ntc`, `ntu`, `gi`, `ai`, `need`, `work`, `cleaned`, `discarding` | the driver (external): interrupt handler, poll, refill |
| `pending` | history: frames stored and not yet cleaned |

`RxRead` and `RxWrite` are one turn of the device's loop; the driver may act between
them.  `Flush` is one coalesced write that arrives.  `Early` lets frames arrive before
the ring is filled, `Snapshots` saves and restores the machine, `MaxFails` bounds the
allocations that fail.  A frame the filter rejects changes nothing and is left out.

### E1000Tx

`tdh`, `tdt`, `en`, `tx` (`struct e1000_tx`) and `left` (what is still to be read of the
buffer) are the device, `ring`, `ntc` and `ntu` the driver's side.  `XmitDesc` is one
turn of `start_xmit`, `XmitSeg` one turn of the loop that cuts a buffer into segments.
A byte is a packet's tag and a position, so that `wire`, what was sent, can be compared
with `owed`, what was posted.  `Worth` says which frames a packet stands for.  The
driver frees buffers as soon as they are written back, while the device is still in the
ring.

### NetQueue

| State | Code |
|---|---|
| `net` | how the machine was started: clients, VLAN or peers, what may be removed |
| `queue`, `delivering`, `stack` | the packet queues, and the calls of deliver and flush in progress, innermost first |
| `reader`, `size` | the TAP in `tap_send` and its variable |
| `receive_disabled`, `link_down`, `alive` | the clients |
| `read_poll`, `write_poll`, `told`, `rfds`, `wfds` | what a TAP wants to be told, what select was asked and has answered |
| `room`, `wire`, `left`, `en` | the host's end of the descriptors, RCTL.EN |
| `sent`, `seen` | packets each client has handed over, and those of another it took or refused |

Everything runs under the global mutex, so the difficulty is not preemption but
re-entrance: `net_slirp_receive` sends while it is being called, `tap_writable` flushes
the queue it was queued on.  The stack makes each call a frame, and each answer of a
client a step.  `Handler` is what the holder of the mutex does next, `MainLoop` the main
loop; the guest, the user stack, the monitor and the host are the other disjuncts.
Between two handlers of one round of the main loop a processor may come in, which the
code does not allow: the model has more behaviours than the program.

### AioPool

| State | Code |
|---|---|
| `request_list`, `cur_threads`, `idle_threads` | the pool |
| `first_aio`, `ret`, `active`, `async_context_id` | the requests not yet released, and their fields |
| `tpc`, `aiocb` | each thread's place and request |
| `sig` | is SIGUSR2 pending? |
| `mode`, `todo`, `victim` | the emulator: its place, the rest of the walk in `posix_aio_process_queue`, the request `paio_cancel` waits for |
| `level`, `bh` | one record per asynchronous context, and its bottom half |

The emulator is one actor, since its threads hold the global mutex in turn; the pool's
threads run beside it.  What is done under the pool's lock is one step, so `paio_submit`
and `Signal` are two.  A thread reads `ev_signo` after it has given up the lock; the
field never changes, so this is not modelled.

## 2. The runs

All twelve are in `PROJECT.json`.  Deadlock is checked in all but `discovery`, whose
processes really stop: the firmware when `announce` has failed, the devices when they
have made their calls.  No run uses symmetry.

| Run | Properties | States |
|---|---|---|
| `channel_driver` | `NoStaleAnswer`, `NoMutualWait`, `Service`, `CommandCompletes` | 34,756 |
| `channel_short` | `TypeOK`, `ResponseFramed` | 958,376 |
| `queue_ring` | `TypeOK`, `CompletionMatches`, `HeadInStep`, `DmaOnRing` | 339,840 |
| `discovery` | `TypeOK`, `NoDoubleFree`, `NoOrphan`, `AnnounceReleases`, `OnlyTimeoutLeaks`, `Rendezvous`, `SomeoneServed`, `LocateEnds` | 156,848 |
| `rx_ring` | `TypeOK`, `NoOverwrite`, `Lossless`, `FrameServed`, `Reopens` | 159,049 |
| `rx_any` | `ReceiveEnds` | 701,643 |
| `tx_ring` | `Faithful`, `Served` | 70,364 |
| `net_queue` | `TypeOK`, `InOrder`, `FlushComes`, `StoppedIsQueued`, `NoDanglingCallback`, `Settled`, `KeepsReading` | 230,522 |
| `aio` | `TypeOK`, `Accounting`, `SomeoneComes`, `WorksOnItsOwn`, `NoLostCompletion`, `NoneLeftBehind`, `Completes` | 144,100 |
| `channel_short_echo` | `EchoReturnsBuffer` | violated |
| `queue_init` | `CompletionMatches` | violated |
| `net_remove` | `ReadsAgain` | violated |

### What the passing runs show

- **The exchange.**  The device compares neither cookie nor opcode of an answer, yet the
  answer it takes is that of its command, because every error closes the socket
  (`NoStaleAnswer`).  With the commands the driver sends, the two ends never both wait in
  `recv()` (`NoMutualWait`).  The exchange keeps the promise of `AqService` (`Service`).
  If QEMU has a timeout, every tail write is served to the end (`CommandCompletes`).  It
  needs one: with `OPT.timeout` 0 the same formula fails, since nobody need ever start
  the firmware and `locate` waits for it.  Zero is what the repository ships.  Even when
  the firmware has lost its place in the stream, the device finds whole messages in the
  other direction (`ResponseFramed`).
- **The queue.**  The device never compares head and tail, and the driver never reads the
  head; the two stay in step all the same (`HeadInStep`).  The device touches only the
  memory the driver has allocated, through shutdown and new start (`DmaOnRing`).  A
  completion is that of the driver's own command, also after one that timed out
  (`CompletionMatches`).
- **Discovery.**  See the properties' names.  `NoDoubleFree` excepts a failure to leave
  the multicast group, `OnlyTimeoutLeaks` says exactly which sockets are lost.
  `SomeoneServed`: the firmware that announces itself without limit ends up serving
  somebody although datagrams get lost; the one excuse is that the select of every call of
  every device expired first.  `LocateEnds`: every call of `locate` returns although the
  firmware may give up at any moment; without a timeout the one that does not is that of
  a device still in select when the firmware announces no more (`Forlorn`).
- **Receiving.**  RDH = RDT means full or empty.  With tails that arrive late and
  refills that fail, a frame is still never stored over another (`NoOverwrite`) and none is
  lost, doubled or overtaken (`Lossless`).  No interrupt is lost between reading ICR,
  masking, polling and unmasking (`FrameServed`).  A full ring raises only RXO, which the
  driver does not enable; the watchdog reopens it (`Reopens`).  `e1000_receive` holds the
  global mutex and comes to an end even on a ring of null descriptors (`ReceiveEnds`).
- **Transmitting.**  What goes out is what was posted, however the packet lies in its
  buffers and whatever was sent before it (`Faithful`), and all of it goes out (`Served`).
- **The network layer.**  See section 3 for the invariants.  `Settled` and `KeepsReading`
  say that nothing is left in a queue and no TAP stays stopped.
- **Disk requests.**  A timeout of a thread and a submission do not miss each other
  (`SomeoneComes`), cancelling waits for the thread (`WorksOnItsOwn`), and although a
  nested wait swallows the signals of the outer ones every request is called back or
  cancelled (`Completes`).

### What the violated ones show

- `queue_init`: the initialisation's tail write executes a descriptor nobody posted.  Its
  late write-back overwrites the first command with an empty descriptor marked done.
  `vf_tx/e1000_qemu.log` shows the extra execution: the first command runs twice.
- `channel_short_echo`: after a short read of the buffer the firmware executes the echo
  with what the buffer happens to hold, and reports success.
- `net_remove`: removing a TAP that could not write purges its own packets and flushes
  nothing.  The packet of another TAP stays on the VLAN's queue, and that TAP does not
  read again until some other client happens to send.

### Observed while modelling

Each of these is a behaviour of a model with other constants, not a run of its own.

- With the default `CONNECT_TIMEOUT` of 0 (`hw/msg/opt.h:52`), and no firmware running,
  `locate` waits for ever (`hw/msg/message.c:480`) and the fallback announced at
  `hw/e1000.c:476` is not reached.  `CommandCompletes` without its hypothesis is violated
  in `channel_driver` with `Timeout = 0`.
- A command with a buffer that is not an echo blocks both ends: the device waits for a
  buffer (`hw/e1000.c:417`) that the firmware does not send (`vf_tx/vf_tx.c:200`).
- If leaving the multicast group fails, `announce` frees the listening panel twice
  (`vf_tx/message.c:380`).  If `socket()` fails, `hw/msg/panel.c:83` binds a null panel.  On
  a host without a usable interface, `vf_tx/message.c:334` uses the first panel all the
  same.
- A frame that arrives before the ring is filled turns the whole ring into completed null
  descriptors (`hw/e1000.c:893`).  A restored machine has forgotten `check_rxov`
  (`hw/e1000.c:1135`) and may overwrite a full ring.
- A segmented packet whose payload is a multiple of the segment size is followed by a
  frame that holds only the header; `Worth` counts it.
- A packet without a callback is queued although its sender goes on sending
  (`net/queue.c:190`, against the comment at line 37).
- On a VLAN of three, a packet can be delivered twice to one client, or lost for one
  (`net.c:469`-`488`): a single return value stands for several receivers.  `InOrder` and
  `Settled` are therefore about two clients.
- `tap_send` goes on for as long as the host supplies packets.
- New requests are put at the head of `first_aio`, and the walk starts again at the head
  after each callback.  Callbacks that keep submitting could starve an old request;
  `MaxChain` bounds them.

### Bounds

- *Commands*: the opcodes the driver sends, the empty descriptor of the initialisation and
  an echo without a buffer, which leaves `echobuf` set; two cookies and two buffer
  contents, as two tell a stale one from a fresh one. A descriptor is four units long and
  a buffer two, so every split into header and rest occurs. Garbage lengths: zero, one
  that fits, one too long. `MaxBacklog` bounds what a firmware that has lost its place
  leaves unread when a new command is posted.
- *Admin Queue*: a ring of four has positions that are neither first nor last, and wraps.
  Two regions: a new start elsewhere.  Cookies are counted modulo five, enough to tell
  apart all commands such a ring still holds.
- *Discovery*: two interfaces and two devices; five settings: no faults and no limit on
  the announcements, with and without a timeout of the devices; every fault but leaving
  the group; that one alone; and two devices whose connections may fail to be accepted.
  Two calls of `locate` are enough for one that follows a failure, an expiry or a success.
- *Receive ring*: five descriptors, refilled two at a time with a budget of three, so that a
  poll is cut off by its budget and a refill by its threshold; four failing allocations can
  leave the ring empty.  `rx_any` needs three descriptors, as `Early` and `Snapshots`
  multiply the states.
- *Transmit ring*: five descriptors; packets of three to five bytes cut into buffers in
  every way, also inside the header; `MaxOwed` bounds the frames of the packets in the
  ring.
- *Network*: six machines, one place in a TAP's descriptor, so it is full after one
  packet, and up to three packets per sender, so that one is delivered, one queued and one
  sent by a client that is being called.
- *Disk*: two requests, one thread at a time of two, contexts two deep.  With `MaxChain`
  0 a callback makes synchronous requests only.  Two threads at a time of three satisfy
  the same properties (1,289,772 states), which takes too long to be a run; the proofs
  are for any number.

### Fairness

A run's liveness rests on these assumptions and no others:

- `AdminChannel`: weak fairness of the QEMU thread and of the firmware process, which a
  preemptive kernel schedules.  `LocateExpires` is a step of QEMU because select does
  return when its timeout is positive.  Nothing is assumed of the guest, the network or
  whoever restarts the firmware.
- `Discovery`: weak fairness of both processes.  Strong fairness of an announcement that
  reaches all listeners (the network does not lose every datagram), of an expiring select
  and of hearing an announcement: foreign datagrams neither stop the timer nor hide an
  announcement for ever, as the receive buffer is a queue.
- `E1000Rx`: `e1000_receive` runs to its end.  Strong fairness of a flush and of the driver:
  who waits for the global mutex gets it between two frames.  `Reopens` adds the watchdog,
  a timer that fires every two seconds; `FrameServed` does not need it.
- `E1000Tx`: `start_xmit` runs to its end, and a transmitter that was disabled is enabled
  again, as `e1000_down` is followed by `e1000_up`.
- `NetQueue`: a handler runs to its end, the main loop gets the mutex again and again
  (strong, since other threads take it in between), and the host empties its descriptors.
- `AioPool`: threads are scheduled and a disk answers; the emulator goes on with what it
  has begun, and a callback comes to its end.  The main loop gets round to the signal and
  to the bottom half (strong, since devices may always do something else first).

## 3. The proofs

Everything listed here holds for every value of the constants that satisfies the
module's named assumption (`ChannelAssumption`, `NetAssumption`, ...), which only gives
the constants their types and keeps the null values apart from the others.  Further
hypotheses are in the table.  Every inductive invariant was first checked by TLC on the
instances of section 2.

| Theorem | Further hypotheses | Property |
|---|---|---|
| `ChannelTypes`, `ResponseFramedHolds` | – | `TypeOK`, `ResponseFramed` |
| `NoStaleAnswerHolds`, `ServiceRefined` | `~ShortReads` | `NoStaleAnswer`, `Service` |
| `NoMutualWaitHolds` | `~ShortReads`, `Balanced` | `NoMutualWait` |
| `QueueTypes`, `HeadStaysInStep`, `DmaStaysOnRing`, `SyncAnsweredAtOnce` | – | `TypeOK`, `HeadInStep`, `DmaOnRing`, `AnsweredAtOnce` |
| `PromptCompletionMatches` | `Prompt` | `CompletionMatches` |
| `DiscoveryTypes`, `DiscoveryNoDoubleFree`, `DiscoveryNoOrphan`, `DiscoveryReleases`, `DiscoveryLeaks`, `DiscoveryImplements` | – | `TypeOK`, `NoDoubleFree`, `NoOrphan`, `AnnounceReleases`, `OnlyTimeoutLeaks`, `Rendezvous` |
| `RxTypesHold`, `RxNoOverwrite`, `RxLosslessHolds` | `~Early`, `~Snapshots` | `TypeOK`, `NoOverwrite`, `Lossless` |
| `PoolTypes`, `PoolAccounting`, `PoolSomeoneComes`, `PoolWorksOnItsOwn`, `PoolNoLostCompletion`, `PoolNoneLeftBehind` | – | `TypeOK`, `Accounting`, `SomeoneComes`, `WorksOnItsOwn`, `NoLostCompletion`, `NoneLeftBehind` |
| `NetTypes`, `NetNoDanglingCallback`, `NetStoppedIsQueued`, `NetFlushComes`, `NetInOrder` | – | `TypeOK`, `NoDanglingCallback`, `StoppedIsQueued`, `FlushComes`, `InOrder` |

### AdminChannelProofs

`NoStaleAnswer` says nothing of the request, so it is not inductive.  `ChannelInv` adds
that while the connection is up the firmware is in one of three phases: `Reading` (what is
under way is the rest of the request), `Answering` (the answer so far) or `Answered`.  In each
phase `c2s` and `s2c` are exact chunks of the four-segment message, from the segment the
reader is at to the one the writer is at.  After the connection breaks only a prefix of
the answer's rest remains.  The refinement follows: a step that brings `qpc` to "idle" is a
`Finish`, one that leaves it a `Post`, and every other step stutters.  With short reads the
statements are false, as `channel_short_echo` shows.

`Balanced` says that exactly the echo commands have a buffer, which is true of the driver's;
`BalancedInv` adds that `echobuf` is set only while an echo is being answered.

`ResponseFramed` needs no hypothesis: the firmware may have lost its place and answer
garbage.  `FrameInv` says that the segments under way are headers and payloads in turn,
that each payload has the length its header announced, and that the parity of the number
of segments tells whether the firmware is between the two.

### AdminQueueProofs

`QueueInv` describes the FIFO of writes pair by pair: which write may follow which
(`FifoInv`), how the first fits the registers and the last the driver (`RegInv`).  Even the
type of the head register needs it, since the head wraps at the length register.
`RingInv` adds the base address.  `PromptInv` follows one command from `Fill` to its
completion.  It needs `Prompt`, that is no coalescing or an initialisation that is over in
time; without it the statement is false (`queue_init`).

### DiscoveryProofs

`DInv` says at each place of `announce` which panels are live (`Panels`), that the open
sockets are those of the live panels and the connection (`Sockets`), that a connection
not yet accepted is in exactly one backlog, once, and that a backlog belongs to an open
socket (`Backlogs`), and for each device which sockets are open at each place of `locate`
(`Devices`).  All four ownership properties are consequences.  For the refinement, closing
sockets is a `TurnAway` of the clients in their backlogs; the loop that closes the last one
takes `server` to "serving", and by `Backlogs` nobody is pending then.

### E1000RxProofs

The ring is circular, so no comparison of two indices means anything by itself.  The
invariant measures every position by its distance from `gi`, the descriptor the driver
looks at next.  Seen from there come, in this order, the head, the tail register, the tails
still in the FIFO, `next_to_use` and the index of the refill (`TailInv`, `RefillInv`);
everything before the last is mapped (`MappedInv`), and what is complete lies before the
head (`HeadInv`).  `HeadInv` also holds the argument about `check_rxov`: head and tail are
equal only when it is set.  `StoredInv` adds that the descriptor at distance k holds the
k-th pending frame.  That there are exactly as many complete descriptors as pending frames
is a bijection between the two, counted with the theorems on finite sets (`RxLossless`).
The hypotheses are real: without them the ring is overwritten (section 2).

### AioPoolProofs

`Accounting` is proved with cardinalities.  `Owned` relates the lists to the threads: a
request on `request_list` is untouched, one a thread works on is active, in progress and
nobody else's.  `Staffed` adds to `SomeoneComes` that there is a thread at all, which
follows from `Accounting`: the signal finds no thread asleep only if one is awake.  `Due`
says that a finished request of the current context is still ahead of the walk or a signal
is on its way, so the walk and the thread cannot miss each other.  `Contexts` says that a
request of a context on top of the first is the one that context waits for.

### NetQueueProofs

`StackInv` says how calls nest: each works on a queue of its own, only the innermost can
be between two packets, and a call that flushes no longer returns 0.  `OwnerInv` says whose
packets are where, and that exactly those of a TAP have a callback.  With the types and
`HostInv`, which bounds the packets of a TAP by what the host has supplied, these are
inductive together (`BaseInv`, theorem `NetBase`); `TypeOK` and `NoDanglingCallback` follow.
The module ends with lemmas about the numbers of the packets in a queue, which
`NetQueueOrder` needs.

### NetQueueWaiting

`StopInv` is the argument about a stopped TAP: it has a packet queued or being flushed, and
one that is about to stop has the packet that `tap_send` has just handed over at the bottom
of the stack.  `FlushInv` says that an answer 0 means a disabled TAP, and that a queue is
left with packets in it only because of one.  Both are inductive only on top of
`BaseInv`; `Inv` is all of them (`NetInvariant`).  The rest of the module is about one
client at a time, its packets (`Ids`), the calls on the queue it sends to (`Calls`) and the
conjuncts of `OrderInv`.

### NetQueueOrder

`InOrder` compares one number, what the other client has seen, with the packet it is offered
next.  `OrderInv` follows each of two senders separately, by the set of its numbers that are
queued (`Ids`) and the call on the queue it sends to (`Calls`: one at the most).
`Numbers` says that a packet that is flushed is older than those queued and one that is
being sent is newer; `Fresh` that nothing on its way has been seen; `Pending` that everything
not seen is on its way.  What makes a sent packet overtake no queued one is different for
the two kinds of sender.  A TAP waits for its packet, so it has at most one (`Single`).
Any other client sends again at once; its packets are queued only while the TAP behind the
queue cannot write, which then answers the new packet with 0 as well, or during a call
that flushes them (`Blocked`).  There is one exception.  With its link down a client takes
and drops every packet, also a new one before those queued; `Drains` says that the call
that gave it the new one is still there and drops the others before it returns.
TLC checked `OrderInv` on ten machines before it was proved.

### Only model-checked

- Liveness under fairness is out of this prover's reach: `CommandCompletes`,
  `SomeoneServed`, `LocateEnds`, `FrameServed`, `Reopens`, `ReceiveEnds`, `Served`, `Settled`,
  `KeepsReading`, `Completes`.
- `Faithful`: the position of a buffer in its packet is a sum over the buffers before it,
  and what is on the wire a concatenation over packets; both are inductions over data.

## 4. Not modelled

- The rest of QEMU: processor emulation, other devices, image formats, display, audio,
  migration.  It is stock code, and by far the largest part of the repository.
- The rest of the Linux driver, and the ThreadX kernel, which runs one thread.
- EEPROM, MDIC and the statistics registers of the e1000, which one thread accesses
  during its probe.
- The socket, vde and dump backends and virtio, which use the packet queue as the TAP does.
- The order in which the words of a descriptor become visible to another processor.
- Logging, error strings, the options parser, the demonstration programs, the checksum.
- The size of QEMU's own buffers: `hw/e1000.c:420` allocates what the command announced and
  receives what the answer does.  Without short reads the two are equal.
- `acb == NULL` in `bdrv_read_em`, which pushes and pops a context around nothing, and the
  branch of `posix_aio_process_queue` for a cancelled request: `paio_cancel` has taken it off
  the list before.
- A peer that disappears without the connection ever being reset: `recvdata` then waits
  for as long as TCP does.
