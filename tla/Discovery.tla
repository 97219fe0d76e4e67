----------------------------- MODULE Discovery ------------------------------
(***************************************************************************)
(* How QEMU finds the firmware: announce() in the firmware process,        *)
(* locate() in each e1000 device, and the panels that own their sockets.   *)
(*                                                                         *)
(* Sockets are named, not numbered: a comparison of two open sockets of    *)
(* one process tells them apart either way.  A panel pointer is null, live *)
(* or freed; handing a freed panel to FreePanel, or using a null one, is   *)
(* undefined behaviour: the process is in "doubleFree" or "nullPanel", and *)
(* crashes.                                                                *)
(* malloc() of a panel does not fail, and the host has at most             *)
(* MAX_IF_LENGTH usable interfaces.                                        *)
(*                                                                         *)
(* Multicast datagrams may be lost, and a receive buffer hands them out in *)
(* any order.  The kernel completes connections into the backlog of a      *)
(* listening socket before accept() is called; closing the socket resets   *)
(* the ones still there.                                                   *)
(***************************************************************************)
EXTENDS Naturals, Sequences, Functions

CONSTANTS
    NumIfs,         \* usable interfaces of the firmware's host
    Clients,        \* the devices that call locate()
    None,           \* INVALID_SOCKET
    Backlog,        \* connections the kernel queues on listen(s, 1)
    Options         \* the settings, see opt

Calls ==
    {"getifaddrs", "hs", "cs", "listen", "sendto", "select", "accept",
     "leave", "join", "socket", "bind", "recvfrom", "connect"}

ASSUME DiscoveryAssumption ==
    /\ NumIfs \in Nat
    /\ None \notin Clients /\ None \notin {"hs", "cs"} \X Nat
    /\ Backlog \in Nat
    /\ Options \subseteq [packets : Nat, timeout : Nat, tries : [Clients -> Nat],
                           faults : SUBSET (Calls \cup {"die"})]

Ifs == 1 .. NumIfs

VARIABLES
    opt,        \* how the processes were started, which never changes:
                \*   packets  OPT.timeout * PACKETS_PER_SEC of the firmware
                \*   timeout  OPT.timeout of QEMU
                \*   tries    bound: the calls of locate() of each device
                \*   faults   what may fail: names of calls, and "die"
    apc,        \* where the firmware process is
    ai,         \* the loop index i of announce(); at the err label, the first
                \*   interface whose socket does not listen
    count,      \* announcements sent, kept only when there is a limit
    hs, cs,     \* ifp[i].hs and ifp[i].cs
    afds,       \* open sockets of the firmware process
    backlog,    \* clients connected to each listening socket, not accepted
    sock,       \* the client whose connection accept() returned
    lpc,        \* where each device is in locate()
    lhs, lcs,   \* hs and cs of locate()
    lfds,       \* open sockets of each device
    lsock,      \* s->fs of each device
    inbox,      \* datagrams in the receive buffer of hs
    dest,       \* the interface locate() connects to
    conn,       \* of each device's last connection, the firmware's end
    tries,      \* calls of locate() so far
    expired     \* history: the calls of locate() whose select() timed out

avars == <<opt, apc, ai, count, hs, cs, afds, sock>>
lvars == <<lpc, lhs, lcs, lfds, lsock, dest, tries, expired>>
vars == <<avars, lvars, backlog, inbox, conn>>

Pointers == {"null", "live", "freed"}
Announcing == {"populate", "build", "listen", "send", "select", "cleanup", "err"}
Crashing == {"doubleFree", "nullPanel"}
APcs == Announcing \cup Crashing \cup {"invalid", "serving", "exited"}
Resting == {"idle", "ok", "nullPanel"}
LPcs == Resting \cup {"hs", "cs", "wait", "connect", "done", "err"}

\* Sockets of the firmware and of one device; the n-th call of locate()
\* opens the n-th pair.
Hs(i) == <<"hs", i>>
Cs(i) == <<"cs", i>>
Accepted(c) == <<"conn", c>>
Lhs(c) == <<"hs", tries[c]>>
Lcs(c) == <<"cs", tries[c]>>

Init ==
    /\ opt \in Options
    /\ apc = "populate" /\ ai = 1 /\ count = 0
    /\ hs = [i \in Ifs |-> "null"] /\ cs = [i \in Ifs |-> "null"]
    /\ afds = {} /\ sock = None
    /\ backlog = [i \in Ifs |-> <<>>]
    /\ lpc = [c \in Clients |-> "idle"]
    /\ lhs = [c \in Clients |-> "null"] /\ lcs = [c \in Clients |-> "null"]
    /\ lfds = [c \in Clients |-> {}] /\ lsock = [c \in Clients |-> None]
    /\ inbox = [c \in Clients |-> {}] /\ dest = [c \in Clients |-> 0]
    /\ conn = [c \in Clients |-> "none"]
    /\ tries = [c \in Clients |-> 0] /\ expired = [c \in Clients |-> {}]

-----------------------------------------------------------------------------
(* announce() *)

\* The kernel's side of closing the sockets in S: queued connections are reset.
Closing(S) ==
    LET shut == {i \in Ifs : Cs(i) \in S}
        lost == UNION {Range(backlog[i]) : i \in shut}
    IN  /\ afds' = afds \ S
        /\ backlog' = [i \in Ifs |-> IF i \in shut THEN <<>> ELSE backlog[i]]
        /\ conn' = [c \in Clients |-> IF c \in lost THEN "reset" ELSE conn[c]]

\* FreePanel on the panel of a socket: what becomes of the pointer.
Freed(p) == IF p = "live" THEN "freed" ELSE p

Goto(pc, i) == apc' = pc /\ ai' = i

\* populateInterfaceData.
Populate ==
    /\ apc = "populate"
    /\ \/ Goto("build", 1)
       \/ "getifaddrs" \in opt.faults /\ Goto("err", 1)
    /\ UNCHANGED <<opt, count, hs, cs, afds, sock, lvars, backlog, inbox, conn>>

\* Build with "i <= ifd_length" for the bound of its loop.
BuildTooFar ==
    /\ apc = "build" /\ ai \in 1 .. NumIfs + 1
    /\ hs' = [hs EXCEPT ![ai] = "live"]
    /\ cs' = [cs EXCEPT ![ai] = "live"]
    /\ afds' = afds \cup {Hs(ai), Cs(ai)}
    /\ Goto("build", ai + 1)
    /\ UNCHANGED <<opt, count, sock, lvars, backlog, inbox, conn>>

\* buildIfPanel: the datagram panel, then the stream panel.  A call may fail
\* before or after socket() has filled its panel.
Build ==
    /\ apc = "build" /\ ai \in Ifs
    /\ \E h, s \in {"null", "live"} :
        /\ hs' = [hs EXCEPT ![ai] = h]
        /\ cs' = [cs EXCEPT ![ai] = s]
        /\ afds' = afds \cup (IF h = "live" THEN {Hs(ai)} ELSE {})
                        \cup (IF s = "live" THEN {Cs(ai)} ELSE {})
        /\ h = "null" => s = "null"
        /\ \/ h = "live" /\ s = "live" /\ Goto("build", ai + 1)
           \/ "hs" \in opt.faults /\ s = "null" /\ Goto("err", 1)
           \/ "cs" \in opt.faults /\ h = "live" /\ Goto("err", 1)
    /\ UNCHANGED <<opt, count, sock, lvars, backlog, inbox, conn>>

Listen ==
    /\ apc = "listen" /\ ai \in Ifs
    /\ \/ Goto("listen", ai + 1)
       \/ "listen" \in opt.faults /\ Goto("err", ai)
    /\ UNCHANGED <<opt, count, hs, cs, afds, sock, lvars, backlog, inbox, conn>>

\* A listening socket accepts connections from its listen() on until it is
\* closed, which on an error is after the err label.
Listening(i) ==
    /\ Cs(i) \in afds
    /\ apc \in {"send", "select", "cleanup"} \/ (apc \in {"listen", "err"} /\ i < ai)

\* The devices that have joined the multicast group.
Joined == {c \in Clients : lpc[c] \in {"cs", "wait", "connect"}}

\* One sendto(); the datagram reaches the devices in got.
SendTo(got) ==
    /\ apc = "send" /\ ai \in Ifs
    /\ inbox' = [c \in Clients |-> inbox[c] \cup (IF c \in got THEN {ai} ELSE {})]
    /\ Goto("send", ai + 1)
    /\ UNCHANGED <<opt, count, hs, cs, afds, sock, lvars, backlog, conn>>

SendFails ==
    /\ apc = "send" /\ ai \in Ifs
    /\ "sendto" \in opt.faults
    /\ Goto("err", NumIfs + 1)
    /\ UNCHANGED <<opt, count, hs, cs, afds, sock, lvars, backlog, inbox, conn>>

\* LoopEnds that falls through to the err label when nobody has connected.
LoopEndsThenErr ==
    /\ ai > NumIfs
    /\ \/ apc = "build" /\ Goto("listen", 1)
       \/ apc = "listen" /\ Goto("send", 1)
       \/ apc = "send" /\ Goto("select", 1)
       \/ apc = "cleanup" /\ Goto(IF sock = None THEN "err" ELSE "serving", 1)
    /\ UNCHANGED <<opt, count, hs, cs, afds, sock, lvars, backlog, inbox, conn>>

\* A loop over the interfaces ends.  The trace message after the last sendto()
\* formats the address of the first panel, which a host without usable
\* interfaces does not have.
LoopEnds ==
    /\ ai > NumIfs
    /\ \/ apc = "build" /\ Goto("listen", 1)
       \/ apc = "listen" /\ Goto("send", 1)
       \/ apc = "send" /\ Goto(IF NumIfs = 0 THEN "nullPanel" ELSE "select", 1)
       \/ apc = "cleanup" /\ Goto(IF sock = None THEN "invalid" ELSE "serving", 1)
    /\ UNCHANGED <<opt, count, hs, cs, afds, sock, lvars, backlog, inbox, conn>>

\* NextPacket without the funny condition.
NextPacketNoZero ==
    /\ count' = IF opt.packets = 0 THEN 0 ELSE count + 1
    /\ Goto(IF count + 1 < opt.packets THEN "send" ELSE "cleanup", 1)

\* The next announcement, or the end of the loop: opt.packets = 0 loops forever.
NextPacket ==
    /\ count' = IF opt.packets = 0 THEN 0 ELSE count + 1
    /\ Goto(IF opt.packets = 0 \/ count + 1 < opt.packets THEN "send" ELSE "cleanup", 1)

Ready == {i \in Ifs : backlog[i] # <<>>}

\* 100 ms pass without a connection.
SelectExpires ==
    /\ apc = "select"
    /\ Ready = {}
    /\ NextPacket
    /\ UNCHANGED <<opt, hs, cs, afds, sock, lvars, backlog, inbox, conn>>

SelectFails ==
    /\ apc = "select"
    /\ "select" \in opt.faults
    /\ Goto("err", NumIfs + 1)
    /\ UNCHANGED <<opt, count, hs, cs, afds, sock, lvars, backlog, inbox, conn>>

\* Accept that goes on announcing after it has a connection.
AcceptNoBreak ==
    /\ apc = "select"
    /\ \E i \in Ready :
        LET c == Head(backlog[i]) IN
        /\ \A j \in Ready : i <= j
        /\ backlog' = [backlog EXCEPT ![i] = Tail(@)]
        /\ sock' = c
        /\ afds' = afds \cup {Accepted(c)}
        /\ conn' = [conn EXCEPT ![c] = "accepted"]
        /\ NextPacket
    /\ UNCHANGED <<opt, hs, cs, lvars, inbox>>

\* accept() on the first interface that is ready.  When it fails the loop goes
\* on; the connection was aborted, or it stays in the backlog (EMFILE).
Accept ==
    /\ apc = "select"
    /\ \E i \in Ready :
        LET c == Head(backlog[i])
            popped == [backlog EXCEPT ![i] = Tail(@)]
        IN
        /\ \A j \in Ready : i <= j
        /\ \/ /\ backlog' = popped
              /\ sock' = c
              /\ afds' = afds \cup {Accepted(c)}
              /\ conn' = [conn EXCEPT ![c] = "accepted"]
              /\ Goto("cleanup", 1)
              /\ UNCHANGED count
           \/ /\ "accept" \in opt.faults
              /\ \/ backlog' = popped /\ conn' = [conn EXCEPT ![c] = "reset"]
                 \/ UNCHANGED <<backlog, conn>>
              /\ NextPacket
              /\ UNCHANGED <<sock, afds>>
    /\ UNCHANGED <<opt, hs, cs, lvars, inbox>>

\* Cleanup that dissociates the listening panel instead of freeing it.
CleanupDissociates ==
    /\ apc = "cleanup" /\ ai \in Ifs
    /\ cs' = [cs EXCEPT ![ai] = Freed(@)]
    /\ hs' = [hs EXCEPT ![ai] = Freed(@)]
    /\ Closing({Hs(ai)})
    /\ Goto("cleanup", ai + 1)
    /\ UNCHANGED <<opt, count, sock, lvars, inbox>>

\* One turn of the loop after the announcements.  The connected socket is
\* never one of the listening ones, so no panel is dissociated.
Cleanup ==
    /\ apc = "cleanup" /\ ai \in Ifs
    /\ cs' = [cs EXCEPT ![ai] = Freed(@)]
    /\ \/ /\ hs' = [hs EXCEPT ![ai] = Freed(@)]
          /\ Closing({Cs(ai), Hs(ai)})
          /\ Goto("cleanup", ai + 1)
       \/ /\ "leave" \in opt.faults
          /\ Closing({Cs(ai)})
          /\ Goto("err", NumIfs + 1)
          /\ UNCHANGED hs
    /\ UNCHANGED <<opt, count, sock, lvars, inbox>>

\* The err label of announce() frees every panel it has a pointer to.
AnnounceErr ==
    /\ apc = "err"
    /\ IF \E i \in Ifs : hs[i] = "freed" \/ cs[i] = "freed"
       THEN Goto("doubleFree", ai)
       ELSE Goto("invalid", ai)
    /\ hs' = [i \in Ifs |-> Freed(hs[i])]
    /\ cs' = [i \in Ifs |-> Freed(cs[i])]
    /\ Closing({Hs(i) : i \in Ifs} \cup {Cs(i) : i \in Ifs})
    /\ UNCHANGED <<opt, count, sock, lvars, inbox>>

\* The process ends: main() returns after announce() has failed, undefined
\* behaviour crashes it, or it is killed.
Exit ==
    /\ \/ apc \in Crashing \cup {"invalid"}
       \/ "die" \in opt.faults /\ apc # "exited"
    /\ Goto("exited", ai)
    /\ afds' = {}
    /\ backlog' = [i \in Ifs |-> <<>>]
    /\ conn' = [c \in Clients |-> IF conn[c] = "none" THEN "none" ELSE "reset"]
    /\ UNCHANGED <<opt, count, hs, cs, sock, lvars, inbox>>

Announce ==
    \/ Populate \/ Build \/ Listen \/ SendFails \/ LoopEnds
    \/ SelectExpires \/ SelectFails \/ Accept \/ Cleanup \/ AnnounceErr
    \/ Exit
    \/ \E got \in SUBSET Joined : SendTo(got)

-----------------------------------------------------------------------------
(* locate(), called by e1000_send_aq_cmd while s->fs is invalid *)

LGoto(c, pc) == lpc' = [lpc EXCEPT ![c] = pc]

LocateCall(c) ==
    /\ lpc[c] = "idle" /\ tries[c] < opt.tries[c]
    /\ tries' = [tries EXCEPT ![c] = @ + 1]
    /\ lhs' = [lhs EXCEPT ![c] = "null"]
    /\ lcs' = [lcs EXCEPT ![c] = "null"]
    /\ inbox' = [inbox EXCEPT ![c] = {}]
    /\ \/ LGoto(c, "hs")
       \/ "getifaddrs" \in opt.faults /\ LGoto(c, "err")
    /\ UNCHANGED <<avars, backlog, conn, lfds, lsock, dest, expired>>

\* The datagram panel: socket, bind, join on every interface.
LocateHs(c) ==
    /\ lpc[c] = "hs"
    /\ \/ /\ lhs' = [lhs EXCEPT ![c] = "live"]
          /\ lfds' = [lfds EXCEPT ![c] = @ \cup {Lhs(c)}]
          /\ \/ LGoto(c, "cs")
             \/ "join" \in opt.faults /\ LGoto(c, "err")
       \/ /\ "hs" \in opt.faults
          /\ LGoto(c, "err")
          /\ UNCHANGED <<lhs, lfds>>
    /\ UNCHANGED <<avars, backlog, inbox, conn, lcs, lsock, dest, tries, expired>>

\* CreateBoundPanel hands the result of CreatePanel to BindPanel unchecked,
\* and frees the panel again when bind() fails.
LocateCs(c) ==
    /\ lpc[c] = "cs"
    /\ \/ /\ lcs' = [lcs EXCEPT ![c] = "live"]
          /\ lfds' = [lfds EXCEPT ![c] = @ \cup {Lcs(c)}]
          /\ LGoto(c, "wait")
       \/ /\ \/ "socket" \in opt.faults /\ LGoto(c, "nullPanel")
             \/ "bind" \in opt.faults /\ LGoto(c, "err")
          /\ UNCHANGED <<lcs, lfds>>
    /\ UNCHANGED <<avars, backlog, inbox, conn, lhs, lsock, dest, tries, expired>>

\* A datagram with another magic number is ignored.
LocateIgnore(c) ==
    /\ lpc[c] = "wait" /\ 0 \in inbox[c]
    /\ inbox' = [inbox EXCEPT ![c] = @ \ {0}]
    /\ UNCHANGED <<avars, lvars, backlog, conn>>

\* An announcement of the firmware: its address is where to connect to.
LocateHear(c) ==
    /\ lpc[c] = "wait"
    /\ \E i \in inbox[c] \ {0} :
        /\ inbox' = [inbox EXCEPT ![c] = @ \ {i}]
        /\ dest' = [dest EXCEPT ![c] = i]
    /\ LGoto(c, "connect")
    /\ UNCHANGED <<avars, backlog, conn, lhs, lcs, lfds, lsock, tries, expired>>

\* LocateExpires that waits on, as announce() does.
LocateExpiresContinue(c) ==
    /\ lpc[c] = "wait"
    /\ opt.timeout > 0 /\ inbox[c] = {}
    /\ UNCHANGED vars

\* select() expires, which it only does with a timeout.
LocateExpires(c) ==
    /\ lpc[c] = "wait"
    /\ opt.timeout > 0 /\ inbox[c] = {}
    /\ expired' = [expired EXCEPT ![c] = @ \cup {tries[c]}]
    /\ LGoto(c, "done")
    /\ UNCHANGED <<avars, backlog, inbox, conn, lhs, lcs, lfds, lsock, dest, tries>>

LocateFails(c) ==
    /\ \/ lpc[c] = "wait" /\ {"select", "recvfrom"} \cap opt.faults # {}
       \/ lpc[c] = "connect" /\ (~Listening(dest[c]) \/ "connect" \in opt.faults)
    /\ LGoto(c, "err")
    /\ UNCHANGED <<avars, backlog, inbox, conn, lhs, lcs, lfds, lsock, dest, tries, expired>>

\* connect() succeeds once the backlog has room.
Connect(c) ==
    /\ lpc[c] = "connect"
    /\ Listening(dest[c])
    /\ Len(backlog[dest[c]]) < Backlog
    /\ backlog' = [backlog EXCEPT ![dest[c]] = Append(@, c)]
    /\ conn' = [conn EXCEPT ![c] = "queued"]
    /\ lsock' = [lsock EXCEPT ![c] = Lcs(c)]
    /\ LGoto(c, "done")
    /\ UNCHANGED <<avars, inbox, lhs, lcs, lfds, dest, tries, expired>>

\* locate() returns: FreePanel(hs), DissociatePanel(cs).
LocateReturn(c) ==
    /\ lpc[c] = "done"
    /\ lhs' = [lhs EXCEPT ![c] = Freed(@)]
    /\ lcs' = [lcs EXCEPT ![c] = Freed(@)]
    /\ lfds' = [lfds EXCEPT ![c] = @ \ {Lhs(c)}]
    /\ LGoto(c, IF lsock[c] = None THEN "idle" ELSE "ok")
    /\ UNCHANGED <<avars, backlog, inbox, conn, lsock, dest, tries, expired>>

\* LocateErr that forgets the stream panel.
LocateErrHsOnly(c) ==
    /\ lpc[c] = "err"
    /\ lhs' = [lhs EXCEPT ![c] = Freed(@)]
    /\ lfds' = [lfds EXCEPT ![c] = @ \ {Lhs(c)}]
    /\ LGoto(c, "idle")
    /\ UNCHANGED <<avars, backlog, inbox, conn, lcs, lsock, dest, tries, expired>>

\* The err label of locate().
LocateErr(c) ==
    /\ lpc[c] = "err"
    /\ lhs' = [lhs EXCEPT ![c] = Freed(@)]
    /\ lcs' = [lcs EXCEPT ![c] = Freed(@)]
    /\ lfds' = [lfds EXCEPT ![c] = @ \ ({Lhs(c), Lcs(c)})]
    /\ LGoto(c, "idle")
    /\ UNCHANGED <<avars, backlog, inbox, conn, lsock, dest, tries, expired>>

\* The err label of e1000_send_aq_cmd, reached once the connection is lost.
CloseSocket(c) ==
    /\ lpc[c] = "ok" /\ conn[c] = "reset"
    /\ lfds' = [lfds EXCEPT ![c] = @ \ {lsock[c]}]
    /\ lsock' = [lsock EXCEPT ![c] = None]
    /\ conn' = [conn EXCEPT ![c] = "none"]
    /\ LGoto(c, "idle")
    /\ UNCHANGED <<avars, backlog, inbox, lhs, lcs, dest, tries, expired>>

Locate(c) ==
    \/ LocateCall(c) \/ LocateHs(c) \/ LocateCs(c) \/ LocateIgnore(c)
    \/ LocateHear(c) \/ LocateExpires(c) \/ LocateFails(c) \/ Connect(c) \/ LocateReturn(c)
    \/ LocateErr(c) \/ CloseSocket(c)

\* Another program announces itself on the same group: a datagram 0.
Foreign(c) ==
    /\ c \in Joined
    /\ inbox' = [inbox EXCEPT ![c] = @ \cup {0}]
    /\ UNCHANGED <<avars, lvars, backlog, conn>>

-----------------------------------------------------------------------------
Next == Announce \/ \E c \in Clients : Locate(c) \/ Foreign(c)

Spec == Init /\ [][Next]_vars

\* Both processes keep running, the network does not lose every datagram, and
\* foreign datagrams neither stop the timer of select() nor hide forever an
\* announcement that has arrived: the receive buffer is a queue.
FairSpec ==
    /\ Spec
    /\ WF_vars(Announce)
    /\ \A c \in Clients : /\ WF_vars(Locate(c))
                           /\ SF_vars(LocateExpires(c))
                           /\ SF_vars(LocateHear(c))
    /\ SF_vars(SendTo(Joined))

-----------------------------------------------------------------------------
(* Properties *)

\* Every variable has its type: no loop of announce() runs past the interfaces
\* populateInterfaceData has found.
TypeOK ==
    /\ opt \in Options
    /\ apc \in APcs /\ ai \in 1 .. NumIfs + 1 /\ count \in Nat
    /\ hs \in [Ifs -> Pointers] /\ cs \in [Ifs -> Pointers]
    /\ backlog \in [Ifs -> Seq(Clients)]
    /\ sock \in Clients \cup {None}
    /\ lpc \in [Clients -> LPcs]
    /\ lhs \in [Clients -> Pointers] /\ lcs \in [Clients -> Pointers]
    /\ inbox \in [Clients -> SUBSET (0 .. NumIfs)]
    /\ dest \in [Clients -> 0 .. NumIfs]
    /\ conn \in [Clients -> {"none", "queued", "accepted", "reset"}]
    /\ lfds \in [Clients -> SUBSET ({"hs", "cs"} \X Nat)]
    /\ lsock \in [Clients -> {None} \cup {"cs"} \X Nat]
    /\ tries \in [Clients -> Nat] /\ expired \in [Clients -> SUBSET Nat]
    /\ \A c \in Clients : tries[c] <= opt.tries[c] /\ expired[c] \subseteq 0 .. tries[c]

\* FreePanel (panel.c) never gets a panel that was freed before, whatever
\* call fails (but leaving the group) and whenever the loops of announce() are
\* left.
NoDoubleFree == "leave" \notin opt.faults => apc # "doubleFree"

\* A connection that locate() made is never left in a backlog nobody will
\* accept from: once announce() has returned, the firmware serves the client
\* or the client's socket is reset, so recvdata does not wait forever.
NoOrphan ==
    apc \in {"serving", "invalid", "exited"} =>
        \A c \in Clients : conn[c] # "queued"

\* Every socket locate() opens is closed again on every path, but for the one
\* it returns, and the stream socket of each call whose select() expired:
\* DissociatePanel gives that one up without closing it.
OnlyTimeoutLeaks ==
    \A c \in Clients :
        /\ lpc[c] = "idle" => lfds[c] = {<<"cs", n>> : n \in expired[c]}
        /\ lpc[c] = "ok" =>
             lfds[c] = {lsock[c]} \cup {<<"cs", n>> : n \in expired[c]}

\* announce() returns with one open socket, the connection it accepted, and
\* when it fails with none.
AnnounceReleases ==
    /\ apc = "serving" => afds = {Accepted(sock)}
    /\ apc = "invalid" => afds = {}

\* What the firmware has promised when it is at pc and has accepted s, and
\* where a device with this connection stands.
Stage(pc, s) == CASE pc \in {"invalid", "exited"} -> "gone"
                  [] pc = "serving" -> "serving"
                  [] OTHER -> IF s = None THEN "open" ELSE "paired"
Place(state) == CASE state = "none" -> "out"
                  [] state = "queued" -> "pending"
                  [] state = "accepted" -> "in"
                  [] state = "reset" -> "dropped"

R == INSTANCE Rendezvous WITH
        server <- Stage(apc, sock),
        place <- [c \in Clients |-> Place(conn[c])]

\* announce() and locate() together keep the promise of Rendezvous.
Rendezvous == R!RSpec

\* Every call of locate() that device c makes was in vain.
OutOfCalls(c) == expired[c] = 1 .. opt.tries[c]

\* With no limit on the announcements ("loop forever if we have a timeout of 0",
\* announce()) and no failing call the firmware ends up serving some device,
\* though any datagram may get lost; the one excuse is that the select() of
\* every call of locate() expired before an announcement got through.
SomeoneServed ==
    opt.packets = 0 /\ opt.faults = {} =>
        <>(apc = "serving" \/ \A c \in Clients : OutOfCalls(c))

\* Nobody waits for device c, nor it for the firmware.
Quiet(c) == lpc[c] \in Resting /\ conn[c] # "queued"

\* A select() without a timeout in a device that nobody announces to.
Forlorn(c) ==
    opt.timeout = 0 /\ lpc[c] = "wait" /\ inbox[c] \subseteq {0} /\ apc \notin Announcing

\* Every call of locate() comes to an end, and every connection it made is
\* accepted or closed by the firmware: once the devices stop calling nobody
\* waits any more.  With a timeout this is so without exception; without one
\* (CONNECT_TIMEOUT, opt.h) the only call that does not return is that of a
\* device that is still in select() when the firmware no longer announces.
LocateEnds ==
    (\E c \in Clients : ~Quiet(c)) ~> (\A c \in Clients : Quiet(c) \/ Forlorn(c))
=============================================================================
