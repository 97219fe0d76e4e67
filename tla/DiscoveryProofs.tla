--------------------------- MODULE DiscoveryProofs ---------------------------
(***************************************************************************)
(* announce() and locate() for any number of interfaces and devices, any   *)
(* settings and any calls that fail: neither loses track of its sockets,   *)
(* nobody waits on a connection that no one will answer, and together they *)
(* implement Rendezvous.                                                   *)
(***************************************************************************)
EXTENDS Discovery, SequenceTheorems, TLAPS

\* What has become of the panels when announce() is at a place: a panel is live
\* between the loop that builds it and the loop or label that frees it.
Panels ==
    /\ apc = "populate" => \A i \in Ifs : hs[i] = "null" /\ cs[i] = "null"
    /\ apc = "build" =>
          \A i \in Ifs : /\ i < ai => hs[i] = "live" /\ cs[i] = "live"
                         /\ i >= ai => hs[i] = "null" /\ cs[i] = "null"
    /\ apc \in {"listen", "send", "select"} =>
          \A i \in Ifs : hs[i] = "live" /\ cs[i] = "live"
    /\ apc = "cleanup" =>
          \A i \in Ifs : /\ i < ai => hs[i] = "freed" /\ cs[i] = "freed"
                         /\ i >= ai => hs[i] = "live" /\ cs[i] = "live"
    /\ apc \in {"serving", "invalid"} =>
          \A i \in Ifs : hs[i] # "live" /\ cs[i] # "live"
    /\ apc = "err" /\ "leave" \notin opt.faults =>
          \A i \in Ifs : hs[i] # "freed" /\ cs[i] # "freed"
    /\ apc = "doubleFree" => "leave" \in opt.faults

\* accept() succeeds at most once, and the label err finds a connection only
\* after a panel was freed.
Partner ==
    /\ sock # None => apc \in {"cleanup", "serving", "err", "doubleFree", "exited"}
    /\ apc = "serving" => sock # None
    /\ apc = "err" /\ sock # None => \E i \in Ifs : hs[i] = "freed" \/ cs[i] = "freed"

\* The firmware's open sockets are those of its live panels, and the connection.
Sockets ==
    /\ \A i \in Ifs : /\ Hs(i) \in afds <=> (hs[i] = "live" /\ apc # "exited")
                      /\ Cs(i) \in afds <=> (cs[i] = "live" /\ apc # "exited")
    /\ \A s \in afds : \/ \E i \in Ifs : s = Hs(i) \/ s = Cs(i)
                       \/ sock # None /\ s = Accepted(sock)
    /\ sock # None /\ apc # "exited" => Accepted(sock) \in afds

\* A connection that is not accepted yet is in exactly one backlog, once.
Waiting(c, i, k) == k \in 1 .. Len(backlog[i]) /\ backlog[i][k] = c

Backlogs ==
    /\ \A c \in Clients : conn[c] = "queued" => \E i \in Ifs : \E k \in Nat : Waiting(c, i, k)
    /\ \A c \in Clients, i \in Ifs, k \in Nat : Waiting(c, i, k) => conn[c] = "queued"
    /\ \A c \in Clients, i, j \in Ifs, k, n \in Nat :
          Waiting(c, i, k) /\ Waiting(c, j, n) => i = j /\ k = n
    /\ \A i \in Ifs : backlog[i] # <<>> => Cs(i) \in afds

\* Who has a connection.
Connected ==
    /\ \A c \in Clients : conn[c] # "none" => lpc[c] \in {"done", "ok"} /\ lsock[c] # None
    /\ \A c \in Clients : conn[c] = "accepted" => sock = c

\* The sockets of a device: what DissociatePanel gave up, and what the call of
\* locate() that is under way has opened.
Leaked(c) == {<<"cs", n>> : n \in expired[c]}

Device(c) ==
    /\ lpc[c] \notin {"done", "ok"} => lsock[c] = None
    /\ lpc[c] \in {"hs", "cs", "wait", "connect", "err", "ok"} => tries[c] \notin expired[c]
    /\ lpc[c] \in {"idle", "hs"} => lfds[c] = Leaked(c)
    /\ lpc[c] = "cs" => lfds[c] = Leaked(c) \cup {Lhs(c)}
    /\ lpc[c] \in {"wait", "connect"} => lfds[c] = Leaked(c) \cup {Lhs(c), Lcs(c)}
    /\ lpc[c] = "err" => /\ Leaked(c) \subseteq lfds[c]
                         /\ lfds[c] \subseteq Leaked(c) \cup {Lhs(c), Lcs(c)}
    /\ lpc[c] = "done" => /\ lfds[c] = Leaked(c) \cup {Lhs(c), Lcs(c)}
                          /\ lsock[c] = None => tries[c] \in expired[c]
                          /\ lsock[c] # None => lsock[c] = Lcs(c) /\ tries[c] \notin expired[c]
    /\ lpc[c] = "ok" => lsock[c] = Lcs(c) /\ lfds[c] = Leaked(c) \cup {Lcs(c)}

Devices == \A c \in Clients : Device(c)

DInv == TypeOK /\ Panels /\ Partner /\ Sockets /\ Backlogs /\ Connected /\ Devices

-----------------------------------------------------------------------------
(* Facts *)

\* Different panels have different sockets.
LEMMA Names ==
    ASSUME NEW i, NEW j
    PROVE  /\ Hs(i) # Cs(j) /\ Hs(i) # Accepted(j) /\ Cs(i) # Accepted(j)
           /\ Hs(i) = Hs(j) => i = j
           /\ Cs(i) = Cs(j) => i = j
           /\ Accepted(i) = Accepted(j) => i = j
  BY DEF Hs, Cs, Accepted

\* The settings are what they are assumed to be.
LEMMA Settings == ASSUME TypeOK PROVE opt.tries \in [Clients -> Nat] /\ opt.packets \in Nat
  BY DiscoveryAssumption DEF TypeOK

\* FreePanel on a pointer.
LEMMA FreedPointers ==
    ASSUME NEW p \in Pointers
    PROVE  /\ Freed(p) \in Pointers /\ Freed(p) # "live"
           /\ p = "live" => Freed(p) = "freed"
           /\ p # "live" => Freed(p) = p
  BY DEF Pointers, Freed

\* Closing listening sockets empties their backlogs.
LEMMA ClosingTypes ==
    ASSUME TypeOK, NEW S, Closing(S)
    PROVE  /\ backlog' \in [Ifs -> Seq(Clients)]
           /\ conn' \in [Clients -> {"none", "queued", "accepted", "reset"}]
           /\ \A i \in Ifs : backlog'[i] = IF Cs(i) \in S THEN <<>> ELSE backlog[i]
           /\ \A i \in Ifs : Cs(i) \notin S => backlog'[i] = backlog[i]
           /\ \A c \in Clients : conn'[c] = conn[c] \/ conn'[c] = "reset"
           /\ afds' = afds \ S
  BY EmptySeq DEF TypeOK, Closing

-----------------------------------------------------------------------------
(* Types *)

\* The steps of announce() keep every variable in its type.
LEMMA AnnounceTypes ==
    ASSUME TypeOK, Announce
    PROVE  TypeOK'
  <1>0. NumIfs \in Nat /\ opt.packets \in Nat
    BY DiscoveryAssumption, Settings
  <1> USE DEF Goto, avars, lvars
  <1>1. ASSUME UNCHANGED <<opt, hs, cs, sock, lvars, backlog, inbox, conn>>,
               apc' \in APcs, ai' \in 1 .. NumIfs + 1, count' \in Nat
        PROVE  TypeOK'
    BY <1>1 DEF TypeOK
  <1>2. ASSUME NEW S, Closing(S), UNCHANGED <<opt, count, sock, lvars, inbox>>,
               apc' \in APcs, ai' \in 1 .. NumIfs + 1,
               hs' \in [Ifs -> Pointers], cs' \in [Ifs -> Pointers]
        PROVE  TypeOK'
    <2>1. /\ backlog' \in [Ifs -> Seq(Clients)]
          /\ conn' \in [Clients -> {"none", "queued", "accepted", "reset"}]
      BY <1>2, ClosingTypes
    <2> QED
      BY <1>2, <2>1 DEF TypeOK
  <1>3. CASE Populate
    BY <1>0, <1>1, <1>3 DEF Populate, TypeOK, APcs, Announcing
  <1>4. CASE Build
    <2>1. /\ UNCHANGED <<opt, count, sock, lvars, backlog, inbox, conn>>
          /\ Goto("build", ai + 1) \/ Goto("err", 1)
          /\ ai \in Ifs
      BY <1>4 DEF Build
    <2>2. apc' \in APcs /\ ai' \in 1 .. NumIfs + 1
      BY <1>0, <2>1 DEF APcs, Announcing, Ifs
    <2>3. PICK h, s \in {"null", "live"} :
             hs' = [hs EXCEPT ![ai] = h] /\ cs' = [cs EXCEPT ![ai] = s]
      BY <1>4 DEF Build
    <2>4. hs' \in [Ifs -> Pointers] /\ cs' \in [Ifs -> Pointers]
      BY <2>3 DEF TypeOK, Pointers
    <2> QED
      BY <2>1, <2>2, <2>4 DEF TypeOK
  <1>5. CASE Listen
    BY <1>0, <1>1, <1>5 DEF Listen, TypeOK, APcs, Announcing, Ifs
  <1>6. CASE SendFails
    BY <1>0, <1>1, <1>6 DEF SendFails, TypeOK, APcs, Announcing
  <1>7. CASE LoopEnds
    BY <1>0, <1>1, <1>7 DEF LoopEnds, TypeOK, APcs, Announcing, Crashing
  <1>8. NextPacket => /\ apc' \in APcs /\ ai' \in 1 .. NumIfs + 1 /\ count' \in Nat
    BY <1>0 DEF NextPacket, TypeOK, APcs, Announcing
  <1>9. CASE SelectExpires
    BY <1>1, <1>8, <1>9 DEF SelectExpires
  <1>10. CASE SelectFails
    BY <1>0, <1>1, <1>10 DEF SelectFails, TypeOK, APcs, Announcing
  <1>11. CASE Accept
    <2>1. PICK i \in Ready :
             LET c == Head(backlog[i]) IN
             /\ backlog' = [backlog EXCEPT ![i] = Tail(@)] \/ backlog' = backlog
             /\ \/ /\ sock' = c /\ conn' = [conn EXCEPT ![c] = "accepted"]
                   /\ Goto("cleanup", 1) /\ UNCHANGED count
                \/ /\ conn' = [conn EXCEPT ![c] = "reset"] \/ conn' = conn
                   /\ NextPacket /\ UNCHANGED sock
      BY <1>11 DEF Accept
    <2>2. i \in Ifs /\ backlog[i] \in Seq(Clients) /\ backlog[i] # <<>>
      BY DEF Ready, TypeOK
    <2>3. Head(backlog[i]) \in Clients /\ Tail(backlog[i]) \in Seq(Clients)
      BY <2>2
    <2>4. backlog' \in [Ifs -> Seq(Clients)]
      BY <2>1, <2>2, <2>3 DEF TypeOK
    <2>5. sock' \in Clients \cup {None}
      BY <2>1, <2>3 DEF TypeOK
    <2>6. conn' \in [Clients -> {"none", "queued", "accepted", "reset"}]
      BY <2>1 DEF TypeOK
    <2>7. apc' \in APcs /\ ai' \in 1 .. NumIfs + 1 /\ count' \in Nat
      <3>1. CASE NextPacket
        BY <1>8, <3>1
      <3>2. CASE Goto("cleanup", 1) /\ UNCHANGED count
        BY <1>0, <3>2 DEF TypeOK, APcs, Announcing
      <3> QED
        BY <2>1, <3>1, <3>2
    <2> QED
      BY <1>11, <2>4, <2>5, <2>6, <2>7 DEF Accept, TypeOK
  <1>12. CASE Cleanup
    <2>1. apc' \in APcs /\ ai' \in 1 .. NumIfs + 1
      BY <1>0, <1>12 DEF Cleanup, TypeOK, APcs, Announcing, Ifs
    <2>2. hs' \in [Ifs -> Pointers] /\ cs' \in [Ifs -> Pointers]
      <3>1. /\ hs \in [Ifs -> Pointers] /\ cs \in [Ifs -> Pointers]
            /\ \A i \in Ifs : Freed(hs[i]) \in Pointers /\ Freed(cs[i]) \in Pointers
        BY FreedPointers DEF TypeOK
      <3>2. /\ cs' = [cs EXCEPT ![ai] = Freed(cs[ai])]
            /\ hs' = [hs EXCEPT ![ai] = Freed(hs[ai])] \/ hs' = hs
            /\ ai \in Ifs
        BY <1>12 DEF Cleanup
      <3> QED
        BY <3>1, <3>2
    <2>3. UNCHANGED <<opt, count, sock, lvars, inbox>>
      BY <1>12 DEF Cleanup
    <2>4. Closing({Cs(ai), Hs(ai)}) \/ Closing({Cs(ai)})
      BY <1>12 DEF Cleanup
    <2> QED
      BY <1>2, <2>1, <2>2, <2>3, <2>4
  <1>13. CASE AnnounceErr
    <2>1. /\ apc' \in APcs /\ ai' \in 1 .. NumIfs + 1
          /\ hs' \in [Ifs -> Pointers] /\ cs' \in [Ifs -> Pointers]
          /\ UNCHANGED <<opt, count, sock, lvars, inbox>>
      BY <1>0, <1>13, FreedPointers DEF AnnounceErr, TypeOK, APcs, Crashing
    <2>2. Closing({Hs(i) : i \in Ifs} \cup {Cs(i) : i \in Ifs})
      BY <1>13 DEF AnnounceErr
    <2> QED
      BY <1>2, <2>1, <2>2
  <1>14. CASE Exit
    <2>1. apc' \in APcs /\ UNCHANGED <<opt, ai, count, hs, cs, sock, lvars, inbox>>
      BY <1>14 DEF Exit, APcs
    <2>2. backlog' \in [Ifs -> Seq(Clients)]
      BY <1>14, EmptySeq DEF Exit
    <2>3. conn' \in [Clients -> {"none", "queued", "accepted", "reset"}]
      BY <1>14 DEF Exit, TypeOK
    <2> QED
      BY <2>1, <2>2, <2>3 DEF TypeOK
  <1>15. ASSUME NEW got, SendTo(got) PROVE TypeOK'
    <2>1. /\ apc' \in APcs /\ ai' \in 1 .. NumIfs + 1
          /\ UNCHANGED <<opt, count, hs, cs, sock, lvars, backlog, conn>>
      BY <1>0, <1>15 DEF SendTo, TypeOK, APcs, Announcing, Ifs
    <2>2. inbox' \in [Clients -> SUBSET (0 .. NumIfs)]
      BY <1>0, <1>15 DEF SendTo, TypeOK, Ifs
    <2> QED
      BY <2>1, <2>2 DEF TypeOK
  <1> QED
    BY <1>3, <1>4, <1>5, <1>6, <1>7, <1>9, <1>10, <1>11, <1>12, <1>13, <1>14, <1>15 DEF Announce

\* The firmware's variables keep their types when only a device moves.
LEMMA DeviceTypes ==
    ASSUME TypeOK, UNCHANGED avars, backlog' \in [Ifs -> Seq(Clients)],
           lpc' \in [Clients -> LPcs],
           lhs' \in [Clients -> Pointers], lcs' \in [Clients -> Pointers],
           inbox' \in [Clients -> SUBSET (0 .. NumIfs)], dest' \in [Clients -> 0 .. NumIfs],
           conn' \in [Clients -> {"none", "queued", "accepted", "reset"}],
           lfds' \in [Clients -> SUBSET ({"hs", "cs"} \X Nat)],
           lsock' \in [Clients -> {None} \cup {"cs"} \X Nat],
           tries' \in [Clients -> Nat], expired' \in [Clients -> SUBSET Nat],
           \A d \in Clients : tries'[d] <= opt.tries[d] /\ expired'[d] \subseteq 0 .. tries'[d]
    PROVE  TypeOK'
  <1>1. UNCHANGED <<opt, apc, ai, count, hs, cs, sock>>
    BY DEF avars
  <1>2. /\ opt' \in Options /\ apc' \in APcs /\ ai' \in 1 .. NumIfs + 1 /\ count' \in Nat
        /\ hs' \in [Ifs -> Pointers] /\ cs' \in [Ifs -> Pointers]
        /\ sock' \in Clients \cup {None}
    BY <1>1 DEF TypeOK
  <1>3. \A d \in Clients : tries'[d] <= opt'.tries[d] /\ expired'[d] \subseteq 0 .. tries'[d]
    BY <1>1
  <1> QED
    BY <1>2, <1>3 DEF TypeOK

\* ... and when nothing moves.
LEMMA SameTypes ==
    ASSUME TypeOK, UNCHANGED avars, UNCHANGED lvars, UNCHANGED <<backlog, inbox, conn>>
    PROVE  TypeOK'
  <1>1. /\ UNCHANGED <<opt, lpc, lhs, lcs, lfds, lsock, dest, tries, expired>>
        /\ UNCHANGED <<backlog, inbox, conn>>
    BY DEF avars, lvars
  <1>2. /\ backlog \in [Ifs -> Seq(Clients)] /\ lpc \in [Clients -> LPcs]
        /\ lhs \in [Clients -> Pointers] /\ lcs \in [Clients -> Pointers]
        /\ inbox \in [Clients -> SUBSET (0 .. NumIfs)] /\ dest \in [Clients -> 0 .. NumIfs]
        /\ conn \in [Clients -> {"none", "queued", "accepted", "reset"}]
        /\ lfds \in [Clients -> SUBSET ({"hs", "cs"} \X Nat)]
        /\ lsock \in [Clients -> {None} \cup {"cs"} \X Nat]
        /\ tries \in [Clients -> Nat] /\ expired \in [Clients -> SUBSET Nat]
        /\ \A d \in Clients : tries[d] <= opt.tries[d] /\ expired[d] \subseteq 0 .. tries[d]
    BY DEF TypeOK
  <1> QED
    BY <1>1, <1>2, DeviceTypes

\* The steps of a device keep every variable in its type.
LEMMA LocateTypes ==
    ASSUME TypeOK, NEW c \in Clients, Locate(c) \/ Foreign(c)
    PROVE  TypeOK'
  <1>0. /\ lpc \in [Clients -> LPcs]
        /\ lhs \in [Clients -> Pointers] /\ lcs \in [Clients -> Pointers]
        /\ inbox \in [Clients -> SUBSET (0 .. NumIfs)] /\ dest \in [Clients -> 0 .. NumIfs]
        /\ conn \in [Clients -> {"none", "queued", "accepted", "reset"}]
        /\ lfds \in [Clients -> SUBSET ({"hs", "cs"} \X Nat)]
        /\ lsock \in [Clients -> {None} \cup {"cs"} \X Nat]
        /\ tries \in [Clients -> Nat] /\ expired \in [Clients -> SUBSET Nat]
        /\ NumIfs \in Nat
    BY DiscoveryAssumption DEF TypeOK
  <1>T. /\ backlog \in [Ifs -> Seq(Clients)]
        /\ \A d \in Clients : tries[d] <= opt.tries[d] /\ expired[d] \subseteq 0 .. tries[d]
    BY DEF TypeOK
  <1>1. Lhs(c) \in {"hs", "cs"} \X Nat /\ Lcs(c) \in {"cs"} \X Nat /\ Lcs(c) \in {"hs", "cs"} \X Nat
    BY <1>0 DEF Lhs, Lcs
  <1>2. {"idle", "ok", "nullPanel", "hs", "cs", "wait", "connect", "done", "err"} \subseteq LPcs
    BY DEF LPcs, Resting
  <1>3. \A p \in {"idle", "ok", "nullPanel", "hs", "cs", "wait", "connect", "done", "err"} :
           LGoto(c, p) => lpc' \in [Clients -> LPcs]
    BY <1>0, <1>2 DEF LGoto
  <1>4. "live" \in Pointers /\ "null" \in Pointers /\ \A p \in Pointers : Freed(p) \in Pointers
    BY FreedPointers DEF Pointers
  <1> USE DEF lvars
  <1>5. CASE LocateCall(c)
    <2>1. /\ lpc' \in [Clients -> LPcs]
          /\ lhs' \in [Clients -> Pointers] /\ lcs' \in [Clients -> Pointers]
          /\ inbox' \in [Clients -> SUBSET (0 .. NumIfs)]
      BY <1>0, <1>3, <1>4, <1>5 DEF LocateCall
    <2>2. /\ tries' = [tries EXCEPT ![c] = @ + 1] /\ tries[c] < opt.tries[c]
          /\ UNCHANGED <<avars, backlog, conn, lfds, lsock, dest, expired>>
      BY <1>5 DEF LocateCall
    <2>3. tries' \in [Clients -> Nat]
      BY <1>0, <2>2
    <2>4. ASSUME NEW d \in Clients PROVE tries'[d] <= opt.tries[d] /\ expired[d] \subseteq 0 .. tries'[d]
      <3>1. tries[d] <= opt.tries[d] /\ expired[d] \subseteq 0 .. tries[d] /\ tries[d] \in Nat
        BY <1>0 DEF TypeOK
      <3>2. CASE d = c
        <4>1. tries'[d] = tries[d] + 1 /\ opt.tries[d] \in Nat
          BY <1>0, <2>2, <3>2, Settings
        <4> QED
          BY <2>2, <3>1, <3>2, <4>1
      <3>3. CASE d # c
        BY <1>0, <2>2, <3>1, <3>3
      <3> QED
        BY <3>2, <3>3
    <2> QED
      BY <1>0, <1>T, <2>1, <2>2, <2>3, <2>4, DeviceTypes
  <1>6. CASE LocateHs(c)
    <2>1. lpc' \in [Clients -> LPcs]
      BY <1>3, <1>6 DEF LocateHs
    <2>2. lhs' \in [Clients -> Pointers]
      BY <1>0, <1>4, <1>6 DEF LocateHs
    <2>3. lfds' \in [Clients -> SUBSET ({"hs", "cs"} \X Nat)]
      <3>1. lfds' = lfds \/ lfds' = [lfds EXCEPT ![c] = @ \cup {Lhs(c)}]
        BY <1>6 DEF LocateHs
      <3>2. lfds[c] \cup {Lhs(c)} \in SUBSET ({"hs", "cs"} \X Nat)
        BY <1>0, <1>1
      <3> QED
        BY <1>0, <3>1, <3>2
    <2>4. UNCHANGED <<avars, backlog, inbox, conn, lcs, lsock, dest, tries, expired>>
      BY <1>6 DEF LocateHs
    <2> QED
      BY <1>0, <1>T, <2>1, <2>2, <2>3, <2>4, DeviceTypes
  <1>7. CASE LocateCs(c)
    <2>1. lpc' \in [Clients -> LPcs]
      BY <1>3, <1>7 DEF LocateCs
    <2>2. lcs' \in [Clients -> Pointers]
      BY <1>0, <1>4, <1>7 DEF LocateCs
    <2>3. lfds' \in [Clients -> SUBSET ({"hs", "cs"} \X Nat)]
      <3>1. lfds' = lfds \/ lfds' = [lfds EXCEPT ![c] = @ \cup {Lcs(c)}]
        BY <1>7 DEF LocateCs
      <3>2. lfds[c] \cup {Lcs(c)} \in SUBSET ({"hs", "cs"} \X Nat)
        BY <1>0, <1>1
      <3> QED
        BY <1>0, <3>1, <3>2
    <2>4. UNCHANGED <<avars, backlog, inbox, conn, lhs, lsock, dest, tries, expired>>
      BY <1>7 DEF LocateCs
    <2> QED
      BY <1>0, <1>T, <2>1, <2>2, <2>3, <2>4, DeviceTypes
  <1>8. CASE LocateIgnore(c) \/ Foreign(c)
    <2>1. inbox' \in [Clients -> SUBSET (0 .. NumIfs)]
      BY <1>0, <1>8 DEF LocateIgnore, Foreign
    <2>2. UNCHANGED <<avars, lvars, backlog, conn>>
      BY <1>8 DEF LocateIgnore, Foreign
    <2> QED
      BY <1>0, <1>T, <2>1, <2>2, DeviceTypes
  <1>9. CASE LocateHear(c)
    <2>1. /\ inbox' \in [Clients -> SUBSET (0 .. NumIfs)] /\ dest' \in [Clients -> 0 .. NumIfs]
          /\ lpc' \in [Clients -> LPcs]
      BY <1>0, <1>3, <1>9 DEF LocateHear
    <2>2. UNCHANGED <<avars, backlog, conn, lhs, lcs, lfds, lsock, tries, expired>>
      BY <1>9 DEF LocateHear
    <2> QED
      BY <1>0, <1>T, <2>1, <2>2, DeviceTypes
  <1>10. CASE LocateExpires(c)
    <2>1. lpc' \in [Clients -> LPcs] /\ expired' \in [Clients -> SUBSET Nat]
      BY <1>0, <1>3, <1>10 DEF LocateExpires
    <2>2. /\ UNCHANGED <<avars, backlog, inbox, conn, lhs, lcs, lfds, lsock, dest, tries>>
          /\ expired' = [expired EXCEPT ![c] = @ \cup {tries[c]}]
          /\ lpc[c] = "wait"
      BY <1>10 DEF LocateExpires
    <2>3. \A d \in Clients : tries[d] <= opt.tries[d] /\ expired'[d] \subseteq 0 .. tries[d]
      BY <1>0, <2>2 DEF TypeOK
    <2> QED
      BY <1>0, <1>T, <2>1, <2>2, <2>3, DeviceTypes
  <1>11. CASE LocateFails(c)
    <2>1. lpc' \in [Clients -> LPcs]
      BY <1>3, <1>11 DEF LocateFails
    <2>2. UNCHANGED <<avars, backlog, inbox, conn, lhs, lcs, lfds, lsock, dest, tries, expired>>
      BY <1>11 DEF LocateFails
    <2> QED
      BY <1>0, <1>T, <2>1, <2>2, DeviceTypes
  <1>12. CASE Connect(c)
    <2>1. /\ Listening(dest[c]) /\ dest[c] \in 0 .. NumIfs
          /\ backlog' = [backlog EXCEPT ![dest[c]] = Append(@, c)]
          /\ UNCHANGED <<avars, inbox, lhs, lcs, lfds, dest, tries, expired>>
      BY <1>0, <1>12 DEF Connect
    <2>2. backlog' \in [Ifs -> Seq(Clients)]
      <3>1. backlog \in [Ifs -> Seq(Clients)]
        BY DEF TypeOK
      <3>2. \A i \in Ifs : Append(backlog[i], c) \in Seq(Clients)
        BY <3>1
      <3> QED
        BY <2>1, <3>1, <3>2
    <2>3. conn' \in [Clients -> {"none", "queued", "accepted", "reset"}]
      BY <1>0, <1>12 DEF Connect
    <2>4. lsock' \in [Clients -> {None} \cup {"cs"} \X Nat]
      BY <1>0, <1>1, <1>12 DEF Connect
    <2>5. lpc' \in [Clients -> LPcs]
      BY <1>3, <1>12 DEF Connect
    <2> QED
      BY <1>0, <1>T, <2>1, <2>2, <2>3, <2>4, <2>5, DeviceTypes
  <1>13. CASE LocateReturn(c) \/ LocateErr(c)
    <2>1. /\ lhs' = [lhs EXCEPT ![c] = Freed(@)] /\ lcs' = [lcs EXCEPT ![c] = Freed(@)]
          /\ lfds' = [lfds EXCEPT ![c] = @ \ {Lhs(c)}] \/ lfds' = [lfds EXCEPT ![c] = @ \ {Lhs(c), Lcs(c)}]
          /\ UNCHANGED <<avars, backlog, inbox, conn, lsock, dest, tries, expired>>
      BY <1>13 DEF LocateReturn, LocateErr
    <2>2. lpc' \in [Clients -> LPcs]
      BY <1>3, <1>13 DEF LocateReturn, LocateErr
    <2>3. lhs' \in [Clients -> Pointers] /\ lcs' \in [Clients -> Pointers]
      BY <1>0, <1>4, <2>1
    <2>4. lfds' \in [Clients -> SUBSET ({"hs", "cs"} \X Nat)]
      <3>1. \A S : lfds[c] \ S \in SUBSET ({"hs", "cs"} \X Nat)
        BY <1>0
      <3>2. \E S : lfds' = [lfds EXCEPT ![c] = @ \ S]
        BY <2>1
      <3> QED
        BY <1>0, <3>1, <3>2
    <2> QED
      BY <1>0, <1>T, <2>1, <2>2, <2>3, <2>4, DeviceTypes
  <1>14. CASE CloseSocket(c)
    <2>1. /\ lpc' \in [Clients -> LPcs]
          /\ lsock' \in [Clients -> {None} \cup {"cs"} \X Nat]
          /\ conn' \in [Clients -> {"none", "queued", "accepted", "reset"}]
      BY <1>0, <1>3, <1>14 DEF CloseSocket
    <2>2. lfds' \in [Clients -> SUBSET ({"hs", "cs"} \X Nat)]
      BY <1>0, <1>14 DEF CloseSocket
    <2>3. UNCHANGED <<avars, backlog, inbox, lhs, lcs, dest, tries, expired>>
      BY <1>14 DEF CloseSocket
    <2> QED
      BY <1>0, <1>T, <2>1, <2>2, <2>3, DeviceTypes
  <1> QED
    BY <1>5, <1>6, <1>7, <1>8, <1>9, <1>10, <1>11, <1>12, <1>13, <1>14 DEF Locate

-----------------------------------------------------------------------------
(* The firmware's panels and sockets *)

\* A panel is freed once, by the loop after the announcements or at the label
\* err; only leaving the group can fail between the two halves of a turn.
LEMMA AnnouncePanels ==
    ASSUME DInv, Announce
    PROVE  Panels'
  <1> USE DEF DInv, Goto
  <1>0. /\ NumIfs \in Nat /\ ai \in Nat /\ \A i \in Ifs : i \in Nat /\ 1 <= i /\ i <= NumIfs
        /\ hs \in [Ifs -> Pointers] /\ cs \in [Ifs -> Pointers]
    BY DiscoveryAssumption DEF TypeOK, Ifs
  <1>1. CASE Populate
    BY <1>0, <1>1 DEF Populate, Panels
  <1>2. CASE Build
    <2>1. PICK h, s \in {"null", "live"} :
             /\ hs' = [hs EXCEPT ![ai] = h] /\ cs' = [cs EXCEPT ![ai] = s]
             /\ (h = "live" /\ s = "live" /\ Goto("build", ai + 1)) \/ Goto("err", 1)
      BY <1>2 DEF Build
    <2>2. /\ \A i \in Ifs : /\ i < ai => hs[i] = "live" /\ cs[i] = "live"
                            /\ i >= ai => hs[i] = "null" /\ cs[i] = "null"
          /\ ai \in Ifs
      BY <1>2 DEF Build, Panels
    <2>3. /\ hs'[ai] = h /\ cs'[ai] = s
          /\ \A i \in Ifs : i # ai => hs'[i] = hs[i] /\ cs'[i] = cs[i]
      BY <1>0, <2>1, <2>2
    <2>4. CASE h = "live" /\ s = "live" /\ Goto("build", ai + 1)
      <3>1. ASSUME NEW i \in Ifs
            PROVE  /\ i < ai + 1 => hs'[i] = "live" /\ cs'[i] = "live"
                   /\ i >= ai + 1 => hs'[i] = "null" /\ cs'[i] = "null"
        BY <1>0, <2>2, <2>4, <2>3
      <3> QED
        BY <2>4, <3>1 DEF Panels
    <2>5. CASE Goto("err", 1)
      <3>1. \A i \in Ifs : hs'[i] # "freed" /\ cs'[i] # "freed"
        BY <1>0, <2>2, <2>3
      <3> QED
        BY <2>5, <3>1 DEF Panels
    <2> QED
      BY <2>1, <2>4, <2>5
  <1>3. CASE Listen \/ SendFails \/ SelectFails \/ SelectExpires \/ Accept
    <2>1. /\ apc \in {"listen", "send", "select"} /\ UNCHANGED <<hs, cs>>
          /\ apc' \in {"listen", "send", "err", "cleanup"}
          /\ apc' = "cleanup" => ai' = 1
      BY <1>3 DEF Listen, SendFails, SelectFails, SelectExpires, Accept, NextPacket
    <2>2. \A i \in Ifs : hs'[i] = "live" /\ cs'[i] = "live"
      BY <2>1 DEF Panels
    <2> QED
      BY <1>0, <2>1, <2>2 DEF Panels
  <1>4. CASE LoopEnds
    <2>1. UNCHANGED <<hs, cs, opt>> /\ ai > NumIfs
      BY <1>4 DEF LoopEnds
    <2>2. CASE apc = "build" \/ apc = "listen" \/ apc = "send"
      <3>1. apc' \in {"listen", "send", "select", "nullPanel"}
        BY <1>4, <2>2 DEF LoopEnds
      <3>2. \A i \in Ifs : hs[i] = "live" /\ cs[i] = "live"
        BY <1>0, <2>1, <2>2 DEF Panels
      <3> QED
        BY <2>1, <3>1, <3>2 DEF Panels
    <2>3. CASE apc = "cleanup"
      <3>1. apc' \in {"serving", "invalid"}
        BY <1>4, <2>3 DEF LoopEnds
      <3>2. \A i \in Ifs : hs[i] = "freed" /\ cs[i] = "freed"
        BY <1>0, <2>1, <2>3 DEF Panels
      <3> QED
        BY <2>1, <3>1, <3>2 DEF Panels
    <2> QED
      BY <1>4, <2>2, <2>3 DEF LoopEnds
  <1>5. CASE Cleanup
    <2>1. /\ \A i \in Ifs : /\ i < ai => hs[i] = "freed" /\ cs[i] = "freed"
                            /\ i >= ai => hs[i] = "live" /\ cs[i] = "live"
          /\ ai \in Ifs
      BY <1>5 DEF Cleanup, Panels
    <2>2. CASE Goto("cleanup", ai + 1)
      <3>1. hs' = [hs EXCEPT ![ai] = Freed(hs[ai])] /\ cs' = [cs EXCEPT ![ai] = Freed(cs[ai])]
        BY <1>5, <2>2 DEF Cleanup
      <3>2. hs[ai] = "live" /\ cs[ai] = "live"
        BY <1>0, <2>1
      <3>3. /\ hs'[ai] = "freed" /\ cs'[ai] = "freed"
            /\ \A i \in Ifs : i # ai => hs'[i] = hs[i] /\ cs'[i] = cs[i]
        BY <1>0, <2>1, <3>1, <3>2 DEF Freed
      <3>4. ASSUME NEW i \in Ifs
            PROVE  /\ i < ai + 1 => hs'[i] = "freed" /\ cs'[i] = "freed"
                   /\ i >= ai + 1 => hs'[i] = "live" /\ cs'[i] = "live"
        BY <1>0, <2>1, <3>3
      <3> QED
        BY <2>2, <3>4 DEF Panels
    <2>3. CASE Goto("err", NumIfs + 1)
      BY <1>5, <2>3 DEF Cleanup, Panels
    <2> QED
      BY <1>5, <2>2, <2>3 DEF Cleanup
  <1>6. CASE AnnounceErr
    <2>1. \A i \in Ifs : hs'[i] # "live" /\ cs'[i] # "live"
      BY <1>0, <1>6, FreedPointers DEF AnnounceErr
    <2>2. apc' = "doubleFree" => "leave" \in opt'.faults
      BY <1>6 DEF AnnounceErr, Panels
    <2> QED
      BY <1>6, <2>1, <2>2 DEF AnnounceErr, Panels
  <1>7. CASE Exit
    BY <1>7 DEF Exit, Panels
  <1>8. CASE \E got \in SUBSET Joined : SendTo(got)
    BY <1>8 DEF SendTo, Panels
  <1> QED
    BY <1>1, <1>2, <1>3, <1>4, <1>5, <1>6, <1>7, <1>8 DEF Announce

\* The connection is accepted once.
LEMMA AnnouncePartner ==
    ASSUME DInv, Announce
    PROVE  Partner'
  <1> USE DEF DInv, Goto
  <1>1. CASE Accept
    <2>1. CASE Goto("cleanup", 1)
      BY <2>1 DEF Partner
    <2>2. CASE NextPacket /\ sock' = sock
      BY <1>1, <2>2 DEF Accept, NextPacket, Partner
    <2> QED
      BY <1>1, <2>1, <2>2 DEF Accept
  <1>2. CASE Cleanup
    <2>1. ai \in Ifs /\ cs[ai] = "live" /\ sock' = sock
      BY <1>2, DiscoveryAssumption DEF Cleanup, Panels, Ifs
    <2>2. cs'[ai] = "freed"
      BY <1>2, <2>1 DEF Cleanup, Freed, TypeOK
    <2> QED
      BY <1>2, <2>1, <2>2 DEF Cleanup, Partner
  <1>3. CASE AnnounceErr
    BY <1>3 DEF AnnounceErr, Partner
  <1>4. CASE Exit
    BY <1>4 DEF Exit, Partner
  <1>5. CASE LoopEnds
    BY <1>5 DEF LoopEnds, Partner
  <1>6. CASE Populate \/ Build \/ Listen \/ SendFails \/ SelectFails
    BY <1>6 DEF Populate, Build, Listen, SendFails, SelectFails, Partner
  <1>7. CASE SelectExpires \/ \E got \in SUBSET Joined : SendTo(got)
    BY <1>7 DEF SelectExpires, NextPacket, SendTo, Partner
  <1> QED
    BY <1>1, <1>2, <1>3, <1>4, <1>5, <1>6, <1>7 DEF Announce

\* A panel and its socket go together until the process ends, and the
\* connection is neither opened nor closed with them.
LEMMA AnnounceSockets ==
    ASSUME DInv, Announce
    PROVE  Sockets'
  <1> USE DEF DInv, Goto
  <1>0. /\ hs \in [Ifs -> Pointers] /\ cs \in [Ifs -> Pointers] /\ sock \in Clients \cup {None}
        /\ None \notin Clients
    BY DiscoveryAssumption DEF TypeOK
  <1>1. ASSUME UNCHANGED <<hs, cs, afds, sock>>, apc # "exited", apc' # "exited"
        PROVE  Sockets'
    BY <1>1 DEF Sockets
  <1>2. CASE Build
    <2>1. PICK h, s \in {"null", "live"} :
             /\ hs' = [hs EXCEPT ![ai] = h] /\ cs' = [cs EXCEPT ![ai] = s]
             /\ afds' = afds \cup (IF h = "live" THEN {Hs(ai)} ELSE {})
                             \cup (IF s = "live" THEN {Cs(ai)} ELSE {})
      BY <1>2 DEF Build
    <2>2. /\ ai \in Ifs /\ apc # "exited" /\ apc' # "exited" /\ sock' = sock
          /\ hs[ai] = "null" /\ cs[ai] = "null"
      BY <1>2, DiscoveryAssumption DEF Build, Panels, Ifs
    <2>3. /\ hs'[ai] = h /\ cs'[ai] = s
          /\ \A i \in Ifs : i # ai => hs'[i] = hs[i] /\ cs'[i] = cs[i]
      BY <1>0, <2>1, <2>2
    <2>4. ASSUME NEW i \in Ifs
          PROVE  /\ Hs(i) \in afds' <=> hs'[i] = "live"
                 /\ Cs(i) \in afds' <=> cs'[i] = "live"
      <3>1. /\ Hs(i) \in afds <=> hs[i] = "live"
            /\ Cs(i) \in afds <=> cs[i] = "live"
        BY <2>2 DEF Sockets
      <3>2. CASE i = ai
        BY <2>1, <2>2, <2>3, <3>1, <3>2, Names
      <3>3. CASE i # ai
        <4>1. /\ Hs(i) \in afds' <=> Hs(i) \in afds
              /\ Cs(i) \in afds' <=> Cs(i) \in afds
          BY <2>1, <3>3, Names
        <4> QED
          BY <2>3, <3>1, <3>3, <4>1
      <3> QED
        BY <3>2, <3>3
    <2>5. \A x \in afds' : x \in afds \/ x = Hs(ai) \/ x = Cs(ai)
      BY <2>1
    <2>6. afds \subseteq afds'
      BY <2>1
    <2> QED
      BY <2>2, <2>4, <2>5, <2>6 DEF Sockets
  <1>3. CASE Accept
    <2>1. PICK i \in Ready :
             \/ sock' = Head(backlog[i]) /\ afds' = afds \cup {Accepted(sock')}
             \/ UNCHANGED <<sock, afds>>
      BY <1>3 DEF Accept
    <2>2. /\ apc = "select" /\ sock = None /\ UNCHANGED <<hs, cs>>
          /\ apc' \in {"cleanup", "send"}
      BY <1>3 DEF Accept, Partner, NextPacket
    <2>3. CASE sock' = Head(backlog[i]) /\ afds' = afds \cup {Accepted(sock')}
      <3>1. Head(backlog[i]) \in Clients
        BY DEF Ready, TypeOK
      <3>2. sock' # None
        BY <1>0, <2>3, <3>1
      <3>3. \A j \in Ifs : /\ Hs(j) \in afds' <=> Hs(j) \in afds
                           /\ Cs(j) \in afds' <=> Cs(j) \in afds
        BY <2>3, Names
      <3>4. \A x \in afds' : x \in afds \/ x = Accepted(sock')
        BY <2>3
      <3>5. Accepted(sock') \in afds'
        BY <2>3
      <3> QED
        BY <2>2, <3>2, <3>3, <3>4, <3>5 DEF Sockets
    <2>4. CASE UNCHANGED <<sock, afds>>
      BY <1>1, <2>2, <2>4
    <2> QED
      BY <2>1, <2>3, <2>4
  <1>4. CASE Cleanup
    <2>1. /\ ai \in Ifs /\ sock' = sock /\ apc = "cleanup" /\ apc' # "exited"
          /\ cs' = [cs EXCEPT ![ai] = Freed(cs[ai])]
      BY <1>4 DEF Cleanup
    <2>2. /\ cs'[ai] # "live" /\ \A i \in Ifs : i # ai => cs'[i] = cs[i]
      <3>1. Freed(cs[ai]) # "live"
        BY <1>0, <2>1, FreedPointers
      <3> QED
        BY <1>0, <2>1, <3>1
    <2>3. CASE hs' = [hs EXCEPT ![ai] = Freed(hs[ai])] /\ Closing({Cs(ai), Hs(ai)})
      <3>1. afds' = afds \ {Cs(ai), Hs(ai)}
        BY <2>3, ClosingTypes
      <3>2. /\ hs'[ai] # "live" /\ \A i \in Ifs : i # ai => hs'[i] = hs[i]
        <4>1. Freed(hs[ai]) # "live"
          BY <1>0, <2>1, FreedPointers
        <4> QED
          BY <1>0, <2>1, <2>3, <4>1
      <3>3. ASSUME NEW i \in Ifs
            PROVE  /\ Hs(i) \in afds' <=> hs'[i] = "live"
                   /\ Cs(i) \in afds' <=> cs'[i] = "live"
        <4>1. /\ Hs(i) \in afds <=> hs[i] = "live"
              /\ Cs(i) \in afds <=> cs[i] = "live"
          BY <2>1 DEF Sockets
        <4>2. /\ Hs(i) \in afds' <=> Hs(i) \in afds /\ i # ai
              /\ Cs(i) \in afds' <=> Cs(i) \in afds /\ i # ai
          BY <3>1, Names
        <4> QED
          BY <2>2, <3>2, <4>1, <4>2
      <3>4. afds' \subseteq afds
        BY <3>1
      <3>5. Accepted(sock) \in afds => Accepted(sock) \in afds'
        BY <3>1, Names
      <3> QED
        BY <2>1, <3>3, <3>4, <3>5 DEF Sockets
    <2>4. CASE hs' = hs /\ Closing({Cs(ai)})
      <3>1. afds' = afds \ {Cs(ai)}
        BY <2>4, ClosingTypes
      <3>2. ASSUME NEW i \in Ifs
            PROVE  /\ Hs(i) \in afds' <=> hs'[i] = "live"
                   /\ Cs(i) \in afds' <=> cs'[i] = "live"
        <4>1. /\ Hs(i) \in afds <=> hs[i] = "live"
              /\ Cs(i) \in afds <=> cs[i] = "live"
          BY <2>1 DEF Sockets
        <4>2. /\ Hs(i) \in afds' <=> Hs(i) \in afds
              /\ Cs(i) \in afds' <=> Cs(i) \in afds /\ i # ai
          BY <3>1, Names
        <4> QED
          BY <2>2, <2>4, <4>1, <4>2
      <3>3. afds' \subseteq afds
        BY <3>1
      <3>4. Accepted(sock) \in afds => Accepted(sock) \in afds'
        BY <3>1, Names
      <3> QED
        BY <2>1, <3>2, <3>3, <3>4 DEF Sockets
    <2> QED
      BY <1>4, <2>3, <2>4 DEF Cleanup
  <1>5. CASE AnnounceErr
    <2>1. /\ sock' = sock /\ apc = "err" /\ apc' # "exited"
          /\ \A i \in Ifs : hs'[i] # "live" /\ cs'[i] # "live"
      BY <1>0, <1>5, FreedPointers DEF AnnounceErr
    <2>2. afds' = afds \ ({Hs(i) : i \in Ifs} \cup {Cs(i) : i \in Ifs})
      BY <1>5, ClosingTypes DEF AnnounceErr
    <2>3. \A i \in Ifs : Hs(i) \notin afds' /\ Cs(i) \notin afds'
      BY <2>2
    <2>4. Accepted(sock) \in afds => Accepted(sock) \in afds'
      BY <2>2, Names
    <2>5. afds' \subseteq afds
      BY <2>2
    <2> QED
      BY <2>1, <2>3, <2>4, <2>5 DEF Sockets
  <1>6. CASE Exit
    BY <1>6 DEF Exit, Sockets
  <1>7. CASE Populate \/ Listen \/ SendFails \/ SelectFails
    BY <1>1, <1>7 DEF Populate, Listen, SendFails, SelectFails
  <1>8. CASE LoopEnds
    BY <1>1, <1>8 DEF LoopEnds
  <1>9. CASE SelectExpires \/ \E got \in SUBSET Joined : SendTo(got)
    BY <1>1, <1>9 DEF SelectExpires, NextPacket, SendTo
  <1> QED
    BY <1>2, <1>3, <1>4, <1>5, <1>6, <1>7, <1>8, <1>9 DEF Announce

-----------------------------------------------------------------------------
(* The backlogs *)

\* Closing listening sockets resets the connections in their backlogs and no
\* others.
LEMMA ClosingBacklogs ==
    ASSUME TypeOK, Backlogs, NEW S, Closing(S)
    PROVE  /\ Backlogs'
           /\ \A c \in Clients : \/ conn'[c] = conn[c]
                                 \/ conn[c] = "queued" /\ conn'[c] = "reset"
  <1> DEFINE Lost(c) == \E i \in Ifs : Cs(i) \in S /\ \E k \in Nat : Waiting(c, i, k)
  <1>0. backlog \in [Ifs -> Seq(Clients)]
    BY DEF TypeOK
  <1>1. ASSUME NEW c \in Clients PROVE /\ Lost(c) => conn'[c] = "reset"
                                       /\ ~Lost(c) => conn'[c] = conn[c]
    <2>1. c \in UNION {Range(backlog[i]) : i \in {j \in Ifs : Cs(j) \in S}} <=> Lost(c)
      <3>1. ASSUME NEW i \in Ifs PROVE c \in Range(backlog[i]) <=> \E k \in Nat : Waiting(c, i, k)
        <4>1. /\ DOMAIN backlog[i] = 1 .. Len(backlog[i]) /\ Len(backlog[i]) \in Nat
              /\ \A k \in 1 .. Len(backlog[i]) : k \in Nat
          BY <1>0
        <4>2. c \in Range(backlog[i]) <=> \E k \in 1 .. Len(backlog[i]) : backlog[i][k] = c
          BY <4>1 DEF Range
        <4> QED
          BY <4>1, <4>2 DEF Waiting
      <3> QED
        BY <3>1
    <2> QED
      BY <2>1 DEF Closing
  <1>2. ASSUME NEW c \in Clients, NEW i \in Ifs, NEW k \in Nat
        PROVE  Waiting(c, i, k)' <=> Cs(i) \notin S /\ Waiting(c, i, k)
    <2>1. CASE Cs(i) \in S
      <3>1. backlog'[i] = <<>>
        BY <2>1, ClosingTypes
      <3> QED
        BY <2>1, <3>1 DEF Waiting
    <2>2. CASE Cs(i) \notin S
      BY <2>2, ClosingTypes DEF Waiting
    <2> QED
      BY <2>1, <2>2
  <1>3. ASSUME NEW c \in Clients, conn'[c] = "queued"
        PROVE  \E i \in Ifs : \E k \in Nat : Waiting(c, i, k)'
    <2>1. ~Lost(c) /\ conn[c] = "queued"
      BY <1>1, <1>3
    <2>2. PICK i \in Ifs, k \in Nat : Waiting(c, i, k)
      BY <2>1 DEF Backlogs
    <2>3. Waiting(c, i, k)'
      BY <1>2, <2>1, <2>2
    <2> QED
      BY <2>3
  <1>4. ASSUME NEW c \in Clients, NEW i \in Ifs, NEW k \in Nat, Waiting(c, i, k)'
        PROVE  conn'[c] = "queued"
    <2>1. Waiting(c, i, k) /\ Cs(i) \notin S
      BY <1>2, <1>4
    <2>2. ~Lost(c)
      BY <2>1 DEF Backlogs
    <2> QED
      BY <1>1, <2>1, <2>2 DEF Backlogs
  <1>5. ASSUME NEW c \in Clients, NEW i \in Ifs, NEW j \in Ifs, NEW k \in Nat, NEW n \in Nat,
               Waiting(c, i, k)', Waiting(c, j, n)'
        PROVE  i = j /\ k = n
    <2>1. Waiting(c, i, k) /\ Waiting(c, j, n)
      BY <1>2, <1>5
    <2> QED
      BY <2>1 DEF Backlogs
  <1>6. ASSUME NEW i \in Ifs, backlog'[i] # <<>> PROVE Cs(i) \in afds'
    BY <1>6, ClosingTypes DEF Backlogs
  <1>7. \A c \in Clients : Lost(c) => conn[c] = "queued"
    BY DEF Backlogs
  <1> QED
    BY <1>1, <1>3, <1>4, <1>5, <1>6, <1>7 DEF Backlogs

\* accept() takes the first connection of a backlog.
LEMMA AcceptBacklogs ==
    ASSUME TypeOK, Backlogs, NEW h \in Ifs, backlog[h] # <<>>,
           backlog' = [backlog EXCEPT ![h] = Tail(@)],
           afds \subseteq afds',
           NEW r \in {"accepted", "reset"},
           conn' = [conn EXCEPT ![Head(backlog[h])] = r]
    PROVE  Backlogs' /\ Head(backlog[h]) \in Clients /\ conn[Head(backlog[h])] = "queued"
  <1>0. backlog[h] \in Seq(Clients) /\ backlog \in [Ifs -> Seq(Clients)]
    BY DEF TypeOK
  <1>1. PICK f : f = Head(backlog[h])
    OBVIOUS
  <1>2. /\ f \in Clients /\ f = backlog[h][1] /\ Len(backlog[h]) \in Nat /\ Len(backlog[h]) > 0
        /\ Len(Tail(backlog[h])) = Len(backlog[h]) - 1
        /\ \A k \in 1 .. Len(backlog[h]) - 1 : Tail(backlog[h])[k] = backlog[h][k + 1]
    BY <1>0, <1>1
  <1>3. Waiting(f, h, 1)
    BY <1>2 DEF Waiting
  <1>4. ASSUME NEW c \in Clients, NEW i \in Ifs, NEW k \in Nat
        PROVE  /\ i # h => (Waiting(c, i, k)' <=> Waiting(c, i, k))
               /\ Waiting(c, h, k)' => k + 1 # 1 /\ Waiting(c, h, k + 1)
               /\ Waiting(c, h, k + 1) /\ k # 0 => Waiting(c, h, k)'
    <2>1. /\ backlog'[h] = Tail(backlog[h])
          /\ i # h => backlog'[i] = backlog[i]
      BY <1>0
    <2>2. i # h => (Waiting(c, i, k)' <=> Waiting(c, i, k))
      BY <2>1 DEF Waiting
    <2>3. Waiting(c, h, k)' <=> k \in 1 .. Len(backlog[h]) - 1 /\ Tail(backlog[h])[k] = c
      BY <1>2, <2>1 DEF Waiting
    <2>4. k \in 1 .. Len(backlog[h]) - 1 => Tail(backlog[h])[k] = backlog[h][k + 1]
      BY <1>2
    <2>5. /\ k \in 1 .. Len(backlog[h]) - 1 => k + 1 # 1 /\ k + 1 \in 1 .. Len(backlog[h])
          /\ k + 1 \in 1 .. Len(backlog[h]) /\ k # 0 => k \in 1 .. Len(backlog[h]) - 1
      BY <1>2
    <2> QED
      BY <2>2, <2>3, <2>4, <2>5 DEF Waiting
  <1>5. \A c \in Clients : c # f => conn'[c] = conn[c]
    BY <1>1 DEF TypeOK
  <1>6. conn'[f] # "queued"
    BY <1>1, <1>2 DEF TypeOK
  <1>7. ASSUME NEW c \in Clients, NEW i \in Ifs, NEW k \in Nat, Waiting(c, i, k)'
        PROVE  c # f /\ \E n \in Nat : Waiting(c, i, n)
    <2>1. CASE i = h
      <3>1. k + 1 # 1 /\ Waiting(c, h, k + 1) /\ k + 1 \in Nat
        BY <1>4, <1>7, <2>1
      <3>2. c # f
        BY <1>3, <3>1 DEF Backlogs
      <3> QED
        BY <2>1, <3>1, <3>2
    <2>2. CASE i # h
      <3>1. Waiting(c, i, k)
        BY <1>4, <1>7, <2>2
      <3>2. c # f
        BY <1>3, <2>2, <3>1 DEF Backlogs
      <3> QED
        BY <3>1, <3>2
    <2> QED
      BY <2>1, <2>2
  <1>8. ASSUME NEW c \in Clients, conn'[c] = "queued"
        PROVE  \E i \in Ifs : \E k \in Nat : Waiting(c, i, k)'
    <2>1. c # f /\ conn[c] = "queued"
      BY <1>5, <1>6, <1>8
    <2>2. PICK i \in Ifs, k \in Nat : Waiting(c, i, k)
      BY <2>1 DEF Backlogs
    <2>3. CASE i = h
      <3>1. k # 0 /\ k # 1
        BY <1>2, <2>1, <2>2, <2>3 DEF Waiting
      <3>2. k - 1 \in Nat /\ k - 1 # 0 /\ (k - 1) + 1 = k
        BY <3>1
      <3>3. Waiting(c, h, (k - 1) + 1)
        BY <2>2, <2>3, <3>2
      <3>4. Waiting(c, h, k - 1)'
        BY <1>4, <3>2, <3>3
      <3> QED
        BY <3>2, <3>4
    <2>4. CASE i # h
      BY <1>4, <2>2, <2>4
    <2> QED
      BY <2>3, <2>4
  <1>9. ASSUME NEW c \in Clients, NEW i \in Ifs, NEW k \in Nat, Waiting(c, i, k)'
        PROVE  conn'[c] = "queued"
    BY <1>5, <1>7, <1>9 DEF Backlogs
  <1>10. ASSUME NEW c \in Clients, NEW i \in Ifs, NEW j \in Ifs, NEW k \in Nat, NEW n \in Nat,
                Waiting(c, i, k)', Waiting(c, j, n)'
         PROVE  i = j /\ k = n
    <2>1. i = j
      BY <1>7, <1>10 DEF Backlogs
    <2>2. CASE i = h
      <3>1. Waiting(c, h, k + 1) /\ Waiting(c, h, n + 1) /\ k + 1 \in Nat /\ n + 1 \in Nat
        BY <1>4, <1>10, <2>1, <2>2
      <3>2. k + 1 = n + 1
        BY <3>1 DEF Backlogs
      <3> QED
        BY <2>1, <3>2
    <2>3. CASE i # h
      BY <1>4, <1>10, <2>1, <2>3 DEF Backlogs
    <2> QED
      BY <2>2, <2>3
  <1>11. ASSUME NEW i \in Ifs, backlog'[i] # <<>> PROVE Cs(i) \in afds'
    <2>1. i # h => backlog'[i] = backlog[i]
      BY <1>0
    <2>2. backlog[i] # <<>>
      BY <1>11, <2>1
    <2> QED
      BY <2>2 DEF Backlogs
  <1>12. conn[f] = "queued"
    BY <1>2, <1>3 DEF Backlogs
  <1> QED
    BY <1>1, <1>2, <1>8, <1>9, <1>10, <1>11, <1>12 DEF Backlogs

\* A connection that is in no backlog enters one at its end.
LEMMA ConnectBacklogs ==
    ASSUME TypeOK, Backlogs, NEW f \in Clients, NEW h \in Ifs, conn[f] = "none",
           Cs(h) \in afds, afds' = afds,
           backlog' = [backlog EXCEPT ![h] = Append(@, f)],
           conn' = [conn EXCEPT ![f] = "queued"]
    PROVE  Backlogs'
  <1>0. /\ backlog[h] \in Seq(Clients) /\ backlog \in [Ifs -> Seq(Clients)]
        /\ conn'[f] = "queued" /\ \A c \in Clients : c # f => conn'[c] = conn[c]
    BY DEF TypeOK
  <1>1. PICK m : m = Len(backlog[h]) + 1
    OBVIOUS
  <1>2. /\ m \in Nat /\ Len(backlog[h]) \in Nat /\ Len(Append(backlog[h], f)) = m
        /\ Append(backlog[h], f)[m] = f
        /\ \A k \in 1 .. Len(backlog[h]) : Append(backlog[h], f)[k] = backlog[h][k]
        /\ \A k \in Nat : k \in 1 .. m <=> k \in 1 .. Len(backlog[h]) \/ k = m
        /\ m \notin 1 .. Len(backlog[h])
    BY <1>0, <1>1
  <1>3. \A i \in Ifs, k \in Nat : ~Waiting(f, i, k)
    BY DEF Backlogs
  <1>4. ASSUME NEW c \in Clients, NEW i \in Ifs, NEW k \in Nat
        PROVE  Waiting(c, i, k)' <=> Waiting(c, i, k) \/ (c = f /\ i = h /\ k = m)
    <2>1. /\ backlog'[h] = Append(backlog[h], f)
          /\ i # h => backlog'[i] = backlog[i]
      BY <1>0
    <2>2. CASE i # h
      BY <2>1, <2>2 DEF Waiting
    <2>3. CASE i = h
      <3>1. Waiting(c, i, k)' <=> k \in 1 .. m /\ Append(backlog[h], f)[k] = c
        BY <1>2, <2>1, <2>3 DEF Waiting
      <3>2. CASE k = m
        BY <1>2, <2>3, <3>1, <3>2 DEF Waiting
      <3>3. CASE k # m
        BY <1>2, <2>3, <3>1, <3>3 DEF Waiting
      <3> QED
        BY <3>2, <3>3
    <2> QED
      BY <2>2, <2>3
  <1>5. ASSUME NEW c \in Clients, conn'[c] = "queued"
        PROVE  \E i \in Ifs : \E k \in Nat : Waiting(c, i, k)'
    <2>1. CASE c = f
      <3>1. Waiting(f, h, m)'
        BY <1>2, <1>4
      <3> QED
        BY <1>2, <2>1, <3>1
    <2>2. CASE c # f
      BY <1>0, <1>4, <1>5, <2>2 DEF Backlogs
    <2> QED
      BY <2>1, <2>2
  <1>6. ASSUME NEW c \in Clients, NEW i \in Ifs, NEW k \in Nat, Waiting(c, i, k)'
        PROVE  conn'[c] = "queued"
    BY <1>0, <1>4, <1>6 DEF Backlogs
  <1>7. ASSUME NEW c \in Clients, NEW i \in Ifs, NEW j \in Ifs, NEW k \in Nat, NEW n \in Nat,
               Waiting(c, i, k)', Waiting(c, j, n)'
        PROVE  i = j /\ k = n
    <2>1. CASE c = f
      BY <1>3, <1>4, <1>7, <2>1
    <2>2. CASE c # f
      BY <1>4, <1>7, <2>2 DEF Backlogs
    <2> QED
      BY <2>1, <2>2
  <1>8. ASSUME NEW i \in Ifs, backlog'[i] # <<>> PROVE Cs(i) \in afds'
    <2>1. i # h => backlog'[i] = backlog[i]
      BY <1>0
    <2> QED
      BY <1>8, <2>1 DEF Backlogs
  <1> QED
    BY <1>5, <1>6, <1>7, <1>8 DEF Backlogs

\* The backlogs, and who has a connection, after a step of announce().
LEMMA AnnounceBacklogs ==
    ASSUME DInv, Announce
    PROVE  Backlogs' /\ Connected'
  <1> USE DEF DInv, Goto, lvars
  <1>1. ASSUME UNCHANGED <<backlog, conn, lpc, lsock, sock>>, afds \subseteq afds'
        PROVE  Backlogs' /\ Connected'
    <2>1. Backlogs'
      <3>1. \A d, i, k : Waiting(d, i, k)' <=> Waiting(d, i, k)
        BY <1>1 DEF Waiting
      <3> QED
        BY <1>1, <3>1 DEF Backlogs
    <2> QED
      BY <1>1, <2>1 DEF Connected
  <1>2. ASSUME NEW S, Closing(S), UNCHANGED <<lpc, lsock, sock>> PROVE Backlogs' /\ Connected'
    <2>1. /\ Backlogs'
          /\ \A c \in Clients : \/ conn'[c] = conn[c]
                                \/ conn[c] = "queued" /\ conn'[c] = "reset"
      BY <1>2, ClosingBacklogs
    <2> QED
      BY <1>2, <2>1 DEF Connected
  <1>3. CASE Accept /\ UNCHANGED <<backlog, conn, sock, afds>>
    BY <1>1, <1>3 DEF Accept
  <1>10. CASE Accept /\ ~UNCHANGED <<backlog, conn, sock, afds>>
    <2>1. PICK h \in Ready :
             /\ backlog' = [backlog EXCEPT ![h] = Tail(@)]
             /\ \/ /\ sock' = Head(backlog[h]) /\ afds' = afds \cup {Accepted(sock')}
                   /\ conn' = [conn EXCEPT ![Head(backlog[h])] = "accepted"]
                \/ /\ conn' = [conn EXCEPT ![Head(backlog[h])] = "reset"]
                   /\ UNCHANGED <<sock, afds>>
      BY <1>10 DEF Accept
    <2>2. h \in Ifs /\ backlog[h] # <<>> /\ afds \subseteq afds'
      BY <2>1 DEF Ready
    <2>3. sock = None /\ UNCHANGED <<lpc, lsock>> /\ None \notin Clients
      BY <1>10, DiscoveryAssumption DEF Accept, Partner
    <2>4. \A c \in Clients : conn[c] # "accepted"
      BY <2>3 DEF Connected
    <2>5. /\ Backlogs' /\ Head(backlog[h]) \in Clients /\ conn[Head(backlog[h])] = "queued"
      BY <2>1, <2>2, AcceptBacklogs
    <2>6. /\ \A c \in Clients : c # Head(backlog[h]) => conn'[c] = conn[c]
          /\ conn'[Head(backlog[h])] = "accepted" => sock' = Head(backlog[h])
      BY <2>1, <2>5 DEF TypeOK
    <2>7. ASSUME NEW c \in Clients
          PROVE  /\ conn'[c] # "none" => lpc'[c] \in {"done", "ok"} /\ lsock'[c] # None
                 /\ conn'[c] = "accepted" => sock' = c
      BY <2>3, <2>4, <2>5, <2>6 DEF Connected
    <2> QED
      BY <2>5, <2>7 DEF Connected
  <1>4. CASE Cleanup
    BY <1>2, <1>4 DEF Cleanup
  <1>5. CASE AnnounceErr
    BY <1>2, <1>5 DEF AnnounceErr
  <1>6. CASE Exit
    <2>1. /\ \A i \in Ifs : backlog'[i] = <<>>
          /\ \A c \in Clients : conn'[c] \in {"none", "reset"} /\ (conn[c] = "none" => conn'[c] = "none")
      BY <1>6 DEF Exit
    <2>2. \A c \in Clients, i \in Ifs, k \in Nat : ~Waiting(c, i, k)'
      BY <2>1, EmptySeq DEF Waiting
    <2>3. Backlogs'
      BY <2>1, <2>2 DEF Backlogs
    <2>4. lpc' = lpc /\ lsock' = lsock
      BY <1>6 DEF Exit
    <2> QED
      BY <2>1, <2>3, <2>4 DEF Connected
  <1>7. CASE Populate \/ Listen \/ SendFails \/ SelectFails \/ Build
    BY <1>1, <1>7 DEF Populate, Listen, SendFails, SelectFails, Build
  <1>8. CASE LoopEnds
    BY <1>1, <1>8 DEF LoopEnds
  <1>9. CASE SelectExpires \/ \E got \in SUBSET Joined : SendTo(got)
    BY <1>1, <1>9 DEF SelectExpires, SendTo
  <1> QED
    BY <1>3, <1>4, <1>5, <1>6, <1>7, <1>8, <1>9, <1>10 DEF Announce

\* A listening socket belongs to an interface.
LEMMA ListeningIf == ASSUME DInv, NEW i \in Nat, Cs(i) \in afds PROVE i \in Ifs
  BY Names DEF DInv, Sockets

\* ... and after a step of a device.
LEMMA LocateBacklogs ==
    ASSUME DInv, NEW c \in Clients, Locate(c) \/ Foreign(c)
    PROVE  Backlogs' /\ Connected'
  <1> USE DEF DInv, avars, lvars
  <1>0. lpc \in [Clients -> LPcs] /\ \A p : LGoto(c, p) => \A d \in Clients :
                                         lpc'[d] = IF d = c THEN p ELSE lpc[d]
    BY DEF TypeOK, LGoto
  <1>1. ASSUME UNCHANGED <<backlog, conn, afds, sock>>,
               \A d \in Clients : conn[d] # "none"
                    => lpc'[d] \in {"done", "ok"} /\ lsock'[d] # None
        PROVE  Backlogs' /\ Connected'
    <2>1. Backlogs'
      <3>1. \A d, i, k : Waiting(d, i, k)' <=> Waiting(d, i, k)
        BY <1>1 DEF Waiting
      <3> QED
        BY <1>1, <3>1 DEF Backlogs
    <2> QED
      BY <1>1, <2>1 DEF Connected
  <1>2. CASE Connect(c)
    <2>1. /\ lpc[c] = "connect" /\ Listening(dest[c]) /\ UNCHANGED <<afds, sock>>
          /\ backlog' = [backlog EXCEPT ![dest[c]] = Append(@, c)]
          /\ conn' = [conn EXCEPT ![c] = "queued"] /\ LGoto(c, "done")
          /\ lsock' = [lsock EXCEPT ![c] = Lcs(c)]
      BY <1>2 DEF Connect
    <2>2. conn[c] = "none"
      BY <2>1 DEF Connected
    <2>3. dest[c] \in Nat /\ Cs(dest[c]) \in afds
      <3>1. dest[c] \in 0 .. NumIfs /\ NumIfs \in Nat
        BY DiscoveryAssumption DEF TypeOK
      <3>2. Cs(dest[c]) \in afds
        BY <2>1 DEF Listening
      <3> QED
        BY <3>1, <3>2
    <2>4. dest[c] \in Ifs
      BY <2>3, ListeningIf
    <2>5. Backlogs'
      BY <2>1, <2>2, <2>3, <2>4, ConnectBacklogs
    <2>6. /\ conn'[c] = "queued" /\ lpc'[c] = "done" /\ lsock'[c] = Lcs(c)
          /\ \A d \in Clients : d # c => conn'[d] = conn[d] /\ lpc'[d] = lpc[d] /\ lsock'[d] = lsock[d]
      BY <1>0, <2>1 DEF TypeOK
    <2>7. Lcs(c) # None
      <3>1. tries[c] \in Nat
        BY DEF TypeOK
      <3>2. <<"cs", tries[c]>> \in {"hs", "cs"} \X Nat
        BY <3>1
      <3> QED
        BY <3>2, DiscoveryAssumption DEF Lcs
    <2> QED
      BY <2>1, <2>5, <2>6, <2>7 DEF Connected
  <1>3. CASE CloseSocket(c)
    <2>1. /\ conn[c] = "reset" /\ UNCHANGED <<afds, sock, backlog>>
          /\ conn' = [conn EXCEPT ![c] = "none"] /\ LGoto(c, "idle")
          /\ lsock' = [lsock EXCEPT ![c] = None]
      BY <1>3 DEF CloseSocket
    <2>2. /\ conn'[c] = "none"
          /\ \A d \in Clients : d # c => conn'[d] = conn[d] /\ lpc'[d] = lpc[d] /\ lsock'[d] = lsock[d]
      BY <1>0, <2>1 DEF TypeOK
    <2>3. Backlogs'
      <3>1. \A d \in Clients : conn'[d] = "queued" <=> conn[d] = "queued"
        BY <2>1, <2>2
      <3>2. \A d, i, k : Waiting(d, i, k)' <=> Waiting(d, i, k)
        BY <2>1 DEF Waiting
      <3>3. \A d \in Clients : conn'[d] = "queued" =>
               \E i \in Ifs : \E k \in Nat : Waiting(d, i, k)'
        BY <3>1, <3>2 DEF Backlogs
      <3>4. \A d \in Clients, i \in Ifs, k \in Nat : Waiting(d, i, k)' => conn'[d] = "queued"
        BY <3>1, <3>2 DEF Backlogs
      <3>5. \A d \in Clients, i, j \in Ifs, k, n \in Nat :
               Waiting(d, i, k)' /\ Waiting(d, j, n)' => i = j /\ k = n
        BY <3>2 DEF Backlogs
      <3>6. \A i \in Ifs : backlog'[i] # <<>> => Cs(i) \in afds'
        BY <2>1 DEF Backlogs
      <3> QED
        BY <3>3, <3>4, <3>5, <3>6 DEF Backlogs
    <2> QED
      BY <2>1, <2>2, <2>3 DEF Connected
  <1>4. CASE LocateReturn(c)
    <2>1. /\ LGoto(c, IF lsock[c] = None THEN "idle" ELSE "ok")
          /\ UNCHANGED <<backlog, conn, afds, sock, lsock>>
      BY <1>4 DEF LocateReturn
    <2> QED
      BY <1>0, <1>1, <2>1 DEF Connected
  <1>5. CASE LocateCall(c) \/ LocateHs(c) \/ LocateCs(c) \/ LocateHear(c)
    <2>1. /\ lpc[c] \notin {"done", "ok"} /\ \E p : LGoto(c, p)
          /\ UNCHANGED <<backlog, conn, afds, sock, lsock>>
      BY <1>5 DEF LocateCall, LocateHs, LocateCs, LocateHear
    <2> QED
      BY <1>0, <1>1, <2>1 DEF Connected
  <1>6. CASE LocateIgnore(c) \/ Foreign(c)
    BY <1>1, <1>6 DEF LocateIgnore, Foreign, Connected
  <1>7. CASE LocateExpires(c) \/ LocateFails(c) \/ LocateErr(c)
    <2>1. /\ lpc[c] \notin {"done", "ok"} /\ \E p : LGoto(c, p)
          /\ UNCHANGED <<backlog, conn, afds, sock, lsock>>
      BY <1>7 DEF LocateExpires, LocateFails, LocateErr
    <2> QED
      BY <1>0, <1>1, <2>1 DEF Connected
  <1> QED
    BY <1>2, <1>3, <1>4, <1>5, <1>6, <1>7 DEF Locate

-----------------------------------------------------------------------------
(* The devices' sockets *)

\* The sockets of the call of locate() that is under way.
LEMMA CallSockets ==
    ASSUME TypeOK, NEW c \in Clients
    PROVE  /\ Lhs(c) # Lcs(c) /\ Lhs(c) \notin Leaked(c) /\ Lcs(c) # None
           /\ Lcs(c) \in Leaked(c) <=> tries[c] \in expired[c]
           /\ tries[c] \in Nat /\ tries[c] + 1 \notin expired[c]
  <1>1. tries[c] \in Nat /\ expired[c] \subseteq 0 .. tries[c]
    BY DEF TypeOK
  <1>2. tries[c] + 1 \notin expired[c]
    BY <1>1
  <1>3. Lhs(c) # Lcs(c) /\ Lhs(c) \notin Leaked(c)
    BY DEF Lhs, Lcs, Leaked
  <1>4. Lcs(c) # None
    BY <1>1, DiscoveryAssumption DEF Lcs
  <1>5. Lcs(c) \in Leaked(c) <=> tries[c] \in expired[c]
    BY DEF Lcs, Leaked
  <1> QED
    BY <1>1, <1>2, <1>3, <1>4, <1>5

\* A device that does nothing keeps its sockets.
LEMMA SameDevice ==
    ASSUME NEW d, Device(d), lpc'[d] = lpc[d], lsock'[d] = lsock[d], lfds'[d] = lfds[d],
           tries'[d] = tries[d], expired'[d] = expired[d]
    PROVE  Device(d)'
  BY DEF Device, Leaked, Lhs, Lcs

\* Every path through locate() closes what it opened, but for the socket it
\* returns and, after a timeout, the one it gives up.
LEMMA LocateDevices ==
    ASSUME DInv, NEW c \in Clients, Locate(c) \/ Foreign(c)
    PROVE  Devices'
  <1> USE DEF DInv, lvars, LGoto
  <1>0. /\ lpc \in [Clients -> LPcs] /\ lsock \in [Clients -> {None} \cup {"cs"} \X Nat]
        /\ lfds \in [Clients -> SUBSET ({"hs", "cs"} \X Nat)]
        /\ tries \in [Clients -> Nat] /\ expired \in [Clients -> SUBSET Nat]
    BY DEF TypeOK
  <1>1. \A d \in Clients : Device(d)
    BY DEF Devices
  <1>2. ASSUME NEW d \in Clients, d # c PROVE Device(d)'
    <2>1. CASE LocateCall(c) \/ LocateHs(c) \/ LocateCs(c)
      <3>1. /\ lpc'[d] = lpc[d] /\ lsock'[d] = lsock[d] /\ lfds'[d] = lfds[d]
            /\ tries'[d] = tries[d] /\ expired'[d] = expired[d]
        BY <1>0, <1>2, <2>1 DEF LocateCall, LocateHs, LocateCs
      <3> QED
        BY <1>1, <3>1, SameDevice
    <2>2. CASE LocateIgnore(c) \/ Foreign(c) \/ LocateHear(c) \/ LocateExpires(c)
      <3>1. /\ lpc'[d] = lpc[d] /\ lsock'[d] = lsock[d] /\ lfds'[d] = lfds[d]
            /\ tries'[d] = tries[d] /\ expired'[d] = expired[d]
        BY <1>0, <1>2, <2>2 DEF LocateIgnore, Foreign, LocateHear, LocateExpires
      <3> QED
        BY <1>1, <3>1, SameDevice
    <2>3. CASE LocateFails(c) \/ Connect(c) \/ LocateReturn(c) \/ LocateErr(c) \/ CloseSocket(c)
      <3>1. /\ lpc'[d] = lpc[d] /\ lsock'[d] = lsock[d] /\ lfds'[d] = lfds[d]
            /\ tries'[d] = tries[d] /\ expired'[d] = expired[d]
        BY <1>0, <1>2, <2>3 DEF LocateFails, Connect, LocateReturn, LocateErr, CloseSocket
      <3> QED
        BY <1>1, <3>1, SameDevice
    <2> QED
      BY <2>1, <2>2, <2>3 DEF Locate
  <1>3. Device(c)'
    <2>0. Device(c)
      BY <1>1
    <2>1. CASE LocateCall(c)
      <3>1. /\ lpc[c] = "idle" /\ lpc'[c] \in {"hs", "err"} /\ tries'[c] = tries[c] + 1
            /\ lsock'[c] = lsock[c] /\ lfds'[c] = lfds[c] /\ expired'[c] = expired[c]
        BY <1>0, <2>1 DEF LocateCall
      <3>2. lfds'[c] = Leaked(c)' /\ lsock'[c] = None /\ tries'[c] \notin expired'[c]
        BY <2>0, <3>1, CallSockets DEF Device, Leaked
      <3> QED
        BY <3>1, <3>2 DEF Device
    <2>2. CASE LocateHs(c)
      <3>1. /\ lpc[c] = "hs" /\ tries'[c] = tries[c]
            /\ lsock'[c] = lsock[c] /\ expired'[c] = expired[c]
            /\ \/ lpc'[c] \in {"cs", "err"} /\ lfds'[c] = lfds[c] \cup {Lhs(c)}
               \/ lpc'[c] = "err" /\ lfds'[c] = lfds[c]
        BY <1>0, <2>2 DEF LocateHs
      <3>2. /\ Leaked(c)' = lfds[c] /\ lsock'[c] = None /\ tries'[c] \notin expired'[c]
            /\ Lhs(c)' = Lhs(c)
        BY <2>0, <3>1 DEF Device, Leaked, Lhs
      <3> QED
        BY <3>1, <3>2 DEF Device
    <2>3. CASE LocateCs(c)
      <3>1. /\ lpc[c] = "cs" /\ tries'[c] = tries[c]
            /\ lsock'[c] = lsock[c] /\ expired'[c] = expired[c]
            /\ \/ lpc'[c] = "wait" /\ lfds'[c] = lfds[c] \cup {Lcs(c)}
               \/ lpc'[c] \in {"nullPanel", "err"} /\ lfds'[c] = lfds[c]
        BY <1>0, <2>3 DEF LocateCs
      <3>2. /\ lfds[c] = Leaked(c)' \cup {Lhs(c)'} /\ lsock'[c] = None /\ tries'[c] \notin expired'[c]
            /\ Lcs(c)' = Lcs(c)
        BY <2>0, <3>1 DEF Device, Leaked, Lhs, Lcs
      <3> QED
        BY <3>1, <3>2 DEF Device
    <2>4. CASE LocateIgnore(c) \/ Foreign(c)
      BY <2>0, <2>4, SameDevice DEF LocateIgnore, Foreign
    <2>5. CASE LocateHear(c) \/ LocateFails(c)
      <3>1. /\ lpc[c] \in {"wait", "connect"} /\ lpc'[c] \in {"connect", "err"}
            /\ lsock'[c] = lsock[c] /\ lfds'[c] = lfds[c]
            /\ tries'[c] = tries[c] /\ expired'[c] = expired[c]
        BY <1>0, <2>5 DEF LocateHear, LocateFails
      <3>2. /\ lfds'[c] = Leaked(c)' \cup {Lhs(c)', Lcs(c)'} /\ lsock'[c] = None
            /\ tries'[c] \notin expired'[c]
        BY <2>0, <3>1 DEF Device, Leaked, Lhs, Lcs
      <3> QED
        BY <3>1, <3>2 DEF Device
    <2>6. CASE LocateExpires(c)
      <3>1. /\ lpc[c] = "wait" /\ lpc'[c] = "done"
            /\ lsock'[c] = lsock[c] /\ lfds'[c] = lfds[c]
            /\ tries'[c] = tries[c] /\ expired'[c] = expired[c] \cup {tries[c]}
        BY <1>0, <2>6 DEF LocateExpires
      <3>2. Leaked(c)' = Leaked(c) \cup {Lcs(c)}
        BY <3>1 DEF Leaked, Lcs
      <3>3. Lhs(c)' = Lhs(c) /\ Lcs(c)' = Lcs(c)
        BY <3>1 DEF Lhs, Lcs
      <3>4. lfds[c] = Leaked(c) \cup {Lhs(c), Lcs(c)} /\ lsock[c] = None
        BY <2>0, <3>1 DEF Device
      <3>5. lfds'[c] = Leaked(c)' \cup {Lhs(c)', Lcs(c)'}
        BY <3>1, <3>2, <3>3, <3>4
      <3> QED
        BY <3>1, <3>4, <3>5 DEF Device
    <2>7. CASE Connect(c)
      <3>1. /\ lpc[c] = "connect" /\ lpc'[c] = "done"
            /\ lsock'[c] = Lcs(c) /\ lfds'[c] = lfds[c]
            /\ tries'[c] = tries[c] /\ expired'[c] = expired[c]
        BY <1>0, <2>7 DEF Connect
      <3>2. /\ lfds'[c] = Leaked(c)' \cup {Lhs(c)', Lcs(c)'} /\ lsock'[c] = Lcs(c)'
            /\ tries'[c] \notin expired'[c]
        BY <2>0, <3>1 DEF Device, Leaked, Lhs, Lcs
      <3>3. lsock'[c] # None
        BY <3>1, CallSockets
      <3> QED
        BY <3>1, <3>2, <3>3 DEF Device
    <2>8. CASE LocateReturn(c)
      <3>1. /\ lpc[c] = "done" /\ lpc'[c] = (IF lsock[c] = None THEN "idle" ELSE "ok")
            /\ lsock'[c] = lsock[c] /\ lfds'[c] = lfds[c] \ {Lhs(c)}
            /\ tries'[c] = tries[c] /\ expired'[c] = expired[c]
        BY <1>0, <2>8 DEF LocateReturn
      <3>2. lfds'[c] = Leaked(c) \cup {Lcs(c)}
        BY <2>0, <3>1, CallSockets DEF Device
      <3>3. Leaked(c)' = Leaked(c) /\ Lcs(c)' = Lcs(c)
        BY <3>1 DEF Leaked, Lcs
      <3>4. CASE lsock[c] = None
        <4>1. lfds'[c] = Leaked(c)
          BY <2>0, <3>1, <3>2, <3>4, CallSockets DEF Device
        <4> QED
          BY <3>1, <3>3, <3>4, <4>1 DEF Device
      <3>5. CASE lsock[c] # None
        <4>1. lsock[c] = Lcs(c) /\ tries[c] \notin expired[c]
          BY <2>0, <3>1, <3>5 DEF Device
        <4> QED
          BY <3>1, <3>2, <3>3, <3>5, <4>1 DEF Device
      <3> QED
        BY <3>4, <3>5
    <2>9. CASE LocateErr(c)
      <3>1. /\ lpc[c] = "err" /\ lpc'[c] = "idle"
            /\ lsock'[c] = lsock[c] /\ lfds'[c] = lfds[c] \ {Lhs(c), Lcs(c)}
            /\ tries'[c] = tries[c] /\ expired'[c] = expired[c]
        BY <1>0, <2>9 DEF LocateErr
      <3>2. lfds'[c] = Leaked(c) /\ lsock[c] = None
        BY <2>0, <3>1, CallSockets DEF Device
      <3>3. Leaked(c)' = Leaked(c)
        BY <3>1 DEF Leaked
      <3> QED
        BY <3>1, <3>2, <3>3 DEF Device
    <2>10. CASE CloseSocket(c)
      <3>1. /\ lpc[c] = "ok" /\ lpc'[c] = "idle"
            /\ lsock'[c] = None /\ lfds'[c] = lfds[c] \ {lsock[c]}
            /\ tries'[c] = tries[c] /\ expired'[c] = expired[c]
        BY <1>0, <2>10 DEF CloseSocket
      <3>2. lfds'[c] = Leaked(c)
        <4>1. lsock[c] = Lcs(c) /\ lfds[c] = Leaked(c) \cup {Lcs(c)} /\ tries[c] \notin expired[c]
          BY <2>0, <3>1 DEF Device
        <4>2. Lcs(c) \notin Leaked(c)
          BY <4>1, CallSockets
        <4> QED
          BY <3>1, <4>1, <4>2
      <3>3. Leaked(c)' = Leaked(c)
        BY <3>1 DEF Leaked
      <3> QED
        BY <3>1, <3>2, <3>3 DEF Device
    <2> QED
      BY <2>1, <2>2, <2>3, <2>4, <2>5, <2>6, <2>7, <2>8, <2>9, <2>10 DEF Locate
  <1> QED
    BY <1>2, <1>3 DEF Devices

-----------------------------------------------------------------------------
(* The theorems *)

\* Both sides start with nothing open.
LEMMA DiscoveryInit == Init => DInv
  <1> SUFFICES ASSUME Init PROVE DInv
    OBVIOUS
  <1>1. NumIfs \in Nat /\ opt.tries \in [Clients -> Nat]
    BY DiscoveryAssumption DEF Init
  <1>2. TypeOK
    <2>1. /\ "populate" \in APcs /\ "idle" \in LPcs /\ "null" \in Pointers
          /\ 1 \in 1 .. NumIfs + 1 /\ 0 \in 0 .. NumIfs
      BY <1>1 DEF APcs, Announcing, LPcs, Resting, Pointers
    <2>2. /\ opt \in Options /\ apc \in APcs /\ ai \in 1 .. NumIfs + 1 /\ count \in Nat
          /\ hs \in [Ifs -> Pointers] /\ cs \in [Ifs -> Pointers]
          /\ sock \in Clients \cup {None}
      BY <2>1 DEF Init
    <2>3. backlog \in [Ifs -> Seq(Clients)]
      BY EmptySeq DEF Init
    <2>4. /\ lpc \in [Clients -> LPcs]
          /\ lhs \in [Clients -> Pointers] /\ lcs \in [Clients -> Pointers]
          /\ inbox \in [Clients -> SUBSET (0 .. NumIfs)] /\ dest \in [Clients -> 0 .. NumIfs]
          /\ conn \in [Clients -> {"none", "queued", "accepted", "reset"}]
      BY <2>1 DEF Init
    <2>5. /\ lfds \in [Clients -> SUBSET ({"hs", "cs"} \X Nat)]
          /\ lsock \in [Clients -> {None} \cup {"cs"} \X Nat]
          /\ tries \in [Clients -> Nat] /\ expired \in [Clients -> SUBSET Nat]
      BY DEF Init
    <2>6. \A c \in Clients : tries[c] <= opt.tries[c] /\ expired[c] \subseteq 0 .. tries[c]
      BY <1>1 DEF Init
    <2> QED
      BY <2>2, <2>3, <2>4, <2>5, <2>6 DEF TypeOK
  <1>3. Panels /\ Partner /\ Sockets /\ Connected
    BY DEF Init, Panels, Partner, Sockets, Connected
  <1>4. \A c \in Clients, i \in Ifs, k \in Nat : ~Waiting(c, i, k)
    BY EmptySeq DEF Init, Waiting
  <1>5. Backlogs
    BY <1>4 DEF Init, Backlogs
  <1>6. Devices
    BY DEF Init, Devices, Device, Leaked
  <1> QED
    BY <1>2, <1>3, <1>5, <1>6 DEF DInv

\* Every step of announce() and of locate() keeps the invariant.
LEMMA DiscoveryStep == DInv /\ [Next]_vars => DInv'
  <1> SUFFICES ASSUME DInv, [Next]_vars PROVE DInv'
    OBVIOUS
  <1>1. CASE Announce
    <2>1. UNCHANGED lvars
      BY <1>1 DEF Announce, Populate, Build, Listen, SendFails, LoopEnds, SelectExpires,
         SelectFails, Accept, Cleanup, AnnounceErr, Exit, SendTo
    <2>2. ASSUME NEW c \in Clients PROVE Device(c)'
      BY <2>1, SameDevice DEF lvars, DInv, Devices
    <2>3. TypeOK' /\ Panels' /\ Partner' /\ Sockets' /\ Backlogs' /\ Connected'
      BY <1>1, AnnounceTypes, AnnouncePanels, AnnouncePartner, AnnounceSockets,
         AnnounceBacklogs DEF DInv
    <2> QED
      BY <2>2, <2>3 DEF DInv, Devices
  <1>2. ASSUME NEW c \in Clients, Locate(c) \/ Foreign(c) PROVE DInv'
    <2>1. UNCHANGED avars
      BY <1>2 DEF Locate, Foreign, LocateCall, LocateHs, LocateCs, LocateIgnore, LocateHear,
         LocateExpires, LocateFails, Connect, LocateReturn, LocateErr, CloseSocket
    <2>2. Panels' /\ Partner' /\ Sockets'
      BY <2>1 DEF avars, DInv, Panels, Partner, Sockets
    <2> QED
      BY <1>2, <2>2, LocateTypes, LocateBacklogs, LocateDevices DEF DInv
  <1>3. CASE UNCHANGED vars
    <2>1. UNCHANGED avars /\ UNCHANGED lvars /\ UNCHANGED <<backlog, inbox, conn>>
      BY <1>3 DEF vars
    <2>2. TypeOK'
      BY <2>1, SameTypes DEF DInv
    <2>3. Panels' /\ Partner' /\ Sockets'
      BY <2>1 DEF avars, DInv, Panels, Partner, Sockets
    <2>4. Backlogs'
      <3>1. UNCHANGED <<afds, backlog, conn>>
        BY <2>1 DEF avars
      <3>2. \A c, i, k : Waiting(c, i, k)' <=> Waiting(c, i, k)
        BY <3>1 DEF Waiting
      <3> QED
        BY <3>1, <3>2 DEF DInv, Backlogs
    <2>5. Connected'
      BY <2>1 DEF avars, lvars, DInv, Connected
    <2>6. ASSUME NEW c \in Clients PROVE Device(c)'
      BY <2>1, SameDevice DEF lvars, DInv, Devices
    <2> QED
      BY <2>2, <2>3, <2>4, <2>5, <2>6 DEF DInv, Devices
  <1> QED
    BY <1>1, <1>2, <1>3 DEF Next

\* What announce() and locate() own at each of their steps is an invariant.
THEOREM DiscoveryInvariant == Spec => []DInv
  BY DiscoveryInit, DiscoveryStep, PTL DEF Spec

\* Where no listening socket is open nobody waits to be accepted.
LEMMA NobodyWaits ==
    ASSUME TypeOK, Sockets, Backlogs, apc = "exited" \/ \A i \in Ifs : cs[i] # "live"
    PROVE  \A c \in Clients : conn[c] # "queued"
  <1>0. \A i \in Ifs : Cs(i) \notin afds
    BY DEF Sockets
  <1>1. \A i \in Ifs : backlog[i] = <<>>
    BY <1>0 DEF Backlogs
  <1>2. \A c \in Clients, i \in Ifs, k \in Nat : ~Waiting(c, i, k)
    BY <1>1, EmptySeq DEF Waiting
  <1> QED
    BY <1>2 DEF Backlogs

\* The loops of announce() stay on the interfaces that were found (TypeOK).
THEOREM DiscoveryTypes == Spec => []TypeOK
  <1>1. DInv => TypeOK
    BY DEF DInv
  <1> QED
    BY <1>1, DiscoveryInvariant, PTL

\* FreePanel never gets a panel that was freed before, unless leaving the
\* multicast group fails.
THEOREM DiscoveryNoDoubleFree == Spec => []NoDoubleFree
  <1>1. DInv => NoDoubleFree
    BY DEF DInv, Panels, NoDoubleFree
  <1> QED
    BY <1>1, DiscoveryInvariant, PTL

\* Once announce() has returned no connection of locate() is left unanswered.
THEOREM DiscoveryNoOrphan == Spec => []NoOrphan
  <1>1. DInv => NoOrphan
    BY NobodyWaits DEF DInv, Panels, NoOrphan
  <1> QED
    BY <1>1, DiscoveryInvariant, PTL

\* announce() returns with the connection as its only open socket, or fails with
\* none.
THEOREM DiscoveryReleases == Spec => []AnnounceReleases
  <1>1. DInv => AnnounceReleases
    BY DEF DInv, Panels, Partner, Sockets, AnnounceReleases
  <1> QED
    BY <1>1, DiscoveryInvariant, PTL

\* locate() leaves open what it returns and, after a timeout, the socket it gave
\* up, and nothing else.
THEOREM DiscoveryLeaks == Spec => []OnlyTimeoutLeaks
  <1>1. DInv => OnlyTimeoutLeaks
    BY Zenon DEF DInv, Devices, Device, Leaked, OnlyTimeoutLeaks
  <1> QED
    BY <1>1, DiscoveryInvariant, PTL

-----------------------------------------------------------------------------
(* Refinement *)

Server == Stage(apc, sock)
Places == [c \in Clients |-> Place(conn[c])]

\* The four states of a connection are four different places.
LEMMA PlaceOf ==
    /\ Place("none") = "out" /\ Place("queued") = "pending"
    /\ Place("accepted") = "in" /\ Place("reset") = "dropped"
  BY DEF Place

\* A step that moves no connection and after which the firmware promises the
\* same is no step of Rendezvous.
LEMMA Stutters ==
    ASSUME UNCHANGED <<conn, sock>>, Stage(apc', sock) = Stage(apc, sock)
    PROVE  UNCHANGED R!rvars
  BY DEF R!rvars

\* Closing listening sockets turns their connections away.
LEMMA ClosingTurnsAway ==
    ASSUME TypeOK, Backlogs, NEW S, Closing(S), UNCHANGED sock,
           Stage(apc', sock) = Stage(apc, sock)
    PROVE  R!TurnAway
  <1> DEFINE C == {c \in Clients : conn[c] = "queued" /\ conn'[c] = "reset"}
  <1>1. \A c \in Clients : conn'[c] = conn[c] \/ c \in C
    BY ClosingBacklogs
  <1>2. C \in SUBSET R!Pending
    BY PlaceOf DEF R!Pending
  <1>3. \A c \in Clients : Places'[c] = IF c \in C THEN "dropped" ELSE Places[c]
    BY <1>1, PlaceOf DEF Places
  <1>4. Places' = [c \in Clients |-> IF c \in C THEN "dropped" ELSE Places[c]]
    BY <1>3 DEF Places
  <1>5. Server' = Server
    BY DEF Server
  <1> HIDE DEF C
  <1> QED
    BY <1>2, <1>4, <1>5 DEF R!TurnAway, Places, Server

\* The end of the server in terms of connections.
LEMMA Ends ==
    ASSUME TypeOK, apc' \in {"invalid", "exited"},
           \A c \in Clients :
               \/ conn[c] \in {"none", "reset"} /\ conn'[c] = conn[c]
               \/ conn[c] \in {"queued", "accepted"} /\ conn'[c] = "reset"
    PROVE  R!End
  <1>1. \A c \in Clients : Places'[c] = IF Places[c] \in {"pending", "in"}
                                         THEN "dropped" ELSE Places[c]
    BY PlaceOf DEF Places
  <1>2. Places' = [c \in Clients |-> IF Places[c] \in {"pending", "in"}
                                     THEN "dropped" ELSE Places[c]]
    BY <1>1 DEF Places
  <1>3. Server' = "gone"
    BY DEF Server, Stage
  <1> QED
    BY <1>2, <1>3 DEF R!End, Places, Server

\* Every step of announce() is a step of the server, or none.
LEMMA AnnounceImplements ==
    ASSUME DInv, Announce
    PROVE  R!RNext \/ UNCHANGED R!rvars
  <1> USE DEF DInv, Goto
  <1>0. /\ None \notin Clients /\ conn \in [Clients -> {"none", "queued", "accepted", "reset"}]
    BY DiscoveryAssumption DEF TypeOK
  <1>1. CASE Populate \/ Build \/ Listen \/ SendFails \/ SelectFails
    BY <1>1, Stutters DEF Populate, Build, Listen, SendFails, SelectFails, Stage
  <1>2. CASE SelectExpires \/ \E got \in SUBSET Joined : SendTo(got)
    BY <1>2, Stutters DEF SelectExpires, NextPacket, SendTo, Stage
  <1>3. CASE LoopEnds
    <2>1. UNCHANGED <<conn, sock>> /\ ai > NumIfs
      BY <1>3 DEF LoopEnds
    <2>2. CASE apc # "cleanup"
      BY <1>3, <2>1, <2>2, Stutters DEF LoopEnds, Stage
    <2>3. CASE apc = "cleanup"
      <3>1. \A i \in Ifs : cs[i] # "live"
        <4>1. \A i \in Ifs : i < ai
          BY <2>1, DiscoveryAssumption DEF TypeOK, Ifs
        <4> QED
          BY <2>3, <4>1 DEF Panels
      <3>2. \A c \in Clients : conn[c] # "queued"
        BY <3>1, NobodyWaits
      <3>3. CASE sock = None
        <4>1. apc' = "invalid"
          BY <1>3, <2>3, <3>3 DEF LoopEnds
        <4>2. \A c \in Clients : conn[c] \in {"none", "reset"} /\ conn'[c] = conn[c]
          BY <1>0, <2>1, <3>2, <3>3 DEF Connected
        <4>3. R!End
          BY <4>1, <4>2, Ends
        <4> QED
          BY <4>3 DEF R!RNext
      <3>4. CASE sock # None
        <4>1. apc' = "serving" /\ Server = "paired" /\ Server' = "serving"
          BY <1>3, <2>1, <2>3, <3>4 DEF LoopEnds, Stage, Server
        <4>2. Places' = [c \in Clients |-> IF c \in {} THEN "dropped" ELSE Places[c]]
          BY <2>1 DEF Places
        <4>3. \A c \in Clients : Places[c] # "pending"
          BY <1>0, <3>2, PlaceOf DEF Places
        <4>4. R!Pending = {}
          BY <4>3 DEF R!Pending, Places
        <4>5. R!TurnAway
          BY <4>1, <4>2, <4>4 DEF R!TurnAway, Places, Server
        <4> QED
          BY <4>5 DEF R!RNext
      <3> QED
        BY <3>3, <3>4
    <2> QED
      BY <2>2, <2>3
  <1>4. CASE Accept /\ NextPacket /\ UNCHANGED <<backlog, conn, sock, afds>>
    BY <1>4, Stutters DEF Accept, Stage, NextPacket
  <1>8. CASE Accept /\ ~(NextPacket /\ UNCHANGED <<backlog, conn, sock, afds>>)
    <2>1. PICK h \in Ready :
             /\ backlog' = [backlog EXCEPT ![h] = Tail(@)]
             /\ \/ /\ sock' = Head(backlog[h]) /\ afds' = afds \cup {Accepted(sock')}
                   /\ conn' = [conn EXCEPT ![Head(backlog[h])] = "accepted"]
                   /\ apc' = "cleanup"
                \/ /\ conn' = [conn EXCEPT ![Head(backlog[h])] = "reset"]
                   /\ UNCHANGED <<sock, afds>> /\ NextPacket
      BY <1>8 DEF Accept
    <2>2. h \in Ifs /\ backlog[h] # <<>> /\ afds \subseteq afds' /\ apc = "select" /\ sock = None
      BY <1>8, <2>1 DEF Ready, Accept, Partner
    <2>3. PICK f : f = Head(backlog[h])
      OBVIOUS
    <2>4. f \in Clients /\ conn[f] = "queued"
      BY <2>1, <2>2, <2>3, AcceptBacklogs
    <2>5. Places[f] = "pending" /\ f \in R!Pending
      BY <2>4, PlaceOf DEF Places, R!Pending
    <2>6. CASE sock' = f /\ conn' = [conn EXCEPT ![f] = "accepted"] /\ apc' = "cleanup"
      <3>1. Server = "open" /\ Server' = "paired"
        BY <1>0, <2>2, <2>4, <2>6 DEF Server, Stage
      <3>2. \A c \in Clients : Places'[c] = IF c = f THEN "in" ELSE Places[c]
        BY <1>0, <2>4, <2>6, PlaceOf DEF Places
      <3>3. Places' = [Places EXCEPT ![f] = "in"]
        BY <2>4, <3>2 DEF Places
      <3>4. R!Take(f)
        BY <2>5, <3>1, <3>3 DEF R!Take, Places, Server
      <3> QED
        BY <2>4, <3>4 DEF R!RNext
    <2>7. CASE UNCHANGED sock /\ conn' = [conn EXCEPT ![f] = "reset"] /\ NextPacket
      <3>1. Server' = Server
        BY <2>2, <2>7 DEF Server, Stage, NextPacket
      <3>2. \A c \in Clients : Places'[c] = IF c \in {f} THEN "dropped" ELSE Places[c]
        BY <1>0, <2>4, <2>7, PlaceOf DEF Places
      <3>3. Places' = [c \in Clients |-> IF c \in {f} THEN "dropped" ELSE Places[c]]
        BY <3>2 DEF Places
      <3>4. {f} \in SUBSET R!Pending
        BY <2>5
      <3>5. R!TurnAway
        BY <3>1, <3>3, <3>4 DEF R!TurnAway, Places, Server
      <3> QED
        BY <3>5 DEF R!RNext
    <2> QED
      BY <2>1, <2>3, <2>6, <2>7
  <1>5. CASE Cleanup
    <2>1. UNCHANGED sock /\ Stage(apc', sock) = Stage(apc, sock) /\ \E S : Closing(S)
      BY <1>5 DEF Cleanup, Stage
    <2>2. R!TurnAway
      BY <2>1, ClosingTurnsAway
    <2> QED
      BY <2>2 DEF R!RNext
  <1>6. CASE AnnounceErr
    <2>1. UNCHANGED sock /\ \E S : Closing(S)
      BY <1>6 DEF AnnounceErr
    <2>2. CASE apc' = "doubleFree"
      <3>1. R!TurnAway
        BY <1>6, <2>1, <2>2, ClosingTurnsAway DEF AnnounceErr, Stage
      <3> QED
        BY <3>1 DEF R!RNext
    <2>3. CASE apc' = "invalid"
      <3>1. sock = None
        BY <1>6, <2>3 DEF AnnounceErr, Partner
      <3>2. \A c \in Clients : \/ conn'[c] = conn[c]
                               \/ conn[c] = "queued" /\ conn'[c] = "reset"
        BY <2>1, ClosingBacklogs
      <3>3. \A i \in Ifs : cs'[i] # "live"
        <4>1. cs \in [Ifs -> Pointers] /\ cs' = [i \in Ifs |-> Freed(cs[i])]
          BY <1>6 DEF AnnounceErr, TypeOK
        <4> QED
          BY <4>1, FreedPointers
      <3>4. \A i \in Ifs : Cs(i) \notin afds'
        BY <3>3, AnnounceSockets DEF Sockets
      <3>5. Backlogs'
        BY AnnounceBacklogs
      <3>6. \A i \in Ifs : backlog'[i] = <<>>
        BY <3>4, <3>5 DEF Backlogs
      <3>7. ASSUME NEW c \in Clients, NEW i \in Ifs, NEW k \in Nat PROVE ~Waiting(c, i, k)'
        <4>1. Len(backlog'[i]) = 0
          BY <3>6, EmptySeq
        <4>2. k \notin 1 .. Len(backlog'[i])
          BY <4>1
        <4> QED
          BY <4>2 DEF Waiting
      <3>8. \A c \in Clients : conn'[c] # "queued"
        BY <3>5, <3>7 DEF Backlogs
      <3>9. \A c \in Clients : conn[c] # "accepted"
        BY <1>0, <3>1 DEF Connected
      <3>10. R!End
        BY <1>0, <2>3, <3>2, <3>8, <3>9, Ends
      <3> QED
        BY <3>10 DEF R!RNext
    <2> QED
      BY <1>6, <2>2, <2>3 DEF AnnounceErr
  <1>7. CASE Exit
    <2>1. apc' = "exited" /\ conn' = [c \in Clients |-> IF conn[c] = "none" THEN "none" ELSE "reset"]
      BY <1>7 DEF Exit
    <2>2. R!End
      BY <1>0, <2>1, Ends
    <2> QED
      BY <2>2 DEF R!RNext
  <1> QED
    BY <1>1, <1>2, <1>3, <1>4, <1>5, <1>6, <1>7, <1>8 DEF Announce

\* Every step of locate() is a step of its client, or none.
LEMMA LocateImplements ==
    ASSUME DInv, NEW c \in Clients, Locate(c) \/ Foreign(c)
    PROVE  R!RNext \/ UNCHANGED R!rvars
  <1> USE DEF DInv, avars
  <1>0. conn \in [Clients -> {"none", "queued", "accepted", "reset"}]
    BY DEF TypeOK
  <1>1. CASE Connect(c)
    <2>1. /\ conn' = [conn EXCEPT ![c] = "queued"] /\ UNCHANGED <<apc, sock>>
          /\ apc \in {"send", "select", "cleanup", "listen", "err"} /\ lpc[c] = "connect"
      BY <1>1 DEF Connect, Listening
    <2>2. conn[c] = "none"
      BY <2>1 DEF Connected
    <2>3. Server \in {"open", "paired"} /\ Server' = Server
      BY <2>1 DEF Server, Stage
    <2>4. Places[c] = "out" /\ \A d \in Clients : Places'[d] = IF d = c THEN "pending" ELSE Places[d]
      BY <1>0, <2>1, <2>2, PlaceOf DEF Places
    <2>5. Places' = [Places EXCEPT ![c] = "pending"]
      BY <2>4 DEF Places
    <2>6. R!Knock(c)
      BY <2>3, <2>4, <2>5 DEF R!Knock, Places, Server
    <2> QED
      BY <2>6 DEF R!RNext
  <1>2. CASE CloseSocket(c)
    <2>1. conn[c] = "reset" /\ conn' = [conn EXCEPT ![c] = "none"] /\ UNCHANGED <<apc, sock>>
      BY <1>2 DEF CloseSocket
    <2>2. Server' = Server
      BY <2>1 DEF Server
    <2>3. Places[c] = "dropped" /\ \A d \in Clients : Places'[d] = IF d = c THEN "out" ELSE Places[d]
      BY <1>0, <2>1, PlaceOf DEF Places
    <2>4. Places' = [Places EXCEPT ![c] = "out"]
      BY <2>3 DEF Places
    <2>5. R!Retry(c)
      BY <2>2, <2>3, <2>4 DEF R!Retry, Places, Server
    <2> QED
      BY <2>5 DEF R!RNext
  <1>3. CASE \/ LocateCall(c) \/ LocateHs(c) \/ LocateCs(c) \/ LocateIgnore(c) \/ LocateHear(c)
             \/ LocateExpires(c) \/ LocateFails(c) \/ LocateReturn(c) \/ LocateErr(c) \/ Foreign(c)
    <2>1. UNCHANGED <<apc, sock, conn>>
      BY <1>3 DEF LocateCall, LocateHs, LocateCs, LocateIgnore, LocateHear, LocateExpires,
         LocateFails, LocateReturn, LocateErr, Foreign
    <2> QED
      BY <2>1, Stutters
  <1> QED
    BY <1>1, <1>2, <1>3 DEF Locate

\* announce() and locate() implement Rendezvous: the server takes at most one
\* client, and neither serves nor gives up while a client is pending.
THEOREM DiscoveryImplements == Spec => Rendezvous
  <1>1. Init => R!RInit
    <2> SUFFICES ASSUME Init PROVE R!RInit
      OBVIOUS
    <2>1. Server = "open"
      BY DEF Init, Server, Stage
    <2>2. Places = [c \in Clients |-> "out"]
      BY PlaceOf DEF Init, Places
    <2> QED
      BY <2>1, <2>2 DEF R!RInit, Places, Server
  <1>2. DInv /\ [Next]_vars => [R!RNext]_(R!rvars)
    <2> SUFFICES ASSUME DInv, [Next]_vars PROVE R!RNext \/ UNCHANGED R!rvars
      OBVIOUS
    <2>1. CASE Announce
      BY <2>1, AnnounceImplements
    <2>2. ASSUME NEW c \in Clients, Locate(c) \/ Foreign(c) PROVE R!RNext \/ UNCHANGED R!rvars
      BY <2>2, LocateImplements
    <2>3. CASE UNCHANGED vars
      BY <2>3, Stutters DEF vars, avars
    <2> QED
      BY <2>1, <2>2, <2>3 DEF Next
  <1> QED
    BY <1>1, <1>2, DiscoveryInvariant, PTL DEF Spec, Rendezvous, R!RSpec

=============================================================================
