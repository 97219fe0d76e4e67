----------------------------- MODULE Rendezvous -----------------------------
(***************************************************************************)
(* What announce() and locate() promise together.  One server looks for    *)
(* one partner among the clients.  A client that has connected is pending  *)
(* until the server takes it or drops it; the server takes at most one     *)
(* client, and it neither serves nor gives up while a client is pending:   *)
(* whoever waits on a connection has a partner or finds it closed.         *)
(***************************************************************************)
CONSTANT Clients

VARIABLES
    server,     \* "open", "paired", "serving" or "gone"
    place       \* of each client: "out", "pending", "in" or "dropped"

rvars == <<server, place>>

Pending == {c \in Clients : place[c] = "pending"}

RInit ==
    /\ server = "open"
    /\ place = [c \in Clients |-> "out"]

Knock(c) ==
    /\ server \in {"open", "paired"}
    /\ place[c] = "out"
    /\ place' = [place EXCEPT ![c] = "pending"]
    /\ UNCHANGED server

Take(c) ==
    /\ server = "open"
    /\ place[c] = "pending"
    /\ server' = "paired"
    /\ place' = [place EXCEPT ![c] = "in"]

\* Some pending clients are turned away; once none is left the server may
\* begin to serve the one it took.
TurnAway ==
    \E C \in SUBSET Pending :
        /\ place' = [c \in Clients |-> IF c \in C THEN "dropped" ELSE place[c]]
        /\ \/ UNCHANGED server
           \/ server = "paired" /\ C = Pending /\ server' = "serving"

\* The server ends, and every connection with it.
End ==
    /\ server' = "gone"
    /\ place' = [c \in Clients |-> IF place[c] \in {"pending", "in"}
                                   THEN "dropped" ELSE place[c]]

\* A client gives up a connection it has lost.
Retry(c) ==
    /\ place[c] = "dropped"
    /\ place' = [place EXCEPT ![c] = "out"]
    /\ UNCHANGED server

RNext ==
    \/ \E c \in Clients : Knock(c) \/ Take(c) \/ Retry(c)
    \/ TurnAway
    \/ End

RSpec == RInit /\ [][RNext]_rvars
=============================================================================
