------------------------------- MODULE AioPool -------------------------------
(***************************************************************************)
(* QEMU's disk requests: the thread pool of posix-aio-compat.c, the list   *)
(* of requests whose callback is due, the signal that announces a          *)
(* completion, qemu_aio_wait and qemu_aio_flush (aio.c) and the contexts   *)
(* of async.c, which hold back the callbacks of a device while it waits    *)
(* for a request of its own.                                               *)
(*                                                                         *)
(* The emulator is one actor: its threads hold the global mutex in turn.   *)
(* The pool's threads run beside it.  What is done under the pool's lock   *)
(* is one step.                                                            *)
(***************************************************************************)
EXTENDS Integers, Sequences, FiniteSets

CONSTANTS
    Reqs,           \* the requests (struct qemu_paiocb), used again and again
    Threads,        \* the threads there may be
    max_threads,
    MaxDepth,       \* bound: contexts on top of the first
    MaxChain,       \* bound: requests the callbacks of one walk of the list make
    None

ASSUME AioAssumption ==
    /\ None \notin Reqs
    /\ max_threads \in Nat \ {0} /\ MaxDepth \in Nat /\ MaxChain \in Nat
    /\ IsFiniteSet(Threads) /\ Cardinality(Threads) > max_threads

VARIABLES
    request_list,
    first_aio,      \* the requests not yet released
    ret, active, async_context_id,
    cur_threads, idle_threads,
    tpc, aiocb,     \* where each thread is, and its request
    sig,            \* is SIGUSR2 pending?
    mode,           \* where the emulator is
    todo,           \* what posix_aio_process_queue has still to look at
    victim,         \* the request paio_cancel waits for
    level,          \* one record for each context, the current one last
    bh              \* is a bottom half scheduled to look for completions?

rvars == <<request_list, first_aio, ret, active, async_context_id>>
tvars == <<cur_threads, idle_threads, tpc, aiocb>>
evars == <<mode, todo, victim, level, bh>>
vars == <<rvars, tvars, sig, evars>>

-----------------------------------------------------------------------------
depth == Len(level)
Here == level[depth]

\* goal: the request a synchronous operation waits for; left: the requests its
\* callbacks may still make; incb: is a callback running; phase: who called
\* posix_aio_process_queue; result: what it will return.
Frame(g) ==
    [goal |-> g, left |-> MaxChain, incb |-> FALSE, phase |-> "main", result |-> FALSE]

Init ==
    /\ request_list = <<>> /\ first_aio = <<>>
    /\ ret = [r \in Reqs |-> "done"]
    /\ active = [r \in Reqs |-> FALSE]
    /\ async_context_id = [r \in Reqs |-> 1]
    /\ cur_threads = 0 /\ idle_threads = 0
    /\ tpc = [t \in Threads |-> "dead"]
    /\ aiocb = [t \in Threads |-> None]
    /\ sig = FALSE
    /\ mode = "run" /\ todo = <<>> /\ victim = None
    /\ level = <<Frame(None)>>
    /\ bh = <<FALSE>>

Elements(s) == {s[i] : i \in DOMAIN s}
\* A list without r, which is on it at most once.
Without(s, r) ==
    IF r \in Elements(s)
    THEN LET k == CHOOSE k \in DOMAIN s : s[k] = r
         IN  [i \in 1 .. Len(s) - 1 |-> IF i < k THEN s[i] ELSE s[i + 1]]
    ELSE s

-----------------------------------------------------------------------------
(* aio_thread                                                              *)

Take(t) ==
    /\ tpc[t] \in {"start", "late"} /\ request_list # <<>>
    /\ aiocb' = [aiocb EXCEPT ![t] = Head(request_list)]
    /\ request_list' = Tail(request_list)
    /\ active' = [active EXCEPT ![Head(request_list)] = TRUE]
    /\ idle_threads' = idle_threads - 1
    /\ tpc' = [tpc EXCEPT ![t] = "work"]
    /\ UNCHANGED <<first_aio, ret, async_context_id, cur_threads, sig, evars>>

Sleep(t) ==
    /\ tpc[t] = "start" /\ request_list = <<>>
    /\ tpc' = [tpc EXCEPT ![t] = "wait"]
    /\ UNCHANGED <<rvars, cur_threads, idle_threads, aiocb, sig, evars>>

\* cond_timedwait returns by itself, after ten seconds or for no reason.
Wake(t) ==
    /\ tpc[t] = "wait"
    /\ \E w \in {"start", "late"} : tpc' = [tpc EXCEPT ![t] = w]
    /\ UNCHANGED <<rvars, cur_threads, idle_threads, aiocb, sig, evars>>

ExitAtOnce(t) ==
    /\ tpc[t] = "late"
    /\ tpc' = [tpc EXCEPT ![t] = "dead"]
    /\ idle_threads' = idle_threads - 1
    /\ cur_threads' = cur_threads - 1
    /\ UNCHANGED <<rvars, aiocb, sig, evars>>

Exit(t) ==
    /\ tpc[t] = "late" /\ request_list = <<>>
    /\ tpc' = [tpc EXCEPT ![t] = "dead"]
    /\ idle_threads' = idle_threads - 1
    /\ cur_threads' = cur_threads - 1
    /\ UNCHANGED <<rvars, aiocb, sig, evars>>

\* The request is done; what it returned is not told apart.  Of the request
\* the thread reads only the number of the signal from here on.
Finish(t) ==
    /\ tpc[t] = "work"
    /\ ret' = [ret EXCEPT ![aiocb[t]] = "done"]
    /\ idle_threads' = idle_threads + 1
    /\ tpc' = [tpc EXCEPT ![t] = "kill"]
    /\ aiocb' = [aiocb EXCEPT ![t] = None]
    /\ UNCHANGED <<request_list, first_aio, active, async_context_id, cur_threads,
                   sig, evars>>

KillSilently(t) ==
    /\ tpc[t] = "kill"
    /\ tpc' = [tpc EXCEPT ![t] = "start"]
    /\ UNCHANGED <<rvars, cur_threads, idle_threads, aiocb, sig, evars>>

Kill(t) ==
    /\ tpc[t] = "kill"
    /\ sig' = TRUE
    /\ tpc' = [tpc EXCEPT ![t] = "start"]
    /\ UNCHANGED <<rvars, cur_threads, idle_threads, aiocb, evars>>

Thread(t) == Take(t) \/ Sleep(t) \/ Exit(t) \/ Finish(t) \/ Kill(t)

-----------------------------------------------------------------------------
(* Submitting and cancelling, by a device or by a callback.                *)

MoreThreads == cur_threads <= max_threads

FewerThreads == cur_threads < max_threads

\* paio_submit of r in context c, up to the unlock of qemu_paio_submit.
paio_submit(r, c) ==
    /\ r \notin Elements(first_aio)
    /\ first_aio' = <<r>> \o first_aio
    /\ async_context_id' = [async_context_id EXCEPT ![r] = c]
    /\ ret' = [ret EXCEPT ![r] = "inprogress"]
    /\ active' = [active EXCEPT ![r] = FALSE]
    /\ IF idle_threads = 0 /\ FewerThreads
       THEN \E t \in Threads :
               /\ tpc[t] = "dead"
               /\ tpc' = [tpc EXCEPT ![t] = "start"]
               /\ cur_threads' = cur_threads + 1
               /\ idle_threads' = idle_threads + 1
       ELSE UNCHANGED <<tpc, cur_threads, idle_threads>>
    /\ request_list' = Append(request_list, r)
    /\ mode' = "signal"

\* In a context of its own only the callback of the request that is waited for
\* submits another one, and that is waited for next.
Submit(r) ==
    /\ mode = "run"
    /\ Here.incb => Here.left > 0
    /\ depth > 1 => Here.goal \notin Elements(first_aio)
    /\ paio_submit(r, depth)
    /\ level' = [level EXCEPT ![depth].goal = IF depth > 1 THEN r ELSE @,
                              ![depth].left = IF Here.incb THEN @ - 1 ELSE @]
    /\ UNCHANGED <<aiocb, sig, todo, victim, bh>>

\* bdrv_read_em and bdrv_write_em: a request in a new context.  One that cannot
\* be submitted (acb == NULL) would only schedule a bottom half; it is left out.
Synchronous(r) ==
    /\ mode = "run" /\ depth <= MaxDepth
    /\ paio_submit(r, depth + 1)
    /\ level' = Append(level, Frame(r))
    /\ bh' = Append(bh, FALSE)
    /\ UNCHANGED <<aiocb, sig, todo, victim>>

\* cond_signal, after the lock is given up.
Signal ==
    /\ mode = "signal"
    /\ mode' = IF depth > 1 /\ ~Here.incb THEN "wait" ELSE "run"
    /\ IF \E t \in Threads : tpc[t] = "wait"
       THEN \E t \in Threads : tpc[t] = "wait" /\ tpc' = [tpc EXCEPT ![t] = "start"]
       ELSE UNCHANGED tpc
    /\ UNCHANGED <<rvars, cur_threads, idle_threads, aiocb, sig, todo, victim, level, bh>>

\* The request leaves the list and is released: its fields mean nothing now,
\* not even the result of one that was cancelled.
Release(r) ==
    /\ first_aio' = Without(first_aio, r)
    /\ ret' = [ret EXCEPT ![r] = "done"]
    /\ active' = [active EXCEPT ![r] = FALSE]
    /\ async_context_id' = [async_context_id EXCEPT ![r] = 1]

\* A cancellation that does not wait for the thread.
CancelActiveToo(r) ==
    /\ mode = "run" /\ r \in Elements(first_aio) /\ \A i \in 1..depth : level[i].goal # r
    /\ request_list' = Without(request_list, r)
    /\ Release(r)
    /\ UNCHANGED <<tvars, sig, evars>>

paio_cancel(r) ==
    /\ mode = "run" /\ r \in Elements(first_aio) /\ \A i \in 1..depth : level[i].goal # r
    /\ request_list' = Without(request_list, r)
    /\ IF active[r] /\ ret[r] = "inprogress"
       THEN /\ mode' = "cancel" /\ victim' = r
            /\ UNCHANGED <<first_aio, ret, active, async_context_id>>
       ELSE Release(r) /\ UNCHANGED <<mode, victim>>
    /\ UNCHANGED <<tvars, sig, todo, level, bh>>

\* "fail safe: if the aio could not be canceled, we wait for it"
CancelWaits ==
    /\ mode = "cancel" /\ ret[victim] # "inprogress"
    /\ Release(victim)
    /\ mode' = "run" /\ victim' = None
    /\ UNCHANGED <<request_list, tvars, sig, todo, level, bh>>

-----------------------------------------------------------------------------
(* posix_aio_process_queue                                                 *)

Scan(phase) ==
    /\ mode' = "scan"
    /\ todo' = first_aio
    /\ level' = [level EXCEPT ![depth].phase = phase]

NotMine(r) == async_context_id[r] # depth

Skip ==
    /\ mode = "scan" /\ todo # <<>>
    /\ NotMine(Head(todo)) \/ ret[Head(todo)] = "inprogress"
    /\ todo' = Tail(todo)
    /\ UNCHANGED <<rvars, tvars, sig, mode, victim, level, bh>>

\* The request is over: it is removed from the list and its callback called.
\* The code gives the structure back after the callback; a structure that the
\* callback takes already here stands for a new one.  The branch for ECANCELED is
\* not met: paio_cancel takes the request off the list before the next walk.
Callback ==
    /\ mode = "scan" /\ todo # <<>>
    /\ ~NotMine(Head(todo)) /\ ret[Head(todo)] = "done"
    /\ Release(Head(todo))
    /\ level' = [level EXCEPT ![depth].incb = TRUE]
    /\ mode' = "run"
    /\ todo' = <<>>
    /\ UNCHANGED <<request_list, tvars, sig, victim, bh>>

\* The callback returns; the walk begins again at the head of the list.
CallbackReturns ==
    /\ mode = "run" /\ Here.incb
    /\ mode' = "scan"
    /\ todo' = first_aio
    /\ level' = [level EXCEPT ![depth].incb = FALSE, ![depth].result = TRUE]
    /\ UNCHANGED <<rvars, tvars, sig, victim, bh>>

\* Where the emulator goes on after the walk.
After ==
    CASE Here.phase = "main" -> "run"
      [] Here.phase = "queue" /\ ~Here.result /\ first_aio # <<>> -> "select"
      [] OTHER -> "returned"

ScanEnds ==
    /\ mode = "scan" /\ todo = <<>>
    /\ mode' = After
    /\ level' = [level EXCEPT ![depth].phase = "main", ![depth].result = FALSE,
                              ![depth].left = IF depth > 1 THEN @ ELSE MaxChain]
    /\ UNCHANGED <<rvars, tvars, sig, todo, victim, bh>>

-----------------------------------------------------------------------------
(* The main loop, qemu_aio_wait and what calls it.                         *)

Polling == mode = "run" /\ depth = 1 /\ ~Here.incb

MainLoopRead ==
    /\ Polling /\ sig
    /\ sig' = FALSE
    /\ Scan("main")
    /\ UNCHANGED <<rvars, tvars, victim, bh>>

MainLoopBh ==
    /\ Polling /\ bh[1]
    /\ bh' = [bh EXCEPT ![1] = FALSE]
    /\ Scan("main")
    /\ UNCHANGED <<rvars, tvars, sig, victim>>

qemu_aio_flush ==
    /\ Polling
    /\ mode' = "wait"
    /\ UNCHANGED <<rvars, tvars, sig, todo, victim, level, bh>>

\* qemu_aio_wait up to select(): the bottom halves, then the queue.
qemu_aio_wait ==
    /\ mode = "wait"
    /\ bh' = [bh EXCEPT ![depth] = FALSE]
    /\ Scan(IF bh[depth] THEN "bh" ELSE "queue")
    /\ UNCHANGED <<rvars, tvars, sig, victim>>

posix_aio_read ==
    /\ mode = "select" /\ sig
    /\ sig' = FALSE
    /\ Scan("read")
    /\ UNCHANGED <<rvars, tvars, victim, bh>>

WaitingOnce ==
    depth = 1 /\ (first_aio # <<>> \/ bh[1])

Waiting ==
    IF depth > 1 THEN Here.goal \in Elements(first_aio) ELSE first_aio # <<>> \/ bh[1]

WaitAgain ==
    /\ mode = "returned" /\ Waiting
    /\ mode' = "wait"
    /\ UNCHANGED <<rvars, tvars, sig, todo, victim, level, bh>>

FlushReturns ==
    /\ mode = "returned" /\ depth = 1 /\ ~Waiting
    /\ mode' = "run"
    /\ UNCHANGED <<rvars, tvars, sig, todo, victim, level, bh>>

\* async_context_pop: the bottom halves of the context first.
PopRuns ==
    /\ mode = "returned" /\ depth > 1 /\ ~Waiting /\ bh[depth]
    /\ bh' = [bh EXCEPT ![depth] = FALSE]
    /\ Scan("bh")
    /\ UNCHANGED <<rvars, tvars, sig, victim>>

PopQuietly ==
    /\ mode = "returned" /\ depth > 1 /\ ~Waiting /\ ~bh[depth]
    /\ level' = SubSeq(level, 1, depth - 1)
    /\ bh' = SubSeq(bh, 1, depth - 1)
    /\ mode' = "run"
    /\ UNCHANGED <<rvars, tvars, sig, todo, victim>>

PopKeepsBh ==
    /\ mode = "returned" /\ depth > 1 /\ ~Waiting /\ ~bh[depth]
    /\ level' = SubSeq(level, 1, depth - 1)
    /\ bh' = [bh EXCEPT ![depth - 1] = TRUE]
    /\ mode' = "run"
    /\ UNCHANGED <<rvars, tvars, sig, todo, victim>>

async_context_pop ==
    /\ mode = "returned" /\ depth > 1 /\ ~Waiting /\ ~bh[depth]
    /\ level' = SubSeq(level, 1, depth - 1)
    /\ bh' = [SubSeq(bh, 1, depth - 1) EXCEPT ![depth - 1] = TRUE]
    /\ mode' = "run"
    /\ UNCHANGED <<rvars, tvars, sig, todo, victim>>

-----------------------------------------------------------------------------
\* What the emulator does once it has begun it.
Emulator ==
    \/ Signal \/ CancelWaits \/ Skip \/ Callback \/ CallbackReturns \/ ScanEnds
    \/ qemu_aio_wait \/ posix_aio_read \/ WaitAgain \/ FlushReturns
    \/ PopRuns \/ async_context_pop

MainLoop == MainLoopRead \/ MainLoopBh

Next ==
    \/ Emulator \/ MainLoop \/ qemu_aio_flush
    \/ \E r \in Reqs : Submit(r) \/ Synchronous(r) \/ paio_cancel(r)
    \/ \E t \in Threads : Thread(t) \/ Wake(t)

Spec == Init /\ [][Next]_vars

\* The operating system runs every thread of the pool, and a disk answers; the
\* emulator goes on with what it has begun, a callback comes to its end, and the
\* main loop gets round to the signal and to the bottom half again and again.
FairSpec ==
    /\ Spec /\ WF_vars(Emulator)
    /\ \A d \in 1..(MaxDepth + 1) : SF_vars(depth = d /\ CallbackReturns)
    /\ SF_vars(MainLoopRead) /\ SF_vars(MainLoopBh)
    /\ \A t \in Threads : WF_vars(Thread(t))

-----------------------------------------------------------------------------
Alive == {t \in Threads : tpc[t] # "dead"}

Phases == {"main", "bh", "queue", "read"}
Frames ==
    [goal : Reqs \cup {None}, left : 0..MaxChain, incb : BOOLEAN, phase : Phases,
     result : BOOLEAN]

\* Every variable holds a value of its type.
TypeOK ==
    /\ request_list \in Seq(Reqs) /\ first_aio \in Seq(Reqs) /\ todo \in Seq(Reqs)
    /\ ret \in [Reqs -> {"inprogress", "done"}]
    /\ active \in [Reqs -> BOOLEAN]
    /\ async_context_id \in [Reqs -> 1..(MaxDepth + 1)]
    /\ cur_threads \in Int /\ idle_threads \in Int
    /\ tpc \in [Threads -> {"dead", "start", "wait", "late", "work", "kill"}]
    /\ aiocb \in [Threads -> Reqs \cup {None}]
    /\ sig \in BOOLEAN /\ victim \in Reqs \cup {None}
    /\ mode \in {"run", "signal", "cancel", "scan", "wait", "select", "returned"}
    /\ level \in Seq(Frames)
    /\ depth \in 1..(MaxDepth + 1)
    /\ bh \in Seq(BOOLEAN) /\ Len(bh) = depth

\* The counters that qemu_paio_submit decides by are right whenever the lock is
\* free, and there are never more than max_threads threads.
Accounting ==
    /\ cur_threads = Cardinality(Alive)
    /\ idle_threads = Cardinality({t \in Alive : tpc[t] # "work"})
    /\ cur_threads <= max_threads

\* A request is never left on the list with every thread asleep or gone, unless
\* the signal for it is just about to be given: a timeout cannot race a request.
SomeoneComes ==
    request_list # <<>> =>
        mode = "signal" \/ \E t \in Alive : tpc[t] # "wait"

\* A thread only ever works on, and writes its result to, a request that has not
\* been released, and no other thread has it: paio_cancel waits for the thread.
WorksOnItsOwn ==
    \A t \in Threads : tpc[t] = "work" =>
        /\ aiocb[t] \in Elements(first_aio)
        /\ ret[aiocb[t]] = "inprogress"
        /\ \A u \in Threads : u # t /\ tpc[u] = "work" => aiocb[u] # aiocb[t]

\* The emulator never sleeps in select() over a request of its own context that
\* is over, without a signal pending or about to be sent.
NoLostCompletion ==
    mode = "select" /\ (\E r \in Elements(first_aio) : ~NotMine(r) /\ ret[r] = "done") =>
        sig \/ \E t \in Threads : tpc[t] = "kill"

\* Requests belong to contexts that are still there: none is left behind when its
\* context is popped.
NoneLeftBehind ==
    \A r \in Elements(first_aio) : async_context_id[r] <= depth

\* Every request is in the end called back or cancelled.
Completes ==
    \A r \in Reqs : r \in Elements(first_aio) ~> r \notin Elements(first_aio)
=============================================================================
