---------------------------- MODULE AioPoolProofs ----------------------------
(***************************************************************************)
(* Proofs about AioPool, for any number of requests, threads and contexts. *)
(***************************************************************************)
EXTENDS AioPool, SequenceTheorems, FiniteSetTheorems, TLAPS

\* No element is on the list twice.
Injective(s) == \A i, j \in DOMAIN s : s[i] = s[j] => i = j

-----------------------------------------------------------------------------
(* Lists *)

\* A request that is appended to a list is on it, after the others.
LEMMA AppendElements ==
    ASSUME NEW S, NEW s \in Seq(S), NEW x \in S
    PROVE  /\ Append(s, x) \in Seq(S)
           /\ Elements(Append(s, x)) = Elements(s) \cup {x}
           /\ Injective(s) /\ x \notin Elements(s) => Injective(Append(s, x))
  <1> DEFINE a == Append(s, x)
  <1>1. /\ a \in Seq(S) /\ Len(s) \in Nat /\ Len(a) = Len(s) + 1
        /\ DOMAIN a = 1 .. Len(s) + 1 /\ DOMAIN s = 1 .. Len(s)
        /\ a[Len(s) + 1] = x /\ \A i \in 1 .. Len(s) : a[i] = s[i]
    OBVIOUS
  <1> HIDE DEF a
  <1>2. Elements(a) = Elements(s) \cup {x}
    <2>1. Elements(a) \subseteq Elements(s) \cup {x}
      BY <1>1 DEF Elements
    <2>2. x \in Elements(a) /\ Elements(s) \subseteq Elements(a)
      BY <1>1 DEF Elements
    <2> QED
      BY <2>1, <2>2
  <1>3. ASSUME Injective(s), x \notin Elements(s) PROVE Injective(a)
    BY <1>1, <1>3 DEF Injective, Elements
  <1> QED
    BY <1>1, <1>2, <1>3 DEF a

\* A request that is put in front of a list is on it, before the others.
LEMMA PutInFront ==
    ASSUME NEW S, NEW s \in Seq(S), NEW x \in S
    PROVE  /\ <<x>> \o s \in Seq(S)
           /\ Elements(<<x>> \o s) = Elements(s) \cup {x}
           /\ Injective(s) /\ x \notin Elements(s) => Injective(<<x>> \o s)
  <1> DEFINE a == <<x>> \o s
  <1>1. /\ a \in Seq(S) /\ Len(s) \in Nat /\ Len(a) = Len(s) + 1
        /\ DOMAIN a = 1 .. Len(s) + 1 /\ DOMAIN s = 1 .. Len(s)
        /\ a[1] = x /\ \A i \in 2 .. Len(s) + 1 : a[i] = s[i - 1]
    OBVIOUS
  <1> HIDE DEF a
  <1>2. /\ \A i \in 1 .. Len(s) : i + 1 \in 1 .. Len(s) + 1 /\ a[i + 1] = s[i]
        /\ \A i \in 1 .. Len(s) + 1 :
              i = 1 \/ (i \in 2 .. Len(s) + 1 /\ i - 1 \in 1 .. Len(s))
    BY <1>1
  <1>3. Elements(a) = Elements(s) \cup {x}
    <2>1. Elements(a) \subseteq Elements(s) \cup {x}
      BY <1>1, <1>2 DEF Elements
    <2>2. ASSUME NEW i \in 1 .. Len(s) PROVE s[i] \in Elements(a)
      BY <1>1, <1>2 DEF Elements
    <2>3. x \in Elements(a) /\ Elements(s) \subseteq Elements(a)
      <3>1. 1 \in 1 .. Len(s) + 1
        BY <1>1
      <3> QED
        BY <1>1, <2>2, <3>1 DEF Elements
    <2> QED
      BY <2>1, <2>3
  <1>4. ASSUME Injective(s), x \notin Elements(s) PROVE Injective(a)
    <2> SUFFICES ASSUME NEW i \in 1 .. Len(s) + 1, NEW j \in 1 .. Len(s) + 1,
                        a[i] = a[j]
                 PROVE  i = j
      BY <1>1 DEF Injective
    <2>1. CASE i = 1 \/ j = 1
      <3>1. \A n \in 1 .. Len(s) + 1 : n # 1 => a[n] \in Elements(s)
        BY <1>1, <1>2 DEF Elements
      <3> QED
        BY <1>1, <1>4, <2>1, <3>1
    <2>2. CASE i # 1 /\ j # 1
      <3>1. s[i - 1] = s[j - 1] /\ i - 1 \in 1 .. Len(s) /\ j - 1 \in 1 .. Len(s)
        BY <1>1, <1>2, <2>2
      <3>2. i - 1 = j - 1
        BY <1>1, <1>4, <3>1 DEF Injective
      <3> QED
        BY <3>2
    <2> QED
      BY <2>1, <2>2
  <1> QED
    BY <1>1, <1>3, <1>4 DEF a

\* What a list holds is its head and what its tail holds.
LEMMA HeadAndTail ==
    ASSUME NEW S, NEW s \in Seq(S), s # <<>>
    PROVE  /\ Head(s) \in S /\ Tail(s) \in Seq(S)
           /\ Elements(s) = Elements(Tail(s)) \cup {Head(s)}
           /\ Injective(s) => Injective(Tail(s)) /\ Head(s) \notin Elements(Tail(s))
  <1> DEFINE a == Tail(s)
  <1>1. /\ a \in Seq(S) /\ Len(s) \in Nat /\ Len(s) > 0 /\ Len(a) = Len(s) - 1
        /\ DOMAIN a = 1 .. Len(s) - 1 /\ DOMAIN s = 1 .. Len(s)
        /\ Head(s) = s[1] /\ s[1] \in S
        /\ \A i \in 1 .. Len(s) - 1 : a[i] = s[i + 1]
    OBVIOUS
  <1> HIDE DEF a
  <1>2. /\ \A i \in 2 .. Len(s) : i - 1 \in 1 .. Len(s) - 1 /\ a[i - 1] = s[i]
        /\ \A i \in 1 .. Len(s) - 1 :
              i + 1 \in 1 .. Len(s) /\ i + 1 # 1 /\ a[i] = s[i + 1]
        /\ 1 \in 1 .. Len(s)
        /\ \A i \in 1 .. Len(s) : i = 1 \/ i \in 2 .. Len(s)
    BY <1>1
  <1>3. Elements(s) = Elements(a) \cup {s[1]}
    <2>1. ASSUME NEW i \in 1 .. Len(s) PROVE s[i] \in Elements(a) \cup {s[1]}
      BY <1>1, <1>2 DEF Elements
    <2>2. ASSUME NEW i \in 1 .. Len(s) - 1 PROVE a[i] \in Elements(s)
      BY <1>1, <1>2 DEF Elements
    <2>3. s[1] \in Elements(s)
      BY <1>1, <1>2 DEF Elements
    <2>4. Elements(s) \subseteq Elements(a) \cup {s[1]} /\ Elements(a) \subseteq Elements(s)
      BY <1>1, <2>1, <2>2 DEF Elements
    <2> QED
      BY <2>3, <2>4
  <1>4. ASSUME Injective(s) PROVE Injective(a) /\ s[1] \notin Elements(a)
    <2>1. s[1] \notin Elements(a)
      BY <1>1, <1>2, <1>4 DEF Injective, Elements
    <2>2. ASSUME NEW i \in 1 .. Len(s) - 1, NEW j \in 1 .. Len(s) - 1, a[i] = a[j]
          PROVE  i = j
      <3>1. s[i + 1] = s[j + 1] /\ i + 1 \in 1 .. Len(s) /\ j + 1 \in 1 .. Len(s)
        BY <1>2, <2>2
      <3>2. i + 1 = j + 1
        BY <1>1, <1>4, <3>1 DEF Injective
      <3> QED
        BY <3>2
    <2> QED
      BY <1>1, <2>1, <2>2 DEF Injective
  <1> QED
    BY <1>1, <1>3, <1>4 DEF a

\* Without takes one request off a list and leaves the others.
LEMMA WithoutElements ==
    ASSUME NEW S, NEW s \in Seq(S), NEW r
    PROVE  /\ Without(s, r) \in Seq(S)
           /\ Injective(s) => /\ Elements(Without(s, r)) = Elements(s) \ {r}
                              /\ Injective(Without(s, r))
  <1>1. CASE r \notin Elements(s)
    BY <1>1 DEF Without
  <1>2. CASE r \in Elements(s)
    <2> DEFINE k == CHOOSE k \in DOMAIN s : s[k] = r
               a == [i \in 1 .. Len(s) - 1 |-> IF i < k THEN s[i] ELSE s[i + 1]]
    <2>1. Without(s, r) = a
      BY <1>2 DEF Without
    <2>2. /\ Len(s) \in Nat /\ DOMAIN s = 1 .. Len(s) /\ k \in 1 .. Len(s) /\ s[k] = r
          /\ \A i \in 1 .. Len(s) : s[i] \in S
      BY <1>2 DEF Elements
    <2> HIDE DEF k
    <2>3. /\ DOMAIN a = 1 .. Len(s) - 1 /\ Len(s) - 1 \in Nat
          /\ \A i \in 1 .. Len(s) - 1 : i < k => a[i] = s[i]
          /\ \A i \in 1 .. Len(s) - 1 : ~(i < k) => a[i] = s[i + 1]
          /\ \A i \in 1 .. Len(s) - 1 : a[i] \in S
      BY <2>2
    <2> HIDE DEF a
    <2>4. a \in Seq(S)
      <3>1. a \in [1 .. Len(s) - 1 -> S]
        BY <2>3 DEF a
      <3> QED
        BY <2>3, <3>1, SeqDef
    <2>5. ASSUME Injective(s) PROVE Elements(a) \subseteq Elements(s) \ {r}
      <3> SUFFICES ASSUME NEW i \in 1 .. Len(s) - 1 PROVE a[i] \in Elements(s) \ {r}
        BY <2>3 DEF Elements
      <3> DEFINE at == IF i < k THEN i ELSE i + 1
      <3>1. at \in 1 .. Len(s) /\ at # k /\ a[i] = s[at]
        BY <2>2, <2>3
      <3> HIDE DEF at
      <3>2. s[at] # s[k]
        BY <2>2, <2>5, <3>1 DEF Injective
      <3> QED
        BY <2>2, <3>1, <3>2 DEF Elements
    <2>6. Elements(s) \ {r} \subseteq Elements(a)
      <3> SUFFICES ASSUME NEW i \in 1 .. Len(s), s[i] # r PROVE s[i] \in Elements(a)
        BY <2>2 DEF Elements
      <3>1. CASE i < k
        BY <2>2, <2>3, <3>1 DEF Elements
      <3>2. CASE ~(i < k)
        <4>1. i - 1 \in 1 .. Len(s) - 1 /\ ~(i - 1 < k) /\ (i - 1) + 1 = i
          BY <2>2, <3>2
        <4> QED
          BY <2>3, <4>1 DEF Elements
      <3> QED
        BY <3>1, <3>2
    <2>7. ASSUME Injective(s) PROVE Injective(a)
      <3> SUFFICES ASSUME NEW i \in 1 .. Len(s) - 1, NEW j \in 1 .. Len(s) - 1,
                          a[i] = a[j]
                   PROVE  i = j
        BY <2>3 DEF Injective
      <3> DEFINE at(n) == IF n < k THEN n ELSE n + 1
      <3>1. /\ at(i) \in 1 .. Len(s) /\ at(j) \in 1 .. Len(s)
            /\ a[i] = s[at(i)] /\ a[j] = s[at(j)]
        BY <2>2, <2>3
      <3>2. at(i) = at(j)
        BY <2>2, <2>7, <3>1 DEF Injective
      <3> QED
        BY <2>2, <3>2
    <2> QED
      BY <2>1, <2>4, <2>5, <2>6, <2>7
  <1> QED
    BY <1>1, <1>2

-----------------------------------------------------------------------------
(* Types *)

\* The record of the current context is one, and replacing it keeps the others.
LEMMA LevelUpdate ==
    ASSUME TypeOK, NEW f \in Frames, level' = [level EXCEPT ![depth] = f]
    PROVE  /\ level' \in Seq(Frames) /\ depth' = depth /\ depth' \in 1 .. MaxDepth + 1
           /\ Here' = f /\ \A i \in 1 .. depth - 1 : level'[i] = level[i]
  BY DEF TypeOK, depth, Here

\* A released request leaves every field with a value of its type.
LEMMA ReleaseType ==
    ASSUME TypeOK, NEW r, Release(r)
    PROVE  /\ first_aio' \in Seq(Reqs)
           /\ ret' \in [Reqs -> {"inprogress", "done"}]
           /\ active' \in [Reqs -> BOOLEAN]
           /\ async_context_id' \in [Reqs -> 1 .. MaxDepth + 1]
  <1>1. first_aio' \in Seq(Reqs)
    BY WithoutElements DEF Release, TypeOK
  <1>2. 1 \in 1 .. MaxDepth + 1
    BY AioAssumption
  <1> QED
    BY <1>1, <1>2 DEF Release, TypeOK

\* So does a submitted one.
LEMMA SubmitType ==
    ASSUME TypeOK, NEW r \in Reqs, NEW c \in 1 .. MaxDepth + 1, paio_submit(r, c)
    PROVE  /\ request_list' \in Seq(Reqs) /\ first_aio' \in Seq(Reqs)
           /\ ret' \in [Reqs -> {"inprogress", "done"}]
           /\ active' \in [Reqs -> BOOLEAN]
           /\ async_context_id' \in [Reqs -> 1 .. MaxDepth + 1]
           /\ cur_threads' \in Int /\ idle_threads' \in Int
           /\ tpc' \in [Threads -> {"dead", "start", "wait", "late", "work", "kill"}]
           /\ mode' = "signal"
  <1>1. request_list' \in Seq(Reqs)
    BY AppendElements DEF paio_submit, TypeOK
  <1>2. first_aio' \in Seq(Reqs)
    BY PutInFront DEF paio_submit, TypeOK
  <1>3. /\ cur_threads' \in Int /\ idle_threads' \in Int
        /\ tpc' \in [Threads -> {"dead", "start", "wait", "late", "work", "kill"}]
    <2>1. CASE idle_threads = 0 /\ FewerThreads
      <3>1. PICK t \in Threads : /\ tpc' = [tpc EXCEPT ![t] = "start"]
                                 /\ cur_threads' = cur_threads + 1
                                 /\ idle_threads' = idle_threads + 1
        BY <2>1 DEF paio_submit
      <3> QED
        BY <3>1 DEF TypeOK
    <2>2. CASE ~(idle_threads = 0 /\ FewerThreads)
      BY <2>2 DEF paio_submit, TypeOK
    <2> QED
      BY <2>1, <2>2
  <1> QED
    BY <1>1, <1>2, <1>3 DEF paio_submit, TypeOK

\* The walk of the list begins with all of it.
LEMMA ScanType ==
    ASSUME TypeOK, NEW p \in Phases, Scan(p)
    PROVE  /\ level' \in Seq(Frames) /\ depth' = depth /\ depth' \in 1 .. MaxDepth + 1
           /\ todo' \in Seq(Reqs) /\ mode' = "scan"
  <1>1. Here \in Frames
    BY DEF TypeOK, Here, depth
  <1>2. [Here EXCEPT !.phase = p] \in Frames
    BY <1>1 DEF Frames
  <1>3. level' = [level EXCEPT ![depth] = [Here EXCEPT !.phase = p]]
    BY DEF Scan, Here
  <1>4. level' \in Seq(Frames) /\ depth' = depth /\ depth' \in 1 .. MaxDepth + 1
    BY <1>2, <1>3, LevelUpdate
  <1> QED
    BY <1>4 DEF Scan, TypeOK

\* Every variable of the pool keeps its type: each step leaves a legal state.
THEOREM PoolTypes == Spec => []TypeOK
  <1>1. Init => TypeOK
    <2> SUFFICES ASSUME Init PROVE TypeOK
      OBVIOUS
    <2>1. Frame(None) \in Frames
      BY AioAssumption DEF Frame, Frames, Phases
    <2>2. level \in Seq(Frames) /\ Len(level) = 1 /\ bh \in Seq(BOOLEAN) /\ Len(bh) = 1
      BY <2>1 DEF Init
    <2>3. 1 \in 1 .. MaxDepth + 1
      BY AioAssumption
    <2>4. /\ request_list \in Seq(Reqs) /\ first_aio \in Seq(Reqs) /\ todo \in Seq(Reqs)
          /\ ret \in [Reqs -> {"inprogress", "done"}]
          /\ active \in [Reqs -> BOOLEAN]
          /\ async_context_id \in [Reqs -> 1 .. MaxDepth + 1]
          /\ tpc \in [Threads -> {"dead", "start", "wait", "late", "work", "kill"}]
          /\ aiocb \in [Threads -> Reqs \cup {None}]
      BY <2>3 DEF Init
    <2>5. cur_threads \in Int /\ idle_threads \in Int
      BY DEF Init
    <2>6. sig \in BOOLEAN /\ victim \in Reqs \cup {None} /\ mode = "run"
      BY Zenon DEF Init
    <2> QED
      BY <2>2, <2>3, <2>4, <2>5, <2>6 DEF TypeOK, depth
  <1>2. TypeOK /\ [Next]_vars => TypeOK'
    <2> SUFFICES ASSUME TypeOK, [Next]_vars PROVE TypeOK'
      OBVIOUS
    <2>0. /\ Here \in Frames /\ depth \in 1 .. MaxDepth + 1 /\ depth \in Int
          /\ 1 \in 1 .. MaxDepth + 1 /\ MaxDepth \in Nat /\ MaxChain \in Nat
      BY AioAssumption DEF TypeOK, Here, depth
    <2>1. CASE UNCHANGED vars
      BY <2>1 DEF TypeOK, vars, rvars, tvars, evars, depth
    <2>2. ASSUME NEW t \in Threads, Thread(t) \/ Wake(t) PROVE TypeOK'
      <3>1. CASE Take(t)
        <4>1. Head(request_list) \in Reqs /\ Tail(request_list) \in Seq(Reqs)
          BY <3>1, HeadAndTail DEF Take, TypeOK
        <4> QED
          BY <3>1, <4>1 DEF Take, TypeOK, evars, depth
      <3>2. CASE Sleep(t)
        BY <3>2 DEF Sleep, TypeOK, rvars, evars, depth
      <3>3. CASE Exit(t)
        BY <3>3 DEF Exit, TypeOK, rvars, evars, depth
      <3>4. CASE Finish(t)
        <4>1. /\ ret' \in [Reqs -> {"inprogress", "done"}]
              /\ tpc' \in [Threads -> {"dead", "start", "wait", "late", "work", "kill"}]
              /\ aiocb' \in [Threads -> Reqs \cup {None}]
          BY <3>4 DEF Finish, TypeOK
        <4> QED
          BY <3>4, <4>1 DEF Finish, TypeOK, evars, depth
      <3>5. CASE Kill(t)
        BY <3>5 DEF Kill, TypeOK, rvars, evars, depth
      <3>6. CASE Wake(t)
        BY <3>6 DEF Wake, TypeOK, rvars, evars, depth
      <3> QED
        BY <2>2, <3>1, <3>2, <3>3, <3>4, <3>5, <3>6 DEF Thread
    <2>3. ASSUME NEW r \in Reqs, Submit(r) PROVE TypeOK'
      <3> DEFINE f == [Here EXCEPT !.goal = IF depth > 1 THEN r ELSE @,
                                   !.left = IF Here.incb THEN @ - 1 ELSE @]
      <3>1. f \in Frames
        <4>1. Here.left \in 0 .. MaxChain /\ (Here.incb => Here.left - 1 \in 0 .. MaxChain)
          BY <2>0, <2>3 DEF Frames, Submit
        <4> QED
          BY <2>0, <4>1 DEF Frames
      <3>2. level' = [level EXCEPT ![depth] = f]
        BY <2>0, <2>3 DEF Submit, Here, TypeOK, depth
      <3>3. level' \in Seq(Frames) /\ depth' = depth /\ depth' \in 1 .. MaxDepth + 1
        BY <3>1, <3>2, LevelUpdate
      <3>4. paio_submit(r, depth)
        BY <2>3 DEF Submit
      <3> QED
        BY <2>0, <2>3, <3>3, <3>4, SubmitType DEF Submit, TypeOK
    <2>4. ASSUME NEW r \in Reqs, Synchronous(r) PROVE TypeOK'
      <3>1. Frame(r) \in Frames
        BY <2>0 DEF Frame, Frames, Phases
      <3>2. /\ level' \in Seq(Frames) /\ depth' = depth + 1
            /\ bh' \in Seq(BOOLEAN) /\ Len(bh') = depth + 1
        BY <2>4, <3>1 DEF Synchronous, TypeOK, depth
      <3>3. depth + 1 \in 1 .. MaxDepth + 1 /\ paio_submit(r, depth + 1)
        BY <2>0, <2>4 DEF Synchronous
      <3> QED
        BY <2>4, <3>2, <3>3, SubmitType DEF Synchronous, TypeOK
    <2>5. ASSUME NEW r \in Reqs, paio_cancel(r) PROVE TypeOK'
      <3>1. request_list' \in Seq(Reqs)
        BY <2>5, WithoutElements DEF paio_cancel, TypeOK
      <3>2. CASE active[r] /\ ret[r] = "inprogress"
        BY <2>5, <3>1, <3>2 DEF paio_cancel, TypeOK, tvars, depth
      <3>3. CASE ~(active[r] /\ ret[r] = "inprogress")
        BY <2>5, <3>1, <3>3, ReleaseType DEF paio_cancel, TypeOK, tvars, depth
      <3> QED
        BY <3>2, <3>3
    <2>6. CASE Signal
      BY <2>6 DEF Signal, TypeOK, rvars, depth
    <2>7. CASE CancelWaits
      BY <2>7, ReleaseType DEF CancelWaits, TypeOK, tvars, depth
    <2>8. CASE Skip
      <3>1. Tail(todo) \in Seq(Reqs)
        BY <2>8, HeadAndTail DEF Skip, TypeOK
      <3> QED
        BY <2>8, <3>1 DEF Skip, TypeOK, rvars, tvars, depth
    <2>9. CASE Callback
      <3>1. [Here EXCEPT !.incb = TRUE] \in Frames
        BY <2>0 DEF Frames
      <3>2. level' = [level EXCEPT ![depth] = [Here EXCEPT !.incb = TRUE]]
        BY <2>9 DEF Callback, Here
      <3>3. level' \in Seq(Frames) /\ depth' = depth /\ depth' \in 1 .. MaxDepth + 1
        BY <3>1, <3>2, LevelUpdate
      <3> QED
        BY <2>9, <3>3, ReleaseType DEF Callback, TypeOK, tvars
    <2>10. CASE CallbackReturns
      <3> DEFINE f == [Here EXCEPT !.incb = FALSE, !.result = TRUE]
      <3>1. f \in Frames
        BY <2>0 DEF Frames
      <3>2. level' = [level EXCEPT ![depth] = f]
        BY <2>0, <2>10 DEF CallbackReturns, Here, TypeOK, depth
      <3>3. level' \in Seq(Frames) /\ depth' = depth /\ depth' \in 1 .. MaxDepth + 1
        BY <3>1, <3>2, LevelUpdate
      <3> QED
        BY <2>10, <3>3 DEF CallbackReturns, TypeOK, rvars, tvars
    <2>11. CASE ScanEnds
      <3> DEFINE f == [Here EXCEPT !.phase = "main", !.result = FALSE,
                                   !.left = IF depth > 1 THEN @ ELSE MaxChain]
      <3>1. f \in Frames
        <4>1. Here.left \in 0 .. MaxChain /\ MaxChain \in 0 .. MaxChain
          BY <2>0 DEF Frames
        <4> QED
          BY <2>0, <4>1 DEF Frames, Phases
      <3>2. level' = [level EXCEPT ![depth] = f]
        BY <2>0, <2>11 DEF ScanEnds, Here, TypeOK, depth
      <3>3. level' \in Seq(Frames) /\ depth' = depth /\ depth' \in 1 .. MaxDepth + 1
        BY <3>1, <3>2, LevelUpdate
      <3>4. mode' \in {"run", "select", "returned"}
        BY <2>11 DEF ScanEnds, After
      <3> QED
        BY <2>11, <3>3, <3>4 DEF ScanEnds, TypeOK, rvars, tvars
    <2>12. CASE MainLoopRead \/ posix_aio_read
      <3>1. CASE MainLoopRead
        BY <3>1, ScanType DEF MainLoopRead, TypeOK, rvars, tvars, Phases
      <3>2. CASE posix_aio_read
        BY <3>2, ScanType DEF posix_aio_read, TypeOK, rvars, tvars, Phases
      <3> QED
        BY <2>12, <3>1, <3>2
    <2>13. CASE MainLoopBh \/ qemu_aio_wait \/ PopRuns
      <3>1. bh' \in Seq(BOOLEAN) /\ Len(bh') = Len(bh)
        <4>1. bh \in Seq(BOOLEAN) /\ 1 \in 1 .. Len(bh) /\ depth \in 1 .. Len(bh)
          BY <2>0 DEF TypeOK
        <4>2. PICK d \in 1 .. Len(bh) : bh' = [bh EXCEPT ![d] = FALSE]
          BY <2>13, <4>1 DEF MainLoopBh, qemu_aio_wait, PopRuns
        <4> QED
          BY <4>1, <4>2, ExceptSeq
      <3>2. PICK p \in Phases : Scan(p)
        BY <2>13 DEF MainLoopBh, qemu_aio_wait, PopRuns, Phases
      <3> QED
        BY <2>13, <3>1, <3>2, ScanType
           DEF MainLoopBh, qemu_aio_wait, PopRuns, TypeOK, rvars, tvars
    <2>14. CASE qemu_aio_flush \/ WaitAgain \/ FlushReturns
      BY <2>14 DEF qemu_aio_flush, WaitAgain, FlushReturns, TypeOK, rvars, tvars, depth
    <2>15. CASE async_context_pop
      <3>1. depth - 1 \in 1 .. MaxDepth + 1 /\ depth - 1 <= Len(level) /\ depth - 1 <= Len(bh)
        BY <2>0, <2>15 DEF async_context_pop, depth, TypeOK
      <3>2. /\ level' \in Seq(Frames) /\ depth' = depth - 1
            /\ bh' \in Seq(BOOLEAN) /\ Len(bh') = depth - 1
        BY <2>15, <3>1 DEF async_context_pop, TypeOK, depth
      <3> QED
        BY <2>15, <3>1, <3>2 DEF async_context_pop, TypeOK, rvars, tvars
    <2> QED
      BY <2>1, <2>2, <2>3, <2>4, <2>5, <2>6, <2>7, <2>8, <2>9, <2>10, <2>11, <2>12, <2>13,
         <2>14, <2>15
         DEF Next, Emulator, MainLoop
  <1> QED
    BY <1>1, <1>2, PTL DEF Spec

-----------------------------------------------------------------------------
(* The counters of threads *)

Idle == {t \in Alive : tpc[t] # "work"}

\* There are finitely many threads, so the counters can count them.
LEMMA FiniteThreads == IsFiniteSet(Alive) /\ IsFiniteSet(Idle)
  <1>1. Alive \subseteq Threads /\ Idle \subseteq Threads
    BY DEF Alive, Idle
  <1> QED
    BY <1>1, AioAssumption, FS_Subset

\* What a step of one thread does to the two counts.
LEMMA OneThread ==
    ASSUME TypeOK, NEW t \in Threads, NEW w, tpc' = [tpc EXCEPT ![t] = w]
    PROVE  /\ w = "dead" => Alive' = Alive \ {t} /\ Idle' = Idle \ {t}
           /\ w = "work" => Alive' = Alive \cup {t} /\ Idle' = Idle \ {t}
           /\ w \in {"start", "wait", "late", "kill"} =>
                  Alive' = Alive \cup {t} /\ Idle' = Idle \cup {t}
  <1>1. /\ tpc'[t] = w /\ \A u \in Threads \ {t} : tpc'[u] = tpc[u]
    BY DEF TypeOK
  <1> QED
    BY <1>1 DEF Alive, Idle

\* The counters of the pool are right and max_threads is kept, whatever the
\* number of threads.
THEOREM PoolAccounting == Spec => []Accounting
  <1>1. Init => Accounting
    <2> SUFFICES ASSUME Init PROVE Accounting
      OBVIOUS
    <2>1. Alive = {} /\ {t \in Alive : tpc[t] # "work"} = {}
      BY DEF Init, Alive
    <2> QED
      BY <2>1, FS_EmptySet, AioAssumption DEF Init, Accounting
  <1>2. TypeOK /\ Accounting /\ [Next]_vars => Accounting'
    <2> SUFFICES ASSUME TypeOK, Accounting, [Next]_vars PROVE Accounting'
      OBVIOUS
    <2>0. /\ cur_threads = Cardinality(Alive) /\ idle_threads = Cardinality(Idle)
          /\ cur_threads <= max_threads /\ max_threads \in Nat
          /\ cur_threads \in Int /\ idle_threads \in Int
      BY AioAssumption DEF Accounting, Idle, TypeOK
    <2> SUFFICES /\ cur_threads' = Cardinality(Alive') /\ idle_threads' = Cardinality(Idle')
                 /\ cur_threads' <= max_threads
      BY DEF Accounting, Idle
    <2>1. CASE UNCHANGED <<tpc, cur_threads, idle_threads>>
      BY <2>0, <2>1 DEF Alive, Idle
    <2>2. ASSUME NEW t \in Threads, Thread(t) \/ Wake(t)
          PROVE  /\ cur_threads' = Cardinality(Alive') /\ idle_threads' = Cardinality(Idle')
                 /\ cur_threads' <= max_threads
      <3>1. CASE Take(t)
        <4>1. Alive' = Alive \cup {t} /\ Idle' = Idle \ {t}
          BY <3>1, OneThread DEF Take
        <4>2. t \in Alive /\ t \in Idle
          BY <3>1 DEF Take, Alive, Idle
        <4>3. Alive' = Alive /\ Cardinality(Idle \ {t}) = Cardinality(Idle) - 1
          BY <4>1, <4>2, FiniteThreads, FS_RemoveElement
        <4> QED
          BY <2>0, <3>1, <4>1, <4>3 DEF Take
      <3>2. CASE Sleep(t) \/ Kill(t) \/ Wake(t)
        <4>1. PICK w \in {"wait", "start", "late"} : tpc' = [tpc EXCEPT ![t] = w]
          BY <3>2 DEF Sleep, Kill, Wake
        <4>2. t \in Alive /\ t \in Idle /\ UNCHANGED <<cur_threads, idle_threads>>
          BY <3>2 DEF Sleep, Kill, Wake, Alive, Idle
        <4>3. Alive' = Alive \cup {t} /\ Idle' = Idle \cup {t}
          BY <4>1, OneThread
        <4>4. Alive' = Alive /\ Idle' = Idle
          BY <4>2, <4>3
        <4> QED
          BY <2>0, <4>2, <4>4
      <3>3. CASE Exit(t)
        <4>1. Alive' = Alive \ {t} /\ Idle' = Idle \ {t}
          BY <3>3, OneThread DEF Exit
        <4>2. t \in Alive /\ t \in Idle
          BY <3>3 DEF Exit, Alive, Idle
        <4>3. /\ Cardinality(Alive \ {t}) = Cardinality(Alive) - 1
              /\ Cardinality(Idle \ {t}) = Cardinality(Idle) - 1
          BY <4>2, FiniteThreads, FS_RemoveElement
        <4> QED
          BY <2>0, <3>3, <4>1, <4>3 DEF Exit
      <3>4. CASE Finish(t)
        <4>1. Alive' = Alive \cup {t} /\ Idle' = Idle \cup {t}
          BY <3>4, OneThread DEF Finish
        <4>2. t \in Alive /\ t \notin Idle
          BY <3>4 DEF Finish, Alive, Idle
        <4>3. Alive' = Alive /\ Cardinality(Idle \cup {t}) = Cardinality(Idle) + 1
          BY <4>1, <4>2, FiniteThreads, FS_AddElement
        <4> QED
          BY <2>0, <3>4, <4>1, <4>3 DEF Finish
      <3> QED
        BY <2>2, <3>1, <3>2, <3>3, <3>4 DEF Thread
    <2>3. ASSUME NEW r \in Reqs, NEW c, paio_submit(r, c)
          PROVE  /\ cur_threads' = Cardinality(Alive') /\ idle_threads' = Cardinality(Idle')
                 /\ cur_threads' <= max_threads
      <3>1. CASE idle_threads = 0 /\ FewerThreads
        <4>1. PICK t \in Threads : /\ tpc[t] = "dead" /\ tpc' = [tpc EXCEPT ![t] = "start"]
                                   /\ cur_threads' = cur_threads + 1
                                   /\ idle_threads' = idle_threads + 1
          BY <2>3, <3>1 DEF paio_submit
        <4>2. Alive' = Alive \cup {t} /\ Idle' = Idle \cup {t}
          BY <4>1, OneThread
        <4>3. t \notin Alive /\ t \notin Idle
          BY <4>1 DEF Alive, Idle
        <4>4. cur_threads < max_threads
          BY <3>1 DEF FewerThreads
        <4>5. /\ Cardinality(Alive \cup {t}) = Cardinality(Alive) + 1
              /\ Cardinality(Idle \cup {t}) = Cardinality(Idle) + 1
          BY <4>3, FiniteThreads, FS_AddElement
        <4> QED
          BY <2>0, <4>1, <4>2, <4>4, <4>5
      <3>2. CASE ~(idle_threads = 0 /\ FewerThreads)
        BY <2>1, <2>3, <3>2 DEF paio_submit
      <3> QED
        BY <3>1, <3>2
    <2>4. ASSUME NEW r \in Reqs, Submit(r) \/ Synchronous(r) \/ paio_cancel(r)
          PROVE  /\ cur_threads' = Cardinality(Alive') /\ idle_threads' = Cardinality(Idle')
                 /\ cur_threads' <= max_threads
      BY <2>1, <2>3, <2>4 DEF Submit, Synchronous, paio_cancel, tvars
    <2>5. CASE Signal
      <3>1. CASE \E t \in Threads : tpc[t] = "wait"
        <4>1. PICK t \in Threads : tpc[t] = "wait" /\ tpc' = [tpc EXCEPT ![t] = "start"]
          BY <2>5, <3>1 DEF Signal
        <4>2. t \in Alive /\ t \in Idle /\ UNCHANGED <<cur_threads, idle_threads>>
          BY <2>5, <4>1 DEF Signal, Alive, Idle
        <4>3. Alive' = Alive \cup {t} /\ Idle' = Idle \cup {t}
          BY <4>1, OneThread
        <4>4. Alive' = Alive /\ Idle' = Idle
          BY <4>2, <4>3
        <4> QED
          BY <2>0, <4>2, <4>4
      <3>2. CASE ~\E t \in Threads : tpc[t] = "wait"
        BY <2>1, <2>5, <3>2 DEF Signal
      <3> QED
        BY <3>1, <3>2
    <2>6. CASE (Emulator /\ ~Signal) \/ MainLoop \/ qemu_aio_flush \/ UNCHANGED vars
      <3>1. UNCHANGED tvars
        BY <2>6 DEF Emulator, MainLoop, CancelWaits, Skip, Callback, CallbackReturns, ScanEnds,
           qemu_aio_wait, posix_aio_read, WaitAgain, FlushReturns, PopRuns, async_context_pop,
           MainLoopRead, MainLoopBh, qemu_aio_flush, vars
      <3> QED
        BY <2>1, <3>1 DEF tvars
    <2> QED
      BY <2>2, <2>4, <2>5, <2>6 DEF Next
  <1> QED
    BY <1>1, <1>2, PoolTypes, PTL DEF Spec

-----------------------------------------------------------------------------
(* Who has which request.  WorksOnItsOwn is not inductive: a thread gets    *)
(* its request from request_list, so what is there must be untouched.       *)

Waits(r) == r \in Elements(first_aio) /\ ~active[r] /\ ret[r] = "inprogress"
Runs(r) == r \in Elements(first_aio) /\ active[r] /\ ret[r] = "inprogress"

Owned ==
    /\ Injective(request_list) /\ Injective(first_aio)
    /\ \A r \in Elements(request_list) : Waits(r)
    /\ \A t \in Threads : tpc[t] = "work" => Runs(aiocb[t])
    /\ \A t, u \in Threads :
          tpc[t] = "work" /\ tpc[u] = "work" /\ aiocb[t] = aiocb[u] => t = u

\* A step after which no more threads work and no request has changed leaves
\* every request with its owner.
LEMMA SameOwners ==
    ASSUME Owned, UNCHANGED <<rvars, aiocb>>,
           \A t \in Threads : tpc'[t] = "work" => tpc[t] = "work"
    PROVE  Owned'
  BY DEF Owned, Waits, Runs, rvars

\* So does releasing a request that no thread works on.
LEMMA ReleaseOwned ==
    ASSUME TypeOK, Owned, NEW r, Release(r), UNCHANGED <<tpc, aiocb>>,
           request_list' = Without(request_list, r),
           \A t \in Threads : tpc[t] = "work" => aiocb[t] # r
    PROVE  Owned'
  <1>1. /\ Injective(request_list') /\ Elements(request_list') = Elements(request_list) \ {r}
        /\ Injective(first_aio') /\ Elements(first_aio') = Elements(first_aio) \ {r}
    BY WithoutElements DEF Owned, Release, TypeOK
  <1>2. \A q \in Reqs : q # r => ret'[q] = ret[q] /\ active'[q] = active[q]
    BY DEF Release, TypeOK
  <1>3. Elements(first_aio) \subseteq Reqs
    BY DEF Elements, TypeOK
  <1>4. ASSUME NEW q \in Elements(request_list') PROVE Waits(q)'
    BY <1>1, <1>2, <1>3 DEF Owned, Waits
  <1>5. ASSUME NEW t \in Threads, tpc'[t] = "work" PROVE Runs(aiocb[t])'
    <2>1. tpc[t] = "work" /\ aiocb'[t] = aiocb[t] /\ aiocb[t] # r /\ Runs(aiocb[t])
      BY <1>5 DEF Owned
    <2> QED
      BY <1>1, <1>2, <1>3, <2>1 DEF Runs
  <1>6. \A t, u \in Threads :
            tpc'[t] = "work" /\ tpc'[u] = "work" /\ aiocb'[t] = aiocb'[u] => t = u
    BY DEF Owned
  <1> QED
    BY <1>1, <1>4, <1>5, <1>6 DEF Owned

\* And submitting one: a request that is submitted is nobody's.
LEMMA SubmitOwned ==
    ASSUME TypeOK, Owned, NEW r \in Reqs, NEW c, paio_submit(r, c), UNCHANGED aiocb
    PROVE  Owned'
  <1>1. r \notin Elements(first_aio) /\ r \notin Elements(request_list)
    BY DEF paio_submit, Owned, Waits
  <1>2. /\ Injective(request_list') /\ Elements(request_list') = Elements(request_list) \cup {r}
    BY <1>1, AppendElements DEF Owned, paio_submit, TypeOK
  <1>3. Injective(first_aio') /\ Elements(first_aio') = Elements(first_aio) \cup {r}
    BY <1>1, PutInFront DEF Owned, paio_submit, TypeOK
  <1>4. /\ \A q \in Reqs : q # r => ret'[q] = ret[q] /\ active'[q] = active[q]
        /\ ret'[r] = "inprogress" /\ ~active'[r]
    BY DEF paio_submit, TypeOK
  <1>5. Elements(first_aio) \subseteq Reqs
    BY DEF Elements, TypeOK
  <1>6. \A t \in Threads : tpc'[t] = "work" => tpc[t] = "work"
    <2>1. CASE idle_threads = 0 /\ FewerThreads
      <3>1. PICK t \in Threads : tpc' = [tpc EXCEPT ![t] = "start"]
        BY <2>1 DEF paio_submit
      <3> QED
        BY <3>1 DEF TypeOK
    <2>2. CASE ~(idle_threads = 0 /\ FewerThreads)
      BY <2>2 DEF paio_submit
    <2> QED
      BY <2>1, <2>2
  <1>7. ASSUME NEW q \in Elements(request_list') PROVE Waits(q)'
    BY <1>1, <1>2, <1>3, <1>4, <1>5 DEF Owned, Waits
  <1>8. ASSUME NEW t \in Threads, tpc'[t] = "work" PROVE Runs(aiocb[t])'
    <2>1. aiocb'[t] = aiocb[t] /\ Runs(aiocb[t])
      BY <1>6, <1>8 DEF Owned
    <2> QED
      BY <1>1, <1>3, <1>4, <1>5, <2>1 DEF Runs
  <1>9. \A t, u \in Threads :
            tpc'[t] = "work" /\ tpc'[u] = "work" /\ aiocb'[t] = aiocb'[u] => t = u
    BY <1>6 DEF Owned
  <1> QED
    BY <1>2, <1>3, <1>7, <1>8, <1>9 DEF Owned

\* A request is on the list of those to do, or one thread works on it, or neither;
\* never two of these, and never after it has been released.
LEMMA PoolOwned == Spec => []Owned
  <1>1. Init => Owned
    BY DEF Init, Owned, Elements, Injective
  <1>2. TypeOK /\ Owned /\ [Next]_vars => Owned'
    <2> SUFFICES ASSUME TypeOK, Owned, [Next]_vars PROVE Owned'
      OBVIOUS
    <2>1. ASSUME NEW t \in Threads, Thread(t) \/ Wake(t) PROVE Owned'
      <3>1. CASE Take(t)
        <4>0. PICK h \in Reqs : h = Head(request_list)
          BY <3>1, HeadAndTail DEF Take, TypeOK
        <4>1. /\ Injective(request_list')
              /\ Elements(request_list) = Elements(request_list') \cup {h}
              /\ h \notin Elements(request_list')
          BY <3>1, <4>0, HeadAndTail DEF Take, TypeOK, Owned
        <4>2. /\ aiocb'[t] = h /\ tpc'[t] = "work" /\ active'[h]
              /\ \A u \in Threads : u # t => aiocb'[u] = aiocb[u] /\ tpc'[u] = tpc[u]
              /\ \A q \in Reqs : q # h => active'[q] = active[q]
              /\ UNCHANGED <<first_aio, ret>>
          BY <3>1, <4>0 DEF Take, TypeOK
        <4>3. Waits(h) /\ Runs(h)'
          BY <4>1, <4>2 DEF Owned, Waits, Runs
        <4>4. Elements(first_aio) \subseteq Reqs
          BY DEF Elements, TypeOK
        <4>5. ASSUME NEW q \in Elements(request_list') PROVE Waits(q)'
          BY <4>1, <4>2, <4>4 DEF Owned, Waits
        <4>6. ASSUME NEW u \in Threads, u # t, tpc'[u] = "work"
              PROVE  aiocb'[u] # h /\ Runs(aiocb[u])'
          <5>1. aiocb'[u] = aiocb[u] /\ Runs(aiocb[u])
            BY <4>2, <4>6 DEF Owned
          <5> QED
            BY <4>2, <4>3, <4>4, <5>1 DEF Waits, Runs
        <4>7. \A u \in Threads : tpc'[u] = "work" => Runs(aiocb[u])'
          BY <4>2, <4>3, <4>6
        <4>8. ASSUME NEW u \in Threads, NEW v \in Threads,
                     tpc'[u] = "work", tpc'[v] = "work", aiocb'[u] = aiocb'[v]
              PROVE  u = v
          BY <4>2, <4>6, <4>8 DEF Owned
        <4>9. Injective(first_aio')
          BY <4>2 DEF Owned
        <4> QED
          BY <4>1, <4>5, <4>7, <4>8, <4>9 DEF Owned
      <3>2. CASE Sleep(t) \/ Exit(t) \/ Kill(t) \/ Wake(t)
        <4>1. UNCHANGED <<rvars, aiocb>>
          BY <3>2 DEF Sleep, Exit, Kill, Wake
        <4>2. \A u \in Threads : tpc'[u] = "work" => tpc[u] = "work"
          BY <3>2 DEF Sleep, Exit, Kill, Wake, TypeOK
        <4> QED
          BY <4>1, <4>2, SameOwners
      <3>3. CASE Finish(t)
        <4> DEFINE a == aiocb[t]
        <4>1. /\ tpc'[t] = "kill" /\ tpc[t] = "work"
              /\ \A u \in Threads : u # t => aiocb'[u] = aiocb[u] /\ tpc'[u] = tpc[u]
              /\ \A q \in Reqs : q # a => ret'[q] = ret[q]
              /\ UNCHANGED <<request_list, first_aio, active>>
          BY <3>3 DEF Finish, TypeOK
        <4>2. Elements(first_aio) \subseteq Reqs /\ Runs(a)
          BY <4>1 DEF Elements, TypeOK, Owned
        <4>3. ASSUME NEW q \in Elements(request_list') PROVE Waits(q)'
          BY <4>1, <4>2 DEF Owned, Waits, Runs
        <4>4. ASSUME NEW u \in Threads, tpc'[u] = "work" PROVE Runs(aiocb[u])'
          <5>1. u # t /\ tpc[u] = "work" /\ aiocb'[u] = aiocb[u]
            BY <4>1, <4>4
          <5>2. aiocb[u] # a /\ Runs(aiocb[u])
            BY <4>1, <5>1 DEF Owned
          <5> QED
            BY <4>1, <4>2, <5>1, <5>2 DEF Runs
        <4>5. ASSUME NEW u \in Threads, NEW v \in Threads,
                     tpc'[u] = "work", tpc'[v] = "work", aiocb'[u] = aiocb'[v]
              PROVE  u = v
          BY <4>1, <4>5 DEF Owned
        <4> QED
          BY <4>1, <4>3, <4>4, <4>5 DEF Owned
      <3> QED
        BY <2>1, <3>1, <3>2, <3>3 DEF Thread
    <2>2. ASSUME NEW r \in Reqs, Submit(r) \/ Synchronous(r) PROVE Owned'
      BY <2>2, SubmitOwned DEF Submit, Synchronous
    <2>3. ASSUME NEW r \in Reqs, paio_cancel(r) PROVE Owned'
      <3>1. request_list' = Without(request_list, r) /\ UNCHANGED <<tpc, aiocb>>
        BY <2>3 DEF paio_cancel, tvars
      <3>2. CASE active[r] /\ ret[r] = "inprogress"
        <4>1. UNCHANGED rvars
          BY <2>3, <3>1, <3>2 DEF paio_cancel, rvars, Without, Owned, Waits
        <4> QED
          BY <3>1, <4>1, SameOwners
      <3>3. CASE ~(active[r] /\ ret[r] = "inprogress")
        <4>1. Release(r) /\ \A t \in Threads : tpc[t] = "work" => aiocb[t] # r
          BY <2>3, <3>3 DEF paio_cancel, Owned, Runs
        <4> QED
          BY <3>1, <4>1, ReleaseOwned
      <3> QED
        BY <3>2, <3>3
    <2>4. CASE CancelWaits
      <3>1. request_list' = Without(request_list, victim) /\ UNCHANGED <<tpc, aiocb>>
        BY <2>4 DEF CancelWaits, Without, Owned, Waits, tvars
      <3>2. Release(victim) /\ \A t \in Threads : tpc[t] = "work" => aiocb[t] # victim
        BY <2>4 DEF CancelWaits, Owned, Runs
      <3> QED
        BY <3>1, <3>2, ReleaseOwned
    <2>5. CASE Callback
      <3> DEFINE h == Head(todo)
      <3>1. request_list' = Without(request_list, h) /\ UNCHANGED <<tpc, aiocb>>
        BY <2>5 DEF Callback, Without, Owned, Waits, tvars
      <3>2. Release(h) /\ \A t \in Threads : tpc[t] = "work" => aiocb[t] # h
        BY <2>5 DEF Callback, Owned, Runs
      <3> QED
        BY <3>1, <3>2, ReleaseOwned
    <2>6. CASE Signal
      <3>1. UNCHANGED <<rvars, aiocb>>
        BY <2>6 DEF Signal
      <3>2. \A t \in Threads : tpc'[t] = "work" => tpc[t] = "work"
        BY <2>6 DEF Signal, TypeOK
      <3> QED
        BY <3>1, <3>2, SameOwners
    <2>7. CASE \/ Skip \/ CallbackReturns \/ ScanEnds \/ qemu_aio_wait \/ posix_aio_read
               \/ WaitAgain \/ FlushReturns \/ PopRuns \/ async_context_pop
               \/ MainLoop \/ qemu_aio_flush \/ UNCHANGED vars
      <3>1. UNCHANGED <<rvars, tvars>>
        BY <2>7 DEF MainLoop, Skip, CallbackReturns, ScanEnds, qemu_aio_wait, posix_aio_read,
           WaitAgain, FlushReturns, PopRuns, async_context_pop, MainLoopRead, MainLoopBh,
           qemu_aio_flush, vars
      <3> QED
        BY <3>1, SameOwners DEF tvars
    <2> QED
      BY <2>1, <2>2, <2>3, <2>4, <2>5, <2>6, <2>7 DEF Next, Emulator
  <1> QED
    BY <1>1, <1>2, PoolTypes, PTL DEF Spec

\* A thread writes its result to a request that is its own and not released, for
\* any number of threads, submissions and cancellations.
THEOREM PoolWorksOnItsOwn == Spec => []WorksOnItsOwn
  <1>1. Owned => WorksOnItsOwn
    BY DEF Owned, Runs, WorksOnItsOwn
  <1> QED
    BY <1>1, PoolOwned, PTL

-----------------------------------------------------------------------------
(* Nobody sleeps over a request.  When the signal finds no thread asleep    *)
(* there must be one that is awake, so there must be one at all.            *)

Staffed ==
    request_list # <<>> =>
        Alive # {} /\ (mode = "signal" \/ \E t \in Alive : tpc[t] # "wait")

\* Steps of the emulator other than submitting and signalling.
LEMMA SameStaff ==
    ASSUME Staffed, UNCHANGED tpc, request_list' # <<>> => request_list # <<>>,
           mode # "signal" \/ mode' = mode
    PROVE  Staffed'
  BY DEF Staffed, Alive

\* qemu_paio_submit leaves a thread for the request: it starts one, or there is
\* one that is idle, or there are as many as there may be.
LEMMA SubmitStaffed ==
    ASSUME TypeOK, Accounting, NEW r, NEW c, paio_submit(r, c)
    PROVE  Staffed'
  <1>1. mode' = "signal"
    BY DEF paio_submit
  <1>2. CASE idle_threads = 0 /\ FewerThreads
    <2>1. PICK t \in Threads : tpc' = [tpc EXCEPT ![t] = "start"]
      BY <1>2 DEF paio_submit
    <2>2. t \in Alive'
      BY <2>1 DEF TypeOK, Alive
    <2> QED
      BY <1>1, <2>2 DEF Staffed
  <1>3. CASE ~(idle_threads = 0 /\ FewerThreads)
    <2>1. tpc' = tpc
      BY <1>3 DEF paio_submit
    <2>2. idle_threads # 0 \/ cur_threads # 0
      BY <1>3, AioAssumption DEF FewerThreads, TypeOK
    <2>3. Alive # {}
      <3>1. cur_threads = Cardinality(Alive) /\ idle_threads = Cardinality(Idle)
        BY DEF Accounting, Idle
      <3>2. Idle # {} \/ Alive # {}
        BY <2>2, <3>1, FS_EmptySet
      <3> QED
        BY <3>2 DEF Idle
    <2> QED
      BY <1>1, <2>1, <2>3 DEF Staffed, Alive
  <1> QED
    BY <1>2, <1>3

\* A request on the list has a thread that is awake, or the signal is coming.
LEMMA PoolStaffed == Spec => []Staffed
  <1>1. Init => Staffed
    BY DEF Init, Staffed
  <1>2. TypeOK /\ Accounting /\ Staffed /\ [Next]_vars => Staffed'
    <2> SUFFICES ASSUME TypeOK, Accounting, Staffed, [Next]_vars PROVE Staffed'
      OBVIOUS
    <2>1. ASSUME NEW t \in Threads, Thread(t) \/ Wake(t) PROVE Staffed'
      <3>1. CASE Sleep(t) \/ Exit(t)
        BY <3>1 DEF Sleep, Exit, Staffed, rvars
      <3>2. CASE Take(t) \/ Finish(t) \/ Kill(t) \/ Wake(t)
        <4>1. tpc'[t] \in {"work", "kill", "start", "late"}
          BY <3>2 DEF Take, Finish, Kill, Wake, TypeOK
        <4> QED
          BY <4>1 DEF Staffed, Alive
      <3> QED
        BY <2>1, <3>1, <3>2 DEF Thread
    <2>2. ASSUME NEW r \in Reqs, Submit(r) \/ Synchronous(r) PROVE Staffed'
      BY <2>2, SubmitStaffed DEF Submit, Synchronous
    <2>3. ASSUME NEW r \in Reqs, paio_cancel(r) PROVE Staffed'
      <3>1. request_list' # <<>> => request_list # <<>>
        BY <2>3 DEF paio_cancel, Without, Elements
      <3> QED
        BY <2>3, <3>1, SameStaff DEF paio_cancel, tvars
    <2>4. CASE Signal
      <3> SUFFICES ASSUME request_list' # <<>> PROVE Staffed'
        BY DEF Staffed
      <3>1. Alive # {}
        BY <2>4 DEF Signal, rvars, Staffed
      <3>2. CASE \E t \in Threads : tpc[t] = "wait"
        <4>1. PICK t \in Threads : tpc' = [tpc EXCEPT ![t] = "start"]
          BY <2>4, <3>2 DEF Signal
        <4>2. tpc'[t] = "start"
          BY <4>1 DEF TypeOK
        <4> QED
          BY <4>2 DEF Staffed, Alive
      <3>3. CASE ~\E t \in Threads : tpc[t] = "wait"
        BY <2>4, <3>1, <3>3 DEF Signal, Staffed, Alive
      <3> QED
        BY <3>2, <3>3
    <2>5. CASE (Emulator /\ ~Signal) \/ MainLoop \/ qemu_aio_flush
      <3>1. UNCHANGED <<request_list, tpc>> /\ mode # "signal"
        BY <2>5 DEF Emulator, MainLoop, CancelWaits, Skip, Callback, CallbackReturns, ScanEnds,
           qemu_aio_wait, posix_aio_read, WaitAgain, FlushReturns, PopRuns, async_context_pop,
           MainLoopRead, MainLoopBh, qemu_aio_flush, Polling, rvars, tvars
      <3> QED
        BY <3>1, SameStaff
    <2>6. CASE UNCHANGED vars
      BY <2>6, SameStaff DEF vars, rvars, tvars, evars
    <2> QED
      BY <2>1, <2>2, <2>3, <2>4, <2>5, <2>6 DEF Next
  <1> QED
    BY <1>1, <1>2, PoolTypes, PoolAccounting, PTL DEF Spec

\* A request never waits on the list with every thread asleep or gone.
THEOREM PoolSomeoneComes == Spec => []SomeoneComes
  <1>1. Staffed => SomeoneComes
    BY DEF Staffed, SomeoneComes
  <1> QED
    BY <1>1, PoolStaffed, PTL

-----------------------------------------------------------------------------
(* No completion is lost.  The walk of posix_aio_process_queue passes a     *)
(* request while a thread finishes it; the thread's signal is still coming. *)

Announced == sig \/ \E t \in Threads : tpc[t] = "kill"

Due ==
    /\ mode = "select" => todo = <<>>
    /\ mode \in {"scan", "select"} =>
         \A r \in Elements(first_aio) :
             ~NotMine(r) /\ ret[r] = "done" => r \in Elements(todo) \/ Announced

\* Every request of the current context that is over is still ahead of the walk,
\* or a signal is pending or about to be sent.
LEMMA PoolDue == Spec => []Due
  <1>1. Init => Due
    BY DEF Init, Due
  <1>2. TypeOK /\ Due /\ [Next]_vars => Due'
    <2> SUFFICES ASSUME TypeOK, Due, [Next]_vars PROVE Due'
      OBVIOUS
    <2>1. ASSUME NEW t \in Threads, Thread(t) \/ Wake(t) PROVE Due'
      <3>0. UNCHANGED <<first_aio, async_context_id, evars>>
        BY <2>1 DEF Thread, Take, Sleep, Exit, Finish, Kill, Wake, rvars
      <3>1. CASE Take(t) \/ Sleep(t) \/ Exit(t) \/ Wake(t)
        <4>1. UNCHANGED <<ret, sig>> /\ \A u \in Threads : tpc[u] = "kill" => tpc'[u] = "kill"
          BY <3>1 DEF Take, Sleep, Exit, Wake, TypeOK, rvars
        <4> QED
          BY <3>0, <4>1 DEF Due, Announced, NotMine, depth, evars
      <3>2. CASE Finish(t)
        <4>1. tpc'[t] = "kill"
          BY <3>2 DEF Finish, TypeOK
        <4> QED
          BY <3>0, <4>1 DEF Due, Announced, evars
      <3>3. CASE Kill(t)
        BY <3>0, <3>3 DEF Kill, Due, Announced, evars
      <3> QED
        BY <2>1, <3>1, <3>2, <3>3 DEF Thread
    <2>2. CASE mode' \notin {"scan", "select"}
      BY <2>2 DEF Due
    <2>3. CASE mode' = "scan" /\ todo' = first_aio /\ first_aio' = first_aio
      BY <2>3 DEF Due
    <2>4. CASE Skip
      <3>1. /\ Elements(todo) = Elements(todo') \cup {Head(todo)}
            /\ NotMine(Head(todo)) \/ ret[Head(todo)] = "inprogress"
            /\ mode = "scan" /\ mode' = "scan"
        BY <2>4, HeadAndTail DEF Skip, TypeOK
      <3> QED
        BY <2>4, <3>1 DEF Skip, Due, Announced, NotMine, depth, rvars, tvars
    <2>5. CASE ScanEnds
      <3>1. UNCHANGED <<first_aio, ret, async_context_id, todo, sig, tpc>>
        BY <2>5 DEF ScanEnds, rvars, tvars
      <3>2. depth' = depth
        BY <2>5 DEF ScanEnds, depth, TypeOK
      <3> QED
        BY <2>5, <3>1, <3>2 DEF ScanEnds, Due, Announced, NotMine
    <2>6. CASE UNCHANGED vars
      BY <2>6 DEF Due, Announced, NotMine, depth, vars, rvars, tvars, evars
    <2>7. ASSUME NEW r \in Reqs, Submit(r) \/ Synchronous(r) \/ paio_cancel(r) PROVE Due'
      BY <2>2, <2>7 DEF Submit, Synchronous, paio_submit, paio_cancel
    <2>8. CASE \/ Signal \/ CancelWaits \/ Callback \/ WaitAgain \/ FlushReturns
               \/ async_context_pop \/ qemu_aio_flush
      BY <2>2, <2>8 DEF Signal, CancelWaits, Callback, WaitAgain, FlushReturns,
         async_context_pop, qemu_aio_flush
    <2>9. CASE \/ CallbackReturns \/ qemu_aio_wait \/ posix_aio_read \/ PopRuns \/ MainLoop
      BY <2>3, <2>9 DEF CallbackReturns, qemu_aio_wait, posix_aio_read, PopRuns, MainLoop,
         MainLoopRead, MainLoopBh, Scan, rvars
    <2> QED
      BY <2>1, <2>4, <2>5, <2>6, <2>7, <2>8, <2>9 DEF Next, Emulator
  <1> QED
    BY <1>1, <1>2, PoolTypes, PTL DEF Spec

\* The emulator never sleeps over a completion of its own that nobody will
\* announce, however the threads and the walk of the list interleave.
THEOREM PoolNoLostCompletion == Spec => []NoLostCompletion
  <1>1. Due => NoLostCompletion
    BY DEF Due, NoLostCompletion, Announced, Elements
  <1> QED
    BY <1>1, PoolDue, PTL

-----------------------------------------------------------------------------
(* Contexts.  A context on top of the first has one request at a time, the  *)
(* one that is waited for.                                                  *)

Contexts ==
    \A r \in Elements(first_aio) :
        /\ async_context_id[r] <= depth
        /\ async_context_id[r] > 1 => level[async_context_id[r]].goal = r

\* A step that adds no request and keeps what each context waits for.
LEMMA SameContexts ==
    ASSUME TypeOK, Contexts, Elements(first_aio') \subseteq Elements(first_aio),
           \A r \in Elements(first_aio') : async_context_id'[r] = async_context_id[r],
           depth' = depth, \A i \in 1 .. depth : level'[i].goal = level[i].goal
    PROVE  Contexts'
  <1>1. \A r \in Elements(first_aio) : async_context_id[r] \in Nat /\ async_context_id[r] >= 1
    BY AioAssumption DEF TypeOK, Elements
  <1>2. depth \in Nat
    BY DEF TypeOK, depth
  <1>3. ASSUME NEW r \in Elements(first_aio')
        PROVE  /\ async_context_id'[r] <= depth'
               /\ async_context_id'[r] > 1 => level'[async_context_id'[r]].goal = r
    <2>1. async_context_id'[r] = async_context_id[r] /\ async_context_id[r] \in 1 .. depth
      BY <1>1, <1>2 DEF Contexts
    <2> QED
      BY <2>1 DEF Contexts
  <1> QED
    BY <1>3 DEF Contexts

\* Changing the phase of a walk keeps what each context waits for.
LEMMA SameGoals ==
    ASSUME TypeOK,
           \/ \E p : Scan(p)
           \/ level' = [level EXCEPT ![depth].incb = TRUE]
           \/ CallbackReturns \/ ScanEnds \/ UNCHANGED level
    PROVE  depth' = depth /\ \A i \in 1 .. depth : level'[i].goal = level[i].goal
  <1>1. level \in Seq(Frames) /\ depth = Len(level) /\ \A i \in 1 .. depth : level[i] \in Frames
    BY DEF TypeOK, depth
  <1>2. CASE \E p : Scan(p)
    BY <1>1, <1>2 DEF Scan, depth, Frames
  <1>3. CASE level' = [level EXCEPT ![depth].incb = TRUE]
    BY <1>1, <1>3 DEF depth, Frames
  <1>4. CASE CallbackReturns
    BY <1>1, <1>4 DEF CallbackReturns, depth, Frames
  <1>5. CASE ScanEnds
    BY <1>1, <1>5 DEF ScanEnds, depth, Frames
  <1>6. CASE UNCHANGED level
    BY <1>6 DEF depth
  <1> QED
    BY <1>2, <1>3, <1>4, <1>5, <1>6

\* Releasing a request leaves the others in their contexts.
LEMMA ReleaseContexts ==
    ASSUME TypeOK, Owned, NEW r, Release(r)
    PROVE  /\ Elements(first_aio') \subseteq Elements(first_aio)
           /\ \A q \in Elements(first_aio') : async_context_id'[q] = async_context_id[q]
  <1>1. Elements(first_aio') = Elements(first_aio) \ {r}
    BY WithoutElements DEF Release, Owned, TypeOK
  <1>2. Elements(first_aio) \subseteq Reqs
    BY DEF Elements, TypeOK
  <1> QED
    BY <1>1, <1>2 DEF Release, TypeOK

\* Every request belongs to a context that is there, and in a context on top of
\* the first it is the one that is waited for.
LEMMA PoolContexts == Spec => []Contexts
  <1>1. Init => Contexts
    BY DEF Init, Contexts, Elements
  <1>2. TypeOK /\ Owned /\ Contexts /\ [Next]_vars => Contexts'
    <2> SUFFICES ASSUME TypeOK, Owned, Contexts, [Next]_vars PROVE Contexts'
      OBVIOUS
    <2>0. /\ level \in Seq(Frames) /\ depth = Len(level) /\ depth \in Nat /\ depth >= 1
          /\ \A q \in Elements(first_aio) :
                 q \in Reqs /\ async_context_id[q] \in Nat /\ async_context_id[q] >= 1
      <3>1. level \in Seq(Frames) /\ depth = Len(level) /\ depth \in Nat /\ depth >= 1
        BY AioAssumption DEF TypeOK, depth
      <3>2. \A q \in Elements(first_aio) : q \in Reqs
        BY DEF TypeOK, Elements
      <3>3. \A q \in Reqs : async_context_id[q] \in Nat /\ async_context_id[q] >= 1
        BY AioAssumption DEF TypeOK
      <3> QED
        BY <3>1, <3>2, <3>3
    <2>1. CASE UNCHANGED <<first_aio, async_context_id, level>>
      BY <2>1, SameContexts DEF depth
    <2>2. ASSUME NEW r \in Reqs, Submit(r) PROVE Contexts'
      <3>1. /\ Elements(first_aio') = Elements(first_aio) \cup {r} /\ r \notin Elements(first_aio)
            /\ async_context_id'[r] = depth
            /\ \A q \in Reqs : q # r => async_context_id'[q] = async_context_id[q]
        <4>1. /\ r \notin Elements(first_aio) /\ first_aio' = <<r>> \o first_aio
              /\ async_context_id' = [async_context_id EXCEPT ![r] = depth]
          BY <2>2, Zenon DEF Submit, paio_submit
        <4>2. first_aio \in Seq(Reqs) /\ async_context_id \in [Reqs -> 1 .. MaxDepth + 1]
          BY DEF TypeOK
        <4>3. Elements(<<r>> \o first_aio) = Elements(first_aio) \cup {r}
          BY <4>2, PutInFront
        <4> QED
          BY <4>1, <4>2, <4>3, Zenon
      <3>2. /\ depth' = depth /\ \A i \in 1 .. depth - 1 : level'[i] = level[i]
            /\ depth > 1 => level'[depth].goal = r
        BY <2>0, <2>2 DEF Submit, Frames, depth
      <3>3. depth > 1 => level[depth].goal \notin Elements(first_aio)
        BY <2>2 DEF Submit, Here
      <3>4. ASSUME NEW q \in Elements(first_aio)
            PROVE  /\ async_context_id'[q] <= depth'
                   /\ async_context_id'[q] > 1 => level'[async_context_id'[q]].goal = q
        <4>1. q \in Reqs /\ async_context_id'[q] = async_context_id[q]
          BY <2>0, <3>1
        <4>2. async_context_id[q] > 1 => async_context_id[q] \in 1 .. depth - 1
          BY <2>0, <3>3 DEF Contexts
        <4> QED
          BY <3>2, <4>1, <4>2 DEF Contexts
      <3> QED
        BY <3>1, <3>2, <3>4, <2>0 DEF Contexts
    <2>3. ASSUME NEW r \in Reqs, Synchronous(r) PROVE Contexts'
      <3>1. /\ Elements(first_aio') = Elements(first_aio) \cup {r} /\ r \notin Elements(first_aio)
            /\ async_context_id'[r] = depth + 1
            /\ \A q \in Reqs : q # r => async_context_id'[q] = async_context_id[q]
        <4>1. /\ r \notin Elements(first_aio) /\ first_aio' = <<r>> \o first_aio
              /\ async_context_id' = [async_context_id EXCEPT ![r] = depth + 1]
          BY <2>3, Zenon DEF Synchronous, paio_submit
        <4>2. first_aio \in Seq(Reqs) /\ async_context_id \in [Reqs -> 1 .. MaxDepth + 1]
          BY DEF TypeOK
        <4>3. Elements(<<r>> \o first_aio) = Elements(first_aio) \cup {r}
          BY <4>2, PutInFront
        <4> QED
          BY <4>1, <4>2, <4>3, Zenon
      <3>2. /\ depth' = depth + 1 /\ \A i \in 1 .. depth : level'[i] = level[i]
            /\ level'[depth + 1].goal = r
        BY <2>0, <2>3 DEF Synchronous, Frame, depth
      <3>3. ASSUME NEW q \in Elements(first_aio)
            PROVE  /\ async_context_id'[q] <= depth'
                   /\ async_context_id'[q] > 1 => level'[async_context_id'[q]].goal = q
        <4>1. async_context_id'[q] = async_context_id[q] /\ async_context_id[q] \in 1 .. depth
          BY <2>0, <3>1 DEF Contexts
        <4> QED
          BY <2>0, <3>2, <4>1 DEF Contexts
      <3> QED
        BY <2>0, <3>1, <3>2, <3>3 DEF Contexts
    <2>4. ASSUME NEW r \in Reqs, paio_cancel(r) PROVE Contexts'
      <3>1. CASE active[r] /\ ret[r] = "inprogress"
        BY <2>1, <2>4, <3>1 DEF paio_cancel
      <3>2. CASE ~(active[r] /\ ret[r] = "inprogress")
        <4>1. Release(r) /\ UNCHANGED level
          BY <2>4, <3>2 DEF paio_cancel
        <4> QED
          BY <4>1, ReleaseContexts, SameGoals, SameContexts
      <3> QED
        BY <3>1, <3>2
    <2>5. CASE CancelWaits
      BY <2>5, ReleaseContexts, SameGoals, SameContexts DEF CancelWaits
    <2>6. CASE Callback
      BY <2>6, ReleaseContexts, SameGoals, SameContexts DEF Callback
    <2>7. CASE \/ CallbackReturns \/ ScanEnds \/ qemu_aio_wait \/ posix_aio_read \/ PopRuns
               \/ MainLoop
      <3>1. UNCHANGED rvars
        BY <2>7 DEF CallbackReturns, ScanEnds, qemu_aio_wait, posix_aio_read, PopRuns,
           MainLoop, MainLoopRead, MainLoopBh
      <3>2. depth' = depth /\ \A i \in 1 .. depth : level'[i].goal = level[i].goal
        BY <2>7, SameGoals DEF qemu_aio_wait, posix_aio_read, PopRuns, MainLoop,
           MainLoopRead, MainLoopBh
      <3> QED
        BY <3>1, <3>2, SameContexts DEF rvars
    <2>8. CASE async_context_pop
      <3>1. /\ depth > 1 /\ level[depth].goal \notin Elements(first_aio)
            /\ UNCHANGED <<first_aio, async_context_id>>
        BY <2>8 DEF async_context_pop, Waiting, Here, rvars
      <3>2. depth' = depth - 1 /\ \A i \in 1 .. depth - 1 : level'[i] = level[i]
        BY <2>0, <2>8 DEF async_context_pop, depth
      <3>3. ASSUME NEW q \in Elements(first_aio)
            PROVE  /\ async_context_id[q] \in 1 .. depth - 1
                   /\ async_context_id[q] > 1 => level[async_context_id[q]].goal = q
        BY <2>0, <3>1 DEF Contexts
      <3> QED
        BY <2>0, <3>1, <3>2, <3>3 DEF Contexts
    <2>9. ASSUME NEW t \in Threads, Thread(t) \/ Wake(t) PROVE Contexts'
      BY <2>1, <2>9 DEF Thread, Take, Sleep, Exit, Finish, Kill, Wake, rvars, evars
    <2>10. CASE Signal \/ Skip \/ WaitAgain \/ FlushReturns \/ qemu_aio_flush \/ UNCHANGED vars
      BY <2>1, <2>10 DEF Signal, Skip, WaitAgain, FlushReturns, qemu_aio_flush, vars, rvars, evars
    <2> QED
      BY <2>2, <2>3, <2>4, <2>5, <2>6, <2>7, <2>8, <2>9, <2>10 DEF Next, Emulator
  <1> QED
    BY <1>1, <1>2, PoolTypes, PoolOwned, PTL DEF Spec

\* async_context_pop never leaves a request behind, however deep the contexts.
THEOREM PoolNoneLeftBehind == Spec => []NoneLeftBehind
  <1>1. Contexts => NoneLeftBehind
    BY DEF Contexts, NoneLeftBehind
  <1> QED
    BY <1>1, PoolContexts, PTL
=============================================================================
