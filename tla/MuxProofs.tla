----------------------------- MODULE MuxProofs -----------------------------
(***************************************************************************)
(* Proofs about common/mux.  First MuxClient, for any number of            *)
(* dispatchers, workers, calls and failures and for any limits; then       *)
(* MuxLink, for any sessions, payloads and capacity.                       *)
(***************************************************************************)
EXTENDS MuxClient, MuxLink, FiniteSetTheorems, SequenceTheorems,
        WellFoundedInduction, TLAPS

\* The types of what the proof is about; what a request is does not matter.
WorkerTypes ==
    /\ sessions = [w \in Worker |-> sessions[w]]
    /\ open = [w \in Worker |-> open[w]]
    /\ closed \in [Worker -> BOOLEAN]
    /\ done \in [Worker -> BOOLEAN]
    /\ failed \in [Worker -> BOOLEAN]

\* While it is open, a SessionManager lists the requests that have not ended.
Listed == \A w \in Worker : ~closed[w] => sessions[w] = open[w]

\* done, which makes the monitor close the manager whatever it holds, has no
\* other cause than CloseIfNoSession and a failure of the carrier.
DoneForAReason == \A w \in Worker : done[w] /\ ~failed[w] => closed[w]

\* The inductive invariant of AcceptedIsKept.
KeptInv == WorkerTypes /\ Listed /\ DoneForAReason /\ AcceptedIsKept

\* A manager without workers satisfies it.
LEMMA KeptInit == Init => KeptInv
<1> SUFFICES ASSUME Init PROVE KeptInv
  OBVIOUS
<1>1. /\ sessions = [w \in Worker |-> {}] /\ open = [w \in Worker |-> {}]
      /\ closed = [w \in Worker |-> FALSE] /\ done = [w \in Worker |-> FALSE]
      /\ failed = [w \in Worker |-> FALSE]
  BY DEF Init
<1>2. WorkerTypes
  BY <1>1 DEF WorkerTypes
<1>3. Listed /\ DoneForAReason /\ AcceptedIsKept
  BY <1>1 DEF Listed, DoneForAReason, AcceptedIsKept
<1> QED
  BY <1>2, <1>3 DEF KeptInv

\* A step that touches no worker preserves it.
LEMMA WorkersUnchanged ==
    ASSUME KeptInv, UNCHANGED <<sessions, open, closed, done, failed>>
    PROVE  KeptInv'
  BY DEF KeptInv, WorkerTypes, Listed, DoneForAReason, AcceptedIsKept

\* Every step preserves it.
LEMMA KeptStep == KeptInv /\ [Next]_vars => KeptInv'
<1> SUFFICES ASSUME KeptInv, [Next]_vars PROVE KeptInv'
  OBVIOUS
<1> USE DEF worker
<1>1. ASSUME NEW d \in Dispatchers, Dispatch(d) \/ PickExisting(d) \/ StartCleanup(d)
      PROVE  KeptInv'
  BY <1>1, WorkersUnchanged DEF Dispatch, PickExisting, StartCleanup
<1>2. ASSUME NEW d \in Dispatchers, PickNew(d) PROVE KeptInv'
  BY <1>2, WorkersUnchanged DEF PickNew
<1>3. ASSUME NEW d \in Dispatchers, WorkerCheck(d) PROVE KeptInv'
  BY <1>3, WorkersUnchanged DEF WorkerCheck
<1>4. ASSUME NEW d \in Dispatchers, Allocate(d) PROVE KeptInv'
  <2>1. CASE UNCHANGED <<sessions, open>>
    BY <1>4, <2>1, WorkersUnchanged DEF Allocate
  <2>2. CASE /\ ~closed[picked[d]]
             /\ \E r :
                  /\ sessions' = [sessions EXCEPT ![picked[d]] = @ \cup {r}]
                  /\ open' = [open EXCEPT ![picked[d]] = @ \cup {r}]
    <3>1. PICK r :
                  /\ sessions' = [sessions EXCEPT ![picked[d]] = @ \cup {r}]
                  /\ open' = [open EXCEPT ![picked[d]] = @ \cup {r}]
      BY <2>2
    <3>2. UNCHANGED <<closed, done, failed>>
      BY <1>4 DEF Allocate
    <3> QED
      BY <2>2, <3>1, <3>2 DEF KeptInv, WorkerTypes, Listed, DoneForAReason, AcceptedIsKept
  <2> QED
    BY <1>4, <2>1, <2>2 DEF Allocate, Refused
<1>5. ASSUME NEW w \in Worker, WorkerStep(w) PROVE KeptInv'
  <2> USE DEF KeptInv, WorkerTypes, Listed, DoneForAReason, AcceptedIsKept
  <2>1. ASSUME NEW r \in open[w], SessionEnd(w, r) PROVE KeptInv'
    BY <2>1 DEF SessionEnd
  <2>2. CASE CarrierFails(w)
    BY <2>2 DEF CarrierFails
  <2>3. CASE MonitorTick(w)
    BY <2>3 DEF MonitorTick
  <2>4. CASE CloseIfNoSession(w)
    BY <2>4 DEF CloseIfNoSession, CanClose
  <2>5. CASE MonitorDone(w)
    BY <2>5 DEF MonitorDone
  <2> QED
    BY <1>5, <2>1, <2>2, <2>3, <2>4, <2>5 DEF WorkerStep
<1>6. CASE CleanupTick \/ CleanupStops \/ Close
  BY <1>6, WorkersUnchanged DEF CleanupTick, CleanupStops, Close
<1>7. CASE UNCHANGED vars
  BY <1>7, WorkersUnchanged DEF vars
<1> QED
  BY <1>1, <1>2, <1>3, <1>4, <1>5, <1>6, <1>7 DEF Next, DispatcherStep

\* However Dispatch races with the monitors, a worker that closes for being idle
\* holds no accepted request.
THEOREM AcceptedRequestsAreKept == Spec => []AcceptedIsKept
<1>1. KeptInv => AcceptedIsKept
  BY DEF KeptInv
<1> QED
  BY KeptInit, KeptStep, <1>1, PTL DEF Spec
-----------------------------------------------------------------------------
\* A set of numbers has a least one (from the well-foundedness of <).
LEMMA LeastNumber ==
  ASSUME NEW T, T \subseteq Nat, T # {}
  PROVE  \E m \in T : \A n \in T : m <= n
<1>1. OpToRel(<, Nat) = {p \in Nat \X Nat : p[1] < p[2]}
  BY DEF OpToRel
<1>2. \E m \in T : \A n \in T : ~(<<n, m>> \in OpToRel(<, Nat))
  BY NatLessThanWellFounded, WFMin
<1>3. \E m \in T : \A n \in T : ~(<<n, m>> \in {p \in Nat \X Nat : p[1] < p[2]})
  BY <1>1, <1>2
<1>4. PICK m \in T : \A n \in T : ~(<<n, m>> \in {p \in Nat \X Nat : p[1] < p[2]})
  BY <1>3
<1>5. ASSUME NEW n \in T PROVE m <= n
  <2>1. <<n, m>> \in Nat \X Nat
    OBVIOUS
  <2>2. ~(n < m)
    BY <1>4, <2>1
  <2> QED
    BY <2>2
<1> QED
  BY <1>5

\* Induction over the numbers, in a form without a predicate.
LEMMA NatInductive ==
  ASSUME NEW T, 0 \in T, \A n \in Nat : n \in T => n + 1 \in T
  PROVE  Nat \subseteq T
<1> SUFFICES ASSUME Nat \ T # {} PROVE FALSE
  OBVIOUS
<1>1. PICK m \in Nat \ T : \A n \in Nat \ T : m <= n
  BY LeastNumber
<1>2. m # 0 /\ m - 1 \in Nat
  BY <1>1
<1>3. m - 1 \in T
  BY <1>1, <1>2
<1> QED
  BY <1>1, <1>2, <1>3

\* What the loop of cleanup has gathered after its first n workers.
Gathers(f, n) ==
    /\ f \in [0 .. n -> Seq(Worker)]
    /\ f[0] = <<>>
    /\ \A i \in 1 .. n : f[i] = IF done[workers[i]] THEN f[i - 1]
                                ELSE Append(f[i - 1], workers[i])

\* A function that satisfies the equation of the loop is what it computes.
LEMMA LoopUnfolds ==
  ASSUME workers \in Seq(Worker), NEW a,
         a = [i \in 0 .. Len(workers) |-> a[i]],
         \A i \in 0 .. Len(workers) :
            a[i] = IF i = 0 THEN <<>>
                   ELSE IF done[workers[i]] THEN a[i - 1]
                   ELSE Append(a[i - 1], workers[i])
  PROVE  Gathers(a, Len(workers))
<1>1. PICK N \in Nat : N = Len(workers)
  OBVIOUS
<1>2. \A i \in 1 .. N : i \in 0 .. N /\ i # 0 /\ workers[i] \in Worker
  BY <1>1
<1>3. /\ a[0] = <<>>
      /\ \A i \in 1 .. N : a[i] = IF done[workers[i]] THEN a[i - 1]
                                   ELSE Append(a[i - 1], workers[i])
  BY <1>1, <1>2
<1> DEFINE U == {n \in Nat : n <= N => a[n] \in Seq(Worker)}
<1>4. 0 \in U
  BY <1>3
<1>5. ASSUME NEW n \in Nat, n \in U PROVE n + 1 \in U
  <2> SUFFICES ASSUME n + 1 <= N PROVE a[n + 1] \in Seq(Worker)
    OBVIOUS
  <2>1. n + 1 \in 1 .. N /\ (n + 1) - 1 = n
    OBVIOUS
  <2>2. a[n] \in Seq(Worker) /\ workers[n + 1] \in Worker
    BY <1>2, <1>5, <2>1
  <2>3. Append(a[n], workers[n + 1]) \in Seq(Worker)
    BY <2>2
  <2>. QED
    BY <1>3, <2>1, <2>2, <2>3
<1>6. Nat \subseteq U
  <2> HIDE DEF U
  <2>. QED
    BY <1>4, <1>5, NatInductive
<1>7. ASSUME NEW n \in 0 .. N PROVE a[n] \in Seq(Worker)
  <2>1. n \in U
    BY <1>6
  <2>. QED
    BY <2>1
<1>8. a \in [0 .. N -> Seq(Worker)]
  <2>1. a = [i \in 0 .. N |-> a[i]]
    BY <1>1
  <2>. QED
    BY <1>7, <2>1
<1>. QED
  BY <1>1, <1>3, <1>8 DEF Gathers

\* The loop runs through.
LEMMA CleanupLoop ==
  ASSUME workers \in Seq(Worker)
  PROVE  \E f : Gathers(f, Len(workers)) /\ cleanup = f[Len(workers)]
<1> DEFINE N == Len(workers)
           Body(f) == [i \in 0 .. N |->
                         IF i = 0 THEN <<>>
                         ELSE IF done[workers[i]] THEN f[i - 1]
                         ELSE Append(f[i - 1], workers[i])]
           T == {n \in Nat : n <= N => \E f : Gathers(f, n)}
<1>0. N \in Nat /\ \A i \in 1 .. N : workers[i] \in Worker
  OBVIOUS
<1>1. 0 \in T
  <2>1. Gathers([i \in 0 .. 0 |-> <<>>], 0)
    <3>1. [i \in 0 .. 0 |-> <<>>] \in [0 .. 0 -> Seq(Worker)]
      OBVIOUS
    <3>. QED
      BY <3>1 DEF Gathers
  <2>. QED
    BY <2>1
<1>2. ASSUME NEW n \in Nat, n \in T PROVE n + 1 \in T
  <2> SUFFICES ASSUME n + 1 <= N PROVE \E f : Gathers(f, n + 1)
    OBVIOUS
  <2>1. PICK f : Gathers(f, n)
    BY <1>0, <1>2
  <2> DEFINE x == IF done[workers[n + 1]] THEN f[n] ELSE Append(f[n], workers[n + 1])
             g == [i \in 0 .. n + 1 |-> IF i = n + 1 THEN x ELSE f[i]]
  <2>2. x \in Seq(Worker)
    <3>1. f[n] \in Seq(Worker) /\ workers[n + 1] \in Worker
      BY <1>0, <2>1 DEF Gathers
    <3>. QED
      BY <3>1
  <2> HIDE DEF x
  <2>3. \A i \in 0 .. n + 1 : i # n + 1 => i \in 0 .. n
    OBVIOUS
  <2>4. g \in [0 .. n + 1 -> Seq(Worker)] /\ g[0] = <<>>
    BY <2>1, <2>2, <2>3 DEF Gathers
  <2>5. ASSUME NEW i \in 1 .. n + 1
        PROVE  g[i] = IF done[workers[i]] THEN g[i - 1] ELSE Append(g[i - 1], workers[i])
    <3>1. i - 1 \in 0 .. n /\ g[i - 1] = f[i - 1]
      OBVIOUS
    <3>2. CASE i = n + 1
      BY <3>1, <3>2 DEF x
    <3>3. CASE i # n + 1
      BY SMTT(30), <2>1, <3>1, <3>3 DEF Gathers
    <3>. QED
      BY <3>2, <3>3
  <2>. QED
    BY <2>4, <2>5 DEF Gathers
<1>3. PICK f : Gathers(f, N)
  <2>1. Nat \subseteq T
    <3> HIDE DEF T
    <3>. QED
      BY <1>1, <1>2, NatInductive
  <2>. QED
    BY <1>0, <2>1
<1>4. f = Body(f)
  <2>1. \A i \in 1 .. N : i - 1 \in 0 .. N /\ i \in 0 .. N
    BY <1>0
  <2>2. \A i \in 0 .. N : i # 0 => i \in 1 .. N
    BY <1>0
  <2>3. \A i \in 0 .. N : f[i] = Body(f)[i]
    BY <1>3, <2>1, <2>2 DEF Gathers
  <2>4. f = [i \in 0 .. N |-> f[i]]
    BY <1>3 DEF Gathers
  <2>. QED
    BY <2>3, <2>4
<1> DEFINE a == CHOOSE g : g = Body(g)
<1>5. a = Body(a)
  BY <1>4
<1>6. cleanup = a[N]
  BY DEF cleanup
<1>7. Gathers(a, N)
  <2> HIDE DEF a
  <2>1. \A i \in 0 .. N : a[i] = Body(a)[i]
    BY <1>5, Zenon
  <2>2. \A i \in 0 .. N : Body(a)[i] = IF i = 0 THEN <<>>
                                      ELSE IF done[workers[i]] THEN a[i - 1]
                                      ELSE Append(a[i - 1], workers[i])
    OBVIOUS
  <2>3. Body(a) = [i \in 0 .. N |-> Body(a)[i]]
    OBVIOUS
  <2>4. a = [i \in 0 .. N |-> a[i]]
    BY <1>5, <2>3, Zenon
  <2>. QED
    BY <2>1, <2>2, <2>4, LoopUnfolds
<1>. QED
  BY <1>6, <1>7

\* s holds each of the first n workers that is not closed, no other and none twice.
ActiveUpTo(s, n) ==
    /\ \A k \in DOMAIN s : \E j \in 1 .. n : s[k] = workers[j] /\ ~done[workers[j]]
    /\ \A j \in 1 .. n : ~done[workers[j]] => \E k \in DOMAIN s : s[k] = workers[j]
    /\ \A k, l \in DOMAIN s : s[k] = s[l] => k = l

NoneTwice == \A i, j \in DOMAIN workers : workers[i] = workers[j] => i = j

\* cleanup keeps the workers that are not closed, each once, and drops the others.
LEMMA CleanupKeeps ==
  ASSUME workers \in Seq(Worker), NoneTwice
  PROVE  cleanup \in Seq(Worker) /\ ActiveUpTo(cleanup, Len(workers))
<1>1. PICK f : Gathers(f, Len(workers)) /\ cleanup = f[Len(workers)]
  BY CleanupLoop
<1>2. PICK N \in Nat : N = Len(workers)
  OBVIOUS
<1>3. \A n \in 0 .. N : f[n] \in Seq(Worker)
  BY <1>1, <1>2 DEF Gathers
<1> DEFINE T == {n \in Nat : n <= N => ActiveUpTo(f[n], n)}
<1>4. 0 \in T
  BY <1>1 DEF Gathers, ActiveUpTo
<1>5. ASSUME NEW n \in Nat, n \in T PROVE n + 1 \in T
  <2> SUFFICES ASSUME n + 1 <= N PROVE ActiveUpTo(f[n + 1], n + 1)
    OBVIOUS
  <2> DEFINE w == workers[n + 1]
  <2>1. n + 1 \in 1 .. N /\ (n + 1) - 1 = n
    OBVIOUS
  <2>2. ActiveUpTo(f[n], n) /\ f[n] \in Seq(Worker) /\ w \in Worker
    BY <1>2, <1>3, <1>5
  <2>3. f[n + 1] = IF done[w] THEN f[n] ELSE Append(f[n], w)
    BY <1>1, <1>2, <2>1 DEF Gathers
  <2>4. \A j \in 1 .. n + 1 : j = n + 1 \/ j \in 1 .. n
    OBVIOUS
  <2>5. \A k \in DOMAIN f[n] : f[n][k] # w
    <3>1. \A j \in 1 .. n : workers[j] # w
      BY <1>2 DEF NoneTwice
    <3>. QED
      BY <2>2, <3>1 DEF ActiveUpTo
  <2>6. CASE done[w]
    BY <2>2, <2>3, <2>4, <2>6 DEF ActiveUpTo
  <2>7. CASE ~done[w]
    <3> DEFINE s == f[n]
               t == Append(s, w)
    <3>1. /\ DOMAIN s = 1 .. Len(s) /\ Len(s) \in Nat
          /\ DOMAIN t = 1 .. Len(s) + 1
          /\ t[Len(s) + 1] = w
          /\ \A k \in DOMAIN s : t[k] = s[k]
      BY <2>2
    <3> HIDE DEF s, t
    <3>2. /\ \A k \in DOMAIN t : k = Len(s) + 1 \/ k \in DOMAIN s
          /\ \A k \in DOMAIN s : k \in DOMAIN t /\ k # Len(s) + 1
          /\ Len(s) + 1 \in DOMAIN t
      BY <3>1
    <3>3. ActiveUpTo(s, n) /\ \A k \in DOMAIN s : s[k] # w
      BY <2>2, <2>5 DEF s
    <3>4. \A k \in DOMAIN t : \E j \in 1 .. n + 1 : t[k] = workers[j] /\ ~done[workers[j]]
      <4>1. n + 1 \in 1 .. n + 1 /\ \A j \in 1 .. n : j \in 1 .. n + 1
        OBVIOUS
      <4>2. t[Len(s) + 1] = workers[n + 1] /\ ~done[workers[n + 1]]
        BY <2>7, <3>1
      <4>3. \A k \in DOMAIN s : \E j \in 1 .. n : t[k] = workers[j] /\ ~done[workers[j]]
        BY <3>1, <3>3 DEF ActiveUpTo
      <4>. QED
        BY <3>2, <4>1, <4>2, <4>3
    <3>5. \A j \in 1 .. n + 1 : ~done[workers[j]] => \E k \in DOMAIN t : t[k] = workers[j]
      <4>1. \E k \in DOMAIN t : t[k] = w
        BY <3>1, <3>2
      <4>2. \A j \in 1 .. n : ~done[workers[j]] => \E k \in DOMAIN t : t[k] = workers[j]
        BY <3>1, <3>2, <3>3 DEF ActiveUpTo
      <4>. QED
        BY <2>4, <4>1, <4>2
    <3>6. \A k, l \in DOMAIN t : t[k] = t[l] => k = l
      BY <3>1, <3>2, <3>3 DEF ActiveUpTo
    <3>. QED
      <4>1. ActiveUpTo(t, n + 1)
        BY <3>4, <3>5, <3>6 DEF ActiveUpTo
      <4>2. f[n + 1] = t
        BY <2>3, <2>7 DEF s, t
      <4>. QED
        BY <4>1, <4>2
  <2>. QED
    BY <2>6, <2>7
<1>6. N \in T
  <2> HIDE DEF T
  <2>. QED
    BY <1>4, <1>5, NatInductive
<1>. QED
  BY <1>1, <1>2, <1>3, <1>6

\* A dispatcher is at work on a call, and past PickAvailable on a worker that exists;
\* a worker not yet created has nothing.
Placed ==
    /\ \A d \in Dispatchers : /\ pc[d] # "idle" => calls[d] > 0
                              /\ pc[d] \in {"start", "check", "allocate"} =>
                                     picked[d] <= created
    /\ \A w \in Worker : w > created => /\ sessions[w] = {} /\ count[w] = 0
                                        /\ ~done[w] /\ monitor[w] = "none"
    /\ \A i \in DOMAIN workers : workers[i] <= created

\* Every step preserves the types.
LEMMA TypeStep ==
  ASSUME TypeOK, Placed, NoneTwice, [Next]_vars
  PROVE  TypeOK'
<1> USE MuxClientAssumption DEF TypeOK, picker, worker, caller
<1>0. cleanup \in Seq(Worker) /\ 1 \in Worker
  <2>1. MaxWorkers \in Nat /\ MaxWorkers # 0
    OBVIOUS
  <2>. QED
    BY <2>1, CleanupKeeps DEF Worker
<1>1. ASSUME NEW d \in Dispatchers, Dispatch(d) PROVE TypeOK'
  BY SMTT(30), <1>1 DEF Dispatch, Goto
<1>2. ASSUME NEW d \in Dispatchers, PickExisting(d) PROVE TypeOK'
  <2>1. PICK i \in findAvailable : /\ workers' = swap(i)
                                  /\ picked' = [picked EXCEPT ![d] = workers'[i]]
    BY <1>2 DEF PickExisting
  <2>2. swap(i) \in Seq(Worker) /\ i \in DOMAIN swap(i) /\ swap(i)[i] \in Worker
    BY SMTT(30) DEF findAvailable, swap
  <2>. QED
    BY <1>2, <2>1, <2>2 DEF PickExisting, Goto, Disturb
<1>3. ASSUME NEW d \in Dispatchers, PickNew(d) PROVE TypeOK'
  <2>1. created + 1 \in Worker
    BY <1>3 DEF PickNew, Worker
  <2>2. Append(cleanup, created + 1) \in Seq(Worker) /\ created + 1 \in 0 .. MaxWorkers
    BY <1>0, <1>3, <2>1 DEF PickNew
  <2>. QED
    BY <1>3, <2>1, <2>2 DEF PickNew, Goto, Disturb
<1>4. ASSUME NEW d \in Dispatchers, StartCleanup(d) PROVE TypeOK'
  BY <1>0, <1>4 DEF StartCleanup, Goto, Disturb
<1>5. ASSUME NEW d \in Dispatchers, Retry(d) 
      PROVE  /\ pc' \in [Dispatchers -> {"idle", "pick", "start", "check", "allocate"}]
             /\ tries' \in [Dispatchers -> 0 .. Tries - 1]
             /\ picked' \in [Dispatchers -> Worker]
             /\ alone' \in [Dispatchers -> BOOLEAN]
  <2>1. CASE Return(d)
    BY <1>0, <2>1 DEF Return, Goto
  <2>2. CASE ~Return(d)
    <3>1. tries[d] + 1 \in 0 .. Tries - 1
      BY <1>5, <2>2 DEF Retry
    <3>2. /\ tries' = [tries EXCEPT ![d] = tries[d] + 1]
          /\ pc' = [pc EXCEPT ![d] = "pick"]
          /\ alone' = [e \in Dispatchers |-> alone[e] /\ e \in {d}]
          /\ UNCHANGED picked
      BY <1>5, <2>2 DEF Retry, Goto, Disturb
    <3>3. PICK k \in 0 .. Tries - 1 : tries' = [tries EXCEPT ![d] = k]
      BY <3>1, <3>2
    <3>. QED
      BY <3>2, <3>3
  <2>. QED
    BY <2>1, <2>2
<1>6. ASSUME NEW d \in Dispatchers, WorkerCheck(d) PROVE TypeOK'
  BY <1>5, <1>6 DEF WorkerCheck, Goto, Disturb
<1>7. ASSUME NEW d \in Dispatchers, Allocate(d) PROVE TypeOK'
  <2>1. <<d, calls[d]>> \in Request
    <3>1. calls[d] \in 0 .. MaxCalls /\ calls[d] > 0
      BY <1>7 DEF Allocate, Placed
    <3>. QED
      BY <3>1 DEF Request
  <2>2. CASE Retry(d) /\ UNCHANGED <<sessions, count, open>>
    BY <1>5, <1>7, <2>2 DEF Allocate
  <2>3. CASE Return(d)
    <3>1. /\ pc' \in [Dispatchers -> {"idle", "pick", "start", "check", "allocate"}]
          /\ tries' \in [Dispatchers -> 0 .. Tries - 1]
          /\ picked' \in [Dispatchers -> Worker]
          /\ alone' \in [Dispatchers -> BOOLEAN]
      BY <1>0, <2>3 DEF Return, Goto
    <3>2. /\ sessions' \in [Worker -> SUBSET Request]
          /\ count' \in [Worker -> Nat]
          /\ open' \in [Worker -> SUBSET Request]
      <4>1. CASE UNCHANGED <<sessions, count, open>>
        BY <4>1
      <4>2. CASE /\ sessions' = [sessions EXCEPT ![picked[d]] = @ \cup {<<d, calls[d]>>}]
                 /\ count' = [count EXCEPT ![picked[d]] = @ + 1]
                 /\ open' = [open EXCEPT ![picked[d]] = @ \cup {<<d, calls[d]>>}]
        <5>1. PICK r \in Request : r = <<d, calls[d]>>
          BY <2>1
        <5>2. picked[d] \in Worker /\ count[picked[d]] + 1 \in Nat
          OBVIOUS
        <5>3. /\ sessions' = [sessions EXCEPT ![picked[d]] = @ \cup {r}]
              /\ open' = [open EXCEPT ![picked[d]] = @ \cup {r}]
          BY <4>2, <5>1
        <5>. QED
          BY <4>2, <5>2, <5>3
      <4>. QED
        BY <1>7, <4>1, <4>2 DEF Allocate
    <3>. QED
      BY <1>7, <3>1, <3>2 DEF Allocate
  <2>. QED
    BY <1>7, <2>2, <2>3 DEF Allocate
<1>8. ASSUME NEW w \in Worker, WorkerStep(w) PROVE TypeOK'
  <2> USE <1>8 DEF WorkerStep, Disturb
  <2>1. ASSUME NEW r \in open[w], SessionEnd(w, r) PROVE TypeOK'
    BY <2>1 DEF SessionEnd
  <2>2. CASE CarrierFails(w)
    BY <2>2 DEF CarrierFails
  <2>3. CASE MonitorTick(w)
    BY <2>3 DEF MonitorTick
  <2>4. CASE CloseIfNoSession(w)
    BY <2>4 DEF CloseIfNoSession, CanClose
  <2>5. CASE MonitorDone(w)
    BY <2>5 DEF MonitorDone
  <2>. QED
    BY <2>1, <2>2, <2>3, <2>4, <2>5
<1>9. CASE CleanupTick \/ CleanupStops \/ Close
  BY <1>0, <1>9 DEF CleanupTick, CleanupStops, Close, Disturb
<1>10. CASE UNCHANGED vars
  BY <1>10 DEF vars
<1>. QED
  BY <1>1, <1>2, <1>3, <1>4, <1>6, <1>7, <1>8, <1>9, <1>10 DEF Next, DispatcherStep

\* What swap does to the list.
LEMMA SwapIs ==
  ASSUME workers \in Seq(Worker), NEW i \in DOMAIN workers
  PROVE  /\ Len(workers) \in DOMAIN workers
         /\ DOMAIN swap(i) = DOMAIN workers
         /\ Len(swap(i)) = Len(workers)
         /\ \A k \in DOMAIN workers :
               swap(i)[k] = IF k = i THEN workers[Len(workers)]
                            ELSE IF k = Len(workers) THEN workers[i] ELSE workers[k]
BY DEF swap

\* What Append does to a list.
LEMMA AppendIs ==
  ASSUME NEW s \in Seq(Worker), NEW w \in Worker
  PROVE  /\ \A k \in DOMAIN s : k \in DOMAIN Append(s, w) /\ Append(s, w)[k] = s[k]
         /\ Len(s) + 1 \in DOMAIN Append(s, w) /\ Append(s, w)[Len(s) + 1] = w
         /\ \A k \in DOMAIN Append(s, w) : k \in DOMAIN s \/ k = Len(s) + 1
         /\ Len(s) + 1 \notin DOMAIN s
OBVIOUS

\* The workers are numbered as they are created.
LEMMA Numbers ==
  ASSUME TypeOK
  PROVE  /\ created \in Nat /\ \A w \in Worker : w \in Nat
         /\ \A w \in 1 .. created : w \in Worker
<1>1. MaxWorkers \in Nat /\ created \in 0 .. MaxWorkers
  BY MuxClientAssumption DEF TypeOK
<1>. QED
  BY <1>1 DEF Worker

\* Every step preserves Placed.
LEMMA PlacedStep ==
  ASSUME TypeOK, Placed, NoneTwice, [Next]_vars
  PROVE  Placed'
<1> USE MuxClientAssumption DEF TypeOK, Placed, picker, worker, caller
<1>0. \A k \in DOMAIN cleanup : cleanup[k] \in Worker /\ cleanup[k] <= created
  <2>1. cleanup \in Seq(Worker) /\ ActiveUpTo(cleanup, Len(workers))
    BY CleanupKeeps
  <2>2. DOMAIN workers = 1 .. Len(workers)
    OBVIOUS
  <2>3. \A k \in DOMAIN cleanup : \E j \in DOMAIN workers : cleanup[k] = workers[j]
    BY <2>1, <2>2 DEF ActiveUpTo
  <2>. QED
    BY <2>3
<1>a. created \in Nat /\ \A w \in Worker : w \in Nat
  BY Numbers
<1>1. ASSUME NEW d \in Dispatchers, Dispatch(d) PROVE Placed'
  BY <1>1 DEF Dispatch, Goto
<1>2. ASSUME NEW d \in Dispatchers, PickExisting(d) PROVE Placed'
  <2>1. PICK i \in DOMAIN workers : /\ workers' = swap(i)
                                   /\ picked' = [picked EXCEPT ![d] = workers'[i]]
    BY <1>2 DEF PickExisting, findAvailable
  <2>2. \A k \in DOMAIN workers' : workers'[k] <= created
    <3>1. \A k \in DOMAIN workers' : \E l \in DOMAIN workers : workers'[k] = workers[l]
      BY <2>1, SwapIs
    <3>. QED
      BY <3>1
  <2>3. i \in DOMAIN workers'
    BY <2>1, SwapIs
  <2>. QED
    BY <1>2, <2>1, <2>2, <2>3 DEF PickExisting, Goto
<1>3. ASSUME NEW d \in Dispatchers, PickNew(d) PROVE Placed'
  <2>1. created' = created + 1 /\ created' \in Worker
    BY <1>3 DEF PickNew, Worker
  <2>2. \A k \in DOMAIN workers' : workers'[k] <= created'
    <3>1. workers' = Append(cleanup, created') /\ cleanup \in Seq(Worker)
      BY <1>3, CleanupKeeps DEF PickNew
    <3>2. ASSUME NEW k \in DOMAIN workers' PROVE workers'[k] <= created'
      <4>1. CASE k \in DOMAIN cleanup
        <5>1. workers'[k] = cleanup[k]
          BY SMTT(30), <2>1, <3>1, <4>1, AppendIs
        <5>2. cleanup[k] \in Nat /\ cleanup[k] <= created
          BY <1>0, <1>a, <4>1
        <5>. QED
          BY <1>a, <2>1, <5>1, <5>2
      <4>2. CASE k \notin DOMAIN cleanup
        <5>1. workers'[k] = created'
          BY SMTT(30), <2>1, <3>1, <4>2, AppendIs
        <5>. QED
          BY <1>a, <2>1, <5>1
      <4>. QED
        BY <4>1, <4>2
    <3>. QED
      BY <3>2
  <2>3. \A w \in Worker : w > created' => w > created /\ w # created'
    BY <1>a, <2>1
  <2>4. \A w \in Worker : w > created' => /\ sessions'[w] = {} /\ count'[w] = 0
                                          /\ ~done'[w] /\ monitor'[w] = "none"
    BY <1>3, <2>1, <2>3 DEF PickNew
  <2>5. \A e \in Dispatchers : /\ pc'[e] # "idle" => calls'[e] > 0
                               /\ pc'[e] \in {"start", "check", "allocate"} =>
                                     picked'[e] <= created'
    <3>1. picked' = [picked EXCEPT ![d] = created'] /\ UNCHANGED calls
          /\ pc' = [pc EXCEPT ![d] = "start"] /\ pc[d] = "pick"
      BY <1>3 DEF PickNew, Goto
    <3>2. \A e \in Dispatchers : picked[e] \in Nat /\ created \in Nat
      BY <1>a
    <3>3. /\ picked'[d] = created' /\ pc'[d] = "start"
          /\ \A e \in Dispatchers : e # d => picked'[e] = picked[e] /\ pc'[e] = pc[e]
      BY <1>a, <3>1
    <3>4. calls'[d] > 0 /\ picked'[d] <= created'
      BY <1>a, <2>1, <3>1, <3>3
    <3>5. ASSUME NEW e \in Dispatchers, e # d
          PROVE  /\ pc'[e] # "idle" => calls'[e] > 0
                 /\ pc'[e] \in {"start", "check", "allocate"} => picked'[e] <= created'
      BY SMTT(30), <1>a, <2>1, <3>1, <3>2, <3>3, <3>5
    <3>. QED
      BY <3>4, <3>5
  <2>. QED
    BY <2>2, <2>4, <2>5
<1>4. ASSUME NEW d \in Dispatchers, StartCleanup(d) PROVE Placed'
  BY <1>0, <1>4 DEF StartCleanup, Goto
<1>5. ASSUME NEW d \in Dispatchers, pc[d] # "idle", Retry(d) \/ Return(d), UNCHANGED calls
      PROVE  \A e \in Dispatchers : /\ pc'[e] # "idle" => calls'[e] > 0
                                    /\ pc'[e] \in {"start", "check", "allocate"} =>
                                          picked'[e] <= created
  BY SMTT(30), <1>5 DEF Retry, Return, Goto
<1>6. ASSUME NEW d \in Dispatchers, WorkerCheck(d) PROVE Placed'
  <2>1. CASE Retry(d)
    BY <1>5, <1>6, <2>1 DEF WorkerCheck
  <2>2. CASE ~Retry(d)
    BY <1>6, <2>2 DEF WorkerCheck, Goto
  <2>. QED
    BY <2>1, <2>2
<1>7. ASSUME NEW d \in Dispatchers, Allocate(d) PROVE Placed'
  <2>1. \A e \in Dispatchers : /\ pc'[e] # "idle" => calls'[e] > 0
                               /\ pc'[e] \in {"start", "check", "allocate"} =>
                                     picked'[e] <= created
    BY <1>5, <1>7 DEF Allocate
  <2>2. \A w \in Worker : w > created => w # picked[d]
    BY <1>7, <1>a DEF Allocate
  <2>3. \A w \in Worker : w > created => sessions'[w] = {} /\ count'[w] = 0
    BY <1>7, <2>2 DEF Allocate
  <2>. QED
    BY <1>7, <2>1, <2>3 DEF Allocate
<1>8. ASSUME NEW w \in Worker, WorkerStep(w) PROVE Placed'
  <2> USE <1>8 DEF WorkerStep
  <2>1. ASSUME NEW r \in open[w], SessionEnd(w, r) PROVE Placed'
    BY <2>1 DEF SessionEnd
  <2>2. CASE CarrierFails(w)
    BY <1>a, <2>2 DEF CarrierFails
  <2>3. CASE MonitorTick(w)
    BY <2>3 DEF MonitorTick
  <2>4. CASE CloseIfNoSession(w)
    BY <2>4 DEF CloseIfNoSession, CanClose
  <2>5. CASE MonitorDone(w)
    BY <2>5 DEF MonitorDone
  <2>. QED
    BY <2>1, <2>2, <2>3, <2>4, <2>5
<1>9. CASE CleanupTick \/ CleanupStops \/ Close
  BY <1>0, <1>9 DEF CleanupTick, CleanupStops, Close
<1>10. CASE UNCHANGED vars
  BY <1>10 DEF vars
<1>. QED
  BY <1>1, <1>2, <1>3, <1>4, <1>6, <1>7, <1>8, <1>9, <1>10 DEF Next, DispatcherStep

\* Every step preserves ListedOnce: only done workers leave the list.
LEMMA ListedStep ==
  ASSUME TypeOK, Placed, ListedOnce, [Next]_vars
  PROVE  ListedOnce'
<1> USE MuxClientAssumption DEF TypeOK, picker, worker, caller
<1>0. /\ cleanup \in Seq(Worker) /\ ActiveUpTo(cleanup, Len(workers))
      /\ DOMAIN workers = 1 .. Len(workers)
  BY CleanupKeeps DEF ListedOnce, NoneTwice
<1>1. CASE UNCHANGED <<workers, created>> /\ \A w \in Worker : done[w] => done'[w]
  BY <1>1, Numbers DEF ListedOnce
<1>2. ASSUME NEW d \in Dispatchers, PickExisting(d) PROVE ListedOnce'
  <2>1. PICK i \in DOMAIN workers : workers' = swap(i)
    BY <1>2 DEF PickExisting, findAvailable
  <2>2. /\ Len(workers) \in DOMAIN workers
        /\ DOMAIN workers' = DOMAIN workers
        /\ \A k \in DOMAIN workers :
              workers'[k] = IF k = i THEN workers[Len(workers)]
                            ELSE IF k = Len(workers) THEN workers[i] ELSE workers[k]
    BY <2>1, SwapIs
  <2>3. UNCHANGED <<created, done>>
    BY <1>2 DEF PickExisting
  <2>4. \A k, l \in DOMAIN workers' : workers'[k] = workers'[l] => k = l
    BY <2>2 DEF ListedOnce
  <2>5. \A k \in DOMAIN workers : \E l \in DOMAIN workers' : workers'[l] = workers[k]
    BY <2>2
  <2>6. ASSUME NEW w \in 1 .. created, ~done[w]
        PROVE  \E l \in DOMAIN workers' : workers'[l] = w
    <3>1. PICK k \in DOMAIN workers : workers[k] = w
      BY <2>6 DEF ListedOnce
    <3>. QED
      BY <2>5, <3>1, Zenon
  <2>. QED
    BY <2>3, <2>4, <2>6 DEF ListedOnce
<1>3. ASSUME workers' = cleanup, UNCHANGED <<created, done>> PROVE ListedOnce'
  BY SMTT(30), <1>0, <1>3 DEF ListedOnce, ActiveUpTo
<1>4. ASSUME NEW d \in Dispatchers, PickNew(d) PROVE ListedOnce'
  <2>1. created' = created + 1 /\ workers' = Append(cleanup, created') /\ UNCHANGED done
        /\ created' \in Worker
    BY <1>4 DEF PickNew, Worker
  <2>2. /\ \A k \in DOMAIN cleanup : k \in DOMAIN workers' /\ workers'[k] = cleanup[k]
        /\ Len(cleanup) + 1 \in DOMAIN workers' /\ workers'[Len(cleanup) + 1] = created'
        /\ \A k \in DOMAIN workers' : k \in DOMAIN cleanup \/ k = Len(cleanup) + 1
        /\ Len(cleanup) + 1 \notin DOMAIN cleanup
    BY SMTT(30), <1>0, <2>1, AppendIs
  <2>3. \A k \in DOMAIN cleanup : cleanup[k] # created'
    <3>1. \A k \in DOMAIN cleanup : \E j \in DOMAIN workers : cleanup[k] = workers[j]
      BY <1>0 DEF ActiveUpTo
    <3>2. \A j \in DOMAIN workers : workers[j] # created + 1
      BY Numbers DEF Placed
    <3>. QED
      BY <2>1, <3>1, <3>2
  <2>4. \A k, l \in DOMAIN workers' : workers'[k] = workers'[l] => k = l
    <3>1. \A k, l \in DOMAIN cleanup : cleanup[k] = cleanup[l] => k = l
      BY <1>0 DEF ActiveUpTo
    <3>. QED
      BY <2>2, <2>3, <3>1, Zenon
  <2>5. ASSUME NEW w \in 1 .. created', ~done'[w]
        PROVE  \E k \in DOMAIN workers' : workers'[k] = w
    <3>1. CASE w = created'
      BY <2>2, <3>1
    <3>2. CASE w # created'
      <4>1. w \in 1 .. created /\ ~done[w]
        BY <2>1, <2>5, <3>2
      <4>2. PICK j \in 1 .. Len(workers) : workers[j] = w
        BY <1>0, <4>1 DEF ListedOnce
      <4>. QED
        BY SMTT(30), <1>0, <2>2, <4>1, <4>2 DEF ActiveUpTo
    <3>. QED
      BY <3>1, <3>2
  <2>. QED
    BY <2>4, <2>5 DEF ListedOnce
<1>5. ASSUME NEW d \in Dispatchers, Dispatch(d) \/ WorkerCheck(d) \/ Allocate(d)
      PROVE  ListedOnce'
  BY <1>1, <1>5 DEF Dispatch, WorkerCheck, Allocate
<1>6. ASSUME NEW d \in Dispatchers, StartCleanup(d) PROVE ListedOnce'
  BY <1>1, <1>3, <1>6 DEF StartCleanup
<1>7. ASSUME NEW w \in Worker, WorkerStep(w) PROVE ListedOnce'
  BY <1>1, <1>7 DEF WorkerStep, SessionEnd, CarrierFails, MonitorTick, CloseIfNoSession,
     MonitorDone
<1>8. CASE CleanupTick \/ CleanupStops \/ Close
  BY <1>1, <1>3, <1>8 DEF CleanupTick, CleanupStops, Close
<1>9. CASE UNCHANGED vars
  BY <1>1, <1>9 DEF vars
<1>. QED
  BY <1>2, <1>4, <1>5, <1>6, <1>7, <1>8, <1>9 DEF Next, DispatcherStep

\* Until the picker is closed: while cleanupFunc's error is on its way to Periodic the
\* timer is not armed, and a dispatcher that is about to start the task finds a worker
\* in the list or the task running for good.
CleanupRuns ==
    ~stopped =>
        /\ failing => running /\ ~ticking
        /\ (\E d \in Dispatchers : pc[d] = "start") =>
               workers # <<>> \/ (running /\ ~failing)

\* The dispatchers that have found w not full and have yet to allocate there
Racing(w) == {d \in Dispatchers : pc[d] = "allocate" /\ picked[d] = w}

\* Those count against the limits, too.
RaceIsBounded ==
    \A w \in Worker :
        /\ IsFiniteSet(sessions[w])
        /\ MaxConcurrency > 0 =>
             Cardinality(sessions[w]) + Cardinality(Racing(w))
                 < MaxConcurrency + Cardinality(Dispatchers)
        /\ MaxConnection > 0 =>
             count[w] + Cardinality(Racing(w)) < MaxConnection + Cardinality(Dispatchers)

LastIsFree == workers # <<>> /\ ~IsFull(workers[Len(workers)])

\* How far an undisturbed Dispatch is: the worker it has is free or, in its first
\* attempt only, the last of the list is, which is where the second attempt finds one.
Undisturbed(d) ==
    alone[d] =>
        /\ tries[d] <= 1
        /\ pc[d] = "pick" /\ tries[d] = 1 => LastIsFree
        /\ pc[d] \in {"start", "allocate"} => ~IsFull(picked[d])
        /\ pc[d] = "check" => ~IsFull(picked[d]) \/ (tries[d] = 0 /\ LastIsFree)

SecondIsFree ==
    /\ \A d \in Dispatchers : Undisturbed(d) /\ (pc[d] = "idle" => tries[d] = 0)
    /\ \A w \in Worker : closed[w] => done[w]

\* Every step preserves CleanupRuns; none makes StartCleanup panic before Close.
LEMMA CleanupStep ==
  ASSUME TypeOK, CleanupRuns, NoPanic, [Next]_vars
  PROVE  CleanupRuns' /\ NoPanic'
<1> USE DEF picker, worker, caller
<1>0. /\ running \in BOOLEAN /\ ticking \in BOOLEAN /\ failing \in BOOLEAN
      /\ stopped \in BOOLEAN /\ pc = [d \in Dispatchers |-> pc[d]]
  BY DEF TypeOK
<1>1. ASSUME UNCHANGED <<workers, running, ticking, failing, stopped, crashed>>,
             \A d \in Dispatchers : pc'[d] = "start" => pc[d] = "start"
      PROVE  CleanupRuns' /\ NoPanic'
  BY <1>1 DEF CleanupRuns, NoPanic
<1>2. ASSUME NEW d \in Dispatchers, Dispatch(d) \/ WorkerCheck(d) \/ Allocate(d)
      PROVE  CleanupRuns' /\ NoPanic'
  BY <1>0, <1>1, <1>2 DEF Dispatch, WorkerCheck, Allocate, Retry, Return, Goto
<1>3. ASSUME NEW d \in Dispatchers, PickExisting(d) PROVE CleanupRuns' /\ NoPanic'
  <2>1. workers # <<>> /\ workers' # <<>>
    <3>1. PICK i \in DOMAIN workers : workers' = swap(i)
      BY <1>3 DEF PickExisting, findAvailable
    <3>. QED
      BY <3>1, SwapIs DEF TypeOK
  <2>. QED
    BY <1>0, <1>3, <2>1 DEF PickExisting, Goto, CleanupRuns, NoPanic
<1>4. ASSUME NEW d \in Dispatchers, PickNew(d) PROVE CleanupRuns' /\ NoPanic'
  <2>1. workers' # <<>>
    <3>1. Append(cleanup, created + 1) # <<>>
      OBVIOUS
    <3>. QED
      BY <1>4, <3>1 DEF PickNew
  <2>. QED
    BY <1>0, <1>4, <2>1 DEF PickNew, CleanupRuns, NoPanic
<1>5. ASSUME NEW d \in Dispatchers, StartCleanup(d) PROVE CleanupRuns' /\ NoPanic'
  <2>1. \A e \in Dispatchers : pc'[e] = "start" => pc[e] = "start"
    BY <1>0, <1>5 DEF StartCleanup, Goto
  <2>2. CASE running
    BY <1>1, <1>5, <2>1, <2>2 DEF StartCleanup
  <2>3. CASE ~running /\ ~noWorker
    BY <1>0, <1>5, <2>1, <2>3 DEF StartCleanup, CleanupRuns, NoPanic
  <2>4. CASE ~running /\ noWorker
    <3>1. stopped
      BY <1>5, <2>4 DEF StartCleanup, CleanupRuns, noWorker
    <3>. QED
      BY <1>5, <3>1 DEF StartCleanup, CleanupRuns, NoPanic
  <2>. QED
    BY <2>2, <2>3, <2>4
<1>6. ASSUME NEW w \in Worker, WorkerStep(w) PROVE CleanupRuns' /\ NoPanic'
  BY <1>1, <1>6 DEF WorkerStep
<1>7. CASE CleanupTick
  <2>1. UNCHANGED <<running, stopped, crashed, pc>> /\ ticking
    BY <1>7 DEF CleanupTick
  <2>2. ~stopped => ~failing
    BY <1>0, <2>1 DEF CleanupRuns
  <2>3. CASE UNCHANGED <<workers, failing>> /\ ~ticking'
    BY <2>1, <2>2, <2>3 DEF CleanupRuns, NoPanic
  <2>4. CASE running /\ UNCHANGED <<ticking, failing>>
    BY <2>1, <2>2, <2>4 DEF CleanupRuns, NoPanic
  <2>5. CASE running /\ ~ticking' /\ \A d \in Dispatchers : pc[d] # "start"
    BY <2>1, <2>5 DEF CleanupRuns, NoPanic
  <2>. QED
    BY <1>7, <2>3, <2>4, <2>5 DEF CleanupTick
<1>8. CASE CleanupStops \/ Close
  BY <1>0, <1>8 DEF CleanupStops, Close, CleanupRuns, NoPanic
<1>9. CASE UNCHANGED vars
  BY <1>1, <1>9 DEF vars
<1>. QED
  BY <1>2, <1>3, <1>4, <1>5, <1>6, <1>7, <1>8, <1>9 DEF Next, DispatcherStep

\* Every step preserves SecondIsFree.
LEMMA SecondStep ==
  ASSUME TypeOK, Placed, SecondIsFree, [Next]_vars
  PROVE  SecondIsFree'
<1> USE DEF TypeOK, picker, worker, caller
<1>0. \A w \in Worker : closed[w] => done[w]
  BY DEF SecondIsFree
<1>1. ASSUME \A e \in Dispatchers : ~alone'[e] /\ pc'[e] = pc[e] /\ tries'[e] = tries[e],
             \A w \in Worker : closed'[w] => done'[w]
      PROVE  SecondIsFree'
  BY <1>1 DEF SecondIsFree, Undisturbed
<1>2. ASSUME NEW d \in Dispatchers, UNCHANGED <<closed, done>>,
             Undisturbed(d)', pc'[d] = "idle" => tries'[d] = 0,
             \A e \in Dispatchers \ {d} :
                ~alone'[e] /\ pc'[e] = pc[e] /\ tries'[e] = tries[e]
      PROVE  SecondIsFree'
  BY <1>2 DEF SecondIsFree, Undisturbed
<1>3. \A d \in Dispatchers : Undisturbed(d) /\ (pc[d] = "idle" => tries[d] = 0)
  BY DEF SecondIsFree
<1>4. ASSUME NEW d \in Dispatchers, Dispatch(d) PROVE SecondIsFree'
  <2>1. Undisturbed(d)'
    BY <1>3, <1>4 DEF Dispatch, Goto, Undisturbed
  <2>. QED
    BY <1>2, <1>4, <2>1 DEF Dispatch, Goto
<1>5. ASSUME NEW d \in Dispatchers, PickExisting(d) PROVE SecondIsFree'
  <2>1. PICK i \in findAvailable : /\ workers' = swap(i)
                                  /\ picked' = [picked EXCEPT ![d] = workers'[i]]
    BY <1>5 DEF PickExisting
  <2>2. i \in DOMAIN workers /\ ~IsFull(workers[i])
    BY DEF findAvailable
  <2>3. UNCHANGED <<sessions, count, done, closed, tries>>
    BY <1>5 DEF PickExisting
  <2>5. /\ workers' # <<>> /\ workers # <<>>
        /\ workers'[Len(workers')] = workers[i]
        /\ picked'[d] = workers[Len(workers)]
        /\ workers[i] \in Worker /\ workers[Len(workers)] \in Worker
    BY <2>1, <2>2, SwapIs
  <2>6. LastIsFree' /\ (LastIsFree => ~IsFull(picked[d])')
    BY <2>2, <2>3, <2>5 DEF LastIsFree, IsFull, IsClosing
  <2>7. pc[d] = "pick" /\ pc' = [pc EXCEPT ![d] = "check"]
        /\ alone' = [e \in Dispatchers |-> alone[e] /\ e \in {d}]
    BY <1>5 DEF PickExisting, Goto, Disturb
  <2>8. Undisturbed(d)'
    BY <1>3, <2>3, <2>6, <2>7 DEF Undisturbed
  <2>. QED
    BY <1>2, <2>3, <2>7, <2>8
<1>6. ASSUME NEW d \in Dispatchers, PickNew(d) PROVE SecondIsFree'
  <2>1. /\ created' = created + 1 /\ created' \in Worker
        /\ UNCHANGED <<sessions, count, done, closed, tries>>
        /\ picked'[d] = created'
    BY <1>6, MuxClientAssumption DEF PickNew, Worker
  <2>2. sessions[created'] = {} /\ count[created'] = 0 /\ ~done[created']
    BY <2>1, Numbers DEF Placed
  <2>3. MaxConnection \in Nat /\ MaxConcurrency \in Nat /\ Cardinality({}) = 0
    BY MuxClientAssumption, FS_EmptySet
  <2>4. ~IsFull(picked[d])'
    BY <2>1, <2>2, <2>3 DEF IsFull, IsClosing
  <2>5. pc[d] = "pick" /\ pc' = [pc EXCEPT ![d] = "start"]
        /\ alone' = [e \in Dispatchers |-> alone[e] /\ e \in {d}]
    BY <1>6 DEF PickNew, Goto, Disturb
  <2>6. Undisturbed(d)'
    BY <1>3, <2>1, <2>4, <2>5 DEF Undisturbed
  <2>. QED
    BY <1>2, <2>1, <2>5, <2>6
<1>7. ASSUME NEW d \in Dispatchers, StartCleanup(d) PROVE SecondIsFree'
  <2>1. UNCHANGED <<sessions, count, done, closed, tries, picked>>
    BY <1>7 DEF StartCleanup
  <2>2. IsFull(picked[d])' <=> IsFull(picked[d])
    BY <2>1 DEF IsFull, IsClosing
  <2>3. pc[d] = "start" /\ pc' = [pc EXCEPT ![d] = "check"]
        /\ alone' = [e \in Dispatchers |-> alone[e] /\ e \in {d}]
    BY <1>7 DEF StartCleanup, Goto, Disturb
  <2>4. Undisturbed(d)'
    BY <1>3, <2>1, <2>2, <2>3 DEF Undisturbed
  <2>. QED
    BY <1>2, <2>1, <2>3, <2>4
<1>8. ASSUME NEW d \in Dispatchers, Return(d), UNCHANGED <<closed, done>>
      PROVE  SecondIsFree'
  <2>1. pc' = [pc EXCEPT ![d] = "idle"] /\ tries' = [tries EXCEPT ![d] = 0]
        /\ alone' = [e \in Dispatchers |-> FALSE]
    BY <1>8 DEF Return, Goto
  <2>2. Undisturbed(d)'
    BY <2>1 DEF Undisturbed
  <2>. QED
    BY <1>2, <1>8, <2>1, <2>2
<1>9. ASSUME NEW d \in Dispatchers, WorkerCheck(d) PROVE SecondIsFree'
  <2>1. UNCHANGED <<workers, sessions, count, done, closed>> /\ pc[d] = "check"
    BY <1>9 DEF WorkerCheck
  <2>2. \A w \in Worker : IsFull(w)' <=> IsFull(w)
    BY <2>1 DEF IsFull, IsClosing
  <2>3. LastIsFree' <=> LastIsFree
    BY <2>1, <2>2 DEF LastIsFree
  <2>4. CASE Return(d)
    BY <1>8, <2>1, <2>4
  <2>5. CASE ~Return(d) /\ IsFull(picked[d])
    <3>1. /\ tries' = [tries EXCEPT ![d] = @ + 1]
          /\ pc' = [pc EXCEPT ![d] = "pick"]
          /\ alone' = [e \in Dispatchers |-> alone[e] /\ e \in {d}]
          /\ UNCHANGED picked
      BY <1>9, <2>5 DEF WorkerCheck, Retry, Goto, Disturb
    <3>2. alone[d] => tries[d] = 0 /\ LastIsFree
      BY <1>3, <2>1, <2>5 DEF Undisturbed
    <3>3. Undisturbed(d)'
      BY <2>3, <3>1, <3>2 DEF Undisturbed
    <3>. QED
      BY <1>2, <2>1, <3>1, <3>3
  <2>6. CASE ~Return(d) /\ ~IsFull(picked[d])
    <3>1. /\ pc' = [pc EXCEPT ![d] = "allocate"]
          /\ alone' = [e \in Dispatchers |-> alone[e] /\ e \in {d}]
          /\ UNCHANGED <<tries, picked>>
      BY <1>9, <2>6 DEF WorkerCheck, Goto, Disturb
    <3>2. Undisturbed(d)'
      BY <1>3, <2>2, <2>6, <3>1 DEF Undisturbed
    <3>. QED
      BY <1>2, <2>1, <3>1, <3>2
  <2>. QED
    BY <2>4, <2>5, <2>6
<1>10. ASSUME NEW d \in Dispatchers, Allocate(d) PROVE SecondIsFree'
  <2>1. UNCHANGED <<closed, done>> /\ pc[d] = "allocate"
    BY <1>10 DEF Allocate
  <2>2. CASE Return(d)
    BY <1>8, <2>1, <2>2
  <2>3. CASE ~Return(d)
    <3>1. closed[picked[d]] /\ Retry(d)
      BY <1>10, <2>3 DEF Allocate, Refused
    <3>2. ~alone[d]
      <4>1. IsFull(picked[d])
        BY <1>0, <3>1 DEF IsFull
      <4>. QED
        BY <1>3, <2>1, <4>1 DEF Undisturbed
    <3>3. /\ tries' = [tries EXCEPT ![d] = @ + 1]
          /\ pc' = [pc EXCEPT ![d] = "pick"]
          /\ alone' = [e \in Dispatchers |-> alone[e] /\ e \in {d}]
      BY <2>3, <3>1 DEF Retry, Goto, Disturb
    <3>4. Undisturbed(d)'
      BY <3>2, <3>3 DEF Undisturbed
    <3>. QED
      BY <1>2, <2>1, <3>3, <3>4
  <2>. QED
    BY <2>2, <2>3
<1>11. ASSUME NEW w \in Worker, WorkerStep(w) PROVE SecondIsFree'
  <2>1. \A v \in Worker : closed'[v] => done'[v]
    <3>1. ASSUME NEW r \in open[w], SessionEnd(w, r) PROVE \A v \in Worker : closed'[v] => done'[v]
      BY <1>0, <3>1 DEF SessionEnd
    <3>2. CASE CarrierFails(w)
      BY <1>0, <3>2 DEF CarrierFails
    <3>3. CASE MonitorTick(w)
      BY <1>0, <3>3 DEF MonitorTick
    <3>4. CASE CloseIfNoSession(w)
      BY <1>0, <3>4 DEF CloseIfNoSession
    <3>5. CASE MonitorDone(w)
      BY <1>0, <3>5 DEF MonitorDone
    <3>. QED
      BY <1>11, <3>1, <3>2, <3>3, <3>4, <3>5 DEF WorkerStep
  <2>. QED
    BY <1>1, <1>11, <2>1 DEF WorkerStep, Disturb
<1>12. CASE CleanupTick \/ CleanupStops \/ Close
  BY <1>0, <1>1, <1>12 DEF CleanupTick, CleanupStops, Close, Disturb
<1>13. CASE UNCHANGED vars
  BY <1>13 DEF vars, SecondIsFree, Undisturbed, LastIsFree, IsFull, IsClosing
<1>. QED
  BY <1>4, <1>5, <1>6, <1>7, <1>9, <1>10, <1>11, <1>12, <1>13 DEF Next, DispatcherStep

\* The sets that are counted are finite, and no more than all dispatchers race.
LEMMA RacingIsFinite ==
  ASSUME NEW w
  PROVE  /\ IsFiniteSet(Racing(w)) /\ Cardinality(Racing(w)) \in Nat
         /\ Cardinality(Dispatchers) \in Nat
         /\ Cardinality(Racing(w)) <= Cardinality(Dispatchers)
<1>1. Racing(w) \in SUBSET Dispatchers /\ IsFiniteSet(Dispatchers)
  BY MuxClientAssumption DEF Racing
<1>. QED
  BY <1>1, FS_Subset, FS_CardinalityType

\* A worker for which neither count grows keeps its bound.
LEMMA RaceShrinks ==
  ASSUME TypeOK, RaceIsBounded, NEW w \in Worker,
         sessions'[w] \subseteq sessions[w], count'[w] = count[w],
         Racing(w)' \subseteq Racing(w)
  PROVE  /\ IsFiniteSet(sessions'[w])
         /\ MaxConcurrency > 0 =>
              Cardinality(sessions'[w]) + Cardinality(Racing(w)')
                 < MaxConcurrency + Cardinality(Dispatchers)
         /\ MaxConnection > 0 =>
              count'[w] + Cardinality(Racing(w)') < MaxConnection + Cardinality(Dispatchers)
<1>1. IsFiniteSet(sessions[w]) /\ IsFiniteSet(Racing(w))
  BY RacingIsFinite DEF RaceIsBounded
<1>2. /\ IsFiniteSet(sessions'[w]) /\ Cardinality(sessions'[w]) <= Cardinality(sessions[w])
      /\ Cardinality(Racing(w)') <= Cardinality(Racing(w)) /\ IsFiniteSet(Racing(w)')
  BY <1>1, FS_Subset
<1>3. /\ Cardinality(sessions'[w]) \in Nat /\ Cardinality(sessions[w]) \in Nat
      /\ Cardinality(Racing(w)') \in Nat /\ Cardinality(Racing(w)) \in Nat
      /\ Cardinality(Dispatchers) \in Nat /\ count[w] \in Nat
      /\ MaxConcurrency \in Nat /\ MaxConnection \in Nat
  BY <1>1, <1>2, FS_CardinalityType, RacingIsFinite, MuxClientAssumption DEF TypeOK
<1>4. /\ MaxConcurrency > 0 => Cardinality(sessions[w]) + Cardinality(Racing(w))
                 < MaxConcurrency + Cardinality(Dispatchers)
      /\ MaxConnection > 0 =>
              count[w] + Cardinality(Racing(w)) < MaxConnection + Cardinality(Dispatchers)
  BY DEF RaceIsBounded
<1>. QED
  BY <1>2, <1>3, <1>4

\* Every step preserves RaceIsBounded: whoever passes IsFull found room, and whoever
\* allocates has raced no longer.
LEMMA RaceStep ==
  ASSUME TypeOK, RaceIsBounded, [Next]_vars
  PROVE  RaceIsBounded'
<1> USE DEF TypeOK, picker, worker, caller
<1>1. ASSUME \A w \in Worker : /\ sessions'[w] \subseteq sessions[w]
                               /\ count'[w] = count[w] /\ Racing(w)' \subseteq Racing(w)
      PROVE  RaceIsBounded'
  BY <1>1, RaceShrinks DEF RaceIsBounded
<1>2. ASSUME NEW d \in Dispatchers, Retry(d) \/ Return(d), NEW w \in Worker
      PROVE  Racing(w)' = Racing(w) \ {d}
  BY <1>2 DEF Retry, Return, Goto, Racing
<1>3. ASSUME NEW d \in Dispatchers,
             Dispatch(d) \/ PickExisting(d) \/ PickNew(d) \/ StartCleanup(d)
      PROVE  RaceIsBounded'
  <2>1. UNCHANGED <<sessions, count>>
    BY <1>3 DEF Dispatch, PickExisting, PickNew, StartCleanup
  <2>2. /\ \A e \in Dispatchers \ {d} : pc'[e] = pc[e] /\ picked'[e] = picked[e]
        /\ pc'[d] # "allocate"
    BY <1>3 DEF Dispatch, PickExisting, PickNew, StartCleanup, Goto
  <2>3. \A w \in Worker : Racing(w)' \subseteq Racing(w)
    BY <2>2 DEF Racing
  <2>. QED
    BY <1>1, <2>1, <2>3
<1>4. ASSUME NEW d \in Dispatchers, WorkerCheck(d) PROVE RaceIsBounded'
  <2>1. UNCHANGED <<sessions, count>>
    BY <1>4 DEF WorkerCheck
  <2>2. CASE Retry(d)
    BY <1>1, <1>2, <2>1, <2>2
  <2>3. CASE ~Retry(d)
    <3>1. /\ ~IsFull(picked[d]) /\ picked[d] \in Worker
          /\ pc' = [pc EXCEPT ![d] = "allocate"] /\ UNCHANGED picked
      BY <1>4, <2>3 DEF WorkerCheck, Goto
    <3>2. ASSUME NEW w \in Worker, w # picked[d] PROVE Racing(w)' \subseteq Racing(w)
      BY <3>1, <3>2 DEF Racing
    <3>3. /\ MaxConcurrency \in Nat /\ MaxConnection \in Nat /\ count[picked[d]] \in Nat
          /\ Cardinality(sessions[picked[d]]) \in Nat
      BY <3>1, MuxClientAssumption, FS_CardinalityType DEF RaceIsBounded
    <3>4. /\ MaxConcurrency > 0 => Cardinality(sessions[picked[d]]) < MaxConcurrency
          /\ MaxConnection > 0 => count[picked[d]] < MaxConnection
      BY <3>1, <3>3 DEF IsFull, IsClosing
    <3>5. /\ Cardinality(Racing(picked[d])') <= Cardinality(Dispatchers)
          /\ Cardinality(Racing(picked[d])') \in Nat /\ Cardinality(Dispatchers) \in Nat
      <4>1. Racing(picked[d])' \in SUBSET Dispatchers
        BY DEF Racing
      <4>. QED
        BY <4>1, FS_Subset, FS_CardinalityType, MuxClientAssumption
    <3>6. ASSUME NEW w \in Worker
          PROVE  /\ IsFiniteSet(sessions'[w])
                 /\ MaxConcurrency > 0 =>
                      Cardinality(sessions'[w]) + Cardinality(Racing(w)')
                         < MaxConcurrency + Cardinality(Dispatchers)
                 /\ MaxConnection > 0 =>
                      count'[w] + Cardinality(Racing(w)')
                         < MaxConnection + Cardinality(Dispatchers)
      <4>1. CASE w = picked[d]
        <5>1. Racing(picked[d])' = Racing(w)'
          BY <3>1, <4>1 DEF Racing
        <5>. QED
          BY <2>1, <3>3, <3>4, <3>5, <4>1, <5>1 DEF RaceIsBounded
      <4>2. CASE w # picked[d]
        BY <2>1, <3>2, <4>2, RaceShrinks
      <4>. QED
        BY <4>1, <4>2
    <3>. QED
      BY <3>6 DEF RaceIsBounded
  <2>. QED
    BY <2>2, <2>3
<1>5. ASSUME NEW d \in Dispatchers, Allocate(d) PROVE RaceIsBounded'
  <2>1. pc[d] = "allocate" /\ picked[d] \in Worker
    BY <1>5 DEF Allocate
  <2>2. CASE UNCHANGED <<sessions, count>>
    <3>1. Retry(d) \/ Return(d)
      BY <1>5 DEF Allocate
    <3>. QED
      BY <1>1, <1>2, <2>2, <3>1
  <2>3. CASE /\ sessions' = [sessions EXCEPT ![picked[d]] = @ \cup {<<d, calls[d]>>}]
             /\ count' = [count EXCEPT ![picked[d]] = @ + 1]
             /\ Return(d)
    <3>1. ASSUME NEW w \in Worker
          PROVE  /\ IsFiniteSet(sessions'[w])
                 /\ MaxConcurrency > 0 =>
                      Cardinality(sessions'[w]) + Cardinality(Racing(w)')
                         < MaxConcurrency + Cardinality(Dispatchers)
                 /\ MaxConnection > 0 =>
                      count'[w] + Cardinality(Racing(w)')
                         < MaxConnection + Cardinality(Dispatchers)
      <4>0. Racing(w)' = Racing(w) \ {d}
        BY <1>2, <2>3
      <4>1. CASE w # picked[d]
        BY <2>3, <4>0, <4>1, RaceShrinks
      <4>2. CASE w = picked[d]
        <5>1. /\ IsFiniteSet(sessions[w]) /\ IsFiniteSet(Racing(w)) /\ d \in Racing(w)
          <6>1. d \in Racing(w)
            BY <2>1, <4>2 DEF Racing
          <6>. QED
            BY <6>1, RacingIsFinite DEF RaceIsBounded
        <5>2. Cardinality(Racing(w)') = Cardinality(Racing(w)) - 1
          BY <4>0, <5>1, FS_RemoveElement
        <5>3. /\ sessions'[w] = sessions[w] \cup {<<d, calls[d]>>}
              /\ count'[w] = count[w] + 1
          BY <2>3, <4>2
        <5>4. /\ IsFiniteSet(sessions'[w])
              /\ Cardinality(sessions'[w]) <= Cardinality(sessions[w]) + 1
              /\ Cardinality(sessions'[w]) \in Nat /\ Cardinality(sessions[w]) \in Nat
          <6>1. PICK r : sessions'[w] = sessions[w] \cup {r}
            BY <5>3
          <6>2. /\ IsFiniteSet(sessions'[w]) /\ Cardinality(sessions[w]) \in Nat
                /\ Cardinality(sessions'[w]) = IF r \in sessions[w]
                     THEN Cardinality(sessions[w]) ELSE Cardinality(sessions[w]) + 1
            BY <5>1, <6>1, FS_AddElement, FS_CardinalityType
          <6>. QED
            BY <6>2
        <5>5. /\ Cardinality(Racing(w)) \in Nat /\ Cardinality(Dispatchers) \in Nat
              /\ count[w] \in Nat /\ MaxConcurrency \in Nat /\ MaxConnection \in Nat
          BY RacingIsFinite, MuxClientAssumption
        <5>6. /\ MaxConcurrency > 0 => Cardinality(sessions[w]) + Cardinality(Racing(w))
                         < MaxConcurrency + Cardinality(Dispatchers)
              /\ MaxConnection > 0 =>
                      count[w] + Cardinality(Racing(w))
                         < MaxConnection + Cardinality(Dispatchers)
          BY DEF RaceIsBounded
        <5>7. count'[w] = count[w] + 1
          BY <5>3
        <5>8. ASSUME MaxConnection > 0
              PROVE  count'[w] + Cardinality(Racing(w)')
                         < MaxConnection + Cardinality(Dispatchers)
          <6>1. count[w] + Cardinality(Racing(w)) < MaxConnection + Cardinality(Dispatchers)
            BY <5>6, <5>8
          <6>. QED
            BY <5>2, <5>5, <5>7, <6>1
        <5>9. ASSUME MaxConcurrency > 0
              PROVE  Cardinality(sessions'[w]) + Cardinality(Racing(w)')
                         < MaxConcurrency + Cardinality(Dispatchers)
          <6>1. Cardinality(sessions[w]) + Cardinality(Racing(w))
                         < MaxConcurrency + Cardinality(Dispatchers)
            BY <5>6, <5>9
          <6>. QED
            BY <5>2, <5>4, <5>5, <6>1
        <5>. QED
          BY <5>4, <5>8, <5>9
      <4>. QED
        BY <4>1, <4>2
    <3>. QED
      BY <3>1 DEF RaceIsBounded
  <2>. QED
    BY <1>5, <2>2, <2>3 DEF Allocate
<1>6. ASSUME NEW w \in Worker, WorkerStep(w) PROVE RaceIsBounded'
  <2>1. UNCHANGED <<count, pc, picked>>
    BY <1>6 DEF WorkerStep, SessionEnd, CarrierFails, MonitorTick, CloseIfNoSession,
       MonitorDone
  <2>2. \A v \in Worker : sessions'[v] \subseteq sessions[v]
    <3>1. \/ UNCHANGED sessions \/ sessions' = [sessions EXCEPT ![w] = {}]
          \/ \E r : sessions' = [sessions EXCEPT ![w] = @ \ {r}]
      BY <1>6 DEF WorkerStep, SessionEnd, CarrierFails, MonitorTick, CloseIfNoSession,
         MonitorDone
    <3>. QED
      BY <3>1
  <2>. QED
    BY <1>1, <2>1, <2>2 DEF Racing
<1>7. CASE CleanupTick \/ CleanupStops \/ Close
  BY <1>1, <1>7 DEF CleanupTick, CleanupStops, Close, Racing
<1>8. CASE UNCHANGED vars
  BY <1>1, <1>8 DEF vars, Racing
<1>. QED
  BY <1>3, <1>4, <1>5, <1>6, <1>7, <1>8 DEF Next, DispatcherStep

\* The inductive invariant of the rest.
DispatchInv == /\ TypeOK /\ Placed /\ ListedOnce
               /\ CleanupRuns /\ NoPanic
               /\ SecondIsFree /\ RaceIsBounded

\* A manager without workers satisfies it.
LEMMA DispatchInit == Init => DispatchInv
<1> SUFFICES ASSUME Init PROVE DispatchInv
  OBVIOUS
<1> USE MuxClientAssumption DEF Init
<1>1. TypeOK
  <2>1. 1 \in Worker /\ 0 \in 0 .. MaxWorkers /\ 0 \in 0 .. Tries - 1 /\ 0 \in 0 .. MaxCalls
    <3>1. MaxWorkers \in Nat /\ MaxWorkers # 0 /\ Tries \in Nat /\ Tries # 0 /\ MaxCalls \in Nat
      OBVIOUS
    <3>. QED
      BY <3>1 DEF Worker
  <2>2. workers \in Seq(Worker)
    OBVIOUS
  <2>3. {running, ticking, failing, stopped, crashed} \subseteq BOOLEAN
    OBVIOUS
  <2>. QED
    BY <2>1, <2>2, <2>3 DEF TypeOK
<1>2. Placed
  BY DEF Placed
<1>3. ListedOnce /\ CleanupRuns /\ NoPanic
  BY DEF ListedOnce, CleanupRuns, NoPanic
<1>4. SecondIsFree
  BY DEF SecondIsFree, Undisturbed
<1>5. RaceIsBounded
  <2> SUFFICES ASSUME NEW w \in Worker
               PROVE  /\ IsFiniteSet(sessions[w])
                      /\ MaxConcurrency > 0 =>
                           Cardinality(sessions[w]) + Cardinality(Racing(w))
                               < MaxConcurrency + Cardinality(Dispatchers)
                      /\ MaxConnection > 0 =>
                           count[w] + Cardinality(Racing(w))
                               < MaxConnection + Cardinality(Dispatchers)
    BY DEF RaceIsBounded
  <2>1. Racing(w) = {} /\ sessions[w] = {} /\ count[w] = 0
    BY DEF Racing
  <2>2. Cardinality({}) = 0 /\ IsFiniteSet({}) /\ Cardinality(Dispatchers) \in Nat
        /\ MaxConcurrency \in Nat /\ MaxConnection \in Nat
    BY FS_EmptySet, FS_CardinalityType
  <2>. QED
    BY <2>1, <2>2
<1>. QED
  BY <1>1, <1>2, <1>3, <1>4, <1>5 DEF DispatchInv

\* Every reachable state satisfies it.
THEOREM DispatchInvariance == Spec => []DispatchInv
<1>1. DispatchInv /\ [Next]_vars => DispatchInv'
  <2> SUFFICES ASSUME DispatchInv, [Next]_vars PROVE DispatchInv'
    OBVIOUS
  <2>1. TypeOK /\ Placed /\ ListedOnce /\ CleanupRuns /\ NoPanic /\ SecondIsFree
        /\ RaceIsBounded /\ NoneTwice
    BY DEF DispatchInv, ListedOnce, NoneTwice
  <2>. QED
    BY <2>1, TypeStep, PlacedStep, ListedStep, CleanupStep, SecondStep, RaceStep
    DEF DispatchInv
<1>. QED
  BY DispatchInit, <1>1, PTL DEF Spec

\* No worker is listed twice or lost while it can take requests, and however many
\* dispatchers race past IsFull, the limits are overshot by less than their number.
THEOREM ListAndTablesAreSound == Spec => []WellFormed
<1>1. DispatchInv => WellFormed
  <2> SUFFICES ASSUME DispatchInv PROVE BoundedOvershoot
    BY DEF DispatchInv, WellFormed
  <2> SUFFICES ASSUME NEW w \in Worker
               PROVE  /\ MaxConcurrency > 0 =>
                           Cardinality(sessions[w]) < MaxConcurrency + Cardinality(Dispatchers)
                      /\ MaxConnection > 0 =>
                           count[w] < MaxConnection + Cardinality(Dispatchers)
    BY DEF BoundedOvershoot
  <2>1. TypeOK /\ RaceIsBounded
    BY DEF DispatchInv
  <2>2. /\ Cardinality(sessions[w]) \in Nat /\ Cardinality(Racing(w)) \in Nat
        /\ Cardinality(Dispatchers) \in Nat /\ count[w] \in Nat
        /\ MaxConcurrency \in Nat /\ MaxConnection \in Nat
    BY <2>1, RacingIsFinite, FS_CardinalityType, MuxClientAssumption
    DEF RaceIsBounded, TypeOK
  <2>3. /\ MaxConcurrency > 0 =>
             Cardinality(sessions[w]) + Cardinality(Racing(w))
                 < MaxConcurrency + Cardinality(Dispatchers)
        /\ MaxConnection > 0 =>
             count[w] + Cardinality(Racing(w)) < MaxConnection + Cardinality(Dispatchers)
    BY <2>1 DEF RaceIsBounded
  <2>. QED
    BY <2>2, <2>3
<1>. QED
  BY DispatchInvariance, <1>1, PTL

\* Until the picker is closed, the clean-up that PickAvailable starts always finds a
\* worker: common.Must does not panic.
THEOREM PickerDoesNotPanic == Spec => []NoPanic
<1>1. DispatchInv => NoPanic
  BY DEF DispatchInv
<1>. QED
  BY DispatchInvariance, <1>1, PTL

\* A Dispatch that nobody disturbs needs no third attempt, for any number of workers.
THEOREM TwoTriesSuffice == Spec => []SecondTrySuffices
<1>1. DispatchInv => SecondTrySuffices
  BY DEF DispatchInv, SecondIsFree, Undisturbed, SecondTrySuffices
<1>. QED
  BY DispatchInvariance, <1>1, PTL
-----------------------------------------------------------------------------
(* MuxLink.  The invariant speaks of an end e, of the end o that it talks to, and of the
   frames on their way to e. *)

To(e) == carrier[Peer(e[1])]

\* The end e is there, or will be when the New on its way arrives.
Live(e) == Started(e) \/ \E i \in DOMAIN To(e) : To(e)[i].id = e[2] /\ To(e)[i].status = "New"

\* The reader has a payload for the output of e.
Held(e) == reader[e[1]].at \in {"first", "write"} /\ reader[e[1]].frame.id = e[2]

Readers == {idle, [at |-> "done"]} \cup
           [at : {"first", "write", "notify", "refuse", "drop"}, frame : Frame]

Types == LinkTypeOK /\ reader \in [Side -> Readers]

\* A copier holds the payload after the last one sent; who has not sent New has sent nothing;
\* what it says of the end of its input is true.
Copying(e) ==
    /\ item[e] # 0 => item[e] = sent[e] + 1 /\ copier[e] \in {"new", "keep"}
    /\ copier[e] = "keep" => item[e] # 0
    /\ copier[e] \in {"none", "first", "new"} => sent[e] = 0
    /\ e[1] = "server" => copier[e] \notin {"first", "new"}
    /\ input[e] = "closed" => quit[e] = "eof"
    /\ quit[e] # "no" => input[e] # "open"
    /\ copier[e] = "end" /\ ~hasError[e] => quit[e] = "eof"

\* The server's end of a session starts after the client's has sent New; its table holds
\* ends that have started, and a session that has left it has a closed output.
Tables(e) ==
    /\ Started(<<"server", e[2]>>) => copier[<<"client", e[2]>>] \notin {"none", "first", "new"}
    /\ e[2] \in sessionsOf[e[1]] => Started(e)
    /\ Started(e) /\ e[2] \notin sessionsOf[e[1]] => output[e] # "open"
    /\ output[e] = "closed" /\ ~down => copier[e] \notin {"none", "first", "new"}

\* Frames: what each kind carries, and who has sent it.  A New is the first frame of its
\* session and the server has not started it; before New come no payloads.
Frames(e) ==
    \A i \in DOMAIN To(e) : To(e)[i].id = e[2] =>
        /\ To(e)[i].status = "End" => To(e)[i].data = 0
        /\ To(e)[i].status = "Keep" => To(e)[i].data # 0
        /\ To(e)[i].status = "New" =>
               /\ e[1] = "server" /\ ~Started(e)
               /\ \A j \in DOMAIN To(e) : To(e)[j].id = e[2] /\ j # i => i < j
        /\ To(e)[i].status = "Keep" /\ ~Started(e) /\ reader[e[1]].at # "done" =>
               \E j \in DOMAIN To(e) : j < i /\ To(e)[j].id = e[2] /\ To(e)[j].status = "New"
        /\ copier[Other(e)] \notin {"none", "first", "new"}

NewSent(e) ==
    e[1] = "server" /\ ~down /\ ~Started(e) /\ copier[Other(e)] \in {"copy", "keep"} =>
        \E i \in DOMAIN To(e) : To(e)[i].id = e[2] /\ To(e)[i].status = "New"

\* A reader has ended only after a failure; a frame that it holds belongs to a session that
\* both ends have started, and when it is about to refuse one the output is no longer open.
Holding(x) ==
    /\ reader[x].at = "done" => down
    /\ reader[x].at \notin {"idle", "done"} =>
           LET e == <<x, reader[x].frame.id>> IN
           /\ Started(e) /\ Started(Other(e))
           /\ reader[x].at \in {"first", "write"} => reader[x].frame.data # 0
           /\ reader[x].at \in {"notify", "refuse", "drop"} => output[e] # "open"

\* What is in the output, in the hands of the reader and on its way, in this order, is what
\* was sent: nothing is missing or comes twice.
Base(e) == Len(got[e]) + (IF Held(e) THEN 1 ELSE 0)

Contiguous(c, s, n) ==
    /\ \A i \in DOMAIN c : c[i].id = s /\ c[i].data # 0 =>
           /\ c[i].data > n
           /\ \/ c[i].data = n + 1
              \/ \E j \in DOMAIN c : j < i /\ c[j].id = s /\ c[j].data = c[i].data - 1
    /\ \A i, j \in DOMAIN c :
           i < j /\ c[i].id = s /\ c[j].id = s /\ c[i].data # 0 /\ c[j].data # 0 =>
               c[i].data < c[j].data

Flow(e) ==
    output[e] = "open" /\ reader[e[1]].at # "done" =>
        /\ Held(e) => reader[e[1]].frame.data = Len(got[e]) + 1
        /\ Contiguous(To(e), e[2], Base(e))
        /\ \A i \in DOMAIN To(e) : To(e)[i].id = e[2] => To(e)[i].data <= sent[Other(e)]
        /\ Base(e) <= sent[Other(e)]
        /\ ~down => \/ sent[Other(e)] = Base(e)
                    \/ \E i \in DOMAIN To(e) :
                           To(e)[i].id = e[2] /\ To(e)[i].data = sent[Other(e)]

(* Ends.  The application of e has ended nothing, and its output is open. *)
Untouched(e) == ~down /\ output[e] = "open" /\ quit[e] = "no"

\* The copier of such an end goes on, its input is not interrupted, and nobody has told the
\* peer to close the session.
Continues(e) ==
    Untouched(e) =>
        /\ copier[e] \notin {"end", "close", "done"} /\ input[e] # "errord"
        /\ \A i \in DOMAIN carrier[e[1]] :
               ~(carrier[e[1]][i].id = e[2] /\ carrier[e[1]][i].status = "End")

EndAt(e, i) == i \in DOMAIN To(e) /\ To(e)[i].id = e[2] /\ To(e)[i].status = "End"

\* So what ends at the other end has ended there: its copier has written the End that is on
\* its way, and unless its application stopped to read, no payload follows an End and the
\* first one tells what happened.
Ending(e) ==
    Untouched(e) /\ Live(e) =>
        LET o == Other(e) IN
        /\ output[o] = "closed" => copier[o] = "done"
        /\ copier[o] \in {"close", "done"} => \E i \in DOMAIN To(e) : EndAt(e, i)
        /\ output[o] # "errord" =>
              \A i \in DOMAIN To(e) : EndAt(e, i) =>
                  /\ copier[o] \in {"close", "done"}
                  /\ \A j \in DOMAIN To(e) : i < j /\ To(e)[j].id = e[2] => To(e)[j].data = 0
                  /\ (\A j \in DOMAIN To(e) : j < i => ~EndAt(e, j)) /\ ~To(e)[i].error =>
                         quit[o] = "eof"

\* And the output of an end is what Delivered says.
Whole(e) ==
    /\ \A i \in DOMAIN got[e] : got[e][i] = i
    /\ Len(got[e]) <= sent[Other(e)]
    /\ output[e] = "closed" /\ ~down /\ quit[e] = "no" /\ output[Other(e)] # "errord" =>
           /\ quit[Other(e)] = "eof" /\ Len(got[e]) = sent[Other(e)]
           /\ copier[Other(e)] \in {"close", "done"}

LinkInv ==
    /\ Types
    /\ \A e \in Ends : /\ Copying(e) /\ Tables(e) /\ Frames(e) /\ NewSent(e) /\ Flow(e)
                       /\ Continues(e) /\ Ending(e) /\ Whole(e)
    /\ \A x \in Side : Holding(x)

Parts(e) == /\ Copying(e) /\ Tables(e) /\ Frames(e) /\ NewSent(e) /\ Flow(e)
            /\ Continues(e) /\ Ending(e) /\ Whole(e)
-----------------------------------------------------------------------------
\* A session has two ends.
LEMMA EndFacts ==
  /\ \A x \in Side : Peer(x) \in Side /\ Peer(x) # x /\ Peer(Peer(x)) = x
  /\ \A x \in Side, s \in Sessions :
        <<x, s>> \in Ends /\ Other(<<x, s>>) = <<Peer(x), s>> /\ <<x, s>>[1] = x /\ <<x, s>>[2] = s
  /\ \A e \in Ends : /\ e[1] \in Side /\ e[2] \in Sessions /\ e = <<e[1], e[2]>>
                     /\ Other(e) \in Ends /\ Other(Other(e)) = e /\ Other(e) # e
                     /\ Other(e)[1] = Peer(e[1]) /\ Other(e)[2] = e[2]
  /\ \A d, e \in Ends : /\ d[1] = e[1] /\ d[2] = e[2] => d = e
                        /\ d[2] = e[2] => d = e \/ d = Other(e)
                        /\ d[1] # e[1] => d[1] = Peer(e[1])
BY DEF Side, Ends, Peer, Other

\* The invariant, part by part.
LEMMA InvParts ==
  ASSUME LinkInv
  PROVE  Types /\ (\A e \in Ends : Parts(e)) /\ \A x \in Side : Holding(x)
BY DEF LinkInv, Parts

\* The types that the steps need, of an end and of what goes to it.
LEMMA EndTypes ==
  ASSUME Types, NEW e \in Ends
  PROVE  /\ To(e) \in Seq(Frame) /\ carrier[e[1]] \in Seq(Frame)
         /\ DOMAIN To(e) = 1 .. Len(To(e)) /\ Len(To(e)) \in Nat
         /\ DOMAIN carrier[e[1]] = 1 .. Len(carrier[e[1]]) /\ Len(carrier[e[1]]) \in Nat
         /\ \A i \in DOMAIN To(e) : To(e)[i] \in Frame /\ To(e)[i].data \in Nat
         /\ \A i \in DOMAIN carrier[e[1]] : carrier[e[1]][i] \in Frame
         /\ down \in BOOLEAN /\ reader[e[1]] \in Readers
         /\ input[e] \in {"open", "closed", "errord"} /\ output[e] \in {"open", "closed", "errord"}
         /\ item[e] \in 0 .. MaxItems /\ sent[e] \in 0 .. MaxItems /\ hasError[e] \in BOOLEAN
         /\ copier[e] \in {"none", "first", "new", "copy", "keep", "end", "close", "done"}
         /\ quit[e] \in {"no", "eof", "error"} /\ got[e] \in Seq(1 .. MaxItems)
         /\ Len(got[e]) \in Nat /\ DOMAIN got[e] = 1 .. Len(got[e])
<1>1. e[1] \in Side /\ Peer(e[1]) \in Side
  BY EndFacts
<1>2. To(e) \in Seq(Frame) /\ carrier[e[1]] \in Seq(Frame) /\ got[e] \in Seq(1 .. MaxItems)
  BY <1>1 DEF Types, LinkTypeOK, To
<1>3. \A i \in DOMAIN To(e) : To(e)[i] \in Frame
  BY <1>2
<1>4. \A f \in Frame : f.data \in Nat
  BY MuxLinkAssumption DEF Frame
<1>. QED
  BY <1>1, <1>2, <1>3, <1>4 DEF Types, LinkTypeOK

\* What is on its way after a frame is added or taken.
LEMMA Appended ==
  ASSUME NEW c \in Seq(Frame), NEW f \in Frame
  PROVE  /\ Append(c, f) \in Seq(Frame) /\ DOMAIN Append(c, f) = 1 .. Len(c) + 1
         /\ DOMAIN c = 1 .. Len(c) /\ Len(c) \in Nat
         /\ Append(c, f)[Len(c) + 1] = f
         /\ \A i \in 1 .. Len(c) : Append(c, f)[i] = c[i]
OBVIOUS

\* What a tail consists of.
LEMMA Taken ==
  ASSUME NEW c \in Seq(Frame), c # <<>>
  PROVE  /\ Tail(c) \in Seq(Frame) /\ DOMAIN Tail(c) = 1 .. Len(c) - 1
         /\ DOMAIN c = 1 .. Len(c) /\ Len(c) \in Nat /\ Len(c) >= 1
         /\ Head(c) = c[1] /\ Head(c) \in Frame /\ Len(Tail(c)) = Len(c) - 1
         /\ \A i \in 1 .. Len(c) - 1 : Tail(c)[i] = c[i + 1]
OBVIOUS

\* The frames of session s are the same in c and d, k places further on.
Shifted(c, d, s, k) ==
    /\ \A i \in DOMAIN c : c[i].id = s => i - k \in DOMAIN d /\ d[i - k] = c[i]
    /\ \A i \in DOMAIN d : d[i].id = s => i + k \in DOMAIN c /\ c[i + k] = d[i]

\* A frame of another session at the end, ...
LEMMA ShiftedAppend ==
  ASSUME NEW c \in Seq(Frame), NEW f \in Frame, NEW s, f.id # s
  PROVE  Shifted(c, Append(c, f), s, 0)
BY Appended DEF Shifted

\* ... or at the head, moves the frames of s by at most one place.
LEMMA ShiftedTail ==
  ASSUME NEW c \in Seq(Frame), c # <<>>, NEW s, Head(c).id # s
  PROVE  Shifted(c, Tail(c), s, 1)
<1>1. ASSUME NEW i \in DOMAIN c, c[i].id = s
      PROVE  i - 1 \in DOMAIN Tail(c) /\ Tail(c)[i - 1] = c[i]
  <2>1. i \in 1 .. Len(c) /\ i # 1 /\ Len(c) \in Nat
    BY <1>1, Taken
  <2>2. i - 1 \in 1 .. Len(c) - 1 /\ (i - 1) + 1 = i
    BY <2>1
  <2>. QED
    BY <2>2, Taken
<1>2. \A i \in DOMAIN Tail(c) : Tail(c)[i].id = s => i + 1 \in DOMAIN c /\ c[i + 1] = Tail(c)[i]
  BY Taken
<1>. QED
  BY <1>1, <1>2 DEF Shifted

\* Nothing moves them when nothing happens.
LEMMA ShiftedSame ==
  ASSUME NEW c \in Seq(Frame), NEW s
  PROVE  Shifted(c, c, s, 0)
BY DEF Shifted

\* What is said of the payloads of s does not depend on their places.
LEMMA ContiguousShift ==
  ASSUME NEW c \in Seq(Frame), NEW d \in Seq(Frame), NEW s, NEW n \in Nat, NEW k \in {0, 1},
         Shifted(c, d, s, k), Contiguous(c, s, n)
  PROVE  Contiguous(d, s, n)
<1>1. \A f \in Frame : f.data \in Nat
  BY MuxLinkAssumption DEF Frame
<1>2. DOMAIN c = 1 .. Len(c) /\ DOMAIN d = 1 .. Len(d) /\ \A i \in DOMAIN d : d[i] \in Frame
  OBVIOUS
<1>3. ASSUME NEW i \in DOMAIN d, d[i].id = s, d[i].data # 0
      PROVE  /\ d[i].data > n
             /\ \/ d[i].data = n + 1
                \/ \E j \in DOMAIN d : j < i /\ d[j].id = s /\ d[j].data = d[i].data - 1
  <2>1. i + k \in DOMAIN c /\ c[i + k] = d[i]
    BY <1>3 DEF Shifted
  <2>2. CASE d[i].data = n + 1
    BY <2>2, <1>3
  <2>3. ASSUME NEW j \in DOMAIN c, j < i + k, c[j].id = s, c[j].data = c[i + k].data - 1
        PROVE  j - k \in DOMAIN d /\ j - k < i /\ d[j - k].id = s /\ d[j - k].data = d[i].data - 1
    <3>1. j - k \in DOMAIN d /\ d[j - k] = c[j]
      BY <2>3 DEF Shifted
    <3>. QED
      BY <3>1, <2>1, <2>3, <1>2
  <2>4. d[i].data > n
    BY <2>1, <1>3 DEF Contiguous
  <2>. QED
    BY <2>1, <2>2, <2>3, <2>4, <1>3 DEF Contiguous
<1>4. ASSUME NEW i \in DOMAIN d, NEW j \in DOMAIN d, i < j, d[i].id = s, d[j].id = s,
             d[i].data # 0, d[j].data # 0
      PROVE  d[i].data < d[j].data
  <2>1. /\ i + k \in DOMAIN c /\ c[i + k] = d[i] /\ j + k \in DOMAIN c /\ c[j + k] = d[j]
        /\ i + k < j + k
    BY <1>2, <1>4 DEF Shifted
  <2>. QED
    BY <2>1, <1>4 DEF Contiguous
<1>. QED
  BY <1>3, <1>4 DEF Contiguous

\* A payload that follows the last one may be added.
LEMMA ContiguousAppend ==
  ASSUME NEW c \in Seq(Frame), NEW f \in Frame, NEW s, NEW n \in Nat, NEW last \in Nat,
         Contiguous(c, s, n), n <= last,
         \A i \in DOMAIN c : c[i].id = s => c[i].data <= last,
         last = n \/ \E i \in DOMAIN c : c[i].id = s /\ c[i].data = last,
         f.id = s => f.data = 0 \/ f.data = last + 1
  PROVE  Contiguous(Append(c, f), s, n)
<1> DEFINE d == Append(c, f)
<1>1. \A g \in Frame : g.data \in Nat
  BY MuxLinkAssumption DEF Frame
<1>2. /\ DOMAIN c = 1 .. Len(c) /\ Len(c) \in Nat /\ DOMAIN d = 1 .. Len(c) + 1
      /\ d[Len(c) + 1] = f /\ \A i \in 1 .. Len(c) : d[i] = c[i]
      /\ \A i \in DOMAIN c : c[i] \in Frame
  BY Appended
<1> HIDE DEF d
<1>3. ASSUME NEW i \in DOMAIN d, d[i].id = s, d[i].data # 0
      PROVE  /\ d[i].data > n
             /\ \/ d[i].data = n + 1
                \/ \E j \in DOMAIN d : j < i /\ d[j].id = s /\ d[j].data = d[i].data - 1
  <2>1. CASE i \in 1 .. Len(c)
    BY <2>1, <1>2, <1>3 DEF Contiguous
  <2>2. CASE i = Len(c) + 1
    <3>1. d[i].data = last + 1 /\ d[i].data > n
      BY <2>2, <1>2, <1>3
    <3>2. CASE last = n
      BY <3>1, <3>2
    <3>3. ASSUME NEW j \in DOMAIN c, c[j].id = s, c[j].data = last
          PROVE  j \in DOMAIN d /\ j < i /\ d[j].id = s /\ d[j].data = d[i].data - 1
      BY <3>1, <3>3, <2>2, <1>2
    <3>. QED
      BY <3>1, <3>2, <3>3
  <2>. QED
    BY <2>1, <2>2, <1>2
<1>4. ASSUME NEW i \in DOMAIN d, NEW j \in DOMAIN d, i < j, d[i].id = s, d[j].id = s,
             d[i].data # 0, d[j].data # 0
      PROVE  d[i].data < d[j].data
  <2>1. CASE j \in 1 .. Len(c)
    BY <2>1, <1>2, <1>4 DEF Contiguous
  <2>2. CASE j = Len(c) + 1
    <3>1. i \in 1 .. Len(c) /\ d[j].data = last + 1
      BY <2>2, <1>2, <1>4
    <3>2. d[i].data <= last /\ d[i].data \in Nat
      BY <3>1, <1>1, <1>2, <1>4
    <3>. QED
      BY <3>1, <3>2
  <2>. QED
    BY <2>1, <2>2, <1>2
<1>. QED
  BY <1>3, <1>4 DEF Contiguous, d

\* The first payload is the next one; when it is taken the rest follows it.
LEMMA ContiguousTail ==
  ASSUME NEW c \in Seq(Frame), c # <<>>, NEW s, NEW n \in Nat, Contiguous(c, s, n),
         Head(c).id = s
  PROVE  /\ Head(c).data = 0 => Contiguous(Tail(c), s, n)
         /\ Head(c).data # 0 => Head(c).data = n + 1 /\ Contiguous(Tail(c), s, n + 1)
<1> DEFINE d == Tail(c)
           m == IF Head(c).data = 0 THEN n ELSE n + 1
<1>1. \A g \in Frame : g.data \in Nat
  BY MuxLinkAssumption DEF Frame
<1>2. /\ DOMAIN c = 1 .. Len(c) /\ Len(c) \in Nat /\ Len(c) >= 1 /\ DOMAIN d = 1 .. Len(c) - 1
      /\ Head(c) = c[1] /\ \A i \in 1 .. Len(c) - 1 : d[i] = c[i + 1]
      /\ \A i \in DOMAIN c : c[i] \in Frame
  BY Taken
<1>3. Head(c).data # 0 => Head(c).data = n + 1
  BY <1>2 DEF Contiguous
<1> HIDE DEF d
<1>4. ASSUME NEW i \in DOMAIN d, d[i].id = s, d[i].data # 0
      PROVE  /\ d[i].data > m
             /\ \/ d[i].data = m + 1
                \/ \E j \in DOMAIN d : j < i /\ d[j].id = s /\ d[j].data = d[i].data - 1
  <2>1. i + 1 \in DOMAIN c /\ d[i] = c[i + 1] /\ 1 \in DOMAIN c /\ 1 < i + 1
        /\ d[i].data \in Nat
    BY <1>1, <1>2, <1>4
  <2>2. d[i].data > m
    BY <2>1, <1>2, <1>3, <1>4 DEF Contiguous
  <2>3. CASE d[i].data = n + 1
    BY <2>2, <2>3
  <2>4. ASSUME NEW j \in DOMAIN c, j < i + 1, c[j].id = s, c[j].data = d[i].data - 1
        PROVE  \/ d[i].data = m + 1
               \/ \E l \in DOMAIN d : l < i /\ d[l].id = s /\ d[l].data = d[i].data - 1
    <3>1. CASE j = 1
      BY <3>1, <2>1, <2>2, <2>4, <1>2, <1>3
    <3>2. CASE j # 1
      <4>1. j - 1 \in DOMAIN d /\ j - 1 < i /\ d[j - 1] = c[j]
        BY <3>2, <2>1, <2>4, <1>2
      <4>. QED
        BY <4>1, <2>4
    <3>. QED
      BY <3>1, <3>2
  <2>. QED
    BY <2>1, <2>2, <2>3, <2>4, <1>4 DEF Contiguous
<1>5. ASSUME NEW i \in DOMAIN d, NEW j \in DOMAIN d, i < j, d[i].id = s, d[j].id = s,
             d[i].data # 0, d[j].data # 0
      PROVE  d[i].data < d[j].data
  <2>1. i + 1 \in DOMAIN c /\ d[i] = c[i + 1] /\ j + 1 \in DOMAIN c /\ d[j] = c[j + 1]
        /\ i + 1 < j + 1
    BY <1>2, <1>5
  <2>. QED
    BY <2>1, <1>5 DEF Contiguous
<1>6. Contiguous(d, s, m)
  BY <1>4, <1>5 DEF Contiguous
<1>. QED
  BY <1>3, <1>6 DEF d

\* Nothing that belongs to the session of e has changed but, perhaps, the places of its
\* frames in the carrier.
Aside(e, k, m) ==
    /\ UNCHANGED down
    /\ \A d \in {e, Other(e)} :
          /\ input'[d] = input[d] /\ output'[d] = output[d] /\ copier'[d] = copier[d]
          /\ item'[d] = item[d] /\ hasError'[d] = hasError[d] /\ quit'[d] = quit[d]
          /\ sent'[d] = sent[d] /\ got'[d] = got[d]
          /\ (d[2] \in sessionsOf'[d[1]]) = (d[2] \in sessionsOf[d[1]])
    /\ Shifted(To(e), carrier'[Peer(e[1])], e[2], k)
    /\ Shifted(carrier[e[1]], carrier'[e[1]], e[2], m)
    /\ reader[e[1]].at = "done" => reader'[e[1]].at = "done"
    /\ Held(e) => reader'[e[1]] = reader[e[1]]
    /\ ~Held(e) => ~(reader'[e[1]].at \in {"first", "write"} /\ reader'[e[1]].frame.id = e[2])

\* Then all that is said of the session still holds.
LEMMA AsideHolds ==
  ASSUME LinkInv, Types', NEW e \in Ends, NEW k \in {0, 1}, NEW m \in {0, 1}, Aside(e, k, m)
  PROVE  Parts(e)'
<1> DEFINE c == To(e)
           d == carrier'[Peer(e[1])]
           s == e[2]
           o == Other(e)
<1> USE DEF Aside
<1>0. /\ Types /\ Parts(e) /\ o \in Ends /\ e[1] \in Side /\ Peer(e[1]) \in Side
      /\ To(e)' = d /\ d \in Seq(Frame)
      /\ DOMAIN d = 1 .. Len(d) /\ DOMAIN c = 1 .. Len(c) /\ c \in Seq(Frame)
  BY InvParts, EndFacts, EndTypes DEF To, Types, LinkTypeOK
<1>1. /\ \A i \in DOMAIN c : c[i].id = s => i - k \in DOMAIN d /\ d[i - k] = c[i]
      /\ \A i \in DOMAIN d : d[i].id = s => i + k \in DOMAIN c /\ c[i + k] = d[i]
  BY DEF Shifted
<1>2. Started(e)' = Started(e) /\ Started(o)' = Started(o)
  BY DEF Started
<1>3. Live(e)' => Live(e)
  <2>1. ASSUME NEW i \in DOMAIN d, d[i].id = s, d[i].status = "New"
        PROVE  Live(e)
    BY <2>1, <1>1 DEF Live
  <2>. QED
    BY <2>1, <1>0, <1>2 DEF Live
<1>4. Copying(e)'
  BY <1>0 DEF Parts, Copying
<1>5. Tables(e)'
  <2>1. <<"server", s>> \in {e, o} /\ <<"client", s>> \in {e, o}
    BY EndFacts DEF Side, Other, Peer
  <2>2. /\ Started(<<"server", s>>)' = Started(<<"server", s>>)
        /\ copier'[<<"client", s>>] = copier[<<"client", s>>]
    BY <2>1, <1>2
  <2>. QED
    BY <2>2, <1>0, <1>2 DEF Parts, Tables
<1>6. Frames(e)'
  <2> SUFFICES ASSUME NEW i \in DOMAIN d, d[i].id = s
               PROVE  /\ d[i].status = "End" => d[i].data = 0
                      /\ d[i].status = "Keep" => d[i].data # 0
                      /\ d[i].status = "New" =>
                             /\ e[1] = "server" /\ ~Started(e)'
                             /\ \A j \in DOMAIN d : d[j].id = s /\ j # i => i < j
                      /\ d[i].status = "Keep" /\ ~Started(e)' /\ reader'[e[1]].at # "done" =>
                             \E j \in DOMAIN d : j < i /\ d[j].id = s /\ d[j].status = "New"
                      /\ copier'[o] \notin {"none", "first", "new"}
    BY <1>0 DEF Frames
  <2>1. i + k \in DOMAIN c /\ c[i + k] = d[i]
    BY <1>1
  <2>2. /\ d[i].status = "End" => d[i].data = 0
        /\ d[i].status = "Keep" => d[i].data # 0
        /\ d[i].status = "New" => e[1] = "server" /\ ~Started(e)'
        /\ copier'[o] \notin {"none", "first", "new"}
    BY <2>1, <1>0, <1>2 DEF Parts, Frames
  <2>3. ASSUME d[i].status = "New", NEW j \in DOMAIN d, d[j].id = s, j # i
        PROVE  i < j
    <3>1. j + k \in DOMAIN c /\ c[j + k] = d[j] /\ i + k # j + k
      BY <2>3, <1>0, <1>1
    <3>2. i + k < j + k
      BY <2>1, <2>3, <3>1, <1>0 DEF Parts, Frames
    <3>. QED
      BY <3>2, <1>0
  <2>4. ASSUME d[i].status = "Keep", ~Started(e)', reader'[e[1]].at # "done"
        PROVE  \E j \in DOMAIN d : j < i /\ d[j].id = s /\ d[j].status = "New"
    <3>1. PICK j \in DOMAIN c : j < i + k /\ c[j].id = s /\ c[j].status = "New"
      BY <2>1, <2>4, <1>0, <1>2 DEF Parts, Frames
    <3>2. j - k \in DOMAIN d /\ d[j - k] = c[j] /\ j - k < i
      BY <3>1, <1>0, <1>1
    <3>. QED
      BY <3>1, <3>2
  <2>. QED
    BY <2>2, <2>3, <2>4
<1>7. NewSent(e)'
  <2> SUFFICES ASSUME e[1] = "server", ~down, ~Started(e), copier[o] \in {"copy", "keep"}
               PROVE  \E i \in DOMAIN d : d[i].id = s /\ d[i].status = "New"
    BY <1>0, <1>2 DEF NewSent
  <2>1. PICK i \in DOMAIN c : c[i].id = s /\ c[i].status = "New"
    BY <1>0 DEF Parts, NewSent
  <2>. QED
    BY <2>1, <1>1
<1>8. Flow(e)'
  <2>1. Held(e)' = Held(e)
    BY DEF Held
  <2>2. Base(e)' = Base(e) /\ Base(e) \in Nat
    <3>1. got'[e] = got[e] /\ Len(got[e]) \in Nat
      BY <1>0, EndTypes
    <3>2. CASE Held(e)
      BY <3>1, <3>2, <2>1 DEF Base
    <3>3. CASE ~Held(e)
      BY <3>1, <3>3, <2>1 DEF Base
    <3>. QED
      BY <3>2, <3>3
  <2> SUFFICES ASSUME output[e] = "open", reader[e[1]].at # "done"
               PROVE  /\ Held(e) => reader'[e[1]].frame.data = Len(got[e]) + 1
                      /\ Contiguous(d, s, Base(e))
                      /\ \A i \in DOMAIN d : d[i].id = s => d[i].data <= sent[o]
                      /\ Base(e) <= sent[o]
                      /\ ~down => \/ sent[o] = Base(e)
                                  \/ \E i \in DOMAIN d : d[i].id = s /\ d[i].data = sent[o]
    BY <2>1, <2>2, <1>0 DEF Flow
  <2>3. /\ Held(e) => reader[e[1]].frame.data = Len(got[e]) + 1
        /\ Contiguous(c, s, Base(e))
        /\ \A i \in DOMAIN c : c[i].id = s => c[i].data <= sent[o]
        /\ Base(e) <= sent[o]
        /\ ~down => \/ sent[o] = Base(e)
                    \/ \E i \in DOMAIN c : c[i].id = s /\ c[i].data = sent[o]
    BY <1>0 DEF Parts, Flow
  <2>4. Contiguous(d, s, Base(e))
    BY <2>2, <2>3, <1>0, ContiguousShift
  <2>. QED
    BY <2>3, <2>4, <1>1
<1>9. Continues(e)'
  BY <1>0 DEF Parts, Continues, Untouched, Shifted
<1>10. Ending(e)'
  <2> SUFFICES ASSUME Untouched(e), Live(e)
               PROVE  /\ output[o] = "closed" => copier[o] = "done"
                      /\ copier[o] \in {"close", "done"} => \E i \in DOMAIN d : EndAt(e, i)'
                      /\ output[o] # "errord" =>
                            \A i \in DOMAIN d : EndAt(e, i)' =>
                                /\ copier[o] \in {"close", "done"}
                                /\ \A j \in DOMAIN d : i < j /\ d[j].id = s => d[j].data = 0
                                /\ (\A j \in DOMAIN d : j < i => ~EndAt(e, j)') /\ ~d[i].error =>
                                       quit[o] = "eof"
    BY <1>0, <1>3 DEF Ending, Untouched
  <2>1. /\ \A i \in DOMAIN d : EndAt(e, i)' => i + k \in DOMAIN c /\ EndAt(e, i + k)
        /\ \A i \in DOMAIN c : EndAt(e, i) => i - k \in DOMAIN d /\ EndAt(e, i - k)'
    BY <1>0, <1>1 DEF EndAt
  <2>2. /\ output[o] = "closed" => copier[o] = "done"
        /\ copier[o] \in {"close", "done"} => \E i \in DOMAIN d : EndAt(e, i)'
    BY <2>1, <1>0 DEF Parts, Ending
  <2>3. ASSUME output[o] # "errord", NEW i \in DOMAIN d, EndAt(e, i)'
        PROVE  /\ copier[o] \in {"close", "done"}
               /\ \A j \in DOMAIN d : i < j /\ d[j].id = s => d[j].data = 0
               /\ (\A j \in DOMAIN d : j < i => ~EndAt(e, j)') /\ ~d[i].error => quit[o] = "eof"
    <3>1. /\ i + k \in DOMAIN c /\ EndAt(e, i + k) /\ copier[o] \in {"close", "done"}
          /\ \A j \in DOMAIN c : i + k < j /\ c[j].id = s => c[j].data = 0
          /\ (\A j \in DOMAIN c : j < i + k => ~EndAt(e, j)) /\ ~c[i + k].error => quit[o] = "eof"
      BY <2>1, <2>3, <1>0 DEF Parts, Ending
    <3>2. ASSUME NEW j \in DOMAIN d, i < j, d[j].id = s
          PROVE  d[j].data = 0
      <4>1. j + k \in DOMAIN c /\ c[j + k] = d[j] /\ i + k < j + k
        BY <3>2, <1>0, <1>1
      <4>. QED
        BY <4>1, <3>1, <3>2
    <3>3. ASSUME \A j \in DOMAIN d : j < i => ~EndAt(e, j)', ~d[i].error
          PROVE  quit[o] = "eof"
      <4>1. \A j \in DOMAIN c : j < i + k => ~EndAt(e, j)
        <5> SUFFICES ASSUME NEW j \in DOMAIN c, j < i + k, EndAt(e, j) PROVE FALSE
          OBVIOUS
        <5>1. j - k \in DOMAIN d /\ EndAt(e, j - k)' /\ j - k < i
          BY <2>1, <1>0
        <5>. QED
          BY <5>1, <3>3
      <4>2. c[i + k] = d[i]
        BY <2>3, <1>0, <1>1 DEF EndAt
      <4>. QED
        BY <4>1, <4>2, <3>1, <3>3
    <3>. QED
      BY <3>1, <3>2, <3>3
  <2>. QED
    BY <2>2, <2>3
<1>11. Whole(e)'
  BY <1>0 DEF Parts, Whole
<1>. QED
  BY <1>4, <1>5, <1>6, <1>7, <1>8, <1>9, <1>10, <1>11 DEF Parts

\* Each part of the invariant stays true in a step that leaves the frames alone that the part
\* speaks of, and changes the rest at most in one direction.
LEMMA Kept ==
  ASSUME LinkInv, NEW e \in Ends
  PROVE  LET o == Other(e) IN
         /\ /\ input'[e] = input[e] /\ copier'[e] = copier[e] /\ item'[e] = item[e]
            /\ hasError'[e] = hasError[e] /\ quit'[e] = quit[e] /\ sent'[e] = sent[e]
            => Copying(e)'
         /\ /\ Started(e)' = Started(e) /\ Started(o)' = Started(o)
            /\ \A d \in {e, o} : copier'[d] \in {"none", "first", "new"} =>
                                  copier[d] \in {"none", "first", "new"}
            /\ (e[2] \in sessionsOf'[e[1]]) = (e[2] \in sessionsOf[e[1]])
            /\ output'[e] = output[e] /\ (down => down')
            => Tables(e)'
         /\ /\ carrier'[Peer(e[1])] = carrier[Peer(e[1])] /\ Started(e)' = Started(e)
            /\ reader[e[1]].at = "done" => reader'[e[1]].at = "done"
            /\ copier'[o] \in {"none", "first", "new"} => copier[o] \in {"none", "first", "new"}
            => Frames(e)'
         /\ /\ carrier'[Peer(e[1])] = carrier[Peer(e[1])] /\ Started(e)' = Started(e)
            /\ down => down'
            /\ copier'[o] \in {"copy", "keep"} => copier[o] \in {"copy", "keep"}
            => NewSent(e)'
         /\ /\ carrier'[Peer(e[1])] = carrier[Peer(e[1])] /\ reader'[e[1]] = reader[e[1]]
            /\ down' = down
            /\ got'[e] = got[e] /\ sent'[o] = sent[o]
            /\ output'[e] = "open" => output[e] = "open"
            => Flow(e)'
         /\ /\ carrier'[e[1]] = carrier[e[1]]
            /\ Untouched(e)' => /\ Untouched(e) /\ input'[e] # "errord"
                                /\ copier'[e] \notin {"end", "close", "done"}
            => Continues(e)'
         /\ /\ carrier'[Peer(e[1])] = carrier[Peer(e[1])]
            /\ Untouched(e)' => Untouched(e)
            /\ Started(e)' = Started(e)
            /\ output'[o] = "closed" => output[o] = "closed" \/ copier'[o] = "done"
            /\ output'[o] # "errord" => output[o] # "errord"
            /\ copier[o] = "done" => copier'[o] = "done"
            /\ (copier'[o] \in {"close", "done"}) = (copier[o] \in {"close", "done"})
            /\ quit[o] = "eof" => quit'[o] = "eof"
            => Ending(e)'
         /\ /\ got'[e] = got[e] /\ sent'[o] = sent[o]
            /\ quit[o] = "eof" => quit'[o] = "eof"
            /\ copier[o] \in {"close", "done"} => copier'[o] \in {"close", "done"}
            /\ output'[o] # "errord" => output[o] # "errord"
            /\ output'[e] = "closed" /\ ~down' /\ quit'[e] = "no" =>
                   output[e] = "closed" /\ ~down /\ quit[e] = "no"
            => Whole(e)'
<1> DEFINE o == Other(e)
<1>0. Parts(e) /\ (carrier'[Peer(e[1])] = carrier[Peer(e[1])] => To(e)' = To(e))
  BY InvParts DEF To
<1> USE <1>0 DEF Parts
<1>1. /\ input'[e] = input[e] /\ copier'[e] = copier[e] /\ item'[e] = item[e]
      /\ hasError'[e] = hasError[e] /\ quit'[e] = quit[e] /\ sent'[e] = sent[e]
      => Copying(e)'
  BY DEF Copying
<1>8. /\ Started(e)' = Started(e) /\ Started(o)' = Started(o)
      /\ \A d \in {e, o} : copier'[d] \in {"none", "first", "new"} =>
                            copier[d] \in {"none", "first", "new"}
      /\ (e[2] \in sessionsOf'[e[1]]) = (e[2] \in sessionsOf[e[1]])
      /\ output'[e] = output[e] /\ (down => down')
      => Tables(e)'
  <2>1. <<"server", e[2]>> \in {e, o} /\ <<"client", e[2]>> \in {e, o}
    BY EndFacts DEF Side, Other, Peer
  <2> HIDE DEF o
  <2>. QED
    BY <2>1 DEF Tables, Started
<1>2. /\ carrier'[Peer(e[1])] = carrier[Peer(e[1])] /\ Started(e)' = Started(e)
      /\ reader[e[1]].at = "done" => reader'[e[1]].at = "done"
      /\ copier'[o] \in {"none", "first", "new"} => copier[o] \in {"none", "first", "new"}
      => Frames(e)'
  BY DEF Frames
<1>3. /\ carrier'[Peer(e[1])] = carrier[Peer(e[1])] /\ Started(e)' = Started(e)
      /\ down => down'
      /\ copier'[o] \in {"copy", "keep"} => copier[o] \in {"copy", "keep"}
      => NewSent(e)'
  BY DEF NewSent
<1>4. /\ carrier'[Peer(e[1])] = carrier[Peer(e[1])] /\ reader'[e[1]] = reader[e[1]] /\ down' = down
      /\ got'[e] = got[e] /\ sent'[o] = sent[o]
      /\ output'[e] = "open" => output[e] = "open"
      => Flow(e)'
  <2> SUFFICES ASSUME carrier'[Peer(e[1])] = carrier[Peer(e[1])],
                      reader'[e[1]] = reader[e[1]], down' = down,
                      got'[e] = got[e], sent'[o] = sent[o],
                      output'[e] = "open" => output[e] = "open"
               PROVE  Flow(e)'
    OBVIOUS
  <2>1. Held(e)' = Held(e)
    BY DEF Held
  <2>2. Base(e)' = Base(e)
    BY <2>1 DEF Base
  <2>. QED
    BY <2>1, <2>2 DEF Flow
<1>5. /\ carrier'[e[1]] = carrier[e[1]]
      /\ Untouched(e)' => /\ Untouched(e) /\ input'[e] # "errord"
                          /\ copier'[e] \notin {"end", "close", "done"}
      => Continues(e)'
  BY DEF Continues
<1>6. /\ carrier'[Peer(e[1])] = carrier[Peer(e[1])]
      /\ Untouched(e)' => Untouched(e)
      /\ Started(e)' = Started(e)
      /\ output'[o] = "closed" => output[o] = "closed" \/ copier'[o] = "done"
      /\ output'[o] # "errord" => output[o] # "errord"
      /\ copier[o] = "done" => copier'[o] = "done"
      /\ (copier'[o] \in {"close", "done"}) = (copier[o] \in {"close", "done"})
      /\ quit[o] = "eof" => quit'[o] = "eof"
      => Ending(e)'
  <2> SUFFICES ASSUME carrier'[Peer(e[1])] = carrier[Peer(e[1])], Untouched(e)' => Untouched(e),
                      Started(e)' = Started(e),
                      output'[o] = "closed" => output[o] = "closed" \/ copier'[o] = "done",
                      output'[o] # "errord" => output[o] # "errord",
                      copier[o] = "done" => copier'[o] = "done",
                      (copier'[o] \in {"close", "done"}) = (copier[o] \in {"close", "done"}),
                      quit[o] = "eof" => quit'[o] = "eof"
               PROVE  Ending(e)'
    OBVIOUS
  <2>1. Live(e)' = Live(e)
    BY DEF Live
  <2>2. \A i : EndAt(e, i)' = EndAt(e, i)
    BY DEF EndAt
  <2>. QED
    BY <2>1, <2>2 DEF Ending
<1>7. /\ got'[e] = got[e] /\ sent'[o] = sent[o]
      /\ quit[o] = "eof" => quit'[o] = "eof"
      /\ copier[o] \in {"close", "done"} => copier'[o] \in {"close", "done"}
      /\ output'[o] # "errord" => output[o] # "errord"
      /\ output'[e] = "closed" /\ ~down' /\ quit'[e] = "no" =>
             output[e] = "closed" /\ ~down /\ quit[e] = "no"
      => Whole(e)'
  BY DEF Whole
<1>. QED
  BY <1>1, <1>2, <1>3, <1>4, <1>5, <1>6, <1>7, <1>8

\* What is said of a frame in the hands of a reader stays true while it holds it.
LEMMA HoldingKept ==
  ASSUME LinkInv, NEW x \in Side, reader'[x] = reader[x], down => down',
         \A e \in Ends : Started(e) => Started(e)',
         \A e \in Ends : output[e] # "open" => output'[e] # "open"
  PROVE  Holding(x)'
<1>1. Holding(x) /\ Types
  BY InvParts
<1>2. CASE reader[x].at \in {"idle", "done"}
  BY <1>1, <1>2 DEF Holding
<1>3. CASE reader[x].at \notin {"idle", "done"}
  <2> DEFINE e == <<x, reader[x].frame.id>>
  <2>1. reader[x].frame.id \in Sessions
    BY <1>1, <1>3 DEF Types, Readers, idle, Frame
  <2>2. e \in Ends /\ Other(e) \in Ends
    BY <2>1, EndFacts
  <2>. QED
    BY <1>1, <1>3, <2>2 DEF Holding
<1>. QED
  BY <1>2, <1>3

\* When the carrier is down, nothing is promised of the ends.
LEMMA DownHolds ==
  ASSUME NEW e \in Ends, down'
  PROVE  NewSent(e)' /\ Continues(e)' /\ Ending(e)'
BY DEF NewSent, Continues, Ending, Untouched

\* Before New is sent nothing is known of the session but at the client's end.
LEMMA BeforeNew ==
  ASSUME LinkInv, NEW s \in Sessions, copier[<<"client", s>>] \in {"none", "first", "new"}
  PROVE  /\ copier[<<"server", s>>] = "none"
         /\ \A x \in Side : \A i \in DOMAIN carrier[x] : carrier[x][i].id # s
         /\ \A x \in Side : reader[x].at \notin {"idle", "done"} => reader[x].frame.id # s
         /\ \A x \in Side : /\ sent[<<x, s>>] = 0 /\ Len(got[<<x, s>>]) = 0
                            /\ ~down => output[<<x, s>>] # "closed"
<1> DEFINE cl == <<"client", s>>
           sv == <<"server", s>>
<1>1. /\ cl \in Ends /\ sv \in Ends /\ Other(cl) = sv /\ Other(sv) = cl
      /\ cl[1] = "client" /\ sv[1] = "server" /\ cl[2] = s /\ sv[2] = s
      /\ Peer("client") = "server" /\ Peer("server") = "client"
      /\ \A x \in Side : x = "client" \/ x = "server"
  BY EndFacts DEF Side, Peer
<1>2. Types /\ Parts(cl) /\ Parts(sv) /\ \A x \in Side : Holding(x)
  BY <1>1, InvParts
<1> HIDE DEF cl, sv
<1>3. copier[sv] = "none"
  BY <1>1, <1>2 DEF Parts, Tables, Started, cl, sv
<1>4. \A x \in Side : \A i \in DOMAIN carrier[x] : carrier[x][i].id # s
  <2>1. To(cl) = carrier["server"] /\ To(sv) = carrier["client"]
    BY <1>1 DEF To
  <2>2. \A i \in DOMAIN carrier["client"] : carrier["client"][i].id # s
    BY <1>1, <1>2, <2>1 DEF Parts, Frames, cl
  <2>3. \A i \in DOMAIN carrier["server"] : carrier["server"][i].id # s
    BY <1>1, <1>2, <1>3, <2>1 DEF Parts, Frames
  <2>. QED
    BY <1>1, <2>2, <2>3
<1>5. ASSUME NEW x \in Side, reader[x].at \notin {"idle", "done"}, reader[x].frame.id = s
      PROVE  FALSE
  <2>1. Started(<<x, s>>) /\ Started(Other(<<x, s>>))
    BY <1>2, <1>5 DEF Holding
  <2>2. <<x, s>> = sv \/ Other(<<x, s>>) = sv
    BY <1>1 DEF cl, sv
  <2>. QED
    BY <2>1, <2>2, <1>3 DEF Started
<1>6. /\ sent[cl] = 0 /\ sent[sv] = 0
      /\ ~down => output[cl] # "closed" /\ output[sv] # "closed"
  BY <1>1, <1>2, <1>3 DEF Parts, Copying, Tables, cl
<1>7. Len(got[cl]) = 0 /\ Len(got[sv]) = 0
  BY <1>1, <1>2, <1>6, EndTypes DEF Parts, Whole
<1>. QED
  BY <1>1, <1>3, <1>4, <1>5, <1>6, <1>7 DEF cl, sv
-----------------------------------------------------------------------------
\* A frame put into the carrier finds room.
LEMMA PutTypes ==
  ASSUME Types, NEW x \in Side, NEW f \in Frame, Writable(x), Put(x, f)
  PROVE  carrier' \in [Side -> Seq(Frame)] /\ \A y \in Side : Len(carrier'[y]) <= Capacity
<1>1. CASE down
  BY <1>1 DEF Put, Types, LinkTypeOK
<1>2. CASE ~down
  <2>1. /\ carrier' = [carrier EXCEPT ![x] = Append(@, f)] /\ Len(carrier[x]) < Capacity
        /\ carrier \in [Side -> Seq(Frame)] /\ carrier[x] \in Seq(Frame)
        /\ \A y \in Side : Len(carrier[y]) <= Capacity
    BY <1>2 DEF Put, Writable, Types, LinkTypeOK
  <2>2. /\ Append(carrier[x], f) \in Seq(Frame)
        /\ Len(Append(carrier[x], f)) = Len(carrier[x]) + 1 /\ Len(carrier[x]) \in Nat
    BY <2>1
  <2>3. Len(Append(carrier[x], f)) <= Capacity
    BY <2>1, <2>2, MuxLinkAssumption
  <2>. QED
    BY <2>1, <2>2, <2>3
<1>. QED
  BY <1>1, <1>2

\* A frame taken from it was put there.
LEMMA TakeTypes ==
  ASSUME Types, NEW x \in Side, NEW status, Take(x, status)
  PROVE  /\ carrier' \in [Side -> Seq(Frame)] /\ \A y \in Side : Len(carrier'[y]) <= Capacity
         /\ Head(carrier[Peer(x)]) \in Frame
         /\ Peer(x) \in Side /\ carrier[Peer(x)] \in Seq(Frame) /\ carrier[Peer(x)] # <<>>
<1>1. /\ Peer(x) \in Side /\ carrier \in [Side -> Seq(Frame)] /\ carrier[Peer(x)] \in Seq(Frame)
      /\ carrier[Peer(x)] # <<>> /\ carrier' = [carrier EXCEPT ![Peer(x)] = Tail(@)]
      /\ \A y \in Side : Len(carrier[y]) <= Capacity
  BY EndFacts DEF Take, Types, LinkTypeOK
<1>2. /\ Tail(carrier[Peer(x)]) \in Seq(Frame) /\ Head(carrier[Peer(x)]) \in Frame
      /\ Len(Tail(carrier[Peer(x)])) = Len(carrier[Peer(x)]) - 1 /\ Len(carrier[Peer(x)]) \in Nat
  BY <1>1
<1>3. Len(Tail(carrier[Peer(x)])) <= Capacity
  BY <1>1, <1>2, MuxLinkAssumption
<1>. QED
  BY <1>1, <1>2, <1>3

\* A reader that is neither idle nor done holds a frame.
LEMMA HeldFrame ==
  ASSUME Types, NEW x \in Side, reader[x].at \notin {"idle", "done"}
  PROVE  /\ reader[x].frame \in Frame /\ reader[x].frame.id \in Sessions
         /\ reader[x].frame.data \in 0 .. MaxItems
         /\ <<x, reader[x].frame.id>> \in Ends
<1>1. reader[x] \in Readers
  BY DEF Types
<1>2. reader[x] \in [at : {"first", "write", "notify", "refuse", "drop"}, frame : Frame]
  BY <1>1 DEF Readers, idle
<1>3. reader[x].frame \in Frame
  BY <1>2
<1>4. reader[x].frame.id \in Sessions /\ reader[x].frame.data \in 0 .. MaxItems
  BY <1>3 DEF Frame
<1>. QED
  BY <1>3, <1>4, EndFacts

\* A failing copier keeps the types.
LEMMA FailTypes ==
  ASSUME Types, NEW e \in Ends, Fail(e)
  PROVE  /\ hasError' \in [Ends -> BOOLEAN]
         /\ input' \in [Ends -> {"open", "closed", "errord"}]
         /\ copier' \in [Ends -> {"none", "first", "new", "copy", "keep", "end", "close", "done"}]
<1> DEFINE v == IF e[1] = "client" THEN InterruptState(input[e]) ELSE input[e]
<1>1. v \in {"open", "closed", "errord"}
  BY DEF Types, LinkTypeOK, InterruptState
<1>2. input' = [input EXCEPT ![e] = v] /\ hasError' = [hasError EXCEPT ![e] = TRUE]
      /\ copier' = [copier EXCEPT ![e] = "end"]
  BY DEF Fail, Step
<1> HIDE DEF v
<1>. QED
  BY <1>1, <1>2 DEF Types, LinkTypeOK

\* Every step keeps the types.
LEMMA TypesStep ==
  ASSUME LinkInv, [LinkNext]_linkVars
  PROVE  Types'
<1> USE DEF Types, LinkTypeOK, CloseState, InterruptState
<1>0. Types /\ \A x \in Side : Holding(x)
  BY InvParts
<1>1. ASSUME NEW s \in Sessions, Open(s) PROVE Types'
  BY <1>0, <1>1, EndFacts DEF Open, Step, Side
<1>2. ASSUME NEW s \in Sessions, First(s) PROVE Types'
  <2>1. <<"client", s>> \in Ends
    BY EndFacts DEF Side
  <2>2. UNCHANGED <<carrier, down, sessionsOf, closedOf, output, reader, quit, sent, got>>
    BY <1>2 DEF First
  <2>3. \/ /\ MaxItems > 0 /\ item' = [item EXCEPT ![<<"client", s>>] = 1]
           /\ copier' = [copier EXCEPT ![<<"client", s>>] = "new"]
           /\ UNCHANGED <<hasError, input>>
        \/ /\ copier' = [copier EXCEPT ![<<"client", s>>] = "new"]
           /\ UNCHANGED <<item, hasError, input>>
        \/ Fail(<<"client", s>>) /\ UNCHANGED item
    BY <1>2 DEF First, Step
  <2>4. item' \in [Ends -> 0 .. MaxItems]
    <3>1. MaxItems > 0 => 1 \in 0 .. MaxItems
      BY MuxLinkAssumption
    <3>2. \/ item' = item
          \/ 1 \in 0 .. MaxItems /\ item' = [item EXCEPT ![<<"client", s>>] = 1]
      BY <2>3, <3>1
    <3>. QED
      BY <1>0, <2>1, <3>2
  <2>5. CASE Fail(<<"client", s>>)
    BY <1>0, <2>1, <2>2, <2>4, <2>5, FailTypes
  <2>6. CASE ~Fail(<<"client", s>>)
    BY <1>0, <2>1, <2>2, <2>3, <2>4, <2>6
  <2>. QED
    BY <2>5, <2>6
<1>3. ASSUME NEW e \in Ends, Read(e) PROVE Types'
  <2>2. UNCHANGED <<carrier, down, sessionsOf, closedOf, output, reader, quit, sent, got>>
    BY <1>3 DEF Read
  <2>3. \/ /\ sent[e] < MaxItems /\ item' = [item EXCEPT ![e] = sent[e] + 1]
           /\ copier' = [copier EXCEPT ![e] = "keep"]
           /\ UNCHANGED <<hasError, input>>
        \/ /\ copier' = [copier EXCEPT ![e] = "end"]
           /\ UNCHANGED <<item, hasError, input>>
        \/ Fail(e) /\ UNCHANGED item
    BY <1>3 DEF Read, Step
  <2>4. item' \in [Ends -> 0 .. MaxItems]
    <3>1. sent[e] < MaxItems => sent[e] + 1 \in 0 .. MaxItems
      BY <1>0, MuxLinkAssumption
    <3>2. \/ item' = item
          \/ sent[e] + 1 \in 0 .. MaxItems /\ item' = [item EXCEPT ![e] = sent[e] + 1]
      BY <2>3, <3>1
    <3>. QED
      BY <1>0, <3>2
  <2>5. CASE Fail(e)
    BY <1>0, <2>2, <2>4, <2>5, FailTypes
  <2>6. CASE ~Fail(e)
    BY <1>0, <2>2, <2>3, <2>4, <2>6
  <2>. QED
    BY <2>5, <2>6
<1>4. ASSUME NEW e \in Ends, Send(e) PROVE Types'
  <2> DEFINE f == [id |-> e[2], status |-> IF copier[e] = "new" THEN "New" ELSE "Keep",
                   data |-> item[e], error |-> FALSE]
  <2>1. e[1] \in Side /\ f \in Frame
    BY <1>0, EndFacts DEF Frame
  <2> HIDE DEF f
  <2>2. Writable(e[1]) /\ Put(e[1], f)
    BY <1>4 DEF Send, f
  <2>3. carrier' \in [Side -> Seq(Frame)] /\ \A y \in Side : Len(carrier'[y]) <= Capacity
    BY <1>0, <2>1, <2>2, PutTypes
  <2>4. /\ item' \in [Ends -> 0 .. MaxItems] /\ sent' \in [Ends -> 0 .. MaxItems]
        /\ hasError' \in [Ends -> BOOLEAN]
        /\ input' \in [Ends -> {"open", "closed", "errord"}]
        /\ copier' \in [Ends -> {"none", "first", "new", "copy", "keep", "end", "close", "done"}]
    <3>1. item' = [item EXCEPT ![e] = 0]
      BY <1>4 DEF Send
    <3>2. CASE down
      <4>1. Fail(e) /\ UNCHANGED sent
        BY <1>4, <3>2 DEF Send
      <4>. QED
        BY <1>0, <3>1, <4>1, FailTypes, MuxLinkAssumption
    <3>3. CASE ~down
      <4>1. /\ sent' = [sent EXCEPT ![e] = IF item[e] = 0 THEN sent[e] ELSE item[e]]
            /\ copier' = [copier EXCEPT ![e] = "copy"] /\ UNCHANGED <<hasError, input>>
        BY <1>4, <3>3 DEF Send, Step
      <4>2. (IF item[e] = 0 THEN sent[e] ELSE item[e]) \in 0 .. MaxItems
        BY <1>0
      <4>. QED
        BY <1>0, <3>1, <4>1, <4>2, MuxLinkAssumption
    <3>. QED
      BY <3>2, <3>3
  <2>. QED
    BY <1>0, <1>4, <2>3, <2>4 DEF Send
<1>5. ASSUME NEW e \in Ends, SendEnd(e) PROVE Types'
  <2> DEFINE f == [id |-> e[2], status |-> "End", data |-> 0, error |-> hasError[e]]
  <2>1. e[1] \in Side /\ f \in Frame
    BY <1>0, EndFacts, MuxLinkAssumption DEF Frame
  <2> HIDE DEF f
  <2>2. Writable(e[1]) /\ Put(e[1], f)
    BY <1>5 DEF SendEnd, f
  <2>3. carrier' \in [Side -> Seq(Frame)] /\ \A y \in Side : Len(carrier'[y]) <= Capacity
    BY <1>0, <2>1, <2>2, PutTypes
  <2>. QED
    BY <1>0, <1>5, <2>3 DEF SendEnd, Step
<1>6. ASSUME NEW e \in Ends, Finish(e) PROVE Types'
  BY <1>0, <1>6, EndFacts DEF Finish, Step, SessionClose, Remove
<1>7. ASSUME NEW e \in Ends, AppCloses(e) \/ AppFails(e) \/ AppStopsReading(e) PROVE Types'
  BY <1>0, <1>7 DEF AppCloses, AppFails, AppStopsReading
<1>8. CASE ReceiveNew
  <2> DEFINE f == Head(carrier["client"])
  <2>1. "server" \in Side /\ Peer("server") = "client" /\ Take("server", "New")
    BY <1>8 DEF ReceiveNew, Side, Peer
  <2>2. /\ carrier' \in [Side -> Seq(Frame)] /\ \A y \in Side : Len(carrier'[y]) <= Capacity
        /\ f \in Frame
    BY <1>0, <2>1, TakeTypes
  <2>3. f.id \in Sessions /\ <<"server", f.id>> \in Ends /\ FirstPayload(f) \in Readers
    BY <2>1, <2>2, EndFacts DEF Frame, FirstPayload, Readers, At
  <2> HIDE DEF f
  <2>4. /\ sessionsOf' = [sessionsOf EXCEPT !["server"] = @ \cup {f.id}]
        /\ copier' = [copier EXCEPT ![<<"server", f.id>>] = "copy"]
        /\ reader' = [reader EXCEPT !["server"] = FirstPayload(f)]
        /\ UNCHANGED <<down, closedOf, input, output, item, hasError, quit, sent, got>>
    BY <1>8 DEF ReceiveNew, Step, ReaderGoto, f
  <2>5. reader' \in [Side -> Readers] /\ sessionsOf' \in [Side -> SUBSET Sessions]
    BY <1>0, <2>1, <2>3, <2>4
  <2>. QED
    BY <1>0, <2>2, <2>3, <2>4, <2>5 DEF Readers
<1>9. CASE DispatchFails
  <2>1. "server" \in Side /\ Take("server", "New")
    BY <1>9 DEF DispatchFails, Side
  <2>2. carrier' \in [Side -> Seq(Frame)] /\ \A y \in Side : Len(carrier'[y]) <= Capacity
    BY <1>0, <2>1, TakeTypes
  <2>3. reader' \in [Side -> Readers]
    BY <1>0, <1>9 DEF DispatchFails, ReaderGoto, Readers
  <2>. QED
    BY <1>0, <1>9, <2>2, <2>3 DEF DispatchFails, Readers
<1>10. ASSUME NEW x \in Side, ReceiveKeep(x) PROVE Types'
  <2> DEFINE f == Head(carrier[Peer(x)])
             at == IF Found(x, f.id) THEN "write" ELSE "notify"
  <2>1. /\ carrier' \in [Side -> Seq(Frame)] /\ \A y \in Side : Len(carrier'[y]) <= Capacity
        /\ f \in Frame
    BY <1>0, <1>10, TakeTypes DEF ReceiveKeep
  <2>2. /\ reader' = [reader EXCEPT ![x] = At(at, f)]
        /\ UNCHANGED <<down, sessionsOf, closedOf, input, output, copier, item, hasError, quit,
                       sent, got>>
    BY <1>10 DEF ReceiveKeep, ReaderGoto
  <2>3. At(at, f) \in Readers
    BY <2>1 DEF At, Readers
  <2>4. reader' \in [Side -> Readers]
    BY <1>0, <2>2, <2>3
  <2>. QED
    BY <1>0, <2>1, <2>2, <2>4 DEF Readers
<1>11. ASSUME NEW x \in Side, ReceiveEnd(x) PROVE Types'
  <2> DEFINE f == Head(carrier[Peer(x)])
             e == <<x, f.id>>
  <2>1. /\ carrier' \in [Side -> Seq(Frame)] /\ \A y \in Side : Len(carrier'[y]) <= Capacity
        /\ f \in Frame
    BY <1>0, <1>11, TakeTypes DEF ReceiveEnd
  <2>2. e \in Ends /\ e[1] = x
    BY <2>1, EndFacts DEF Frame
  <2> HIDE DEF f
  <2>3. /\ \/ /\ input' = [input EXCEPT ![e] = EndInput(@)]
              /\ output' = [output EXCEPT ![e] = EndOutput(@, f.error)]
              /\ sessionsOf' = Remove(e)
           \/ UNCHANGED <<input, output, sessionsOf>>
        /\ UNCHANGED <<down, closedOf, copier, item, hasError, reader, quit, sent, got>>
    BY <1>11 DEF ReceiveEnd, f
  <2>4. /\ input' \in [Ends -> {"open", "closed", "errord"}]
        /\ output' \in [Ends -> {"open", "closed", "errord"}]
        /\ sessionsOf' \in [Side -> SUBSET Sessions]
    <3>1. /\ EndInput(input[e]) \in {"open", "closed", "errord"}
          /\ EndOutput(output[e], f.error) \in {"open", "closed", "errord"}
      BY <1>0, <2>2 DEF EndInput, EndOutput
    <3>2. Remove(e) \in [Side -> SUBSET Sessions]
      BY <1>0, <2>2 DEF Remove
    <3>. QED
      BY <1>0, <2>2, <2>3, <3>1, <3>2
  <2>. QED
    BY <1>0, <2>1, <2>3, <2>4
<1>12. ASSUME NEW x \in Side, Deliver(x) PROVE Types'
  <2> DEFINE f == reader[x].frame
             e == <<x, f.id>>
  <2>1. f \in Frame /\ f.data \in 1 .. MaxItems /\ f.id \in Sessions
    <3>1. reader[x].at \in {"first", "write"}
      BY <1>12 DEF Deliver
    <3>2. f.data # 0
      BY <1>0, <3>1 DEF Holding
    <3>3. /\ reader[x].frame \in Frame /\ reader[x].frame.id \in Sessions
          /\ reader[x].frame.data \in 0 .. MaxItems
      BY <1>0, <3>1, HeldFrame
    <3>. QED
      BY <3>2, <3>3, MuxLinkAssumption
  <2>2. e \in Ends /\ got[e] \in Seq(1 .. MaxItems)
    BY <1>0, <2>1, EndFacts
  <2> HIDE DEF f
  <2>3. /\ \/ /\ got' = [got EXCEPT ![e] = Append(@, f.data)]
              /\ reader' = [reader EXCEPT ![x] = idle]
           \/ /\ got' = got
              /\ reader' = [reader EXCEPT ![x] =
                               At(IF reader[x].at = "first" THEN "drop" ELSE "refuse", f)]
        /\ UNCHANGED <<carrier, down, sessionsOf, closedOf, input, output, copier, item, hasError,
                       quit, sent>>
    BY <1>12 DEF Deliver, ReaderGoto, f
  <2>4. got' \in [Ends -> Seq(1 .. MaxItems)]
    <3>1. Append(got[e], f.data) \in Seq(1 .. MaxItems)
      BY <2>1, <2>2
    <3>. QED
      BY <1>0, <2>3, <3>1
  <2>5. reader' \in [Side -> Readers]
    <3>1. /\ idle \in Readers /\ At("drop", f) \in Readers /\ At("refuse", f) \in Readers
      BY <2>1 DEF Readers, At
    <3>2. \E r \in Readers : reader' = [reader EXCEPT ![x] = r]
      BY <2>3, <3>1
    <3>. QED
      BY <1>0, <3>2
  <2>. QED
    BY <1>0, <2>3, <2>4, <2>5 DEF Readers
<1>13. ASSUME NEW x \in Side, Notify(x) PROVE Types'
  <2> DEFINE g == reader[x].frame
             f == [id |-> g.id, status |-> "End", data |-> 0, error |-> FALSE]
  <2>1. g \in Frame /\ f \in Frame
    <3>1. reader[x].at \notin {"idle", "done"}
      BY <1>13 DEF Notify
    <3>2. g \in Frame /\ g.id \in Sessions
      BY <1>0, <3>1, HeldFrame
    <3>. QED
      BY <3>2, MuxLinkAssumption DEF Frame
  <2> HIDE DEF f
  <2>2. /\ Writable(x) /\ Put(x, f)
        /\ reader' = [reader EXCEPT ![x] = IF reader[x].at = "notify" THEN idle ELSE At("drop", g)]
        /\ UNCHANGED <<down, sessionsOf, closedOf, input, output, copier, item, hasError, quit,
                       sent, got>>
    BY <1>13 DEF Notify, ReaderGoto, f
  <2>3. carrier' \in [Side -> Seq(Frame)] /\ \A y \in Side : Len(carrier'[y]) <= Capacity
    BY <1>0, <2>1, <2>2, PutTypes
  <2>4. reader' \in [Side -> Readers]
    BY <1>0, <2>1, <2>2 DEF Readers, At
  <2>. QED
    BY <1>0, <2>2, <2>3, <2>4 DEF Readers
<1>14. ASSUME NEW x \in Side, Drop(x) PROVE Types'
  <2> DEFINE e == <<x, reader[x].frame.id>>
  <2>1. e \in Ends /\ e[1] = x
    <3>1. reader[x].at \notin {"idle", "done"}
      BY <1>14 DEF Drop
    <3>. QED
      BY <1>0, <3>1, HeldFrame, EndFacts
  <2>2. reader' \in [Side -> Readers]
    BY <1>0, <1>14 DEF Drop, ReaderGoto, Readers
  <2> HIDE DEF e
  <2>3. /\ input' = [input EXCEPT ![e] = InterruptState(@)] /\ SessionClose(e)
        /\ UNCHANGED <<carrier, down, closedOf, copier, item, hasError, quit, sent, got>>
    BY <1>14 DEF Drop, e
  <2>. QED
    BY <1>0, <2>1, <2>2, <2>3 DEF SessionClose, Remove, Readers
<1>15. ASSUME NEW x \in Side, ReaderEnds(x) PROVE Types'
  <2>1. reader' \in [Side -> Readers]
    BY <1>0, <1>15 DEF ReaderEnds, ReaderGoto, Readers
  <2>. QED
    BY <1>0, <1>15, <2>1 DEF ReaderEnds, Readers
<1>16. ASSUME NEW x \in Side, WorkerClose(x) PROVE Types'
  <2>1. /\ output' \in [Ends -> {"open", "closed", "errord"}]
        /\ sessionsOf' \in [Side -> SUBSET Sessions] /\ closedOf' \in [Side -> BOOLEAN]
    BY <1>0, <1>16 DEF WorkerClose
  <2>2. carrier' \in [Side -> Seq(Frame)] /\ \A y \in Side : Len(carrier'[y]) <= Capacity
    <3>1. <<>> \in Seq(Frame) /\ Len(<<>>) <= Capacity
      BY MuxLinkAssumption
    <3>. QED
      BY <1>0, <1>16, <3>1 DEF WorkerClose
  <2>. QED
    BY <1>0, <1>16, <2>1, <2>2 DEF WorkerClose
<1>17. CASE LinkFails
  <2>1. carrier' \in [Side -> Seq(Frame)] /\ \A y \in Side : Len(carrier'[y]) <= Capacity
    <3>1. <<>> \in Seq(Frame) /\ Len(<<>>) <= Capacity
      BY MuxLinkAssumption
    <3>. QED
      BY <1>0, <1>17, <3>1 DEF LinkFails
  <2>. QED
    BY <1>0, <1>17, <2>1 DEF LinkFails
<1>18. CASE UNCHANGED linkVars
  BY <1>0, <1>18 DEF linkVars
<1>. QED
  BY <1>1, <1>2, <1>3, <1>4, <1>5, <1>6, <1>7, <1>8, <1>9, <1>10, <1>11, <1>12, <1>13, <1>14,
     <1>15, <1>16, <1>17, <1>18 DEF LinkNext, CopierStep, ReaderStep
-----------------------------------------------------------------------------
\* A step of session s leaves the other sessions alone, but for the places of their frames
\* in the carrier.
Within(s) ==
    /\ UNCHANGED down
    /\ \A d \in Ends : d[2] # s =>
          /\ input'[d] = input[d] /\ output'[d] = output[d] /\ copier'[d] = copier[d]
          /\ item'[d] = item[d] /\ hasError'[d] = hasError[d] /\ quit'[d] = quit[d]
          /\ sent'[d] = sent[d] /\ got'[d] = got[d]
          /\ (d[2] \in sessionsOf'[d[1]]) = (d[2] \in sessionsOf[d[1]])
    /\ \A x \in Side :
          \/ carrier'[x] = carrier[x]
          \/ \E f \in Frame : f.id = s /\ carrier'[x] = Append(carrier[x], f)
          \/ /\ carrier[x] # <<>> /\ Head(carrier[x]).id = s
             /\ carrier'[x] = Tail(carrier[x])
    /\ \A x \in Side :
          \/ reader'[x] = reader[x]
          \/ /\ reader[x].at = "idle" \/ (reader[x].at # "done" /\ reader[x].frame.id = s)
             /\ reader'[x] = idle \/ (reader'[x].at # "done" /\ reader'[x].frame.id = s)

\* Then the invariant holds of the other sessions.
LEMMA WithinHolds ==
  ASSUME LinkInv, Types', NEW s \in Sessions, Within(s), NEW e \in Ends, e[2] # s
  PROVE  Parts(e)'
<1>0. /\ Types /\ e[1] \in Side /\ Peer(e[1]) \in Side /\ Other(e) \in Ends /\ Other(e)[2] = e[2]
      /\ carrier[e[1]] \in Seq(Frame) /\ carrier[Peer(e[1])] \in Seq(Frame)
  BY InvParts, EndFacts, EndTypes DEF To
<1>1. ASSUME NEW x \in Side, carrier[x] \in Seq(Frame)
      PROVE  \E k \in {0, 1} : Shifted(carrier[x], carrier'[x], e[2], k)
  <2>1. CASE carrier'[x] = carrier[x]
    BY <1>1, <2>1, ShiftedSame
  <2>2. ASSUME NEW f \in Frame, f.id = s, carrier'[x] = Append(carrier[x], f)
        PROVE  Shifted(carrier[x], carrier'[x], e[2], 0)
    BY <1>1, <2>2, ShiftedAppend
  <2>3. CASE carrier[x] # <<>> /\ Head(carrier[x]).id = s /\ carrier'[x] = Tail(carrier[x])
    BY <1>1, <2>3, ShiftedTail
  <2>. QED
    BY <1>1, <2>1, <2>2, <2>3 DEF Within
<1>2. PICK k \in {0, 1} : Shifted(carrier[Peer(e[1])], carrier'[Peer(e[1])], e[2], k)
  BY <1>0, <1>1
<1>3. PICK m \in {0, 1} : Shifted(carrier[e[1]], carrier'[e[1]], e[2], m)
  BY <1>0, <1>1
<1>4. /\ reader[e[1]].at = "done" => reader'[e[1]].at = "done"
      /\ Held(e) => reader'[e[1]] = reader[e[1]]
      /\ ~Held(e) => ~(reader'[e[1]].at \in {"first", "write"} /\ reader'[e[1]].frame.id = e[2])
  BY <1>0 DEF Within, Held, idle
<1>5. \A d \in {e, Other(e)} :
          /\ input'[d] = input[d] /\ output'[d] = output[d] /\ copier'[d] = copier[d]
          /\ item'[d] = item[d] /\ hasError'[d] = hasError[d] /\ quit'[d] = quit[d]
          /\ sent'[d] = sent[d] /\ got'[d] = got[d]
          /\ (d[2] \in sessionsOf'[d[1]]) = (d[2] \in sessionsOf[d[1]])
  BY <1>0 DEF Within
<1>6. Aside(e, k, m)
  BY <1>2, <1>3, <1>4, <1>5 DEF Aside, Within, To
<1>. QED
  BY <1>6, AsideHolds

\* So it is enough to look at the two ends of the session.
LEMMA SessionStep ==
  ASSUME LinkInv, Types', NEW e \in Ends, Within(e[2]), Parts(e)', Parts(Other(e))'
  PROVE  \A d \in Ends : Parts(d)'
<1> SUFFICES ASSUME NEW d \in Ends PROVE Parts(d)'
  OBVIOUS
<1>1. CASE d[2] = e[2]
  BY <1>1, EndFacts
<1>2. CASE d[2] # e[2]
  BY <1>2, WithinHolds, EndFacts
<1>. QED
  BY <1>1, <1>2

\* Leaving a table concerns nobody else.
LEMMA Removed ==
  ASSUME Types, NEW e \in Ends, sessionsOf' = Remove(e) \/ sessionsOf' = sessionsOf
  PROVE  /\ \A d \in Ends : d # e => (d[2] \in sessionsOf'[d[1]]) = (d[2] \in sessionsOf[d[1]])
         /\ e[2] \in sessionsOf'[e[1]] => e[2] \in sessionsOf[e[1]]
<1>0. sessionsOf \in [Side -> SUBSET Sessions] /\ e[1] \in Side
  BY EndFacts DEF Types, LinkTypeOK
<1>1. sessionsOf' = sessionsOf \/ sessionsOf' = [sessionsOf EXCEPT ![e[1]] = @ \ {e[2]}]
  BY DEF Remove
<1>2. /\ sessionsOf'[e[1]] \in {sessionsOf[e[1]], sessionsOf[e[1]] \ {e[2]}}
      /\ \A y \in Side : y # e[1] => sessionsOf'[y] = sessionsOf[y]
  BY <1>0, <1>1
<1>3. ASSUME NEW d \in Ends, d # e
      PROVE  (d[2] \in sessionsOf'[d[1]]) = (d[2] \in sessionsOf[d[1]])
  <2>1. CASE d[1] # e[1]
    BY <1>2, <2>1, EndFacts
  <2>2. CASE d[1] = e[1]
    <3>1. d[2] # e[2]
      BY <1>3, <2>2, EndFacts
    <3>. QED
      BY <1>2, <2>2, <3>1
  <2>. QED
    BY <2>1, <2>2
<1>. QED
  BY <1>2, <1>3
-----------------------------------------------------------------------------
(* The steps of an end that leave the carrier alone. *)

AllParts == (\A e \in Ends : Parts(e)) /\ \A x \in Side : Holding(x)

\* What an application does to its input is its own affair until the copier finds it.
LEMMA AppQuits ==
  ASSUME LinkInv, Types', NEW e \in Ends, AppCloses(e) \/ AppFails(e)
  PROVE  AllParts'
<1> DEFINE o == Other(e)
<1>0. /\ Types /\ Parts(e) /\ Parts(o) /\ o \in Ends /\ o # e /\ Other(o) = e
  BY InvParts, EndFacts
<1>1. /\ UNCHANGED <<carrier, down, sessionsOf, closedOf, output, copier, item, hasError, reader,
                     sent, got>>
      /\ copier[e] \in {"first", "new", "copy", "keep"} /\ input[e] = "open"
      /\ \A d \in Ends : d # e => input'[d] = input[d] /\ quit'[d] = quit[d]
      /\ \/ input'[e] = "closed" /\ quit'[e] = "eof"
         \/ input'[e] = "errord" /\ quit'[e] = "error"
  BY <1>0 DEF AppCloses, AppFails, IsRead, Types, LinkTypeOK
<1>2. quit[e] = "no"
  BY <1>0, <1>1, EndTypes DEF Parts, Copying
<1> HIDE DEF o
<1>3. \A d \in Ends : Started(d)' = Started(d)
  BY <1>1 DEF Started
<1>4. Parts(e)'
  <2>1. Copying(e)'
    BY <1>0, <1>1 DEF Parts, Copying
  <2>2. Tables(e)' /\ Frames(e)' /\ NewSent(e)' /\ Flow(e)' /\ Whole(e)'
    BY <1>0, <1>1, <1>3, Kept DEF o
  <2>3. Continues(e)' /\ Ending(e)'
    BY <1>1 DEF Continues, Ending, Untouched
  <2>. QED
    BY <2>1, <2>2, <2>3 DEF Parts
<1>5. Parts(o)'
  <2>1. Copying(o)' /\ Tables(o)' /\ Frames(o)' /\ NewSent(o)' /\ Flow(o)'
    BY <1>0, <1>1, <1>3, Kept
  <2>2. Untouched(o)' = Untouched(o)
    BY <1>0, <1>1 DEF Untouched
  <2>3. Continues(o)'
    BY <1>0, <1>1, <2>2, Kept DEF Parts, Continues
  <2>4. Ending(o)' /\ Whole(o)'
    BY <1>0, <1>1, <1>2, <1>3, <2>2, Kept
  <2>. QED
    BY <2>1, <2>3, <2>4 DEF Parts
<1>6. Within(e[2])
  BY <1>1 DEF Within
<1>7. \A x \in Side : Holding(x)'
  BY <1>1, <1>3, HoldingKept
<1>. QED
  BY <1>4, <1>5, <1>6, <1>7, SessionStep DEF AllParts, o

\* An application that stops to read releases the other end from all promises.
LEMMA AppStops ==
  ASSUME LinkInv, Types', NEW e \in Ends, AppStopsReading(e)
  PROVE  AllParts'
<1> DEFINE o == Other(e)
<1>0. /\ Types /\ Parts(e) /\ Parts(o) /\ o \in Ends /\ o # e /\ Other(o) = e
  BY InvParts, EndFacts
<1>1. /\ UNCHANGED <<carrier, down, sessionsOf, closedOf, input, copier, item, hasError, reader,
                     quit, sent, got>>
      /\ Started(e) /\ output[e] = "open" /\ output'[e] = "errord"
      /\ \A d \in Ends : d # e => output'[d] = output[d]
  BY <1>0 DEF AppStopsReading, Types, LinkTypeOK
<1> HIDE DEF o
<1>3. \A d \in Ends : Started(d)' = Started(d)
  BY <1>1 DEF Started
<1>4. Parts(e)'
  <2>1. Tables(e)'
    BY <1>0, <1>1, <1>3 DEF Parts, Tables, Started
  <2>2. Copying(e)' /\ Frames(e)' /\ NewSent(e)' /\ Flow(e)' /\ Whole(e)'
    BY <1>0, <1>1, <1>3, Kept DEF o
  <2>3. Continues(e)' /\ Ending(e)'
    BY <1>1 DEF Continues, Ending, Untouched
  <2>. QED
    BY <2>1, <2>2, <2>3 DEF Parts
<1>5. Parts(o)'
  <2>1. Copying(o)' /\ Tables(o)' /\ Frames(o)' /\ NewSent(o)' /\ Flow(o)'
    BY <1>0, <1>1, <1>3, Kept
  <2>2. Untouched(o)' = Untouched(o)
    BY <1>0, <1>1 DEF Untouched
  <2>3. Continues(o)'
    BY <1>0, <1>1, <2>2, Kept DEF Parts, Continues
  <2>4. Ending(o)' /\ Whole(o)'
    BY <1>0, <1>1, <1>3, <2>2, Kept
  <2>. QED
    BY <2>1, <2>3, <2>4 DEF Parts
<1>6. Within(e[2])
  BY <1>1 DEF Within
<1>7. \A x \in Side : Holding(x)'
  BY <1>1, <1>3, HoldingKept
<1>. QED
  BY <1>4, <1>5, <1>6, <1>7, SessionStep DEF AllParts, o

\* buf.Copy reads: an end that nobody has ended goes on.
LEMMA ReadHolds ==
  ASSUME LinkInv, Types', NEW e \in Ends, Read(e)
  PROVE  AllParts'
<1> DEFINE o == Other(e)
<1>0. /\ Types /\ Parts(e) /\ Parts(o) /\ o \in Ends /\ o # e /\ Other(o) = e
  BY InvParts, EndFacts
<1>1. /\ UNCHANGED <<carrier, down, sessionsOf, closedOf, output, reader, quit, sent, got>>
      /\ copier[e] = "copy" /\ copier'[e] \in {"keep", "end"}
      /\ \A d \in Ends : d # e => /\ input'[d] = input[d] /\ item'[d] = item[d]
                                  /\ hasError'[d] = hasError[d] /\ copier'[d] = copier[d]
  BY <1>0 DEF Read, Step, Fail, Types, LinkTypeOK
<1>2. \/ /\ copier'[e] = "keep" /\ item'[e] = sent[e] + 1 /\ item'[e] # 0
         /\ input'[e] = input[e] /\ hasError'[e] = hasError[e] /\ input[e] # "errord"
      \/ /\ copier'[e] = "end" /\ item'[e] = item[e] /\ input'[e] = input[e]
         /\ hasError'[e] = hasError[e] /\ input[e] = "closed"
      \/ /\ copier'[e] = "end" /\ item'[e] = item[e] /\ hasError'[e] /\ input[e] = "errord"
         /\ input'[e] = "errord"
  BY <1>0, EndTypes DEF Read, Step, Fail, InterruptState, Types, LinkTypeOK
<1> HIDE DEF o
<1>3. \A d \in Ends : Started(d)' = Started(d)
  BY <1>1 DEF Started
<1>4. Parts(e)'
  <2>1. Copying(e)'
    BY <1>0, <1>1, <1>2 DEF Parts, Copying
  <2>2. Tables(e)' /\ Frames(e)' /\ NewSent(e)' /\ Flow(e)' /\ Whole(e)'
    BY <1>0, <1>1, <1>3, Kept DEF o
  <2>3. Untouched(e)' = Untouched(e)
    BY <1>1 DEF Untouched
  <2>4. Continues(e)'
    <3>1. Untouched(e) => input[e] # "errord" /\ input[e] # "closed"
      BY <1>0 DEF Parts, Continues, Copying, Untouched
    <3>2. Untouched(e)' => Untouched(e) /\ input'[e] # "errord" /\ copier'[e] = "keep"
      BY <1>2, <2>3, <3>1
    <3>. QED
      BY <1>1, <3>2, Kept
  <2>5. Ending(e)'
    BY <1>0, <1>1, <1>3, <2>3, Kept DEF o
  <2>. QED
    BY <2>1, <2>2, <2>4, <2>5 DEF Parts
<1>5. Parts(o)'
  <2>1. Copying(o)' /\ Tables(o)' /\ Frames(o)' /\ NewSent(o)' /\ Flow(o)'
    BY <1>0, <1>1, <1>3, Kept
  <2>2. Untouched(o)' = Untouched(o)
    BY <1>0, <1>1 DEF Untouched
  <2>3. Continues(o)'
    BY <1>0, <1>1, <2>2, Kept DEF Parts, Continues
  <2>4. Ending(o)' /\ Whole(o)'
    BY <1>0, <1>1, <1>3, <2>2, Kept
  <2>. QED
    BY <2>1, <2>3, <2>4 DEF Parts
<1>6. Within(e[2])
  BY <1>1 DEF Within
<1>7. \A x \in Side : Holding(x)'
  BY <1>1, <1>3, HoldingKept
<1>. QED
  BY <1>4, <1>5, <1>6, <1>7, SessionStep DEF AllParts, o

\* Session.Close at the end of a copier closes the output cleanly: the other end has been
\* told before, and an untouched end is not there.
LEMMA FinishHolds ==
  ASSUME LinkInv, Types', NEW e \in Ends, Finish(e)
  PROVE  AllParts'
<1> DEFINE o == Other(e)
<1>0. /\ Types /\ Parts(e) /\ Parts(o) /\ o \in Ends /\ o # e /\ Other(o) = e /\ o[1] # e[1]
      /\ e[1] \in Side /\ o[1] \in Side
  BY InvParts, EndFacts
<1>1. /\ UNCHANGED <<carrier, down, closedOf, input, item, hasError, reader, quit, sent, got>>
      /\ copier[e] = "close" /\ copier'[e] = "done"
      /\ output'[e] = CloseState(output[e]) /\ sessionsOf' = Remove(e)
      /\ \A d \in Ends : d # e => copier'[d] = copier[d] /\ output'[d] = output[d]
  BY <1>0 DEF Finish, SessionClose, Step, Types, LinkTypeOK
<1>2. /\ \A d \in Ends : d # e => (d[2] \in sessionsOf'[d[1]]) = (d[2] \in sessionsOf[d[1]])
      /\ e[2] \in sessionsOf'[e[1]] => e[2] \in sessionsOf[e[1]]
  BY <1>0, <1>1, Removed
<1>3. /\ output'[e] # "open" /\ (output'[e] = "errord") = (output[e] = "errord")
      /\ output[e] # "open" => output'[e] = output[e]
  BY <1>1 DEF CloseState
<1> HIDE DEF o
<1>4. \A d \in Ends : Started(d)' = Started(d)
  BY <1>1 DEF Started
<1>5. Parts(e)'
  <2>1. Tables(e)'
    <3>1. <<"client", e[2]>> \in Ends /\ <<"server", e[2]>> \in Ends
      BY EndFacts DEF Side
    <3>2. copier'[<<"client", e[2]>>] \in {"none", "first", "new"} =>
              copier[<<"client", e[2]>>] \in {"none", "first", "new"}
      BY <1>1, <3>1
    <3>. QED
      BY <1>0, <1>1, <1>2, <1>3, <1>4, <3>1, <3>2 DEF Parts, Tables
  <2>2. Copying(e)'
    BY <1>0, <1>1 DEF Parts, Copying
  <2>3. Frames(e)' /\ NewSent(e)' /\ Flow(e)'
    BY <1>0, <1>1, <1>3, <1>4, Kept DEF o
  <2>4. Continues(e)' /\ Ending(e)'
    BY <1>3 DEF Continues, Ending, Untouched
  <2>5. Whole(e)'
    <3>1. output'[e] = "closed" /\ ~down' /\ quit'[e] = "no" => output[e] = "closed"
      BY <1>0, <1>1, <1>3, EndTypes DEF Parts, Continues, Untouched
    <3>. QED
      BY <1>0, <1>1, <3>1, Kept DEF o
  <2>. QED
    BY <2>1, <2>2, <2>3, <2>4, <2>5 DEF Parts
<1>6. Parts(o)'
  <2>1. Copying(o)' /\ Frames(o)' /\ NewSent(o)' /\ Flow(o)'
    BY <1>0, <1>1, <1>4, Kept
  <2>2. Tables(o)'
    BY <1>0, <1>1, <1>2, <1>4, Kept
  <2>3. Untouched(o)' = Untouched(o)
    BY <1>0, <1>1 DEF Untouched
  <2>4. Continues(o)'
    BY <1>0, <1>1, <2>3, Kept DEF Parts, Continues
  <2>5. Ending(o)' /\ Whole(o)'
    BY <1>0, <1>1, <1>3, <1>4, <2>3, Kept
  <2>. QED
    BY <2>1, <2>2, <2>4, <2>5 DEF Parts
<1>7. Within(e[2])
  BY <1>1, <1>2 DEF Within
<1>8. \A x \in Side : Holding(x)'
  <2>1. \A d \in Ends : output[d] # "open" => output'[d] # "open"
    BY <1>1, <1>3
  <2>. QED
    BY <1>1, <1>4, <2>1, HoldingKept
<1>. QED
  BY <1>5, <1>6, <1>7, <1>8, SessionStep DEF AllParts, o

\* Until New is sent, the client's end of a session is alone.
LEMMA BeforeNewHolds ==
  ASSUME LinkInv, Types', NEW s \in Sessions, NEW e, e = <<"client", s>>,
         copier[e] \in {"none", "first"},
         copier'[e] \notin {"none", "copy", "keep", "done", "close"},
         UNCHANGED <<carrier, down, output, reader, quit, sent, got>>,
         \A d \in Ends : d # e => /\ input'[d] = input[d] /\ item'[d] = item[d]
                                  /\ hasError'[d] = hasError[d] /\ copier'[d] = copier[d]
                                  /\ (d[2] \in sessionsOf'[d[1]]) = (d[2] \in sessionsOf[d[1]]),
         s \in sessionsOf["client"] => s \in sessionsOf'["client"],
         copier[e] = "none" => s \in sessionsOf'["client"],
         Copying(e)', Untouched(e) => input'[e] # "errord" /\ copier'[e] # "end"
  PROVE  AllParts'
<1> DEFINE o == Other(e)
<1>0. /\ e \in Ends /\ o \in Ends /\ o # e /\ Other(o) = e /\ o = <<"server", s>>
      /\ e[1] = "client" /\ e[2] = s /\ o[1] = "server" /\ o[2] = s
      /\ "client" \in Side /\ "server" \in Side
  BY EndFacts DEF Side, Other, Peer
<1>1. Types /\ Parts(e) /\ Parts(o)
  BY <1>0, InvParts
<1>2. /\ copier[o] = "none" /\ copier'[o] = "none"
      /\ \A x \in Side : \A i \in DOMAIN carrier[x] : carrier[x][i].id # s
      /\ ~down => output[e] # "closed" /\ output[o] # "closed"
  BY <1>0, BeforeNew
<1>3. /\ ~Started(o) /\ ~Started(o)' /\ Started(e)'
      /\ \A i \in DOMAIN To(e)' : To(e)'[i].id # s
      /\ \A i \in DOMAIN To(o)' : To(o)'[i].id # s
  BY <1>0, <1>2, EndFacts DEF Started, To
<1> HIDE DEF o
<1>4. Untouched(e)' = Untouched(e) /\ Untouched(o)' = Untouched(o)
  BY DEF Untouched
<1>5. Parts(e)'
  <2>1. Tables(e)'
    BY <1>0, <1>1, <1>2, <1>3 DEF Parts, Tables, Started
  <2>2. Frames(e)' /\ NewSent(e)'
    BY <1>0, <1>3 DEF Frames, NewSent
  <2>3. Flow(e)' /\ Whole(e)' /\ Continues(e)'
    <3>1. Untouched(e)' => /\ Untouched(e) /\ input'[e] # "errord"
                           /\ copier'[e] \notin {"end", "close", "done"}
      BY <1>4
    <3>. QED
      BY <1>0, <1>2, <3>1, Kept DEF o
  <2>4. Ending(e)'
    <3>1. /\ Untouched(e)' => ~down /\ output'[o] # "closed"
          /\ \A i : ~EndAt(e, i)'
      BY <1>0, <1>2, <1>3, <1>4 DEF Untouched, EndAt
    <3>. QED
      BY <1>2, <3>1 DEF Ending, o
  <2>. QED
    BY <2>1, <2>2, <2>3, <2>4 DEF Parts
<1>6. Parts(o)'
  <2>1. Copying(o)' /\ Flow(o)' /\ Whole(o)'
    BY <1>0, Kept
  <2>2. Tables(o)'
    BY <1>0, <1>1, <1>2, <1>3 DEF Parts, Tables, Started
  <2>3. Frames(o)'
    BY <1>0, <1>3 DEF Frames
  <2>4. NewSent(o)'
    BY <1>0 DEF NewSent
  <2>5. Continues(o)'
    BY <1>0, <1>1, <1>4, Kept DEF Parts, Continues
  <2>6. Ending(o)'
    <3>1. ~Live(o)'
      BY <1>0, <1>3 DEF Live
    <3>. QED
      BY <3>1 DEF Ending
  <2>. QED
    BY <2>1, <2>2, <2>3, <2>4, <2>5, <2>6 DEF Parts
<1>7. Within(e[2])
  BY <1>0 DEF Within
<1>8. \A x \in Side : Holding(x)'
  <2>1. \A d \in Ends : Started(d) => Started(d)'
    BY <1>3 DEF Started
  <2>. QED
    BY <2>1, HoldingKept
<1>. QED
  BY <1>0, <1>5, <1>6, <1>7, <1>8, SessionStep DEF AllParts, o

\* Allocate and the start of fetchInput.
LEMMA OpenHolds ==
  ASSUME LinkInv, Types', NEW s \in Sessions, Open(s)
  PROVE  AllParts'
<1> DEFINE e == <<"client", s>>
<1>0. e \in Ends /\ e[1] = "client" /\ e[2] = s /\ Types /\ Parts(e) /\ "client" \in Side
  BY InvParts, EndFacts DEF Side
<1>1. /\ UNCHANGED <<carrier, down, closedOf, input, output, item, hasError, reader, quit,
                     sent, got>>
      /\ copier[e] = "none" /\ copier' = [copier EXCEPT ![e] = "first"]
      /\ sessionsOf' = [sessionsOf EXCEPT !["client"] = @ \cup {s}]
  BY DEF Open, Step
<1>2. /\ copier'[e] = "first" /\ s \in sessionsOf'["client"]
      /\ \A d \in Ends : d # e => copier'[d] = copier[d]
  BY <1>0, <1>1 DEF Types, LinkTypeOK
<1>3. \A d \in Ends : d # e => (d[2] \in sessionsOf'[d[1]]) = (d[2] \in sessionsOf[d[1]])
  BY <1>0, <1>1, EndFacts DEF Types, LinkTypeOK
<1> HIDE DEF e
<1>4. Copying(e)'
  BY <1>0, <1>1, <1>2 DEF Parts, Copying
<1>5. Untouched(e) => input'[e] # "errord"
  BY <1>0, <1>1 DEF Parts, Continues
<1>. QED
  BY <1>0, <1>1, <1>2, <1>3, <1>4, <1>5, BeforeNewHolds DEF e

\* writeFirstPayload
LEMMA FirstHolds ==
  ASSUME LinkInv, Types', NEW s \in Sessions, First(s)
  PROVE  AllParts'
<1> DEFINE e == <<"client", s>>
<1>0. e \in Ends /\ e[1] = "client" /\ e[2] = s /\ Types /\ Parts(e)
  BY InvParts, EndFacts DEF Side
<1>1. /\ UNCHANGED <<carrier, down, sessionsOf, closedOf, output, reader, quit, sent, got>>
      /\ copier[e] = "first"
      /\ \/ /\ input[e] # "errord" /\ item' = [item EXCEPT ![e] = 1]
            /\ copier' = [copier EXCEPT ![e] = "new"] /\ UNCHANGED <<hasError, input>>
         \/ /\ input[e] = "open" /\ copier' = [copier EXCEPT ![e] = "new"]
            /\ UNCHANGED <<item, hasError, input>>
         \/ input[e] # "open" /\ Fail(e) /\ UNCHANGED item
  BY DEF First, Step
<1> HIDE DEF e
<1>2. /\ \A d \in Ends : d # e => /\ input'[d] = input[d] /\ item'[d] = item[d]
                                  /\ hasError'[d] = hasError[d] /\ copier'[d] = copier[d]
      /\ \/ /\ copier'[e] = "new" /\ input'[e] = input[e] /\ hasError'[e] = hasError[e]
            /\ item'[e] = 1 \/ item'[e] = item[e]
         \/ /\ copier'[e] = "end" /\ input[e] # "open" /\ hasError'[e] /\ item'[e] = item[e]
            /\ input'[e] = input[e]
  BY <1>0, <1>1 DEF Fail, Step, InterruptState, Types, LinkTypeOK
<1>3. Copying(e)'
  BY <1>0, <1>1, <1>2 DEF Parts, Copying
<1>4. Untouched(e) => input[e] = "open"
  BY <1>0, EndTypes DEF Parts, Copying, Continues, Untouched
<1>5. Untouched(e) => input'[e] # "errord" /\ copier'[e] # "end"
  BY <1>2, <1>4
<1>6. copier'[e] \in {"new", "end"}
  BY <1>2
<1>. QED
  BY <1>0, <1>1, <1>2, <1>3, <1>5, <1>6, BeforeNewHolds DEF e
-----------------------------------------------------------------------------
(* The steps that put a frame into the carrier. *)

\* The frame that is put next is of the right kind.
LEMMA FramesPut ==
  ASSUME LinkInv, NEW e \in Ends, NEW f \in Frame, f.id = e[2],
         carrier'[Peer(e[1])] = Append(carrier[Peer(e[1])], f), Started(e)' = Started(e),
         reader'[e[1]] = reader[e[1]], copier'[Other(e)] \notin {"none", "first", "new"},
         f.status = "End" => f.data = 0,
         f.status = "Keep" =>
             f.data # 0 /\ (Started(e) \/ \E i \in DOMAIN To(e) :
                                              To(e)[i].id = e[2] /\ To(e)[i].status = "New"),
         f.status = "New" => /\ e[1] = "server" /\ ~Started(e)
                             /\ \A i \in DOMAIN To(e) : To(e)[i].id # e[2]
  PROVE  Frames(e)'
<1> DEFINE c == To(e)
           d == Append(c, f)
           s == e[2]
<1>0. Types /\ Frames(e) /\ c \in Seq(Frame) /\ To(e)' = d
  BY InvParts, EndTypes DEF Parts, To
<1>1. /\ DOMAIN c = 1 .. Len(c) /\ Len(c) \in Nat /\ DOMAIN d = 1 .. Len(c) + 1
      /\ d[Len(c) + 1] = f /\ \A i \in 1 .. Len(c) : d[i] = c[i]
  BY <1>0, Appended
<1> HIDE DEF c, d
<1> SUFFICES ASSUME NEW i \in DOMAIN d, d[i].id = s
             PROVE  /\ d[i].status = "End" => d[i].data = 0
                    /\ d[i].status = "Keep" => d[i].data # 0
                    /\ d[i].status = "New" =>
                           /\ e[1] = "server" /\ ~Started(e)'
                           /\ \A j \in DOMAIN d : d[j].id = s /\ j # i => i < j
                    /\ d[i].status = "Keep" /\ ~Started(e)' /\ reader'[e[1]].at # "done" =>
                           \E j \in DOMAIN d : j < i /\ d[j].id = s /\ d[j].status = "New"
                    /\ copier'[Other(e)] \notin {"none", "first", "new"}
  BY <1>0 DEF Frames
<1>2. CASE i \in 1 .. Len(c)
  <2>1. /\ d[i].status = "End" => d[i].data = 0
        /\ d[i].status = "Keep" => d[i].data # 0
        /\ d[i].status = "New" => e[1] = "server" /\ ~Started(e)'
    BY <1>0, <1>1, <1>2 DEF Frames, c
  <2>2. ASSUME d[i].status = "New", NEW j \in DOMAIN d, d[j].id = s, j # i
        PROVE  i < j
    <3>1. CASE j \in 1 .. Len(c)
      BY <1>0, <1>1, <1>2, <2>2, <3>1 DEF Frames, c
    <3>2. CASE j = Len(c) + 1
      BY <1>1, <1>2, <3>2
    <3>. QED
      BY <1>1, <2>2, <3>1, <3>2
  <2>3. ASSUME d[i].status = "Keep", ~Started(e)', reader'[e[1]].at # "done"
        PROVE  \E j \in DOMAIN d : j < i /\ d[j].id = s /\ d[j].status = "New"
    <3>1. PICK j \in DOMAIN c : j < i /\ c[j].id = s /\ c[j].status = "New"
      BY <1>0, <1>1, <1>2, <2>3 DEF Frames, c
    <3>. QED
      BY <1>1, <3>1
  <2>. QED
    BY <2>1, <2>2, <2>3
<1>3. CASE i = Len(c) + 1
  <2>1. d[i] = f
    BY <1>1, <1>3
  <2>2. ASSUME f.status = "New", NEW j \in DOMAIN d, d[j].id = s, j # i
        PROVE  FALSE
    BY <1>1, <1>3, <2>2 DEF c
  <2>3. ASSUME f.status = "Keep", ~Started(e)'
        PROVE  \E j \in DOMAIN d : j < i /\ d[j].id = s /\ d[j].status = "New"
    <3>1. PICK j \in DOMAIN c : c[j].id = s /\ c[j].status = "New"
      BY <2>3 DEF c
    <3>. QED
      BY <1>1, <1>3, <3>1
  <2>. QED
    BY <2>1, <2>2, <2>3
<1>. QED
  BY <1>1, <1>2, <1>3

\* A payload that is put is the one after the last.
LEMMA FlowPut ==
  ASSUME LinkInv, NEW e \in Ends, NEW f \in Frame, f.id = e[2], ~down,
         carrier'[Peer(e[1])] = Append(carrier[Peer(e[1])], f), output'[e] = output[e],
         reader'[e[1]] = reader[e[1]], got'[e] = got[e],
         \/ f.data = 0 /\ sent'[Other(e)] = sent[Other(e)]
         \/ f.data = sent[Other(e)] + 1 /\ sent'[Other(e)] = f.data
  PROVE  Flow(e)'
<1> DEFINE c == To(e)
           d == Append(c, f)
           s == e[2]
           m == sent[Other(e)]
<1>0. /\ Types /\ Flow(e) /\ c \in Seq(Frame) /\ To(e)' = d /\ m \in Nat /\ Len(got[e]) \in Nat
      /\ \A i \in DOMAIN c : c[i].data \in Nat
  <2>1. Types /\ Flow(e) /\ Other(e) \in Ends
    BY InvParts, EndFacts DEF Parts
  <2>2. m \in Nat
    BY <2>1, EndTypes, MuxLinkAssumption
  <2>. QED
    BY <2>1, <2>2, EndTypes DEF To
<1>1. /\ DOMAIN c = 1 .. Len(c) /\ Len(c) \in Nat /\ DOMAIN d = 1 .. Len(c) + 1
      /\ d[Len(c) + 1] = f /\ \A i \in 1 .. Len(c) : d[i] = c[i]
  BY <1>0, Appended
<1>2. Held(e)' = Held(e)
  BY DEF Held
<1>3. Base(e)' = Base(e) /\ Base(e) \in Nat
  <2>1. CASE Held(e)
    BY <1>0, <1>2, <2>1 DEF Base
  <2>2. CASE ~Held(e)
    BY <1>0, <1>2, <2>2 DEF Base
  <2>. QED
    BY <2>1, <2>2
<1> HIDE DEF c, m
<1> SUFFICES ASSUME output[e] = "open", reader[e[1]].at # "done"
             PROVE  /\ Held(e) => reader'[e[1]].frame.data = Len(got[e]) + 1
                    /\ Contiguous(d, s, Base(e))
                    /\ \A i \in DOMAIN d : d[i].id = s => d[i].data <= sent'[Other(e)]
                    /\ Base(e) <= sent'[Other(e)]
                    /\ \/ sent'[Other(e)] = Base(e)
                       \/ \E i \in DOMAIN d : d[i].id = s /\ d[i].data = sent'[Other(e)]
  BY <1>0, <1>2, <1>3 DEF Flow
<1>4. /\ Held(e) => reader[e[1]].frame.data = Len(got[e]) + 1
      /\ Contiguous(c, s, Base(e))
      /\ \A i \in DOMAIN c : c[i].id = s => c[i].data <= m
      /\ Base(e) <= m
      /\ m = Base(e) \/ \E i \in DOMAIN c : c[i].id = s /\ c[i].data = m
  BY <1>0 DEF Flow, c, m
<1>5. \/ f.data = 0 /\ sent'[Other(e)] = m
      \/ f.data = m + 1 /\ sent'[Other(e)] = m + 1
  BY DEF m
<1>6. Contiguous(d, s, Base(e))
  BY <1>0, <1>3, <1>4, <1>5, ContiguousAppend
<1> HIDE DEF d
<1>7. \A i \in DOMAIN d : d[i].id = s => d[i].data <= sent'[Other(e)]
  BY <1>0, <1>1, <1>4, <1>5
<1>8. \/ sent'[Other(e)] = Base(e)
      \/ \E i \in DOMAIN d : d[i].id = s /\ d[i].data = sent'[Other(e)]
  <2>1. CASE f.data = 0
    <3>1. sent'[Other(e)] = m
      BY <1>0, <1>5, <2>1
    <3>2. ASSUME NEW i \in DOMAIN c, c[i].id = s, c[i].data = m
          PROVE  i \in DOMAIN d /\ d[i].id = s /\ d[i].data = sent'[Other(e)]
      BY <1>1, <3>1, <3>2
    <3>. QED
      BY <1>4, <3>1, <3>2
  <2>2. CASE f.data # 0
    BY <1>1, <1>5, <2>2
  <2>. QED
    BY <2>1, <2>2
<1>9. Base(e) <= sent'[Other(e)]
  BY <1>0, <1>3, <1>4, <1>5
<1>. QED
  BY <1>4, <1>6, <1>7, <1>8, <1>9

\* What Put does when the carrier is up.
LEMMA PutUp ==
  ASSUME Types, NEW e \in Ends, NEW f \in Frame, Put(e[1], f), ~down
  PROVE  /\ carrier'[e[1]] = Append(carrier[e[1]], f)
         /\ carrier'[Peer(e[1])] = carrier[Peer(e[1])]
         /\ \A x \in Side : x # e[1] => carrier'[x] = carrier[x]
BY EndFacts DEF Put, Types, LinkTypeOK

\* A copier that fails on a broken carrier writes nothing.
LEMMA SendFails ==
  ASSUME LinkInv, Types', NEW e \in Ends, Send(e), down
  PROVE  AllParts'
<1> DEFINE o == Other(e)
<1>0. /\ Types /\ Parts(e) /\ Parts(o) /\ o \in Ends /\ o # e /\ Other(o) = e
  BY InvParts, EndFacts
<1>1. /\ UNCHANGED <<carrier, down, sessionsOf, closedOf, output, reader, quit, sent, got>>
      /\ copier[e] \in {"new", "keep"} /\ item' = [item EXCEPT ![e] = 0] /\ Fail(e)
  BY DEF Send, Put
<1>2. /\ copier'[e] = "end" /\ item'[e] = 0 /\ hasError'[e]
      /\ input'[e] = input[e] \/ (input[e] = "open" /\ input'[e] = "errord")
      /\ \A d \in Ends : d # e => /\ input'[d] = input[d] /\ item'[d] = item[d]
                                  /\ hasError'[d] = hasError[d] /\ copier'[d] = copier[d]
  BY <1>0, <1>1 DEF Fail, Step, InterruptState, Types, LinkTypeOK
<1> HIDE DEF o
<1>3. \A d \in Ends : Started(d)' = Started(d)
  BY <1>1, <1>2 DEF Started
<1>4. Parts(e)'
  <2>1. Copying(e)'
    BY <1>0, <1>1, <1>2 DEF Parts, Copying
  <2>2. Tables(e)' /\ Frames(e)' /\ Flow(e)' /\ Whole(e)'
    BY <1>0, <1>1, <1>2, <1>3, Kept DEF o
  <2>. QED
    BY <1>1, <2>1, <2>2, DownHolds DEF Parts
<1>5. Parts(o)'
  <2>1. Copying(o)' /\ Tables(o)' /\ Frames(o)' /\ Flow(o)' /\ Whole(o)'
    BY <1>0, <1>1, <1>2, <1>3, Kept
  <2>. QED
    BY <1>0, <1>1, <2>1, DownHolds DEF Parts
<1>6. Within(e[2])
  BY <1>1, <1>2 DEF Within
<1>7. \A x \in Side : Holding(x)'
  BY <1>1, <1>3, HoldingKept
<1>. QED
  BY <1>4, <1>5, <1>6, <1>7, SessionStep DEF AllParts, o

\* The frame that a copier writes is the next one, and follows a New.
LEMMA SendHolds ==
  ASSUME LinkInv, Types', NEW e \in Ends, Send(e), ~down
  PROVE  AllParts'
<1> DEFINE o == Other(e)
           f == [id |-> e[2], status |-> IF copier[e] = "new" THEN "New" ELSE "Keep",
                 data |-> item[e], error |-> FALSE]
<1>0. /\ Types /\ Parts(e) /\ Parts(o) /\ o \in Ends /\ o # e /\ Other(o) = e
      /\ e[1] \in Side /\ o[1] = Peer(e[1]) /\ Peer(o[1]) = e[1] /\ o[2] = e[2] /\ o[1] # e[1]
      /\ o[1] \in Side
  BY InvParts, EndFacts
<1>1. /\ f \in Frame /\ f.id = e[2] /\ f.data = item[e]
      /\ f.status = IF copier[e] = "new" THEN "New" ELSE "Keep"
  BY <1>0, EndTypes, EndFacts DEF Frame
<1>2. /\ UNCHANGED <<down, sessionsOf, closedOf, output, reader, quit, got, hasError, input>>
      /\ copier[e] \in {"new", "keep"} /\ Put(e[1], f)
      /\ item' = [item EXCEPT ![e] = 0] /\ copier' = [copier EXCEPT ![e] = "copy"]
      /\ sent' = [sent EXCEPT ![e] = IF item[e] = 0 THEN @ ELSE item[e]]
  BY DEF Send, Step
<1> HIDE DEF f
<1>3. /\ carrier'[e[1]] = Append(carrier[e[1]], f)
      /\ carrier'[o[1]] = carrier[o[1]]
      /\ \A x \in Side : x # e[1] => carrier'[x] = carrier[x]
  BY <1>0, <1>1, <1>2, PutUp
<1>4. /\ copier'[e] = "copy" /\ item'[e] = 0
      /\ sent'[e] = IF item[e] = 0 THEN sent[e] ELSE item[e]
      /\ \A d \in Ends : d # e => /\ sent'[d] = sent[d] /\ item'[d] = item[d]
                                  /\ copier'[d] = copier[d]
  BY <1>0, <1>2 DEF Types, LinkTypeOK
<1>5. /\ item[e] # 0 => item[e] = sent[e] + 1
      /\ copier[e] = "keep" => item[e] # 0
      /\ copier[e] = "new" => e[1] = "client"
  BY <1>0, EndFacts DEF Parts, Copying, Side
<1>6. copier[e] = "new" => /\ copier[o] = "none"
                           /\ \A i \in DOMAIN To(o) : To(o)[i].id # e[2]
                           /\ output[e] # "closed"
  <2> SUFFICES ASSUME copier[e] = "new"
               PROVE  /\ copier[o] = "none"
                      /\ \A i \in DOMAIN To(o) : To(o)[i].id # e[2]
                      /\ output[e] # "closed"
    OBVIOUS
  <2>1. e = <<"client", e[2]>> /\ o = <<"server", e[2]>> /\ e[2] \in Sessions
    BY <1>5, EndFacts DEF Other, Peer
  <2>. QED
    BY <1>0, <2>1, BeforeNew DEF To
<1> HIDE DEF o
<1>7. \A d \in Ends : Started(d)' = Started(d)
  BY <1>2, <1>4 DEF Started
<1>8. Parts(e)'
  <2>1. Copying(e)'
    BY <1>0, <1>2, <1>4 DEF Parts, Copying
  <2>2. Tables(e)' /\ Frames(e)' /\ NewSent(e)' /\ Flow(e)' /\ Whole(e)'
    BY <1>0, <1>2, <1>3, <1>4, <1>7, Kept DEF o
  <2>3. Untouched(e)' = Untouched(e)
    BY <1>2 DEF Untouched
  <2>4. Continues(e)'
    <3> SUFFICES ASSUME Untouched(e)
                 PROVE  /\ copier'[e] \notin {"end", "close", "done"} /\ input'[e] # "errord"
                        /\ \A i \in DOMAIN carrier'[e[1]] :
                               ~(carrier'[e[1]][i].id = e[2] /\ carrier'[e[1]][i].status = "End")
      BY <2>3 DEF Continues
    <3>1. /\ input[e] # "errord"
          /\ \A i \in DOMAIN carrier[e[1]] :
                 ~(carrier[e[1]][i].id = e[2] /\ carrier[e[1]][i].status = "End")
      BY <1>0 DEF Parts, Continues
    <3>2. carrier[e[1]] \in Seq(Frame) /\ f.status # "End"
      BY <1>0, <1>1, EndTypes
    <3>. QED
      BY <1>1, <1>2, <1>3, <1>4, <3>1, <3>2, Appended
  <2>5. Ending(e)'
    BY <1>0, <1>2, <1>3, <1>4, <1>7, <2>3, Kept DEF o
  <2>. QED
    BY <2>1, <2>2, <2>4, <2>5 DEF Parts
<1>9. Parts(o)'
  <2>1. /\ To(o) = carrier[e[1]] /\ To(o)' = Append(To(o), f) /\ To(o) \in Seq(Frame)
        /\ DOMAIN To(o) = 1 .. Len(To(o)) /\ Len(To(o)) \in Nat
    BY <1>0, <1>3, EndTypes DEF To
  <2>2. /\ DOMAIN To(o)' = 1 .. Len(To(o)) + 1 /\ To(o)'[Len(To(o)) + 1] = f
        /\ \A i \in 1 .. Len(To(o)) : To(o)'[i] = To(o)[i]
    BY <1>1, <2>1, Appended
  <2>3. copier[e] = "keep" => Started(o) \/ \E i \in DOMAIN To(o) :
                                               To(o)[i].id = o[2] /\ To(o)[i].status = "New"
    <3>1. CASE o[1] = "server"
      BY <1>0, <3>1 DEF Parts, NewSent
    <3>2. CASE o[1] = "client"
      <4>1. e = <<"server", e[2]>> /\ o = <<"client", e[2]>>
        BY <1>0, <3>2, EndFacts DEF Peer
      <4>. QED
        BY <1>0, <4>1 DEF Parts, Tables, Started
    <3>. QED
      BY <1>0, <3>1, <3>2 DEF Side
  <2>4. Copying(o)' /\ Tables(o)'
    BY <1>0, <1>2, <1>4, <1>7, Kept
  <2>5. Frames(o)'
    <3>1. f.status = "New" => /\ o[1] = "server" /\ ~Started(o)
                              /\ \A i \in DOMAIN To(o) : To(o)[i].id # o[2]
      BY <1>0, <1>1, <1>5, <1>6, EndFacts DEF Started, Peer
    <3>2. f.status # "End" /\ (f.status = "Keep" => copier[e] = "keep" /\ f.data # 0)
      BY <1>1, <1>2, <1>5
    <3>3. copier'[Other(o)] \notin {"none", "first", "new"}
      BY <1>0, <1>4
    <3>. QED
      BY <1>0, <1>1, <1>2, <1>3, <1>7, <2>3, <3>1, <3>2, <3>3, FramesPut
  <2>6. NewSent(o)'
    <3> SUFFICES ASSUME o[1] = "server", ~Started(o)
                 PROVE  \E i \in DOMAIN To(o)' : To(o)'[i].id = o[2] /\ To(o)'[i].status = "New"
      BY <1>7, <1>0 DEF NewSent
    <3>1. CASE copier[e] = "new"
      <4>1. Len(To(o)) + 1 \in DOMAIN To(o)' /\ f.status = "New" /\ f.id = o[2]
        BY <1>0, <1>1, <2>1, <2>2, <3>1
      <4>. QED
        BY <2>2, <4>1
    <3>2. CASE copier[e] = "keep"
      <4>1. PICK i \in DOMAIN To(o) : To(o)[i].id = o[2] /\ To(o)[i].status = "New"
        BY <2>3, <3>2
      <4>2. i \in DOMAIN To(o)' /\ To(o)'[i] = To(o)[i]
        BY <2>1, <2>2
      <4>. QED
        BY <4>1, <4>2
    <3>. QED
      BY <1>2, <3>1, <3>2
  <2>7. Flow(o)'
    <3>1. \/ f.data = 0 /\ sent'[Other(o)] = sent[Other(o)]
          \/ f.data = sent[Other(o)] + 1 /\ sent'[Other(o)] = f.data
      BY <1>0, <1>1, <1>4, <1>5
    <3>. QED
      BY <1>0, <1>1, <1>2, <1>3, <3>1, FlowPut
  <2>8. Untouched(o)' = Untouched(o)
    BY <1>2 DEF Untouched
  <2>9. Continues(o)'
    BY <1>0, <1>2, <1>3, <1>4, <2>8, Kept DEF Parts, Continues
  <2>10. Ending(o)'
    <3> SUFFICES ASSUME Untouched(o), Live(o)'
                 PROVE  /\ output[e] # "closed"
                        /\ output[e] # "errord" => \A i \in DOMAIN To(o)' : ~EndAt(o, i)'
      BY <1>0, <1>2, <1>4, <2>8 DEF Ending
    <3>1. ASSUME NEW i \in DOMAIN To(o)', EndAt(o, i)'
          PROVE  copier[e] = "keep" /\ i \in DOMAIN To(o) /\ EndAt(o, i)
      <4>1. i # Len(To(o)) + 1
        BY <1>1, <2>2, <3>1 DEF EndAt
      <4>2. i \in DOMAIN To(o) /\ To(o)'[i] = To(o)[i]
        BY <2>1, <2>2, <4>1
      <4>3. EndAt(o, i)
        BY <3>1, <4>2 DEF EndAt
      <4>. QED
        BY <1>0, <1>2, <1>6, <4>2, <4>3 DEF EndAt
    <3>2. CASE copier[e] = "new"
      BY <1>6, <3>1, <3>2
    <3>3. CASE copier[e] = "keep"
      <4>1. Live(o)
        BY <2>3, <3>3 DEF Live
      <4>. QED
        BY <1>0, <3>1, <3>3, <4>1 DEF Parts, Ending
    <3>. QED
      BY <1>2, <3>2, <3>3
  <2>11. Whole(o)'
    <3>1. Len(got[o]) <= sent[e] /\ sent[e] \in Nat /\ Len(got[o]) \in Nat
      BY <1>0, EndTypes, MuxLinkAssumption DEF Parts, Whole
    <3>2. Len(got[o]) <= sent'[e]
      BY <1>4, <1>5, <3>1
    <3>3. ~(output[o] = "closed" /\ ~down /\ quit[o] = "no" /\ output[e] # "errord")
      BY <1>0, <1>2 DEF Parts, Whole
    <3>. QED
      BY <1>0, <1>2, <3>2, <3>3 DEF Parts, Whole
  <2>. QED
    BY <2>4, <2>5, <2>6, <2>7, <2>9, <2>10, <2>11 DEF Parts
<1>10. Within(e[2])
  <2>1. \A x \in Side : \/ carrier'[x] = carrier[x]
                        \/ \E g \in Frame : g.id = e[2] /\ carrier'[x] = Append(carrier[x], g)
    BY <1>1, <1>3
  <2>. QED
    BY <1>2, <1>4, <2>1 DEF Within
<1>11. \A x \in Side : Holding(x)'
  BY <1>2, <1>7, HoldingKept
<1>. QED
  BY <1>8, <1>9, <1>10, <1>11, SessionStep DEF AllParts, o

\* An End may be added to the frames for an end that nobody has ended, when it is the first
\* and says the truth, or when another one is before it.
LEMMA EndPut ==
  ASSUME LinkInv, NEW e \in Ends, NEW f \in Frame, f.id = e[2], f.status = "End", f.data = 0,
         carrier'[Peer(e[1])] = Append(carrier[Peer(e[1])], f),
         Started(e)' = Started(e), UNCHANGED <<down, output, quit>>,
         Untouched(e) /\ Live(e) =>
             /\ output[Other(e)] = "closed" => copier'[Other(e)] = "done"
             /\ copier[Other(e)] \in {"close", "done"} => copier'[Other(e)] \in {"close", "done"}
             /\ output[Other(e)] # "errord" =>
                  /\ copier'[Other(e)] \in {"close", "done"}
                  /\ \/ \E i \in DOMAIN To(e) : EndAt(e, i)
                     \/ ~f.error => quit[Other(e)] = "eof"
  PROVE  Ending(e)'
<1> DEFINE c == To(e)
           d == Append(c, f)
           o == Other(e)
<1>0. Types /\ Parts(e) /\ c \in Seq(Frame) /\ To(e)' = d
  BY InvParts, EndTypes DEF To
<1>1. /\ DOMAIN c = 1 .. Len(c) /\ Len(c) \in Nat /\ DOMAIN d = 1 .. Len(c) + 1
      /\ d[Len(c) + 1] = f /\ \A i \in 1 .. Len(c) : d[i] = c[i]
  BY <1>0, Appended
<1> HIDE DEF d
<1>n. PICK n : n = Len(c) + 1
  OBVIOUS
<1>2. Live(e)' => Live(e)
  <2>1. ASSUME NEW i \in DOMAIN d, d[i].id = e[2], d[i].status = "New" PROVE Live(e)
    <3>1. i \in 1 .. Len(c)
      BY <1>1, <2>1
    <3>. QED
      BY <1>1, <2>1, <3>1 DEF Live
  <2>. QED
    BY <1>0, <2>1 DEF Live
<1>3. /\ \A i \in 1 .. Len(c) : EndAt(e, i)' = EndAt(e, i)
      /\ EndAt(e, n)' /\ n \in DOMAIN d
      /\ \A i \in DOMAIN d : i \in 1 .. Len(c) \/ i = Len(c) + 1
  <2>1. \A i \in 1 .. Len(c) : EndAt(e, i)' = EndAt(e, i)
    BY <1>0, <1>1 DEF EndAt
  <2>2. n \in DOMAIN d /\ d[n] = f
    BY <1>1, <1>n
  <2>3. EndAt(e, n)'
    BY <1>0, <2>2 DEF EndAt
  <2>. QED
    BY <1>1, <2>1, <2>2, <2>3
<1> HIDE DEF c
<1>4. Untouched(e)' = Untouched(e)
  BY DEF Untouched
<1> SUFFICES ASSUME Untouched(e), Live(e)
             PROVE  /\ output[o] = "closed" => copier'[o] = "done"
                    /\ \E i \in DOMAIN d : EndAt(e, i)'
                    /\ output[o] # "errord" =>
                          \A i \in DOMAIN d : EndAt(e, i)' =>
                              /\ copier'[o] \in {"close", "done"}
                              /\ \A j \in DOMAIN d : i < j /\ d[j].id = e[2] => d[j].data = 0
                              /\ (\A j \in DOMAIN d : j < i => ~EndAt(e, j)') /\ ~d[i].error =>
                                     quit[o] = "eof"
  BY <1>0, <1>2, <1>4 DEF Ending
<1>5. \E i \in DOMAIN d : EndAt(e, i)'
  BY <1>3
<1>6. ASSUME output[o] # "errord", NEW i \in DOMAIN d, EndAt(e, i)'
      PROVE  /\ \A j \in DOMAIN d : i < j /\ d[j].id = e[2] => d[j].data = 0
             /\ (\A j \in DOMAIN d : j < i => ~EndAt(e, j)') /\ ~d[i].error => quit[o] = "eof"
  <2>1. CASE i \in 1 .. Len(c)
    <3>1. /\ EndAt(e, i) /\ i \in DOMAIN c
          /\ \A j \in DOMAIN c : i < j /\ c[j].id = e[2] => c[j].data = 0
          /\ (\A j \in DOMAIN c : j < i => ~EndAt(e, j)) /\ ~c[i].error => quit[o] = "eof"
      BY <1>0, <1>1, <1>3, <1>6, <2>1 DEF Parts, Ending, c
    <3>2. \A j \in DOMAIN d : i < j /\ d[j].id = e[2] => d[j].data = 0
      BY <1>1, <1>3, <3>1
    <3>3. ASSUME \A j \in DOMAIN d : j < i => ~EndAt(e, j)', ~d[i].error PROVE quit[o] = "eof"
      BY <1>1, <1>3, <2>1, <3>1, <3>3
    <3>. QED
      BY <3>2, <3>3
  <2>2. CASE i = Len(c) + 1
    <3>1. \A j \in DOMAIN d : ~(i < j)
      BY <1>1, <2>2
    <3>2. ASSUME \A j \in DOMAIN d : j < i => ~EndAt(e, j)', ~d[i].error PROVE quit[o] = "eof"
      <4>1. ~\E j \in DOMAIN To(e) : EndAt(e, j)
        BY <1>1, <1>3, <2>2, <3>2 DEF c
      <4>. QED
        BY <1>1, <1>6, <2>2, <3>2, <4>1
    <3>. QED
      BY <3>1, <3>2
  <2>. QED
    BY <1>3, <2>1, <2>2
<1>. QED
  BY <1>5, <1>6

\* Writer.Close: the End of a copier is the first that an untouched peer gets.
LEMMA SendEndHolds ==
  ASSUME LinkInv, Types', NEW e \in Ends, SendEnd(e)
  PROVE  AllParts'
<1> DEFINE o == Other(e)
           f == [id |-> e[2], status |-> "End", data |-> 0, error |-> hasError[e]]
<1>0. /\ Types /\ Parts(e) /\ Parts(o) /\ o \in Ends /\ o # e /\ Other(o) = e
      /\ e[1] \in Side /\ o[1] = Peer(e[1]) /\ Peer(o[1]) = e[1] /\ o[2] = e[2] /\ o[1] # e[1]
      /\ o[1] \in Side
  BY InvParts, EndFacts
<1>1. /\ f \in Frame /\ f.id = e[2] /\ f.data = 0 /\ f.status = "End" /\ f.error = hasError[e]
  BY <1>0, EndTypes, EndFacts, MuxLinkAssumption DEF Frame
<1>2. /\ UNCHANGED <<down, sessionsOf, closedOf, input, output, item, reader, quit, sent, got>>
      /\ copier[e] = "end" /\ Put(e[1], f)
      /\ hasError' = [hasError EXCEPT ![e] = FALSE] /\ copier' = [copier EXCEPT ![e] = "close"]
  BY DEF SendEnd, Step
<1> HIDE DEF f
<1>3. /\ ~down => carrier'[e[1]] = Append(carrier[e[1]], f)
      /\ down => carrier' = carrier
      /\ carrier'[o[1]] = carrier[o[1]]
      /\ \A x \in Side : x # e[1] => carrier'[x] = carrier[x]
  BY <1>0, <1>1, <1>2, PutUp DEF Put
<1>4. /\ copier'[e] = "close" /\ hasError'[e] = FALSE
      /\ \A d \in Ends : d # e => hasError'[d] = hasError[d] /\ copier'[d] = copier[d]
  BY <1>0, <1>2 DEF Types, LinkTypeOK
<1> HIDE DEF o
<1>5. \A d \in Ends : Started(d)' = Started(d)
  BY <1>2, <1>4 DEF Started
<1>6. \A d \in Ends : Untouched(d)' = Untouched(d)
  BY <1>2 DEF Untouched
<1>7. Parts(e)'
  <2>1. Copying(e)'
    BY <1>0, <1>2, <1>4 DEF Parts, Copying
  <2>2. Tables(e)' /\ Frames(e)' /\ NewSent(e)' /\ Flow(e)' /\ Whole(e)'
    BY <1>0, <1>2, <1>3, <1>4, <1>5, Kept DEF o
  <2>3. Continues(e)'
    BY <1>0, <1>2, <1>6 DEF Parts, Continues
  <2>4. Ending(e)'
    BY <1>0, <1>2, <1>3, <1>4, <1>5, <1>6, Kept DEF o
  <2>. QED
    BY <2>1, <2>2, <2>3, <2>4 DEF Parts
<1>8. Parts(o)'
  <2>1. Copying(o)' /\ Tables(o)' /\ Whole(o)'
    BY <1>0, <1>2, <1>4, <1>5, Kept
  <2>2. Continues(o)'
    BY <1>0, <1>2, <1>3, <1>4, <1>6, Kept DEF Parts, Continues
  <2>3. CASE down
    <3>1. Frames(o)' /\ Flow(o)'
      BY <1>0, <1>2, <1>3, <1>4, <1>5, <2>3, Kept
    <3>. QED
      BY <1>0, <1>2, <2>1, <2>3, <3>1, DownHolds DEF Parts
  <2>4. CASE ~down
    <3>1. carrier'[Peer(o[1])] = Append(carrier[Peer(o[1])], f)
      BY <1>0, <1>3, <2>4
    <3>2. Frames(o)'
      BY <1>0, <1>1, <1>2, <1>4, <1>5, <3>1, FramesPut
    <3>3. NewSent(o)'
      BY <1>0, <1>4 DEF NewSent
    <3>4. Flow(o)'
      BY <1>0, <1>1, <1>2, <2>4, <3>1, FlowPut
    <3>5. Untouched(o) /\ Live(o) => output[e] # "closed"
      BY <1>0, <1>2 DEF Parts, Ending
    <3>6. ~f.error => quit[e] = "eof"
      BY <1>0, <1>1, <1>2 DEF Parts, Copying
    <3>7. Ending(o)'
      BY <1>0, <1>1, <1>2, <1>4, <1>5, <3>1, <3>5, <3>6, EndPut
    <3>. QED
      BY <2>1, <2>2, <3>2, <3>3, <3>4, <3>7 DEF Parts
  <2>. QED
    BY <2>3, <2>4
<1>9. Within(e[2])
  <2>1. \A x \in Side : \/ carrier'[x] = carrier[x]
                        \/ \E g \in Frame : g.id = e[2] /\ carrier'[x] = Append(carrier[x], g)
    BY <1>1, <1>3
  <2>. QED
    BY <1>2, <1>4, <2>1 DEF Within
<1>10. \A x \in Side : Holding(x)'
  BY <1>2, <1>5, HoldingKept
<1>. QED
  BY <1>7, <1>8, <1>9, <1>10, SessionStep DEF AllParts, o

\* The other reader is told of a session that is closed here: an untouched peer has got
\* the End of the copier before.
LEMMA NotifyHolds ==
  ASSUME LinkInv, Types', NEW x \in Side, Notify(x), NEW g, g = reader[x].frame,
         NEW e, e = <<x, g.id>>
  PROVE  AllParts'
<1> DEFINE o == Other(e)
           f == [id |-> g.id, status |-> "End", data |-> 0, error |-> FALSE]
<1>0. /\ Types /\ Holding(x) /\ reader[x].at \in {"notify", "refuse"}
  BY InvParts DEF Notify
<1>1. g \in Frame /\ g.id \in Sessions /\ e \in Ends
  BY <1>0, HeldFrame
<1>2. /\ Parts(e) /\ Parts(o) /\ o \in Ends /\ o # e /\ Other(o) = e
      /\ e[1] = x /\ o[1] = Peer(e[1]) /\ Peer(o[1]) = e[1] /\ o[2] = e[2] /\ o[1] # e[1]
      /\ o[1] \in Side /\ e[2] = g.id
  BY <1>1, InvParts, EndFacts
<1>3. f \in Frame /\ f.id = e[2] /\ f.data = 0 /\ f.status = "End"
  BY <1>1, <1>2, MuxLinkAssumption DEF Frame
<1>4. Started(e) /\ Started(o) /\ output[e] # "open"
  BY <1>0 DEF Holding
<1>5. /\ UNCHANGED <<down, sessionsOf, closedOf, input, output, copier, item, hasError, quit,
                     sent, got>>
      /\ Put(e[1], f)
      /\ reader' = [reader EXCEPT ![x] = IF reader[x].at = "notify" THEN idle ELSE At("drop", g)]
  BY <1>2 DEF Notify, ReaderGoto
<1> HIDE DEF f
<1>6. /\ ~down => carrier'[e[1]] = Append(carrier[e[1]], f)
      /\ down => carrier' = carrier
      /\ carrier'[o[1]] = carrier[o[1]]
      /\ \A y \in Side : y # e[1] => carrier'[y] = carrier[y]
  BY <1>0, <1>1, <1>2, <1>3, <1>5, PutUp DEF Put
<1>7. /\ reader'[x] = idle \/ reader'[x] = At("drop", g)
      /\ \A y \in Side : y # x => reader'[y] = reader[y]
  BY <1>0, <1>5 DEF Types
<1>8. copier[e] \notin {"none", "first", "new"}
  <2>1. CASE x = "server"
    BY <1>2, <1>4, <2>1 DEF Parts, Copying, Started
  <2>2. CASE x = "client"
    <3>1. o = <<"server", e[2]>> /\ e = <<"client", e[2]>>
      BY <1>2, <2>2 DEF Other, Peer
    <3>. QED
      BY <1>2, <1>4, <3>1 DEF Parts, Tables
  <2>. QED
    BY <2>1, <2>2 DEF Side
<1> HIDE DEF o
<1>9. /\ \A d \in Ends : Started(d)' = Started(d)
      /\ \A d \in Ends : Untouched(d)' = Untouched(d)
  BY <1>5 DEF Started, Untouched
<1>10. reader[x].at # "done" /\ reader'[o[1]] = reader[o[1]]
  BY <1>0, <1>2, <1>7
<1>11. Parts(e)'
  <2>1. Copying(e)' /\ Tables(e)' /\ Frames(e)' /\ NewSent(e)' /\ Whole(e)'
    BY <1>1, <1>2, <1>5, <1>6, <1>9, <1>10, Kept DEF o
  <2>2. Flow(e)' /\ Continues(e)' /\ Ending(e)'
    BY <1>4, <1>5 DEF Flow, Continues, Ending, Untouched
  <2>. QED
    BY <2>1, <2>2 DEF Parts
<1>12. Parts(o)'
  <2>1. Copying(o)' /\ Tables(o)' /\ Whole(o)'
    BY <1>1, <1>2, <1>5, <1>9, Kept
  <2>2. Continues(o)'
    BY <1>2, <1>5, <1>6, <1>9, Kept DEF Parts, Continues
  <2>3. CASE down
    <3>1. Frames(o)' /\ Flow(o)'
      BY <1>2, <1>5, <1>6, <1>9, <1>10, <2>3, Kept
    <3>. QED
      BY <1>2, <1>5, <2>1, <2>3, <3>1, DownHolds DEF Parts
  <2>4. CASE ~down
    <3>1. carrier'[Peer(o[1])] = Append(carrier[Peer(o[1])], f)
      BY <1>2, <1>6, <2>4
    <3>2. Frames(o)'
      BY <1>2, <1>3, <1>5, <1>8, <1>9, <1>10, <3>1, FramesPut
    <3>3. NewSent(o)'
      BY <1>4, <1>2, <1>9 DEF NewSent
    <3>4. Flow(o)'
      BY <1>2, <1>3, <1>5, <1>10, <2>4, <3>1, FlowPut
    <3>5. Untouched(o) /\ Live(o) =>
             /\ output[e] = "closed" => copier[e] = "done"
             /\ output[e] # "errord" => /\ copier[e] = "done"
                                        /\ \E i \in DOMAIN To(o) : EndAt(o, i)
      BY <1>0, <1>1, <1>2, <1>4, EndTypes DEF Parts, Ending
    <3>6. Ending(o)'
      BY <1>2, <1>3, <1>5, <1>9, <3>1, <3>5, EndPut
    <3>. QED
      BY <2>1, <2>2, <3>2, <3>3, <3>4, <3>6 DEF Parts
  <2>. QED
    BY <2>3, <2>4
<1>13. Within(e[2])
  <2>1. \A y \in Side : \/ carrier'[y] = carrier[y]
                        \/ \E h \in Frame : h.id = e[2] /\ carrier'[y] = Append(carrier[y], h)
    BY <1>2, <1>3, <1>6
  <2>2. \A y \in Side :
          \/ reader'[y] = reader[y]
          \/ /\ reader[y].at # "done" /\ reader[y].frame.id = e[2]
             /\ reader'[y] = idle \/ (reader'[y].at # "done" /\ reader'[y].frame.id = e[2])
    BY <1>0, <1>2, <1>7 DEF At
  <2>. QED
    BY <1>5, <2>1, <2>2 DEF Within
<1>14. \A y \in Side : Holding(y)'
  <2>1. ASSUME NEW y \in Side, y # x PROVE Holding(y)'
    BY <1>5, <1>7, <1>9, <2>1, HoldingKept
  <2>2. ASSUME reader'[x] = idle PROVE Holding(x)'
    BY <2>2 DEF Holding, idle
  <2>3. ASSUME reader'[x] = At("drop", g) PROVE Holding(x)'
    <3>1. reader'[x].at = "drop" /\ reader'[x].frame = g
      BY <2>3 DEF At
    <3>2. Started(e)' /\ Started(Other(e))' /\ output'[e] # "open"
      BY <1>1, <1>2, <1>4, <1>5, <1>9 DEF o
    <3>. QED
      BY <3>1, <3>2 DEF Holding
  <2>. QED
    BY <1>7, <2>1, <2>2, <2>3
<1>. QED
  BY <1>1, <1>11, <1>12, <1>13, <1>14, SessionStep DEF AllParts, o
-----------------------------------------------------------------------------
(* The steps of a reader with a frame in its hands. *)

\* A payload is written to an open output: it is the next one.
LEMMA DeliverHolds ==
  ASSUME LinkInv, Types', NEW x \in Side, Deliver(x), NEW g, g = reader[x].frame,
         NEW e, e = <<x, g.id>>, output[e] = "open"
  PROVE  AllParts'
<1> DEFINE o == Other(e)
<1>0. /\ Types /\ Holding(x) /\ reader[x].at \in {"first", "write"}
  BY InvParts DEF Deliver
<1>1. g \in Frame /\ g.id \in Sessions /\ e \in Ends
  BY <1>0, HeldFrame
<1>2. /\ Parts(e) /\ Parts(o) /\ o \in Ends /\ o # e /\ Other(o) = e
      /\ e[1] = x /\ o[1] # x /\ o[1] \in Side /\ e[2] = g.id /\ o[2] = g.id
  BY <1>1, InvParts, EndFacts
<1>3. /\ UNCHANGED <<carrier, down, sessionsOf, closedOf, input, output, copier, item, hasError,
                     quit, sent>>
      /\ got' = [got EXCEPT ![e] = Append(@, g.data)] /\ reader' = [reader EXCEPT ![x] = idle]
  BY DEF Deliver, ReaderGoto
<1>4. /\ reader'[x] = idle /\ \A y \in Side : y # x => reader'[y] = reader[y]
      /\ \A y \in Side :
           \/ reader'[y] = reader[y]
           \/ /\ reader[y].at # "done" /\ reader[y].frame.id = g.id
              /\ reader'[y] = idle \/ (reader'[y].at # "done" /\ reader'[y].frame.id = g.id)
  <2>1. reader'[x] = idle /\ \A y \in Side : y # x => reader'[y] = reader[y]
    BY <1>0, <1>3 DEF Types
  <2>. QED
    BY <1>0, <2>1
<1>5. /\ got'[e] = Append(got[e], g.data) /\ \A d \in Ends : d # e => got'[d] = got[d]
      /\ got[e] \in Seq(1 .. MaxItems) /\ Len(got[e]) \in Nat
      /\ Len(got'[e]) = Len(got[e]) + 1 /\ DOMAIN got'[e] = 1 .. Len(got[e]) + 1
      /\ got'[e][Len(got[e]) + 1] = g.data
      /\ \A i \in 1 .. Len(got[e]) : got'[e][i] = got[e][i]
  <2>1. got'[e] = Append(got[e], g.data) /\ \A d \in Ends : d # e => got'[d] = got[d]
    BY <1>0, <1>1, <1>3 DEF Types, LinkTypeOK
  <2>2. got[e] \in Seq(1 .. MaxItems) /\ g.data \in 0 .. MaxItems
    BY <1>0, <1>1, EndTypes DEF Frame
  <2>. QED
    BY <2>1, <2>2
<1>6. Held(e) /\ ~Held(e)'
  BY <1>0, <1>2, <1>4 DEF Held, idle
<1>7. Base(e) = Len(got[e]) + 1 /\ Base(e)' = Len(got[e]) + 1
  BY <1>5, <1>6 DEF Base
<1>8. /\ g.data = Len(got[e]) + 1 /\ Base(e) <= sent[o]
  BY <1>0, <1>2, <1>6 DEF Parts, Flow
<1>o. Other(e) = o
  OBVIOUS
<1> HIDE DEF o
<1>9. /\ \A d \in Ends : Started(d)' = Started(d)
      /\ \A d \in Ends : Untouched(d)' = Untouched(d)
  BY <1>3 DEF Started, Untouched
<1>10. Parts(e)'
  <2>1. Copying(e)' /\ Tables(e)' /\ Frames(e)' /\ NewSent(e)'
    BY <1>o, <1>0, <1>1, <1>2, <1>3, <1>9, Kept
  <2>2. Continues(e)' /\ Ending(e)'
    BY <1>o, <1>1, <1>2, <1>3, <1>9, Kept DEF Parts, Continues
  <2>3. Flow(e)'
    <3>1. To(e)' = To(e) /\ Base(e)' = Base(e)
      BY <1>3, <1>7 DEF To
    <3>. QED
      BY <1>o, <1>0, <1>2, <1>3, <1>6, <3>1 DEF Parts, Flow
  <2>4. Whole(e)'
    <3>1. \A i \in DOMAIN got'[e] : got'[e][i] = i
      <4>1. \A i \in 1 .. Len(got[e]) : got[e][i] = i
        <5>1. DOMAIN got[e] = 1 .. Len(got[e])
          BY <1>0, <1>1, EndTypes
        <5>. QED
          BY <1>2, <5>1 DEF Parts, Whole
      <4>2. ASSUME NEW i \in 1 .. Len(got[e]) + 1 PROVE got'[e][i] = i
        <5>1. i \in 1 .. Len(got[e]) \/ i = Len(got[e]) + 1
          BY <1>5
        <5>2. CASE i \in 1 .. Len(got[e])
          BY <1>5, <4>1, <5>2
        <5>3. CASE i = Len(got[e]) + 1
          BY <1>5, <1>8, <5>3
        <5>. QED
          BY <5>1, <5>2, <5>3
      <4>. QED
        BY <1>5, <4>2
    <3>2. Len(got'[e]) <= sent'[o]
      BY <1>3, <1>5, <1>7, <1>8
    <3>. QED
      BY <1>o, <1>3, <3>1, <3>2 DEF Whole
  <2>. QED
    BY <2>1, <2>2, <2>3, <2>4 DEF Parts
<1>11. Parts(o)'
  <2>1. reader'[o[1]] = reader[o[1]] /\ got'[o] = got[o]
    BY <1>2, <1>4, <1>5
  <2>2. Copying(o)' /\ Tables(o)' /\ Frames(o)' /\ NewSent(o)' /\ Flow(o)' /\ Whole(o)'
    BY <1>1, <1>2, <1>3, <1>9, <2>1, Kept
  <2>3. Continues(o)' /\ Ending(o)'
    BY <1>1, <1>2, <1>3, <1>9, Kept DEF Parts, Continues
  <2>. QED
    BY <2>2, <2>3 DEF Parts
<1>12. Within(e[2])
  BY <1>2, <1>3, <1>4, <1>5 DEF Within
<1>13. \A y \in Side : Holding(y)'
  <2>1. ASSUME NEW y \in Side, y # x PROVE Holding(y)'
    BY <1>3, <1>4, <1>9, <2>1, HoldingKept
  <2>2. Holding(x)'
    BY <1>4 DEF Holding, idle
  <2>. QED
    BY <2>1, <2>2
<1>. QED
  BY <1>o, <1>1, <1>10, <1>11, <1>12, <1>13, SessionStep DEF AllParts

\* A reader that only moves on with a frame for an output that is not open changes nothing
\* that the ends are promised.
LEMMA MovesOnHolds ==
  ASSUME LinkInv, Types', NEW x \in Side, NEW g, g = reader[x].frame,
         NEW e, e = <<x, g.id>>, output[e] # "open", reader[x].at \notin {"idle", "done"},
         UNCHANGED <<carrier, down, output, copier, item, hasError, quit, sent, got>>,
         NEW to, reader' = [reader EXCEPT ![x] = to],
         to = idle \/ \E label \in {"drop", "refuse"} : to = At(label, g),
         input' = [input EXCEPT ![e] = InterruptState(@)] \/ input' = input,
         sessionsOf' = Remove(e) \/ sessionsOf' = sessionsOf
  PROVE  AllParts'
<1> DEFINE o == Other(e)
<1>0. Types /\ Holding(x)
  BY InvParts
<1>1. g \in Frame /\ g.id \in Sessions /\ e \in Ends
  BY <1>0, HeldFrame
<1>2. /\ Parts(e) /\ Parts(o) /\ o \in Ends /\ o # e /\ Other(o) = e
      /\ e[1] = x /\ o[1] # x /\ o[1] \in Side /\ e[2] = g.id /\ o[2] = g.id
  BY <1>1, InvParts, EndFacts
<1>3. Started(e) /\ Started(o)
  BY <1>0 DEF Holding
<1>4. /\ reader'[x] = to /\ \A y \in Side : y # x => reader'[y] = reader[y]
      /\ \A y \in Side :
           \/ reader'[y] = reader[y]
           \/ /\ reader[y].at # "done" /\ reader[y].frame.id = g.id
              /\ reader'[y] = idle \/ (reader'[y].at # "done" /\ reader'[y].frame.id = g.id)
  <2>1. reader'[x] = to /\ \A y \in Side : y # x => reader'[y] = reader[y]
    BY <1>0 DEF Types
  <2>2. to = idle \/ (to.at # "done" /\ to.frame.id = g.id)
    BY DEF At
  <2>. QED
    BY <2>1, <2>2
<1>5. /\ \A d \in Ends : d # e => input'[d] = input[d]
      /\ input'[e] = input[e] \/ (input[e] = "open" /\ input'[e] = "errord")
  BY <1>0, <1>1 DEF InterruptState, Types, LinkTypeOK
<1>6. /\ \A d \in Ends : d # e => (d[2] \in sessionsOf'[d[1]]) = (d[2] \in sessionsOf[d[1]])
      /\ e[2] \in sessionsOf'[e[1]] => e[2] \in sessionsOf[e[1]]
  BY <1>0, <1>1, Removed
<1> HIDE DEF o
<1>7. /\ \A d \in Ends : Started(d)' = Started(d)
      /\ \A d \in Ends : Untouched(d)' = Untouched(d)
  BY DEF Started, Untouched
<1>8. Parts(e)'
  <2>1. Frames(e)' /\ NewSent(e)' /\ Whole(e)'
    BY <1>1, <1>2, <1>7, Kept DEF o
  <2>2. Copying(e)'
    BY <1>2, <1>5 DEF Parts, Copying
  <2>3. Tables(e)'
    BY <1>2, <1>6 DEF Parts, Tables, Started
  <2>4. Flow(e)' /\ Continues(e)' /\ Ending(e)'
    BY DEF Flow, Continues, Ending, Untouched
  <2>. QED
    BY <2>1, <2>2, <2>3, <2>4 DEF Parts
<1>9. Parts(o)'
  <2>1. reader'[o[1]] = reader[o[1]]
    BY <1>2, <1>4
  <2>2. Copying(o)' /\ Frames(o)' /\ NewSent(o)' /\ Flow(o)' /\ Whole(o)'
    BY <1>1, <1>2, <1>5, <1>7, <2>1, Kept
  <2>3. Tables(o)'
    BY <1>1, <1>2, <1>6, <1>7, Kept
  <2>4. Continues(o)' /\ Ending(o)'
    BY <1>1, <1>2, <1>5, <1>7, Kept DEF Parts, Continues
  <2>. QED
    BY <2>2, <2>3, <2>4 DEF Parts
<1>10. Within(e[2])
  BY <1>2, <1>4, <1>5, <1>6 DEF Within
<1>11. \A y \in Side : Holding(y)'
  <2>1. ASSUME NEW y \in Side, y # x PROVE Holding(y)'
    BY <1>4, <1>7, <2>1, HoldingKept
  <2>2. ASSUME to = idle PROVE Holding(x)'
    BY <1>4, <2>2 DEF Holding, idle
  <2>3. ASSUME NEW label \in {"drop", "refuse"}, to = At(label, g) PROVE Holding(x)'
    <3>1. reader'[x].at \in {"drop", "refuse"} /\ reader'[x].frame = g
      BY <1>4, <2>3 DEF At
    <3>2. Started(e)' /\ Started(Other(e))' /\ output'[e] # "open"
      BY <1>1, <1>2, <1>3, <1>7 DEF o
    <3>. QED
      BY <3>1, <3>2 DEF Holding
  <2>. QED
    BY <2>1, <2>2, <2>3
<1>. QED
  BY <1>1, <1>8, <1>9, <1>10, <1>11, SessionStep DEF AllParts, o

\* An output that is not open takes no payload, ...
LEMMA RefuseHolds ==
  ASSUME LinkInv, Types', NEW x \in Side, Deliver(x),
         output[<<x, reader[x].frame.id>>] # "open"
  PROVE  AllParts'
<1>1. PICK g : g = reader[x].frame
  OBVIOUS
<1>2. PICK label \in {"drop", "refuse"} :
          label = IF reader[x].at = "first" THEN "drop" ELSE "refuse"
  OBVIOUS
<1>3. PICK e : e = <<x, g.id>>
  OBVIOUS
<1>4. PICK to : to = At(label, g)
  OBVIOUS
<1>5. /\ UNCHANGED <<carrier, down, sessionsOf, closedOf, input, output, copier, item, hasError,
                     quit, sent, got>>
      /\ reader[x].at \in {"first", "write"} /\ reader' = [reader EXCEPT ![x] = to]
      /\ output[e] # "open"
  BY <1>1, <1>2, <1>3, <1>4 DEF Deliver, ReaderGoto
<1>. QED
  BY <1>1, <1>3, <1>4, <1>5, MovesOnHolds

\* ... and the session is dropped.
LEMMA DropHolds ==
  ASSUME LinkInv, Types', NEW x \in Side, Drop(x)
  PROVE  AllParts'
<1>1. PICK g : g = reader[x].frame
  OBVIOUS
<1>2. PICK e : e = <<x, g.id>>
  OBVIOUS
<1>3. PICK to : to = idle
  OBVIOUS
<1>4. /\ UNCHANGED <<carrier, down, closedOf, copier, item, hasError, quit, sent, got>>
      /\ reader[x].at = "drop" /\ reader' = [reader EXCEPT ![x] = to]
      /\ input' = [input EXCEPT ![e] = InterruptState(@)] /\ SessionClose(e)
  BY <1>1, <1>2, <1>3 DEF Drop, ReaderGoto
<1>5. Types /\ output[e] # "open"
  BY <1>1, <1>2, <1>4, InvParts DEF Holding
<1>6. output' = output /\ sessionsOf' = Remove(e)
  BY <1>4, <1>5 DEF SessionClose, CloseState, Types, LinkTypeOK
<1>. QED
  BY <1>1, <1>2, <1>3, <1>4, <1>5, <1>6, MovesOnHolds
-----------------------------------------------------------------------------
(* The failures of the carrier. *)

\* Of the frames that are left when the first one is taken, the invariant says the same.
LEMMA FramesTail ==
  ASSUME LinkInv, NEW e \in Ends, To(e) # <<>>, carrier'[Peer(e[1])] = Tail(To(e)),
         \A i \in DOMAIN To(e) : i # 1 /\ To(e)[i].id = e[2] =>
             /\ To(e)[i].status = "New" => ~Started(e)'
             /\ To(e)[i].status = "Keep" /\ ~Started(e)' /\ reader'[e[1]].at # "done" =>
                    \E j \in DOMAIN To(e) : 1 < j /\ j < i /\ To(e)[j].id = e[2]
                                            /\ To(e)[j].status = "New",
         copier'[Other(e)] \in {"none", "first", "new"} =>
             copier[Other(e)] \in {"none", "first", "new"}
  PROVE  Frames(e)'
<1> DEFINE c == To(e)
           d == Tail(c)
           s == e[2]
<1>0. Types /\ Frames(e) /\ c \in Seq(Frame) /\ To(e)' = d
  BY InvParts, EndTypes DEF Parts, To
<1>1. /\ DOMAIN c = 1 .. Len(c) /\ Len(c) \in Nat /\ Len(c) >= 1 /\ DOMAIN d = 1 .. Len(c) - 1
      /\ \A i \in 1 .. Len(c) - 1 : d[i] = c[i + 1]
  BY <1>0, Taken
<1> HIDE DEF d
<1> SUFFICES ASSUME NEW i \in DOMAIN d, d[i].id = s
             PROVE  /\ d[i].status = "End" => d[i].data = 0
                    /\ d[i].status = "Keep" => d[i].data # 0
                    /\ d[i].status = "New" =>
                           /\ e[1] = "server" /\ ~Started(e)'
                           /\ \A j \in DOMAIN d : d[j].id = s /\ j # i => i < j
                    /\ d[i].status = "Keep" /\ ~Started(e)' /\ reader'[e[1]].at # "done" =>
                           \E j \in DOMAIN d : j < i /\ d[j].id = s /\ d[j].status = "New"
                    /\ copier'[Other(e)] \notin {"none", "first", "new"}
  BY <1>0 DEF Frames
<1>2. i + 1 \in DOMAIN c /\ i + 1 # 1 /\ c[i + 1] = d[i]
  BY <1>1
<1>3. /\ d[i].status = "End" => d[i].data = 0
      /\ d[i].status = "Keep" => d[i].data # 0
      /\ d[i].status = "New" => e[1] = "server" /\ ~Started(e)'
      /\ copier'[Other(e)] \notin {"none", "first", "new"}
  BY <1>0, <1>2 DEF Frames
<1>4. ASSUME d[i].status = "New", NEW j \in DOMAIN d, d[j].id = s, j # i
      PROVE  i < j
  <2>1. j + 1 \in DOMAIN c /\ c[j + 1] = d[j] /\ i + 1 # j + 1
    BY <1>1, <1>4
  <2>2. i + 1 < j + 1
    BY <1>0, <1>2, <1>4, <2>1 DEF Frames
  <2>. QED
    BY <1>1, <2>2
<1>5. ASSUME d[i].status = "Keep", ~Started(e)', reader'[e[1]].at # "done"
      PROVE  \E j \in DOMAIN d : j < i /\ d[j].id = s /\ d[j].status = "New"
  <2>1. PICK j \in DOMAIN c : 1 < j /\ j < i + 1 /\ c[j].id = s /\ c[j].status = "New"
    BY <1>2, <1>5
  <2>2. j - 1 \in DOMAIN d /\ j - 1 < i /\ d[j - 1] = c[j]
    BY <1>1, <2>1
  <2>. QED
    BY <2>1, <2>2
<1>. QED
  BY <1>3, <1>4, <1>5

\* When the carrier has failed, what arrives is a part of what was on its way, and the
\* outputs may be closed.
LEMMA DownStep ==
  ASSUME LinkInv, Types', down',
         UNCHANGED <<input, copier, item, hasError, quit, sent, got>>,
         \A e \in Ends : /\ output[e] # "open" => output'[e] # "open"
                         /\ e[2] \in sessionsOf'[e[1]] => e[2] \in sessionsOf[e[1]]
                         /\ e[2] \in sessionsOf[e[1]] /\ e[2] \notin sessionsOf'[e[1]] =>
                                output'[e] # "open",
         \A x \in Side : \/ reader'[x] = reader[x]
                         \/ reader[x].at = "idle" /\ reader'[x] = [at |-> "done"],
         \A x \in Side : \/ carrier'[Peer(x)] = carrier[Peer(x)]
                         \/ carrier'[Peer(x)] = <<>>
                         \/ /\ carrier[Peer(x)] # <<>> /\ reader'[x].at = "done"
                            /\ carrier'[Peer(x)] = Tail(carrier[Peer(x)])
  PROVE  AllParts'
<1>1. \A d \in Ends : Started(d)' = Started(d)
  BY DEF Started
<1>2. ASSUME NEW e \in Ends PROVE Parts(e)'
  <2>0. Types /\ Parts(e) /\ e[1] \in Side /\ Other(e) \in Ends
    BY InvParts, EndFacts
  <2>1. Copying(e)' /\ Whole(e)'
    BY <2>0 DEF Parts, Copying, Whole
  <2>2. Tables(e)'
    BY <2>0 DEF Parts, Tables, Started
  <2>3. NewSent(e)' /\ Continues(e)' /\ Ending(e)'
    BY DownHolds
  <2>4. CASE carrier'[Peer(e[1])] = carrier[Peer(e[1])] /\ reader'[e[1]] = reader[e[1]]
    <3>1. Frames(e)'
      BY <1>1, <2>4, Kept
    <3>2. Held(e)' = Held(e) /\ To(e)' = To(e)
      BY <2>4 DEF Held, To
    <3>3. Base(e)' = Base(e)
      BY <3>2 DEF Base
    <3>4. Flow(e)'
      BY <2>0, <2>4, <3>2, <3>3 DEF Parts, Flow
    <3>. QED
      BY <2>1, <2>2, <2>3, <3>1, <3>4 DEF Parts
  <2>5. CASE reader'[e[1]].at = "done"
    <3>1. Flow(e)'
      BY <2>5 DEF Flow
    <3>2. CASE carrier'[Peer(e[1])] = carrier[Peer(e[1])]
      BY <1>1, <2>1, <2>2, <2>3, <2>5, <3>1, <3>2, Kept DEF Parts
    <3>3. CASE carrier'[Peer(e[1])] = <<>>
      <4>1. Frames(e)'
        BY <3>3 DEF Frames, To
      <4>. QED
        BY <2>1, <2>2, <2>3, <3>1, <4>1 DEF Parts
    <3>4. CASE To(e) # <<>> /\ carrier'[Peer(e[1])] = Tail(To(e))
      <4>1. Frames(e)'
        BY <1>1, <2>0, <2>5, <3>4, FramesTail DEF Parts, Frames
      <4>. QED
        BY <2>1, <2>2, <2>3, <3>1, <4>1 DEF Parts
    <3>. QED
      BY <2>0, <3>2, <3>3, <3>4 DEF To
  <2>6. CASE carrier'[Peer(e[1])] = <<>> /\ reader'[e[1]] = reader[e[1]]
    <3>1. To(e)' = <<>>
      BY <2>6 DEF To
    <3>2. Frames(e)'
      BY <3>1 DEF Frames
    <3>3. Held(e)' = Held(e)
      BY <2>6 DEF Held
    <3>4. Base(e)' = Base(e)
      BY <3>3 DEF Base
    <3>5. Contiguous(<<>>, e[2], Base(e))
      BY DEF Contiguous
    <3>6. Flow(e)'
      <4> SUFFICES ASSUME output[e] = "open", reader[e[1]].at # "done"
                   PROVE  /\ Held(e) => reader'[e[1]].frame.data = Len(got[e]) + 1
                          /\ Base(e) <= sent[Other(e)]
        BY <2>0, <2>6, <3>1, <3>3, <3>4, <3>5 DEF Flow
      <4>. QED
        BY <2>0, <2>6 DEF Parts, Flow
    <3>. QED
      BY <2>1, <2>2, <2>3, <3>2, <3>6 DEF Parts
  <2>. QED
    BY <2>0, <2>4, <2>5, <2>6
<1>3. ASSUME NEW x \in Side PROVE Holding(x)'
  <2>1. CASE reader'[x] = reader[x]
    BY <1>1, <2>1, HoldingKept
  <2>2. CASE reader'[x] = [at |-> "done"]
    BY <2>2 DEF Holding
  <2>. QED
    BY <2>1, <2>2
<1>. QED
  BY <1>2, <1>3 DEF AllParts

\* The reader ends, the worker closes, the carrier fails or Dispatch does.
LEMMA FailuresHold ==
  ASSUME LinkInv, Types',
         \/ DispatchFails \/ LinkFails \/ \E x \in Side : ReaderEnds(x) \/ WorkerClose(x)
  PROVE  AllParts'
<1>0. Types /\ \A x \in Side : Peer(x) \in Side /\ Peer(x) # x /\ Peer(Peer(x)) = x
  BY InvParts, EndFacts
<1>1. CASE DispatchFails
  <2>1. /\ down' /\ UNCHANGED <<sessionsOf, closedOf, input, output, copier, item, hasError, quit,
                                sent, got>>
        /\ reader["server"].at = "idle" /\ carrier["client"] # <<>>
        /\ carrier' = [carrier EXCEPT !["client"] = Tail(@)]
        /\ reader' = [reader EXCEPT !["server"] = [at |-> "done"]]
    BY <1>1 DEF DispatchFails, Take, ReaderGoto, Peer
  <2>2. /\ reader'["server"] = [at |-> "done"] /\ reader'["client"] = reader["client"]
        /\ carrier'["client"] = Tail(carrier["client"]) /\ carrier'["server"] = carrier["server"]
    BY <1>0, <2>1 DEF Types, LinkTypeOK, Side
  <2>3. \A x \in Side : \/ x = "server" /\ Peer(x) = "client"
                        \/ x = "client" /\ Peer(x) = "server"
    BY DEF Side, Peer
  <2>. QED
    BY <2>1, <2>2, <2>3, DownStep
<1>2. CASE LinkFails
  <2>1. /\ down' /\ UNCHANGED <<sessionsOf, closedOf, input, output, copier, item, hasError, reader,
                                quit, sent, got>>
        /\ \A x \in Side : carrier'[x] = <<>> \/ carrier'[x] = carrier[x]
    BY <1>2 DEF LinkFails
  <2>. QED
    BY <1>0, <2>1, DownStep
<1>3. ASSUME NEW x \in Side, ReaderEnds(x) PROVE AllParts'
  <2>1. /\ down' /\ UNCHANGED <<carrier, down, sessionsOf, closedOf, input, output, copier, item,
                                hasError, quit, sent, got>>
        /\ reader[x].at = "idle" /\ reader' = [reader EXCEPT ![x] = [at |-> "done"]]
    BY <1>3 DEF ReaderEnds, ReaderGoto
  <2>2. \A y \in Side : \/ reader'[y] = reader[y]
                        \/ reader[y].at = "idle" /\ reader'[y] = [at |-> "done"]
    BY <1>0, <2>1 DEF Types
  <2>. QED
    BY <2>1, <2>2, DownStep
<1>4. ASSUME NEW x \in Side, WorkerClose(x) PROVE AllParts'
  <2>1. /\ UNCHANGED <<down, input, copier, item, hasError, reader, quit, sent, got>>
        /\ output' = [e \in Ends |-> IF e[1] = x /\ e[2] \in sessionsOf[x]
                                     THEN CloseState(output[e]) ELSE output[e]]
        /\ sessionsOf' = [sessionsOf EXCEPT ![x] = {}]
        /\ carrier' = [carrier EXCEPT ![Peer(x)] = <<>>]
    BY <1>4 DEF WorkerClose
  <2>2. down'
    <3>1. Holding(x)
      BY InvParts
    <3>2. reader[x].at = "done" \/ down
      BY <1>4 DEF WorkerClose
    <3>. QED
      BY <2>1, <3>1, <3>2 DEF Holding
  <2>3. \A y \in Side : carrier'[y] = carrier[y] \/ carrier'[y] = <<>>
    BY <1>0, <2>1 DEF Types, LinkTypeOK
  <2>4. ASSUME NEW e \in Ends
        PROVE  /\ output[e] # "open" => output'[e] # "open"
               /\ e[2] \in sessionsOf'[e[1]] => e[2] \in sessionsOf[e[1]]
               /\ e[2] \in sessionsOf[e[1]] /\ e[2] \notin sessionsOf'[e[1]] => output'[e] # "open"
    <3>1. e[1] \in Side
      BY EndFacts
    <3>2. output'[e] = IF e[1] = x /\ e[2] \in sessionsOf[x]
                       THEN CloseState(output[e]) ELSE output[e]
      BY <2>1
    <3>3. sessionsOf'[e[1]] = IF e[1] = x THEN {} ELSE sessionsOf[e[1]]
      BY <1>0, <2>1, <3>1 DEF Types, LinkTypeOK
    <3>. QED
      BY <3>2, <3>3 DEF CloseState
  <2>. QED
    BY <1>0, <2>1, <2>2, <2>3, <2>4, DownStep
<1>. QED
  BY <1>1, <1>2, <1>3, <1>4

-----------------------------------------------------------------------------
(* The steps of a reader that takes the next frame. *)

\* The next frame for x is f, for its end e.
Comes(x, f, e) == f = Head(carrier[Peer(x)]) /\ e = <<x, f.id>>

\* What is known of a frame when the reader takes it.
LEMMA Takes ==
  ASSUME LinkInv, NEW x \in Side, NEW status, Take(x, status), NEW f, NEW e, Comes(x, f, e)
  PROVE  /\ Types /\ Parts(e) /\ Parts(Other(e)) /\ e \in Ends /\ Other(e) \in Ends
         /\ e[1] = x /\ e[2] = f.id /\ Other(e)[1] \in Side /\ Other(e)[1] # x /\ Other(e)[2] = f.id
         /\ Other(e)[1] = Peer(x)
         /\ Other(e) # e /\ Other(Other(e)) = e
         /\ Peer(Other(e)[1]) = e[1] /\ Peer(e[1]) = Other(e)[1]
         /\ f \in Frame /\ f.status = status /\ To(e) # <<>> /\ To(e) \in Seq(Frame)
         /\ 1 \in DOMAIN To(e) /\ To(e)[1] = f /\ Head(To(e)) = f
         /\ reader[e[1]].at = "idle" /\ copier[Other(e)] \notin {"none", "first", "new"}
         /\ carrier'[Other(e)[1]] = Tail(To(e)) /\ carrier'[e[1]] = carrier[e[1]]
         /\ \A y \in Side : \/ carrier'[y] = carrier[y]
                            \/ /\ carrier[y] # <<>> /\ Head(carrier[y]).id = f.id
                               /\ carrier'[y] = Tail(carrier[y])
<1>1. Types /\ Peer(x) \in Side /\ Peer(x) # x /\ Peer(Peer(x)) = x
  BY InvParts, EndFacts
<1>2. f \in Frame /\ carrier[Peer(x)] \in Seq(Frame) /\ carrier[Peer(x)] # <<>>
  BY <1>1, TakeTypes DEF Comes
<1>3. f.id \in Sessions
  BY <1>2 DEF Frame
<1>4. /\ e \in Ends /\ e[1] = x /\ e[2] = f.id /\ Other(e) \in Ends
      /\ Other(e)[1] = Peer(x) /\ Other(e)[2] = f.id /\ Other(e) # e /\ Other(Other(e)) = e
  BY <1>3, EndFacts DEF Comes
<1>5. Parts(e) /\ Parts(Other(e))
  BY <1>4, InvParts
<1>6. /\ reader[x].at = "idle" /\ f.status = status
      /\ carrier' = [carrier EXCEPT ![Peer(x)] = Tail(@)]
  BY DEF Take, Comes
<1>7. To(e) = carrier[Peer(x)] /\ 1 \in DOMAIN To(e) /\ To(e)[1] = f
  BY <1>2, <1>4, Taken DEF To, Comes
<1>8. carrier'[Peer(x)] = Tail(To(e)) /\ \A y \in Side : y # Peer(x) => carrier'[y] = carrier[y]
  BY <1>1, <1>6, <1>7 DEF Types, LinkTypeOK
<1>9. copier[Other(e)] \notin {"none", "first", "new"}
  BY <1>4, <1>5, <1>7 DEF Parts, Frames
<1>10. Head(To(e)) = f
  BY <1>7 DEF Comes
<1>. QED
  BY <1>1, <1>2, <1>4, <1>5, <1>6, <1>7, <1>8, <1>9, <1>10

\* What is left on its way when the first frame is taken.
LEMMA Shorter ==
  ASSUME NEW c \in Seq(Frame), c # <<>>
  PROVE  /\ \A i \in DOMAIN Tail(c) : /\ i + 1 \in DOMAIN c /\ i + 1 # 1 /\ 1 < i + 1
                                      /\ Tail(c)[i] = c[i + 1]
         /\ \A i \in DOMAIN c : i # 1 => /\ i - 1 \in DOMAIN Tail(c) /\ 1 < i
                                         /\ Tail(c)[i - 1] = c[i] /\ (i - 1) + 1 = i
BY Taken

\* A payload that is taken is in the hands of the reader.
LEMMA FlowTail ==
  ASSUME LinkInv, NEW e \in Ends, To(e) # <<>>, NEW f, f = Head(To(e)), f.id = e[2],
         carrier'[Peer(e[1])] = Tail(To(e)), reader[e[1]].at = "idle",
         output'[e] = output[e], down' = down, got'[e] = got[e],
         sent'[Other(e)] = sent[Other(e)],
         f.data = 0 => ~Held(e)',
         f.data # 0 => Held(e)' /\ reader'[e[1]].frame = f
  PROVE  Flow(e)'
<1> DEFINE c == To(e)
           d == Tail(c)
           n == Len(got[e])
           m == sent[Other(e)]
<1> SUFFICES ASSUME output[e] = "open" PROVE Flow(e)'
  BY DEF Flow
<1>0. Types /\ Flow(e) /\ c \in Seq(Frame) /\ To(e)' = d /\ Other(e) \in Ends
  BY InvParts, EndTypes, EndFacts DEF Parts, To
<1>1. /\ n \in Nat /\ m \in Nat /\ \A i \in DOMAIN c : c[i].data \in Nat
      /\ f = c[1] /\ 1 \in DOMAIN c
  BY <1>0, EndTypes, Taken, MuxLinkAssumption
<1>2. ~Held(e)
  BY DEF Held
<1>3. Base(e) = n
  BY <1>1, <1>2 DEF Base
<1>4. /\ Contiguous(c, e[2], n) /\ n <= m
      /\ \A i \in DOMAIN c : c[i].id = e[2] => c[i].data <= m
      /\ ~down => m = n \/ \E i \in DOMAIN c : c[i].id = e[2] /\ c[i].data = m
  BY <1>0, <1>3 DEF Flow
<1>5. /\ \A i \in DOMAIN d : i + 1 \in DOMAIN c /\ d[i] = c[i + 1]
      /\ \A i \in DOMAIN c : i # 1 => i - 1 \in DOMAIN d /\ d[i - 1] = c[i]
  BY <1>0, Shorter
<1>6. /\ f.data = 0 => Contiguous(d, e[2], n)
      /\ f.data # 0 => f.data = n + 1 /\ Contiguous(d, e[2], n + 1)
  BY <1>0, <1>1, <1>4, ContiguousTail
<1> HIDE DEF d, c
<1>7. \A i \in DOMAIN d : d[i].id = e[2] => d[i].data <= m
  BY <1>4, <1>5
<1>8. CASE f.data = 0
  <2>0. ~Held(e)' /\ Len(got'[e]) = n /\ n \in Nat
    BY <1>1, <1>8
  <2>1. Base(e)' = n
    BY <2>0 DEF Base
  <2>2. ~down => m = n \/ \E i \in DOMAIN d : d[i].id = e[2] /\ d[i].data = m
    <3> SUFFICES ASSUME ~down, NEW i \in DOMAIN c, c[i].id = e[2], c[i].data = m
                 PROVE  m = n \/ \E j \in DOMAIN d : d[j].id = e[2] /\ d[j].data = m
      BY <1>4
    <3>1. CASE i = 1
      BY <1>1, <1>4, <1>8, <3>1
    <3>2. CASE i # 1
      BY <1>5, <3>2
    <3>. QED
      BY <3>1, <3>2
  <2>. QED
    BY <1>0, <1>4, <1>6, <1>7, <1>8, <2>1, <2>2 DEF Flow
<1>9. CASE f.data # 0
  <2>1. Base(e)' = n + 1
    BY <1>1, <1>9 DEF Base
  <2>2. f.data = n + 1 /\ n + 1 <= m
    BY <1>1, <1>4, <1>6, <1>9
  <2>3. ~down => m = n + 1 \/ \E i \in DOMAIN d : d[i].id = e[2] /\ d[i].data = m
    <3> SUFFICES ASSUME ~down
                 PROVE  m = n + 1 \/ \E j \in DOMAIN d : d[j].id = e[2] /\ d[j].data = m
      OBVIOUS
    <3>0. PICK i \in DOMAIN c : c[i].id = e[2] /\ c[i].data = m
      BY <1>1, <1>4, <2>2
    <3>1. CASE i = 1
      BY <1>1, <2>2, <3>0, <3>1
    <3>2. CASE i # 1
      BY <1>5, <3>0, <3>2
    <3>. QED
      BY <3>1, <3>2
  <2>. QED
    BY <1>0, <1>6, <1>7, <1>9, <2>1, <2>2, <2>3 DEF Flow
<1>. QED
  BY <1>8, <1>9

\* A frame that is no End says nothing of the end of a session.
LEMMA EndingTail ==
  ASSUME LinkInv, NEW e \in Ends, To(e) # <<>>, carrier'[Peer(e[1])] = Tail(To(e)),
         ~EndAt(e, 1), Live(e)' => Live(e), UNCHANGED <<down, output, quit>>,
         copier'[Other(e)] = copier[Other(e)]
  PROVE  Ending(e)'
<1> DEFINE c == To(e)
           d == Tail(c)
           o == Other(e)
<1>0. Types /\ Ending(e) /\ c \in Seq(Frame) /\ To(e)' = d
  BY InvParts, EndTypes DEF Parts, To
<1>1. /\ DOMAIN c = 1 .. Len(c) /\ Len(c) \in Nat /\ DOMAIN d = 1 .. Len(c) - 1
      /\ \A i \in DOMAIN d : i + 1 \in DOMAIN c /\ d[i] = c[i + 1]
      /\ \A i \in DOMAIN c : i # 1 => i - 1 \in DOMAIN d /\ d[i - 1] = c[i] /\ (i - 1) + 1 = i
  BY <1>0, Shorter, Taken
<1> HIDE DEF d, o
<1>2. \A i \in DOMAIN d : EndAt(e, i)' <=> EndAt(e, i + 1)
  BY <1>0, <1>1 DEF EndAt
<1> SUFFICES ASSUME Untouched(e), Live(e)
             PROVE  /\ output[o] = "closed" => copier[o] = "done"
                    /\ copier[o] \in {"close", "done"} => \E i \in DOMAIN d : EndAt(e, i)'
                    /\ output[o] # "errord" =>
                          \A i \in DOMAIN d : EndAt(e, i)' =>
                              /\ copier[o] \in {"close", "done"}
                              /\ \A j \in DOMAIN d : i < j /\ d[j].id = e[2] => d[j].data = 0
                              /\ (\A j \in DOMAIN d : j < i => ~EndAt(e, j)') /\ ~d[i].error =>
                                     quit[o] = "eof"
  BY <1>0 DEF Ending, Untouched, o
<1>3. /\ output[o] = "closed" => copier[o] = "done"
      /\ copier[o] \in {"close", "done"} => \E i \in DOMAIN c : EndAt(e, i)
  BY <1>0 DEF Ending, o
<1>4. copier[o] \in {"close", "done"} => \E i \in DOMAIN d : EndAt(e, i)'
  <2> SUFFICES ASSUME NEW i \in DOMAIN c, EndAt(e, i) PROVE \E j \in DOMAIN d : EndAt(e, j)'
    BY <1>3
  <2>1. i # 1
    OBVIOUS
  <2>2. i - 1 \in DOMAIN d /\ EndAt(e, (i - 1) + 1)
    BY <1>1, <2>1
  <2>. QED
    BY <1>2, <2>2
<1>5. ASSUME output[o] # "errord", NEW i \in DOMAIN d, EndAt(e, i)'
      PROVE  /\ copier[o] \in {"close", "done"}
             /\ \A j \in DOMAIN d : i < j /\ d[j].id = e[2] => d[j].data = 0
             /\ (\A j \in DOMAIN d : j < i => ~EndAt(e, j)') /\ ~d[i].error => quit[o] = "eof"
  <2>1. i + 1 \in DOMAIN c /\ EndAt(e, i + 1) /\ c[i + 1] = d[i]
    BY <1>1, <1>2, <1>5
  <2>2. /\ copier[o] \in {"close", "done"}
        /\ \A j \in DOMAIN c : i + 1 < j /\ c[j].id = e[2] => c[j].data = 0
        /\ (\A j \in DOMAIN c : j < i + 1 => ~EndAt(e, j)) /\ ~c[i + 1].error => quit[o] = "eof"
    BY <1>0, <1>5, <2>1 DEF Ending, o
  <2>3. ASSUME NEW j \in DOMAIN d, i < j, d[j].id = e[2] PROVE d[j].data = 0
    <3>1. j + 1 \in DOMAIN c /\ c[j + 1] = d[j] /\ i + 1 < j + 1
      BY <1>1, <2>3
    <3>. QED
      BY <2>2, <2>3, <3>1
  <2>4. ASSUME \A j \in DOMAIN d : j < i => ~EndAt(e, j)', NEW j \in DOMAIN c, j < i + 1
        PROVE  ~EndAt(e, j)
    <3>1. CASE j = 1
      BY <3>1
    <3>2. CASE j # 1
      <4>1. j - 1 \in DOMAIN d /\ j - 1 < i /\ (j - 1) + 1 = j
        BY <1>1, <2>4, <3>2
      <4>2. ~EndAt(e, j - 1)'
        BY <2>4, <4>1
      <4>. QED
        BY <1>2, <4>1, <4>2
    <3>. QED
      BY <3>1, <3>2
  <2>. QED
    BY <2>1, <2>2, <2>3, <2>4
<1>. QED
  BY <1>3, <1>4, <1>5

\* Taking a frame of an end only leaves fewer of them.
LEMMA ContinuesTail ==
  ASSUME LinkInv, NEW e \in Ends, carrier[e[1]] # <<>>,
         carrier'[e[1]] = Tail(carrier[e[1]]), Untouched(e)' => Untouched(e),
         copier'[e] = copier[e], input'[e] = input[e]
  PROVE  Continues(e)'
<1>1. Types /\ Continues(e)
  BY InvParts DEF Parts
<1>2. carrier[e[1]] \in Seq(Frame)
  BY <1>1, EndTypes
<1>3. \A i \in DOMAIN Tail(carrier[e[1]]) :
          i + 1 \in DOMAIN carrier[e[1]] /\ Tail(carrier[e[1]])[i] = carrier[e[1]][i + 1]
  BY <1>2, Shorter
<1>. QED
  BY <1>1, <1>3 DEF Continues

\* New: it is the first frame of its session, and the server's end starts with it.
LEMMA ReceiveNewHolds ==
  ASSUME LinkInv, Types', ReceiveNew, NEW f, NEW e, Comes("server", f, e)
  PROVE  AllParts'
<1> DEFINE o == Other(e)
<1>0. "server" \in Side /\ "client" \in Side /\ Peer("server") = "client"
  BY DEF Side, Peer
<1>1. Take("server", "New")
  BY DEF ReceiveNew
<1>2. /\ Types /\ e \in Ends /\ o \in Ends
      /\ e[1] = "server" /\ e[2] = f.id /\ o[1] = "client" /\ o[2] = f.id
      /\ o # e /\ Other(o) = e /\ Peer(o[1]) = e[1] /\ Peer(e[1]) = o[1]
  BY <1>0, <1>1, Takes
<1>p. Parts(e) /\ Parts(o)
  BY <1>0, <1>1, Takes
<1>f. /\ f \in Frame /\ f.status = "New" /\ 1 \in DOMAIN To(e) /\ To(e)[1] = f
      /\ reader[e[1]].at = "idle" /\ copier[o] \notin {"none", "first", "new"}
  BY <1>0, <1>1, Takes
<1>t. To(e) # <<>> /\ To(e) \in Seq(Frame) /\ Head(To(e)) = f
  BY <1>0, <1>1, Takes
<1>c. carrier'[o[1]] = Tail(To(e)) /\ carrier'[e[1]] = carrier[e[1]]
  BY <1>0, <1>1, Takes
<1>w. \A y \in Side : \/ carrier'[y] = carrier[y]
                       \/ /\ carrier[y] # <<>> /\ Head(carrier[y]).id = f.id
                          /\ carrier'[y] = Tail(carrier[y])
  BY <1>0, <1>1, Takes
<1>3. o = <<"client", e[2]>> /\ e = <<"server", e[2]>> /\ f.data \in Nat
  BY <1>2, <1>f, MuxLinkAssumption DEF Other, Peer, Frame, Comes
<1>4. /\ UNCHANGED <<down, closedOf, input, output, item, hasError, quit, sent, got>>
      /\ sessionsOf' = [sessionsOf EXCEPT !["server"] = @ \cup {f.id}]
      /\ copier' = [copier EXCEPT ![e] = "copy"]
      /\ reader' = [reader EXCEPT !["server"] = FirstPayload(f)]
  BY <1>0 DEF ReceiveNew, Step, ReaderGoto, Comes
<1>5. /\ copier'[e] = "copy" /\ \A d \in Ends : d # e => copier'[d] = copier[d]
  BY <1>2, <1>4 DEF Types, LinkTypeOK
<1>6. /\ e[2] \in sessionsOf'[e[1]]
      /\ \A d \in Ends : d # e => (d[2] \in sessionsOf'[d[1]]) = (d[2] \in sessionsOf[d[1]])
  <2>1. /\ sessionsOf'["server"] = sessionsOf["server"] \cup {f.id}
        /\ sessionsOf'["client"] = sessionsOf["client"]
    BY <1>0, <1>2, <1>4 DEF Types, LinkTypeOK
  <2>2. ASSUME NEW d \in Ends, d # e
        PROVE  (d[2] \in sessionsOf'[d[1]]) = (d[2] \in sessionsOf[d[1]])
    <3>1. CASE d[1] = "client"
      BY <2>1, <3>1
    <3>2. CASE d[1] = "server"
      <4>1. d[2] # f.id
        BY <1>2, <2>2, <3>2, EndFacts
      <4>. QED
        BY <2>1, <3>2, <4>1
    <3>. QED
      BY <3>1, <3>2, EndFacts DEF Side
  <2>. QED
    BY <1>2, <2>1, <2>2
<1>7. /\ reader'[e[1]] = FirstPayload(f) /\ \A y \in Side : y # e[1] => reader'[y] = reader[y]
  BY <1>0, <1>2, <1>4 DEF Types
<1>8. /\ f.data = 0 => reader'[e[1]] = idle
      /\ f.data # 0 => /\ reader'[e[1]].at = "first" /\ reader'[e[1]].frame = f
  BY <1>7 DEF FirstPayload, At
<1>o. Other(e) = o
  OBVIOUS
<1> HIDE DEF o
<1>9. /\ ~Started(e) /\ Started(e)' /\ Started(o) /\ Started(o)'
      /\ \A i \in DOMAIN To(e) : i # 1 /\ To(e)[i].id = e[2] => To(e)[i].status # "New"
  <2>1. ~Started(e)
    BY <1>2, <1>p, <1>f DEF Parts, Frames
  <2>2. Started(e)' /\ Started(o) /\ Started(o)'
    BY <1>2, <1>f, <1>5 DEF Started
  <2>3. ASSUME NEW i \in DOMAIN To(e), i # 1, To(e)[i].id = e[2], To(e)[i].status = "New"
        PROVE  FALSE
    <3>1. i < 1
      BY <1>2, <1>p, <1>f, <2>3 DEF Parts, Frames
    <3>2. 1 < i
      BY <1>2, <1>t, <2>3, Shorter
    <3>. QED
      BY <1>2, <1>t, <2>3, <3>1, <3>2, Taken
  <2>. QED
    BY <2>1, <2>2, <2>3
<1>10. \A d \in Ends : Untouched(d)' = Untouched(d)
  BY <1>4 DEF Untouched
<1>11. Parts(e)'
  <2>1. Copying(e)'
    BY <1>2, <1>p, <1>4, <1>5, <1>9 DEF Parts, Copying, Started
  <2>2. Tables(e)'
    BY <1>2, <1>f, <1>3, <1>5, <1>6, <1>9 DEF Tables, Started
  <2>3. Frames(e)'
    BY <1>o, <1>2, <1>t, <1>c, <1>5, <1>9, FramesTail
  <2>4. NewSent(e)'
    BY <1>9 DEF NewSent
  <2>5. Flow(e)'
    <3>1. f.data = 0 => ~Held(e)'
      BY <1>8 DEF Held, idle
    <3>2. f.data # 0 => Held(e)' /\ reader'[e[1]].frame = f
      BY <1>2, <1>8 DEF Held
    <3>. QED
      BY <1>2, <1>t, <1>f, <1>c, <1>4, <3>1, <3>2, FlowTail
  <2>6. Continues(e)'
    BY <1>2, <1>p, <1>c, <1>4, <1>5, <1>10, Kept DEF Parts, Continues
  <2>7. Ending(e)'
    <3>1. ~EndAt(e, 1) /\ Live(e)
      BY <1>2, <1>f DEF EndAt, Live
    <3>. QED
      BY <1>o, <1>2, <1>t, <1>c, <1>4, <1>5, <3>1, EndingTail
  <2>8. Whole(e)'
    BY <1>o, <1>2, <1>c, <1>4, <1>5, Kept
  <2>. QED
    BY <2>1, <2>2, <2>3, <2>4, <2>5, <2>6, <2>7, <2>8 DEF Parts
<1>12. Parts(o)'
  <2>1. Copying(o)' /\ Whole(o)'
    <3>1. copier[e] = "none" /\ copier'[o] = copier[o]
      BY <1>2, <1>5, <1>9 DEF Started
    <3>. QED
      BY <1>2, <1>c, <1>4, <3>1, Kept
  <2>2. Tables(o)'
    BY <1>2, <1>f, <1>p, <1>3, <1>4, <1>5, <1>6, <1>9 DEF Parts, Tables, Started
  <2>3. NewSent(o)'
    BY <1>2 DEF NewSent
  <2>4. Frames(o)' /\ Flow(o)' /\ Ending(o)'
    <3>1. reader'[o[1]] = reader[o[1]] /\ Started(o)' = Started(o)
      BY <1>0, <1>2, <1>7, <1>9
    <3>2. /\ (copier'[e] \in {"close", "done"}) = (copier[e] \in {"close", "done"})
          /\ copier'[e] \notin {"none", "first", "new"} /\ copier[e] # "done"
      BY <1>5, <1>9 DEF Started
    <3>. QED
      BY <1>2, <1>c, <1>4, <1>10, <3>1, <3>2, Kept
  <2>5. Continues(o)'
    <3>1. To(e) = carrier[o[1]]
      BY <1>2 DEF To
    <3>. QED
      BY <1>2, <1>t, <1>c, <1>4, <1>5, <1>10, <3>1, ContinuesTail
  <2>. QED
    BY <2>1, <2>2, <2>3, <2>4, <2>5 DEF Parts
<1>13. Within(e[2])
  <2>1. \A y \in Side :
          \/ reader'[y] = reader[y]
          \/ /\ reader[y].at = "idle"
             /\ reader'[y] = idle \/ (reader'[y].at # "done" /\ reader'[y].frame.id = e[2])
    BY <1>2, <1>f, <1>7, <1>8
  <2>2. \A d \in Ends : d[2] # e[2] => d # e
    OBVIOUS
  <2>. QED
    BY <1>2, <1>w, <1>4, <1>5, <1>6, <2>1, <2>2 DEF Within
<1>14. \A y \in Side : Holding(y)'
  <2>1. ASSUME NEW y \in Side, y # e[1] PROVE Holding(y)'
    BY <1>4, <1>5, <1>7, <1>9, <2>1, HoldingKept DEF Started
  <2>2. Holding("server")'
    <3>1. CASE f.data = 0
      BY <1>2, <1>8, <3>1 DEF Holding, idle
    <3>2. CASE f.data # 0
      BY <1>o, <1>2, <1>8, <1>9, <3>2 DEF Holding, Comes
    <3>. QED
      BY <3>1, <3>2
  <2>. QED
    BY <1>2, <2>1, <2>2
<1>. QED
  BY <1>o, <1>2, <1>11, <1>12, <1>13, <1>14, SessionStep DEF AllParts

\* Keep: the session has started, and the payload is the next one unless the output is no
\* longer open.
LEMMA ReceiveKeepHolds ==
  ASSUME LinkInv, Types', NEW x \in Side, ReceiveKeep(x), NEW f, NEW e,
         Comes(x, f, e)
  PROVE  AllParts'
<1> DEFINE o == Other(e)
<1>1. Take(x, "Keep")
  BY DEF ReceiveKeep
<1>2. /\ Types /\ e \in Ends /\ o \in Ends
      /\ e[1] = x /\ e[2] = f.id /\ o[1] \in Side /\ o[1] # x /\ o[2] = f.id
      /\ o # e /\ Other(o) = e /\ Peer(o[1]) = e[1] /\ Peer(e[1]) = o[1]
  BY <1>1, Takes
<1>p. Parts(e) /\ Parts(o)
  BY <1>1, Takes
<1>f. /\ f \in Frame /\ f.status = "Keep" /\ 1 \in DOMAIN To(e) /\ To(e)[1] = f
      /\ reader[e[1]].at = "idle" /\ copier[o] \notin {"none", "first", "new"}
  BY <1>1, Takes
<1>t. To(e) # <<>> /\ To(e) \in Seq(Frame) /\ Head(To(e)) = f
  BY <1>1, Takes
<1>c. carrier'[o[1]] = Tail(To(e)) /\ carrier'[e[1]] = carrier[e[1]]
  BY <1>1, Takes
<1>w. \A y \in Side : \/ carrier'[y] = carrier[y]
                       \/ /\ carrier[y] # <<>> /\ Head(carrier[y]).id = f.id
                          /\ carrier'[y] = Tail(carrier[y])
  BY <1>1, Takes
<1>3. PICK label \in {"write", "notify"} :
         /\ reader' = [reader EXCEPT ![x] = At(label, f)]
         /\ label = IF Found(x, f.id) THEN "write" ELSE "notify"
  BY DEF ReceiveKeep, ReaderGoto, Comes
<1>4. UNCHANGED <<down, sessionsOf, closedOf, input, output, copier, item, hasError, quit,
                  sent, got>>
  BY DEF ReceiveKeep
<1>5. /\ reader'[x].at = label /\ reader'[x].frame = f
      /\ \A y \in Side : y # x => reader'[y] = reader[y]
  <2>1. reader'[x] = At(label, f) /\ \A y \in Side : y # x => reader'[y] = reader[y]
    BY <1>2, <1>3 DEF Types
  <2>. QED
    BY <2>1 DEF At
<1>o. Other(e) = o
  OBVIOUS
<1> HIDE DEF o
<1>6. Started(e) /\ Started(o) /\ f.data # 0
  <2>1. f.data # 0 /\ Started(o)
    BY <1>2, <1>p, <1>f DEF Parts, Frames, Started
  <2>2. ASSUME ~Started(e) PROVE FALSE
    <3>1. PICK j \in DOMAIN To(e) : j < 1
      BY <1>2, <1>p, <1>f, <2>2 DEF Parts, Frames
    <3>. QED
      BY <1>2, <1>t, <3>1, Taken
  <2>. QED
    BY <2>1, <2>2
<1>7. label = "notify" => output[e] # "open"
  BY <1>2, <1>p, <1>3, <1>6 DEF Parts, Tables, Found
<1>8. /\ \A d \in Ends : Started(d)' = Started(d)
      /\ \A d \in Ends : Untouched(d)' = Untouched(d)
  BY <1>4 DEF Started, Untouched
<1>9. Parts(e)'
  <2>1. Copying(e)' /\ Tables(e)' /\ Whole(e)'
    BY <1>o, <1>2, <1>c, <1>4, <1>8, Kept
  <2>2. Frames(e)'
    <3>1. \A i \in DOMAIN To(e) : To(e)[i].id = e[2] => To(e)[i].status # "New"
      BY <1>2, <1>p, <1>f, <1>6 DEF Parts, Frames
    <3>. QED
      BY <1>o, <1>2, <1>t, <1>c, <1>4, <1>6, <1>8, <3>1, FramesTail
  <2>3. NewSent(e)'
    BY <1>2, <1>6, <1>8 DEF NewSent
  <2>4. Flow(e)'
    <3>1. CASE label = "notify"
      BY <1>4, <1>7, <3>1 DEF Flow
    <3>2. CASE label = "write"
      <4>1. Held(e)' /\ reader'[e[1]].frame = f
        BY <1>2, <1>5, <3>2 DEF Held
      <4>. QED
        BY <1>2, <1>t, <1>f, <1>c, <1>4, <1>6, <4>1, FlowTail
    <3>. QED
      BY <3>1, <3>2
  <2>5. Continues(e)'
    BY <1>2, <1>p, <1>c, <1>4, <1>8, Kept DEF Parts, Continues
  <2>6. Ending(e)'
    <3>1. ~EndAt(e, 1) /\ Live(e)
      BY <1>2, <1>f, <1>6 DEF EndAt, Live
    <3>. QED
      BY <1>o, <1>2, <1>t, <1>c, <1>4, <3>1, EndingTail
  <2>. QED
    BY <2>1, <2>2, <2>3, <2>4, <2>5, <2>6 DEF Parts
<1>10. Parts(o)'
  <2>1. reader'[o[1]] = reader[o[1]]
    BY <1>2, <1>5
  <2>2. /\ Copying(o)' /\ Tables(o)' /\ Frames(o)' /\ NewSent(o)' /\ Flow(o)' /\ Ending(o)'
        /\ Whole(o)'
    BY <1>2, <1>c, <1>4, <1>8, <2>1, Kept
  <2>3. Continues(o)'
    <3>1. To(e) = carrier[o[1]]
      BY <1>2 DEF To
    <3>. QED
      BY <1>2, <1>t, <1>c, <1>4, <1>8, <3>1, ContinuesTail
  <2>. QED
    BY <2>2, <2>3 DEF Parts
<1>11. Within(e[2])
  <2>1. \A y \in Side :
          \/ reader'[y] = reader[y]
          \/ reader[y].at = "idle" /\ reader'[y].at # "done" /\ reader'[y].frame.id = e[2]
    BY <1>2, <1>f, <1>5
  <2>. QED
    BY <1>2, <1>w, <1>4, <2>1 DEF Within
<1>12. \A y \in Side : Holding(y)'
  <2>1. ASSUME NEW y \in Side, y # x PROVE Holding(y)'
    BY <1>4, <1>5, <1>8, <2>1, HoldingKept
  <2>2. Holding(x)'
    <3>1. Started(e)' /\ Started(Other(e))' /\ output'[e] = output[e]
      BY <1>o, <1>2, <1>4, <1>6, <1>8
    <3>. QED
      BY <1>5, <1>6, <1>7, <3>1 DEF Holding, Comes
  <2>. QED
    BY <2>1, <2>2
<1>. QED
  BY <1>o, <1>2, <1>9, <1>10, <1>11, <1>12, SessionStep DEF AllParts

\* End: of a session in the table it closes the output, whole when the frame says that all
\* is well; a session that is not there has a closed output or has not started.
LEMMA ReceiveEndHolds ==
  ASSUME LinkInv, Types', NEW x \in Side, ReceiveEnd(x), NEW f, NEW e,
         Comes(x, f, e)
  PROVE  AllParts'
<1> DEFINE o == Other(e)
<1>1. Take(x, "End")
  BY DEF ReceiveEnd
<1>2. /\ Types /\ e \in Ends /\ o \in Ends
      /\ e[1] = x /\ e[2] = f.id /\ o[1] \in Side /\ o[1] # x /\ o[2] = f.id
      /\ o # e /\ Other(o) = e /\ Peer(o[1]) = e[1] /\ Peer(e[1]) = o[1]
  BY <1>1, Takes
<1>p. Parts(e) /\ Parts(o)
  BY <1>1, Takes
<1>f. /\ f \in Frame /\ f.status = "End" /\ 1 \in DOMAIN To(e) /\ To(e)[1] = f
      /\ reader[e[1]].at = "idle" /\ copier[o] \notin {"none", "first", "new"}
  BY <1>1, Takes
<1>t. To(e) # <<>> /\ To(e) \in Seq(Frame) /\ Head(To(e)) = f
  BY <1>1, Takes
<1>c. carrier'[o[1]] = Tail(To(e)) /\ carrier'[e[1]] = carrier[e[1]]
  BY <1>1, Takes
<1>w. \A y \in Side : \/ carrier'[y] = carrier[y]
                       \/ /\ carrier[y] # <<>> /\ Head(carrier[y]).id = f.id
                          /\ carrier'[y] = Tail(carrier[y])
  BY <1>1, Takes
<1>3. /\ UNCHANGED <<down, closedOf, copier, item, hasError, reader, quit, sent, got>>
      /\ \/ /\ e[2] \in sessionsOf[x] /\ sessionsOf' = Remove(e)
            /\ input' = [input EXCEPT ![e] = InterruptState(@)]
            /\ output' = [output EXCEPT ![e] = EndOutput(@, f.error)]
         \/ e[2] \notin sessionsOf[x] /\ UNCHANGED <<input, output, sessionsOf>>
  BY DEF ReceiveEnd, Found, EndInput, Comes
<1>o. Other(e) = o
  OBVIOUS
<1> HIDE DEF o
<1>4. /\ f.data = 0 /\ EndAt(e, 1) /\ To(e) = carrier[o[1]]
      /\ \A i \in DOMAIN To(e) : i # 1 => 1 < i
      /\ \A i \in DOMAIN To(e) : To(e)[i].id = e[2] => To(e)[i].status # "New"
  <2>1. f.data = 0 /\ EndAt(e, 1) /\ To(e) = carrier[o[1]]
    BY <1>2, <1>p, <1>f DEF Parts, Frames, EndAt, To
  <2>2. \A i \in DOMAIN To(e) : (i # 1 => 1 < i) /\ i \in Nat
    BY <1>2, <1>t, Taken
  <2>3. ASSUME NEW i \in DOMAIN To(e), To(e)[i].id = e[2], To(e)[i].status = "New"
        PROVE  FALSE
    <3>1. i # 1
      BY <1>2, <1>f, <2>3
    <3>2. i < 1
      BY <1>2, <1>p, <1>f, <2>3, <3>1 DEF Parts, Frames
    <3>. QED
      BY <2>2, <3>1, <3>2
  <2>. QED
    BY <2>1, <2>2, <2>3
<1>5. ~Untouched(o)
  BY <1>2, <1>f, <1>p, <1>4 DEF Parts, Continues
<1>6. \A d \in Ends : Started(d)' = Started(d)
  BY <1>3 DEF Started
<1>7. /\ \A d \in Ends : d # e => /\ input'[d] = input[d] /\ output'[d] = output[d]
                                  /\ (d[2] \in sessionsOf'[d[1]]) = (d[2] \in sessionsOf[d[1]])
      /\ e[2] \in sessionsOf'[e[1]] => e[2] \in sessionsOf[e[1]]
      /\ output[e] # "open" => output'[e] = output[e]
  <2>1. CASE e[2] \notin sessionsOf[x] /\ UNCHANGED <<input, output, sessionsOf>>
    BY <2>1
  <2>2. CASE /\ sessionsOf' = Remove(e) /\ input' = [input EXCEPT ![e] = InterruptState(@)]
             /\ output' = [output EXCEPT ![e] = EndOutput(@, f.error)]
    <3>0. /\ input \in [Ends -> {"open", "closed", "errord"}] /\ e \in Ends /\ e[1] = x
          /\ output \in [Ends -> {"open", "closed", "errord"}]
      BY <1>2 DEF Types, LinkTypeOK
    <3>1. /\ output'[e] = EndOutput(output[e], f.error)
          /\ \A d \in Ends : d # e => input'[d] = input[d] /\ output'[d] = output[d]
      BY <2>2, <3>0
    <3>2. /\ \A d \in Ends : d # e => (d[2] \in sessionsOf'[d[1]]) = (d[2] \in sessionsOf[d[1]])
          /\ e[2] \in sessionsOf'[e[1]] => e[2] \in sessionsOf[e[1]]
      BY <1>2, <2>2, <3>0, Removed
    <3>. QED
      BY <3>1, <3>2 DEF EndOutput, CloseState, InterruptState
  <2>. QED
    BY <1>3, <2>1, <2>2
<1>8. Frames(e)'
  <2>1. ASSUME NEW i \in DOMAIN To(e), To(e)[i].id = e[2], To(e)[i].status = "Keep",
               ~Started(e), reader[e[1]].at # "done"
        PROVE  FALSE
    BY <1>2, <1>p, <1>f, <1>4, <2>1 DEF Parts, Frames
  <2>. QED
    BY <1>o, <1>2, <1>t, <1>c, <1>3, <1>4, <1>6, <2>1, FramesTail
<1>9. NewSent(e)'
  BY <1>o, <1>2, <1>p, <1>3, <1>4, <1>6 DEF Parts, NewSent
<1>10. ASSUME e[2] \notin sessionsOf[x] PROVE Parts(e)'
  <2>1. UNCHANGED <<input, output, sessionsOf>>
    BY <1>3, <1>10
  <2>2. \A d \in Ends : Untouched(d)' = Untouched(d)
    BY <1>3, <2>1 DEF Untouched
  <2>3. Copying(e)' /\ Tables(e)' /\ Whole(e)'
    BY <1>o, <1>2, <1>c, <1>3, <1>6, <2>1, Kept
  <2>4. Flow(e)'
    <3>1. ~Held(e)'
      BY <1>2, <1>f, <1>3 DEF Held
    <3>. QED
      BY <1>2, <1>t, <1>f, <1>c, <1>3, <1>4, <2>1, <3>1, FlowTail
  <2>5. Continues(e)'
    BY <1>2, <1>p, <1>c, <1>3, <2>1, <2>2, Kept DEF Parts, Continues
  <2>6. Ending(e)'
    <3>1. CASE Started(e)
      BY <1>2, <1>p, <1>10, <2>1, <3>1 DEF Parts, Tables, Ending, Untouched
    <3>2. CASE ~Started(e)
      <4>1. To(e)' = Tail(To(e))
        BY <1>2, <1>c DEF To
      <4>2. \A i \in DOMAIN Tail(To(e)) : i + 1 \in DOMAIN To(e) /\ Tail(To(e))[i] = To(e)[i + 1]
        BY <1>2, <1>t, Shorter
      <4>3. \A i \in DOMAIN Tail(To(e)) :
                Tail(To(e))[i].id = e[2] => Tail(To(e))[i].status # "New"
        BY <1>4, <4>2
      <4>4. ~Started(e)'
        BY <1>2, <1>6, <3>2
      <4>5. ~Live(e)'
        BY <4>1, <4>3, <4>4 DEF Live
      <4>. QED
        BY <4>5 DEF Ending
    <3>. QED
      BY <3>1, <3>2
  <2>. QED
    BY <1>8, <1>9, <2>3, <2>4, <2>5, <2>6 DEF Parts
<1>11. ASSUME e[2] \in sessionsOf[x] PROVE Parts(e)'
  <2>1. /\ input'[e] = InterruptState(input[e]) /\ output'[e] = EndOutput(output[e], f.error)
        /\ input[e] \in {"open", "closed", "errord"} /\ output[e] \in {"open", "closed", "errord"}
    <3>1. /\ input \in [Ends -> {"open", "closed", "errord"}] /\ e \in Ends
          /\ output \in [Ends -> {"open", "closed", "errord"}]
      BY <1>2 DEF Types, LinkTypeOK
    <3>2. /\ input' = [input EXCEPT ![e] = InterruptState(@)]
          /\ output' = [output EXCEPT ![e] = EndOutput(@, f.error)]
      BY <1>3, <1>11
    <3>. QED
      BY <3>1, <3>2
  <2>2. /\ input'[e] # "open" /\ output'[e] # "open"
        /\ input'[e] = "closed" => input[e] = "closed"
    BY <2>1 DEF InterruptState, EndOutput, CloseState
  <2>3. Started(e) /\ copier[e] \notin {"none", "first", "new"}
    <3>1. Started(e)
      BY <1>2, <1>p, <1>11 DEF Parts, Tables
    <3>2. CASE x = "server"
      BY <1>2, <1>p, <3>1, <3>2 DEF Parts, Copying, Started
    <3>3. CASE x = "client"
      <4>1. e = <<"client", e[2]>> /\ e[2] \in Sessions /\ o[1] \in Side
        BY <1>2, <3>3, EndFacts
      <4>2. carrier[o[1]][1].id = e[2] /\ 1 \in DOMAIN carrier[o[1]]
        BY <1>2, <1>f, <1>4
      <4>. QED
        BY <3>1, <4>1, <4>2, BeforeNew
    <3>. QED
      BY <3>2, <3>3 DEF Side
  <2>4. Copying(e)'
    BY <1>2, <1>p, <1>3, <2>2 DEF Parts, Copying
  <2>5. Tables(e)'
    BY <1>2, <1>p, <1>3, <1>7, <2>2, <2>3 DEF Parts, Tables, Started
  <2>6. Flow(e)' /\ Continues(e)' /\ Ending(e)'
    BY <2>2 DEF Flow, Continues, Ending, Untouched
  <2>7. Whole(e)'
    <3>1. CASE output[e] # "open"
      <4>1. output'[e] = output[e] /\ output'[o] = output[o]
        BY <1>2, <1>7, <3>1
      <4>. QED
        BY <1>o, <1>2, <1>c, <1>3, <4>1, Kept
    <3>2. CASE output[e] = "open"
      <4> SUFFICES ASSUME output'[e] = "closed", ~down, quit[e] = "no", output[o] # "errord"
                   PROVE  /\ quit[o] = "eof" /\ Len(got[e]) = sent[o]
                          /\ copier[o] \in {"close", "done"}
        BY <1>o, <1>2, <1>p, <1>3, <1>7 DEF Parts, Whole
      <4>1. ~f.error
        BY <2>1, <3>2 DEF EndOutput, InterruptState
      <4>2. Untouched(e) /\ Live(e)
        BY <2>3, <3>2 DEF Untouched, Live
      <4>3. /\ copier[o] \in {"close", "done"}
            /\ \A j \in DOMAIN To(e) : 1 < j /\ To(e)[j].id = e[2] => To(e)[j].data = 0
            /\ (\A j \in DOMAIN To(e) : j < 1 => ~EndAt(e, j)) /\ ~To(e)[1].error =>
                   quit[o] = "eof"
        BY <1>o, <1>2, <1>f, <1>p, <1>4, <4>2 DEF Parts, Ending
      <4>4. \A j \in DOMAIN To(e) : ~(j < 1)
        BY <1>2, <1>t, Taken
      <4>5. Len(got[e]) \in Nat /\ sent[o] \in Nat
        BY <1>2, EndTypes, MuxLinkAssumption
      <4>6. Base(e) = Len(got[e])
        <5>1. ~Held(e)
          BY <1>f DEF Held
        <5>. QED
          BY <4>5, <5>1 DEF Base
      <4>7. /\ Len(got[e]) <= sent[o]
            /\ \/ sent[o] = Len(got[e])
               \/ \E i \in DOMAIN To(e) : To(e)[i].id = e[2] /\ To(e)[i].data = sent[o]
        BY <1>o, <1>2, <1>f, <1>p, <3>2, <4>6 DEF Parts, Flow
      <4>8. \A i \in DOMAIN To(e) : To(e)[i].id = e[2] => To(e)[i].data = 0
        BY <1>f, <1>4, <4>3
      <4>9. Len(got[e]) = sent[o]
        BY <4>5, <4>7, <4>8
      <4>. QED
        BY <1>2, <1>f, <4>1, <4>3, <4>4, <4>9
    <3>. QED
      BY <3>1, <3>2
  <2>. QED
    BY <1>8, <1>9, <2>4, <2>5, <2>6, <2>7 DEF Parts
<1>12. Parts(o)'
  <2>1. /\ reader'[o[1]] = reader[o[1]] /\ input'[o] = input[o] /\ output'[o] = output[o]
        /\ Untouched(o)' = Untouched(o)
        /\ (o[2] \in sessionsOf'[o[1]]) = (o[2] \in sessionsOf[o[1]])
    BY <1>2, <1>3, <1>7 DEF Untouched
  <2>2. output'[e] # "errord" => output[e] # "errord"
    BY <1>7
  <2>3. Copying(o)' /\ Tables(o)' /\ Frames(o)' /\ NewSent(o)' /\ Flow(o)'
    BY <1>2, <1>c, <1>3, <1>6, <2>1, Kept
  <2>4. Whole(o)'
    BY <1>2, <1>c, <1>3, <2>1, <2>2, Kept
  <2>5. Ending(o)'
    BY <1>5, <2>1 DEF Ending
  <2>6. Continues(o)'
    BY <1>5, <2>1 DEF Continues
  <2>. QED
    BY <2>3, <2>4, <2>5, <2>6 DEF Parts
<1>13. Within(e[2])
  <2>1. \A d \in Ends : d[2] # e[2] => d # e
    OBVIOUS
  <2>. QED
    BY <1>2, <1>w, <1>3, <1>7, <2>1 DEF Within
<1>14. ASSUME NEW y \in Side PROVE Holding(y)'
  <2>1. \A d \in Ends : output[d] # "open" => output'[d] # "open"
    BY <1>7
  <2>. QED
    BY <1>3, <1>6, <2>1, HoldingKept
<1>. QED
  BY <1>o, <1>2, <1>10, <1>11, <1>12, <1>13, <1>14, SessionStep DEF AllParts

-----------------------------------------------------------------------------
(* All the steps together. *)

\* Nothing has happened at first.
LEMMA LinkStarts ==
  ASSUME LinkInit
  PROVE  LinkInv
<1>1. Types
  <2>1. \A x \in Side : carrier[x] = <<>> /\ Len(carrier[x]) <= Capacity /\ reader[x] = idle
    BY MuxLinkAssumption DEF LinkInit
  <2>2. carrier \in [Side -> Seq(Frame)] /\ reader \in [Side -> Readers]
    BY DEF LinkInit, Readers
  <2>3. /\ item \in [Ends -> 0 .. MaxItems] /\ sent \in [Ends -> 0 .. MaxItems]
        /\ got \in [Ends -> Seq(1 .. MaxItems)]
    BY MuxLinkAssumption DEF LinkInit
  <2>4. /\ down \in BOOLEAN /\ sessionsOf \in [Side -> SUBSET Sessions]
        /\ closedOf \in [Side -> BOOLEAN]
        /\ input \in [Ends -> {"open", "closed", "errord"}]
        /\ output \in [Ends -> {"open", "closed", "errord"}]
        /\ copier \in [Ends -> {"none", "first", "new", "copy", "keep", "end", "close", "done"}]
        /\ hasError \in [Ends -> BOOLEAN] /\ quit \in [Ends -> {"no", "eof", "error"}]
    BY DEF LinkInit
  <2>. QED
    BY <2>1, <2>2, <2>3, <2>4 DEF Types, LinkTypeOK
<1>2. ASSUME NEW e \in Ends PROVE Parts(e)
  <2>0. /\ e[1] \in Side /\ Peer(e[1]) \in Side /\ Other(e) \in Ends
        /\ \A x \in Side, s \in Sessions : <<x, s>> \in Ends
        /\ e[2] \in Sessions /\ "server" \in Side
    BY EndFacts DEF Side
  <2>1. /\ To(e) = <<>> /\ carrier[e[1]] = <<>> /\ reader[e[1]] = idle /\ got[e] = <<>>
        /\ \A d \in Ends : /\ input[d] = "open" /\ output[d] = "open" /\ copier[d] = "none"
                           /\ item[d] = 0 /\ hasError[d] = FALSE /\ quit[d] = "no" /\ sent[d] = 0
        /\ sessionsOf[e[1]] = {} /\ down = FALSE
    BY <2>0 DEF LinkInit, To
  <2>2. ~Started(e) /\ ~Started(<<"server", e[2]>>)
    BY <2>0, <2>1 DEF Started
  <2>3. Copying(e) /\ Tables(e)
    BY <2>0, <2>1, <2>2 DEF Copying, Tables
  <2>4. Frames(e) /\ NewSent(e) /\ Continues(e)
    BY <2>0, <2>1 DEF Frames, NewSent, Continues
  <2>5. ~Held(e) /\ Len(got[e]) = 0
    BY <2>1 DEF Held, idle
  <2>6. Base(e) = 0
    BY <2>5 DEF Base
  <2>7. Flow(e)
    BY <2>0, <2>1, <2>5, <2>6 DEF Flow, Contiguous
  <2>8. Ending(e) /\ Whole(e)
    BY <2>0, <2>1, <2>2, <2>5 DEF Ending, Live, Whole
  <2>. QED
    BY <2>3, <2>4, <2>7, <2>8 DEF Parts
<1>3. \A x \in Side : Holding(x)
  BY DEF LinkInit, Holding, idle
<1>. QED
  BY <1>1, <1>2, <1>3 DEF LinkInv, Parts

\* Every step of the two ends, their applications and the carrier keeps the invariant.
LEMMA LinkKept ==
  ASSUME LinkInv, [LinkNext]_linkVars
  PROVE  LinkInv'
<1>0. Types'
  BY TypesStep
<1>1. SUFFICES AllParts'
  BY <1>0 DEF LinkInv, AllParts, Parts
<1>2. ASSUME NEW s \in Sessions, Open(s) \/ First(s) PROVE AllParts'
  BY <1>0, <1>2, OpenHolds, FirstHolds
<1>3. ASSUME NEW e \in Ends, AppCloses(e) \/ AppFails(e) \/ AppStopsReading(e) PROVE AllParts'
  BY <1>0, <1>3, AppQuits, AppStops
<1>4. ASSUME NEW e \in Ends, CopierStep(e) PROVE AllParts'
  <2>1. CASE Send(e)
    BY <1>0, <2>1, SendFails, SendHolds
  <2>. QED
    BY <1>0, <1>4, <2>1, ReadHolds, SendEndHolds, FinishHolds DEF CopierStep
<1>5. CASE ReceiveNew
  <2>1. PICK f, e : Comes("server", f, e)
    BY DEF Comes
  <2>. QED
    BY <1>0, <1>5, <2>1, ReceiveNewHolds
<1>6. ASSUME NEW x \in Side, ReceiveKeep(x) \/ ReceiveEnd(x) PROVE AllParts'
  <2>1. PICK f, e : Comes(x, f, e)
    BY DEF Comes
  <2>. QED
    BY <1>0, <1>6, <2>1, ReceiveKeepHolds, ReceiveEndHolds
<1>7. ASSUME NEW x \in Side, Deliver(x) \/ Notify(x) \/ Drop(x) PROVE AllParts'
  <2>1. PICK g : g = reader[x].frame
    OBVIOUS
  <2>2. PICK e : e = <<x, g.id>>
    OBVIOUS
  <2>3. CASE Notify(x)
    BY <1>0, <2>1, <2>2, <2>3, NotifyHolds
  <2>4. CASE Deliver(x) /\ output[e] = "open"
    BY <1>0, <2>1, <2>2, <2>4, DeliverHolds
  <2>5. CASE Deliver(x) /\ output[e] # "open"
    BY <1>0, <2>1, <2>2, <2>5, RefuseHolds
  <2>6. CASE Drop(x)
    BY <1>0, <2>6, DropHolds
  <2>. QED
    BY <1>7, <2>3, <2>4, <2>5, <2>6
<1>8. CASE DispatchFails \/ LinkFails \/ \E x \in Side : ReaderEnds(x) \/ WorkerClose(x)
  BY <1>0, <1>8, FailuresHold
<1>9. CASE UNCHANGED linkVars
  <2>0. UNCHANGED <<carrier, down, sessionsOf, closedOf, input, output, copier, item, hasError,
                    reader, quit, sent, got>>
    BY <1>9 DEF linkVars
  <2>1. /\ \A d \in Ends : Started(d)' = Started(d)
        /\ \A d \in Ends : Untouched(d)' = Untouched(d)
    BY <2>0 DEF Started, Untouched
  <2>2. ASSUME NEW e \in Ends PROVE Parts(e)'
    <3>1. Parts(e) /\ Other(e) \in Ends
      BY InvParts, EndFacts
    <3>2. Copying(e)' /\ Tables(e)' /\ Frames(e)' /\ NewSent(e)' /\ Flow(e)' /\ Whole(e)'
      BY <2>0, <2>1, <3>1, Kept
    <3>3. Continues(e)' /\ Ending(e)'
      BY <2>0, <2>1, <3>1, Kept DEF Parts, Continues
    <3>. QED
      BY <3>2, <3>3 DEF Parts
  <2>3. \A x \in Side : Holding(x)'
    BY <2>0, <2>1, HoldingKept
  <2>. QED
    BY <2>2, <2>3 DEF AllParts
<1>. QED
  BY <1>2, <1>3, <1>4, <1>5, <1>6, <1>7, <1>8, <1>9 DEF LinkNext, ReaderStep

\* The invariant holds in every state that the two ends reach.
THEOREM LinkInvariance == LinkSpec => []LinkInv
<1>1. LinkInit => LinkInv
  BY LinkStarts
<1>2. LinkInv /\ [LinkNext]_linkVars => LinkInv'
  BY LinkKept
<1>. QED
  BY <1>1, <1>2, PTL DEF LinkSpec

\* The frames stay within the room of the carrier; what the application of an end gets is a
\* prefix, in order, of what the other one sent; and a clean end of it means that this is all
\* of it (Delivered), for any number of sessions, however New, Keep and End of the two
\* directions cross, sessions leave the tables, and applications close, fail or stop to read.
THEOREM SessionsDelivered == LinkSpec => []LinkWellFormed
<1>1. LinkInv => LinkWellFormed
  <2> SUFFICES ASSUME LinkInv PROVE LinkWellFormed
    OBVIOUS
  <2>1. LinkTypeOK
    BY InvParts DEF Types
  <2>2. Delivered
    BY InvParts DEF Parts, Whole, Delivered
  <2>. QED
    BY <2>1, <2>2 DEF LinkWellFormed
<1>. QED
  BY <1>1, LinkInvariance, PTL
=============================================================================
