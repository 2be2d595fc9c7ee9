--------------------------- MODULE UdpWorkerProofs ---------------------------
(***************************************************************************)
(* What holds of the table of UDP sessions and of its checker for any set  *)
(* of sources and any number of udpConn objects.                           *)
(***************************************************************************)
EXTENDS UdpWorker, WellFoundedInduction, TLAPS

Goroutines == Timers \cup {Hub}

\* A udpConn that is not in use, or is new, has its fields as allocated; the new one is
\* that of callback; one in use has a source.
Sessions ==
    /\ \A c \in Conns : proc[c] \in {"gone", "new"} =>
                             ~done[c] /\ ~inactive[c] /\ ~idle[c]
    /\ \A c \in Conns : proc[c] = "new" <=> c = current
    /\ \A c \in Conns : proc[c] # "gone" => id[c] \in Sources

\* The entry of a source is a connection of that source whose goroutine has not returned;
\* only removeConn may still find an entry that is marked as inactive.
Entries ==
    \A s \in Sources : activeConn[s] # None =>
        /\ id[activeConn[s]] = s
        /\ proc[activeConn[s]] # "gone"
        /\ inactive[activeConn[s]] => proc[activeConn[s]] = "remove"

\* With a proxy that leaves the end of its sessions to the worker, only clean closes a
\* connection: what is closed is marked, and what is not has its entry.
Passive ==
    ~selfEnding =>
        /\ ~panicked /\ exec[Hub] # "failed"
        /\ \A c \in Conns : proc[c] \notin {"set", "remove"}
        /\ \A c \in Conns : proc[c] \in {"close", "look"} => done[c]
        /\ \A c \in Conns : done[c] => inactive[c]
        /\ \A c \in Conns : proc[c] # "gone" /\ ~done[c] => activeConn[id[c]] = c

\* Until Close, one goroutine at most is in checkedExecute or due to be, and only while
\* the checker is running.  An execution that has failed is one that no entry has
\* followed, unless its Start is still to come or was missed.
Checker ==
    /\ exec[Hub] # "none" => callback = "check"
    /\ ~closed => \A k \in Goroutines : exec[k] # "none" => running
    /\ ~closed => \A k, l \in Goroutines : exec[k] # "none" /\ exec[l] # "none" => k = l
    /\ ~closed /\ ~missed /\ callback # "start" /\ Listed # {} =>
           running /\ \A k \in Goroutines : exec[k] # "failed"

WorkerInv == TypeOK /\ Sessions /\ Entries /\ Passive /\ Checker
-----------------------------------------------------------------------------
\* A set of numbers that is not empty has a least one.
LEMMA LeastOfNumbers ==
  ASSUME NEW T, T \subseteq Nat, T # {}
  PROVE  \E m \in T : \A n \in T : m <= n
<1>1. \E m \in T : \A n \in T : ~(<<n, m>> \in OpToRel(<, Nat))
  BY NatLessThanWellFounded, WFMin
<1>2. PICK m \in T : \A n \in T : ~(<<n, m>> \in {p \in Nat \X Nat : p[1] < p[2]})
  BY <1>1 DEF OpToRel
<1>3. ASSUME NEW n \in T PROVE m <= n
  <2>1. <<n, m>> \in Nat \X Nat
    OBVIOUS
  <2>2. ~(n < m)
    BY <1>2, <2>1
  <2> QED
    BY <2>2
<1> QED
  BY <1>3

\* What is allocated is garbage.
LEMMA FreeIsGarbage ==
  ASSUME Free \in Conns
  PROVE  Garbage(Free)
<1> DEFINE T == {c \in Conns : Garbage(c)}
<1>1. T # {}
  BY ConnsAssumption DEF Free, None
<1>2. T \subseteq Nat
  BY ConnsAssumption
<1>3. PICK c \in T : \A d \in T : c <= d
  BY <1>1, <1>2, LeastOfNumbers
<1>4. c \in Conns /\ Garbage(c) /\ \A d \in Conns : Garbage(d) => c <= d
  BY <1>3
<1> QED
  BY <1>4 DEF Free

\* The entries of the table, without their sources.
LEMMA ListedEntries ==
  /\ \A c : c \in Listed <=> c # None /\ \E s \in Sources : activeConn[s] = c
  /\ Listed = {} <=> \A s \in Sources : activeConn[s] = None
BY DEF Listed

\* Start of the worker: the table is empty.
LEMMA WorkerInit ==
  ASSUME Init
  PROVE  WorkerInv
<1>1. TypeOK
  BY DEF Init, TypeOK, Timers, Hub, None
<1>2. Sessions /\ Entries /\ Passive
  BY ConnsAssumption DEF Init, Sessions, Entries, Passive, None, Hub, Timers
<1>3. Checker
  BY ListedEntries DEF Init, Checker, Goroutines, Timers, Hub, None
<1> QED
  BY <1>1, <1>2, <1>3 DEF WorkerInv

\* getConnection puts a new connection in place of none, or of one that is closed.
LEMMA GetConnectionKeeps ==
  ASSUME WorkerInv, ~panicked, NEW s \in Sources, NEW c \in Conns, getConnection(s, c)
  PROVE  WorkerInv'
<1> USE DEF WorkerInv
<1>0. UNCHANGED <<done, inactive, idle, closed, panicked, selfEnding, running, timer,
                  exec, missed>>
  BY DEF getConnection, checkerVars
<1>1. /\ callback = "receive" /\ callback' = "start" /\ current' = c
      /\ activeConn' = [activeConn EXCEPT ![s] = c]
      /\ id' = [id EXCEPT ![c] = s]
      /\ proc' = [proc EXCEPT ![c] = "new"]
      /\ activeConn[s] = None \/ done[activeConn[s]]
  BY DEF getConnection, Goto, Usable
<1>2. proc[c] = "gone" /\ \A t \in Sources : activeConn[t] # c
  BY FreeIsGarbage, ConnsAssumption DEF getConnection, Garbage, Listed, None
<1>3. TypeOK'
  BY <1>0, <1>1, ConnsAssumption DEF TypeOK, None
<1>4. current = None
  BY <1>1 DEF TypeOK
<1>5. Sessions'
  BY <1>0, <1>1, <1>2, <1>4, ConnsAssumption DEF Sessions, TypeOK, None
<1>6. Entries'
  BY <1>0, <1>1, <1>2 DEF Entries, Sessions, TypeOK
<1>7. Passive'
  <2> SUFFICES ASSUME ~selfEnding PROVE Passive'
    BY <1>0 DEF Passive
  <2>1. activeConn[s] = None
    BY <1>1 DEF Passive, Entries, TypeOK
  <2>2. \A d \in Conns : (proc[d] # "gone" /\ ~done[d] => activeConn[id[d]] = d)'
    BY <1>0, <1>1, <1>2, <2>1, ConnsAssumption DEF Passive, Sessions, TypeOK, None
  <2> QED
    BY <1>0, <1>1, <1>2, <2>2 DEF Passive, Sessions, TypeOK
<1>8. Checker'
  BY <1>0, <1>1 DEF Checker
<1> QED
  BY <1>3, <1>5, <1>6, <1>7, <1>8

\* Start is missed when it comes between a failed execution and its end.
LEMMA StartKeeps ==
  ASSUME WorkerInv, ~panicked, Start
  PROVE  WorkerInv'
<1> USE DEF WorkerInv
<1>0. UNCHANGED <<activeConn, id, done, inactive, idle, proc, current, timer, closed,
                  panicked, selfEnding>>
  BY DEF Start, tableVars
<1>1. /\ callback = "start" /\ running' = TRUE
      /\ missed' = (running /\ \E k \in Timers : exec[k] = "failed")
      /\ \/ running /\ callback' = "spawn" /\ exec' = exec
         \/ ~running /\ callback' = "check" /\ exec' = [exec EXCEPT ![Hub] = "fired"]
  BY DEF Start, GotoExec
<1>2. TypeOK'
  BY <1>0, <1>1 DEF TypeOK, Timers, Hub
<1>3. Sessions' /\ Entries'
  BY <1>0 DEF Sessions, Entries
<1>4. Passive'
  BY <1>0, <1>1 DEF Passive, TypeOK, Timers, Hub
<1>5. exec[Hub] = "none"
  BY <1>1 DEF Checker
<1>6. Checker'
  BY <1>0, <1>1, <1>5 DEF Checker, TypeOK, Goroutines, Timers, Hub
<1> QED
  BY <1>2, <1>3, <1>4, <1>6

\* The new connection gets its goroutine.
LEMMA SpawnKeeps ==
  ASSUME WorkerInv, ~panicked, Spawn
  PROVE  WorkerInv'
<1> USE DEF WorkerInv
<1>0. UNCHANGED <<activeConn, id, done, inactive, idle, running, timer, exec, missed,
                  closed, panicked, selfEnding>>
  BY DEF Spawn, checkerVars
<1>1. /\ callback = "spawn" /\ proc' = [proc EXCEPT ![current] = "process"]
      /\ callback' = "receive" /\ current' = None /\ current \in Conns
  BY DEF Spawn, Goto, TypeOK
<1>2. TypeOK'
  BY <1>0, <1>1 DEF TypeOK
<1>3. proc[current] = "new"
  BY <1>1 DEF Sessions
<1>4. Sessions'
  BY <1>0, <1>1, <1>3, ConnsAssumption DEF Sessions, TypeOK, None
<1>5. Entries' /\ Passive'
  BY <1>0, <1>1, <1>3 DEF Entries, Passive, TypeOK
<1>6. Checker'
  BY <1>0, <1>1 DEF Checker, Listed
<1> QED
  BY <1>2, <1>4, <1>5, <1>6
-----------------------------------------------------------------------------
\* Steps of a session's goroutine leave callback and the checker alone, and so the
\* checker's part of the invariant holds unless the table gets an entry.
LEMMA CheckerStays ==
  ASSUME WorkerInv, Listed' \subseteq Listed,
         UNCHANGED <<callback, running, exec, missed, closed>>
  PROVE  Checker'
BY DEF WorkerInv, Checker

\* Activity and its absence, and the end of Process.
LEMMA ProcessKeeps ==
  ASSUME WorkerInv, ~panicked, NEW c \in Conns,
         Activity(c) \/ Elapse(c) \/ ProcessEnds(c)
  PROVE  WorkerInv'
<1> USE DEF WorkerInv
<1>0. UNCHANGED <<activeConn, id, done, inactive, callback, current, running, timer, exec,
                  missed, closed, panicked, selfEnding>>
  BY DEF Activity, Elapse, ProcessEnds, checkerVars
<1>1. /\ proc[c] = "process"
      /\ \/ /\ proc' = proc
            /\ \/ idle' = [idle EXCEPT ![c] = FALSE]
               \/ idle' = [idle EXCEPT ![c] = TRUE]
         \/ /\ idle' = idle
            /\ proc' = [proc EXCEPT ![c] = "close"]
            /\ selfEnding \/ done[c]
  BY DEF Activity, Elapse, ProcessEnds, Goto
<1>2. TypeOK'
  BY <1>0, <1>1 DEF TypeOK
<1>3. Sessions'
  BY <1>0, <1>1 DEF Sessions, TypeOK
<1>4. Entries' /\ Passive'
  BY <1>0, <1>1 DEF Entries, Passive, TypeOK
<1>5. Checker'
  BY <1>0, CheckerStays DEF Listed
<1> QED
  BY <1>2, <1>3, <1>4, <1>5

\* The goroutine closes the connection and marks it.
LEMMA CloseConnKeeps ==
  ASSUME WorkerInv, ~panicked, NEW c \in Conns, CloseConn(c) \/ setInactive(c)
  PROVE  WorkerInv'
<1> USE DEF WorkerInv
<1>0. UNCHANGED <<activeConn, id, idle, callback, current, running, timer, exec, missed,
                  closed, panicked, selfEnding>>
  BY DEF CloseConn, setInactive, checkerVars
<1>1. \/ /\ proc[c] = "close" /\ proc' = [proc EXCEPT ![c] = "look"]
         /\ done' = [done EXCEPT ![c] = TRUE] /\ inactive' = inactive
      \/ /\ proc[c] = "set" /\ proc' = [proc EXCEPT ![c] = "remove"]
         /\ inactive' = [inactive EXCEPT ![c] = TRUE] /\ done' = done
  BY DEF CloseConn, setInactive, Goto
<1>2. TypeOK'
  BY <1>0, <1>1 DEF TypeOK
<1>3. Sessions'
  BY <1>0, <1>1 DEF Sessions, TypeOK
<1>4. Entries' /\ Passive'
  BY <1>0, <1>1 DEF Entries, Passive, TypeOK
<1>5. Checker'
  BY <1>0, CheckerStays DEF Listed
<1> QED
  BY <1>2, <1>3, <1>4, <1>5

\* The goroutine returns when it finds the connection marked, which has then no entry.
LEMMA LookInactiveKeeps ==
  ASSUME WorkerInv, ~panicked, NEW c \in Conns, LookInactive(c)
  PROVE  WorkerInv'
<1> USE DEF WorkerInv
<1>0. UNCHANGED <<activeConn, callback, current, running, timer, exec, missed,
                  closed, panicked, selfEnding>> /\ proc[c] = "look"
  BY DEF LookInactive, checkerVars
<1>5. Checker'
  BY <1>0, CheckerStays DEF Listed
<1>1. CASE inactive[c]
  <2>1. /\ id' = [id EXCEPT ![c] = None] /\ done' = [done EXCEPT ![c] = FALSE]
        /\ inactive' = [inactive EXCEPT ![c] = FALSE]
        /\ idle' = [idle EXCEPT ![c] = FALSE]
        /\ proc' = [proc EXCEPT ![c] = "gone"]
    BY <1>1 DEF LookInactive, Collected, Goto
  <2>2. \A s \in Sources : activeConn[s] # c
    BY <1>0, <1>1, ConnsAssumption DEF Entries, None
  <2>3. TypeOK'
    BY <1>0, <2>1 DEF TypeOK
  <2>4. Sessions'
    BY <1>0, <2>1 DEF Sessions, TypeOK
  <2>5. Entries'
    BY <1>0, <2>1, <2>2 DEF Entries, TypeOK
  <2>6. Passive'
    BY <1>0, <2>1 DEF Passive, TypeOK
  <2> QED
    BY <1>5, <2>3, <2>4, <2>5, <2>6
<1>2. CASE ~inactive[c]
  <2>1. UNCHANGED <<id, done, inactive, idle>> /\ proc' = [proc EXCEPT ![c] = "set"]
    BY <1>2 DEF LookInactive, Goto
  <2>3. TypeOK'
    BY <1>0, <2>1 DEF TypeOK
  <2>4. Sessions' /\ Entries'
    BY <1>0, <1>2, <2>1 DEF Sessions, Entries, TypeOK
  <2>6. Passive'
    BY <1>0, <1>2, <2>1 DEF Passive, TypeOK
  <2> QED
    BY <1>5, <2>3, <2>4, <2>6
<1> QED
  BY <1>1, <1>2

\* removeConn takes the entry of the source, its own or that of a successor.
LEMMA RemoveConnKeeps ==
  ASSUME WorkerInv, ~panicked, NEW c \in Conns, removeConn(c)
  PROVE  WorkerInv'
<1> USE DEF WorkerInv
<1>0. UNCHANGED <<callback, current, running, timer, exec, missed,
                  closed, panicked, selfEnding>> /\ proc[c] = "remove"
  BY DEF removeConn, checkerVars
<1>1. /\ id' = [id EXCEPT ![c] = None] /\ done' = [done EXCEPT ![c] = FALSE]
      /\ inactive' = [inactive EXCEPT ![c] = FALSE]
      /\ idle' = [idle EXCEPT ![c] = FALSE]
      /\ proc' = [proc EXCEPT ![c] = "gone"]
      /\ activeConn' = [activeConn EXCEPT ![id[c]] = None]
  BY DEF removeConn, Collected, Goto
<1>2. id[c] \in Sources /\ selfEnding
  BY <1>0 DEF Sessions, Passive
<1>3. TypeOK'
  BY <1>0, <1>1, <1>2 DEF TypeOK
<1>4. Sessions'
  BY <1>0, <1>1 DEF Sessions, TypeOK
<1>5. Entries'
  BY <1>0, <1>1, <1>2 DEF Entries, TypeOK
<1>6. Passive'
  BY <1>0, <1>2 DEF Passive
<1>7. \A s \in Sources : activeConn'[s] # None => activeConn'[s] = activeConn[s]
  BY <1>1 DEF TypeOK
<1>8. Checker'
  BY <1>0, <1>7, CheckerStays DEF Listed
<1> QED
  BY <1>3, <1>4, <1>5, <1>6, <1>8
-----------------------------------------------------------------------------
\* Steps of the checker that leave the table alone.
LEMMA TableStays ==
  ASSUME WorkerInv, UNCHANGED tableVars, UNCHANGED <<current, selfEnding>>
  PROVE  Sessions' /\ Entries'
BY DEF WorkerInv, Sessions, Entries, tableVars

\* A timer fires, and checkedExecute looks whether the checker was closed.
LEMMA FireKeeps ==
  ASSUME WorkerInv, ~panicked, NEW k \in Goroutines, Fire(k) \/ hasClosed(k)
  PROVE  WorkerInv'
<1> USE DEF WorkerInv
<1>0. /\ UNCHANGED tableVars
      /\ UNCHANGED <<current, running, timer, missed, closed, panicked, selfEnding>>
  BY DEF Fire, hasClosed
<1>1. /\ exec[k] # "none"
      /\ \/ /\ callback' = callback
            /\ \/ exec' = [exec EXCEPT ![k] = "fired"] /\ k # Hub
               \/ exec' = [exec EXCEPT ![k] = "clean"]
         \/ /\ ~running /\ exec' = [exec EXCEPT ![k] = "none"]
            /\ callback' = IF k = Hub THEN "spawn" ELSE callback
  BY DEF Fire, hasClosed, Returned, GotoExec
<1>2. TypeOK'
  BY <1>0, <1>1 DEF TypeOK, Checker, Goroutines, tableVars
<1>3. Passive'
  BY <1>0, <1>1 DEF Passive, TypeOK, tableVars, Goroutines
<1>4. Checker'
  BY <1>0, <1>1 DEF Checker, TypeOK, tableVars, Goroutines, Listed
<1> QED
  BY <1>0, <1>2, <1>3, <1>4, TableStays

\* clean finds the table empty, which it is not while a passive proxy's Start waits.
LEMMA CleanFailsKeeps ==
  ASSUME WorkerInv, ~panicked, NEW k \in Goroutines, clean(k), Listed = {}
  PROVE  WorkerInv'
<1> USE DEF WorkerInv
<1>0. /\ UNCHANGED tableVars
      /\ UNCHANGED <<callback, current, running, timer, missed, closed, panicked, selfEnding>>
  BY DEF clean
<1>1. exec[k] = "clean" /\ exec' = [exec EXCEPT ![k] = "failed"]
  BY DEF clean, GotoExec
<1>2. TypeOK'
  BY <1>0, <1>1 DEF TypeOK, Goroutines, tableVars
<1>3. Passive'
  <2> SUFFICES ASSUME ~selfEnding PROVE k # Hub
    BY <1>0, <1>1 DEF Passive, TypeOK, tableVars, Goroutines, Timers, Hub
  <2>1. SUFFICES ASSUME k = Hub PROVE FALSE
    OBVIOUS
  <2>2. current \in Conns
    BY <1>1, <2>1 DEF Checker, TypeOK
  <2>3. activeConn[id[current]] = current /\ id[current] \in Sources
    BY <2>2 DEF Sessions, Passive
  <2> QED
    BY <2>2, <2>3, ListedEntries, ConnsAssumption DEF None
<1>4. Listed' = {}
  BY <1>0 DEF tableVars, Listed
<1>5. Checker'
  BY <1>0, <1>1, <1>4 DEF Checker, TypeOK, Goroutines
<1> QED
  BY <1>0, <1>2, <1>3, <1>5, TableStays

\* clean closes and marks what is idle, and removes the entries that were not marked.
LEMMA CleanKeeps ==
  ASSUME WorkerInv, ~panicked, NEW k \in Goroutines, clean(k), Listed # {}
  PROVE  WorkerInv'
<1> USE DEF WorkerInv
<1> DEFINE gone == {activeConn[s] : s \in Expired}
<1>0. UNCHANGED <<id, idle, proc, callback, current, running, timer, missed, closed,
                  panicked, selfEnding>>
  BY DEF clean
<1>1. /\ exec[k] = "clean" /\ exec' = [exec EXCEPT ![k] = "executed"]
      /\ activeConn' = [s \in Sources |->
             IF s \in Expired /\ ~inactive[activeConn[s]] THEN None ELSE activeConn[s]]
      /\ inactive' = [c \in Conns |-> inactive[c] \/ c \in gone]
      /\ done' = [c \in Conns |-> done[c] \/ c \in gone]
  BY DEF clean, GotoExec, MarkInactive
<1>2. \A c \in Conns : c \in gone =>
         /\ idle[c] /\ proc[c] # "gone" /\ id[c] \in Expired /\ activeConn[id[c]] = c
  BY DEF Expired, Entries
<1>a. \A s \in Sources : s \in Expired => activeConn[s] \in gone /\ activeConn[s] \in Conns
  BY DEF Expired, TypeOK
<1>b. \A s \in Sources : activeConn[s] \in gone => s \in Expired
  BY DEF Expired
<1>c. \A s \in Sources : activeConn'[s] # None =>
         activeConn'[s] = activeConn[s] /\ (s \in Expired => inactive[activeConn[s]])
  BY <1>1
<1> HIDE DEF gone
<1>3. TypeOK'
  BY <1>0, <1>1 DEF TypeOK, Goroutines
<1>4. Sessions'
  BY <1>0, <1>1, <1>2 DEF Sessions
<1>5. Entries'
  <2> SUFFICES ASSUME NEW s \in Sources, activeConn'[s] # None
               PROVE  (/\ id[activeConn[s]] = s /\ proc[activeConn[s]] # "gone"
                       /\ inactive[activeConn[s]] => proc[activeConn[s]] = "remove")'
    BY DEF Entries
  <2>1. activeConn[s] \in Conns /\ activeConn'[s] = activeConn[s]
    BY <1>c DEF TypeOK
  <2>2. inactive'[activeConn[s]] => inactive[activeConn[s]]
    BY <1>1, <1>b, <1>c, <2>1
  <2> QED
    BY <1>0, <2>1, <2>2 DEF Entries
<1>6. Passive'
  <2> SUFFICES ASSUME ~selfEnding PROVE Passive'
    BY <1>0 DEF Passive
  <2>1. exec'[Hub] # "failed"
    BY <1>1 DEF Passive, TypeOK, Goroutines
  <2>2. ASSUME NEW c \in Conns, proc[c] # "gone", ~done'[c] PROVE activeConn'[id[c]] = c
    <3>1. ~done[c] /\ c \notin gone
      BY <1>1, <2>2
    <3>2. activeConn[id[c]] = c /\ id[c] \in Sources
      BY <2>2, <3>1 DEF Passive, Sessions
    <3> QED
      BY <1>1, <1>a, <3>1, <3>2
  <2> QED
    BY <1>0, <1>1, <2>1, <2>2 DEF Passive
<1>7. Listed' \subseteq Listed
  BY <1>c DEF Listed
<1>8. Checker'
  BY <1>0, <1>1, <1>7 DEF Checker, TypeOK, Goroutines
<1> QED
  BY <1>3, <1>4, <1>5, <1>6, <1>8

\* The checker stops; the process too, when the execution was that of Start.
LEMMA FailedKeeps ==
  ASSUME WorkerInv, ~panicked, NEW k \in Goroutines, Failed(k)
  PROVE  WorkerInv'
<1> USE DEF WorkerInv
<1>0. /\ UNCHANGED tableVars
      /\ UNCHANGED <<callback, current, timer, missed, closed, selfEnding>>
  BY DEF Failed
<1>1. /\ exec[k] = "failed" /\ exec' = [exec EXCEPT ![k] = "none"]
      /\ running' = FALSE /\ panicked' = (k = Hub)
  BY DEF Failed, GotoExec
<1>2. TypeOK'
  BY <1>0, <1>1 DEF TypeOK, Goroutines, tableVars
<1>3. Passive'
  BY <1>0, <1>1 DEF Passive, TypeOK, tableVars, Goroutines
<1>4. Listed' = Listed
  BY <1>0 DEF Listed, tableVars
<1>5. Checker'
  BY <1>0, <1>1, <1>4 DEF Checker, TypeOK, Goroutines
<1> QED
  BY <1>0, <1>2, <1>3, <1>5, TableStays

\* The next execution is due, unless the checker was closed.
LEMMA RearmKeeps ==
  ASSUME WorkerInv, ~panicked, NEW k \in Goroutines, NEW j \in Timers, Rearm(k, j)
  PROVE  WorkerInv'
<1> USE DEF WorkerInv
<1>0. /\ UNCHANGED tableVars
      /\ UNCHANGED <<current, running, missed, closed, panicked, selfEnding>>
  BY DEF Rearm
<1>1. /\ exec[k] = "executed" /\ (k # Hub => j = k) /\ (k = Hub => exec[j] = "none")
      /\ callback' = IF k = Hub THEN "spawn" ELSE callback
      /\ \/ /\ running /\ timer' = j
            /\ exec' = [exec EXCEPT ![k] = "none", ![j] = "armed"]
         \/ /\ exec' = [exec EXCEPT ![k] = "none"]
            /\ timer' = timer
  BY DEF Rearm, Returned, GotoExec
<1>2. TypeOK'
  BY <1>0, <1>1 DEF TypeOK, Checker, Goroutines, tableVars
<1>3. j # Hub /\ j \in Goroutines
  BY DEF Timers, Hub, Goroutines
<1>4. Passive'
  BY <1>0, <1>1, <1>3 DEF Passive, TypeOK, tableVars, Goroutines
<1>5. Listed' = Listed
  BY <1>0 DEF Listed, tableVars
<1>6. /\ \A l \in Goroutines : l # k /\ l # j => exec'[l] = exec[l]
      /\ exec'[k] \in {"none", "armed"} /\ exec'[j] \in {"none", "armed"}
      /\ k # j => exec'[k] = "none"
  BY <1>1, <1>3 DEF TypeOK, Goroutines
<1>7. \A l \in Goroutines : exec'[l] # "none" => exec[l] # "none" \/ (k # j /\ l = j)
  BY <1>1, <1>6
<1>8. Checker'
  <2>1. (exec[Hub] # "none" => callback = "check")'
    BY <1>1, <1>3, <1>6 DEF Checker, Goroutines
  <2>2. ~closed => \A l \in Goroutines : exec'[l] # "none" => running'
    BY <1>0, <1>1, <1>7 DEF Checker
  <2>3. ASSUME ~closed, NEW l \in Goroutines, NEW m \in Goroutines,
               exec'[l] # "none", exec'[m] # "none"
        PROVE  l = m
    <3>1. \A n \in Goroutines : exec[n] # "none" => n = k
      BY <1>1, <2>3 DEF Checker
    <3> QED
      BY <1>6, <1>7, <2>3, <3>1
  <2>4. \A l \in Goroutines : exec'[l] = "failed" => exec[l] = "failed"
    BY <1>6
  <2>5. callback # "start" => callback' # "start"
    BY <1>1
  <2>6. callback = "start" => callback' = "start"
    BY <1>1 DEF Checker, Goroutines
  <2> QED
    BY <1>0, <1>5, <2>1, <2>2, <2>3, <2>4, <2>5, <2>6 DEF Checker
<1> QED
  BY <1>0, <1>2, <1>4, <1>8, TableStays

\* After Close nothing is asked of the checker any more.
LEMMA CloseWorkerKeeps ==
  ASSUME WorkerInv, ~panicked, CloseWorker
  PROVE  WorkerInv'
<1> USE DEF WorkerInv
<1>0. /\ UNCHANGED tableVars
      /\ UNCHANGED <<callback, current, missed, panicked, selfEnding>>
  BY DEF CloseWorker
<1>1. /\ closed' = TRUE /\ running' = FALSE /\ timer' = None
      /\ exec' = [k \in Goroutines |->
             IF k = timer /\ exec[k] = "armed" THEN "none" ELSE exec[k]]
  BY DEF CloseWorker, TypeOK, Goroutines
<1>2. TypeOK'
  BY <1>0, <1>1 DEF TypeOK, Goroutines, tableVars
<1>3. Passive' /\ Checker'
  BY <1>0, <1>1 DEF Passive, Checker, TypeOK, tableVars, Goroutines, Hub
<1> QED
  BY <1>0, <1>2, <1>3, TableStays
-----------------------------------------------------------------------------
\* Every step of the hub's goroutine, the sessions', the checker's and of Close keeps the
\* invariant.
LEMMA WorkerStep ==
  ASSUME WorkerInv, [Next]_vars
  PROVE  WorkerInv'
<1>1. CASE Next
  <2>0. ~panicked
    BY <1>1 DEF Next
  <2>1. ASSUME NEW s \in Sources, NEW c \in Conns, getConnection(s, c) PROVE WorkerInv'
    BY <2>0, <2>1, GetConnectionKeeps
  <2>2. CASE CallbackStep
    BY <2>0, <2>2, StartKeeps, SpawnKeeps DEF CallbackStep
  <2>3. ASSUME NEW c \in Conns, Activity(c) \/ Elapse(c) \/ ProcessEnds(c) PROVE WorkerInv'
    BY <2>0, <2>3, ProcessKeeps
  <2>4. ASSUME NEW c \in Conns, SessionStep(c) PROVE WorkerInv'
    BY <2>0, <2>4, CloseConnKeeps, LookInactiveKeeps, RemoveConnKeeps DEF SessionStep
  <2>5. ASSUME NEW k \in Goroutines, ExecStep(k) PROVE WorkerInv'
    BY <2>0, <2>5, FireKeeps, CleanFailsKeeps, CleanKeeps, FailedKeeps, RearmKeeps
    DEF ExecStep
  <2>6. CASE CloseWorker
    BY <2>0, <2>6, CloseWorkerKeeps
  <2> QED
    BY <1>1, <2>1, <2>2, <2>3, <2>4, <2>5, <2>6 DEF Next, Goroutines
<1>2. CASE UNCHANGED vars
  BY <1>2 DEF vars, tableVars, checkerVars, WorkerInv, TypeOK, Sessions, Entries, Passive,
              Checker, Listed
<1> QED
  BY <1>1, <1>2

\* The inductive invariant of udpWorker's table and checker.
THEOREM WorkerInvariance == Spec => []WorkerInv
BY WorkerInit, WorkerStep, PTL DEF Spec

\* The table of udpWorker holds only connections whose goroutine has not returned, and
\* while it holds one the checker is running or callback is about to start it, unless
\* the last Start came between a failed clean and the reset of running.
THEOREM TableIsLookedAfter == Spec => []WellFormed
<1>1. WorkerInv => WellFormed
  <2> SUFFICES ASSUME WorkerInv PROVE WellFormed
    OBVIOUS
  <2>1. NoStaleEntry
    BY DEF WorkerInv, Entries, NoStaleEntry, Listed
  <2>2. CheckerRuns
    BY DEF WorkerInv, Checker, CheckerRuns
  <2> QED
    BY <2>1, <2>2 DEF WorkerInv, WellFormed
<1> QED
  BY <1>1, WorkerInvariance, PTL

\* With proxies that leave the end of their sessions to the worker, the goroutine of a
\* closed connection never takes the entry of its successor: a source has one session.
THEOREM PassiveSourcesHaveOneSession == Spec => []OneSession
<1>1. WorkerInv => OneSession
  BY DEF WorkerInv, Passive, OneSession
<1> QED
  BY <1>1, WorkerInvariance, PTL

\* With such proxies the Must around checker.Start in callback never panics.
THEOREM PassiveStartSucceeds == Spec => []StartSucceedsForPassive
<1>1. WorkerInv => StartSucceedsForPassive
  BY DEF WorkerInv, Passive, StartSucceedsForPassive, StartSucceeds
<1> QED
  BY <1>1, WorkerInvariance, PTL
=============================================================================
