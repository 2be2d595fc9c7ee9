------------------------- MODULE KcpConnectionProofs -------------------------
(***************************************************************************)
(* Proofs about KcpConnection for any ways to use a connection, any window *)
(* and any numbers of buffers and segments: types, the release of the      *)
(* sending window, and that Close is graceful.                             *)
(***************************************************************************)
EXTENDS KcpConnection, TLAPS

(* Types. *)

\* TypeOK with its parts apart
Flags == /\ aged \in BOOLEAN /\ silent \in BOOLEAN /\ arrived \in BOOLEAN
         /\ acks \in BOOLEAN /\ dataInput \in BOOLEAN /\ dataOutput \in BOOLEAN
         /\ released \in BOOLEAN /\ terminate \in BOOLEAN /\ held \in BOOLEAN
         /\ updatePending \in BOOLEAN /\ closing \in BOOLEAN /\ excused \in BOOLEAN
         /\ late \in [Updaters -> SUBSET {"state", "incoming"}]

Goal == [to : State, then : Labels]

Places == pc \in [Threads -> Labels] /\ goal \in [Threads -> Goal]

Sets == /\ window \subseteq Buffers /\ pushed \subseteq Buffers
        /\ confirmed \subseteq Buffers /\ dropped \subseteq Buffers

Rest == /\ use \in Uses /\ state \in State
        /\ seg \in Segments
        /\ next \in 1 .. MaxPush + 1 /\ inputs \in 0 .. MaxInput

Types == Flags /\ Places /\ Sets /\ Rest

\* They are all of it.
LEMMA TypesAreTypes == TypeOK <=> Types
BY DEF TypeOK, Types, Flags, Places, Sets, Rest, Goal

\* The bounds are numbers.
LEMMA Bounds == SendWindow \in Nat /\ MaxPush \in Nat /\ MaxInput \in Nat
BY ConnectionAssumption

\* A buffer that is held or being pushed is there to be pushed, and the buffers that
\* were are numbered below the next one.
Writing ==
    /\ held => next \in Buffers
    /\ pc["writer"] = "push" => held
    /\ \A b \in (confirmed \cup pushed) \cup window : b < next

\* A wake-up or a step to a label leaves every thread at a label.
LEMMA WakeUpTypes ==
  ASSUME NEW p \in [Threads -> Labels], NEW u \in Updaters
  PROVE  /\ WakeUp(p, u) \in [Threads -> Labels]
         /\ \A t \in Threads : t # u => WakeUp(p, u)[t] = p[t]
         /\ WakeUp(p, u)[u] = p[u] \/ WakeUp(p, u)[u] = "run"
<1>1. u \in Threads /\ "run" \in Labels
  BY DEF Threads, Labels
<1>2. CASE p[u] = "off"
  BY <1>1, <1>2 DEF WakeUp
<1>3. CASE p[u] # "off"
  BY <1>1, <1>3 DEF WakeUp
<1>. QED
  BY <1>2, <1>3

\* The steps of a thread.
LEMMA GotoTypes ==
  ASSUME Places, NEW t \in Threads, NEW l \in Labels
  PROVE  /\ [pc EXCEPT ![t] = l] \in [Threads -> Labels]
         /\ \A r \in Threads : r # t => [pc EXCEPT ![t] = l][r] = pc[r]
         /\ [pc EXCEPT ![t] = l][t] = l
BY DEF Places

\* What Decide and GoOn do, point by point.
LEMMA DecideDoes ==
  ASSUME Places, NEW t \in Threads, NEW s \in State, NEW l \in Labels, Decide(t, s, l)
  PROVE  /\ Places'
         /\ pc'[t] = "set" /\ goal'[t].to = s /\ goal'[t].then = l
         /\ \A r \in Threads : r # t => pc'[r] = pc[r] /\ goal'[r] = goal[r]
<1>1. [to |-> s, then |-> l] \in Goal /\ "set" \in Labels
  BY DEF Goal, Labels
<1>2. /\ pc' = [pc EXCEPT ![t] = "set"]
      /\ goal' = [goal EXCEPT ![t] = [to |-> s, then |-> l]]
  BY DEF Decide, Goto
<1>. QED
  BY <1>1, <1>2 DEF Places

\* A thread goes on without a decision.
LEMMA GoOnDoes ==
  ASSUME Places, NEW t \in Threads, NEW l \in Labels, GoOn(t, l)
  PROVE  /\ Places' /\ goal' = goal /\ pc'[t] = l
         /\ \A r \in Threads : r # t => pc'[r] = pc[r]
BY GotoTypes DEF Places, GoOn, Goto
-----------------------------------------------------------------------------
(* Why nothing that was confirmed is discarded without an excuse. *)

\* Without an excuse the only threads that are about to set the state, or its time, are
\* the closer and updaters in Close, called in Active, and updaters that have seen
\* ReadyToClose with nothing left that was confirmed.
Plan(t) ==
    \/ t # "input" /\ goal[t].to = "ReadyToClose"
    \/ /\ t \in Updaters /\ goal[t].to = "Terminating" /\ state # "Active"
       /\ window \cap confirmed = {}

Quiet ==
    ~excused => /\ state \in {"Active", "ReadyToClose", "Terminating"}
                /\ ~terminate /\ ~aged /\ ~silent
                /\ pc["input"] # "command"
                /\ \A t \in Threads : pc[t] \in {"set", "stamp"} => Plan(t)

\* Nothing is discarded in Active, to which the connection never returns, and nothing
\* that was confirmed is among what was discarded.
Kept ==
    /\ dropped # {} => state # "Active"
    /\ \A t \in Threads : pc[t] \in {"set", "stamp"} => /\ goal[t].to # "Active"
                                           /\ goal[t].then \notin {"set", "stamp", "push"}
    /\ confirmed \cap dropped = {}

Inv == Types /\ Writing /\ Quiet /\ Kept /\ NoLeak

\* Steps that neither set the state nor push, confirm or discard a buffer, and in
\* which only a thread with a plan decides to set the state.
LEMMA CalmStep ==
  ASSUME Inv,
         UNCHANGED <<state, confirmed, next, dropped>>,
         pushed' \subseteq pushed, held' => held \/ next \in Buffers,
         released' => released, window' \subseteq window,
         excused => excused',
         ~excused' => ~terminate' /\ ~aged' /\ ~silent' /\ pc'["input"] # "command",
         pc'["writer"] = "push" => held' \/ (pc["writer"] = "push" /\ held' = held),
         \A t \in Threads : pc'[t] \in {"set", "stamp"} =>
            \/ pc[t] \in {"set", "stamp"} /\ goal'[t] = goal[t]
            \/ /\ goal'[t].to # "Active" /\ goal'[t].then \notin {"set", "stamp", "push"}
               /\ ~excused' => Plan(t)'
  PROVE  Writing' /\ Quiet' /\ Kept' /\ NoLeak'
<1>1. Writing'
  BY DEF Inv, Writing, Buffers
<1>2. Quiet'
  <2> SUFFICES ASSUME ~excused' PROVE Quiet'
    BY DEF Quiet
  <2>1. ~excused
    OBVIOUS
  <2>2. ASSUME NEW t \in Threads, pc'[t] \in {"set", "stamp"} PROVE Plan(t)'
    <3>1. CASE pc[t] \in {"set", "stamp"} /\ goal'[t] = goal[t]
      <4>1. Plan(t)
        BY <2>1, <3>1 DEF Inv, Quiet
      <4>. QED
        BY <3>1, <4>1 DEF Plan
    <3>. QED
      BY <2>2, <3>1
  <2>. QED
    BY <2>1, <2>2 DEF Inv, Quiet
<1>3. Kept'
  BY DEF Inv, Kept
<1>4. NoLeak'
  BY DEF Inv, NoLeak
<1>. QED
  BY <1>1, <1>2, <1>3, <1>4

\* Threads and labels that the steps name.
LEMMA Names ==
  /\ {"data", "ping", "input", "closer", "reader", "writer"} \subseteq Threads
  /\ {"idle", "set", "stamp", "off", "run", "loop", "signal", "flush", "write", "command",
      "process", "check", "take", "peer", "wait", "push"} \subseteq Labels
  /\ {"Active", "ReadyToClose", "PeerClosed", "Terminating", "PeerTerminating",
      "Terminated"} \subseteq State
  /\ "data" \in Updaters /\ "ping" \in Updaters /\ Updaters \subseteq Threads
BY DEF Threads, Labels, State, Updaters

\* What holds of an Updater's name.
LEMMA UpdaterNames ==
  ASSUME NEW u \in Updaters
  PROVE  u \in Threads /\ u # "input" /\ u # "closer" /\ u # "reader" /\ u # "writer"
BY DEF Updaters, Threads

\* Close, by the closer or by an updater that may.
LEMMA CloseDoes ==
  ASSUME Inv, NEW t \in Threads, NEW l \in Labels, Close(t, l)
  PROVE  /\ Places' /\ dataInput' \in BOOLEAN /\ dataOutput' \in BOOLEAN
         /\ \A r \in Threads : r # t => pc'[r] = pc[r] /\ goal'[r] = goal[r]
         /\ \/ pc'[t] = l
            \/ /\ pc'[t] = "set" /\ goal'[t].to # "Active" /\ goal'[t].then = l
               /\ \/ state = "Active" /\ goal'[t].to = "ReadyToClose"
                  \/ state \in {"PeerClosed", "PeerTerminating"}
<1>1. Places
  BY DEF Inv, Types
<1>2. dataInput' \in BOOLEAN /\ dataOutput' \in BOOLEAN
  BY DEF Close
<1>3. CASE state = "Active" /\ Decide(t, "ReadyToClose", l)
  BY <1>1, <1>2, <1>3, Names, DecideDoes
<1>4. CASE state = "PeerClosed" /\ Decide(t, "Terminating", l)
  BY <1>1, <1>2, <1>4, Names, DecideDoes
<1>5. CASE state = "PeerTerminating" /\ Decide(t, "Terminated", l)
  BY <1>1, <1>2, <1>5, Names, DecideDoes
<1>6. CASE GoOn(t, l)
  BY <1>1, <1>2, <1>6, GoOnDoes
<1>. QED
  BY <1>3, <1>4, <1>5, <1>6 DEF Close

\* The application closes the connection.
LEMMA AppCloseStep ==
  ASSUME Inv, AppClose, use' = use
  PROVE  Inv'
<1>1. UNCHANGED <<use, state, times, workers, released, terminate, seg, call, inputs,
                  dropped, excused>>
      /\ closing' = TRUE /\ pc["closer"] = "idle"
  BY DEF AppClose, At
<1>2. "closer" \in Threads /\ "idle" \in Labels /\ "closer" # "input"
      /\ "closer" # "writer" /\ "input" \in Threads /\ "writer" \in Threads
  BY Names
<1>3. Close("closer", "idle")
  BY DEF AppClose
<1>4. /\ Places' /\ dataInput' \in BOOLEAN /\ dataOutput' \in BOOLEAN
      /\ \A r \in Threads : r # "closer" => pc'[r] = pc[r] /\ goal'[r] = goal[r]
      /\ \/ pc'["closer"] = "idle"
         \/ /\ pc'["closer"] = "set" /\ goal'["closer"].to # "Active"
            /\ goal'["closer"].then = "idle"
            /\ \/ state = "Active" /\ goal'["closer"].to = "ReadyToClose"
               \/ state \in {"PeerClosed", "PeerTerminating"}
  BY <1>2, <1>3, CloseDoes
<1>5. Types'
  BY <1>1, <1>4 DEF Inv, Types, Flags, Sets, Rest, times, workers, call
<1>6. Writing' /\ Quiet' /\ Kept' /\ NoLeak'
  <2>1. ~excused => state \notin {"PeerClosed", "PeerTerminating"}
    BY DEF Inv, Quiet
  <2>2. \A t \in Threads : pc'[t] \in {"set", "stamp"} =>
            \/ pc[t] \in {"set", "stamp"} /\ goal'[t] = goal[t]
            \/ /\ goal'[t].to # "Active" /\ goal'[t].then \notin {"set", "stamp", "push"}
               /\ ~excused' => Plan(t)'
    BY <1>1, <1>2, <1>4, <2>1 DEF Plan
  <2>3. ~excused' => ~terminate' /\ ~aged' /\ ~silent' /\ pc'["input"] # "command"
    BY <1>1, <1>2, <1>4 DEF Inv, Quiet, times
  <2>4. pc'["writer"] = "push" => pc["writer"] = "push"
    BY <1>2, <1>4
  <2>. QED
    BY <1>1, <2>2, <2>3, <2>4, CalmStep DEF times, workers, call
<1>. QED
  BY <1>5, <1>6 DEF Inv

\* A thread stores the state it has decided on.
LEMMA StoreStateStep ==
  ASSUME Inv, NEW t \in Threads, StoreState(t), use' = use
  PROVE  Inv'
<1>1. /\ pc[t] = "set" /\ state' = goal[t].to /\ pc' = [pc EXCEPT ![t] = "stamp"]
      /\ UNCHANGED <<use, times, workers, notifiers, released, terminate, goal, seg, call,
                     inputs, closing, dropped, excused>>
  BY DEF StoreState, At, Goto
<1>2. Places /\ goal[t] \in Goal /\ goal[t].to \in State /\ "stamp" \in Labels
  BY Names DEF Inv, Types, Places, Goal
<1>3. goal[t].to # "Active"
  BY <1>1 DEF Inv, Kept
<1>4. /\ pc' \in [Threads -> Labels] /\ pc'[t] = "stamp"
      /\ \A r \in Threads : r # t => pc'[r] = pc[r]
  BY <1>1, <1>2, GotoTypes
<1>5. \A r \in Threads : pc'[r] \in {"set", "stamp"} => pc[r] \in {"set", "stamp"}
  BY <1>1, <1>4
<1>6. Types'
  BY <1>1, <1>2, <1>4 DEF Inv, Types, Flags, Places, Sets, Rest, times, workers, notifiers,
     call
<1>7. pc'["writer"] = "push" => pc["writer"] = "push"
  BY <1>4, Names
<1>8. Writing' /\ NoLeak'
  BY <1>1, <1>7 DEF Inv, Writing, NoLeak, workers, call, Buffers
<1>9. Kept'
  BY <1>1, <1>3, <1>5 DEF Inv, Kept, call
<1>10. Quiet'
  <2> SUFFICES ASSUME ~excused' PROVE Quiet'
    BY DEF Quiet
  <2>1. ~excused
    BY <1>1
  <2>2. Plan(t) /\ \A r \in Threads : pc[r] \in {"set", "stamp"} => Plan(r)
    BY <1>1, <2>1 DEF Inv, Quiet
  <2>3. state' \in {"ReadyToClose", "Terminating"}
    BY <1>1, <2>2 DEF Plan
  <2>4. \A r \in Threads : pc'[r] \in {"set", "stamp"} => Plan(r)'
    BY <1>1, <1>5, <2>2, <2>3 DEF Plan, workers, call
  <2>5. pc'["input"] # "command"
    BY <1>4, <2>1, Names DEF Inv, Quiet
  <2>. QED
    BY <1>1, <2>1, <2>3, <2>4, <2>5 DEF Inv, Quiet, times
<1>. QED
  BY <1>6, <1>8, <1>9, <1>10 DEF Inv

\* What is noted of a time that was stored.
LEMMA StoredTypes ==
  ASSUME Flags, NEW time \in {"state", "incoming"}, NEW p, Stored(time, p)
  PROVE  late' \in [Updaters -> SUBSET {"state", "incoming"}]
BY DEF Flags, Stored

\* A thread stores the time of its state.  Without an excuse nothing that was confirmed
\* is in the window it then empties.
LEMMA StoreTimeStep ==
  ASSUME Inv, NEW t \in Threads, StoreTime(t), use' = use
  PROVE  Inv'
<1> DEFINE s == goal[t].to
<1>1. /\ pc[t] = "stamp" /\ aged' = FALSE /\ window' = CloseWrite(s)
      /\ dropped' = IF excused THEN dropped ELSE dropped \cup (window \ window')
      /\ terminate' = (terminate \/ s = "Terminated")
      /\ goal' = [goal EXCEPT ![t] = None]
      /\ UNCHANGED <<use, state, silent, arrived, acks, notifiers, released, seg, call,
                     inputs, closing, excused>>
  BY DEF StoreTime, At
<1>2. /\ Places /\ Flags /\ Sets /\ Rest /\ goal[t] \in Goal
      /\ s \in State /\ goal[t].then \in Labels
  BY DEF Inv, Types, Places, Goal
<1>3. s # "Active" /\ goal[t].then \notin {"set", "stamp", "push"}
  BY <1>1 DEF Inv, Kept
<1>4. window' \subseteq window /\ (s = "ReadyToClose" => window' = window)
      /\ (s # "ReadyToClose" => window' = {})
  BY <1>1 DEF CloseWrite
<1> HIDE DEF s
<1>5. /\ pc' \in [Threads -> Labels]
      /\ pc'[t] \in {goal[t].then, "run"}
      /\ \A r \in Threads : r # t => pc'[r] = pc[r] \/ pc'[r] = "run"
  <2>1. PICK p \in [Threads -> Labels] : p = [pc EXCEPT ![t] = goal[t].then]
    BY <1>2, GotoTypes
  <2>2. p[t] = goal[t].then /\ \A r \in Threads : r # t => p[r] = pc[r]
    BY <1>2, <2>1, GotoTypes
  <2>3. pc' = IF s = "Terminated" THEN WakeUp(WakeUp(p, "data"), "ping") ELSE p
    BY <2>1 DEF StoreTime, s
  <2>4. PICK q \in [Threads -> Labels] : q = WakeUp(p, "data")
    BY Names, WakeUpTypes
  <2>5. \A r \in Threads : q[r] = p[r] \/ q[r] = "run"
    BY <2>4, Names, WakeUpTypes
  <2>6. PICK z \in [Threads -> Labels] : z = WakeUp(q, "ping")
    BY Names, WakeUpTypes
  <2>7. \A r \in Threads : z[r] = q[r] \/ z[r] = "run"
    BY <2>6, Names, WakeUpTypes
  <2>8. pc' = z \/ pc' = p
    BY <2>3, <2>4, <2>6
  <2>9. pc' \in [Threads -> Labels] /\ \A r \in Threads : pc'[r] = p[r] \/ pc'[r] = "run"
    BY <2>5, <2>7, <2>8
  <2>. QED
    BY <2>2, <2>9
<1>6. /\ goal' \in [Threads -> Goal]
      /\ \A r \in Threads : r # t => goal'[r] = goal[r]
  <2>1. None \in Goal
    BY Names DEF None, Goal
  <2>. QED
    BY <1>1, <1>2, <2>1 DEF Places
<1>7. \A r \in Threads : pc'[r] \in {"set", "stamp"} => r # t /\ pc[r] \in {"set", "stamp"} /\ goal'[r] = goal[r]
  BY <1>3, <1>5, <1>6
<1>0. late' \in [Updaters -> SUBSET {"state", "incoming"}]
  BY <1>2, StoredTypes DEF StoreTime
<1>8. ~excused => Plan(t) /\ state \in {"Active", "ReadyToClose", "Terminating"}
  BY <1>1 DEF Inv, Quiet
<1>9. Types'
  <2>1. Flags'
    BY <1>0, <1>1, <1>2 DEF Flags, notifiers, call
  <2>2. Sets'
    BY <1>1, <1>2, <1>4 DEF Sets, call
  <2>3. Rest'
    BY <1>1, <1>2 DEF Rest, call
  <2>. QED
    BY <1>5, <1>6, <2>1, <2>2, <2>3 DEF Types, Places
<1>10. Writing'
  <2>1. pc'["writer"] = "push" => pc["writer"] = "push"
    BY <1>3, <1>5, Names
  <2>. QED
    BY <1>1, <1>4, <2>1 DEF Inv, Writing, call, Buffers
<1>11. NoLeak'
  BY <1>1, <1>4 DEF Inv, NoLeak
<1>12. Quiet' /\ Kept'
  <2>1. CASE excused
    <3>1. Quiet'
      BY <1>1, <2>1 DEF Quiet
    <3>2. Kept'
      BY <1>1, <1>3, <1>7, <2>1 DEF Inv, Kept, call
    <3>. QED
      BY <3>1, <3>2
  <2>2. CASE ~excused /\ t # "input" /\ s = "ReadyToClose"
    <3>1. window' = window /\ dropped' = dropped
      BY <1>1, <1>4, <2>2
    <3>2. ASSUME NEW r \in Threads, pc'[r] \in {"set", "stamp"} PROVE Plan(r)'
      <4>1. goal'[r] = goal[r] /\ Plan(r)
        BY <1>7, <2>2, <3>2 DEF Inv, Quiet
      <4>. QED
        BY <1>1, <3>1, <4>1 DEF Plan, call
    <3>3. pc'["input"] # "command"
      BY <1>5, <2>2, Names DEF Inv, Quiet
    <3>4. Quiet'
      BY <1>1, <2>2, <3>2, <3>3 DEF Inv, Quiet
    <3>5. Kept'
      BY <1>1, <1>7, <3>1 DEF Inv, Kept, call
    <3>. QED
      BY <3>4, <3>5
  <2>3. CASE /\ ~excused /\ t \in Updaters /\ s = "Terminating" /\ state # "Active"
             /\ window \cap confirmed = {}
    <3>1. ASSUME NEW r \in Threads, pc'[r] \in {"set", "stamp"} PROVE Plan(r)'
      <4>1. pc[r] \in {"set", "stamp"} /\ goal'[r] = goal[r] /\ Plan(r)
        BY <1>7, <2>3, <3>1 DEF Inv, Quiet
      <4>. QED
        BY <1>1, <1>4, <2>3, <4>1 DEF Plan
    <3>2. pc'["input"] # "command"
      BY <1>5, <2>3, Names, UpdaterNames DEF Inv, Quiet
    <3>3. Quiet'
      BY <1>1, <2>3, <3>1, <3>2 DEF Inv, Quiet
    <3>4. dropped' = dropped \cup window
      BY <1>1, <1>4, <2>3
    <3>5. Kept'
      BY <1>1, <1>7, <2>3, <3>4 DEF Inv, Kept, call
    <3>. QED
      BY <3>3, <3>5
  <2>. QED
    BY <1>8, <2>1, <2>2, <2>3 DEF Plan, s
<1>. QED
  BY <1>9, <1>10, <1>11, <1>12 DEF Inv

\* Terminate, and a Listener that is closed.
LEMMA TerminateStep ==
  ASSUME Inv, Terminate \/ ListenerClose, use' = use
  PROVE  Inv'
<1>1. CASE Terminate
  <2>1. /\ terminate /\ terminate' = FALSE /\ dataInput' = TRUE /\ dataOutput' = TRUE
        /\ released' = TRUE /\ window' = {}
        /\ dropped' = IF excused THEN dropped ELSE dropped \cup window
        /\ UNCHANGED <<use, state, times, arrived, acks, pc, goal, seg, call, inputs,
                       closing, excused>>
    BY <1>1 DEF Terminate
  <2>2. excused /\ dropped' = dropped
    BY <2>1 DEF Inv, Quiet
  <2>3. Types'
    BY <2>1, <2>2 DEF Inv, Types, Flags, Places, Sets, Rest, times, call
  <2>4. Writing' /\ Quiet' /\ NoLeak'
    BY <2>1, <2>2 DEF Inv, Writing, Quiet, NoLeak, call, Buffers
  <2>5. Kept'
    BY <2>1, <2>2 DEF Inv, Kept, call
  <2>. QED
    BY <2>3, <2>4, <2>5 DEF Inv
<1>2. CASE ListenerClose
  <2>1. /\ terminate' = TRUE /\ excused' = TRUE
        /\ UNCHANGED <<use, state, times, workers, notifiers, released, pc, goal, seg,
                       call, inputs, closing, dropped>>
    BY <1>2 DEF ListenerClose
  <2>2. Types'
    BY <2>1 DEF Inv, Types, Flags, Places, Sets, Rest, times, workers, notifiers, call
  <2>. QED
    BY <2>1, <2>2, CalmStep DEF Inv, workers, call
<1>. QED
  BY <1>1, <1>2

\* The rounds of an updater.
LEMMA RunStep ==
  ASSUME Inv, NEW u \in Updaters, run(u), use' = use
  PROVE  Inv'
<1>1. UNCHANGED <<use, state, times, workers, notifiers, released, terminate, goal, seg,
                  call, inputs, closing, dropped, excused>>
  BY DEF run
<1>2. PICK l \in {"signal", "loop", "flush", "off"} : pc' = [pc EXCEPT ![u] = l]
  BY DEF run, Goto
<1>3. /\ pc' \in [Threads -> Labels] /\ pc'[u] = l
      /\ \A r \in Threads : r # u => pc'[r] = pc[r]
  <2>1. u \in Threads /\ l \in Labels
    BY Names
  <2>. QED
    BY <1>2, <2>1, GotoTypes DEF Inv, Types
<1>4. Types'
  BY <1>1, <1>3 DEF Inv, Types, Flags, Places, Sets, Rest, times, workers, notifiers, call
<1>5. pc'["input"] = pc["input"] /\ pc'["writer"] = pc["writer"]
  BY <1>3, Names, UpdaterNames
<1>6. \A t \in Threads : pc'[t] \in {"set", "stamp"} => pc[t] \in {"set", "stamp"} /\ goal'[t] = goal[t]
  BY <1>1, <1>3
<1>7. ~excused' => ~terminate' /\ ~aged' /\ ~silent' /\ pc'["input"] # "command"
  BY <1>1, <1>5 DEF Inv, Quiet, times
<1>. QED
  BY <1>1, <1>4, <1>5, <1>6, <1>7, CalmStep DEF Inv, workers, call

\* A comparison with a limit: a decision is an excuse, or there is one already.
LEMMA LimitDoes ==
  ASSUME Inv, NEW u \in Updaters, NEW z \in State, NEW l \in Labels, NEW k \in Labels,
         Limit(u, z, l, k)
  PROVE  /\ excused' \in BOOLEAN /\ (excused => excused')
         /\ GoOn(u, k) \/ (excused' /\ Decide(u, z, l))
<1>1. PICK e \in Expired(u) : /\ IF e THEN Decide(u, z, l) ELSE GoOn(u, k)
                              /\ excused' = (excused \/ (e /\ ~aged))
  BY DEF Limit
<1>2. aged => excused
  BY DEF Inv, Quiet
<1>. QED
  BY <1>1, <1>2 DEF Inv, Types, Flags

\* The states flush looks at.  Without an excuse an updater decides to end the
\* connection only in ReadyToClose and with an empty window, and to close it in Active.
LEMMA FlushStep ==
  ASSUME Inv, NEW u \in Updaters, flush(u), use' = use
  PROVE  Inv'
<1>1. UNCHANGED <<use, state, aged, silent, workers, released, terminate, seg, call, inputs,
                  closing, dropped>>
  BY DEF flush
<1>2. /\ Places /\ Flags /\ u \in Threads /\ u # "input" /\ u # "writer"
      /\ {"flush", "write", "loop"} \subseteq Labels
      /\ {"Terminating", "Terminated"} \subseteq State
  BY Names, UpdaterNames DEF Inv, Types
<1> DEFINE Result ==
      /\ Places' /\ dataInput' \in BOOLEAN /\ dataOutput' \in BOOLEAN
      /\ excused' \in BOOLEAN /\ (excused => excused')
      /\ \A r \in Threads : r # u => pc'[r] = pc[r] /\ goal'[r] = goal[r]
      /\ \/ pc'[u] \in {"flush", "write", "loop"}
         \/ /\ goal'[u].to # "Active" /\ goal'[u].then \notin {"set", "stamp", "push"}
            /\ ~excused' => \/ goal'[u].to = "ReadyToClose"
                            \/ /\ goal'[u].to = "Terminating" /\ state = "ReadyToClose"
                               /\ window = {}
<1>3. Result
  <2>1. CASE Close(u, "flush") /\ state = "Active" /\ UNCHANGED excused
    BY <1>2, <2>1, CloseDoes DEF Flags
  <2>2. ASSUME NEW l \in {"write", "loop"}, GoOn(u, l), UNCHANGED notifiers,
               excused' \in BOOLEAN, excused => excused'
        PROVE  Result
    BY <1>2, <2>2, GoOnDoes DEF notifiers, Flags
  <2>3. ASSUME NEW l \in {"write", "loop", "flush"}, NEW z \in {"Terminating", "Terminated"},
               Decide(u, z, l), UNCHANGED notifiers,
               excused' \in BOOLEAN, excused => excused',
               excused' \/ (z = "Terminating" /\ state = "ReadyToClose" /\ window = {})
        PROVE  Result
    BY <1>2, <2>3, DecideDoes DEF notifiers, Flags
  <2>4. ASSUME NEW z \in {"Terminating", "Terminated"}, NEW l \in {"write", "loop"},
               Limit(u, z, l, l), UNCHANGED notifiers
        PROVE  Result
    <3>1. /\ excused' \in BOOLEAN /\ (excused => excused')
          /\ GoOn(u, l) \/ (excused' /\ Decide(u, z, l))
      BY <1>2, <2>4, LimitDoes
    <3>. QED
      BY <2>2, <2>3, <2>4, <3>1
  <2>5. CASE pc[u] = "flush" /\ state = "Active"
    BY <1>2, <2>1, <2>2, <2>5 DEF flush, At, Flags
  <2>6. CASE pc[u] = "flush" /\ state = "ReadyToClose"
    <3>1. \/ window = {} /\ Decide(u, "Terminating", "flush") /\ UNCHANGED excused
          \/ Limit(u, "Terminating", "write", "write")
      BY <2>6 DEF flush, At, IsEmpty
    <3>2. UNCHANGED notifiers
      BY <2>6 DEF flush, At
    <3>. QED
      BY <1>2, <2>3, <2>4, <2>6, <3>1, <3>2 DEF Flags
  <2>7. CASE pc[u] = "flush" /\ state = "Terminating"
    BY <2>4, <2>7 DEF flush, At
  <2>8. CASE pc[u] = "flush" /\ state = "PeerTerminating"
    BY <2>4, <2>8 DEF flush, At
  <2>9. CASE pc[u] = "flush" /\ state \in {"PeerClosed", "Terminated"}
    BY <1>2, <2>2, <2>9 DEF flush, At, Flags
  <2>10. CASE pc[u] # "flush"
    BY <1>2, <2>2, <2>10 DEF flush, At, Flags
  <2>11. state \in State
    BY DEF Inv, Types, Rest
  <2>. QED
    BY <2>5, <2>6, <2>7, <2>8, <2>9, <2>10, <2>11 DEF State
<1>4. Types'
  <2>1. late' \in [Updaters -> SUBSET {"state", "incoming"}]
    BY <1>2 DEF flush, Flags
  <2>. QED
    BY <1>1, <1>3, <2>1 DEF Inv, Types, Flags, Sets, Rest, workers, call
<1>5. pc'["input"] = pc["input"] /\ pc'["writer"] = pc["writer"]
  BY <1>2, <1>3, Names
<1>6. \A t \in Threads : pc'[t] \in {"set", "stamp"} =>
         \/ pc[t] \in {"set", "stamp"} /\ goal'[t] = goal[t]
         \/ /\ goal'[t].to # "Active" /\ goal'[t].then \notin {"set", "stamp", "push"}
            /\ ~excused' => Plan(t)'
  BY <1>1, <1>2, <1>3 DEF Plan, workers, call
<1>7. ~excused' => ~terminate' /\ ~aged' /\ ~silent' /\ pc'["input"] # "command"
  BY <1>1, <1>3, <1>5 DEF Inv, Quiet
<1>. QED
  BY <1>1, <1>3, <1>4, <1>5, <1>6, <1>7, CalmStep DEF Inv, workers, call

\* A segment arrives.  One that decides anything is an excuse.
LEMMA InputStep ==
  ASSUME Inv, NEW cmd \in Command, NEW close \in BOOLEAN, Input(cmd, close), use' = use
  PROVE  Inv'
<1>1. /\ pc["input"] = "idle" /\ inputs < MaxInput /\ inputs' = inputs + 1
      /\ seg' = [cmd |-> cmd, close |-> close] /\ silent' = FALSE
      /\ excused' = (excused \/ close \/ cmd = "terminate")
      /\ UNCHANGED <<use, state, aged, workers, notifiers, released, terminate, call,
                     closing, dropped>>
  BY DEF Input, At
<1>2. PICK l \in {"command", "process"} : /\ HandleOption(close, l)
                                          /\ l = "command" => cmd = "terminate"
  BY DEF Input
<1>3. l \in Labels /\ "input" \in Threads /\ Places /\ "Terminating" \in State
      /\ "PeerClosed" \in State
  BY Names DEF Inv, Types
<1>4. /\ Places'
      /\ \A r \in Threads : r # "input" => pc'[r] = pc[r] /\ goal'[r] = goal[r]
      /\ \/ pc'["input"] = l
         \/ /\ close /\ pc'["input"] = "set" /\ goal'["input"].to # "Active"
            /\ goal'["input"].then = l
  <2>1. CASE GoOn("input", l)
    BY <1>3, <2>1, GoOnDoes
  <2>2. CASE close /\ Decide("input", "Terminating", l)
    BY <1>3, <2>2, DecideDoes
  <2>3. CASE close /\ Decide("input", "PeerClosed", l)
    BY <1>3, <2>3, DecideDoes
  <2>. QED
    BY <1>2, <2>1, <2>2, <2>3 DEF HandleOption
<1>5. Types'
  <2>1. inputs' \in 0 .. MaxInput
    BY <1>1, Bounds DEF Inv, Types, Rest
  <2>2. Flags'
    <3>1. late' \in [Updaters -> SUBSET {"state", "incoming"}]
      BY StoredTypes DEF Input, Inv, Types
    <3>. QED
      BY <1>1, <3>1 DEF Inv, Types, Flags, workers, notifiers, call
  <2>3. Sets' /\ Rest'
    BY <1>1, <2>1 DEF Inv, Types, Sets, Rest, workers, call, Segments
  <2>. QED
    BY <1>4, <2>2, <2>3 DEF Types
<1>6. ~excused' => ~excused /\ ~close /\ cmd # "terminate"
  BY <1>1
<1>7. ~excused' => ~terminate' /\ ~aged' /\ ~silent' /\ pc'["input"] # "command"
  BY <1>1, <1>2, <1>4, <1>6 DEF Inv, Quiet
<1>8. pc'["writer"] = pc["writer"]
  BY <1>4, Names
<1>9. \A t \in Threads : pc'[t] \in {"set", "stamp"} =>
         \/ pc[t] \in {"set", "stamp"} /\ goal'[t] = goal[t]
         \/ /\ goal'[t].to # "Active" /\ goal'[t].then \notin {"set", "stamp", "push"}
            /\ ~excused' => Plan(t)'
  BY <1>4, <1>6
<1>. QED
  BY <1>1, <1>5, <1>7, <1>8, <1>9, CalmStep DEF Inv, workers, call

\* The command of a segment that ends the connection.
LEMMA HandleTerminateStep ==
  ASSUME Inv, HandleTerminate, use' = use
  PROVE  Inv'
<1>1. /\ pc["input"] = "command"
      /\ UNCHANGED <<use, state, times, workers, notifiers, released, terminate, seg, call,
                     inputs, closing, dropped, excused>>
  BY DEF HandleTerminate, At
<1>2. excused
  BY <1>1 DEF Inv, Quiet
<1>3. "process" \in Labels /\ "input" \in Threads /\ Places
      /\ {"PeerTerminating", "Terminating", "Terminated"} \subseteq State
  BY Names DEF Inv, Types
<1>4. \/ GoOn("input", "process")
      \/ \E z \in {"PeerTerminating", "Terminating", "Terminated"} :
            Decide("input", z, "process")
  <2>1. state \in State
    BY DEF Inv, Types, Rest
  <2>2. CASE state \in {"PeerTerminating", "Terminated"}
    BY <2>2 DEF HandleTerminate
  <2>3. CASE state \in {"Active", "PeerClosed"}
    BY <2>3 DEF HandleTerminate
  <2>4. CASE state = "ReadyToClose"
    BY <2>4 DEF HandleTerminate
  <2>5. CASE state = "Terminating"
    BY <2>5 DEF HandleTerminate
  <2>. QED
    BY <2>1, <2>2, <2>3, <2>4, <2>5 DEF State
<1>5. /\ Places'
      /\ \A r \in Threads : r # "input" => pc'[r] = pc[r] /\ goal'[r] = goal[r]
      /\ \/ pc'["input"] = "process"
         \/ goal'["input"].to # "Active" /\ goal'["input"].then = "process"
  <2>1. CASE GoOn("input", "process")
    BY <1>3, <2>1, GoOnDoes
  <2>2. ASSUME NEW z \in {"PeerTerminating", "Terminating", "Terminated"},
               Decide("input", z, "process")
        PROVE  /\ Places'
               /\ \A r \in Threads : r # "input" => pc'[r] = pc[r] /\ goal'[r] = goal[r]
               /\ goal'["input"].to # "Active" /\ goal'["input"].then = "process"
    BY <1>3, <2>2, DecideDoes
  <2>. QED
    BY <1>4, <2>1, <2>2
<1>6. Types'
  BY <1>1, <1>5 DEF Inv, Types, Flags, Sets, Rest, times, workers, notifiers, call
<1>7. pc'["writer"] = pc["writer"]
  BY <1>5, Names
<1>8. \A t \in Threads : pc'[t] \in {"set", "stamp"} =>
         \/ pc[t] \in {"set", "stamp"} /\ goal'[t] = goal[t]
         \/ /\ goal'[t].to # "Active" /\ goal'[t].then \notin {"set", "stamp", "push"}
            /\ ~excused' => Plan(t)'
  BY <1>1, <1>2, <1>5
<1>. QED
  BY <1>1, <1>2, <1>6, <1>7, <1>8, CalmStep DEF Inv, workers, call

\* A step that may wake the data updater, and in which thread t goes on at l.
LEMMA WakeDoes ==
  ASSUME Places, NEW t \in Threads, NEW l \in Labels, t \notin Updaters,
         \/ pc' = [pc EXCEPT ![t] = l]
         \/ pc' = WakeUp([pc EXCEPT ![t] = l], "data")
  PROVE  /\ pc' \in [Threads -> Labels] /\ pc'[t] = l
         /\ \A r \in Threads : r # t => pc'[r] = pc[r] \/ pc'[r] = "run"
         /\ \A r \in Threads : r \notin Updaters /\ r # t => pc'[r] = pc[r]
<1>1. PICK p \in [Threads -> Labels] : p = [pc EXCEPT ![t] = l]
  BY GotoTypes
<1>2. p[t] = l /\ \A r \in Threads : r # t => p[r] = pc[r]
  BY <1>1, GotoTypes
<1>3. CASE pc' = p
  BY <1>2, <1>3
<1>4. CASE pc' = WakeUp(p, "data")
  BY <1>2, <1>4, Names, WakeUpTypes
<1>. QED
  BY <1>1, <1>3, <1>4

\* The rest of Input.
LEMMA ProcessStep ==
  ASSUME Inv, Process, use' = use
  PROVE  Inv'
<1>1. /\ pc["input"] = "process"
      /\ UNCHANGED <<use, state, times, released, terminate, goal, seg, call, inputs,
                     closing, dropped, excused>>
  BY DEF Process, At
<1>2. /\ window' \subseteq window
      /\ arrived' \in BOOLEAN /\ acks' \in BOOLEAN
      /\ dataInput' \in BOOLEAN /\ dataOutput' \in BOOLEAN
  BY DEF Process, Inv, Types, Flags
<1>3. \/ pc' = [pc EXCEPT !["input"] = "idle"]
      \/ pc' = WakeUp([pc EXCEPT !["input"] = "idle"], "data")
  BY DEF Process, Goto
<1>4. Places /\ "input" \in Threads /\ "idle" \in Labels /\ "input" \notin Updaters
      /\ "writer" \in Threads /\ "writer" \notin Updaters
  BY Names DEF Inv, Types, Updaters
<1>5. /\ pc' \in [Threads -> Labels] /\ pc'["input"] = "idle"
      /\ \A r \in Threads : r # "input" => pc'[r] = pc[r] \/ pc'[r] = "run"
      /\ pc'["writer"] = pc["writer"]
  BY <1>3, <1>4, WakeDoes
<1>6. Types'
  <2>1. Flags'
    BY <1>1, <1>2 DEF Inv, Types, Flags, times, call
  <2>2. Sets' /\ Rest'
    BY <1>1, <1>2 DEF Inv, Types, Sets, Rest, call
  <2>. QED
    BY <1>1, <1>5, <2>1, <2>2 DEF Inv, Types, Places
<1>7. ~excused' => ~terminate' /\ ~aged' /\ ~silent' /\ pc'["input"] # "command"
  BY <1>1, <1>5 DEF Inv, Quiet, times
<1>8. \A t \in Threads : pc'[t] \in {"set", "stamp"} => pc[t] \in {"set", "stamp"} /\ goal'[t] = goal[t]
  BY <1>1, <1>5
<1>. QED
  BY <1>1, <1>2, <1>5, <1>6, <1>7, <1>8, CalmStep DEF Inv, call

\* The reader.
LEMMA ReadStep ==
  ASSUME Inv, ReadCall \/ Read, use' = use
  PROVE  Inv'
<1>1. UNCHANGED <<use, state, times, window, acks, dataOutput, released, terminate, goal,
                  seg, call, inputs, closing, dropped, excused>>
  BY DEF ReadCall, Read, workers, notifiers
<1>2. arrived' \in BOOLEAN /\ dataInput' \in BOOLEAN
  BY DEF ReadCall, Read, workers, notifiers, Inv, Types, Flags
<1>3. PICK l \in {"check", "idle", "take", "wait", "peer"} :
         \/ pc' = [pc EXCEPT !["reader"] = l]
         \/ pc' = WakeUp([pc EXCEPT !["reader"] = l], "data")
  <2>1. CASE ReadCall
    BY <2>1 DEF ReadCall, Goto
  <2>2. CASE Read
    BY <2>2 DEF Read, Goto
  <2>. QED
    BY <2>1, <2>2
<1>4. Places /\ "reader" \in Threads /\ l \in Labels /\ "reader" \notin Updaters
      /\ "writer" \in Threads /\ "writer" \notin Updaters
      /\ "input" \in Threads /\ "input" \notin Updaters
  BY Names DEF Inv, Types, Updaters
<1>5. /\ pc' \in [Threads -> Labels] /\ pc'["reader"] = l
      /\ \A r \in Threads : r # "reader" => pc'[r] = pc[r] \/ pc'[r] = "run"
      /\ pc'["writer"] = pc["writer"] /\ pc'["input"] = pc["input"]
  BY <1>3, <1>4, WakeDoes
<1>6. Types'
  BY <1>1, <1>2, <1>5 DEF Inv, Types, Flags, Places, Sets, Rest, times, call
<1>7. ~excused' => ~terminate' /\ ~aged' /\ ~silent' /\ pc'["input"] # "command"
  BY <1>1, <1>5 DEF Inv, Quiet, times
<1>8. \A t \in Threads : pc'[t] \in {"set", "stamp"} => pc[t] \in {"set", "stamp"} /\ goal'[t] = goal[t]
  BY <1>1, <1>5
<1>. QED
  BY <1>1, <1>5, <1>6, <1>7, <1>8, CalmStep DEF Inv, call

\* The writer confirms only in Active, where nothing was discarded, and what it pushes
\* was not confirmed before.
LEMMA WriteStep ==
  ASSUME Inv, WriteCall \/ Write, use' = use
  PROVE  Inv'
<1>1. UNCHANGED <<use, state, times, arrived, acks, dataInput, released, terminate, goal,
                  seg, inputs, closing, dropped, excused>>
  BY DEF WriteCall, Write, workers, notifiers
<1>2. Places /\ "writer" \in Threads /\ "writer" \notin Updaters
      /\ "input" \in Threads /\ "input" \notin Updaters
      /\ {"check", "idle", "push", "wait"} \subseteq Labels
  BY Names DEF Inv, Types, Updaters
<1>3. ASSUME NEW l \in {"check", "idle", "push", "wait"},
             \/ pc' = [pc EXCEPT !["writer"] = l]
             \/ pc' = WakeUp([pc EXCEPT !["writer"] = l], "data")
      PROVE  /\ Places' /\ pc'["writer"] = l /\ pc'["input"] = pc["input"]
             /\ \A t \in Threads : pc'[t] \in {"set", "stamp"} => pc[t] \in {"set", "stamp"} /\ goal'[t] = goal[t]
             /\ ~excused' => ~terminate' /\ ~aged' /\ ~silent' /\ pc'["input"] # "command"
  <2>1. /\ pc' \in [Threads -> Labels] /\ pc'["writer"] = l
        /\ \A r \in Threads : r # "writer" => pc'[r] = pc[r] \/ pc'[r] = "run"
        /\ pc'["input"] = pc["input"]
    BY <1>2, <1>3, WakeDoes
  <2>2. Places'
    BY <1>1, <1>2, <2>1 DEF Places
  <2>3. \A t \in Threads : pc'[t] \in {"set", "stamp"} => pc[t] \in {"set", "stamp"} /\ goal'[t] = goal[t]
    BY <1>1, <2>1
  <2>4. ~excused' => ~terminate' /\ ~aged' /\ ~silent' /\ pc'["input"] # "command"
    BY <1>1, <2>1 DEF Inv, Quiet, times
  <2>. QED
    BY <2>1, <2>2, <2>3, <2>4
<1>4. ASSUME Places', dataOutput' \in BOOLEAN, held' \in BOOLEAN, updatePending' \in BOOLEAN,
             window' \subseteq Buffers, pushed' \subseteq Buffers, confirmed' \subseteq Buffers,
             next' \in 1 .. MaxPush + 1
      PROVE  Types'
  BY <1>1, <1>4 DEF Inv, Types, Flags, Sets, Rest, times
<1>5. /\ dataOutput \in BOOLEAN /\ held \in BOOLEAN /\ updatePending \in BOOLEAN
      /\ window \subseteq Buffers /\ pushed \subseteq Buffers /\ confirmed \subseteq Buffers
      /\ next \in 1 .. MaxPush + 1 /\ dropped \subseteq Buffers
  BY DEF Inv, Types, Flags, Sets, Rest
<1>6. ASSUME NEW l \in {"check", "idle", "push", "wait"},
             \/ pc' = [pc EXCEPT !["writer"] = l]
             \/ pc' = WakeUp([pc EXCEPT !["writer"] = l], "data"),
             dataOutput' \in BOOLEAN, held' \in BOOLEAN, updatePending' \in BOOLEAN,
             UNCHANGED <<window, confirmed, next>>, pushed' \subseteq pushed,
             held' => held \/ next \in Buffers, l = "push" => held'
      PROVE  Inv'
  <2>1. /\ Places' /\ pc'["writer"] = l /\ pc'["input"] = pc["input"]
        /\ \A t \in Threads : pc'[t] \in {"set", "stamp"} => pc[t] \in {"set", "stamp"} /\ goal'[t] = goal[t]
        /\ ~excused' => ~terminate' /\ ~aged' /\ ~silent' /\ pc'["input"] # "command"
    BY <1>3, <1>6
  <2>2. Types'
    BY <1>4, <1>5, <1>6, <2>1
  <2>. QED
    BY <1>1, <1>6, <2>1, <2>2, CalmStep DEF Inv
<1>7. CASE WriteCall
  BY <1>5, <1>6, <1>7 DEF WriteCall, Goto, call, workers, notifiers
<1>8. CASE Return(FALSE)
  <2>1. \/ pc' = [pc EXCEPT !["writer"] = "idle"]
        \/ pc' = WakeUp([pc EXCEPT !["writer"] = "idle"], "data")
    BY <1>8 DEF Return
  <2>2. /\ confirmed' = confirmed /\ held' = FALSE /\ updatePending' = FALSE /\ pushed' = {}
        /\ UNCHANGED <<next, window, dataOutput>>
    BY <1>8 DEF Return
  <2>. QED
    BY <1>5, <1>6, <2>1, <2>2
<1>9. CASE Writable /\ Return(TRUE)
  <2>1. \/ pc' = [pc EXCEPT !["writer"] = "idle"]
        \/ pc' = WakeUp([pc EXCEPT !["writer"] = "idle"], "data")
    BY <1>9 DEF Return
  <2>2. /\ confirmed' = confirmed \cup pushed /\ held' = FALSE /\ updatePending' = FALSE
        /\ pushed' = {} /\ UNCHANGED <<next, window, dataOutput>>
    BY <1>9 DEF Return
  <2>3. state = "Active" /\ state' = "Active"
    BY <1>1, <1>9 DEF Writable
  <2>4. /\ Places' /\ pc'["writer"] = "idle" /\ pc'["input"] = pc["input"]
        /\ \A t \in Threads : pc'[t] \in {"set", "stamp"} => pc[t] \in {"set", "stamp"} /\ goal'[t] = goal[t]
        /\ ~excused' => ~terminate' /\ ~aged' /\ ~silent' /\ pc'["input"] # "command"
    BY <1>3, <2>1
  <2>5. Types'
    BY <1>4, <1>5, <2>2, <2>4
  <2>6. Writing'
    <3>1. \A b \in (confirmed' \cup pushed') \cup window' : b < next'
      BY <2>2 DEF Inv, Writing
    <3>. QED
      BY <2>2, <2>4, <3>1 DEF Writing
  <2>7. Quiet'
    <3> SUFFICES ASSUME ~excused' PROVE Quiet'
      BY DEF Quiet
    <3>1. ~excused
      BY <1>1
    <3>2. ASSUME NEW t \in Threads, pc'[t] \in {"set", "stamp"} PROVE Plan(t)'
      <4>1. Plan(t) /\ goal'[t] = goal[t]
        BY <2>4, <3>1, <3>2 DEF Inv, Quiet
      <4>. QED
        BY <2>3, <4>1 DEF Plan
    <3>. QED
      BY <2>3, <2>4, <3>2 DEF Quiet
  <2>8. Kept'
    <3>1. dropped = {} /\ dropped' = {}
      BY <1>1, <2>3 DEF Inv, Kept
    <3>. QED
      BY <2>4, <3>1 DEF Inv, Kept
  <2>9. NoLeak'
    BY <1>1, <2>2 DEF Inv, NoLeak
  <2>. QED
    BY <2>5, <2>6, <2>7, <2>8, <2>9 DEF Inv
<1>10. CASE /\ pc["writer"] = "push" /\ ~Refused
            /\ window' = window \cup {next} /\ pushed' = pushed \cup {next}
            /\ next' = next + 1 /\ held' = FALSE /\ updatePending' = TRUE
            /\ Goto("writer", "check") /\ UNCHANGED <<confirmed, dataOutput>>
  <2>1. next \in Buffers /\ next \in Nat /\ ~released
    BY <1>10, Bounds DEF Inv, Writing, Refused, Buffers
  <2>2. next' \in 1 .. MaxPush + 1
    BY <1>10, <2>1, Bounds DEF Buffers
  <2>3. pc' = [pc EXCEPT !["writer"] = "check"]
    BY <1>10 DEF Goto
  <2>4. /\ Places' /\ pc'["writer"] = "check" /\ pc'["input"] = pc["input"]
        /\ \A t \in Threads : pc'[t] \in {"set", "stamp"} => pc[t] \in {"set", "stamp"} /\ goal'[t] = goal[t]
        /\ ~excused' => ~terminate' /\ ~aged' /\ ~silent' /\ pc'["input"] # "command"
    BY <1>3, <2>3
  <2>5. Types'
    BY <1>4, <1>5, <1>10, <2>1, <2>2, <2>4
  <2>6. \A b \in (confirmed \cup pushed) \cup window : b \in Nat /\ b < next
    BY <1>5, Bounds DEF Inv, Writing, Buffers
  <2>7. Writing'
    <3>1. \A b \in (confirmed' \cup pushed') \cup window' : b < next'
      <4> SUFFICES ASSUME NEW b \in (confirmed' \cup pushed') \cup window' PROVE b < next'
        OBVIOUS
      <4>1. b = next \/ b \in (confirmed \cup pushed) \cup window
        BY <1>10
      <4>. QED
        BY <1>10, <2>1, <2>6, <4>1
    <3>. QED
      BY <1>10, <2>4, <3>1 DEF Writing
  <2>8. next \notin confirmed
    BY <2>1, <2>6
  <2>9. Quiet'
    <3> SUFFICES ASSUME ~excused' PROVE Quiet'
      BY DEF Quiet
    <3>1. ~excused
      BY <1>1
    <3>2. ASSUME NEW t \in Threads, pc'[t] \in {"set", "stamp"} PROVE Plan(t)'
      <4>1. Plan(t) /\ goal'[t] = goal[t]
        BY <2>4, <3>1, <3>2 DEF Inv, Quiet
      <4>. QED
        BY <1>1, <1>10, <2>8, <4>1 DEF Plan
    <3>. QED
      BY <1>1, <2>4, <3>1, <3>2 DEF Inv, Quiet
  <2>10. Kept'
    BY <1>1, <1>10, <2>4 DEF Inv, Kept
  <2>11. NoLeak'
    BY <1>1, <2>1 DEF NoLeak
  <2>. QED
    BY <2>5, <2>7, <2>9, <2>10, <2>11 DEF Inv
<1>11. CASE /\ Writable /\ (held \/ next \in Buffers)
            /\ held' = TRUE /\ Goto("writer", "push")
            /\ UNCHANGED <<updatePending, pushed, next, confirmed, window, dataOutput>>
  <2>1. pc' = [pc EXCEPT !["writer"] = "push"]
    BY <1>11 DEF Goto
  <2>. QED
    BY <1>5, <1>6, <1>11, <2>1
<1>12. CASE /\ pc' = LET p == [pc EXCEPT !["writer"] = "wait"]
                     IN  IF updatePending THEN WakeUp(p, "data") ELSE p
            /\ updatePending' = FALSE
            /\ UNCHANGED <<held, pushed, next, confirmed, window, dataOutput>>
  <2>1. \/ pc' = [pc EXCEPT !["writer"] = "wait"]
        \/ pc' = WakeUp([pc EXCEPT !["writer"] = "wait"], "data")
    BY <1>12
  <2>. QED
    BY <1>5, <1>6, <1>12, <2>1
<1>13. CASE dataOutput' \in BOOLEAN /\ Goto("writer", "check") /\ UNCHANGED <<call, window>>
  <2>1. pc' = [pc EXCEPT !["writer"] = "check"]
    BY <1>13 DEF Goto
  <2>. QED
    BY <1>5, <1>6, <1>13, <2>1 DEF call
<1>14. CASE Write
  BY <1>5, <1>8, <1>9, <1>10, <1>11, <1>12, <1>13, <1>14 DEF Write, At
<1>. QED
  BY <1>7, <1>14

\* Time passes.
LEMMA TimeStep ==
  ASSUME Inv, Age \/ Silence, use' = use
  PROVE  Inv'
<1>1. /\ excused' = TRUE /\ aged' \in BOOLEAN /\ silent' \in BOOLEAN
      /\ UNCHANGED <<use, state, late, workers, notifiers, released, terminate, pc, goal,
                     seg, call, inputs, closing, dropped>>
  BY DEF Age, Silence, Inv, Types, Flags
<1>2. Types'
  BY <1>1 DEF Inv, Types, Flags, Places, Sets, Rest, workers, notifiers, call
<1>. QED
  BY <1>1, <1>2, CalmStep DEF Inv, workers, call
-----------------------------------------------------------------------------
\* A new connection has the invariant.
LEMMA InvInit == Init => Inv
<1> SUFFICES ASSUME Init PROVE Inv
  OBVIOUS
<1>1. Types
  <2>1. Flags /\ Sets
    BY DEF Init, Flags, Sets
  <2>2. pc \in [Threads -> Labels] /\ goal \in [Threads -> Goal]
    <3>1. None \in Goal
      BY Names DEF None, Goal
    <3>. QED
      BY <3>1, Names DEF Init
  <2>3. Rest
    BY Bounds, Names DEF Init, Rest, Segments, Command
  <2>. QED
    BY <2>1, <2>2, <2>3 DEF Types, Places
<1>2. \A t \in Threads : pc[t] \in {"off", "run", "idle"}
  BY DEF Init
<1>3. Writing /\ Quiet /\ Kept /\ NoLeak
  BY <1>2, Names DEF Init, Writing, Quiet, Kept, NoLeak
<1>. QED
  BY <1>1, <1>3 DEF Inv

\* Every step preserves it.
LEMMA InvStep == Inv /\ [Next]_vars => Inv'
<1> SUFFICES ASSUME Inv, [Next]_vars PROVE Inv'
  OBVIOUS
<1>1. CASE Next
  BY <1>1, AppCloseStep, TerminateStep, StoreStateStep, StoreTimeStep, RunStep, FlushStep, InputStep,
     HandleTerminateStep, ProcessStep, ReadStep, WriteStep, TimeStep
  DEF Next, SetState
<1>2. CASE UNCHANGED vars
  <2>1. Types'
    BY <1>2 DEF vars, times, workers, notifiers, call, Inv, Types, Flags, Places, Sets, Rest
  <2>2. Writing' /\ Kept' /\ NoLeak'
    BY <1>2 DEF vars, times, workers, notifiers, call, Inv, Writing, Kept, NoLeak
  <2>3. Quiet'
    BY <1>2 DEF vars, times, workers, notifiers, call, Inv, Quiet, Plan
  <2>. QED
    BY <2>1, <2>2, <2>3 DEF Inv
<1>. QED
  BY <1>1, <1>2

\* Every reachable state has it, whoever uses the connection and for any bounds.
THEOREM ConnectionInvariance == Spec => []Inv
BY InvInit, InvStep, PTL DEF Spec

\* The fields have their types in every reachable state, and no buffer is left in the
\* window of a connection that was terminated.
THEOREM ConnectionIsSound == Spec => []WellFormed
<1>1. Inv => WellFormed
  BY TypesAreTypes DEF Inv, WellFormed
<1>. QED
  BY <1>1, ConnectionInvariance, PTL

\* No interleaving of the writer, the updaters, Input and Close discards a buffer whose
\* Write returned nil, unless the peer has closed, a time limit has passed, the Listener
\* was closed, or a flush has taken a time that a SetState stored while it ran, or had not
\* stored yet, for one past the limit.
THEOREM CloseIsGraceful == Spec => []GracefulClose
<1>1. Inv => GracefulClose
  BY DEF Inv, Kept, GracefulClose
<1>. QED
  BY <1>1, ConnectionInvariance, PTL
=============================================================================
