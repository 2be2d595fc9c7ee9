------------------------------ MODULE UdpWorker ------------------------------
(***************************************************************************)
(* app/proxyman/inbound.udpWorker: the table of UDP sessions of an inbound *)
(* port, with the common/task.Periodic that closes the idle ones.          *)
(*                                                                         *)
(* The hub's goroutine turns each packet into a session; every session has *)
(* a goroutine in which the inbound proxy serves it; the checker runs in   *)
(* its timers' goroutines, and once in the hub's.  The table has a mutex;  *)
(* the flag udpConn.inactive has none.  What is written to a session goes  *)
(* through a pipe (module Pipe) and is not part of this model.             *)
(***************************************************************************)
EXTENDS Integers, FiniteSets

CONSTANTS Sources,  \* connIDs
          Conns     \* bound: udpConn objects in use at a time

\* The objects are numbered; None is none of them.
ASSUME ConnsAssumption == Conns \subseteq Nat \ {0}

\* Timers of the checker that can be set or running at a time.  Two are possible
\* after Close only: the tick under way, and a Start for a packet that was under way or
\* buffered.  A further Start needs one of them to have failed.
Timers == 1 .. 2
Hub == 0
None == 0

VARIABLES
  activeConn,  \* udpWorker.activeConn, None where there is no entry
  id,          \* the connID of each udpConn
  done,        \* udpConn.done is closed
  inactive,    \* udpConn.inactive
  idle,        \* more than 300 s have passed since lastActivityTime
  proc,        \* where the session's goroutine is
  callback,    \* where the hub's goroutine is in callback, ...
  current,     \* ... and the connection it has created
  running,     \* checker.running
  timer,       \* checker.timer, None for nil
  exec,        \* where each timer and the hub's goroutine are in checkedExecute
  missed,      \* history: the last Start came between the error of a clean and the
               \* reset of running, and so found the checker running that was to stop
  closed,      \* Close was called
  panicked,    \* a Must has panicked: the process is gone
  selfEnding   \* the inbound proxy ends sessions by itself (dokodemo), or only when
               \* their input ends (socks, shadowsocks)

tableVars == <<activeConn, id, done, inactive, idle, proc>>
checkerVars == <<running, timer, exec, missed>>
vars == <<tableVars, callback, current, checkerVars, closed, panicked, selfEnding>>

\* Start, and the hub's goroutine waits for a packet.
Init == /\ activeConn = [s \in Sources |-> None]
        /\ id = [c \in Conns |-> None]
        /\ done = [c \in Conns |-> FALSE]
        /\ inactive = [c \in Conns |-> FALSE]
        /\ idle = [c \in Conns |-> FALSE]
        /\ proc = [c \in Conns |-> "gone"]
        /\ callback = "receive"
        /\ current = None
        /\ running = FALSE
        /\ timer = None
        /\ exec = [k \in Timers \cup {Hub} |-> "none"]
        /\ missed = FALSE
        /\ closed = FALSE
        /\ panicked = FALSE
        /\ selfEnding \in BOOLEAN

Goto(c, label) == proc' = [proc EXCEPT ![c] = label]
GotoExec(k, label) == exec' = [exec EXCEPT ![k] = label]
Listed == {activeConn[s] : s \in Sources} \ {None}
-----------------------------------------------------------------------------
\* getConnection finds a session of the source.
Usable(s) == activeConn[s] # None /\ ~done[activeConn[s]]

\* A udpConn to allocate: it is garbage, and its fields are as in Init.
Garbage(c) == proc[c] = "gone" /\ c \notin Listed
Free == IF \E c \in Conns : Garbage(c)
        THEN CHOOSE c \in Conns : Garbage(c) /\ \A d \in Conns : Garbage(d) => c <= d
        ELSE None

\* handlePackets, callback and getConnection for a packet that needs a new session.
\* (A packet of a session that exists is written to its pipe, and no more: see
\* Activity.)  After Close the packets that the hub has buffered are still served, and
\* may start the checker again.
getConnection(s, c) ==
    /\ callback = "receive"
    /\ ~Usable(s)
    /\ c = Free
    /\ activeConn' = [activeConn EXCEPT ![s] = c]
    /\ id' = [id EXCEPT ![c] = s]
    /\ Goto(c, "new")
    /\ callback' = "start"
    /\ current' = c
    /\ UNCHANGED <<done, inactive, idle, checkerVars, closed, panicked, selfEnding>>

\* checker.Start in callback, which returns at once when the task is running
Start ==
    /\ callback = "start"
    /\ running' = TRUE
    /\ IF running THEN callback' = "spawn" /\ UNCHANGED exec
                  ELSE callback' = "check" /\ GotoExec(Hub, "fired")
    /\ missed' = (running /\ \E k \in Timers : exec[k] = "failed")
    /\ UNCHANGED <<tableVars, current, timer, closed, panicked, selfEnding>>

\* callback starts the session's goroutine and returns to handlePackets.
Spawn ==
    /\ callback = "spawn"
    /\ Goto(current, "process")
    /\ callback' = "receive"
    /\ current' = None
    /\ UNCHANGED <<activeConn, id, done, inactive, idle, checkerVars, closed, panicked,
                   selfEnding>>
-----------------------------------------------------------------------------
\* The proxy reads a packet of the session or writes one to it: updateActivity.
Activity(c) ==
    /\ proc[c] = "process" /\ idle[c]
    /\ idle' = [idle EXCEPT ![c] = FALSE]
    /\ UNCHANGED <<activeConn, id, done, inactive, proc, callback, current, checkerVars,
                   closed, panicked, selfEnding>>

\* 300 s pass without that.
Elapse(c) ==
    /\ proc[c] = "process" /\ ~idle[c]
    /\ idle' = [idle EXCEPT ![c] = TRUE]
    /\ UNCHANGED <<activeConn, id, done, inactive, proc, callback, current, checkerVars,
                   closed, panicked, selfEnding>>

\* Proxy.Process returns: of its own accord, or as its input has ended.
ProcessEnds(c) ==
    /\ proc[c] = "process"
    /\ selfEnding \/ done[c]
    /\ Goto(c, "close")
    /\ UNCHANGED <<activeConn, id, done, inactive, idle, callback, current, checkerVars,
                   closed, panicked, selfEnding>>

\* udpConn.Close in the session's goroutine, ...
CloseConn(c) ==
    /\ proc[c] = "close"
    /\ done' = [done EXCEPT ![c] = TRUE]
    /\ Goto(c, "look")
    /\ UNCHANGED <<activeConn, id, inactive, idle, callback, current, checkerVars,
                   closed, panicked, selfEnding>>

\* The goroutine returns, and nothing refers to the udpConn any more.
Collected(c) == /\ id' = [id EXCEPT ![c] = None]
                /\ done' = [done EXCEPT ![c] = FALSE]
                /\ inactive' = [inactive EXCEPT ![c] = FALSE]
                /\ idle' = [idle EXCEPT ![c] = FALSE]
                /\ Goto(c, "gone")

\* Slips (here and below): variants of the next definition with a bug that a
\* change of the code could introduce.  No specification uses them; the
\* properties are checked to tell each one from the code.

\* Slip: the goroutine leaves the entry to the checker.
LookInactive_leaves(c) ==
    /\ proc[c] = "look"
    /\ Collected(c)
    /\ UNCHANGED <<activeConn, callback, current, checkerVars, closed, panicked,
                   selfEnding>>

\* Slip: the entry is removed whether or not the checker has done it.
LookInactive_always(c) ==
    /\ proc[c] = "look"
    /\ Goto(c, "set")
    /\ UNCHANGED <<activeConn, id, done, inactive, idle, callback, current, checkerVars,
                   closed, panicked, selfEnding>>

\* ... which reads the flag, ...
LookInactive(c) ==
    /\ proc[c] = "look"
    /\ IF inactive[c] THEN Collected(c)
                      ELSE Goto(c, "set") /\ UNCHANGED <<id, done, inactive, idle>>
    /\ UNCHANGED <<activeConn, callback, current, checkerVars, closed, panicked,
                   selfEnding>>

\* ... sets it, ...
setInactive(c) ==
    /\ proc[c] = "set"
    /\ inactive' = [inactive EXCEPT ![c] = TRUE]
    /\ Goto(c, "remove")
    /\ UNCHANGED <<activeConn, id, done, idle, callback, current, checkerVars, closed,
                   panicked, selfEnding>>

\* ... and removes the entry of the connID, whichever connection it has by now.
removeConn(c) ==
    /\ proc[c] = "remove"
    /\ activeConn' = [activeConn EXCEPT ![id[c]] = None]
    /\ Collected(c)
    /\ UNCHANGED <<callback, current, checkerVars, closed, panicked, selfEnding>>
-----------------------------------------------------------------------------
\* The checker.  A timer fires, ...
Fire(k) ==
    /\ k # Hub /\ exec[k] = "armed"
    /\ GotoExec(k, "fired")
    /\ UNCHANGED <<tableVars, callback, current, running, timer, missed, closed, panicked,
                   selfEnding>>

\* Where a checkedExecute of goroutine k that goes no further leaves it.
Returned(k) == /\ GotoExec(k, "none")
               /\ callback' = IF k = Hub THEN "spawn" ELSE callback

\* ... checkedExecute asks hasClosed, ...
hasClosed(k) ==
    /\ exec[k] = "fired"
    /\ IF running THEN GotoExec(k, "clean") /\ UNCHANGED callback ELSE Returned(k)
    /\ UNCHANGED <<tableVars, current, running, timer, missed, closed, panicked,
                   selfEnding>>

\* The entries clean closes.
Expired == {s \in Sources : activeConn[s] # None /\ idle[activeConn[s]]}

\* Slip: clean leaves the flag alone.
MarkInactive_not(gone) == UNCHANGED inactive

MarkInactive(gone) == inactive' = [c \in Conns |-> inactive[c] \/ c \in gone]

\* ... and executes clean: an error when the table is empty, ...
clean(k) ==
    /\ exec[k] = "clean"
    /\ \/ /\ Listed = {}
          /\ GotoExec(k, "failed")
          /\ UNCHANGED tableVars
       \/ /\ Listed # {}
          /\ LET gone == {activeConn[s] : s \in Expired} IN
             /\ activeConn' = [s \in Sources |->
                    IF s \in Expired /\ ~inactive[activeConn[s]] THEN None
                    ELSE activeConn[s]]
             /\ MarkInactive(gone)
             /\ done' = [c \in Conns |-> done[c] \/ c \in gone]
          /\ GotoExec(k, "executed")
          /\ UNCHANGED <<id, idle, proc>>
    /\ UNCHANGED <<callback, current, running, timer, missed, closed, panicked,
                   selfEnding>>

\* ... which stops the checker, and the process when it was a Start,
Failed(k) ==
    /\ exec[k] = "failed"
    /\ running' = FALSE
    /\ GotoExec(k, "none")
    /\ panicked' = (k = Hub)
    /\ UNCHANGED <<tableVars, callback, current, timer, missed, closed, selfEnding>>

\* Slip: the timer is not set again.
Rearm_never(k, j) ==
    /\ exec[k] = "executed"
    /\ IF k = Hub THEN exec[j] = "none" ELSE j = k
    /\ Returned(k)
    /\ UNCHANGED <<tableVars, current, running, timer, missed, closed, panicked,
                   selfEnding>>

\* or sets a timer (j) for the next one.
Rearm(k, j) ==
    /\ exec[k] = "executed"
    /\ IF k = Hub THEN exec[j] = "none" ELSE j = k
    /\ IF running
       THEN /\ exec' = [exec EXCEPT ![k] = "none", ![j] = "armed"]
            /\ timer' = j
            /\ callback' = IF k = Hub THEN "spawn" ELSE callback
       ELSE Returned(k) /\ UNCHANGED timer
    /\ UNCHANGED <<tableVars, current, running, missed, closed, panicked, selfEnding>>

\* udpWorker.Close: the hub and the checker, but none of the sessions
CloseWorker ==
    /\ ~closed
    /\ closed' = TRUE
    /\ running' = FALSE
    /\ exec' = [k \in DOMAIN exec |->
                  IF k = timer /\ exec[k] = "armed" THEN "none" ELSE exec[k]]
    /\ timer' = None
    /\ UNCHANGED <<tableVars, callback, current, missed, panicked, selfEnding>>

CallbackStep == Start \/ Spawn
SessionStep(c) == CloseConn(c) \/ LookInactive(c) \/ setInactive(c) \/ removeConn(c)
ExecStep(k) == \/ Fire(k) \/ hasClosed(k) \/ clean(k) \/ Failed(k)
               \/ \E j \in Timers : Rearm(k, j)

Next ==
    /\ ~panicked
    /\ \/ \E s \in Sources, c \in Conns : getConnection(s, c)
       \/ CallbackStep
       \/ \E c \in Conns : Activity(c) \/ Elapse(c) \/ ProcessEnds(c) \/ SessionStep(c)
       \/ \E k \in Timers \cup {Hub} : ExecStep(k)
       \/ CloseWorker

Spec == Init /\ [][Next]_vars

\* Goroutines run and timers fire; a proxy's Process returns when its input has ended.
\* Nobody owes a packet, an end of its own by the proxy, or a Close.
FairSpec ==
    /\ Spec
    /\ WF_vars(~panicked /\ CallbackStep)
    /\ \A c \in Conns : /\ WF_vars(~panicked /\ SessionStep(c))
                        /\ WF_vars(~panicked /\ done[c] /\ ProcessEnds(c))
    /\ \A k \in Timers \cup {Hub} : WF_vars(~panicked /\ ExecStep(k))
-----------------------------------------------------------------------------
\* The variables have the types of what they stand for, and the hub's goroutine holds a
\* new connection exactly while it is in callback.
TypeOK ==
    /\ activeConn \in [Sources -> Conns \cup {None}]
    /\ id \in [Conns -> Sources \cup {None}]
    /\ done \in [Conns -> BOOLEAN] /\ inactive \in [Conns -> BOOLEAN]
    /\ idle \in [Conns -> BOOLEAN]
    /\ proc \in [Conns -> {"gone", "new", "process", "close", "look", "set", "remove"}]
    /\ callback \in {"receive", "start", "check", "spawn"}
    /\ current \in Conns \cup {None}
    /\ current = None <=> callback = "receive"
    /\ running \in BOOLEAN
    /\ timer \in Timers \cup {None}
    /\ exec \in [Timers \cup {Hub} ->
                   {"none", "armed", "fired", "clean", "failed", "executed"}]
    /\ missed \in BOOLEAN /\ closed \in BOOLEAN
    /\ panicked \in BOOLEAN /\ selfEnding \in BOOLEAN

\* checker.Start never fails: callback wraps it in common.Must.
StartSucceeds == ~panicked

\* That is so for proxies that leave the end of their sessions to the worker: the
\* entry made by getConnection is still there when the checker first looks at it.
StartSucceedsForPassive == ~selfEnding => StartSucceeds

\* For these proxies a source never has two sessions: the goroutine of a closed one
\* never removes the entry of its successor.
OneSession ==
    ~selfEnding =>
        \A c \in Conns : proc[c] # "gone" /\ ~done[c] => activeConn[id[c]] = c

\* A session whose goroutine has returned is not in the table, whichever of the
\* goroutine and the checker was to remove it.
NoStaleEntry == \A c \in Listed : proc[c] # "gone"

\* While sessions are in the table, the checker is running or being started.  The only
\* way out is a Start that comes while the checker is about to stop.
CheckerRuns == Listed # {} /\ ~closed /\ ~missed => running \/ callback = "start"

\* The table holds only sessions that are alive, and somebody looks after them.
WellFormed == TypeOK /\ NoStaleEntry /\ CheckerRuns

\* A session that its proxy leaves to the worker, and that stays idle, is closed: clean is
\* run again and again, through the stops and starts of the checker.  The exceptions: a
\* Start that came between the error of a clean and the reset of running (missed), after
\* which nobody looks until the next one; and Close of the worker, which stops the checker
\* and leaves the sessions.
IdleClosed ==
    \A c \in Conns : proc[c] = "process" /\ idle[c] /\ ~selfEnding
        ~> done[c] \/ ~idle[c] \/ missed \/ closed
=============================================================================
