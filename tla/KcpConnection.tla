---------------------------- MODULE KcpConnection ----------------------------
(***************************************************************************)
(* transport/internet/kcp: the life of one Connection object, from         *)
(* NewConnection to Terminate, against a peer and a network that may send  *)
(* anything at any time.                                                   *)
(*                                                                         *)
(* The state is an atomic variable that goroutines read with State and     *)
(* later overwrite with SetState: the application's Close, the goroutine   *)
(* that feeds Input, and the runs of the two Updaters.  Each reading of    *)
(* the state, together with the condition it belongs to, is one step; the  *)
(* two stores of SetState, the state and its time, are two more.  flush    *)
(* reads the clock once, at its beginning, and subtracts from it times     *)
(* that others may have stored since: the difference is unsigned, so that  *)
(* a later time looks like one long ago.  What a window holds and how it   *)
(* is transferred is the subject of KcpTransfer; here a buffer is a        *)
(* number.                                                                 *)
(***************************************************************************)
EXTENDS Integers, FiniteSets

CONSTANTS Uses,         \* how connections are used: see use below
          SendWindow,   \* SendingWorker.windowSize
          MaxPush,      \* bound: buffers written
          MaxInput      \* bound: segments received

Command == {"data", "ack", "ping", "terminate"}
Segments == [cmd : Command, close : BOOLEAN]

ASSUME ConnectionAssumption ==
    /\ \A u \in Uses : /\ u.callers \subseteq {"closer", "reader", "writer"}
                       /\ u.isServer \in BOOLEAN
                       /\ u.peer \subseteq Segments
    /\ {SendWindow, MaxPush, MaxInput} \subseteq Nat

State == {"Active", "ReadyToClose", "PeerClosed", "Terminating",
          "PeerTerminating", "Terminated"}
Updaters == {"data", "ping"}
Threads == Updaters \cup {"input", "closer", "reader", "writer"}
Buffers == 1 .. MaxPush

VARIABLES
  use,           \* callers: which goroutines the application has for the connection;
                 \* isServer: accepted by a Listener, which may be closed; peer: the
                 \* segments that may arrive.  Never changes.
  state,         \* Connection.state
  aged,          \* stateBeginTime is past the time limit of the state
  silent,        \* lastIncomingTime is 30 seconds ago
  late,          \* the times stored since an updater's flush has read the clock:
                 \* stateBeginTime ("state"), lastIncomingTime ("incoming")
  window,        \* SendingWorker.window
  arrived,       \* the next segment is in the ReceivingWindow
  acks,          \* the AckList is not empty
  dataInput,     \* tokens of the two Notifiers
  dataOutput,
  released,      \* Terminate has closed the closer and released the workers
  terminate,     \* a goroutine is about to run Terminate
  pc,            \* where each thread is
  goal,          \* the state a thread is about to set, and where it goes on
  seg,           \* the segment Input is working on
  held,          \* the writer's b holds a buffer not yet pushed
  updatePending, \* the writer's updatePending
  pushed,        \* buffers pushed by the current call of the writer
  next,          \* next buffer
  inputs,        \* segments received so far
  closing,       \* history: the application has called Close
  confirmed,     \* history: buffers whose Write returned nil
  excused,       \* history: the peer closed, a time limit passed, the Listener
                 \* was closed, or flush took a time that was stored while it
                 \* ran, or that of the previous state, for one past the limit
  dropped        \* history: buffers discarded unacknowledged and not excused

times == <<aged, silent, late>>
workers == <<window, arrived, acks>>
notifiers == <<dataInput, dataOutput>>
call == <<held, updatePending, pushed, next, confirmed>>
vars == <<use, state, times, workers, notifiers, released, terminate, pc, goal, seg,
          call, inputs, closing, dropped, excused>>

Callers == use.callers

None == [to |-> "Active", then |-> "idle"]

\* NewConnection, with its WakeUp of pingUpdater
Init == /\ use \in Uses
        /\ state = "Active"
        /\ aged = FALSE
        /\ silent = FALSE
        /\ late = [u \in Updaters |-> {}]
        /\ window = {}
        /\ arrived = FALSE
        /\ acks = FALSE
        /\ dataInput = FALSE
        /\ dataOutput = FALSE
        /\ released = FALSE
        /\ terminate = FALSE
        /\ pc = [t \in Threads |-> IF t = "data" THEN "off"
                                   ELSE IF t = "ping" THEN "run" ELSE "idle"]
        /\ goal = [t \in Threads |-> None]
        /\ seg = [cmd |-> "ping", close |-> FALSE]
        /\ held = FALSE
        /\ updatePending = FALSE
        /\ pushed = {}
        /\ next = 1
        /\ inputs = 0
        /\ closing = FALSE
        /\ confirmed = {}
        /\ dropped = {}
        /\ excused = FALSE
-----------------------------------------------------------------------------
At(t, label) == pc[t] = label
Goto(t, label) == pc' = [pc EXCEPT ![t] = label]

\* Updater.WakeUp: run starts if the semaphore's token is there.
WakeUp(p, u) == IF p[u] = "off" THEN [p EXCEPT ![u] = "run"] ELSE p

\* The thread has read the state and is going to call SetState(s).
Decide(t, s, label) ==
    /\ Goto(t, "set")
    /\ goal' = [goal EXCEPT ![t] = [to |-> s, then |-> label]]

GoOn(t, label) == Goto(t, label) /\ UNCHANGED goal

\* Slips (here and below): variants of a later definition with a bug that a change
\* of the code could introduce.  No specification uses them; the properties are
\* checked to tell each one from the code.

\* What the CloseWrite of SetState(s) leaves in the window
CloseWrite(s) == IF s = "ReadyToClose" THEN window ELSE {}

\* The updaters whose flush goes on after this step have read the clock before it.
Stored(time, p) ==
    late' = [u \in Updaters |-> IF p[u] \in {"flush", "set", "stamp"}
                               THEN late[u] \cup {time} ELSE {}]

\* SetState stores the state ...
StoreState(t) ==
    /\ At(t, "set")
    /\ state' = goal[t].to
    /\ Goto(t, "stamp")
    /\ UNCHANGED <<times, workers, notifiers, released, terminate, goal, seg, call,
                   inputs, closing, dropped, excused>>

\* ... and then the time, and does what the state demands.
StoreTime(t) ==
    LET s == goal[t].to
        p == [pc EXCEPT ![t] = goal[t].then]
    IN  /\ At(t, "stamp")
        /\ aged' = FALSE
        /\ Stored("state", p)
        /\ window' = CloseWrite(s)
        /\ dropped' = IF excused THEN dropped ELSE dropped \cup (window \ window')
        /\ pc' = IF s = "Terminated" THEN WakeUp(WakeUp(p, "data"), "ping") ELSE p
        /\ terminate' = (terminate \/ s = "Terminated")
        /\ goal' = [goal EXCEPT ![t] = None]
        /\ UNCHANGED <<state, silent, arrived, acks, notifiers, released, seg, call,
                       inputs, closing, excused>>

SetState(t) == StoreState(t) \/ StoreTime(t)

\* Close, called by the application or by flush.
Close(t, label) ==
    /\ dataInput' = TRUE
    /\ dataOutput' = TRUE
    /\ \/ state = "Active" /\ Decide(t, "ReadyToClose", label)
       \/ state = "PeerClosed" /\ Decide(t, "Terminating", label)
       \/ state = "PeerTerminating" /\ Decide(t, "Terminated", label)
       \/ /\ state \in {"ReadyToClose", "Terminating", "Terminated"}
          /\ GoOn(t, label)

AppClose ==
    /\ "closer" \in Callers /\ At("closer", "idle") /\ ~closing
    /\ Close("closer", "idle")
    /\ closing' = TRUE
    /\ UNCHANGED <<state, times, workers, released, terminate, seg, call,
                   inputs, dropped, excused>>

Terminate ==
    /\ terminate
    /\ terminate' = FALSE
    /\ dataInput' = TRUE
    /\ dataOutput' = TRUE
    /\ released' = TRUE
    /\ window' = {}
    /\ dropped' = IF excused THEN dropped ELSE dropped \cup window
    /\ UNCHANGED <<state, times, arrived, acks, pc, goal, seg, call, inputs,
                   closing, excused>>

\* Listener.Close
ListenerClose ==
    /\ use.isServer /\ ~released
    /\ terminate' = TRUE
    /\ excused' = TRUE
    /\ UNCHANGED <<state, times, workers, notifiers, released, pc, goal, seg, call, inputs, closing, dropped>>
-----------------------------------------------------------------------------
\* Updater.run.  Both conditions of the data updater stop at Terminating, those
\* of the ping updater at Terminated.
shouldTerminate(u) == \/ state = "Terminated"
                      \/ u = "data" /\ state = "Terminating"

\* Slip: the ping updater, too, stops when there is nothing to send.
shouldContinue_idle(u) == ~shouldTerminate(u) /\ (window # {} \/ acks)

shouldContinue(u) == /\ ~shouldTerminate(u)
                     /\ u = "data" => window # {} \/ acks

run(u) ==
    /\ \/ At(u, "run") /\ Goto(u, IF shouldTerminate(u) THEN "signal" ELSE "loop")
       \/ At(u, "loop") /\ Goto(u, IF shouldContinue(u) THEN "flush" ELSE "signal")
       \/ At(u, "signal") /\ Goto(u, "off")
    /\ UNCHANGED <<state, times, workers, notifiers, released, terminate, goal, seg,
                   call, inputs, closing, dropped, excused>>

\* Slip: the closing end does not wait for its window to empty.
IsEmpty_assumed == TRUE

\* SendingWorker.IsEmpty
IsEmpty == window = {}

\* Slip: a silent peer is waited for.
Silent_never(u) == {FALSE}

\* Whether 30 seconds have passed since lastIncomingTime: one stored in a later
\* millisecond than the clock was read in makes the difference wrap round.
Silent(u) == IF "incoming" \in late[u] THEN BOOLEAN ELSE {silent}

\* Whether stateBeginTime is past the limit: the same, and between the two stores of a
\* SetState it is the time of the previous state, which is of any age.
Expired(u) == IF "state" \in late[u] \/ \E t \in Threads : At(t, "stamp")
              THEN BOOLEAN ELSE {aged}

\* A limit: past it the state becomes s, and flush goes on at one of two labels.
Limit(u, s, then, else) ==
    \E e \in Expired(u) :
        /\ IF e THEN Decide(u, s, then) ELSE GoOn(u, else)
        /\ excused' = (excused \/ (e /\ ~aged))

\* Connection.flush.  Its conditions exclude each other, so one reading of the
\* state stands for those up to the first that holds; after Close, or after the
\* change to Terminating that IsEmpty allows, the rest are evaluated anew.  The
\* pings, acks and data it writes change nothing here.
flush(u) ==
    /\ \/ /\ At(u, "flush") /\ state = "Active"
          /\ \/ TRUE \in Silent(u) /\ Close(u, "flush")
             \/ FALSE \in Silent(u) /\ GoOn(u, "write") /\ UNCHANGED notifiers
          /\ UNCHANGED excused
       \/ /\ At(u, "flush")
          /\ \/ state = "PeerClosed" /\ GoOn(u, "write") /\ UNCHANGED excused
             \/ state = "Terminated" /\ GoOn(u, "loop") /\ UNCHANGED excused
             \/ /\ state = "ReadyToClose" /\ IsEmpty
                /\ Decide(u, "Terminating", "flush") /\ UNCHANGED excused
             \/ /\ state = "ReadyToClose" /\ ~IsEmpty
                /\ Limit(u, "Terminating", "write", "write")
             \/ /\ state = "Terminating"              \* Ping(CommandTerminate)
                /\ Limit(u, "Terminated", "loop", "loop")
             \/ /\ state = "PeerTerminating"
                /\ Limit(u, "Terminating", "write", "write")
          /\ UNCHANGED notifiers
       \/ At(u, "write") /\ GoOn(u, "loop") /\ UNCHANGED <<notifiers, excused>>
    /\ late' = [late EXCEPT ![u] = IF pc'[u] \in {"flush", "set"} THEN @ ELSE {}]
    /\ UNCHANGED <<state, aged, silent, workers, released, terminate, seg, call, inputs,
                   closing, dropped>>
-----------------------------------------------------------------------------
\* HandleOption and OnPeerClosed; Input goes on at label.
HandleOption(close, label) ==
    IF close /\ state = "ReadyToClose" THEN Decide("input", "Terminating", label)
    ELSE IF close /\ state = "Active" THEN Decide("input", "PeerClosed", label)
    ELSE GoOn("input", label)

\* Input of one segment, one at a time.  The Listener has forgotten an accepted
\* connection that was released; what a dialled one has read before is still handled.
Input(cmd, close) ==
    /\ At("input", "idle") /\ (use.isServer => ~released)
    /\ inputs < MaxInput /\ [cmd |-> cmd, close |-> close] \in use.peer
    /\ inputs' = inputs + 1
    /\ seg' = [cmd |-> cmd, close |-> close]
    /\ silent' = FALSE
    /\ Stored("incoming", pc)
    /\ excused' = (excused \/ close \/ cmd = "terminate")
    /\ HandleOption(close, IF cmd = "terminate" THEN "command" ELSE "process")
    /\ UNCHANGED <<state, aged, workers, notifiers, released, terminate, call, closing,
                   dropped>>

\* The switch of Input on CommandTerminate
HandleTerminate ==
    /\ At("input", "command")
    /\ IF state \in {"PeerTerminating", "Terminated"}
       THEN GoOn("input", "process")
       ELSE Decide("input",
                   CASE state \in {"Active", "PeerClosed"} -> "PeerTerminating"
                     [] state = "ReadyToClose" -> "Terminating"
                     [] state = "Terminating" -> "Terminated",
                   "process")
    /\ UNCHANGED <<state, times, workers, notifiers, released, terminate, seg, call, inputs, closing, dropped, excused>>

\* The rest of Input.  A data segment may be out of the window, or not the next
\* one; an ack or a ping acknowledges some buffers; a ping may clear the acks.
Process ==
    /\ At("input", "process")
    /\ \/ /\ seg.cmd = "data"
          /\ arrived' \in {arrived, TRUE}
          /\ acks' \in IF arrived' # arrived THEN {TRUE} ELSE {acks, TRUE}
          /\ dataInput' = (dataInput \/ arrived')
          /\ UNCHANGED <<window, dataOutput>>
          /\ pc' = WakeUp([pc EXCEPT !["input"] = "idle"], "data")
       \/ /\ seg.cmd = "ack"
          /\ window' \in IF released THEN {window} ELSE SUBSET window
          /\ dataOutput' = TRUE
          /\ UNCHANGED <<arrived, acks, dataInput>>
          /\ pc' = WakeUp([pc EXCEPT !["input"] = "idle"], "data")
       \/ /\ seg.cmd \in {"ping", "terminate"}
          /\ dataInput' = (dataInput \/ seg.close \/ seg.cmd = "terminate")
          /\ dataOutput' = (dataOutput \/ seg.close \/ seg.cmd = "terminate")
          /\ window' \in SUBSET window
          /\ acks' \in {acks, FALSE}
          /\ UNCHANGED arrived
          /\ Goto("input", "idle")
    /\ UNCHANGED <<state, times, released, terminate, goal, seg, call, inputs,
                   closing, dropped, excused>>
-----------------------------------------------------------------------------
\* Read and ReadMultiBuffer
ReadCall ==
    /\ "reader" \in Callers /\ At("reader", "idle")
    /\ Goto("reader", "check")
    /\ UNCHANGED <<state, times, workers, notifiers, released, terminate, goal, seg,
                   call, inputs, closing, dropped, excused>>

\* The states in which a read returns EOF at once
Ended == state \in {"ReadyToClose", "Terminating", "Terminated"}

Read ==
    /\ "reader" \in Callers
    /\ \/ /\ At("reader", "check")
          /\ Goto("reader", IF Ended THEN "idle" ELSE "take")
          /\ UNCHANGED <<arrived, dataInput>>
       \/ /\ At("reader", "take") /\ arrived
          /\ arrived' = FALSE
          /\ pc' = WakeUp([pc EXCEPT !["reader"] = "idle"], "data")
          /\ UNCHANGED dataInput
       \/ /\ At("reader", "take") /\ ~arrived        \* Read, ReadMultiBuffer
          /\ \E l \in {"wait", "peer"} : Goto("reader", l)
          /\ UNCHANGED <<arrived, dataInput>>
       \/ /\ At("reader", "peer")
          /\ Goto("reader", IF state = "PeerTerminating" THEN "idle" ELSE "wait")
          /\ UNCHANGED <<arrived, dataInput>>
       \/ /\ At("reader", "wait") /\ dataInput       \* waitForDataInput
          /\ dataInput' = FALSE
          /\ Goto("reader", "check")
          /\ UNCHANGED arrived
       \/ /\ At("reader", "wait")            \* 16 seconds, or the deadline
          /\ \E l \in {"check", "idle"} : Goto("reader", l)
          /\ UNCHANGED <<arrived, dataInput>>
    /\ UNCHANGED <<state, times, window, acks, dataOutput, released, terminate, goal,
                   seg, call, inputs, closing, dropped, excused>>

\* The writer returns, and its deferred functions run.
Return(ok) ==
    /\ confirmed' = IF ok THEN confirmed \cup pushed ELSE confirmed
    /\ pc' = LET p == [pc EXCEPT !["writer"] = "idle"]
             IN  IF updatePending THEN WakeUp(p, "data") ELSE p
    /\ held' = FALSE
    /\ updatePending' = FALSE
    /\ pushed' = {}
    /\ UNCHANGED <<next, window, dataOutput>>

\* Slip: Push does not look at closed.
Refused_full == Cardinality(window) > SendWindow

\* SendingWorker.Push returns false.
Refused == released \/ Cardinality(window) > SendWindow

\* The condition at the head of writeMultiBufferInternal's loop
Writable == state = "Active"

\* writeMultiBufferInternal; the source ends whenever it likes.
WriteCall ==
    /\ "writer" \in Callers /\ At("writer", "idle")
    /\ next \in Buffers
    /\ Goto("writer", "check")
    /\ UNCHANGED <<state, times, workers, notifiers, released, terminate, goal, seg,
                   call, inputs, closing, dropped, excused>>

Write ==
    /\ "writer" \in Callers
    /\ \/ At("writer", "check") /\ ~Writable /\ Return(FALSE)
       \/ At("writer", "check") /\ Writable /\ ~held /\ Return(TRUE)
       \/ /\ At("writer", "check") /\ Writable
          /\ held \/ next \in Buffers
          /\ held' = TRUE
          /\ Goto("writer", "push")
          /\ UNCHANGED <<updatePending, pushed, next, confirmed, window, dataOutput>>
       \/ /\ At("writer", "push")
          /\ ~Refused
          /\ window' = window \cup {next}
          /\ pushed' = pushed \cup {next}
          /\ next' = next + 1
          /\ held' = FALSE
          /\ updatePending' = TRUE
          /\ Goto("writer", "check")
          /\ UNCHANGED <<confirmed, dataOutput>>
       \/ /\ At("writer", "push")
          /\ Refused
          /\ pc' = LET p == [pc EXCEPT !["writer"] = "wait"]
                   IN  IF updatePending THEN WakeUp(p, "data") ELSE p
          /\ updatePending' = FALSE
          /\ UNCHANGED <<held, pushed, next, confirmed, window, dataOutput>>
       \/ /\ At("writer", "wait") /\ dataOutput          \* waitForDataOutput
          /\ dataOutput' = FALSE
          /\ Goto("writer", "check")
          /\ UNCHANGED <<call, window>>
       \/ /\ At("writer", "wait")                        \* 16 seconds
          /\ Goto("writer", "check")
          /\ UNCHANGED <<call, window, dataOutput>>
       \/ /\ At("writer", "wait")                        \* the deadline
          /\ Return(FALSE)
    /\ UNCHANGED <<state, times, arrived, acks, dataInput, released, terminate, goal,
                   seg, inputs, closing, dropped, excused>>
-----------------------------------------------------------------------------
\* Time passes: 4, 8 or 15 seconds in a state that has a limit, 30 seconds
\* without a segment.  No goroutine stands for that long between reading the
\* state and setting it.
Settled == \A t \in Threads : pc[t] \notin {"set", "stamp"}

Age == /\ Settled /\ ~aged
       /\ state \in {"ReadyToClose", "Terminating", "PeerTerminating"}
       /\ aged' = TRUE
       /\ excused' = TRUE
       /\ UNCHANGED <<state, silent, late, workers, notifiers, released, terminate, pc,
                      goal, seg, call, inputs, closing, dropped>>

Silence == /\ Settled /\ ~silent
           /\ silent' = TRUE
           /\ excused' = TRUE
           /\ UNCHANGED <<state, aged, late, workers, notifiers, released, terminate, pc,
                          goal, seg, call, inputs, closing, dropped>>

Next == /\ \/ AppClose \/ Terminate \/ ListenerClose
           \/ \E t \in Threads : SetState(t)
           \/ \E u \in Updaters : run(u) \/ flush(u)
           \/ \E cmd \in Command, close \in BOOLEAN : Input(cmd, close)
           \/ HandleTerminate \/ Process
           \/ ReadCall \/ Read
           \/ WriteCall \/ Write
           \/ Age \/ Silence
        /\ UNCHANGED use

Spec == Init /\ [][Next]_vars

GoesOn(step) == step /\ UNCHANGED use

\* Goroutines are scheduled and clocks advance.  Nobody need call, send or close
\* anything.
FairSpec ==
    /\ Spec
    /\ \A u \in Updaters : WF_vars(GoesOn(SetState(u) \/ run(u) \/ flush(u)))
    /\ WF_vars(GoesOn(SetState("input") \/ HandleTerminate \/ Process))
    /\ WF_vars(GoesOn(SetState("closer")))
    /\ WF_vars(GoesOn(Read)) /\ WF_vars(GoesOn(Write)) /\ WF_vars(GoesOn(Terminate))
    /\ SF_vars(GoesOn(Age)) /\ SF_vars(GoesOn(Silence))
-----------------------------------------------------------------------------
Labels == {"idle", "set", "stamp", "off", "run", "loop", "signal", "flush", "write", "command",
           "process", "check", "take", "peer", "wait", "push"}

\* The variables have the types of the fields they stand for.
TypeOK ==
    /\ use \in Uses
    /\ state \in State
    /\ {aged, silent, arrived, acks, dataInput, dataOutput, released, terminate,
        held, updatePending, closing, excused} \subseteq BOOLEAN
    /\ late \in [Updaters -> SUBSET {"state", "incoming"}]
    /\ pc \in [Threads -> Labels]
    /\ goal \in [Threads -> [to : State, then : Labels]]
    /\ seg \in Segments
    /\ window \subseteq Buffers
    /\ pushed \subseteq Buffers
    /\ next \in 1 .. MaxPush + 1
    /\ inputs \in 0 .. MaxInput
    /\ confirmed \subseteq Buffers
    /\ dropped \subseteq Buffers

\* Close is graceful: a buffer whose Write returned nil is discarded only when
\* the peer has closed, a time limit has passed, the Listener was closed, or a flush
\* has compared its clock with a stateBeginTime that a SetState stored while it ran or
\* had not stored yet (connection.go:609-636, uint32 differences).  The closing end
\* otherwise waits for the acknowledgement, whatever the writer, the updaters, Close
\* and segments that look like 30 seconds of silence do to each other.
GracefulClose == confirmed \cap dropped = {}

\* Once Terminate has been asked for it is the end of the sending window: no
\* buffer is left in it that nobody would release.
NoLeak == released => window = {}

\* The fields are what they should be, the sending window of an ended connection too.
WellFormed == TypeOK /\ NoLeak

\* Every connection is torn down in the end, although the peer never answers and
\* nobody calls Close, unless it is left in PeerClosed, which has no time limit.
EventuallyReleased == <>released \/ <>[](state = "PeerClosed")

\* No call blocks for ever: a peer that falls silent, a Close or a Terminate ends
\* it (a read in PeerClosed excepted).
CallsReturn ==
    \A t \in {"reader", "writer"} :
        \/ []<>(pc[t] = "idle")
        \/ t = "reader" /\ <>[](state = "PeerClosed")

\* Neither the connection nor a goroutine in one of its calls is left behind.
AllEnd == EventuallyReleased /\ CallsReturn

\* No buffer waits for ever in the window: although WakeUp may come too early for
\* a data updater that is about to stop, some flush goes through it or it empties.
Flushed == window # {} ~> window = {} \/ \E u \in Updaters : pc[u] = "write"
=============================================================================
