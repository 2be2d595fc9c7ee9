------------------------------ MODULE MuxClient ------------------------------
(***************************************************************************)
(* common/mux, the client's side of control: ClientManager.Dispatch, the   *)
(* IncrementalWorkerPicker with its periodic clean-up, and of every        *)
(* ClientWorker the SessionManager and the monitor.                        *)
(*                                                                         *)
(* A session is one accepted request.  Its frames are not modelled here: a *)
(* session ends when it likes, a carrier connection fails when it likes.   *)
(***************************************************************************)
EXTENDS Integers, Sequences, FiniteSets

CONSTANTS Dispatchers,     \* goroutines that call ClientManager.Dispatch
          Tries,           \* attempts of one Dispatch, 16
          MaxConcurrency,  \* ClientStrategy, 0 for no limit
          MaxConnection,
          MaxWorkers,      \* bound: workers created
          MaxCalls,        \* bound: calls per dispatcher
          MaxFailures      \* bound: carrier connections that fail

ASSUME MuxClientAssumption ==
    /\ {Tries, MaxWorkers} \subseteq Nat \ {0}
    /\ {MaxConcurrency, MaxConnection, MaxCalls, MaxFailures} \subseteq Nat
    /\ IsFiniteSet(Dispatchers)

Worker == 1 .. MaxWorkers
Request == Dispatchers \X (1 .. MaxCalls)

VARIABLES
  workers,   \* IncrementalWorkerPicker.workers
  created,   \* workers created so far
  running,   \* cleanupTask.running
  ticking,   \* cleanupTask's timer is armed
  stopped,   \* history: IncrementalWorkerPicker.Close was called
  failing,   \* cleanupFunc has returned an error that Periodic has yet to note
  sessions,  \* SessionManager.sessions of each worker
  count,     \* SessionManager.count
  closed,    \* SessionManager.closed
  done,      \* ClientWorker.done
  monitor,   \* where each monitor is
  failed,    \* history: the carrier connection failed
  open,      \* history: accepted requests that have not ended
  pc, tries, calls, picked,  \* of each dispatcher
  alone,     \* history: no one else has moved since its Dispatch was called
  crashed    \* common.Must has panicked

picker == <<workers, created, running, ticking, failing, stopped, crashed>>
worker == <<sessions, count, closed, done, monitor, failed, open>>
caller == <<pc, tries, calls, picked, alone>>
vars == <<picker, worker, caller>>

Init == /\ workers = <<>>
        /\ created = 0
        /\ running = FALSE
        /\ ticking = FALSE
        /\ failing = FALSE
        /\ stopped = FALSE
        /\ sessions = [w \in Worker |-> {}]
        /\ count = [w \in Worker |-> 0]
        /\ closed = [w \in Worker |-> FALSE]
        /\ done = [w \in Worker |-> FALSE]
        /\ monitor = [w \in Worker |-> "none"]
        /\ failed = [w \in Worker |-> FALSE]
        /\ open = [w \in Worker |-> {}]
        /\ pc = [d \in Dispatchers |-> "idle"]
        /\ tries = [d \in Dispatchers |-> 0]
        /\ calls = [d \in Dispatchers |-> 0]
        /\ picked = [d \in Dispatchers |-> 1]
        /\ alone = [d \in Dispatchers |-> FALSE]
        /\ crashed = FALSE
-----------------------------------------------------------------------------
IsClosing(w) == MaxConnection > 0 /\ count[w] >= MaxConnection

\* Slips (here and below): variants of the next definition with a bug that a
\* change of the code could introduce.  No specification uses them; the
\* properties are checked to tell each one from the code.
IsFull_overByOne(w) ==
    \/ IsClosing(w) \/ done[w]
    \/ MaxConcurrency > 0 /\ Cardinality(sessions[w]) > MaxConcurrency

IsFull(w) == \/ IsClosing(w) \/ done[w]
             \/ MaxConcurrency > 0 /\ Cardinality(sessions[w]) >= MaxConcurrency

\* The workers that are not closed, in their order.
cleanup ==
    LET activeWorkers[i \in 0 .. Len(workers)] ==
            IF i = 0 THEN <<>>
            ELSE IF done[workers[i]] THEN activeWorkers[i - 1]
            ELSE Append(activeWorkers[i - 1], workers[i])
    IN  activeWorkers[Len(workers)]

\* Slip: the list is looked at after it was cleaned up.
noWorker_late == cleanup = <<>>

\* cleanupFunc's error "no worker"
noWorker == workers = <<>>

\* Slip: closed workers are offered.
findAvailable_closed ==
    {i \in DOMAIN workers :
        /\ ~IsFull(workers[i]) \/ done[workers[i]]
        /\ \A j \in 1 .. i - 1 : IsFull(workers[j]) /\ ~done[workers[j]]}

\* The index of the first worker that is not full, if there is one.
findAvailable == {i \in DOMAIN workers : /\ ~IsFull(workers[i])
                                         /\ \A j \in 1 .. i - 1 : IsFull(workers[j])}

\* workers[n-1], workers[idx] = workers[idx], workers[n-1]
swap(i) == [workers EXCEPT ![Len(workers)] = workers[i], ![i] = workers[Len(workers)]]

Goto(d, label) == pc' = [pc EXCEPT ![d] = label]

\* A step of d is a disturbance of the other dispatchers, one of no d of them all.
Disturb(ds) == alone' = [d \in Dispatchers |-> alone[d] /\ d \in ds]

\* ClientManager.Dispatch
Dispatch(d) ==
    /\ pc[d] = "idle" /\ calls[d] < MaxCalls
    /\ calls' = [calls EXCEPT ![d] = @ + 1]
    /\ alone' = [e \in Dispatchers |-> e = d]
    /\ Goto(d, "pick")
    /\ UNCHANGED <<picker, worker, tries, picked>>

Return(d) ==
    /\ Goto(d, "idle")
    /\ tries' = [tries EXCEPT ![d] = 0]
    /\ picked' = [picked EXCEPT ![d] = 1]
    /\ alone' = [e \in Dispatchers |-> FALSE]

\* pickInternal when findAvailable finds one: it is swapped with the last, and
\* what is then in its place is returned.
PickExisting(d) ==
    /\ pc[d] = "pick"
    /\ \E i \in findAvailable :
         /\ workers' = swap(i)
         /\ picked' = [picked EXCEPT ![d] = workers'[i]]
    /\ Goto(d, "check")
    /\ Disturb({d})
    /\ UNCHANGED <<created, running, ticking, failing, stopped, crashed, worker, tries,
                   calls>>

\* pickInternal when there is none: clean-up and a new worker
\* (DialingWorkerFactory.Create does not fail).
PickNew(d) ==
    /\ pc[d] = "pick"
    /\ findAvailable = {}
    /\ created < MaxWorkers
    /\ created' = created + 1
    /\ workers' = Append(cleanup, created')
    /\ monitor' = [monitor EXCEPT ![created'] = "wait"]
    /\ picked' = [picked EXCEPT ![d] = created']
    /\ Goto(d, "start")
    /\ Disturb({d})
    /\ UNCHANGED <<running, ticking, failing, stopped, crashed, sessions, count, closed,
                   done, failed, open, tries, calls>>

\* cleanupTask.Start, which runs cleanupFunc at once
StartCleanup(d) ==
    /\ pc[d] = "start"
    /\ Goto(d, "check")
    /\ \/ running /\ UNCHANGED <<workers, running, ticking, crashed>>
       \/ /\ ~running /\ ~noWorker
          /\ workers' = cleanup
          /\ running' = TRUE
          /\ ticking' = TRUE
          /\ UNCHANGED crashed
       \/ /\ ~running /\ noWorker
          /\ crashed' = TRUE
          /\ UNCHANGED <<workers, running, ticking>>
    /\ Disturb({d})
    /\ UNCHANGED <<created, failing, stopped, worker, tries, calls, picked>>

\* The worker refuses: the next attempt, or "unable to find an available mux client".
Retry(d) == \/ /\ tries[d] + 1 < Tries
               /\ tries' = [tries EXCEPT ![d] = @ + 1]
               /\ Goto(d, "pick")
               /\ Disturb({d})
               /\ UNCHANGED picked
            \/ tries[d] + 1 = Tries /\ Return(d)

\* ClientWorker.Dispatch, its check ...
WorkerCheck(d) ==
    /\ pc[d] = "check"
    /\ \/ IsFull(picked[d]) /\ Retry(d)
       \/ /\ ~IsFull(picked[d])
          /\ Goto(d, "allocate")
          /\ Disturb({d})
          /\ UNCHANGED <<tries, picked>>
    /\ UNCHANGED <<picker, worker, calls>>

\* ... and SessionManager.Allocate, after which fetchInput runs.
Refused(w) == closed[w]

Allocate(d) ==
    LET w == picked[d]
        r == <<d, calls[d]>>
    IN  /\ pc[d] = "allocate"
        /\ \/ Refused(w) /\ Retry(d) /\ UNCHANGED <<sessions, count, open>>
           \/ /\ ~Refused(w)
              /\ sessions' = [sessions EXCEPT ![w] = @ \cup {r}]
              /\ count' = [count EXCEPT ![w] = @ + 1]
              /\ open' = [open EXCEPT ![w] = @ \cup {r}]
              /\ Return(d)
        /\ UNCHANGED <<picker, closed, done, monitor, failed, calls>>
-----------------------------------------------------------------------------
\* Session.Close, with SessionManager.Remove
SessionEnd(w, r) ==
    /\ r \in open[w]
    /\ open' = [open EXCEPT ![w] = @ \ {r}]
    /\ sessions' = IF closed[w] THEN sessions
                   ELSE [sessions EXCEPT ![w] = @ \ {r}]
    /\ UNCHANGED <<count, closed, done, monitor, failed>>

\* The outbound's Process returns or fetchOutput meets an error.
CarrierFails(w) ==
    /\ w <= created /\ ~done[w]
    /\ Cardinality({v \in Worker : failed[v]}) < MaxFailures
    /\ done' = [done EXCEPT ![w] = TRUE]
    /\ failed' = [failed EXCEPT ![w] = TRUE]
    /\ UNCHANGED <<sessions, count, closed, monitor, open>>

\* monitor: the tick with Size, ...
MonitorTick(w) ==
    /\ monitor[w] = "wait"
    /\ sessions[w] = {}
    /\ monitor' = [monitor EXCEPT ![w] = "idle"]
    /\ UNCHANGED <<sessions, count, closed, done, failed, open>>

\* ... CloseIfNoSession, ...
\* Slip: Size, read before, is trusted.
CanClose_stale(w) == TRUE

CanClose(w) == closed[w] \/ sessions[w] = {}

CloseIfNoSession(w) ==
    /\ monitor[w] = "idle"
    /\ monitor' = [monitor EXCEPT ![w] = "wait"]
    /\ closed' = [closed EXCEPT ![w] = CanClose(w)]
    /\ done' = [done EXCEPT ![w] = @ \/ CanClose(w)]
    /\ UNCHANGED <<sessions, count, failed, open>>

\* ... and the end, with SessionManager.Close.
MonitorDone(w) ==
    /\ monitor[w] = "wait" /\ done[w]
    /\ monitor' = [monitor EXCEPT ![w] = "done"]
    /\ closed' = [closed EXCEPT ![w] = TRUE]
    /\ sessions' = IF closed[w] THEN sessions ELSE [sessions EXCEPT ![w] = {}]
    /\ UNCHANGED <<count, done, failed, open>>

WorkerStep(w) ==
    /\ \/ \E r \in open[w] : SessionEnd(w, r)
       \/ CarrierFails(w)
       \/ MonitorTick(w) \/ CloseIfNoSession(w) \/ MonitorDone(w)
    /\ Disturb({})
    /\ UNCHANGED <<picker, pc, tries, calls, picked>>

\* A tick of cleanupTask, 30 seconds after the last: cleanupFunc, and the timer is
\* set again unless the task was closed or the list was empty.  No dispatcher
\* stands for that long between adding a worker and starting the task.
CleanupTick ==
    /\ ticking
    /\ \/ ~running /\ ticking' = FALSE /\ UNCHANGED <<workers, failing>>
       \/ running /\ ~noWorker /\ workers' = cleanup /\ UNCHANGED <<ticking, failing>>
       \/ /\ running /\ noWorker
          /\ \A d \in Dispatchers : pc[d] # "start"
          /\ failing' = TRUE
          /\ ticking' = FALSE
          /\ UNCHANGED workers
    /\ Disturb({})
    /\ UNCHANGED <<created, running, stopped, crashed, worker, pc, tries, calls, picked>>

\* checkedExecute notes the error of cleanupFunc.
CleanupStops ==
    /\ failing
    /\ failing' = FALSE
    /\ running' = FALSE
    /\ Disturb({})
    /\ UNCHANGED <<workers, created, ticking, stopped, crashed, worker, pc, tries, calls,
                   picked>>

\* IncrementalWorkerPicker.Close, called when the outbound handler is closed.
Close ==
    /\ ~stopped
    /\ stopped' = TRUE
    /\ running' = FALSE
    /\ ticking' = FALSE
    /\ Disturb({})
    /\ UNCHANGED <<workers, created, failing, crashed, worker, pc, tries, calls, picked>>

DispatcherStep(d) == \/ Dispatch(d) \/ PickExisting(d) \/ PickNew(d) \/ StartCleanup(d)
                     \/ WorkerCheck(d) \/ Allocate(d)

\* A panic ends the program.
Next == /\ ~crashed
        /\ \/ \E d \in Dispatchers : DispatcherStep(d)
           \/ \E w \in Worker : WorkerStep(w)
           \/ CleanupTick \/ CleanupStops \/ Close

Spec == Init /\ [][Next]_vars
-----------------------------------------------------------------------------
\* The variables have the types of the fields they stand for.
TypeOK ==
    /\ workers \in Seq(Worker)
    /\ created \in 0 .. MaxWorkers
    /\ {running, ticking, failing, stopped, crashed} \subseteq BOOLEAN
    /\ sessions \in [Worker -> SUBSET Request]
    /\ count \in [Worker -> Nat]
    /\ closed \in [Worker -> BOOLEAN]
    /\ done \in [Worker -> BOOLEAN]
    /\ monitor \in [Worker -> {"none", "wait", "idle", "done"}]
    /\ failed \in [Worker -> BOOLEAN]
    /\ open \in [Worker -> SUBSET Request]
    /\ pc \in [Dispatchers -> {"idle", "pick", "start", "check", "allocate"}]
    /\ tries \in [Dispatchers -> 0 .. Tries - 1]
    /\ calls \in [Dispatchers -> 0 .. MaxCalls]
    /\ picked \in [Dispatchers -> Worker]
    /\ alone \in [Dispatchers -> BOOLEAN]

\* An idle worker is closed only when it is idle: a request that Dispatch accepted
\* is cut off by its worker only if the carrier connection failed.
AcceptedIsKept == \A w \in Worker : closed[w] /\ ~failed[w] => open[w] = {}

\* Dispatchers that pass IsFull together overshoot the limits by at most one less
\* than their number; with limits far below 2^16 session IDs never repeat.
BoundedOvershoot ==
    \A w \in Worker :
        /\ MaxConcurrency > 0 =>
             Cardinality(sessions[w]) < MaxConcurrency + Cardinality(Dispatchers)
        /\ MaxConnection > 0 => count[w] < MaxConnection + Cardinality(Dispatchers)

\* A Dispatch that no one disturbs succeeds at the latest with its second attempt:
\* the swap of pickInternal may return a full worker although it has found another,
\* but then it has brought the found one to where the next attempt returns it.
SecondTrySuffices == \A d \in Dispatchers : alone[d] => tries[d] <= 1

\* Until the picker is closed, the clean-up that PickAvailable starts never finds the
\* list empty (it would return an error, and common.Must would panic).
NoPanic == crashed => stopped

\* No worker is listed twice or lost while it can take requests.
ListedOnce ==
    /\ \A i, j \in DOMAIN workers : workers[i] = workers[j] => i = j
    /\ \A w \in 1 .. created : ~done[w] => \E i \in DOMAIN workers : workers[i] = w

\* The list and the tables of sessions are what they should be: no worker is listed twice
\* or lost, and the limits are overshot by no more than the dispatchers can race.
WellFormed == TypeOK /\ ListedOnce /\ BoundedOvershoot
=============================================================================
