---------------------------- MODULE ActivityTimer ----------------------------
(***************************************************************************)
(* common/signal.ActivityTimer, which cancels a connection after a time    *)
(* without traffic, with the common/task.Periodic objects it creates.      *)
(*                                                                         *)
(* SetTimeout replaces the task and starts the new one, which runs check   *)
(* in the caller, with the timer's mutex held; later checks run in the     *)
(* goroutines of the tasks' timers.  The names of the specification begin  *)
(* with Timer, so that proofs can speak of a Relay and of its timers.      *)
(***************************************************************************)
EXTENDS Integers, FiniteSets

CONSTANTS Callers,  \* goroutines that call SetTimeout
          MaxTasks  \* bound: tasks created

ASSUME ActivityTimerAssumption == MaxTasks \in Nat \ {0}

Task == 1 .. MaxTasks

VARIABLES
  locked,     \* ActivityTimer's mutex is held
  updated,    \* a token is in ActivityTimer.updated
  checkTask,  \* ActivityTimer.checkTask, 0 for nil
  onTimeout,  \* ActivityTimer.onTimeout is not nil: it was not called yet
  created,    \* tasks created
  running,    \* Periodic.running of each task
  armed,      \* its timer is set
  exec,       \* where its timer's goroutine is
  pc, mine    \* where each caller is, and the task it has created

timerVars == <<locked, updated, checkTask, onTimeout, created, running, armed, exec, pc, mine>>

\* CancelAfterInactivity has returned: its task has used up the first token.
TimerInit == /\ locked = FALSE
             /\ updated = FALSE
             /\ checkTask = 1
             /\ onTimeout = TRUE
             /\ created = 1
             /\ running = [k \in Task |-> k = 1]
             /\ armed = [k \in Task |-> k = 1]
             /\ exec = [k \in Task |-> "none"]
             /\ pc = [c \in Callers |-> "idle"]
             /\ mine = [c \in Callers |-> 0]

Goto(c, label) == pc' = [pc EXCEPT ![c] = label]
GotoTask(k, label) == exec' = [exec EXCEPT ![k] = label]

\* Periodic.Close, of nil too
Off(f, k) == [j \in Task |-> f[j] /\ j # k]
ClosePeriodic(k) == running' = Off(running, k) /\ armed' = Off(armed, k)

\* ActivityTimer.Update
Update == /\ updated' = TRUE
          /\ UNCHANGED <<locked, checkTask, onTimeout, created, running, armed, exec, pc, mine>>

\* ActivityTimer.finish, which needs the mutex
finish == /\ ~locked
          /\ onTimeout' = FALSE
          /\ ClosePeriodic(checkTask)
          /\ checkTask' = 0
          /\ UNCHANGED <<locked, updated, created, mine>>
-----------------------------------------------------------------------------
\* SetTimeout(0)
SetTimeoutZero(c) ==
    /\ pc[c] = "idle"
    /\ finish
    /\ UNCHANGED <<exec, pc>>

\* SetTimeout with a timeout: the old task is closed, the new one in its place, ...
SetTimeout(c) ==
    /\ pc[c] = "idle" /\ created < MaxTasks
    /\ ~locked
    /\ locked' = TRUE
    /\ created' = created + 1
    /\ ClosePeriodic(checkTask)
    /\ checkTask' = created'
    /\ mine' = [mine EXCEPT ![c] = created']
    /\ updated' = TRUE
    /\ Goto(c, "start")
    /\ UNCHANGED <<onTimeout, exec>>

Unlock == locked' = FALSE

\* ... and Periodic.Start runs check: it takes the token of SetTimeout and sets the
\* timer, ...
Start(c) ==
    /\ pc[c] = "start" /\ updated
    /\ updated' = FALSE
    /\ running' = [running EXCEPT ![mine[c]] = TRUE]
    /\ armed' = [armed EXCEPT ![mine[c]] = TRUE]
    /\ Unlock
    /\ mine' = [mine EXCEPT ![c] = 0]
    /\ Goto(c, "idle")
    /\ UNCHANGED <<checkTask, onTimeout, created, exec>>

\* ... or it finds no token and calls finish, whose mutex the caller itself holds.
StartFinishes(c) ==
    /\ pc[c] = "start" /\ ~updated
    /\ running' = [running EXCEPT ![mine[c]] = TRUE]
    /\ Goto(c, "stuck")
    /\ UNCHANGED <<locked, updated, checkTask, onTimeout, created, armed, exec, mine>>
-----------------------------------------------------------------------------
\* A task's timer fires: checkedExecute, which first asks hasClosed, ...
Fire(k) ==
    /\ armed[k]
    /\ armed' = [armed EXCEPT ![k] = FALSE]
    /\ GotoTask(k, "fired")
    /\ UNCHANGED <<locked, updated, checkTask, onTimeout, created, running, pc, mine>>

hasClosed(k) ==
    /\ exec[k] = "fired"
    /\ GotoTask(k, IF running[k] THEN "check" ELSE "none")
    /\ UNCHANGED <<locked, updated, checkTask, onTimeout, created, running, armed, pc, mine>>

\* ... then executes check, ...
check(k) ==
    /\ exec[k] = "check"
    /\ GotoTask(k, IF updated THEN "executed" ELSE "finish")
    /\ updated' = FALSE
    /\ UNCHANGED <<locked, checkTask, onTimeout, created, running, armed, pc, mine>>

Finish(k) ==
    /\ exec[k] = "finish"
    /\ finish
    /\ GotoTask(k, "executed")
    /\ UNCHANGED pc

\* Slips (here and below): variants of the next definition with a bug that a
\* change of the code could introduce.  No specification uses them; the
\* properties are checked to tell each one from the code.

\* Slip: a timer is set whether or not the task was closed meanwhile.
Continues_always(k) == TRUE

\* Slip: the timer is not set again.
Continues_never(k) == FALSE

\* ... and sets the timer again unless the task was closed meanwhile.
Continues(k) == running[k]

Rearm(k) ==
    /\ exec[k] = "executed"
    /\ armed' = [armed EXCEPT ![k] = Continues(k)]
    /\ GotoTask(k, "none")
    /\ UNCHANGED <<locked, updated, checkTask, onTimeout, created, running, pc, mine>>

CallerStep(c) == Start(c) \/ StartFinishes(c)
TaskStep(k) == Fire(k) \/ hasClosed(k) \/ check(k) \/ Finish(k) \/ Rearm(k)

TimerNext == \/ Update
             \/ \E c \in Callers : SetTimeoutZero(c) \/ SetTimeout(c) \/ CallerStep(c)
             \/ \E k \in Task : TaskStep(k)

TimerSpec == TimerInit /\ [][TimerNext]_timerVars

\* Goroutines run, timers fire and mutexes are handed on; nobody owes an Update or a
\* SetTimeout.
FairTimerSpec == /\ TimerSpec
                 /\ \A c \in Callers : WF_timerVars(CallerStep(c))
                 /\ \A k \in Task : SF_timerVars(TaskStep(k))
-----------------------------------------------------------------------------
\* The variables have the types of the fields they stand for, and the mutex is held
\* by a SetTimeout or by nobody.
TimerTypeOK ==
    /\ locked \in BOOLEAN /\ updated \in BOOLEAN /\ onTimeout \in BOOLEAN
    /\ checkTask \in 0 .. created
    /\ created \in Task
    /\ running \in [Task -> BOOLEAN]
    /\ armed \in [Task -> BOOLEAN]
    /\ exec \in [Task -> {"none", "fired", "check", "finish", "executed"}]
    /\ pc \in [Callers -> {"idle", "start", "stuck"}]
    /\ mine \in [Callers -> 0 .. created]
    /\ locked <=> \E c \in Callers : pc[c] # "idle"

\* Whatever races with SetTimeout and finish, no task but the current one is left
\* running or with its timer set: a replaced timeout does not tick again.  A check of it
\* that is already under way still runs to its end, finish included.
OneTicker == \A k \in Task : running[k] \/ armed[k] => k = checkTask

\* SetTimeout does not block (TestActivityTimerNonBlocking).
NonBlocking == \A c \in Callers : pc[c] # "stuck"

\* A connection without traffic is cancelled, however often its timeout was replaced
\* before, unless a SetTimeout blocks.
Cancels == <>[]~updated => <>(~onTimeout \/ ~NonBlocking)
=============================================================================
