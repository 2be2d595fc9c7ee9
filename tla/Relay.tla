-------------------------------- MODULE Relay --------------------------------
(***************************************************************************)
(* One proxied TCP connection: an inbound (app/proxyman/inbound.tcpWorker  *)
(* and its proxy, here dokodemo), the dispatcher with its sniffer and      *)
(* cachedReader, and an outbound (app/proxyman/outbound.Handler and its    *)
(* proxy, here freedom), joined by the two pipes of a transport.Link.      *)
(*                                                                         *)
(* Each side runs two tasks under common/task.Run: one copies what its     *)
(* peer sends into a pipe (fetch), the other copies the other pipe to its  *)
(* peer (deliver).  Everything that ends one of them, an end of the        *)
(* stream, an error, the inactivity timer or the end of the other side,    *)
(* has to end the rest and lose nothing that was to be delivered.  A task  *)
(* that has copied calls SetTimeout of its side's ActivityTimer before it  *)
(* returns, which may block (module ActivityTimer, NonBlocking).           *)
(***************************************************************************)
EXTENDS Integers, Sequences

CONSTANTS MaxUp, MaxDown,  \* bounds: chunks the client sends, and the server
          Limit            \* pipeOption.limit, in chunks

ASSUME RelayAssumption == MaxUp \in Nat /\ MaxDown \in Nat /\ Limit \in Nat

Side == {"in", "out"}
Other(s) == IF s = "in" THEN "out" ELSE "in"
MaxChunks(s) == IF s = "in" THEN MaxUp ELSE MaxDown

VARIABLES
  sent, got,  \* what the peer of each side has sent, and has received
  fin,        \* the peer has ended its stream
  conn,       \* the side's connection to its peer
  inbox,      \* what has arrived on it and was not read
  pipe,       \* the pipe the side writes: pipe["in"] is the uplink
  cache,      \* cachedReader.cache, in front of the uplink
  fetch,      \* where the task is that copies the connection to pipe[s], ...
  deliver,    \* ... and the one that copies pipe[Other(s)] to the connection
  hand,       \* what each task has read and not yet written
  proc,       \* where each side's Process, and its caller, are
  cancelled,  \* the context that the side's timer or its end cancels
  timedOut,   \* the side's timer has fired
  settled,    \* the side's tasks whose deferred SetTimeout has returned
  stuck       \* a SetTimeout of the side blocks, with its timer's mutex

vars == <<sent, got, fin, conn, inbox, pipe, cache, fetch, deliver, hand, proc,
          cancelled, timedOut, settled, stuck>>
peers == <<sent, got, fin, conn, inbox>>
tasks == <<fetch, deliver, hand>>
timers == <<timedOut, settled, stuck>>
contexts == <<cancelled, timers>>

\* getLink has made the pipes and the inbound has started its tasks.  Sniffing is
\* enabled or not.
Init == /\ sent = [s \in Side |-> <<>>]
        /\ got = [s \in Side |-> <<>>]
        /\ fin = [s \in Side |-> FALSE]
        /\ conn = [in |-> "open", out |-> "none"]
        /\ inbox = [s \in Side |-> <<>>]
        /\ pipe = [s \in Side |-> [data |-> <<>>, state |-> "open"]]
        /\ cache = <<>>
        /\ fetch = [in |-> "read", out |-> "none"]
        /\ deliver = [in |-> "read", out |-> "none"]
        /\ hand = [s \in Side |-> [fetch |-> <<>>, deliver |-> <<>>]]
        /\ proc \in {[in |-> "run", out |-> o] : o \in {"sniff", "route"}}
        /\ cancelled = [s \in Side |-> FALSE]
        /\ timedOut = [s \in Side |-> FALSE]
        /\ settled = [s \in Side |-> {}]
        /\ stuck = [s \in Side |-> FALSE]
-----------------------------------------------------------------------------
(* Pipes, as module Pipe has them. *)

CloseW(p) == IF p.state = "open" THEN [p EXCEPT !.state = "closed"] ELSE p

Interrupted(p) == IF p.state = "open" THEN [data |-> <<>>, state |-> "errord"] ELSE p

(* The peers. *)

PeerSend(s) ==
    /\ conn[s] = "open" /\ ~fin[s] /\ Len(sent[s]) < MaxChunks(s)
    /\ LET m == Len(sent[s]) + 1 IN
       /\ sent' = [sent EXCEPT ![s] = Append(@, m)]
       /\ inbox' = [inbox EXCEPT ![s] = Append(@, m)]
    /\ UNCHANGED <<got, fin, conn, pipe, cache, tasks, proc, contexts>>

PeerFin(s) ==
    /\ conn[s] = "open" /\ ~fin[s]
    /\ fin' = [fin EXCEPT ![s] = TRUE]
    /\ UNCHANGED <<sent, got, conn, inbox, pipe, cache, tasks, proc, contexts>>

PeerReset(s) ==
    /\ conn[s] = "open"
    /\ conn' = [conn EXCEPT ![s] = "reset"]
    /\ inbox' = [inbox EXCEPT ![s] = <<>>]
    /\ UNCHANGED <<sent, got, fin, pipe, cache, tasks, proc, contexts>>
-----------------------------------------------------------------------------
(* The tasks: buf.Copy from the connection to the pipe, ... *)

FetchRead(s) ==
    /\ fetch[s] = "read"
    /\ \/ /\ conn[s] = "open" /\ inbox[s] # <<>>
          /\ hand' = [hand EXCEPT ![s].fetch = inbox[s]]
          /\ inbox' = [inbox EXCEPT ![s] = <<>>]
          /\ fetch' = [fetch EXCEPT ![s] = "write"]
       \/ /\ conn[s] = "open" /\ inbox[s] = <<>> /\ fin[s]
          /\ fetch' = [fetch EXCEPT ![s] = "eof"]
          /\ UNCHANGED <<hand, inbox>>
       \/ /\ conn[s] # "open"
          /\ fetch' = [fetch EXCEPT ![s] = "err"]
          /\ UNCHANGED <<hand, inbox>>
    /\ UNCHANGED <<sent, got, fin, conn, pipe, cache, deliver, proc, contexts>>

FetchWrite(s) ==
    /\ fetch[s] = "write"
    /\ \/ /\ pipe[s].state = "open" /\ Len(pipe[s].data) <= Limit
          /\ pipe' = [pipe EXCEPT ![s].data = @ \o hand[s].fetch]
          /\ fetch' = [fetch EXCEPT ![s] = "read"]
       \/ /\ pipe[s].state # "open"
          /\ fetch' = [fetch EXCEPT ![s] = "err"]
          /\ UNCHANGED pipe
    /\ hand' = [hand EXCEPT ![s].fetch = <<>>]
    /\ UNCHANGED <<peers, cache, deliver, proc, contexts>>

\* Slips (here and below): variants of the next definition with a bug that a
\* change of the code could introduce.  No specification uses them; the
\* properties are checked to tell each one from the code.
FetchClose_always(s) ==
    /\ fetch[s] \in {"eof", "err"} /\ "fetch" \in settled[s]
    /\ pipe' = [pipe EXCEPT ![s] = CloseW(@)]
    /\ fetch' = [fetch EXCEPT ![s] = "done"]
    /\ UNCHANGED <<peers, cache, deliver, hand, proc, contexts>>

\* ... with task.OnSuccess(..., task.Close(writer)), ...
FetchClose(s) ==
    /\ fetch[s] = "eof" /\ "fetch" \in settled[s]
    /\ pipe' = [pipe EXCEPT ![s] = CloseW(@)]
    /\ fetch' = [fetch EXCEPT ![s] = "done"]
    /\ UNCHANGED <<peers, cache, deliver, hand, proc, contexts>>

\* Slip: the pipe is read before the cache.
cachedReader_late(s) ==
    LET data == pipe[Other(s)].data IN
    IF data # <<>> \/ s = "in" THEN [data |-> data, cache |-> cache, rest |-> <<>>]
    ELSE [data |-> cache, cache |-> <<>>, rest |-> data]

\* What a read of the pipe to the connection of s returns first, and what it leaves:
\* cachedReader.readInternal has the sniffed data on the uplink.
cachedReader(s) ==
    LET data == pipe[Other(s)].data IN
    IF s = "out" /\ cache # <<>> THEN [data |-> cache, cache |-> <<>>, rest |-> data]
    ELSE [data |-> data, cache |-> cache, rest |-> <<>>]

\* ... and from the other pipe to the connection.
DeliverRead(s) ==
    /\ deliver[s] = "read"
    /\ LET p == pipe[Other(s)] IN
       \/ /\ cachedReader(s).data # <<>>
          /\ hand' = [hand EXCEPT ![s].deliver = cachedReader(s).data]
          /\ cache' = cachedReader(s).cache
          /\ pipe' = [pipe EXCEPT ![Other(s)].data = cachedReader(s).rest]
          /\ deliver' = [deliver EXCEPT ![s] = "write"]
       \/ /\ cachedReader(s).data = <<>> /\ p.state # "open"
          /\ deliver' = [deliver EXCEPT ![s] = IF p.state = "closed" THEN "done" ELSE "err"]
          /\ UNCHANGED <<hand, cache, pipe>>
    /\ UNCHANGED <<peers, fetch, proc, contexts>>

DeliverWrite(s) ==
    /\ deliver[s] = "write"
    /\ IF conn[s] = "open"
       THEN /\ got' = [got EXCEPT ![s] = @ \o hand[s].deliver]
            /\ deliver' = [deliver EXCEPT ![s] = "read"]
       ELSE /\ deliver' = [deliver EXCEPT ![s] = "err"]
            /\ UNCHANGED got
    /\ hand' = [hand EXCEPT ![s].deliver = <<>>]
    /\ UNCHANGED <<sent, fin, conn, inbox, pipe, cache, fetch, proc, contexts>>

(* The deferred SetTimeout of a task whose buf.Copy has returned. *)

Tasks == {"fetch", "deliver"}

Copied(s, t) == \/ t = "fetch" /\ fetch[s] \in {"eof", "done", "err"}
                \/ t = "deliver" /\ deliver[s] \in {"done", "err"}

\* One that returns, ...
TaskSetTimeout(s, t) ==
    /\ Copied(s, t) /\ t \notin settled[s] /\ ~stuck[s]
    /\ settled' = [settled EXCEPT ![s] = @ \cup {t}]
    /\ UNCHANGED <<peers, pipe, cache, tasks, proc, cancelled, timedOut, stuck>>

\* ... and one that finds its token taken by a tick of the replaced task: it waits in
\* finish for the mutex that it holds, and so do all who come after it.
TaskSetTimeoutBlocks(s) ==
    /\ \E t \in Tasks : Copied(s, t) /\ t \notin settled[s]
    /\ ~stuck[s]
    /\ stuck' = [stuck EXCEPT ![s] = TRUE]
    /\ UNCHANGED <<peers, pipe, cache, tasks, proc, cancelled, timedOut, settled>>

\* The task has returned: with a result for task.Run, or an error.
Passed(s, t) == t \in settled[s] /\ IF t = "fetch" THEN fetch[s] = "done"
                                                  ELSE deliver[s] = "done"
Failed(s, t) == t \in settled[s] /\ IF t = "fetch" THEN fetch[s] = "err"
                                                  ELSE deliver[s] = "err"
-----------------------------------------------------------------------------
(* DefaultDispatcher.Dispatch's goroutine, up to the outbound's Process. *)

\* cachedReader.Cache in sniffer
Cache ==
    /\ proc.out = "sniff"
    /\ pipe["in"].data # <<>>
    /\ cache' = cache \o pipe["in"].data
    /\ pipe' = [pipe EXCEPT !["in"].data = <<>>]
    /\ UNCHANGED <<peers, tasks, proc, contexts>>

\* sniffer returns: a result, no clue after two attempts, a deadline, an error of the
\* pipe or the end of the context.
Sniffed ==
    /\ proc.out = "sniff"
    /\ proc' = [proc EXCEPT !.out = "route"]
    /\ UNCHANGED <<peers, pipe, cache, tasks, contexts>>

\* routedDispatch finds a handler, whose Dispatch calls Process.
routedDispatch ==
    /\ proc.out = "route"
    /\ proc' = [proc EXCEPT !.out = "dial"]
    /\ UNCHANGED <<peers, pipe, cache, tasks, contexts>>

\* It finds none (Close), or Handler.Dispatch cannot resolve the target (Interrupt).
NoRoute ==
    /\ proc.out = "route"
    /\ \E f \in {CloseW(pipe.out), Interrupted(pipe.out)} :
          pipe' = [in |-> Interrupted(pipe["in"]), out |-> f]
    /\ cache' = <<>>
    /\ proc' = [proc EXCEPT !.out = "returned"]
    /\ UNCHANGED <<peers, tasks, contexts>>

\* freedom's Process has a connection and starts its tasks.
Dial ==
    /\ proc.out = "dial"
    /\ conn' = [conn EXCEPT !.out = "open"]
    /\ fetch' = [fetch EXCEPT !.out = "read"]
    /\ deliver' = [deliver EXCEPT !.out = "read"]
    /\ proc' = [proc EXCEPT !.out = "run"]
    /\ UNCHANGED <<sent, got, fin, inbox, pipe, cache, hand, contexts>>

DialFails ==
    /\ proc.out = "dial"
    /\ proc' = [proc EXCEPT !.out = "failed"]
    /\ UNCHANGED <<peers, pipe, cache, tasks, contexts>>
-----------------------------------------------------------------------------
(* The ends of the two Process calls. *)

\* The inactivity timer cancels the context of the side, if it gets its mutex.
Timeout(s) ==
    /\ proc[s] = "run" /\ ~timedOut[s] /\ ~stuck[s]
    /\ cancelled' = [cancelled EXCEPT ![s] = TRUE]
    /\ timedOut' = [timedOut EXCEPT ![s] = TRUE]
    /\ UNCHANGED <<peers, pipe, cache, tasks, proc, settled, stuck>>

\* Slip: both sides share one context.
ctxDone_shared(s) == cancelled["in"] \/ cancelled["out"]

\* The context of the outbound comes from that of the inbound.
ctxDone(s) == cancelled[s] \/ cancelled["in"]

Closed(s) == /\ conn' = [conn EXCEPT ![s] = IF @ = "open" THEN "closed" ELSE @]
             /\ inbox' = [inbox EXCEPT ![s] = <<>>]

\* task.Run returns the first error.  dokodemo's Process then interrupts both pipes,
\* freedom's closes its connection.
RunError(s) ==
    /\ proc[s] = "run"
    /\ (\E t \in Tasks : Failed(s, t)) \/ ctxDone(s)
    /\ \/ s = "in" /\ pipe' = [r \in Side |-> Interrupted(pipe[r])] /\ UNCHANGED peers
       \/ s = "out" /\ Closed(s) /\ UNCHANGED <<sent, got, fin, pipe>>
    /\ proc' = [proc EXCEPT ![s] = "failed"]
    /\ UNCHANGED <<cache, tasks, contexts>>

\* It returns nil once both tasks have passed.
RunPasses(s) ==
    /\ proc[s] = "run"
    /\ \A t \in Tasks : Passed(s, t)
    /\ \/ s = "in" /\ UNCHANGED peers
       \/ s = "out" /\ Closed(s) /\ UNCHANGED <<sent, got, fin>>
    /\ proc' = [proc EXCEPT ![s] = "passed"]
    /\ UNCHANGED <<pipe, cache, tasks, contexts>>

\* Slip: the connection is not closed.
callback_open ==
    /\ proc["in"] \in {"failed", "passed"}
    /\ cancelled' = [cancelled EXCEPT !["in"] = TRUE]
    /\ proc' = [proc EXCEPT !["in"] = "returned"]
    /\ UNCHANGED <<peers, pipe, cache, tasks, timers>>

\* The end of tcpWorker.callback: it cancels the context and closes the connection.
callback ==
    /\ proc["in"] \in {"failed", "passed"}
    /\ cancelled' = [cancelled EXCEPT !["in"] = TRUE]
    /\ Closed("in")
    /\ proc' = [proc EXCEPT !["in"] = "returned"]
    /\ UNCHANGED <<sent, got, fin, pipe, cache, tasks, timers>>

\* Slip: the reader is left alone.
HandlerEnds_keepsReader ==
    /\ proc.out \in {"failed", "passed"}
    /\ pipe' = [pipe EXCEPT !.out = IF proc.out = "passed" THEN CloseW(@)
                                                          ELSE Interrupted(@)]
    /\ proc' = [proc EXCEPT !.out = "returned"]
    /\ UNCHANGED <<peers, cache, tasks, contexts>>

\* Handler.Dispatch ends the link: it interrupts or closes the writer, and interrupts
\* the reader with what is cached.
HandlerEnds ==
    /\ proc.out \in {"failed", "passed"}
    /\ pipe' = [in |-> Interrupted(pipe["in"]),
                out |-> IF proc.out = "passed" THEN CloseW(pipe.out)
                                               ELSE Interrupted(pipe.out)]
    /\ cache' = <<>>
    /\ proc' = [proc EXCEPT !.out = "returned"]
    /\ UNCHANGED <<peers, tasks, contexts>>

FetchStep(s) == FetchRead(s) \/ FetchWrite(s) \/ FetchClose(s)
DeliverStep(s) == DeliverRead(s) \/ DeliverWrite(s)
TimerStep(s) == (\E t \in Tasks : TaskSetTimeout(s, t)) \/ TaskSetTimeoutBlocks(s)
RunReturns(s) == RunError(s) \/ RunPasses(s)
DispatchStep == Sniffed \/ routedDispatch \/ NoRoute \/ Dial \/ DialFails
EndStep == callback \/ HandlerEnds

Next == \/ \E s \in Side : \/ PeerSend(s) \/ PeerFin(s) \/ PeerReset(s)
                           \/ FetchStep(s) \/ DeliverStep(s)
                           \/ TimerStep(s) \/ Timeout(s) \/ RunReturns(s)
        \/ Cache
        \/ DispatchStep
        \/ EndStep

Spec == Init /\ [][Next]_vars

\* What the goroutine of a side's Process does, the outbound's after it has sniffed,
\* routed and dialled, and what those of its two tasks do.  A write to a connection that
\* is open need not return.
ProcessStep(s) ==
    RunReturns(s) \/ IF s = "in" THEN callback ELSE DispatchStep \/ HandlerEnds
FetchTask(s) == FetchStep(s) \/ TaskSetTimeout(s, "fetch")
DeliverTask(s) == \/ DeliverRead(s) \/ TaskSetTimeout(s, "deliver")
                  \/ conn[s] # "open" /\ DeliverWrite(s)

\* Goroutines run; sniffing and dialling have deadlines; an idle timer fires.  A peer
\* owes nothing: it may stop sending, and stop reading while its connection is open.
Fairness == \A s \in Side : /\ WF_vars(FetchTask(s)) /\ WF_vars(DeliverTask(s))
                            /\ WF_vars(ProcessStep(s)) /\ WF_vars(Timeout(s))
-----------------------------------------------------------------------------
\* The variables have the types of what they stand for, and the outbound's tasks have
\* a connection.
TypeOK ==
    LET Chunks == Seq(Nat \ {0}) IN
    /\ sent \in [Side -> Chunks] /\ got \in [Side -> Chunks]
    /\ fin \in [Side -> BOOLEAN]
    /\ conn \in [Side -> {"none", "open", "reset", "closed"}]
    /\ inbox \in [Side -> Chunks] /\ cache \in Chunks
    /\ pipe \in [Side -> [data : Chunks, state : {"open", "closed", "errord"}]]
    /\ fetch \in [Side -> {"none", "read", "write", "eof", "done", "err"}]
    /\ deliver \in [Side -> {"none", "read", "write", "done", "err"}]
    /\ hand \in [Side -> [fetch : Chunks, deliver : Chunks]]
    /\ proc \in [Side -> {"sniff", "route", "dial", "run", "failed", "passed",
                          "returned"}]
    /\ cancelled \in [Side -> BOOLEAN] /\ timedOut \in [Side -> BOOLEAN]
    /\ settled \in [Side -> SUBSET Tasks] /\ stuck \in [Side -> BOOLEAN]
    /\ conn.out = "none" <=> fetch.out = "none"

\* A Process that returns nil has copied everything: the peer of its side has received
\* all that the other peer sent before it ended its stream.
PassedIsComplete == \A s \in Side : proc[s] = "passed" => got[s] = sent[Other(s)]

\* Once either side is over, no task can block on a pipe.
PipesEnd ==
    proc.out = "returned" \/ proc["in"] \in {"failed", "passed", "returned"}
        => \A s \in Side : pipe[s].state # "open"

\* The tasks always have what they copy between, and no pipe outlives its sides.
WellFormed == TypeOK /\ PipesEnd

\* Once the response is copied to its end and the request is over, the inbound fails
\* for no reason but its own timer or its client: what happens to the outbound after
\* that, and what its handler then does to the link, takes nothing from the response.
ResponseSurvives ==
    proc["in"] = "failed" /\ fetch["in"] = "done" /\ pipe.out.state = "closed"
        => timedOut["in"] \/ conn["in"] = "reset"

\* Both directions are Streams: sniffing, caching and the ends of the tasks neither
\* lose from the middle, nor duplicate or reorder what the peers sent.
Up == INSTANCE Stream WITH Payload <- 1 .. MaxUp, sent <- sent["in"],
                           received <- got.out, ended <- fin["in"]
Down == INSTANCE Stream WITH Payload <- 1 .. MaxDown, sent <- sent.out,
                             received <- got["in"], ended <- fin.out
ImplementsStreams == Up!Spec /\ Down!Spec

\* Whatever the peers do or fail to do, both Process calls return and all four tasks
\* end: no goroutine is left behind, unless a SetTimeout of its own side blocks.  The
\* outbound's Process returns even then if that of the inbound does, whose end cancels
\* its context.
AllEnd ==
    <>[](/\ ~stuck["in"] => \A s \in Side : proc[s] = "returned"
         /\ ~stuck.out => proc.out = "returned"
         /\ \A s \in Side : ~stuck[s] => /\ fetch[s] \in {"none", "done", "err"}
                                         /\ deliver[s] \in {"none", "done", "err"})
=============================================================================
