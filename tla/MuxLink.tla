------------------------------- MODULE MuxLink -------------------------------
(***************************************************************************)
(* common/mux, the two ends of one carrier connection: the ClientWorker's  *)
(* fetchInput and fetchOutput, the ServerWorker's handle and run, and the  *)
(* frames between them.                                                    *)
(*                                                                         *)
(* At each end every session has a goroutine that copies its input to the  *)
(* carrier (fetchInput, handle), and one goroutine reads the carrier and   *)
(* writes to the outputs of all the sessions (fetchOutput, run).  Inputs   *)
(* and outputs are pipes to the application: only their states matter.     *)
(* The carrier, pipes and network together, is a bounded FIFO in each      *)
(* direction whose writers wait when it is full.  Names that MuxClient has *)
(* too begin with Link or end with Of, so that proofs can speak of both.   *)
(***************************************************************************)
EXTENDS Integers, Sequences, FiniteSets

CONSTANTS Sessions,   \* session IDs
          MaxItems,   \* bound: payloads an application sends in a session
          Capacity    \* frames that fit into the carrier, per direction

ASSUME MuxLinkAssumption == MaxItems \in Nat /\ Capacity \in Nat \ {0}

Side == {"client", "server"}
Ends == Side \X Sessions
Peer(x) == IF x = "client" THEN "server" ELSE "client"
Other(e) == <<Peer(e[1]), e[2]>>

\* data is 0 without OptionData, error is OptionError
Frame == [id : Sessions, status : {"New", "Keep", "End"}, data : 0 .. MaxItems,
          error : BOOLEAN]

VARIABLES
  carrier,    \* frames on their way from each side
  down,       \* the carrier has failed
  sessionsOf, \* SessionManager.sessions of each side
  closedOf,   \* SessionManager.closed
  input,      \* state of the pipe an end's application writes to
  output,     \* state of the pipe an end's application reads from
  copier,     \* where each end's fetchInput or handle is
  item,       \* the payload the copier holds, 0 for none
  hasError,   \* Writer.hasError of the copier
  reader,     \* where each side's fetchOutput or run is, and with which frame
  quit,       \* history: how an end's application ended its input
  sent, got   \* history: payloads in frames of, and written to the output of, each end

linkVars == <<carrier, down, sessionsOf, closedOf, input, output, copier, item, hasError,
              reader, quit, sent, got>>

idle == [at |-> "idle"]
At(label, f) == [at |-> label, frame |-> f]

LinkInit == /\ carrier = [x \in Side |-> <<>>]
            /\ down = FALSE
            /\ sessionsOf = [x \in Side |-> {}]
            /\ closedOf = [x \in Side |-> FALSE]
            /\ input = [e \in Ends |-> "open"]
            /\ output = [e \in Ends |-> "open"]
            /\ copier = [e \in Ends |-> "none"]
            /\ item = [e \in Ends |-> 0]
            /\ hasError = [e \in Ends |-> FALSE]
            /\ reader = [x \in Side |-> idle]
            /\ quit = [e \in Ends |-> "no"]
            /\ sent = [e \in Ends |-> 0]
            /\ got = [e \in Ends |-> <<>>]
-----------------------------------------------------------------------------
\* pipe.Close and pipe.Interrupt: the first of them counts.
CloseState(state) == IF state = "open" THEN "closed" ELSE state
InterruptState(state) == IF state = "open" THEN "errord" ELSE state

\* WriteMultiBuffer on the carrier: waits for room, fails when it is down.
Writable(x) == down \/ Len(carrier[x]) < Capacity
Put(x, f) == carrier' = IF down THEN carrier ELSE [carrier EXCEPT ![x] = Append(@, f)]

Step(e, label) == copier' = [copier EXCEPT ![e] = label]

\* Session.Close and SessionManager.Remove
Remove(e) == IF closedOf[e[1]] THEN sessionsOf
             ELSE [sessionsOf EXCEPT ![e[1]] = @ \ {e[2]}]

SessionClose(e) == /\ output' = [output EXCEPT ![e] = CloseState(@)]
                   /\ sessionsOf' = Remove(e)

\* The error path of a copier; fetchInput also interrupts the input.
Fail(e) == /\ hasError' = [hasError EXCEPT ![e] = TRUE]
           /\ input' = [input EXCEPT ![e] = IF e[1] = "client" THEN InterruptState(@) ELSE @]
           /\ Step(e, "end")

\* SessionManager.Allocate on the client's side, and the start of fetchInput
Open(s) ==
    LET e == <<"client", s>>
    IN  /\ copier[e] = "none"
        /\ ~closedOf["client"]
        /\ sessionsOf' = [sessionsOf EXCEPT !["client"] = @ \cup {s}]
        /\ Step(e, "first")
        /\ UNCHANGED <<carrier, down, closedOf, input, output, item, hasError, reader, quit,
                       sent, got>>

\* writeFirstPayload: what the application sends within 100 ms goes with New.
First(s) ==
    LET e == <<"client", s>>
    IN  /\ copier[e] = "first"
        /\ \/ /\ input[e] # "errord" /\ MaxItems > 0
              /\ item' = [item EXCEPT ![e] = 1]
              /\ Step(e, "new")
              /\ UNCHANGED <<hasError, input>>
           \/ /\ input[e] = "open"
              /\ Step(e, "new")
              /\ UNCHANGED <<item, hasError, input>>
           \/ input[e] # "open" /\ Fail(e) /\ UNCHANGED item
        /\ UNCHANGED <<carrier, down, sessionsOf, closedOf, output, reader, quit, sent, got>>

\* buf.Copy reads the input: a payload, EOF or an error.
Read(e) ==
    /\ copier[e] = "copy"
    /\ \/ /\ input[e] # "errord" /\ sent[e] < MaxItems
          /\ item' = [item EXCEPT ![e] = sent[e] + 1]
          /\ Step(e, "keep")
          /\ UNCHANGED <<hasError, input>>
       \/ input[e] = "closed" /\ Step(e, "end") /\ UNCHANGED <<item, hasError, input>>
       \/ input[e] = "errord" /\ Fail(e) /\ UNCHANGED item
    /\ UNCHANGED <<carrier, down, sessionsOf, closedOf, output, reader, quit, sent, got>>

\* Writer.WriteMultiBuffer: the next frame is New or Keep.
Send(e) ==
    /\ copier[e] \in {"new", "keep"}
    /\ Writable(e[1])
    /\ Put(e[1], [id |-> e[2], status |-> IF copier[e] = "new" THEN "New" ELSE "Keep",
                  data |-> item[e], error |-> FALSE])
    /\ item' = [item EXCEPT ![e] = 0]
    /\ \/ down /\ Fail(e) /\ UNCHANGED sent
       \/ /\ ~down
          /\ sent' = [sent EXCEPT ![e] = IF item[e] = 0 THEN @ ELSE item[e]]
          /\ Step(e, "copy")
          /\ UNCHANGED <<hasError, input>>
    /\ UNCHANGED <<down, sessionsOf, closedOf, output, reader, quit, got>>

\* Writer.Close writes End, ...
SendEnd(e) ==
    /\ copier[e] = "end"
    /\ Writable(e[1])
    /\ Put(e[1], [id |-> e[2], status |-> "End", data |-> 0, error |-> hasError[e]])
    /\ hasError' = [hasError EXCEPT ![e] = FALSE]
    /\ Step(e, "close")
    /\ UNCHANGED <<down, sessionsOf, closedOf, input, output, item, reader, quit, sent, got>>

\* ... and Session.Close follows.
Finish(e) ==
    /\ copier[e] = "close"
    /\ SessionClose(e)
    /\ Step(e, "done")
    /\ UNCHANGED <<carrier, down, closedOf, input, item, hasError, reader, quit, sent, got>>
-----------------------------------------------------------------------------
\* The next frame for x, of the given status.
Take(x, status) ==
    /\ reader[x].at = "idle"
    /\ carrier[Peer(x)] # <<>>
    /\ Head(carrier[Peer(x)]).status = status
    /\ carrier' = [carrier EXCEPT ![Peer(x)] = Tail(@)]

ReaderGoto(x, where) == reader' = [reader EXCEPT ![x] = where]

\* New may come without a payload.
FirstPayload(f) == IF f.data = 0 THEN idle ELSE At("first", f)

\* ServerWorker.handleStatusNew: Dispatch succeeds and handle is started, ...
ReceiveNew ==
    /\ Take("server", "New")
    /\ LET f == Head(carrier["client"])
       IN  /\ sessionsOf' = [sessionsOf EXCEPT !["server"] = @ \cup {f.id}]
           /\ Step(<<"server", f.id>>, "copy")
           /\ ReaderGoto("server", FirstPayload(f))
    /\ UNCHANGED <<down, closedOf, input, output, item, hasError, quit, sent, got>>

\* ... or Dispatch fails, which ends run: the carrier's reader is interrupted.
DispatchFails ==
    /\ Take("server", "New")
    /\ ReaderGoto("server", [at |-> "done"])
    /\ down' = TRUE
    /\ UNCHANGED <<sessionsOf, closedOf, input, output, copier, item, hasError, quit, sent,
                   got>>

\* handleStatusKeep looks the session up.
Found(x, s) == s \in sessionsOf[x]

ReceiveKeep(x) ==
    /\ Take(x, "Keep")
    /\ LET f == Head(carrier[Peer(x)])
       IN  ReaderGoto(x, At(IF Found(x, f.id) THEN "write" ELSE "notify", f))
    /\ UNCHANGED <<down, sessionsOf, closedOf, input, output, copier, item, hasError, quit,
                   sent, got>>

\* Slips (here and below): variants of the next definition with a bug that a
\* change of the code could introduce.  No specification uses them; the
\* properties are checked to tell each one from the code.

\* Slip: OptionError is ignored.
EndOutput_clean(state, error) == CloseState(state)

\* Slip: only the output is ended.
EndInput_kept(state) == state

\* handleStatusEnd
EndInput(state) == InterruptState(state)

EndOutput(state, error) == IF error THEN InterruptState(state) ELSE CloseState(state)

ReceiveEnd(x) ==
    /\ Take(x, "End")
    /\ LET f == Head(carrier[Peer(x)])
           e == <<x, f.id>>
       IN  \/ /\ Found(x, f.id)
              /\ input' = [input EXCEPT ![e] = EndInput(@)]
              /\ output' = [output EXCEPT ![e] = EndOutput(@, f.error)]
              /\ sessionsOf' = Remove(e)
           \/ ~Found(x, f.id) /\ UNCHANGED <<input, output, sessionsOf>>
    /\ UNCHANGED <<down, closedOf, copier, item, hasError, reader, quit, sent, got>>

\* The payload is written to the output.
Deliver(x) ==
    /\ reader[x].at \in {"first", "write"}
    /\ LET f == reader[x].frame
           e == <<x, f.id>>
       IN  \/ /\ output[e] = "open"
              /\ got' = [got EXCEPT ![e] = Append(@, f.data)]
              /\ ReaderGoto(x, idle)
           \/ /\ output[e] # "open"
              /\ ReaderGoto(x, At(IF reader[x].at = "first" THEN "drop" ELSE "refuse", f))
              /\ UNCHANGED got
    /\ UNCHANGED <<carrier, down, sessionsOf, closedOf, input, output, copier, item, hasError,
                   quit, sent>>

\* The peer is told to close the session: it is unknown, or its output failed.
Notify(x) ==
    /\ reader[x].at \in {"notify", "refuse"}
    /\ Writable(x)
    /\ Put(x, [id |-> reader[x].frame.id, status |-> "End", data |-> 0, error |-> FALSE])
    /\ ReaderGoto(x, IF reader[x].at = "notify" THEN idle ELSE At("drop", reader[x].frame))
    /\ UNCHANGED <<down, sessionsOf, closedOf, input, output, copier, item, hasError, quit,
                   sent, got>>

\* After a failed output the input is interrupted and the session closed.
Drop(x) ==
    /\ reader[x].at = "drop"
    /\ LET e == <<x, reader[x].frame.id>>
       IN  /\ input' = [input EXCEPT ![e] = InterruptState(@)]
           /\ SessionClose(e)
    /\ ReaderGoto(x, idle)
    /\ UNCHANGED <<carrier, down, closedOf, copier, item, hasError, quit, sent, got>>
-----------------------------------------------------------------------------
\* The reader of a failed carrier meets the end of what arrived.
ReaderEnds(x) ==
    /\ reader[x].at = "idle" /\ down /\ carrier[Peer(x)] = <<>>
    /\ ReaderGoto(x, [at |-> "done"])
    /\ UNCHANGED <<carrier, down, sessionsOf, closedOf, input, output, copier, item, hasError,
                   quit, sent, got>>

\* SessionManager.Close: deferred by run; called by monitor, which is told by
\* fetchOutput or by the end of Process and interrupts fetchOutput.
WorkerClose(x) ==
    /\ ~closedOf[x]
    /\ reader[x].at = "done" \/ (x = "client" /\ down)
    /\ closedOf' = [closedOf EXCEPT ![x] = TRUE]
    /\ output' = [e \in Ends |-> IF e[1] = x /\ e[2] \in sessionsOf[x]
                                 THEN CloseState(output[e]) ELSE output[e]]
    /\ sessionsOf' = [sessionsOf EXCEPT ![x] = {}]
    /\ carrier' = [carrier EXCEPT ![Peer(x)] = <<>>]
    /\ UNCHANGED <<down, input, copier, item, hasError, reader, quit, sent, got>>

\* The carrier fails, and what is on its way arrives or is lost.
LinkFails ==
    /\ ~down
    /\ down' = TRUE
    /\ \E lost \in SUBSET Side :
         carrier' = [x \in Side |-> IF x \in lost THEN <<>> ELSE carrier[x]]
    /\ UNCHANGED <<sessionsOf, closedOf, input, output, copier, item, hasError, reader, quit,
                   sent, got>>

\* An application closes its end, gives it up (while someone reads what it sends),
\* or stops to read.
Started(e) == copier[e] # "none"
IsRead(e) == copier[e] \in {"first", "new", "copy", "keep"}

AppCloses(e) ==
    /\ IsRead(e) /\ input[e] = "open"
    /\ input' = [input EXCEPT ![e] = "closed"]
    /\ quit' = [quit EXCEPT ![e] = "eof"]
    /\ UNCHANGED <<carrier, down, sessionsOf, closedOf, output, copier, item, hasError, reader,
                   sent, got>>

AppFails(e) ==
    /\ IsRead(e) /\ input[e] = "open"
    /\ input' = [input EXCEPT ![e] = "errord"]
    /\ quit' = [quit EXCEPT ![e] = "error"]
    /\ UNCHANGED <<carrier, down, sessionsOf, closedOf, output, copier, item, hasError, reader,
                   sent, got>>

AppStopsReading(e) ==
    /\ Started(e) /\ output[e] = "open"
    /\ output' = [output EXCEPT ![e] = "errord"]
    /\ UNCHANGED <<carrier, down, sessionsOf, closedOf, input, copier, item, hasError, reader,
                   quit, sent, got>>

CopierStep(e) == Read(e) \/ Send(e) \/ SendEnd(e) \/ Finish(e)
ReaderStep(x) == \/ ReceiveKeep(x) \/ ReceiveEnd(x) \/ Deliver(x) \/ Notify(x) \/ Drop(x)
                 \/ ReaderEnds(x)

LinkNext == \/ \E s \in Sessions : Open(s) \/ First(s)
            \/ \E e \in Ends : \/ CopierStep(e)
                               \/ AppCloses(e) \/ AppFails(e) \/ AppStopsReading(e)
            \/ ReceiveNew \/ DispatchFails
            \/ \E x \in Side : ReaderStep(x) \/ WorkerClose(x)
            \/ LinkFails

LinkSpec == LinkInit /\ [][LinkNext]_linkVars

\* Goroutines run and the carrier moves frames; applications owe nothing but to
\* read what is written to their outputs, or to stop reading them.
FairLinkSpec ==
    /\ LinkSpec
    /\ \A s \in Sessions : WF_linkVars(First(s))
    /\ \A e \in Ends : WF_linkVars(CopierStep(e))
    /\ \A x \in Side : WF_linkVars(ReaderStep(x)) /\ WF_linkVars(WorkerClose(x))
    /\ WF_linkVars(ReceiveNew \/ DispatchFails)
-----------------------------------------------------------------------------
\* The variables have the types of the fields they stand for.
LinkTypeOK ==
    /\ carrier \in [Side -> Seq(Frame)]
    /\ \A x \in Side : Len(carrier[x]) <= Capacity
    /\ down \in BOOLEAN
    /\ sessionsOf \in [Side -> SUBSET Sessions]
    /\ closedOf \in [Side -> BOOLEAN]
    /\ input \in [Ends -> {"open", "closed", "errord"}]
    /\ output \in [Ends -> {"open", "closed", "errord"}]
    /\ copier \in [Ends -> {"none", "first", "new", "copy", "keep", "end", "close", "done"}]
    /\ item \in [Ends -> 0 .. MaxItems]
    /\ hasError \in [Ends -> BOOLEAN]
    /\ \A x \in Side :
         \/ reader[x] \in {idle, [at |-> "done"]}
         \/ reader[x] \in [at : {"first", "write", "notify", "refuse", "drop"}, frame : Frame]
    /\ quit \in [Ends -> {"no", "eof", "error"}]
    /\ sent \in [Ends -> 0 .. MaxItems]
    /\ got \in [Ends -> Seq(1 .. MaxItems)]

\* The output of an end is a prefix of what the other end's application sent, in
\* order; and an application that ends nothing itself sees a clean end of its output
\* only with all of it, unless the carrier fails or the other application stops
\* to read.
Delivered ==
    \A e \in Ends :
        /\ \A i \in DOMAIN got[e] : got[e][i] = i
        /\ Len(got[e]) <= sent[Other(e)]
        /\ output[e] = "closed" /\ ~down /\ quit[e] = "no" /\ output[Other(e)] # "errord"
             => quit[Other(e)] = "eof" /\ Len(got[e]) = sent[Other(e)]

\* Frames stay within the carrier's room, and what they carry arrives as Delivered says,
\* however the frames of a session cross.
LinkWellFormed == LinkTypeOK /\ Delivered

\* Both readers never wait for room in the carrier to tell each other of a closed
\* session ("Notify remote peer to close this session."): nothing would move again
\* before the carrier's idle timeout.
NotifiesPeer ==
    ~ \A x \in Side : reader[x].at \in {"notify", "refuse"} /\ ~Writable(x)

\* A session that is over at one end ends at the other: it leaves the tables of both
\* sides and its goroutines return.  After a failure of the carrier a goroutine may
\* wait for its application (SessionManager.Close does not interrupt the inputs).
EndsTogether ==
    \A e \in Ends :
        copier[e] = "done" ~>
          /\ \A x \in Side : e[2] \notin sessionsOf[x]
          /\ down \/ copier[Other(e)] \in {"none", "done"}
=============================================================================
