-------------------------------- MODULE Pipe --------------------------------
(***************************************************************************)
(* transport/pipe: the in-memory pipe that joins an inbound to an outbound *)
(* (app/dispatcher), a mux worker to its carrier connection (common/mux)   *)
(* and the halves of a UDP session.                                        *)
(*                                                                         *)
(* A pipe is a mutex-protected buffer of MultiBuffers with two one-slot    *)
(* notifiers (common/signal.Notifier) and a close-once broadcast           *)
(* (common/signal/done).  Every critical section is one step; the Signal   *)
(* that follows it outside the mutex is a step of its own, and so is every *)
(* select a caller blocks in.                                              *)
(***************************************************************************)
EXTENDS Integers, Sequences, FiniteSets

CONSTANTS Writers,          \* goroutines that call WriteMultiBuffer
          Readers,          \* goroutines that call ReadMultiBuffer[Timeout]
          Sizes,            \* byte lengths a written MultiBuffer may have
          Limit,            \* pipeOption.limit, -1 for WithoutSizeLimit
          DiscardOverflow,  \* pipeOption.discardOverflow
          MaxWrites         \* bound: writes per goroutine

ASSUME PipeAssumption ==
    /\ Writers \cap Readers = {}
    /\ Sizes \subseteq Nat \ {0}
    /\ Limit \in Int
    /\ DiscardOverflow \in BOOLEAN
    /\ MaxWrites \in Nat

MultiBuffer == [from : Writers, seq : 1..MaxWrites, size : Sizes]

VARIABLES
  data,         \* pipe.data; <<>> is the nil slice
  state,        \* pipe.state
  readSignal,   \* a token is in readSignal's channel
  writeSignal,  \* a token is in writeSignal's channel
  done,         \* pipe.done is closed
  pc,           \* where each goroutine is
  size,         \* the length of each writer's current or last argument
  timed,        \* the reader's current call is ReadMultiBufferTimeout
  result,       \* what the last call of each goroutine returned
  nwrites,      \* calls each writer has made
  accepted,     \* history: MultiBuffers appended to data, in order
  taken         \* history: MultiBuffers handed to readers, in order

vars == <<data, state, readSignal, writeSignal, done, pc, size, timed, result,
          nwrites, accepted, taken>>

\* The argument of w's current or last call.
mb(w) == [from |-> w, seq |-> nwrites[w], size |-> size[w]]

\* MultiBuffer.Len
Len32(mbs) ==
    LET sum[i \in 0..Len(mbs)] == IF i = 0 THEN 0 ELSE sum[i-1] + mbs[i].size
    IN  sum[Len(mbs)]

isFull(mbs) == Limit >= 0 /\ Len32(mbs) > Limit

\* getState(forRead): "nil" or the error returned
getState(forRead) ==
    CASE state = "open"   -> IF ~forRead /\ isFull(data) THEN "full" ELSE "nil"
      [] state = "closed" -> IF ~forRead THEN "ErrClosedPipe"
                             ELSE IF data # <<>> THEN "nil" ELSE "EOF"
      [] state = "errord" -> "ErrClosedPipe"

New == /\ data = <<>>
       /\ state = "open"
       /\ readSignal = FALSE
       /\ writeSignal = FALSE
       /\ done = FALSE

Init == /\ New
        /\ pc = [p \in Writers \cup Readers |-> "idle"]
        /\ size = [w \in Writers |-> 0]
        /\ timed = [r \in Readers |-> FALSE]
        /\ result = [p \in Writers \cup Readers |-> "none"]
        /\ nwrites = [w \in Writers |-> 0]
        /\ accepted = <<>>
        /\ taken = <<>>
-----------------------------------------------------------------------------
Goto(p, label) == pc' = [pc EXCEPT ![p] = label]
Return(p, r) == Goto(p, "idle") /\ result' = [result EXCEPT ![p] = r]

pipeVars == <<data, state, done>>
callVars == <<size, timed, nwrites>>
history == <<accepted, taken>>

\* A call of WriteMultiBuffer with a non-empty MultiBuffer (an empty one
\* returns at once and changes nothing).
WriteMultiBuffer(w, n) ==
    /\ pc[w] = "idle"
    /\ nwrites[w] < MaxWrites
    /\ nwrites' = [nwrites EXCEPT ![w] = @ + 1]
    /\ size' = [size EXCEPT ![w] = n]
    /\ result' = [result EXCEPT ![w] = "none"]
    /\ Goto(w, "write")
    /\ UNCHANGED <<pipeVars, readSignal, writeSignal, timed, history>>

\* Slips (here and below): variants of the next definition with a bug that a
\* change of the code could introduce.  No specification uses them; the
\* properties are checked to tell each one from the code.

\* Slip: the buffer is replaced instead of merged.
writeMultiBufferInternal_overwrites(w) ==
    /\ pc[w] = "write"
    /\ getState(FALSE) = "nil"
    /\ data' = <<mb(w)>>
    /\ accepted' = Append(accepted, mb(w))
    /\ Goto(w, "wrote")
    /\ UNCHANGED <<state, done, result, taken, readSignal, writeSignal, callVars>>

\* Slip: a write that finds the pipe full is reported discarded but kept.
writeMultiBufferInternal_lateCheck(w) ==
    /\ pc[w] = "write"
    /\ state = "open"
    /\ data' = Append(data, mb(w))
    /\ accepted' = Append(accepted, mb(w))
    /\ IF isFull(data') THEN Return(w, "discarded")
                        ELSE Goto(w, "wrote") /\ UNCHANGED result
    /\ UNCHANGED <<state, done, taken, readSignal, writeSignal, callVars>>

\* writeMultiBufferInternal and the branch its caller takes on the error.
writeMultiBufferInternal(w) ==
    /\ pc[w] = "write"
    /\ LET err == getState(FALSE) IN
       \/ /\ err = "nil"
          /\ data' = Append(data, mb(w))
          /\ accepted' = Append(accepted, mb(w))
          /\ Goto(w, "wrote")
          /\ UNCHANGED <<state, done, result, taken>>
       \/ /\ err = "full" /\ DiscardOverflow
          /\ Return(w, "discarded")
          /\ UNCHANGED <<pipeVars, history>>
       \/ /\ err = "full" /\ ~DiscardOverflow
          /\ Goto(w, "full")
          /\ UNCHANGED <<pipeVars, result, history>>
       \/ /\ err \notin {"nil", "full"}
          /\ Goto(w, "refused")
          /\ UNCHANGED <<pipeVars, result, history>>
    /\ UNCHANGED <<readSignal, writeSignal, callVars>>

\* Slip: the reader is not signalled.
WriterSignal_silent(w) ==
    /\ \/ pc[w] = "wrote" /\ Return(w, "ok")
       \/ pc[w] = "refused" /\ Return(w, "ErrClosedPipe")
    /\ UNCHANGED <<pipeVars, readSignal, writeSignal, callVars, history>>

\* readSignal.Signal() and the return that follows it.
WriterSignal(w) ==
    /\ \/ pc[w] = "wrote" /\ Return(w, "ok")
       \/ pc[w] = "refused" /\ Return(w, "ErrClosedPipe")
    /\ readSignal' = TRUE
    /\ UNCHANGED <<pipeVars, writeSignal, callVars, history>>

\* Slip: a writer woken by done reports success.
WriterWait_doneIsOk(w) ==
    /\ pc[w] = "full"
    /\ \/ /\ writeSignal
          /\ writeSignal' = FALSE
          /\ Goto(w, "write")
          /\ UNCHANGED result
       \/ /\ done
          /\ Return(w, "ok")
          /\ UNCHANGED writeSignal
    /\ UNCHANGED <<pipeVars, readSignal, callVars, history>>

\* The select of a writer that found the buffer full.
WriterWait(w) ==
    /\ pc[w] = "full"
    /\ \/ /\ writeSignal
          /\ writeSignal' = FALSE
          /\ Goto(w, "write")
          /\ UNCHANGED result
       \/ /\ done
          /\ Return(w, "ErrClosedPipe")
          /\ UNCHANGED writeSignal
    /\ UNCHANGED <<pipeVars, readSignal, callVars, history>>
-----------------------------------------------------------------------------
\* A call of ReadMultiBuffer (t = FALSE) or ReadMultiBufferTimeout (t = TRUE).
ReadMultiBuffer(r, t) ==
    /\ pc[r] = "idle"
    /\ timed' = [timed EXCEPT ![r] = t]
    /\ result' = [result EXCEPT ![r] = "none"]
    /\ Goto(r, "read")
    /\ UNCHANGED <<pipeVars, readSignal, writeSignal, size, nwrites, history>>

\* Slip: the buffer handed out is not cleared.
readMultiBufferInternal_keeps(r) ==
    /\ pc[r] = "read"
    /\ getState(TRUE) = "nil" /\ data # <<>>
    /\ taken' = taken \o data
    /\ result' = [result EXCEPT ![r] = "data"]
    /\ Goto(r, "got")
    /\ UNCHANGED <<data, state, done, readSignal, writeSignal, callVars, accepted>>

readMultiBufferInternal(r) ==
    /\ pc[r] = "read"
    /\ LET err == getState(TRUE) IN
       \/ /\ err = "nil" /\ data # <<>>
          /\ taken' = taken \o data
          /\ data' = <<>>
          /\ result' = [result EXCEPT ![r] = "data"]
          /\ Goto(r, "got")
       \/ /\ err = "nil" /\ data = <<>>
          /\ Goto(r, "empty")
          /\ UNCHANGED <<data, result, taken>>
       \/ /\ err # "nil"
          /\ result' = [result EXCEPT ![r] = err]
          /\ Goto(r, "got")
          /\ UNCHANGED <<data, taken>>
    /\ UNCHANGED <<state, done, readSignal, writeSignal, callVars, accepted>>

\* Slip: the writer is not signalled.
ReaderSignal_silent(r) ==
    /\ pc[r] = "got"
    /\ Goto(r, "idle")
    /\ UNCHANGED <<pipeVars, readSignal, writeSignal, result, callVars, history>>

\* writeSignal.Signal() and the return that follows it.
ReaderSignal(r) ==
    /\ pc[r] = "got"
    /\ writeSignal' = TRUE
    /\ Goto(r, "idle")
    /\ UNCHANGED <<pipeVars, readSignal, result, callVars, history>>

\* The select of a reader that found nothing.
ReaderWait(r) ==
    /\ pc[r] = "empty"
    /\ \/ /\ readSignal
          /\ readSignal' = FALSE
          /\ Goto(r, "read")
          /\ UNCHANGED result
       \/ /\ done
          /\ Goto(r, "read")
          /\ UNCHANGED <<readSignal, result>>
       \/ /\ timed[r]
          /\ Return(r, "ErrReadTimeout")
          /\ UNCHANGED readSignal
    /\ UNCHANGED <<pipeVars, writeSignal, callVars, history>>
-----------------------------------------------------------------------------
\* Writer.Close
Close ==
    /\ state = "open"
    /\ state' = "closed"
    /\ done' = TRUE
    /\ UNCHANGED <<data, readSignal, writeSignal, pc, result, callVars, history>>

\* Reader.Interrupt, Writer.Interrupt.  A pipe already closed stays closed and
\* keeps its data.
Interrupt ==
    /\ state = "open"
    /\ state' = "errord"
    /\ data' = <<>>
    /\ done' = TRUE
    /\ UNCHANGED <<readSignal, writeSignal, pc, result, callVars, history>>

WriterStep(w) == writeMultiBufferInternal(w) \/ WriterSignal(w) \/ WriterWait(w)
ReaderStep(r) == readMultiBufferInternal(r) \/ ReaderSignal(r) \/ ReaderWait(r)

Next == \/ \E w \in Writers, n \in Sizes : WriteMultiBuffer(w, n)
        \/ \E w \in Writers : WriterStep(w)
        \/ \E r \in Readers, t \in BOOLEAN : ReadMultiBuffer(r, t)
        \/ \E r \in Readers : ReaderStep(r)
        \/ Close
        \/ Interrupt

Spec == Init /\ [][Next]_vars

\* The Go scheduler runs every runnable goroutine, and a reading loop
\* (buf.Copy) calls ReadMultiBuffer again after each read that returned no
\* error.
KeepsReading(r) == /\ result[r] \in {"none", "data", "ErrReadTimeout"}
                   /\ ReadMultiBuffer(r, FALSE)

FairSpec == /\ Spec
            /\ \A w \in Writers : WF_vars(WriterStep(w))
            /\ \A r \in Readers : WF_vars(ReaderStep(r)) /\ WF_vars(KeepsReading(r))
-----------------------------------------------------------------------------
\* The variables have the types of the Go fields and locals they stand for.
TypeOK ==
    /\ data \in Seq(MultiBuffer)
    /\ state \in {"open", "closed", "errord"}
    /\ readSignal \in BOOLEAN /\ writeSignal \in BOOLEAN /\ done \in BOOLEAN
    /\ pc \in [Writers \cup Readers ->
                 {"idle", "write", "wrote", "refused", "full", "read", "got", "empty"}]
    /\ size \in [Writers -> Sizes \cup {0}]
    /\ timed \in [Readers -> BOOLEAN]
    /\ result \in [Writers \cup Readers ->
                     {"none", "ok", "discarded", "data", "EOF",
                      "ErrClosedPipe", "ErrReadTimeout"}]
    /\ nwrites \in [Writers -> 0..MaxWrites]
    /\ accepted \in Seq(MultiBuffer)
    /\ taken \in Seq(MultiBuffer)

\* Unless the pipe is interrupted, everything accepted is either handed to a
\* reader or still buffered, in the order it was accepted (Close keeps the data).
NothingLost == state # "errord" => accepted = taken \o data

\* No wake-up of a reader is lost: while data waits in the pipe, a reader sits
\* in its select without a token only if a writer is about to signal or another
\* reader is about to take the data.
NoReaderStranded ==
    (\E r \in Readers : pc[r] = "empty") /\ data # <<>> /\ ~readSignal /\ ~done
        => \/ \E w \in Writers : pc[w] = "wrote"
           \/ \E r \in Readers : pc[r] = "read"

\* No wake-up of a writer is lost: once the pipe has been drained, a writer sits
\* in its select without a token only if a reader is about to signal or another
\* writer is about to put data in (which brings the reader back).
NoWriterStranded ==
    (\E w \in Writers : pc[w] = "full") /\ data = <<>> /\ ~writeSignal /\ ~done
        => \/ \E r \in Readers : pc[r] = "got"
           \/ \E w \in Writers : pc[w] = "write"

\* No wake-up is lost, although signals are sent outside the mutex through channels of
\* one slot that goroutines compete for.
NoneStranded == NoReaderStranded /\ NoWriterStranded

\* The limit is exceeded by at most the last MultiBuffer written, however many
\* writers race for the remaining room.
BoundedOvershoot == data # <<>> => ~isFull(SubSeq(data, 1, Len(data) - 1))

\* What a write returns is what happened: nil means the data is in the stream,
\* an error or a discard means that none of it ever is.
TruthfulWrite ==
    \A w \in Writers :
        LET in == \E i \in 1..Len(accepted) : accepted[i] = mb(w) IN
        /\ result[w] = "ok" => in
        /\ result[w] \in {"ErrClosedPipe", "discarded"} => ~in

\* io.EOF reaches a reader only when every accepted byte has been handed out,
\* and stays true from then on.
EOFMeansDrained ==
    \A r \in Readers : result[r] = "EOF" => state = "closed" /\ taken = accepted

\* What the calls return and what is in the pipe agree, with Close and Interrupt at
\* any moment: what a write put in is there or was handed out, and EOF is the end.
Truthful == NothingLost /\ TruthfulWrite /\ EOFMeansDrained

\* A pipe is a Stream.
S == INSTANCE Stream WITH Payload <- MultiBuffer, sent <- accepted,
                          received <- taken, ended <- state # "open"

\* Every step of the pipe is a step of the abstract conduit: the readers
\* together see a growing prefix of what was accepted and nothing is accepted
\* after Close or Interrupt.
ImplementsStream == S!Spec

\* While somebody keeps reading, every WriteMultiBuffer returns: a writer
\* blocked on a full pipe is woken by a read, by Close or by Interrupt.
WritesReturn == \A w \in Writers : pc[w] # "idle" ~> pc[w] = "idle"

\* Every accepted MultiBuffer is eventually handed to a reader, unless the pipe
\* is interrupted (Close alone loses nothing).
AllDelivered ==
    \A n \in 1 .. MaxWrites * Cardinality(Writers) :
        Len(accepted) >= n ~> (Len(taken) >= n \/ state = "errord")
=============================================================================
