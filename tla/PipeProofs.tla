----------------------------- MODULE PipeProofs -----------------------------
(***************************************************************************)
(* Proofs about module Pipe, for any writers, readers, sizes and limit.    *)
(***************************************************************************)
EXTENDS Pipe, SequenceTheorems, TLAPS

In(w) == \E i \in 1..Len(accepted) : accepted[i] = mb(w)

\* Which labels belong to whom, and what each label says of the call in
\* progress: before the append the argument is not in the stream, after it is.
CallInv ==
    /\ \A r \in Readers : pc[r] \in {"idle", "read", "got", "empty"}
    /\ \A w \in Writers : pc[w] \in {"idle", "write", "wrote", "refused", "full"}
    /\ \A w \in Writers : pc[w] # "idle" => /\ size[w] \in Sizes
                                            /\ nwrites[w] \in 1..MaxWrites
                                            /\ result[w] = "none"
    /\ \A w \in Writers : pc[w] \in {"write", "refused", "full"} => ~In(w)
    /\ \A w \in Writers : pc[w] = "wrote" => In(w)
    /\ \A i \in 1..Len(accepted) : accepted[i].seq <= nwrites[accepted[i].from]

StateInv ==
    /\ done <=> state # "open"
    /\ \A r \in Readers : result[r] = "EOF" => state = "closed" /\ data = <<>>

IInv == /\ TypeOK
        /\ CallInv
        /\ StateInv
        /\ NothingLost
        /\ NoReaderStranded
        /\ NoWriterStranded
        /\ BoundedOvershoot
        /\ TruthfulWrite

USE DEF pipeVars, callVars, history, Goto, Return

\* The argument of a call in progress is a MultiBuffer.
LEMMA MbType ==
  ASSUME TypeOK, CallInv, NEW w \in Writers, pc[w] # "idle"
  PROVE  mb(w) \in MultiBuffer
BY DEF TypeOK, CallInv, mb, MultiBuffer

\* Every step preserves the types.
LEMMA TypeStep ==
  ASSUME TypeOK, CallInv, [Next]_vars
  PROVE  TypeOK'
<1> USE PipeAssumption DEF TypeOK
<1>0. <<>> \in Seq(MultiBuffer)
  OBVIOUS
<1>1. ASSUME NEW w \in Writers, NEW n \in Sizes, WriteMultiBuffer(w, n)
      PROVE  TypeOK'
  BY <1>1 DEF WriteMultiBuffer
<1>2. ASSUME NEW w \in Writers, writeMultiBufferInternal(w)
      PROVE  TypeOK'
  <2>1. mb(w) \in MultiBuffer
    BY <1>2, MbType DEF writeMultiBufferInternal
  <2>2. /\ Append(data, mb(w)) \in Seq(MultiBuffer)
        /\ Append(accepted, mb(w)) \in Seq(MultiBuffer)
    BY <2>1
  <2>. QED
    <3>1. CASE getState(FALSE) = "nil"
      BY <1>2, <2>2, <3>1 DEF writeMultiBufferInternal
    <3>2. CASE getState(FALSE) # "nil"
      BY <1>2, <3>2 DEF writeMultiBufferInternal
    <3>. QED
      BY <3>1, <3>2
<1>3. ASSUME NEW w \in Writers, WriterSignal(w) \/ WriterWait(w)
      PROVE  TypeOK'
  BY <1>3 DEF WriterSignal, WriterWait
<1>4. ASSUME NEW r \in Readers, NEW t \in BOOLEAN, ReadMultiBuffer(r, t)
      PROVE  TypeOK'
  BY <1>4 DEF ReadMultiBuffer
<1>5. ASSUME NEW r \in Readers, readMultiBufferInternal(r)
      PROVE  TypeOK'
  <2>1. taken \o data \in Seq(MultiBuffer)
    OBVIOUS
  <2>2. getState(TRUE) # "nil" => getState(TRUE) \in {"EOF", "ErrClosedPipe"}
    BY DEF getState
  <2>. QED
    <3>1. CASE getState(TRUE) = "nil"
      BY <1>0, <1>5, <2>1, <3>1 DEF readMultiBufferInternal
    <3>2. CASE getState(TRUE) # "nil"
      BY <1>5, <2>2, <3>2 DEF readMultiBufferInternal
    <3>. QED
      BY <3>1, <3>2
<1>6. ASSUME NEW r \in Readers, ReaderSignal(r) \/ ReaderWait(r)
      PROVE  TypeOK'
  <2>1. CASE ReaderSignal(r)
    BY <2>1 DEF ReaderSignal
  <2>2. CASE ReaderWait(r)
    BY <2>2 DEF ReaderWait
  <2>. QED
    BY <1>6, <2>1, <2>2
<1>7. CASE Close \/ Interrupt
  BY <1>0, <1>7 DEF Close, Interrupt
<1>8. CASE UNCHANGED vars
  BY <1>8 DEF vars
<1>. QED
  BY <1>1, <1>2, <1>3, <1>4, <1>5, <1>6, <1>7, <1>8
  DEF Next, WriterStep, ReaderStep

\* Appending the argument of w puts it in the stream and changes nothing for
\* the other writers.
LEMMA InAppend ==
  ASSUME TypeOK, CallInv, NEW w \in Writers, pc[w] # "idle",
         accepted' = Append(accepted, mb(w)), UNCHANGED <<size, nwrites>>
  PROVE  /\ In(w)'
         /\ \A v \in Writers \ {w} : In(v)' <=> In(v)
<1>1. mb(w) \in MultiBuffer
  BY MbType
<1>2. /\ accepted \in Seq(MultiBuffer)
      /\ Len(accepted') = Len(accepted) + 1
      /\ accepted'[Len(accepted) + 1] = mb(w)
      /\ \A i \in 1..Len(accepted) : accepted'[i] = accepted[i]
      /\ Len(accepted) \in Nat
  BY <1>1 DEF TypeOK
<1>3. \A v \in Writers : mb(v)' = mb(v) /\ mb(v).from = v
  BY DEF mb
<1>4. \A v \in Writers \ {w} : accepted'[Len(accepted) + 1] # mb(v)'
  BY <1>2, <1>3
<1>. QED
  BY <1>2, <1>3, <1>4 DEF In

\* Every label still says what it says of the call in progress.
LEMMA CallStep ==
  ASSUME TypeOK, CallInv, [Next]_vars
  PROVE  CallInv'
<1> USE PipeAssumption DEF TypeOK
<1>1. ASSUME NEW w \in Writers, NEW n \in Sizes, WriteMultiBuffer(w, n)
      PROVE  CallInv'
  <2>1. \A i \in 1..Len(accepted) : /\ accepted[i].seq \in Nat
                                    /\ accepted[i].from \in Writers
    <3>1. \A m \in MultiBuffer : m.seq \in Nat /\ m.from \in Writers
      BY DEF MultiBuffer
    <3>. QED
      BY <3>1
  <2>2. ~In(w)'
    <3>1. mb(w)'.seq = nwrites[w] + 1 /\ mb(w)'.from = w
      BY <1>1 DEF WriteMultiBuffer, mb
    <3>2. nwrites[w] \in Nat /\ accepted' = accepted
      BY <1>1 DEF WriteMultiBuffer
    <3>3. SUFFICES ASSUME NEW i \in 1..Len(accepted), accepted[i] = mb(w)'
                   PROVE  FALSE
      BY <3>2 DEF In
    <3>4. accepted[i].seq <= nwrites[accepted[i].from]
      BY DEF CallInv
    <3>. QED
      BY <3>1, <3>2, <3>3, <3>4
  <2>3. \A v \in Writers \ {w} : In(v)' <=> In(v)
    BY <1>1 DEF WriteMultiBuffer, In, mb
  <2>4. \A i \in 1..Len(accepted) : accepted[i].seq <= nwrites'[accepted[i].from]
    BY <1>1, <2>1 DEF WriteMultiBuffer, CallInv
  <2>. QED
    BY <1>1, <2>2, <2>3, <2>4 DEF WriteMultiBuffer, CallInv
<1>2. ASSUME NEW w \in Writers, writeMultiBufferInternal(w)
      PROVE  CallInv'
  <2>1. pc[w] = "write" /\ UNCHANGED <<size, nwrites>>
    BY <1>2 DEF writeMultiBufferInternal
  <2>2. CASE getState(FALSE) = "nil"
    <3>1. accepted' = Append(accepted, mb(w)) /\ pc' = [pc EXCEPT ![w] = "wrote"]
          /\ UNCHANGED result
      BY <1>2, <2>2 DEF writeMultiBufferInternal
    <3>2. In(w)' /\ \A v \in Writers \ {w} : In(v)' <=> In(v)
      BY <2>1, <3>1, InAppend
    <3>3. mb(w) \in MultiBuffer /\ mb(w).seq = nwrites[w] /\ mb(w).from = w
      BY <2>1, MbType DEF mb
    <3>4. \A i \in 1..Len(accepted') : accepted'[i].seq <= nwrites[accepted'[i].from]
      <4>1. \A i \in 1..Len(accepted') :
               accepted'[i] = IF i <= Len(accepted) THEN accepted[i] ELSE mb(w)
        BY <3>1, <3>3
      <4>2. Len(accepted') = Len(accepted) + 1 /\ Len(accepted) \in Nat
        BY <3>1, <3>3
      <4>3. nwrites[w] \in Nat
        OBVIOUS
      <4>. QED
        BY <3>3, <4>1, <4>2, <4>3 DEF CallInv
    <3>. QED
      BY <2>1, <3>1, <3>2, <3>4 DEF CallInv
  <2>3. CASE getState(FALSE) # "nil"
    <3>1. UNCHANGED accepted /\ \A v \in Writers : In(v)' <=> In(v)
      BY <1>2, <2>1, <2>3 DEF writeMultiBufferInternal, In, mb
    <3>. QED
      BY <1>2, <2>1, <2>3, <3>1 DEF writeMultiBufferInternal, CallInv
  <2>. QED
    BY <2>2, <2>3
<1>3. ASSUME NEW w \in Writers, WriterSignal(w) \/ WriterWait(w)
      PROVE  CallInv'
  <2>1. UNCHANGED accepted /\ \A v \in Writers : In(v)' <=> In(v)
    BY <1>3 DEF WriterSignal, WriterWait, In, mb
  <2>. QED
    BY <1>3, <2>1 DEF WriterSignal, WriterWait, CallInv
<1>4. ASSUME NEW r \in Readers,
             \/ \E t \in BOOLEAN : ReadMultiBuffer(r, t)
             \/ readMultiBufferInternal(r)
             \/ ReaderSignal(r)
             \/ ReaderWait(r)
      PROVE  CallInv'
  <2>1. /\ UNCHANGED <<size, nwrites, accepted>>
        /\ \A v \in Writers : In(v)' <=> In(v)
    BY <1>4 DEF ReadMultiBuffer, readMultiBufferInternal, ReaderSignal, ReaderWait,
                In, mb
  <2>2. \A w \in Writers : pc'[w] = pc[w] /\ result'[w] = result[w]
    BY <1>4 DEF ReadMultiBuffer, readMultiBufferInternal, ReaderSignal, ReaderWait
  <2>3. \A q \in Readers : pc'[q] \in {"idle", "read", "got", "empty"}
    BY <1>4 DEF ReadMultiBuffer, readMultiBufferInternal, ReaderSignal, ReaderWait,
                CallInv
  <2>. QED
    BY <2>1, <2>2, <2>3 DEF CallInv
<1>5. CASE Close \/ Interrupt \/ UNCHANGED vars
  <2>1. /\ UNCHANGED <<pc, result, size, nwrites, accepted>>
        /\ \A v \in Writers : In(v)' <=> In(v)
    BY <1>5 DEF Close, Interrupt, vars, In, mb
  <2>. QED
    BY <2>1 DEF CallInv
<1>. QED
  BY <1>1, <1>2, <1>3, <1>4, <1>5 DEF Next, WriterStep, ReaderStep

\* done is closed exactly when the pipe leaves the open state, and the data a
\* reader saw the end of never comes back.
LEMMA StateStep ==
  ASSUME TypeOK, CallInv, StateInv, [Next]_vars
  PROVE  StateInv'
<1> USE PipeAssumption DEF TypeOK, StateInv
<1>1. ASSUME NEW w \in Writers, NEW n \in Sizes, WriteMultiBuffer(w, n)
      PROVE  StateInv'
  BY <1>1 DEF WriteMultiBuffer
<1>2. ASSUME NEW w \in Writers, writeMultiBufferInternal(w)
      PROVE  StateInv'
  <2>1. CASE getState(FALSE) = "nil"
    <3>1. state = "open"
      BY <2>1 DEF getState
    <3>2. UNCHANGED <<state, done, result>>
      BY <1>2, <2>1 DEF writeMultiBufferInternal
    <3>. QED
      BY <3>1, <3>2
  <2>2. CASE getState(FALSE) # "nil"
    <3>1. UNCHANGED <<state, done, data>>
      BY <1>2, <2>2 DEF writeMultiBufferInternal
    <3>2. \A r \in Readers : result'[r] = result[r]
      BY <1>2, <2>2 DEF writeMultiBufferInternal
    <3>. QED
      BY <3>1, <3>2
  <2>. QED
    BY <2>1, <2>2
<1>3. ASSUME NEW w \in Writers, WriterSignal(w) \/ WriterWait(w)
      PROVE  StateInv'
  BY <1>3 DEF WriterSignal, WriterWait
<1>4. ASSUME NEW r \in Readers, NEW t \in BOOLEAN, ReadMultiBuffer(r, t)
      PROVE  StateInv'
  BY <1>4 DEF ReadMultiBuffer
<1>5. ASSUME NEW r \in Readers, readMultiBufferInternal(r)
      PROVE  StateInv'
  <2>1. getState(TRUE) = "EOF" => state = "closed" /\ data = <<>>
    BY DEF getState
  <2>2. UNCHANGED <<state, done>>
    BY <1>5 DEF readMultiBufferInternal
  <2>3. data = <<>> => data' = <<>>
    BY <1>5 DEF readMultiBufferInternal
  <2>4. \A q \in Readers : result'[q] = "EOF" => result[q] = "EOF" \/ getState(TRUE) = "EOF"
    BY <1>5 DEF readMultiBufferInternal
  <2>. QED
    BY <2>1, <2>2, <2>3, <2>4
<1>6. ASSUME NEW r \in Readers, ReaderSignal(r) \/ ReaderWait(r)
      PROVE  StateInv'
  BY <1>6 DEF ReaderSignal, ReaderWait
<1>7. CASE Close \/ Interrupt
  BY <1>7 DEF Close, Interrupt
<1>8. CASE UNCHANGED vars
  BY <1>8 DEF vars
<1>. QED
  BY <1>1, <1>2, <1>3, <1>4, <1>5, <1>6, <1>7, <1>8
  DEF Next, WriterStep, ReaderStep

\* Only an interrupt can separate what was accepted from what was handed out
\* and what is buffered.
LEMMA LostStep ==
  ASSUME TypeOK, CallInv, NothingLost, [Next]_vars
  PROVE  NothingLost'
<1> USE PipeAssumption DEF TypeOK, NothingLost
<1>1. CASE UNCHANGED <<data, accepted, taken>> /\ (state' # "errord" => state # "errord")
  BY <1>1
<1>2. ASSUME NEW w \in Writers, writeMultiBufferInternal(w)
      PROVE  NothingLost'
  <2>1. CASE getState(FALSE) = "nil"
    <3>1. state = "open" /\ mb(w) \in MultiBuffer
      BY <1>2, <2>1, MbType DEF getState, writeMultiBufferInternal
    <3>2. data' = Append(data, mb(w)) /\ accepted' = Append(accepted, mb(w))
          /\ taken' = taken
      BY <1>2, <2>1 DEF writeMultiBufferInternal
    <3>3. Append(taken \o data, mb(w)) = taken \o Append(data, mb(w))
      <4>1. taken \o data \in Seq(MultiBuffer) /\ <<mb(w)>> \in Seq(MultiBuffer)
        BY <3>1
      <4>2. Append(taken \o data, mb(w)) = (taken \o data) \o <<mb(w)>>
        BY <3>1, <4>1, AppendIsConcat
      <4>3. Append(data, mb(w)) = data \o <<mb(w)>>
        BY <3>1, AppendIsConcat
      <4>4. (taken \o data) \o <<mb(w)>> = taken \o (data \o <<mb(w)>>)
        BY <4>1, ConcatAssociative
      <4>. QED
        BY <4>2, <4>3, <4>4
    <3>. QED
      BY <3>1, <3>2, <3>3
  <2>2. CASE getState(FALSE) # "nil"
    BY <1>1, <1>2, <2>2 DEF writeMultiBufferInternal
  <2>. QED
    BY <2>1, <2>2
<1>3. ASSUME NEW r \in Readers, readMultiBufferInternal(r)
      PROVE  NothingLost'
  <2>1. CASE UNCHANGED <<data, taken>>
    BY <1>1, <1>3, <2>1 DEF readMultiBufferInternal
  <2>2. CASE taken' = taken \o data /\ data' = <<>>
    <3>1. taken \o data \in Seq(MultiBuffer)
      OBVIOUS
    <3>2. (taken \o data) \o <<>> = taken \o data
      BY <3>1
    <3>. QED
      BY <1>3, <2>2, <3>2 DEF readMultiBufferInternal
  <2>. QED
    BY <1>3, <2>1, <2>2 DEF readMultiBufferInternal
<1>4. ASSUME NEW w \in Writers,
             (\E n \in Sizes : WriteMultiBuffer(w, n)) \/ WriterSignal(w) \/ WriterWait(w)
      PROVE  NothingLost'
  BY <1>1, <1>4 DEF WriteMultiBuffer, WriterSignal, WriterWait
<1>5. ASSUME NEW r \in Readers,
             (\E t \in BOOLEAN : ReadMultiBuffer(r, t)) \/ ReaderSignal(r) \/ ReaderWait(r)
      PROVE  NothingLost'
  BY <1>1, <1>5 DEF ReadMultiBuffer, ReaderSignal, ReaderWait
<1>6. CASE Close \/ UNCHANGED vars
  BY <1>1, <1>6 DEF Close, vars
<1>7. CASE Interrupt
  BY <1>7 DEF Interrupt
<1>. QED
  BY <1>2, <1>3, <1>4, <1>5, <1>6, <1>7 DEF Next, WriterStep, ReaderStep

\* A reader is never left in its select while data waits for it.
LEMMA ReaderStrandedStep ==
  ASSUME TypeOK, CallInv, StateInv, NoReaderStranded, [Next]_vars
  PROVE  NoReaderStranded'
<1> USE PipeAssumption DEF TypeOK, NoReaderStranded
<1>1. ASSUME NEW w \in Writers, NEW n \in Sizes, WriteMultiBuffer(w, n)
      PROVE  NoReaderStranded'
  BY <1>1 DEF WriteMultiBuffer
<1>2. ASSUME NEW w \in Writers, writeMultiBufferInternal(w)
      PROVE  NoReaderStranded'
  <2>1. CASE getState(FALSE) = "nil"
    BY <1>2, <2>1 DEF writeMultiBufferInternal
  <2>2. CASE getState(FALSE) # "nil"
    <3>1. UNCHANGED <<data, done, readSignal>> /\ pc[w] = "write"
      BY <1>2, <2>2 DEF writeMultiBufferInternal
    <3>2. \A p \in (Writers \cup Readers) \ {w} : pc'[p] = pc[p]
      BY <1>2, <2>2 DEF writeMultiBufferInternal
    <3>. QED
      BY <3>1, <3>2
  <2>. QED
    BY <2>1, <2>2
<1>3. ASSUME NEW w \in Writers, WriterSignal(w) \/ WriterWait(w)
      PROVE  NoReaderStranded'
  BY <1>3 DEF WriterSignal, WriterWait
<1>4. ASSUME NEW r \in Readers, NEW t \in BOOLEAN, ReadMultiBuffer(r, t)
      PROVE  NoReaderStranded'
  BY <1>4 DEF ReadMultiBuffer
<1>5. ASSUME NEW r \in Readers, readMultiBufferInternal(r)
      PROVE  NoReaderStranded'
  <2>1. getState(TRUE) # "nil" => done
    BY DEF getState, StateInv
  <2>2. data' = <<>> \/ done'
    BY <1>5, <2>1 DEF readMultiBufferInternal
  <2>. QED
    BY <2>2
<1>6. ASSUME NEW r \in Readers, ReaderSignal(r) \/ ReaderWait(r)
      PROVE  NoReaderStranded'
  <2>1. CASE ReaderSignal(r)
    BY <2>1 DEF ReaderSignal
  <2>2. CASE ReaderWait(r)
    <3>1. CASE pc' = [pc EXCEPT ![r] = "read"]
      BY <3>1
    <3>2. CASE pc' = [pc EXCEPT ![r] = "idle"] /\ UNCHANGED readSignal
      BY <2>2, <3>2 DEF ReaderWait
    <3>. QED
      BY <2>2, <3>1, <3>2 DEF ReaderWait
  <2>. QED
    BY <1>6, <2>1, <2>2
<1>7. CASE Close \/ Interrupt
  BY <1>7 DEF Close, Interrupt
<1>8. CASE UNCHANGED vars
  BY <1>8 DEF vars
<1>. QED
  BY <1>1, <1>2, <1>3, <1>4, <1>5, <1>6, <1>7, <1>8
  DEF Next, WriterStep, ReaderStep

\* An empty buffer has length 0 and so is never full.
LEMMA EmptyNotFull ==
  ~isFull(<<>>)
<1> DEFINE F == [i \in 0..0 |-> 0]
           P(sum) == sum = [i \in 0..0 |->
                              IF i = 0 THEN 0 ELSE sum[i - 1] + <<>>[i].size]
<1>1. F = [i \in 0..0 |-> IF i = 0 THEN 0 ELSE F[i - 1] + <<>>[i].size]
  OBVIOUS
<1>2. P(CHOOSE sum : P(sum))
  <2>1. \E sum : P(sum)
    BY <1>1
  <2>. QED
    BY <2>1, Zenon
<1>3. (CHOOSE sum : P(sum))[0] = 0
  BY <1>2, SMT
<1>4. Len(<<>>) = 0
  OBVIOUS
<1>5. Len32(<<>>) = (CHOOSE sum : P(sum))[0]
  BY <1>4 DEF Len32
<1>. QED
  BY <1>3, <1>5, PipeAssumption DEF isFull

\* A writer is never left in its select once the buffer has been drained.
LEMMA WriterStrandedStep ==
  ASSUME TypeOK, CallInv, StateInv, NoWriterStranded, [Next]_vars
  PROVE  NoWriterStranded'
<1> USE PipeAssumption DEF TypeOK, NoWriterStranded
<1>1. ASSUME NEW w \in Writers, NEW n \in Sizes, WriteMultiBuffer(w, n)
      PROVE  NoWriterStranded'
  BY <1>1 DEF WriteMultiBuffer
<1>2. ASSUME NEW w \in Writers, writeMultiBufferInternal(w)
      PROVE  NoWriterStranded'
  <2>1. CASE getState(FALSE) = "nil"
    <3>1. data' = Append(data, mb(w)) /\ mb(w) \in MultiBuffer
      BY <1>2, <2>1, MbType DEF writeMultiBufferInternal
    <3>2. data' # <<>>
      BY <3>1, AppendProperties
    <3>. QED
      BY <3>2
  <2>2. CASE getState(FALSE) = "full"
    <3>1. data # <<>> /\ data' = data
      BY <1>2, <2>2, EmptyNotFull DEF writeMultiBufferInternal, getState
    <3>. QED
      BY <3>1
  <2>3. CASE getState(FALSE) \notin {"nil", "full"}
    <3>1. done' = done /\ done
      BY <1>2, <2>3 DEF writeMultiBufferInternal, getState, StateInv
    <3>. QED
      BY <3>1
  <2>. QED
    BY <2>1, <2>2, <2>3
<1>3. ASSUME NEW w \in Writers, WriterSignal(w)
      PROVE  NoWriterStranded'
  BY <1>3 DEF WriterSignal
<1>4. ASSUME NEW w \in Writers, WriterWait(w)
      PROVE  NoWriterStranded'
  <2>1. CASE pc' = [pc EXCEPT ![w] = "write"]
    BY <2>1
  <2>2. CASE done /\ UNCHANGED done
    BY <2>2
  <2>. QED
    BY <1>4, <2>1, <2>2 DEF WriterWait
<1>5. ASSUME NEW r \in Readers, NEW t \in BOOLEAN, ReadMultiBuffer(r, t)
      PROVE  NoWriterStranded'
  BY <1>5 DEF ReadMultiBuffer
<1>6. ASSUME NEW r \in Readers, readMultiBufferInternal(r)
      PROVE  NoWriterStranded'
  <2>1. CASE pc' = [pc EXCEPT ![r] = "got"]
    BY <2>1
  <2>2. CASE pc' = [pc EXCEPT ![r] = "empty"] /\ data' = data
    <3>1. \A p \in (Writers \cup Readers) \ {r} : pc'[p] = pc[p]
      BY <2>2
    <3>2. pc[r] = "read" /\ UNCHANGED <<writeSignal, done>>
      BY <1>6 DEF readMultiBufferInternal
    <3>. QED
      BY <2>2, <3>1, <3>2
  <2>. QED
    BY <1>6, <2>1, <2>2 DEF readMultiBufferInternal
<1>7. ASSUME NEW r \in Readers, ReaderSignal(r) \/ ReaderWait(r)
      PROVE  NoWriterStranded'
  BY <1>7 DEF ReaderSignal, ReaderWait
<1>8. CASE Close \/ Interrupt
  BY <1>8 DEF Close, Interrupt
<1>9. CASE UNCHANGED vars
  BY <1>9 DEF vars
<1>. QED
  BY <1>1, <1>2, <1>3, <1>4, <1>5, <1>6, <1>7, <1>8, <1>9
  DEF Next, WriterStep, ReaderStep

\* Only the last MultiBuffer may exceed the limit.
LEMMA OvershootStep ==
  ASSUME TypeOK, CallInv, BoundedOvershoot, [Next]_vars
  PROVE  BoundedOvershoot'
<1> USE DEF TypeOK, BoundedOvershoot
<1>1. CASE UNCHANGED data
  BY <1>1 DEF isFull, Len32
<1>2. CASE data' = <<>>
  BY <1>2
<1>3. ASSUME NEW w \in Writers, writeMultiBufferInternal(w),
             getState(FALSE) = "nil"
      PROVE  BoundedOvershoot'
  <2>1. data' = Append(data, mb(w)) /\ mb(w) \in MultiBuffer
    BY <1>3, MbType DEF writeMultiBufferInternal
  <2>2. ~isFull(data)
    BY <1>3 DEF getState
  <2>3. SubSeq(data', 1, Len(data') - 1) = data
    BY <2>1
  <2>. QED
    BY <2>2, <2>3 DEF isFull, Len32
<1>4. ASSUME NEW w \in Writers, WriterStep(w)
      PROVE  BoundedOvershoot'
  BY <1>1, <1>3, <1>4
  DEF WriterStep, writeMultiBufferInternal, WriterSignal, WriterWait
<1>5. ASSUME NEW r \in Readers, ReaderStep(r)
      PROVE  BoundedOvershoot'
  BY <1>1, <1>2, <1>5
  DEF ReaderStep, readMultiBufferInternal, ReaderSignal, ReaderWait
<1>6. CASE Close \/ Interrupt \/ UNCHANGED vars
  BY <1>1, <1>2, <1>6 DEF Close, Interrupt, vars
<1>. QED
  BY <1>1, <1>4, <1>5, <1>6 DEF Next, WriteMultiBuffer, ReadMultiBuffer

\* What a finished write reported stays true of the stream.
LEMMA TruthfulStep ==
  ASSUME TypeOK, CallInv, TruthfulWrite, [Next]_vars
  PROVE  TruthfulWrite'
<1> USE PipeAssumption DEF TypeOK
<1>0. TruthfulWrite <=>
        \A v \in Writers : /\ result[v] = "ok" => In(v)
                           /\ result[v] \in {"ErrClosedPipe", "discarded"} => ~In(v)
  BY DEF TruthfulWrite, In
<1>1. TruthfulWrite' <=>
        \A v \in Writers : /\ result'[v] = "ok" => In(v)'
                           /\ result'[v] \in {"ErrClosedPipe", "discarded"} => ~In(v)'
  BY DEF TruthfulWrite, In
<1>2. ASSUME NEW w \in Writers, NEW n \in Sizes, WriteMultiBuffer(w, n)
      PROVE  TruthfulWrite'
  <2>1. \A v \in Writers \ {w} : In(v)' <=> In(v)
    BY <1>2 DEF WriteMultiBuffer, In, mb
  <2>. QED
    BY <1>0, <1>1, <1>2, <2>1 DEF WriteMultiBuffer
<1>3. ASSUME NEW w \in Writers, writeMultiBufferInternal(w)
      PROVE  TruthfulWrite'
  <2>1. pc[w] = "write" /\ UNCHANGED <<size, nwrites>>
    BY <1>3 DEF writeMultiBufferInternal
  <2>2. CASE getState(FALSE) = "nil"
    <3>1. accepted' = Append(accepted, mb(w)) /\ UNCHANGED result
      BY <1>3, <2>2 DEF writeMultiBufferInternal
    <3>2. \A v \in Writers \ {w} : In(v)' <=> In(v)
      BY <2>1, <3>1, InAppend
    <3>3. result[w] = "none"
      BY <2>1 DEF CallInv
    <3>. QED
      BY <1>0, <1>1, <3>1, <3>2, <3>3
  <2>3. CASE getState(FALSE) # "nil"
    <3>1. \A v \in Writers : In(v)' <=> In(v)
      BY <1>3, <2>1, <2>3 DEF writeMultiBufferInternal, In, mb
    <3>2. ~In(w)
      BY <2>1 DEF CallInv
    <3>3. \A v \in Writers \ {w} : result'[v] = result[v]
      BY <1>3, <2>3 DEF writeMultiBufferInternal
    <3>4. result'[w] # "ok"
      <4>1. result[w] = "none"
        BY <2>1 DEF CallInv
      <4>. QED
        BY <1>3, <2>3, <4>1 DEF writeMultiBufferInternal
    <3>. QED
      BY <1>0, <1>1, <3>1, <3>2, <3>3, <3>4
  <2>. QED
    BY <2>2, <2>3
<1>4. ASSUME NEW w \in Writers, WriterSignal(w) \/ WriterWait(w)
      PROVE  TruthfulWrite'
  <2>1. \A v \in Writers : In(v)' <=> In(v)
    BY <1>4 DEF WriterSignal, WriterWait, In, mb
  <2>2. /\ pc[w] = "wrote" => In(w)
        /\ pc[w] \in {"refused", "full"} => ~In(w)
    BY DEF CallInv
  <2>. QED
    BY <1>0, <1>1, <1>4, <2>1, <2>2 DEF WriterSignal, WriterWait
<1>5. CASE (\A v \in Writers : result'[v] = result[v])
           /\ UNCHANGED <<size, nwrites, accepted>>
  <2>1. \A v \in Writers : In(v)' <=> In(v)
    BY <1>5 DEF In, mb
  <2>. QED
    BY <1>0, <1>1, <1>5, <2>1
<1>6. ASSUME NEW r \in Readers,
             \/ \E t \in BOOLEAN : ReadMultiBuffer(r, t)
             \/ readMultiBufferInternal(r)
             \/ ReaderSignal(r)
             \/ ReaderWait(r)
      PROVE  TruthfulWrite'
  <2>1. UNCHANGED <<size, nwrites, accepted>>
    BY <1>6 DEF ReadMultiBuffer, readMultiBufferInternal, ReaderSignal, ReaderWait
  <2>2. result' = [result EXCEPT ![r] = result'[r]]
    BY <1>6 DEF ReadMultiBuffer, readMultiBufferInternal, ReaderSignal, ReaderWait
  <2>3. \A v \in Writers : v # r
    OBVIOUS
  <2>. QED
    BY <1>5, <2>1, <2>2, <2>3
<1>7. CASE Close \/ Interrupt \/ UNCHANGED vars
  BY <1>5, <1>7 DEF Close, Interrupt, vars
<1>. QED
  BY <1>2, <1>3, <1>4, <1>6, <1>7 DEF Next, WriterStep, ReaderStep

\* A new pipe satisfies the invariant.
LEMMA InitInv ==
  Init => IInv
<1> SUFFICES ASSUME Init PROVE IInv
  OBVIOUS
<1>1. TypeOK
  <2>1. <<>> \in Seq(MultiBuffer)
    OBVIOUS
  <2>2. timed \in [Readers -> BOOLEAN]
    BY Zenon DEF Init
  <2>3. /\ data \in Seq(MultiBuffer) /\ accepted \in Seq(MultiBuffer)
        /\ taken \in Seq(MultiBuffer)
    BY <2>1 DEF Init, New
  <2>4. size \in [Writers -> Sizes \cup {0}] /\ nwrites \in [Writers -> 0..MaxWrites]
    BY PipeAssumption DEF Init
  <2>5. /\ state \in {"open", "closed", "errord"}
        /\ readSignal \in BOOLEAN /\ writeSignal \in BOOLEAN /\ done \in BOOLEAN
    BY DEF Init, New
  <2>. QED
    BY <2>2, <2>3, <2>4, <2>5, Zenon DEF Init, TypeOK
<1>2. CallInv /\ StateInv
  BY PipeAssumption DEF Init, New, CallInv, StateInv
<1>3. NothingLost /\ NoReaderStranded /\ NoWriterStranded /\ BoundedOvershoot
  BY PipeAssumption
  DEF Init, New, NothingLost, NoReaderStranded, NoWriterStranded, BoundedOvershoot
<1>4. TruthfulWrite
  BY DEF Init, TruthfulWrite
<1>. QED
  BY <1>1, <1>2, <1>3, <1>4 DEF IInv

\* The inductive invariant holds in every reachable state of the pipe.
THEOREM Invariance ==
  Spec => []IInv
<1>1. IInv /\ [Next]_vars => IInv'
  BY TypeStep, CallStep, StateStep, LostStep, ReaderStrandedStep,
     WriterStrandedStep, OvershootStep, TruthfulStep DEF IInv
<1>. QED
  BY InitInv, <1>1, PTL DEF Spec

\* The fields of the pipe keep their types, whatever its users do.
THEOREM TypeCorrect ==
  Spec => []TypeOK
<1>1. IInv => TypeOK
  BY DEF IInv
<1>. QED
  BY Invariance, <1>1, PTL

\* Data leaves the pipe only towards a reader or through Interrupt.
THEOREM NothingIsLost ==
  Spec => []NothingLost
<1>1. IInv => NothingLost
  BY DEF IInv
<1>. QED
  BY Invariance, <1>1, PTL

\* One-slot notifiers are enough: no wake-up of a blocked reader or of a
\* blocked writer is ever lost, for any number of both.
THEOREM NobodyStranded ==
  Spec => []NoneStranded
<1>1. IInv => NoneStranded
  BY DEF IInv, NoneStranded
<1>. QED
  BY Invariance, <1>1, PTL

\* However many writers race, at most one MultiBuffer lies beyond the limit.
THEOREM OvershootIsBounded ==
  Spec => []BoundedOvershoot
<1>1. IInv => BoundedOvershoot
  BY DEF IInv
<1>. QED
  BY Invariance, <1>1, PTL

\* The error a write returns tells whether its data is in the stream.
THEOREM WritesAreTruthful ==
  Spec => []TruthfulWrite
<1>1. IInv => TruthfulWrite
  BY DEF IInv
<1>. QED
  BY Invariance, <1>1, PTL

\* A reader sees io.EOF only after all accepted data has been handed out.
THEOREM EOFIsEnd ==
  Spec => []EOFMeansDrained
<1>1. IInv => EOFMeansDrained
  <2> SUFFICES ASSUME IInv, NEW r \in Readers, result[r] = "EOF"
               PROVE  state = "closed" /\ taken = accepted
    BY DEF EOFMeansDrained
  <2>1. state = "closed" /\ data = <<>> /\ accepted = taken \o data
    BY DEF IInv, StateInv, NothingLost
  <2>2. taken \in Seq(MultiBuffer)
    BY DEF IInv, TypeOK
  <2>. QED
    BY <2>1, <2>2, ConcatEmptySeq
<1>. QED
  BY Invariance, <1>1, PTL

\* What reads and writes return and what is in the pipe agree.
THEOREM ResultsAreTruthful ==
  Spec => []Truthful
<1>1. NothingLost /\ TruthfulWrite /\ EOFMeansDrained => Truthful
  BY DEF Truthful
<1>. QED
  BY NothingIsLost, WritesAreTruthful, EOFIsEnd, <1>1, PTL

\* The pipe implements the abstract conduit: a write that appends is a Send, a
\* read that takes the buffer a Receive of everything accepted so far, Close
\* and Interrupt are End, and every other step leaves the conduit as it is.
THEOREM PipeIsStream ==
  Spec => ImplementsStream
<1> USE DEF S!vars
<1>1. Init => S!Init
  BY DEF Init, New, S!Init
<1>2. ASSUME IInv, [Next]_vars
      PROVE  [S!Next]_(S!vars)
  <2>0. TypeOK /\ CallInv /\ NothingLost
    BY <1>2 DEF IInv
  <2>1. ASSUME NEW w \in Writers, writeMultiBufferInternal(w)
        PROVE  [S!Next]_(S!vars)
    <3>1. CASE getState(FALSE) = "nil"
      <4>0. pc[w] = "write" /\ state = "open"
        BY <2>0, <2>1, <3>1 DEF getState, writeMultiBufferInternal, TypeOK
      <4>1. mb(w) \in MultiBuffer
        BY <2>0, <4>0, MbType
      <4>2. accepted' = Append(accepted, mb(w)) /\ UNCHANGED <<state, taken>>
        BY <2>1, <3>1 DEF writeMultiBufferInternal
      <4>. QED
        BY <4>0, <4>1, <4>2 DEF S!Next, S!Send
    <3>2. CASE getState(FALSE) # "nil"
      BY <2>1, <3>2 DEF writeMultiBufferInternal
    <3>. QED
      BY <3>1, <3>2
  <2>2. ASSUME NEW r \in Readers, readMultiBufferInternal(r)
        PROVE  [S!Next]_(S!vars)
    <3>1. UNCHANGED <<state, accepted>>
      BY <2>2 DEF readMultiBufferInternal
    <3>2. CASE taken' = taken
      BY <3>1, <3>2
    <3>3. CASE getState(TRUE) = "nil" /\ data # <<>> /\ taken' = taken \o data
      <4>0. state # "errord"
        BY <2>0, <3>3 DEF getState
      <4>1. taken' = accepted /\ accepted = taken \o data
        BY <2>0, <3>3, <4>0 DEF NothingLost
      <4>2. /\ Len(accepted) \in Len(taken) + 1 .. Len(accepted)
            /\ SubSeq(accepted, 1, Len(accepted)) = accepted
        <5>1. taken \in Seq(MultiBuffer) /\ data \in Seq(MultiBuffer)
          BY <2>0 DEF TypeOK
        <5>2. Len(data) # 0 /\ Len(accepted) = Len(taken) + Len(data)
          BY <3>3, <4>1, <5>1
        <5>3. accepted \in Seq(MultiBuffer)
          BY <2>0 DEF TypeOK
        <5>. QED
          BY <5>1, <5>2, <5>3, SubSeqFull
      <4>. QED
        BY <3>1, <4>1, <4>2 DEF S!Next, S!Receive
    <3>. QED
      BY <2>2, <3>2, <3>3 DEF readMultiBufferInternal
  <2>3. CASE Close \/ Interrupt
    BY <2>3 DEF Close, Interrupt, S!Next, S!End
  <2>4. CASE UNCHANGED <<state, accepted, taken>>
    BY <2>4
  <2>. QED
    BY <1>2, <2>1, <2>2, <2>3, <2>4
    DEF Next, WriterStep, ReaderStep, WriteMultiBuffer, WriterSignal, WriterWait,
        ReadMultiBuffer, ReaderSignal, ReaderWait, vars
<1>. QED
  BY <1>1, <1>2, Invariance, PTL DEF Spec, ImplementsStream, S!Spec
=============================================================================
