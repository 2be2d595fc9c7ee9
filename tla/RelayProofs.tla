----------------------------- MODULE RelayProofs -----------------------------
(***************************************************************************)
(* Proofs about Relay for any numbers of chunks and any limit of the pipes: *)
(* types, the ends of the pipes and of the two Process calls, and that     *)
(* both directions implement Stream.  And about the ActivityTimer that     *)
(* cancels such a connection, for any callers and any number of tasks.     *)
(***************************************************************************)
EXTENDS Relay, ActivityTimer, SequenceTheorems, TLAPS

Chunks == Seq(Nat \ {0})

(* Prefixes. *)

\* p is what s begins with.
Prefix(p, s) == \E n \in 0 .. Len(s) : p = SubSeq(s, 1, n)

\* The empty sequence is neutral.
LEMMA ConcatEmpty ==
  ASSUME NEW a \in Chunks
  PROVE  a \o <<>> = a /\ <<>> \o a = a
BY ConcatEmptySeq DEF Chunks

\* Concatenation stays within the chunks, ...
LEMMA ConcatIn == \A a, b \in Chunks : a \o b \in Chunks
BY ConcatProperties DEF Chunks

\* ... and is associative.
LEMMA ConcatAssoc == \A a, b, c \in Chunks : (a \o b) \o c = a \o (b \o c)
<1> TAKE a, b, c \in Chunks
<1>1. a \in Seq(Nat \ {0}) /\ b \in Seq(Nat \ {0}) /\ c \in Seq(Nat \ {0})
  BY DEF Chunks
<1>. QED
  BY <1>1, ConcatAssociative

\* It is also for more parts.
LEMMA ConcatFour ==
  \A a, b, c, d, e \in Chunks : a \o (b \o (c \o (d \o e))) = (a \o (b \o (c \o d))) \o e
<1> TAKE a, b, c, d, e \in Chunks
<1>1. c \o d \in Chunks /\ b \o (c \o d) \in Chunks
  BY ConcatIn
<1>2. (c \o d) \o e = c \o (d \o e)
  BY ConcatAssoc
<1>3. \A x \in Chunks : (b \o x) \o e = b \o (x \o e)
  BY ConcatAssoc
<1>4. \A x \in Chunks : (a \o x) \o e = a \o (x \o e)
  BY ConcatAssoc
<1>. QED
  BY <1>1, <1>2, <1>3, <1>4, Zenon

\* A sequence begins with itself and with each part it is put together from.
LEMMA PrefixOfConcat ==
  ASSUME NEW a \in Chunks, NEW b \in Chunks
  PROVE  Prefix(a, a \o b) /\ Prefix(a, a)
<1>1. ASSUME NEW t \in Chunks PROVE Prefix(a, a \o t)
  <2>1. a \o t \in Chunks /\ Len(a \o t) = Len(a) + Len(t) /\ Len(a) \in Nat /\ Len(t) \in Nat
    BY DEF Chunks
  <2>2. SubSeq(a \o t, 1, Len(a)) = a
    BY <2>1 DEF Chunks
  <2>3. Len(a) \in 0 .. Len(a \o t)
    BY <2>1
  <2>. QED
    BY <2>2, <2>3, Zenon DEF Prefix
<1>2. <<>> \in Chunks
  BY DEF Chunks
<1>. QED
  BY <1>1, <1>2, ConcatEmpty

\* A part of a prefix is a prefix.
LEMMA PrefixShrinks ==
  ASSUME NEW a \in Chunks, NEW b \in Chunks, NEW s \in Chunks, Prefix(a \o b, s)
  PROVE  Prefix(a, s)
<1>1. PICK n \in 0 .. Len(s) : a \o b = SubSeq(s, 1, n)
  BY DEF Prefix
<1>2. /\ Len(a) \in Nat /\ Len(b) \in Nat /\ Len(s) \in Nat
      /\ Len(a \o b) = Len(a) + Len(b) /\ Len(SubSeq(s, 1, n)) = n
  BY DEF Chunks
<1>3. Len(a) \in 0 .. Len(s) /\ Len(a) <= n
  BY <1>1, <1>2
<1>4. \A i \in 1 .. Len(a) : a[i] = s[i]
  <2>1. \A i \in 1 .. Len(a) : a[i] = (a \o b)[i]
    BY DEF Chunks
  <2>2. \A i \in 1 .. Len(a) : SubSeq(s, 1, n)[i] = s[i]
    BY <1>2, <1>3 DEF Chunks
  <2>. QED
    BY <1>1, <2>1, <2>2
<1>5. a = SubSeq(s, 1, Len(a))
  <2>1. /\ SubSeq(s, 1, Len(a)) \in Chunks /\ Len(SubSeq(s, 1, Len(a))) = Len(a)
        /\ \A i \in 1 .. Len(a) : SubSeq(s, 1, Len(a))[i] = s[i]
    BY <1>2, <1>3 DEF Chunks
  <2>. QED
    BY <1>4, <2>1, SeqEqual DEF Chunks
<1>. QED
  BY <1>3, <1>5 DEF Prefix

\* What a sequence begins with, it begins with when it has grown.
LEMMA PrefixGrows ==
  ASSUME NEW a \in Chunks, NEW s \in Chunks, NEW m \in Nat \ {0}, Prefix(a, s)
  PROVE  Prefix(a, Append(s, m))
<1>1. PICK n \in 0 .. Len(s) : a = SubSeq(s, 1, n)
  BY DEF Prefix
<1>2. Append(s, m) \in Chunks /\ Len(Append(s, m)) = Len(s) + 1 /\ Len(s) \in Nat
  BY DEF Chunks
<1>3. SubSeq(Append(s, m), 1, n) = SubSeq(s, 1, n)
  <2>1. /\ Len(SubSeq(s, 1, n)) = n /\ Len(SubSeq(Append(s, m), 1, n)) = n
        /\ SubSeq(s, 1, n) \in Chunks /\ SubSeq(Append(s, m), 1, n) \in Chunks
    BY <1>2 DEF Chunks
  <2>2. \A i \in 1 .. n : SubSeq(Append(s, m), 1, n)[i] = SubSeq(s, 1, n)[i]
    BY <1>2 DEF Chunks
  <2>. QED
    BY <2>1, <2>2, SeqEqual DEF Chunks
<1>. QED
  BY <1>1, <1>2, <1>3 DEF Prefix
-----------------------------------------------------------------------------
(* Types and control. *)

Hands == [fetch : Chunks, deliver : Chunks]
Pipes == [data : Chunks, state : {"open", "closed", "errord"}]

\* TypeOK with a name for the sequences of chunks
Types ==
    /\ sent \in [Side -> Chunks] /\ got \in [Side -> Chunks]
    /\ fin \in [Side -> BOOLEAN]
    /\ conn \in [Side -> {"none", "open", "reset", "closed"}]
    /\ inbox \in [Side -> Chunks] /\ cache \in Chunks
    /\ pipe \in [Side -> Pipes]
    /\ fetch \in [Side -> {"none", "read", "write", "eof", "done", "err"}]
    /\ deliver \in [Side -> {"none", "read", "write", "done", "err"}]
    /\ hand \in [Side -> Hands]
    /\ proc \in [Side -> {"sniff", "route", "dial", "run", "failed", "passed",
                          "returned"}]
    /\ cancelled \in [Side -> BOOLEAN] /\ timedOut \in [Side -> BOOLEAN]
    /\ settled \in [Side -> SUBSET Tasks] /\ stuck \in [Side -> BOOLEAN]
    /\ conn.out = "none" <=> fetch.out = "none"

\* That is what it is.
LEMMA TypesAreTypes == TypeOK <=> Types
BY DEF TypeOK, Types, Chunks, Hands, Pipes

\* A record of the two sides is a function on them.
LEMMA BothSides ==
  ASSUME NEW a, NEW b, NEW S, a \in S, b \in S
  PROVE  /\ [in |-> a, out |-> b] \in [Side -> S]
         /\ [in |-> a, out |-> b]["in"] = a /\ [in |-> a, out |-> b]["out"] = b
<1>1. [in |-> a, out |-> b] = [s \in Side |-> IF s = "in" THEN a ELSE b]
  BY DEF Side
<1>. QED
  BY <1>1 DEF Side

\* The operations on pipes make pipes.
LEMMA PipeOps ==
  ASSUME NEW p \in Pipes
  PROVE  CloseW(p) \in Pipes /\ Interrupted(p) \in Pipes
<1>1. <<>> \in Chunks
  BY DEF Chunks
<1>. QED
  BY <1>1 DEF CloseW, Interrupted, Pipes

\* What a task has in its hand changes, and what it has in the other does not.
LEMMA HandChanges ==
  ASSUME hand \in [Side -> Hands], NEW s \in Side, NEW c \in Chunks
  PROVE  /\ [hand EXCEPT ![s].fetch = c] \in [Side -> Hands]
         /\ [hand EXCEPT ![s].deliver = c] \in [Side -> Hands]
<1>1. hand[s] \in Hands
  OBVIOUS
<1>2. /\ [hand[s] EXCEPT !.fetch = c] \in Hands
      /\ [hand[s] EXCEPT !.deliver = c] \in Hands
  BY <1>1 DEF Hands
<1>. QED
  BY <1>2

\* The content of a pipe changes.
LEMMA PipeChanges ==
  ASSUME pipe \in [Side -> Pipes], NEW s \in Side, NEW c \in Chunks
  PROVE  [pipe EXCEPT ![s].data = c] \in [Side -> Pipes]
<1>1. pipe[s] \in Pipes
  OBVIOUS
<1>2. [pipe[s] EXCEPT !.data = c] \in Pipes
  BY <1>1 DEF Pipes
<1>. QED
  BY <1>2

\* Every step preserves the types.
LEMMA TypeStep ==
  ASSUME Types, [Next]_vars
  PROVE  Types'
<1> USE DEF Types, peers, tasks, timers, contexts
<1>0. <<>> \in Chunks
  BY DEF Chunks
<1>s. "in" \in Side /\ "out" \in Side /\ \A s \in Side : Other(s) \in Side
  BY DEF Side, Other
<1>t. \A s \in Side : /\ pipe[s] \in Pipes /\ pipe[s].data \in Chunks
                      /\ hand[s].fetch \in Chunks /\ hand[s].deliver \in Chunks
  BY DEF Hands, Pipes
<1>1. ASSUME NEW s \in Side, PeerSend(s) PROVE Types'
  <2>1. PICK m \in Nat \ {0} : m = Len(sent[s]) + 1
    BY DEF Chunks
  <2>2. Append(sent[s], m) \in Chunks /\ Append(inbox[s], m) \in Chunks
    BY DEF Chunks
  <2>3. /\ sent' = [sent EXCEPT ![s] = Append(sent[s], m)]
        /\ inbox' = [inbox EXCEPT ![s] = Append(inbox[s], m)]
    BY <1>1, <2>1 DEF PeerSend
  <2>. QED
    BY <1>1, <2>2, <2>3 DEF PeerSend
<1>2. ASSUME NEW s \in Side, PeerFin(s) \/ PeerReset(s) PROVE Types'
  <2>1. CASE PeerFin(s)
    BY <2>1 DEF PeerFin
  <2>2. CASE PeerReset(s)
    <3>1. conn' \in [Side -> {"none", "open", "reset", "closed"}] /\ inbox' \in [Side -> Chunks]
      BY <1>0, <2>2 DEF PeerReset
    <3>2. conn'.out = "none" <=> fetch'.out = "none"
      BY <1>s, <2>2 DEF PeerReset
    <3>. QED
      BY <2>2, <3>1, <3>2 DEF PeerReset
  <2>. QED
    BY <1>2, <2>1, <2>2
<1>3. ASSUME NEW s \in Side, FetchRead(s) PROVE Types'
  <2>1. inbox' \in [Side -> Chunks]
    BY <1>0, <1>3 DEF FetchRead
  <2>2. hand' \in [Side -> Hands]
    <3>1. inbox[s] \in Chunks
      OBVIOUS
    <3>2. hand' = hand \/ hand' = [hand EXCEPT ![s].fetch = inbox[s]]
      BY <1>3 DEF FetchRead
    <3>3. [hand EXCEPT ![s].fetch = inbox[s]] \in [Side -> Hands]
      BY <3>1, HandChanges
    <3>. QED
      BY <3>2, <3>3
  <2>3. fetch' \in [Side -> {"none", "read", "write", "eof", "done", "err"}]
    <3>1. \E x \in {"write", "eof", "err"} : fetch' = [fetch EXCEPT ![s] = x]
      BY <1>3 DEF FetchRead
    <3>. QED
      BY <3>1
  <2>4. conn'.out = "none" <=> fetch'.out = "none"
    BY <1>s, <1>3 DEF FetchRead
  <2>. QED
    BY <1>3, <2>1, <2>2, <2>3, <2>4 DEF FetchRead
<1>4. ASSUME NEW s \in Side, FetchWrite(s) PROVE Types'
  <2>1. pipe[s].data \o hand[s].fetch \in Chunks
    BY <1>t, ConcatIn
  <2>2. pipe' \in [Side -> Pipes]
    <3>1. pipe' = pipe \/ pipe' = [pipe EXCEPT ![s].data = pipe[s].data \o hand[s].fetch]
      BY <1>4 DEF FetchWrite
    <3>2. [pipe EXCEPT ![s].data = pipe[s].data \o hand[s].fetch] \in [Side -> Pipes]
      BY <2>1, PipeChanges
    <3>. QED
      BY <3>1, <3>2, Zenon
  <2>3. hand' \in [Side -> Hands]
    BY <1>0, <1>4, HandChanges DEF FetchWrite
  <2>4. fetch' = [fetch EXCEPT ![s] = "read"] \/ fetch' = [fetch EXCEPT ![s] = "err"]
    BY <1>4 DEF FetchWrite
  <2>5. fetch' \in [Side -> {"none", "read", "write", "eof", "done", "err"}]
    BY <2>4
  <2>6. conn'.out = "none" <=> fetch'.out = "none"
    BY <1>4, <1>s, <2>4 DEF FetchWrite
  <2>. QED
    BY <1>4, <2>2, <2>3, <2>5, <2>6 DEF FetchWrite
<1>5. ASSUME NEW s \in Side, FetchClose(s) PROVE Types'
  BY <1>5, <1>s, PipeOps DEF FetchClose
<1>6. ASSUME NEW s \in Side, DeliverRead(s) PROVE Types'
  <2>1. /\ cachedReader(s).data \in Chunks /\ cachedReader(s).cache \in Chunks
        /\ cachedReader(s).rest \in Chunks
    BY <1>0, <1>s, <1>t DEF cachedReader
  <2> HIDE DEF cachedReader
  <2>. QED
    <3>1. hand' \in [Side -> Hands] /\ cache' \in Chunks
      <4>1. hand' = hand \/ hand' = [hand EXCEPT ![s].deliver = cachedReader(s).data]
        BY <1>6 DEF DeliverRead
      <4>2. cache' = cache \/ cache' = cachedReader(s).cache
        BY <1>6 DEF DeliverRead
      <4>3. [hand EXCEPT ![s].deliver = cachedReader(s).data] \in [Side -> Hands]
        BY <2>1, HandChanges
      <4>. QED
        BY <2>1, <4>1, <4>2, <4>3
    <3>2. pipe' \in [Side -> Pipes]
      <4>1. pipe' = pipe \/ pipe' = [pipe EXCEPT ![Other(s)].data = cachedReader(s).rest]
        BY <1>6 DEF DeliverRead
      <4>2. [pipe EXCEPT ![Other(s)].data = cachedReader(s).rest] \in [Side -> Pipes]
        BY <1>s, <2>1, PipeChanges
      <4>. QED
        BY <4>1, <4>2, Zenon
    <3>3. \E x \in {"write", "done", "err"} : deliver' = [deliver EXCEPT ![s] = x]
      BY <1>6 DEF DeliverRead
    <3>. QED
      BY <1>6, <3>1, <3>2, <3>3 DEF DeliverRead
<1>7. ASSUME NEW s \in Side, DeliverWrite(s) PROVE Types'
  <2>1. got[s] \o hand[s].deliver \in Chunks
    BY <1>t, ConcatIn
  <2>2. hand' \in [Side -> Hands]
    BY <1>0, <1>7, HandChanges DEF DeliverWrite
  <2>3. \E x \in {"read", "err"} : deliver' = [deliver EXCEPT ![s] = x]
    BY <1>7 DEF DeliverWrite
  <2>4. got' \in [Side -> Chunks]
    BY <1>7, <2>1 DEF DeliverWrite
  <2>. QED
    BY <1>7, <2>2, <2>3, <2>4 DEF DeliverWrite
<1>8. CASE Cache
  <2>1. cache \o pipe["in"].data \in Chunks
    BY <1>s, <1>t, ConcatIn
  <2>2. pipe' \in [Side -> Pipes]
    <3>1. pipe' = [pipe EXCEPT !["in"].data = <<>>]
      BY <1>8 DEF Cache
    <3>. QED
      BY <1>0, <1>s, <3>1, PipeChanges
  <2>. QED
    BY <1>8, <2>1, <2>2 DEF Cache
<1>9. CASE Sniffed \/ routedDispatch \/ DialFails
  BY <1>9, <1>s DEF Sniffed, routedDispatch, DialFails
<1>10. CASE Dial
  BY <1>10, <1>s DEF Dial
<1>11. CASE NoRoute \/ HandlerEnds
  <2>1. \E f \in {CloseW(pipe.out), Interrupted(pipe.out)} :
            pipe' = [in |-> Interrupted(pipe["in"]), out |-> f]
    BY <1>11 DEF NoRoute, HandlerEnds
  <2>2. pipe["in"] \in Pipes /\ pipe["out"] \in Pipes /\ pipe.out = pipe["out"]
    BY <1>s
  <2>3. pipe' \in [Side -> Pipes]
    BY <2>1, <2>2, PipeOps, BothSides
  <2>. QED
    BY <1>0, <1>11, <1>s, <2>3 DEF NoRoute, HandlerEnds
<1>12. ASSUME NEW s \in Side, Timeout(s) \/ TimerStep(s) PROVE Types'
  <2>1. CASE Timeout(s)
    BY <2>1 DEF Timeout
  <2>2. ASSUME NEW t \in Tasks, TaskSetTimeout(s, t) PROVE Types'
    <3>1. settled' \in [Side -> SUBSET Tasks]
      BY <2>2 DEF TaskSetTimeout
    <3>. QED
      BY <2>2, <3>1 DEF TaskSetTimeout
  <2>3. CASE TaskSetTimeoutBlocks(s)
    BY <2>3 DEF TaskSetTimeoutBlocks
  <2>. QED
    BY <1>12, <2>1, <2>2, <2>3 DEF TimerStep
<1>13. ASSUME NEW s \in Side, RunError(s) PROVE Types'
  <2>1. CASE s = "in"
    BY <1>13, <1>s, <2>1, PipeOps DEF RunError
  <2>2. CASE s = "out"
    BY <1>0, <1>13, <1>s, <2>2 DEF RunError, Closed
  <2>. QED
    BY <2>1, <2>2 DEF Side
<1>14. ASSUME NEW s \in Side, RunPasses(s) PROVE Types'
  BY <1>0, <1>14, <1>s DEF RunPasses, Passed, Tasks, Closed
<1>15. CASE callback
  BY <1>0, <1>15, <1>s DEF callback, Closed
<1>16. CASE UNCHANGED vars
  BY <1>16 DEF vars
<1>. QED
  BY <1>1, <1>2, <1>3, <1>4, <1>5, <1>6, <1>7, <1>8, <1>9, <1>10, <1>11, <1>12, <1>13,
     <1>14, <1>15, <1>16
  DEF Next, FetchStep, DeliverStep, RunReturns, DispatchStep, EndStep
-----------------------------------------------------------------------------
(* What the steps do to the hands, to the pipes and to the tasks, point by point. *)

\* A read of the connection.
LEMMA FetchReadDoes ==
  ASSUME Types, NEW s \in Side, FetchRead(s)
  PROVE  /\ fetch[s] = "read"
         /\ \A r \in Side : hand'[r].deliver = hand[r].deliver
         /\ \A r \in Side : r # s => /\ hand'[r].fetch = hand[r].fetch
                                     /\ inbox'[r] = inbox[r] /\ fetch'[r] = fetch[r]
         /\ \/ /\ conn[s] = "open" /\ inbox[s] # <<>> /\ hand'[s].fetch = inbox[s]
               /\ inbox'[s] = <<>> /\ fetch'[s] = "write"
            \/ /\ conn[s] = "open" /\ inbox[s] = <<>> /\ fin[s] /\ fetch'[s] = "eof"
               /\ hand'[s].fetch = hand[s].fetch /\ inbox'[s] = inbox[s]
            \/ /\ conn[s] # "open" /\ fetch'[s] = "err"
               /\ hand'[s].fetch = hand[s].fetch /\ inbox'[s] = inbox[s]
<1>1. fetch[s] = "read" /\ \A r \in Side : r # s => fetch'[r] = fetch[r]
  BY DEF FetchRead, Types
<1>2. CASE conn[s] = "open" /\ inbox[s] # <<>>
  <2>1. /\ hand' = [hand EXCEPT ![s].fetch = inbox[s]] /\ hand \in [Side -> Hands]
        /\ inbox' = [inbox EXCEPT ![s] = <<>>] /\ inbox \in [Side -> Chunks]
    BY <1>2 DEF FetchRead, Types
  <2>2. fetch'[s] = "write"
    BY <1>2 DEF FetchRead, Types
  <2>3. \A r \in Side : hand'[r].deliver = hand[r].deliver
    BY <2>1 DEF Hands
  <2>4. /\ \A r \in Side : r # s => hand'[r] = hand[r]
        /\ hand'[s].fetch = inbox[s]
    BY <2>1 DEF Hands
  <2>5. inbox'[s] = <<>> /\ \A r \in Side : r # s => inbox'[r] = inbox[r]
    BY <2>1
  <2>. QED
    BY <1>1, <1>2, <2>2, <2>3, <2>4, <2>5
<1>3. CASE ~(conn[s] = "open" /\ inbox[s] # <<>>)
  <2>1. hand' = hand /\ inbox' = inbox
    BY <1>3 DEF FetchRead
  <2>2. \/ conn[s] = "open" /\ inbox[s] = <<>> /\ fin[s] /\ fetch'[s] = "eof"
        \/ conn[s] # "open" /\ fetch'[s] = "err"
    BY <1>3 DEF FetchRead, Types
  <2>. QED
    BY <1>1, <2>1, <2>2
<1>. QED
  BY <1>2, <1>3

\* A write to the pipe.
LEMMA FetchWriteDoes ==
  ASSUME Types, NEW s \in Side, FetchWrite(s)
  PROVE  /\ fetch[s] = "write" /\ hand'[s].fetch = <<>>
         /\ \A r \in Side : hand'[r].deliver = hand[r].deliver
         /\ \A r \in Side : pipe'[r].state = pipe[r].state
         /\ \A r \in Side : r # s => /\ hand'[r].fetch = hand[r].fetch
                                     /\ pipe'[r].data = pipe[r].data /\ fetch'[r] = fetch[r]
         /\ \/ /\ pipe[s].state = "open" /\ fetch'[s] = "read"
               /\ pipe'[s].data = pipe[s].data \o hand[s].fetch
            \/ /\ pipe[s].state # "open" /\ fetch'[s] = "err"
               /\ pipe'[s].data = pipe[s].data
<1>1. /\ fetch[s] = "write" /\ hand'[s].fetch = <<>>
      /\ \A r \in Side : hand'[r].deliver = hand[r].deliver
      /\ \A r \in Side : r # s => hand'[r].fetch = hand[r].fetch /\ fetch'[r] = fetch[r]
  <2>1. hand' = [hand EXCEPT ![s].fetch = <<>>] /\ hand \in [Side -> Hands]
    BY DEF FetchWrite, Types
  <2>2. \A r \in Side : r # s => fetch'[r] = fetch[r]
    BY DEF FetchWrite, Types
  <2>3. fetch[s] = "write"
    BY DEF FetchWrite
  <2>. QED
    BY <2>1, <2>2, <2>3 DEF Hands
<1>2. CASE pipe[s].state = "open"
  <2>1. fetch'[s] = "read"
    BY <1>2 DEF FetchWrite, Types
  <2>2. PICK c : c = pipe[s].data \o hand[s].fetch /\ pipe' = [pipe EXCEPT ![s].data = c]
    BY <1>2 DEF FetchWrite
  <2>3. pipe \in [Side -> Pipes] /\ pipe' = [pipe EXCEPT ![s].data = c]
    BY <2>2 DEF Types
  <2>4. /\ \A r \in Side : pipe'[r].state = pipe[r].state
        /\ \A r \in Side : r # s => pipe'[r] = pipe[r]
        /\ pipe'[s].data = c
    BY <2>3 DEF Pipes
  <2>. QED
    BY <1>1, <1>2, <2>1, <2>2, <2>4
<1>3. CASE pipe[s].state # "open"
  <2>1. fetch'[s] = "err"
    BY <1>3 DEF FetchWrite, Types
  <2>2. pipe' = pipe
    BY <1>3 DEF FetchWrite
  <2>. QED
    BY <1>1, <1>3, <2>1, <2>2
<1>. QED
  BY <1>2, <1>3

\* The end of a copy.
LEMMA FetchCloseDoes ==
  ASSUME Types, NEW s \in Side, FetchClose(s)
  PROVE  /\ fetch[s] = "eof" /\ fetch'[s] = "done"
         /\ \A r \in Side : pipe'[r].data = pipe[r].data
         /\ \A r \in Side : r # s => pipe'[r].state = pipe[r].state /\ fetch'[r] = fetch[r]
         /\ pipe'[s].state = IF pipe[s].state = "open" THEN "closed" ELSE pipe[s].state
<1>1. pipe[s] \in Pipes /\ pipe'[s] = CloseW(pipe[s])
  BY DEF FetchClose, Types
<1>2. /\ fetch[s] = "eof" /\ fetch'[s] = "done"
      /\ \A r \in Side : r # s => pipe'[r] = pipe[r] /\ fetch'[r] = fetch[r]
  BY DEF FetchClose, Types
<1>3. /\ pipe'[s].data = pipe[s].data
      /\ pipe'[s].state = IF pipe[s].state = "open" THEN "closed" ELSE pipe[s].state
  BY <1>1 DEF CloseW, Pipes
<1>. QED
  BY <1>2, <1>3

\* A read of a pipe, of what is cached in front of it first.
LEMMA DeliverReadDoes ==
  ASSUME Types, NEW s \in Side, DeliverRead(s)
  PROVE  /\ deliver[s] = "read"
         /\ \A r \in Side : hand'[r].fetch = hand[r].fetch
         /\ \A r \in Side : pipe'[r].state = pipe[r].state
         /\ \A r \in Side : r # s => hand'[r].deliver = hand[r].deliver
                                     /\ deliver'[r] = deliver[r]
         /\ pipe'[s].data = pipe[s].data
         /\ \/ /\ s = "out" /\ cache # <<>> /\ deliver'[s] = "write"
               /\ hand'[s].deliver = cache /\ cache' = <<>>
               /\ pipe'[Other(s)].data = pipe[Other(s)].data
            \/ /\ s = "out" => cache = <<>>
               /\ deliver'[s] = "write" /\ cache' = cache
               /\ pipe[Other(s)].data # <<>> /\ hand'[s].deliver = pipe[Other(s)].data
               /\ pipe'[Other(s)].data = <<>>
            \/ /\ s = "out" => cache = <<>>
               /\ pipe[Other(s)].data = <<>> /\ pipe'[Other(s)].data = <<>>
               /\ pipe[Other(s)].state # "open"
               /\ deliver'[s] = IF pipe[Other(s)].state = "closed" THEN "done" ELSE "err"
               /\ hand'[s].deliver = hand[s].deliver /\ cache' = cache
<1>1. Other(s) \in Side /\ Other(s) # s
  BY DEF Side, Other
<1>2. /\ \A r \in Side : \A x : [hand EXCEPT ![s].deliver = x][r].fetch = hand[r].fetch
      /\ \A r \in Side : \A x : r # s => [hand EXCEPT ![s].deliver = x][r] = hand[r]
      /\ \A x : [hand EXCEPT ![s].deliver = x][s].deliver = x
  BY DEF Types, Hands
<1>3. /\ \A r \in Side : \A x : [pipe EXCEPT ![Other(s)].data = x][r].state = pipe[r].state
      /\ \A x : [pipe EXCEPT ![Other(s)].data = x][s] = pipe[s]
      /\ \A x : [pipe EXCEPT ![Other(s)].data = x][Other(s)].data = x
  BY <1>1 DEF Types, Pipes
<1>4. deliver[s] = "read" /\ \A r \in Side : r # s => deliver'[r] = deliver[r]
  BY DEF DeliverRead, Types
<1>5. CASE cachedReader(s).data # <<>>
  <2>1. /\ hand' = [hand EXCEPT ![s].deliver = cachedReader(s).data]
        /\ cache' = cachedReader(s).cache
        /\ pipe' = [pipe EXCEPT ![Other(s)].data = cachedReader(s).rest]
    BY <1>5 DEF DeliverRead
  <2>2. deliver'[s] = "write"
    BY <1>5 DEF DeliverRead, Types
  <2>3. /\ \A r \in Side : hand'[r].fetch = hand[r].fetch
        /\ \A r \in Side : r # s => hand'[r] = hand[r]
        /\ hand'[s].deliver = cachedReader(s).data
    BY <1>2, <2>1, Zenon
  <2>4. /\ \A r \in Side : pipe'[r].state = pipe[r].state
        /\ pipe'[s] = pipe[s] /\ pipe'[Other(s)].data = cachedReader(s).rest
    BY <1>3, <2>1, Zenon
  <2>5. CASE s = "out" /\ cache # <<>>
    <3>1. cachedReader(s) = [data |-> cache, cache |-> <<>>, rest |-> pipe[Other(s)].data]
      BY <2>5 DEF cachedReader
    <3>. QED
      BY <1>4, <2>1, <2>2, <2>3, <2>4, <2>5, <3>1
  <2>6. CASE ~(s = "out" /\ cache # <<>>)
    <3>1. cachedReader(s) = [data |-> pipe[Other(s)].data, cache |-> cache, rest |-> <<>>]
      BY <2>6 DEF cachedReader
    <3>2. /\ pipe[Other(s)].data # <<>> /\ hand'[s].deliver = pipe[Other(s)].data
          /\ cache' = cache /\ pipe'[Other(s)].data = <<>>
      BY <1>5, <2>1, <2>3, <2>4, <3>1
    <3>. QED
      BY <1>4, <2>2, <2>3, <2>4, <2>6, <3>2
  <2>. QED
    BY <2>5, <2>6
<1>6. CASE cachedReader(s).data = <<>>
  <2>1. /\ hand' = hand /\ cache' = cache /\ pipe' = pipe
        /\ pipe[Other(s)].state # "open"
    BY <1>6 DEF DeliverRead
  <2>2. deliver'[s] = IF pipe[Other(s)].state = "closed" THEN "done" ELSE "err"
    BY <1>6 DEF DeliverRead, Types
  <2>3. ~(s = "out" /\ cache # <<>>) /\ pipe[Other(s)].data = <<>>
    BY <1>6 DEF cachedReader
  <2>. QED
    BY <1>4, <2>1, <2>2, <2>3
<1>. QED
  BY <1>5, <1>6

\* A write to the connection.
LEMMA DeliverWriteDoes ==
  ASSUME Types, NEW s \in Side, DeliverWrite(s)
  PROVE  /\ deliver[s] = "write" /\ hand'[s].deliver = <<>>
         /\ \A r \in Side : hand'[r].fetch = hand[r].fetch
         /\ \A r \in Side : r # s => /\ hand'[r].deliver = hand[r].deliver
                                     /\ got'[r] = got[r] /\ deliver'[r] = deliver[r]
         /\ \/ /\ conn[s] = "open" /\ deliver'[s] = "read"
               /\ got'[s] = got[s] \o hand[s].deliver
            \/ /\ conn[s] # "open" /\ deliver'[s] = "err" /\ got'[s] = got[s]
<1>1. hand' = [hand EXCEPT ![s].deliver = <<>>] /\ hand \in [Side -> Hands]
  BY DEF DeliverWrite, Types
<1>2. /\ hand'[s].deliver = <<>>
      /\ \A r \in Side : r # s => hand'[r].deliver = hand[r].deliver
      /\ \A r \in Side : hand'[r].fetch = hand[r].fetch
  BY <1>1 DEF Hands
<1>3. /\ deliver[s] = "write"
      /\ \A r \in Side : r # s => got'[r] = got[r] /\ deliver'[r] = deliver[r]
  BY DEF DeliverWrite, Types
<1>4. \/ /\ conn[s] = "open" /\ deliver'[s] = "read"
         /\ got'[s] = got[s] \o hand[s].deliver
      \/ conn[s] # "open" /\ deliver'[s] = "err" /\ got'[s] = got[s]
  BY DEF DeliverWrite, Types
<1>. QED
  BY <1>2, <1>3, <1>4

\* Every pipe that is interrupted is over, and one that was over stays as it was.
LEMMA InterruptedDoes ==
  ASSUME NEW p \in Pipes
  PROVE  /\ Interrupted(p).state # "open" /\ CloseW(p).state # "open"
         /\ p.state # "open" => Interrupted(p) = p /\ CloseW(p) = p
         /\ p.state = "open" => /\ Interrupted(p).state = "errord"
                                /\ Interrupted(p).data = <<>>
                                /\ CloseW(p).state = "closed" /\ CloseW(p).data = p.data
BY DEF Interrupted, CloseW, Pipes
-----------------------------------------------------------------------------
(* Where each side is, and what is then the case. *)

\* A task that writes has something in its hand and no other task has; a task that is
\* done leaves its pipe ended; the outbound has tasks from the time it has dialled.
Control ==
    /\ proc["in"] \in {"run", "failed", "passed", "returned"}
    /\ conn["in"] # "none" /\ fetch["in"] # "none" /\ deliver["in"] # "none"
    /\ conn.out = "none" <=> deliver.out = "none"
    /\ proc.out \in {"sniff", "route", "dial"} => conn.out = "none"
    /\ proc.out = "run" => conn.out # "none"
    /\ proc.out \in {"failed", "passed", "returned"} => conn.out # "open"
    /\ \A s \in Side : fetch[s] = "write" <=> hand[s].fetch # <<>>
    /\ \A s \in Side : deliver[s] = "write" <=> hand[s].deliver # <<>>
    /\ \A s \in Side : fetch[s] = "done" => pipe[s].state # "open"
    /\ \A s \in Side : deliver[s] = "done" => pipe[Other(s)].state = "closed"
    /\ \A s \in Side : conn[s] # "open" => inbox[s] = <<>>
    /\ \A s \in Side : pipe[s].state = "errord" => pipe[s].data = <<>>
    /\ \A s \in Side : proc[s] = "passed" => fetch[s] = "done" /\ deliver[s] = "done"

\* Every step preserves this and the end of the pipes.
LEMMA ControlStep ==
  ASSUME Types, Control, PipesEnd, [Next]_vars
  PROVE  Control' /\ PipesEnd'
<1> USE DEF peers, tasks, timers, contexts, Side, Other
<1>t. /\ "in" \in Side /\ "out" \in Side
      /\ \A s \in Side : Other(s) \in Side /\ s \in {"in", "out"}
  OBVIOUS
<1>1. ASSUME NEW s \in Side, PeerSend(s) \/ PeerFin(s) \/ PeerReset(s)
      PROVE  Control' /\ PipesEnd'
  BY <1>1 DEF PeerSend, PeerFin, PeerReset, Types, Control, PipesEnd
<1>2. ASSUME NEW s \in Side, FetchRead(s) PROVE Control' /\ PipesEnd'
  BY <1>2, FetchReadDoes DEF FetchRead, Control, PipesEnd
<1>3. ASSUME NEW s \in Side, FetchWrite(s) PROVE Control' /\ PipesEnd'
  <2>1. UNCHANGED <<peers, deliver, proc>>
    BY <1>3 DEF FetchWrite
  <2>2. /\ fetch[s] = "write" /\ fetch'[s] \in {"read", "err"} /\ hand'[s].fetch = <<>>
        /\ \A r \in Side : hand'[r].deliver = hand[r].deliver
        /\ \A r \in Side : pipe'[r].state = pipe[r].state
        /\ \A r \in Side : r # s => hand'[r].fetch = hand[r].fetch /\ fetch'[r] = fetch[r]
    BY <1>3, FetchWriteDoes
  <2>3. \A r \in Side : pipe[r].state = "errord" => pipe'[r].data = pipe[r].data
    BY <1>3, FetchWriteDoes
  <2>4. PipesEnd'
    BY <2>1, <2>2 DEF PipesEnd
  <2>5. /\ \A r \in Side : fetch'[r] = "write" <=> hand'[r].fetch # <<>>
        /\ fetch'["in"] # "none"
    BY <2>2 DEF Control
  <2>6. /\ \A r \in Side : deliver'[r] = "write" <=> hand'[r].deliver # <<>>
        /\ \A r \in Side : fetch'[r] = "done" => pipe'[r].state # "open"
        /\ \A r \in Side : deliver'[r] = "done" => pipe'[Other(r)].state = "closed"
    BY <2>1, <2>2 DEF Control
  <2>7. \A r \in Side : pipe'[r].state = "errord" => pipe'[r].data = <<>>
    BY <2>1, <2>2, <2>3 DEF Control
  <2>8. \A r \in Side : proc'[r] = "passed" => fetch'[r] = "done" /\ deliver'[r] = "done"
    BY <2>1, <2>2 DEF Control
  <2>. QED
    BY <2>1, <2>4, <2>5, <2>6, <2>7, <2>8 DEF Control
<1>4. ASSUME NEW s \in Side, FetchClose(s) PROVE Control' /\ PipesEnd'
  <2>1. UNCHANGED <<peers, deliver, hand, proc>>
    BY <1>4 DEF FetchClose
  <2>. QED
    BY <1>4, <2>1, FetchCloseDoes DEF Control, PipesEnd
<1>5. ASSUME NEW s \in Side, DeliverRead(s) PROVE Control' /\ PipesEnd'
  BY <1>5, DeliverReadDoes DEF DeliverRead, Control, PipesEnd
<1>6. ASSUME NEW s \in Side, DeliverWrite(s) PROVE Control' /\ PipesEnd'
  <2>1. UNCHANGED <<conn, inbox, pipe, fetch, proc>>
    BY <1>6 DEF DeliverWrite
  <2>2. /\ deliver[s] = "write" /\ deliver'[s] \in {"read", "err"} /\ hand'[s].deliver = <<>>
        /\ \A r \in Side : hand'[r].fetch = hand[r].fetch
        /\ \A r \in Side : r # s => /\ hand'[r].deliver = hand[r].deliver
                                    /\ deliver'[r] = deliver[r]
    BY <1>6, DeliverWriteDoes
  <2>4. PipesEnd'
    BY <2>1, <2>2 DEF PipesEnd
  <2>5. \A r \in Side : fetch'[r] = "write" <=> hand'[r].fetch # <<>>
    BY <2>1, <2>2 DEF Control
  <2>6. \A r \in Side : deliver'[r] = "write" <=> hand'[r].deliver # <<>>
    BY <2>2 DEF Control
  <2>7. \A r \in Side : deliver'[r] = "done" => deliver[r] = "done"
    BY <2>2
  <2>8. \A r \in Side : proc'[r] = "passed" => fetch'[r] = "done" /\ deliver'[r] = "done"
    BY <2>1, <2>2 DEF Control
  <2>9. deliver'["in"] # "none" /\ (conn'.out = "none" <=> deliver'.out = "none")
    BY <2>1, <2>2 DEF Control
  <2>. QED
    BY <2>1, <2>4, <2>5, <2>6, <2>7, <2>8, <2>9 DEF Control
<1>7. CASE Cache
  BY <1>7 DEF Cache, Types, Pipes, Control, PipesEnd
<1>8. CASE Sniffed \/ routedDispatch \/ DialFails
  BY <1>8 DEF Sniffed, routedDispatch, DialFails, Types, Control, PipesEnd
<1>9. CASE Dial
  BY <1>9 DEF Dial, Types, Control, PipesEnd
<1>10. CASE NoRoute \/ HandlerEnds
  <2>1. PICK f \in {CloseW(pipe["out"]), Interrupted(pipe["out"])} :
            pipe' = [in |-> Interrupted(pipe["in"]), out |-> f]
    BY <1>10 DEF NoRoute, HandlerEnds
  <2>2. pipe["in"] \in Pipes /\ pipe["out"] \in Pipes
    BY DEF Types
  <2>3. pipe'["in"] = Interrupted(pipe["in"]) /\ pipe'["out"] = f
    BY <2>1
  <2>4. pipe'["in"].state # "open" /\ pipe'["out"].state # "open"
    BY <2>2, <2>3, InterruptedDoes
  <2>5. \A s \in Side : /\ pipe[s].state = "closed" => pipe'[s].state = "closed"
                        /\ pipe'[s].state = "errord" => pipe'[s].data = <<>>
    BY <2>2, <2>3, InterruptedDoes DEF Control, Pipes
  <2>. QED
    BY <1>10, <2>4, <2>5 DEF NoRoute, HandlerEnds, Types, Control, PipesEnd
<1>11. ASSUME NEW s \in Side, Timeout(s) \/ TimerStep(s) PROVE Control' /\ PipesEnd'
  BY <1>11 DEF Timeout, TimerStep, TaskSetTimeout, TaskSetTimeoutBlocks, Control, PipesEnd
<1>12. ASSUME NEW s \in Side, RunError(s) PROVE Control' /\ PipesEnd'
  <2>1. CASE s = "in"
    <3>1. \A r \in Side : pipe[r] \in Pipes /\ pipe'[r] = Interrupted(pipe[r])
      BY <1>12, <2>1 DEF RunError, Types
    <3>2. \A r \in Side : /\ pipe'[r].state # "open"
                          /\ pipe[r].state = "closed" => pipe'[r].state = "closed"
                          /\ pipe'[r].state = "errord" => pipe'[r].data = <<>>
      BY <3>1, InterruptedDoes DEF Control, Pipes
    <3>. QED
      BY <1>12, <2>1, <3>2 DEF RunError, Types, Control, PipesEnd
  <2>2. CASE s = "out"
    BY <1>12, <2>2 DEF RunError, Closed, Types, Control, PipesEnd
  <2>. QED
    BY <2>1, <2>2
<1>13. ASSUME NEW s \in Side, RunPasses(s) PROVE Control' /\ PipesEnd'
  <2>1. CASE s = "in"
    BY <1>13, <2>1 DEF RunPasses, Passed, Tasks, Types, Control, PipesEnd
  <2>2. CASE s = "out"
    BY <1>13, <2>2 DEF RunPasses, Passed, Tasks, Closed, Types, Control, PipesEnd
  <2>. QED
    BY <2>1, <2>2
<1>14. CASE callback
  BY <1>14 DEF callback, Closed, Types, Control, PipesEnd
<1>15. CASE UNCHANGED vars
  BY <1>15 DEF vars, Control, PipesEnd
<1>. QED
  BY <1>1, <1>2, <1>3, <1>4, <1>5, <1>6, <1>7, <1>8, <1>9, <1>10, <1>11, <1>12, <1>13,
     <1>14, <1>15
  DEF Next, FetchStep, DeliverStep, RunReturns, DispatchStep, EndStep
-----------------------------------------------------------------------------
(* What is on its way. *)

\* Before the outbound has a connection there is no response.
Silent ==
    conn.out = "none" => /\ sent.out = <<>> /\ got["in"] = <<>>
                         /\ pipe.out.data = <<>>
                         /\ hand["in"].deliver = <<>>

\* Every step preserves this: no task of the outbound runs before it has dialled.
LEMMA SilentStep ==
  ASSUME Types, Control, Silent, [Next]_vars
  PROVE  Silent'
<1> SUFFICES ASSUME conn'.out = "none"
             PROVE  Silent'
  BY DEF Silent
<1> USE DEF peers, tasks, timers, contexts, Side, Other
<1>0. \A s \in Side : Other(s) \in Side /\ s \in {"in", "out"}
  OBVIOUS
<1>1. conn.out = "none" => /\ fetch.out = "none" /\ deliver.out = "none"
                           /\ deliver["in"] # "write"
  BY DEF Types, Control, Silent
<1>2. ASSUME NEW s \in Side, PeerSend(s) \/ PeerFin(s) \/ PeerReset(s) PROVE Silent'
  BY <1>2 DEF PeerSend, PeerFin, PeerReset, Types, Silent
<1>3. ASSUME NEW s \in Side, FetchRead(s) PROVE Silent'
  <2>1. UNCHANGED <<sent, got, conn, pipe>>
    BY <1>3 DEF FetchRead
  <2>. QED
    BY <1>3, <2>1, FetchReadDoes DEF Silent
<1>4. ASSUME NEW s \in Side, FetchWrite(s) PROVE Silent'
  <2>1. UNCHANGED <<sent, got, conn>>
    BY <1>4 DEF FetchWrite
  <2>2. /\ fetch[s] = "write" /\ \A r \in Side : hand'[r].deliver = hand[r].deliver
        /\ \A r \in Side : r # s => pipe'[r].data = pipe[r].data
    BY <1>4, FetchWriteDoes
  <2>3. s = "in"
    BY <1>1, <2>1, <2>2
  <2>. QED
    BY <2>1, <2>2, <2>3 DEF Silent
<1>5. ASSUME NEW s \in Side, FetchClose(s) PROVE Silent'
  <2>1. UNCHANGED <<sent, got, conn, hand>>
    BY <1>5 DEF FetchClose
  <2>. QED
    BY <1>5, <2>1, FetchCloseDoes DEF Silent
<1>6. ASSUME NEW s \in Side, DeliverRead(s) PROVE Silent'
  <2>1. UNCHANGED <<sent, got, conn>>
    BY <1>6 DEF DeliverRead
  <2>2. s = "in"
    BY <1>1, <1>6, <2>1 DEF DeliverRead
  <2>3. pipe["out"].data = <<>> /\ Other(s) = "out"
    BY <2>1, <2>2 DEF Silent
  <2>4. pipe'["out"].data = <<>> /\ hand'["in"].deliver = hand["in"].deliver
    BY <1>6, <2>2, <2>3, DeliverReadDoes
  <2>. QED
    BY <2>1, <2>4 DEF Silent
<1>7. ASSUME NEW s \in Side, DeliverWrite(s) PROVE Silent'
  BY <1>1, <1>7 DEF DeliverWrite
<1>8. CASE Cache
  BY <1>8 DEF Cache, Types, Pipes, Silent
<1>9. CASE Sniffed \/ routedDispatch \/ DialFails \/ Dial
  BY <1>9 DEF Sniffed, routedDispatch, DialFails, Dial, Types, Silent
<1>10. CASE NoRoute \/ HandlerEnds
  <2>1. pipe' = [in |-> Interrupted(pipe["in"]), out |-> CloseW(pipe["out"])]
        \/ pipe' = [in |-> Interrupted(pipe["in"]), out |-> Interrupted(pipe["out"])]
    BY <1>10 DEF NoRoute, HandlerEnds
  <2>2. pipe'["out"] = CloseW(pipe["out"]) \/ pipe'["out"] = Interrupted(pipe["out"])
    BY <2>1
  <2>3. pipe["out"] \in Pipes
    BY DEF Types
  <2>4. pipe["out"].data = <<>> => pipe'["out"].data = <<>>
    BY <2>2, <2>3, InterruptedDoes DEF Pipes
  <2>. QED
    BY <1>10, <2>4 DEF NoRoute, HandlerEnds, Silent
<1>11. ASSUME NEW s \in Side, Timeout(s) \/ TimerStep(s) PROVE Silent'
  BY <1>11 DEF Timeout, TimerStep, TaskSetTimeout, TaskSetTimeoutBlocks, Silent
<1>12. ASSUME NEW s \in Side, RunError(s) PROVE Silent'
  <2>1. CASE s = "in"
    <3>1. pipe["out"] \in Pipes /\ pipe'["out"] = Interrupted(pipe["out"])
      BY <1>12, <2>1 DEF RunError, Types
    <3>2. pipe["out"].data = <<>> => pipe'["out"].data = <<>>
      BY <3>1, InterruptedDoes DEF Pipes
    <3>. QED
      BY <1>12, <2>1, <3>2 DEF RunError, Silent
  <2>2. CASE s = "out"
    BY <1>12, <2>2 DEF RunError, Closed, Types, Silent
  <2>. QED
    BY <2>1, <2>2
<1>13. ASSUME NEW s \in Side, RunPasses(s) PROVE Silent'
  BY <1>13 DEF RunPasses, Passed, Tasks, Closed, Types, Silent
<1>14. CASE callback
  BY <1>14 DEF callback, Closed, Types, Silent
<1>15. CASE UNCHANGED vars
  BY <1>15 DEF vars, Silent
<1>. QED
  BY <1>2, <1>3, <1>4, <1>5, <1>6, <1>7, <1>8, <1>9, <1>10, <1>11, <1>12, <1>13,
     <1>14, <1>15
  DEF Next, FetchStep, DeliverStep, RunReturns, DispatchStep, EndStep

Cached(s) == IF s = "in" THEN cache ELSE <<>>

\* What lies between the task that fetches from s and the peer of the other side, who
\* has the first part of it
Path(s) == got[Other(s)] \o (hand[Other(s)].deliver \o (Cached(s) \o pipe[s].data))

\* Nothing on that path has been thrown away.
Intact(s) == /\ deliver[Other(s)] # "err"
             /\ s = "in" => proc.out \in {"sniff", "route", "dial", "run"}

\* The peer of s sends no more.
Over(s) == fin[s] \/ (s = "out" /\ conn.out = "none" /\ proc.out = "returned")

\* The task that delivers what comes from s has ended by itself, with the handler that
\* runs it.
Done(s) == deliver[Other(s)] = "done" /\ (s = "in" => proc.out \in {"run", "passed"})

\* What the peer of s has sent is, from its beginning: what the other peer has, what is
\* on its way to it, what the task that fetches holds, and what has arrived.  An end of
\* the stream enters the pipe behind all of it.
Flow(s) ==
    /\ Prefix(got[Other(s)], sent[s])
    /\ Intact(s) =>
        /\ Prefix(Path(s), sent[s])
        /\ pipe[s].state = "open" => Prefix(Path(s) \o hand[s].fetch, sent[s])
        /\ pipe[s].state = "open" /\ conn[s] = "open" =>
              sent[s] = (Path(s) \o hand[s].fetch) \o inbox[s]
        /\ pipe[s].state = "open" /\ fetch[s] = "eof" => sent[s] = Path(s) /\ fin[s]
        /\ pipe[s].state = "closed" => sent[s] = Path(s) /\ Over(s)
    /\ Done(s) => got[Other(s)] = sent[s] /\ Over(s)

\* The pieces are sequences of chunks.
LEMMA Pieces ==
  ASSUME Types, NEW s \in Side
  PROVE  /\ sent[s] \in Chunks /\ got[s] \in Chunks /\ inbox[s] \in Chunks
         /\ hand[s].fetch \in Chunks /\ hand[s].deliver \in Chunks
         /\ pipe[s].data \in Chunks /\ Cached(s) \in Chunks
         /\ Cached(s) \o pipe[s].data \in Chunks
         /\ hand[Other(s)].deliver \o (Cached(s) \o pipe[s].data) \in Chunks
         /\ got[Other(s)] \in Chunks /\ hand[Other(s)].deliver \in Chunks
         /\ Path(s) \in Chunks
<1>1. Other(s) \in Side
  BY DEF Side, Other
<1>2. \A r \in Side : /\ sent[r] \in Chunks /\ got[r] \in Chunks /\ inbox[r] \in Chunks
                      /\ hand[r].fetch \in Chunks /\ hand[r].deliver \in Chunks
                      /\ pipe[r].data \in Chunks
  BY DEF Types, Hands, Pipes
<1>3. Cached(s) \in Chunks
  BY DEF Cached, Chunks, Types
<1>4. Cached(s) \o pipe[s].data \in Chunks
  BY <1>2, <1>3, ConcatIn
<1>5. hand[Other(s)].deliver \o (Cached(s) \o pipe[s].data) \in Chunks
  BY <1>1, <1>2, <1>4, ConcatIn
<1>6. Path(s) \in Chunks
  BY <1>1, <1>2, <1>5, ConcatIn DEF Path
<1>. QED
  BY <1>1, <1>2, <1>3, <1>4, <1>5, <1>6

\* The path depends on its parts only.
LEMMA PathSame ==
  ASSUME NEW s \in Side, got'[Other(s)] = got[Other(s)],
         hand'[Other(s)].deliver = hand[Other(s)].deliver,
         Cached(s)' = Cached(s), pipe'[s].data = pipe[s].data
  PROVE  Path(s)' = Path(s)
BY Zenon DEF Path

\* A step keeps the flow from s if it neither changes what was sent, nor what is on
\* the path, except for data that an interrupted pipe loses, nor begins anything.
LEMMA FlowKept ==
  ASSUME NEW s \in Side, Flow(s),
         sent'[s] = sent[s],
         Prefix(got'[Other(s)], sent[s]),
         Intact(s)' => Intact(s),
         Intact(s) => Prefix(Path(s)', sent[s]),
         pipe'[s].state \in {"open", "closed"} =>
            pipe'[s].state = pipe[s].state /\ Path(s)' = Path(s),
         pipe'[s].state = "open" => hand'[s].fetch = hand[s].fetch,
         conn'[s] = "open" => conn[s] = "open" /\ inbox'[s] = inbox[s],
         fetch'[s] = "eof" => fetch[s] = "eof",
         fin[s] => fin'[s], Over(s) => Over(s)',
         Done(s)' => Done(s) /\ got'[Other(s)] = got[Other(s)]
  PROVE  Flow(s)'
<1>1. Prefix(got[Other(s)], sent[s])'
  OBVIOUS
<1>2. ASSUME Intact(s)'
      PROVE  (/\ Prefix(Path(s), sent[s])
              /\ pipe[s].state = "open" => Prefix(Path(s) \o hand[s].fetch, sent[s])
              /\ pipe[s].state = "open" /\ conn[s] = "open" =>
                    sent[s] = (Path(s) \o hand[s].fetch) \o inbox[s]
              /\ pipe[s].state = "open" /\ fetch[s] = "eof" => sent[s] = Path(s) /\ fin[s]
              /\ pipe[s].state = "closed" => sent[s] = Path(s) /\ Over(s))'
  <2>1. Intact(s)
    BY <1>2
  <2>2. Prefix(Path(s), sent[s])'
    BY <2>1
  <2>3. CASE pipe'[s].state = "open"
    <3>1. pipe[s].state = "open" /\ Path(s)' = Path(s)
      BY <2>3
    <3>2. Prefix(Path(s) \o hand[s].fetch, sent[s])'
      BY <2>1, <2>3, <3>1 DEF Flow
    <3>3. conn'[s] = "open" => (sent[s] = (Path(s) \o hand[s].fetch) \o inbox[s])'
      BY <2>1, <2>3, <3>1 DEF Flow
    <3>4. fetch'[s] = "eof" => (sent[s] = Path(s) /\ fin[s])'
      BY <2>1, <3>1 DEF Flow
    <3>. QED
      BY <2>2, <2>3, <3>2, <3>3, <3>4
  <2>4. CASE pipe'[s].state = "closed"
    <3>1. pipe[s].state = "closed" /\ Path(s)' = Path(s)
      BY <2>4
    <3>2. (sent[s] = Path(s) /\ Over(s))'
      BY <2>1, <3>1 DEF Flow
    <3>. QED
      BY <2>2, <2>4, <3>2
  <2>. QED
    BY <2>2, <2>3, <2>4
<1>3. Done(s)' => (got[Other(s)] = sent[s] /\ Over(s))'
  BY DEF Flow
<1>. QED
  BY <1>1, <1>2, <1>3 DEF Flow

\* In particular if it changes nothing on the way from s.
LEMMA FlowSame ==
  ASSUME NEW s \in Side, Flow(s),
         sent'[s] = sent[s], got'[Other(s)] = got[Other(s)],
         hand'[Other(s)].deliver = hand[Other(s)].deliver,
         Cached(s)' = Cached(s), pipe'[s].data = pipe[s].data,
         pipe'[s].state = pipe[s].state,
         pipe'[s].state = "open" => hand'[s].fetch = hand[s].fetch,
         conn'[s] = "open" => conn[s] = "open" /\ inbox'[s] = inbox[s],
         fetch'[s] = "eof" => fetch[s] = "eof",
         fin[s] => fin'[s], Over(s) => Over(s)',
         Intact(s)' => Intact(s), Done(s)' => Done(s)
  PROVE  Flow(s)'
<1>1. Path(s)' = Path(s)
  BY PathSame
<1>2. /\ Prefix(got[Other(s)], sent[s])
      /\ Intact(s) => Prefix(Path(s), sent[s])
  BY DEF Flow
<1>3. /\ Prefix(got'[Other(s)], sent[s])
      /\ Intact(s) => Prefix(Path(s)', sent[s])
  BY <1>1, <1>2
<1>. QED
  BY <1>1, <1>3, FlowKept

\* A chunk that joins the end joins the whole.
LEMMA AppendConcat ==
  ASSUME NEW a \in Chunks, NEW b \in Chunks, NEW m \in Nat \ {0}
  PROVE  /\ Append(b, m) \in Chunks /\ Append(a \o b, m) \in Chunks
         /\ a \o Append(b, m) = Append(a \o b, m)
<1>1. <<m>> \in Chunks /\ \A c \in Chunks : Append(c, m) = c \o <<m>>
  BY AppendIsConcat DEF Chunks
<1>2. a \o b \in Chunks /\ (a \o b) \o <<m>> = a \o (b \o <<m>>)
  BY <1>1, ConcatIn, ConcatAssoc
<1>3. Append(b, m) = b \o <<m>> /\ Append(a \o b, m) = (a \o b) \o <<m>>
  BY <1>1, <1>2
<1>4. b \o <<m>> \in Chunks /\ (a \o b) \o <<m>> \in Chunks
  BY <1>1, <1>2, ConcatIn
<1>. QED
  BY <1>2, <1>3, <1>4

\* A chunk the peer sends goes to the end of the way.
LEMMA PeerSendFlows ==
  ASSUME Types, NEW s \in Side, PeerSend(s), \A r \in Side : Flow(r)
  PROVE  \A r \in Side : Flow(r)'
<1>1. /\ conn[s] = "open" /\ ~fin[s]
      /\ UNCHANGED <<got, fin, conn, pipe, cache, fetch, deliver, hand, proc>>
  BY DEF PeerSend, tasks
<1>2. PICK m \in Nat \ {0} : /\ sent' = [sent EXCEPT ![s] = Append(sent[s], m)]
                             /\ inbox' = [inbox EXCEPT ![s] = Append(inbox[s], m)]
  <2>1. Len(sent[s]) + 1 \in Nat \ {0}
    BY DEF Types, Chunks
  <2>. QED
    BY <2>1 DEF PeerSend
<1>3. /\ sent'[s] = Append(sent[s], m) /\ inbox'[s] = Append(inbox[s], m)
      /\ \A r \in Side : r # s => sent'[r] = sent[r] /\ inbox'[r] = inbox[r]
  BY <1>2 DEF Types
<1>4. \A r \in Side : /\ Path(r)' = Path(r) /\ (Intact(r)' <=> Intact(r))
                      /\ (Over(r)' <=> Over(r)) /\ (Done(r)' <=> Done(r))
                      /\ Cached(r)' = Cached(r)
  BY <1>1 DEF Path, Intact, Over, Done, Cached
<1>5. ASSUME NEW r \in Side, r # s PROVE Flow(r)'
  BY <1>1, <1>3, <1>4, <1>5, FlowSame
<1>6. Flow(s)'
  <2>1. /\ sent[s] \in Chunks /\ inbox[s] \in Chunks /\ Path(s) \in Chunks
        /\ got[Other(s)] \in Chunks /\ hand[s].fetch \in Chunks
    BY Pieces
  <2>2. Path(s) \o hand[s].fetch \in Chunks
    BY <2>1, ConcatIn
  <2>3. ~Over(s) /\ ~Done(s)
    BY <1>1 DEF Over, Flow
  <2>4. Prefix(got'[Other(s)], sent'[s])
    BY <1>1, <1>3, <2>1, PrefixGrows DEF Flow
  <2>5. ASSUME Intact(s)
        PROVE  /\ Prefix(Path(s), sent'[s])
               /\ pipe[s].state = "open" => Prefix(Path(s) \o hand[s].fetch, sent'[s])
               /\ pipe[s].state = "open" =>
                    sent'[s] = (Path(s) \o hand[s].fetch) \o inbox'[s]
               /\ ~(pipe[s].state = "open" /\ fetch[s] = "eof")
               /\ pipe[s].state # "closed"
    <3>1. Prefix(Path(s), sent'[s])
      BY <1>3, <2>1, <2>5, PrefixGrows DEF Flow
    <3>2. pipe[s].state = "open" => Prefix(Path(s) \o hand[s].fetch, sent'[s])
      BY <1>3, <2>1, <2>2, <2>5, PrefixGrows DEF Flow
    <3>3. ASSUME pipe[s].state = "open"
          PROVE  sent'[s] = (Path(s) \o hand[s].fetch) \o inbox'[s]
      <4>1. sent[s] = (Path(s) \o hand[s].fetch) \o inbox[s]
        BY <1>1, <2>5, <3>3 DEF Flow
      <4>2. (Path(s) \o hand[s].fetch) \o Append(inbox[s], m)
              = Append((Path(s) \o hand[s].fetch) \o inbox[s], m)
        BY <2>1, <2>2, AppendConcat
      <4>. QED
        BY <1>3, <4>1, <4>2
    <3>4. ~(pipe[s].state = "open" /\ fetch[s] = "eof") /\ pipe[s].state # "closed"
      BY <1>1, <2>3, <2>5 DEF Flow
    <3>. QED
      BY <3>1, <3>2, <3>3, <3>4
  <2>6. ~Done(s)'
    BY <1>4, <2>3
  <2>7. Intact(s)' =>
         (/\ Prefix(Path(s), sent[s])
          /\ pipe[s].state = "open" => Prefix(Path(s) \o hand[s].fetch, sent[s])
          /\ pipe[s].state = "open" /\ conn[s] = "open" =>
                sent[s] = (Path(s) \o hand[s].fetch) \o inbox[s]
          /\ pipe[s].state = "open" /\ fetch[s] = "eof" => sent[s] = Path(s) /\ fin[s]
          /\ pipe[s].state = "closed" => sent[s] = Path(s) /\ Over(s))'
    BY <1>1, <1>4, <2>5
  <2>. QED
    BY <2>4, <2>6, <2>7 DEF Flow
<1>. QED
  BY <1>5, <1>6

\* A read of the connection moves what has arrived into the hand; an end is read after
\* all of it.
LEMMA FetchReadFlows ==
  ASSUME Types, Control, NEW s \in Side, FetchRead(s), \A r \in Side : Flow(r)
  PROVE  \A r \in Side : Flow(r)'
<1>1. UNCHANGED <<sent, got, fin, conn, pipe, cache, deliver, proc>>
  BY DEF FetchRead
<1>2. /\ \A r \in Side : hand'[r].deliver = hand[r].deliver
      /\ \A r \in Side : r # s => /\ hand'[r].fetch = hand[r].fetch
                                  /\ inbox'[r] = inbox[r] /\ fetch'[r] = fetch[r]
  BY FetchReadDoes
<1>o. Other(s) \in Side
  BY DEF Side, Other
<1>3. \A r \in Side : /\ (Intact(r)' <=> Intact(r)) /\ (Over(r)' <=> Over(r))
                      /\ (Done(r)' <=> Done(r)) /\ Cached(r)' = Cached(r)
  BY <1>1 DEF Intact, Over, Done, Cached
<1>4. ASSUME NEW r \in Side, r # s PROVE Flow(r)'
  <2>1. Other(r) \in Side
    BY DEF Side, Other
  <2>. QED
    BY <1>1, <1>2, <1>3, <1>4, <2>1, FlowSame
<1>5. Flow(s)'
  <2>0. Path(s)' = Path(s)
    BY <1>1, <1>2, <1>3, <1>o, PathSame
  <2>1. /\ sent[s] \in Chunks /\ inbox[s] \in Chunks /\ Path(s) \in Chunks
    BY Pieces
  <2>2. hand[s].fetch = <<>> /\ Path(s) \o <<>> = Path(s)
    BY <2>1, FetchReadDoes, ConcatEmpty DEF Control
  <2>3. CASE /\ conn[s] = "open" /\ inbox[s] # <<>> /\ hand'[s].fetch = inbox[s]
             /\ inbox'[s] = <<>> /\ fetch'[s] = "write"
    <3>1. ASSUME Intact(s), pipe[s].state = "open"
          PROVE  /\ Prefix(Path(s) \o inbox[s], sent[s])
                 /\ sent[s] = (Path(s) \o inbox[s]) \o <<>>
      <4>1. sent[s] = Path(s) \o inbox[s]
        BY <2>2, <2>3, <3>1 DEF Flow
      <4>2. sent[s] \o <<>> = sent[s] /\ Prefix(sent[s], sent[s])
        BY <2>1, ConcatEmpty, PrefixOfConcat
      <4>. QED
        BY <4>1, <4>2
    <3>2. /\ Prefix(got[Other(s)], sent[s])
          /\ Intact(s) => /\ Prefix(Path(s), sent[s])
                          /\ pipe[s].state = "closed" => sent[s] = Path(s) /\ Over(s)
          /\ Done(s) => got[Other(s)] = sent[s] /\ Over(s)
      BY DEF Flow
    <3>3. Intact(s)' =>
         (/\ Prefix(Path(s), sent[s])
          /\ pipe[s].state = "open" => Prefix(Path(s) \o hand[s].fetch, sent[s])
          /\ pipe[s].state = "open" /\ conn[s] = "open" =>
                sent[s] = (Path(s) \o hand[s].fetch) \o inbox[s]
          /\ pipe[s].state = "open" /\ fetch[s] = "eof" => sent[s] = Path(s) /\ fin[s]
          /\ pipe[s].state = "closed" => sent[s] = Path(s) /\ Over(s))'
      BY <1>1, <1>3, <2>0, <2>3, <3>1, <3>2
    <3>. QED
      BY <1>1, <1>3, <3>2, <3>3 DEF Flow
  <2>4. CASE /\ conn[s] = "open" /\ inbox[s] = <<>> /\ fin[s] /\ fetch'[s] = "eof"
             /\ hand'[s].fetch = hand[s].fetch /\ inbox'[s] = inbox[s]
    <3>1. Intact(s) /\ pipe[s].state = "open" => sent[s] = Path(s) /\ fin[s]
      BY <2>2, <2>4 DEF Flow
    <3>2. Intact(s)' =>
         (/\ Prefix(Path(s), sent[s])
          /\ pipe[s].state = "open" => Prefix(Path(s) \o hand[s].fetch, sent[s])
          /\ pipe[s].state = "open" /\ conn[s] = "open" =>
                sent[s] = (Path(s) \o hand[s].fetch) \o inbox[s]
          /\ pipe[s].state = "open" /\ fetch[s] = "eof" => sent[s] = Path(s) /\ fin[s]
          /\ pipe[s].state = "closed" => sent[s] = Path(s) /\ Over(s))'
      BY <1>1, <1>3, <2>0, <2>4, <3>1 DEF Flow
    <3>. QED
      BY <1>1, <1>3, <3>2 DEF Flow
  <2>5. CASE /\ conn[s] # "open" /\ fetch'[s] = "err"
             /\ hand'[s].fetch = hand[s].fetch /\ inbox'[s] = inbox[s]
    BY <1>1, <1>2, <1>3, <1>o, <2>5, FlowSame
  <2>. QED
    BY <2>3, <2>4, <2>5, FetchReadDoes
<1>. QED
  BY <1>4, <1>5

\* A write to an open pipe moves the chunks in the hand to the end of the path.
LEMMA FetchWriteFlows ==
  ASSUME Types, Control, NEW s \in Side, FetchWrite(s), \A r \in Side : Flow(r)
  PROVE  \A r \in Side : Flow(r)'
<1>1. UNCHANGED <<sent, got, fin, conn, inbox, cache, deliver, proc>>
  BY DEF FetchWrite, peers
<1>2. /\ hand'[s].fetch = <<>>
      /\ \A r \in Side : hand'[r].deliver = hand[r].deliver
      /\ \A r \in Side : pipe'[r].state = pipe[r].state
      /\ \A r \in Side : r # s => /\ hand'[r].fetch = hand[r].fetch
                                  /\ pipe'[r].data = pipe[r].data /\ fetch'[r] = fetch[r]
  BY FetchWriteDoes
<1>o. Other(s) \in Side
  BY DEF Side, Other
<1>3. \A r \in Side : /\ (Intact(r)' <=> Intact(r)) /\ (Over(r)' <=> Over(r))
                      /\ (Done(r)' <=> Done(r)) /\ Cached(r)' = Cached(r)
  BY <1>1 DEF Intact, Over, Done, Cached
<1>4. ASSUME NEW r \in Side, r # s PROVE Flow(r)'
  <2>1. Other(r) \in Side
    BY DEF Side, Other
  <2>. QED
    BY <1>1, <1>2, <1>3, <1>4, <2>1, FlowSame
<1>5. CASE /\ pipe[s].state = "open" /\ fetch'[s] = "read"
           /\ pipe'[s].data = pipe[s].data \o hand[s].fetch
  <2> DEFINE F == hand[s].fetch
  <2>1. /\ sent[s] \in Chunks /\ inbox[s] \in Chunks /\ Path(s) \in Chunks /\ F \in Chunks
        /\ pipe[s].data \in Chunks /\ Cached(s) \in Chunks
        /\ Cached(s) \o pipe[s].data \in Chunks
        /\ hand[Other(s)].deliver \o (Cached(s) \o pipe[s].data) \in Chunks
        /\ got[Other(s)] \in Chunks /\ hand[Other(s)].deliver \in Chunks
    BY Pieces
  <2>2. Path(s)' = Path(s) \o F
    <3>1. Path(s)' = got[Other(s)]
                      \o (hand[Other(s)].deliver \o (Cached(s) \o (pipe[s].data \o F)))
      BY <1>1, <1>2, <1>3, <1>o, <1>5, Zenon DEF Path
    <3>2. \A c \in Chunks :
            got[Other(s)] \o (hand[Other(s)].deliver \o (Cached(s) \o (pipe[s].data \o c)))
              = (got[Other(s)] \o (hand[Other(s)].deliver \o (Cached(s) \o pipe[s].data))) \o c
      <4>1. \A w, x, y, z, c \in Chunks :
              w \o (x \o (y \o (z \o c))) = (w \o (x \o (y \o z))) \o c
        BY ConcatFour
      <4>2. /\ got[Other(s)] \in Chunks /\ hand[Other(s)].deliver \in Chunks
            /\ Cached(s) \in Chunks /\ pipe[s].data \in Chunks
        BY <2>1
      <4>3. \A y, z, c \in Chunks :
              got[Other(s)] \o (hand[Other(s)].deliver \o (y \o (z \o c)))
                = (got[Other(s)] \o (hand[Other(s)].deliver \o (y \o z))) \o c
        BY <4>1, <4>2, Zenon
      <4>. QED
        BY <4>2, <4>3, Zenon
    <3>. QED
      BY <2>1, <3>1, <3>2, Zenon DEF Path
  <2>3. Path(s) \o F \in Chunks /\ (Path(s) \o F) \o <<>> = Path(s) \o F
    BY <2>1, ConcatIn, ConcatEmpty
  <2>4. Path(s)' \o hand'[s].fetch = Path(s) \o F
    BY <1>2, <2>2, <2>3
  <2> HIDE DEF F
  <2>5. Intact(s) => /\ Prefix(Path(s) \o F, sent[s])
                     /\ conn[s] = "open" => sent[s] = (Path(s) \o F) \o inbox[s]
    BY <1>5 DEF Flow, F
  <2>6. Intact(s)' =>
         (/\ Prefix(Path(s), sent[s])
          /\ pipe[s].state = "open" => Prefix(Path(s) \o hand[s].fetch, sent[s])
          /\ pipe[s].state = "open" /\ conn[s] = "open" =>
                sent[s] = (Path(s) \o hand[s].fetch) \o inbox[s]
          /\ pipe[s].state = "open" /\ fetch[s] = "eof" => sent[s] = Path(s) /\ fin[s]
          /\ pipe[s].state = "closed" => sent[s] = Path(s) /\ Over(s))'
    BY <1>1, <1>2, <1>3, <1>5, <2>2, <2>4, <2>5
  <2>7. Flow(s)'
    BY <1>1, <1>3, <2>6 DEF Flow
  <2>. QED
    BY <1>4, <2>7
<1>6. CASE /\ pipe[s].state # "open" /\ fetch'[s] = "err"
           /\ pipe'[s].data = pipe[s].data
  <2>1. Flow(s)'
    BY <1>1, <1>2, <1>3, <1>o, <1>6, FlowSame
  <2>. QED
    BY <1>4, <2>1
<1>. QED
  BY <1>5, <1>6, FetchWriteDoes

\* The end of the stream closes the pipe behind all that was sent.
LEMMA FetchCloseFlows ==
  ASSUME Types, Control, NEW s \in Side, FetchClose(s), \A r \in Side : Flow(r)
  PROVE  \A r \in Side : Flow(r)'
<1>1. UNCHANGED <<sent, got, fin, conn, inbox, cache, deliver, hand, proc>>
  BY DEF FetchClose, peers
<1>2. /\ fetch[s] = "eof" /\ fetch'[s] = "done"
      /\ \A r \in Side : pipe'[r].data = pipe[r].data
      /\ \A r \in Side : r # s => pipe'[r].state = pipe[r].state /\ fetch'[r] = fetch[r]
      /\ pipe'[s].state = IF pipe[s].state = "open" THEN "closed" ELSE pipe[s].state
  BY FetchCloseDoes
<1>3. \A r \in Side : /\ (Intact(r)' <=> Intact(r)) /\ (Over(r)' <=> Over(r))
                      /\ (Done(r)' <=> Done(r)) /\ Cached(r)' = Cached(r)
  BY <1>1 DEF Intact, Over, Done, Cached
<1>4. ASSUME NEW r \in Side, r # s PROVE Flow(r)'
  BY <1>1, <1>2, <1>3, <1>4, FlowSame
<1>5. Flow(s)'
  <2>1. Path(s)' = Path(s)
    BY <1>1, <1>2, <1>3, PathSame
  <2>2. CASE pipe[s].state = "open"
    <3>1. Intact(s) => sent[s] = Path(s) /\ Over(s) /\ Prefix(Path(s), sent[s])
      BY <1>2, <2>2 DEF Flow, Over
    <3>. QED
      BY <1>1, <1>2, <1>3, <2>1, <2>2, <3>1 DEF Flow
  <2>3. CASE pipe[s].state # "open"
    BY <1>1, <1>2, <1>3, <2>3, FlowSame
  <2>. QED
    BY <2>2, <2>3
<1>. QED
  BY <1>4, <1>5

\* A read of the pipe moves its data, or what is cached, into the hand.  Nothing passes
\* anything else, and an end is read only after all of it.
LEMMA DeliverReadFlows ==
  ASSUME Types, Control, NEW s \in Side, DeliverRead(s), \A r \in Side : Flow(r)
  PROVE  \A r \in Side : Flow(r)'
<1> DEFINE d == Other(s)
<1>0. d \in Side /\ Other(d) = s /\ d # s /\ \A r \in Side : r = s \/ r = d
  BY DEF Side, Other
<1>1. UNCHANGED <<sent, got, fin, conn, inbox, fetch, proc>>
  BY DEF DeliverRead, peers
<1>2. /\ deliver[s] = "read"
      /\ \A r \in Side : hand'[r].fetch = hand[r].fetch
      /\ \A r \in Side : pipe'[r].state = pipe[r].state
      /\ \A r \in Side : r # s => hand'[r].deliver = hand[r].deliver
                                  /\ deliver'[r] = deliver[r]
      /\ pipe'[s].data = pipe[s].data
  BY DeliverReadDoes
<1>3. \A r \in Side : (Over(r)' <=> Over(r))
  BY <1>1 DEF Over
<1>4. Flow(s)'
  <2>1. Cached(s)' = Cached(s)
    BY DeliverReadDoes DEF Cached, Side
  <2>2. (Intact(s)' <=> Intact(s)) /\ (Done(s)' <=> Done(s))
    BY <1>0, <1>1, <1>2 DEF Intact, Done
  <2>. QED
    BY <1>0, <1>1, <1>2, <1>3, <2>1, <2>2, FlowSame
<1>5. /\ hand[s].deliver = <<>> /\ <<>> \in Chunks
      /\ Cached(d) \in Chunks /\ pipe[d].data \in Chunks
      /\ Cached(d) \o pipe[d].data \in Chunks
      /\ Path(d) = got[s] \o (<<>> \o (Cached(d) \o pipe[d].data))
  BY <1>0, <1>2, Pieces DEF Control, Path, Chunks
<1>6. \A c \in Chunks : c \o <<>> = c /\ <<>> \o c = c
  BY ConcatEmpty
<1>7. Path(d)' = got[s] \o (hand'[s].deliver \o (Cached(d)' \o pipe'[d].data))
  BY <1>0, <1>1, Zenon DEF Path
<1>8. ASSUME Path(d)' = Path(d), deliver'[s] = "write" PROVE Flow(d)'
  <2>1. (Intact(d)' <=> Intact(d)) /\ ~Done(d)'
    BY <1>0, <1>1, <1>2, <1>8 DEF Intact, Done
  <2>2. /\ Prefix(got'[Other(d)], sent[d])
        /\ Intact(d) => Prefix(Path(d)', sent[d])
    BY <1>0, <1>1, <1>8 DEF Flow
  <2> HIDE DEF d
  <2>. QED
    BY <1>0, <1>1, <1>2, <1>3, <1>8, <2>1, <2>2, FlowKept
<1>9. CASE /\ s = "out" /\ cache # <<>> /\ deliver'[s] = "write"
           /\ hand'[s].deliver = cache /\ cache' = <<>>
           /\ pipe'[d].data = pipe[d].data
  <2>1. Cached(d) = cache /\ Cached(d)' = <<>>
    BY <1>9 DEF Cached, Other
  <2>2. Path(d)' = Path(d)
    <3>1. <<>> \o pipe[d].data = pipe[d].data
      BY <1>5, <1>6
    <3>2. <<>> \o (Cached(d) \o pipe[d].data) = Cached(d) \o pipe[d].data
      BY <1>5, <1>6
    <3>3. Path(d)' = got[s] \o (Cached(d) \o (<<>> \o pipe[d].data))
      BY <1>7, <1>9, <2>1, Zenon
    <3>. QED
      BY <1>5, <3>1, <3>2, <3>3, Zenon
  <2>. QED
    BY <1>0, <1>4, <1>8, <1>9, <2>2
<1>10. CASE /\ s = "out" => cache = <<>>
            /\ deliver'[s] = "write" /\ cache' = cache
            /\ pipe[d].data # <<>> /\ hand'[s].deliver = pipe[d].data
            /\ pipe'[d].data = <<>>
  <2>1. Cached(d) = <<>> /\ Cached(d)' = <<>>
    BY <1>10 DEF Cached, Other, Side
  <2>2. Path(d)' = Path(d)
    BY <1>5, <1>6, <1>7, <1>10, <2>1
  <2>. QED
    BY <1>0, <1>4, <1>8, <1>10, <2>2
<1>11. CASE /\ s = "out" => cache = <<>>
            /\ pipe[d].data = <<>> /\ pipe'[d].data = <<>>
            /\ pipe[d].state # "open"
            /\ deliver'[s] = IF pipe[d].state = "closed" THEN "done" ELSE "err"
            /\ hand'[s].deliver = hand[s].deliver /\ cache' = cache
  <2>1. Cached(d) = <<>> /\ Cached(d)' = <<>>
    BY <1>11 DEF Cached, Other, Side
  <2>2. Path(d)' = Path(d)
    BY <1>5, <1>7, <1>11, <2>1
  <2>3. Path(d) = got[s]
    <3>1. got[s] \in Chunks
      BY Pieces
    <3>. QED
      BY <1>5, <1>6, <1>11, <2>1, <3>1
  <2>4. Intact(d)' => Intact(d)
    BY <1>0, <1>1, <1>2 DEF Intact
  <2>5. Done(d)' => Intact(d) /\ pipe[d].state = "closed"
    BY <1>0, <1>1, <1>2, <1>11 DEF Intact, Done, Control, Other, Side
  <2>6. Prefix(got[s], sent[d])
    BY <1>0 DEF Flow
  <2>7. Done(d)' => (got[Other(d)] = sent[d] /\ Over(d))'
    BY <1>0, <1>1, <1>3, <2>3, <2>5 DEF Flow
  <2>8. Intact(d)' =>
         (/\ Prefix(Path(d), sent[d])
          /\ pipe[d].state = "closed" => sent[d] = Path(d) /\ Over(d))'
    BY <1>0, <1>1, <1>2, <1>3, <2>2, <2>4 DEF Flow
  <2> HIDE DEF d
  <2>9. pipe'[d].state # "open"
    BY <1>0, <1>2, <1>11
  <2>10. Flow(d)'
    BY <1>0, <1>1, <2>6, <2>7, <2>8, <2>9 DEF Flow
  <2>. QED
    BY <1>0, <1>4, <2>10
<1>. QED
  BY <1>9, <1>10, <1>11, DeliverReadDoes

\* A write to the connection hands over what comes next.
LEMMA DeliverWriteFlows ==
  ASSUME Types, Control, NEW s \in Side, DeliverWrite(s), \A r \in Side : Flow(r)
  PROVE  \A r \in Side : Flow(r)'
<1> DEFINE d == Other(s)
<1>0. d \in Side /\ Other(d) = s /\ d # s /\ \A r \in Side : r = s \/ r = d
  BY DEF Side, Other
<1>1. UNCHANGED <<sent, fin, conn, inbox, pipe, cache, fetch, proc>>
  BY DEF DeliverWrite
<1>2. /\ deliver[s] = "write" /\ hand'[s].deliver = <<>>
      /\ \A r \in Side : hand'[r].fetch = hand[r].fetch
      /\ \A r \in Side : r # s => /\ hand'[r].deliver = hand[r].deliver
                                  /\ got'[r] = got[r] /\ deliver'[r] = deliver[r]
  BY DeliverWriteDoes
<1>3. \A r \in Side : (Over(r)' <=> Over(r)) /\ Cached(r)' = Cached(r)
  BY <1>1 DEF Over, Cached
<1>4. Flow(s)'
  <2>2. (Intact(s)' <=> Intact(s)) /\ (Done(s)' <=> Done(s))
    BY <1>0, <1>1, <1>2 DEF Intact, Done
  <2>. QED
    BY <1>0, <1>1, <1>2, <1>3, <2>2, FlowSame
<1>5. CASE /\ conn[s] = "open" /\ deliver'[s] = "read"
           /\ got'[s] = got[s] \o hand[s].deliver
  <2>1. /\ got[s] \in Chunks /\ hand[s].deliver \in Chunks /\ sent[d] \in Chunks
        /\ Cached(d) \o pipe[d].data \in Chunks
    BY <1>0, Pieces
  <2>a. (got[s] \o hand[s].deliver) \o (Cached(d) \o pipe[d].data)
          = got[s] \o (hand[s].deliver \o (Cached(d) \o pipe[d].data))
    <3>1. \A a, b, c \in Chunks : (a \o b) \o c = a \o (b \o c)
      BY ConcatAssoc
    <3>. QED
      BY <2>1, <3>1
  <2>2. Path(d)' = Path(d)
    <3>1. Path(d)' = (got[s] \o hand[s].deliver) \o (<<>> \o (Cached(d) \o pipe[d].data))
      BY <1>0, <1>1, <1>2, <1>3, <1>5, Zenon DEF Path
    <3>2. <<>> \o (Cached(d) \o pipe[d].data) = Cached(d) \o pipe[d].data
      BY <2>1, ConcatEmpty
    <3>. QED
      BY <1>0, <2>a, <3>1, <3>2, Zenon DEF Path
  <2>3. Intact(d)
    BY <1>0, <1>2, <1>5 DEF Intact, Control, Types, Side, Other
  <2>4. (Intact(d)' <=> Intact(d)) /\ ~Done(d)'
    BY <1>0, <1>1, <1>2, <1>5 DEF Intact, Done
  <2>5. Prefix(Path(d), sent[d])
    BY <1>0, <2>3 DEF Flow
  <2>6. Prefix(got[s] \o hand[s].deliver, sent[d])
    <3>1. Path(d) = (got[s] \o hand[s].deliver) \o (Cached(d) \o pipe[d].data)
      BY <1>0, <2>a, Zenon DEF Path
    <3>2. got[s] \o hand[s].deliver \in Chunks
      BY <2>1, ConcatIn
    <3>. QED
      BY <2>1, <2>5, <3>1, <3>2, PrefixShrinks
  <2> HIDE DEF d
  <2>7. Flow(d)'
    BY <1>0, <1>1, <1>2, <1>3, <1>5, <2>2, <2>4, <2>5, <2>6, FlowKept
  <2>. QED
    BY <1>0, <1>4, <2>7
<1>6. CASE conn[s] # "open" /\ deliver'[s] = "err" /\ got'[s] = got[s]
  <2>1. ~Intact(d)' /\ ~Done(d)'
    BY <1>0, <1>6 DEF Intact, Done
  <2> HIDE DEF d
  <2>2. Flow(d)'
    BY <1>0, <1>1, <1>6, <2>1 DEF Flow
  <2>. QED
    BY <1>0, <1>4, <2>2
<1>. QED
  BY <1>5, <1>6, DeliverWriteDoes

\* The sniffer moves data from the pipe to the end of the cache.
LEMMA CacheFlows ==
  ASSUME Types, Control, Cache, \A r \in Side : Flow(r)
  PROVE  \A r \in Side : Flow(r)'
<1>0. /\ "in" \in Side /\ "out" \in Side /\ Other("in") = "out" /\ Other("out") = "in"
      /\ \A r \in Side : r = "in" \/ r = "out"
  BY DEF Side, Other
<1>1. UNCHANGED <<sent, got, fin, conn, inbox, fetch, deliver, hand, proc>>
  BY DEF Cache, peers, tasks
<1>2. /\ cache' = cache \o pipe["in"].data
      /\ pipe'["in"].data = <<>> /\ pipe'["in"].state = pipe["in"].state
      /\ pipe'["out"] = pipe["out"]
  BY <1>0 DEF Cache, Types, Pipes
<1>3. \A r \in Side : /\ (Intact(r)' <=> Intact(r)) /\ (Over(r)' <=> Over(r))
                      /\ (Done(r)' <=> Done(r))
  BY <1>1 DEF Intact, Over, Done
<1>4. Flow("out")'
  <2>1. Cached("out")' = Cached("out")
    BY DEF Cached
  <2>. QED
    BY <1>0, <1>1, <1>2, <1>3, <2>1, FlowSame
<1>5. Flow("in")'
  <2>1. Cached("in") = cache /\ Cached("in")' = cache'
    BY DEF Cached
  <2>2. cache \o pipe["in"].data \in Chunks
    BY <1>0, <2>1, Pieces
  <2>3. cache' \o pipe'["in"].data = cache \o pipe["in"].data
    BY <1>2, <2>2, ConcatEmpty
  <2>4. Path("in")' = Path("in")
    BY <1>0, <1>1, <2>1, <2>3, Zenon DEF Path
  <2>5. /\ Prefix(got'[Other("in")], sent["in"])
        /\ Intact("in") => Prefix(Path("in")', sent["in"])
    BY <1>0, <1>1, <2>4 DEF Flow
  <2>. QED
    BY <1>0, <1>1, <1>2, <1>3, <2>4, <2>5, FlowKept
<1>. QED
  BY <1>0, <1>4, <1>5

\* Without what is in the pipe the path is still the beginning of what was sent.
LEMMA CutPath ==
  ASSUME Types, NEW s \in Side, Prefix(Path(s), sent[s])
  PROVE  Prefix(got[Other(s)] \o (hand[Other(s)].deliver \o (Cached(s) \o <<>>)), sent[s])
<1>1. /\ sent[s] \in Chunks /\ pipe[s].data \in Chunks /\ Cached(s) \in Chunks
      /\ got[Other(s)] \in Chunks /\ hand[Other(s)].deliver \in Chunks
  BY Pieces
<1>2. <<>> \in Chunks /\ Cached(s) \o <<>> = Cached(s)
  BY <1>1, ConcatEmpty DEF Chunks
<1>3. \A g, h, c, e \in Chunks : g \o (h \o (c \o e)) = (g \o (h \o c)) \o e
  <2> TAKE g, h, c, e \in Chunks
  <2>1. h \o c \in Chunks /\ g \o (h \o c) \in Chunks
    BY ConcatIn
  <2>2. (h \o c) \o e = h \o (c \o e)
    BY ConcatAssoc
  <2>3. \A x \in Chunks : (g \o x) \o e = g \o (x \o e)
    BY ConcatAssoc
  <2>. QED
    BY <2>1, <2>2, <2>3, Zenon
<1>4. PICK a \in Chunks : a = got[Other(s)] \o (hand[Other(s)].deliver \o Cached(s))
  BY <1>1, ConcatIn
<1>5. \A c, e \in Chunks :
        got[Other(s)] \o (hand[Other(s)].deliver \o (c \o e))
          = (got[Other(s)] \o (hand[Other(s)].deliver \o c)) \o e
  <2>1. got[Other(s)] \in Chunks /\ hand[Other(s)].deliver \in Chunks
    BY <1>1
  <2>. QED
    BY <1>3, <2>1, Zenon
<1>6. Path(s) = a \o pipe[s].data
  BY <1>1, <1>4, <1>5, Zenon DEF Path
<1>7. Prefix(a, sent[s])
  BY <1>1, <1>6, PrefixShrinks
<1>. QED
  BY <1>2, <1>4, <1>7

\* What a pipe loses when it is interrupted is from the end of what was sent.
LEMMA InterruptFlows ==
  ASSUME Types, NEW s \in Side, Flow(s),
         pipe'[s] = Interrupted(pipe[s]),
         Cached(s)' = Cached(s),
         UNCHANGED <<sent, got, fin, conn, inbox, fetch, hand>>,
         Intact(s)' => Intact(s), Over(s) => Over(s)', Done(s)' => Done(s)
  PROVE  Flow(s)'
<1>1. pipe[s] \in Pipes
  BY DEF Types
<1>2. CASE pipe[s].state = "open"
  <2>1. pipe'[s].state = "errord" /\ pipe'[s].data = <<>>
    BY <1>1, <1>2, InterruptedDoes
  <2>2. Path(s)' = got[Other(s)] \o (hand[Other(s)].deliver \o (Cached(s) \o <<>>))
    BY <2>1, Zenon DEF Path
  <2>3. Intact(s) => Prefix(Path(s)', sent[s])
    BY <2>2, CutPath DEF Flow
  <2>4. Prefix(got'[Other(s)], sent[s])
    BY DEF Flow
  <2>. QED
    BY <2>1, <2>3, <2>4, FlowKept
<1>3. CASE pipe[s].state # "open"
  <2>1. pipe'[s] = pipe[s]
    BY <1>1, <1>3, InterruptedDoes
  <2>. QED
    BY <2>1, FlowSame
<1>. QED
  BY <1>2, <1>3

\* The end of the outbound leaves what the client has, and the response.
LEMMA HandlerFlows ==
  ASSUME Types, Control, Silent, NoRoute \/ HandlerEnds, \A r \in Side : Flow(r)
  PROVE  \A r \in Side : Flow(r)'
<1>0. /\ "in" \in Side /\ "out" \in Side /\ Other("in") = "out" /\ Other("out") = "in"
      /\ \A r \in Side : r = "in" \/ r = "out"
  BY DEF Side, Other
<1>1. /\ UNCHANGED <<sent, got, fin, conn, inbox, fetch, deliver, hand>>
      /\ proc'.out = "returned" /\ proc.out \in {"route", "failed", "passed"}
  BY <1>0 DEF NoRoute, HandlerEnds, peers, tasks, Types
<1>2. Flow("in")'
  <2>1. ~Intact("in")' /\ ~Done("in")'
    BY <1>1 DEF Intact, Done
  <2>2. Prefix(got["out"], sent["in"])
    BY <1>0 DEF Flow
  <2>. QED
    BY <1>0, <1>1, <2>1, <2>2 DEF Flow
<1>3. Flow("out")'
  <2>1. /\ Cached("out")' = Cached("out") /\ (Intact("out")' <=> Intact("out"))
        /\ (Done("out")' <=> Done("out")) /\ (Over("out") => Over("out")')
    BY <1>0, <1>1 DEF Cached, Intact, Done, Over
  <2>2. pipe["out"] \in Pipes
    BY <1>0 DEF Types
  <2>3. CASE pipe'["out"] = Interrupted(pipe["out"])
    BY <1>0, <1>1, <2>1, <2>3, InterruptFlows
  <2>4. CASE pipe'["out"] = CloseW(pipe["out"]) /\ pipe["out"].state # "open"
    <3>1. pipe'["out"] = pipe["out"]
      BY <2>2, <2>4, InterruptedDoes
    <3>. QED
      BY <1>0, <1>1, <2>1, <3>1, FlowSame
  <2>5. CASE /\ pipe'["out"] = CloseW(pipe["out"]) /\ pipe["out"].state = "open"
             /\ proc.out = "route"
    <3>1. pipe'["out"].data = pipe["out"].data /\ pipe'["out"].state = "closed"
      BY <2>2, <2>5, InterruptedDoes
    <3>2. conn.out = "none"
      BY <2>5 DEF Control
    <3>3. /\ sent["out"] = <<>> /\ got["in"] = <<>> /\ pipe["out"].data = <<>>
          /\ hand["in"].deliver = <<>> /\ Cached("out") = <<>>
      BY <3>2 DEF Silent, Cached
    <3>4. Path("out")' = <<>>
      <4>1. Path("out")' = <<>> \o (<<>> \o (<<>> \o <<>>))
        BY <1>0, <1>1, <2>1, <3>1, <3>3, Zenon DEF Path
      <4>2. <<>> \o <<>> = <<>>
        BY ConcatEmpty DEF Chunks
      <4>. QED
        BY <4>1, <4>2
    <3>5. Over("out")'
      BY <1>1, <3>2 DEF Over
    <3>6. Prefix(<<>>, <<>>)
      <4>1. <<>> \in Chunks
        BY DEF Chunks
      <4>. QED
        BY <4>1, PrefixOfConcat
    <3>. QED
      BY <1>0, <1>1, <3>1, <3>3, <3>4, <3>5, <3>6 DEF Flow
  <2>6. \/ pipe'["out"] = Interrupted(pipe["out"])
        \/ pipe'["out"] = CloseW(pipe["out"]) /\ proc.out \in {"route", "passed"}
    <3>1. \/ pipe' = [in |-> Interrupted(pipe["in"]), out |-> Interrupted(pipe["out"])]
          \/ /\ pipe' = [in |-> Interrupted(pipe["in"]), out |-> CloseW(pipe["out"])]
             /\ proc.out \in {"route", "passed"}
      BY DEF NoRoute, HandlerEnds
    <3>. QED
      BY <3>1
  <2>7. proc.out = "passed" => pipe["out"].state # "open"
    BY <1>0 DEF Control
  <2>. QED
    BY <2>3, <2>4, <2>5, <2>6, <2>7
<1>. QED
  BY <1>0, <1>2, <1>3

\* Every step preserves the flow of both directions.
LEMMA FlowStep ==
  ASSUME Types, Control, Silent, [Next]_vars, \A r \in Side : Flow(r)
  PROVE  \A r \in Side : Flow(r)'
<1> USE DEF peers, tasks, timers, contexts
<1>0. /\ "in" \in Side /\ "out" \in Side /\ Other("in") = "out" /\ Other("out") = "in"
      /\ \A r \in Side : r = "in" \/ r = "out"
  BY DEF Side, Other
<1>1. ASSUME NEW s \in Side, PeerFin(s) \/ PeerReset(s) PROVE \A r \in Side : Flow(r)'
  <2>1. UNCHANGED <<sent, got, pipe, cache, fetch, deliver, hand, proc>>
    BY <1>1 DEF PeerFin, PeerReset
  <2>2. \A r \in Side : /\ (Intact(r)' <=> Intact(r)) /\ (Done(r)' <=> Done(r))
                        /\ Cached(r)' = Cached(r)
    BY <2>1 DEF Intact, Done, Cached
  <2>3. \A r \in Side : /\ conn'[r] = "open" => conn[r] = "open" /\ inbox'[r] = inbox[r]
                        /\ fin[r] => fin'[r]
                        /\ conn[r] = "none" => conn'[r] = "none"
    BY <1>1 DEF PeerFin, PeerReset, Types
  <2>4. \A r \in Side : Over(r) => Over(r)'
    BY <1>0, <2>1, <2>3 DEF Over
  <2>. QED
    BY <2>1, <2>2, <2>3, <2>4, FlowSame
<1>2. CASE Sniffed \/ routedDispatch \/ DialFails
  <2>1. UNCHANGED <<sent, got, fin, conn, inbox, pipe, cache, fetch, deliver, hand>>
    BY <1>2 DEF Sniffed, routedDispatch, DialFails
  <2>2. proc.out \in {"sniff", "route", "dial"} /\ proc'.out \in {"route", "dial", "failed"}
    BY <1>2, <1>0 DEF Sniffed, routedDispatch, DialFails, Types
  <2>3. \A r \in Side : /\ Intact(r)' => Intact(r)
                        /\ Done(r)' => Done(r)
                        /\ Cached(r)' = Cached(r)
                        /\ Over(r) => Over(r)'
    BY <1>0, <2>1, <2>2 DEF Intact, Done, Cached, Over
  <2>. QED
    BY <2>1, <2>3, FlowSame
<1>3. CASE Dial
  <2>1. UNCHANGED <<sent, got, fin, inbox, pipe, cache, hand>>
    BY <1>3 DEF Dial
  <2>2. /\ proc.out = "dial" /\ proc'.out = "run" /\ conn'["in"] = conn["in"]
        /\ fetch'["in"] = fetch["in"] /\ fetch'["out"] = "read"
        /\ deliver'["in"] = deliver["in"] /\ deliver'["out"] = "read"
    BY <1>0, <1>3 DEF Dial, Types
  <2>3. conn.out = "none" /\ deliver.out = "none" /\ fetch.out = "none"
    BY <2>2 DEF Control, Types
  <2>4. \A r \in Side : Cached(r)' = Cached(r)
    BY <2>1 DEF Cached
  <2>5. Flow("in")'
    <3>1. /\ Intact("in")' => Intact("in")
          /\ ~Done("in")' /\ (Over("in")' <=> Over("in"))
      BY <1>0, <2>1, <2>2, <2>3 DEF Intact, Done, Over
    <3>. QED
      BY <1>0, <2>1, <2>2, <2>4, <3>1, FlowSame
  <2>6. Flow("out")'
    <3>1. /\ (Intact("out")' <=> Intact("out")) /\ (Done("out")' <=> Done("out"))
          /\ Over("out") => Over("out")'
      BY <1>0, <2>1, <2>2 DEF Intact, Done, Over
    <3>2. Path("out")' = Path("out")
      BY <1>0, <2>1, <2>4, PathSame
    <3>3. /\ sent["out"] = <<>> /\ got["in"] = <<>> /\ pipe["out"].data = <<>>
          /\ hand["in"].deliver = <<>> /\ Cached("out") = <<>>
      BY <2>3 DEF Silent, Cached
    <3>4. hand["out"].fetch = <<>> /\ inbox["out"] = <<>>
      BY <1>0, <2>3 DEF Control
    <3>5. Path("out") = <<>> \o (<<>> \o (<<>> \o <<>>))
      BY <1>0, <3>3, Zenon DEF Path
    <3>6. <<>> \o <<>> = <<>>
      BY ConcatEmpty DEF Chunks
    <3>7. sent["out"] = (Path("out") \o hand["out"].fetch) \o inbox["out"]
      BY <3>3, <3>4, <3>5, <3>6
    <3>8. Intact("out")' =>
         (/\ Prefix(Path("out"), sent["out"])
          /\ pipe["out"].state = "open" =>
                Prefix(Path("out") \o hand["out"].fetch, sent["out"])
          /\ pipe["out"].state = "open" /\ conn["out"] = "open" =>
                sent["out"] = (Path("out") \o hand["out"].fetch) \o inbox["out"]
          /\ pipe["out"].state = "open" /\ fetch["out"] = "eof" =>
                sent["out"] = Path("out") /\ fin["out"]
          /\ pipe["out"].state = "closed" => sent["out"] = Path("out") /\ Over("out"))'
      BY <1>0, <2>1, <2>2, <3>1, <3>2, <3>7 DEF Flow
    <3>. QED
      BY <1>0, <2>1, <3>1, <3>8 DEF Flow
  <2>. QED
    BY <1>0, <2>5, <2>6
<1>4. ASSUME NEW s \in Side, Timeout(s) \/ TimerStep(s) PROVE \A r \in Side : Flow(r)'
  <2>1. UNCHANGED <<sent, got, fin, conn, inbox, pipe, cache, fetch, deliver, hand, proc>>
    BY <1>4 DEF Timeout, TimerStep, TaskSetTimeout, TaskSetTimeoutBlocks
  <2>2. \A r \in Side : /\ (Intact(r)' <=> Intact(r)) /\ (Done(r)' <=> Done(r))
                        /\ Cached(r)' = Cached(r) /\ (Over(r)' <=> Over(r))
    BY <2>1 DEF Intact, Done, Cached, Over
  <2>. QED
    BY <2>1, <2>2, FlowSame
<1>5. CASE RunError("in")
  <2>1. UNCHANGED <<sent, got, fin, conn, inbox, cache, fetch, deliver, hand>>
    BY <1>5 DEF RunError
  <2>2. proc'.out = proc.out /\ \A r \in Side : pipe'[r] = Interrupted(pipe[r])
    BY <1>0, <1>5 DEF RunError, Types
  <2>3. \A r \in Side : /\ (Intact(r)' <=> Intact(r)) /\ (Done(r)' <=> Done(r))
                        /\ Cached(r)' = Cached(r) /\ (Over(r)' <=> Over(r))
    BY <2>1, <2>2 DEF Intact, Done, Cached, Over
  <2>. QED
    BY <2>1, <2>2, <2>3, InterruptFlows
<1>6. CASE RunError("out") \/ RunPasses("out")
  <2>1. UNCHANGED <<sent, got, fin, pipe, cache, fetch, deliver, hand>>
    BY <1>6 DEF RunError, RunPasses
  <2>2. /\ proc.out = "run" /\ proc'.out \in {"failed", "passed"}
        /\ conn'["out"] # "open" /\ conn'["in"] = conn["in"] /\ inbox'["in"] = inbox["in"]
        /\ conn["out"] # "none"
    BY <1>0, <1>6 DEF RunError, RunPasses, Passed, Tasks, Closed, Types, Control
  <2>3. \A r \in Side : /\ Intact(r)' => Intact(r)
                        /\ Done(r)' => Done(r)
                        /\ Cached(r)' = Cached(r)
                        /\ Over(r) => Over(r)'
    BY <1>0, <2>1, <2>2 DEF Intact, Done, Cached, Over
  <2>4. \A r \in Side : conn'[r] = "open" => conn[r] = "open" /\ inbox'[r] = inbox[r]
    BY <1>0, <2>2
  <2>. QED
    BY <2>1, <2>3, <2>4, FlowSame
<1>7. CASE RunPasses("in") \/ callback
  <2>1. UNCHANGED <<sent, got, fin, pipe, cache, fetch, deliver, hand>>
    BY <1>7 DEF RunPasses, Passed, Tasks, callback
  <2>2. /\ proc'.out = proc.out /\ conn'["out"] = conn["out"] /\ inbox'["out"] = inbox["out"]
        /\ conn'["in"] = "open" => conn["in"] = "open" /\ inbox'["in"] = inbox["in"]
    BY <1>0, <1>7 DEF RunPasses, Passed, Tasks, callback, Closed, Types
  <2>3. \A r \in Side : /\ (Intact(r)' <=> Intact(r)) /\ (Done(r)' <=> Done(r))
                        /\ Cached(r)' = Cached(r) /\ (Over(r)' <=> Over(r))
    BY <2>1, <2>2 DEF Intact, Done, Cached, Over
  <2>4. \A r \in Side : conn'[r] = "open" => conn[r] = "open" /\ inbox'[r] = inbox[r]
    BY <1>0, <2>2
  <2>. QED
    BY <2>1, <2>3, <2>4, FlowSame
<1>8. CASE UNCHANGED vars
  <2>1. UNCHANGED <<sent, got, fin, conn, inbox, pipe, cache, fetch, deliver, hand, proc>>
    BY <1>8 DEF vars
  <2>2. \A r \in Side : /\ (Intact(r)' <=> Intact(r)) /\ (Done(r)' <=> Done(r))
                        /\ Cached(r)' = Cached(r) /\ (Over(r)' <=> Over(r))
    BY <2>1 DEF Intact, Done, Cached, Over
  <2>. QED
    BY <2>1, <2>2, FlowSame
<1>9. ASSUME NEW s \in Side,
             \/ PeerSend(s) \/ FetchRead(s) \/ FetchWrite(s) \/ FetchClose(s)
             \/ DeliverRead(s) \/ DeliverWrite(s)
      PROVE  \A r \in Side : Flow(r)'
  BY <1>9, PeerSendFlows, FetchReadFlows, FetchWriteFlows, FetchCloseFlows,
     DeliverReadFlows, DeliverWriteFlows
<1>10. CASE Cache \/ NoRoute \/ HandlerEnds
  BY <1>10, CacheFlows, HandlerFlows
<1>11. ASSUME NEW s \in Side, RunError(s) \/ RunPasses(s) PROVE \A r \in Side : Flow(r)'
  BY <1>0, <1>5, <1>6, <1>7, <1>11
<1>. QED
  BY <1>1, <1>2, <1>3, <1>4, <1>7, <1>8, <1>9, <1>10, <1>11
  DEF Next, FetchStep, DeliverStep, RunReturns, DispatchStep, EndStep
-----------------------------------------------------------------------------
(* Why the inbound fails. *)

\* Each reason for the inbound to fail leaves a trace that stays.
Excuses ==
    /\ conn["in"] = "closed" => proc["in"] = "returned"
    /\ cancelled["in"] => timedOut["in"] \/ proc["in"] = "returned"
    /\ deliver["in"] = "err" => pipe.out.state = "errord" \/ conn["in"] # "open"
    /\ proc["in"] = "failed" => \/ fetch["in"] = "err" \/ pipe.out.state = "errord"
                                \/ conn["in"] = "reset" \/ timedOut["in"]

\* Every step preserves the traces.
LEMMA ExcusesStep ==
  ASSUME Types, Control, Excuses, [Next]_vars
  PROVE  Excuses'
<1> USE DEF peers, tasks, timers, contexts
<1>0. /\ "in" \in Side /\ "out" \in Side /\ Other("in") = "out" /\ Other("out") = "in"
      /\ \A r \in Side : r = "in" \/ r = "out"
  BY DEF Side, Other
<1>1. ASSUME NEW s \in Side, PeerSend(s) \/ PeerFin(s) \/ PeerReset(s) PROVE Excuses'
  <2>1. UNCHANGED <<pipe, fetch, deliver, proc, cancelled, timedOut>>
    BY <1>1 DEF PeerSend, PeerFin, PeerReset
  <2>2. conn'["in"] = conn["in"] \/ conn'["in"] = "reset"
    BY <1>0, <1>1 DEF PeerSend, PeerFin, PeerReset, Types
  <2>. QED
    BY <2>1, <2>2 DEF Excuses
<1>2. ASSUME NEW s \in Side, FetchRead(s) \/ FetchWrite(s) PROVE Excuses'
  <2>1. UNCHANGED <<conn, deliver, proc, cancelled, timedOut>>
    BY <1>2 DEF FetchRead, FetchWrite
  <2>2. fetch["in"] = "err" => fetch'["in"] = "err"
    BY <1>0, <1>2, FetchReadDoes, FetchWriteDoes
  <2>3. pipe'["out"].state = pipe["out"].state
    <3>1. CASE FetchRead(s)
      BY <3>1 DEF FetchRead
    <3>2. CASE FetchWrite(s)
      BY <1>0, <3>2, FetchWriteDoes
    <3>. QED
      BY <1>2, <3>1, <3>2
  <2>. QED
    BY <2>1, <2>2, <2>3 DEF Excuses
<1>3. ASSUME NEW s \in Side, FetchClose(s) PROVE Excuses'
  <2>1. UNCHANGED <<conn, deliver, proc, cancelled, timedOut>>
    BY <1>3 DEF FetchClose
  <2>2. /\ fetch["in"] = "err" => fetch'["in"] = "err"
        /\ pipe["out"].state = "errord" => pipe'["out"].state = "errord"
    BY <1>0, <1>3, FetchCloseDoes
  <2>. QED
    BY <2>1, <2>2 DEF Excuses
<1>4. ASSUME NEW s \in Side, DeliverRead(s) PROVE Excuses'
  <2>1. UNCHANGED <<conn, fetch, proc, cancelled, timedOut>>
    BY <1>4 DEF DeliverRead
  <2>2. pipe'["out"].state = pipe["out"].state
    BY <1>0, <1>4, DeliverReadDoes
  <2>3. deliver'["in"] = "err" => deliver["in"] = "err" \/ pipe["out"].state = "errord"
    <3>1. pipe["out"].state \in {"open", "closed", "errord"}
      BY <1>0 DEF Types, Pipes
    <3>. QED
      BY <1>0, <1>4, <3>1, DeliverReadDoes
  <2>. QED
    BY <2>1, <2>2, <2>3 DEF Excuses
<1>5. ASSUME NEW s \in Side, DeliverWrite(s) PROVE Excuses'
  <2>1. UNCHANGED <<conn, pipe, fetch, proc, cancelled, timedOut>>
    BY <1>5 DEF DeliverWrite
  <2>2. deliver'["in"] = "err" => deliver["in"] = "err" \/ conn["in"] # "open"
    BY <1>0, <1>5, DeliverWriteDoes
  <2>. QED
    BY <2>1, <2>2 DEF Excuses
<1>6. CASE Cache
  <2>1. UNCHANGED <<conn, fetch, deliver, proc, cancelled, timedOut>>
    BY <1>6 DEF Cache
  <2>2. pipe'["out"] = pipe["out"]
    BY <1>0, <1>6 DEF Cache, Types
  <2>. QED
    BY <2>1, <2>2 DEF Excuses
<1>7. CASE Sniffed \/ routedDispatch \/ DialFails \/ Dial
  <2>1. UNCHANGED <<pipe, cancelled, timedOut>>
    BY <1>7 DEF Sniffed, routedDispatch, DialFails, Dial
  <2>2. /\ conn'["in"] = conn["in"] /\ fetch'["in"] = fetch["in"]
        /\ deliver'["in"] = deliver["in"] /\ proc'["in"] = proc["in"]
    BY <1>0, <1>7 DEF Sniffed, routedDispatch, DialFails, Dial, Types
  <2>. QED
    BY <2>1, <2>2 DEF Excuses
<1>8. CASE NoRoute \/ HandlerEnds
  <2>1. UNCHANGED <<conn, fetch, deliver, cancelled, timedOut>>
    BY <1>8 DEF NoRoute, HandlerEnds
  <2>2. proc'["in"] = proc["in"]
    BY <1>0, <1>8 DEF NoRoute, HandlerEnds, Types
  <2>3. pipe["out"].state = "errord" => pipe'["out"].state = "errord"
    <3>1. \/ pipe' = [in |-> Interrupted(pipe["in"]), out |-> Interrupted(pipe["out"])]
          \/ pipe' = [in |-> Interrupted(pipe["in"]), out |-> CloseW(pipe["out"])]
      BY <1>8 DEF NoRoute, HandlerEnds
    <3>2. pipe'["out"] = Interrupted(pipe["out"]) \/ pipe'["out"] = CloseW(pipe["out"])
      BY <3>1
    <3>3. pipe["out"] \in Pipes
      BY <1>0 DEF Types
    <3>. QED
      BY <3>2, <3>3, InterruptedDoes
  <2>. QED
    BY <2>1, <2>2, <2>3 DEF Excuses
<1>9. ASSUME NEW s \in Side, Timeout(s) \/ TimerStep(s) PROVE Excuses'
  <2>1. UNCHANGED <<conn, pipe, fetch, deliver, proc>>
    BY <1>9 DEF Timeout, TimerStep, TaskSetTimeout, TaskSetTimeoutBlocks
  <2>2. \/ cancelled'["in"] = cancelled["in"] /\ timedOut'["in"] = timedOut["in"]
        \/ timedOut'["in"]
    BY <1>0, <1>9 DEF Timeout, TimerStep, TaskSetTimeout, TaskSetTimeoutBlocks, Types
  <2>. QED
    BY <2>1, <2>2 DEF Excuses
<1>10. CASE RunError("in")
  <2>1. UNCHANGED <<conn, fetch, deliver, cancelled, timedOut>>
    BY <1>10 DEF RunError
  <2>2. pipe["out"] \in Pipes /\ pipe'["out"] = Interrupted(pipe["out"])
    BY <1>0, <1>10 DEF RunError, Types
  <2>3. /\ pipe["out"].state = "errord" => pipe'["out"].state = "errord"
    BY <2>2, InterruptedDoes
  <2>4. /\ proc["in"] = "run" /\ proc'["in"] = "failed"
        /\ fetch["in"] = "err" \/ deliver["in"] = "err" \/ cancelled["in"]
    BY <1>0, <1>10 DEF RunError, Failed, Tasks, ctxDone, Types
  <2>5. conn["in"] \in {"none", "open", "reset", "closed"} /\ conn["in"] # "none"
    BY <1>0 DEF Types, Control
  <2>. QED
    BY <2>1, <2>3, <2>4, <2>5 DEF Excuses
<1>11. CASE RunError("out") \/ RunPasses("out") \/ RunPasses("in")
  <2>1. UNCHANGED <<pipe, fetch, deliver, cancelled, timedOut>>
    BY <1>11 DEF RunError, RunPasses
  <2>2. /\ conn'["in"] = conn["in"]
        /\ proc'["in"] = proc["in"] \/ (proc["in"] = "run" /\ proc'["in"] = "passed")
    BY <1>0, <1>11 DEF RunError, RunPasses, Passed, Tasks, Closed, Types
  <2>. QED
    BY <2>1, <2>2 DEF Excuses
<1>12. CASE callback
  <2>1. UNCHANGED <<pipe, fetch, deliver, timedOut>>
    BY <1>12 DEF callback
  <2>2. proc'["in"] = "returned" /\ (conn'["in"] = "open" => conn["in"] = "open")
    BY <1>0, <1>12 DEF callback, Closed, Types
  <2>. QED
    BY <2>1, <2>2 DEF Excuses
<1>13. CASE UNCHANGED vars
  BY <1>13 DEF vars, Excuses
<1>14. ASSUME NEW s \in Side, RunError(s) \/ RunPasses(s) PROVE Excuses'
  BY <1>0, <1>10, <1>11, <1>14
<1>. QED
  BY <1>1, <1>2, <1>3, <1>4, <1>5, <1>6, <1>7, <1>8, <1>9, <1>12, <1>13, <1>14
  DEF Next, FetchStep, DeliverStep, RunReturns, DispatchStep, EndStep
-----------------------------------------------------------------------------
(* The invariant and what follows from it. *)

RelayInv == /\ Types /\ Control /\ PipesEnd /\ Silent /\ Excuses
            /\ \A s \in Side : Flow(s)

\* It holds of a connection that was just accepted.
LEMMA RelayInit == Init => RelayInv
<1> SUFFICES ASSUME Init PROVE RelayInv
  OBVIOUS
<1>0. /\ "in" \in Side /\ "out" \in Side /\ <<>> \in Chunks
      /\ \A s \in Side : s = "in" \/ s = "out"
  BY DEF Side, Chunks
<1>1. PICK o \in {"sniff", "route"} : proc = [in |-> "run", out |-> o]
  BY DEF Init
<1>2. Types
  <2>1. conn \in [Side -> {"none", "open", "reset", "closed"}]
    BY BothSides DEF Init
  <2>2. fetch \in [Side -> {"none", "read", "write", "eof", "done", "err"}]
    <3>1. fetch \in [Side -> {"read", "none"}]
      BY BothSides DEF Init
    <3>. QED
      BY <3>1
  <2>3. deliver \in [Side -> {"none", "read", "write", "done", "err"}]
    BY BothSides DEF Init
  <2>4. proc \in [Side -> {"sniff", "route", "dial", "run", "failed", "passed", "returned"}]
    <3>1. proc \in [Side -> {"run", o}]
      BY <1>1, BothSides
    <3>. QED
      BY <3>1
  <2>5. pipe \in [Side -> Pipes] /\ hand \in [Side -> Hands]
    BY <1>0 DEF Init, Pipes, Hands
  <2>. QED
    BY <1>0, <2>1, <2>2, <2>3, <2>4, <2>5 DEF Init, Types
<1>3. Control /\ PipesEnd /\ Silent /\ Excuses
  BY <1>0, <1>1 DEF Init, Control, PipesEnd, Silent, Excuses, Other
<1>4. ASSUME NEW s \in Side PROVE Flow(s)
  <2>1. Other(s) \in Side
    BY DEF Other, Side
  <2>2. /\ sent[s] = <<>> /\ got[Other(s)] = <<>> /\ hand[Other(s)].deliver = <<>>
        /\ Cached(s) = <<>> /\ pipe[s].data = <<>> /\ hand[s].fetch = <<>>
        /\ inbox[s] = <<>> /\ pipe[s].state = "open" /\ fetch[s] # "eof"
        /\ deliver[Other(s)] # "done"
    BY <1>0, <2>1 DEF Init, Cached
  <2>3. <<>> \o <<>> = <<>>
    BY <1>0, ConcatEmpty
  <2>4. Path(s) = <<>>
    BY <2>2, <2>3 DEF Path
  <2>5. Prefix(<<>>, <<>>)
    BY <1>0, PrefixOfConcat
  <2>. QED
    BY <2>2, <2>3, <2>4, <2>5 DEF Flow, Done
<1>. QED
  BY <1>2, <1>3, <1>4 DEF RelayInv

\* Every step preserves it.
LEMMA RelayStep == RelayInv /\ [Next]_vars => RelayInv'
<1> SUFFICES ASSUME RelayInv, [Next]_vars PROVE RelayInv'
  OBVIOUS
<1>1. Types /\ Control /\ PipesEnd /\ Silent /\ Excuses /\ \A s \in Side : Flow(s)
  BY DEF RelayInv
<1>2. Types'
  BY <1>1, TypeStep
<1>3. Control' /\ PipesEnd'
  BY <1>1, ControlStep
<1>4. Silent' /\ Excuses'
  BY <1>1, SilentStep, ExcusesStep
<1>5. \A s \in Side : Flow(s)'
  BY <1>1, FlowStep
<1>. QED
  BY <1>2, <1>3, <1>4, <1>5 DEF RelayInv

\* Every reachable state has it, for any numbers of chunks and any limit.
THEOREM RelayInvariance == Spec => []RelayInv
BY RelayInit, RelayStep, PTL DEF Spec

\* The two Process calls and their four tasks always have what they work on, and once
\* one of the calls is over no task can block on a pipe.
THEOREM TasksAreSound == Spec => []WellFormed
<1>1. RelayInv => WellFormed
  BY TypesAreTypes DEF RelayInv, WellFormed
<1>. QED
  BY <1>1, RelayInvariance, PTL

\* A Process that returns nil has delivered all that the other peer has sent.
THEOREM PassedHasDelivered == Spec => []PassedIsComplete
<1>1. RelayInv => PassedIsComplete
  <2> SUFFICES ASSUME RelayInv, NEW s \in Side, proc[s] = "passed"
               PROVE  got[s] = sent[Other(s)]
    BY DEF PassedIsComplete
  <2>1. Other(s) \in Side /\ Other(Other(s)) = s /\ (Other(s) = "in" => s = "out")
    BY DEF Other, Side
  <2>2. deliver[s] = "done"
    BY DEF RelayInv, Control
  <2>3. Done(Other(s))
    BY <2>1, <2>2 DEF Done
  <2>. QED
    BY <2>1, <2>3 DEF RelayInv, Flow
<1>. QED
  BY <1>1, RelayInvariance, PTL

\* Nothing the outbound or its handler does once the response is complete makes the
\* inbound fail.
THEOREM ResponseIsNotCutOff == Spec => []ResponseSurvives
<1>1. RelayInv => ResponseSurvives
  BY DEF RelayInv, Excuses, ResponseSurvives
<1>. QED
  BY <1>1, RelayInvariance, PTL
-----------------------------------------------------------------------------
(* Refinement: both directions are streams. *)

\* Every step is, for the stream from s, a step of Stream or none.
LEMMA StreamStep ==
  ASSUME RelayInv, RelayInv', [Next]_vars, NEW s \in Side
  PROVE  \/ UNCHANGED <<sent[s], got[Other(s)], fin[s]>>
         \/ /\ ~fin[s] /\ \E m \in 1 .. MaxChunks(s) : sent'[s] = Append(sent[s], m)
            /\ UNCHANGED <<got[Other(s)], fin[s]>>
         \/ /\ \E n \in Len(got[Other(s)]) + 1 .. Len(sent[s]) :
                  got'[Other(s)] = SubSeq(sent[s], 1, n)
            /\ UNCHANGED <<sent[s], fin[s]>>
         \/ /\ ~fin[s] /\ fin'[s] = TRUE
            /\ UNCHANGED <<sent[s], got[Other(s)]>>
<1> USE DEF peers, tasks, timers, contexts
<1>0. Types /\ Other(s) \in Side
  BY DEF RelayInv, Side, Other
<1>1. ASSUME NEW r \in Side, PeerSend(r)
      PROVE  \/ UNCHANGED <<sent[s], got[Other(s)], fin[s]>>
             \/ /\ ~fin[s] /\ \E m \in 1 .. MaxChunks(s) : sent'[s] = Append(sent[s], m)
                /\ UNCHANGED <<got[Other(s)], fin[s]>>
  <2>1. CASE r = s
    <3>1. /\ ~fin[s] /\ sent'[s] = Append(sent[s], Len(sent[s]) + 1)
          /\ got' = got /\ fin' = fin /\ Len(sent[s]) < MaxChunks(s)
      BY <1>0, <1>1, <2>1 DEF PeerSend, Types
    <3>2. Len(sent[s]) \in Nat /\ MaxChunks(s) \in Nat
      BY <1>0, RelayAssumption DEF Types, Chunks, MaxChunks
    <3>3. Len(sent[s]) + 1 \in 1 .. MaxChunks(s)
      BY <3>1, <3>2
    <3>. QED
      BY <3>1, <3>3
  <2>2. CASE r # s
    BY <1>0, <1>1, <2>2 DEF PeerSend, Types
  <2>. QED
    BY <2>1, <2>2
<1>2. ASSUME NEW r \in Side, PeerFin(r)
      PROVE  \/ UNCHANGED <<sent[s], got[Other(s)], fin[s]>>
             \/ /\ ~fin[s] /\ fin'[s] = TRUE
                /\ UNCHANGED <<sent[s], got[Other(s)]>>
  BY <1>0, <1>2 DEF PeerFin, Types
<1>3. ASSUME NEW r \in Side, DeliverWrite(r)
      PROVE  \/ UNCHANGED <<sent[s], got[Other(s)], fin[s]>>
             \/ /\ \E n \in Len(got[Other(s)]) + 1 .. Len(sent[s]) :
                      got'[Other(s)] = SubSeq(sent[s], 1, n)
                /\ UNCHANGED <<sent[s], fin[s]>>
  <2>1. UNCHANGED <<sent, fin>>
    BY <1>3 DEF DeliverWrite
  <2>2. CASE r = Other(s) /\ conn[r] = "open"
    <3>1. deliver[r] = "write" /\ got'[r] = got[r] \o hand[r].deliver
      BY <1>0, <1>3, <2>2, DeliverWriteDoes
    <3>2. hand[r].deliver # <<>>
      BY <3>1 DEF RelayInv, Control
    <3>3. /\ got[r] \in Chunks /\ hand[r].deliver \in Chunks /\ sent[s] \in Chunks
      BY <1>0, Pieces
    <3>4. /\ Len(got[r]) \in Nat /\ Len(hand[r].deliver) \in Nat \ {0} /\ Len(sent[s]) \in Nat
          /\ Len(got'[r]) = Len(got[r]) + Len(hand[r].deliver)
      BY <3>1, <3>2, <3>3 DEF Chunks
    <3>5. Prefix(got'[r], sent[s])
      BY <2>1, <2>2 DEF RelayInv, Flow
    <3>6. PICK n \in 0 .. Len(sent[s]) : got'[r] = SubSeq(sent[s], 1, n)
      BY <3>5 DEF Prefix
    <3>7. Len(SubSeq(sent[s], 1, n)) = n
      BY <3>3, <3>4 DEF Chunks
    <3>8. n \in Len(got[r]) + 1 .. Len(sent[s])
      <4>1. n = Len(got[r]) + Len(hand[r].deliver)
        BY <3>4, <3>6, <3>7
      <4>2. PICK x \in Nat : x = Len(got[r])
        BY <3>4
      <4>3. PICK y \in Nat \ {0} : y = Len(hand[r].deliver)
        BY <3>4
      <4>4. PICK z \in Nat : z = Len(sent[s])
        BY <3>4
      <4>5. n = x + y /\ n \in 0 .. z
        BY <4>1, <4>2, <4>3, <4>4
      <4>6. n \in x + 1 .. z
        BY <4>5
      <4>. QED
        BY <4>2, <4>4, <4>6
    <3>. QED
      BY <2>1, <2>2, <3>6, <3>8
  <2>3. CASE ~(r = Other(s) /\ conn[r] = "open")
    BY <1>0, <1>3, <2>1, <2>3, DeliverWriteDoes
  <2>. QED
    BY <2>2, <2>3
<1>4. ASSUME UNCHANGED <<sent, got, fin>>
      PROVE  UNCHANGED <<sent[s], got[Other(s)], fin[s]>>
  BY <1>4
<1>5. \/ \E r \in Side : PeerSend(r) \/ PeerFin(r) \/ DeliverWrite(r)
      \/ UNCHANGED <<sent, got, fin>>
  BY DEF Next, FetchStep, DeliverStep, RunReturns, DispatchStep, EndStep, vars,
         PeerReset, FetchRead, FetchWrite, FetchClose, DeliverRead, Cache, Sniffed,
         routedDispatch, NoRoute, Dial, DialFails, Timeout, TimerStep, TaskSetTimeout,
         TaskSetTimeoutBlocks, RunError, RunPasses,
         callback, HandlerEnds
<1>. QED
  BY <1>1, <1>2, <1>3, <1>4, <1>5

\* Both directions of a proxied connection, through the inbound's task, the pipe, the
\* sniffer's cache and the outbound's task, implement the reliable stream of module
\* Stream, whatever ends them and in whatever order.
THEOREM RelayImplementsStreams == Spec => ImplementsStreams
<1>1. Init => Up!Init /\ Down!Init
  BY DEF Init, Up!Init, Down!Init, Side
<1>2. RelayInv /\ RelayInv' /\ [Next]_vars => [Up!Next]_(Up!vars)
  <2> SUFFICES ASSUME RelayInv, RelayInv', [Next]_vars PROVE [Up!Next]_(Up!vars)
    OBVIOUS
  <2>1. "in" \in Side /\ Other("in") = "out" /\ MaxChunks("in") = MaxUp
    BY DEF Side, Other, MaxChunks
  <2>. QED
    BY <2>1, StreamStep DEF Up!Next, Up!vars, Up!Send, Up!Receive, Up!End
<1>3. RelayInv /\ RelayInv' /\ [Next]_vars => [Down!Next]_(Down!vars)
  <2> SUFFICES ASSUME RelayInv, RelayInv', [Next]_vars PROVE [Down!Next]_(Down!vars)
    OBVIOUS
  <2>1. "out" \in Side /\ Other("out") = "in" /\ MaxChunks("out") = MaxDown
    BY DEF Side, Other, MaxChunks
  <2>. QED
    BY <2>1, StreamStep DEF Down!Next, Down!vars, Down!Send, Down!Receive, Down!End
<1>4. Spec => Up!Spec /\ Down!Spec
  BY <1>1, <1>2, <1>3, RelayInvariance, PTL DEF Spec, Up!Spec, Down!Spec
<1>. QED
  BY <1>4 DEF ImplementsStreams
-----------------------------------------------------------------------------
(* ActivityTimer. *)

\* Only the caller in SetTimeout holds the mutex, and the task it has created is the
\* current one, which does not run yet: so what it starts is the current task.
Exclusive ==
    \A c \in Callers : pc[c] # "idle" =>
        /\ mine[c] = checkTask /\ checkTask \in 1 .. created
        /\ \A d \in Callers : pc[d] # "idle" => d = c

\* The inductive invariant.
TimerInv == TimerTypeOK /\ OneTicker /\ Exclusive

USE DEF Task

\* The state after CancelAfterInactivity satisfies it.
LEMMA TimerInitHolds == TimerInit => TimerInv
<1> SUFFICES ASSUME TimerInit PROVE TimerInv
  OBVIOUS
<1> USE ActivityTimerAssumption
<1>1. running \in [Task -> BOOLEAN] /\ armed \in [Task -> BOOLEAN]
  BY Zenon DEF TimerInit
<1>2. TimerTypeOK
  <2>1. /\ locked = FALSE /\ updated = FALSE /\ onTimeout = TRUE
        /\ created = 1 /\ checkTask = 1
        /\ exec = [k \in Task |-> "none"]
        /\ pc = [c \in Callers |-> "idle"]
        /\ mine = [c \in Callers |-> 0]
    BY DEF TimerInit
  <2>2. locked <=> \E c \in Callers : pc[c] # "idle"
    BY <2>1
  <2>3. /\ checkTask \in 0 .. created /\ created \in Task
        /\ exec \in [Task -> {"none", "fired", "check", "finish", "executed"}]
        /\ pc \in [Callers -> {"idle", "start", "stuck"}]
        /\ mine \in [Callers -> 0 .. created]
    BY <2>1
  <2>4. locked \in BOOLEAN /\ updated \in BOOLEAN /\ onTimeout \in BOOLEAN
    BY <2>1
  <2> QED
    BY <1>1, <2>2, <2>3, <2>4, Zenon DEF TimerTypeOK
<1>3. OneTicker
  BY DEF TimerInit, OneTicker
<1>4. Exclusive
  BY DEF TimerInit, Exclusive
<1> QED
  BY <1>2, <1>3, <1>4 DEF TimerInv

\* finish leaves no task running and nobody has the mutex.
LEMMA TimerFinishHolds ==
    ASSUME TimerInv, finish, UNCHANGED pc,
           exec' \in [Task -> {"none", "fired", "check", "finish", "executed"}]
    PROVE  TimerInv'
<1> USE DEF finish, ClosePeriodic, Off
<1>1. \A c \in Callers : pc[c] = "idle"
  BY DEF TimerInv, TimerTypeOK
<1>a. running' \in [Task -> BOOLEAN] /\ armed' \in [Task -> BOOLEAN]
  BY Zenon
<1>2. TimerTypeOK'
  <2>1. /\ ~locked' /\ updated' = updated /\ onTimeout' = FALSE
        /\ created' = created /\ checkTask' = 0 /\ mine' = mine /\ pc' = pc
    BY DEF TimerInv, TimerTypeOK
  <2> HIDE DEF finish
  <2>2. (locked <=> \E c \in Callers : pc[c] # "idle")'
    BY <1>1, <2>1
  <2>3. /\ (checkTask \in 0 .. created)' /\ (created \in Task)'
        /\ (pc \in [Callers -> {"idle", "start", "stuck"}])'
        /\ (mine \in [Callers -> 0 .. created])'
    BY <2>1 DEF TimerInv, TimerTypeOK
  <2>4. locked' \in BOOLEAN /\ updated' \in BOOLEAN /\ onTimeout' \in BOOLEAN
    BY <2>1 DEF TimerInv, TimerTypeOK, finish
  <2> QED
    BY <1>a, <2>2, <2>3, <2>4, Zenon DEF TimerTypeOK
<1>3. OneTicker'
  BY DEF TimerInv, TimerTypeOK, OneTicker
<1>4. Exclusive'
  BY <1>1 DEF Exclusive
<1> QED
  BY <1>2, <1>3, <1>4 DEF TimerInv

\* Every step preserves it.
LEMMA TimerNextHolds == TimerInv /\ [TimerNext]_timerVars => TimerInv'
<1> SUFFICES ASSUME TimerInv, [TimerNext]_timerVars PROVE TimerInv'
  OBVIOUS
<1> USE ActivityTimerAssumption
<1>1. CASE Update
  BY <1>1 DEF Update, TimerInv, TimerTypeOK, OneTicker, Exclusive
<1>2. ASSUME NEW c \in Callers, SetTimeoutZero(c) PROVE TimerInv'
  BY <1>2, TimerFinishHolds DEF SetTimeoutZero, TimerInv, TimerTypeOK
<1>3. ASSUME NEW c \in Callers, SetTimeout(c) PROVE TimerInv'
  <2> USE <1>3 DEF SetTimeout, ClosePeriodic, Off, Goto
  <2>1. \A d \in Callers : pc[d] = "idle"
    BY DEF TimerInv, TimerTypeOK
  <2>2. created' \in Task /\ created' = created + 1 /\ checkTask \in 0 .. created
    BY DEF TimerInv, TimerTypeOK
  <2>3. \A d \in Callers : pc'[d] # "idle" => d = c
    BY <2>1 DEF TimerInv, TimerTypeOK
  <2>4. TimerTypeOK'
    <3>1. pc' \in [Callers -> {"idle", "start", "stuck"}] /\ pc'[c] = "start"
      BY DEF TimerInv, TimerTypeOK
    <3>2. mine' \in [Callers -> 0 .. created']
      BY <2>2 DEF TimerInv, TimerTypeOK
    <3>3. (locked <=> \E d \in Callers : pc[d] # "idle")'
      BY <3>1
    <3>4. running' \in [Task -> BOOLEAN] /\ armed' \in [Task -> BOOLEAN]
      BY Zenon
    <3> QED
      BY <2>2, <3>1, <3>2, <3>3, <3>4 DEF TimerInv, TimerTypeOK
  <2>5. OneTicker'
    BY DEF TimerInv, TimerTypeOK, OneTicker
  <2>6. mine'[c] = checkTask' /\ checkTask' \in 1 .. created'
    BY <2>2 DEF TimerInv, TimerTypeOK
  <2>7. Exclusive'
    BY <2>3, <2>6 DEF Exclusive
  <2> QED
    BY <2>4, <2>5, <2>7 DEF TimerInv
<1>4. ASSUME NEW c \in Callers, Start(c) PROVE TimerInv'
  <2> USE <1>4 DEF Start, Unlock, Goto
  <2>1. mine[c] = checkTask /\ checkTask \in 1 .. created
    BY DEF TimerInv, TimerTypeOK, Exclusive
  <2>2. pc' \in [Callers -> {"idle", "start", "stuck"}] /\ pc'[c] = "idle"
    BY DEF TimerInv, TimerTypeOK
  <2>3. \A d \in Callers : pc'[d] = "idle"
    BY <2>2 DEF TimerInv, TimerTypeOK, Exclusive
  <2>4. TimerTypeOK'
    <3>1. mine' \in [Callers -> 0 .. created']
      BY DEF TimerInv, TimerTypeOK
    <3>2. locked' = FALSE /\ updated' = FALSE
      OBVIOUS
    <3>3. (locked <=> \E d \in Callers : pc[d] # "idle")'
      BY <2>3, <3>2
    <3> QED
      BY <2>1, <2>2, <3>1, <3>2, <3>3 DEF TimerInv, TimerTypeOK
  <2>5. OneTicker'
    BY <2>1 DEF TimerInv, TimerTypeOK, OneTicker
  <2>6. Exclusive'
    BY <2>3 DEF Exclusive
  <2> QED
    BY <2>4, <2>5, <2>6 DEF TimerInv
<1>5. ASSUME NEW c \in Callers, StartFinishes(c) PROVE TimerInv'
  <2> USE <1>5 DEF StartFinishes, Goto
  <2>1. mine[c] = checkTask /\ checkTask \in 1 .. created
    BY DEF TimerInv, TimerTypeOK, Exclusive
  <2>2. pc' \in [Callers -> {"idle", "start", "stuck"}] /\ pc'[c] = "stuck"
    BY DEF TimerInv, TimerTypeOK
  <2>3. \A d \in Callers : (pc'[d] # "idle") <=> (pc[d] # "idle")
    BY <2>2 DEF TimerInv, TimerTypeOK
  <2>4. TimerTypeOK'
    BY <2>1, <2>2, <2>3 DEF TimerInv, TimerTypeOK
  <2>5. OneTicker'
    BY <2>1 DEF TimerInv, TimerTypeOK, OneTicker
  <2>6. Exclusive'
    BY <2>3 DEF TimerInv, Exclusive
  <2> QED
    BY <2>4, <2>5, <2>6 DEF TimerInv
<1>6. ASSUME NEW k \in Task, TaskStep(k) PROVE TimerInv'
  <2>1. CASE Fire(k)
    BY <2>1 DEF Fire, GotoTask, TimerInv, TimerTypeOK, OneTicker, Exclusive
  <2>2. CASE hasClosed(k)
    BY <2>2 DEF hasClosed, GotoTask, TimerInv, TimerTypeOK, OneTicker, Exclusive
  <2>3. CASE check(k)
    BY <2>3 DEF check, GotoTask, TimerInv, TimerTypeOK, OneTicker, Exclusive
  <2>4. CASE Finish(k)
    <3>1. exec' \in [Task -> {"none", "fired", "check", "finish", "executed"}]
      BY <2>4 DEF Finish, GotoTask, TimerInv, TimerTypeOK
    <3> QED
      BY <2>4, <3>1, TimerFinishHolds DEF Finish
  <2>5. CASE Rearm(k)
    BY <2>5 DEF Rearm, Continues, GotoTask, TimerInv, TimerTypeOK, OneTicker, Exclusive
  <2> QED
    BY <1>6, <2>1, <2>2, <2>3, <2>4, <2>5 DEF TaskStep
<1>7. CASE UNCHANGED timerVars
  BY <1>7 DEF timerVars, TimerInv, TimerTypeOK, OneTicker, Exclusive
<1> QED
  BY <1>1, <1>2, <1>3, <1>4, <1>5, <1>6, <1>7 DEF TimerNext, CallerStep

\* The fields keep their types and the mutex is held by a SetTimeout or by nobody,
\* for any number of callers and tasks.
THEOREM TimerTypeCorrect == TimerSpec => []TimerTypeOK
<1>1. TimerInv => TimerTypeOK
  BY DEF TimerInv
<1> QED
  BY TimerInitHolds, TimerNextHolds, <1>1, PTL DEF TimerSpec

\* Whatever ticks race with SetTimeout and finish, a task that was replaced or
\* finished is not left running and does not have its timer set; a check of it that is
\* under way may still end in finish.
THEOREM OnlyCurrentTicks == TimerSpec => []OneTicker
<1>1. TimerInv => OneTicker
  BY DEF TimerInv
<1> QED
  BY TimerInitHolds, TimerNextHolds, <1>1, PTL DEF TimerSpec
=============================================================================
