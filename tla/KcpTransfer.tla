----------------------------- MODULE KcpTransfer -----------------------------
(***************************************************************************)
(* transport/internet/kcp: one direction of an mKCP connection while it is *)
(* active.  The SendingWorker of one end numbers buffers, keeps them in    *)
(* its window and retransmits them; the ReceivingWorker of the other end   *)
(* reassembles them, hands them to the reader and acknowledges them over a *)
(* network that loses, duplicates, delays and reorders segments.           *)
(*                                                                         *)
(* Numbers are unsigned integers modulo Mod (2^32 in the code): Sub is the *)
(* wrapping subtraction, <, >= are the plain comparisons where the code    *)
(* uses them.  Clocks, RTO and congestion control decide WHICH segments    *)
(* are due at a flush; here any set may be due.                            *)
(***************************************************************************)
EXTENDS Integers, Sequences, FiniteSets

CONSTANTS Mod,              \* 2^32
          Half,             \* 2^31
          SendWindow,       \* SendingWorker.windowSize
          InFlight,         \* Config.GetSendingInFlightSize
          RecvWindow,       \* ReceivingWorker.windowSize
          RemoteNext0,      \* initial remoteNextNumber, 32
          AckNumberLimit,   \* numbers an ack segment can hold, 128
          MaxPush,          \* bound: buffers pushed
          MaxFaults,        \* bound: segments lost or duplicated
          MaxNet            \* bound: segments of a kind under way

ASSUME KcpAssumption ==
    /\ {Half, SendWindow, InFlight, RecvWindow, AckNumberLimit} \subseteq Nat \ {0}
    /\ {RemoteNext0, MaxPush, MaxFaults, MaxNet} \subseteq Nat
    /\ Mod = 2 * Half
    /\ RecvWindow < Half
    /\ RemoteNext0 < Mod

uint32 == 0 .. Mod - 1
Sub(a, b) == IF a >= b THEN a - b ELSE a - b + Mod
Add(a, b) == IF a + b >= Mod THEN a + b - Mod ELSE a + b

\* A buffer stands for its position in the stream.
Payload == 0 .. MaxPush - 1

DataSegment == [type : {"data"}, number : uint32, payload : Payload,
                SendingNext : uint32]
AckSegment == [type : {"ack"}, NumberList : SUBSET uint32,
               ReceivingNext : uint32, ReceivingWindow : uint32]
PingToReceiver == [type : {"pingR"}, SendingNext : uint32]
PingToSender == [type : {"pingS"}, ReceivingNext : uint32]
Message == DataSegment \cup AckSegment \cup PingToReceiver \cup PingToSender

VARIABLES
  window,                      \* SendingWindow.cache, ordered by payload
  nextNumber,                  \* SendingWorker.nextNumber
  firstUnacknowledged,
  firstUnacknowledgedUpdated,
  remoteNextNumber,
  acking,      \* numbers ProcessSegment has still to go through, its lock held
  cache,       \* ReceivingWindow.cache
  acklist,     \* AckList.numbers, as a set
  dirty,       \* AckList.dirty
  rcvNext,     \* ReceivingWorker.nextNumber
  net,         \* segments under way
  faults,      \* losses and duplications so far
  sent,        \* history: buffers the SendingWorker accepted
  delivered    \* history: buffers handed to the reader

sender == <<window, nextNumber, firstUnacknowledged, firstUnacknowledgedUpdated,
            remoteNextNumber, acking>>
receiver == <<cache, acklist, dirty, rcvNext>>
vars == <<sender, receiver, net, faults, sent, delivered>>

\* The entries of the two caches: a segment's number and content.
Entry == [number : uint32, payload : Payload]

Init == /\ window = {}
        /\ nextNumber = 0
        /\ firstUnacknowledged = 0
        /\ firstUnacknowledgedUpdated = FALSE
        /\ remoteNextNumber = RemoteNext0
        /\ acking = {}
        /\ cache = {}
        /\ acklist = {}
        /\ dirty = FALSE
        /\ rcvNext = 0
        /\ net = {}
        /\ faults = 0
        /\ sent = <<>>
        /\ delivered = <<>>
-----------------------------------------------------------------------------
\* SegmentWriter.Write of each segment of a set
SameKind(m, n) == m.type = n.type /\ (m.type = "data" => m.payload = n.payload)
Write(segments) ==
    /\ net' = net \cup segments
    /\ \A s \in segments : Cardinality({m \in net' : SameKind(m, s)}) <= MaxNet

\* Slips (here and below): variants of a later definition with a bug that a change
\* of the code could introduce.  No specification uses them; the properties are
\* checked to tell each one from the code.

\* Slip: una itself is dropped.
Clear_inclusive(win, una) ==
    {s \in win : \E f \in win : f.payload <= s.payload /\ f.number > una}

\* SendingWindow: Clear drops segments from the front up to the first whose
\* number is not below una; Remove looks for a number from the front and gives
\* up at the first larger one.
Clear(win, una) ==
    {s \in win : \E f \in win : f.payload <= s.payload /\ f.number >= una}

Remove(win, number) ==
    {s \in win : \/ s.number # number
                 \/ \E f \in win : f.payload < s.payload /\ f.number >= number}

\* f is the window's FirstNumber, or nextNumber when the window is empty.
IsFirst(f, win) == \/ win = {} /\ f = nextNumber
                   \/ \E s \in win : /\ f = s.number
                                     /\ \A t \in win : s.payload <= t.payload

FindFirstUnacknowledged(win) ==
    \E f \in uint32 :
        /\ IsFirst(f, win)
        /\ firstUnacknowledged' = f
        /\ firstUnacknowledgedUpdated' =
             (firstUnacknowledgedUpdated \/ f # firstUnacknowledged)

\* SendingWorker.Push.  The full window refuses the buffer and nothing changes.
Push ==
    /\ acking = {}
    /\ Len(sent) < MaxPush
    /\ Cardinality(window) <= SendWindow
    /\ window' = window \cup {[number |-> nextNumber, payload |-> Len(sent)]}
    /\ nextNumber' = Add(nextNumber, 1)
    /\ sent' = Append(sent, Len(sent))
    /\ UNCHANGED <<firstUnacknowledged, firstUnacknowledgedUpdated,
                   remoteNextNumber, acking, receiver, net, faults, delivered>>

\* The segments a flush writes when those in due have timed out: the first
\* cwnd of them, and always at least one.
cwnd == LET room == Sub(remoteNextNumber, firstUnacknowledged)
        IN  20 * (IF InFlight > room THEN room ELSE InFlight)

Flushed(due) ==
    {s \in due : \/ Cardinality({t \in due : t.payload < s.payload}) < cwnd
                 \/ \A t \in due : s.payload <= t.payload}

\* SendingWorker.Flush, with the Write of every segment and the Ping.
FlushSending(due) ==
    /\ acking = {}
    /\ \/ /\ window # {}
          /\ Write({[type |-> "data", number |-> s.number, payload |-> s.payload,
                     SendingNext |-> firstUnacknowledged] : s \in Flushed(due)})
       \/ /\ window = {} /\ firstUnacknowledgedUpdated
          /\ Write({[type |-> "pingR", SendingNext |-> firstUnacknowledged]})
    /\ firstUnacknowledgedUpdated' = FALSE
    /\ UNCHANGED <<window, nextNumber, firstUnacknowledged, remoteNextNumber,
                   acking, receiver, faults, sent, delivered>>

\* Connection.Ping of the sending end.
PingReceiver ==
    /\ acking = {}
    /\ Write({[type |-> "pingR", SendingNext |-> firstUnacknowledged]})
    /\ UNCHANGED <<sender, receiver, faults, sent, delivered>>

\* SendingWorker.ProcessSegment up to its loop, ...
ProcessAckSegment(m) ==
    /\ acking = {}
    /\ remoteNextNumber' = IF remoteNextNumber < m.ReceivingWindow
                           THEN m.ReceivingWindow ELSE remoteNextNumber
    /\ window' = Clear(window, m.ReceivingNext)
    /\ FindFirstUnacknowledged(window')
    /\ acking' = m.NumberList
    /\ UNCHANGED <<nextNumber, receiver, sent, delivered>>

\* ... and one round of it, under the same lock.
processAck(number) ==
    LET stale == \/ Sub(number, firstUnacknowledged) > Half - 1
                 \/ Sub(number, nextNumber) < Half - 1
    IN  /\ number \in acking
        /\ acking' = acking \ {number}
        /\ window' = IF stale THEN window ELSE Remove(window, number)
        /\ IF window' # window
           THEN FindFirstUnacknowledged(window')
           ELSE UNCHANGED <<firstUnacknowledged, firstUnacknowledgedUpdated>>
        /\ UNCHANGED <<nextNumber, remoteNextNumber, receiver, net, faults, sent,
                       delivered>>

\* SendingWorker.ProcessReceivingNext
ProcessReceivingNext(m) ==
    /\ acking = {}
    /\ window' = Clear(window, m.ReceivingNext)
    /\ FindFirstUnacknowledged(window')
    /\ UNCHANGED <<nextNumber, remoteNextNumber, acking, receiver, sent, delivered>>
-----------------------------------------------------------------------------
\* Slip: una itself is dropped.
ClearAcks_inclusive(una) == {n \in acklist : n > una}

\* AckList.Clear, and whether it removes anything.
ClearAcks(una) == {n \in acklist : n >= una}

\* ReceivingWorker.ProcessSegment
ProcessSegment(m) ==
    /\ IF Sub(m.number, rcvNext) >= RecvWindow
       THEN UNCHANGED <<acklist, dirty, cache>>
       ELSE /\ acklist' = ClearAcks(m.SendingNext) \cup {m.number}
            /\ dirty' = TRUE
            /\ cache' = IF \E e \in cache : e.number = m.number THEN cache
                        ELSE cache \cup {[number |-> m.number, payload |-> m.payload]}
    /\ UNCHANGED <<sender, rcvNext, sent, delivered>>

\* ReceivingWorker.ProcessSendingNext
ProcessSendingNext(m) ==
    /\ acklist' = ClearAcks(m.SendingNext)
    /\ dirty' = (dirty \/ acklist' # acklist)
    /\ UNCHANGED <<sender, cache, rcvNext, sent, delivered>>

\* Slip: the number of the last segment taken stays the next one.
ReadMultiBuffer_behind(n) ==
    LET has(k) == \E e \in cache : e.number = Add(rcvNext, k)
        seg(k) == CHOOSE e \in cache : e.number = Add(rcvNext, k)
    IN  /\ \A k \in 0 .. n - 1 : has(k)
        /\ ~has(n)
        /\ delivered' = delivered \o [k \in 1 .. n |-> seg(k - 1).payload]
        /\ cache' = cache \ {seg(k) : k \in 0 .. n - 1}
        /\ rcvNext' = Add(rcvNext, n - 1)
        /\ UNCHANGED <<sender, acklist, dirty, net, faults, sent>>

\* ReceivingWorker.ReadMultiBuffer: the n segments that are next in line.
ReadMultiBuffer(n) ==
    LET has(k) == \E e \in cache : e.number = Add(rcvNext, k)
        seg(k) == CHOOSE e \in cache : e.number = Add(rcvNext, k)
    IN  /\ \A k \in 0 .. n - 1 : has(k)
        /\ ~has(n)
        /\ delivered' = delivered \o [k \in 1 .. n |-> seg(k - 1).payload]
        /\ cache' = cache \ {seg(k) : k \in 0 .. n - 1}
        /\ rcvNext' = Add(rcvNext, n)
        /\ UNCHANGED <<sender, acklist, dirty, net, faults, sent>>

\* Slip: a number is acknowledged once and forgotten.
FlushAcks_once(numbers) ==
    /\ numbers \subseteq acklist
    /\ Cardinality(numbers) <= AckNumberLimit
    /\ numbers = {} => acklist = {} /\ dirty
    /\ Write({[type |-> "ack", NumberList |-> numbers, ReceivingNext |-> rcvNext,
               ReceivingWindow |-> Add(rcvNext, RecvWindow)]})
    /\ acklist' = acklist \ numbers
    /\ dirty' = FALSE
    /\ UNCHANGED <<sender, cache, rcvNext, faults, sent, delivered>>

\* AckList.Flush with the Write of one ack segment: its numbers are those whose
\* nextFlush has passed and the candidates there is room for.  It is empty only
\* to tell that the list has become so.
FlushAcks(numbers) ==
    /\ numbers \subseteq acklist
    /\ Cardinality(numbers) <= AckNumberLimit
    /\ numbers = {} => acklist = {} /\ dirty
    /\ Write({[type |-> "ack", NumberList |-> numbers, ReceivingNext |-> rcvNext,
               ReceivingWindow |-> Add(rcvNext, RecvWindow)]})
    /\ dirty' = FALSE
    /\ UNCHANGED <<sender, cache, acklist, rcvNext, faults, sent, delivered>>

\* Connection.Ping of the receiving end.
PingSender ==
    /\ Write({[type |-> "pingS", ReceivingNext |-> rcvNext]})
    /\ UNCHANGED <<sender, receiver, faults, sent, delivered>>
-----------------------------------------------------------------------------
\* Connection.Input of one segment, at the end it was sent to.
Input(m) == \/ m.type = "data" /\ ProcessSegment(m)
            \/ m.type = "ack" /\ ProcessAckSegment(m)
            \/ m.type = "pingR" /\ ProcessSendingNext(m)
            \/ m.type = "pingS" /\ ProcessReceivingNext(m)

Receive(m) == /\ Input(m)
              /\ net' = net \ {m}
              /\ UNCHANGED faults

\* The network delivers a copy and keeps the segment for later.
Duplicate(m) == /\ faults < MaxFaults
                /\ Input(m)
                /\ faults' = faults + 1
                /\ UNCHANGED net

Lose(m) == /\ faults < MaxFaults
           /\ net' = net \ {m}
           /\ faults' = faults + 1
           /\ UNCHANGED <<sender, receiver, sent, delivered>>

Next == \/ Push
        \/ \E due \in SUBSET window : FlushSending(due)
        \/ PingReceiver
        \/ \E number \in acking : processAck(number)
        \/ \E n \in 1 .. RecvWindow : ReadMultiBuffer(n)
        \/ \E numbers \in SUBSET acklist : FlushAcks(numbers)
        \/ PingSender
        \/ \E m \in net : Receive(m) \/ Duplicate(m) \/ Lose(m)

Spec == Init /\ [][Next]_vars

\* Retransmission timers expire, the ping updater ticks, a segment that is sent
\* over and over arrives, and the reader keeps reading.  A flush or a ping waits
\* for a mutex (and here for room in the network), which does not starve it.
FairSpec ==
    /\ Spec
    /\ SF_vars(FlushSending(window))
    /\ SF_vars(FlushAcks(acklist))
    /\ SF_vars(PingReceiver)
    /\ WF_vars(\E number \in acking : processAck(number))
    /\ WF_vars(\E n \in 1 .. RecvWindow : ReadMultiBuffer(n))
    /\ \A p \in Payload :
         WF_vars(\E m \in net : m.type = "data" /\ m.payload = p /\ Receive(m))
    /\ \A t \in {"ack", "pingR", "pingS"} :
         WF_vars(\E m \in net : m.type = t /\ Receive(m))
-----------------------------------------------------------------------------
\* The variables have the types of the Go fields they stand for.
TypeOK ==
    /\ window \subseteq Entry
    /\ nextNumber \in uint32
    /\ firstUnacknowledged \in uint32
    /\ firstUnacknowledgedUpdated \in BOOLEAN
    /\ remoteNextNumber \in uint32
    /\ acking \subseteq uint32
    /\ cache \subseteq Entry
    /\ acklist \subseteq uint32
    /\ dirty \in BOOLEAN
    /\ rcvNext \in uint32
    /\ net \subseteq Message
    /\ faults \in 0 .. MaxFaults
    /\ sent \in Seq(Payload)
    /\ delivered \in Seq(Payload)

\* The sending end forgets a buffer only after the receiving end has it: until
\* then it stays in the window and will be retransmitted.
NothingForgotten ==
    \A p \in 0 .. Len(sent) - 1 :
        \/ \E s \in window : s.payload = p
        \/ \E e \in cache : e.payload = p
        \/ p < Len(delivered)

\* The receiving end goes on acknowledging a number until the sending end has
\* dropped it: a lost ack never leaves a segment to be retransmitted for ever
\* (the receiver does not answer a segment it has already handed out).
NoAckForgotten ==
    \A s \in window :
        (\E e \in cache : e = s) \/ s.payload < Len(delivered) => s.number \in acklist

\* Neither cache outgrows its window, whatever the network repeats, and no segment
\* that comes late takes the place of one that is still to come: the receiving end
\* holds only numbers that are within its window ahead of the reader.
BoundedWindows ==
    /\ Cardinality(window) <= SendWindow + 1
    /\ \A e \in cache : Sub(e.number, rcvNext) < RecvWindow

\* One direction of a connection is a Stream.
S == INSTANCE Stream WITH Payload <- Payload, sent <- sent,
                          received <- delivered, ended <- FALSE

\* The reader gets exactly the buffers that were written, in order, once each.
ImplementsStream == S!Spec

\* Every buffer accepted reaches the reader, its segment leaves the sending window
\* although segments and acks are lost, and the receiving end does not acknowledge
\* for ever: once everything is known to be acknowledged both data updaters can stop.
EventuallyDelivered ==
    []<>(Len(delivered) = Len(sent) /\ window = {} /\ acklist = {})
=============================================================================
