----------------------------- MODULE SplitUpload -----------------------------
(***************************************************************************)
(* transport/internet/splithttp: the upload half of one connection.        *)
(*                                                                         *)
(* The client has cut its stream into numbered packets and posted each in  *)
(* an HTTP request of its own (packet-up), or sends all of it in the body  *)
(* of one request (stream-up); a GET carries the other half.  Requests     *)
(* arrive in any order, some of them twice and some never.  The server's   *)
(* requestHandler finds or makes the session, whose uploadQueue puts the   *)
(* packets in order for the goroutine that reads the connection; a session *)
(* without a GET is reaped after 30 s.  Everything here has one session    *)
(* id; session numbers are httpSession objects.  Of two GETs of the id one *)
(* is modelled in full; the other one has come too late for its session,   *)
(* which was reaped before the behaviour begins, and is still to end.      *)
(***************************************************************************)
EXTENDS Integers, Sequences, FiniteSets, SequencesExt

CONSTANTS
  MaxSeq,      \* bound: packets of an upload
  Sessions,    \* bound: httpSession objects, 1 .. n
  Uploads,     \* the mode of an upload with its own bounds: packets that are not lost,
               \* requests that are sent twice, sessions; whether there is another GET
  Parts,       \* reads that a packet takes when the buffers are small
  MaxPackets   \* scMaxBufferedPosts

ASSUME UploadAssumption ==
    /\ MaxSeq \in Nat /\ Parts \in Nat \ {0} /\ MaxPackets \in Nat
    /\ Sessions \subseteq Nat \ {0}
    /\ \A u \in Uploads : u.another \in BOOLEAN

VARIABLE use   \* the upload: a constant of each behaviour

Nil == 0
Seqs == 0 .. MaxSeq - 1
Posts == Seqs \X {1, 2}   \* a packet, and which sending of it
StreamUp == <<MaxSeq, 1>>   \* the request of stream-up

VARIABLES
  stopped,    \* the body of stream-up has ended
  request,    \* where each request is, and its session
  sessions,   \* requestHandler.sessions
  queue,      \* the uploadQueue of each session
  connected,  \* httpSession.isFullyConnected
  late,       \* shouldReap: 30 s have passed, or the listener is closed
  reaper,     \* where the session's second goroutine is
  get,        \* where the GET's handler is, and its session
  app,        \* where the reader of the connection is
  got,        \* what it has read
  tornDown,   \* a Read has failed: the packet queue is too large
  another,    \* another GET of the id is served, whose session has been reaped
  mixed       \* history: two sendings of a packet to come were in the heap together

hub == <<sessions, connected, late, reaper>>
readers == <<app, got, tornDown, mixed>>
download == <<get, another>>
vars == <<stopped, request, hub, queue, download, readers>>

Init ==
    /\ use \in Uploads
    /\ stopped = FALSE
    /\ request = [r \in Posts \cup {StreamUp} |-> [pc |-> "none", at |-> Nil]]
    /\ sessions = Nil
    /\ queue = [s \in Sessions |-> [chan |-> <<>>, heap |-> {}, next |-> 0,
                                    reader |-> FALSE, shut |-> FALSE, stream |-> FALSE]]
    /\ connected = [s \in Sessions |-> FALSE]
    /\ late = [s \in Sessions |-> FALSE]
    /\ reaper = [s \in Sessions |-> "none"]
    /\ get = [pc |-> "none", at |-> Nil]
    /\ app = "none" /\ got = <<>> /\ tornDown = FALSE
    /\ another = use.another /\ mixed = FALSE
-----------------------------------------------------------------------------
(* The client, and the network. *)

\* The client ends the body of its one request.
StopClient ==
    /\ use.mode = "stream-up" /\ ~stopped
    /\ stopped' = TRUE
    /\ UNCHANGED <<request, hub, queue, download, readers>>

\* A request is under way: the stream's, or a packet's, which may be retried (by
\* PostPacket after a failed write, or by a proxy on the way) although the first one
\* is being served or was.
UnderWay(r) ==
    /\ request[r].pc = "none"
    /\ IF r = StreamUp THEN use.mode = "stream-up"
       ELSE use.mode = "packet-up" /\ r[1] \in use.packets
    /\ r[2] = 2 => request[<<r[1], 1>>].pc # "none"
    /\ r[2] = 2 => Cardinality({m \in Seqs : request[<<m, 2>>].pc # "none"}) < use.repeats
-----------------------------------------------------------------------------
(* requestHandler. *)

\* upsertSession: the session there is, or a new one with its goroutines.  (A second
\* look-up under sessionMu makes finding and storing one step.)
Unused == {s \in Sessions : reaper[s] = "none"}
upsertSession(s) ==
    \/ /\ sessions = s /\ s # Nil
       /\ UNCHANGED <<sessions, reaper>>
    \/ /\ sessions = Nil /\ s \in Unused /\ s <= use.sessions /\ \A t \in Unused : s <= t
       /\ sessions' = s
       /\ reaper' = [reaper EXCEPT ![s] = "waiting"]

\* A request with data arrives.
ServePost(r, s) ==
    /\ UnderWay(r)
    /\ upsertSession(s)
    /\ request' = [request EXCEPT ![r] = [pc |-> IF r = StreamUp THEN "offer" ELSE "push",
                                          at |-> s]]
    /\ UNCHANGED <<stopped, connected, late, queue, download, readers>>

Answer(r, result) == request' = [request EXCEPT ![r].pc = result]

\* Slips (here and below): variants of the next definition with a bug that a
\* change of the code could introduce.  No specification uses them; the
\* properties are checked to tell each one from the code.
Push_waits(r) ==
    LET s == request[r].at IN
    /\ request[r].pc = "push"
    /\ /\ Len(queue[s].chan) < MaxPackets
       /\ queue' = [queue EXCEPT ![s].chan = Append(@, r)]
       /\ Answer(r, "pushed")
    /\ UNCHANGED <<stopped, hub, download, readers>>

\* uploadQueue.Push: the select, ...
Push(r) ==
    LET s == request[r].at IN
    /\ request[r].pc = "push"
    /\ \/ /\ Len(queue[s].chan) < MaxPackets
          /\ queue' = [queue EXCEPT ![s].chan = Append(@, r)]
          /\ Answer(r, "pushed")
       \/ /\ queue[s].shut
          /\ Answer(r, "failed")
          /\ UNCHANGED queue
    /\ UNCHANGED <<stopped, hub, download, readers>>

\* ... the look at closed after it, and the answer.  A stream's handler waits first.
Pushed(r) ==
    /\ request[r].pc = "pushed"
    /\ Answer(r, IF queue[request[r].at].shut THEN "failed"
                 ELSE IF r = StreamUp THEN "serve" ELSE "ok")
    /\ UNCHANGED <<stopped, hub, queue, download, readers>>

\* Push of a stream's body, which is also stored in uploadQueue.reader first.  (Only one
\* request carries a stream, so that "h.reader already exists" does not occur.)
PushReader ==
    LET s == request[StreamUp].at IN
    /\ request[StreamUp].pc = "offer"
    /\ queue' = [queue EXCEPT ![s].reader = TRUE]
    /\ Answer(StreamUp, "push")
    /\ UNCHANGED <<stopped, hub, download, readers>>

\* The handler of the stream returns once its httpServerConn is closed, or its request
\* is over.
ServeEnds ==
    /\ request[StreamUp].pc = "serve"
    /\ queue[request[StreamUp].at].stream \/ stopped
    /\ Answer(StreamUp, "ok")
    /\ UNCHANGED <<stopped, hub, queue, download, readers>>

\* The GET arrives, ...
ServeGet(s) ==
    /\ get.pc = "none"
    /\ upsertSession(s)
    /\ get' = [pc |-> "upserted", at |-> s]
    /\ UNCHANGED <<stopped, request, connected, late, queue, another, readers>>

\* ... marks the session as connected, and hands the connection to the inbound.
Connect ==
    /\ get.pc = "upserted"
    /\ connected' = [connected EXCEPT ![get.at] = TRUE]
    /\ get' = [get EXCEPT !.pc = "serving"]
    /\ app' = "read"
    /\ UNCHANGED <<stopped, request, sessions, late, reaper, queue, another, got,
                   tornDown, mixed>>

\* uploadQueue.Close: closed first, then the reader that is stored by then, if any
Shut(s) == queue' = [queue EXCEPT ![s].shut = TRUE]
CloseReader(s) == queue' = [queue EXCEPT ![s].stream = @ \/ queue[s].reader]
AfterShut(next) == IF use.mode = "stream-up" THEN "closeReader" ELSE next

\* The client cancels the GET, or the connection is closed: conn.Close, and the
\* deferred Delete of whatever has the session's id.
GetEnds ==
    /\ \/ /\ get.pc = "serving"
          /\ get' = [get EXCEPT !.pc = "close"]
          /\ UNCHANGED <<sessions, queue>>
       \/ /\ get.pc = "close"
          /\ get' = [get EXCEPT !.pc = AfterShut("delete")]
          /\ Shut(get.at)
          /\ UNCHANGED sessions
       \/ /\ get.pc = "closeReader"
          /\ get' = [get EXCEPT !.pc = "delete"]
          /\ CloseReader(get.at)
          /\ UNCHANGED sessions
       \/ /\ get.pc = "delete"
          /\ get' = [get EXCEPT !.pc = "gone"]
          /\ sessions' = Nil
          /\ UNCHANGED queue
    /\ UNCHANGED <<stopped, request, connected, late, reaper, another, readers>>

\* The other GET ends.  What it closes is of a session that nobody finds any more; its
\* deferred Delete is of whatever has the id now.
AnotherEnds ==
    /\ another
    /\ another' = FALSE
    /\ sessions' = Nil
    /\ UNCHANGED <<stopped, request, connected, late, reaper, queue, get, readers>>

\* 30 s pass, or the listener is closed: a GET may have come before, or may come now.
\* (When the session's second goroutine is past its select, nobody is told any more.)
Late(s) ==
    /\ reaper[s] = "waiting" /\ ~late[s]
    /\ late' = [late EXCEPT ![s] = TRUE]
    /\ UNCHANGED <<stopped, request, sessions, connected, reaper, queue, download,
                   readers>>

\* Slip: the session is deleted, its queue is left open.
Reap_open(s) ==
    /\ reaper[s] = "waiting" /\ late[s]
    /\ reaper' = [reaper EXCEPT ![s] = "gone"]
    /\ sessions' = Nil
    /\ UNCHANGED queue

\* The reaper deletes what has the session's id, and closes the queue.
Reap(s) ==
    \/ /\ reaper[s] = "waiting" /\ late[s]
       /\ reaper' = [reaper EXCEPT ![s] = "close"]
       /\ sessions' = Nil
       /\ UNCHANGED queue
    \/ /\ reaper[s] = "close"
       /\ reaper' = [reaper EXCEPT ![s] = AfterShut("gone")]
       /\ Shut(s)
       /\ UNCHANGED sessions
    \/ /\ reaper[s] = "closeReader"
       /\ reaper' = [reaper EXCEPT ![s] = "gone"]
       /\ CloseReader(s)
       /\ UNCHANGED sessions

\* The select of the session's second goroutine: with both channels closed it is either
ReaperStep(s) ==
    /\ \/ Reap(s)
       \/ /\ reaper[s] = "waiting" /\ connected[s]
          /\ reaper' = [reaper EXCEPT ![s] = "gone"]
          /\ UNCHANGED <<sessions, queue>>
    /\ UNCHANGED <<stopped, request, connected, late, download, readers>>
-----------------------------------------------------------------------------
(* uploadQueue.Read, in the goroutine that reads the connection.  The heap is its    *)
(* own; a step goes up to a return or to a select.                                   *)

q == queue[get.at]
Packet(r) == [seq |-> r[1], copy |-> r[2], left |-> Parts]

\* Read begins.
ReadQueue ==
    /\ app = "read"
    /\ app' = IF q.reader THEN "body"
              ELSE IF q.shut THEN "end"
              ELSE IF q.heap = {} THEN "receive" ELSE "loop"
    /\ UNCHANGED <<stopped, request, hub, queue, download, got, tornDown, mixed>>

\* Slip: the loop waits for another packet without a look at the heap.
Received_waits == IF app = "receive" THEN "loop" ELSE "receiveMore"

\* Where a packet leads that was received in a Read
Received == "loop"

\* The selects: with an empty heap, and after a misordered packet
Receive ==
    /\ app \in {"receive", "receiveMore"}
    /\ \/ /\ q.chan # <<>>
          /\ LET r == Head(q.chan) IN
             IF r = StreamUp
             THEN /\ app' = "body"
                  /\ queue' = [queue EXCEPT ![get.at].chan = Tail(@)]
                  /\ UNCHANGED mixed
             ELSE /\ app' = Received
                  /\ queue' = [queue EXCEPT ![get.at].chan = Tail(@),
                                            ![get.at].heap = @ \cup {Packet(r)}]
                  /\ mixed' = (mixed \/ \E p \in q.heap : p.seq = r[1] /\ r[1] >= q.next)
       \/ /\ q.shut
          /\ app' = "end"
          /\ UNCHANGED <<queue, mixed>>
    /\ UNCHANGED <<stopped, request, hub, download, got, tornDown>>

\* The heap's Pop: a packet with the least number
Least == {p \in q.heap : \A o \in q.heap : p.seq <= o.seq}

\* Slip: the number is not compared with the one that is due.
InTurn_any(p) == TRUE
InTurn(p) == p.seq = q.next

\* A packet that is due: n parts of it are copied, and the rest goes back.
ReadPacket(p, n) ==
    /\ InTurn(p) /\ n <= p.left
    /\ got' = got \o [i \in 1 .. n |-> <<p.seq, Parts - p.left + i>>]
    /\ queue' = [queue EXCEPT
         ![get.at].heap = IF n < p.left THEN (@ \ {p}) \cup {[p EXCEPT !.left = @ - n]}
                                        ELSE @ \ {p},
         ![get.at].next = IF n < p.left THEN @ ELSE p.seq + 1]
    /\ app' = "read"
    /\ UNCHANGED tornDown

\* Slip: no limit
TooLarge_never == FALSE
\* len(h.heap) > h.maxPackets, without the packet in hand
TooLarge == Cardinality(q.heap) - 1 > MaxPackets

\* Slip: a packet that is not due is dropped.
Misordered_drops(p) ==
    /\ p.seq > q.next
    /\ queue' = [queue EXCEPT ![get.at].heap = @ \ {p}]
    /\ app' = IF TooLarge THEN "end" ELSE "receiveMore"
    /\ tornDown' = TooLarge
    /\ UNCHANGED got

\* A packet that comes too early goes back, and another one is waited for, unless there
\* are too many of them.
Misordered(p) ==
    /\ p.seq > q.next
    /\ queue' = IF TooLarge THEN [queue EXCEPT ![get.at].heap = @ \ {p}] ELSE queue
    /\ app' = IF TooLarge THEN "end" ELSE "receiveMore"
    /\ tornDown' = TooLarge
    /\ UNCHANGED got

\* One that was read before is dropped; with none left Read returns 0, nil.
Stale(p) ==
    /\ p.seq < q.next
    /\ queue' = [queue EXCEPT ![get.at].heap = @ \ {p}]
    /\ app' = IF q.heap = {p} THEN "read" ELSE "loop"
    /\ UNCHANGED <<got, tornDown>>

Loop ==
    /\ app = "loop"
    /\ \E p \in Least : \/ \E n \in 1 .. Parts : ReadPacket(p, n)
                       \/ Misordered(p) \/ Stale(p)
    /\ UNCHANGED <<stopped, request, hub, download, mixed>>

\* A read of the stream's body: data, or an end with its request's or its handler's
ReadBody ==
    /\ app = "body"
    /\ LET n == Len(got) \div Parts IN
       \/ /\ n < MaxSeq /\ request[StreamUp].pc \notin {"ok", "failed"}
          /\ got' = got \o [i \in 1 .. Parts |-> <<n, i>>]
          /\ app' = "read"
       \/ /\ stopped \/ request[StreamUp].pc \in {"ok", "failed"}
          /\ app' = "end"
          /\ UNCHANGED got
    /\ UNCHANGED <<stopped, request, hub, queue, download, tornDown, mixed>>

\* The end of a Read makes the inbound close the connection; it may also do so at any
\* other time, while no Read is under way or while one is (its Process has returned).
AppCloses ==
    /\ app \in {"read", "receive", "receiveMore", "body"}
    /\ app' = "end"
    /\ UNCHANGED <<stopped, request, hub, queue, download, got, tornDown, mixed>>

\* splitConn.Close
CloseConnection ==
    /\ \/ /\ app = "end"
          /\ app' = "close"
          /\ UNCHANGED queue
       \/ /\ app = "close"
          /\ Shut(get.at)
          /\ app' = AfterShut("gone")
       \/ /\ app = "closeReader"
          /\ CloseReader(get.at)
          /\ app' = "gone"
    /\ UNCHANGED <<stopped, request, hub, download, got, tornDown, mixed>>

PostStep(r) == Push(r) \/ Pushed(r)
StreamStep == PushReader \/ ServeEnds
AppStep == ReadQueue \/ Receive \/ Loop \/ ReadBody \/ CloseConnection

Next ==
    /\ UNCHANGED use
    /\ \/ StopClient
       \/ \E s \in Sessions : \/ \E r \in Posts \cup {StreamUp} : ServePost(r, s)
                              \/ ServeGet(s) \/ Late(s) \/ ReaperStep(s)
       \/ \E r \in Posts \cup {StreamUp} : PostStep(r)
       \/ StreamStep
       \/ Connect \/ GetEnds \/ AnotherEnds
       \/ AppStep \/ AppCloses

Spec == Init /\ [][Next]_<<use, vars>>

\* The httpServerConn of the GET is closed, on which its handler waits.
ConnDone == app \in {"close", "closeReader", "gone"} \/ get.pc \notin {"serving"}

\* Goroutines run, time passes, and a GET whose connection is closed ends.  Neither the
\* client nor the network owes a request, and nobody has to close.  (Fairness of all
\* requests, or all sessions, together is enough, as there are finitely many of each.)
FairSpec ==
    /\ Spec
    /\ WF_vars(\E r \in Posts \cup {StreamUp} : PostStep(r))
    /\ WF_vars(\E s \in Sessions : ReaperStep(s) \/ Late(s))
    /\ WF_vars(StreamStep)
    /\ WF_vars(Connect \/ (ConnDone /\ GetEnds))
    /\ WF_vars(AppStep)
-----------------------------------------------------------------------------
\* The client's stream, in parts
Sent == [i \in 1 .. MaxSeq * Parts |-> <<(i - 1) \div Parts, ((i - 1) % Parts) + 1>>]

\* The variables have the types of what they stand for; a request has a session from its
\* arrival on, and the channel holds no more than its capacity.
TypeOK ==
    /\ use \in Uploads /\ stopped \in BOOLEAN
    /\ \A r \in DOMAIN request : request[r].at = Nil <=> request[r].pc = "none"
    /\ sessions \in Sessions \cup {Nil}
    /\ \A s \in Sessions :
          /\ Len(queue[s].chan) <= MaxPackets /\ queue[s].next \in 0 .. MaxSeq
          /\ queue[s].heap \subseteq [seq : Seqs, copy : {1, 2}, left : 1 .. Parts]
    /\ reaper \in [Sessions -> {"none", "waiting", "close", "closeReader", "gone"}]
    /\ get.at = Nil <=> get.pc = "none"
    /\ app = "none" <=> get.pc \in {"none", "upserted"}

\* Whatever the order in which the packets arrive, and although some arrive twice, what
\* is read is a prefix of what was sent.  The exception: two sendings of one packet meet
\* in the heap before its turn; when the first is read in parts, the other one is popped
\* before the rest of it and its bytes are read again.
InOrder == ~mixed => IsPrefix(got, Sent)

\* A packet whose request is answered with success is not lost while the queue is open:
\* it waits in the channel or the heap, or its turn has passed.
AcceptedIsKept ==
    \A r \in Posts : LET u == queue[request[r].at] IN
        request[r].pc = "ok" /\ ~u.shut /\ ~tornDown =>
            \/ \E i \in 1 .. Len(u.chan) : u.chan[i] = r
            \/ \E p \in u.heap : <<p.seq, p.copy>> = r
            \/ r[1] < u.next

\* The heap has a bound, and a connection is torn down only when it is reached by
\* packets that all came before the one that is due.
BoundedReassembly ==
    /\ \A s \in Sessions : Cardinality(queue[s].heap) <= MaxPackets + 2
    /\ tornDown => \A p \in q.heap : p.seq > q.next

\* The channel and the heap stay within their limits.
WellFormed == TypeOK /\ BoundedReassembly

\* The session of a GET that is served stays in the table, so that all requests with its
\* id find it, or it has reached its limit and its queue is closed, or is about to be: the
\* reaper may prefer the limit to a GET that came before it, but requests are never led
\* to another session while the GET's queue stays open.  Neither the reapers of earlier
\* sessions nor the GET's own end break this.  The exception: another GET of the id has
\* ended, whose deferred Delete takes the session of this one away.
KeepsItsSession ==
    get.pc = "serving" /\ another = use.another =>
        \/ sessions = get.at
        \/ late[get.at] /\ (queue[get.at].shut \/ reaper[get.at] = "close")

\* Every request that has reached the server is answered: a Push that waits for room is
\* released by a reader that goes on or by the end of the queue, and a stream by the end
\* of its connection or its own.
RequestsReturn ==
    []<>(\A r \in DOMAIN request : request[r].pc \notin {"push", "pushed", "offer"})

\* Every session ends: its queue is closed at last, or a GET serves it for ever; so does
\* the request of a stream.
SessionsEnd ==
    []<>(/\ \A s \in Sessions :
               reaper[s] = "none" \/ queue[s].shut \/ (get.pc = "serving" /\ get.at = s)
         /\ request[StreamUp].pc = "serve" =>
               get.pc = "serving" /\ get.at = request[StreamUp].at)

\* Neither a request nor a session is left behind.
AllEnd == RequestsReturn /\ SessionsEnd

\* What the server has accepted without a gap is read, unless the queue is closed.
Accepted(n) == \A m \in 0 .. n : \E c \in {1, 2} :
                   request[<<m, c>>] = [pc |-> "ok", at |-> get.at]
EventuallyRead ==
    []<>(app # "none" => \/ queue[get.at].shut
                         \/ \A n \in Seqs : Accepted(n) => Len(got) >= Parts * (n + 1))
=============================================================================
