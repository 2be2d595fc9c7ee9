-------------------------- MODULE SplitUploadProofs --------------------------
(***************************************************************************)
(* What holds of the upload half of a splithttp connection for uploads of  *)
(* any length, any number of sessions and any limit of the queue.          *)
(***************************************************************************)
EXTENDS SplitUpload, FiniteSetTheorems, SequenceTheorems, TLAPS

Requests == Posts \cup {StreamUp}
Packets == [seq : Seqs, copy : {1, 2}, left : 1 .. Parts]
Queues == [chan : Seq(Requests), heap : SUBSET Packets, next : 0 .. MaxSeq,
           reader : BOOLEAN, shut : BOOLEAN, stream : BOOLEAN]
RequestPcs == {"none", "offer", "push", "pushed", "serve", "ok", "failed"}
ReaperPcs == {"none", "waiting", "close", "closeReader", "gone"}
GetPcs == {"none", "upserted", "serving", "close", "closeReader", "delete", "gone"}

\* The types of all the state, of which TypeOK states a part.
Types ==
    /\ use \in Uploads /\ stopped \in BOOLEAN
    /\ request \in [Requests -> [pc : RequestPcs, at : Sessions \cup {Nil}]]
    /\ sessions \in Sessions \cup {Nil}
    /\ queue \in [Sessions -> Queues]
    /\ connected \in [Sessions -> BOOLEAN] /\ late \in [Sessions -> BOOLEAN]
    /\ reaper \in [Sessions -> ReaperPcs]
    /\ get \in [pc : GetPcs, at : Sessions \cup {Nil}]
    /\ app \in {"none", "read", "body", "receive", "receiveMore", "loop", "end", "close",
                "closeReader", "gone"}
    /\ got \in Seq(Seqs \X (1 .. Parts))
    /\ tornDown \in BOOLEAN /\ another \in BOOLEAN /\ mixed \in BOOLEAN

\* A request and the GET have a session from their arrival on; the connection is read
\* once the GET is connected.
Attached ==
    /\ \A r \in Requests : request[r].at = Nil <=> request[r].pc = "none"
    /\ get.at = Nil <=> get.pc = "none"
    /\ app = "none" <=> get.pc \in {"none", "upserted"}

\* Until a GET has ended, the session that waits for its reaper is the one in the table,
\* and so is that of the GET, unless its reaper has preferred the limit to the GET.
Table ==
    /\ another => use.another
    /\ another = use.another =>
        /\ get.pc # "gone" => \A s \in Sessions : reaper[s] = "waiting" => sessions = s
        /\ get.pc \notin {"none", "gone"} =>
               \/ sessions = get.at
               \/ late[get.at] /\ (queue[get.at].shut \/ reaper[get.at] = "close")

\* An upload has one of the two modes: packets, which pass through the heap, or a stream.
OneMode ==
    /\ \A r \in Requests : request[r].pc # "none" =>
           use.mode = IF r = StreamUp THEN "stream-up" ELSE "packet-up"
    /\ \A s \in Sessions : \A i \in 1 .. Len(queue[s].chan) :
           request[queue[s].chan[i]].pc # "none"
    /\ \A s \in Sessions : queue[s].reader => use.mode = "stream-up"
    /\ \A s \in Sessions : queue[s].heap # {} => use.mode = "packet-up"
    /\ app = "body" => use.mode = "stream-up"
    /\ app = "loop" => use.mode = "packet-up"
    /\ mixed => use.mode = "packet-up"

\* Nothing is taken from a session's channel before its connection is read.
Unread ==
    /\ \A s \in Sessions : s # get.at \/ app = "none" =>
           queue[s].heap = {} /\ queue[s].next = 0
    /\ app = "none" => got = <<>>
    /\ tornDown => app \in {"end", "close", "closeReader", "gone"}

\* The channel has its capacity; the heap exceeds maxPackets only on the way to a look
\* at it.
Bounds ==
    /\ \A s \in Sessions : Len(queue[s].chan) <= MaxPackets
    /\ \A s \in Sessions : IsFiniteSet(queue[s].heap)
    /\ \A s \in Sessions : Cardinality(queue[s].heap) <= MaxPackets + 2
    /\ app = "receive" => q.heap = {}
    /\ app = "receiveMore" => Cardinality(q.heap) <= MaxPackets + 1
    /\ tornDown => \A p \in q.heap : p.seq > q.next

\* A packet that is taken into the channel stays in the queue until its turn has passed.
InQueue(u, r) ==
    \/ \E i \in 1 .. Len(u.chan) : u.chan[i] = r
    \/ \E p \in u.heap : <<p.seq, p.copy>> = r
    \/ r[1] < u.next
Kept ==
    \A r \in Posts : request[r].pc \in {"pushed", "ok"} /\ ~tornDown =>
        InQueue(queue[request[r].at], r)

\* Unless two sendings have met: only the packet that is due may have been read in part,
\* of which there is one in the heap at most, and what was read ends where the rest of
\* it begins.
Distinct == \A p, o \in q.heap : p.seq = o.seq /\ p.seq >= q.next => p = o
Position ==
    IF use.mode = "packet-up"
    THEN /\ \A p \in q.heap : p.left # Parts => p.seq = q.next
         /\ \A p \in q.heap : p.seq = q.next => Len(got) = Parts * q.next + (Parts - p.left)
         /\ (\A p \in q.heap : p.seq # q.next) => Len(got) = Parts * q.next
    ELSE \E m \in 0 .. MaxSeq : Len(got) = Parts * m
Exact == \A i \in 1 .. Len(got) : got[i] = Sent[i]
Order == app # "none" /\ ~mixed => Distinct /\ Position /\ Exact

UploadInv ==
    Types /\ Attached /\ Table /\ OneMode /\ Unread /\ Bounds /\ Kept /\ Order
-----------------------------------------------------------------------------
(* What the updates of the queue and the requests do. *)

\* The data of the queues, as against the flags of their end.
SameData == \A s \in Sessions : /\ queue'[s].chan = queue[s].chan
                                /\ queue'[s].heap = queue[s].heap
                                /\ queue'[s].next = queue[s].next
StaysShut == \A s \in Sessions : queue[s].shut => queue'[s].shut

\* The session numbers, and the requests, are what they are.
LEMMA Basics ==
  /\ Nil \notin Sessions
  /\ StreamUp \notin Posts /\ StreamUp \in Requests /\ Posts \subseteq Requests
  /\ \A r \in Posts : r[1] \in Seqs /\ r[2] \in {1, 2} /\ r = <<r[1], r[2]>>
  /\ \A r \in Requests : r # StreamUp => r \in Posts
BY UploadAssumption DEF Nil, StreamUp, Posts, Requests, Seqs

\* Close sets closed, and then closes the stored reader.
LEMMA Shutting ==
  ASSUME queue \in [Sessions -> Queues], NEW s \in Sessions, Shut(s) \/ CloseReader(s)
  PROVE  /\ queue' \in [Sessions -> Queues]
         /\ SameData
         /\ \A t \in Sessions : queue'[t].reader = queue[t].reader
         /\ StaysShut
<1>1. CASE Shut(s)
  BY <1>1 DEF Shut, Queues, SameData, StaysShut
<1>2. CASE CloseReader(s)
  <2>1. PICK b \in BOOLEAN : b = (queue[s].stream \/ queue[s].reader)
    OBVIOUS
  <2>2. queue' = [queue EXCEPT ![s].stream = b]
    BY <1>2, <2>1 DEF CloseReader
  <2> QED
    BY <2>2 DEF Queues, SameData, StaysShut
<1> QED
  BY <1>1, <1>2

\* The stream's body is stored.
LEMMA StoringReader ==
  ASSUME queue \in [Sessions -> Queues], NEW s \in Sessions,
         queue' = [queue EXCEPT ![s].reader = TRUE]
  PROVE  queue' \in [Sessions -> Queues] /\ SameData /\ StaysShut
BY DEF Queues, SameData, StaysShut

\* The channel alone changes.
LEMMA ChanChanges ==
  ASSUME queue \in [Sessions -> Queues], NEW s \in Sessions, NEW c \in Seq(Requests),
         queue' = [queue EXCEPT ![s].chan = c]
  PROVE  /\ queue' \in [Sessions -> Queues]
         /\ queue'[s].chan = c
         /\ \A t \in Sessions : t # s => queue'[t].chan = queue[t].chan
         /\ \A t \in Sessions : queue'[t].heap = queue[t].heap
         /\ \A t \in Sessions : queue'[t].next = queue[t].next
         /\ \A t \in Sessions : queue'[t].reader = queue[t].reader
         /\ StaysShut
BY DEF Queues, StaysShut

\* The heap and the number that is due change.
LEMMA HeapChanges ==
  ASSUME queue \in [Sessions -> Queues], NEW s \in Sessions, NEW h \in SUBSET Packets,
         NEW n \in 0 .. MaxSeq,
         queue' = [queue EXCEPT ![s].heap = h, ![s].next = n]
  PROVE  /\ queue' \in [Sessions -> Queues]
         /\ queue'[s].heap = h /\ queue'[s].next = n
         /\ \A t \in Sessions : t # s => queue'[t] = queue[t]
         /\ \A t \in Sessions : queue'[t].chan = queue[t].chan
         /\ \A t \in Sessions : queue'[t].reader = queue[t].reader
         /\ StaysShut
BY DEF Queues, StaysShut

\* The heap alone changes.
LEMMA HeapAlone ==
  ASSUME queue \in [Sessions -> Queues], NEW s \in Sessions, NEW h \in SUBSET Packets,
         queue' = [queue EXCEPT ![s].heap = h]
  PROVE  /\ queue' \in [Sessions -> Queues]
         /\ queue'[s].heap = h /\ queue'[s].next = queue[s].next
         /\ \A t \in Sessions : t # s => queue'[t] = queue[t]
         /\ \A t \in Sessions : queue'[t].chan = queue[t].chan
         /\ \A t \in Sessions : queue'[t].reader = queue[t].reader
         /\ StaysShut
BY DEF Queues, StaysShut

\* A packet goes from the channel to the heap.
LEMMA ChanAndHeapChange ==
  ASSUME queue \in [Sessions -> Queues], NEW s \in Sessions, NEW h \in SUBSET Packets,
         NEW c \in Seq(Requests),
         queue' = [queue EXCEPT ![s].chan = c, ![s].heap = h]
  PROVE  /\ queue' \in [Sessions -> Queues]
         /\ queue'[s].heap = h /\ queue'[s].next = queue[s].next /\ queue'[s].chan = c
         /\ \A t \in Sessions : t # s => queue'[t] = queue[t]
         /\ \A t \in Sessions : queue'[t].reader = queue[t].reader
         /\ StaysShut
BY DEF Queues, StaysShut

\* An answer, or another step of a request's handler, keeps its session.
LEMMA Answering ==
  ASSUME Types, NEW r \in Requests, NEW result \in RequestPcs, Answer(r, result)
  PROVE  /\ request' \in [Requests -> [pc : RequestPcs, at : Sessions \cup {Nil}]]
         /\ request'[r].pc = result
         /\ \A t \in Requests : request'[t].at = request[t].at
         /\ \A t \in Requests : t # r => request'[t] = request[t]
BY DEF Types, Answer, RequestPcs
-----------------------------------------------------------------------------
(* Parts of the invariant that a step leaves alone. *)

\* The sessions' table.
LEMMA TableStays ==
  ASSUME UploadInv, UNCHANGED <<use, get, reaper, sessions, late, another>>, StaysShut
  PROVE  Table'
BY Basics DEF UploadInv, Table, Types, Attached, StaysShut

\* What the reader has, when the data of the queues stay.
LEMMA DataStays ==
  ASSUME UploadInv, SameData, get'.at = get.at, UNCHANGED <<use, got, tornDown, mixed>>,
         app = "none" <=> app' = "none",
         app' = "receive" => app = "receive" \/ q.heap = {},
         app' = "receiveMore" => app = "receiveMore",
         tornDown => app' \in {"end", "close", "closeReader", "gone"}
  PROVE  Unread' /\ Bounds' /\ Order'
<1> USE DEF UploadInv
<1>1. Unread'
  BY DEF Unread, SameData
<1>2. app # "none" => get.at \in Sessions
  BY DEF Types, Attached
<1>3. app # "none" => q'.heap = q.heap /\ q'.next = q.next
  BY <1>2 DEF SameData, q
<1>4. Bounds'
  <2>1. \A s \in Sessions : /\ Len(queue'[s].chan) <= MaxPackets
                            /\ IsFiniteSet(queue'[s].heap)
                            /\ Cardinality(queue'[s].heap) <= MaxPackets + 2
    BY DEF Bounds, SameData
  <2>2. app' = "receive" => q'.heap = {}
    BY <1>3 DEF Bounds
  <2>3. app' = "receiveMore" => Cardinality(q'.heap) <= MaxPackets + 1
    BY <1>3 DEF Bounds
  <2>4. tornDown' => \A p \in q'.heap : p.seq > q'.next
    BY <1>3 DEF Bounds, Unread
  <2> QED
    BY <2>1, <2>2, <2>3, <2>4 DEF Bounds
<1>5. Order'
  BY <1>3 DEF Order, Distinct, Position, Exact
<1> QED
  BY <1>1, <1>4, <1>5

\* The modes, when no request arrives.
LEMMA ModeStays ==
  ASSUME UploadInv, SameData, UNCHANGED <<use, mixed>>,
         \A r \in Requests : request'[r].pc = "none" <=> request[r].pc = "none",
         \A s \in Sessions : queue'[s].reader => queue[s].reader,
         app' \in {"body", "loop"} => app' = app
  PROVE  OneMode'
<1> USE DEF UploadInv
<1>1. \A s \in Sessions : \A i \in 1 .. Len(queue[s].chan) : queue[s].chan[i] \in Requests
  BY DEF Types, Queues
<1>2. \A s \in Sessions : \A i \in 1 .. Len(queue'[s].chan) :
         request'[queue'[s].chan[i]].pc # "none"
  BY <1>1 DEF OneMode, SameData
<1> QED
  BY <1>2 DEF OneMode, SameData

\* The packets in the queue, when no Push succeeds.
LEMMA KeptStays ==
  ASSUME UploadInv, SameData, UNCHANGED tornDown,
         \A r \in Posts : request'[r].pc \in {"pushed", "ok"} =>
             request[r].pc \in {"pushed", "ok"} /\ request'[r].at = request[r].at
  PROVE  Kept'
<1> USE DEF UploadInv
<1> SUFFICES ASSUME NEW r \in Posts, request'[r].pc \in {"pushed", "ok"}, ~tornDown'
             PROVE  InQueue(queue'[request'[r].at], r)
  BY DEF Kept
<1>1. InQueue(queue[request[r].at], r) /\ request'[r].at = request[r].at
  BY DEF Kept
<1>2. request[r].at \in Sessions
  BY Basics DEF Types, Attached
<1> QED
  BY <1>1, <1>2 DEF InQueue, SameData

\* A step that only moves handlers and goroutines, and closes.
LEMMA QuietStep ==
  ASSUME UploadInv, SameData, Types', Attached', Table', get'.at = get.at,
         UNCHANGED <<use, got, tornDown, mixed, app>>,
         \A r \in Requests : request'[r].pc = "none" <=> request[r].pc = "none",
         \A r \in Posts : request'[r].pc \in {"pushed", "ok"} =>
             request[r].pc \in {"pushed", "ok"} /\ request'[r].at = request[r].at,
         \A s \in Sessions : queue'[s].reader => queue[s].reader
  PROVE  UploadInv'
<1>1. Unread' /\ Bounds' /\ Order'
  BY DataStays DEF UploadInv, Unread
<1>2. OneMode' /\ Kept'
  BY ModeStays, KeptStays
<1> QED
  BY <1>1, <1>2 DEF UploadInv
-----------------------------------------------------------------------------
\* Nothing has arrived.
LEMMA UploadInit ==
  ASSUME Init
  PROVE  UploadInv
<1> USE UploadAssumption
<1>1. Types
  <2>1. 0 \in 0 .. MaxSeq /\ <<>> \in Seq(Requests) /\ <<>> \in Seq(Seqs \X (1 .. Parts))
    OBVIOUS
  <2>2. queue \in [Sessions -> Queues]
    BY <2>1 DEF Init, Queues
  <2>3. request \in [Requests -> [pc : RequestPcs, at : Sessions \cup {Nil}]]
    BY DEF Init, Requests, RequestPcs
  <2>4. get \in [pc : GetPcs, at : Sessions \cup {Nil}] /\ reaper \in [Sessions -> ReaperPcs]
    BY DEF Init, GetPcs, ReaperPcs
  <2> QED
    BY <2>1, <2>2, <2>3, <2>4 DEF Init, Types
<1>2. Attached /\ Table /\ Unread
  BY DEF Init, Attached, Table, Unread, Requests
<1>3. OneMode /\ Kept /\ Order
  BY Basics DEF Init, OneMode, Kept, Order
<1>4. Bounds
  <2>1. \A s \in Sessions : queue[s].chan = <<>> /\ queue[s].heap = {}
    BY DEF Init
  <2>2. Len(<<>>) <= MaxPackets /\ IsFiniteSet({}) /\ Cardinality({}) <= MaxPackets + 2
    BY FS_EmptySet
  <2>3. app = "none" /\ ~tornDown
    BY DEF Init
  <2> QED
    BY <2>1, <2>2, <2>3 DEF Bounds
<1> QED
  BY <1>1, <1>2, <1>3, <1>4 DEF UploadInv

\* The client ends the body.
LEMMA StopClientKeeps ==
  ASSUME UploadInv, StopClient, UNCHANGED use
  PROVE  UploadInv'
<1>1. UNCHANGED <<request, sessions, connected, late, reaper, queue, get, another, app, got,
                  tornDown, mixed>> /\ stopped' = TRUE
  BY DEF StopClient, hub, download, readers
<1>2. SameData /\ Attached' /\ Table' /\ Types'
  BY <1>1 DEF SameData, UploadInv, Attached, Table, Types
<1> QED
  BY <1>1, <1>2, QuietStep

\* upsertSession puts its session into the table, and leaves no other one waiting.
LEMMA Upserting ==
  ASSUME UploadInv, NEW s \in Sessions, upsertSession(s)
  PROVE  /\ sessions' = s
         /\ reaper' \in [Sessions -> ReaperPcs]
         /\ get.pc # "gone" /\ another = use.another =>
                \A t \in Sessions : reaper'[t] = "waiting" => t = s
         /\ \A t \in Sessions : reaper[t] = "close" => reaper'[t] = "close"
         /\ sessions = Nil \/ sessions = s
BY UploadAssumption DEF UploadInv, upsertSession, Types, Table, Unused, Nil,
                        ReaperPcs

\* A request arrives.
LEMMA ServePostKeeps ==
  ASSUME UploadInv, NEW r \in Requests, NEW s \in Sessions, ServePost(r, s), UNCHANGED use
  PROVE  UploadInv'
<1> USE DEF UploadInv
<1>1. UNCHANGED <<stopped, connected, late, queue, get, another, app, got, tornDown, mixed>>
  BY DEF ServePost, download, readers
<1>2. PICK p \in {"offer", "push"} : request' = [request EXCEPT ![r] = [pc |-> p, at |-> s]]
  BY DEF ServePost
<1>3. /\ request' \in [Requests -> [pc : RequestPcs, at : Sessions \cup {Nil}]]
      /\ request'[r].pc \in {"offer", "push"} /\ request'[r].at = s
      /\ \A t \in Requests : t # r => request'[t] = request[t]
  BY <1>2 DEF Types, RequestPcs
<1>4. request[r].pc = "none" /\ use.mode = IF r = StreamUp THEN "stream-up" ELSE "packet-up"
  BY DEF ServePost, UnderWay
<1>5. upsertSession(s)
  BY DEF ServePost
<1>6. Types'
  BY <1>1, <1>3, <1>5, Upserting DEF Types
<1>7. Attached'
  BY <1>1, <1>3, Basics DEF Attached
<1>8. Table'
  BY <1>1, <1>5, Upserting, Basics DEF Table, Types, Attached
<1>9. SameData
  BY <1>1 DEF SameData
<1>10. Unread' /\ Bounds' /\ Order'
  BY <1>1, <1>9, DataStays DEF Unread
<1>11. Kept'
  BY <1>1, <1>3, <1>9, KeptStays, Basics
<1>12. OneMode'
  <2>1. \A t \in Sessions : \A i \in 1 .. Len(queue[t].chan) : queue[t].chan[i] \in Requests
    BY DEF Types, Queues
  <2>2. \A t \in Sessions : \A i \in 1 .. Len(queue'[t].chan) :
           request'[queue'[t].chan[i]].pc # "none"
    BY <1>1, <1>3, <2>1 DEF OneMode
  <2> QED
    BY <1>1, <1>3, <1>4, <2>2 DEF OneMode
<1> QED
  BY <1>6, <1>7, <1>8, <1>10, <1>11, <1>12

\* The select of Push: the packet is taken into the channel, ...
LEMMA PushSucceedsKeeps ==
  ASSUME UploadInv, NEW r \in Requests, UNCHANGED use, request[r].pc = "push",
         Len(queue[request[r].at].chan) < MaxPackets,
         queue' = [queue EXCEPT ![request[r].at].chan = Append(queue[request[r].at].chan, r)],
         Answer(r, "pushed"), UNCHANGED <<stopped, hub, download, readers>>
  PROVE  UploadInv'
<1> USE DEF UploadInv
<1>1. UNCHANGED <<stopped, sessions, connected, late, reaper, get, another, app, got, tornDown,
                  mixed>>
  BY DEF hub, download, readers
<1>2. PICK s \in Sessions : s = request[r].at
  BY Basics DEF Attached, Types
<1>3. queue[s].chan \in Seq(Requests)
  BY DEF Types, Queues
<1>4. PICK c \in Seq(Requests) : c = Append(queue[s].chan, r)
  BY <1>3, AppendProperties
<1>5. /\ Len(c) = Len(queue[s].chan) + 1 /\ c[Len(queue[s].chan) + 1] = r
      /\ \A i \in 1 .. Len(queue[s].chan) : c[i] = queue[s].chan[i]
  BY <1>3, <1>4
<1>6. /\ queue' \in [Sessions -> Queues]
      /\ queue'[s].chan = c
      /\ \A t \in Sessions : t # s => queue'[t].chan = queue[t].chan
      /\ \A t \in Sessions : queue'[t].heap = queue[t].heap
      /\ \A t \in Sessions : queue'[t].next = queue[t].next
      /\ \A t \in Sessions : queue'[t].reader = queue[t].reader
      /\ StaysShut
  <2>1. queue' = [queue EXCEPT ![s].chan = c]
    BY <1>2, <1>4
  <2>2. queue \in [Sessions -> Queues]
    BY DEF Types
  <2> HIDE DEF UploadInv
  <2> QED
    BY <2>1, <2>2, ChanChanges
<1>7. /\ request' \in [Requests -> [pc : RequestPcs, at : Sessions \cup {Nil}]]
      /\ request'[r].pc = "pushed"
      /\ \A t \in Requests : request'[t].at = request[t].at
      /\ \A t \in Requests : t # r => request'[t] = request[t]
  BY Answering DEF RequestPcs
<1>8. Types'
  BY <1>1, <1>6, <1>7 DEF Types
<1>9. Attached'
  BY <1>1, <1>7 DEF Attached
<1>10. Table'
  BY <1>1, <1>6, TableStays
<1>11. OneMode'
  <2>1. \A t \in Requests : request'[t].pc = "none" <=> request[t].pc = "none"
    BY <1>7
  <2>2. \A t \in Sessions : \A i \in 1 .. Len(queue[t].chan) : queue[t].chan[i] \in Requests
    BY DEF Types, Queues
  <2>3. ASSUME NEW t \in Sessions, NEW i \in 1 .. Len(queue'[t].chan)
        PROVE  request'[queue'[t].chan[i]].pc # "none"
    <3>1. CASE t # s
      <4>1. queue'[t].chan = queue[t].chan
        BY <1>6, <3>1
      <4>2. request[queue[t].chan[i]].pc # "none" /\ queue[t].chan[i] \in Requests
        BY <2>2, <2>3, <4>1 DEF OneMode
      <4> QED
        BY <2>1, <4>1, <4>2
    <3>2. CASE t = s /\ i \in 1 .. Len(queue[s].chan)
      BY <1>5, <1>6, <2>1, <2>2, <3>2 DEF OneMode
    <3>3. CASE t = s /\ i = Len(queue[s].chan) + 1
      BY <1>5, <1>6, <1>7, <3>3
    <3>4. t = s => i \in 1 .. Len(queue[s].chan) \/ i = Len(queue[s].chan) + 1
      BY <1>3, <1>5, <1>6, <2>3
    <3> QED
      BY <3>1, <3>2, <3>3, <3>4
  <2> QED
    BY <1>1, <1>6, <2>1, <2>3 DEF OneMode
<1>12. Unread'
  BY <1>1, <1>6 DEF Unread
<1>13. app # "none" => q'.heap = q.heap /\ q'.next = q.next
  BY <1>1, <1>6 DEF Types, Attached, q
<1>14. Bounds'
  <2>1. \A t \in Sessions : Len(queue'[t].chan) <= MaxPackets
    BY <1>2, <1>3, <1>5, <1>6, UploadAssumption DEF Bounds
  <2>2. /\ \A t \in Sessions : IsFiniteSet(queue'[t].heap)
        /\ \A t \in Sessions : Cardinality(queue'[t].heap) <= MaxPackets + 2
    BY <1>6 DEF Bounds
  <2> QED
    BY <1>1, <1>13, <2>1, <2>2 DEF Bounds, Unread
<1>15. Kept'
  <2> SUFFICES ASSUME NEW t \in Posts, request'[t].pc \in {"pushed", "ok"}, ~tornDown'
               PROVE  InQueue(queue'[request'[t].at], t)
    BY DEF Kept
  <2>0. t \in Requests
    BY Basics
  <2>1. CASE t = r
    <3>1. request'[t].at = s /\ queue'[s].chan = c
      BY <1>2, <1>6, <1>7, <2>1
    <3>2. Len(queue[s].chan) + 1 \in 1 .. Len(c)
      BY <1>3, <1>5
    <3> QED
      BY <1>5, <2>1, <3>1, <3>2 DEF InQueue
  <2>2. CASE t # r
    <3>1. request'[t].at = request[t].at /\ InQueue(queue[request[t].at], t)
      BY <1>1, <1>7, <2>0, <2>2 DEF Kept
    <3>2. PICK u \in Sessions : u = request[t].at
      BY <1>7, <2>0, <2>2 DEF Types, Attached
    <3>3. CASE u # s
      <4>1. /\ queue'[u].chan = queue[u].chan /\ queue'[u].heap = queue[u].heap
            /\ queue'[u].next = queue[u].next
        BY <1>6, <3>3
      <4>2. InQueue(queue[u], t)
        BY <3>1, <3>2
      <4>3. InQueue(queue'[u], t)
        BY <4>1, <4>2 DEF InQueue
      <4> QED
        BY <3>1, <3>2, <4>3
    <3>4. CASE u = s
      <4>1. ASSUME NEW i \in 1 .. Len(queue[s].chan), queue[s].chan[i] = t
            PROVE  \E j \in 1 .. Len(c) : c[j] = t
        BY <1>3, <1>5, <4>1
      <4> QED
        BY <1>6, <3>1, <3>2, <3>4, <4>1 DEF InQueue
    <3> QED
      BY <3>3, <3>4
  <2> QED
    BY <2>1, <2>2
<1>16. Order'
  BY <1>1, <1>13 DEF Order, Distinct, Position, Exact
<1> QED
  BY <1>8, <1>9, <1>10, <1>11, <1>12, <1>14, <1>15, <1>16

\* ... or the queue is closed; and the look at closed after it.
LEMMA AnswerKeeps ==
  ASSUME UploadInv, NEW r \in Requests, NEW result \in RequestPcs \ {"none"}, UNCHANGED use,
         request[r].pc # "none", Answer(r, result),
         result \in {"pushed", "ok"} /\ r \in Posts => request[r].pc = "pushed",
         UNCHANGED <<stopped, hub, queue, download, readers>>
  PROVE  UploadInv'
<1>1. UNCHANGED <<stopped, sessions, connected, late, reaper, queue, get, another, app, got,
                  tornDown, mixed>>
  BY DEF hub, download, readers
<1>2. /\ request' \in [Requests -> [pc : RequestPcs, at : Sessions \cup {Nil}]]
      /\ request'[r].pc = result
      /\ \A t \in Requests : request'[t].at = request[t].at
      /\ \A t \in Requests : t # r => request'[t] = request[t]
  BY Answering DEF UploadInv
<1>3. Types'
  BY <1>1, <1>2 DEF UploadInv, Types
<1>4. Attached' /\ Table' /\ SameData
  BY <1>1, <1>2 DEF UploadInv, Attached, Table, SameData
<1>5. \A t \in Requests : request'[t].pc = "none" <=> request[t].pc = "none"
  BY <1>2
<1>6. \A t \in Posts : request'[t].pc \in {"pushed", "ok"} =>
             request[t].pc \in {"pushed", "ok"} /\ request'[t].at = request[t].at
  BY <1>2, Basics
<1> QED
  BY <1>1, <1>3, <1>4, <1>5, <1>6, QuietStep

\* Every step of a handler of a request with data.
LEMMA PostKeeps ==
  ASSUME UploadInv, NEW r \in Requests, PostStep(r), UNCHANGED use
  PROVE  UploadInv'
<1>1. CASE Push(r)
  <2>1. CASE Answer(r, "failed") /\ UNCHANGED queue
    BY <1>1, <2>1, AnswerKeeps DEF Push, RequestPcs
  <2>2. CASE ~(Answer(r, "failed") /\ UNCHANGED queue)
    BY <1>1, <2>2, PushSucceedsKeeps DEF Push
  <2> QED
    BY <2>1, <2>2
<1>2. CASE Pushed(r)
  <2>1. PICK result \in {"failed", "serve", "ok"} : Answer(r, result)
    BY <1>2 DEF Pushed
  <2> QED
    BY <1>2, <2>1, AnswerKeeps DEF Pushed, RequestPcs
<1> QED
  BY <1>1, <1>2 DEF PostStep

\* The stream's handler stores its reader, and returns at last.
LEMMA StreamKeeps ==
  ASSUME UploadInv, StreamStep, UNCHANGED use
  PROVE  UploadInv'
<1> USE DEF UploadInv
<1>1. CASE PushReader
  <2>1. UNCHANGED <<stopped, sessions, connected, late, reaper, get, another, app, got,
                    tornDown, mixed>>
    BY <1>1 DEF PushReader, hub, download, readers
  <2>2. PICK s \in Sessions : s = request[StreamUp].at
    BY <1>1, Basics DEF PushReader, Attached, Types
  <2>3. queue' = [queue EXCEPT ![s].reader = TRUE]
    BY <1>1, <2>2 DEF PushReader
  <2>4. queue' \in [Sessions -> Queues] /\ SameData /\ StaysShut
    <3>1. queue \in [Sessions -> Queues]
      BY DEF Types
    <3> HIDE DEF UploadInv
    <3> QED
      BY <2>3, <3>1, StoringReader
  <2>5. /\ request' \in [Requests -> [pc : RequestPcs, at : Sessions \cup {Nil}]]
        /\ request'[StreamUp].pc = "push" /\ request[StreamUp].pc = "offer"
        /\ \A t \in Requests : request'[t].at = request[t].at
        /\ \A t \in Requests : t # StreamUp => request'[t] = request[t]
    BY <1>1, Answering, Basics DEF RequestPcs, PushReader
  <2>6. Types'
    BY <2>1, <2>4, <2>5 DEF Types
  <2>7. Attached' /\ Table'
    BY <2>1, <2>4, <2>5, TableStays DEF Attached
  <2>8. Unread' /\ Bounds' /\ Order'
    BY <2>1, <2>4, DataStays DEF Unread
  <2>9. Kept'
    BY <2>1, <2>4, <2>5, KeptStays, Basics
  <2>10. OneMode'
    <3>1. use.mode = "stream-up"
      BY <2>5, Basics DEF OneMode
    <3>2. \A t \in Sessions : \A i \in 1 .. Len(queue[t].chan) : queue[t].chan[i] \in Requests
      BY DEF Types, Queues
    <3>3. \A t \in Requests : request'[t].pc = "none" <=> request[t].pc = "none"
      BY <2>5
    <3>4. \A t \in Sessions : \A i \in 1 .. Len(queue'[t].chan) :
             request'[queue'[t].chan[i]].pc # "none"
      BY <2>4, <3>2, <3>3 DEF OneMode, SameData
    <3> QED
      BY <2>1, <2>4, <3>1, <3>3, <3>4 DEF OneMode, SameData
  <2> QED
    BY <2>6, <2>7, <2>8, <2>9, <2>10
<1>2. CASE ServeEnds
  BY <1>2, AnswerKeeps, Basics DEF ServeEnds, RequestPcs
<1> QED
  BY <1>1, <1>2 DEF StreamStep
-----------------------------------------------------------------------------
\* The GET arrives.
LEMMA ServeGetKeeps ==
  ASSUME UploadInv, NEW s \in Sessions, ServeGet(s), UNCHANGED use
  PROVE  UploadInv'
<1> USE DEF UploadInv
<1>1. UNCHANGED <<stopped, request, connected, late, queue, another, app, got, tornDown, mixed>>
  BY DEF ServeGet, readers
<1>2. get.pc = "none" /\ get'.pc = "upserted" /\ get'.at = s /\ app = "none"
  BY DEF ServeGet, Attached
<1>3. get' \in [pc : GetPcs, at : Sessions \cup {Nil}]
  BY DEF ServeGet, GetPcs
<1>4. /\ sessions' = s /\ reaper' \in [Sessions -> ReaperPcs]
      /\ another = use.another => \A t \in Sessions : reaper'[t] = "waiting" => t = s
  BY <1>2, Upserting DEF ServeGet
<1>5. Types'
  BY <1>1, <1>3, <1>4 DEF Types
<1>6. Attached' /\ Table'
  BY <1>1, <1>2, <1>4, Basics DEF Attached, Table
<1>7. OneMode' /\ Unread' /\ Kept' /\ Order'
  BY <1>1, <1>2 DEF OneMode, Unread, Kept, InQueue, Order
<1>8. Bounds'
  BY <1>1, <1>2 DEF Bounds, Unread
<1> QED
  BY <1>5, <1>6, <1>7, <1>8

\* The session is connected, and its reading begins.
LEMMA ConnectKeeps ==
  ASSUME UploadInv, Connect, UNCHANGED use
  PROVE  UploadInv'
<1> USE DEF UploadInv
<1>1. UNCHANGED <<stopped, request, sessions, late, reaper, queue, another, got, tornDown,
                  mixed>>
  BY DEF Connect
<1>2. PICK s \in Sessions : s = get.at
  BY Basics DEF Connect, Types, Attached
<1>3. /\ get.pc = "upserted" /\ get'.pc = "serving" /\ get'.at = s
      /\ get' \in [pc : GetPcs, at : Sessions \cup {Nil}]
      /\ app = "none" /\ app' = "read"
      /\ connected' = [connected EXCEPT ![s] = TRUE]
  BY <1>2 DEF Connect, Types, Attached, GetPcs
<1>4. Types'
  BY <1>1, <1>3 DEF Types
<1>5. Attached'
  BY <1>1, <1>2, <1>3, Basics DEF Attached
<1>6. Table'
  BY <1>1, <1>2, <1>3 DEF Table
<1>7. OneMode' /\ Kept'
  BY <1>1, <1>3 DEF OneMode, Kept, InQueue
<1>8. ~tornDown /\ got = <<>> /\ \A t \in Sessions : queue[t].heap = {} /\ queue[t].next = 0
  BY <1>3 DEF Unread
<1>9. Unread' /\ Bounds'
  BY <1>1, <1>3, <1>8 DEF Unread, Bounds
<1>10. q'.heap = {} /\ q'.next = 0 /\ Len(got') = 0
  BY <1>1, <1>3, <1>8 DEF q
<1>11. Order'
  <2>1. Parts * 0 = 0 /\ 0 \in 0 .. MaxSeq
    BY UploadAssumption
  <2>2. Distinct' /\ Exact'
    BY <1>10 DEF Distinct, Exact
  <2>3. Position'
    BY <1>10, <2>1 DEF Position
  <2> QED
    BY <2>2, <2>3 DEF Order
<1> QED
  BY <1>4, <1>5, <1>6, <1>7, <1>9, <1>11

\* The GET's handler closes the connection and deletes the session's id.
LEMMA GetEndsKeeps ==
  ASSUME UploadInv, GetEnds, UNCHANGED use
  PROVE  UploadInv'
<1> USE DEF UploadInv
<1>1. UNCHANGED <<stopped, request, connected, late, reaper, another, app, got, tornDown, mixed>>
  BY DEF GetEnds, readers
<1>2. get.pc \in {"serving", "close", "closeReader", "delete"}
  BY DEF GetEnds
<1>3. PICK s \in Sessions : s = get.at
  BY <1>2, Basics DEF Types, Attached
<1>4. \/ get' = [get EXCEPT !.pc = "close"]
      \/ get' = [get EXCEPT !.pc = "closeReader"]
      \/ get' = [get EXCEPT !.pc = "delete"]
      \/ get' = [get EXCEPT !.pc = "gone"]
  BY DEF GetEnds, AfterShut
<1>5. /\ get' \in [pc : GetPcs, at : Sessions \cup {Nil}] /\ get'.at = s
      /\ get'.pc \in {"close", "closeReader", "delete", "gone"}
  BY <1>3, <1>4 DEF Types, GetPcs
<1>6. sessions' = sessions \/ (get'.pc = "gone" /\ sessions' = Nil)
  BY DEF GetEnds, Types
<1>7. /\ queue' \in [Sessions -> Queues] /\ SameData
      /\ \A t \in Sessions : queue'[t].reader = queue[t].reader
      /\ StaysShut
  <2>1. CASE queue' = queue
    BY <2>1 DEF SameData, StaysShut, Types
  <2>2. CASE queue' # queue
    <3>1. Shut(s) \/ CloseReader(s)
      BY <1>3, <2>2 DEF GetEnds
    <3> QED
      BY <3>1, Shutting DEF Types
  <2> QED
    BY <2>1, <2>2
<1>8. Types'
  BY <1>1, <1>5, <1>6, <1>7 DEF Types
<1>9. Attached'
  BY <1>1, <1>2, <1>3, <1>5, Basics DEF Attached
<1>10. Table'
  BY <1>1, <1>2, <1>3, <1>5, <1>6, <1>7 DEF Table, StaysShut
<1> QED
  BY <1>1, <1>3, <1>5, <1>7, <1>8, <1>9, <1>10, QuietStep

\* The other GET's deferred Delete.
LEMMA AnotherKeeps ==
  ASSUME UploadInv, AnotherEnds, UNCHANGED use
  PROVE  UploadInv'
<1> USE DEF UploadInv
<1>1. UNCHANGED <<stopped, request, connected, late, reaper, queue, get, app, got, tornDown,
                  mixed>>
  BY DEF AnotherEnds, readers
<1>2. another = TRUE /\ another' = FALSE /\ sessions' = Nil
  BY DEF AnotherEnds, Types
<1>3. Types' /\ Attached' /\ SameData
  BY <1>1, <1>2 DEF Types, Attached, SameData
<1>4. another' # use'.another
  BY <1>2 DEF Table
<1>5. Table'
  BY <1>2, <1>4 DEF Table
<1> QED
  BY <1>1, <1>3, <1>5, QuietStep

\* 30 s have passed.
LEMMA LateKeeps ==
  ASSUME UploadInv, NEW s \in Sessions, Late(s), UNCHANGED use
  PROVE  UploadInv'
<1> USE DEF UploadInv
<1>1. UNCHANGED <<stopped, request, sessions, connected, reaper, queue, get, another, app, got,
                  tornDown, mixed>>
  BY DEF Late, download, readers
<1>2. late' = [late EXCEPT ![s] = TRUE]
  BY DEF Late
<1>3. Types' /\ Attached' /\ SameData
  BY <1>1, <1>2 DEF Types, Attached, SameData
<1>4. Table'
  BY <1>1, <1>2, Basics DEF Table, Types, Attached
<1> QED
  BY <1>1, <1>3, <1>4, QuietStep

\* The reaper deletes the id of a session that is late, which is then its own, and closes
\* the queue.
LEMMA ReaperKeeps ==
  ASSUME UploadInv, NEW s \in Sessions, ReaperStep(s), UNCHANGED use
  PROVE  UploadInv'
<1> USE DEF UploadInv
<1>1. UNCHANGED <<stopped, request, connected, late, get, another, app, got, tornDown, mixed>>
  BY DEF ReaperStep, download, readers
<1>2. PICK p \in {"close", "closeReader", "gone"} : reaper' = [reaper EXCEPT ![s] = p]
  BY DEF ReaperStep, Reap, AfterShut
<1>3. /\ reaper' \in [Sessions -> ReaperPcs]
      /\ \A t \in Sessions : reaper'[t] = "waiting" => reaper[t] = "waiting" /\ t # s
  BY <1>2 DEF Types, ReaperPcs
<1>4. /\ sessions' = sessions \/ (reaper[s] = "waiting" /\ late[s] /\ p = "close")
      /\ reaper[s] = "close" => queue'[s].shut
      /\ sessions' \in Sessions \cup {Nil}
  BY <1>2 DEF ReaperStep, Reap, Shut, Types, Queues, ReaperPcs
<1>5. /\ queue' \in [Sessions -> Queues] /\ SameData
      /\ \A t \in Sessions : queue'[t].reader = queue[t].reader
      /\ StaysShut
  <2>1. CASE queue' = queue
    BY <2>1 DEF SameData, StaysShut, Types
  <2>2. CASE queue' # queue
    <3>1. Shut(s) \/ CloseReader(s)
      BY <2>2 DEF ReaperStep, Reap
    <3> QED
      BY <3>1, Shutting DEF Types
  <2> QED
    BY <2>1, <2>2
<1>6. Types' /\ Attached'
  BY <1>1, <1>3, <1>4, <1>5 DEF Types, Attached
<1>7. Table'
  BY <1>1, <1>2, <1>3, <1>4, <1>5, Basics DEF Table, Types, Attached, StaysShut
<1> QED
  BY <1>1, <1>5, <1>6, <1>7, QuietStep
-----------------------------------------------------------------------------
(* The reader of the connection. *)

\* Where the reader reads.
LEMMA Reading ==
  ASSUME UploadInv, app # "none"
  PROVE  get.at \in Sessions /\ q = queue[get.at] /\ q \in Queues
BY DEF UploadInv, Types, Attached, q

\* A step of the reader that leaves the data in the queue: the beginning of a Read, and
\* the end of the connection.
LEMMA TurnsKeep ==
  ASSUME UploadInv, ReadQueue \/ AppCloses \/ CloseConnection, UNCHANGED use
  PROVE  UploadInv'
<1> USE DEF UploadInv
<1>1. UNCHANGED <<stopped, request, sessions, connected, late, reaper, get, another, got,
                  tornDown, mixed>>
  BY DEF ReadQueue, AppCloses, CloseConnection, hub, download
<1>2. /\ app \in {"read", "receive", "receiveMore", "body", "end", "close", "closeReader"}
      /\ app' \in {"body", "end", "receive", "loop", "close", "closeReader", "gone"}
  BY DEF ReadQueue, AppCloses, CloseConnection, AfterShut
<1>3. get.at \in Sessions /\ q = queue[get.at] /\ q \in Queues
  BY <1>2, Reading
<1>4. /\ app' = "receive" => q.heap = {}
      /\ app' = "loop" => q.heap # {}
      /\ app' = "body" => q.reader
  BY DEF ReadQueue, AppCloses, CloseConnection, AfterShut
<1>5. tornDown => app' \in {"end", "close", "closeReader", "gone"}
  BY DEF Unread, ReadQueue, AppCloses, CloseConnection, AfterShut
<1>6. /\ queue' \in [Sessions -> Queues] /\ SameData
      /\ \A t \in Sessions : queue'[t].reader = queue[t].reader
      /\ StaysShut
  <2>1. CASE queue' = queue
    BY <2>1 DEF SameData, StaysShut, Types
  <2>2. CASE queue' # queue
    <3>1. Shut(get.at) \/ CloseReader(get.at)
      BY <2>2 DEF ReadQueue, AppCloses, CloseConnection
    <3> QED
      BY <1>3, <3>1, Shutting DEF Types
  <2> QED
    BY <2>1, <2>2
<1>7. Types' /\ Attached' /\ Table'
  BY <1>1, <1>2, <1>6, TableStays DEF Types, Attached
<1>8. Unread' /\ Bounds' /\ Order'
  BY <1>1, <1>2, <1>4, <1>5, <1>6, DataStays
<1>9. Kept'
  BY <1>1, <1>6, KeptStays
<1>10. OneMode'
  BY <1>1, <1>3, <1>4, <1>6 DEF OneMode, SameData
<1> QED
  BY <1>7, <1>8, <1>9, <1>10
-----------------------------------------------------------------------------
(* Arithmetic of the client's stream, and sequences. *)

\* The quotient and the remainder of a position in packet m.
LEMMA DivMod ==
  \A m \in Nat : \A j \in 0 .. Parts - 1 :
     (Parts * m + j) \div Parts = m /\ (Parts * m + j) % Parts = j
<1> SUFFICES ASSUME NEW m \in Nat, NEW j \in 0 .. Parts - 1
             PROVE  (Parts * m + j) \div Parts = m /\ (Parts * m + j) % Parts = j
  OBVIOUS
<1> QED
  BY UploadAssumption

\* The packets before another one end before it.
LEMMA PacketsFit ==
  /\ \A m \in Nat : Parts * m \in Nat /\ Parts * (m + 1) = Parts * m + Parts
  /\ \A m \in Nat : m < MaxSeq => Parts * m + Parts <= MaxSeq * Parts
  /\ Parts * MaxSeq = MaxSeq * Parts
<1>1. \A m \in Nat : Parts * m \in Nat /\ Parts * (m + 1) = Parts * m + Parts
  BY UploadAssumption
<1>2. Parts * MaxSeq = MaxSeq * Parts
  BY UploadAssumption
<1>3. ASSUME NEW m \in Nat, m < MaxSeq PROVE Parts * m + Parts <= MaxSeq * Parts
  <2>1. PICK d \in Nat : MaxSeq = m + 1 + d
    BY <1>3, UploadAssumption
  <2>2. MaxSeq * Parts = Parts * m + Parts + d * Parts
    BY <2>1, UploadAssumption
  <2>3. d * Parts >= 0 /\ d * Parts \in Nat
    BY UploadAssumption
  <2> QED
    BY <1>1, <2>2, <2>3, UploadAssumption
<1> QED
  BY <1>1, <1>2, <1>3

\* What is read next of packet m, of which k parts have been read, continues the stream.
LEMMA ReadsOn ==
  ASSUME Types, Exact, NEW m \in Nat, m < MaxSeq, NEW k \in Nat, NEW n \in 1 .. Parts,
         k + n <= Parts, Len(got) = Parts * m + k,
         got' = got \o [i \in 1 .. n |-> <<m, k + i>>]
  PROVE  Exact' /\ Len(got') = Parts * m + k + n
<1> DEFINE seg == [i \in 1 .. n |-> <<m, k + i>>]
<1>1. seg \in Seq(Nat \X Nat) /\ Len(seg) = n /\ \A i \in 1 .. n : seg[i] = <<m, k + i>>
  BY UploadAssumption
<1>2. got \in Seq(Nat \X Nat)
  <2>1. Seqs \X (1 .. Parts) \subseteq Nat \X Nat
    BY UploadAssumption DEF Seqs
  <2> QED
    BY <2>1 DEF Types
<1> HIDE DEF seg
<1>3. got' = got \o seg
  BY DEF seg
<1>4. PICK b \in Nat : b = Len(got)
  BY <1>2
<1>5. /\ Len(got') = b + n
      /\ \A i \in 1 .. b + n : got'[i] = IF i <= b THEN got[i] ELSE seg[i - b]
  <2>1. /\ Len(got \o seg) = Len(got) + Len(seg)
        /\ \A i \in 1 .. Len(got) + Len(seg) : (got \o seg)[i] =
               IF i <= Len(got) THEN got[i] ELSE seg[i - Len(got)]
    BY <1>1, <1>2, ConcatProperties
  <2> QED
    BY <1>1, <1>3, <1>4, <2>1
<1>6. ASSUME NEW i \in 1 .. b + n PROVE got'[i] = Sent[i]
  <2>1. CASE i <= b
    <3>1. i \in 1 .. Len(got)
      BY <1>4, <1>6, <2>1
    <3> QED
      BY <1>5, <1>6, <2>1, <3>1 DEF Exact, Sent
  <2>2. CASE i > b
    <3>1. PICK j \in 1 .. n : j = i - b
      BY <1>6, <2>2
    <3>2. got'[i] = <<m, k + j>>
      <4>1. i \in 1 .. b + n /\ ~(i <= b) /\ i - b = j
        BY <1>4, <1>6, <2>2, <3>1
      <4>2. got'[i] = seg[j]
        BY <1>5, <4>1
      <4> QED
        BY <1>1, <4>2
    <3>3. PICK a \in Nat : a = Parts * m
      BY PacketsFit
    <3>4. i - 1 = a + (k + j - 1) /\ k + j - 1 \in 0 .. Parts - 1
      BY <1>4, <3>1, <3>3, UploadAssumption
    <3>5. i \in 1 .. MaxSeq * Parts
      BY <3>3, <3>4, PacketsFit, UploadAssumption
    <3>6. (i - 1) \div Parts = m /\ (i - 1) % Parts = k + j - 1
      BY <3>3, <3>4, DivMod
    <3>7. Sent[i] = <<(i - 1) \div Parts, ((i - 1) % Parts) + 1>>
      BY <3>5 DEF Sent
    <3>8. k + j - 1 + 1 = k + j
      OBVIOUS
    <3> QED
      BY <3>2, <3>6, <3>7, <3>8
  <2> QED
    BY <1>4, <1>6, <2>1, <2>2
<1>7. Exact'
  BY <1>5, <1>6 DEF Exact, Sent
<1> QED
  BY <1>4, <1>5, <1>7

\* What is read has its type.
LEMMA ReadsTyped ==
  ASSUME Types, NEW m \in Seqs, NEW k \in Nat, NEW n \in 1 .. Parts, k + n <= Parts,
         got' = got \o [i \in 1 .. n |-> <<m, k + i>>]
  PROVE  got' \in Seq(Seqs \X (1 .. Parts))
<1>1. [i \in 1 .. n |-> <<m, k + i>>] \in Seq(Seqs \X (1 .. Parts))
  <2>1. \A i \in 1 .. n : <<m, k + i>> \in Seqs \X (1 .. Parts)
    BY UploadAssumption
  <2>2. n \in Nat
    BY UploadAssumption
  <2> QED
    BY SMTT(30), <2>1, <2>2
<1> QED
  BY <1>1, ConcatProperties DEF Types

\* d is c without its first element.
Rest(c, d) ==
    /\ d \in Seq(Requests) /\ Head(c) = c[1] /\ 1 \in 1 .. Len(c)
    /\ Len(d) = Len(c) - 1 /\ Len(c) \in Nat
    /\ \A i \in 1 .. Len(d) : i + 1 \in 1 .. Len(c) /\ d[i] = c[i + 1]
    /\ \A x \in Requests : x # Head(c) /\ (\E i \in 1 .. Len(c) : c[i] = x) =>
                             \E i \in 1 .. Len(d) : d[i] = x

\* The first of the channel is taken, and all others stay.
LEMMA Taking ==
  \A c \in Seq(Requests) : c # <<>> => Rest(c, Tail(c))
<1> SUFFICES ASSUME NEW c \in Seq(Requests), c # <<>> PROVE Rest(c, Tail(c))
  OBVIOUS
<1> DEFINE d == Tail(c)
<1>1. /\ d \in Seq(Requests) /\ Head(c) = c[1] /\ 1 \in 1 .. Len(c)
      /\ Len(d) = Len(c) - 1 /\ Len(c) \in Nat
      /\ \A i \in 1 .. Len(d) : i + 1 \in 1 .. Len(c) /\ d[i] = c[i + 1]
  OBVIOUS
<1> HIDE DEF d
<1>2. ASSUME NEW x \in Requests, x # Head(c), NEW i \in 1 .. Len(c), c[i] = x
      PROVE  \E j \in 1 .. Len(d) : d[j] = x
  <2>1. i # 1
    BY <1>1, <1>2
  <2>2. PICK j \in 1 .. Len(d) : i = j + 1
    BY <1>1, <2>1
  <2> QED
    BY <1>1, <1>2, <2>2
<1>3. Rest(c, d)
  BY <1>1, <1>2 DEF Rest
<1> QED
  BY <1>3 DEF d

\* The length of what is read is within the stream's.
LEMMA PositionBound ==
  ASSUME UploadInv, app # "none", ~mixed
  PROVE  Len(got) <= MaxSeq * Parts
<1> USE DEF UploadInv
<1>1. q \in Queues
  BY Reading
<1>2. q.next \in 0 .. MaxSeq /\ q.heap \subseteq Packets
  BY <1>1 DEF Queues
<1>3. Position
  BY DEF Order
<1>4. CASE use.mode # "packet-up"
  <2>1. PICK m \in 0 .. MaxSeq : Len(got) = Parts * m
    BY <1>3, <1>4 DEF Position
  <2> QED
    BY <2>1, PacketsFit, UploadAssumption
<1>5. CASE use.mode = "packet-up" /\ \A p \in q.heap : p.seq # q.next
  <2>1. Len(got) = Parts * q.next
    BY <1>3, <1>5 DEF Position
  <2> QED
    BY <1>2, <2>1, PacketsFit, UploadAssumption
<1>6. CASE use.mode = "packet-up" /\ \E p \in q.heap : p.seq = q.next
  <2>1. PICK p \in q.heap : p.seq = q.next
    BY <1>6
  <2>2. p.seq \in Seqs /\ p.left \in 1 .. Parts
    BY <1>2 DEF Packets
  <2>3. Len(got) = Parts * q.next + (Parts - p.left)
    BY <1>3, <1>6, <2>1 DEF Position
  <2>4. PICK a \in Nat : a = Parts * q.next
    BY <1>2, PacketsFit
  <2>5. q.next \in Nat /\ q.next < MaxSeq
    BY <1>2, <2>1, <2>2, UploadAssumption DEF Seqs
  <2>6. a + Parts <= MaxSeq * Parts
    BY <2>4, <2>5, PacketsFit
  <2>7. MaxSeq * Parts \in Int
    BY UploadAssumption
  <2> QED
    BY <2>2, <2>3, <2>4, <2>6, <2>7, UploadAssumption
<1> QED
  BY <1>4, <1>5, <1>6
-----------------------------------------------------------------------------
\* A step of the reader leaves the hub, the requests and the GET alone.
LEMMA ReaderStays ==
  ASSUME UploadInv, UNCHANGED <<use, stopped, request, hub, download>>,
         queue' \in [Sessions -> Queues], StaysShut,
         app # "none", app' \in {"read", "body", "receive", "receiveMore", "loop", "end"},
         got' \in Seq(Seqs \X (1 .. Parts)), tornDown' \in BOOLEAN, mixed' \in BOOLEAN
  PROVE  Types' /\ Attached' /\ Table'
<1>1. Types' /\ Attached'
  BY DEF UploadInv, Types, Attached, hub, download
<1>2. Table'
  BY TableStays DEF hub, download
<1> QED
  BY <1>1, <1>2

\* The selects end with the queue.
LEMMA ReceiveEndKeeps ==
  ASSUME UploadInv, app \in {"receive", "receiveMore"}, app' = "end", UNCHANGED use,
         UNCHANGED <<stopped, request, hub, download, queue, got, tornDown, mixed>>
  PROVE  UploadInv'
<1> USE DEF UploadInv
<1>1. Types' /\ Attached' /\ Table'
  BY ReaderStays DEF Types, StaysShut
<1>2. SameData /\ get' = get
  BY DEF SameData, download
<1>3. Unread' /\ Bounds' /\ Order'
  BY <1>2, DataStays
<1>4. OneMode' /\ Kept'
  BY DEF OneMode, Kept
<1> QED
  BY <1>1, <1>3, <1>4

\* The stream's body is received.
LEMMA ReceiveStreamKeeps ==
  ASSUME UploadInv, app \in {"receive", "receiveMore"}, app' = "body", UNCHANGED use,
         q.chan # <<>>, Head(q.chan) = StreamUp,
         queue' = [queue EXCEPT ![get.at].chan = Tail(queue[get.at].chan)],
         UNCHANGED <<stopped, request, hub, download, got, tornDown, mixed>>
  PROVE  UploadInv'
<1> USE DEF UploadInv
<1>0. PICK s \in Sessions : s = get.at /\ q = queue[s] /\ q \in Queues
  BY Reading
<1>1. PICK c \in Seq(Requests) : c = queue[s].chan /\ c # <<>> /\ Head(c) = StreamUp
  BY <1>0 DEF Queues
<1>2. PICK d : d = Tail(c)
  OBVIOUS
<1>3a. Rest(c, d)
  BY <1>1, <1>2, Taking
<1>3. /\ d \in Seq(Requests)
      /\ Head(c) = c[1] /\ 1 \in 1 .. Len(c) /\ Len(d) = Len(c) - 1 /\ Len(c) \in Nat
      /\ \A i \in 1 .. Len(d) : i + 1 \in 1 .. Len(c) /\ d[i] = c[i + 1]
      /\ \A x \in Requests : x # Head(c) /\ (\E i \in 1 .. Len(c) : c[i] = x) =>
                               \E i \in 1 .. Len(d) : d[i] = x
  BY <1>3a DEF Rest
<1>4. /\ queue' \in [Sessions -> Queues]
      /\ queue'[s].chan = d
      /\ \A t \in Sessions : t # s => queue'[t].chan = queue[t].chan
      /\ \A t \in Sessions : queue'[t].heap = queue[t].heap
      /\ \A t \in Sessions : queue'[t].next = queue[t].next
      /\ \A t \in Sessions : queue'[t].reader = queue[t].reader
      /\ StaysShut
  <2>1. queue' = [queue EXCEPT ![s].chan = d] /\ queue \in [Sessions -> Queues]
    BY <1>0, <1>1, <1>2 DEF Types
  <2> HIDE DEF UploadInv
  <2> QED
    BY <1>3, <2>1, ChanChanges
<1>5. Types' /\ Attached' /\ Table'
  BY <1>4, ReaderStays DEF Types
<1>6. get' = get /\ q'.heap = q.heap /\ q'.next = q.next /\ ~tornDown
  BY <1>0, <1>4 DEF download, q, Unread
<1>7. Order'
  BY <1>6 DEF Order, Distinct, Position, Exact
<1>8. Unread'
  BY <1>4, <1>6 DEF Unread
<1>9. Bounds'
  <2>1. \A t \in Sessions : Len(queue'[t].chan) <= MaxPackets
    BY SMTT(30), <1>1, <1>3, <1>4, UploadAssumption DEF Bounds
  <2> QED
    BY <1>4, <1>6, <2>1 DEF Bounds
<1>10. \A t \in Sessions : \A i \in 1 .. Len(queue'[t].chan) :
          request'[queue'[t].chan[i]].pc # "none"
  BY SMTT(30), <1>1, <1>3, <1>4 DEF OneMode
<1>11. OneMode'
  <2>1. use.mode = "stream-up"
    BY <1>1, <1>3, Basics DEF OneMode
  <2> QED
    BY <1>4, <1>10, <2>1 DEF OneMode
<1>12. Kept'
  <2> SUFFICES ASSUME NEW r \in Posts, request'[r].pc \in {"pushed", "ok"}, ~tornDown'
               PROVE  InQueue(queue'[request'[r].at], r)
    BY DEF Kept
  <2>1. InQueue(queue[request[r].at], r) /\ request[r].at \in Sessions
    BY Basics DEF Kept, Types, Attached
  <2>2. r # Head(c)
    BY <1>1, Basics
  <2>3. CASE request[r].at # s
    <3>1. PICK t \in Sessions : t = request[r].at /\ t # s
      BY <2>1, <2>3
    <3> QED
      BY <1>4, <2>1, <3>1 DEF InQueue
  <2>4. CASE request[r].at = s
    <3>1. (\E i \in 1 .. Len(c) : c[i] = r) => \E i \in 1 .. Len(d) : d[i] = r
      BY <1>3, <2>2, Basics
    <3> QED
      BY <1>1, <1>4, <2>1, <2>4, <3>1 DEF InQueue
  <2> QED
    BY <2>3, <2>4
<1> QED
  BY <1>5, <1>7, <1>8, <1>9, <1>11, <1>12

\* A packet is received.
LEMMA ReceivePacketKeeps ==
  ASSUME UploadInv, app \in {"receive", "receiveMore"}, app' = "loop", UNCHANGED use,
         q.chan # <<>>, NEW r, r = Head(q.chan), r # StreamUp,
         queue' = [queue EXCEPT ![get.at].chan = Tail(queue[get.at].chan),
                                ![get.at].heap = queue[get.at].heap \cup {Packet(r)}],
         mixed' = (mixed \/ \E p \in q.heap : p.seq = r[1] /\ r[1] >= q.next),
         UNCHANGED <<stopped, request, hub, download, got, tornDown>>
  PROVE  UploadInv'
<1> USE DEF UploadInv
<1>0. PICK s \in Sessions : s = get.at /\ q = queue[s] /\ q \in Queues
  BY Reading
<1>1. PICK c \in Seq(Requests) : c = queue[s].chan /\ c # <<>> /\ Head(c) = r
  BY <1>0 DEF Queues
<1>2. PICK d : d = Tail(c)
  OBVIOUS
<1>3a. Rest(c, d)
  BY <1>1, <1>2, Taking
<1>3. /\ d \in Seq(Requests)
      /\ Head(c) = c[1] /\ 1 \in 1 .. Len(c) /\ Len(d) = Len(c) - 1 /\ Len(c) \in Nat
      /\ \A i \in 1 .. Len(d) : i + 1 \in 1 .. Len(c) /\ d[i] = c[i + 1]
      /\ \A x \in Requests : x # Head(c) /\ (\E i \in 1 .. Len(c) : c[i] = x) =>
                               \E i \in 1 .. Len(d) : d[i] = x
  BY <1>3a DEF Rest
<1>4. r \in Posts /\ request[r].pc # "none"
  <2>1. c[1] \in Requests
    BY <1>1, <1>3
  <2> QED
    BY <1>1, <1>3, <2>1, Basics DEF OneMode
<1>5. use.mode = "packet-up"
  BY <1>4, Basics DEF OneMode
<1>6. PICK n \in Packets : n = Packet(r)
  <2>1. r[1] \in Seqs /\ r[2] \in {1, 2} /\ Parts \in 1 .. Parts
    BY <1>4, Basics, UploadAssumption
  <2>2. Packet(r) \in Packets
    BY <2>1 DEF Packets, Packet
  <2> QED
    BY <2>2
<1>7. n.seq = r[1] /\ n.copy = r[2] /\ n.left = Parts
  BY <1>6 DEF Packet
<1>8. PICK h \in SUBSET Packets : h = queue[s].heap \cup {n}
  BY <1>0, <1>6 DEF Queues
<1>9. /\ queue' \in [Sessions -> Queues]
      /\ queue'[s].heap = h /\ queue'[s].next = queue[s].next /\ queue'[s].chan = d
      /\ \A t \in Sessions : t # s => queue'[t] = queue[t]
      /\ \A t \in Sessions : queue'[t].reader = queue[t].reader
      /\ StaysShut
  <2>1. queue' = [queue EXCEPT ![s].chan = d, ![s].heap = h] /\ queue \in [Sessions -> Queues]
    BY <1>0, <1>1, <1>2, <1>6, <1>8 DEF Types
  <2> HIDE DEF UploadInv
  <2> QED
    BY <1>3, <2>1, ChanAndHeapChange
<1>10. Types' /\ Attached' /\ Table'
  BY <1>9, ReaderStays DEF Types
<1>11. get' = get /\ q'.heap = h /\ q'.next = q.next /\ ~tornDown
  BY <1>0, <1>9 DEF download, q, Unread
<1>12. Unread'
  BY <1>0, <1>9, <1>11 DEF Unread
<1>13. Bounds'
  <2>1. \A t \in Sessions : Len(queue'[t].chan) <= MaxPackets
    BY SMTT(30), <1>1, <1>3, <1>9, UploadAssumption DEF Bounds
  <2>2. IsFiniteSet(queue[s].heap) /\ Cardinality(queue[s].heap) <= MaxPackets + 1
    <3>1. CASE app = "receive"
      BY SMTT(30), <1>0, <3>1, FS_EmptySet, UploadAssumption DEF Bounds
    <3>2. CASE app = "receiveMore"
      BY <1>0, <3>2 DEF Bounds
    <3> QED
      BY <3>1, <3>2
  <2>3. Cardinality(queue[s].heap) \in Nat
    BY <2>2, FS_CardinalityType
  <2>4. IsFiniteSet(h) /\ Cardinality(h) <= MaxPackets + 2
    <3>1. /\ IsFiniteSet(queue[s].heap \cup {n})
          /\ Cardinality(queue[s].heap \cup {n}) =
               IF n \in queue[s].heap THEN Cardinality(queue[s].heap)
                                      ELSE Cardinality(queue[s].heap) + 1
      BY <2>2, FS_AddElement
    <3> QED
      BY <1>8, <2>2, <2>3, <3>1, UploadAssumption
  <2>5. /\ \A t \in Sessions : IsFiniteSet(queue'[t].heap)
        /\ \A t \in Sessions : Cardinality(queue'[t].heap) <= MaxPackets + 2
    BY <1>9, <2>4 DEF Bounds
  <2> QED
    BY <1>11, <2>1, <2>5 DEF Bounds
<1>14. \A t \in Sessions : \A i \in 1 .. Len(queue'[t].chan) :
          request'[queue'[t].chan[i]].pc # "none"
  <2>1. \A t \in Sessions : t # s => queue'[t].chan = queue[t].chan
    BY <1>9
  <2>2. queue'[s].chan = d
    BY <1>9
  <2>3. ASSUME NEW i \in 1 .. Len(d) PROVE request[d[i]].pc # "none"
    <3>1. d[i] = c[i + 1] /\ i + 1 \in 1 .. Len(c)
      BY <1>3
    <3> QED
      BY <1>1, <3>1 DEF OneMode
  <2>4. \A t \in Sessions : \A i \in 1 .. Len(queue[t].chan) :
           request[queue[t].chan[i]].pc # "none"
    BY DEF OneMode
  <2> QED
    BY <2>1, <2>2, <2>3, <2>4
<1>15. OneMode'
  BY <1>5, <1>9, <1>14 DEF OneMode
<1>16. Kept'
  <2> SUFFICES ASSUME NEW x \in Posts, request'[x].pc \in {"pushed", "ok"}, ~tornDown'
               PROVE  InQueue(queue'[request'[x].at], x)
    BY DEF Kept
  <2>1. InQueue(queue[request[x].at], x) /\ request[x].at \in Sessions
    BY Basics DEF Kept, Types, Attached
  <2>2. CASE request[x].at # s
    BY <1>9, <2>1, <2>2
  <2>3. CASE request[x].at = s /\ x = r
    <3>1. n \in queue'[s].heap
      BY <1>8, <1>9
    <3>2. <<n.seq, n.copy>> = x
      BY <1>4, <1>7, <2>3, Basics
    <3> QED
      BY <2>3, <3>1, <3>2 DEF InQueue
  <2>4. CASE request[x].at = s /\ x # r
    <3>1. (\E i \in 1 .. Len(c) : c[i] = x) => \E i \in 1 .. Len(d) : d[i] = x
      BY <1>1, <1>3, <2>4, Basics
    <3>2. InQueue(queue[s], x)
      BY <2>1, <2>4
    <3>3. InQueue(queue'[s], x)
      BY <1>1, <1>8, <1>9, <3>1, <3>2 DEF InQueue
    <3> QED
      BY <2>4, <3>3
  <2> QED
    BY <2>2, <2>3, <2>4
<1>17. Order'
  <2> SUFFICES ASSUME ~mixed' PROVE Distinct' /\ Position' /\ Exact'
    BY DEF Order
  <2>1. Distinct /\ Position /\ Exact
    BY DEF Order
  <2>2. \A p \in q.heap : ~(p.seq = n.seq /\ n.seq >= q.next)
    BY <1>7
  <2>3. h = q.heap \cup {n}
    BY <1>0, <1>8
  <2>4. Distinct'
    BY <1>11, <2>1, <2>2, <2>3 DEF Distinct
  <2>5. q.next \in Nat /\ Parts * q.next \in Nat
    <3> HIDE DEF UploadInv
    <3>1. q.next \in 0 .. MaxSeq
      BY <1>0 DEF Queues
    <3>2. q.next \in Nat
      BY <3>1, UploadAssumption
    <3> QED
      BY <3>2, PacketsFit
  <2>6. Position'
    <3>1. \A p \in h : p.left # Parts => p.seq = q.next
      BY <1>5, <1>7, <2>1, <2>3 DEF Position
    <3>2. ASSUME NEW p \in h, p.seq = q.next
          PROVE  Len(got) = Parts * q.next + (Parts - p.left)
      <4>1. CASE p \in q.heap
        BY <1>5, <2>1, <3>2, <4>1 DEF Position
      <4>2. CASE p = n
        <5>1. \A o \in q.heap : o.seq # q.next
          BY <2>2, <2>5, <3>2, <4>2
        <5>2. Len(got) = Parts * q.next
          BY <1>5, <2>1, <5>1 DEF Position
        <5> QED
          BY <1>7, <2>5, <4>2, <5>2, UploadAssumption
      <4> QED
        BY <2>3, <4>1, <4>2
    <3>3. (\A p \in h : p.seq # q.next) => Len(got) = Parts * q.next
      BY <1>5, <2>1, <2>3 DEF Position
    <3> QED
      BY <1>5, <1>11, <3>1, <3>2, <3>3 DEF Position
  <2> QED
    BY <2>1, <2>4, <2>6 DEF Exact
<1> QED
  BY <1>10, <1>12, <1>13, <1>15, <1>16, <1>17

\* The selects of Read.
LEMMA ReceiveKeeps ==
  ASSUME UploadInv, Receive, UNCHANGED use
  PROVE  UploadInv'
<1>1. app \in {"receive", "receiveMore"}
      /\ UNCHANGED <<stopped, request, hub, download, got, tornDown>>
  BY DEF Receive
<1>2. CASE app' = "end" /\ UNCHANGED <<queue, mixed>>
  BY <1>1, <1>2, ReceiveEndKeeps
<1>3. CASE q.chan # <<>> /\ Head(q.chan) = StreamUp /\ app' = "body" /\ UNCHANGED mixed
           /\ queue' = [queue EXCEPT ![get.at].chan = Tail(queue[get.at].chan)]
  BY <1>1, <1>3, ReceiveStreamKeeps
<1>4. CASE /\ q.chan # <<>> /\ Head(q.chan) # StreamUp /\ app' = "loop"
           /\ queue' = [queue EXCEPT ![get.at].chan = Tail(queue[get.at].chan),
                   ![get.at].heap = queue[get.at].heap \cup {Packet(Head(q.chan))}]
           /\ mixed' = (mixed \/ \E p \in q.heap : p.seq = Head(q.chan)[1]
                                                   /\ Head(q.chan)[1] >= q.next)
  BY <1>1, <1>4, ReceivePacketKeeps
<1> QED
  BY <1>2, <1>3, <1>4 DEF Receive, Received
-----------------------------------------------------------------------------
\* The heap of the connection has changed, and with it the number that is due; the
\* channels have not.
HeapIs(h, n) ==
    /\ queue' \in [Sessions -> Queues]
    /\ queue'[get.at].heap = h /\ queue'[get.at].next = n
    /\ \A t \in Sessions : t # get.at => queue'[t] = queue[t]
    /\ \A t \in Sessions : queue'[t].chan = queue[t].chan
    /\ \A t \in Sessions : queue'[t].reader = queue[t].reader
    /\ StaysShut

\* What a step of the loop over the heap keeps, given what it does to the heap.
LEMMA LoopStepKeeps ==
  ASSUME UploadInv, app = "loop", UNCHANGED <<use, stopped, request, hub, download, mixed>>,
         NEW h, NEW n \in 0 .. MaxSeq, HeapIs(h, n),
         q.next <= n,
         IsFiniteSet(h), Cardinality(h) <= MaxPackets + 2,
         app' \in {"read", "receiveMore", "loop", "end"},
         app' = "receiveMore" => Cardinality(h) <= MaxPackets + 1,
         got' \in Seq(Seqs \X (1 .. Parts)), tornDown' \in BOOLEAN,
         tornDown' => app' = "end" /\ \A p \in h : p.seq > n,
         ~tornDown' => \A p \in q.heap :
             (\E o \in h : o.seq = p.seq /\ o.copy = p.copy) \/ p.seq < n,
         Order'
  PROVE  UploadInv'
<1> USE DEF UploadInv
<1>0. PICK s \in Sessions : s = get.at /\ q = queue[s] /\ q \in Queues
  BY Reading
<1>1. Types' /\ Attached' /\ Table'
  BY ReaderStays DEF HeapIs, Types
<1>2. get' = get /\ q'.heap = h /\ q'.next = n /\ request' = request /\ ~tornDown
  BY DEF download, q, Unread, HeapIs
<1>3. /\ \A t \in Sessions : t # s => queue'[t] = queue[t]
      /\ \A t \in Sessions : queue'[t].chan = queue[t].chan
      /\ \A t \in Sessions : queue'[t].reader = queue[t].reader
      /\ StaysShut
      /\ queue'[s].heap = h /\ queue'[s].next = n
  BY <1>0 DEF HeapIs
<1>4. use.mode = "packet-up"
  BY DEF OneMode
<1>5. OneMode'
  <2>1. \A t \in Sessions : \A i \in 1 .. Len(queue'[t].chan) :
           request'[queue'[t].chan[i]].pc # "none"
    BY <1>2, <1>3 DEF OneMode
  <2> QED
    BY <1>2, <1>3, <1>4, <2>1 DEF OneMode
<1>6. Unread'
  BY <1>0, <1>2, <1>3 DEF Unread
<1>7. Bounds'
  <2>1. \A t \in Sessions : Len(queue'[t].chan) <= MaxPackets
    BY <1>3 DEF Bounds
  <2>2. \A t \in Sessions : IsFiniteSet(queue'[t].heap)
    BY <1>3 DEF Bounds
  <2>3. \A t \in Sessions : Cardinality(queue'[t].heap) <= MaxPackets + 2
    BY <1>3 DEF Bounds
  <2> QED
    BY <1>2, <2>1, <2>2, <2>3 DEF Bounds
<1>8. Kept'
  <2> SUFFICES ASSUME NEW x \in Posts, request'[x].pc \in {"pushed", "ok"}, ~tornDown'
               PROVE  InQueue(queue'[request'[x].at], x)
    BY DEF Kept
  <2>1. InQueue(queue[request[x].at], x) /\ request[x].at \in Sessions
    BY <1>2, Basics DEF Kept, Types, Attached
  <2>2. CASE request[x].at # s
    BY <1>2, <1>3, <2>1, <2>2
  <2>3. CASE request[x].at = s
    <3>1. InQueue(q, x)
      BY <1>0, <2>1, <2>3
    <3>2. ASSUME \E i \in 1 .. Len(q.chan) : q.chan[i] = x PROVE InQueue(queue'[s], x)
      BY <1>0, <1>3, <3>2 DEF InQueue
    <3>3. ASSUME NEW p \in q.heap, <<p.seq, p.copy>> = x PROVE InQueue(queue'[s], x)
      <4>1. CASE \E o \in h : o.seq = p.seq /\ o.copy = p.copy
        BY <1>3, <3>3, <4>1 DEF InQueue
      <4>2. CASE p.seq < n
        BY <1>3, <3>3, <4>2 DEF InQueue
      <4> QED
        BY <4>1, <4>2
    <3>4. ASSUME x[1] < q.next PROVE InQueue(queue'[s], x)
      <4>1. x[1] < n
        BY <1>0, <3>4, Basics, UploadAssumption DEF Queues, Seqs
      <4> QED
        BY <1>3, <4>1 DEF InQueue
    <3>5. InQueue(queue'[s], x)
      BY <3>1, <3>2, <3>3, <3>4 DEF InQueue
    <3> QED
      BY <1>2, <2>3, <3>5
  <2> QED
    BY <2>2, <2>3
<1> QED
  BY <1>1, <1>5, <1>6, <1>7, <1>8

\* Without one of its packets the heap is smaller.
LEMMA Popping ==
  ASSUME UploadInv, app = "loop", NEW p \in q.heap
  PROVE  /\ IsFiniteSet(q.heap \ {p})
         /\ Cardinality(q.heap) \in Nat
         /\ Cardinality(q.heap \ {p}) = Cardinality(q.heap) - 1
         /\ Cardinality(q.heap) <= MaxPackets + 2
         /\ \A o : /\ IsFiniteSet((q.heap \ {p}) \cup {o})
                   /\ Cardinality((q.heap \ {p}) \cup {o}) <= MaxPackets + 2
<1>1. IsFiniteSet(q.heap) /\ Cardinality(q.heap) <= MaxPackets + 2
  BY Reading DEF UploadInv, Bounds
<1>2. Cardinality(q.heap) \in Nat
  BY <1>1, FS_CardinalityType
<1>3. IsFiniteSet(q.heap \ {p}) /\ Cardinality(q.heap \ {p}) = Cardinality(q.heap) - 1
  BY <1>1, FS_RemoveElement
<1>4. ASSUME NEW o
      PROVE  /\ IsFiniteSet((q.heap \ {p}) \cup {o})
             /\ Cardinality((q.heap \ {p}) \cup {o}) <= MaxPackets + 2
  <2> DEFINE g == q.heap \ {p}
  <2>1. /\ IsFiniteSet(g \cup {o})
        /\ Cardinality(g \cup {o}) = IF o \in g THEN Cardinality(g) ELSE Cardinality(g) + 1
    BY <1>3, FS_AddElement
  <2> QED
    BY <1>1, <1>2, <1>3, <2>1, UploadAssumption
<1> QED
  BY <1>1, <1>2, <1>3, <1>4

\* The updates that the loop makes of the heap.
LEMMA HeapBecomes ==
  ASSUME UploadInv, app # "none", NEW h \in SUBSET Packets
  PROVE  /\ queue' = [queue EXCEPT ![get.at].heap = h] => HeapIs(h, q.next)
         /\ \A n \in 0 .. MaxSeq :
               queue' = [queue EXCEPT ![get.at].heap = h, ![get.at].next = n] => HeapIs(h, n)
<1>0. PICK s \in Sessions : s = get.at /\ q = queue[s]
  BY Reading
<1>1. queue \in [Sessions -> Queues]
  BY DEF UploadInv, Types
<1>2. ASSUME queue' = [queue EXCEPT ![s].heap = h] PROVE HeapIs(h, q.next)
  <2>1. /\ queue' \in [Sessions -> Queues]
        /\ queue'[s].heap = h /\ queue'[s].next = queue[s].next
        /\ \A t \in Sessions : t # s => queue'[t] = queue[t]
        /\ \A t \in Sessions : queue'[t].chan = queue[t].chan
        /\ \A t \in Sessions : queue'[t].reader = queue[t].reader
        /\ StaysShut
    BY <1>1, <1>2, HeapAlone
  <2> QED
    BY <1>0, <2>1 DEF HeapIs
<1>3. ASSUME NEW n \in 0 .. MaxSeq, queue' = [queue EXCEPT ![s].heap = h, ![s].next = n]
      PROVE  HeapIs(h, n)
  <2>1. /\ queue' \in [Sessions -> Queues]
        /\ queue'[s].heap = h /\ queue'[s].next = n
        /\ \A t \in Sessions : t # s => queue'[t] = queue[t]
        /\ \A t \in Sessions : queue'[t].chan = queue[t].chan
        /\ \A t \in Sessions : queue'[t].reader = queue[t].reader
        /\ StaysShut
    BY <1>1, <1>3, HeapChanges
  <2> QED
    BY <1>0, <2>1 DEF HeapIs
<1> QED
  BY <1>0, <1>2, <1>3

\* A packet that is not due leaves the heap, and what was read is as before.
LEMMA DropKeepsOrder ==
  ASSUME UploadInv, app # "none", NEW p \in q.heap, p.seq # q.next,
         HeapIs(q.heap \ {p}, q.next), UNCHANGED <<use, get, got, mixed>>
  PROVE  Order'
<1> USE DEF UploadInv
<1> SUFFICES ASSUME ~mixed PROVE Distinct' /\ Position' /\ Exact'
  BY DEF Order
<1>1. Distinct /\ Position /\ Exact
  BY DEF Order
<1>2. q'.heap = q.heap \ {p} /\ q'.next = q.next
  BY DEF HeapIs, q
<1>3. Distinct'
  BY <1>1, <1>2 DEF Distinct
<1>4. Position'
  BY <1>1, <1>2 DEF Position
<1> QED
  BY <1>1, <1>3, <1>4 DEF Exact

\* A packet that comes too early.
LEMMA MisorderedKeeps ==
  ASSUME UploadInv, app = "loop", NEW p \in Least, Misordered(p),
         UNCHANGED <<use, stopped, request, hub, download, mixed>>
  PROVE  UploadInv'
<1>0. p \in q.heap /\ p.seq > q.next /\ got' = got /\ \A o \in q.heap : p.seq <= o.seq
  BY DEF Least, Misordered
<1>1. q \in Queues /\ get.at \in Sessions /\ q = queue[get.at]
  BY Reading
<1>2. q.heap \in SUBSET Packets /\ q.next \in 0 .. MaxSeq
  BY <1>1 DEF Queues
<1>3. \A o \in q.heap : o.seq \in Nat /\ p.seq \in Nat /\ q.next \in Nat
  BY <1>0, <1>2 DEF Packets, Seqs
<1>4. /\ IsFiniteSet(q.heap \ {p})
      /\ Cardinality(q.heap) \in Nat
      /\ Cardinality(q.heap \ {p}) = Cardinality(q.heap) - 1
      /\ Cardinality(q.heap) <= MaxPackets + 2
  BY <1>0, Popping
<1>5. got \in Seq(Seqs \X (1 .. Parts)) /\ queue \in [Sessions -> Queues] /\ get' = get
  BY DEF UploadInv, Types, download
<1>6. CASE TooLarge
  <2>1. queue' = [queue EXCEPT ![get.at].heap = q.heap \ {p}] /\ app' = "end" /\ tornDown'
    BY <1>1, <1>6 DEF Misordered
  <2>2. PICK h \in SUBSET Packets : h = q.heap \ {p}
    BY <1>2
  <2>3. HeapIs(h, q.next)
    BY <2>1, <2>2, HeapBecomes
  <2>4. Order'
    BY <1>0, <1>3, <1>5, <2>2, <2>3, DropKeepsOrder
  <2>5. \A o \in h : o.seq > q.next
    BY <1>0, <1>3, <2>2
  <2>6. IsFiniteSet(h) /\ Cardinality(h) <= MaxPackets + 2
    BY <1>4, <2>2, UploadAssumption
  <2>7. tornDown' = TRUE
    BY <1>6 DEF Misordered
  <2> QED
    BY <1>0, <1>2, <1>3, <1>5, <2>1, <2>3, <2>4, <2>5, <2>6, <2>7, LoopStepKeeps
<1>7. CASE ~TooLarge
  <2>1. queue' = queue /\ app' = "receiveMore" /\ tornDown' = FALSE
    BY <1>7 DEF Misordered
  <2>2. HeapIs(q.heap, q.next)
    BY <1>1, <1>5, <2>1 DEF HeapIs, StaysShut
  <2>3. q' = q
    BY <1>5, <2>1 DEF q
  <2>4. Order'
    BY <1>0, <2>1, <2>3 DEF UploadInv, Order, Distinct, Position, Exact
  <2>5. IsFiniteSet(q.heap) /\ Cardinality(q.heap) <= MaxPackets + 1
    <3>1. IsFiniteSet(q.heap)
      BY <1>1 DEF UploadInv, Bounds
    <3>2. ~(Cardinality(q.heap) - 1 > MaxPackets)
      BY <1>7 DEF TooLarge
    <3> QED
      BY <1>4, <3>1, <3>2, UploadAssumption
  <2>6. ~tornDown' /\ tornDown' \in BOOLEAN
    BY <2>1, Zenon
  <2>8. /\ app' \in {"read", "receiveMore", "loop", "end"}
        /\ got' \in Seq(Seqs \X (1 .. Parts)) /\ q.next <= q.next
    BY <1>0, <1>3, <1>5, <2>1
  <2>7. \A o \in q.heap : \E x \in q.heap : x.seq = o.seq /\ x.copy = o.copy
    OBVIOUS
  <2> QED
    BY <1>2, <1>4, <2>2, <2>4, <2>5, <2>6, <2>7, <2>8, LoopStepKeeps
<1> QED
  BY <1>6, <1>7

\* A packet that was read before.
LEMMA StaleKeeps ==
  ASSUME UploadInv, app = "loop", NEW p \in Least, Stale(p),
         UNCHANGED <<use, stopped, request, hub, download, mixed>>
  PROVE  UploadInv'
<1>0. /\ p \in q.heap /\ p.seq < q.next /\ got' = got /\ tornDown' = tornDown
      /\ app' \in {"read", "loop"}
  BY DEF Least, Stale
<1>1. q \in Queues /\ get.at \in Sessions /\ q = queue[get.at]
  BY Reading
<1>2. q.heap \in SUBSET Packets /\ q.next \in 0 .. MaxSeq
  BY <1>1 DEF Queues
<1>3. p.seq \in Nat /\ q.next \in Nat
  BY <1>0, <1>2 DEF Packets, Seqs
<1>4. /\ IsFiniteSet(q.heap \ {p})
      /\ Cardinality(q.heap) \in Nat
      /\ Cardinality(q.heap \ {p}) = Cardinality(q.heap) - 1
      /\ Cardinality(q.heap) <= MaxPackets + 2
  BY <1>0, Popping
<1>5. got \in Seq(Seqs \X (1 .. Parts)) /\ get' = get /\ tornDown = FALSE
  BY DEF UploadInv, Types, download, Unread
<1>6. PICK h \in SUBSET Packets : h = q.heap \ {p}
  BY <1>2
<1>7. HeapIs(h, q.next)
  BY <1>1, <1>6, HeapBecomes DEF Stale
<1>8. Order'
  BY <1>0, <1>3, <1>5, <1>6, <1>7, DropKeepsOrder
<1>9. IsFiniteSet(h) /\ Cardinality(h) <= MaxPackets + 2
  BY <1>4, <1>6, UploadAssumption
<1>10. \A o \in q.heap : (\E x \in h : x.seq = o.seq /\ x.copy = o.copy) \/ o.seq < q.next
  BY <1>0, <1>6
<1>11. app' \in {"read", "receiveMore", "loop", "end"} /\ app' # "receiveMore"
  BY <1>0
<1>12. ~tornDown' /\ tornDown' \in BOOLEAN
  BY <1>0, <1>5, Zenon
<1>13. got' \in Seq(Seqs \X (1 .. Parts)) /\ q.next <= q.next
  BY <1>0, <1>3, <1>5
<1> QED
  BY <1>2, <1>7, <1>8, <1>9, <1>10, <1>11, <1>12, <1>13, LoopStepKeeps

\* A packet that is due is read in part, and its rest goes back.
LEMMA ReadPartKeeps ==
  ASSUME UploadInv, app = "loop", NEW p \in Least, NEW n \in 1 .. Parts, ReadPacket(p, n),
         n < p.left, UNCHANGED <<use, stopped, request, hub, download, mixed>>
  PROVE  UploadInv'
<1>0. p \in q.heap /\ p.seq = q.next /\ app' = "read" /\ tornDown' = tornDown
  BY DEF Least, ReadPacket, InTurn
<1>1. q \in Queues /\ get.at \in Sessions /\ q = queue[get.at]
  BY Reading
<1>2. q.heap \in SUBSET Packets /\ q.next \in 0 .. MaxSeq /\ q.next \in Nat
  BY <1>1 DEF Queues
<1>3. p \in Packets /\ p.seq \in Seqs /\ p.left \in 1 .. Parts
  BY <1>0, <1>2 DEF Packets
<1>4. PICK o \in Packets : o = [p EXCEPT !.left = p.left - n]
  <2>1. p.left - n \in 1 .. Parts
    BY <1>3, UploadAssumption
  <2> QED
    BY <1>3, <2>1 DEF Packets
<1>5. o.seq = p.seq /\ o.copy = p.copy /\ o.left = p.left - n
  BY <1>3, <1>4 DEF Packets
<1>6. PICK h \in SUBSET Packets : h = (q.heap \ {p}) \cup {o}
  BY <1>2
<1>7. HeapIs(h, q.next)
  <2>1. queue' = [queue EXCEPT ![get.at].heap = h, ![get.at].next = q.next]
    BY <1>1, <1>4, <1>6 DEF ReadPacket
  <2> QED
    BY <1>2, <2>1, HeapBecomes
<1>8. IsFiniteSet(h) /\ Cardinality(h) <= MaxPackets + 2
  BY <1>0, <1>6, Popping
<1>9. PICK k \in Nat : k = Parts - p.left
  BY <1>3, UploadAssumption
<1>10. got' = got \o [i \in 1 .. n |-> <<q.next, k + i>>] /\ k + n <= Parts
  BY <1>0, <1>3, <1>9, UploadAssumption DEF ReadPacket
<1>11. got' \in Seq(Seqs \X (1 .. Parts))
  BY <1>0, <1>3, <1>10, ReadsTyped DEF UploadInv
<1>12. \A x \in q.heap : \E y \in h : y.seq = x.seq /\ y.copy = x.copy
  BY <1>5, <1>6
<1>13. Order'
  <2> SUFFICES ASSUME ~mixed PROVE Distinct' /\ Position' /\ Exact'
    BY DEF Order
  <2>1. Distinct /\ Position /\ Exact /\ use.mode = "packet-up" /\ Types
    BY DEF UploadInv, Order, OneMode
  <2>2. q'.heap = h /\ q'.next = q.next
    BY <1>7 DEF HeapIs, q, download
  <2>3. Len(got) = Parts * q.next + k
    BY <1>0, <1>9, <2>1 DEF Position
  <2>4. Exact' /\ Len(got') = Parts * q.next + k + n
    <3>1. q.next < MaxSeq
      BY <1>0, <1>2, <1>3, UploadAssumption DEF Seqs
    <3> QED
      BY <1>2, <1>10, <2>1, <2>3, <3>1, ReadsOn
  <2>5. \A x \in q.heap : x # p => x.seq # q.next
    BY <1>0, <1>2, <2>1 DEF Distinct
  <2>6. Distinct'
    BY <1>0, <1>5, <1>6, <2>1, <2>2, <2>5 DEF Distinct
  <2>7. Position'
    <3>1. \A x \in h : x.left # Parts => x.seq = q.next
      BY <1>0, <1>5, <1>6, <2>1 DEF Position
    <3>2. \A x \in h : x.seq = q.next => x = o
      BY <1>6, <2>5
    <3>3. Len(got') = Parts * q.next + (Parts - o.left)
      <4>1. PICK a \in Nat : a = Parts * q.next
        BY <1>2, PacketsFit
      <4> QED
        BY <1>3, <1>5, <1>9, <2>4, <4>1, UploadAssumption
    <3>4. o \in h /\ o.seq = q.next
      BY <1>0, <1>5, <1>6
    <3>5. use'.mode = "packet-up"
      BY <2>1
    <3> QED
      BY <2>2, <3>1, <3>2, <3>3, <3>4, <3>5 DEF Position
  <2> QED
    BY <2>4, <2>6, <2>7
<1>14. tornDown = FALSE
  BY DEF UploadInv, Unread, Types
<1>15. app' \in {"read", "receiveMore", "loop", "end"} /\ app' # "receiveMore"
  BY <1>0
<1>16. ~tornDown' /\ tornDown' \in BOOLEAN
  BY <1>0, <1>14, Zenon
<1>17. q.next <= q.next
  BY <1>2
<1> QED
  BY <1>2, <1>7, <1>8, <1>11, <1>12, <1>13, <1>15, <1>16, <1>17, LoopStepKeeps

\* A packet that is due is read to its end, and the next one is due.
LEMMA ReadWholeKeeps ==
  ASSUME UploadInv, app = "loop", NEW p \in Least, NEW n \in 1 .. Parts, ReadPacket(p, n),
         ~(n < p.left), UNCHANGED <<use, stopped, request, hub, download, mixed>>
  PROVE  UploadInv'
<1>0. p \in q.heap /\ p.seq = q.next /\ app' = "read" /\ tornDown' = tornDown
  BY DEF Least, ReadPacket, InTurn
<1>1. q \in Queues /\ get.at \in Sessions /\ q = queue[get.at]
  BY Reading
<1>2. q.heap \in SUBSET Packets /\ q.next \in 0 .. MaxSeq /\ q.next \in Nat
  BY <1>1 DEF Queues
<1>3. p \in Packets /\ p.seq \in Seqs /\ p.left \in 1 .. Parts /\ n = p.left
  BY <1>0, <1>2, UploadAssumption DEF Packets, ReadPacket
<1>4. PICK m \in 0 .. MaxSeq : m = q.next + 1 /\ q.next < MaxSeq
  BY <1>0, <1>2, <1>3, UploadAssumption DEF Seqs
<1>6. PICK h \in SUBSET Packets : h = q.heap \ {p}
  BY <1>2
<1>7. HeapIs(h, m)
  <2>1. queue' = [queue EXCEPT ![get.at].heap = h, ![get.at].next = m]
    BY <1>0, <1>1, <1>4, <1>6 DEF ReadPacket
  <2> QED
    BY <2>1, HeapBecomes
<1>8. IsFiniteSet(h) /\ Cardinality(h) <= MaxPackets + 2
  <2>1. /\ IsFiniteSet(q.heap \ {p}) /\ Cardinality(q.heap) \in Nat
        /\ Cardinality(q.heap \ {p}) = Cardinality(q.heap) - 1
        /\ Cardinality(q.heap) <= MaxPackets + 2
    BY <1>0, Popping
  <2> QED
    BY <1>6, <2>1, UploadAssumption
<1>9. PICK k \in Nat : k = Parts - p.left
  BY <1>3, UploadAssumption
<1>10. got' = got \o [i \in 1 .. n |-> <<q.next, k + i>>] /\ k + n = Parts
  BY <1>0, <1>3, <1>9, UploadAssumption DEF ReadPacket
<1>11. got' \in Seq(Seqs \X (1 .. Parts))
  <2>1. k + n <= Parts /\ q.next \in Seqs /\ Types
    BY <1>0, <1>3, <1>10, UploadAssumption DEF UploadInv
  <2> QED
    BY <1>10, <2>1, ReadsTyped
<1>12. \A x \in q.heap : (\E y \in h : y.seq = x.seq /\ y.copy = x.copy) \/ x.seq < m
  BY <1>0, <1>2, <1>4, <1>6
<1>13. Order'
  <2> SUFFICES ASSUME ~mixed PROVE Distinct' /\ Position' /\ Exact'
    BY DEF Order
  <2>1. Distinct /\ Position /\ Exact /\ use.mode = "packet-up" /\ Types
    BY DEF UploadInv, Order, OneMode
  <2>2. q'.heap = h /\ q'.next = m
    BY <1>7 DEF HeapIs, q, download
  <2>3. Len(got) = Parts * q.next + k
    BY <1>0, <1>9, <2>1 DEF Position
  <2>4. Exact' /\ Len(got') = Parts * q.next + k + n
    <3>1. k + n <= Parts
      BY <1>10, UploadAssumption
    <3> QED
      BY <1>2, <1>4, <1>10, <2>1, <2>3, <3>1, ReadsOn
  <2>5. \A x \in h : x.seq # q.next
    BY <1>0, <1>2, <1>6, <2>1 DEF Distinct
  <2>6. \A x \in h : x.seq \in Nat
    BY <1>6 DEF Packets, Seqs
  <2>7. Distinct'
    <3>1. \A x \in h : x.seq >= m => x.seq >= q.next
      BY <1>2, <1>4, <2>6
    <3> QED
      BY <1>6, <2>1, <2>2, <3>1 DEF Distinct
  <2>8. Position'
    <3>1. \A x \in h : x.left = Parts
      BY <1>6, <2>1, <2>5 DEF Position
    <3>2. Len(got') = Parts * m
      <4>1. PICK a \in Nat : a = Parts * q.next /\ Parts * m = a + Parts
        BY <1>2, <1>4, PacketsFit
      <4>2. Len(got') = a + k + n /\ a + k + n = a + (k + n)
        BY <1>9, <2>4, <4>1, UploadAssumption
      <4> QED
        BY <1>10, <4>1, <4>2
    <3>3. Parts * m = Parts * m + (Parts - Parts)
      BY <1>4, UploadAssumption
    <3>4. use'.mode = "packet-up"
      BY <2>1
    <3> QED
      BY <2>2, <3>1, <3>2, <3>3, <3>4 DEF Position
  <2> QED
    BY <2>4, <2>7, <2>8
<1>14. tornDown = FALSE
  BY DEF UploadInv, Unread, Types
<1>15. app' \in {"read", "receiveMore", "loop", "end"} /\ app' # "receiveMore"
  BY <1>0
<1>16. ~tornDown' /\ tornDown' \in BOOLEAN
  BY <1>0, <1>14, Zenon
<1>17. q.next <= m
  BY <1>2, <1>4
<1> QED
  BY <1>7, <1>8, <1>11, <1>12, <1>13, <1>15, <1>16, <1>17, LoopStepKeeps

\* The loop over the heap.
LEMMA LoopKeeps ==
  ASSUME UploadInv, Loop, UNCHANGED use
  PROVE  UploadInv'
BY MisorderedKeeps, StaleKeeps, ReadPartKeeps, ReadWholeKeeps DEF Loop

\* A read of the stream's body.
LEMMA ReadBodyKeeps ==
  ASSUME UploadInv, ReadBody, UNCHANGED use
  PROVE  UploadInv'
<1> USE DEF UploadInv
<1>0. app = "body" /\ UNCHANGED <<stopped, request, hub, queue, download, tornDown, mixed>>
  BY DEF ReadBody
<1>1. use.mode = "stream-up" /\ ~mixed /\ get' = get /\ ~tornDown
  BY <1>0 DEF OneMode, Types, download, Unread
<1>2. PICK m \in 0 .. MaxSeq : Len(got) = Parts * m
  BY <1>0, <1>1 DEF Order, Position
<1>3. Len(got) \div Parts = m
  <2>1. (Parts * m + 0) \div Parts = m
    BY DivMod, UploadAssumption
  <2>2. Parts * m + 0 = Parts * m
    BY PacketsFit
  <2> QED
    BY <1>2, <2>1, <2>2
<1>4. SameData
  BY <1>0 DEF SameData
<1>5. CASE app' = "end" /\ got' = got
  <2>1. Types' /\ Attached' /\ Table'
    BY <1>0, <1>5, ReaderStays DEF Types, StaysShut
  <2>2. Unread' /\ Bounds' /\ Order'
    BY <1>0, <1>1, <1>4, <1>5, DataStays
  <2>3. OneMode' /\ Kept'
    BY <1>0, <1>5 DEF OneMode, Kept
  <2> QED
    BY <2>1, <2>2, <2>3
<1>6. CASE m < MaxSeq /\ got' = got \o [i \in 1 .. Parts |-> <<m, i>>] /\ app' = "read"
  <2>1. got' = got \o [i \in 1 .. Parts |-> <<m, 0 + i>>]
    BY <1>6, UploadAssumption
  <2>2. Exact' /\ Len(got') = Parts * m + 0 + Parts
    <3>1. /\ Exact /\ m \in Nat /\ Parts \in 1 .. Parts /\ 0 + Parts <= Parts
          /\ Len(got) = Parts * m + 0
      BY <1>0, <1>1, <1>2, PacketsFit, UploadAssumption DEF Order
    <3> QED
      BY <1>6, <2>1, <3>1, ReadsOn
  <2>3. got' \in Seq(Seqs \X (1 .. Parts))
    <3>1. m \in Seqs /\ Parts \in 1 .. Parts /\ 0 + Parts <= Parts
      BY <1>6, UploadAssumption DEF Seqs
    <3> QED
      BY <2>1, <3>1, ReadsTyped
  <2>4. Types' /\ Attached' /\ Table'
    BY <1>0, <1>6, <2>3, ReaderStays DEF Types, StaysShut
  <2>5. OneMode' /\ Kept'
    BY <1>0, <1>6 DEF OneMode, Kept
  <2>6. Unread'
    BY <1>0, <1>1, <1>6 DEF Unread
  <2>7. Bounds'
    BY <1>0, <1>1, <1>6 DEF Bounds
  <2>8. q' = q
    BY <1>0, <1>1 DEF q
  <2>9. Order'
    <3>1. Len(got') = Parts * (m + 1) /\ m + 1 \in 0 .. MaxSeq
      BY <1>2, <1>6, <2>2, PacketsFit, UploadAssumption
    <3>2. Position'
      BY <1>1, <3>1 DEF Position
    <3>3. Distinct'
      BY <1>0, <1>1, <2>8 DEF Order, Distinct
    <3> QED
      BY <2>2, <3>2, <3>3 DEF Order
  <2> QED
    BY <2>4, <2>5, <2>6, <2>7, <2>9
<1> QED
  BY <1>3, <1>5, <1>6 DEF ReadBody
-----------------------------------------------------------------------------
\* Every step of the client, the handlers, the reapers and the reader keeps the invariant.
LEMMA UploadStep ==
  ASSUME UploadInv, [Next]_<<use, vars>>
  PROVE  UploadInv'
<1>1. CASE Next
  <2>0. UNCHANGED use
    BY <1>1 DEF Next
  <2>1. CASE StopClient
    BY <2>0, <2>1, StopClientKeeps
  <2>2. ASSUME NEW s \in Sessions, NEW r \in Posts \cup {StreamUp}, ServePost(r, s)
        PROVE  UploadInv'
    BY <2>0, <2>2, ServePostKeeps DEF Requests
  <2>3. ASSUME NEW s \in Sessions, ServeGet(s) \/ Late(s) \/ ReaperStep(s) PROVE UploadInv'
    BY <2>0, <2>3, ServeGetKeeps, LateKeeps, ReaperKeeps
  <2>4. ASSUME NEW r \in Posts \cup {StreamUp}, PostStep(r) PROVE UploadInv'
    BY <2>0, <2>4, PostKeeps DEF Requests
  <2>5. CASE StreamStep
    BY <2>0, <2>5, StreamKeeps
  <2>6. CASE Connect \/ GetEnds \/ AnotherEnds
    BY <2>0, <2>6, ConnectKeeps, GetEndsKeeps, AnotherKeeps
  <2>7. CASE AppStep \/ AppCloses
    BY <2>0, <2>7, TurnsKeep, ReceiveKeeps, LoopKeeps, ReadBodyKeeps DEF AppStep
  <2> QED
    BY <1>1, <2>1, <2>2, <2>3, <2>4, <2>5, <2>6, <2>7 DEF Next
<1>2. CASE UNCHANGED <<use, vars>>
  <2>1. UNCHANGED <<use, stopped, request, sessions, connected, late, reaper, queue, get,
                    another, app, got, tornDown, mixed>>
    BY <1>2 DEF vars, hub, download, readers
  <2>2. Types' /\ Attached' /\ Table' /\ SameData
    BY <2>1 DEF UploadInv, Types, Attached, Table, SameData
  <2> QED
    BY <2>1, <2>2, QuietStep
<1> QED
  BY <1>1, <1>2

\* The inductive invariant of an upload: the table of sessions, the queues' limits, what is
\* accepted and what is read.
THEOREM UploadInvariance == Spec => []UploadInv
BY UploadInit, UploadStep, PTL DEF Spec

\* A request has a session from its arrival on; uploadQueue's channel stays within
\* scMaxBufferedPosts and its heap two above, and a Read fails with "packet queue is too
\* large" only when all the packets left came before the one that is due.
THEOREM QueueIsBounded == Spec => []WellFormed
<1>1. UploadInv => WellFormed
  <2> SUFFICES ASSUME UploadInv PROVE WellFormed
    OBVIOUS
  <2>1. \A s \in Sessions : /\ queue[s].next \in 0 .. MaxSeq
                            /\ queue[s].heap \subseteq Packets
    BY DEF UploadInv, Types, Queues
  <2>2. DOMAIN request = Requests
    BY DEF UploadInv, Types
  <2>3. TypeOK
    BY <2>1, <2>2 DEF UploadInv, Types, Attached, Bounds, TypeOK, Packets, ReaperPcs
  <2>4. BoundedReassembly
    BY DEF UploadInv, Bounds, BoundedReassembly
  <2> QED
    BY <2>3, <2>4 DEF WellFormed
<1> QED
  BY <1>1, UploadInvariance, PTL

\* What uploadQueue.Read returns is a prefix of the client's stream, in whichever order the
\* packets arrive and however often, unless two sendings of one meet in the heap.
THEOREM UploadIsInOrder == Spec => []InOrder
<1>1. UploadInv => InOrder
  <2> SUFFICES ASSUME UploadInv, ~mixed PROVE IsPrefix(got, Sent)
    BY DEF InOrder
  <2>1. PICK b \in Nat : b = Len(got)
    BY DEF UploadInv, Types
  <2>2. PICK z \in Nat : z = MaxSeq * Parts
    BY UploadAssumption
  <2>3. DOMAIN Sent = 1 .. z /\ Len(Sent) = z
    BY <2>2 DEF Sent
  <2>4. b <= z /\ \A i \in 1 .. b : got[i] = Sent[i]
    <3>1. CASE app = "none"
      BY <2>1, <2>2, <3>1 DEF UploadInv, Unread
    <3>2. CASE app # "none"
      BY <2>1, <2>2, <3>2, PositionBound DEF UploadInv, Order, Exact, Sent
    <3> QED
      BY <3>1, <3>2
  <2>5. SubSeq(got, 1, b) = SubSeq(Sent, 1, b)
    BY <2>4
  <2> QED
    BY <2>1, <2>3, <2>4, <2>5 DEF IsPrefix
<1> QED
  BY <1>1, UploadInvariance, PTL

\* A packet whose request was answered with 200 is in the channel or the heap until its
\* turn has passed, while the queue is open.
THEOREM AcceptedPacketsAreKept == Spec => []AcceptedIsKept
<1>1. UploadInv => AcceptedIsKept
  BY DEF UploadInv, Kept, InQueue, AcceptedIsKept
<1> QED
  BY <1>1, UploadInvariance, PTL

\* The session of a GET stays in requestHandler.sessions until the GET ends, or its reaper
\* has seen shouldReap and closes its queue, unless another GET of the id has ended.
THEOREM SessionIsKept == Spec => []KeepsItsSession
<1>1. UploadInv => KeepsItsSession
  BY DEF UploadInv, Table, KeepsItsSession
<1> QED
  BY <1>1, UploadInvariance, PTL
=============================================================================
