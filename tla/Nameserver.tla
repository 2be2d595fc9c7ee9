------------------------------ MODULE Nameserver ------------------------------
(***************************************************************************)
(* app/dns.ClassicNameServer: a DNS server that is asked over UDP, with    *)
(* its cache, its table of pending requests and the pubsub.Service that    *)
(* wakes the queries which wait for an answer.                             *)
(*                                                                         *)
(* Queries (QueryIPWithTTL) and raw queries (QueryRaw) run in goroutines   *)
(* of their callers; HandleResponse runs in the goroutines of the UDP      *)
(* dispatchers.  One mutex guards the tables, but each operation takes and *)
(* releases it several times: an action is one of these critical sections. *)
(* The network loses, duplicates, delays and reorders the answers.         *)
(*                                                                         *)
(* Time is counted in units that a query, a pending request and a record   *)
(* last for several of.  Two events in one unit are not at the same time:  *)
(* what expires in the unit of an event has expired by then.               *)
(***************************************************************************)
EXTENDS Integers, FiniteSets, Functions, FiniteSetsExt

CONSTANTS
  Queries,     \* calls of QueryIPWithTTL
  Raws,        \* calls of QueryRaw
  Handlers,    \* goroutines that run HandleResponse
  Domains,
  Asks,        \* the families each query asks for, a set of 4 (A) and 6 (AAAA)
  Servers,     \* the settings of servers, and what their answers say: "ips", "empty"
               \* (success without an address), "rcode" (an error), "truncated"
  Ttls,        \* in units of time
  Deadline,    \* how long Client lets a query wait: 4 seconds
  RequestLife, \* how long addPendingRequest keeps a request: 8 seconds
  None,        \* nil
  IdMod,       \* request numbers: 2^16 in the code
  MaxCalls,    \* bound: how many of the calls are made
  MaxAnswers,  \* bound: packets that arrive from the server
  MaxTime      \* bound: units of time that pass, one or several at once

Families == {4, 6}

Questions == (Domains \X Families) \cup {<<r>> : r \in Raws}
Ids == 0 .. IdMod - 1
Kinds == {"ips", "empty", "rcode", "truncated"}

\* A query asks for something: Client.QueryIPWithTTL sends no other on.  None is neither
\* a number nor an answer, be it in the cache, in the channel of a raw query or in the
\* hands of HandleResponse.
ASSUME NameserverAssumption ==
    /\ Asks \in [Queries -> (SUBSET Families) \ {{}}]
    /\ \A s \in Servers : s.kinds \subseteq Kinds
    /\ Ttls \subseteq Nat /\ IdMod \in Nat \ {0}
    /\ Deadline \in Nat \ {0} /\ RequestLife \in Nat
    /\ None \notin Nat
    /\ None \notin [of : Questions, kind : Kinds, ttl : Ttls, expire : Nat]
    /\ None \notin [of : Questions, kind : Kinds]
    /\ None \notin [id : Ids, of : Questions, kind : Kinds, ttl : Ttls,
                    req : Questions \cup {None}]

VARIABLE server   \* the settings: a constant of each behaviour

VARIABLES
  ips,        \* ClassicNameServer.ips; nil once closed
  requests,   \* ClassicNameServer.requests; nil once closed
  channel,    \* ClassicNameServer.channel: which raw query waits for a number
  reqID,      \* ClassicNameServer.reqID: numbers given out
  closed,     \* Close was called
  panicked,   \* a write to a nil map, or a Must: the process is gone
  subs,       \* pubsub.Service.subs: <<query, family>>, the open ones
  query,      \* the local state of each QueryIPWithTTL
  raw,        \* ... of each QueryRaw
  handler,    \* ... of each HandleResponse
  running,    \* cleanup.running
  tick,       \* where the timer of cleanup is
  starting,   \* the handlers that were about to call Start when the timer was set last
  wire,       \* requests that have reached the server: <<number, question>>
  answers,    \* packets that have come back
  called,     \* the calls that were made
  now,
  zero        \* history: the domains that had an answer with TTL 0

tables == <<ips, requests, channel, subs>>
cleaner == <<running, tick, starting>>
network == <<wire, answers, called, now>>
vars == <<tables, reqID, closed, panicked, query, raw, handler, cleaner, network, zero>>

Empty == [x \in {} |-> None]
NoRecord == [f \in Families |-> None]
Update(fun, key, value) ==
    [x \in DOMAIN fun \cup {key} |-> IF x = key THEN value ELSE fun[x]]
Delete(fun, key) == Restrict(fun, DOMAIN fun \ {key})

\* A query: what it asks for, the numbers of its requests, those not sent yet, the record
\* it is to write back and where it then goes on, and the families it has been told of.
\* History: the requests whose answers were handled, and when those it was told of expire.
Idle == [pc |-> "idle", dom |-> None, opt |-> {}, begun |-> 0,
         id |-> NoRecord, unsent |-> {}, copy |-> NoRecord, after |-> None,
         told |-> {}, got |-> {}, till |-> [f \in Families |-> 0]]

\* A raw query: its number and what is in its channel.  History: an answer came while
\* the channel was registered.
RawIdle == [pc |-> "idle", id |-> None, begun |-> 0, buf |-> None, caught |-> FALSE]

Init == /\ server \in Servers
        /\ ips = Empty /\ requests = Empty /\ channel = Empty
        /\ reqID = 0 /\ closed = FALSE /\ panicked = FALSE /\ subs = {}
        /\ query = [q \in Queries |-> Idle]
        /\ raw = [r \in Raws |-> RawIdle]
        /\ handler = [h \in Handlers |-> [pc |-> "receive", msg |-> None]]
        /\ running = FALSE /\ tick = "none" /\ starting = {}
        /\ wire = {} /\ answers = 0 /\ called = {} /\ now = 0
        /\ zero = {}

Expired(start) == now >= start + Deadline
Panic == panicked' = TRUE
-----------------------------------------------------------------------------
(* findIPsForDomain                                                        *)

\* IPRecord.getIPs; "none" is errRecordNotFound
getIPs(rec) ==
    IF rec = None \/ (rec.ttl > 0 /\ rec.expire <= now) THEN "none" ELSE rec.kind

\* What findIPsForDomain returns: the addresses there are; otherwise the last error, or
\* "empty" (ErrEmptyResponse) when all the answers are.
Found(rec, opt) ==
    LET errs == {f \in opt : getIPs(rec[f]) \in {"none", "rcode"}}
    IN  IF \E f \in opt : getIPs(rec[f]) = "ips" THEN "ips"
        ELSE IF errs = {} THEN "empty" ELSE getIPs(rec[Max(errs)])

Record(d) == IF d \in DOMAIN ips THEN ips[d] ELSE NoRecord

\* The answers with TTL 0 that a query has taken are not kept.
Taken(rec, opt) == {f \in opt : rec[f] # None /\ rec[f].ttl = 0}

Goto(q, qry, pc) ==
    /\ query' = [query EXCEPT ![q] = IF pc = "idle" THEN Idle ELSE [qry EXCEPT !.pc = pc]]
    /\ subs' = IF pc = "idle" THEN subs \ ({q} \X Families) ELSE subs

\* The read under RLock, of a copy of the entry; miss is where a query goes on that has
\* found nothing.  A return closes the subscriptions.  (Service.Cleanup, which drops the
\* closed ones, is not an action: Publish passes them over anyway.)
findIPsForDomain(q, qry, miss) ==
    LET rec == Record(qry.dom)
        taken == Taken(rec, qry.opt)
        goto == IF Found(rec, qry.opt) = "none" THEN miss ELSE "idle"
    IN  IF taken = {}
        THEN Goto(q, qry, goto)
        ELSE /\ query' = [query EXCEPT ![q] = [qry EXCEPT
                  !.pc = "writeBack", !.after = goto,
                  !.copy = [f \in Families |-> IF f \in taken THEN None ELSE rec[f]]]]
             /\ UNCHANGED subs

\* The goroutine of a query closes the channel done after it was told of each family, or
\* at the deadline.
Done(q) == query[q].opt \subseteq query[q].told \/ Expired(query[q].begun)

\* The look-up at the head of the loop: at first, and when done is closed
Look(q) ==
    /\ query[q].pc = "look" \/ (query[q].pc = "wait" /\ Done(q))
    /\ findIPsForDomain(q, query[q], "wait")
    /\ UNCHANGED <<ips, requests, channel, reqID, closed, panicked, raw, handler, cleaner,
                   network, zero>>

\* The copy is written back without the answers taken, under the lock again.
WriteBack(q) ==
    /\ query[q].pc = "writeBack"
    /\ IF closed
       THEN Panic /\ UNCHANGED <<ips, query, subs>>
       ELSE /\ ips' = Update(ips, query[q].dom, query[q].copy)
            /\ Goto(q, [query[q] EXCEPT !.after = None, !.copy = NoRecord], query[q].after)
            /\ UNCHANGED panicked
    /\ UNCHANGED <<requests, channel, reqID, closed, raw, handler, cleaner, network,
                   zero>>
-----------------------------------------------------------------------------
(* QueryIPWithTTL                                                          *)

\* The bound on the calls
Call(c) == /\ c \notin called /\ Cardinality(called) < MaxCalls
           /\ called' = called \cup {c}

\* Client.QueryIPWithTTL calls it with a deadline.  The cache is looked up unless it is
\* disabled.
Begin(q, d) ==
    LET qry == [Idle EXCEPT !.dom = d, !.opt = Asks[q], !.begun = now] IN
    /\ query[q].pc = "idle" /\ ~closed
    /\ Call(q)
    /\ IF server.disableCache THEN Goto(q, qry, "subscribe")
                              ELSE findIPsForDomain(q, qry, "subscribe")
    /\ UNCHANGED <<ips, requests, channel, reqID, closed, panicked, raw, handler, cleaner,
                   wire, answers, now, zero>>

\* Slips (here and below): variants of the next definition with a bug that a
\* change of the code could introduce.  No specification uses them; the
\* properties are checked to tell each one from the code.
NewReqID_once(k) == (reqID + 1) % IdMod

\* NewReqID
NewReqID(k) == (reqID + k) % IdMod

\* Service.Subscribe for the families asked for, and the goroutine that waits for one
\* answer of each.  Then sendQuery builds the requests, each with a number of its own.
Subscribe(q) ==
    LET opt == query[q].opt IN
    /\ query[q].pc = "subscribe"
    /\ subs' = subs \cup ({q} \X opt)
    /\ query' = [query EXCEPT
         ![q].id = [f \in Families |-> IF f \in opt
                                       THEN NewReqID(Cardinality({g \in opt : g <= f}))
                                       ELSE None],
         ![q].unsent = opt,
         ![q].pc = "send"]
    /\ reqID' = reqID + Cardinality(opt)
    /\ UNCHANGED <<ips, requests, channel, closed, panicked, raw, handler, cleaner, network,
                   zero>>

\* addPendingRequest and Dispatch of one request after the other
sendQuery(q) ==
    LET f == Min(query[q].unsent)
        id == query[q].id[f]
        question == <<query[q].dom, f>>
    IN  /\ query[q].pc = "send"
        /\ IF closed
           THEN Panic /\ UNCHANGED <<requests, wire, query>>
           ELSE /\ requests' = Update(requests, id,
                                       [of |-> question, expire |-> now + RequestLife])
                /\ wire' = wire \cup {<<id, question>>}
                /\ query' = [query EXCEPT
                     ![q].unsent = @ \ {f},
                     ![q].pc = IF query[q].unsent = {f} THEN "look" ELSE "send"]
                /\ UNCHANGED panicked
        /\ UNCHANGED <<ips, channel, subs, reqID, closed, raw, handler, cleaner,
                       answers, called, now, zero>>

\* The deadline has passed.
Timeout(q) ==
    /\ query[q].pc = "wait" /\ Expired(query[q].begun)
    /\ Goto(q, query[q], "idle")
    /\ UNCHANGED <<ips, requests, channel, reqID, closed, panicked, raw, handler, cleaner,
                   network, zero>>
-----------------------------------------------------------------------------
(* QueryRaw                                                                *)

\* Client.QueryRaw replaces the number of the request; QueryRaw registers its channel, ...
Register(r) ==
    /\ raw[r].pc = "idle" /\ ~closed
    /\ Call(r)
    /\ reqID' = reqID + 1
    /\ channel' = Update(channel, NewReqID(1), r)
    /\ raw' = [raw EXCEPT ![r].pc = "dispatch", ![r].id = NewReqID(1), ![r].begun = now]
    /\ UNCHANGED <<ips, requests, subs, closed, panicked, query, handler, cleaner, wire,
                   answers, now, zero>>

\* ... sends the request, ...
Dispatch(r) ==
    /\ raw[r].pc = "dispatch"
    /\ wire' = wire \cup {<<raw[r].id, <<r>>>>}
    /\ raw' = [raw EXCEPT ![r].pc = "wait"]
    /\ UNCHANGED <<tables, reqID, closed, panicked, query, handler, cleaner, answers, called,
                   now, zero>>

\* ... waits for an answer or the deadline, ...
RawSelect(r) ==
    /\ raw[r].pc = "wait"
    /\ \/ /\ raw[r].buf # None
          /\ raw' = [raw EXCEPT ![r].pc = "unregister"]
       \/ /\ Expired(raw[r].begun)
          /\ raw' = [raw EXCEPT ![r].pc = "unregister", ![r].buf = None, ![r].caught = FALSE]
    /\ UNCHANGED <<tables, reqID, closed, panicked, query, handler, cleaner, network, zero>>

\* ... and removes its channel.  It returns, or, with a truncated answer, asks again.
Unregister(r) ==
    /\ raw[r].pc = "unregister"
    /\ channel' = Delete(channel, raw[r].id)
    /\ raw' = [raw EXCEPT ![r] = IF raw[r].buf # None /\ raw[r].buf.kind = "truncated"
                                 THEN [RawIdle EXCEPT !.pc = "tcp"] ELSE RawIdle]
    /\ UNCHANGED <<ips, requests, subs, reqID, closed, panicked, query, handler, cleaner,
                   network, zero>>

\* tcpServer.QueryRaw, on a connection of its own, returns the answer or an error.
RawTcp(r) ==
    /\ raw[r].pc = "tcp"
    /\ raw' = [raw EXCEPT ![r] = RawIdle]
    /\ UNCHANGED <<tables, reqID, closed, panicked, query, handler, cleaner, network, zero>>
-----------------------------------------------------------------------------
(* HandleResponse                                                          *)

\* A packet arrives: the raw query whose channel has its number gets it, unless that
\* has one already.
Deliver(h, id, question, kind, ttl) ==
    /\ handler[h].pc = "receive" /\ answers < MaxAnswers
    /\ <<id, question>> \in wire
    /\ kind = "truncated" => ttl = 0
    /\ answers' = answers + 1
    /\ IF id \in DOMAIN channel
       THEN LET r == channel[id] IN
            /\ raw' = [raw EXCEPT
                 ![r].buf = IF @ = None THEN [of |-> question, kind |-> kind] ELSE @,
                 ![r].caught = TRUE]
            /\ UNCHANGED handler
       ELSE /\ handler' = [handler EXCEPT
                 ![h].pc = "take",
                 ![h].msg = [id |-> id, of |-> question, kind |-> kind, ttl |-> ttl,
                            req |-> None]]
            /\ UNCHANGED raw
    /\ UNCHANGED <<tables, reqID, closed, panicked, query, cleaner, wire, called, now,
                   zero>>

\* The pending request with that number is removed.
Take(h) ==
    LET id == handler[h].msg.id IN
    /\ handler[h].pc = "take"
    /\ requests' = Delete(requests, id)
    /\ handler' = IF id \notin DOMAIN requests
                  THEN [handler EXCEPT ![h].pc = "receive", ![h].msg = None]
                  ELSE [handler EXCEPT
                    ![h].pc = IF handler[h].msg.kind = "truncated" THEN "tcp" ELSE "update",
                    ![h].msg.req = requests[id].of]
    /\ UNCHANGED <<ips, channel, subs, reqID, closed, panicked, query, raw, cleaner, network,
                   zero>>

\* A truncated answer: tcpServer.QueryRaw with the request that was pending.
Retry(h) ==
    /\ handler[h].pc = "tcp"
    /\ \/ \E kind \in server.kinds \ {"truncated"}, ttl \in Ttls : handler' = [handler EXCEPT
             ![h].pc = "update",
             ![h].msg = [@ EXCEPT !.kind = kind, !.ttl = ttl, !.of = handler[h].msg.req]]
       \/ handler' = [handler EXCEPT ![h].pc = "receive", ![h].msg = None]
    /\ UNCHANGED <<tables, reqID, closed, panicked, query, raw, cleaner, network, zero>>

\* Slip: an answer with TTL 0 is not stored.
isNewer_ttl(base, new) == new.ttl > 0 /\ (base = None \/ base.expire <= new.expire)

isNewer(base, new) == base = None \/ base.expire <= new.expire

\* Slip: only a query that waits is told.
Publish_unbuffered(d, f) ==
    {q \in Queries : /\ <<q, f>> \in subs /\ query[q].dom = d /\ query[q].pc = "wait"
                     /\ ~closed}

\* The times of a query, with that of family f put off to e
Later(till, f, e) == [g \in Families |-> IF g = f /\ till[g] < e THEN e ELSE till[g]]

\* Service.Publish pushes to the open subscribers, without waiting for them.
Publish(d, f) == {q \in Queries : <<q, f>> \in subs /\ query[q].dom = d /\ ~closed}

\* The answer is stored for the domain and the family that were asked for, unless the
\* one there lives longer; the queries that wait are told in any case.
updateIP(h) ==
    LET msg == handler[h].msg
        d == msg.req[1]
        f == msg.req[2]
        new == [of |-> msg.of, kind |-> msg.kind, ttl |-> msg.ttl, expire |-> now + msg.ttl]
        updated == isNewer(Record(d)[f], new)
    IN  /\ handler[h].pc = "update"
        /\ IF closed /\ updated
           THEN Panic /\ UNCHANGED <<ips, query, handler, zero>>
           ELSE /\ ips' = IF updated THEN Update(ips, d, [Record(d) EXCEPT ![f] = new])
                                     ELSE ips
                /\ query' = [q \in Queries |->
                     [query[q] EXCEPT
                        !.told = IF q \in Publish(d, f) THEN @ \cup {f} ELSE @,
                        !.till = IF q \in Publish(d, f) THEN Later(@, f, new.expire) ELSE @,
                        !.got = IF f \in query[q].opt /\ query[q].id[f] = msg.id
                                THEN @ \cup {f} ELSE @]]
                /\ handler' = [handler EXCEPT ![h].pc = "start", ![h].msg = None]
                /\ zero' = IF msg.ttl = 0 THEN zero \cup {d} ELSE zero
                /\ UNCHANGED panicked
        /\ UNCHANGED <<requests, channel, subs, reqID, closed, raw, cleaner, network>>
-----------------------------------------------------------------------------
(* Cleanup, and the task.Periodic that runs it                             *)

NothingToDo == ips = Empty /\ requests = Empty

\* Slip: an entry goes with the first of its answers.
Kept_any(rec) == IF \E f \in Families : rec[f] = None \/ rec[f].expire <= now
                 THEN NoRecord ELSE rec

\* The answers of an entry that Cleanup keeps
Kept(rec) ==
    [f \in Families |-> IF rec[f] # None /\ rec[f].expire <= now THEN None ELSE rec[f]]

Cleanup == /\ ips' = [d \in {e \in DOMAIN ips : Kept(ips[e]) # NoRecord} |-> Kept(ips[d])]
           /\ requests' = Restrict(requests,
                                   {i \in DOMAIN requests : requests[i].expire > now})

HandlerDone(h) == handler' = [handler EXCEPT ![h].pc = "receive"]

Starting == {h \in Handlers : handler[h].pc \in {"start", "execute"}}

\* cleanup.Start, which returns at once when the task is running ...
Start(h) ==
    /\ handler[h].pc = "start"
    /\ running' = TRUE
    /\ IF running THEN HandlerDone(h) /\ starting' = starting \ {h}
                  ELSE handler' = [handler EXCEPT ![h].pc = "execute"] /\ UNCHANGED starting
    /\ UNCHANGED <<tables, reqID, closed, panicked, query, raw, tick, network, zero>>

\* ... and otherwise runs Cleanup, whose error is a panic, and sets the timer.
StartExecute(h) ==
    /\ handler[h].pc = "execute"
    /\ IF running /\ NothingToDo
       THEN Panic /\ UNCHANGED <<ips, requests, handler, tick, starting>>
       ELSE /\ IF running THEN Cleanup /\ tick' = "set" /\ starting' = Starting \ {h}
                          ELSE starting' = starting \ {h} /\ UNCHANGED <<ips, requests, tick>>
            /\ HandlerDone(h)
            /\ UNCHANGED panicked
    /\ UNCHANGED <<channel, subs, reqID, closed, query, raw, running, network, zero>>

\* The timer fires: a minute has passed since it was set, which is more than a handler
\* takes from the store to Start.
Fire ==
    /\ tick = "set" /\ starting = {}
    /\ IF NothingToDo THEN tick' = "failed" /\ UNCHANGED <<ips, requests>>
                      ELSE tick' = "ran" /\ Cleanup
    /\ UNCHANGED <<channel, subs, reqID, closed, panicked, query, raw, handler, running,
                   starting, network, zero>>

\* checkedExecute then stops the task or sets its timer again, unless it was closed.
Rearm ==
    /\ tick \in {"ran", "failed"}
    /\ running' = (running /\ tick = "ran")
    /\ IF running /\ tick = "ran" THEN tick' = "set" /\ starting' = Starting
                                  ELSE tick' = "none" /\ UNCHANGED starting
    /\ UNCHANGED <<tables, reqID, closed, panicked, query, raw, handler, network, zero>>
-----------------------------------------------------------------------------
\* Close
Close ==
    /\ ~closed
    /\ closed' = TRUE
    /\ ips' = Empty /\ requests' = Empty
    /\ running' = FALSE
    /\ tick' = IF tick = "set" THEN "none" ELSE tick
    /\ UNCHANGED <<channel, subs, reqID, panicked, query, raw, handler, starting, network,
                   zero>>

Pass == /\ now' \in now + 1 .. MaxTime
        /\ UNCHANGED <<tables, reqID, closed, panicked, query, raw, handler, cleaner, wire,
                       answers, called, zero>>

QueryStep(q) == Look(q) \/ WriteBack(q) \/ Subscribe(q) \/ sendQuery(q) \/ Timeout(q)
RawStep(r) == Dispatch(r) \/ RawSelect(r) \/ Unregister(r) \/ RawTcp(r)
HandlerStep(h) == Take(h) \/ Retry(h) \/ updateIP(h) \/ Start(h) \/ StartExecute(h)

Next ==
    /\ ~panicked
    /\ UNCHANGED server
    /\ \/ \E q \in Queries : QueryStep(q)
       \/ \E q \in Queries, d \in Domains : Begin(q, d)
       \/ \E r \in Raws : Register(r) \/ RawStep(r)
       \/ \E h \in Handlers : HandlerStep(h)
       \/ \E h \in Handlers, m \in wire, kind \in server.kinds, ttl \in Ttls :
             Deliver(h, m[1], m[2], kind, ttl)
       \/ Fire \/ Rearm \/ Close \/ Pass

Spec == Init /\ [][Next]_<<server, vars>>
-----------------------------------------------------------------------------
Records == [of : Questions, kind : server.kinds, ttl : Ttls, expire : Nat] \cup {None}

\* The tables and the local variables keep their types; a handler that looks a request up
\* or stores its answer has a packet, and nobody is told of a family not asked for.
TypeOK ==
    /\ \A d \in DOMAIN ips : d \in Domains /\ ips[d] \in [Families -> Records]
    /\ \A i \in DOMAIN requests : i \in Ids /\ requests[i].of \in Domains \X Families
    /\ \A i \in DOMAIN channel : i \in Ids /\ channel[i] \in Raws
    /\ subs \subseteq Queries \X Families
    /\ \A q \in Queries : query[q].told \subseteq query[q].opt
    /\ \A h \in Handlers :
          (handler[h].pc \in {"take", "tcp", "update"}) = (handler[h].msg # None)
    /\ tick \in {"none", "set", "ran", "failed"}
    /\ closed => ips = Empty /\ requests = Empty

\* Until the request numbers come round, an answer is filed under the domain and the
\* family it answers, and a raw query gets the answer to its own request: packets that
\* are late, twice there or out of order, requests that were given up and the numbers
\* that queries and raw queries draw from one counter never mix two questions.
OwnAnswers ==
    reqID < IdMod =>
        /\ \A d \in DOMAIN ips, f \in Families : ips[d][f] # None => ips[d][f].of = <<d, f>>
        /\ \A r \in Raws : raw[r].buf # None => raw[r].buf.of = <<r>>

\* The tables hold what their keys say.
WellFormed == TypeOK /\ OwnAnswers

\* No wake-up is lost: a query has been told of every answer to its requests that was
\* handled, also of one that was not stored, and however early it came; and a raw query
\* for which an answer came while it was registered has it, although it may not have
\* begun to wait.
NoLostWakeup ==
    /\ reqID < IdMod /\ ~closed => \A q \in Queries : query[q].got \subseteq query[q].told
    /\ \A r \in Raws : raw[r].caught => raw[r].buf # None

\* Before Close nothing panics: no table is nil, and the Must of updateIP never sees a
\* Cleanup that finds nothing to do.
NoPanic == panicked => closed

\* A query that was told of all that it asked for finds it for as long as the answers
\* last: nobody removes them or puts what is shorter-lived in their place before it has
\* looked, so its loop, whose channel done stays closed, does not spin on a miss.  Answers
\* with TTL 0 are excepted: one query takes them, or Cleanup drops them, before the others
\* that wait for the domain have looked.
WokenFinds ==
    \A q \in Queries : /\ query[q].pc \in {"look", "wait"} /\ ~closed
                       /\ query[q].opt \subseteq query[q].told
                       /\ query[q].dom \notin zero
                       /\ \A f \in query[q].opt : now < query[q].till[f]
                       => Found(Record(query[q].dom), query[q].opt) # "none"
=============================================================================
