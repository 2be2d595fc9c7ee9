-------------------------- MODULE NameserverProofs --------------------------
(***************************************************************************)
(* What holds of the UDP nameserver for any queries, raw queries, handlers *)
(* and domains, whatever the network does to the answers.                  *)
(***************************************************************************)
EXTENDS Nameserver, FiniteSetTheorems, TLAPS

(* Types. *)

QueryPcs == {"idle", "subscribe", "send", "look", "wait", "writeBack"}
Asked == [pc : QueryPcs, dom : Domains \cup {None}, opt : SUBSET Families, begun : Nat,
          id : [Families -> Ids \cup {None}], unsent : SUBSET Families,
          copy : [Families -> Records], after : QueryPcs \cup {None},
          told : SUBSET Families, got : SUBSET Families, till : [Families -> Nat]]
RawPcs == {"idle", "dispatch", "wait", "unregister", "tcp"}
RawAnswers == [of : Questions, kind : server.kinds]
RawAsked == [pc : RawPcs, id : Ids \cup {None}, begun : Nat, buf : RawAnswers \cup {None},
             caught : BOOLEAN]
HandlerPcs == {"receive", "take", "tcp", "update", "start", "execute"}
Packets == [id : Ids, of : Questions, kind : server.kinds, ttl : Ttls,
            req : (Domains \X Families) \cup {None}]
Requests == [of : Domains \X Families, expire : Nat]

TableTypes ==
    /\ ips \in [DOMAIN ips -> [Families -> Records]] /\ DOMAIN ips \subseteq Domains
    /\ requests \in [DOMAIN requests -> Requests] /\ DOMAIN requests \subseteq Ids
    /\ channel \in [DOMAIN channel -> Raws] /\ DOMAIN channel \subseteq Ids
    /\ subs \subseteq Queries \X Families

QueryTypes == query \in [Queries -> Asked]
RawTypes == raw \in [Raws -> RawAsked]
HandlerTypes == handler \in [Handlers -> [pc : HandlerPcs, msg : Packets \cup {None}]]

OtherTypes ==
    /\ server \in Servers /\ reqID \in Nat /\ now \in Nat
    /\ closed \in BOOLEAN /\ panicked \in BOOLEAN /\ running \in BOOLEAN
    /\ tick \in {"none", "set", "ran", "failed"} /\ starting \subseteq Handlers
    /\ wire \subseteq Ids \X Questions /\ zero \subseteq Domains

Types == TableTypes /\ QueryTypes /\ RawTypes /\ HandlerTypes /\ OtherTypes

(* Where each call is, and what it then has. *)

QueryShaped(q) ==
    /\ query[q].pc = "idle" => query[q] = Idle
    /\ query[q].pc # "idle" => /\ query[q].dom \in Domains /\ query[q].opt # {}
                               /\ query[q].begun <= now
    /\ query[q].pc = "send" => query[q].unsent # {}
    /\ query[q].pc = "writeBack" => /\ query[q].dom \in zero
                                    /\ query[q].after \in {"idle", "subscribe", "wait"}
    /\ query[q].unsent \subseteq query[q].opt /\ query[q].told \subseteq query[q].opt
    /\ \A f \in query[q].unsent : query[q].id[f] # None
    /\ \A f \in query[q].opt : query[q].id[f] # None => <<q, f>> \in subs
    /\ \A f \in Families : <<q, f>> \in subs => f \in query[q].opt

QueryShape == \A q \in Queries : QueryShaped(q)

RawShape ==
    \A r \in Raws : /\ raw[r].pc \in {"idle", "tcp"} => raw[r].id = None
                    /\ raw[r].pc \notin {"idle", "tcp"} => raw[r].id # None
                    /\ raw[r].caught => raw[r].buf # None

HandlerShape ==
    \A h \in Handlers :
        /\ (handler[h].pc \in {"take", "tcp", "update"}) = (handler[h].msg # None)
        /\ handler[h].pc \in {"tcp", "update"} => handler[h].msg.req \in Domains \X Families
        /\ handler[h].pc = "take" => <<handler[h].msg.id, handler[h].msg.of>> \in wire

Shape == QueryShape /\ RawShape /\ HandlerShape

(* The numbers of the requests. *)

\* The number i was given to the question qn.
Claim(i, qn) ==
    \/ <<i, qn>> \in wire
    \/ \E q \in Queries : \E f \in query[q].opt : query[q].id[f] = i /\ qn = <<query[q].dom, f>>
    \/ \E r \in Raws : raw[r].id = i /\ qn = <<r>>

\* Until they come round: no number has two questions, and none is ahead of the counter; ...
Numbers ==
    reqID < IdMod =>
        /\ \A i \in Ids : \A q1, q2 \in Questions : Claim(i, q1) /\ Claim(i, q2) => q1 = q2
        /\ \A i \in Ids : \A qn \in Questions : Claim(i, qn) => i <= reqID

\* ... a request that is pending was sent under its number, a channel belongs to the raw
\* query with that number, and a handler has the request that its packet answers; ...
Matching ==
    reqID < IdMod =>
        /\ \A i \in DOMAIN requests : <<i, requests[i].of>> \in wire
        /\ \A i \in DOMAIN channel : raw[channel[i]].id = i
        /\ \A h \in Handlers : handler[h].pc \in {"tcp", "update"} =>
               <<handler[h].msg.id, handler[h].msg.req>> \in wire
        /\ \A h \in Handlers : handler[h].pc = "update" =>
               handler[h].msg.of = handler[h].msg.req

\* ... so what is stored, or is about to be, is filed under its question.
Filed ==
    reqID < IdMod =>
        \A d \in DOMAIN ips, f \in Families : ips[d][f] # None => ips[d][f].of = <<d, f>>

CopiesFiled ==
    reqID < IdMod =>
        \A q \in Queries, f \in Families :
            query[q].pc = "writeBack" /\ query[q].copy[f] # None =>
                query[q].copy[f].of = <<query[q].dom, f>>

RawFiled ==
    reqID < IdMod => \A r \in Raws : raw[r].buf # None => raw[r].buf.of = <<r>>

Told == reqID < IdMod /\ ~closed => \A q \in Queries : query[q].got \subseteq query[q].told

(* The cache. *)

\* An answer with TTL 0 leaves a trace.
Zero == \A d \in DOMAIN ips, f \in Families :
            ips[d][f] # None /\ ips[d][f].ttl = 0 => d \in zero

\* What a query was told of is there until it expires.
Fresh ==
    ~closed => \A q \in Queries, f \in Families :
        query[q].dom \notin zero /\ now < query[q].till[f] =>
            /\ Record(query[q].dom)[f] # None
            /\ Record(query[q].dom)[f].expire >= query[q].till[f]

(* The clean-up. *)

Nil == closed => ips = Empty /\ requests = Empty

\* A handler that is about to call Start finds something in the cache, or the task running:
\* it has just run, or its timer does not fire before the handler has called.
Cleaning ==
    ~closed =>
        /\ ~panicked
        /\ tick # "none" => running
        /\ running /\ tick = "none" => \E h \in Handlers : handler[h].pc = "execute"
        /\ \A h \in Handlers : handler[h].pc = "execute" =>
               /\ running /\ tick = "none" /\ ips # Empty
               /\ \A g \in Handlers : handler[g].pc = "execute" => g = h
        /\ \A h \in Handlers : handler[h].pc = "start" =>
               ips # Empty \/ tick = "ran" \/ (tick = "set" /\ h \in starting)

NameserverInv ==
    /\ Types /\ Shape /\ Numbers /\ Matching /\ Filed /\ CopiesFiled /\ RawFiled
    /\ Told /\ Zero /\ Fresh /\ Nil /\ Cleaning
-----------------------------------------------------------------------------
\* The constants are what they should be.
LEMMA Constants ==
  /\ IdMod \in Nat \ {0} /\ Ttls \subseteq Nat /\ None \notin Nat /\ None \notin Ids
  /\ \A q \in Queries : Asks[q] \subseteq Families /\ Asks[q] # {}
BY NameserverAssumption DEF Ids

\* None is no answer, wherever one may be.
LEMMA NoneIsNone ==
  ASSUME Types
  PROVE  /\ None \notin [of : Questions, kind : server.kinds, ttl : Ttls, expire : Nat]
         /\ None \notin RawAnswers /\ None \notin Packets
<1>1. server.kinds \subseteq Kinds
  BY NameserverAssumption DEF Types, OtherTypes
<1>2. Domains \X Families \subseteq Questions
  BY DEF Questions
<1>3. /\ [of : Questions, kind : server.kinds, ttl : Ttls, expire : Nat] \subseteq
         [of : Questions, kind : Kinds, ttl : Ttls, expire : Nat]
      /\ RawAnswers \subseteq [of : Questions, kind : Kinds]
      /\ Packets \subseteq [id : Ids, of : Questions, kind : Kinds, ttl : Ttls,
                           req : Questions \cup {None}]
  BY <1>1, <1>2 DEF RawAnswers, Packets
<1>. QED
  BY <1>3, NameserverAssumption

\* A part of the invariant stays true in a step that changes nothing it speaks of.
LEMMA Same ==
  ASSUME NameserverInv, server' = server
  PROVE  /\ UNCHANGED <<ips, requests, channel, subs>> => TableTypes'
         /\ UNCHANGED query => QueryTypes'
         /\ UNCHANGED raw => RawTypes' /\ RawShape'
         /\ UNCHANGED handler => HandlerTypes'
         /\ UNCHANGED <<query, subs, zero, now>> => QueryShape'
         /\ handler' = handler /\ wire \subseteq wire' => HandlerShape'
         /\ UNCHANGED <<reqID, wire, query, raw>> => Numbers'
         /\ UNCHANGED <<reqID, requests, channel, raw, handler, wire>> => Matching'
         /\ UNCHANGED <<reqID, ips>> => Filed'
         /\ UNCHANGED <<reqID, query>> => CopiesFiled'
         /\ UNCHANGED <<reqID, raw>> => RawFiled'
         /\ UNCHANGED <<reqID, closed, query>> => Told'
         /\ UNCHANGED <<ips, zero>> => Zero'
         /\ UNCHANGED <<closed, query, zero, now, ips>> => Fresh'
         /\ UNCHANGED <<closed, ips, requests>> => Nil'
         /\ UNCHANGED <<closed, panicked, running, tick, handler, ips, starting>> =>
                Cleaning'
<1> USE DEF NameserverInv, Types, Shape
<1>0. Records' = Records /\ Asked' = Asked /\ RawAsked' = RawAsked /\ Packets' = Packets
  BY DEF Records, Asked, RawAsked, RawAnswers, Packets
<1>1. UNCHANGED <<ips, requests, channel, subs>> => TableTypes'
  BY <1>0 DEF TableTypes
<1>2. /\ UNCHANGED query => QueryTypes'
      /\ UNCHANGED raw => RawTypes' /\ RawShape'
      /\ UNCHANGED handler => HandlerTypes'
  BY <1>0 DEF QueryTypes, RawTypes, RawShape, HandlerTypes
<1>3. /\ UNCHANGED <<query, subs, zero, now>> => QueryShape'
      /\ handler' = handler /\ wire \subseteq wire' => HandlerShape'
  BY DEF QueryShape, QueryShaped, HandlerShape
<1>4. UNCHANGED <<reqID, wire, query, raw>> => Numbers'
  BY DEF Numbers, Claim
<1>5. UNCHANGED <<reqID, requests, channel, raw, handler, wire>> => Matching'
  BY DEF Matching
<1>6. /\ UNCHANGED <<reqID, ips>> => Filed'
      /\ UNCHANGED <<reqID, query>> => CopiesFiled'
      /\ UNCHANGED <<reqID, raw>> => RawFiled'
      /\ UNCHANGED <<reqID, closed, query>> => Told'
      /\ UNCHANGED <<ips, zero>> => Zero'
  BY DEF Filed, CopiesFiled, RawFiled, Told, Zero
<1>7. /\ UNCHANGED <<closed, query, zero, now, ips>> => Fresh'
      /\ UNCHANGED <<closed, ips, requests>> => Nil'
      /\ UNCHANGED <<closed, panicked, running, tick, handler, ips, starting>> =>
                Cleaning'
  BY DEF Fresh, Record, Nil, Cleaning
<1>. QED
  BY <1>1, <1>2, <1>3, <1>4, <1>5, <1>6, <1>7

\* What a write to the cache does.
LEMMA Cached ==
  ASSUME NameserverInv, NEW d \in Domains, NEW rec \in [Families -> Records],
         ips' = Update(ips, d, rec)
  PROVE  /\ ips' \in [DOMAIN ips \cup {d} -> [Families -> Records]]
         /\ DOMAIN ips' = DOMAIN ips \cup {d} /\ ips'[d] = rec
         /\ \A e \in DOMAIN ips : e # d => ips'[e] = ips[e]
BY DEF NameserverInv, Types, TableTypes, Update

\* What a look-up in the cache finds has the right type.
LEMMA RecordTypes ==
  ASSUME NameserverInv, NEW d
  PROVE  Record(d) \in [Families -> Records] /\ NoRecord \in [Families -> Records]
BY DEF NameserverInv, Types, TableTypes, Record, NoRecord, Records

\* The local state of a call that is not made.
LEMMA IdleTypes == Idle \in Asked /\ RawIdle \in RawAsked
<1>1. NoRecord \in [Families -> Records] /\ NoRecord \in [Families -> Ids \cup {None}]
  BY DEF NoRecord, Records
<1>. QED
  BY <1>1 DEF Idle, RawIdle, Asked, RawAsked, QueryPcs, RawPcs

\* The invariant holds at the start.
LEMMA NameserverInit == Init => NameserverInv
<1> SUFFICES ASSUME Init PROVE NameserverInv
  OBVIOUS
<1> USE DEF Init
<1>1. TableTypes /\ OtherTypes
  BY DEF TableTypes, OtherTypes, Empty
<1>2. QueryTypes /\ RawTypes /\ HandlerTypes
  BY IdleTypes DEF QueryTypes, RawTypes, HandlerTypes, HandlerPcs
<1>3. QueryShape /\ CopiesFiled /\ Told /\ Fresh
  BY DEF QueryShape, QueryShaped, CopiesFiled, Told, Fresh, Idle
<1>4. RawShape /\ HandlerShape /\ RawFiled
  BY DEF RawShape, HandlerShape, RawFiled, RawIdle
<1>5. Numbers
  BY Constants DEF Numbers, Claim, Idle, RawIdle
<1>6. Matching /\ Filed /\ Zero /\ Nil /\ Cleaning
  BY DEF Matching, Filed, Zero, Nil, Cleaning, Empty
<1>. QED
  BY <1>1, <1>2, <1>3, <1>4, <1>5, <1>6 DEF NameserverInv, Types, Shape
-----------------------------------------------------------------------------
(* The queries. *)

\* A query that looks something up, writes back what it found, begins or ends: it claims
\* no new number and is told nothing.
LEMMA QueryMoves ==
  ASSUME NameserverInv, NEW q \in Queries, NEW new \in Asked,
         query' = [query EXCEPT ![q] = new],
         UNCHANGED <<server, zero, now, reqID, closed, wire, raw>>,
         new.pc \in {"idle", "subscribe", "wait", "writeBack"},
         new.pc = "idle" => new = Idle /\ subs' = subs \ ({q} \X Families),
         new.pc # "idle" =>
             /\ subs' = subs
             /\ new.dom \in Domains /\ new.opt # {} /\ new.begun <= now
             /\ \/ /\ new.dom = query[q].dom /\ new.opt = query[q].opt
                   /\ new.begun = query[q].begun /\ new.id = query[q].id
                   /\ new.unsent = query[q].unsent
                   /\ new.told = query[q].told /\ new.got = query[q].got
                   /\ new.till = query[q].till
                \/ /\ query[q].pc = "idle" /\ new.id = NoRecord
                   /\ new.unsent = {} /\ new.told = {} /\ new.got = {} /\ new.till = Idle.till,
         new.pc = "writeBack" =>
             /\ new.dom \in zero /\ new.after \in {"idle", "subscribe", "wait"}
             /\ reqID < IdMod => \A f \in Families :
                    new.copy[f] # None => new.copy[f].of = <<new.dom, f>>,
         \A d \in Domains \ zero : Record(d)' = Record(d)
  PROVE  /\ QueryTypes' /\ QueryShape' /\ Numbers' /\ CopiesFiled' /\ Told' /\ Fresh'
         /\ subs' \subseteq Queries \X Families
<1> USE DEF NameserverInv, Types, Shape
<1>0. /\ query \in [Queries -> Asked] /\ query' \in [Queries -> Asked]
      /\ query'[q] = new /\ \A p \in Queries : p # q => query'[p] = query[p]
  BY DEF QueryTypes
<1>1. QueryTypes'
  BY <1>0 DEF QueryTypes, Asked, Records
<1>2. subs' \subseteq Queries \X Families
  BY DEF TableTypes
<1>3. QueryShape'
  <2> SUFFICES ASSUME NEW p \in Queries
               PROVE  QueryShaped(p)'
    BY DEF QueryShape, QueryShaped
  <2>1. CASE p # q
    <3>1. \A f \in Families : <<p, f>> \in subs' <=> <<p, f>> \in subs
      BY <2>1
    <3>. QED
      BY <2>1, <3>1, <1>0 DEF QueryShape, QueryShaped, Asked
  <2>2. CASE p = q /\ new.pc = "idle"
    BY <2>2, <1>0 DEF QueryShaped, Idle, NoRecord
  <2>3. CASE p = q /\ new.pc # "idle"
    <3>1. CASE new.id = query[q].id /\ new.opt = query[q].opt
               /\ new.unsent = query[q].unsent /\ new.told = query[q].told
      BY <2>3, <3>1, <1>0 DEF QueryShape, QueryShaped
    <3>2. CASE query[q].pc = "idle" /\ new.id = NoRecord /\ new.unsent = {} /\ new.told = {}
      BY <2>3, <3>2, <1>0 DEF QueryShape, QueryShaped, Idle, NoRecord, Asked
    <3>. QED
      BY <2>3, <3>1, <3>2
  <2>. QED
    BY <2>1, <2>2, <2>3
<1>4. \A i \in Ids : \A qn \in Questions : Claim(i, qn)' => Claim(i, qn)
  <2> SUFFICES ASSUME NEW i \in Ids, NEW p \in Queries, NEW f \in query'[p].opt,
                      query'[p].id[f] = i
               PROVE  /\ f \in query[p].opt /\ query[p].id[f] = i
                      /\ query'[p].dom = query[p].dom
    BY DEF Claim
  <2>1. f \in Families
    BY <1>0 DEF Asked
  <2>. QED
    BY <2>1, <1>0, Constants DEF Idle, NoRecord
<1>5. Numbers'
  BY <1>4 DEF Numbers
<1>6. CopiesFiled' /\ Told'
  BY <1>0 DEF CopiesFiled, Told, Idle
<1>7. Fresh'
  <2> DEFINE after(e) == IF e \in DOMAIN ips' THEN ips'[e] ELSE NoRecord
  <2>0. \A d \in Domains \ zero : after(d) = Record(d)
    BY DEF Record
  <2> SUFFICES ASSUME ~closed, NEW p \in Queries, NEW f \in Families,
                      query'[p].dom \notin zero, now < query'[p].till[f]
               PROVE  /\ after(query'[p].dom)[f] # None
                      /\ after(query'[p].dom)[f].expire >= query'[p].till[f]
    BY DEF Fresh, Record
  <2> HIDE DEF after
  <2>1. query'[p].till # Idle.till
    BY DEF Idle, OtherTypes
  <2>2. /\ query'[p].till = query[p].till /\ query'[p].dom = query[p].dom
        /\ query'[p].dom \in Domains
    <3>1. CASE p = q
      BY <1>0, <2>1, <3>1
    <3>2. CASE p # q
      <4>1. query'[p] = query[p] /\ QueryShaped(p) /\ query[p] # Idle
        BY <1>0, <2>1, <3>2 DEF QueryShape
      <4>. QED
        BY <4>1 DEF QueryShaped
    <3>. QED
      BY <3>1, <3>2
  <2>. QED
    BY <2>0, <2>2 DEF Fresh
<1>. QED
  BY <1>1, <1>2, <1>3, <1>5, <1>6, <1>7

\* findIPsForDomain for a query that begins or looks again: a copy that it is to write back is
\* filed as the cache is, and it has one only of a domain that had an answer with TTL 0.
LEMMA LookingUp ==
  ASSUME NameserverInv, NEW q \in Queries, NEW qry \in Asked, NEW miss \in {"subscribe", "wait"},
         findIPsForDomain(q, qry, miss),
         UNCHANGED <<server, ips, zero, now, reqID, closed, wire, raw>>,
         qry.dom \in Domains /\ qry.opt # {} /\ qry.begun <= now,
         \/ qry = query[q]
         \/ /\ query[q].pc = "idle" /\ qry.id = NoRecord
            /\ qry.unsent = {} /\ qry.told = {} /\ qry.got = {} /\ qry.till = Idle.till
  PROVE  /\ QueryTypes' /\ QueryShape' /\ Numbers' /\ CopiesFiled' /\ Told' /\ Fresh'
         /\ subs' \subseteq Queries \X Families
<1> USE DEF NameserverInv, Types, Shape
<1> DEFINE rec == Record(qry.dom)
           taken == Taken(rec, qry.opt)
           goto == IF Found(rec, qry.opt) = "none" THEN miss ELSE "idle"
           copy == [f \in Families |-> IF f \in taken THEN None ELSE rec[f]]
<1>0. \A d \in Domains \ zero : Record(d)' = Record(d)
  BY DEF Record
<1>1. goto \in {"idle", "subscribe", "wait"} /\ goto \in QueryPcs
  BY DEF QueryPcs
<1>2. rec \in [Families -> Records] /\ None \in Records
  BY RecordTypes DEF Records
<1>3. CASE taken = {}
  <2> DEFINE new == IF goto = "idle" THEN Idle ELSE [qry EXCEPT !.pc = goto]
  <2> HIDE DEF goto
  <2>1. /\ query' = [query EXCEPT ![q] = new]
        /\ subs' = IF goto = "idle" THEN subs \ ({q} \X Families) ELSE subs
    BY <1>3 DEF findIPsForDomain, Goto, goto
  <2>2. new \in Asked
    BY <1>1, IdleTypes DEF Asked
  <2>3. /\ new.pc = goto
        /\ goto = "idle" => new = Idle
        /\ goto # "idle" => /\ new.dom = qry.dom /\ new.opt = qry.opt /\ new.begun = qry.begun
                            /\ new.id = qry.id /\ new.unsent = qry.unsent
                            /\ new.told = qry.told /\ new.got = qry.got
                            /\ new.till = qry.till
    BY DEF Idle, Asked
  <2> HIDE DEF new
  <2>. QED
    BY <1>0, <1>1, <2>1, <2>2, <2>3, QueryMoves
<1>4. CASE taken # {}
  <2> DEFINE new == [qry EXCEPT !.pc = "writeBack", !.after = goto, !.copy = copy]
  <2> HIDE DEF goto
  <2>1. query' = [query EXCEPT ![q] = new] /\ subs' = subs
    BY <1>4 DEF findIPsForDomain, goto
  <2>2. copy \in [Families -> Records]
    BY <1>2
  <2>3. new \in Asked
    BY <1>1, <2>2 DEF Asked, QueryPcs
  <2>4. /\ new.pc = "writeBack" /\ new.after = goto /\ new.copy = copy
        /\ new.dom = qry.dom /\ new.opt = qry.opt /\ new.begun = qry.begun
        /\ new.id = qry.id /\ new.unsent = qry.unsent
        /\ new.told = qry.told /\ new.got = qry.got
        /\ new.till = qry.till
    BY DEF Asked
  <2>5. qry.dom \in DOMAIN ips /\ qry.dom \in zero
    <3>1. PICK f \in qry.opt : rec[f] # None /\ rec[f].ttl = 0
      BY <1>4 DEF Taken
    <3>2. f \in Families
      BY DEF Asked
    <3>. QED
      BY <3>1, <3>2 DEF Record, NoRecord, Zero
  <2>6. reqID < IdMod => \A f \in Families : copy[f] # None => copy[f].of = <<qry.dom, f>>
    BY <2>5 DEF Filed, Record
  <2> HIDE DEF new, copy
  <2>. QED
    BY <1>0, <1>1, <2>1, <2>3, <2>4, <2>5, <2>6, QueryMoves
<1>. QED
  BY <1>3, <1>4

\* The look-up at the head of the loop keeps the invariant.
LEMMA LookStep ==
  ASSUME NameserverInv, UNCHANGED server, NEW q \in Queries, Look(q)
  PROVE  NameserverInv'
<1> USE DEF NameserverInv, Types, Shape, Look, tables, cleaner, network
<1>1. query[q] \in Asked /\ query[q].dom \in Domains /\ query[q].opt # {} /\ query[q].begun <= now
  BY DEF QueryTypes, QueryShape, QueryShaped
<1>2. /\ QueryTypes' /\ QueryShape' /\ Numbers' /\ CopiesFiled' /\ Told' /\ Fresh'
      /\ subs' \subseteq Queries \X Families
  BY <1>1, LookingUp
<1>3. TableTypes' /\ OtherTypes'
  BY <1>2 DEF TableTypes, OtherTypes, Records
<1>4. /\ RawTypes' /\ HandlerTypes' /\ RawShape' /\ HandlerShape'
      /\ Matching' /\ Filed' /\ RawFiled' /\ Zero' /\ Nil' /\ Cleaning'
  BY Same
<1>. QED
  BY <1>2, <1>3, <1>4

\* So does the deadline, ...
LEMMA TimeoutStep ==
  ASSUME NameserverInv, UNCHANGED server, NEW q \in Queries, Timeout(q)
  PROVE  NameserverInv'
<1> USE DEF NameserverInv, Types, Shape, Timeout, tables, cleaner, network
<1>1. query' = [query EXCEPT ![q] = Idle] /\ subs' = subs \ ({q} \X Families)
  BY DEF Goto
<1>2. Idle \in Asked /\ Idle.pc = "idle" /\ \A d \in Domains \ zero : Record(d)' = Record(d)
  BY IdleTypes DEF Idle, Record
<1>3. /\ QueryTypes' /\ QueryShape' /\ Numbers' /\ CopiesFiled' /\ Told' /\ Fresh'
      /\ subs' \subseteq Queries \X Families
  BY <1>1, <1>2, QueryMoves
<1>4. TableTypes' /\ OtherTypes'
  BY <1>3 DEF TableTypes, OtherTypes, Records
<1>5. /\ RawTypes' /\ HandlerTypes' /\ RawShape' /\ HandlerShape'
      /\ Matching' /\ Filed' /\ RawFiled' /\ Zero' /\ Nil' /\ Cleaning'
  BY Same
<1>. QED
  BY <1>3, <1>4, <1>5

\* ... the look-up before the loop, ...
LEMMA BeginStep ==
  ASSUME NameserverInv, UNCHANGED server, NEW q \in Queries, NEW d \in Domains, Begin(q, d)
  PROVE  NameserverInv'
<1> USE DEF NameserverInv, Types, Shape, tables, cleaner, network
<1> DEFINE qry == [Idle EXCEPT !.dom = d, !.opt = Asks[q], !.begun = now]
<1>0. /\ query[q].pc = "idle"
      /\ IF server.disableCache THEN Goto(q, qry, "subscribe")
                                ELSE findIPsForDomain(q, qry, "subscribe")
      /\ UNCHANGED <<ips, requests, channel, reqID, closed, panicked, raw, handler, running,
                     tick, starting, wire, answers, now, zero>>
  BY DEF Begin
<1>1. /\ qry \in Asked /\ qry.dom \in Domains /\ qry.opt # {} /\ qry.begun <= now
      /\ qry.id = NoRecord /\ qry.unsent = {} /\ qry.told = {} /\ qry.got = {} /\ qry.till = Idle.till
  <2>1. qry \in Asked
    BY IdleTypes, Constants DEF Asked, OtherTypes
  <2>2. /\ qry.dom = d /\ qry.opt = Asks[q] /\ qry.begun = now
        /\ qry.id = NoRecord /\ qry.unsent = {} /\ qry.told = {} /\ qry.got = {} /\ qry.till = Idle.till
    BY DEF Idle
  <2>. QED
    BY <2>1, <2>2, Constants DEF OtherTypes
<1> HIDE DEF qry
<1>2. /\ QueryTypes' /\ QueryShape' /\ Numbers' /\ CopiesFiled' /\ Told' /\ Fresh'
      /\ subs' \subseteq Queries \X Families
  <2>1. CASE server.disableCache
    <3> DEFINE new == [qry EXCEPT !.pc = "subscribe"]
    <3>1. query' = [query EXCEPT ![q] = new] /\ subs' = subs
      BY <1>0, <2>1 DEF Goto
    <3>2. /\ new \in Asked /\ new.pc = "subscribe"
          /\ new.dom \in Domains /\ new.opt # {} /\ new.begun <= now
          /\ new.id = NoRecord /\ new.unsent = {} /\ new.told = {} /\ new.got = {} /\ new.till = Idle.till
      BY <1>1 DEF Asked, QueryPcs
    <3>3. \A e \in Domains \ zero : Record(e)' = Record(e)
      BY <1>0 DEF Record
    <3> HIDE DEF new
    <3>. QED
      BY <1>0, <3>1, <3>2, <3>3, QueryMoves
  <2>2. CASE ~server.disableCache
    BY <1>0, <1>1, <2>2, LookingUp
  <2>. QED
    BY <2>1, <2>2
<1>3. TableTypes' /\ OtherTypes'
  BY <1>0, <1>2 DEF TableTypes, OtherTypes, Records
<1>4. /\ RawTypes' /\ HandlerTypes' /\ RawShape' /\ HandlerShape'
      /\ Matching' /\ Filed' /\ RawFiled' /\ Zero' /\ Nil' /\ Cleaning'
  BY <1>0, Same
<1>. QED
  BY <1>2, <1>3, <1>4

\* ... and the write-back of a copy that may be stale: it overwrites only a domain that had an
\* answer with TTL 0.
LEMMA WriteBackStep ==
  ASSUME NameserverInv, ~panicked, UNCHANGED server, NEW q \in Queries, WriteBack(q)
  PROVE  NameserverInv'
<1> USE DEF NameserverInv, Types, Shape, WriteBack, tables, cleaner, network
<1>1. CASE closed
  <2>1. UNCHANGED <<ips, query, subs>> /\ panicked' = TRUE
    BY <1>1 DEF Panic
  <2>2. OtherTypes' /\ Cleaning'
    BY <1>1, <2>1 DEF OtherTypes, Cleaning
  <2>3. TableTypes' /\ QueryTypes' /\ RawTypes' /\ HandlerTypes' /\ Shape'
        /\ Numbers' /\ Matching' /\ Filed' /\ CopiesFiled' /\ RawFiled' /\ Told' /\ Zero'
        /\ Fresh' /\ Nil'
    BY <2>1, Same
  <2>. QED
    BY <2>2, <2>3
<1>2. CASE ~closed
  <2> DEFINE d == query[q].dom
             copy == query[q].copy
             goto == query[q].after
             new == IF goto = "idle" THEN Idle
                    ELSE [query[q] EXCEPT !.after = None, !.copy = NoRecord, !.pc = goto]
  <2>1. /\ query[q] \in Asked /\ d \in Domains /\ d \in zero /\ query[q].opt # {}
        /\ query[q].begun <= now
        /\ goto \in {"idle", "subscribe", "wait"} /\ copy \in [Families -> Records]
        /\ NoRecord \in [Families -> Records]
    BY RecordTypes DEF QueryTypes, QueryShape, QueryShaped, Asked
  <2>2. /\ query' = [query EXCEPT ![q] = new]
        /\ subs' = IF goto = "idle" THEN subs \ ({q} \X Families) ELSE subs
        /\ ips' = Update(ips, d, copy) /\ UNCHANGED panicked
    BY <1>2, <2>1 DEF Goto, Asked
  <2>3. /\ new \in Asked /\ new.pc = goto
        /\ goto = "idle" => new = Idle
        /\ goto # "idle" => /\ new.dom = query[q].dom /\ new.opt = query[q].opt
                            /\ new.begun = query[q].begun
                            /\ new.id = query[q].id /\ new.unsent = query[q].unsent
                            /\ new.told = query[q].told /\ new.got = query[q].got
                            /\ new.till = query[q].till
    BY <2>1, IdleTypes DEF Idle, Asked, QueryPcs
  <2>4. /\ ips' \in [DOMAIN ips \cup {d} -> [Families -> Records]]
        /\ DOMAIN ips' = DOMAIN ips \cup {d} /\ ips'[d] = copy
        /\ \A e \in DOMAIN ips : e # d => ips'[e] = ips[e]
    BY <2>1, <2>2, Cached
  <2>5. \A e \in Domains \ zero : Record(e)' = Record(e)
    BY <2>1, <2>4 DEF Record
  <2>6. /\ QueryTypes' /\ QueryShape' /\ Numbers' /\ CopiesFiled' /\ Told' /\ Fresh'
        /\ subs' \subseteq Queries \X Families
    <3> HIDE DEF new
    <3>. QED
      BY <2>1, <2>2, <2>3, <2>5, QueryMoves
  <2>7. TableTypes' /\ OtherTypes'
    BY <2>1, <2>2, <2>4, <2>6 DEF TableTypes, OtherTypes, Records
  <2>8. Filed' /\ Zero' /\ Nil'
    <3> HIDE DEF new
    <3>1. reqID < IdMod => \A f \in Families : copy[f] # None => copy[f].of = <<d, f>>
      BY DEF CopiesFiled
    <3>2. Filed'
      BY <3>1, <2>4 DEF Filed
    <3>3. Zero' /\ Nil'
      BY <1>2, <2>1, <2>4 DEF Zero, Nil
    <3>. QED
      BY <3>2, <3>3
  <2>9. Cleaning'
    <3>1. ips' # Empty
      BY <2>4 DEF Empty
    <3>. QED
      BY <3>1, <2>2 DEF Cleaning
  <2>10. /\ RawTypes' /\ HandlerTypes' /\ RawShape' /\ HandlerShape'
         /\ Matching' /\ RawFiled'
    BY <2>2, Same
  <2>. QED
    BY <2>6, <2>7, <2>8, <2>9, <2>10
<1>. QED
  BY <1>1, <1>2

\* The families asked for, counted.
LEMMA Counting ==
  ASSUME NEW opt \in SUBSET Families, opt # {}
  PROVE  /\ Cardinality(opt) \in Nat
         /\ \A f \in opt : Cardinality({g \in opt : g <= f}) \in 1 .. Cardinality(opt)
         /\ \A f, g \in opt : Cardinality({e \in opt : e <= f}) =
                              Cardinality({e \in opt : e <= g}) => f = g
<1>1. Cardinality({4}) = 1 /\ Cardinality({6}) = 1
  BY FS_Singleton
<1>2. Cardinality({4, 6}) = 2
  <2>1. IsFiniteSet({4})
    BY FS_Singleton
  <2>2. {4} \cup {6} = {4, 6} /\ 6 \notin {4}
    OBVIOUS
  <2>. QED
    BY <1>1, <2>1, <2>2, FS_AddElement
<1>3. opt = {4} \/ opt = {6} \/ opt = {4, 6}
  BY DEF Families
<1>4. /\ opt = {4} => {g \in opt : g <= 4} = {4}
      /\ opt = {6} => {g \in opt : g <= 6} = {6}
      /\ opt = {4, 6} => {g \in opt : g <= 4} = {4} /\ {g \in opt : g <= 6} = {4, 6}
  OBVIOUS
<1>. QED
  BY <1>1, <1>2, <1>3, <1>4

\* The numbers that a query draws from the counter: no two are equal, before they come round.
LEMMA Drawn ==
  ASSUME reqID \in Nat, NEW opt \in SUBSET Families, opt # {}
  PROVE  LET number(f) == NewReqID(Cardinality({g \in opt : g <= f}))
             last == reqID + Cardinality(opt)
         IN  /\ last \in Nat /\ reqID <= last
             /\ \A f \in opt : number(f) \in Ids
             /\ last < IdMod =>
                    /\ \A f \in opt : reqID < number(f) /\ number(f) <= last
                    /\ \A f, g \in opt : number(f) = number(g) => f = g
<1> DEFINE upto(f) == Cardinality({g \in opt : g <= f})
           n == Cardinality(opt)
<1>1. /\ n \in Nat /\ \A f \in opt : upto(f) \in 1 .. n
      /\ \A f, g \in opt : upto(f) = upto(g) => f = g
  BY Counting
<1> HIDE DEF upto, n
<1>2. \A f \in opt : /\ NewReqID(upto(f)) \in Ids
                     /\ reqID + n < IdMod => NewReqID(upto(f)) = reqID + upto(f)
  <2> SUFFICES ASSUME NEW k \in 1 .. n
               PROVE  /\ (reqID + k) % IdMod \in Ids
                      /\ reqID + n < IdMod => (reqID + k) % IdMod = reqID + k
    BY <1>1 DEF NewReqID
  <2>. QED
    BY <1>1, Constants DEF Ids
<1>3. reqID + n < IdMod => \A f \in opt :
          reqID < NewReqID(upto(f)) /\ NewReqID(upto(f)) <= reqID + n
  BY <1>1, <1>2
<1>4. reqID + n < IdMod => \A f, g \in opt : NewReqID(upto(f)) = NewReqID(upto(g)) => f = g
  BY <1>1, <1>2
<1>5. reqID + n \in Nat /\ reqID <= reqID + n
  BY <1>1
<1>. QED
  BY <1>2, <1>3, <1>4, <1>5 DEF upto, n

\* Subscribing draws numbers nobody has, and sends nothing yet.
LEMMA SubscribeStep ==
  ASSUME NameserverInv, UNCHANGED server, NEW q \in Queries, Subscribe(q)
  PROVE  NameserverInv'
<1> USE DEF NameserverInv, Types, Shape, tables, cleaner, network
<1> DEFINE opt == query[q].opt
           number(f) == NewReqID(Cardinality({g \in opt : g <= f}))
           ids == [f \in Families |-> IF f \in opt THEN number(f) ELSE None]
<1>0. /\ query[q].pc = "subscribe"
      /\ subs' = subs \cup ({q} \X opt)
      /\ query' = [query EXCEPT ![q].id = ids, ![q].unsent = opt, ![q].pc = "send"]
      /\ reqID' = reqID + Cardinality(opt)
      /\ UNCHANGED <<ips, requests, channel, closed, panicked, raw, handler, running, tick,
                     starting, wire, answers, called, now, zero>>
  BY DEF Subscribe
<1>1. /\ query \in [Queries -> Asked] /\ query[q] \in Asked /\ opt \in SUBSET Families
      /\ opt # {} /\ reqID \in Nat
  BY <1>0 DEF QueryTypes, QueryShape, QueryShaped, Asked, OtherTypes
<1>2. /\ reqID' \in Nat /\ reqID <= reqID'
      /\ \A f \in opt : number(f) \in Ids
      /\ reqID' < IdMod => /\ \A f \in opt : reqID < number(f) /\ number(f) <= reqID'
                           /\ \A f, g \in opt : number(f) = number(g) => f = g
  BY <1>0, <1>1, Drawn
<1>3. \A f \in opt : ids[f] = number(f)
  BY <1>1
<1> HIDE DEF number
<1>4. ids \in [Families -> Ids \cup {None}] /\ \A f \in opt : ids[f] \in Ids /\ ids[f] # None
  BY <1>1, <1>2, Constants
<1>5. /\ \A f \in opt : reqID' < IdMod => ids[f] > reqID /\ ids[f] <= reqID'
      /\ \A f, g \in opt : reqID' < IdMod /\ ids[f] = ids[g] => f = g
  <2> HIDE DEF opt, ids
  <2>1. \A f \in opt : number(f) \in Nat
    BY <1>2, Constants DEF Ids
  <2>. QED
    BY <2>1, <1>1, <1>2, <1>3
<1> HIDE DEF ids
<1>6. /\ query' \in [Queries -> Asked]
      /\ \A p \in Queries : p # q => query'[p] = query[p]
      /\ query'[q] = [query[q] EXCEPT !.id = ids, !.unsent = opt, !.pc = "send"]
  BY <1>0, <1>1, <1>4 DEF Asked, QueryPcs
<1>7. QueryTypes' /\ TableTypes' /\ OtherTypes'
  BY <1>0, <1>1, <1>2, <1>6 DEF QueryTypes, TableTypes, OtherTypes, Asked, Records
<1>8. QueryShape'
  <2> SUFFICES ASSUME NEW p \in Queries PROVE QueryShaped(p)'
    BY DEF QueryShape
  <2>0. QueryShaped(p)
    BY DEF QueryShape
  <2>1. CASE p # q
    BY <2>0, <2>1, <1>0, <1>6 DEF QueryShaped, Asked
  <2>2. CASE p = q
    BY <2>0, <2>2, <1>0, <1>1, <1>4, <1>6 DEF QueryShaped, Asked
  <2>. QED
    BY <2>1, <2>2
<1>9. Numbers'
  <2>1. ASSUME NEW i \in Ids, NEW qn \in Questions, Claim(i, qn)'
        PROVE  Claim(i, qn) \/ \E f \in opt : i = ids[f] /\ qn = <<query[q].dom, f>>
    BY <2>1, <1>0, <1>6 DEF Claim, Asked
  <2> SUFFICES ASSUME reqID' < IdMod
               PROVE  /\ \A i \in Ids : \A q1, q2 \in Questions :
                             Claim(i, q1)' /\ Claim(i, q2)' => q1 = q2
                      /\ \A i \in Ids : \A qn \in Questions : Claim(i, qn)' => i <= reqID'
    BY DEF Numbers
  <2>2. reqID < IdMod
    BY <1>1, <1>2, Constants
  <2>3. \A i \in Ids : \A qn \in Questions : Claim(i, qn) => i <= reqID
    BY <2>2 DEF Numbers
  <2>4. \A i \in Ids : \A qn \in Questions : Claim(i, qn)' => i <= reqID'
    <3> HIDE DEF opt
    <3>. QED
      BY <2>1, <2>3, <1>1, <1>2, <1>5 DEF Ids
  <2>5. ASSUME NEW i \in Ids, NEW q1 \in Questions, NEW q2 \in Questions,
               Claim(i, q1)', Claim(i, q2)'
        PROVE  q1 = q2
    <3>1. CASE Claim(i, q1) /\ Claim(i, q2)
      BY <3>1, <2>2 DEF Numbers
    <3>2. CASE ~Claim(i, q1) \/ ~Claim(i, q2)
      <4> HIDE DEF opt
      <4>1. i > reqID
        BY <3>2, <2>1, <2>5, <1>5
      <4>2. ~Claim(i, q1) /\ ~Claim(i, q2)
        BY <4>1, <2>3, <1>1 DEF Ids
      <4>. QED
        BY <4>2, <2>1, <2>5, <1>5
    <3>. QED
      BY <3>1, <3>2
  <2>. QED
    BY <2>4, <2>5
<1>10. Matching' /\ Filed' /\ CopiesFiled' /\ RawFiled' /\ Told'
  <2>1. reqID' < IdMod => reqID < IdMod
    BY <1>1, <1>2, Constants
  <2>2. Matching' /\ Filed' /\ RawFiled'
    BY <1>0, <2>1 DEF Matching, Filed, RawFiled
  <2>3. CopiesFiled' /\ Told'
    <3>1. query'[q].pc = "send" /\ query'[q].told = query[q].told /\ query'[q].got = query[q].got
                                /\ query'[q].till = query[q].till
      BY <1>1, <1>6 DEF Asked
    <3>2. \A p \in Queries : query'[p].pc = "writeBack" => query'[p] = query[p]
      BY <3>1, <1>6
    <3>3. CopiesFiled'
      BY <3>2, <2>1 DEF CopiesFiled
    <3>4. Told'
      BY <3>1, <1>0, <1>6, <2>1 DEF Told
    <3>. QED
      BY <3>3, <3>4
  <2>. QED
    BY <2>2, <2>3
<1>11. Fresh'
  BY <1>0, <1>1, <1>6 DEF Fresh, Record, Asked
<1>12. RawTypes' /\ HandlerTypes' /\ RawShape' /\ HandlerShape' /\ Zero' /\ Nil' /\ Cleaning'
  BY <1>0, Same
<1>. QED
  BY <1>7, <1>8, <1>9, <1>10, <1>11, <1>12

\* Sending files a request under a number that its query has drawn.
LEMMA SendStep ==
  ASSUME NameserverInv, ~panicked, UNCHANGED server, NEW q \in Queries, sendQuery(q)
  PROVE  NameserverInv'
<1> USE DEF NameserverInv, Types, Shape, tables, cleaner, network
<1> DEFINE f == Min(query[q].unsent)
           id == query[q].id[f]
           question == <<query[q].dom, f>>
           req == [of |-> question, expire |-> now + RequestLife]
           pc == IF query[q].unsent = {f} THEN "look" ELSE "send"
<1>0. /\ query[q].pc = "send"
      /\ IF closed
         THEN panicked' = TRUE /\ UNCHANGED <<requests, wire, query>>
         ELSE /\ requests' = Update(requests, id, req)
              /\ wire' = wire \cup {<<id, question>>}
              /\ query' = [query EXCEPT ![q].unsent = @ \ {f}, ![q].pc = pc]
              /\ UNCHANGED panicked
      /\ UNCHANGED <<ips, channel, subs, reqID, closed, raw, handler, running, tick, starting,
                     answers, called, now, zero>>
  BY DEF sendQuery, Panic
<1>1. CASE closed
  <2>1. OtherTypes' /\ Cleaning'
    BY <1>0, <1>1 DEF OtherTypes, Cleaning
  <2>2. TableTypes' /\ QueryTypes' /\ RawTypes' /\ HandlerTypes' /\ Shape'
        /\ Numbers' /\ Matching' /\ Filed' /\ CopiesFiled' /\ RawFiled' /\ Told' /\ Zero'
        /\ Fresh' /\ Nil'
    BY <1>0, <1>1, Same
  <2>. QED
    BY <2>1, <2>2
<1>2. CASE ~closed
  <2>1. /\ query \in [Queries -> Asked] /\ query[q] \in Asked /\ QueryShaped(q)
        /\ query[q].unsent # {} /\ query[q].unsent \subseteq query[q].opt
        /\ query[q].opt \subseteq Families /\ query[q].dom \in Domains
    BY <1>0 DEF QueryTypes, QueryShape, QueryShaped, Asked
  <2>2. f \in query[q].unsent
    <3>1. \E x \in query[q].unsent : \A y \in query[q].unsent : x <= y
      BY <2>1 DEF Families
    <3>. QED
      BY <3>1 DEF Min
  <2> HIDE DEF f
  <2>3. f \in Families /\ f \in query[q].opt /\ id \in Ids /\ question \in Domains \X Families
        /\ question \in Questions /\ Claim(id, question)
    BY <2>1, <2>2 DEF QueryShaped, Asked, Questions, Claim
  <2>4. req \in Requests
    BY <2>3, NameserverAssumption DEF Requests, OtherTypes
  <2> HIDE DEF id, question, req
  <2>5. /\ requests' = Update(requests, id, req)
        /\ wire' = wire \cup {<<id, question>>}
        /\ query' = [query EXCEPT ![q].unsent = @ \ {f}, ![q].pc = pc]
        /\ UNCHANGED panicked
    BY <1>0, <1>2
  <2>6. /\ requests' \in [DOMAIN requests \cup {id} -> Requests]
        /\ DOMAIN requests' = DOMAIN requests \cup {id} /\ requests'[id] = req
        /\ \A i \in DOMAIN requests : i # id => requests'[i] = requests[i]
    BY <2>4, <2>5 DEF Update, TableTypes
  <2>7. /\ query' \in [Queries -> Asked]
        /\ \A p \in Queries : p # q => query'[p] = query[p]
        /\ query'[q] = [query[q] EXCEPT !.unsent = @ \ {f}, !.pc = pc]
    BY <2>1, <2>5 DEF Asked, QueryPcs
  <2> HIDE DEF pc
  <2>15. \A p \in Queries :
             /\ query'[p].opt = query[p].opt /\ query'[p].id = query[p].id
             /\ query'[p].dom = query[p].dom /\ query'[p].begun = query[p].begun
             /\ query'[p].told = query[p].told /\ query'[p].got = query[p].got
             /\ query'[p].till = query[p].till
             /\ query'[p].copy = query[p].copy
             /\ query'[p].pc = "writeBack" => query[p].pc = "writeBack"
    <3>1. /\ query'[q].opt = query[q].opt /\ query'[q].id = query[q].id
          /\ query'[q].dom = query[q].dom /\ query'[q].begun = query[q].begun
          /\ query'[q].told = query[q].told /\ query'[q].got = query[q].got
          /\ query'[q].till = query[q].till
          /\ query'[q].copy = query[q].copy /\ query'[q].pc = pc
      BY <2>1, <2>7 DEF Asked
    <3>2. pc # "writeBack"
      BY DEF pc
    <3>. QED
      BY <3>1, <3>2, <2>7
  <2>8. TableTypes' /\ QueryTypes' /\ OtherTypes'
    BY <1>0, <2>3, <2>5, <2>6, <2>7 DEF TableTypes, QueryTypes, OtherTypes, Asked, Records
  <2>9. QueryShape'
    <3> SUFFICES ASSUME NEW p \in Queries PROVE QueryShaped(p)'
      BY DEF QueryShape
    <3>0. QueryShaped(p)
      BY DEF QueryShape
    <3>1. CASE p # q
      BY <3>0, <3>1, <1>0, <2>7 DEF QueryShaped, Asked
    <3>2. CASE p = q
      <4>1. /\ pc \in {"look", "send"}
            /\ pc = "send" => query[q].unsent \ {f} # {}
        BY <2>2 DEF pc
      <4>. QED
        BY <3>0, <3>2, <4>1, <1>0, <2>1, <2>7 DEF QueryShaped, Asked
    <3>. QED
      BY <3>1, <3>2
  <2>10. Numbers'
    <3>1. \A i \in Ids : \A qn \in Questions : Claim(i, qn)' => Claim(i, qn)
      <4> SUFFICES ASSUME NEW i \in Ids, NEW qn \in Questions, Claim(i, qn)'
                   PROVE  Claim(i, qn)
        OBVIOUS
      <4>1. CASE <<i, qn>> \in wire'
        BY <4>1, <2>3, <2>5 DEF Claim
      <4>2. CASE \E r \in Raws : raw'[r].id = i /\ qn = <<r>>
        BY <4>2, <1>0 DEF Claim
      <4>3. CASE \E p \in Queries : \E g \in query'[p].opt :
                     query'[p].id[g] = i /\ qn = <<query'[p].dom, g>>
        BY <4>3, <2>15 DEF Claim
      <4>. QED
        BY <4>1, <4>2, <4>3 DEF Claim
    <3>. QED
      BY <3>1, <1>0 DEF Numbers
  <2>11. Matching'
    <3>1. req.of = question
      BY DEF req
    <3>. QED
      BY <3>1, <1>0, <2>5, <2>6 DEF Matching
  <2>12. CopiesFiled' /\ Told' /\ Fresh'
    BY <1>0, <2>15 DEF CopiesFiled, Told, Fresh, Record
  <2>13. Nil' /\ Cleaning'
    BY <1>0, <1>2, <2>5 DEF Cleaning, Nil
  <2>14. RawTypes' /\ HandlerTypes' /\ RawShape' /\ HandlerShape' /\ Filed' /\ RawFiled' /\ Zero'
    BY <1>0, <2>5, Same
  <2>. QED
    BY <2>8, <2>9, <2>10, <2>11, <2>12, <2>13, <2>14
<1>. QED
  BY <1>1, <1>2
-----------------------------------------------------------------------------
(* The raw queries. *)

\* A raw query draws a number nobody has, and its channel is filed under it.
LEMMA RegisterStep ==
  ASSUME NameserverInv, UNCHANGED server, NEW r \in Raws, Register(r)
  PROVE  NameserverInv'
<1> USE DEF NameserverInv, Types, Shape, tables, cleaner, network
<1> DEFINE id == NewReqID(1)
<1>0. /\ raw[r].pc = "idle" /\ ~closed
      /\ reqID' = reqID + 1
      /\ channel' = Update(channel, id, r)
      /\ raw' = [raw EXCEPT ![r].pc = "dispatch", ![r].id = id, ![r].begun = now]
      /\ UNCHANGED <<ips, requests, subs, closed, panicked, query, handler, running, tick,
                     starting, wire, now, zero>>
  BY DEF Register
<1>1. /\ reqID \in Nat /\ id \in Ids /\ id # None /\ raw \in [Raws -> RawAsked]
      /\ reqID' < IdMod => id = reqID' /\ reqID < IdMod
  BY <1>0, Constants DEF NewReqID, Ids, OtherTypes, RawTypes
<1> HIDE DEF id
<1>2. /\ DOMAIN channel' = DOMAIN channel \cup {id} /\ channel'[id] = r
      /\ channel' \in [DOMAIN channel' -> Raws]
      /\ \A i \in DOMAIN channel : i # id => channel'[i] = channel[i]
  BY <1>0 DEF Update, TableTypes
<1>3. /\ raw' \in [Raws -> RawAsked] /\ raw'[r].id = id /\ raw'[r].pc = "dispatch"
      /\ raw'[r].buf = raw[r].buf /\ raw'[r].caught = raw[r].caught
      /\ \A p \in Raws : p # r => raw'[p] = raw[p]
  <2> DEFINE new == [raw[r] EXCEPT !.pc = "dispatch", !.id = id, !.begun = now]
  <2>1. raw' = [raw EXCEPT ![r] = new]
    BY <1>0, <1>1
  <2>2. new \in RawAsked /\ new.id = id /\ new.pc = "dispatch" /\ new.buf = raw[r].buf
        /\ new.caught = raw[r].caught
    BY <1>1 DEF RawAsked, RawPcs, OtherTypes
  <2> HIDE DEF new
  <2>. QED
    BY <2>1, <2>2, <1>1
<1>4. TableTypes' /\ OtherTypes' /\ RawTypes'
  BY <1>0, <1>1, <1>2, <1>3 DEF TableTypes, OtherTypes, RawTypes, RawAsked, RawAnswers, Records
<1>5. RawShape' /\ RawFiled'
  BY <1>1, <1>3 DEF RawShape, RawFiled
<1>6. Numbers'
  <2>1. ASSUME NEW i \in Ids, NEW qn \in Questions, Claim(i, qn)'
        PROVE  Claim(i, qn) \/ (i = id /\ qn = <<r>>)
    BY <2>1, <1>0, <1>3 DEF Claim
  <2>2. reqID < IdMod => \A i \in Ids : \A qn \in Questions : Claim(i, qn) => i <= reqID
    BY DEF Numbers
  <2>3. reqID' < IdMod => ~ \E qn \in Questions : Claim(id, qn)
    BY <2>2, <1>0, <1>1
  <2>4. reqID' < IdMod => \A i \in Ids : \A qn \in Questions : Claim(i, qn)' => i <= reqID'
    BY <2>1, <2>2, <1>0, <1>1 DEF Ids
  <2>5. reqID' < IdMod => \A i \in Ids : \A q1, q2 \in Questions :
                              Claim(i, q1)' /\ Claim(i, q2)' => q1 = q2
    BY <2>1, <2>3, <1>1 DEF Numbers
  <2>. QED
    BY <2>4, <2>5 DEF Numbers
<1>7. Matching'
  <2>1. reqID < IdMod => \A i \in DOMAIN channel : channel[i] # r
    BY <1>0, Constants DEF Matching, RawShape, TableTypes
  <2>. QED
    BY <2>1, <1>0, <1>1, <1>2, <1>3 DEF Matching, TableTypes
<1>8. Filed' /\ CopiesFiled' /\ Told'
  BY <1>0, <1>1 DEF Filed, CopiesFiled, Told
<1>9. /\ QueryTypes' /\ HandlerTypes' /\ QueryShape' /\ HandlerShape' /\ Zero' /\ Fresh' /\ Nil'
      /\ Cleaning'
  BY <1>0, Same
<1>. QED
  BY <1>4, <1>5, <1>6, <1>7, <1>8, <1>9

\* What a raw query sends has its number.
LEMMA DispatchStep ==
  ASSUME NameserverInv, UNCHANGED server, NEW r \in Raws, Dispatch(r)
  PROVE  NameserverInv'
<1> USE DEF NameserverInv, Types, Shape, Dispatch, tables, cleaner, network
<1>1. /\ raw \in [Raws -> RawAsked] /\ raw[r].id \in Ids /\ <<r>> \in Questions
      /\ Claim(raw[r].id, <<r>>)
  BY DEF RawTypes, RawAsked, RawShape, Questions, Claim
<1>2. /\ raw' \in [Raws -> RawAsked] /\ raw'[r].pc = "wait"
      /\ \A p \in Raws : p # r => raw'[p] = raw[p]
      /\ \A p \in Raws : raw'[p].id = raw[p].id /\ raw'[p].buf = raw[p].buf
                         /\ raw'[p].caught = raw[p].caught
  BY <1>1 DEF RawAsked, RawPcs
<1>3. OtherTypes' /\ RawTypes'
  BY <1>1, <1>2 DEF OtherTypes, RawTypes, RawAsked, RawAnswers
<1>4. RawShape' /\ RawFiled'
  BY <1>1, <1>2 DEF RawShape, RawFiled
<1>5. Numbers'
  <2>1. \A i \in Ids : \A qn \in Questions : Claim(i, qn)' => Claim(i, qn)
    BY <1>1, <1>2 DEF Claim
  <2>. QED
    BY <2>1 DEF Numbers
<1>6. Matching'
  BY <1>2 DEF Matching, TableTypes
<1>7. /\ TableTypes' /\ QueryTypes' /\ HandlerTypes' /\ QueryShape' /\ HandlerShape'
      /\ Filed' /\ CopiesFiled' /\ Told' /\ Zero' /\ Fresh' /\ Nil' /\ Cleaning'
  BY Same
<1>. QED
  BY <1>3, <1>4, <1>5, <1>6, <1>7

\* The end of its wait changes nothing that others see.
LEMMA RawSelectStep ==
  ASSUME NameserverInv, UNCHANGED server, NEW r \in Raws, RawSelect(r)
  PROVE  NameserverInv'
<1> USE DEF NameserverInv, Types, Shape, RawSelect, tables, cleaner, network
<1>1. raw \in [Raws -> RawAsked]
  BY DEF RawTypes
<1>2. /\ raw' \in [Raws -> RawAsked] /\ raw'[r].pc = "unregister"
      /\ \A p \in Raws : p # r => raw'[p] = raw[p]
      /\ \A p \in Raws : /\ raw'[p].id = raw[p].id
                         /\ raw'[p].buf = raw[p].buf \/ raw'[p].buf = None
      /\ raw'[r].caught => raw[r].caught /\ raw'[r].buf = raw[r].buf
  BY <1>1 DEF RawAsked, RawPcs
<1>3. OtherTypes' /\ RawTypes'
  BY <1>1, <1>2 DEF OtherTypes, RawTypes, RawAsked, RawAnswers
<1>4. RawShape' /\ RawFiled'
  BY <1>1, <1>2 DEF RawShape, RawFiled
<1>5. Numbers'
  BY <1>2 DEF Numbers, Claim
<1>6. Matching'
  BY <1>2 DEF Matching, TableTypes
<1>7. /\ TableTypes' /\ QueryTypes' /\ HandlerTypes' /\ QueryShape' /\ HandlerShape'
      /\ Filed' /\ CopiesFiled' /\ Told' /\ Zero' /\ Fresh' /\ Nil' /\ Cleaning'
  BY Same
<1>. QED
  BY <1>3, <1>4, <1>5, <1>6, <1>7

\* It removes its own channel: a channel that stays belongs to another raw query.
LEMMA UnregisterStep ==
  ASSUME NameserverInv, UNCHANGED server, NEW r \in Raws, Unregister(r)
  PROVE  NameserverInv'
<1> USE DEF NameserverInv, Types, Shape, Unregister, tables, cleaner, network
<1>1. raw \in [Raws -> RawAsked] /\ raw[r].id \in Ids
  BY DEF RawTypes, RawAsked, RawShape
<1>2. /\ DOMAIN channel' = DOMAIN channel \ {raw[r].id}
      /\ channel' \in [DOMAIN channel' -> Raws]
      /\ \A i \in DOMAIN channel' : channel'[i] = channel[i]
  BY DEF Delete, Restrict, TableTypes
<1>3. /\ raw' \in [Raws -> RawAsked] /\ raw'[r].pc \in {"idle", "tcp"}
      /\ \A p \in Raws : p # r => raw'[p] = raw[p]
      /\ raw'[r].id = None /\ raw'[r].buf = None /\ ~raw'[r].caught
  BY <1>1, IdleTypes DEF RawAsked, RawPcs, RawIdle
<1>4. TableTypes' /\ OtherTypes' /\ RawTypes'
  BY <1>1, <1>2, <1>3 DEF TableTypes, OtherTypes, RawTypes, RawAsked, RawAnswers, Records
<1>5. RawShape' /\ RawFiled'
  BY <1>1, <1>3 DEF RawShape, RawFiled
<1>6. Numbers'
  <2>1. \A i \in Ids : \A qn \in Questions : Claim(i, qn)' => Claim(i, qn)
    BY <1>1, <1>3, Constants DEF Claim
  <2>. QED
    BY <2>1 DEF Numbers
<1>7. Matching'
  BY <1>2, <1>3 DEF Matching, TableTypes
<1>8. /\ QueryTypes' /\ HandlerTypes' /\ QueryShape' /\ HandlerShape'
      /\ Filed' /\ CopiesFiled' /\ Told' /\ Zero' /\ Fresh' /\ Nil' /\ Cleaning'
  BY Same
<1>. QED
  BY <1>4, <1>5, <1>6, <1>7, <1>8

\* The second attempt over TCP uses no table.
LEMMA RawTcpStep ==
  ASSUME NameserverInv, UNCHANGED server, NEW r \in Raws, RawTcp(r)
  PROVE  NameserverInv'
<1> USE DEF NameserverInv, Types, Shape, RawTcp, tables, cleaner, network
<1>1. raw \in [Raws -> RawAsked] /\ raw[r].id = None
  BY DEF RawTypes, RawShape
<1>2. /\ raw' \in [Raws -> RawAsked] /\ raw'[r] = RawIdle
      /\ \A p \in Raws : p # r => raw'[p] = raw[p]
      /\ \A p \in Raws : raw'[p].id = raw[p].id
  BY <1>1, IdleTypes DEF RawIdle
<1>3. OtherTypes' /\ RawTypes'
  BY <1>1, <1>2 DEF OtherTypes, RawTypes, RawAsked, RawAnswers
<1>4. RawShape' /\ RawFiled'
  BY <1>1, <1>2 DEF RawShape, RawFiled, RawIdle
<1>5. Numbers'
  BY <1>2 DEF Numbers, Claim
<1>6. Matching'
  BY <1>2 DEF Matching, TableTypes
<1>7. /\ TableTypes' /\ QueryTypes' /\ HandlerTypes' /\ QueryShape' /\ HandlerShape'
      /\ Filed' /\ CopiesFiled' /\ Told' /\ Zero' /\ Fresh' /\ Nil' /\ Cleaning'
  BY Same
<1>. QED
  BY <1>3, <1>4, <1>5, <1>6, <1>7
-----------------------------------------------------------------------------
(* HandleResponse. *)

\* A handler that has not come to the clean-up yet.
LEMMA HandlerMoves ==
  ASSUME NameserverInv, NEW h \in Handlers,
         NEW new \in [pc : {"receive", "take", "tcp", "update"}, msg : Packets \cup {None}],
         handler' = [handler EXCEPT ![h] = new],
         UNCHANGED <<server, ips, closed, panicked, running, tick, starting, wire, reqID,
                     channel, raw>>,
         handler[h].pc \in {"receive", "take", "tcp", "update"},
         (new.pc # "receive") = (new.msg # None),
         new.pc \in {"tcp", "update"} => new.msg.req \in Domains \X Families,
         new.pc = "take" => <<new.msg.id, new.msg.of>> \in wire,
         reqID < IdMod =>
             /\ new.pc \in {"tcp", "update"} => <<new.msg.id, new.msg.req>> \in wire
             /\ new.pc = "update" => new.msg.of = new.msg.req,
         \A i \in DOMAIN requests' : i \in DOMAIN requests /\ requests'[i] = requests[i]
  PROVE  HandlerTypes' /\ HandlerShape' /\ Matching' /\ Cleaning'
<1> USE DEF NameserverInv, Types, Shape
<1>0. /\ handler \in [Handlers -> [pc : HandlerPcs, msg : Packets \cup {None}]]
      /\ handler'[h] = new /\ \A g \in Handlers : g # h => handler'[g] = handler[g]
  BY DEF HandlerTypes
<1>1. HandlerTypes'
  BY <1>0 DEF HandlerTypes, HandlerPcs, Packets
<1>2. HandlerShape'
  BY <1>0 DEF HandlerShape
<1>3. Matching'
  BY <1>0 DEF Matching
<1>4. Cleaning'
  BY <1>0 DEF Cleaning
<1>. QED
  BY <1>1, <1>2, <1>3, <1>4

\* The number of a packet that has come back says which question it answers.
LEMMA OneQuestion ==
  ASSUME NameserverInv, reqID < IdMod, NEW i \in Ids, NEW q1 \in Questions, NEW q2 \in Questions,
         <<i, q1>> \in wire, Claim(i, q2)
  PROVE  q1 = q2
BY DEF NameserverInv, Numbers, Claim

\* A packet goes to the raw query whose request it answers, or to a handler.
LEMMA DeliverStep ==
  ASSUME NameserverInv, UNCHANGED server, NEW h \in Handlers, NEW id, NEW question,
         NEW kind \in server.kinds, NEW ttl \in Ttls, Deliver(h, id, question, kind, ttl)
  PROVE  NameserverInv'
<1> USE DEF NameserverInv, Types, Shape, tables, cleaner, network
<1>0. /\ handler[h].pc = "receive" /\ <<id, question>> \in wire
      /\ UNCHANGED <<ips, requests, channel, subs, reqID, closed, panicked, query, running,
                     tick, starting, wire, now, zero>>
  BY DEF Deliver
<1>1. id \in Ids /\ question \in Questions
  BY <1>0 DEF OtherTypes
<1>2. /\ TableTypes' /\ QueryTypes' /\ QueryShape' /\ Filed' /\ CopiesFiled' /\ Told' /\ Zero'
      /\ Fresh' /\ Nil'
  BY <1>0, Same
<1>3. OtherTypes'
  BY <1>0 DEF OtherTypes
<1>4. CASE id \in DOMAIN channel
  <2> DEFINE r == channel[id]
             answer == [of |-> question, kind |-> kind]
             buf == IF raw[r].buf = None THEN answer ELSE raw[r].buf
  <2>1. /\ raw' = [raw EXCEPT ![r].buf = IF @ = None THEN answer ELSE @, ![r].caught = TRUE]
        /\ UNCHANGED handler
    BY <1>4 DEF Deliver
  <2>2. raw \in [Raws -> RawAsked] /\ r \in Raws
    BY <1>4 DEF RawTypes, TableTypes
  <2>3. answer \in RawAnswers /\ answer # None
    BY <1>1, NoneIsNone DEF RawAnswers
  <2>4. /\ raw' \in [Raws -> RawAsked]
        /\ \A p \in Raws : p # r => raw'[p] = raw[p]
        /\ \A p \in Raws : raw'[p].id = raw[p].id /\ raw'[p].pc = raw[p].pc
        /\ raw'[r].buf = buf /\ buf # None
    BY <2>1, <2>2, <2>3 DEF RawAsked
  <2> HIDE DEF r, answer
  <2>5. RawTypes' /\ RawShape'
    BY <2>2, <2>4 DEF RawTypes, RawShape, RawAsked, RawAnswers
  <2>6. RawFiled'
    <3>1. ASSUME reqID < IdMod PROVE question = <<r>>
      <4>1. raw[r].id = id /\ <<r>> \in Questions
        BY <1>4, <2>2, <3>1 DEF Matching, Questions, r
      <4>2. Claim(id, <<r>>)
        BY <4>1, <2>2 DEF Claim
      <4>. QED
        BY <4>1, <4>2, <1>0, <1>1, <3>1, OneQuestion
    <3>2. answer.of = question
      BY DEF answer
    <3>. QED
      BY <3>1, <3>2, <1>0, <2>2, <2>4 DEF RawFiled
  <2>7. Numbers'
    BY <1>0, <2>4 DEF Numbers, Claim
  <2>8. Matching'
    BY <1>0, <2>1, <2>4 DEF Matching, TableTypes
  <2>9. HandlerTypes' /\ HandlerShape' /\ Cleaning'
    BY <1>0, <2>1, Same
  <2>. QED
    BY <1>2, <1>3, <2>5, <2>6, <2>7, <2>8, <2>9
<1>5. CASE id \notin DOMAIN channel
  <2> DEFINE msg == [id |-> id, of |-> question, kind |-> kind, ttl |-> ttl, req |-> None]
             new == [handler[h] EXCEPT !.pc = "take", !.msg = msg]
  <2>1. /\ handler' = [handler EXCEPT ![h].pc = "take", ![h].msg = msg]
        /\ UNCHANGED raw
    BY <1>5 DEF Deliver
  <2>2. msg \in Packets /\ msg # None /\ msg.id = id /\ msg.of = question
    BY <1>1, NoneIsNone DEF Packets
  <2> HIDE DEF msg
  <2>3. handler' = [handler EXCEPT ![h] = new]
    BY <2>1 DEF HandlerTypes
  <2>4. HandlerTypes' /\ HandlerShape' /\ Matching' /\ Cleaning'
    <3>1. /\ new \in [pc : {"receive", "take", "tcp", "update"}, msg : Packets \cup {None}]
          /\ new.pc = "take" /\ new.msg = msg
      BY <2>2 DEF HandlerTypes
    <3> HIDE DEF new
    <3>. QED
      BY <1>0, <2>1, <2>2, <2>3, <3>1, HandlerMoves
  <2>5. RawTypes' /\ RawShape' /\ Numbers' /\ RawFiled'
    BY <1>0, <2>1, Same
  <2>. QED
    BY <1>2, <1>3, <2>4, <2>5
<1>. QED
  BY <1>4, <1>5

\* The request that a handler takes is the one its packet answers.
LEMMA TakeStep ==
  ASSUME NameserverInv, UNCHANGED server, NEW h \in Handlers, Take(h)
  PROVE  NameserverInv'
<1> USE DEF NameserverInv, Types, Shape, tables, cleaner, network
<1> DEFINE msg == handler[h].msg
           id == msg.id
           req == requests[id].of
           new == IF id \notin DOMAIN requests
                  THEN [handler[h] EXCEPT !.pc = "receive", !.msg = None]
                  ELSE [handler[h] EXCEPT
                          !.pc = IF msg.kind = "truncated" THEN "tcp" ELSE "update",
                          !.msg = [msg EXCEPT !.req = req]]
<1>0. /\ handler[h].pc = "take" /\ requests' = Delete(requests, id)
      /\ UNCHANGED <<ips, channel, subs, reqID, closed, panicked, query, raw, running, tick,
                     starting, wire, now, zero>>
  BY DEF Take
<1>1. /\ handler[h] \in [pc : HandlerPcs, msg : Packets \cup {None}]
      /\ msg \in Packets /\ <<id, msg.of>> \in wire
  BY <1>0 DEF HandlerTypes, HandlerShape
<1>2. handler' = [handler EXCEPT ![h] = new]
  BY <1>1 DEF Take, HandlerTypes
<1>3. /\ DOMAIN requests' \subseteq DOMAIN requests
      /\ requests' \in [DOMAIN requests' -> Requests]
      /\ \A i \in DOMAIN requests' : requests'[i] = requests[i]
  BY <1>0 DEF Delete, Restrict, TableTypes
<1>4. HandlerTypes' /\ HandlerShape' /\ Matching' /\ Cleaning'
  <2>1. CASE id \notin DOMAIN requests
    <3>1. /\ new \in [pc : {"receive", "take", "tcp", "update"}, msg : Packets \cup {None}]
          /\ new.pc = "receive" /\ new.msg = None
      BY <1>1, <2>1
    <3> HIDE DEF new
    <3>. QED
      BY <1>0, <1>2, <1>3, <3>1, HandlerMoves
  <2>2. CASE id \in DOMAIN requests
    <3>1. req \in Domains \X Families /\ req \in Questions /\ id \in Ids /\ msg.of \in Questions
      BY <1>1, <2>2 DEF TableTypes, Requests, Questions, Packets
    <3>2. /\ new \in [pc : {"receive", "take", "tcp", "update"}, msg : Packets \cup {None}]
          /\ new.pc \in {"tcp", "update"} /\ new.msg \in Packets
          /\ new.msg.id = id /\ new.msg.req = req /\ new.msg.of = msg.of
      BY <1>1, <2>2, <3>1 DEF Packets
    <3>3. new.msg # None
      BY <3>2, NoneIsNone
    <3>4. reqID < IdMod => <<id, req>> \in wire /\ msg.of = req
      <4> SUFFICES ASSUME reqID < IdMod PROVE <<id, req>> \in wire /\ msg.of = req
        OBVIOUS
      <4>1. <<id, req>> \in wire
        BY <2>2 DEF Matching
      <4>2. Claim(id, req)
        BY <4>1 DEF Claim
      <4>. QED
        BY <4>1, <4>2, <1>1, <3>1, OneQuestion
    <3> HIDE DEF new, req, id
    <3>. QED
      BY <1>0, <1>2, <1>3, <3>1, <3>2, <3>3, <3>4, HandlerMoves
  <2>. QED
    BY <2>1, <2>2
<1>5. TableTypes' /\ OtherTypes'
  BY <1>0, <1>3 DEF TableTypes, OtherTypes, Records
<1>6. Nil'
  BY <1>0, <1>3 DEF Nil, Empty, Delete, Restrict
<1>7. /\ QueryTypes' /\ RawTypes' /\ QueryShape' /\ RawShape' /\ Numbers' /\ Filed' /\ CopiesFiled'
      /\ RawFiled' /\ Told' /\ Zero' /\ Fresh'
  BY <1>0, Same
<1>. QED
  BY <1>4, <1>5, <1>6, <1>7

\* The answer over TCP is the answer to the request that was pending.
LEMMA RetryStep ==
  ASSUME NameserverInv, UNCHANGED server, NEW h \in Handlers, Retry(h)
  PROVE  NameserverInv'
<1> USE DEF NameserverInv, Types, Shape, tables, cleaner, network
<1> DEFINE msg == handler[h].msg
<1>0. /\ handler[h].pc = "tcp"
      /\ UNCHANGED <<ips, requests, channel, subs, reqID, closed, panicked, query, raw, running,
                     tick, starting, wire, now, zero>>
  BY DEF Retry
<1>1. /\ handler \in [Handlers -> [pc : HandlerPcs, msg : Packets \cup {None}]]
      /\ handler[h] \in [pc : HandlerPcs, msg : Packets \cup {None}]
      /\ msg \in Packets /\ msg.req \in Domains \X Families /\ msg.req \in Questions
  BY <1>0 DEF HandlerTypes, HandlerShape, Questions
<1>2. HandlerTypes' /\ HandlerShape' /\ Matching' /\ Cleaning'
  <2>1. CASE handler' = [handler EXCEPT ![h].pc = "receive", ![h].msg = None]
    <3> DEFINE new == [handler[h] EXCEPT !.pc = "receive", !.msg = None]
    <3>1. handler' = [handler EXCEPT ![h] = new]
      BY <1>1, <2>1
    <3>2. /\ new \in [pc : {"receive", "take", "tcp", "update"}, msg : Packets \cup {None}]
          /\ new.pc = "receive" /\ new.msg = None
      BY <1>1
    <3> HIDE DEF new
    <3>. QED
      BY <1>0, <3>1, <3>2, HandlerMoves
  <2>2. ASSUME NEW kind \in server.kinds, NEW ttl \in Ttls,
               handler' = [handler EXCEPT ![h].pc = "update",
                   ![h].msg = [@ EXCEPT !.kind = kind, !.ttl = ttl, !.of = handler[h].msg.req]]
        PROVE  HandlerTypes' /\ HandlerShape' /\ Matching' /\ Cleaning'
    <3> DEFINE packet == [msg EXCEPT !.kind = kind, !.ttl = ttl, !.of = msg.req]
               new == [handler[h] EXCEPT !.pc = "update", !.msg = packet]
    <3>1. handler' = [handler EXCEPT ![h] = new]
      BY <1>1, <2>2
    <3>2. packet \in Packets /\ packet.id = msg.id /\ packet.req = msg.req /\ packet.of = msg.req
      BY <1>1 DEF Packets
    <3>3. packet # None
      BY <3>2, NoneIsNone
    <3> HIDE DEF packet
    <3>4. /\ new \in [pc : {"receive", "take", "tcp", "update"}, msg : Packets \cup {None}]
          /\ new.pc = "update" /\ new.msg = packet
      BY <1>1, <3>2
    <3>5. reqID < IdMod => <<msg.id, msg.req>> \in wire
      BY <1>0 DEF Matching
    <3> HIDE DEF new
    <3>. QED
      BY <1>0, <1>1, <3>1, <3>2, <3>3, <3>4, <3>5, HandlerMoves
  <2>. QED
    BY <2>1, <2>2 DEF Retry
<1>3. OtherTypes'
  BY <1>0 DEF OtherTypes
<1>4. /\ TableTypes' /\ QueryTypes' /\ RawTypes' /\ QueryShape' /\ RawShape' /\ Numbers' /\ Filed'
      /\ CopiesFiled' /\ RawFiled' /\ Told' /\ Zero' /\ Fresh' /\ Nil'
  BY <1>0, Same
<1>. QED
  BY <1>2, <1>3, <1>4

\* Storing an answer, telling the queries and removing nothing: what was fresh stays fresh, and
\* who asked for it is told.
LEMMA UpdateStep ==
  ASSUME NameserverInv, ~panicked, UNCHANGED server, NEW h \in Handlers, updateIP(h)
  PROVE  NameserverInv'
<1> USE DEF NameserverInv, Types, Shape, tables, cleaner, network
<1> DEFINE msg == handler[h].msg
           d == msg.req[1]
           f == msg.req[2]
           new == [of |-> msg.of, kind |-> msg.kind, ttl |-> msg.ttl, expire |-> now + msg.ttl]
           base == Record(d)[f]
           updated == isNewer(base, new)
           after(e) == IF e \in DOMAIN ips' THEN ips'[e] ELSE NoRecord
           told(q) == IF q \in Publish(d, f) THEN query[q].told \cup {f} ELSE query[q].told
           got(q) == IF f \in query[q].opt /\ query[q].id[f] = msg.id
                     THEN query[q].got \cup {f} ELSE query[q].got
           till(q) == IF q \in Publish(d, f)
                      THEN Later(query[q].till, f, new.expire) ELSE query[q].till
<1>0. /\ handler[h].pc = "update"
      /\ UNCHANGED <<requests, channel, subs, reqID, closed, raw, running, tick, starting,
                     wire, answers, called, now>>
  BY DEF updateIP
<1>1. CASE closed /\ updated
  <2>1. panicked' = TRUE /\ UNCHANGED <<ips, query, handler, zero>>
    BY <1>1 DEF updateIP, Panic
  <2>2. OtherTypes' /\ Cleaning'
    BY <1>0, <1>1, <2>1 DEF OtherTypes, Cleaning
  <2>3. /\ TableTypes' /\ QueryTypes' /\ RawTypes' /\ HandlerTypes' /\ Shape'
        /\ Numbers' /\ Matching' /\ Filed' /\ CopiesFiled' /\ RawFiled' /\ Told' /\ Zero'
        /\ Fresh' /\ Nil'
    BY <1>0, <2>1, Same
  <2>. QED
    BY <2>2, <2>3
<1>2. CASE ~(closed /\ updated)
  <2>1. /\ ips' = IF updated THEN Update(ips, d, [Record(d) EXCEPT ![f] = new]) ELSE ips
        /\ query' = [q \in Queries |-> [query[q] EXCEPT !.told = told(q), !.till = till(q),
                                                         !.got = got(q)]]
        /\ handler' = [handler EXCEPT ![h].pc = "start", ![h].msg = None]
        /\ zero' = IF msg.ttl = 0 THEN zero \cup {d} ELSE zero
        /\ UNCHANGED panicked
    BY <1>2 DEF updateIP
  <2>2. /\ handler \in [Handlers -> [pc : HandlerPcs, msg : Packets \cup {None}]]
        /\ msg \in Packets /\ msg.req \in Domains \X Families
    BY <1>0 DEF HandlerTypes, HandlerShape
  <2>3. /\ d \in Domains /\ f \in Families /\ msg.req = <<d, f>> /\ msg.req \in Questions
        /\ msg.id \in Ids /\ msg.ttl \in Nat /\ now \in Nat
    <3>1. msg.req \in Questions /\ msg.id \in Ids /\ msg.ttl \in Ttls /\ now \in Nat
      BY <2>2 DEF Packets, Questions, OtherTypes
    <3>2. d \in Domains /\ f \in Families /\ msg.req = <<d, f>>
      BY <2>2
    <3>. QED
      BY <3>1, <3>2, Constants
  <2>4. /\ new \in [of : Questions, kind : server.kinds, ttl : Ttls, expire : Nat]
        /\ new.of = msg.of /\ new.ttl = msg.ttl /\ new.expire = now + msg.ttl
    BY <2>2, <2>3 DEF Packets
  <2>5. new # None /\ new \in Records
    BY <2>4, NoneIsNone DEF Records
  <2> HIDE DEF new, d, f
  <2>6. /\ Record(d) \in [Families -> Records]
        /\ [Record(d) EXCEPT ![f] = new] \in [Families -> Records]
    BY <2>3, <2>5, RecordTypes
  <2>7. /\ updated => /\ ips' \in [DOMAIN ips \cup {d} -> [Families -> Records]]
                      /\ DOMAIN ips' = DOMAIN ips \cup {d}
                      /\ ips'[d] = [Record(d) EXCEPT ![f] = new]
                      /\ \A e \in DOMAIN ips : e # d => ips'[e] = ips[e]
        /\ ~updated => ips' = ips /\ d \in DOMAIN ips /\ base # None /\ base.expire > new.expire
    <3>1. CASE updated
      BY <3>1, <2>1, <2>3, <2>6, Cached
    <3>2. CASE ~updated
      <4>1. base # None /\ ~(base.expire <= new.expire)
        BY <3>2 DEF isNewer
      <4>2. base.expire \in Nat /\ new.expire \in Nat
        BY <4>1, <2>3, <2>4, <2>6 DEF Records
      <4>3. d \in DOMAIN ips
        BY <4>1, <2>3 DEF Record, NoRecord
      <4>4. ips' = ips
        BY <3>2, <2>1
      <4> HIDE DEF base, updated
      <4>. QED
        BY <3>2, <4>1, <4>2, <4>3, <4>4
    <3>. QED
      BY <3>1, <3>2
  <2>8. /\ after(d)[f] # None /\ after(d)[f].expire >= new.expire
        /\ base # None => after(d)[f].expire >= base.expire
        /\ \A e \in Domains, g \in Families : e # d \/ g # f => after(e)[g] = Record(e)[g]
    <3>1. CASE updated
      <4>1. after(d) = [Record(d) EXCEPT ![f] = new]
        BY <3>1, <2>7
      <4>2. \A e \in Domains : e # d => after(e) = Record(e)
        BY <3>1, <2>7 DEF Record
      <4> HIDE DEF after
      <4>3. after(d)[f] = new /\ \A g \in Families : g # f => after(d)[g] = Record(d)[g]
        BY <4>1, <2>3, <2>6
      <4>4. base # None => base.expire \in Nat /\ base.expire <= new.expire
        BY <3>1, <2>3, <2>6 DEF isNewer, Records
      <4>5. new.expire \in Nat
        BY <2>3, <2>4
      <4> HIDE DEF base
      <4>. QED
        BY <4>2, <4>3, <4>4, <4>5, <2>3, <2>5
    <3>2. CASE ~updated
      <4>1. \A e : after(e) = Record(e)
        BY <3>2, <2>7 DEF Record
      <4>2. base.expire \in Nat /\ base # None /\ base.expire > new.expire
        BY <3>2, <2>3, <2>6, <2>7 DEF Records
      <4>3. base = after(d)[f]
        BY <4>1
      <4> HIDE DEF base
      <4>. QED
        BY <4>1, <4>2, <4>3, <2>3, <2>4
    <3>. QED
      BY <3>1, <3>2
  <2>9. /\ query \in [Queries -> Asked]
        /\ \A q \in Queries : /\ query'[q] = [query[q] EXCEPT !.told = told(q), !.till = till(q),
                                                              !.got = got(q)]
                              /\ told(q) \subseteq Families /\ got(q) \subseteq Families
                              /\ till(q) \in [Families -> Nat]
    <3>1. /\ query \in [Queries -> Asked]
          /\ \A q \in Queries : /\ told(q) \subseteq Families /\ got(q) \subseteq Families
                                /\ query[q].till \in [Families -> Nat]
      BY <2>3 DEF QueryTypes, Asked
    <3>2. new.expire \in Nat
      BY <2>3, <2>4
    <3>3. \A q \in Queries : till(q) \in [Families -> Nat]
      BY <3>1, <3>2, <2>3 DEF Later
    <3>. QED
      BY <3>1, <3>3, <2>1
  <2> HIDE DEF told, got, till
  <2>10. /\ query' \in [Queries -> Asked]
         /\ \A q \in Queries :
               /\ query'[q].pc = query[q].pc /\ query'[q].dom = query[q].dom
               /\ query'[q].opt = query[q].opt /\ query'[q].begun = query[q].begun
               /\ query'[q].id = query[q].id /\ query'[q].unsent = query[q].unsent
               /\ query'[q].copy = query[q].copy /\ query'[q].after = query[q].after
               /\ query'[q].told = told(q) /\ query'[q].got = got(q)
               /\ query'[q].till = till(q)
    <3>1. query' \in [Queries -> Asked]
      <4>1. ASSUME NEW q \in Queries
            PROVE  [query[q] EXCEPT !.told = told(q), !.till = till(q), !.got = got(q)] \in Asked
        <5>1. /\ query[q] \in Asked /\ told(q) \subseteq Families /\ got(q) \subseteq Families
              /\ till(q) \in [Families -> Nat]
          BY <2>9
        <5>. QED
          BY <5>1 DEF Asked
      <4>. QED
        BY <4>1, <2>1
    <3>2. ASSUME NEW q \in Queries
          PROVE  /\ query'[q].pc = query[q].pc /\ query'[q].dom = query[q].dom
                 /\ query'[q].opt = query[q].opt /\ query'[q].begun = query[q].begun
                 /\ query'[q].id = query[q].id /\ query'[q].unsent = query[q].unsent
                 /\ query'[q].copy = query[q].copy /\ query'[q].after = query[q].after
                 /\ query'[q].told = told(q) /\ query'[q].got = got(q)
                 /\ query'[q].till = till(q)
      <4>1. /\ query[q] \in Asked
            /\ query'[q] = [query[q] EXCEPT !.told = told(q), !.till = till(q), !.got = got(q)]
        BY <2>9
      <4>. QED
        BY <4>1 DEF Asked
    <3>. QED
      BY <3>1, <3>2
  <2>11. zero \subseteq zero' /\ zero' \subseteq zero \cup {d} /\ (d \notin zero' => msg.ttl > 0)
    <3>1. zero' = IF msg.ttl = 0 THEN zero \cup {d} ELSE zero
      BY <2>1
    <3>. QED
      BY <3>1, <2>3
  <2>12. \A q \in Queries : /\ told(q) \subseteq query[q].opt
                            /\ query[q].told \subseteq told(q)
                            /\ \A g \in told(q) : g \in query[q].told \/ (g = f /\ query[q].dom = d)
    BY <2>3 DEF told, Publish, QueryShape, QueryShaped
  <2>13. TableTypes' /\ QueryTypes' /\ OtherTypes'
    <3>1. TableTypes'
      BY <1>0, <2>3, <2>7 DEF TableTypes, Records
    <3>2. QueryTypes' /\ OtherTypes'
      BY <1>0, <2>1, <2>3, <2>10, <2>11 DEF QueryTypes, OtherTypes, Asked, Records
    <3>. QED
      BY <3>1, <3>2
  <2>14. /\ handler' \in [Handlers -> [pc : HandlerPcs, msg : Packets \cup {None}]]
         /\ handler'[h].pc = "start" /\ handler'[h].msg = None
         /\ \A g \in Handlers : g # h => handler'[g] = handler[g]
    BY <2>1, <2>2 DEF HandlerPcs
  <2>15. HandlerTypes' /\ HandlerShape'
    BY <1>0, <2>14 DEF HandlerTypes, HandlerShape, Packets
  <2>16. QueryShape'
    <3> SUFFICES ASSUME NEW q \in Queries PROVE QueryShaped(q)'
      BY DEF QueryShape
    <3>0. QueryShaped(q)
      BY DEF QueryShape
    <3>1. CASE query[q].pc = "idle"
      <4>1. query[q] = Idle /\ query[q].opt = {} /\ query[q].told = {} /\ query[q].got = {}
        BY <3>0, <3>1 DEF QueryShaped, Idle
      <4>2. told(q) = {} /\ got(q) = {} /\ till(q) = Idle.till
        BY <3>0, <4>1, <2>3, <2>12 DEF got, till, Publish, QueryShaped
      <4>3. query'[q] = query[q]
        <5>1. query'[q] = [Idle EXCEPT !.told = {}, !.till = Idle.till, !.got = {}]
          BY <4>1, <4>2, <2>9
        <5>. QED
          BY <4>1, <5>1 DEF Idle
      <4>. QED
        BY <3>0, <3>1, <4>1, <4>3, <1>0, <2>11 DEF QueryShaped
    <3>2. CASE query[q].pc # "idle"
      BY <3>0, <3>2, <1>0, <2>10, <2>11, <2>12 DEF QueryShaped
    <3>. QED
      BY <3>1, <3>2
  <2>17. Numbers' /\ CopiesFiled'
    BY <1>0, <2>10 DEF Numbers, Claim, CopiesFiled
  <2>18. Matching'
    BY <1>0, <2>14 DEF Matching
  <2>19. Filed'
    <3> SUFFICES ASSUME reqID < IdMod, NEW e \in DOMAIN ips', NEW g \in Families, ips'[e][g] # None
                 PROVE  ips'[e][g].of = <<e, g>>
      BY <1>0 DEF Filed
    <3>1. CASE updated /\ e = d /\ g = f
      <4>1. new.of = <<d, f>>
        BY <1>0, <2>3, <2>4 DEF Matching
      <4>. QED
        BY <3>1, <4>1, <2>3, <2>6, <2>7
    <3>2. CASE updated /\ e = d /\ g # f
      BY <3>2, <2>3, <2>6, <2>7 DEF Filed, Record, NoRecord
    <3>3. CASE ~updated \/ e # d
      BY <3>3, <2>7 DEF Filed
    <3>. QED
      BY <3>1, <3>2, <3>3
  <2>20. Told'
    <3> SUFFICES ASSUME reqID < IdMod, ~closed, NEW q \in Queries, NEW g \in got(q)
                 PROVE  g \in told(q)
      BY <1>0, <2>10 DEF Told
    <3>1. CASE g \in query[q].got
      BY <3>1, <2>12 DEF Told
    <3>2. CASE g \notin query[q].got
      <4>1. g = f /\ f \in query[q].opt /\ query[q].id[f] = msg.id
        BY <3>2 DEF got
      <4>2. <<q, f>> \in subs /\ query[q].dom \in Domains
        BY <4>1, <2>3, Constants DEF QueryShape, QueryShaped, Idle
      <4>3. <<query[q].dom, f>> \in Questions /\ Claim(msg.id, <<query[q].dom, f>>)
        BY <4>1, <4>2, <2>3 DEF Questions, Claim
      <4>4. msg.req = <<query[q].dom, f>>
        BY <4>3, <1>0, <2>3, OneQuestion DEF Matching
      <4>. QED
        BY <4>1, <4>2, <4>4, <2>3 DEF told, Publish
    <3>. QED
      BY <3>1, <3>2
  <2>21. Zero'
    <3> SUFFICES ASSUME NEW e \in DOMAIN ips', NEW g \in Families,
                        ips'[e][g] # None, ips'[e][g].ttl = 0
                 PROVE  e \in zero'
      BY DEF Zero
    <3>1. CASE updated /\ e = d /\ g = f
      BY <3>1, <2>1, <2>3, <2>4, <2>6, <2>7
    <3>2. CASE updated /\ e = d /\ g # f
      BY <3>2, <2>3, <2>6, <2>7, <2>11 DEF Zero, Record, NoRecord
    <3>3. CASE ~updated \/ e # d
      BY <3>3, <2>7, <2>11 DEF Zero
    <3>. QED
      BY <3>1, <3>2, <3>3
  <2>22. Fresh'
    <3> SUFFICES ASSUME ~closed, NEW q \in Queries, NEW g \in Families,
                        query[q].dom \notin zero', now < till(q)[g]
                 PROVE  /\ after(query[q].dom)[g] # None
                        /\ after(query[q].dom)[g].expire >= till(q)[g]
      BY <1>0, <2>10 DEF Fresh, Record
    <3>0. /\ query[q] \in Asked /\ query[q].till \in [Families -> Nat] /\ new.expire \in Nat
          /\ query[q].dom \notin zero
      BY <2>3, <2>4, <2>9, <2>11 DEF Asked
    <3>1. query[q].dom \in Domains
      <4>1. query[q].pc # "idle"
        <5> SUFFICES ASSUME query[q].pc = "idle" PROVE FALSE
          OBVIOUS
        <5>1. query[q] = Idle
          BY DEF QueryShape, QueryShaped
        <5>2. <<q, f>> \notin subs
          BY <5>1, <2>3 DEF QueryShape, QueryShaped, Idle
        <5>3. q \notin Publish(d, f)
          BY <5>2 DEF Publish
        <5>4. till(q)[g] = 0
          BY <5>1, <5>3 DEF till, Idle
        <5>. QED
          BY <5>4, <2>3
      <4>. QED
        BY <3>0, <4>1 DEF QueryShape, QueryShaped
    <3>2. now < query[q].till[g] => /\ Record(query[q].dom)[g] # None
                                    /\ Record(query[q].dom)[g].expire >= query[q].till[g]
      BY <3>0 DEF Fresh
    <3>3. CASE query[q].dom = d /\ g = f
      <4>1. /\ after(d)[f] # None /\ after(d)[f].expire >= new.expire
            /\ base # None => after(d)[f].expire >= base.expire /\ base.expire \in Nat
        BY <2>3, <2>6, <2>8 DEF Records
      <4>2. after(d)[f].expire \in Nat
        <5>1. after(d) \in [Families -> Records]
          <6>1. CASE updated
            BY <6>1, <2>6, <2>7 DEF Record
          <6>2. CASE ~updated
            BY <6>2, <2>6, <2>7 DEF Record
          <6>. QED
            BY <6>1, <6>2
        <5>. QED
          BY <5>1, <4>1, <2>3 DEF Records
      <4>3. till(q)[g] = new.expire \/ till(q)[g] = query[q].till[g]
        BY <3>0, <3>3, <2>3 DEF till, Later
      <4>4. now < query[q].till[g] => base # None /\ base.expire >= query[q].till[g]
        BY <3>2, <3>3
      <4> HIDE DEF base, after
      <4>. QED
        BY <3>0, <3>3, <4>1, <4>2, <4>3, <4>4, <2>3
    <3>4. CASE ~(query[q].dom = d /\ g = f)
      <4>1. till(q)[g] = query[q].till[g]
        <5>1. q \in Publish(d, f) => g # f
          BY <3>4 DEF Publish
        <5>2. g # f => Later(query[q].till, f, new.expire)[g] = query[q].till[g]
          BY DEF Later
        <5>. QED
          BY <5>1, <5>2 DEF till
      <4> HIDE DEF after
      <4>. QED
        BY <3>1, <3>2, <3>4, <4>1, <2>8
    <3>. QED
      BY <3>3, <3>4
  <2>23. Nil'
    BY <1>0, <1>2, <2>7 DEF Nil
  <2>24. Cleaning'
    <3>1. d \in DOMAIN ips'
      BY <2>7
    <3>2. ips' # Empty
      BY <3>1 DEF Empty
    <3>3. UNCHANGED panicked
      BY <2>1
    <3>. QED
      BY <3>2, <3>3, <1>0, <2>14 DEF Cleaning
  <2>25. RawTypes' /\ RawShape' /\ RawFiled'
    BY <1>0, Same
  <2>. QED
    BY <2>13, <2>15, <2>16, <2>17, <2>18, <2>19, <2>20, <2>21, <2>22, <2>23, <2>24, <2>25
<1>. QED
  BY <1>1, <1>2
-----------------------------------------------------------------------------
(* The clean-up. *)

\* Cleanup drops what has expired and nothing else.
LEMMA Cleaned ==
  ASSUME NameserverInv, Cleanup,
         UNCHANGED <<server, channel, subs, reqID, closed, query, raw, wire, now, zero>>
  PROVE  /\ TableTypes' /\ Filed' /\ Zero' /\ Fresh' /\ Nil'
         /\ \A i \in DOMAIN requests' : i \in DOMAIN requests /\ requests'[i] = requests[i]
<1> USE DEF NameserverInv, Types, Shape
<1>0. /\ ips' = [d \in {e \in DOMAIN ips : Kept(ips[e]) # NoRecord} |-> Kept(ips[d])]
      /\ requests' = [i \in {j \in DOMAIN requests : requests[j].expire > now} |-> requests[i]]
  BY DEF Cleanup, Restrict
<1>1. \A d \in DOMAIN ips : ips[d] \in [Families -> Records] /\ d \in Domains
  BY DEF TableTypes
<1>2. \A d \in DOMAIN ips, f \in Families :
          /\ Kept(ips[d])[f] = None \/ Kept(ips[d])[f] = ips[d][f]
          /\ ips[d][f] # None /\ ips[d][f].expire > now => Kept(ips[d])[f] = ips[d][f]
  <2> SUFFICES ASSUME NEW d \in DOMAIN ips, NEW f \in Families
               PROVE  /\ Kept(ips[d])[f] = None \/ Kept(ips[d])[f] = ips[d][f]
                      /\ ips[d][f] # None /\ ips[d][f].expire > now => Kept(ips[d])[f] = ips[d][f]
    OBVIOUS
  <2>1. ips[d][f] # None => ips[d][f].expire \in Nat
    BY <1>1 DEF Records
  <2>. QED
    BY <2>1 DEF Kept, OtherTypes
<1>3. \A d \in DOMAIN ips : Kept(ips[d]) \in [Families -> Records]
  BY <1>1 DEF Kept, Records
<1>4. /\ DOMAIN ips' \subseteq DOMAIN ips /\ ips' \in [DOMAIN ips' -> [Families -> Records]]
      /\ \A d \in DOMAIN ips' : ips'[d] = Kept(ips[d])
      /\ \A d \in DOMAIN ips \ DOMAIN ips' : Kept(ips[d]) = NoRecord
  BY <1>0, <1>3
<1>5. \A i \in DOMAIN requests' : i \in DOMAIN requests /\ requests'[i] = requests[i]
  BY <1>0
<1>6. TableTypes'
  <2>1. requests' \in [DOMAIN requests' -> Requests] /\ DOMAIN requests' \subseteq Ids
    BY <1>0, <1>5 DEF TableTypes
  <2>. QED
    BY <2>1, <1>4 DEF TableTypes, Records
<1>7. Filed' /\ Zero'
  BY <1>2, <1>4 DEF Filed, Zero
<1>8. Fresh'
  <2> SUFFICES ASSUME ~closed, NEW q \in Queries, NEW f \in Families,
                      query[q].dom \notin zero, now < query[q].till[f]
               PROVE  /\ Record(query[q].dom)'[f] # None
                      /\ Record(query[q].dom)'[f].expire >= query[q].till[f]
    <3>1. \A e : Record(e)' = IF e \in DOMAIN ips' THEN ips'[e] ELSE NoRecord
      BY DEF Record
    <3>. QED
      BY <3>1 DEF Fresh, Record
  <2> DEFINE d == query[q].dom
  <2>1. query[q].till[f] \in Nat /\ now \in Nat
    BY DEF QueryTypes, Asked, OtherTypes
  <2>2. Record(d)[f] # None /\ Record(d)[f].expire >= query[q].till[f]
    BY DEF Fresh
  <2>3. d \in DOMAIN ips /\ Record(d)[f] = ips[d][f]
    BY <2>1, <2>2 DEF Record, NoRecord
  <2>4. Kept(ips[d])[f] = ips[d][f]
    <3>1. ips[d][f].expire \in Nat
      BY <1>1, <2>2, <2>3 DEF Records
    <3>. QED
      BY <1>2, <2>1, <2>2, <2>3, <3>1
  <2>5. d \in DOMAIN ips'
    BY <1>4, <2>1, <2>2, <2>3, <2>4 DEF NoRecord
  <2>. QED
    BY <1>4, <2>2, <2>3, <2>4, <2>5 DEF Record
<1>9. Nil'
  BY <1>0 DEF Nil, Empty
<1>. QED
  BY <1>5, <1>6, <1>7, <1>8, <1>9

\* Start either finds the task running or, alone, becomes the one to run it.
LEMMA StartStep ==
  ASSUME NameserverInv, UNCHANGED server, NEW h \in Handlers, Start(h)
  PROVE  NameserverInv'
<1> USE DEF NameserverInv, Types, Shape, Start, HandlerDone, tables, cleaner, network
<1>1. /\ handler \in [Handlers -> [pc : HandlerPcs, msg : Packets \cup {None}]]
      /\ handler[h].msg = None
  BY DEF HandlerTypes, HandlerShape
<1>2. /\ handler' \in [Handlers -> [pc : HandlerPcs, msg : Packets \cup {None}]]
      /\ \A g \in Handlers : g # h => handler'[g] = handler[g]
      /\ handler'[h].msg = None /\ handler'[h].pc = IF running THEN "receive" ELSE "execute"
  BY <1>1 DEF HandlerPcs
<1>3. HandlerTypes' /\ HandlerShape' /\ OtherTypes'
  BY <1>1, <1>2 DEF HandlerTypes, HandlerShape, OtherTypes, Packets
<1>4. Matching'
  BY <1>2 DEF Matching
<1>5. Cleaning'
  BY <1>1, <1>2 DEF Cleaning, OtherTypes
<1>6. /\ TableTypes' /\ QueryTypes' /\ RawTypes' /\ QueryShape' /\ RawShape' /\ Numbers' /\ Filed'
      /\ CopiesFiled' /\ RawFiled' /\ Told' /\ Zero' /\ Fresh' /\ Nil'
  BY Same
<1>. QED
  BY <1>3, <1>4, <1>5, <1>6

\* Who runs the task finds something in the cache, so that Must does not panic.
LEMMA StartExecuteStep ==
  ASSUME NameserverInv, UNCHANGED server, NEW h \in Handlers, StartExecute(h)
  PROVE  NameserverInv'
<1> USE DEF NameserverInv, Types, Shape, StartExecute, HandlerDone, tables, cleaner, network
<1>1. CASE running /\ NothingToDo
  <2>1. closed /\ panicked' = TRUE /\ UNCHANGED <<ips, requests, handler, tick, starting>>
    BY <1>1 DEF Cleaning, NothingToDo, Panic
  <2>2. OtherTypes' /\ Cleaning'
    BY <2>1 DEF OtherTypes, Cleaning
  <2>3. /\ TableTypes' /\ QueryTypes' /\ RawTypes' /\ HandlerTypes' /\ Shape'
        /\ Numbers' /\ Matching' /\ Filed' /\ CopiesFiled' /\ RawFiled' /\ Told' /\ Zero'
        /\ Fresh' /\ Nil'
    BY <2>1, Same
  <2>. QED
    BY <2>2, <2>3
<1>2. CASE ~(running /\ NothingToDo)
  <2>1. /\ IF running THEN Cleanup /\ tick' = "set" /\ starting' = Starting \ {h}
                      ELSE starting' = starting \ {h} /\ UNCHANGED <<ips, requests, tick>>
        /\ handler' = [handler EXCEPT ![h].pc = "receive"] /\ UNCHANGED panicked
    BY <1>2
  <2>2. /\ handler \in [Handlers -> [pc : HandlerPcs, msg : Packets \cup {None}]]
        /\ handler[h].msg = None
    BY DEF HandlerTypes, HandlerShape
  <2>3. /\ handler' \in [Handlers -> [pc : HandlerPcs, msg : Packets \cup {None}]]
        /\ \A g \in Handlers : g # h => handler'[g] = handler[g]
        /\ handler'[h].msg = None /\ handler'[h].pc = "receive"
    BY <2>1, <2>2 DEF HandlerPcs
  <2>4. /\ TableTypes' /\ Filed' /\ Zero' /\ Fresh' /\ Nil'
        /\ \A i \in DOMAIN requests' : i \in DOMAIN requests /\ requests'[i] = requests[i]
    <3>1. CASE running
      BY <2>1, <3>1, Cleaned
    <3>2. CASE ~running
      BY <2>1, <3>2, Same
    <3>. QED
      BY <3>1, <3>2
  <2>5. HandlerTypes' /\ HandlerShape' /\ OtherTypes'
    BY <2>1, <2>2, <2>3 DEF HandlerTypes, HandlerShape, OtherTypes, Packets, Starting
  <2>6. Matching'
    BY <2>3, <2>4 DEF Matching
  <2>7. Cleaning'
    BY <2>1, <2>2, <2>3 DEF Cleaning, Starting
  <2>8. /\ QueryTypes' /\ RawTypes' /\ QueryShape' /\ RawShape' /\ Numbers' /\ CopiesFiled'
        /\ RawFiled' /\ Told'
    BY Same
  <2>. QED
    BY <2>4, <2>5, <2>6, <2>7, <2>8
<1>. QED
  BY <1>1, <1>2

\* The timer fires when nobody who saw it set is still on the way to Start.
LEMMA FireStep ==
  ASSUME NameserverInv, UNCHANGED server, Fire
  PROVE  NameserverInv'
<1> USE DEF NameserverInv, Types, Shape, Fire, tables, cleaner, network
<1>1. /\ TableTypes' /\ Filed' /\ Zero' /\ Fresh' /\ Nil'
      /\ \A i \in DOMAIN requests' : i \in DOMAIN requests /\ requests'[i] = requests[i]
  <2>1. CASE NothingToDo
    BY <2>1, Same
  <2>2. CASE ~NothingToDo
    BY <2>2, Cleaned
  <2>. QED
    BY <2>1, <2>2
<1>2. OtherTypes'
  BY DEF OtherTypes
<1>3. Matching'
  BY <1>1 DEF Matching
<1>4. Cleaning'
  BY DEF Cleaning, NothingToDo
<1>5. /\ QueryTypes' /\ RawTypes' /\ HandlerTypes' /\ Shape' /\ Numbers' /\ CopiesFiled'
      /\ RawFiled' /\ Told'
  BY Same
<1>. QED
  BY <1>1, <1>2, <1>3, <1>4, <1>5

\* A task that stops leaves nobody behind who relied on it.
LEMMA RearmStep ==
  ASSUME NameserverInv, UNCHANGED server, Rearm
  PROVE  NameserverInv'
<1> USE DEF NameserverInv, Types, Shape, Rearm, tables, cleaner, network
<1>1. OtherTypes'
  BY DEF OtherTypes, Starting
<1>2. Cleaning'
  BY DEF Cleaning, Starting
<1>3. /\ TableTypes' /\ QueryTypes' /\ RawTypes' /\ HandlerTypes' /\ Shape'
      /\ Numbers' /\ Matching' /\ Filed' /\ CopiesFiled' /\ RawFiled' /\ Told' /\ Zero'
      /\ Fresh' /\ Nil'
  BY Same
<1>. QED
  BY <1>1, <1>2, <1>3

\* Close empties the tables.
LEMMA CloseStep ==
  ASSUME NameserverInv, UNCHANGED server, Close
  PROVE  NameserverInv'
<1> USE DEF NameserverInv, Types, Shape, Close, tables, cleaner, network
<1>1. TableTypes' /\ OtherTypes' /\ Filed' /\ Zero' /\ Matching'
  BY DEF TableTypes, OtherTypes, Filed, Zero, Matching, Empty
<1>2. Told' /\ Fresh' /\ Nil' /\ Cleaning'
  BY DEF Told, Fresh, Nil, Cleaning
<1>3. /\ QueryTypes' /\ RawTypes' /\ HandlerTypes' /\ Shape' /\ Numbers' /\ CopiesFiled'
      /\ RawFiled'
  BY Same
<1>. QED
  BY <1>1, <1>2, <1>3

\* Time passes: what was fresh need not be any more.
LEMMA PassStep ==
  ASSUME NameserverInv, UNCHANGED server, Pass
  PROVE  NameserverInv'
<1> USE DEF NameserverInv, Types, Shape, Pass, tables, cleaner, network
<1>1. OtherTypes'
  BY DEF OtherTypes
<1>2. QueryShape'
  BY DEF QueryShape, QueryShaped, QueryTypes, Asked, OtherTypes
<1>3. Fresh'
  <2>1. \A q \in Queries, f \in Families : query[q].till[f] \in Nat
    BY DEF QueryTypes, Asked
  <2>. QED
    BY <2>1 DEF Fresh, Record, OtherTypes
<1>4. /\ TableTypes' /\ QueryTypes' /\ RawTypes' /\ HandlerTypes' /\ RawShape' /\ HandlerShape'
      /\ Numbers' /\ Matching' /\ Filed' /\ CopiesFiled' /\ RawFiled' /\ Told' /\ Zero'
      /\ Nil' /\ Cleaning'
  BY Same
<1>. QED
  BY <1>1, <1>2, <1>3, <1>4
-----------------------------------------------------------------------------
\* Every step of the nameserver, its clients and the network keeps the invariant.
LEMMA NameserverStep ==
  ASSUME NameserverInv, [Next]_<<server, vars>>
  PROVE  NameserverInv'
<1>1. CASE Next
  <2> SUFFICES ASSUME ~panicked, UNCHANGED server
               PROVE  NameserverInv'
    BY <1>1 DEF Next
  <2>1. ASSUME NEW q \in Queries, QueryStep(q)
        PROVE  NameserverInv'
    BY <2>1, LookStep, WriteBackStep, SubscribeStep, SendStep, TimeoutStep DEF QueryStep
  <2>2. ASSUME NEW q \in Queries, NEW d \in Domains, Begin(q, d)
        PROVE  NameserverInv'
    BY <2>2, BeginStep
  <2>3. ASSUME NEW r \in Raws, Register(r) \/ RawStep(r)
        PROVE  NameserverInv'
    BY <2>3, RegisterStep, DispatchStep, RawSelectStep, UnregisterStep, RawTcpStep DEF RawStep
  <2>4. ASSUME NEW h \in Handlers, HandlerStep(h)
        PROVE  NameserverInv'
    BY <2>4, TakeStep, RetryStep, UpdateStep, StartStep, StartExecuteStep DEF HandlerStep
  <2>5. ASSUME NEW h \in Handlers, NEW m \in wire, NEW kind \in server.kinds, NEW ttl \in Ttls,
               Deliver(h, m[1], m[2], kind, ttl)
        PROVE  NameserverInv'
    BY <2>5, DeliverStep
  <2>6. CASE Fire \/ Rearm \/ Close \/ Pass
    BY <2>6, FireStep, RearmStep, CloseStep, PassStep
  <2>. QED
    BY <1>1, <2>1, <2>2, <2>3, <2>4, <2>5, <2>6 DEF Next
<1>2. CASE UNCHANGED <<server, vars>>
  <2> USE <1>2 DEF vars, tables, cleaner, network, NameserverInv, Types, Shape
  <2>1. OtherTypes'
    BY DEF OtherTypes
  <2>. QED
    BY <2>1, Same
<1>. QED
  BY <1>1, <1>2

\* The inductive invariant of the nameserver.
THEOREM NameserverCorrect == Spec => []NameserverInv
<1>1. Init => NameserverInv
  BY NameserverInit
<1>2. NameserverInv /\ [Next]_<<server, vars>> => NameserverInv'
  BY NameserverStep
<1>. QED
  BY <1>1, <1>2, PTL DEF Spec

\* The tables of the nameserver keep their types and hold what their keys say: until the
\* request numbers come round, every answer in the cache and every answer that a raw query
\* gets is the answer to the question it is filed under (HandleResponse, updateIP).
THEOREM TablesWellFormed == Spec => []WellFormed
<1>1. NameserverInv => WellFormed
  <2> SUFFICES ASSUME NameserverInv PROVE WellFormed
    OBVIOUS
  <2> USE DEF NameserverInv, Types, Shape
  <2>1. TypeOK
    BY DEF TypeOK, TableTypes, OtherTypes, Requests, QueryShape, QueryShaped, HandlerShape, Nil
  <2>2. OwnAnswers
    BY DEF OwnAnswers, Filed, RawFiled
  <2>. QED
    BY <2>1, <2>2 DEF WellFormed
<1>. QED
  BY <1>1, NameserverCorrect, PTL

\* A query has been told of every answer to its requests that updateIP has handled, and a
\* raw query has the answer that came while its channel was registered.
THEOREM WakeupsKept == Spec => []NoLostWakeup
<1>1. NameserverInv => NoLostWakeup
  BY DEF NameserverInv, Shape, Told, RawShape, NoLostWakeup
<1>. QED
  BY <1>1, NameserverCorrect, PTL

\* Nothing panics before Close, whatever the order in which handlers store answers, start
\* the clean-up and its timer fires: the Must of updateIP is justified.
THEOREM NeverPanics == Spec => []NoPanic
<1>1. NameserverInv => NoPanic
  BY DEF NameserverInv, Cleaning, NoPanic
<1>. QED
  BY <1>1, NameserverCorrect, PTL

\* A query that has been told of all that it asked for finds it in the cache (findIPsForDomain
\* in the loop of QueryIPWithTTL) until one of these answers expires, whatever other answers,
\* queries and clean-ups come in between, unless the domain had an answer with TTL 0.
THEOREM WokenQueriesFind == Spec => []WokenFinds
<1>1. NameserverInv => WokenFinds
  <2> SUFFICES ASSUME NameserverInv, NEW q \in Queries,
                      query[q].pc \in {"look", "wait"}, ~closed,
                      query[q].opt \subseteq query[q].told,
                      query[q].dom \notin zero,
                      \A f \in query[q].opt : now < query[q].till[f]
               PROVE  Found(Record(query[q].dom), query[q].opt) # "none"
    BY DEF WokenFinds
  <2> USE DEF NameserverInv, Types, Shape
  <2> DEFINE rec == Record(query[q].dom)
             opt == query[q].opt
  <2>1. /\ opt \subseteq Families /\ opt # {} /\ rec \in [Families -> Records]
        /\ now \in Nat /\ query[q].till \in [Families -> Nat]
    BY RecordTypes DEF QueryTypes, QueryShape, QueryShaped, Asked, OtherTypes
  <2>2. \A f \in opt : rec[f] # None /\ rec[f].expire > now
    <3> SUFFICES ASSUME NEW f \in opt PROVE rec[f] # None /\ rec[f].expire > now
      OBVIOUS
    <3>1. f \in Families /\ now < query[q].till[f] /\ query[q].till[f] \in Nat
      BY <2>1
    <3>2. rec[f] # None /\ rec[f].expire >= query[q].till[f]
      BY <3>1 DEF Fresh
    <3>3. rec[f].expire \in Nat
      BY <2>1, <3>1, <3>2 DEF Records
    <3>. QED
      BY <2>1, <3>1, <3>2, <3>3
  <2>3. \A f \in opt : getIPs(rec[f]) = rec[f].kind /\ rec[f].kind \in Kinds
    <3> SUFFICES ASSUME NEW f \in opt
                 PROVE  getIPs(rec[f]) = rec[f].kind /\ rec[f].kind \in Kinds
      OBVIOUS
    <3>1. rec[f] \in [of : Questions, kind : server.kinds, ttl : Ttls, expire : Nat]
      BY <2>1, <2>2 DEF Records
    <3>2. server.kinds \subseteq Kinds /\ now \in Nat
      BY NameserverAssumption DEF OtherTypes
    <3>. QED
      BY <2>2, <3>1, <3>2 DEF getIPs
  <2> HIDE DEF rec, opt
  <2>4. \A f \in opt : getIPs(rec[f]) # "none"
    BY <2>3 DEF Kinds
  <2> DEFINE errs == {f \in opt : getIPs(rec[f]) \in {"none", "rcode"}}
  <2>5. errs # {} => Max(errs) \in errs
    <3>1. errs # {} => \E x \in errs : \A y \in errs : x >= y
      <4>1. errs \subseteq {4, 6}
        BY <2>1 DEF Families
      <4> HIDE DEF errs
      <4>2. errs # {} => errs = {4} \/ errs = {6} \/ errs = {4, 6}
        BY <4>1
      <4>. QED
        BY <4>2
    <3>. QED
      BY <3>1 DEF Max
  <2>. QED
    BY <2>4, <2>5 DEF Found, rec, opt
<1>. QED
  BY <1>1, NameserverCorrect, PTL
=============================================================================
