-------------------------- MODULE KcpTransferProofs --------------------------
(***************************************************************************)
(* Proofs about module KcpTransfer for any window sizes, any number of     *)
(* faults and any bound on the network, as long as the numbers have not    *)
(* wrapped around (NoWrap; see the README for what happens when they do).  *)
(***************************************************************************)
EXTENDS KcpTransfer, SequenceTheorems, FiniteSetTheorems, TLAPS

NoWrap == MaxPush <= Half

\* The receiving end has number n: handed to the reader or cached.
Got(n) == n < rcvNext \/ \E e \in cache : e.number = n

SenderInv ==
    /\ nextNumber = Len(sent)
    /\ Len(sent) <= MaxPush
    /\ \A i \in 1 .. Len(sent) : sent[i] = i - 1
    /\ firstUnacknowledged <= Len(sent)
    /\ \A s \in window : /\ s.number = s.payload
                         /\ s.payload < Len(sent)
                         /\ firstUnacknowledged <= s.number
    /\ \A n \in acking : Got(n)

ReceiverInv ==
    /\ Len(delivered) = rcvNext
    /\ rcvNext <= Len(sent)
    /\ \A i \in 1 .. rcvNext : delivered[i] = i - 1
    /\ \A e \in cache : /\ e.number = e.payload
                        /\ e.payload < Len(sent)
                        /\ rcvNext <= e.number
                        /\ e.number < rcvNext + RecvWindow
    /\ \A n \in acklist : Got(n)

NetInv ==
    \A m \in net :
        /\ m.type = "data" => /\ m.number = m.payload
                              /\ m.payload < Len(sent)
                              /\ m.SendingNext <= firstUnacknowledged
        /\ m.type = "ack" => /\ \A n \in m.NumberList : Got(n)
                             /\ m.ReceivingNext <= rcvNext
        /\ m.type = "pingR" => m.SendingNext <= firstUnacknowledged
        /\ m.type = "pingS" => m.ReceivingNext <= rcvNext

IInv == /\ TypeOK
        /\ SenderInv
        /\ ReceiverInv
        /\ NetInv
        /\ NothingForgotten
        /\ NoAckForgotten

\* What the assumptions on the constants give, in the form the steps below cite.
LEMMA Constants ==
  ASSUME NoWrap
  PROVE  /\ Half \in Nat /\ Mod \in Nat /\ MaxPush \in Nat /\ RecvWindow \in Nat
         /\ MaxPush <= Half /\ Mod = 2 * Half /\ 0 < Half
         /\ 0 < RecvWindow /\ RecvWindow < Half
         /\ RemoteNext0 \in uint32 /\ 0 \in uint32 /\ MaxFaults \in Nat
BY KcpAssumption DEF NoWrap, uint32

\* Two new workers and an empty network satisfy the invariant.
LEMMA InitInv ==
  ASSUME NoWrap
  PROVE  Init => IInv
<1> SUFFICES ASSUME Init PROVE IInv
  OBVIOUS
<1>1. TypeOK
  <2>1. <<>> \in Seq(Payload)
    OBVIOUS
  <2>2. /\ firstUnacknowledgedUpdated \in BOOLEAN /\ dirty \in BOOLEAN
        /\ window \subseteq Entry /\ acking \subseteq uint32 /\ cache \subseteq Entry
        /\ acklist \subseteq uint32 /\ net \subseteq Message
    BY DEF Init
  <2>3. faults \in 0 .. MaxFaults
    BY Constants DEF Init
  <2>. QED
    BY <2>1, <2>2, <2>3, Constants DEF Init, TypeOK
<1>2. Len(<<>>) = 0
  OBVIOUS
<1>3. SenderInv /\ ReceiverInv /\ NetInv
  BY <1>2, Constants DEF Init, SenderInv, ReceiverInv, NetInv
<1>4. NothingForgotten /\ NoAckForgotten
  BY <1>2 DEF Init, NothingForgotten, NoAckForgotten
<1>. QED
  BY <1>1, <1>3, <1>4 DEF IInv

\* Recomputing the first unacknowledged number of a smaller window moves it
\* forward and keeps it below the window.
LEMMA FirstMoves ==
  ASSUME TypeOK, SenderInv, window' \subseteq window, UNCHANGED <<sent, nextNumber>>,
         FindFirstUnacknowledged(window')
  PROVE  /\ firstUnacknowledged' \in uint32
         /\ firstUnacknowledgedUpdated' \in BOOLEAN
         /\ firstUnacknowledged <= firstUnacknowledged'
         /\ firstUnacknowledged' <= Len(sent')
         /\ \A s \in window' : firstUnacknowledged' <= s.number
<1>1. PICK f \in uint32 : /\ IsFirst(f, window')
                          /\ firstUnacknowledged' = f
                          /\ firstUnacknowledgedUpdated' =
                               (firstUnacknowledgedUpdated \/ f # firstUnacknowledged)
  BY DEF FindFirstUnacknowledged
<1>2. \A s \in window' : /\ s.number = s.payload /\ s.number \in Int
                         /\ s.number < Len(sent)
                         /\ firstUnacknowledged <= s.number
  BY DEF TypeOK, SenderInv, Entry, Payload
<1>3. Len(sent) \in Nat /\ firstUnacknowledged \in Int
  BY DEF TypeOK, uint32
<1>. QED
  BY <1>1, <1>2, <1>3 DEF IsFirst, SenderInv, TypeOK

\* The fields of each kind of segment.
LEMMA Fields ==
  ASSUME NEW m \in Message
  PROVE  /\ m.type \in {"data", "ack", "pingR", "pingS"}
         /\ m.type = "data" => /\ m.number \in uint32 /\ m.payload \in Payload
                               /\ m.SendingNext \in uint32
         /\ m.type = "ack" => /\ m.NumberList \subseteq uint32
                              /\ m.ReceivingNext \in uint32
                              /\ m.ReceivingWindow \in uint32
         /\ m.type = "pingR" => m.SendingNext \in uint32
         /\ m.type = "pingS" => m.ReceivingNext \in uint32
BY DEF Message, DataSegment, AckSegment, PingToReceiver, PingToSender

\* What a segment under way says stays true while both ends move on.
LEMMA NetFrame ==
  ASSUME NoWrap, TypeOK, NetInv, net' \subseteq net,
         Len(sent) \in Nat, Len(sent') \in Nat, Len(sent) <= Len(sent'),
         firstUnacknowledged' \in uint32, firstUnacknowledged <= firstUnacknowledged',
         rcvNext' \in uint32, rcvNext <= rcvNext',
         \A n \in uint32 : Got(n) => Got(n)'
  PROVE  NetInv'
<1> SUFFICES ASSUME NEW m \in net'
             PROVE  /\ m.type = "data" => /\ m.number = m.payload
                                          /\ m.payload < Len(sent')
                                          /\ m.SendingNext <= firstUnacknowledged'
                    /\ m.type = "ack" => /\ \A n \in m.NumberList : Got(n)'
                                         /\ m.ReceivingNext <= rcvNext'
                    /\ m.type = "pingR" => m.SendingNext <= firstUnacknowledged'
                    /\ m.type = "pingS" => m.ReceivingNext <= rcvNext'
  BY DEF NetInv
<1>1. m \in net /\ m \in Message
  BY DEF TypeOK
<1>2. firstUnacknowledged \in Int /\ firstUnacknowledged' \in Int
      /\ rcvNext \in Int /\ rcvNext' \in Int
  BY Constants DEF TypeOK, uint32
<1>3. CASE m.type = "data"
  <2>1. m.number = m.payload /\ m.payload < Len(sent) /\ m.SendingNext <= firstUnacknowledged
    BY <1>1, <1>3 DEF NetInv
  <2>2. m.payload \in Int /\ m.SendingNext \in Int
    BY <1>1, <1>3, Fields, Constants DEF uint32, Payload
  <2>. QED
    BY <1>2, <1>3, <2>1, <2>2
<1>4. CASE m.type = "ack"
  <2>1. (\A n \in m.NumberList : Got(n)) /\ m.ReceivingNext <= rcvNext
    BY <1>1, <1>4 DEF NetInv
  <2>2. m.NumberList \subseteq uint32 /\ m.ReceivingNext \in Int
    BY <1>1, <1>4, Fields, Constants DEF uint32
  <2>3. \A n \in m.NumberList : Got(n)'
    <3> TAKE n \in m.NumberList
    <3>1. n \in uint32 /\ Got(n)
      BY <2>1, <2>2
    <3>2. Got(n) => Got(n)'
      BY <3>1
    <3>. QED
      BY <3>1, <3>2
  <2>. QED
    BY <1>2, <1>4, <2>1, <2>2, <2>3
<1>5. CASE m.type = "pingR"
  <2>1. m.SendingNext <= firstUnacknowledged /\ m.SendingNext \in Int
    BY <1>1, <1>5, Fields, Constants DEF NetInv, uint32
  <2>. QED
    BY <1>2, <1>5, <2>1
<1>6. CASE m.type = "pingS"
  <2>1. m.ReceivingNext <= rcvNext /\ m.ReceivingNext \in Int
    BY <1>1, <1>6, Fields, Constants DEF NetInv, uint32
  <2>. QED
    BY <1>2, <1>6, <2>1
<1>. QED
  BY <1>1, <1>3, <1>4, <1>5, <1>6, Fields

\* A step of the sending end that only drops segments the other end has.
LEMMA SenderDrops ==
  ASSUME NoWrap, IInv,
         window' \subseteq window,
         \A s \in window \ window' : Got(s.number),
         \/ FindFirstUnacknowledged(window')
         \/ UNCHANGED <<firstUnacknowledged, firstUnacknowledgedUpdated>>,
         acking' \subseteq uint32, \A n \in acking' : Got(n),
         remoteNextNumber' \in uint32,
         faults' \in 0 .. MaxFaults, net' \subseteq net,
         UNCHANGED <<nextNumber, cache, acklist, dirty, rcvNext, sent, delivered>>
  PROVE  IInv'
<1> USE DEF IInv
<1>1. \A n : Got(n)' <=> Got(n)
  BY DEF Got
<1>2. /\ firstUnacknowledged' \in uint32
      /\ firstUnacknowledgedUpdated' \in BOOLEAN
      /\ firstUnacknowledged <= firstUnacknowledged'
      /\ firstUnacknowledged' <= Len(sent')
      /\ \A s \in window' : firstUnacknowledged' <= s.number
  <2>1. CASE FindFirstUnacknowledged(window')
    BY <2>1, FirstMoves
  <2>2. CASE UNCHANGED <<firstUnacknowledged, firstUnacknowledgedUpdated>>
    <3>1. firstUnacknowledged \in Int
      BY Constants DEF TypeOK, uint32
    <3>. QED
      BY <2>2, <3>1 DEF TypeOK, SenderInv
  <2>. QED
    BY <2>1, <2>2
<1>3. TypeOK'
  BY <1>2 DEF TypeOK
<1>4. SenderInv'
  BY <1>1, <1>2 DEF SenderInv
<1>5. ReceiverInv'
  BY <1>1 DEF ReceiverInv
<1>6. NetInv'
  <2>1. Len(sent) \in Nat /\ rcvNext \in Int /\ rcvNext \in uint32
    BY Constants DEF TypeOK, uint32
  <2>. QED
    BY <1>1, <1>2, <2>1, NetFrame
<1>7. NothingForgotten'
  <2> SUFFICES ASSUME NEW q \in 0 .. Len(sent) - 1
               PROVE  \/ \E s \in window' : s.payload = q
                      \/ \E e \in cache : e.payload = q
                      \/ q < Len(delivered)
    BY DEF NothingForgotten
  <2>1. CASE \E s \in window : s.payload = q
    <3>1. PICK s \in window : s.payload = q
      BY <2>1
    <3>2. CASE s \in window'
      BY <3>1, <3>2
    <3>3. CASE s \notin window'
      <4>1. Got(q)
        BY <3>1, <3>3 DEF SenderInv
      <4>. QED
        BY <4>1 DEF Got, ReceiverInv
    <3>. QED
      BY <3>2, <3>3
  <2>. QED
    BY <2>1 DEF NothingForgotten
<1>8. NoAckForgotten'
  BY DEF NoAckForgotten
<1>. QED
  BY <1>3, <1>4, <1>5, <1>6, <1>7, <1>8

\* A step that only puts true segments on the network.
LEMMA Sends ==
  ASSUME NoWrap, IInv, NEW new, new \subseteq Message,
         net' = net \cup new,
         \A m \in new :
            /\ m.type = "data" => /\ m.number = m.payload
                                  /\ m.payload < Len(sent)
                                  /\ m.SendingNext <= firstUnacknowledged
            /\ m.type = "ack" => /\ \A n \in m.NumberList : Got(n)
                                 /\ m.ReceivingNext <= rcvNext
            /\ m.type = "pingR" => m.SendingNext <= firstUnacknowledged
            /\ m.type = "pingS" => m.ReceivingNext <= rcvNext,
         firstUnacknowledgedUpdated' \in BOOLEAN, dirty' \in BOOLEAN,
         UNCHANGED <<window, nextNumber, firstUnacknowledged, remoteNextNumber, acking,
                     cache, acklist, rcvNext, faults, sent, delivered>>
  PROVE  IInv'
<1> USE DEF IInv
<1>1. \A n : Got(n)' <=> Got(n)
  BY DEF Got
<1>2. TypeOK'
  BY DEF TypeOK
<1>3. SenderInv' /\ ReceiverInv'
  BY <1>1 DEF SenderInv, ReceiverInv
<1>4. NetInv'
  BY DEF NetInv, Got
<1>5. NothingForgotten' /\ NoAckForgotten'
  BY DEF NothingForgotten, NoAckForgotten
<1>. QED
  BY <1>2, <1>3, <1>4, <1>5

\* The same for a single segment.
LEMMA SendsOne ==
  ASSUME NoWrap, IInv, NEW x \in Message,
         net' = net \cup {x},
         x.type = "data" => /\ x.number = x.payload
                            /\ x.payload < Len(sent)
                            /\ x.SendingNext <= firstUnacknowledged,
         x.type = "ack" => /\ \A n \in x.NumberList : Got(n)
                           /\ x.ReceivingNext <= rcvNext,
         x.type = "pingR" => x.SendingNext <= firstUnacknowledged,
         x.type = "pingS" => x.ReceivingNext <= rcvNext,
         firstUnacknowledgedUpdated' \in BOOLEAN, dirty' \in BOOLEAN,
         UNCHANGED <<window, nextNumber, firstUnacknowledged, remoteNextNumber, acking,
                     cache, acklist, rcvNext, faults, sent, delivered>>
  PROVE  IInv'
<1> DEFINE new == {x}
<1>1. new \subseteq Message /\ net' = net \cup new
  OBVIOUS
<1>2. \A m \in new : m = x
  OBVIOUS
<1> HIDE DEF new
<1>. QED
  BY <1>1, <1>2, Sends

\* A buffer that Push numbers is in the window, and no segment claims it yet.
LEMMA PushStep ==
  ASSUME NoWrap, IInv, Push
  PROVE  IInv'
<1> USE DEF IInv
<1> DEFINE x == [number |-> nextNumber, payload |-> Len(sent)]
<1>1. /\ Len(sent) \in Nat /\ Len(sent) < MaxPush /\ nextNumber = Len(sent)
      /\ MaxPush \in Nat /\ MaxPush <= Half /\ Half \in Nat /\ Mod = 2 * Half /\ 0 < Half
  BY Constants DEF Push, TypeOK, SenderInv
<1>2. /\ nextNumber' = Len(sent) + 1 /\ nextNumber' \in uint32
      /\ Len(sent) \in Payload /\ x \in Entry
  BY <1>1 DEF Push, Add, uint32, Payload, Entry
<1>3. /\ sent' = Append(sent, Len(sent)) /\ sent' \in Seq(Payload)
      /\ Len(sent') = Len(sent) + 1
      /\ \A i \in 1 .. Len(sent') : sent'[i] = i - 1
  <2>1. sent \in Seq(Payload) /\ \A i \in 1 .. Len(sent) : sent[i] = i - 1
    BY DEF TypeOK, SenderInv
  <2>2. sent' = Append(sent, Len(sent))
    BY DEF Push
  <2>3. /\ sent' \in Seq(Payload) /\ Len(sent') = Len(sent) + 1
        /\ \A i \in 1 .. Len(sent) : sent'[i] = sent[i]
        /\ sent'[Len(sent) + 1] = Len(sent)
    BY <1>2, <2>1, <2>2, AppendProperties
  <2>. QED
    BY <1>1, <2>1, <2>2, <2>3
<1>4. /\ window' = window \cup {x}
      /\ UNCHANGED <<firstUnacknowledged, firstUnacknowledgedUpdated, remoteNextNumber,
                     acking, cache, acklist, dirty, rcvNext, net, faults, delivered>>
  BY DEF Push, receiver
<1>5. \A n : Got(n)' <=> Got(n)
  BY <1>4 DEF Got
<1>6. TypeOK'
  BY <1>2, <1>3, <1>4 DEF TypeOK
<1>7. SenderInv'
  <2>1. firstUnacknowledged \in Int /\ firstUnacknowledged <= Len(sent)
    BY Constants DEF TypeOK, SenderInv, uint32
  <2>2. \A s \in window : s.payload \in Int
    BY Constants DEF TypeOK, Entry, Payload
  <2>3. x.number = x.payload /\ x.payload = Len(sent)
    BY <1>1
  <2>. QED
    BY <1>1, <1>2, <1>3, <1>4, <1>5, <2>1, <2>2, <2>3 DEF SenderInv
<1>8. ReceiverInv'
  <2>1. \A e \in cache : e.payload \in Int
    BY Constants DEF TypeOK, Entry, Payload
  <2>2. rcvNext \in Int
    BY Constants DEF TypeOK, uint32
  <2>. QED
    BY <1>1, <1>3, <1>4, <1>5, <2>1, <2>2 DEF ReceiverInv
<1>9. NetInv'
  <2>1. /\ firstUnacknowledged \in Int /\ rcvNext \in Int
        /\ firstUnacknowledged \in uint32 /\ rcvNext \in uint32
    BY Constants DEF TypeOK, uint32
  <2>. QED
    BY <1>1, <1>3, <1>4, <1>5, <2>1, NetFrame
<1>10. NothingForgotten'
  <2>1. \A q \in 0 .. Len(sent') - 1 : q \in 0 .. Len(sent) - 1 \/ q = Len(sent)
    BY <1>1, <1>3
  <2>2. x \in window' /\ x.payload = Len(sent)
    BY <1>4
  <2>. QED
    BY <1>4, <2>1, <2>2 DEF NothingForgotten
<1>11. NoAckForgotten'
  <2>1. ~(\E e \in cache : e = x) /\ ~(x.payload < Len(delivered))
    BY <1>1, Constants DEF ReceiverInv, TypeOK, uint32
  <2>. QED
    BY <1>4, <2>1 DEF NoAckForgotten
<1>. QED
  BY <1>6, <1>7, <1>8, <1>9, <1>10, <1>11

\* Every way the sending end puts segments on the network.
LEMMA SendingSteps ==
  ASSUME NoWrap, IInv,
         \/ \E due \in SUBSET window : FlushSending(due)
         \/ PingReceiver
  PROVE  IInv'
<1> USE DEF IInv
<1>0. firstUnacknowledged \in uint32 /\ firstUnacknowledged \in Int
  BY Constants DEF TypeOK, uint32
<1> DEFINE ping == [type |-> "pingR", SendingNext |-> firstUnacknowledged]
<1>1. ping \in Message /\ ping.type = "pingR" /\ ping.SendingNext <= firstUnacknowledged
  BY <1>0 DEF Message, PingToReceiver
<1>a. PingReceiver => net' = net \cup {ping}
  BY DEF PingReceiver, Write
<1>2. CASE PingReceiver
  <2>1. /\ firstUnacknowledgedUpdated' \in BOOLEAN /\ dirty' \in BOOLEAN
        /\ UNCHANGED <<window, nextNumber, firstUnacknowledged, remoteNextNumber, acking,
                       cache, acklist, rcvNext, faults, sent, delivered>>
    BY <1>2 DEF PingReceiver, sender, receiver, TypeOK
  <2> HIDE DEF ping
  <2>. QED
    BY <1>1, <1>2, <1>a, <2>1, SendsOne
<1>3. ASSUME NEW due \in SUBSET window, FlushSending(due)
      PROVE  IInv'
  <2>0. UNCHANGED <<window, nextNumber, firstUnacknowledged, remoteNextNumber, acking,
                    cache, acklist, rcvNext, faults, sent, delivered, dirty>>
        /\ firstUnacknowledgedUpdated' \in BOOLEAN /\ dirty' \in BOOLEAN
    BY <1>3 DEF FlushSending, receiver, TypeOK
  <2> DEFINE data(s) == [type |-> "data", number |-> s.number, payload |-> s.payload,
                         SendingNext |-> firstUnacknowledged]
  <2>1. CASE net' = net \cup {ping}
    <3> HIDE DEF ping
    <3>. QED
      BY <1>1, <2>0, <2>1, SendsOne
  <2>2. CASE net' = net \cup {data(s) : s \in Flushed(due)}
    <3>1. \A s \in Flushed(due) :
             /\ data(s) \in Message /\ data(s).type = "data"
             /\ data(s).number = data(s).payload
             /\ data(s).payload < Len(sent)
             /\ data(s).SendingNext <= firstUnacknowledged
      <4> TAKE s \in Flushed(due)
      <4>1. s \in window /\ s \in Entry
        BY DEF Flushed, TypeOK
      <4>2. s.number = s.payload /\ s.payload < Len(sent)
        BY <4>1 DEF SenderInv
      <4>3. data(s) \in DataSegment
        BY <1>0, <4>1 DEF DataSegment, Entry
      <4>. QED
        BY <1>0, <4>2, <4>3 DEF Message
    <3> DEFINE new == {data(s) : s \in Flushed(due)}
    <3>2. /\ new \subseteq Message
          /\ \A m \in new : /\ m.type = "data" /\ m.number = m.payload
                             /\ m.payload < Len(sent)
                             /\ m.SendingNext <= firstUnacknowledged
      BY <3>1
    <3>3. net' = net \cup new
      BY <2>2
    <3> HIDE DEF new
    <3>. QED
      BY <2>0, <3>2, <3>3, Sends
  <2>. QED
    BY <1>3, <2>1, <2>2 DEF FlushSending, Write
<1>. QED
  BY <1>2, <1>3

\* Every way the receiving end puts segments on the network.
LEMMA AckingSteps ==
  ASSUME NoWrap, IInv,
         \/ \E numbers \in SUBSET acklist : FlushAcks(numbers)
         \/ PingSender
  PROVE  IInv'
<1> USE DEF IInv
<1>0. rcvNext \in uint32 /\ rcvNext \in Int
  BY Constants DEF TypeOK, uint32
<1>1. CASE PingSender
  <2> DEFINE ping == [type |-> "pingS", ReceivingNext |-> rcvNext]
  <2>1. ping \in Message /\ ping.type = "pingS" /\ ping.ReceivingNext <= rcvNext
    BY <1>0 DEF Message, PingToSender
  <2>2. net' = net \cup {ping}
    BY <1>1 DEF PingSender, Write
  <2>3. /\ firstUnacknowledgedUpdated' \in BOOLEAN /\ dirty' \in BOOLEAN
        /\ UNCHANGED <<window, nextNumber, firstUnacknowledged, remoteNextNumber, acking,
                       cache, acklist, rcvNext, faults, sent, delivered>>
    BY <1>1 DEF PingSender, sender, receiver, TypeOK
  <2> HIDE DEF ping
  <2>. QED
    BY <2>1, <2>2, <2>3, SendsOne
<1>2. ASSUME NEW numbers \in SUBSET acklist, FlushAcks(numbers)
      PROVE  IInv'
  <2> DEFINE ack == [type |-> "ack", NumberList |-> numbers, ReceivingNext |-> rcvNext,
                     ReceivingWindow |-> Add(rcvNext, RecvWindow)]
  <2>1. Add(rcvNext, RecvWindow) \in uint32
    BY <1>0, Constants DEF Add, uint32
  <2>2. ack \in Message /\ ack.type = "ack" /\ ack.ReceivingNext <= rcvNext
        /\ \A n \in ack.NumberList : Got(n)
    <3>1. numbers \in SUBSET uint32 /\ \A n \in numbers : Got(n)
      BY DEF TypeOK, ReceiverInv
    <3>. QED
      BY <1>0, <2>1, <3>1 DEF Message, AckSegment
  <2>3. net' = net \cup {ack}
    BY <1>2 DEF FlushAcks, Write
  <2>4. /\ firstUnacknowledgedUpdated' \in BOOLEAN /\ dirty' \in BOOLEAN
        /\ UNCHANGED <<window, nextNumber, firstUnacknowledged, remoteNextNumber, acking,
                       cache, acklist, rcvNext, faults, sent, delivered>>
    BY <1>2 DEF FlushAcks, sender, TypeOK
  <2> HIDE DEF ack
  <2>. QED
    BY <2>2, <2>3, <2>4, SendsOne
<1>. QED
  BY <1>1, <1>2

\* Clear with the next number the receiver expects, at any earlier time, drops
\* only what the receiver has handed out.
LEMMA ClearSound ==
  ASSUME NoWrap, IInv, NEW una \in uint32, una <= rcvNext
  PROVE  /\ Clear(window, una) \subseteq window
         /\ \A s \in window \ Clear(window, una) : Got(s.number)
<1>1. Clear(window, una) \subseteq window
  BY DEF Clear
<1>2. ASSUME NEW s \in window \ Clear(window, una)
      PROVE  Got(s.number)
  <2>0. s \in window /\ s \in Entry /\ rcvNext \in uint32
    BY DEF IInv, TypeOK
  <2>1. s.number \in Int /\ s.payload \in Int /\ una \in Int /\ rcvNext \in Int
    BY <2>0, Constants DEF Entry, uint32, Payload
  <2>2. ~(s.number >= una)
    <3>1. s.payload <= s.payload /\ s \in window /\ s \notin Clear(window, una)
      BY <2>1
    <3>. QED
      BY <3>1, Zenon DEF Clear
  <2>. QED
    BY <2>1, <2>2 DEF Got
<1>. QED
  BY <1>1, <1>2

\* An acknowledged number that leaves the window is one the receiving end has.
LEMMA processAckStep ==
  ASSUME NoWrap, IInv, NEW number \in acking, processAck(number)
  PROVE  IInv'
<1>1. window' \subseteq window /\ \A s \in window \ window' : s.number = number
  BY DEF processAck, Remove
<1>2. Got(number)
  BY DEF IInv, SenderInv
<1>3. /\ acking' \subseteq uint32 /\ \A n \in acking' : Got(n)
      /\ remoteNextNumber' \in uint32
  BY DEF processAck, IInv, TypeOK, SenderInv
<1>4. faults' \in 0 .. MaxFaults /\ net' \subseteq net
      /\ UNCHANGED <<nextNumber, cache, acklist, dirty, rcvNext, sent, delivered>>
  BY DEF processAck, receiver, IInv, TypeOK
<1>5. \/ FindFirstUnacknowledged(window')
      \/ UNCHANGED <<firstUnacknowledged, firstUnacknowledgedUpdated>>
  BY DEF processAck
<1>. QED
  BY <1>1, <1>2, <1>3, <1>4, <1>5, SenderDrops

\* An ack segment, however old, drops only what the receiving end has handed out.
LEMMA ProcessAckSegmentStep ==
  ASSUME NoWrap, IInv, NEW m \in net, m.type = "ack", ProcessAckSegment(m),
         net' \subseteq net, faults' \in 0 .. MaxFaults
  PROVE  IInv'
<1>1. /\ m.NumberList \subseteq uint32 /\ m.ReceivingNext \in uint32
      /\ m.ReceivingWindow \in uint32
  BY Fields DEF IInv, TypeOK
<1>2. (\A n \in m.NumberList : Got(n)) /\ m.ReceivingNext <= rcvNext
  BY DEF IInv, NetInv
<1>3. window' \subseteq window /\ \A s \in window \ window' : Got(s.number)
  BY <1>1, <1>2, ClearSound DEF ProcessAckSegment
<1>4. /\ acking' \subseteq uint32 /\ \A n \in acking' : Got(n)
      /\ remoteNextNumber' \in uint32
  BY <1>1, <1>2 DEF ProcessAckSegment, IInv, TypeOK
<1>5. /\ FindFirstUnacknowledged(window')
      /\ UNCHANGED <<nextNumber, cache, acklist, dirty, rcvNext, sent, delivered>>
  BY DEF ProcessAckSegment, receiver
<1>. QED
  BY <1>3, <1>4, <1>5, SenderDrops

\* So does the ReceivingNext of a ping.
LEMMA ProcessReceivingNextStep ==
  ASSUME NoWrap, IInv, NEW m \in net, m.type = "pingS", ProcessReceivingNext(m),
         net' \subseteq net, faults' \in 0 .. MaxFaults
  PROVE  IInv'
<1>1. m.ReceivingNext \in uint32 /\ m.ReceivingNext <= rcvNext
  BY Fields DEF IInv, TypeOK, NetInv
<1>2. window' \subseteq window /\ \A s \in window \ window' : Got(s.number)
  BY <1>1, ClearSound DEF ProcessReceivingNext
<1>3. /\ acking' \subseteq uint32 /\ \A n \in acking' : Got(n)
      /\ remoteNextNumber' \in uint32
  BY DEF ProcessReceivingNext, IInv, TypeOK
<1>4. /\ FindFirstUnacknowledged(window')
      /\ UNCHANGED <<nextNumber, cache, acklist, dirty, rcvNext, sent, delivered>>
  BY DEF ProcessReceivingNext, receiver
<1>. QED
  BY <1>2, <1>3, <1>4, SenderDrops

\* A step of the receiving end that adds at most segments in its window to the
\* cache and drops only acks below the sender's first unacknowledged number.
LEMMA ReceiverAccepts ==
  ASSUME NoWrap, IInv, NEW una \in uint32, una <= firstUnacknowledged,
         NEW new, new \subseteq Entry,
         \A e \in new : /\ e.number = e.payload /\ e.payload < Len(sent)
                        /\ rcvNext <= e.number /\ e.number < rcvNext + RecvWindow
                        /\ e.number \in acklist',
         cache' = cache \cup new,
         acklist' \subseteq uint32,
         \A n \in acklist : n >= una => n \in acklist',
         \A n \in acklist' : n \in acklist \/ Got(n) \/ \E e \in new : e.number = n,
         dirty' \in BOOLEAN, net' \subseteq net, faults' \in 0 .. MaxFaults,
         UNCHANGED <<window, nextNumber, firstUnacknowledged, firstUnacknowledgedUpdated,
                     remoteNextNumber, acking, rcvNext, sent, delivered>>
  PROVE  IInv'
<1> USE DEF IInv
<1>1. \A n : Got(n) => Got(n)'
  BY DEF Got
<1>2. TypeOK'
  BY DEF TypeOK
<1>3. SenderInv'
  BY <1>1 DEF SenderInv
<1>4. ReceiverInv'
  <2>1. \A n \in acklist' : Got(n)'
    <3> TAKE n \in acklist'
    <3>1. CASE Got(n)
      BY <1>1, <3>1
    <3>2. CASE \E e \in new : e.number = n
      BY <3>2 DEF Got
    <3>. QED
      BY <3>1, <3>2 DEF ReceiverInv
  <2>. QED
    BY <2>1 DEF ReceiverInv
<1>5. NetInv'
  <2>1. /\ Len(sent) \in Nat /\ rcvNext \in Int /\ rcvNext \in uint32
        /\ firstUnacknowledged \in Int /\ firstUnacknowledged \in uint32
    BY Constants DEF TypeOK, uint32
  <2>. QED
    BY <1>1, <2>1, NetFrame
<1>6. NothingForgotten'
  BY DEF NothingForgotten
<1>7. NoAckForgotten'
  <2> SUFFICES ASSUME NEW s \in window,
                      (\E e \in cache' : e = s) \/ s.payload < Len(delivered)
               PROVE  s.number \in acklist'
    BY DEF NoAckForgotten
  <2>1. CASE s \in new
    BY <2>1
  <2>2. CASE s \notin new
    <3>1. s.number \in acklist
      BY <2>2 DEF NoAckForgotten
    <3>2. firstUnacknowledged <= s.number
      BY DEF SenderInv
    <3>3. s.number \in Int /\ una \in Int /\ firstUnacknowledged \in Int
      BY Constants DEF TypeOK, Entry, uint32
    <3>. QED
      BY <3>1, <3>2, <3>3
  <2>. QED
    BY <2>1, <2>2
<1>. QED
  BY <1>2, <1>3, <1>4, <1>5, <1>6, <1>7

\* A data segment, early, late or repeated, leaves the receiving end consistent.
LEMMA ProcessSegmentStep ==
  ASSUME NoWrap, IInv, NEW m \in net, m.type = "data", ProcessSegment(m),
         net' \subseteq net, faults' \in 0 .. MaxFaults
  PROVE  IInv'
<1>1. /\ m.number \in uint32 /\ m.payload \in Payload /\ m.SendingNext \in uint32
      /\ m.number = m.payload /\ m.payload < Len(sent)
      /\ m.SendingNext <= firstUnacknowledged
  BY Fields DEF IInv, TypeOK, NetInv
<1>2. /\ m.number \in Int /\ rcvNext \in Int /\ 0 <= m.number /\ 0 <= rcvNext
      /\ Len(sent) \in Nat /\ rcvNext <= Len(sent) /\ Len(sent) <= MaxPush
  BY <1>1, Constants DEF IInv, TypeOK, uint32, ReceiverInv, SenderInv
<1>3. UNCHANGED <<window, nextNumber, firstUnacknowledged, firstUnacknowledgedUpdated,
                  remoteNextNumber, acking, rcvNext, sent, delivered>>
  BY DEF ProcessSegment, sender
<1>4. CASE Sub(m.number, rcvNext) >= RecvWindow
  <2>1. UNCHANGED <<acklist, dirty, cache>>
    BY <1>4 DEF ProcessSegment
  <2>2. acklist' \subseteq uint32 /\ dirty' \in BOOLEAN
    BY <2>1 DEF IInv, TypeOK
  <2> DEFINE new == {}
  <2>3. cache' = cache \cup new /\ new \subseteq Entry /\ \A e \in new : FALSE
    BY <2>1
  <2> HIDE DEF new
  <2>. QED
    BY <1>1, <1>3, <2>1, <2>2, <2>3, ReceiverAccepts
<1>5. CASE ~(Sub(m.number, rcvNext) >= RecvWindow)
  <2>1. rcvNext <= m.number /\ m.number < rcvNext + RecvWindow
    BY <1>2, <1>5, Constants DEF Sub
  <2>2. /\ acklist' = ClearAcks(m.SendingNext) \cup {m.number}
        /\ dirty' = TRUE
        /\ cache' = IF \E e \in cache : e.number = m.number THEN cache
                    ELSE cache \cup {[number |-> m.number, payload |-> m.payload]}
    BY <1>5 DEF ProcessSegment
  <2>3. /\ acklist' \subseteq uint32 /\ dirty' \in BOOLEAN /\ m.number \in acklist'
        /\ \A n \in acklist : n >= m.SendingNext => n \in acklist'
        /\ \A n \in acklist' : n \in acklist \/ n = m.number
    BY <1>1, <2>2 DEF ClearAcks, IInv, TypeOK
  <2> DEFINE x == [number |-> m.number, payload |-> m.payload]
             new == IF \E e \in cache : e.number = m.number THEN {} ELSE {x}
  <2>4. x \in Entry /\ x.number = m.number /\ x.payload = m.payload
    BY <1>1 DEF Entry
  <2>5. /\ cache' = cache \cup new
        /\ \A e \in new : e = x
        /\ Got(m.number) \/ \E e \in new : e = x
    BY <2>2 DEF Got
  <2>6. new \subseteq Entry
    BY <2>4, <2>5
  <2> HIDE DEF new, x
  <2>7. \A e \in new : /\ e.number = e.payload /\ e.payload < Len(sent)
                       /\ rcvNext <= e.number /\ e.number < rcvNext + RecvWindow
                       /\ e.number \in acklist'
    BY <1>1, <2>1, <2>3, <2>4, <2>5
  <2>8. \A n \in acklist' : n \in acklist \/ Got(n) \/ \E e \in new : e.number = n
    BY <2>3, <2>4, <2>5
  <2>. QED
    BY <1>1, <1>3, <2>3, <2>5, <2>6, <2>7, <2>8, ReceiverAccepts
<1>. QED
  BY <1>4, <1>5

\* The SendingNext of a ping clears only acks that the sending end has no use for.
LEMMA ProcessSendingNextStep ==
  ASSUME NoWrap, IInv, NEW m \in net, m.type = "pingR", ProcessSendingNext(m),
         net' \subseteq net, faults' \in 0 .. MaxFaults
  PROVE  IInv'
<1>1. m.SendingNext \in uint32 /\ m.SendingNext <= firstUnacknowledged
  BY Fields DEF IInv, TypeOK, NetInv
<1>2. /\ acklist' \subseteq uint32 /\ dirty' \in BOOLEAN
      /\ \A n \in acklist : n >= m.SendingNext => n \in acklist'
      /\ \A n \in acklist' : n \in acklist
  BY DEF ProcessSendingNext, ClearAcks, IInv, TypeOK
<1>3. UNCHANGED <<window, nextNumber, firstUnacknowledged, firstUnacknowledgedUpdated,
                  remoteNextNumber, acking, rcvNext, sent, delivered>>
  BY DEF ProcessSendingNext, sender
<1> DEFINE new == {}
<1>4. cache' = cache \cup new /\ new \subseteq Entry /\ \A e \in new : FALSE
  BY DEF ProcessSendingNext
<1> HIDE DEF new
<1>. QED
  BY <1>1, <1>2, <1>3, <1>4, ReceiverAccepts

\* The reader takes the segments at the front of the window, in order.
LEMMA ReadStep ==
  ASSUME NoWrap, IInv, NEW n \in 1 .. RecvWindow, ReadMultiBuffer(n)
  PROVE  /\ IInv'
         /\ delivered' = SubSeq(sent, 1, rcvNext + n)
         /\ rcvNext + n <= Len(sent)
<1> USE DEF IInv
<1> DEFINE has(k) == \E e \in cache : e.number = Add(rcvNext, k)
           seg(k) == CHOOSE e \in cache : e.number = Add(rcvNext, k)
           run == [k \in 1 .. n |-> seg(k - 1).payload]
<1>1. /\ \A k \in 0 .. n - 1 : has(k)
      /\ delivered' = delivered \o run
      /\ cache' = cache \ {seg(k) : k \in 0 .. n - 1}
      /\ rcvNext' = Add(rcvNext, n)
      /\ UNCHANGED <<window, nextNumber, firstUnacknowledged, firstUnacknowledgedUpdated,
                     remoteNextNumber, acking, acklist, dirty, net, faults, sent>>
  BY DEF ReadMultiBuffer, sender
<1>2. /\ rcvNext \in Nat /\ n \in Nat /\ 0 < n /\ n <= RecvWindow
      /\ Len(sent) \in Nat /\ rcvNext <= Len(sent) /\ Len(sent) <= MaxPush
      /\ Half \in Nat /\ RecvWindow \in Nat /\ MaxPush <= Half /\ RecvWindow < Half
      /\ Mod = 2 * Half /\ MaxPush \in Nat
  BY Constants DEF TypeOK, uint32, ReceiverInv, SenderInv
<1>3. \A k \in 0 .. n : Add(rcvNext, k) = rcvNext + k
  BY <1>2 DEF Add
<1>4. \A k \in 0 .. n - 1 : /\ seg(k) \in cache /\ seg(k).number = rcvNext + k
                            /\ seg(k).payload = rcvNext + k
                            /\ rcvNext + k < Len(sent)
  <2> TAKE k \in 0 .. n - 1
  <2>1. \E e \in cache : e.number = Add(rcvNext, k)
    BY <1>1
  <2>2. seg(k) \in cache /\ seg(k).number = Add(rcvNext, k)
    BY <2>1, Zenon
  <2>3. Add(rcvNext, k) = rcvNext + k
    BY <1>2, <1>3
  <2> HIDE DEF seg
  <2>4. seg(k).number = seg(k).payload /\ seg(k).payload < Len(sent)
    BY <2>2 DEF ReceiverInv
  <2>. QED
    BY <2>2, <2>3, <2>4
<1> HIDE DEF seg
<1>5. rcvNext' = rcvNext + n /\ rcvNext + n <= Len(sent) /\ rcvNext' \in uint32
  <2>1. rcvNext' = rcvNext + n
    BY <1>1, <1>2, <1>3
  <2>2. rcvNext + (n - 1) < Len(sent)
    BY <1>2, <1>4
  <2>. QED
    BY <1>2, <2>1, <2>2 DEF uint32
<1>6. \A e \in cache : (\E k \in 0 .. n - 1 : e = seg(k)) <=> e.number < rcvNext + n
  <2> TAKE e \in cache
  <2>1. e.number \in Int /\ e.number = e.payload /\ rcvNext <= e.number /\ e \in Entry
    BY Constants DEF TypeOK, Entry, uint32, ReceiverInv
  <2>2. ASSUME NEW k \in 0 .. n - 1, e = seg(k)
        PROVE  e.number < rcvNext + n
    BY <1>2, <1>4, <2>2
  <2>3. ASSUME e.number < rcvNext + n
        PROVE  \E k \in 0 .. n - 1 : e = seg(k)
    <3> DEFINE k == e.number - rcvNext
    <3>1. k \in 0 .. n - 1 /\ rcvNext + k = e.number
      BY <1>2, <2>1, <2>3
    <3>2. seg(k).number = e.number /\ seg(k).payload = e.payload /\ seg(k) \in Entry
      BY <1>4, <2>1, <3>1 DEF TypeOK
    <3>3. e = seg(k)
      BY <2>1, <3>2 DEF Entry
    <3>. QED
      BY <3>1, <3>3
  <2>. QED
    BY <2>2, <2>3
<1>7. /\ cache' \subseteq cache
      /\ \A e \in cache : e \in cache' <=> rcvNext + n <= e.number
  <2>1. \A e \in cache : e \in cache' <=> ~(\E k \in 0 .. n - 1 : e = seg(k))
    BY <1>1
  <2>2. \A e \in cache : e.number \in Int
    BY Constants DEF TypeOK, Entry, uint32
  <2>. QED
    BY <1>1, <1>2, <1>6, <2>1, <2>2
<1>8. /\ delivered' \in Seq(Payload) /\ Len(delivered') = rcvNext + n
      /\ \A i \in 1 .. rcvNext + n : delivered'[i] = i - 1
  <2>1. \A k \in 1 .. n : seg(k - 1).payload = rcvNext + k - 1 /\ rcvNext + k - 1 \in Payload
    <3> TAKE k \in 1 .. n
    <3>1. k - 1 \in 0 .. n - 1
      BY <1>2
    <3>2. seg(k - 1).payload = rcvNext + (k - 1) /\ rcvNext + (k - 1) < Len(sent)
      BY <1>4, <3>1
    <3>. QED
      BY <1>2, <3>2 DEF Payload
  <2>2. run \in Seq(Payload) /\ Len(run) = n
        /\ \A k \in 1 .. n : run[k] = rcvNext + k - 1
    BY <1>2, <2>1, IsASeq
  <2>3. delivered \in Seq(Payload) /\ Len(delivered) = rcvNext
        /\ \A i \in 1 .. rcvNext : delivered[i] = i - 1
    BY DEF TypeOK, ReceiverInv
  <2> HIDE DEF run
  <2>4. /\ delivered \o run \in Seq(Payload) /\ Len(delivered \o run) = rcvNext + n
        /\ \A i \in 1 .. rcvNext + n :
              (delivered \o run)[i] = IF i <= rcvNext THEN delivered[i] ELSE run[i - rcvNext]
    BY <2>2, <2>3, ConcatProperties
  <2>5. \A i \in 1 .. rcvNext + n : (delivered \o run)[i] = i - 1
    <3> TAKE i \in 1 .. rcvNext + n
    <3>1. CASE i <= rcvNext
      BY <1>2, <2>3, <2>4, <3>1
    <3>2. CASE ~(i <= rcvNext)
      <4>1. i - rcvNext \in 1 .. n
        BY <1>2, <3>2
      <4>2. run[i - rcvNext] = rcvNext + (i - rcvNext) - 1
        BY <2>2, <4>1
      <4>. QED
        BY <1>2, <2>4, <3>2, <4>2
    <3>. QED
      BY <3>1, <3>2
  <2>. QED
    BY <1>1, <2>4, <2>5
<1>9. delivered' = SubSeq(sent, 1, rcvNext + n)
  <2> DEFINE sub == SubSeq(sent, 1, rcvNext + n)
  <2>1. sent \in Seq(Payload) /\ \A i \in 1 .. Len(sent) : sent[i] = i - 1
    BY DEF TypeOK, SenderInv
  <2>2. sub \in Seq(Payload) /\ Len(sub) = rcvNext + n
        /\ \A i \in 1 .. rcvNext + n : sub[i] = sent[i]
    BY <1>2, <1>5, <2>1
  <2> HIDE DEF sub
  <2>3. \A i \in 1 .. Len(sub) : delivered'[i] = sub[i]
    <3> TAKE i \in 1 .. Len(sub)
    <3>1. i \in 1 .. rcvNext + n /\ i \in 1 .. Len(sent)
      BY <1>2, <1>5, <2>2
    <3>. QED
      BY <1>8, <2>1, <2>2, <3>1
  <2>4. delivered' = sub
    BY <1>8, <2>2, <2>3, SeqEqual
  <2>. QED
    BY <2>4 DEF sub
<1> HIDE DEF run
<1>10. \A x : Got(x) /\ x \in Int => Got(x)'
  BY <1>2, <1>5, <1>7 DEF Got
<1>11. TypeOK'
  BY <1>1, <1>5, <1>7, <1>8 DEF TypeOK
<1>12. SenderInv'
  <2>1. \A x \in acking : Got(x)'
    BY <1>10, Constants DEF SenderInv, TypeOK, uint32
  <2>. QED
    BY <1>1, <2>1 DEF SenderInv
<1>13. ReceiverInv'
  <2>1. \A x \in acklist : Got(x)'
    BY <1>10, Constants DEF ReceiverInv, TypeOK, uint32
  <2>2. \A e \in cache' : /\ e.number = e.payload /\ e.payload < Len(sent)
                          /\ rcvNext' <= e.number /\ e.number < rcvNext' + RecvWindow
    <3> TAKE e \in cache'
    <3>1. /\ e \in cache /\ e.number = e.payload /\ e.payload < Len(sent)
          /\ e.number < rcvNext + RecvWindow /\ e.number \in Int
          /\ rcvNext + n <= e.number
      BY <1>7, Constants DEF ReceiverInv, TypeOK, Entry, uint32
    <3>. QED
      BY <1>2, <1>5, <3>1
  <2>. QED
    BY <1>1, <1>5, <1>8, <2>1, <2>2 DEF ReceiverInv
<1>14. NetInv'
  <2>1. \A x \in uint32 : Got(x) => Got(x)'
    BY <1>10, Constants DEF uint32
  <2>2. /\ firstUnacknowledged \in uint32 /\ firstUnacknowledged \in Int
        /\ rcvNext <= rcvNext'
    BY <1>2, <1>5, Constants DEF TypeOK, uint32
  <2>. QED
    BY <1>1, <1>2, <1>5, <2>1, <2>2, NetFrame
<1>15. NothingForgotten'
  <2> SUFFICES ASSUME NEW q \in 0 .. Len(sent) - 1
               PROVE  \/ \E s \in window : s.payload = q
                      \/ \E e \in cache' : e.payload = q
                      \/ q < Len(delivered')
    BY <1>1 DEF NothingForgotten
  <2>1. CASE \E e \in cache : e.payload = q
    <3>1. PICK e \in cache : e.payload = q
      BY <2>1
    <3>2. e.number = q
      BY <3>1 DEF ReceiverInv
    <3>. QED
      BY <1>2, <1>7, <1>8, <3>1, <3>2
  <2>2. CASE q < Len(delivered)
    BY <1>2, <1>8, <2>2 DEF ReceiverInv
  <2>. QED
    BY <2>1, <2>2 DEF NothingForgotten
<1>16. NoAckForgotten'
  <2> SUFFICES ASSUME NEW s \in window,
                      (\E e \in cache' : e = s) \/ s.payload < Len(delivered')
               PROVE  s.number \in acklist
    BY <1>1 DEF NoAckForgotten
  <2>1. CASE s \in cache'
    BY <1>7, <2>1 DEF NoAckForgotten
  <2>2. CASE s.payload < Len(delivered')
    <3>1. s.number = s.payload /\ s.number \in Int /\ s \in Entry /\ 0 <= s.number
      BY Constants DEF SenderInv, TypeOK, Entry, uint32
    <3>2. CASE s.payload < rcvNext
      BY <3>2 DEF NoAckForgotten, ReceiverInv
    <3>3. CASE ~(s.payload < rcvNext)
      <4> DEFINE k == s.number - rcvNext
      <4>1. k \in 0 .. n - 1 /\ rcvNext + k = s.number
        BY <1>2, <1>8, <2>2, <3>1, <3>3
      <4>2. seg(k) \in cache /\ seg(k).number = s.number /\ seg(k).payload = s.payload
        BY <1>4, <3>1, <4>1
      <4>3. seg(k) = s
        BY <3>1, <4>2 DEF Entry, TypeOK
      <4>. QED
        BY <4>2, <4>3 DEF NoAckForgotten
    <3>. QED
      BY <3>2, <3>3
  <2>. QED
    BY <2>1, <2>2
<1>. QED
  BY <1>5, <1>9, <1>11, <1>12, <1>13, <1>14, <1>15, <1>16

\* Every step of both ends and of the network preserves the invariant.
LEMMA NextStep ==
  ASSUME NoWrap, IInv, [Next]_vars
  PROVE  IInv'
<1>1. CASE Push
  BY <1>1, PushStep
<1>2. CASE (\E due \in SUBSET window : FlushSending(due)) \/ PingReceiver
  BY <1>2, SendingSteps
<1>3. CASE (\E numbers \in SUBSET acklist : FlushAcks(numbers)) \/ PingSender
  BY <1>3, AckingSteps
<1>4. CASE \E number \in acking : processAck(number)
  BY <1>4, processAckStep
<1>5. CASE \E n \in 1 .. RecvWindow : ReadMultiBuffer(n)
  BY <1>5, ReadStep
<1>6. ASSUME NEW m \in net, Receive(m) \/ Duplicate(m)
      PROVE  IInv'
  <2>1. net' \subseteq net /\ faults' \in 0 .. MaxFaults /\ Input(m)
    <3>1. faults \in 0 .. MaxFaults /\ MaxFaults \in Nat
      BY Constants DEF IInv, TypeOK
    <3>. QED
      BY <1>6, <3>1 DEF Receive, Duplicate
  <2>. QED
    BY <2>1, ProcessSegmentStep, ProcessAckSegmentStep, ProcessSendingNextStep,
       ProcessReceivingNextStep DEF Input
<1>7. ASSUME NEW m \in net, Lose(m)
      PROVE  IInv'
  <2>1. net' \subseteq net /\ faults' \in 0 .. MaxFaults
    <3>1. faults \in 0 .. MaxFaults /\ MaxFaults \in Nat
      BY Constants DEF IInv, TypeOK
    <3>. QED
      BY <1>7, <3>1 DEF Lose
  <2>2. UNCHANGED <<window, nextNumber, firstUnacknowledged, firstUnacknowledgedUpdated,
                    remoteNextNumber, acking, cache, acklist, dirty, rcvNext, sent,
                    delivered>>
    BY <1>7 DEF Lose, sender, receiver
  <2>3. /\ window' \subseteq window /\ \A s \in window \ window' : FALSE
        /\ acking' \subseteq uint32 /\ (\A n \in acking' : Got(n))
        /\ remoteNextNumber' \in uint32
    BY <2>2 DEF IInv, TypeOK, SenderInv
  <2>. QED
    BY <2>1, <2>2, <2>3, SenderDrops
<1>8. CASE UNCHANGED vars
  <2>1. UNCHANGED <<window, nextNumber, firstUnacknowledged, firstUnacknowledgedUpdated,
                    remoteNextNumber, acking, cache, acklist, dirty, rcvNext, sent,
                    delivered, net, faults>>
    BY <1>8 DEF vars, sender, receiver
  <2>2. /\ window' \subseteq window /\ \A s \in window \ window' : FALSE
        /\ acking' \subseteq uint32 /\ (\A n \in acking' : Got(n))
        /\ remoteNextNumber' \in uint32
        /\ net' \subseteq net /\ faults' \in 0 .. MaxFaults
    BY <2>1 DEF IInv, TypeOK, SenderInv
  <2>. QED
    BY <2>1, <2>2, SenderDrops
<1>. QED
  BY <1>1, <1>2, <1>3, <1>4, <1>5, <1>6, <1>7, <1>8 DEF Next

\* The inductive invariant holds in every reachable state.
THEOREM Invariance ==
  ASSUME NoWrap
  PROVE  Spec => []IInv
<1>1. Init => IInv
  BY InitInv
<1>2. IInv /\ [Next]_vars => IInv'
  BY NextStep
<1>. QED
  BY <1>1, <1>2, PTL DEF Spec

\* Both ends' fields keep their types.
THEOREM TypeCorrect ==
  ASSUME NoWrap
  PROVE  Spec => []TypeOK
<1>1. IInv => TypeOK
  BY DEF IInv
<1>. QED
  BY Invariance, <1>1, PTL

\* Before the numbers wrap, no buffer accepted by the sending end is dropped by
\* it before the receiving end has it.
THEOREM SenderNeverForgets ==
  ASSUME NoWrap
  PROVE  Spec => []NothingForgotten
<1>1. IInv => NothingForgotten
  BY DEF IInv
<1>. QED
  BY Invariance, <1>1, PTL

\* Before the numbers wrap, the receiving end keeps acknowledging every number
\* it has that the sending end still retransmits.
THEOREM ReceiverNeverForgets ==
  ASSUME NoWrap
  PROVE  Spec => []NoAckForgotten
<1>1. IInv => NoAckForgotten
  BY DEF IInv
<1>. QED
  BY Invariance, <1>1, PTL

\* The sending window's part of BoundedWindows.
WindowInv == IsFiniteSet(window) /\ Cardinality(window) <= SendWindow + 1

\* A part of a window that fits into its bound fits too.
LEMMA WindowShrinks ==
  ASSUME WindowInv, window' \subseteq window
  PROVE  WindowInv'
<1>1. /\ IsFiniteSet(window') /\ Cardinality(window') <= Cardinality(window)
      /\ Cardinality(window) \in Nat /\ Cardinality(window') \in Nat
  BY FS_Subset, FS_CardinalityType DEF WindowInv
<1>2. SendWindow \in Nat
  BY KcpAssumption
<1>. QED
  BY <1>1, <1>2 DEF WindowInv

\* Only Push adds to the window, and only when it holds at most SendWindow segments.
LEMMA WindowStep ==
  ASSUME WindowInv, [Next]_vars
  PROVE  WindowInv'
<1>1. CASE Push
  <2> DEFINE x == [number |-> nextNumber, payload |-> Len(sent)]
  <2>1. window' = window \cup {x} /\ Cardinality(window) <= SendWindow
    BY <1>1 DEF Push
  <2> HIDE DEF x
  <2>2. /\ IsFiniteSet(window')
        /\ Cardinality(window') = Cardinality(window) \/ Cardinality(window') = Cardinality(window) + 1
        /\ Cardinality(window) \in Nat /\ Cardinality(window') \in Nat
    BY <2>1, FS_AddElement, FS_CardinalityType DEF WindowInv
  <2>3. SendWindow \in Nat
    BY KcpAssumption
  <2>. QED
    BY <2>1, <2>2, <2>3 DEF WindowInv
<1>2. CASE ~Push
  <2>1. window' \subseteq window
    <3>1. ASSUME NEW m \in net, Input(m)
          PROVE  window' \subseteq window
      BY <3>1 DEF Input, ProcessSegment, ProcessAckSegment, ProcessSendingNext,
                  ProcessReceivingNext, Clear, sender
    <3>2. ASSUME NEW number \in acking, processAck(number)
          PROVE  window' \subseteq window
      BY <3>2 DEF processAck, Remove
    <3>. QED
      BY <1>2, <3>1, <3>2 DEF Next, FlushSending, PingReceiver, ReadMultiBuffer, FlushAcks,
         PingSender, Receive, Duplicate, Lose, vars, sender
  <2>. QED
    BY <2>1, WindowShrinks
<1>. QED
  BY <1>1, <1>2

\* Whatever the network repeats or delays, neither end's cache outgrows its window.
THEOREM WindowsAreBounded ==
  ASSUME NoWrap
  PROVE  Spec => []BoundedWindows
<1>1. Init => WindowInv
  <2>1. IsFiniteSet({}) /\ Cardinality({}) = 0
    BY FS_EmptySet
  <2>. QED
    BY <2>1, KcpAssumption DEF Init, WindowInv
<1>2. WindowInv /\ [Next]_vars => WindowInv'
  BY WindowStep
<1>3. IInv /\ WindowInv => BoundedWindows
  <2>1. ASSUME IInv, NEW e \in cache
        PROVE  Sub(e.number, rcvNext) < RecvWindow
    <3>1. rcvNext <= e.number /\ e.number < rcvNext + RecvWindow
      BY <2>1 DEF IInv, ReceiverInv
    <3>2. rcvNext \in Nat /\ e.number \in Nat /\ RecvWindow \in Nat
      BY <2>1, Constants DEF IInv, TypeOK, uint32, Entry
    <3>. QED
      BY <3>1, <3>2 DEF Sub
  <2>. QED
    BY <2>1 DEF WindowInv, BoundedWindows
<1>. QED
  BY Invariance, <1>1, <1>2, <1>3, PTL DEF Spec

\* Over a network that loses, duplicates and reorders, one direction of a
\* connection is a reliable ordered stream.
THEOREM KcpIsStream ==
  ASSUME NoWrap
  PROVE  Spec => ImplementsStream
<1> USE DEF S!vars
<1>1. Init => S!Init
  BY DEF Init, S!Init
<1>2. ASSUME IInv, [Next]_vars
      PROVE  [S!Next]_(S!vars)
  <2>1. CASE Push
    <3>1. Len(sent) \in Payload
      BY <1>2, <2>1, Constants DEF Push, Payload, IInv, TypeOK
    <3>. QED
      BY <2>1, <3>1 DEF Push, S!Next, S!Send
  <2>2. ASSUME NEW n \in 1 .. RecvWindow, ReadMultiBuffer(n)
        PROVE  [S!Next]_(S!vars)
    <3>1. delivered' = SubSeq(sent, 1, rcvNext + n) /\ rcvNext + n <= Len(sent)
      BY <1>2, <2>2, ReadStep
    <3>2. Len(delivered) = rcvNext /\ rcvNext \in Nat /\ Len(sent) \in Nat /\ n \in Nat
      BY <1>2, Constants DEF IInv, ReceiverInv, TypeOK, uint32
    <3>3. rcvNext + n \in Len(delivered) + 1 .. Len(sent)
      BY <3>1, <3>2
    <3>4. UNCHANGED sent
      BY <2>2 DEF ReadMultiBuffer
    <3>. QED
      BY <3>1, <3>3, <3>4 DEF S!Next, S!Receive
  <2>3. CASE UNCHANGED <<sent, delivered>>
    BY <2>3
  <2>4. ASSUME NEW m \in net, Receive(m) \/ Duplicate(m) \/ Lose(m)
        PROVE  UNCHANGED <<sent, delivered>>
    BY <2>4 DEF Receive, Duplicate, Lose, Input, ProcessSegment, ProcessAckSegment,
                ProcessSendingNext, ProcessReceivingNext
  <2>. QED
    BY <1>2, <2>1, <2>2, <2>3, <2>4
    DEF Next, FlushSending, PingReceiver, processAck, FlushAcks, PingSender, vars
<1>. QED
  BY <1>1, <1>2, Invariance, PTL DEF Spec, ImplementsStream, S!Spec
=============================================================================
