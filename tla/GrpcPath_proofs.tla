--------------------------- MODULE GrpcPath_proofs ---------------------------
(***************************************************************************)
(* Central collection through gRPC, for channels of any capacity, any      *)
(* number of records and any number of failures.                           *)
(***************************************************************************)
EXTENDS GrpcPath, SequenceTheorems, FiniteSetTheorems, TLAPS

-----------------------------------------------------------------------------
(* What is sent in order, without repetitions.                             *)
Increasing(q) == \A i, j \in DOMAIN q : i < j => q[i] < q[j]

(* Taking from and adding to a channel or a stream.                        *)
LEMMA QueueFacts ==
    ASSUME NEW S, NEW q \in Seq(S)
    PROVE  /\ Len(q) \in Nat /\ DOMAIN q = 1..Len(q)
           /\ \A i \in 1..Len(q) : q[i] \in S
           /\ q # <<>> => /\ Head(q) \in S /\ Head(q) = q[1] /\ Len(q) >= 1
                          /\ Tail(q) \in Seq(S) /\ Len(Tail(q)) = Len(q) - 1
                          /\ \A i \in 1..(Len(q) - 1) : Tail(q)[i] = q[i + 1]
           /\ \A x \in S : /\ Append(q, x) \in Seq(S)
                           /\ Len(Append(q, x)) = Len(q) + 1
                           /\ \A i \in 1..Len(q) : Append(q, x)[i] = q[i]
                           /\ Append(q, x)[Len(q) + 1] = x
BY HeadTailProperties, AppendProperties, LenProperties

(* The first of an increasing queue is the smallest, and is in it once.    *)
LEMMA TailContents ==
    ASSUME NEW q \in Seq(Records), q # <<>>, Increasing(q)
    PROVE  /\ Tail(q) \in Seq(Records) /\ Increasing(Tail(q))
           /\ Head(q) \in Contents(q)
           /\ Contents(Tail(q)) = Contents(q) \ {Head(q)}
           /\ \A x \in Contents(Tail(q)) : Head(q) < x
<1>1. Records \subseteq Int
  BY BoundAssumption DEF Records
<1>2. /\ DOMAIN q = 1..Len(q) /\ Len(q) \in Nat /\ Len(q) >= 1 /\ Head(q) = q[1]
      /\ \A i \in 1..Len(q) : q[i] \in Int
      /\ Tail(q) \in Seq(Records) /\ DOMAIN Tail(q) = 1..(Len(q) - 1)
      /\ \A i \in 1..(Len(q) - 1) : Tail(q)[i] = q[i + 1]
  <2>1. Tail(q) \in Seq(Records) /\ Len(Tail(q)) = Len(q) - 1
    BY QueueFacts
  <2> QED BY <1>1, <2>1, QueueFacts
<1>3. \A i, j \in 1..Len(q) : i < j => q[i] < q[j]
  BY <1>2 DEF Increasing
<1>4. ASSUME NEW i \in 1..(Len(q) - 1)
      PROVE  i + 1 \in 1..Len(q) /\ 1 < i + 1 /\ Tail(q)[i] = q[i + 1] /\ q[1] < q[i + 1]
  <2>1. i + 1 \in 1..Len(q) /\ 1 \in 1..Len(q) /\ 1 < i + 1
    BY <1>2
  <2> QED BY <1>2, <1>3, <2>1
<1>5. Increasing(Tail(q))
  <2> SUFFICES ASSUME NEW i \in 1..(Len(q) - 1), NEW j \in 1..(Len(q) - 1), i < j
               PROVE  q[i + 1] < q[j + 1]
    BY <1>2 DEF Increasing
  <2>1. i + 1 < j + 1
    BY <1>2
  <2> QED BY <1>3, <1>4, <2>1
<1>6. Head(q) \in Contents(q)
  BY <1>2 DEF Contents
<1>7. \A x \in Contents(Tail(q)) : Head(q) < x /\ x \in Contents(q) \ {Head(q)}
  <2> SUFFICES ASSUME NEW i \in 1..(Len(q) - 1)
               PROVE  q[1] < q[i + 1] /\ q[i + 1] \in Contents(q) /\ q[i + 1] # q[1]
    BY <1>2 DEF Contents
  <2>1. q[1] \in Int /\ q[i + 1] \in Int
    BY <1>2, <1>4
  <2> QED BY <1>2, <1>4, <2>1 DEF Contents
<1>8. Contents(q) \ {Head(q)} \subseteq Contents(Tail(q))
  <2> SUFFICES ASSUME NEW i \in 2..Len(q) PROVE q[i] \in Contents(Tail(q))
    BY <1>2 DEF Contents
  <2>1. i - 1 \in 1..(Len(q) - 1) /\ Tail(q)[i - 1] = q[i]
    BY <1>2
  <2> QED BY <1>2, <2>1 DEF Contents
<1> QED BY <1>2, <1>5, <1>6, <1>7, <1>8

(* A queue stays increasing when something greater is added to it.         *)
LEMMA AppendContents ==
    ASSUME NEW q \in Seq(Records), NEW x \in Records
    PROVE  /\ Append(q, x) \in Seq(Records)
           /\ Contents(Append(q, x)) = Contents(q) \cup {x}
           /\ Increasing(q) /\ (\A y \in Contents(q) : y < x) => Increasing(Append(q, x))
<1>1. /\ DOMAIN q = 1..Len(q) /\ Len(q) \in Nat
      /\ Append(q, x) \in Seq(Records) /\ DOMAIN Append(q, x) = 1..(Len(q) + 1)
      /\ \A i \in 1..Len(q) : Append(q, x)[i] = q[i]
      /\ Append(q, x)[Len(q) + 1] = x
  <2>1. Append(q, x) \in Seq(Records) /\ Len(Append(q, x)) = Len(q) + 1
    BY QueueFacts
  <2> QED BY <2>1, QueueFacts
<1>2. Contents(Append(q, x)) = Contents(q) \cup {x}
  BY <1>1 DEF Contents
<1>3. ASSUME Increasing(q), \A y \in Contents(q) : y < x PROVE Increasing(Append(q, x))
  <2> SUFFICES ASSUME NEW i \in 1..(Len(q) + 1), NEW j \in 1..(Len(q) + 1), i < j
               PROVE  Append(q, x)[i] < Append(q, x)[j]
    BY <1>1 DEF Increasing
  <2>1. i \in 1..Len(q) /\ q[i] \in Contents(q)
    BY <1>1 DEF Contents
  <2>2. CASE j \in 1..Len(q)
    BY <1>1, <1>3, <2>1, <2>2 DEF Increasing
  <2>3. CASE j = Len(q) + 1
    BY <1>1, <1>3, <2>1, <2>3
  <2> QED BY <1>1, <2>2, <2>3
<1> QED BY <1>1, <1>2, <1>3

-----------------------------------------------------------------------------
(* The client keeps one connection from Dial until it closes it, and at    *)
(* most its latest stream is up, while it uses it.                         *)
ClientInv ==
    /\ pc = "backoff" => conns = 0
    /\ pc # "backoff" => conns = 1
    /\ \A s \in Streams : state[s] = "up" => s = opened /\ pc \in {"select", "send"}

TypeInv == TypeOK /\ ClientInv

(* Where all members are the same one, there is at most one.               *)
LEMMA AtMostOne ==
    ASSUME NEW D, \A d, e \in D : d = e
    PROVE  Cardinality(D) <= 1
<1>1. CASE D = {}
  BY <1>1, FS_EmptySet
<1>2. ASSUME NEW d \in D PROVE Cardinality(D) <= 1
  <2>1. D = {d}
    BY <1>2
  <2>2. Cardinality({d}) = 1
    BY FS_Singleton
  <2> QED BY <2>1, <2>2
<1> QED BY <1>1, <1>2

(* Nothing is connected at first.                                          *)
LEMMA TypeInit == Init => TypeInv
<1> SUFFICES ASSUME Init PROVE TypeInv
  OBVIOUS
<1>1. ClientInv
  BY DEF Init, ClientInv
<1> DEFINE Up == {s \in Streams : state[s] = "up"}
<1>2. Cardinality(Up) <= 1
  <2>1. \A s, r \in Up : s = r
    BY <1>1 DEF ClientInv
  <2> QED BY <2>1, AtMostOne
<1> QED BY <1>1, <1>2, BoundAssumption DEF Init, TypeInv, TypeOK, Records, Streams

(* Every step of either program keeps the client's connection in order.    *)
LEMMA ClientKept ==
    ASSUME TypeInv, [Next]_vars PROVE ClientInv'
<1> USE BoundAssumption DEF TypeInv, TypeOK, ClientInv, Streams, clientVars, streamVars, serverVars
<1>1. CASE Accept \/ Cancel
  BY <1>1 DEF Accept, Cancel
<1>2. CASE Dial \/ OpenStreamFails
  BY <1>2 DEF Dial, OpenStreamFails
<1>3. CASE OpenStream
  BY <1>3 DEF OpenStream
<1>4. CASE Select \/ Send
  BY <1>4 DEF Select, Send
<1>5. CASE SendFails
  BY <1>5 DEF SendFails
<1>6. CASE ClientDone
  BY <1>6 DEF ClientDone
<1>7. CASE ServerCrash
  BY <1>7 DEF ServerCrash
<1>8. CASE ServerStart \/ Consume
  BY <1>8 DEF ServerStart, Consume
<1>9. ASSUME NEW s \in Streams, Break(s) \/ HandlerRecv(s) \/ HandlerEnds(s)
      PROVE  ClientInv'
  BY <1>9 DEF Break, HandlerRecv, HandlerEnds
<1>10. CASE UNCHANGED vars
  BY <1>10 DEF vars
<1> QED BY <1>1, <1>2, <1>3, <1>4, <1>5, <1>6, <1>7, <1>8, <1>9, <1>10 DEF Next, ClientStep

(* What a handler, the network or a crash takes from a stream is a record. *)
LEMMA WireFacts ==
    ASSUME TypeOK
    PROVE  \A s \in Streams : /\ wire[s] \in Seq(Records)
                              /\ Contents(wire[s]) \subseteq Records
<1>1. ASSUME NEW s \in Streams PROVE wire[s] \in Seq(Records)
  BY DEF TypeOK
<1> QED BY <1>1, QueueFacts DEF Contents

(* Every step keeps every variable's kind.                                 *)
LEMMA TypeStep ==
    ASSUME TypeInv, [Next]_vars PROVE TypeInv'
<1>1. ClientInv'
  BY ClientKept
<1>2. Cardinality({s \in Streams : state'[s] = "up"}) <= 1
  <2> DEFINE Up == {s \in Streams : state'[s] = "up"}
  <2>1. \A s, r \in Up : s = r
    BY <1>1 DEF ClientInv
  <2> HIDE DEF Up
  <2>2. Cardinality(Up) <= 1
    BY <2>1, AtMostOne
  <2> QED BY <2>2 DEF Up
<1>3. conns' \in 0..1
  BY <1>1 DEF ClientInv
<1> SUFFICES TypeOK'
  BY <1>1 DEF TypeInv
<1> USE <1>2, <1>3, BoundAssumption DEF TypeInv, TypeOK, clientVars, streamVars, serverVars
<1>4. CASE Accept
  <2>1. accepted + 1 \in Records /\ accepted + 1 \in 0..MaxRecords
    BY <1>4 DEF Accept, Records
  <2>2. in' \in Seq(Records) /\ Len(in') <= InCap
    BY <1>4, <2>1, QueueFacts DEF Accept
  <2> QED BY <1>4, <2>1, <2>2 DEF Accept
<1>5. CASE Cancel
  BY <1>5 DEF Cancel
<1>6. CASE Dial \/ OpenStreamFails
  BY <1>6 DEF Dial, OpenStreamFails
<1>7. CASE OpenStream
  BY <1>7 DEF OpenStream, Streams
<1>8. CASE Select
  <2>1. /\ Head(in) \in Records /\ Head(in) # 0
        /\ in' \in Seq(Records) /\ Len(in') <= InCap
    BY <1>8, QueueFacts DEF Select, Records
  <2> QED BY <1>8, <2>1 DEF Select
<1>9. CASE Send
  <2>1. /\ opened \in Streams /\ buf \in Records
        /\ Append(wire[opened], buf) \in Seq(Records)
    BY <1>9, QueueFacts DEF Send
  <2>2. wire' \in [Streams -> Seq(Records)]
    BY <1>9, <2>1 DEF Send
  <2> QED BY <1>9, <2>2 DEF Send
<1>10. CASE SendFails
  BY <1>10 DEF SendFails
<1>11. CASE ClientDone
  BY <1>11 DEF ClientDone
<1>12. CASE ServerCrash
  <2>1. lost' \subseteq Records
    BY <1>12, WireFacts DEF ServerCrash
  <2> QED BY <1>12, <2>1 DEF ServerCrash
<1>13. CASE ServerStart
  BY <1>13 DEF ServerStart
<1>14. CASE Consume
  <2>1. srv' \in Seq(Records) /\ Len(srv') <= SrvCap
    BY <1>14, QueueFacts DEF Consume
  <2> QED BY <1>14, <2>1 DEF Consume
<1>15. ASSUME NEW s \in Streams, Break(s) PROVE TypeOK'
  BY <1>15 DEF Break
<1>16. ASSUME NEW s \in Streams, HandlerRecv(s) PROVE TypeOK'
  <2> DEFINE k == Head(wire[s])
  <2>1. k \in Records /\ Tail(wire[s]) \in Seq(Records)
    BY <1>16, WireFacts, QueueFacts DEF HandlerRecv
  <2>2. wire' \in [Streams -> Seq(Records)]
    BY <1>16, <2>1 DEF HandlerRecv
  <2>3. [rec |-> k, stream |-> s] \in [rec : Records, stream : Streams]
    BY <2>1
  <2>4. \/ /\ Len(srv) < SrvCap /\ srv' = Append(srv, k) /\ dropped' = dropped
           /\ received' = Append(received, [rec |-> k, stream |-> s])
        \/ dropped' = dropped \cup {k} /\ srv' = srv /\ received' = received
    BY <1>16 DEF HandlerRecv
  <2>5. /\ srv' \in Seq(Records) /\ Len(srv') <= SrvCap
        /\ received' \in Seq([rec : Records, stream : Streams])
        /\ dropped' \subseteq Records
    <3> DEFINE R == [rec : Records, stream : Streams]  r == [rec |-> k, stream |-> s]
    <3> HIDE DEF R, r, k
    <3>1. Append(received, r) \in Seq(R)
      BY <2>3, QueueFacts DEF R, r
    <3>2. Append(srv, k) \in Seq(Records) /\ Len(Append(srv, k)) = Len(srv) + 1 /\ Len(srv) \in Nat
      BY <2>1, QueueFacts
    <3>3. srv' \in Seq(Records) /\ Len(srv') <= SrvCap /\ dropped' \subseteq Records
      <4>1. \/ Len(srv) < SrvCap /\ srv' = Append(srv, k) /\ dropped' = dropped
            \/ srv' = srv /\ dropped' = dropped \cup {k}
        BY <2>4
      <4>2. dropped' \subseteq Records
        BY <2>1, <4>1
      <4>3. srv' \in Seq(Records)
        BY <3>2, <4>1
      <4>4. Len(srv') <= SrvCap
        BY <3>2, <4>1
      <4> QED BY <4>2, <4>3, <4>4
    <3>4. received' = Append(received, r) \/ received' = received
      BY <2>4 DEF r
    <3>5. received \in Seq(R)
      BY DEF R
    <3>6. received' \in Seq(R)
      BY <3>1, <3>4, <3>5
    <3> QED BY <3>3, <3>6 DEF R
  <2> QED BY <1>16, <2>2, <2>5 DEF HandlerRecv
<1>17. ASSUME NEW s \in Streams, HandlerEnds(s) PROVE TypeOK'
  <2>1. wire' \in [Streams -> Seq(Records)]
    BY <1>17, QueueFacts DEF HandlerEnds
  <2>2. lost' \subseteq Records
    BY <1>17, WireFacts DEF HandlerEnds
  <2> QED BY <1>17, <2>1, <2>2 DEF HandlerEnds
<1>18. CASE UNCHANGED vars
  BY <1>18 DEF vars
<1> QED BY <1>4, <1>5, <1>6, <1>7, <1>8, <1>9, <1>10, <1>11, <1>12, <1>13, <1>14,
           <1>15, <1>16, <1>17, <1>18 DEF Next, ClientStep

(* However often the egress reconnects and the server crashes, it keeps    *)
(* at most one connection and one stream that is up, holds a record        *)
(* exactly while it sends it, and never uses a stream it has not opened.   *)
THEOREM TypeCorrect == Spec => []TypeOK
<1>1. TypeInv => TypeOK
  BY DEF TypeInv
<1>2. TypeInv /\ [Next]_vars => TypeInv'
  BY TypeStep
<1> QED BY <1>1, <1>2, TypeInit, PTL DEF Spec

-----------------------------------------------------------------------------
(* What is under way in the streams, and what the server took in.          *)
Wired == UNION {Contents(wire[s]) : s \in Streams}
TakenIn == {received[i].rec : i \in DOMAIN received}

(* Nothing overtakes anything between the agent's channel and the handler  *)
(* of a stream: what was sent was accepted before what the goroutine holds,*)
(* and that before what waits in the channel.                              *)
OrderInv ==
    /\ Increasing(in) /\ \A s \in Streams : Increasing(wire[s])
    /\ \A k \in Contents(in) : k <= accepted /\ (buf # 0 => buf < k)
    /\ buf <= accepted
    /\ \A k \in Wired \cup TakenIn :
          k <= accepted /\ (buf # 0 => k < buf) /\ \A m \in Contents(in) : k < m
    /\ \A i \in DOMAIN received :
          \A k \in Contents(wire[received[i].stream]) : received[i].rec < k
    /\ StreamOrder

(* What the variables hold are records, which are numbers.                 *)
LEMMA RecordFacts ==
    ASSUME TypeOK
    PROVE  /\ Records \subseteq Nat \ {0}
           /\ Contents(in) \subseteq Records /\ Wired \subseteq Records
           /\ TakenIn \subseteq Records
           /\ \A s \in Streams : Contents(wire[s]) \subseteq Wired
           /\ \A i \in DOMAIN received : /\ received[i].rec \in TakenIn
                                         /\ received[i].stream \in Streams
<1>1. Records \subseteq Nat \ {0}
  BY BoundAssumption DEF Records
<1>2. Contents(in) \subseteq Records
  BY QueueFacts DEF TypeOK, Contents
<1>3. /\ Wired \subseteq Records
      /\ \A s \in Streams : Contents(wire[s]) \subseteq Wired
  BY WireFacts DEF Wired
<1>4. \A i \in DOMAIN received : received[i] \in [rec : Records, stream : Streams]
  <2> DEFINE R == [rec : Records, stream : Streams]
  <2>1. received \in Seq(R)
    BY DEF TypeOK
  <2> HIDE DEF R
  <2>2. \A i \in DOMAIN received : received[i] \in R
    BY <2>1, QueueFacts
  <2> QED BY <2>2 DEF R
<1> QED BY <1>1, <1>2, <1>3, <1>4 DEF TakenIn

(* A handler that receives from stream s.                                  *)
LEMMA HandlerFacts ==
    ASSUME TypeOK, NEW s \in Streams, HandlerRecv(s)
    PROVE  /\ wire[s] \in Seq(Records) /\ wire[s] # <<>> /\ Head(wire[s]) \in Records
           /\ wire' = [wire EXCEPT ![s] = Tail(wire[s])]
           /\ UNCHANGED <<accepted, in, buf, lost>>
           /\ \/ UNCHANGED received /\ dropped' = dropped \cup {Head(wire[s])}
              \/ /\ Len(received') = Len(received) + 1 /\ UNCHANGED dropped
                 /\ DOMAIN received' = 1..(Len(received) + 1)
                 /\ DOMAIN received = 1..Len(received) /\ Len(received) \in Nat
                 /\ \A i \in 1..Len(received) : received'[i] = received[i]
                 /\ received'[Len(received) + 1].rec = Head(wire[s])
                 /\ received'[Len(received) + 1].stream = s
<1> DEFINE k == Head(wire[s])  r == [rec |-> k, stream |-> s]
<1>1. /\ wire[s] \in Seq(Records) /\ wire[s] # <<>>
      /\ wire' = [wire EXCEPT ![s] = Tail(wire[s])]
      /\ UNCHANGED <<accepted, in, buf, lost>>
      /\ \/ UNCHANGED received /\ dropped' = dropped \cup {k}
         \/ received' = Append(received, r) /\ UNCHANGED dropped
  BY DEF HandlerRecv, TypeOK, clientVars
<1>2. k \in Records
  BY <1>1, QueueFacts
<1>3. r \in [rec : Records, stream : Streams]
  BY <1>2
<1>4. received \in Seq([rec : Records, stream : Streams])
  BY DEF TypeOK
<1>5. r.rec = k /\ r.stream = s
  OBVIOUS
<1>0. k = Head(wire[s])
  OBVIOUS
<1> HIDE DEF k, r
<1>6. CASE received' = Append(received, r) /\ UNCHANGED dropped
  <2>1. /\ Len(received') = Len(received) + 1
        /\ received' \in Seq([rec : Records, stream : Streams])
        /\ \A i \in 1..Len(received) : received'[i] = received[i]
        /\ received'[Len(received) + 1] = r
        /\ DOMAIN received = 1..Len(received) /\ Len(received) \in Nat
    BY <1>3, <1>4, <1>6, QueueFacts
  <2>2. DOMAIN received' = 1..(Len(received) + 1)
    BY <2>1
  <2>3. received'[Len(received) + 1].rec = k /\ received'[Len(received) + 1].stream = s
    BY <1>5, <2>1
  <2> QED BY <1>0, <1>1, <1>2, <1>6, <2>1, <2>2, <2>3
<1>7. CASE UNCHANGED received /\ dropped' = dropped \cup {k}
  BY <1>0, <1>1, <1>2, <1>7
<1> QED BY <1>1, <1>6, <1>7

(* Taking from a stream, and adding to one.                                *)
LEMMA WireLess ==
    ASSUME TypeOK, NEW s \in Streams, NEW q,
           wire' = [wire EXCEPT ![s] = q], Contents(q) \subseteq Contents(wire[s])
    PROVE  /\ Wired' \subseteq Wired /\ wire'[s] = q
           /\ \A r \in Streams \ {s} : wire'[r] = wire[r]
           /\ \A r \in Streams : Contents(wire'[r]) \subseteq Contents(wire[r])
<1>1. wire'[s] = q /\ \A r \in Streams \ {s} : wire'[r] = wire[r]
  BY DEF TypeOK
<1>2. \A r \in Streams : Contents(wire'[r]) \subseteq Contents(wire[r])
  BY <1>1
<1>3. Wired' \subseteq Wired
  BY <1>2 DEF Wired
<1> QED BY <1>1, <1>2, <1>3

(* Nothing is accepted at first.                                           *)
LEMMA OrderInit == Init => OrderInv
BY DEF Init, OrderInv, Increasing, Contents, Wired, TakenIn, StreamOrder

(* Steps that leave the channel, the streams and what was received alone.  *)
LEMMA OrderFrame ==
    ASSUME OrderInv, UNCHANGED <<accepted, in, buf, wire, received>>
    PROVE  OrderInv'
<1>1. Wired' = Wired /\ TakenIn' = TakenIn /\ StreamOrder'
  BY DEF Wired, TakenIn, StreamOrder, OrderInv
<1> QED BY <1>1 DEF OrderInv

(* The agent's side: accepting, taking from the channel, sending.          *)
LEMMA OrderClient ==
    ASSUME TypeInv, OrderInv, Accept \/ Select \/ Send \/ SendFails
    PROVE  OrderInv'
<1> USE DEF TypeInv
<1>1. /\ Records \subseteq Nat /\ Contents(in) \subseteq Records /\ Wired \subseteq Records
      /\ TakenIn \subseteq Records /\ accepted \in Nat
      /\ in \in Seq(Records) /\ buf \in Nat
  BY RecordFacts DEF TypeOK
<1>2. CASE Accept
  <2> DEFINE k == accepted + 1
  <2>1. /\ k \in Records /\ accepted' = k /\ in' = Append(in, k)
        /\ UNCHANGED <<buf, wire, received>>
    BY <1>2, BoundAssumption
       DEF Accept, TypeOK, Records, clientVars, streamVars, serverVars
  <2>2. \A m \in Nat : m <= accepted => m <= k /\ m < k
    BY <1>1
  <2>3. \A m \in Contents(in) : m \in Nat /\ m <= accepted /\ (buf # 0 => buf < m)
    BY <1>1 DEF OrderInv
  <2>4. \A m \in Contents(in) : m < k
    BY <2>2, <2>3
  <2>5. Increasing(in') /\ Contents(in') = Contents(in) \cup {k}
    BY <1>1, <2>1, <2>4, AppendContents DEF OrderInv
  <2>6. buf < k /\ k <= k
    BY <1>1, <2>2 DEF OrderInv
  <2>7. \A m \in Contents(in') : m <= k /\ (buf # 0 => buf < m)
    BY <2>2, <2>3, <2>5, <2>6
  <2>8. \A m \in Wired \cup TakenIn : m \in Nat /\ m <= accepted
    BY <1>1 DEF OrderInv
  <2>10. \A m \in Wired \cup TakenIn :
           m <= k /\ (buf # 0 => m < buf) /\ \A l \in Contents(in') : m < l
    BY <2>2, <2>8, <2>5 DEF OrderInv
  <2>11. Wired' = Wired /\ TakenIn' = TakenIn /\ StreamOrder'
    BY <2>1 DEF Wired, TakenIn, StreamOrder, OrderInv
  <2>9. buf <= k
    BY <1>1, <2>2 DEF OrderInv
  <2> QED BY <2>1, <2>5, <2>7, <2>9, <2>10, <2>11 DEF OrderInv
<1>3. CASE Select
  <2>1. /\ in # <<>> /\ buf' = Head(in) /\ in' = Tail(in) /\ buf = 0
        /\ UNCHANGED <<accepted, wire, received>>
    BY <1>3 DEF Select, TypeOK, streamVars, serverVars
  <2>2. /\ Increasing(in') /\ Head(in) \in Contents(in)
        /\ Contents(in') = Contents(in) \ {Head(in)}
        /\ \A m \in Contents(in') : Head(in) < m
    BY <1>1, <2>1, TailContents DEF OrderInv
  <2>3. Wired' = Wired /\ TakenIn' = TakenIn /\ StreamOrder'
    BY <2>1 DEF Wired, TakenIn, StreamOrder, OrderInv
  <2> QED BY <2>1, <2>2, <2>3 DEF OrderInv
<1>4. CASE Send
  <2>1. /\ opened \in Streams /\ buf \in Records /\ buf # 0 /\ buf' = 0
        /\ wire \in [Streams -> Seq(Records)]
        /\ wire' = [wire EXCEPT ![opened] = Append(wire[opened], buf)]
        /\ UNCHANGED <<accepted, in, received>>
    BY <1>4 DEF Send, TypeOK, serverVars
  <2>2. \A m \in Wired : m < buf
    BY <2>1 DEF OrderInv
  <2>3. /\ Increasing(wire'[opened])
        /\ Contents(wire'[opened]) = Contents(wire[opened]) \cup {buf}
        /\ \A s \in Streams \ {opened} : wire'[s] = wire[s]
    BY <2>1, <2>2, AppendContents, RecordFacts DEF OrderInv
  <2>4. Wired' = Wired \cup {buf}
    BY <2>1, <2>3 DEF Wired
  <2>5. TakenIn' = TakenIn /\ StreamOrder'
    BY <2>1 DEF TakenIn, StreamOrder, OrderInv
  <2>6. ASSUME NEW i \in DOMAIN received, NEW k \in Contents(wire'[received[i].stream])
        PROVE  received[i].rec < k
    <3>1. received[i].stream \in Streams /\ received[i].rec \in TakenIn
      BY RecordFacts
    <3>2. CASE k \in Contents(wire[received[i].stream])
      BY <3>2 DEF OrderInv
    <3>3. CASE k = buf
      BY <2>1, <3>1, <3>3 DEF OrderInv
    <3> QED BY <2>3, <2>6, <3>1, <3>2, <3>3
  <2>7. \A m \in Wired' \cup TakenIn' :
           m <= accepted /\ \A l \in Contents(in) : m < l
    BY <2>1, <2>4, <2>5 DEF OrderInv
  <2>8. \A s \in Streams : Increasing(wire'[s])
    BY <2>3 DEF OrderInv
  <2>9. 0 <= accepted
    BY <1>1
  <2> QED BY <2>1, <2>5, <2>6, <2>7, <2>8, <2>9 DEF OrderInv
<1>5. CASE SendFails
  <2>1. buf' = 0 /\ UNCHANGED <<accepted, in, wire, received>>
    BY <1>5 DEF SendFails, serverVars
  <2>2. Wired' = Wired /\ TakenIn' = TakenIn /\ StreamOrder'
    BY <2>1 DEF Wired, TakenIn, StreamOrder, OrderInv
  <2> QED BY <1>1, <2>1, <2>2 DEF OrderInv
<1> QED BY <1>2, <1>3, <1>4, <1>5

(* What a stream holds is received from its front, or gone with it.        *)
LEMMA OrderServer ==
    ASSUME TypeInv, OrderInv,
           ServerCrash \/ \E s \in Streams : HandlerRecv(s) \/ HandlerEnds(s)
    PROVE  OrderInv'
<1> USE DEF TypeInv
<1>1. CASE ServerCrash
  <2>1. /\ \A s \in Streams : wire'[s] = <<>>
        /\ UNCHANGED <<accepted, in, buf, received>>
    BY <1>1 DEF ServerCrash, clientVars
  <2>2. Contents(<<>>) = {} /\ Increasing(<<>>)
    BY DEF Contents, Increasing
  <2>3. Wired' = {}
    BY <2>1, <2>2 DEF Wired
  <2>4. TakenIn' = TakenIn /\ StreamOrder'
    BY <2>1 DEF TakenIn, StreamOrder, OrderInv
  <2>5. \A i \in DOMAIN received : Contents(wire'[received[i].stream]) = {}
    BY <2>1, <2>2, RecordFacts
  <2> QED BY <2>1, <2>2, <2>3, <2>4, <2>5 DEF OrderInv
<1>2. ASSUME NEW s \in Streams, HandlerEnds(s) PROVE OrderInv'
  <2>1. /\ wire' = [wire EXCEPT ![s] = <<>>]
        /\ UNCHANGED <<accepted, in, buf, received>>
    BY <1>2 DEF HandlerEnds, clientVars
  <2>2. Contents(<<>>) = {} /\ Increasing(<<>>)
    BY DEF Contents, Increasing
  <2>3. /\ Wired' \subseteq Wired
        /\ \A r \in Streams : Contents(wire'[r]) \subseteq Contents(wire[r])
        /\ \A r \in Streams : Increasing(wire'[r])
    <3> DEFINE q == <<>>
    <3>1. Contents(q) \subseteq Contents(wire[s]) /\ wire' = [wire EXCEPT ![s] = q]
          /\ Increasing(q)
      BY <2>1, <2>2
    <3> HIDE DEF q
    <3>2. /\ Wired' \subseteq Wired /\ wire'[s] = q
          /\ \A r \in Streams \ {s} : wire'[r] = wire[r]
          /\ \A r \in Streams : Contents(wire'[r]) \subseteq Contents(wire[r])
      BY <3>1, WireLess
    <3> QED BY <3>1, <3>2 DEF OrderInv
  <2>4. TakenIn' = TakenIn /\ StreamOrder'
    BY <2>1 DEF TakenIn, StreamOrder, OrderInv
  <2> QED BY <2>1, <2>3, <2>4, RecordFacts DEF OrderInv
<1>3. ASSUME NEW s \in Streams, HandlerRecv(s) PROVE OrderInv'
  <2> DEFINE k == Head(wire[s])
  <2>1. /\ wire[s] \in Seq(Records) /\ wire[s] # <<>>
        /\ wire' = [wire EXCEPT ![s] = Tail(wire[s])]
        /\ UNCHANGED <<accepted, in, buf>>
    BY <1>3, HandlerFacts
  <2>2. /\ Increasing(Tail(wire[s])) /\ k \in Contents(wire[s])
        /\ Contents(Tail(wire[s])) \subseteq Contents(wire[s])
        /\ \A m \in Contents(Tail(wire[s])) : k < m
    BY <2>1, TailContents DEF OrderInv
  <2>3. /\ Wired' \subseteq Wired /\ wire'[s] = Tail(wire[s])
        /\ \A r \in Streams : Contents(wire'[r]) \subseteq Contents(wire[r])
        /\ \A r \in Streams : Increasing(wire'[r])
    <3> DEFINE q == Tail(wire[s])
    <3>1. Contents(q) \subseteq Contents(wire[s]) /\ wire' = [wire EXCEPT ![s] = q]
          /\ Increasing(q)
      BY <2>1, <2>2
    <3> HIDE DEF q
    <3>2. /\ Wired' \subseteq Wired /\ wire'[s] = q
          /\ \A r \in Streams \ {s} : wire'[r] = wire[r]
          /\ \A r \in Streams : Contents(wire'[r]) \subseteq Contents(wire[r])
      BY <3>1, WireLess
    <3>3. \A r \in Streams : Increasing(wire'[r])
      BY <3>1, <3>2 DEF OrderInv
    <3> QED BY <3>2, <3>3 DEF q
  <2>4. k \in Wired
    BY <2>2 DEF Wired
  <2>5. CASE UNCHANGED received
    <3>1. TakenIn' = TakenIn /\ StreamOrder'
      BY <2>5 DEF TakenIn, StreamOrder, OrderInv
    <3> QED BY <2>1, <2>3, <2>5, <3>1, RecordFacts DEF OrderInv
  <2>6. CASE /\ DOMAIN received' = 1..(Len(received) + 1)
             /\ DOMAIN received = 1..Len(received) /\ Len(received) \in Nat
             /\ \A i \in 1..Len(received) : received'[i] = received[i]
             /\ received'[Len(received) + 1].rec = k
             /\ received'[Len(received) + 1].stream = s
    <3>1. \A i \in DOMAIN received' :
             \/ i \in DOMAIN received /\ received'[i] = received[i]
             \/ i = Len(received) + 1
      BY <2>6
    <3>2. TakenIn' \subseteq TakenIn \cup {k}
      BY <2>6, <3>1 DEF TakenIn
    <3>3. StreamOrder'
      <4> SUFFICES ASSUME NEW i \in DOMAIN received', NEW j \in DOMAIN received', i < j,
                          received'[i].stream = received'[j].stream
                   PROVE  received'[i].rec < received'[j].rec
        BY DEF StreamOrder
      <4>1. i \in DOMAIN received /\ received'[i] = received[i]
        BY <2>6
      <4>2. CASE j \in DOMAIN received
        BY <2>6, <4>1, <4>2 DEF StreamOrder, OrderInv
      <4>3. CASE j = Len(received) + 1
        BY <2>2, <2>6, <4>1, <4>3 DEF OrderInv
      <4> QED BY <3>1, <4>2, <4>3
    <3>4. ASSUME NEW i \in DOMAIN received', NEW m \in Contents(wire'[received'[i].stream])
          PROVE  received'[i].rec < m
      <4>1. CASE i \in DOMAIN received /\ received'[i] = received[i]
        BY <2>3, <3>4, <4>1, RecordFacts DEF OrderInv
      <4>2. CASE i = Len(received) + 1
        BY <2>2, <2>3, <2>6, <3>4, <4>2
      <4> QED BY <3>1, <4>1, <4>2
    <3> QED BY <2>1, <2>3, <2>4, <3>2, <3>3, <3>4 DEF OrderInv
  <2> QED BY <1>3, <2>5, <2>6, HandlerFacts
<1> QED BY <1>1, <1>2, <1>3

(* Every step keeps the order.                                             *)
LEMMA OrderStep ==
    ASSUME TypeInv, OrderInv, [Next]_vars PROVE OrderInv'
<1>1. CASE Cancel \/ Dial \/ OpenStream \/ OpenStreamFails \/ ClientDone \/ ServerStart
           \/ Consume \/ UNCHANGED vars \/ \E s \in Streams : Break(s)
  <2>1. UNCHANGED <<accepted, in, buf, wire, received>>
    BY <1>1 DEF Cancel, Dial, OpenStream, OpenStreamFails, ClientDone, ServerStart,
                Consume, Break, vars, clientVars, streamVars, serverVars
  <2> QED BY <2>1, OrderFrame
<1> QED BY <1>1, OrderClient, OrderServer DEF Next, ClientStep

(* Records that come by one stream are received in the order in which they *)
(* were accepted, whatever breaks.                                         *)
THEOREM StreamsInOrder == Spec => []StreamOrder
<1> DEFINE Inv == TypeInv /\ OrderInv
<1>1. Init => Inv
  BY TypeInit, OrderInit
<1>2. Inv /\ [Next]_vars => Inv'
  BY TypeStep, OrderStep
<1>3. Inv => StreamOrder
  BY DEF OrderInv
<1> QED BY <1>1, <1>2, <1>3, PTL DEF Spec

-----------------------------------------------------------------------------
(* Where records are, by the kind of place.                                *)
Stage ==
    [new      |-> Records \ (1..accepted),
     in       |-> Contents(in),
     buf      |-> {buf} \ {0},
     wire     |-> Wired,
     received |-> TakenIn,
     dropped  |-> dropped,
     lost     |-> lost]

(* Each record is in one part of P.                                        *)
IsPartition(P) ==
    \A k \in Records : \E s \in DOMAIN P : \A t \in DOMAIN P : k \in P[t] <=> t = s

(* No two streams carry the same record, and none is received twice.       *)
Apart ==
    /\ \A s, r \in Streams : Contents(wire[s]) \cap Contents(wire[r]) # {} => s = r
    /\ \A i, j \in DOMAIN received : received[i].rec = received[j].rec => i = j

OnceInv == TypeInv /\ OrderInv /\ Apart /\ IsPartition(Stage)

(* Records M move from part a of P to part b and make it Q.                *)
Moved(P, Q, M, a, b) ==
    /\ a \in DOMAIN P /\ b \in DOMAIN P /\ a # b
    /\ M \subseteq P[a]
    /\ DOMAIN Q = DOMAIN P
    /\ Q[a] = P[a] \ M /\ Q[b] = P[b] \cup M
    /\ \A s \in DOMAIN P \ {a, b} : Q[s] = P[s]

(* That leaves a partition.                                                *)
LEMMA Move ==
    ASSUME NEW P, NEW Q, NEW M, NEW a, NEW b, IsPartition(P), Moved(P, Q, M, a, b)
    PROVE  IsPartition(Q)
<1> USE DEF Moved
<1> SUFFICES ASSUME NEW k \in Records
             PROVE  \E s \in DOMAIN P : \A t \in DOMAIN P : k \in Q[t] <=> t = s
  BY DEF IsPartition
<1>1. PICK s \in DOMAIN P : \A t \in DOMAIN P : k \in P[t] <=> t = s
  BY DEF IsPartition
<1>2. CASE k \in M
  <2>1. \A t \in DOMAIN P : k \in Q[t] <=> t = b
    BY <1>1, <1>2
  <2> QED BY <2>1
<1>3. CASE k \notin M
  <2>1. \A t \in DOMAIN P : k \in Q[t] <=> t = s
    BY <1>1, <1>3
  <2> QED BY <2>1
<1> QED BY <1>2, <1>3

(* The parts, before and after a step.                                     *)
LEMMA StageFacts ==
    /\ DOMAIN Stage = {"new", "in", "buf", "wire", "received", "dropped", "lost"}
    /\ Stage["new"] = Records \ (1..accepted) /\ Stage["in"] = Contents(in)
    /\ Stage["buf"] = {buf} \ {0} /\ Stage["wire"] = Wired
    /\ Stage["received"] = TakenIn
    /\ Stage["dropped"] = dropped /\ Stage["lost"] = lost
    /\ DOMAIN Stage' = {"new", "in", "buf", "wire", "received", "dropped", "lost"}
    /\ Stage'["new"] = Records \ (1..accepted') /\ Stage'["in"] = Contents(in')
    /\ Stage'["buf"] = {buf'} \ {0} /\ Stage'["wire"] = Wired'
    /\ Stage'["received"] = TakenIn'
    /\ Stage'["dropped"] = dropped' /\ Stage'["lost"] = lost'
BY DEF Stage

(* A record is in one part only.                                           *)
LEMMA Disjoint ==
    ASSUME IsPartition(Stage), NEW k \in Records,
           NEW s \in DOMAIN Stage, NEW t \in DOMAIN Stage, k \in Stage[s], k \in Stage[t]
    PROVE  s = t
BY DEF IsPartition

(* At first every record is still to be accepted.                          *)
LEMMA OnceInit == Init => OnceInv
<1> SUFFICES ASSUME Init PROVE OnceInv
  OBVIOUS
<1>1. /\ Stage["new"] = Records
      /\ \A s \in DOMAIN Stage \ {"new"} : Stage[s] = {}
  <2>1. Contents(in) = {} /\ Wired = {} /\ TakenIn = {}
    BY DEF Init, Contents, Wired, TakenIn
  <2> QED BY <2>1, StageFacts DEF Init
<1>2. IsPartition(Stage)
  BY <1>1, StageFacts DEF IsPartition
<1>3. Apart
  BY DEF Init, Apart, Contents
<1> QED BY <1>2, <1>3, TypeInit, OrderInit DEF OnceInv

(* Steps that move no record.                                              *)
LEMMA OnceFrame ==
    ASSUME OnceInv, UNCHANGED <<accepted, in, buf, wire, received, dropped, lost>>
    PROVE  Apart' /\ IsPartition(Stage)'
<1>1. Apart'
  BY DEF OnceInv, Apart
<1>2. Stage' = Stage
  BY DEF Stage, Wired, TakenIn
<1> QED BY <1>1, <1>2 DEF OnceInv

(* The agent's side moves one record at a time.                            *)
LEMMA OnceClient ==
    ASSUME OnceInv, Accept \/ Select \/ Send \/ SendFails
    PROVE  Apart' /\ IsPartition(Stage)'
<1> USE DEF OnceInv, TypeInv
<1>1. in \in Seq(Records) /\ Increasing(in) /\ Records \subseteq Nat \ {0}
  BY RecordFacts DEF TypeOK, OrderInv
<1>2. CASE Accept
  <2> DEFINE k == accepted + 1
  <2>1. /\ k \in Records /\ accepted' = k /\ in' = Append(in, k)
        /\ UNCHANGED <<buf, wire, received, dropped, lost>>
    BY <1>2, BoundAssumption
       DEF Accept, TypeOK, Records, clientVars, streamVars, serverVars
  <2>2. Records \ (1..accepted') = (Records \ (1..accepted)) \ {k} /\ k \notin 1..accepted
    BY <2>1, BoundAssumption DEF TypeOK, Records
  <2>3. Contents(in') = Contents(in) \cup {k}
    BY <1>1, <2>1, AppendContents
  <2>4. Apart' /\ UNCHANGED <<Wired, TakenIn>>
    BY <2>1 DEF Apart, Wired, TakenIn
  <2>5. Moved(Stage, Stage', {k}, "new", "in")
    <3>1. \A s \in DOMAIN Stage \ {"new", "in"} : Stage'[s] = Stage[s]
      BY <2>1, <2>4, StageFacts
    <3>2. /\ k \in Stage["new"] /\ Stage'["new"] = Stage["new"] \ {k}
          /\ Stage'["in"] = Stage["in"] \cup {k}
      BY <2>1, <2>2, <2>3, StageFacts
    <3> QED BY <3>1, <3>2, StageFacts DEF Moved
  <2> QED BY <2>4, <2>5, Move
<1>3. CASE Select
  <2> DEFINE k == Head(in)
  <2>1. /\ in # <<>> /\ buf' = k /\ in' = Tail(in) /\ buf = 0
        /\ UNCHANGED <<accepted, wire, received, dropped, lost>>
    BY <1>3 DEF Select, TypeOK, streamVars, serverVars
  <2>2. /\ k \in Contents(in) /\ Contents(in') = Contents(in) \ {k} /\ k # 0
    BY <1>1, <2>1, TailContents, QueueFacts
  <2>3. Apart' /\ UNCHANGED <<Wired, TakenIn>>
    BY <2>1 DEF Apart, Wired, TakenIn
  <2>4. Moved(Stage, Stage', {k}, "in", "buf")
    <3>1. \A s \in DOMAIN Stage \ {"in", "buf"} : Stage'[s] = Stage[s]
      BY <2>1, <2>3, StageFacts
    <3>2. Stage'["buf"] = Stage["buf"] \cup {k}
      BY <2>1, <2>2, StageFacts
    <3> QED BY <2>2, <3>1, <3>2, StageFacts DEF Moved
  <2> QED BY <2>3, <2>4, Move
<1>4. CASE Send
  <2>1. /\ opened \in Streams /\ buf \in Records /\ buf # 0 /\ buf' = 0
        /\ wire \in [Streams -> Seq(Records)]
        /\ wire' = [wire EXCEPT ![opened] = Append(wire[opened], buf)]
        /\ UNCHANGED <<accepted, in, received, dropped, lost>>
    BY <1>4 DEF Send, TypeOK, serverVars
  <2>2. /\ Contents(wire'[opened]) = Contents(wire[opened]) \cup {buf}
        /\ \A s \in Streams \ {opened} : wire'[s] = wire[s]
    BY <2>1, AppendContents
  <2>3. Wired' = Wired \cup {buf} /\ UNCHANGED TakenIn
    BY <2>1, <2>2 DEF Wired, TakenIn
  <2>4. buf \notin Wired
    BY <2>1, Disjoint, StageFacts
  <2>5. Apart'
    <3>1. \A s, r \in Streams : Contents(wire'[s]) \cap Contents(wire'[r]) # {} => s = r
      BY <2>2, <2>4, RecordFacts DEF Apart
    <3> QED BY <2>1, <3>1 DEF Apart
  <2>6. Moved(Stage, Stage', {buf}, "buf", "wire")
    <3>1. \A s \in DOMAIN Stage \ {"buf", "wire"} : Stage'[s] = Stage[s]
      BY <2>1, <2>3, StageFacts
    <3>2. buf \in Stage["buf"] /\ Stage'["buf"] = Stage["buf"] \ {buf}
      BY <2>1, StageFacts
    <3> QED BY <2>3, <3>1, <3>2, StageFacts DEF Moved
  <2> QED BY <2>5, <2>6, Move
<1>5. CASE SendFails
  <2>1. /\ buf # 0 /\ buf' = 0 /\ lost' = lost \cup {buf}
        /\ UNCHANGED <<accepted, in, wire, received, dropped>>
    BY <1>5 DEF SendFails, TypeOK, serverVars
  <2>2. Apart' /\ UNCHANGED <<Wired, TakenIn>>
    BY <2>1 DEF Apart, Wired, TakenIn
  <2>3. Moved(Stage, Stage', {buf}, "buf", "lost")
    <3>1. \A s \in DOMAIN Stage \ {"buf", "lost"} : Stage'[s] = Stage[s]
      BY <2>1, <2>2, StageFacts
    <3>2. buf \in Stage["buf"] /\ Stage'["buf"] = Stage["buf"] \ {buf}
      BY <2>1, StageFacts
    <3> QED BY <2>1, <3>1, <3>2, StageFacts DEF Moved
  <2> QED BY <2>2, <2>3, Move
<1> QED BY <1>2, <1>3, <1>4, <1>5

(* Taking records out of one stream takes them out of all.                 *)
LEMMA WireTaken ==
    ASSUME TypeOK, Apart, NEW s \in Streams, NEW q, NEW M, wire' = [wire EXCEPT ![s] = q],
           M \subseteq Contents(wire[s]), Contents(q) = Contents(wire[s]) \ M
    PROVE  /\ Wired' = Wired \ M /\ M \subseteq Wired
           /\ \A u, r \in Streams : Contents(wire'[u]) \cap Contents(wire'[r]) # {} => u = r
<1>1. wire'[s] = q /\ \A r \in Streams \ {s} : wire'[r] = wire[r]
  BY DEF TypeOK
<1>2. \A r \in Streams : Contents(wire'[r]) = Contents(wire[r]) \ M
  <2> SUFFICES ASSUME NEW r \in Streams \ {s} PROVE Contents(wire[r]) \cap M = {}
    BY <1>1
  <2> QED BY DEF Apart
<1>3. Wired' = Wired \ M
  BY <1>2 DEF Wired
<1> QED BY <1>2, <1>3 DEF Apart, Wired

(* A handler, the end of one, and a crash move what a stream holds.        *)
LEMMA OnceServer ==
    ASSUME OnceInv, ServerCrash \/ \E s \in Streams : HandlerRecv(s) \/ HandlerEnds(s)
    PROVE  Apart' /\ IsPartition(Stage)'
<1> USE DEF OnceInv, TypeInv
<1>0. Contents(<<>>) = {}
  BY DEF Contents
<1>1. CASE ServerCrash
  <2>1. /\ \A s \in Streams : wire'[s] = <<>>
        /\ lost' = lost \cup Wired
        /\ UNCHANGED <<accepted, in, buf, received, dropped>>
    BY <1>1 DEF ServerCrash, clientVars, Wired
  <2>2. Wired' = {} /\ UNCHANGED TakenIn /\ Apart'
    BY <1>0, <2>1 DEF Wired, TakenIn, Apart
  <2>3. Moved(Stage, Stage', Wired, "wire", "lost")
    <3>1. \A s \in DOMAIN Stage \ {"wire", "lost"} : Stage'[s] = Stage[s]
      BY <2>1, <2>2, StageFacts
    <3> QED BY <2>1, <2>2, <3>1, StageFacts DEF Moved
  <2> QED BY <2>2, <2>3, Move
<1>2. ASSUME NEW s \in Streams, HandlerEnds(s) PROVE Apart' /\ IsPartition(Stage)'
  <2> DEFINE M == Contents(wire[s])  q == <<>>
  <2>1. /\ wire' = [wire EXCEPT ![s] = q] /\ lost' = lost \cup M
        /\ UNCHANGED <<accepted, in, buf, received, dropped>>
        /\ Contents(q) = Contents(wire[s]) \ M /\ M \subseteq Contents(wire[s])
    BY <1>0, <1>2 DEF HandlerEnds, clientVars
  <2> HIDE DEF M, q
  <2>2. /\ Wired' = Wired \ M /\ M \subseteq Wired
        /\ \A u, r \in Streams : Contents(wire'[u]) \cap Contents(wire'[r]) # {} => u = r
    BY <2>1, WireTaken
  <2>3. Apart' /\ UNCHANGED TakenIn
    BY <2>1, <2>2 DEF Apart, TakenIn
  <2>4. Moved(Stage, Stage', M, "wire", "lost")
    <3>1. \A t \in DOMAIN Stage \ {"wire", "lost"} : Stage'[t] = Stage[t]
      BY <2>1, <2>3, StageFacts
    <3> QED BY <2>1, <2>2, <3>1, StageFacts DEF Moved
  <2> QED BY <2>3, <2>4, Move
<1>3. ASSUME NEW s \in Streams, HandlerRecv(s) PROVE Apart' /\ IsPartition(Stage)'
  <2> DEFINE k == Head(wire[s])  q == Tail(wire[s])
  <2>1. /\ wire[s] \in Seq(Records) /\ wire[s] # <<>> /\ k \in Records
        /\ wire' = [wire EXCEPT ![s] = q]
        /\ UNCHANGED <<accepted, in, buf, lost>>
    BY <1>3, HandlerFacts
  <2>2. k \in Contents(wire[s]) /\ Contents(q) = Contents(wire[s]) \ {k}
    BY <2>1, TailContents DEF OrderInv
  <2>3. {k} \subseteq Contents(wire[s])
    BY <2>2
  <2> HIDE DEF k, q
  <2>4. /\ Wired' = Wired \ {k} /\ {k} \subseteq Wired
        /\ \A u, r \in Streams : Contents(wire'[u]) \cap Contents(wire'[r]) # {} => u = r
    BY <2>1, <2>2, <2>3, WireTaken
  <2>5. k \notin TakenIn
    BY <2>1, <2>4, Disjoint, StageFacts
  <2>6. CASE UNCHANGED received /\ dropped' = dropped \cup {k}
    <3>1. Apart' /\ UNCHANGED TakenIn
      BY <2>4, <2>6 DEF Apart, TakenIn
    <3>2. Moved(Stage, Stage', {k}, "wire", "dropped")
      <4>1. \A t \in DOMAIN Stage \ {"wire", "dropped"} : Stage'[t] = Stage[t]
        BY <2>1, <3>1, StageFacts
      <4> QED BY <2>4, <2>6, <4>1, StageFacts DEF Moved
    <3> QED BY <3>1, <3>2, Move
  <2>7. CASE /\ DOMAIN received' = 1..(Len(received) + 1) /\ UNCHANGED dropped
             /\ DOMAIN received = 1..Len(received) /\ Len(received) \in Nat
             /\ \A i \in 1..Len(received) : received'[i] = received[i]
             /\ received'[Len(received) + 1].rec = k
    <3>1. \A i \in DOMAIN received' :
             \/ i \in DOMAIN received /\ received'[i] = received[i]
             \/ i = Len(received) + 1
      BY <2>7
    <3>2. DOMAIN received \subseteq DOMAIN received' /\ Len(received) + 1 \in DOMAIN received'
      BY <2>7
    <3>3. TakenIn' = TakenIn \cup {k}
      BY <2>7, <3>1, <3>2 DEF TakenIn
    <3>4. \A i, j \in DOMAIN received' : received'[i].rec = received'[j].rec => i = j
      BY <2>5, <2>7, <3>1, RecordFacts DEF Apart
    <3>5. Moved(Stage, Stage', {k}, "wire", "received")
      <4>1. \A t \in DOMAIN Stage \ {"wire", "received"} : Stage'[t] = Stage[t]
        BY <2>1, <2>7, StageFacts
      <4> QED BY <2>4, <3>3, <4>1, StageFacts DEF Moved
    <3> QED BY <2>4, <3>4, <3>5, Move DEF Apart
  <2> QED BY <1>3, <2>6, <2>7, HandlerFacts DEF k
<1> QED BY <1>1, <1>2, <1>3

(* Every step keeps each record in one place.                              *)
LEMMA OnceStep ==
    ASSUME OnceInv, [Next]_vars PROVE OnceInv'
<1>1. CASE Cancel \/ Dial \/ OpenStream \/ OpenStreamFails \/ ClientDone \/ ServerStart
           \/ Consume \/ UNCHANGED vars \/ \E s \in Streams : Break(s)
  <2>1. UNCHANGED <<accepted, in, buf, wire, received, dropped, lost>>
    BY <1>1 DEF Cancel, Dial, OpenStream, OpenStreamFails, ClientDone, ServerStart,
                Consume, Break, vars, clientVars, streamVars, serverVars
  <2> QED BY <2>1, OnceFrame, TypeStep, OrderStep DEF OnceInv
<1> QED BY <1>1, OnceClient, OnceServer, TypeStep, OrderStep DEF Next, ClientStep, OnceInv

(* The places that part n of the program has for what is found at D.       *)
Part(n, D) == {<<n, i>> : i \in D}

(* Tagging the places keeps their number: none stays none, one stays one.  *)
LEMMA Tagged ==
    ASSUME NEW n, NEW D
    PROVE  /\ D = {} => Part(n, D) = {}
           /\ (\E d : D = {d}) => \E p : Part(n, D) = {p}
<1>1. ASSUME NEW d, D = {d} PROVE Part(n, D) = {<<n, d>>}
  BY <1>1 DEF Part
<1>2. D = {} => Part(n, D) = {}
  BY DEF Part
<1> QED BY <1>1, <1>2

(* A part that holds a record holds it in one place.                       *)
LEMMA OncePlaces ==
    ASSUME OnceInv, NEW k \in 1..accepted
    PROVE  Cardinality(Places(k)) = 1
<1> USE DEF OnceInv, TypeInv
<1>1. k \in Records /\ k # 0 /\ k \notin Stage["new"]
  BY BoundAssumption, StageFacts DEF TypeOK, Records
<1> DEFINE InIn == {j \in DOMAIN in : in[j] = k}
           InBuf == {buf} \cap {k}
           At(s) == {<<"wire", s, i>> : i \in {j \in DOMAIN wire[s] : wire[s][j] = k}}
           InWire == UNION {At(s) : s \in Streams}
           InReceived == {j \in DOMAIN received : received[j].rec = k}
           InDropped == dropped \cap {k}
           InLost == lost \cap {k}
<1>2. /\ k \notin Stage["in"] => InIn = {}
      /\ k \in Stage["in"] => \E d : InIn = {d}
  <2>1. k \in Stage["in"] <=> InIn # {}
    BY StageFacts DEF Contents
  <2>2. \A d, e \in InIn : d = e
    <3>1. DOMAIN in = 1..Len(in) /\ Len(in) \in Nat /\ k \in Int
      BY <1>1, QueueFacts DEF TypeOK
    <3> QED BY <3>1 DEF OrderInv, Increasing
  <2> QED BY <2>1, <2>2
<1>3. /\ k \notin Stage["buf"] => InBuf = {}
      /\ k \in Stage["buf"] => \E d : InBuf = {d}
  <2>1. InBuf = IF k \in Stage["buf"] THEN {k} ELSE {}
    BY <1>1, StageFacts
  <2> QED BY <2>1
<1>4. /\ k \notin Stage["wire"] => InWire = {}
      /\ k \in Stage["wire"] => \E p : InWire = {p}
  <2>1. \A s \in Streams : k \in Contents(wire[s]) <=> At(s) # {}
    BY DEF Contents
  <2>2. k \notin Stage["wire"] => InWire = {}
    BY <2>1, StageFacts, RecordFacts
  <2>3. ASSUME k \in Stage["wire"] PROVE \E p : InWire = {p}
    <3>1. PICK s \in Streams : k \in Contents(wire[s])
      BY <2>3, StageFacts DEF Wired
    <3>2. \A r \in Streams : r # s => k \notin Contents(wire[r])
      BY <3>1 DEF Apart
    <3>3. InWire = At(s)
      BY <2>1, <3>2
    <3>4. PICK i \in DOMAIN wire[s] : wire[s][i] = k
      BY <3>1 DEF Contents
    <3>5. \A j \in DOMAIN wire[s] : wire[s][j] = k => j = i
      <4>1. DOMAIN wire[s] = 1..Len(wire[s]) /\ Len(wire[s]) \in Nat /\ k \in Int
        BY <1>1, WireFacts, QueueFacts
      <4> QED BY <3>4, <4>1 DEF OrderInv, Increasing
    <3>6. At(s) = {<<"wire", s, i>>}
      BY <3>4, <3>5
    <3> QED BY <3>3, <3>6
  <2> QED BY <2>2, <2>3
<1>5. /\ k \notin Stage["received"] => InReceived = {}
      /\ k \in Stage["received"] => \E d : InReceived = {d}
  <2>1. k \in Stage["received"] <=> InReceived # {}
    BY StageFacts DEF TakenIn
  <2>2. \A d, e \in InReceived : d = e
    BY DEF Apart
  <2> QED BY <2>1, <2>2
<1>6. /\ k \notin Stage["dropped"] => InDropped = {}
      /\ k \in Stage["dropped"] => \E d : InDropped = {d}
  <2>1. InDropped = IF k \in Stage["dropped"] THEN {k} ELSE {}
    BY StageFacts
  <2> QED BY <2>1
<1>7. /\ k \notin Stage["lost"] => InLost = {}
      /\ k \in Stage["lost"] => \E d : InLost = {d}
  <2>1. InLost = IF k \in Stage["lost"] THEN {k} ELSE {}
    BY StageFacts
  <2> QED BY <2>1
<1>8. PICK s \in DOMAIN Stage : \A t \in DOMAIN Stage : k \in Stage[t] <=> t = s
  BY <1>1 DEF IsPartition
<1>9. Places(k) = Part("in", InIn) \cup Part("buf", InBuf) \cup InWire
                     \cup Part("received", InReceived) \cup Part("dropped", InDropped)
                     \cup Part("lost", InLost)
  BY DEF Places, Part
<1>10. \E p : Places(k) = {p}
  <2> HIDE DEF InIn, InBuf, InWire, InReceived, InDropped, InLost
  <2>1. CASE s = "in"
    <3>1. \E p : Part("in", InIn) = {p}
      BY <1>2, <1>8, Tagged, <2>1, StageFacts
    <3>2. /\ Part("buf", InBuf) = {}
          /\ InWire = {}
          /\ Part("received", InReceived) = {}
          /\ Part("dropped", InDropped) = {}
          /\ Part("lost", InLost) = {}
      BY <1>2, <1>3, <1>4, <1>5, <1>6, <1>7, <1>8, Tagged, <2>1, StageFacts
    <3> QED BY <1>9, <3>1, <3>2
  <2>2. CASE s = "buf"
    <3>1. \E p : Part("buf", InBuf) = {p}
      BY <1>3, <1>8, Tagged, <2>2, StageFacts
    <3>2. /\ Part("in", InIn) = {}
          /\ InWire = {}
          /\ Part("received", InReceived) = {}
          /\ Part("dropped", InDropped) = {}
          /\ Part("lost", InLost) = {}
      BY <1>2, <1>3, <1>4, <1>5, <1>6, <1>7, <1>8, Tagged, <2>2, StageFacts
    <3> QED BY <1>9, <3>1, <3>2
  <2>3. CASE s = "wire"
    <3>1. \E p : InWire = {p}
      BY <1>4, <1>8, Tagged, <2>3, StageFacts
    <3>2. /\ Part("in", InIn) = {}
          /\ Part("buf", InBuf) = {}
          /\ Part("received", InReceived) = {}
          /\ Part("dropped", InDropped) = {}
          /\ Part("lost", InLost) = {}
      BY <1>2, <1>3, <1>4, <1>5, <1>6, <1>7, <1>8, Tagged, <2>3, StageFacts
    <3> QED BY <1>9, <3>1, <3>2
  <2>4. CASE s = "received"
    <3>1. \E p : Part("received", InReceived) = {p}
      BY <1>5, <1>8, Tagged, <2>4, StageFacts
    <3>2. /\ Part("in", InIn) = {}
          /\ Part("buf", InBuf) = {}
          /\ InWire = {}
          /\ Part("dropped", InDropped) = {}
          /\ Part("lost", InLost) = {}
      BY <1>2, <1>3, <1>4, <1>5, <1>6, <1>7, <1>8, Tagged, <2>4, StageFacts
    <3> QED BY <1>9, <3>1, <3>2
  <2>5. CASE s = "dropped"
    <3>1. \E p : Part("dropped", InDropped) = {p}
      BY <1>6, <1>8, Tagged, <2>5, StageFacts
    <3>2. /\ Part("in", InIn) = {}
          /\ Part("buf", InBuf) = {}
          /\ InWire = {}
          /\ Part("received", InReceived) = {}
          /\ Part("lost", InLost) = {}
      BY <1>2, <1>3, <1>4, <1>5, <1>6, <1>7, <1>8, Tagged, <2>5, StageFacts
    <3> QED BY <1>9, <3>1, <3>2
  <2>6. CASE s = "lost"
    <3>1. \E p : Part("lost", InLost) = {p}
      BY <1>7, <1>8, Tagged, <2>6, StageFacts
    <3>2. /\ Part("in", InIn) = {}
          /\ Part("buf", InBuf) = {}
          /\ InWire = {}
          /\ Part("received", InReceived) = {}
          /\ Part("dropped", InDropped) = {}
      BY <1>2, <1>3, <1>4, <1>5, <1>6, <1>7, <1>8, Tagged, <2>6, StageFacts
    <3> QED BY <1>9, <3>1, <3>2
  <2> QED BY <1>1, <1>8, <2>1, <2>2, <2>3, <2>4, <2>5, <2>6, StageFacts
<1> QED BY <1>10, FS_Singleton

(* A record that was accepted is in one place: waiting, in hand, under     *)
(* way, received, dropped at the server's full channel or gone with a      *)
(* stream; no reconnection or crash leads to a second copy of it.          *)
THEOREM RecordsConserved == Spec => []Conservation
<1>1. OnceInv /\ [Next]_vars => OnceInv'
  BY OnceStep
<1>2. OnceInv => Conservation
  BY OncePlaces DEF Conservation
<1> QED BY <1>1, <1>2, OnceInit, PTL DEF Spec

-----------------------------------------------------------------------------
(* The records received, in order of arrival: what AtMostOnce calls        *)
(* delivered.                                                              *)
Delivered == [i \in DOMAIN received |-> received[i].rec]

(* A function on 1..n is a sequence of length n.                           *)
LEMMA SequenceOf ==
    ASSUME NEW S, NEW n \in Nat, NEW f \in [1..n -> S]
    PROVE  f \in Seq(S) /\ Len(f) = n
<1>1. f \in Seq(S)
  BY SeqDef
<1>2. DOMAIN f = 1..Len(f) /\ Len(f) \in Nat /\ DOMAIN f = 1..n
  BY <1>1, LenProperties
<1> QED BY <1>1, <1>2

(* Receiving a record delivers it.                                         *)
LEMMA DeliveredGrows ==
    ASSUME TypeOK, NEW k \in Records,
           DOMAIN received' = 1..(Len(received) + 1),
           DOMAIN received = 1..Len(received), Len(received) \in Nat,
           \A i \in 1..Len(received) : received'[i] = received[i],
           received'[Len(received) + 1].rec = k
    PROVE  Delivered' = Append(Delivered, k)
<1> DEFINE n == Len(received)
<1>1. Delivered \in [1..n -> Records]
  BY RecordFacts DEF Delivered
<1>2. Delivered \in Seq(Records) /\ Len(Delivered) = n
  BY <1>1, SequenceOf
<1>3. /\ Append(Delivered, k) \in Seq(Records) /\ Len(Append(Delivered, k)) = n + 1
      /\ \A i \in 1..n : Append(Delivered, k)[i] = received[i].rec
      /\ Append(Delivered, k)[n + 1] = k
  <2>1. \A i \in 1..n : Delivered[i] = received[i].rec
    BY DEF Delivered
  <2> QED BY <1>2, <2>1, QueueFacts
<1>4. /\ Delivered' \in [1..(n + 1) -> Records]
      /\ \A i \in 1..n : Delivered'[i] = received[i].rec
      /\ Delivered'[n + 1] = k
  <2>1. \A i \in 1..n : received[i].rec \in Records
    BY RecordFacts
  <2> QED BY <2>1 DEF Delivered
<1>5. Delivered' \in Seq(Records) /\ Len(Delivered') = n + 1
  <2>1. n + 1 \in Nat
    OBVIOUS
  <2> HIDE DEF n
  <2> QED BY <1>4, <2>1, SequenceOf
<1>6. \A i \in 1..(n + 1) : Delivered'[i] = Append(Delivered, k)[i]
  BY <1>3, <1>4
<1> HIDE DEF n
<1> QED BY <1>3, <1>5, <1>6, SeqEqual

(* Central collection delivers every record at most once, and none that    *)
(* was not accepted: the two programs, with their reconnections, crashes   *)
(* and full channels, implement AtMostOnce.                                *)
THEOREM ImplementsAtMostOnce == Spec => DeliversAtMostOnce
<1>1. Init => Collected!Init
  BY DEF Init, Collected!Init
<1>2. OnceInv /\ [Next]_vars => [Collected!Next]_<<accepted, Delivered>>
  <2> SUFFICES ASSUME OnceInv, [Next]_vars
               PROVE  Collected!Next \/ UNCHANGED <<accepted, Delivered>>
    OBVIOUS
  <2> USE DEF OnceInv, TypeInv
  <2>1. CASE Accept
    BY <2>1 DEF Accept, serverVars, Collected!Next, Collected!Accept, Delivered
  <2>2. ASSUME NEW s \in Streams, HandlerRecv(s)
        PROVE  Collected!Next \/ UNCHANGED <<accepted, Delivered>>
    <3> DEFINE k == Head(wire[s])
    <3>1. CASE UNCHANGED received
      BY <2>2, <3>1, HandlerFacts DEF Delivered
    <3>2. CASE /\ DOMAIN received' = 1..(Len(received) + 1)
               /\ DOMAIN received = 1..Len(received) /\ Len(received) \in Nat
               /\ \A i \in 1..Len(received) : received'[i] = received[i]
               /\ received'[Len(received) + 1].rec = k
      <4>1. wire[s] \in Seq(Records) /\ k \in Records /\ wire[s] # <<>> /\ UNCHANGED accepted
        BY <2>2, HandlerFacts
      <4>2. k \in Wired
        BY <4>1, TailContents DEF OrderInv, Wired
      <4>3. k \notin TakenIn /\ k \in 1..accepted
        BY <4>1, <4>2, Disjoint, StageFacts
      <4>4. k \notin Collected!Arrived
        BY <4>3 DEF Collected!Arrived, TakenIn
      <4>5. Delivered' = Append(Delivered, k)
        BY <3>2, <4>1, DeliveredGrows
      <4> QED BY <4>1, <4>3, <4>4, <4>5 DEF Collected!Next, Collected!Deliver, Delivered
    <3> QED BY <2>2, <3>1, <3>2, HandlerFacts
  <2>3. CASE Cancel \/ ClientStep \/ ServerCrash \/ ServerStart \/ Consume \/ UNCHANGED vars
             \/ \E s \in Streams : Break(s) \/ HandlerEnds(s)
    <3>1. UNCHANGED <<accepted, received>>
      BY <2>3 DEF Cancel, ClientStep, Dial, OpenStream, OpenStreamFails, Select, Send,
                  SendFails, ClientDone, ServerCrash, ServerStart, Consume, Break,
                  HandlerEnds, vars, clientVars, streamVars, serverVars
    <3> QED BY <3>1 DEF Delivered
  <2> QED BY <2>1, <2>2, <2>3 DEF Next
<1>3. OnceInv /\ [Next]_vars => OnceInv'
  BY OnceStep
<1> QED BY <1>1, <1>2, <1>3, OnceInit, PTL
        DEF Spec, DeliversAtMostOnce, Collected!Spec, Delivered
=============================================================================
