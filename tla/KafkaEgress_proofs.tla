-------------------------- MODULE KafkaEgress_proofs --------------------------
(***************************************************************************)
(* The Kafka egress of the agent, for any number of workers, buffers and   *)
(* records, any capacities, and both kinds of loop.                        *)
(***************************************************************************)
EXTENDS KafkaEgress, SequenceTheorems, FiniteSetTheorems, TLAPS

-----------------------------------------------------------------------------
(* Taking from and adding to a channel.                                    *)
LEMMA QueueFacts ==
    ASSUME NEW S, NEW q \in Seq(S)
    PROVE  /\ Len(q) \in Nat /\ DOMAIN q = 1..Len(q)
           /\ \A i \in 1..Len(q) : q[i] \in S
           /\ q # <<>> => /\ Head(q) \in S /\ Head(q) = q[1] /\ Len(q) >= 1
                          /\ Tail(q) \in Seq(S) /\ Len(Tail(q)) = Len(q) - 1
                          /\ \A i \in 1..(Len(q) - 1) : Tail(q)[i] = q[i + 1]
           /\ \A x \in S : /\ Append(q, x) \in Seq(S)
                           /\ Len(Append(q, x)) = Len(q) + 1
                           /\ \A i \in 1..Len(q) : Append(q, x)[i] = q[i]
                           /\ Append(q, x)[Len(q) + 1] = x
BY HeadTailProperties, AppendProperties, LenProperties

NoRepeats(q) == \A i, j \in DOMAIN q : q[i] = q[j] => i = j

(* What that does to the elements of a channel.                            *)
LEMMA TailFacts ==
    ASSUME NEW S, NEW q \in Seq(S), q # <<>>
    PROVE  /\ Head(q) \in Contents(q)
           /\ Contents(q) = Contents(Tail(q)) \cup {Head(q)}
           /\ NoRepeats(q) => NoRepeats(Tail(q)) /\ Head(q) \notin Contents(Tail(q))
<1>1. /\ DOMAIN q = 1..Len(q) /\ Len(q) \in Nat /\ Len(q) >= 1 /\ Head(q) = q[1]
      /\ DOMAIN Tail(q) = 1..(Len(q) - 1)
      /\ \A i \in 1..(Len(q) - 1) : Tail(q)[i] = q[i + 1]
  <2>1. Tail(q) \in Seq(S) /\ Len(Tail(q)) = Len(q) - 1
    BY QueueFacts
  <2> QED BY <2>1, QueueFacts
<1>2. \A i \in 2..Len(q) : i - 1 \in 1..(Len(q) - 1) /\ Tail(q)[i - 1] = q[i]
  BY <1>1
<1>3. NoRepeats(q) => NoRepeats(Tail(q)) /\ Head(q) \notin Contents(Tail(q))
  BY <1>1 DEF Contents, NoRepeats
<1>4. Contents(Tail(q)) \cup {Head(q)} \subseteq Contents(q)
  BY <1>1 DEF Contents
<1>5. Contents(q) \subseteq Contents(Tail(q)) \cup {Head(q)}
  <2> SUFFICES ASSUME NEW i \in 2..Len(q) PROVE q[i] \in Contents(Tail(q))
    BY <1>1 DEF Contents
  <2> QED BY <1>1, <1>2 DEF Contents
<1> QED BY <1>3, <1>4, <1>5

(* Adding puts the new element last.                                       *)
LEMMA AppendContents ==
    ASSUME NEW S, NEW q \in Seq(S), NEW x \in S
    PROVE  /\ Contents(Append(q, x)) = Contents(q) \cup {x}
           /\ NoRepeats(q) /\ x \notin Contents(q) => NoRepeats(Append(q, x))
<1> USE DEF Contents, NoRepeats
<1>1. /\ DOMAIN q = 1..Len(q) /\ Len(q) \in Nat
      /\ DOMAIN Append(q, x) = 1..(Len(q) + 1)
      /\ \A i \in 1..Len(q) : Append(q, x)[i] = q[i]
      /\ Append(q, x)[Len(q) + 1] = x
  <2>1. Append(q, x) \in Seq(S) /\ Len(Append(q, x)) = Len(q) + 1
    BY QueueFacts
  <2> QED BY <2>1, QueueFacts
<1> QED BY <1>1

-----------------------------------------------------------------------------
(* A worker has a message exactly while it sends it, the JSON loop encodes *)
(* from a buffer, and the buffers in use are filled.                       *)
KindInv ==
    /\ \A w \in Workers : wmsg[w] # 0 <=> wpc[w] = "send"
    /\ lpc = "encode" => lbuf # Nil
    /\ \A b \in InUse \ {Nil} : content[b] # 0

TypeInv == TypeOK /\ KindInv

(* Nothing is in use at first.                                             *)
LEMMA TypeInit == Init => TypeInv
<1> SUFFICES ASSUME Init PROVE TypeInv
  OBVIOUS
<1>1. /\ wpc \in [Workers -> {"off", "select", "marshal", "send", "done"}]
      /\ \A w \in Workers : wpc[w] \in {"off", "select"}
  BY DEF Init
<1>2. InUse \subseteq {Nil}
  BY DEF Init, InUse, Contents
<1> QED BY <1>1, <1>2, EgressAssumption DEF Init, TypeInv, TypeOK, KindInv, Records

(* The buffers of the channel are what it says.                            *)
LEMMA InUseFacts ==
    ASSUME TypeInv
    PROVE  /\ Contents(dCh) \subseteq Buffers /\ Nil \notin Buffers
           /\ \A i \in DOMAIN dCh : dCh[i] \in Buffers /\ content[dCh[i]] \in Records
           /\ \A w \in Workers :
                 wbuf[w] # Nil => wbuf[w] \in Buffers /\ content[wbuf[w]] \in Records
           /\ lbuf # Nil => lbuf \in Buffers /\ content[lbuf] \in Records
<1>1. Contents(dCh) \subseteq Buffers /\ Nil \notin Buffers
  BY QueueFacts, EgressAssumption DEF TypeInv, TypeOK, Contents
<1>2. \A b \in Buffers : content[b] # 0 => content[b] \in Records
  BY EgressAssumption DEF TypeInv, TypeOK, Records
<1>3. \A i \in DOMAIN dCh : dCh[i] \in Contents(dCh)
  BY DEF Contents
<1> QED BY <1>1, <1>2, <1>3 DEF InUse, TypeInv, TypeOK, KindInv

(* A record is accepted.                                                   *)
LEMMA TypeAccept ==
    ASSUME TypeInv, Accept PROVE TypeInv'
<1> USE EgressAssumption DEF TypeInv
<1>1. PICK b \in Buffers : /\ content' = [content EXCEPT ![b] = accepted + 1]
                           /\ dCh' = Append(dCh, b) /\ pool' = pool \ {b}
  BY DEF Accept
<1>2. /\ accepted < MaxRecords /\ Len(dCh) < InCap /\ accepted' = accepted + 1
      /\ UNCHANGED <<Serialization, ctx, workerVars, bCh, loopVars, producerVars, failed,
                     discarded>>
  BY DEF Accept
<1>3. /\ accepted \in Nat /\ accepted' \in 0..MaxRecords /\ accepted + 1 # 0
      /\ dCh \in Seq(Buffers) /\ content \in [Buffers -> 0..MaxRecords]
  BY <1>2 DEF TypeOK
<1>4. /\ dCh' \in Seq(Buffers) /\ Len(dCh') <= InCap
      /\ Contents(dCh') = Contents(dCh) \cup {b}
  BY <1>1, <1>2, <1>3, QueueFacts, AppendContents
<1>5. content' \in [Buffers -> 0..MaxRecords] /\ \A c \in Buffers : content[c] # 0 => content'[c] # 0
  BY <1>1, <1>2, <1>3
<1>6. content'[b] # 0
  BY <1>1, <1>3
<1>7. TypeOK'
  BY <1>1, <1>2, <1>3, <1>4, <1>5 DEF TypeOK, workerVars, loopVars, producerVars
<1>8. \A c \in InUse' \ {Nil} : c = b \/ c \in InUse
  BY <1>2, <1>4 DEF InUse, workerVars, loopVars
<1>9. InUse \ {Nil} \subseteq Buffers
  BY InUseFacts DEF InUse, TypeOK
<1>10. KindInv'
  BY <1>2, <1>5, <1>6, <1>8, <1>9 DEF KindInv, workerVars, loopVars
<1> QED BY <1>7, <1>10

(* The steps that fill no buffer use none that was not in use before.      *)
LEMMA FilledStay ==
    ASSUME KindInv, content' = content, InUse' \subseteq InUse \cup {Nil}
    PROVE  \A b \in InUse' \ {Nil} : content'[b] # 0
BY DEF KindInv

(* The workers.                                                            *)
LEMMA TypeWorker ==
    ASSUME TypeInv, NEW w \in Workers, WorkerStep(w)
    PROVE  TypeInv'
<1> USE DEF TypeInv
<1>1. CASE WorkerRecv(w)
  <2>1. /\ wpc[w] = "select" /\ dCh # <<>> /\ dCh' = Tail(dCh) /\ dCh \in Seq(Buffers)
        /\ wbuf' = [wbuf EXCEPT ![w] = Head(dCh)] /\ wpc' = [wpc EXCEPT ![w] = "marshal"]
        /\ content' = content /\ UNCHANGED <<wmsg, loopVars>>
        /\ wbuf \in [Workers -> Buffers \cup {Nil}]
    BY <1>1 DEF WorkerRecv, TypeOK
  <2>2. /\ dCh' \in Seq(Buffers) /\ Len(dCh') <= InCap
        /\ Head(dCh) \in Buffers /\ Head(dCh) # Nil
        /\ Head(dCh) \in Contents(dCh) /\ Contents(dCh') \subseteq Contents(dCh)
    BY <2>1, QueueFacts, TailFacts, EgressAssumption DEF TypeOK
  <2>3. InUse' \subseteq InUse \cup {Nil}
    BY <2>1, <2>2 DEF InUse, loopVars
  <2>4. KindInv'
    BY <2>1, <2>3, FilledStay DEF KindInv, loopVars, TypeOK
  <2>5. TypeOK'
    BY <1>1, <2>1, <2>2 DEF WorkerRecv, TypeOK, sourceVars, loopVars, producerVars
  <2> QED BY <2>4, <2>5
<1>2. CASE WorkerMarshal(w)
  <2>1. /\ content[wbuf[w]] \in Records /\ content[wbuf[w]] # 0
        /\ content[wbuf[w]] \in 0..MaxRecords
    BY <1>2, InUseFacts, EgressAssumption DEF WorkerMarshal, TypeOK, Records
  <2>2. UNCHANGED <<content, dCh, wbuf, lbuf>>
    BY <1>2 DEF WorkerMarshal, loopVars
  <2>3. InUse' \subseteq InUse \cup {Nil}
    BY <2>2 DEF InUse
  <2>4. KindInv'
    BY <1>2, <2>1, <2>2, <2>3, FilledStay DEF WorkerMarshal, KindInv, loopVars, TypeOK
  <2>5. TypeOK'
    BY <1>2, <2>1 DEF WorkerMarshal, TypeOK, sourceVars, loopVars, producerVars
  <2> QED BY <2>4, <2>5
<1>3. CASE WorkerSend(w)
  <2>1. wmsg[w] \in Records /\ wbuf[w] \in Buffers
    BY <1>3, EgressAssumption DEF WorkerSend, TypeOK, KindInv, Records
  <2>2. bCh' \in Seq(Records) /\ Len(bCh') <= BCap
    BY <1>3, <2>1, QueueFacts, EgressAssumption DEF WorkerSend, TypeOK
  <2>3. UNCHANGED <<content, dCh, lbuf>> /\ wbuf' = [wbuf EXCEPT ![w] = Nil]
    BY <1>3 DEF WorkerSend, loopVars
  <2>4. InUse' \subseteq InUse \cup {Nil}
    BY <2>3 DEF InUse, TypeOK
  <2>5. KindInv'
    BY <1>3, <2>3, <2>4, FilledStay DEF WorkerSend, KindInv, loopVars, TypeOK
  <2>6. TypeOK'
    BY <1>3, <2>1, <2>2, EgressAssumption
       DEF WorkerSend, TypeOK, sourceVars, loopVars, producerVars
  <2> QED BY <2>5, <2>6
<1>4. CASE WorkerDone(w)
  <2>1. UNCHANGED <<content, dCh, wbuf, lbuf>>
    BY <1>4 DEF WorkerDone, loopVars
  <2>2. InUse' \subseteq InUse \cup {Nil}
    BY <2>1 DEF InUse
  <2>3. KindInv'
    BY <1>4, <2>1, <2>2, FilledStay DEF WorkerDone, KindInv, loopVars, TypeOK
  <2>4. TypeOK'
    BY <1>4 DEF WorkerDone, TypeOK, sourceVars, loopVars, producerVars
  <2> QED BY <2>3, <2>4
<1> QED BY <1>1, <1>2, <1>3, <1>4 DEF WorkerStep

(* The loop, the producer and the signal handler.                          *)
LEMMA TypeLoop ==
    ASSUME TypeInv, LoopStep \/ ProducerStep \/ Cancel
    PROVE  TypeInv'
<1> USE EgressAssumption DEF TypeInv, workerVars
<1>1. CASE ProtobufRecv
  <2>1. /\ bCh' \in Seq(Records) /\ Len(bCh') <= BCap
        /\ Head(bCh) \in Records /\ Head(bCh) # 0 /\ Head(bCh) \in 0..MaxRecords
    BY <1>1, QueueFacts DEF ProtobufRecv, TypeOK, Records
  <2>2. InUse' \subseteq InUse \cup {Nil} /\ content' = content
    BY <1>1 DEF ProtobufRecv, InUse
  <2>3. KindInv'
    BY <1>1, <2>2, FilledStay DEF ProtobufRecv, KindInv
  <2>4. TypeOK'
    BY <1>1, <2>1 DEF ProtobufRecv, TypeOK, sourceVars, producerVars
  <2> QED BY <2>3, <2>4
<1>2. CASE JsonRecv
  <2>1. /\ dCh # <<>> /\ dCh' = Tail(dCh) /\ dCh \in Seq(Buffers) /\ lbuf' = Head(dCh)
    BY <1>2 DEF JsonRecv, TypeOK
  <2>2. /\ dCh' \in Seq(Buffers) /\ Len(dCh') <= InCap
        /\ Head(dCh) \in Buffers /\ Head(dCh) # Nil
        /\ Head(dCh) \in Contents(dCh) /\ Contents(dCh') \subseteq Contents(dCh)
    BY <2>1, QueueFacts, TailFacts DEF TypeOK
  <2>3. InUse' \subseteq InUse \cup {Nil} /\ content' = content
    BY <1>2, <2>1, <2>2 DEF JsonRecv, InUse
  <2>4. KindInv'
    BY <1>2, <2>1, <2>2, <2>3, FilledStay DEF JsonRecv, KindInv
  <2>5. TypeOK'
    BY <1>2, <2>1, <2>2 DEF JsonRecv, TypeOK, sourceVars, producerVars
  <2> QED BY <2>4, <2>5
<1>3. CASE AddHostname
  <2>1. /\ content[lbuf] \in Records /\ content[lbuf] # 0 /\ content[lbuf] \in 0..MaxRecords
    BY <1>3, InUseFacts DEF AddHostname, TypeOK, KindInv, Records
  <2>2. InUse' \subseteq InUse \cup {Nil} /\ content' = content
    BY <1>3 DEF AddHostname, InUse
  <2>3. KindInv'
    BY <1>3, <2>2, FilledStay DEF AddHostname, KindInv
  <2>4. TypeOK'
    BY <1>3, <2>1 DEF AddHostname, TypeOK, sourceVars, producerVars
  <2> QED BY <2>3, <2>4
<1>4. CASE Input \/ Errors
  <2>1. /\ InUse' \subseteq InUse \cup {Nil} /\ content' = content
        /\ lpc' = "select" /\ lbuf' = Nil /\ lmsg' = 0 /\ pool' \subseteq Buffers
    BY <1>4 DEF Input, Errors, LoopReturns, InUse, TypeOK
  <2>2. KindInv'
    BY <1>4, <2>1, FilledStay DEF Input, Errors, KindInv
  <2>3. lmsg \in Records /\ (perr # 0 => perr \in Records)
    BY <1>4 DEF Input, Errors, TypeOK, Records
  <2>4. CASE Input
    <3>1. prod' \in Seq(Records) /\ Len(prod') <= ProdCap
      BY <2>3, <2>4, QueueFacts DEF Input, TypeOK
    <3> QED BY <2>1, <2>2, <2>4, <3>1 DEF Input, TypeOK, sourceVars, producerVars
  <2>5. CASE Errors
    BY <2>1, <2>2, <2>3, <2>5 DEF Errors, TypeOK, sourceVars, producerVars
  <2> QED BY <1>4, <2>4, <2>5
<1>5. CASE LoopDone \/ Cancel
  <2>1. InUse' \subseteq InUse \cup {Nil} /\ content' = content
    BY <1>5 DEF LoopDone, Cancel, InUse, loopVars
  <2>2. KindInv'
    BY <1>5, <2>1, FilledStay DEF LoopDone, Cancel, KindInv, loopVars
  <2> QED BY <1>5, <2>2 DEF LoopDone, Cancel, TypeOK, sourceVars, loopVars, producerVars
<1>6. CASE ProducerStep
  <2>1. InUse' \subseteq InUse \cup {Nil} /\ content' = content
    BY <1>6 DEF ProducerStep, Deliver, Fail, InUse, loopVars
  <2>2. KindInv'
    BY <1>6, <2>1, FilledStay DEF ProducerStep, Deliver, Fail, KindInv, loopVars
  <2>3. /\ prod # <<>> /\ prod' = Tail(prod) /\ prod \in Seq(Records) /\ delivered \in Seq(Records)
        /\ Len(prod) <= ProdCap
    BY <1>6 DEF ProducerStep, Deliver, Fail, TypeOK
  <2>4. /\ prod' \in Seq(Records) /\ Len(prod') <= ProdCap /\ Head(prod) \in Records
        /\ Append(delivered, Head(prod)) \in Seq(Records)
    BY <2>3, QueueFacts
  <2>5. Head(prod) \in 0..MaxRecords
    BY <2>4 DEF Records
  <2> QED BY <1>6, <2>2, <2>4, <2>5
          DEF ProducerStep, Deliver, Fail, TypeOK, sourceVars, loopVars
<1> QED BY <1>1, <1>2, <1>3, <1>4, <1>5, <1>6 DEF LoopStep

(* Every step keeps every variable's kind.                                 *)
LEMMA TypeStep ==
    ASSUME TypeInv, [Next]_vars PROVE TypeInv'
<1>1. CASE UNCHANGED vars
  BY <1>1 DEF vars, sourceVars, workerVars, loopVars, producerVars, TypeInv, TypeOK,
              KindInv, InUse, Contents
<1> QED BY <1>1, TypeAccept, TypeWorker, TypeLoop DEF Next

(* Every variable keeps its kind, the channels keep within their           *)
(* capacities, and a worker or the JSON loop holds a buffer exactly from   *)
(* its receive to its Put.                                                 *)
THEOREM TypeCorrect == Spec => []TypeOK
<1>1. TypeInv => TypeOK
  BY DEF TypeInv
<1>2. TypeInv /\ [Next]_vars => TypeInv'
  BY TypeStep
<1> QED BY <1>1, <1>2, TypeInit, PTL DEF Spec
-----------------------------------------------------------------------------
(* No element is in two parts of P.                                        *)
IsApart(P) == \A s, t \in DOMAIN P : s # t => P[s] \cap P[t] = {}

(* Every record is in a part of P.                                         *)
Covers(P) == \A k \in Records : \E s \in DOMAIN P : k \in P[s]

(* The elements of M move from part a of P to part b and make it Q.        *)
Moved(P, Q, M, a, b) ==
    /\ a \in DOMAIN P /\ b \in DOMAIN P /\ a # b
    /\ M \subseteq P[a]
    /\ DOMAIN Q = DOMAIN P
    /\ Q[a] = P[a] \ M /\ Q[b] = P[b] \cup M
    /\ \A s \in DOMAIN P \ {a, b} : Q[s] = P[s]

(* Moving keeps the parts apart and loses nothing.                         *)
LEMMA Move ==
    ASSUME NEW P, NEW Q, NEW M, NEW a, NEW b, IsApart(P), Moved(P, Q, M, a, b)
    PROVE  IsApart(Q) /\ (Covers(P) => Covers(Q))
<1> USE DEF Moved
<1>1. ASSUME NEW s \in DOMAIN P, NEW t \in DOMAIN P, s # t, NEW k \in Q[s], k \in Q[t]
      PROVE  FALSE
  <2>1. CASE k \in M
    <3>1. \A u \in DOMAIN P : k \in P[u] => u = a
      BY <2>1 DEF IsApart
    <3>2. \A u \in DOMAIN P : k \in Q[u] => u = b
      BY <2>1, <3>1
    <3> QED BY <1>1, <3>2
  <2>2. CASE k \notin M
    <3>1. k \in P[s] /\ k \in P[t]
      BY <1>1, <2>2
    <3> QED BY <1>1, <3>1 DEF IsApart
  <2> QED BY <2>1, <2>2
<1>2. ASSUME Covers(P), NEW k \in Records PROVE \E s \in DOMAIN Q : k \in Q[s]
  <2>1. PICK s \in DOMAIN P : k \in P[s]
    BY <1>2 DEF Covers
  <2>2. k \in Q[s] \/ k \in Q[b]
    BY <2>1
  <2> QED BY <2>1, <2>2
<1> QED BY <1>1, <1>2 DEF IsApart, Covers

(* Nothing is in two parts.                                                *)
LEMMA Disjoint ==
    ASSUME NEW P, IsApart(P), NEW k,
           NEW s \in DOMAIN P, NEW t \in DOMAIN P, k \in P[s], k \in P[t]
    PROVE  s = t
BY DEF IsApart

-----------------------------------------------------------------------------
(* Who holds buffers.                                                      *)
Holder ==
    [pool   |-> pool,
     dCh    |-> Contents(dCh),
     worker |-> {wbuf[w] : w \in Workers} \ {Nil},
     loop   |-> {lbuf} \ {Nil}]

(* A buffer is in the pool, in the channel, with a worker or with the loop,*)
(* once: nobody fills it while somebody else still reads it.               *)
BufferInv ==
    /\ IsApart(Holder)
    /\ NoRepeats(dCh)
    /\ \A v, w \in Workers : wbuf[v] = wbuf[w] /\ wbuf[v] # Nil => v = w

(* The holders, before and after a step.                                   *)
LEMMA HolderFacts ==
    /\ DOMAIN Holder = {"pool", "dCh", "worker", "loop"}
    /\ Holder["pool"] = pool /\ Holder["dCh"] = Contents(dCh)
    /\ Holder["worker"] = {wbuf[w] : w \in Workers} \ {Nil}
    /\ Holder["loop"] = {lbuf} \ {Nil}
    /\ DOMAIN Holder' = {"pool", "dCh", "worker", "loop"}
    /\ Holder'["pool"] = pool' /\ Holder'["dCh"] = Contents(dCh')
    /\ Holder'["worker"] = {wbuf'[w] : w \in Workers} \ {Nil}
    /\ Holder'["loop"] = {lbuf'} \ {Nil}
BY DEF Holder

(* Nothing is held at first.                                               *)
LEMMA BufferInit == Init => BufferInv
<1> SUFFICES ASSUME Init PROVE BufferInv
  OBVIOUS
<1>1. \A s \in DOMAIN Holder : Holder[s] = {}
  <2>1. Contents(dCh) = {} /\ pool = {} /\ lbuf = Nil /\ {wbuf[w] : w \in Workers} \ {Nil} = {}
    BY DEF Init, Contents
  <2> QED BY <2>1, HolderFacts
<1> QED BY <1>1 DEF Init, BufferInv, IsApart, NoRepeats

(* A record goes into a buffer of the pool, or one that nobody holds.      *)
LEMMA AcceptFacts ==
    ASSUME TypeInv, BufferInv, Accept
    PROVE  \E b \in Buffers :
              /\ b \notin InUse
              /\ pool' = pool \ {b} /\ content' = [content EXCEPT ![b] = accepted + 1]
              /\ dCh \in Seq(Buffers) /\ dCh' = Append(dCh, b)
              /\ Contents(dCh') = Contents(dCh) \cup {b} /\ NoRepeats(dCh')
              /\ accepted' = accepted + 1 /\ accepted' \in Records /\ accepted \in Nat
<1> USE DEF TypeInv
<1>1. PICK b \in Buffers : /\ b \in pool \/ b \notin InUse
                           /\ content' = [content EXCEPT ![b] = accepted + 1]
                           /\ dCh' = Append(dCh, b) /\ pool' = pool \ {b}
  BY DEF Accept
<1>2. b \notin InUse
  <2>1. CASE b \in pool
    <3>1. /\ b \notin Holder["dCh"] /\ b \notin Holder["worker"] /\ b \notin Holder["loop"]
      BY <2>1, HolderFacts DEF BufferInv, IsApart
    <3> QED BY <3>1, HolderFacts, InUseFacts DEF InUse
  <2> QED BY <1>1, <2>1
<1>3. dCh \in Seq(Buffers) /\ NoRepeats(dCh) /\ b \notin Contents(dCh)
  BY <1>2 DEF TypeOK, BufferInv, InUse
<1>4. Contents(dCh') = Contents(dCh) \cup {b} /\ NoRepeats(dCh')
  BY <1>1, <1>3, AppendContents
<1>5. accepted' = accepted + 1 /\ accepted' \in Records /\ accepted \in Nat
  BY EgressAssumption DEF Accept, TypeOK, Records
<1> QED BY <1>1, <1>2, <1>3, <1>4, <1>5

(* The steps that hand a buffer on.                                        *)
LEMMA BufferStep ==
    ASSUME TypeInv, BufferInv, [Next]_vars PROVE BufferInv'
<1> USE DEF TypeInv
<1>0. /\ dCh \in Seq(Buffers) /\ Nil \notin Buffers /\ NoRepeats(dCh)
      /\ wbuf \in [Workers -> Buffers \cup {Nil}] /\ IsApart(Holder)
      /\ \A v, w \in Workers : wbuf[v] = wbuf[w] /\ wbuf[v] # Nil => v = w
  BY EgressAssumption DEF TypeOK, BufferInv
<1>1. CASE Accept
  <2>1. PICK b \in Buffers : /\ b \notin InUse /\ pool' = pool \ {b}
                             /\ Contents(dCh') = Contents(dCh) \cup {b} /\ NoRepeats(dCh')
    BY <1>1, AcceptFacts
  <2>2. UNCHANGED <<wbuf, lbuf>>
    BY <1>1 DEF Accept, workerVars, loopVars
  <2>3. /\ \A s \in DOMAIN Holder \ {"dCh"} : Holder'[s] = Holder[s] \ {b}
        /\ Holder'["dCh"] = Holder["dCh"] \cup {b}
    <3>1. b \notin {wbuf[w] : w \in Workers} /\ b # lbuf
      BY <2>1 DEF InUse
    <3> QED BY <2>1, <2>2, <3>1, HolderFacts
  <2>4. IsApart(Holder')
    BY <1>0, <2>3, HolderFacts DEF IsApart
  <2> QED BY <1>0, <2>1, <2>2, <2>4 DEF BufferInv
<1>2. ASSUME NEW w \in Workers, WorkerRecv(w) PROVE BufferInv'
  <2> DEFINE b == Head(dCh)
  <2>1. /\ dCh # <<>> /\ dCh' = Tail(dCh) /\ wbuf' = [wbuf EXCEPT ![w] = b]
        /\ wbuf[w] = Nil /\ UNCHANGED <<pool, lbuf>>
    BY <1>2 DEF WorkerRecv, TypeOK, loopVars
  <2>2. /\ b \in Contents(dCh) /\ Contents(dCh') = Contents(dCh) \ {b} /\ NoRepeats(dCh')
        /\ b \in Buffers
    BY <1>0, <2>1, QueueFacts, TailFacts
  <2> HIDE DEF b
  <2>3. b \notin Holder["worker"]
    BY <1>0, <2>2, HolderFacts, Disjoint
  <2>4. Holder'["worker"] = Holder["worker"] \cup {b}
    BY <1>0, <2>1, <2>2, HolderFacts
  <2>5. Moved(Holder, Holder', {b}, "dCh", "worker")
    <3>1. \A s \in DOMAIN Holder \ {"dCh", "worker"} : Holder'[s] = Holder[s]
      BY <2>1, HolderFacts
    <3> QED BY <2>2, <2>4, <3>1, HolderFacts DEF Moved
  <2>6. \A u, v \in Workers : wbuf'[u] = wbuf'[v] /\ wbuf'[u] # Nil => u = v
    BY <1>0, <2>1, <2>3, HolderFacts
  <2> QED BY <1>0, <2>2, <2>5, <2>6, Move DEF BufferInv
<1>3. ASSUME NEW w \in Workers, WorkerSend(w) PROVE BufferInv'
  <2> DEFINE b == wbuf[w]
  <2>1. /\ b # Nil /\ wbuf' = [wbuf EXCEPT ![w] = Nil] /\ pool' = pool \cup {b}
        /\ UNCHANGED <<dCh, lbuf>>
    BY <1>3 DEF WorkerSend, TypeOK, loopVars
  <2>2. Holder'["worker"] = Holder["worker"] \ {b} /\ b \in Holder["worker"]
    BY <1>0, <2>1, HolderFacts
  <2>3. \A u, v \in Workers : wbuf'[u] = wbuf'[v] /\ wbuf'[u] # Nil => u = v
    BY <1>0, <2>1
  <2> HIDE DEF b
  <2>4. Moved(Holder, Holder', {b}, "worker", "pool")
    <3>1. \A s \in DOMAIN Holder \ {"worker", "pool"} : Holder'[s] = Holder[s]
      BY <2>1, HolderFacts
    <3> QED BY <2>1, <2>2, <3>1, HolderFacts DEF Moved
  <2> QED BY <1>0, <2>1, <2>3, <2>4, Move DEF BufferInv
<1>4. CASE JsonRecv
  <2> DEFINE b == Head(dCh)
  <2>1. /\ dCh # <<>> /\ dCh' = Tail(dCh) /\ lbuf' = b /\ lbuf = Nil /\ UNCHANGED <<pool, wbuf>>
    BY <1>4 DEF JsonRecv, TypeOK, workerVars
  <2>2. /\ b \in Contents(dCh) /\ Contents(dCh') = Contents(dCh) \ {b} /\ NoRepeats(dCh')
        /\ b \in Buffers
    BY <1>0, <2>1, QueueFacts, TailFacts
  <2> HIDE DEF b
  <2>3. Moved(Holder, Holder', {b}, "dCh", "loop")
    <3>1. \A s \in DOMAIN Holder \ {"dCh", "loop"} : Holder'[s] = Holder[s]
      <4>1. UNCHANGED <<pool, wbuf>>
        BY <2>1
      <4> QED BY <4>1, HolderFacts
    <3>2. Holder'["loop"] = Holder["loop"] \cup {b}
      BY <1>0, <2>1, <2>2, HolderFacts
    <3> QED BY <2>2, <3>1, <3>2, HolderFacts DEF Moved
  <2> QED BY <1>0, <2>1, <2>2, <2>3, Move DEF BufferInv
<1>5. CASE Input \/ Errors
  <2> DEFINE M == {lbuf} \ {Nil}
  <2>1. pool' = pool \cup M /\ lbuf' = Nil /\ UNCHANGED <<dCh, wbuf>>
    BY <1>5 DEF Input, Errors, LoopReturns, workerVars
  <2>2. Moved(Holder, Holder', M, "loop", "pool")
    <3>1. \A s \in DOMAIN Holder \ {"loop", "pool"} : Holder'[s] = Holder[s]
      BY <2>1, HolderFacts
    <3> QED BY <2>1, <3>1, HolderFacts DEF Moved
  <2> HIDE DEF M
  <2> QED BY <1>0, <2>1, <2>2, Move DEF BufferInv
<1>6. CASE UNCHANGED <<pool, dCh, wbuf, lbuf>>
  <2>1. Holder' = Holder
    BY <1>6 DEF Holder
  <2> QED BY <1>0, <1>6, <2>1 DEF BufferInv
<1>7. CASE Cancel \/ ProtobufRecv \/ AddHostname \/ LoopDone \/ ProducerStep \/ UNCHANGED vars
           \/ \E w \in Workers : WorkerMarshal(w) \/ WorkerDone(w)
  <2>1. UNCHANGED <<pool, dCh, wbuf, lbuf>>
    BY <1>7 DEF Cancel, ProtobufRecv, AddHostname, LoopDone, ProducerStep, Deliver, Fail, vars,
                WorkerMarshal, WorkerDone, workerVars, loopVars
  <2> QED BY <1>6, <2>1
<1> QED BY <1>1, <1>2, <1>3, <1>4, <1>5, <1>7 DEF Next, LoopStep, WorkerStep
-----------------------------------------------------------------------------
(* The records in the channel, with the workers that marshal or send, and  *)
(* with the JSON loop that encodes.                                        *)
Waiting == {content[b] : b \in Contents(dCh)}
Marshalled == {content[wbuf[w]] : w \in {v \in Workers : wpc[v] = "marshal"}}
Sent == {wmsg[w] : w \in Workers} \ {0}
Encoded == IF lpc = "encode" THEN {content[lbuf]} ELSE {}

(* Where records are, by the kind of place.                                *)
Stage ==
    [new       |-> Records \ (1..accepted),
     dCh       |-> Waiting,
     marshal   |-> Marshalled,
     send      |-> Sent,
     bCh       |-> Contents(bCh),
     encode    |-> Encoded,
     offer     |-> {lmsg} \ {0},
     prod      |-> Contents(prod),
     perr      |-> {perr} \ {0},
     delivered |-> Contents(delivered),
     failed    |-> failed,
     discarded |-> discarded]

(* The parts, before and after a step.                                     *)
LEMMA StageFacts ==
    /\ DOMAIN Stage = {"new", "dCh", "marshal", "send", "bCh", "encode", "offer", "prod",
                       "perr", "delivered", "failed", "discarded"}
    /\ Stage["new"] = Records \ (1..accepted) /\ Stage["dCh"] = Waiting
    /\ Stage["marshal"] = Marshalled /\ Stage["send"] = Sent /\ Stage["bCh"] = Contents(bCh)
    /\ Stage["encode"] = Encoded /\ Stage["offer"] = {lmsg} \ {0}
    /\ Stage["prod"] = Contents(prod) /\ Stage["perr"] = {perr} \ {0}
    /\ Stage["delivered"] = Contents(delivered)
    /\ Stage["failed"] = failed /\ Stage["discarded"] = discarded
    /\ DOMAIN Stage' = DOMAIN Stage
    /\ Stage'["new"] = Records \ (1..accepted') /\ Stage'["dCh"] = Waiting'
    /\ Stage'["marshal"] = Marshalled' /\ Stage'["send"] = Sent' /\ Stage'["bCh"] = Contents(bCh')
    /\ Stage'["encode"] = Encoded' /\ Stage'["offer"] = {lmsg'} \ {0}
    /\ Stage'["prod"] = Contents(prod') /\ Stage'["perr"] = {perr'} \ {0}
    /\ Stage'["delivered"] = Contents(delivered')
    /\ Stage'["failed"] = failed' /\ Stage'["discarded"] = discarded'
BY DEF Stage

(* Each part holds a record at most once.                                  *)
OneEach ==
    /\ \A b, c \in Contents(dCh) : content[b] = content[c] => b = c
    /\ \A v, w \in Workers : wpc[v] = "marshal" /\ wpc[w] = "marshal"
                                /\ content[wbuf[v]] = content[wbuf[w]] => v = w
    /\ \A v, w \in Workers : wmsg[v] = wmsg[w] /\ wmsg[v] # 0 => v = w
    /\ NoRepeats(bCh) /\ NoRepeats(prod) /\ NoRepeats(delivered)

OnceInv == TypeInv /\ BufferInv /\ OneEach /\ IsApart(Stage) /\ Covers(Stage)

(* At first every record is still to be accepted.                          *)
LEMMA OnceInit == Init => OnceInv
<1> SUFFICES ASSUME Init PROVE OnceInv
  OBVIOUS
<1>1. /\ Stage["new"] = Records
      /\ \A s \in DOMAIN Stage \ {"new"} : Stage[s] = {}
  <2>1. /\ Waiting = {} /\ Contents(bCh) = {} /\ Contents(prod) = {} /\ Contents(delivered) = {}
    BY DEF Init, Contents, Waiting
  <2>2. Marshalled = {} /\ Sent = {} /\ Encoded = {} /\ {lmsg} \ {0} = {} /\ {perr} \ {0} = {}
    <3>1. \A w \in Workers : wpc[w] # "marshal" /\ wmsg[w] = 0
      BY DEF Init
    <3> QED BY <3>1 DEF Init, Marshalled, Sent, Encoded
  <2>3. Records \ (1..accepted) = Records /\ failed = {} /\ discarded = {}
    BY DEF Init
  <2> QED BY <2>1, <2>2, <2>3, StageFacts
<1>2. IsApart(Stage) /\ Covers(Stage)
  BY <1>1, StageFacts DEF IsApart, Covers
<1>3. OneEach
  <2>1. \A w \in Workers : wpc[w] # "marshal" /\ wmsg[w] = 0
    BY DEF Init
  <2> QED BY <2>1 DEF Init, OneEach, NoRepeats, Contents
<1> QED BY <1>2, <1>3, TypeInit, BufferInit DEF OnceInv

(* A record is accepted.                                                   *)
LEMMA OnceAccept ==
    ASSUME OnceInv, Accept
    PROVE  /\ OneEach' /\ IsApart(Stage') /\ Covers(Stage')
           /\ Moved(Stage, Stage', {accepted + 1}, "new", "dCh")
<1> USE DEF OnceInv, TypeInv
<1> DEFINE k == accepted + 1
<1>1. PICK b \in Buffers :
              /\ b \notin InUse /\ content' = [content EXCEPT ![b] = k]
              /\ Contents(dCh') = Contents(dCh) \cup {b} /\ Contents(dCh) \subseteq Buffers
              /\ accepted' = k /\ k \in Records /\ accepted \in Nat
  BY AcceptFacts, InUseFacts
<1>2. UNCHANGED <<workerVars, bCh, loopVars, producerVars, failed, discarded>>
  BY DEF Accept
<1>3. content \in [Buffers -> 0..MaxRecords] /\ wbuf \in [Workers -> Buffers \cup {Nil}]
      /\ lbuf \in Buffers \cup {Nil} /\ (lpc = "encode" => lbuf # Nil)
      /\ \A w \in Workers : wpc[w] = "marshal" => wbuf[w] # Nil
  BY DEF TypeOK, KindInv
<1>4. /\ content'[b] = k /\ b \notin Contents(dCh)
      /\ \A c \in Contents(dCh) : content'[c] = content[c]
      /\ \A w \in Workers : wpc[w] = "marshal" => content'[wbuf[w]] = content[wbuf[w]]
      /\ lpc = "encode" => content'[lbuf] = content[lbuf]
  <2>1. b \notin Contents(dCh) /\ b # lbuf /\ \A w \in Workers : wbuf[w] # b
    BY <1>1 DEF InUse
  <2> HIDE DEF k
  <2> QED BY <1>1, <1>3, <2>1
<1>5. Waiting' = Waiting \cup {k}
  BY <1>1, <1>4 DEF Waiting
<1>6. UNCHANGED <<Marshalled, Sent, Encoded>>
  BY <1>2, <1>4 DEF Marshalled, Sent, Encoded, workerVars, loopVars
<1>7. k \in Stage["new"] /\ Stage'["new"] = Stage["new"] \ {k}
  BY <1>1, StageFacts DEF Records
<1> HIDE DEF k
<1>8. Moved(Stage, Stage', {k}, "new", "dCh")
  <2>1. \A s \in DOMAIN Stage \ {"new", "dCh"} : Stage'[s] = Stage[s]
    <3>1. UNCHANGED <<bCh, lmsg, prod, perr, delivered, failed, discarded>>
      BY <1>2 DEF loopVars, producerVars
    <3> QED BY <1>6, <3>1, StageFacts
  <2> QED BY <1>5, <1>7, <2>1, StageFacts DEF Moved
<1>9. k \notin Waiting
  BY <1>7, StageFacts, Disjoint
<1>10. \A c, d \in Contents(dCh') : content'[c] = content'[d] => c = d
  BY <1>1, <1>4, <1>9 DEF Waiting, OneEach
<1>11. OneEach'
  <2>1. UNCHANGED <<wpc, wbuf, wmsg, bCh, prod, delivered>>
    BY <1>2 DEF workerVars, producerVars
  <2> QED BY <1>4, <1>10, <2>1 DEF OneEach
<1> QED BY <1>8, <1>11, Move DEF k

(* The records and the buffers that receiving from the channel takes.      *)
LEMMA TakeFacts ==
    ASSUME OnceInv, dCh # <<>>, dCh' = Tail(dCh), content' = content
    PROVE  /\ Head(dCh) \in Buffers /\ content[Head(dCh)] \in Waiting
           /\ content[Head(dCh)] \in Records
           /\ Waiting' = Waiting \ {content[Head(dCh)]}
           /\ \A b, c \in Contents(dCh') : content'[b] = content'[c] => b = c
<1>1. dCh \in Seq(Buffers)
  BY DEF OnceInv, TypeInv, TypeOK
<1>2. /\ Head(dCh) \in Buffers /\ Head(dCh) \in Contents(dCh)
      /\ Contents(dCh') = Contents(dCh) \ {Head(dCh)}
  BY <1>1, QueueFacts, TailFacts DEF OnceInv, BufferInv
<1>3. \A b, c \in Contents(dCh) : content[b] = content[c] => b = c
  BY DEF OnceInv, OneEach
<1>4. content[Head(dCh)] \in Records
  <2>1. Head(dCh) # Nil /\ Head(dCh) \in InUse
    BY <1>2, EgressAssumption DEF InUse
  <2>2. content[Head(dCh)] # 0 /\ content[Head(dCh)] \in 0..MaxRecords
    BY <1>2, <2>1 DEF OnceInv, TypeInv, TypeOK, KindInv
  <2> QED BY <2>2, EgressAssumption DEF Records
<1> QED BY <1>2, <1>3, <1>4 DEF Waiting
(* A worker takes a record along, makes it a message, and sends that.      *)
LEMMA OnceWorker ==
    ASSUME OnceInv, NEW w \in Workers, WorkerRecv(w) \/ WorkerMarshal(w) \/ WorkerSend(w)
    PROVE  /\ OneEach' /\ IsApart(Stage') /\ Covers(Stage')
           /\ \/ WorkerRecv(w) /\ Moved(Stage, Stage', {content[Head(dCh)]}, "dCh", "marshal")
              \/ WorkerMarshal(w) /\ Moved(Stage, Stage', {content[wbuf[w]]}, "marshal", "send")
              \/ WorkerSend(w) /\ Moved(Stage, Stage', {wmsg[w]}, "send", "bCh")
<1> USE DEF OnceInv, TypeInv
<1>0. /\ wpc \in [Workers -> {"off", "select", "marshal", "send", "done"}]
      /\ wbuf \in [Workers -> Buffers \cup {Nil}] /\ wmsg \in [Workers -> 0..MaxRecords]
      /\ \A v \in Workers : wmsg[v] # 0 <=> wpc[v] = "send"
  BY DEF TypeOK, KindInv
<1>1. CASE WorkerRecv(w)
  <2> DEFINE b == Head(dCh)  k == content[b]
  <2>1. /\ wpc[w] = "select" /\ dCh # <<>> /\ dCh' = Tail(dCh) /\ content' = content
        /\ wbuf' = [wbuf EXCEPT ![w] = b] /\ wpc' = [wpc EXCEPT ![w] = "marshal"]
        /\ UNCHANGED <<accepted, wmsg, bCh, lpc, lbuf, lmsg, prod, perr, delivered, failed,
                       discarded>>
    BY <1>1 DEF WorkerRecv, sourceVars, loopVars, producerVars
  <2>2. /\ k \in Waiting /\ Waiting' = Waiting \ {k} /\ k \in Records
        /\ \A c, d \in Contents(dCh') : content'[c] = content'[d] => c = d
    BY <2>1, TakeFacts
  <2>3. k \notin Marshalled
    BY <2>2, StageFacts, Disjoint
  <2>4. /\ \A v \in Workers \ {w} : wpc'[v] = wpc[v] /\ wbuf'[v] = wbuf[v]
        /\ wpc'[w] = "marshal" /\ wbuf'[w] = b
    BY <1>0, <2>1
  <2>5. Marshalled' = Marshalled \cup {k}
    BY <2>1, <2>4 DEF Marshalled
  <2>6. \A u, v \in Workers : wpc'[u] = "marshal" /\ wpc'[v] = "marshal"
                                /\ content'[wbuf'[u]] = content'[wbuf'[v]] => u = v
    <3> SUFFICES ASSUME NEW v \in Workers \ {w}, wpc[v] = "marshal"
                 PROVE  content[wbuf[v]] # k
      BY <2>1, <2>4 DEF OneEach
    <3> QED BY <2>3 DEF Marshalled
  <2> HIDE DEF b, k
  <2>7. Moved(Stage, Stage', {k}, "dCh", "marshal")
    <3>1. \A s \in DOMAIN Stage \ {"dCh", "marshal"} : Stage'[s] = Stage[s]
      <4>1. UNCHANGED <<accepted, Sent, Encoded, bCh, lmsg, prod, perr, delivered, failed, discarded>>
        BY <2>1 DEF Sent, Encoded
      <4> QED BY <4>1, StageFacts
    <3> QED BY <2>2, <2>5, <3>1, StageFacts DEF Moved
  <2> QED BY <1>1, <2>1, <2>2, <2>6, <2>7, Move DEF OneEach, b, k
<1>2. CASE WorkerMarshal(w)
  <2> DEFINE k == content[wbuf[w]]
  <2>1. /\ wpc[w] = "marshal" /\ wmsg' = [wmsg EXCEPT ![w] = k]
        /\ wpc' = [wpc EXCEPT ![w] = "send"]
        /\ UNCHANGED <<accepted, content, dCh, wbuf, bCh, lpc, lbuf, lmsg, prod, perr, delivered,
                       failed, discarded>>
    BY <1>2 DEF WorkerMarshal, sourceVars, loopVars, producerVars
  <2>2. k \in Marshalled /\ k \in Records /\ k # 0
    BY <2>1, InUseFacts DEF Marshalled, TypeOK, Records
  <2>3. k \notin Sent
    BY <2>2, StageFacts, Disjoint
  <2>4. /\ \A v \in Workers \ {w} : wpc'[v] = wpc[v] /\ wmsg'[v] = wmsg[v]
        /\ wpc'[w] = "send" /\ wmsg'[w] = k /\ wmsg[w] = 0
    BY <1>0, <2>1
  <2>5. Marshalled' = Marshalled \ {k}
    BY <2>1, <2>4 DEF Marshalled, OneEach
  <2>6. Sent' = Sent \cup {k}
    BY <2>2, <2>4 DEF Sent
  <2>7. \A u, v \in Workers : wmsg'[u] = wmsg'[v] /\ wmsg'[u] # 0 => u = v
    <3>1. \A v \in Workers \ {w} : wmsg[v] # k
      BY <2>2, <2>3 DEF Sent
    <3> QED BY <2>4, <3>1 DEF OneEach
  <2>8. \A u, v \in Workers : wpc'[u] = "marshal" /\ wpc'[v] = "marshal"
                                /\ content'[wbuf'[u]] = content'[wbuf'[v]] => u = v
    BY <2>1, <2>4 DEF OneEach
  <2> HIDE DEF k
  <2>9. Moved(Stage, Stage', {k}, "marshal", "send")
    <3>1. \A s \in DOMAIN Stage \ {"marshal", "send"} : Stage'[s] = Stage[s]
      <4>1. UNCHANGED <<accepted, Waiting, Encoded, bCh, lmsg, prod, perr, delivered, failed, discarded>>
        BY <2>1 DEF Waiting, Encoded
      <4> QED BY <4>1, StageFacts
    <3> QED BY <2>2, <2>5, <2>6, <3>1, StageFacts DEF Moved
  <2> QED BY <1>2, <2>1, <2>7, <2>8, <2>9, Move DEF OneEach, k
<1>3. CASE WorkerSend(w)
  <2> DEFINE k == wmsg[w]
  <2>1. /\ wpc[w] = "send" /\ wmsg' = [wmsg EXCEPT ![w] = 0] /\ bCh' = Append(bCh, k)
        /\ wpc' = [wpc EXCEPT ![w] = "select"] /\ wbuf' = [wbuf EXCEPT ![w] = Nil]
        /\ UNCHANGED <<accepted, content, dCh, lpc, lbuf, lmsg, prod, perr, delivered, failed,
                       discarded>>
    BY <1>3 DEF WorkerSend, sourceVars, loopVars, producerVars
  <2>2. k \in Sent /\ k \in Records /\ k # 0
    BY <1>0, <2>1, EgressAssumption DEF Sent, Records
  <2>3. k \notin Contents(bCh)
    BY <2>2, StageFacts, Disjoint
  <2>4. Contents(bCh') = Contents(bCh) \cup {k} /\ NoRepeats(bCh')
    <3>1. bCh \in Seq(Records) /\ NoRepeats(bCh)
      BY DEF TypeOK, OneEach
    <3> QED BY <2>1, <2>2, <2>3, <3>1, AppendContents
  <2>5. /\ \A v \in Workers \ {w} : wpc'[v] = wpc[v] /\ wmsg'[v] = wmsg[v] /\ wbuf'[v] = wbuf[v]
        /\ wpc'[w] = "select" /\ wmsg'[w] = 0
    BY <1>0, <2>1
  <2>6. Sent' = Sent \ {k}
    BY <2>2, <2>5 DEF Sent, OneEach
  <2>7. UNCHANGED Marshalled
    BY <2>1, <2>5 DEF Marshalled
  <2>8. \A u, v \in Workers : wmsg'[u] = wmsg'[v] /\ wmsg'[u] # 0 => u = v
    BY <2>5 DEF OneEach
  <2>9. \A u, v \in Workers : wpc'[u] = "marshal" /\ wpc'[v] = "marshal"
                                /\ content'[wbuf'[u]] = content'[wbuf'[v]] => u = v
    BY <2>1, <2>5 DEF OneEach
  <2> HIDE DEF k
  <2>10. Moved(Stage, Stage', {k}, "send", "bCh")
    <3>1. \A s \in DOMAIN Stage \ {"send", "bCh"} : Stage'[s] = Stage[s]
      <4>1. UNCHANGED <<accepted, Waiting, Encoded, lmsg, prod, perr, delivered, failed, discarded>>
        BY <2>1 DEF Waiting, Encoded
      <4> QED BY <2>7, <4>1, StageFacts
    <3> QED BY <2>2, <2>4, <2>6, <3>1, StageFacts DEF Moved
  <2> QED BY <1>3, <2>1, <2>4, <2>8, <2>9, <2>10, Move DEF OneEach, k
<1> QED BY <1>1, <1>2, <1>3

(* The loop takes a record from a channel to the producer, or gives it up  *)
(* beside an error.                                                        *)
LEMMA OnceLoop ==
    ASSUME OnceInv, LoopStep
    PROVE  /\ OneEach' /\ IsApart(Stage') /\ Covers(Stage')
           /\ \/ ProtobufRecv /\ Moved(Stage, Stage', {Head(bCh)}, "bCh", "offer")
              \/ JsonRecv /\ Moved(Stage, Stage', {content[Head(dCh)]}, "dCh", "encode")
              \/ AddHostname /\ Moved(Stage, Stage', {content[lbuf]}, "encode", "offer")
              \/ Input /\ Moved(Stage, Stage', {lmsg}, "offer", "prod")
              \/ Errors /\ \A s \in DOMAIN Stage \ {"failed", "discarded"} : Stage'[s] \subseteq Stage[s]
              \/ LoopDone /\ Stage' = Stage
<1> USE DEF OnceInv, TypeInv
<1>0. /\ bCh \in Seq(Records) /\ NoRepeats(bCh) /\ prod \in Seq(Records) /\ NoRepeats(prod)
      /\ lpc = "offer" <=> lmsg # 0
      /\ lmsg # 0 => lmsg \in Records
      /\ 0 \notin Records
  BY EgressAssumption DEF TypeOK, OneEach, Records
<1>1. UNCHANGED <<accepted, content, wpc, wbuf, wmsg, delivered>> /\ UNCHANGED <<Marshalled, Sent>>
  <2>1. UNCHANGED <<accepted, content, wpc, wbuf, wmsg, delivered>>
    BY DEF LoopStep, ProtobufRecv, JsonRecv, AddHostname, Input, Errors, LoopDone,
           sourceVars, workerVars, producerVars
  <2> QED BY <2>1 DEF Marshalled, Sent
<1>2. CASE ProtobufRecv
  <2> DEFINE k == Head(bCh)
  <2>1. /\ bCh # <<>> /\ bCh' = Tail(bCh) /\ lpc = "select" /\ lpc' = "offer" /\ lmsg' = k
        /\ UNCHANGED <<dCh, prod, perr, failed, discarded>>
    BY <1>2 DEF ProtobufRecv, producerVars
  <2>2. /\ k \in Contents(bCh) /\ Contents(bCh') = Contents(bCh) \ {k} /\ NoRepeats(bCh')
        /\ k \in Records
    BY <1>0, <2>1, QueueFacts, TailFacts
  <2>3. UNCHANGED Encoded /\ lmsg = 0
    BY <1>0, <2>1 DEF Encoded
  <2> HIDE DEF k
  <2>4. Moved(Stage, Stage', {k}, "bCh", "offer")
    <3>1. \A s \in DOMAIN Stage \ {"bCh", "offer"} : Stage'[s] = Stage[s]
      <4>1. UNCHANGED <<Waiting, Encoded, prod, perr, failed, discarded>>
        BY <1>1, <2>1, <2>3 DEF Waiting
      <4> QED BY <1>1, <4>1, StageFacts
    <3>2. {lmsg'} \ {0} = ({lmsg} \ {0}) \cup {k}
      BY <1>0, <2>1, <2>2, <2>3
    <3> QED BY <2>2, <3>1, <3>2, StageFacts DEF Moved
  <2> QED BY <1>1, <1>2, <2>1, <2>2, <2>4, Move DEF OneEach, k
<1>3. CASE JsonRecv
  <2> DEFINE k == content[Head(dCh)]
  <2>1. /\ dCh # <<>> /\ dCh' = Tail(dCh) /\ lpc = "select" /\ lpc' = "encode"
        /\ lbuf' = Head(dCh) /\ UNCHANGED <<bCh, lmsg, prod, perr, failed, discarded>>
    BY <1>3 DEF JsonRecv, producerVars
  <2>2. /\ k \in Waiting /\ Waiting' = Waiting \ {k}
        /\ \A b, c \in Contents(dCh') : content'[b] = content'[c] => b = c
    BY <1>1, <2>1, TakeFacts
  <2>3. Encoded = {} /\ Encoded' = {k}
    BY <1>1, <2>1 DEF Encoded
  <2> HIDE DEF k
  <2>4. Moved(Stage, Stage', {k}, "dCh", "encode")
    <3>1. \A s \in DOMAIN Stage \ {"dCh", "encode"} : Stage'[s] = Stage[s]
      BY <1>1, <2>1, StageFacts
    <3> QED BY <2>2, <2>3, <3>1, StageFacts DEF Moved
  <2> QED BY <1>1, <1>3, <2>1, <2>2, <2>4, Move DEF OneEach, k
<1>4. CASE AddHostname
  <2> DEFINE k == content[lbuf]
  <2>1. /\ lpc = "encode" /\ lpc' = "offer" /\ lmsg' = k
        /\ UNCHANGED <<dCh, bCh, prod, perr, failed, discarded>>
    BY <1>4 DEF AddHostname, producerVars
  <2>2. k \in Records
    BY <2>1, InUseFacts DEF KindInv
  <2>3. Encoded = {k} /\ Encoded' = {}
    BY <2>1 DEF Encoded
  <2> HIDE DEF k
  <2>4. Moved(Stage, Stage', {k}, "encode", "offer")
    <3>1. \A s \in DOMAIN Stage \ {"encode", "offer"} : Stage'[s] = Stage[s]
      <4>1. UNCHANGED <<Waiting, bCh, prod, perr, failed, discarded>>
        BY <1>1, <2>1 DEF Waiting
      <4> QED BY <1>1, <4>1, StageFacts
    <3>2. {lmsg'} \ {0} = ({lmsg} \ {0}) \cup {k}
      BY <1>0, <2>1, <2>2
    <3> QED BY <2>3, <3>1, <3>2, StageFacts DEF Moved
  <2> QED BY <1>1, <1>4, <2>1, <2>4, Move DEF OneEach, k
<1>5. CASE Input \/ Errors
  <2>1. /\ lpc = "offer" /\ lpc' = "select" /\ lmsg # 0 /\ lmsg \in Records /\ lmsg' = 0
        /\ UNCHANGED <<dCh, bCh, Waiting, Encoded>>
    <3>1. lpc = "offer" /\ lpc' = "select" /\ lmsg' = 0 /\ UNCHANGED <<dCh, bCh>>
      BY <1>5 DEF Input, Errors, LoopReturns
    <3> QED BY <1>0, <1>1, <3>1 DEF Waiting, Encoded
  <2>2. {lmsg} \subseteq Stage["offer"] /\ Stage'["offer"] = Stage["offer"] \ {lmsg}
    BY <2>1, StageFacts
  <2>3. CASE Input
    <3>1. prod' = Append(prod, lmsg) /\ UNCHANGED <<perr, failed, discarded>>
      BY <2>3 DEF Input
    <3>2. lmsg \notin Contents(prod)
      BY <2>2, StageFacts, Disjoint
    <3>3. Contents(prod') = Contents(prod) \cup {lmsg} /\ NoRepeats(prod')
      BY <1>0, <2>1, <3>1, <3>2, AppendContents
    <3>4. Moved(Stage, Stage', {lmsg}, "offer", "prod")
      <4>1. \A s \in DOMAIN Stage \ {"offer", "prod"} : Stage'[s] = Stage[s]
        BY <1>1, <2>1, <3>1, StageFacts
      <4> QED BY <2>2, <3>3, <4>1, StageFacts DEF Moved
    <3> QED BY <1>1, <2>1, <2>3, <3>3, <3>4, Move DEF OneEach
  <2>4. CASE Errors
    <3>1. /\ perr # 0 /\ perr' = 0 /\ failed' = failed \cup {perr}
          /\ discarded' = discarded \cup {lmsg} /\ UNCHANGED prod
      BY <2>4 DEF Errors
    <3> DEFINE Mid == [Stage EXCEPT !["perr"] = {}, !["failed"] = failed']
    <3>2. /\ DOMAIN Mid = DOMAIN Stage /\ Mid["perr"] = {} /\ Mid["failed"] = failed'
          /\ \A s \in DOMAIN Stage \ {"perr", "failed"} : Mid[s] = Stage[s]
      BY StageFacts DEF Stage
    <3> HIDE DEF Mid
    <3>3. Moved(Stage, Mid, {perr}, "perr", "failed")
      BY <3>1, <3>2, StageFacts DEF Moved
    <3>4. IsApart(Mid) /\ Covers(Mid)
      BY <3>3, Move
    <3>5. Moved(Mid, Stage', {lmsg}, "offer", "discarded")
      <4>1. \A s \in DOMAIN Stage \ {"perr", "failed", "offer", "discarded"} : Stage'[s] = Stage[s]
        BY <1>1, <2>1, <3>1, StageFacts
      <4>2. /\ Stage'["perr"] = {} /\ Stage'["failed"] = failed'
            /\ Stage'["discarded"] = Stage["discarded"] \cup {lmsg}
        BY <3>1, StageFacts
      <4>3. \A s \in DOMAIN Mid \ {"offer", "discarded"} : Stage'[s] = Mid[s]
        BY <3>2, <4>1, <4>2
      <4> QED BY <2>2, <3>2, <4>2, <4>3, StageFacts DEF Moved
    <3>6. IsApart(Stage') /\ Covers(Stage')
      BY <3>4, <3>5, Move
    <3>7. \A s \in DOMAIN Stage \ {"failed", "discarded"} : Stage'[s] \subseteq Stage[s]
      BY <3>2, <3>5, StageFacts DEF Moved
    <3> QED BY <1>1, <2>1, <2>4, <3>1, <3>6, <3>7 DEF OneEach
  <2> QED BY <1>5, <2>3, <2>4
<1>6. CASE LoopDone
  <2>1. UNCHANGED <<dCh, bCh, lbuf, lmsg, prod, perr, failed, discarded>> /\ UNCHANGED Encoded
    BY <1>6 DEF LoopDone, producerVars, Encoded
  <2>2. Stage' = Stage
    BY <1>1, <2>1 DEF Stage, Waiting
  <2> QED BY <1>1, <1>6, <2>1, <2>2 DEF OneEach
<1> QED BY <1>2, <1>3, <1>4, <1>5, <1>6 DEF LoopStep

(* The producer delivers a message or reports that it failed.              *)
LEMMA OnceProducer ==
    ASSUME OnceInv, ProducerStep
    PROVE  /\ OneEach' /\ IsApart(Stage') /\ Covers(Stage')
           /\ \/ Deliver /\ Moved(Stage, Stage', {Head(prod)}, "prod", "delivered")
              \/ Fail /\ Moved(Stage, Stage', {Head(prod)}, "prod", "perr")
<1> USE DEF OnceInv, TypeInv
<1> DEFINE k == Head(prod)
<1>1. /\ prod # <<>> /\ prod' = Tail(prod) /\ perr = 0
      /\ UNCHANGED <<accepted, content, dCh, wpc, wbuf, wmsg, bCh, lpc, lbuf, lmsg, failed,
                     discarded>>
  BY DEF ProducerStep, Deliver, Fail, sourceVars, workerVars, loopVars
<1>2. UNCHANGED <<accepted, Waiting, Marshalled, Sent, bCh, Encoded, lmsg, failed, discarded>>
  BY <1>1 DEF Waiting, Marshalled, Sent, Encoded
<1>3. prod \in Seq(Records) /\ delivered \in Seq(Records) /\ NoRepeats(prod) /\ NoRepeats(delivered)
      /\ 0 \notin Records
  BY DEF TypeOK, OneEach, Records
<1>4. /\ k \in Contents(prod) /\ Contents(prod') = Contents(prod) \ {k} /\ NoRepeats(prod')
      /\ k \in Records
  BY <1>1, <1>3, QueueFacts, TailFacts
<1>5. CASE Deliver
  <2>1. delivered' = Append(delivered, k) /\ perr' = perr
    BY <1>5 DEF Deliver
  <2>2. k \notin Contents(delivered)
    BY <1>4, StageFacts, Disjoint
  <2> HIDE DEF k
  <2>3. Contents(delivered') = Contents(delivered) \cup {k} /\ NoRepeats(delivered')
    BY <1>3, <1>4, <2>1, <2>2, AppendContents
  <2>4. Moved(Stage, Stage', {k}, "prod", "delivered")
    <3>1. \A s \in DOMAIN Stage \ {"prod", "delivered"} : Stage'[s] = Stage[s]
      BY <1>2, <2>1, StageFacts
    <3> QED BY <1>4, <2>3, <3>1, StageFacts DEF Moved
  <2> QED BY <1>1, <1>4, <1>5, <2>3, <2>4, Move DEF OneEach, k
<1>6. CASE Fail
  <2>1. perr' = k /\ delivered' = delivered
    BY <1>6 DEF Fail
  <2> HIDE DEF k
  <2>2. Moved(Stage, Stage', {k}, "prod", "perr")
    <3>1. \A s \in DOMAIN Stage \ {"prod", "perr"} : Stage'[s] = Stage[s]
      BY <1>2, <2>1, StageFacts
    <3>2. {perr'} \ {0} = ({perr} \ {0}) \cup {k}
      BY <1>1, <1>3, <1>4, <2>1
    <3> QED BY <1>4, <3>1, <3>2, StageFacts DEF Moved
  <2> QED BY <1>1, <1>4, <1>6, <2>1, <2>2, Move DEF OneEach, k
<1> QED BY <1>5, <1>6 DEF ProducerStep

(* Every step keeps each record in one place.                              *)
LEMMA OnceStep ==
    ASSUME OnceInv, [Next]_vars PROVE OnceInv'
<1>1. CASE Cancel \/ UNCHANGED vars \/ \E w \in Workers : WorkerDone(w)
  <2>1. /\ UNCHANGED <<accepted, content, dCh, wbuf, wmsg, bCh, lpc, lbuf, lmsg, prod, perr,
                       delivered, failed, discarded>>
        /\ \A w \in Workers : wpc'[w] = "marshal" <=> wpc[w] = "marshal"
    BY <1>1 DEF Cancel, vars, WorkerDone, sourceVars, workerVars, loopVars, producerVars,
                OnceInv, TypeInv, TypeOK
  <2>2. UNCHANGED <<Waiting, Marshalled, Sent, Encoded>>
    BY <2>1 DEF Waiting, Marshalled, Sent, Encoded
  <2>3. Stage' = Stage
    BY <2>1, <2>2 DEF Stage
  <2>4. OneEach'
    BY <2>1 DEF OnceInv, OneEach
  <2> QED BY <2>3, <2>4, TypeStep, BufferStep DEF OnceInv
<1> QED BY <1>1, OnceAccept, OnceWorker, OnceLoop, OnceProducer, TypeStep, BufferStep
        DEF Next, WorkerStep, OnceInv
(* Where each part has record k.                                           *)
FoundIn(k) ==
    [dCh       |-> {j \in DOMAIN dCh : content[dCh[j]] = k},
     marshal   |-> {v \in Workers : wpc[v] = "marshal" /\ content[wbuf[v]] = k},
     send      |-> {v \in Workers : wmsg[v] = k},
     bCh       |-> {j \in DOMAIN bCh : bCh[j] = k},
     encode    |-> {c \in Buffers : lpc = "encode" /\ lbuf = c /\ content[c] = k},
     offer     |-> {lmsg} \cap {k},
     prod      |-> {j \in DOMAIN prod : prod[j] = k},
     perr      |-> {perr} \cap {k},
     delivered |-> {j \in DOMAIN delivered : delivered[j] = k},
     failed    |-> failed \cap {k},
     discarded |-> discarded \cap {k}]

(* A part that holds a record has it in one place, any other in none.      *)
LEMMA FoundOnce ==
    ASSUME OnceInv, NEW k \in Records, NEW s \in DOMAIN Stage \ {"new"}
    PROVE  /\ k \in Stage[s] => \E d : FoundIn(k)[s] = {d}
           /\ k \notin Stage[s] => FoundIn(k)[s] = {}
<1> USE DEF OnceInv, TypeInv, OneEach
<1>0. k # 0
  BY DEF Records
<1>1. CASE s = "dCh"
  <2> DEFINE D == {j \in DOMAIN dCh : content[dCh[j]] = k}
  <2>1. FoundIn(k)[s] = D /\ Stage[s] = {content[b] : b \in Contents(dCh)}
    BY <1>1, StageFacts DEF FoundIn, Waiting
  <2>2. k \in Stage[s] <=> D # {}
    BY <2>1 DEF Contents
  <2>3. \A i, j \in D : i = j
    BY DEF Contents, BufferInv, NoRepeats
  <2> QED BY <2>1, <2>2, <2>3
<1>2. CASE s = "marshal"
  <2> DEFINE D == {v \in Workers : wpc[v] = "marshal" /\ content[wbuf[v]] = k}
  <2>1. FoundIn(k)[s] = D /\ (k \in Stage[s] <=> D # {})
    BY <1>2, StageFacts DEF FoundIn, Marshalled
  <2>2. \A i, j \in D : i = j
    OBVIOUS
  <2> HIDE DEF D
  <2> QED BY <2>1, <2>2
<1>3. CASE s = "send"
  <2> DEFINE D == {v \in Workers : wmsg[v] = k}
  <2>1. FoundIn(k)[s] = D /\ (k \in Stage[s] <=> D # {})
    BY <1>0, <1>3, StageFacts DEF FoundIn, Sent
  <2>2. \A i, j \in D : i = j
    BY <1>0
  <2> QED BY <2>1, <2>2
<1>4. CASE s = "encode"
  <2> DEFINE D == {c \in Buffers : lpc = "encode" /\ lbuf = c /\ content[c] = k}
  <2>1. FoundIn(k)[s] = D /\ Stage[s] = Encoded
    BY <1>4, StageFacts DEF FoundIn
  <2>2. lpc = "encode" => lbuf \in Buffers
    BY DEF TypeOK, KindInv
  <2> QED BY <2>1, <2>2 DEF Encoded
<1>5. CASE s \in {"offer", "perr", "failed", "discarded"}
  <2>1. FoundIn(k)[s] = Stage[s] \cap {k}
    <3>1. /\ FoundIn(k)["offer"] = {lmsg} \cap {k} /\ FoundIn(k)["perr"] = {perr} \cap {k}
          /\ FoundIn(k)["failed"] = failed \cap {k}
          /\ FoundIn(k)["discarded"] = discarded \cap {k}
      BY DEF FoundIn
    <3>2. ({lmsg} \ {0}) \cap {k} = {lmsg} \cap {k} /\ ({perr} \ {0}) \cap {k} = {perr} \cap {k}
      BY <1>0
    <3> QED BY <1>5, <3>1, <3>2, StageFacts
  <2> QED BY <2>1
<1>6. ASSUME NEW q, NoRepeats(q), Stage[s] = Contents(q), FoundIn(k)[s] = {j \in DOMAIN q : q[j] = k}
      PROVE  /\ k \in Stage[s] => \E d : FoundIn(k)[s] = {d}
             /\ k \notin Stage[s] => FoundIn(k)[s] = {}
  <2> DEFINE D == {j \in DOMAIN q : q[j] = k}
  <2>1. k \in Stage[s] <=> D # {}
    BY <1>6 DEF Contents
  <2>2. \A i, j \in D : i = j
    BY <1>6 DEF NoRepeats
  <2> QED BY <1>6, <2>1, <2>2
<1>7. CASE s = "bCh"
  <2>1. NoRepeats(bCh) /\ Stage[s] = Contents(bCh) /\ FoundIn(k)[s] = {j \in DOMAIN bCh : bCh[j] = k}
    BY <1>7, StageFacts DEF FoundIn
  <2> QED BY <1>6, <2>1
<1>8. CASE s = "prod"
  <2>1. NoRepeats(prod) /\ Stage[s] = Contents(prod) /\ FoundIn(k)[s] = {j \in DOMAIN prod : prod[j] = k}
    BY <1>8, StageFacts DEF FoundIn
  <2> QED BY <1>6, <2>1
<1>9. CASE s = "delivered"
  <2>1. /\ NoRepeats(delivered) /\ Stage[s] = Contents(delivered)
        /\ FoundIn(k)[s] = {j \in DOMAIN delivered : delivered[j] = k}
    BY <1>9, StageFacts DEF FoundIn
  <2> QED BY <1>6, <2>1
<1> QED BY <1>1, <1>2, <1>3, <1>4, <1>5, <1>7, <1>8, <1>9, StageFacts

(* An accepted record is in one place.                                     *)
LEMMA OncePlaces ==
    ASSUME OnceInv, NEW k \in 1..accepted
    PROVE  Cardinality(Places(k)) = 1
<1> DEFINE N == DOMAIN Stage \ {"new"}  At == FoundIn(k)
<1>1. k \in Records /\ k \notin Stage["new"]
  BY EgressAssumption, StageFacts DEF OnceInv, TypeInv, TypeOK, Records
<1>2. PICK n \in DOMAIN Stage : k \in Stage[n]
  BY <1>1 DEF OnceInv, Covers
<1>3. n \in N /\ \A m \in N \ {n} : k \notin Stage[m]
  BY <1>1, <1>2, StageFacts, Disjoint DEF OnceInv
<1>4. (\E d : At[n] = {d}) /\ \A m \in N \ {n} : At[m] = {}
  BY <1>1, <1>2, <1>3, FoundOnce
<1>5. \A x : x \in Places(k) <=> \E m \in N : \E d \in At[m] : x = <<m, d>>
  <2>1. N = {"dCh", "marshal", "send", "bCh", "encode", "offer", "prod", "perr", "delivered",
             "failed", "discarded"}
    BY StageFacts
  <2> HIDE DEF N
  <2>2. \A x : x \in Places(k) <=>
           \/ \E d \in At["dCh"] : x = <<"dCh", d>>
           \/ \E d \in At["marshal"] : x = <<"marshal", d>>
           \/ \E d \in At["send"] : x = <<"send", d>>
           \/ \E d \in At["bCh"] : x = <<"bCh", d>>
           \/ \E d \in At["encode"] : x = <<"encode", d>>
           \/ \E d \in At["offer"] : x = <<"offer", d>>
           \/ \E d \in At["prod"] : x = <<"prod", d>>
           \/ \E d \in At["perr"] : x = <<"perr", d>>
           \/ \E d \in At["delivered"] : x = <<"delivered", d>>
           \/ \E d \in At["failed"] : x = <<"failed", d>>
           \/ \E d \in At["discarded"] : x = <<"discarded", d>>
    BY DEF Places, FoundIn
  <2> HIDE DEF At
  <2> QED BY <2>1, <2>2
<1> HIDE DEF At, N
<1>6. PICK d : At[n] = {d}
  BY <1>4
<1>7. Places(k) = {<<n, d>>}
  BY <1>3, <1>4, <1>5, <1>6
<1> QED BY <1>7, FS_Singleton

(* An accepted record is in exactly one place: no message shares memory    *)
(* with a buffer that is filled again, and no worker, loop or producer     *)
(* loses or repeats one; what is not under way was delivered, failed, or   *)
(* was given up beside a failure.                                          *)
THEOREM RecordsConserved == Spec => []Conservation
<1>1. OnceInv /\ [Next]_vars => OnceInv'
  BY OnceStep
<1>2. OnceInv => Conservation
  BY OncePlaces DEF Conservation
<1> QED BY <1>1, <1>2, OnceInit, PTL DEF Spec

-----------------------------------------------------------------------------
(* A failure read gives up one message, which was not given up before.     *)
LEMMA DiscardStep ==
    ASSUME OnceInv, OneDiscardedPerError, [Next]_vars
    PROVE  OneDiscardedPerError'
<1> USE DEF OnceInv, TypeInv
<1>1. CASE UNCHANGED <<failed, discarded>>
  BY <1>1 DEF OneDiscardedPerError
<1>2. CASE Errors
  <2>1. /\ perr # 0 /\ failed' = failed \cup {perr} /\ discarded' = discarded \cup {lmsg}
        /\ lpc = "offer"
    BY <1>2 DEF Errors
  <2>2. perr \in Stage["perr"] /\ lmsg \in Stage["offer"]
    BY <2>1, StageFacts DEF TypeOK
  <2>3. perr \notin failed /\ lmsg \notin discarded
    BY <2>2, StageFacts, Disjoint
  <2>4. IsFiniteSet(failed) /\ IsFiniteSet(discarded)
    <3>1. IsFiniteSet(Records)
      BY EgressAssumption, FS_Interval DEF Records
    <3> QED BY <3>1, FS_Subset DEF TypeOK
  <2>5. /\ Cardinality(failed \cup {perr}) = Cardinality(failed) + 1
        /\ Cardinality(discarded \cup {lmsg}) = Cardinality(discarded) + 1
    BY <2>3, <2>4, FS_AddElement
  <2> QED BY <2>1, <2>5 DEF OneDiscardedPerError
<1>3. Errors \/ UNCHANGED <<failed, discarded>>
  BY DEF Next, Accept, Cancel, LoopStep, ProtobufRecv, JsonRecv, AddHostname, Input, LoopDone,
         ProducerStep, Deliver, Fail, WorkerStep, WorkerRecv, WorkerMarshal, WorkerSend,
         WorkerDone, vars
<1> QED BY <1>1, <1>2, <1>3

(* Each failure of the producer that the loop reads costs exactly one more *)
(* message, and nothing else does.                                         *)
THEOREM FailuresCostOneEach == Spec => []OneDiscardedPerError
<1> DEFINE Inv == OnceInv /\ OneDiscardedPerError
<1>1. Init => Inv
  BY OnceInit DEF Init, OneDiscardedPerError
<1>2. Inv /\ [Next]_vars => Inv'
  BY OnceStep, DiscardStep
<1> QED BY <1>1, <1>2, PTL DEF Spec
-----------------------------------------------------------------------------
(* At most one worker was started: always with JSON.                       *)
Active == {w \in Workers : wpc[w] # "off"}
Single == Cardinality(Active) <= 1

(* The parts a record passes, the last first.                              *)
Rank ==
    [delivered |-> 1, prod |-> 2, offer |-> 3, encode |-> 4, bCh |-> 5, send |-> 6,
     marshal |-> 7, dCh |-> 8, new |-> 9]

(* What is further along was accepted earlier.                             *)
InLine(P) ==
    \A s, t \in DOMAIN Rank : Rank[s] < Rank[t] => \A x \in P[s], y \in P[t] : x < y

(* The records c[x] of the elements x of q rise.                           *)
Rising(c, q) == \A i, j \in DOMAIN q : i < j => c[q[i]] < c[q[j]]
Itself == [k \in Records |-> k]

(* The JSON loop has no workers and no messages from any; the other does   *)
(* not encode.                                                             *)
LoopKind ==
    /\ Serialization = "json" => Active = {} /\ bCh = <<>>
    /\ Serialization = "proto" => lpc # "encode"

LineInv ==
    /\ LoopKind
    /\ Single => /\ InLine(Stage)
                 /\ Rising(content, dCh) /\ Rising(Itself, bCh)
                 /\ Rising(Itself, prod) /\ Rising(Itself, delivered)

(* The least record of a part overtakes nothing when it moves on past      *)
(* parts that are empty.                                                   *)
LEMMA LineMove ==
    ASSUME NEW P, NEW Q, NEW x, NEW a \in DOMAIN Rank, NEW b \in DOMAIN Rank,
           DOMAIN Rank \subseteq DOMAIN P, Rank[b] < Rank[a],
           \A y \in P[a] \ {x} : x < y,
           \A s \in DOMAIN Rank : Rank[b] < Rank[s] /\ Rank[s] < Rank[a] => P[s] = {},
           Moved(P, Q, {x}, a, b), InLine(P)
    PROVE  InLine(Q)
<1> SUFFICES ASSUME NEW s \in DOMAIN Rank, NEW t \in DOMAIN Rank, Rank[s] < Rank[t],
                    NEW y \in Q[s], NEW z \in Q[t]
             PROVE  y < z
  BY DEF InLine
<1>1. /\ x \in P[a] /\ Q[a] = P[a] \ {x} /\ Q[b] = P[b] \cup {x}
      /\ \A u \in DOMAIN Rank \ {a, b} : Q[u] = P[u]
  BY DEF Moved
<1>2. /\ \A u \in DOMAIN Rank : Rank[u] \in Nat
      /\ \A u, v \in DOMAIN Rank : Rank[u] = Rank[v] => u = v
  BY DEF Rank
<1>3. CASE s = b /\ y = x
  <2>1. CASE t = a
    BY <1>1, <1>3, <2>1
  <2>2. CASE Rank[t] > Rank[a]
    <3>1. z \in P[t]
      BY <1>1, <1>2, <1>3, <2>2
    <3> QED BY <1>1, <1>2, <1>3, <2>2, <3>1 DEF InLine
  <2>3. CASE t # a /\ Rank[t] <= Rank[a]
    <3>1. Rank[b] < Rank[t] /\ Rank[t] < Rank[a] /\ t # b
      BY <1>2, <1>3, <2>3
    <3> QED BY <1>1, <2>3, <3>1
  <2> QED BY <1>2, <2>1, <2>2, <2>3
<1>4. CASE ~(s = b /\ y = x)
  <2>1. y \in P[s]
    BY <1>1, <1>4
  <2>2. CASE t = b /\ z = x
    <3>1. Rank[s] < Rank[a]
      BY <1>2, <2>2
    <3> QED BY <1>1, <2>1, <2>2, <3>1 DEF InLine
  <2>3. CASE ~(t = b /\ z = x)
    <3>1. z \in P[t]
      BY <1>1, <2>3
    <3> QED BY <2>1, <3>1 DEF InLine
  <2> QED BY <2>2, <2>3
<1> QED BY <1>3, <1>4

(* Losing records keeps the line.                                          *)
LEMMA LineShrinks ==
    ASSUME NEW P, NEW Q, \A s \in DOMAIN Rank : Q[s] \subseteq P[s], InLine(P)
    PROVE  InLine(Q)
BY DEF InLine

(* The first of a rising channel has the least record.                     *)
LEMMA RisingTail ==
    ASSUME NEW S, NEW q \in Seq(S), q # <<>>, NEW c, Rising(c, q)
    PROVE  /\ Rising(c, Tail(q))
           /\ \A x \in Contents(q) \ {Head(q)} : c[Head(q)] < c[x]
<1>1. /\ DOMAIN q = 1..Len(q) /\ Len(q) \in Nat /\ Len(q) >= 1 /\ Head(q) = q[1]
      /\ DOMAIN Tail(q) = 1..(Len(q) - 1)
      /\ \A i \in 1..(Len(q) - 1) : Tail(q)[i] = q[i + 1]
  <2>1. Tail(q) \in Seq(S) /\ Len(Tail(q)) = Len(q) - 1
    BY QueueFacts
  <2> QED BY <2>1, QueueFacts
<1>2. Rising(c, Tail(q))
  <2> SUFFICES ASSUME NEW i \in 1..(Len(q) - 1), NEW j \in 1..(Len(q) - 1), i < j
               PROVE  c[q[i + 1]] < c[q[j + 1]]
    BY <1>1 DEF Rising
  <2>1. i + 1 \in 1..Len(q) /\ j + 1 \in 1..Len(q) /\ i + 1 < j + 1
    BY <1>1
  <2> QED BY <1>1, <2>1 DEF Rising
<1>3. \A x \in Contents(q) \ {Head(q)} : c[Head(q)] < c[x]
  <2> SUFFICES ASSUME NEW i \in 1..Len(q), i # 1 PROVE c[q[1]] < c[q[i]]
    BY <1>1 DEF Contents
  <2>1. 1 \in 1..Len(q) /\ 1 < i
    BY <1>1
  <2> QED BY <1>1, <2>1 DEF Rising
<1> QED BY <1>2, <1>3

(* A channel keeps rising when something greater is added to it.           *)
LEMMA RisingAppend ==
    ASSUME NEW S, NEW q \in Seq(S), NEW x \in S, NEW c, NEW d, Rising(c, q),
           \A y \in Contents(q) : d[y] = c[y] /\ c[y] < d[x]
    PROVE  Rising(d, Append(q, x))
<1>1. /\ DOMAIN q = 1..Len(q) /\ Len(q) \in Nat
      /\ DOMAIN Append(q, x) = 1..(Len(q) + 1)
      /\ \A i \in 1..Len(q) : Append(q, x)[i] = q[i]
      /\ Append(q, x)[Len(q) + 1] = x
  <2>1. Append(q, x) \in Seq(S) /\ Len(Append(q, x)) = Len(q) + 1
    BY QueueFacts
  <2> QED BY <2>1, QueueFacts
<1> SUFFICES ASSUME NEW i \in 1..(Len(q) + 1), NEW j \in 1..(Len(q) + 1), i < j
             PROVE  d[Append(q, x)[i]] < d[Append(q, x)[j]]
  BY <1>1 DEF Rising
<1>2. i \in 1..Len(q) /\ q[i] \in Contents(q)
  BY <1>1 DEF Contents
<1>3. CASE j \in 1..Len(q)
  <2>1. q[j] \in Contents(q)
    BY <1>1, <1>3 DEF Contents
  <2> QED BY <1>1, <1>2, <1>3, <2>1 DEF Rising
<1>4. CASE j = Len(q) + 1
  BY <1>1, <1>2, <1>4
<1> QED BY <1>1, <1>3, <1>4

(* One worker at most is at work.                                          *)
LEMMA SingleFacts ==
    ASSUME TypeInv, Single
    PROVE  \A v, w \in Workers : wpc[v] # "off" /\ wpc[w] # "off" => v = w
<1> SUFFICES ASSUME NEW v \in Active, NEW w \in Active, v # w PROVE FALSE
  BY DEF Active
<1>1. IsFiniteSet(Active)
  BY EgressAssumption, FS_Subset DEF Active
<1>2. Cardinality({v}) = 1 /\ IsFiniteSet({v})
  BY FS_Singleton
<1>3. Cardinality({v} \cup {w}) = 2
  BY <1>2, FS_AddElement
<1>4. {v} \cup {w} \in SUBSET Active
  OBVIOUS
<1>5. Cardinality({v} \cup {w}) <= Cardinality(Active) /\ Cardinality(Active) \in Nat
  BY <1>1, <1>4, FS_Subset, FS_CardinalityType
<1> QED BY <1>3, <1>5 DEF Single

(* Nothing is under way at first.                                          *)
LEMMA LineInit == Init => LineInv
<1> SUFFICES ASSUME Init PROVE LineInv
  OBVIOUS
<1>1. LoopKind
  BY DEF Init, LoopKind, Active
<1>2. \A s \in DOMAIN Stage \ {"new"} : Stage[s] = {}
  <2>1. /\ Waiting = {} /\ Contents(bCh) = {} /\ Contents(prod) = {} /\ Contents(delivered) = {}
    BY DEF Init, Contents, Waiting
  <2>2. Marshalled = {} /\ Sent = {} /\ Encoded = {} /\ {lmsg} \ {0} = {} /\ {perr} \ {0} = {}
    <3>1. \A w \in Workers : wpc[w] # "marshal" /\ wmsg[w] = 0
      BY DEF Init
    <3> QED BY <3>1 DEF Init, Marshalled, Sent, Encoded
  <2> QED BY <2>1, <2>2, StageFacts DEF Init
<1>3. InLine(Stage)
  BY <1>2, StageFacts DEF InLine, Rank
<1>4. /\ Rising(content, dCh) /\ Rising(Itself, bCh)
      /\ Rising(Itself, prod) /\ Rising(Itself, delivered)
  BY DEF Init, Rising
<1> QED BY <1>1, <1>3, <1>4 DEF LineInv

(* The kind of the loop and the number of workers stay.                    *)
LEMMA KindStays ==
    ASSUME TypeInv, LoopKind, [Next]_vars
    PROVE  LoopKind' /\ Active' = Active
<1> USE DEF TypeInv, TypeOK, LoopKind, Active
<1>1. CASE UNCHANGED <<Serialization, wpc, bCh>> /\ (lpc' # "encode" \/ UNCHANGED lpc)
  BY <1>1
<1>2. CASE Accept \/ Cancel \/ ProducerStep \/ UNCHANGED vars
  BY <1>1, <1>2 DEF Accept, Cancel, ProducerStep, Deliver, Fail, vars, sourceVars, workerVars,
                    loopVars
<1>3. CASE AddHostname \/ Input \/ Errors \/ LoopDone
  BY <1>1, <1>3 DEF AddHostname, Input, Errors, LoopDone, LoopReturns, sourceVars, workerVars
<1>4. CASE ProtobufRecv
  BY <1>4 DEF ProtobufRecv, sourceVars, workerVars
<1>5. CASE JsonRecv
  BY <1>5 DEF JsonRecv, sourceVars, workerVars
<1>6. ASSUME NEW w \in Workers, WorkerStep(w) PROVE LoopKind' /\ Active' = Active
  <2>1. /\ UNCHANGED <<Serialization, lpc>> /\ wpc[w] # "off"
        /\ \E x \in {"marshal", "send", "select", "done"} : wpc' = [wpc EXCEPT ![w] = x]
    BY <1>6 DEF WorkerStep, WorkerRecv, WorkerMarshal, WorkerSend, WorkerDone, sourceVars, loopVars
  <2>2. \A v \in Workers : wpc'[v] # "off" <=> wpc[v] # "off"
    BY <2>1
  <2> QED BY <2>1, <2>2
<1> QED BY <1>2, <1>3, <1>4, <1>5, <1>6 DEF Next, LoopStep
(* Accepting and the workers keep the line.                                *)
LEMMA LineWorkers ==
    ASSUME OnceInv, LineInv, Single, Accept \/ \E w \in Workers : WorkerStep(w)
    PROVE  /\ InLine(Stage') /\ Rising(content', dCh') /\ Rising(Itself, bCh')
           /\ UNCHANGED <<prod, delivered>>
<1> USE DEF OnceInv, TypeInv
<1>0. /\ InLine(Stage) /\ Rising(content, dCh) /\ Rising(Itself, bCh)
      /\ dCh \in Seq(Buffers) /\ bCh \in Seq(Records)
      /\ DOMAIN Rank \subseteq DOMAIN Stage
      /\ \A w \in Workers : wmsg[w] # 0 <=> wpc[w] = "send"
  BY StageFacts DEF LineInv, TypeOK, Rank, KindInv
<1>1. CASE Accept
  <2> DEFINE k == accepted + 1
  <2>1. Moved(Stage, Stage', {k}, "new", "dCh")
    BY <1>1, OnceAccept
  <2>2. PICK b \in Buffers : /\ b \notin InUse /\ content' = [content EXCEPT ![b] = k]
                             /\ dCh' = Append(dCh, b) /\ k \in Records /\ accepted \in Nat
    BY <1>1, AcceptFacts
  <2>3. \A y \in Stage["new"] \ {k} : k < y
    BY <2>2, StageFacts DEF Records
  <2>4. k \in Stage["new"]
    BY <2>1 DEF Moved
  <2> HIDE DEF k
  <2>5. InLine(Stage')
    <3>1. \A s \in DOMAIN Rank : Rank["dCh"] < Rank[s] /\ Rank[s] < Rank["new"] => Stage[s] = {}
      BY DEF Rank
    <3>2. "new" \in DOMAIN Rank /\ "dCh" \in DOMAIN Rank /\ Rank["dCh"] < Rank["new"]
      BY DEF Rank
    <3> QED BY <1>0, <2>1, <2>3, <3>1, <3>2, LineMove
  <2>6. \A y \in Contents(dCh) : content'[y] = content[y] /\ content[y] < content'[b]
    <3>1. content \in [Buffers -> 0..MaxRecords] /\ b \notin Contents(dCh)
          /\ Contents(dCh) \subseteq Buffers
      BY <2>2, InUseFacts DEF TypeOK, InUse
    <3>2. \A y \in Contents(dCh) : content'[y] = content[y] /\ content'[b] = k
      BY <2>2, <3>1
    <3>3. \A x \in Stage["dCh"] : x < k
      BY <1>0, <2>4 DEF InLine, Rank
    <3>4. \A y \in Contents(dCh) : content[y] \in Stage["dCh"]
      BY StageFacts DEF Waiting
    <3> QED BY <3>2, <3>3, <3>4
  <2>7. Rising(content', dCh')
    BY <1>0, <2>2, <2>6, RisingAppend
  <2>8. UNCHANGED <<bCh, prod, delivered>>
    BY <1>1 DEF Accept, producerVars
  <2> QED BY <1>0, <2>5, <2>7, <2>8
<1>2. ASSUME NEW w \in Workers, WorkerRecv(w)
      PROVE  /\ InLine(Stage') /\ Rising(content', dCh') /\ Rising(Itself, bCh')
             /\ UNCHANGED <<prod, delivered>>
  <2> DEFINE b == Head(dCh)  k == content[b]
  <2>1. /\ dCh # <<>> /\ dCh' = Tail(dCh) /\ UNCHANGED <<content, bCh, prod, delivered>>
        /\ wpc[w] = "select"
    BY <1>2 DEF WorkerRecv, producerVars
  <2>2. Moved(Stage, Stage', {k}, "dCh", "marshal")
    BY <1>2, <2>1, OnceWorker DEF WorkerMarshal, WorkerSend
  <2>3. Rising(content, dCh') /\ \A x \in Contents(dCh) \ {b} : k < content[x]
    BY <1>0, <2>1, RisingTail
  <2>4. \A y \in Stage["dCh"] \ {k} : k < y
    BY <2>3, StageFacts DEF Waiting
  <2> HIDE DEF k
  <2>5. InLine(Stage')
    <3>1. \A s \in DOMAIN Rank : Rank["marshal"] < Rank[s] /\ Rank[s] < Rank["dCh"] => Stage[s] = {}
      BY DEF Rank
    <3>2. "dCh" \in DOMAIN Rank /\ "marshal" \in DOMAIN Rank /\ Rank["marshal"] < Rank["dCh"]
      BY DEF Rank
    <3> QED BY <1>0, <2>2, <2>4, <3>1, <3>2, LineMove
  <2> QED BY <1>0, <2>1, <2>3, <2>5
<1>3. ASSUME NEW w \in Workers, WorkerMarshal(w)
      PROVE  /\ InLine(Stage') /\ Rising(content', dCh') /\ Rising(Itself, bCh')
             /\ UNCHANGED <<prod, delivered>>
  <2> DEFINE k == content[wbuf[w]]
  <2>1. /\ UNCHANGED <<content, dCh, bCh, prod, delivered>> /\ wpc[w] = "marshal"
    BY <1>3 DEF WorkerMarshal, producerVars
  <2>2. Moved(Stage, Stage', {k}, "marshal", "send")
    BY <1>3, <2>1, OnceWorker DEF WorkerRecv, WorkerSend
  <2>3. \A y \in Stage["marshal"] \ {k} : k < y
    BY <2>1, SingleFacts, StageFacts DEF Marshalled
  <2> HIDE DEF k
  <2>4. InLine(Stage')
    <3>1. \A s \in DOMAIN Rank : Rank["send"] < Rank[s] /\ Rank[s] < Rank["marshal"] => Stage[s] = {}
      BY DEF Rank
    <3>2. "send" \in DOMAIN Rank /\ "marshal" \in DOMAIN Rank /\ Rank["send"] < Rank["marshal"]
      BY DEF Rank
    <3> QED BY <1>0, <2>2, <2>3, <3>1, <3>2, LineMove
  <2> QED BY <1>0, <2>1, <2>4
<1>4. ASSUME NEW w \in Workers, WorkerSend(w)
      PROVE  /\ InLine(Stage') /\ Rising(content', dCh') /\ Rising(Itself, bCh')
             /\ UNCHANGED <<prod, delivered>>
  <2> DEFINE k == wmsg[w]
  <2>1. /\ UNCHANGED <<content, dCh, prod, delivered>> /\ wpc[w] = "send"
        /\ bCh' = Append(bCh, k)
    BY <1>4 DEF WorkerSend, producerVars
  <2>2. Moved(Stage, Stage', {k}, "send", "bCh")
    BY <1>4, <2>1, OnceWorker DEF WorkerRecv, WorkerMarshal
  <2>3. \A y \in Stage["send"] \ {k} : k < y
    BY <1>0, <2>1, SingleFacts, StageFacts DEF Sent
  <2>4. k \in Records /\ k \in Stage["send"]
    BY <1>0, <2>1, <2>2, EgressAssumption DEF Moved, TypeOK, Records
  <2> HIDE DEF k
  <2>5. InLine(Stage')
    <3>1. \A s \in DOMAIN Rank : Rank["bCh"] < Rank[s] /\ Rank[s] < Rank["send"] => Stage[s] = {}
      BY DEF Rank
    <3>2. "bCh" \in DOMAIN Rank /\ "send" \in DOMAIN Rank /\ Rank["bCh"] < Rank["send"]
      BY DEF Rank
    <3> QED BY <1>0, <2>2, <2>3, <3>1, <3>2, LineMove
  <2>6. \A y \in Contents(bCh) : Itself[y] = Itself[y] /\ Itself[y] < Itself[k]
    <3>1. \A x \in Stage["bCh"] : x < k
      BY <1>0, <2>4 DEF InLine, Rank
    <3>2. Contents(bCh) \subseteq Records
      BY <1>0, QueueFacts DEF Contents
    <3> QED BY <2>4, <3>1, <3>2, StageFacts DEF Itself
  <2>7. Rising(Itself, bCh')
    BY <1>0, <2>1, <2>4, <2>6, RisingAppend
  <2> QED BY <1>0, <2>1, <2>5, <2>7
<1>5. ASSUME NEW w \in Workers, WorkerDone(w)
      PROVE  /\ InLine(Stage') /\ Rising(content', dCh') /\ Rising(Itself, bCh')
             /\ UNCHANGED <<prod, delivered>>
  <2>1. /\ UNCHANGED <<accepted, content, dCh, wbuf, wmsg, bCh, lpc, lbuf, lmsg, prod, perr,
                       delivered, failed, discarded>>
        /\ \A v \in Workers : wpc'[v] = "marshal" <=> wpc[v] = "marshal"
    BY <1>5 DEF WorkerDone, sourceVars, loopVars, producerVars, TypeOK
  <2>2. UNCHANGED <<Waiting, Marshalled, Sent, Encoded>>
    BY <2>1 DEF Waiting, Marshalled, Sent, Encoded
  <2>3. Stage' = Stage
    BY <2>1, <2>2 DEF Stage
  <2> QED BY <1>0, <2>1, <2>3
<1> QED BY <1>1, <1>2, <1>3, <1>4, <1>5 DEF WorkerStep

(* So do the loop and the producer, who give up what the line then lacks.  *)
LEMMA LineLoop ==
    ASSUME OnceInv, LineInv, Single, LoopStep \/ ProducerStep
    PROVE  /\ InLine(Stage') /\ Rising(content', dCh') /\ Rising(Itself, bCh')
           /\ Rising(Itself, prod') /\ Rising(Itself, delivered')
<1> USE DEF OnceInv, TypeInv
<1>0. /\ InLine(Stage) /\ Rising(content, dCh) /\ Rising(Itself, bCh)
      /\ Rising(Itself, prod) /\ Rising(Itself, delivered)
      /\ dCh \in Seq(Buffers) /\ bCh \in Seq(Records)
      /\ prod \in Seq(Records) /\ delivered \in Seq(Records)
      /\ DOMAIN Rank \subseteq DOMAIN Stage /\ LoopKind
      /\ \A w \in Workers : wmsg[w] # 0 <=> wpc[w] = "send"
      /\ lpc = "offer" <=> lmsg # 0
  BY StageFacts DEF LineInv, TypeOK, Rank, KindInv
<1>1. /\ \A k \in Records : Itself[k] = k
      /\ Contents(bCh) \subseteq Records /\ Contents(prod) \subseteq Records
      /\ Contents(delivered) \subseteq Records
  BY <1>0, QueueFacts DEF Contents, Itself
<1>2. CASE ProtobufRecv /\ Moved(Stage, Stage', {Head(bCh)}, "bCh", "offer")
  <2> DEFINE k == Head(bCh)
  <2>1. /\ bCh # <<>> /\ bCh' = Tail(bCh) /\ UNCHANGED <<content, dCh, prod, delivered>>
        /\ lpc = "select" /\ Serialization = "proto"
    BY <1>2 DEF ProtobufRecv, producerVars
  <2>2. Moved(Stage, Stage', {k}, "bCh", "offer")
    BY <1>2
  <2>3. Rising(Itself, bCh') /\ \A y \in Stage["bCh"] \ {k} : k < y
    <3>1. Rising(Itself, bCh') /\ \A x \in Contents(bCh) \ {k} : Itself[k] < Itself[x]
      BY <1>0, <2>1, RisingTail
    <3>2. k \in Records
      BY <1>0, <2>1, QueueFacts
    <3> QED BY <1>1, <3>1, <3>2, StageFacts
  <2> HIDE DEF k
  <2>4. InLine(Stage')
    <3>1. Stage["encode"] = {}
      BY <2>1, StageFacts DEF Encoded
    <3>2. \A s \in DOMAIN Rank : Rank["offer"] < Rank[s] /\ Rank[s] < Rank["bCh"] => Stage[s] = {}
      BY <3>1 DEF Rank
    <3>3. "offer" \in DOMAIN Rank /\ "bCh" \in DOMAIN Rank /\ Rank["offer"] < Rank["bCh"]
      BY DEF Rank
    <3> QED BY <1>0, <2>2, <2>3, <3>2, <3>3, LineMove
  <2> QED BY <1>0, <2>1, <2>3, <2>4
<1>3. CASE JsonRecv /\ Moved(Stage, Stage', {content[Head(dCh)]}, "dCh", "encode")
  <2> DEFINE b == Head(dCh)  k == content[b]
  <2>1. /\ dCh # <<>> /\ dCh' = Tail(dCh) /\ UNCHANGED <<content, bCh, prod, delivered>>
        /\ lpc = "select" /\ Serialization = "json"
    BY <1>3 DEF JsonRecv, sourceVars, producerVars
  <2>2. Moved(Stage, Stage', {k}, "dCh", "encode")
    BY <1>3
  <2>3. Rising(content, dCh') /\ \A x \in Contents(dCh) \ {b} : k < content[x]
    BY <1>0, <2>1, RisingTail
  <2>4. \A y \in Stage["dCh"] \ {k} : k < y
    BY <2>3, StageFacts DEF Waiting
  <2> HIDE DEF k
  <2>5. Stage["bCh"] = {} /\ Stage["send"] = {} /\ Stage["marshal"] = {}
    <3>1. bCh = <<>> /\ \A w \in Workers : wpc[w] = "off"
      BY <1>0, <2>1 DEF LoopKind, Active
    <3>2. \A w \in Workers : wmsg[w] = 0 /\ wpc[w] # "marshal"
      BY <1>0, <3>1
    <3> QED BY <3>1, <3>2, StageFacts DEF Contents, Sent, Marshalled
  <2>6. InLine(Stage')
    <3>1. \A s \in DOMAIN Rank : Rank["encode"] < Rank[s] /\ Rank[s] < Rank["dCh"] => Stage[s] = {}
      BY <2>5 DEF Rank
    <3>2. "dCh" \in DOMAIN Rank /\ "encode" \in DOMAIN Rank /\ Rank["encode"] < Rank["dCh"]
      BY DEF Rank
    <3> QED BY <1>0, <2>2, <2>4, <3>1, <3>2, LineMove
  <2> QED BY <1>0, <2>1, <2>3, <2>6
<1>4. CASE AddHostname /\ Moved(Stage, Stage', {content[lbuf]}, "encode", "offer")
  <2> DEFINE k == content[lbuf]
  <2>1. UNCHANGED <<content, dCh, bCh, prod, delivered>> /\ lpc = "encode"
    BY <1>4 DEF AddHostname, producerVars
  <2>2. Moved(Stage, Stage', {k}, "encode", "offer")
    BY <1>4
  <2>3. \A y \in Stage["encode"] \ {k} : k < y
    BY <2>1, StageFacts DEF Encoded
  <2> HIDE DEF k
  <2>4. InLine(Stage')
    <3>1. \A s \in DOMAIN Rank : Rank["offer"] < Rank[s] /\ Rank[s] < Rank["encode"] => Stage[s] = {}
      BY DEF Rank
    <3>2. "offer" \in DOMAIN Rank /\ "encode" \in DOMAIN Rank /\ Rank["offer"] < Rank["encode"]
      BY DEF Rank
    <3> QED BY <1>0, <2>2, <2>3, <3>1, <3>2, LineMove
  <2> QED BY <1>0, <2>1, <2>4
<1>5. CASE Input /\ Moved(Stage, Stage', {lmsg}, "offer", "prod")
  <2>1. /\ prod' = Append(prod, lmsg) /\ UNCHANGED <<content, dCh, bCh, delivered>>
        /\ lmsg # 0
    BY <1>0, <1>5 DEF Input
  <2>2. lmsg \in Records /\ lmsg \in Stage["offer"] /\ \A y \in Stage["offer"] \ {lmsg} : lmsg < y
    BY <2>1, StageFacts, EgressAssumption DEF TypeOK, Records
  <2>3. InLine(Stage')
    <3>1. \A s \in DOMAIN Rank : Rank["prod"] < Rank[s] /\ Rank[s] < Rank["offer"] => Stage[s] = {}
      BY DEF Rank
    <3>2. "offer" \in DOMAIN Rank /\ "prod" \in DOMAIN Rank /\ Rank["prod"] < Rank["offer"]
      BY DEF Rank
    <3> QED BY <1>0, <1>5, <2>2, <3>1, <3>2, LineMove
  <2>4. \A y \in Contents(prod) : Itself[y] = Itself[y] /\ Itself[y] < Itself[lmsg]
    <3>1. \A x \in Stage["prod"] : x < lmsg
      BY <1>0, <2>2 DEF InLine, Rank
    <3> QED BY <1>1, <2>2, <3>1, StageFacts
  <2>5. Rising(Itself, prod')
    BY <1>0, <2>1, <2>2, <2>4, RisingAppend
  <2> QED BY <1>0, <2>1, <2>3, <2>5
<1>6. CASE Errors /\ \A s \in DOMAIN Stage \ {"failed", "discarded"} : Stage'[s] \subseteq Stage[s]
  <2>1. UNCHANGED <<content, dCh, bCh, prod, delivered>>
    BY <1>6 DEF Errors
  <2>2. \A s \in DOMAIN Rank : Stage'[s] \subseteq Stage[s]
    <3>1. DOMAIN Rank \subseteq DOMAIN Stage \ {"failed", "discarded"}
      BY <1>0 DEF Rank
    <3> QED BY <1>6, <3>1
  <2> QED BY <1>0, <2>1, <2>2, LineShrinks
<1>7. CASE LoopDone /\ Stage' = Stage
  BY <1>0, <1>7 DEF LoopDone, producerVars
<1>8. CASE ProducerStep
  <2> DEFINE k == Head(prod)
  <2>1. /\ prod # <<>> /\ prod' = Tail(prod) /\ UNCHANGED <<content, dCh, bCh>>
    BY <1>8 DEF ProducerStep, Deliver, Fail
  <2>2. k \in Records /\ Rising(Itself, prod') /\ \A y \in Stage["prod"] \ {k} : k < y
    <3>1. Rising(Itself, prod') /\ \A x \in Contents(prod) \ {k} : Itself[k] < Itself[x]
      BY <1>0, <2>1, RisingTail
    <3>2. k \in Records
      BY <1>0, <2>1, QueueFacts
    <3> QED BY <1>1, <3>1, <3>2, StageFacts
  <2>3. CASE Deliver /\ Moved(Stage, Stage', {k}, "prod", "delivered")
    <3> HIDE DEF k
    <3>1. InLine(Stage')
      <4>1. \A s \in DOMAIN Rank : Rank["delivered"] < Rank[s] /\ Rank[s] < Rank["prod"] => Stage[s] = {}
        BY DEF Rank
      <4>2. "prod" \in DOMAIN Rank /\ "delivered" \in DOMAIN Rank /\ Rank["delivered"] < Rank["prod"]
        BY DEF Rank
      <4> QED BY <1>0, <2>2, <2>3, <4>1, <4>2, LineMove
    <3>2. \A y \in Contents(delivered) : Itself[y] = Itself[y] /\ Itself[y] < Itself[k]
      <4>1. k \in Stage["prod"]
        BY <2>3 DEF Moved
      <4>2. \A x \in Stage["delivered"] : x < k
        BY <1>0, <4>1 DEF InLine, Rank
      <4> QED BY <1>1, <2>2, <4>2, StageFacts
    <3>3. Rising(Itself, delivered')
      <4>1. delivered' = Append(delivered, k)
        BY <2>3 DEF Deliver, k
      <4> QED BY <1>0, <2>2, <3>2, <4>1, RisingAppend
    <3> QED BY <1>0, <2>1, <2>2, <3>1, <3>3
  <2>4. CASE Fail /\ Moved(Stage, Stage', {k}, "prod", "perr")
    <3> HIDE DEF k
    <3>1. \A s \in DOMAIN Rank : Stage'[s] \subseteq Stage[s]
      BY <1>0, <2>4 DEF Moved, Rank
    <3>2. delivered' = delivered
      BY <2>4 DEF Fail
    <3> QED BY <1>0, <2>1, <2>2, <3>1, <3>2, LineShrinks
  <2> QED BY <1>8, <2>3, <2>4, OnceProducer
<1> QED BY <1>2, <1>3, <1>4, <1>5, <1>6, <1>7, <1>8, OnceLoop

(* Every step keeps the line.                                              *)
LEMMA LineStep ==
    ASSUME OnceInv, LineInv, [Next]_vars PROVE LineInv'
<1>1. LoopKind' /\ Single' = Single
  BY KindStays DEF LineInv, OnceInv, Single
<1>2. CASE ~Single
  BY <1>1, <1>2 DEF LineInv
<1>3. CASE Single
  <2>1. CASE Cancel \/ UNCHANGED vars
    <3>1. UNCHANGED <<accepted, content, dCh, wpc, wbuf, wmsg, bCh, lpc, lbuf, lmsg, prod, perr,
                      delivered, failed, discarded>>
      BY <2>1 DEF Cancel, vars, sourceVars, workerVars, loopVars, producerVars
    <3>2. Stage' = Stage
      BY <3>1 DEF Stage, Waiting, Marshalled, Sent, Encoded
    <3> QED BY <1>1, <1>3, <3>1, <3>2 DEF LineInv
  <2> QED BY <1>1, <1>3, <2>1, LineWorkers, LineLoop DEF Next, LineInv
<1> QED BY <1>2, <1>3

(* With JSON, or one worker, what the brokers took they took in the order  *)
(* in which the agent accepted it: what failed or was given up leaves a    *)
(* gap and nothing overtakes anything.                                     *)
THEOREM DeliveredInOrder == Spec => []DeliveryOrder
<1> DEFINE Inv == OnceInv /\ LineInv
<1>1. Init => Inv
  BY OnceInit, LineInit
<1>2. Inv /\ [Next]_vars => Inv'
  BY OnceStep, LineStep
<1>3. Inv => DeliveryOrder
  <2> SUFFICES ASSUME Inv, Single PROVE \A i, j \in DOMAIN delivered : i < j => delivered[i] < delivered[j]
    BY DEF DeliveryOrder, Single, Active
  <2>1. Rising(Itself, delivered) /\ \A i \in DOMAIN delivered : delivered[i] \in Records
    BY QueueFacts DEF LineInv, OnceInv, TypeInv, TypeOK
  <2> QED BY <2>1 DEF Rising, Itself
<1> QED BY <1>1, <1>2, <1>3, PTL DEF Spec
=============================================================================
