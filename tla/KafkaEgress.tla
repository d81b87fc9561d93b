---------------------------- MODULE KafkaEgress ----------------------------
(***************************************************************************)
(* The Kafka egress of the agent (egress/kafka).  For the protobuf kinds,  *)
(* workers turn buffers into messages and a loop gives the messages to the *)
(* producer of sarama; for JSON the loop does both.  A loop with a message *)
(* in hand waits for the producer's input or for one of its errors,        *)
(* whichever comes first, and then goes on to the next message.            *)
(***************************************************************************)
EXTENDS Integers, Sequences, FiniteSets

CONSTANTS
    Workers,        \* workerPB or workerSPB goroutines, at most
    Buffers,        \* identities of *bytes.Buffer
    Nil,            \* no buffer
    InCap,          \* capacity of the egress channel (1000 in main)
    BCap,           \* capacity of bCh (1000)
    ProdCap,        \* messages the producer holds before its input blocks
    MaxRecords      \* bound: records accepted

ASSUME EgressAssumption ==
    /\ InCap \in Nat /\ BCap \in Nat /\ ProdCap \in Nat \ {0} /\ MaxRecords \in Nat
    /\ Nil \notin Buffers /\ IsFiniteSet(Workers)

Records == 1..MaxRecords

VARIABLES
    Serialization,  \* as configured: json, or proto for pb and spb
    accepted,   \* records accepted into the egress channel so far
    ctx,        \* the agent's context: open, or done
    pool,       \* buffers in the sync.Pool
    content,    \* buffer -> the record in it, or 0
    dCh,        \* the egress channel
    wpc,        \* worker -> where it is
    wbuf,       \* worker -> its buffer, or Nil
    wmsg,       \* worker -> the message it made, or 0
    bCh,        \* messages from the workers to the loop
    lpc,        \* where the loop is
    lbuf,       \* the buffer the JSON loop holds, or Nil
    lmsg,       \* the message the loop offers to the producer, or 0
    prod,       \* messages in the producer
    perr,       \* the message of the error the producer offers, or 0
    delivered,  \* messages the brokers took, in order
    failed,     \* messages whose error the loop has read
    discarded   \* messages the loop gave up while it read an error

sourceVars == <<Serialization, accepted>>
workerVars == <<wpc, wbuf, wmsg>>
loopVars == <<lpc, lbuf, lmsg>>
producerVars == <<prod, perr, delivered>>
vars == <<sourceVars, ctx, pool, content, dCh, workerVars, bCh, loopVars, producerVars,
          failed, discarded>>

Init ==
    /\ Serialization \in {"json", "proto"}
    /\ accepted = 0 /\ ctx = "open"
    /\ pool = {} /\ content = [b \in Buffers |-> 0]
    /\ dCh = <<>> /\ bCh = <<>>
    /\ \E started \in SUBSET Workers :
         /\ started = {} <=> Serialization = "json"
         /\ wpc = [w \in Workers |-> IF w \in started THEN "select" ELSE "off"]
    /\ wbuf = [w \in Workers |-> Nil] /\ wmsg = [w \in Workers |-> 0]
    /\ lpc = "select" /\ lbuf = Nil /\ lmsg = 0
    /\ prod = <<>> /\ perr = 0 /\ delivered = <<>>
    /\ failed = {} /\ discarded = {}

Contents(q) == {q[i] : i \in DOMAIN q}

(* Buffers the egress refers to.                                           *)
InUse == Contents(dCh) \cup {wbuf[w] : w \in Workers} \cup {lbuf}

-----------------------------------------------------------------------------
(* A worker of ebpf decodes a record into a buffer of the pool, or a new   *)
(* one, and sends it; Agent models what a full channel does.               *)
Accept ==
    /\ accepted < MaxRecords /\ Len(dCh) < InCap
    /\ \E b \in Buffers :
         /\ b \in pool \/ b \notin InUse
         /\ pool' = pool \ {b}
         /\ content' = [content EXCEPT ![b] = accepted + 1]
         /\ dCh' = Append(dCh, b)
    /\ accepted' = accepted + 1
    /\ UNCHANGED <<Serialization, ctx, workerVars, bCh, loopVars, producerVars, failed,
                   discarded>>

Cancel ==
    /\ ctx = "open" /\ ctx' = "done"
    /\ UNCHANGED <<sourceVars, pool, content, dCh, workerVars, bCh, loopVars, producerVars,
                   failed, discarded>>

-----------------------------------------------------------------------------
(* workerPB and workerSPB.                                                 *)

(* Mutant: the buffer is returned before it is marshalled.                 *)
WorkerRecvPuts(w) ==
    /\ wpc[w] = "select" /\ dCh # <<>>
    /\ wbuf' = [wbuf EXCEPT ![w] = Head(dCh)]
    /\ pool' = pool \cup {Head(dCh)}
    /\ dCh' = Tail(dCh)
    /\ wpc' = [wpc EXCEPT ![w] = "marshal"]
    /\ UNCHANGED <<sourceVars, ctx, content, wmsg, bCh, loopVars, producerVars, failed,
                   discarded>>

WorkerRecv(w) ==
    /\ wpc[w] = "select" /\ dCh # <<>>
    /\ wbuf' = [wbuf EXCEPT ![w] = Head(dCh)]
    /\ dCh' = Tail(dCh)
    /\ wpc' = [wpc EXCEPT ![w] = "marshal"]
    /\ UNCHANGED <<sourceVars, ctx, pool, content, wmsg, bCh, loopVars, producerVars, failed,
                   discarded>>

(* Unmarshal and Marshal.  The record is read out of the buffer.           *)
WorkerMarshal(w) ==
    /\ wpc[w] = "marshal"
    /\ wmsg' = [wmsg EXCEPT ![w] = content[wbuf[w]]]
    /\ wpc' = [wpc EXCEPT ![w] = "send"]
    /\ UNCHANGED <<sourceVars, ctx, pool, content, dCh, wbuf, bCh, loopVars, producerVars,
                   failed, discarded>>

(* k.bCh <- b, which waits for room, and the Put of the buffer.            *)
WorkerSend(w) ==
    /\ wpc[w] = "send" /\ Len(bCh) < BCap
    /\ bCh' = Append(bCh, wmsg[w])
    /\ pool' = pool \cup {wbuf[w]}
    /\ wmsg' = [wmsg EXCEPT ![w] = 0]
    /\ wbuf' = [wbuf EXCEPT ![w] = Nil]
    /\ wpc' = [wpc EXCEPT ![w] = "select"]
    /\ UNCHANGED <<sourceVars, ctx, content, dCh, loopVars, producerVars, failed,
                   discarded>>

WorkerDone(w) ==
    /\ wpc[w] = "select" /\ ctx = "done"
    /\ wpc' = [wpc EXCEPT ![w] = "done"]
    /\ UNCHANGED <<sourceVars, ctx, pool, content, dCh, wbuf, wmsg, bCh, loopVars,
                   producerVars, failed, discarded>>

WorkerStep(w) == \/ WorkerRecv(w) \/ WorkerMarshal(w) \/ WorkerSend(w) \/ WorkerDone(w)

-----------------------------------------------------------------------------
(* protobufLoop and jsonLoop.                                              *)

(* case b := <-k.bCh                                                       *)
ProtobufRecv ==
    /\ Serialization = "proto" /\ lpc = "select" /\ bCh # <<>>
    /\ lmsg' = Head(bCh) /\ bCh' = Tail(bCh)
    /\ lpc' = "offer"
    /\ UNCHANGED <<sourceVars, ctx, pool, content, dCh, workerVars, lbuf, producerVars,
                   failed, discarded>>

(* case buf := <-k.dCh                                                     *)
JsonRecv ==
    /\ Serialization = "json" /\ lpc = "select" /\ dCh # <<>>
    /\ lbuf' = Head(dCh) /\ dCh' = Tail(dCh)
    /\ lpc' = "encode"
    /\ UNCHANGED <<sourceVars, ctx, pool, content, workerVars, bCh, lmsg, producerVars,
                   failed, discarded>>

(* addHostname, evaluated as the select is entered: a fresh byte slice.    *)
AddHostname ==
    /\ lpc = "encode"
    /\ lmsg' = content[lbuf]
    /\ lpc' = "offer"
    /\ UNCHANGED <<sourceVars, ctx, pool, content, dCh, workerVars, bCh, lbuf, producerVars,
                   failed, discarded>>

(* Back to the outer select; the JSON loop puts its buffer.                *)
LoopReturns ==
    /\ lpc' = "select" /\ lmsg' = 0 /\ lbuf' = Nil
    /\ pool' = pool \cup ({lbuf} \ {Nil})

(* Mutant: errors are only read in the outer select.                       *)
ErrorsAtSelect ==
    /\ lpc = "select" /\ perr # 0
    /\ failed' = failed \cup {perr} /\ perr' = 0
    /\ UNCHANGED <<sourceVars, ctx, pool, content, dCh, workerVars, bCh, loopVars, prod,
                   delivered, discarded>>

(* Mutant: the message in hand is given to a goroutine that queues it.     *)
ErrorsRequeue ==
    /\ lpc = "offer" /\ perr # 0
    /\ failed' = failed \cup {perr} /\ perr' = 0
    /\ IF Serialization = "json"
       THEN dCh' = Append(dCh, lbuf) /\ UNCHANGED bCh
       ELSE bCh' = Append(bCh, lmsg) /\ UNCHANGED dCh
    /\ lpc' = "select" /\ lmsg' = 0 /\ lbuf' = Nil
    /\ UNCHANGED <<sourceVars, ctx, pool, content, workerVars, prod, delivered,
                   discarded>>

(* Mutant: a default gives the message up when the producer is busy.       *)
InputOrDrop ==
    /\ lpc = "offer"
    /\ \/ Len(prod) < ProdCap /\ prod' = Append(prod, lmsg) /\ UNCHANGED discarded
       \/ /\ Len(prod) >= ProdCap /\ perr = 0
          /\ discarded' = discarded \cup {lmsg} /\ UNCHANGED prod
    /\ LoopReturns
    /\ UNCHANGED <<sourceVars, ctx, content, dCh, workerVars, bCh, perr, delivered,
                   failed>>

(* k.producer.Input() <- message                                           *)
Input ==
    /\ lpc = "offer" /\ Len(prod) < ProdCap
    /\ prod' = Append(prod, lmsg)
    /\ LoopReturns
    /\ UNCHANGED <<sourceVars, ctx, content, dCh, workerVars, bCh, perr, delivered,
                   failed, discarded>>

(* err := <-k.producer.Errors(): the message in hand is not offered again. *)
Errors ==
    /\ lpc = "offer" /\ perr # 0
    /\ failed' = failed \cup {perr} /\ perr' = 0
    /\ discarded' = discarded \cup {lmsg}
    /\ LoopReturns
    /\ UNCHANGED <<sourceVars, ctx, content, dCh, workerVars, bCh, prod, delivered>>

LoopDone ==
    /\ lpc = "select" /\ ctx = "done"
    /\ lpc' = "done"
    /\ UNCHANGED <<sourceVars, ctx, pool, content, dCh, workerVars, bCh, lbuf, lmsg,
                   producerVars, failed, discarded>>

LoopStep == ProtobufRecv \/ JsonRecv \/ AddHostname \/ Input \/ Errors \/ LoopDone

-----------------------------------------------------------------------------
(* The AsyncProducer of sarama.  It returns errors on a channel without    *)
(* room and does nothing else until its error is read.                     *)
Deliver ==
    /\ prod # <<>> /\ perr = 0
    /\ delivered' = Append(delivered, Head(prod)) /\ prod' = Tail(prod)
    /\ UNCHANGED <<sourceVars, ctx, pool, content, dCh, workerVars, bCh, loopVars, perr,
                   failed, discarded>>

Fail ==
    /\ prod # <<>> /\ perr = 0
    /\ perr' = Head(prod) /\ prod' = Tail(prod)
    /\ UNCHANGED <<sourceVars, ctx, pool, content, dCh, workerVars, bCh, loopVars, delivered,
                   failed, discarded>>

ProducerStep == Deliver \/ Fail

Next == \/ Accept \/ Cancel \/ LoopStep \/ ProducerStep
        \/ \E w \in Workers : WorkerStep(w)

Spec == Init /\ [][Next]_vars

(* Goroutines run, the producer's included.  Each message is delivered or  *)
(* fails, whichever it likes: retries end.                                 *)
FairSpec == Spec /\ WF_vars(LoopStep) /\ WF_vars(ProducerStep)
                 /\ \A w \in Workers : WF_vars(WorkerStep(w))

-----------------------------------------------------------------------------
(* Every variable holds a value of its kind, channels stay within their    *)
(* capacities, and a worker or the JSON loop holds a buffer exactly from   *)
(* its receive to its Put.                                                 *)
TypeOK ==
    /\ Serialization \in {"json", "proto"}
    /\ accepted \in 0..MaxRecords /\ ctx \in {"open", "done"}
    /\ pool \subseteq Buffers /\ content \in [Buffers -> 0..MaxRecords]
    /\ dCh \in Seq(Buffers) /\ Len(dCh) <= InCap
    /\ bCh \in Seq(Records) /\ Len(bCh) <= BCap
    /\ wpc \in [Workers -> {"off", "select", "marshal", "send", "done"}]
    /\ wbuf \in [Workers -> Buffers \cup {Nil}]
    /\ wmsg \in [Workers -> 0..MaxRecords]
    /\ \A w \in Workers : wpc[w] \in {"marshal", "send"} <=> wbuf[w] # Nil
    /\ lpc \in {"select", "encode", "offer", "done"}
    /\ lbuf \in Buffers \cup {Nil} /\ lmsg \in 0..MaxRecords
    /\ lpc = "offer" <=> lmsg # 0
    /\ lbuf # Nil => Serialization = "json" /\ lpc \in {"encode", "offer"}
    /\ prod \in Seq(Records) /\ Len(prod) <= ProdCap
    /\ perr \in 0..MaxRecords
    /\ delivered \in Seq(Records)
    /\ failed \subseteq Records /\ discarded \subseteq Records

(* Where record k is.                                                      *)
Places(k) ==
    {<<"dCh", i>> : i \in {j \in DOMAIN dCh : content[dCh[j]] = k}}
      \cup {<<"marshal", w>> :
              w \in {v \in Workers : wpc[v] = "marshal" /\ content[wbuf[v]] = k}}
      \cup {<<"send", w>> : w \in {v \in Workers : wmsg[v] = k}}
      \cup {<<"bCh", i>> : i \in {j \in DOMAIN bCh : bCh[j] = k}}
      \cup {<<"encode", b>> :
              b \in {c \in Buffers : lpc = "encode" /\ lbuf = c /\ content[c] = k}}
      \cup {<<"offer", i>> : i \in {lmsg} \cap {k}}
      \cup {<<"prod", i>> : i \in {j \in DOMAIN prod : prod[j] = k}}
      \cup {<<"perr", i>> : i \in {perr} \cap {k}}
      \cup {<<"delivered", i>> : i \in {j \in DOMAIN delivered : delivered[j] = k}}
      \cup {<<"failed", i>> : i \in failed \cap {k}}
      \cup {<<"discarded", i>> : i \in discarded \cap {k}}

(* A message never shares memory with a buffer that is filled again, and   *)
(* none is lost or produced twice: a record is in exactly one place, and   *)
(* one that is neither under way nor delivered failed or was discarded     *)
(* beside a failure.                                                       *)
Conservation == \A k \in 1..accepted : Cardinality(Places(k)) = 1

(* What a failing broker costs: for each message whose error is read, one  *)
(* other message, the one in hand, is given up, and no message is given up *)
(* because the producer is merely busy.                                    *)
OneDiscardedPerError == Cardinality(discarded) = Cardinality(failed)

(* With JSON, or a single worker, a partition gets its records in the      *)
(* order the agent accepted them, whatever failed in between.              *)
DeliveryOrder ==
    Cardinality({w \in Workers : wpc[w] # "off"}) <= 1 =>
        \A i, j \in DOMAIN delivered : i < j => delivered[i] < delivered[j]

(* A loop with a message in hand gets rid of it: it cannot wait for a      *)
(* producer that waits for its error to be read.                           *)
NeverStuck == lpc = "offer" ~> lpc # "offer"
=============================================================================
