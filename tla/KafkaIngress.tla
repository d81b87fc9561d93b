---------------------------- MODULE KafkaIngress ----------------------------
(***************************************************************************)
(* The Kafka ingress of the server (ingress/kafka): one partition of the   *)
(* topic and the consumer group session of this server.  ConsumeClaim      *)
(* hands a message to the workers and marks it; the workers unmarshal it   *)
(* and put it into the server's channel.  Marks are committed now and then *)
(* and when a session ends.  The group may rebalance, and the server may   *)
(* crash, or leave upon an interrupt without waiting for anybody.          *)
(***************************************************************************)
EXTENDS Integers, Sequences, FiniteSets

CONSTANTS
    Workers,        \* the worker goroutines: kCfg.Workers of them
    HandlerCap,     \* capacity of the handler's channel (1)
    ChCap,          \* capacity of the server's channel (1000 in server/main)
    MaxMessages,    \* bound: messages in the partition
    MaxCrashes,     \* bound: ends of the process
    MaxRebalances   \* bound: rebalances of the group

ASSUME IngressAssumption ==
    /\ IsFiniteSet(Workers)
    /\ HandlerCap \in Nat /\ ChCap \in Nat
    /\ MaxMessages \in Nat /\ MaxCrashes \in Nat /\ MaxRebalances \in Nat

Messages == 1..MaxMessages

VARIABLES
    produced,   \* messages 1..produced are in the partition
    committed,  \* the broker's offset: messages 1..committed are committed
    pc,         \* the consumer goroutine: consume, session, closed, or down
    closing,    \* the session: open, or closing once its claims are closed
    claim,      \* ConsumeClaim: range, send, mark
    held,       \* the message it holds, or 0
    cursor,     \* the last message the claim has handed out
    marked,     \* the highest message marked in this session
    hCh,        \* the handler's channel
    wpc, wmsg,  \* worker -> where it is, and its message or 0
    ch,         \* the server's channel
    taken,      \* message, life of the process -> how often it was ingested
    rejected,   \* messages that do not unmarshal
    lost,       \* committed messages that went down with the process
    crashes, rebalances

sessionVars == <<pc, closing, claim, held, cursor, marked>>
pipeVars == <<hCh, wpc, wmsg, ch>>
outVars == <<taken, rejected, lost>>
vars == <<produced, committed, sessionVars, pipeVars, outVars, crashes, rebalances>>

Contents(q) == {q[i] : i \in DOMAIN q}

Init ==
    /\ produced = 0 /\ committed = 0
    /\ pc = "consume" /\ closing = "open"
    /\ claim = "range" /\ held = 0 /\ cursor = 0 /\ marked = 0
    /\ hCh = <<>> /\ ch = <<>>
    /\ wpc = [w \in Workers |-> "recv"] /\ wmsg = [w \in Workers |-> 0]
    /\ taken = [k \in Messages |-> [l \in 0..MaxCrashes |-> 0]] /\ rejected = {} /\ lost = {}
    /\ crashes = 0 /\ rebalances = 0

Up == pc # "down"

-----------------------------------------------------------------------------
(* The brokers and the consumer group of sarama.                           *)
Produce ==
    /\ produced < MaxMessages /\ produced' = produced + 1
    /\ UNCHANGED <<committed, sessionVars, pipeVars, outVars, crashes, rebalances>>

(* group.Consume joins the group and starts at the committed offset; one   *)
(* that returns an error is called again.                                  *)
OpenSession ==
    /\ pc = "consume"
    /\ pc' = "session" /\ closing' = "open"
    /\ cursor' = committed /\ marked' = committed
    /\ UNCHANGED <<produced, committed, claim, held, pipeVars, outVars, crashes,
                   rebalances>>

AutoCommit ==
    /\ pc = "session" /\ committed # marked
    /\ committed' = marked
    /\ UNCHANGED <<produced, sessionVars, pipeVars, outVars, crashes, rebalances>>

(* Another member joins or leaves: the claims of this session are closed.  *)
Rebalance ==
    /\ pc = "session" /\ closing = "open" /\ rebalances < MaxRebalances
    /\ closing' = "closing" /\ rebalances' = rebalances + 1
    /\ UNCHANGED <<produced, committed, pc, claim, held, cursor, marked, pipeVars,
                   outVars, crashes>>

-----------------------------------------------------------------------------
(* ConsumeClaim                                                            *)

(* Mutant: the message is marked before it is sent.                        *)
ClaimNextMarks ==
    /\ pc = "session" /\ claim = "range" /\ cursor < produced
    /\ held' = cursor + 1 /\ cursor' = cursor + 1 /\ marked' = cursor + 1
    /\ claim' = "send"
    /\ UNCHANGED <<produced, committed, pc, closing, pipeVars, outVars, crashes,
                   rebalances>>

(* for message := range claim.Messages(), which goes on with what is       *)
(* fetched already when the session closes.                                *)
ClaimNext ==
    /\ pc = "session" /\ claim = "range" /\ cursor < produced
    /\ held' = cursor + 1 /\ cursor' = cursor + 1
    /\ claim' = "send"
    /\ UNCHANGED <<produced, committed, pc, closing, marked, pipeVars, outVars, crashes,
                   rebalances>>

(* Mutant: a default gives the message up when the channel is full.        *)
ClaimSendOrDrop ==
    /\ claim = "send"
    /\ hCh' = IF Len(hCh) < HandlerCap THEN Append(hCh, held) ELSE hCh
    /\ claim' = "mark"
    /\ UNCHANGED <<produced, committed, pc, closing, held, cursor, marked, wpc, wmsg, ch,
                   outVars, crashes, rebalances>>

(* h.ch <- message.Value                                                   *)
ClaimSend ==
    /\ claim = "send" /\ Len(hCh) < HandlerCap
    /\ hCh' = Append(hCh, held)
    /\ claim' = "mark"
    /\ UNCHANGED <<produced, committed, pc, closing, held, cursor, marked, wpc, wmsg, ch,
                   outVars, crashes, rebalances>>

(* session.MarkMessage                                                     *)
ClaimMark ==
    /\ claim = "mark"
    /\ marked' = held /\ held' = 0
    /\ claim' = "range"
    /\ UNCHANGED <<produced, committed, pc, closing, cursor, pipeVars, outVars, crashes,
                   rebalances>>

(* Mutant: Consume is called again, and the session did not commit.        *)
SessionEndsReopens ==
    /\ pc = "session" /\ closing = "closing" /\ claim = "range"
    /\ pc' = "consume"
    /\ UNCHANGED <<produced, committed, closing, claim, held, cursor, marked, pipeVars,
                   outVars, crashes, rebalances>>

(* ConsumeClaim has returned, the session commits its marks and Consume    *)
(* returns nil: the group is closed and the goroutine returns.             *)
SessionEnds ==
    /\ pc = "session" /\ closing = "closing" /\ claim = "range"
    /\ committed' = marked
    /\ pc' = "closed"
    /\ UNCHANGED <<produced, closing, claim, held, cursor, marked, pipeVars, outVars,
                   crashes, rebalances>>

ConsumerStep == OpenSession \/ ClaimNext \/ ClaimSend \/ ClaimMark \/ SessionEnds

-----------------------------------------------------------------------------
(* worker                                                                  *)
WorkerRecv(w) ==
    /\ Up /\ wpc[w] = "recv" /\ hCh # <<>>
    /\ wmsg' = [wmsg EXCEPT ![w] = Head(hCh)] /\ hCh' = Tail(hCh)
    /\ wpc' = [wpc EXCEPT ![w] = "send"]
    /\ UNCHANGED <<produced, committed, sessionVars, ch, outVars, crashes, rebalances>>

(* Mutant: the worker returns where it should go on.                       *)
WorkerRejectsReturns(w) ==
    /\ Up /\ wpc[w] = "send"
    /\ rejected' = rejected \cup {wmsg[w]}
    /\ wmsg' = [wmsg EXCEPT ![w] = 0]
    /\ wpc' = [wpc EXCEPT ![w] = "done"]
    /\ UNCHANGED <<produced, committed, sessionVars, hCh, ch, taken, lost, crashes,
                   rebalances>>

(* unmarshal fails.                                                        *)
WorkerRejects(w) ==
    /\ Up /\ wpc[w] = "send"
    /\ rejected' = rejected \cup {wmsg[w]}
    /\ wmsg' = [wmsg EXCEPT ![w] = 0]
    /\ wpc' = [wpc EXCEPT ![w] = "recv"]
    /\ UNCHANGED <<produced, committed, sessionVars, hCh, ch, taken, lost, crashes,
                   rebalances>>

(* ch <- i, which waits for room and does not look at the context.         *)
WorkerSend(w) ==
    /\ Up /\ wpc[w] = "send" /\ Len(ch) < ChCap
    /\ ch' = Append(ch, wmsg[w])
    /\ wmsg' = [wmsg EXCEPT ![w] = 0]
    /\ wpc' = [wpc EXCEPT ![w] = "recv"]
    /\ UNCHANGED <<produced, committed, sessionVars, hCh, outVars, crashes, rebalances>>

WorkerStep(w) == WorkerRecv(w) \/ WorkerRejects(w) \/ WorkerSend(w)

(* The ingestion takes a record from the server's channel.                 *)
Ingest ==
    /\ Up /\ ch # <<>>
    /\ taken' = [taken EXCEPT ![Head(ch)][crashes] = @ + 1]
    /\ ch' = Tail(ch)
    /\ UNCHANGED <<produced, committed, sessionVars, hCh, wpc, wmsg, rejected, lost,
                   crashes, rebalances>>

-----------------------------------------------------------------------------
(* What the process holds.                                                 *)
InProcess == ({held} \cup Contents(hCh) \cup {wmsg[w] : w \in Workers} \cup Contents(ch))
               \ {0}

(* A crash, or main returning right after the interrupt.                   *)
Crash ==
    /\ Up /\ crashes < MaxCrashes
    /\ pc' = "down" /\ crashes' = crashes + 1
    /\ lost' = lost \cup {k \in InProcess : k <= committed}
    /\ claim' = "range" /\ held' = 0
    /\ hCh' = <<>> /\ ch' = <<>>
    /\ wpc' = [w \in Workers |-> "recv"] /\ wmsg' = [w \in Workers |-> 0]
    /\ UNCHANGED <<produced, committed, closing, cursor, marked, taken, rejected,
                   rebalances>>

Restart ==
    /\ pc = "down" /\ pc' = "consume"
    /\ UNCHANGED <<produced, committed, closing, claim, held, cursor, marked, pipeVars,
                   outVars, crashes, rebalances>>

Next == \/ Produce \/ AutoCommit \/ Rebalance \/ ConsumerStep
        \/ (\E w \in Workers : WorkerStep(w))
        \/ Ingest \/ Crash \/ Restart

Spec == Init /\ [][Next]_vars

(* The goroutines run, marks are committed, and a crashed server is        *)
(* started again.                                                          *)
FairSpec == Spec /\ WF_vars(ConsumerStep) /\ WF_vars(AutoCommit) /\ WF_vars(Ingest)
                 /\ WF_vars(Restart) /\ \A w \in Workers : WF_vars(WorkerStep(w))

-----------------------------------------------------------------------------
(* Every variable holds a value of its kind, channels stay within their    *)
(* capacities, and offsets are never ahead of what they stand for.         *)
TypeOK ==
    /\ produced \in 0..MaxMessages
    /\ committed \in 0..produced
    /\ pc \in {"consume", "session", "closed", "down"}
    /\ closing \in {"open", "closing"}
    /\ claim \in {"range", "send", "mark"}
    /\ held \in 0..produced /\ (claim = "range" <=> held = 0)
    /\ cursor \in 0..produced /\ marked \in 0..cursor
    /\ pc = "session" => committed <= marked
    /\ hCh \in Seq(Messages) /\ Len(hCh) <= HandlerCap
    /\ wpc \in [Workers -> {"recv", "send"}] /\ wmsg \in [Workers -> 0..produced]
    /\ \A w \in Workers : wpc[w] = "send" <=> wmsg[w] # 0
    /\ ch \in Seq(Messages) /\ Len(ch) <= ChCap
    /\ taken \in [Messages -> [0..MaxCrashes -> Nat]]
    /\ rejected \subseteq Messages /\ lost \subseteq Messages
    /\ crashes \in 0..MaxCrashes /\ rebalances \in 0..MaxRebalances

TakenMessages == {k \in Messages : \E l \in 0..MaxCrashes : taken[k][l] > 0}

(* An offset is never committed past a message that nobody took over: each *)
(* committed message is in the process, was ingested or rejected, or was   *)
(* lost with the process.                                                  *)
NothingSkipped ==
    \A k \in 1..committed : k \in InProcess \cup TakenMessages \cup rejected \cup lost

(* A crash costs no more than what the channels and workers hold: a        *)
(* message ConsumeClaim could not hand on yet is read again.               *)
LossBounded ==
    Cardinality(lost) <= crashes * (HandlerCap + Cardinality(Workers) + ChCap)

(* Within one life of the process no message is ingested twice, however    *)
(* its session ends.                                                       *)
OncePerRun ==
    \A k \in Messages, l \in 0..MaxCrashes : taken[k][l] <= 1

Settled(k) == k \in TakenMessages \cup rejected \cup lost

(* What is in the partition is consumed or rejected sooner or later, or    *)
(* went down with the process, as long as the group is not closed.         *)
Consumed == \A k \in Messages : produced >= k ~> Settled(k) \/ pc = "closed"

(* Central collection goes on, through rebalances too.                     *)
KeepsConsuming == \A k \in Messages : produced >= k ~> Settled(k)
=============================================================================
