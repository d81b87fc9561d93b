-------------------------- MODULE KafkaIngress_proofs --------------------------
(***************************************************************************)
(* The Kafka ingress of the server, for any number of workers and          *)
(* messages, any capacities, and any number of crashes and rebalances.     *)
(***************************************************************************)
EXTENDS KafkaIngress, SequenceTheorems, FiniteSetTheorems, TLAPS

-----------------------------------------------------------------------------
(* Taking from and adding to a channel.                                    *)
LEMMA QueueFacts ==
    ASSUME NEW S, NEW q \in Seq(S)
    PROVE  /\ Len(q) \in Nat /\ DOMAIN q = 1..Len(q)
           /\ \A i \in 1..Len(q) : q[i] \in S
           /\ q # <<>> => /\ Head(q) \in S /\ Head(q) = q[1] /\ Len(q) >= 1
                          /\ Tail(q) \in Seq(S) /\ Len(Tail(q)) = Len(q) - 1
                          /\ \A i \in 1..(Len(q) - 1) : Tail(q)[i] = q[i + 1]
           /\ \A x \in S : /\ Append(q, x) \in Seq(S)
                           /\ Len(Append(q, x)) = Len(q) + 1
                           /\ \A i \in 1..Len(q) : Append(q, x)[i] = q[i]
                           /\ Append(q, x)[Len(q) + 1] = x
BY HeadTailProperties, AppendProperties, LenProperties

NoRepeats(q) == \A i, j \in DOMAIN q : q[i] = q[j] => i = j

(* What that does to the elements of a channel.                            *)
LEMMA TailFacts ==
    ASSUME NEW S, NEW q \in Seq(S), q # <<>>
    PROVE  /\ Head(q) \in Contents(q)
           /\ Contents(q) = Contents(Tail(q)) \cup {Head(q)}
           /\ NoRepeats(q) => NoRepeats(Tail(q)) /\ Head(q) \notin Contents(Tail(q))
<1>1. /\ DOMAIN q = 1..Len(q) /\ Len(q) \in Nat /\ Len(q) >= 1 /\ Head(q) = q[1]
      /\ DOMAIN Tail(q) = 1..(Len(q) - 1)
      /\ \A i \in 1..(Len(q) - 1) : Tail(q)[i] = q[i + 1]
  <2>1. Tail(q) \in Seq(S) /\ Len(Tail(q)) = Len(q) - 1
    BY QueueFacts
  <2> QED BY <2>1, QueueFacts
<1>2. \A i \in 2..Len(q) : i - 1 \in 1..(Len(q) - 1) /\ Tail(q)[i - 1] = q[i]
  BY <1>1
<1>3. NoRepeats(q) => NoRepeats(Tail(q)) /\ Head(q) \notin Contents(Tail(q))
  BY <1>1 DEF Contents, NoRepeats
<1>4. Contents(Tail(q)) \cup {Head(q)} \subseteq Contents(q)
  BY <1>1 DEF Contents
<1>5. Contents(q) \subseteq Contents(Tail(q)) \cup {Head(q)}
  <2> SUFFICES ASSUME NEW i \in 2..Len(q) PROVE q[i] \in Contents(Tail(q))
    BY <1>1 DEF Contents
  <2> QED BY <1>1, <1>2 DEF Contents
<1> QED BY <1>3, <1>4, <1>5

(* Adding puts the new element last.                                       *)
LEMMA AppendContents ==
    ASSUME NEW S, NEW q \in Seq(S), NEW x \in S
    PROVE  /\ Contents(Append(q, x)) = Contents(q) \cup {x}
           /\ NoRepeats(q) /\ x \notin Contents(q) => NoRepeats(Append(q, x))
<1> USE DEF Contents, NoRepeats
<1>1. /\ DOMAIN q = 1..Len(q) /\ Len(q) \in Nat
      /\ DOMAIN Append(q, x) = 1..(Len(q) + 1)
      /\ \A i \in 1..Len(q) : Append(q, x)[i] = q[i]
      /\ Append(q, x)[Len(q) + 1] = x
  <2>1. Append(q, x) \in Seq(S) /\ Len(Append(q, x)) = Len(q) + 1
    BY QueueFacts
  <2> QED BY <2>1, QueueFacts
<1> QED BY <1>1

-----------------------------------------------------------------------------
(* The claim is at work only in a session; what it holds is the message at *)
(* the cursor, and the mark is one behind until that is marked.            *)
SessionInv ==
    /\ pc # "session" => claim = "range"
    /\ pc = "session" /\ claim = "range" => marked = cursor
    /\ claim # "range" => held = cursor /\ marked = cursor - 1
    /\ Contents(hCh) \subseteq 1..produced

TypeInv == TypeOK /\ SessionInv

(* Nothing is consumed at first.                                           *)
LEMMA TypeInit == Init => TypeInv
BY IngressAssumption DEF Init, TypeInv, TypeOK, SessionInv, Contents, Messages

(* The brokers, the consumer group and ConsumeClaim.                       *)
LEMMA TypeConsumer ==
    ASSUME TypeInv, Produce \/ AutoCommit \/ Rebalance \/ ConsumerStep \/ Restart
    PROVE  TypeInv'
<1> USE IngressAssumption
        DEF TypeInv, TypeOK, SessionInv, sessionVars, pipeVars, outVars
<1>1. CASE Produce
  BY <1>1 DEF Produce
<1>2. CASE AutoCommit
  BY <1>2 DEF AutoCommit
<1>3. CASE Rebalance
  BY <1>3 DEF Rebalance
<1>4. CASE Restart
  BY <1>4 DEF Restart
<1>5. CASE OpenSession
  BY <1>5 DEF OpenSession
<1>6. CASE ClaimNext
  BY <1>6 DEF ClaimNext
<1>7. CASE ClaimSend
  <2>1. held \in Messages /\ held \in 1..produced
    BY <1>7 DEF ClaimSend, Messages
  <2>2. hCh \in Seq(Messages)
    OBVIOUS
  <2>3. /\ hCh' \in Seq(Messages) /\ Len(hCh') <= HandlerCap
        /\ Contents(hCh') = Contents(hCh) \cup {held}
    BY <1>7, <2>1, <2>2, QueueFacts, AppendContents DEF ClaimSend
  <2> QED BY <1>7, <2>1, <2>3 DEF ClaimSend
<1>8. CASE ClaimMark
  BY <1>8 DEF ClaimMark
<1>9. CASE SessionEnds
  BY <1>9 DEF SessionEnds
<1> QED BY <1>1, <1>2, <1>3, <1>4, <1>5, <1>6, <1>7, <1>8, <1>9 DEF ConsumerStep

(* Counting one more ingestion of message k in life l.                     *)
LEMMA CountedTaken ==
    ASSUME NEW t \in [Messages -> [0..MaxCrashes -> Nat]], NEW k \in Messages,
           NEW l \in 0..MaxCrashes, NEW u, u = [t EXCEPT ![k][l] = @ + 1]
    PROVE  /\ u \in [Messages -> [0..MaxCrashes -> Nat]]
           /\ u[k][l] = t[k][l] + 1
           /\ \A m \in Messages, n \in 0..MaxCrashes : m # k \/ n # l => u[m][n] = t[m][n]
<1> DEFINE r == [t[k] EXCEPT ![l] = t[k][l] + 1]
<1>1. t[k] \in [0..MaxCrashes -> Nat]
  OBVIOUS
<1>2. t[k][l] \in Nat
  BY <1>1
<1>3. r \in [0..MaxCrashes -> Nat] /\ r[l] = t[k][l] + 1
      /\ \A n \in 0..MaxCrashes : n # l => r[n] = t[k][n]
  BY <1>1, <1>2
<1>4. u = [t EXCEPT ![k] = r]
  OBVIOUS
<1> HIDE DEF r
<1>5. /\ u \in [Messages -> [0..MaxCrashes -> Nat]] /\ u[k] = r
      /\ \A m \in Messages : m # k => u[m] = t[m]
  BY <1>3, <1>4
<1> QED BY <1>3, <1>5

(* What the ingestion does to the server's channel and the counts.         *)
LEMMA IngestFacts ==
    ASSUME TypeOK, Ingest
    PROVE  /\ ch # <<>> /\ ch' = Tail(ch) /\ Head(ch) \in Messages
           /\ ch' \in Seq(Messages) /\ Len(ch') <= ChCap
           /\ taken' \in [Messages -> [0..MaxCrashes -> Nat]]
           /\ taken'[Head(ch)][crashes] = taken[Head(ch)][crashes] + 1
           /\ \A m \in Messages, n \in 0..MaxCrashes :
                 m # Head(ch) \/ n # crashes => taken'[m][n] = taken[m][n]
           /\ UNCHANGED <<produced, committed, sessionVars, hCh, wpc, wmsg, rejected, lost,
                          crashes, rebalances>>
<1>1. /\ ch \in Seq(Messages) /\ Len(ch) <= ChCap /\ ChCap \in Nat
      /\ taken \in [Messages -> [0..MaxCrashes -> Nat]] /\ crashes \in 0..MaxCrashes
  BY IngressAssumption DEF TypeOK
<1>2. /\ ch # <<>> /\ ch' = Tail(ch)
      /\ taken' = [taken EXCEPT ![Head(ch)][crashes] = @ + 1]
      /\ UNCHANGED <<produced, committed, sessionVars, hCh, wpc, wmsg, rejected, lost,
                     crashes, rebalances>>
  BY DEF Ingest
<1>3. Head(ch) \in Messages /\ ch' \in Seq(Messages) /\ Len(ch') <= ChCap
  BY <1>1, <1>2, QueueFacts
<1>4. /\ taken' \in [Messages -> [0..MaxCrashes -> Nat]]
      /\ taken'[Head(ch)][crashes] = taken[Head(ch)][crashes] + 1
      /\ \A m \in Messages, n \in 0..MaxCrashes :
            m # Head(ch) \/ n # crashes => taken'[m][n] = taken[m][n]
  BY <1>1, <1>2, <1>3, CountedTaken
<1> QED BY <1>2, <1>3, <1>4

(* The workers, the ingestion, and the end of the process.                 *)
LEMMA TypeWorker ==
    ASSUME TypeInv, Ingest \/ Crash \/ \E w \in Workers : WorkerStep(w)
    PROVE  TypeInv'
<1> USE IngressAssumption
        DEF TypeInv, TypeOK, SessionInv, sessionVars, pipeVars, outVars
<1>1. CASE Ingest
  BY <1>1, IngestFacts
<1>2. CASE Crash
  <2>1. InProcess \subseteq Messages
    <3>1. Contents(hCh) \subseteq Messages /\ Contents(ch) \subseteq Messages
      BY QueueFacts DEF Contents
    <3> QED BY <3>1 DEF InProcess, Messages
  <2>2. hCh' \in Seq(Messages) /\ ch' \in Seq(Messages) /\ Len(hCh') = 0 /\ Len(ch') = 0
        /\ Contents(hCh') = {}
    BY <1>2 DEF Crash, Contents
  <2>3. lost' \subseteq Messages
    BY <1>2, <2>1 DEF Crash
  <2> QED BY <1>2, <2>2, <2>3 DEF Crash
<1>3. ASSUME NEW w \in Workers, WorkerRecv(w) PROVE TypeInv'
  <2>1. /\ hCh' \in Seq(Messages) /\ Len(hCh') <= HandlerCap
        /\ Head(hCh) \in Contents(hCh) /\ Contents(hCh') \subseteq Contents(hCh)
    <3>1. hCh # <<>> /\ hCh' = Tail(hCh) /\ hCh \in Seq(Messages)
      BY <1>3 DEF WorkerRecv
    <3> QED BY <3>1, QueueFacts, TailFacts
  <2>2. Head(hCh) \in 1..produced
    BY <2>1
  <2>3. /\ wmsg' \in [Workers -> 0..produced]
        /\ wpc' \in [Workers -> {"recv", "send"}]
        /\ \A v \in Workers : wpc'[v] = "send" <=> wmsg'[v] # 0
    BY <1>3, <2>2 DEF WorkerRecv
  <2> QED BY <1>3, <2>1, <2>3 DEF WorkerRecv
<1>4. ASSUME NEW w \in Workers, WorkerRejects(w) PROVE TypeInv'
  <2>1. wmsg[w] \in Messages
    BY <1>4 DEF WorkerRejects, Messages
  <2> QED BY <1>4, <2>1 DEF WorkerRejects
<1>5. ASSUME NEW w \in Workers, WorkerSend(w) PROVE TypeInv'
  <2>1. wmsg[w] \in Messages
    BY <1>5 DEF WorkerSend, Messages
  <2>2. ch' \in Seq(Messages) /\ Len(ch') <= ChCap
    BY <1>5, <2>1, QueueFacts DEF WorkerSend
  <2> QED BY <1>5, <2>2 DEF WorkerSend
<1> QED BY <1>1, <1>2, <1>3, <1>4, <1>5 DEF WorkerStep

(* Every step keeps every variable's kind.                                 *)
LEMMA TypeStep ==
    ASSUME TypeInv, [Next]_vars PROVE TypeInv'
<1>1. CASE UNCHANGED vars
  BY <1>1 DEF vars, sessionVars, pipeVars, outVars, TypeInv, TypeOK, SessionInv, Contents
<1> QED BY <1>1, TypeConsumer, TypeWorker DEF Next

(* Every variable keeps its kind, and no offset passes what it stands for: *)
(* the committed one stays behind the mark of the session, the mark behind *)
(* what was handed out, and that behind what was produced.                 *)
THEOREM TypeCorrect == Spec => []TypeOK
<1>1. TypeInv => TypeOK
  BY DEF TypeInv
<1>2. TypeInv /\ [Next]_vars => TypeInv'
  BY TypeStep
<1> QED BY <1>1, <1>2, TypeInit, PTL DEF Spec

-----------------------------------------------------------------------------
(* What the claim has handed on and the process still holds.               *)
Downstream == Contents(hCh) \cup ({wmsg[w] : w \in Workers} \ {0}) \cup Contents(ch)

(* Somebody took message k over from the claim.                            *)
TakenOver(k) == k \in Downstream \cup TakenMessages \cup rejected \cup lost

(* What is committed or marked was taken over, and so was what is about to *)
(* be marked.                                                              *)
CoverInv ==
    /\ \A k \in 1..committed : TakenOver(k)
    /\ pc = "session" => \A k \in 1..marked : TakenOver(k)
    /\ claim = "mark" => TakenOver(held)

(* Everything the process holds but what the claim has in hand.            *)
LEMMA HeldApart ==
    ASSUME TypeOK
    PROVE  /\ InProcess = Downstream \cup ({held} \ {0})
           /\ Contents(hCh) \subseteq Messages /\ Contents(ch) \subseteq Messages
           /\ Downstream \subseteq Messages /\ 0 \notin Messages
<1>1. Contents(hCh) \subseteq Messages /\ Contents(ch) \subseteq Messages
  BY QueueFacts DEF TypeOK, Contents
<1>2. 0 \notin Messages
  BY DEF Messages
<1>3. \A w \in Workers : wmsg[w] \in Messages \cup {0}
  BY IngressAssumption DEF TypeOK, Messages
<1> QED BY <1>1, <1>2, <1>3 DEF InProcess, Downstream

(* What a step of a worker or of the ingestion takes over stays taken over.*)
LEMMA PipeKeeps ==
    ASSUME TypeOK, Ingest \/ \E w \in Workers : WorkerStep(w)
    PROVE  /\ UNCHANGED <<committed, pc, claim, held, marked>>
           /\ \A k : TakenOver(k) => TakenOver(k)'
<1>0. /\ hCh \in Seq(Messages) /\ ch \in Seq(Messages)
      /\ wmsg \in [Workers -> 0..produced] /\ 0 \notin Messages
  BY HeldApart DEF TypeOK
<1>1. CASE Ingest
  <2>1. /\ Contents(ch) = Contents(ch') \cup {Head(ch)}
        /\ UNCHANGED <<hCh, wmsg, rejected, lost, committed, pc, claim, held, marked>>
    BY <1>0, <1>1, IngestFacts, TailFacts DEF sessionVars
  <2>2. Head(ch) \in TakenMessages'
    <3>1. /\ Head(ch) \in Messages /\ crashes \in 0..MaxCrashes
          /\ taken[Head(ch)][crashes] \in Nat
          /\ taken'[Head(ch)][crashes] = taken[Head(ch)][crashes] + 1
      BY <1>1, IngestFacts DEF TypeOK
    <3>2. taken'[Head(ch)][crashes] > 0
      BY <3>1
    <3> QED BY <3>1, <3>2 DEF TakenMessages
  <2>3. TakenMessages \subseteq TakenMessages'
    <3> SUFFICES ASSUME NEW k \in Messages, NEW l \in 0..MaxCrashes, taken[k][l] > 0
                 PROVE  k \in TakenMessages'
      BY DEF TakenMessages
    <3>1. CASE k = Head(ch)
      BY <2>2, <3>1
    <3>2. CASE k # Head(ch)
      <4>1. taken'[k][l] = taken[k][l]
        BY <1>1, <3>2, IngestFacts
      <4> QED BY <4>1 DEF TakenMessages
    <3> QED BY <3>1, <3>2
  <2>4. \A k : k \in Downstream => k \in Downstream' \cup TakenMessages'
    BY <2>1, <2>2 DEF Downstream
  <2> QED BY <2>1, <2>3, <2>4 DEF TakenOver
<1>2. ASSUME NEW w \in Workers, WorkerStep(w)
      PROVE  /\ UNCHANGED <<committed, pc, claim, held, marked>>
             /\ \A k : TakenOver(k) => TakenOver(k)'
  <2>1. /\ UNCHANGED <<committed, pc, claim, held, marked, taken, lost>>
        /\ \E v \in {0, Head(hCh)} : wmsg' = [wmsg EXCEPT ![w] = v]
    BY <1>2 DEF WorkerStep, WorkerRecv, WorkerRejects, WorkerSend, sessionVars, outVars
  <2>2. UNCHANGED TakenMessages
    BY <2>1 DEF TakenMessages
  <2>3. CASE WorkerRecv(w)
    <3>0. /\ hCh # <<>> /\ hCh' = Tail(hCh) /\ wmsg' = [wmsg EXCEPT ![w] = Head(hCh)]
          /\ UNCHANGED <<ch, rejected>>
      BY <2>3 DEF WorkerRecv, outVars
    <3>1. /\ Contents(hCh) = Contents(hCh') \cup {Head(hCh)} /\ Head(hCh) \in Messages
          /\ wmsg[w] = 0
      BY <1>0, <2>3, <3>0, QueueFacts, TailFacts DEF WorkerRecv, TypeOK
    <3>2. \A k : k \in Downstream => k \in Downstream'
      BY <1>0, <3>0, <3>1 DEF Downstream
    <3> QED BY <2>1, <2>2, <3>0, <3>2 DEF TakenOver
  <2>4. CASE WorkerRejects(w)
    <3>1. /\ wmsg' = [wmsg EXCEPT ![w] = 0] /\ rejected' = rejected \cup {wmsg[w]}
          /\ UNCHANGED <<hCh, ch>>
      BY <2>4 DEF WorkerRejects
    <3>2. \A k : k \in Downstream => k \in Downstream' \cup rejected'
      BY <1>0, <3>1 DEF Downstream
    <3> QED BY <2>1, <2>2, <3>1, <3>2 DEF TakenOver
  <2>5. CASE WorkerSend(w)
    <3>1. /\ wmsg' = [wmsg EXCEPT ![w] = 0] /\ ch' = Append(ch, wmsg[w])
          /\ UNCHANGED <<hCh, rejected>> /\ wmsg[w] \in Messages
      BY <2>5, IngressAssumption DEF WorkerSend, outVars, TypeOK, Messages
    <3>2. Contents(ch') = Contents(ch) \cup {wmsg[w]}
      BY <1>0, <3>1, AppendContents
    <3>3. \A k : k \in Downstream => k \in Downstream'
      BY <1>0, <3>1, <3>2 DEF Downstream
    <3> QED BY <2>1, <2>2, <3>1, <3>3 DEF TakenOver
  <2> QED BY <1>2, <2>1, <2>3, <2>4, <2>5 DEF WorkerStep
<1> QED BY <1>1, <1>2

(* Nothing is committed at first.                                          *)
LEMMA CoverInit == Init => CoverInv
BY DEF Init, CoverInv

(* Every step keeps what is committed or marked taken over.                *)
LEMMA CoverStep ==
    ASSUME TypeInv, CoverInv, [Next]_vars PROVE CoverInv'
<1> USE DEF TypeInv
<1>1. CASE Produce \/ AutoCommit \/ Rebalance \/ Restart \/ OpenSession \/ ClaimNext
           \/ ClaimMark \/ SessionEnds \/ UNCHANGED vars
  <2>0. UNCHANGED <<pipeVars, outVars>>
    BY <1>1 DEF Produce, AutoCommit, Rebalance, Restart, OpenSession, ClaimNext, ClaimMark,
                SessionEnds, vars
  <2>1. \A k : TakenOver(k)' <=> TakenOver(k)
    BY <2>0 DEF TakenOver, Downstream, TakenMessages, pipeVars, outVars
  <2>2. CASE Produce \/ Rebalance \/ Restart \/ UNCHANGED vars
    BY <2>1, <2>2 DEF Produce, Rebalance, Restart, vars, sessionVars, CoverInv
  <2>3. CASE OpenSession
    BY <2>1, <2>3 DEF OpenSession, CoverInv, TypeOK, SessionInv
  <2>4. CASE AutoCommit
    BY <2>1, <2>4 DEF AutoCommit, CoverInv, sessionVars
  <2>5. CASE ClaimNext
    BY <2>1, <2>5 DEF ClaimNext, CoverInv
  <2>6. CASE ClaimMark
    <3>1. /\ claim = "mark" /\ claim' = "range" /\ marked' = held
          /\ pc = "session" /\ held = marked + 1 /\ UNCHANGED <<committed, pc>>
          /\ marked \in Nat
      BY <2>6, IngressAssumption DEF ClaimMark, TypeOK, SessionInv
    <3>2. \A k \in 1..marked' : k \in 1..marked \/ k = held
      BY <3>1
    <3> QED BY <2>1, <3>1, <3>2 DEF CoverInv
  <2>7. CASE SessionEnds
    BY <2>1, <2>7 DEF SessionEnds, CoverInv
  <2> QED BY <1>1, <2>2, <2>3, <2>4, <2>5, <2>6, <2>7
<1>2. CASE Ingest \/ \E w \in Workers : WorkerStep(w)
  BY <1>2, PipeKeeps DEF CoverInv
<1>3. CASE ClaimSend
  <2>1. /\ hCh' = Append(hCh, held) /\ hCh \in Seq(Messages) /\ held \in Messages
        /\ claim' = "mark"
        /\ UNCHANGED <<committed, pc, held, marked, wmsg, ch, taken, rejected, lost>>
    BY <1>3, IngressAssumption DEF ClaimSend, TypeOK, Messages, outVars
  <2>2. Contents(hCh') = Contents(hCh) \cup {held}
    BY <2>1, AppendContents
  <2>3. Downstream' = Downstream \cup {held} /\ UNCHANGED TakenMessages
    BY <2>1, <2>2, HeldApart DEF Downstream, TakenMessages
  <2>4. TakenOver(held)' /\ \A k : TakenOver(k) => TakenOver(k)'
    BY <2>1, <2>3 DEF TakenOver
  <2> QED BY <2>1, <2>4 DEF CoverInv
<1>4. CASE Crash
  <2>1. /\ pc' = "down" /\ claim' = "range" /\ UNCHANGED <<committed, taken, rejected>>
        /\ lost' = lost \cup {k \in InProcess : k <= committed}
    BY <1>4 DEF Crash
  <2>2. UNCHANGED TakenMessages
    BY <2>1 DEF TakenMessages
  <2>3. ASSUME NEW k \in 1..committed PROVE TakenOver(k)'
    <3>1. k \in Downstream => k \in lost'
      BY <2>1, <2>3, HeldApart, IngressAssumption DEF TypeOK
    <3> QED BY <2>1, <2>2, <3>1 DEF CoverInv, TakenOver
  <2> QED BY <2>1, <2>3 DEF CoverInv
<1> QED BY <1>1, <1>2, <1>3, <1>4 DEF Next, ConsumerStep

(* No offset is committed past a message that nobody took over, however    *)
(* commits, crashes, rebalances and workers interleave: ConsumeClaim marks *)
(* a message only when it has handed it on.                                *)
THEOREM NoneSkipped == Spec => []NothingSkipped
<1> DEFINE Inv == TypeInv /\ CoverInv
<1>1. Init => Inv
  BY TypeInit, CoverInit
<1>2. Inv /\ [Next]_vars => Inv'
  BY TypeStep, CoverStep
<1>3. Inv => NothingSkipped
  BY HeldApart DEF TypeInv, CoverInv, TakenOver, NothingSkipped
<1> QED BY <1>1, <1>2, <1>3, PTL DEF Spec

-----------------------------------------------------------------------------
(* What the claim has still to hand on, and what was ingested in this life *)
(* of the process.                                                         *)
Ahead == {k \in Messages : k > IF claim = "send" THEN cursor - 1 ELSE cursor}
TakenNow == {k \in Messages : taken[k][crashes] > 0}

(* Where messages are in this life of the process.                         *)
Stage ==
    [ahead  |-> Ahead,
     hCh    |-> Contents(hCh),
     worker |-> {wmsg[w] : w \in Workers} \ {0},
     ch     |-> Contents(ch),
     taken  |-> TakenNow]

(* No message is in two parts of P.                                        *)
IsApart(P) == \A s, t \in DOMAIN P : s # t => P[s] \cap P[t] = {}

(* Each part holds a message at most once.                                 *)
OneEach ==
    /\ NoRepeats(hCh) /\ NoRepeats(ch)
    /\ \A w, v \in Workers : wmsg[w] = wmsg[v] /\ wmsg[w] # 0 => w = v

(* A process has one session: before it nothing is held or ingested, and   *)
(* nothing was ingested in lives to come.                                  *)
Fresh ==
    /\ pc \in {"consume", "down"} =>
          \A s \in DOMAIN Stage \ {"ahead"} : Stage[s] = {}
    /\ \A k \in Messages, l \in 0..MaxCrashes : l > crashes => taken[k][l] = 0

OnceInv == TypeInv /\ OncePerRun /\ OneEach /\ Fresh /\ IsApart(Stage)

(* Messages M move from part a of P to part b and make it Q.               *)
Moved(P, Q, M, a, b) ==
    /\ a \in DOMAIN P /\ b \in DOMAIN P /\ a # b
    /\ M \subseteq P[a]
    /\ DOMAIN Q = DOMAIN P
    /\ Q[a] = P[a] \ M /\ Q[b] = P[b] \cup M
    /\ \A s \in DOMAIN P \ {a, b} : Q[s] = P[s]

(* Moving keeps the parts apart, and so does taking away.                  *)
LEMMA Move ==
    ASSUME NEW P, NEW Q, NEW M, NEW a, NEW b, IsApart(P), Moved(P, Q, M, a, b)
    PROVE  IsApart(Q)
<1> USE DEF Moved
<1> SUFFICES ASSUME NEW s \in DOMAIN P, NEW t \in DOMAIN P, s # t, NEW k \in Q[s], k \in Q[t]
             PROVE  FALSE
  BY DEF IsApart
<1>1. CASE k \in M
  <2>1. \A u \in DOMAIN P : k \in P[u] => u = a
    BY <1>1 DEF IsApart
  <2>2. \A u \in DOMAIN P : k \in Q[u] => u = b
    BY <1>1, <2>1
  <2> QED BY <2>2
<1>2. CASE k \notin M
  <2>1. k \in P[s] /\ k \in P[t]
    BY <1>2
  <2> QED BY <2>1 DEF IsApart
<1> QED BY <1>1, <1>2

(* The parts, before and after a step.                                     *)
LEMMA StageFacts ==
    /\ DOMAIN Stage = {"ahead", "hCh", "worker", "ch", "taken"}
    /\ Stage["ahead"] = Ahead /\ Stage["hCh"] = Contents(hCh)
    /\ Stage["worker"] = {wmsg[w] : w \in Workers} \ {0}
    /\ Stage["ch"] = Contents(ch) /\ Stage["taken"] = TakenNow
    /\ DOMAIN Stage' = {"ahead", "hCh", "worker", "ch", "taken"}
    /\ Stage'["ahead"] = Ahead' /\ Stage'["hCh"] = Contents(hCh')
    /\ Stage'["worker"] = {wmsg'[w] : w \in Workers} \ {0}
    /\ Stage'["ch"] = Contents(ch') /\ Stage'["taken"] = TakenNow'
BY DEF Stage

(* A message is in one part only.                                          *)
LEMMA Disjoint ==
    ASSUME IsApart(Stage), NEW k,
           NEW s \in DOMAIN Stage, NEW t \in DOMAIN Stage, k \in Stage[s], k \in Stage[t]
    PROVE  s = t
BY DEF IsApart

(* At first there is nothing.                                              *)
LEMMA OnceInit == Init => OnceInv
<1> SUFFICES ASSUME Init PROVE OnceInv
  OBVIOUS
<1>1. \A s \in DOMAIN Stage \ {"ahead"} : Stage[s] = {}
  <2>1. Contents(hCh) = {} /\ Contents(ch) = {} /\ {wmsg[w] : w \in Workers} \ {0} = {}
    BY DEF Init, Contents
  <2>2. TakenNow = {}
    BY IngressAssumption DEF Init, TakenNow
  <2> QED BY <2>1, <2>2, StageFacts
<1>2. IsApart(Stage)
  BY <1>1 DEF IsApart
<1>3. OncePerRun /\ OneEach /\ Fresh
  BY <1>1, IngressAssumption DEF Init, OncePerRun, OneEach, Fresh, NoRepeats
<1> QED BY <1>2, <1>3, TypeInit DEF OnceInv

(* Steps that hand nothing on: the brokers', the session's, and the next   *)
(* message of the claim.                                                   *)
LEMMA OnceFrame ==
    ASSUME OnceInv, UNCHANGED <<pipeVars, taken, crashes, Ahead>>,
           pc' \in {"consume", "down"} => pc \in {"consume", "down"}
    PROVE  OneEach' /\ OncePerRun' /\ Fresh' /\ IsApart(Stage)'
<1>1. Stage' = Stage
  BY DEF Stage, TakenNow, pipeVars
<1>2. OneEach' /\ OncePerRun'
  BY DEF OnceInv, OneEach, OncePerRun, pipeVars
<1>3. Fresh'
  BY <1>1 DEF OnceInv, Fresh
<1> QED BY <1>1, <1>2, <1>3 DEF OnceInv

(* The consumer goroutine, the brokers, and what starts or ends a process. *)
LEMMA OnceConsumer ==
    ASSUME OnceInv,
           Produce \/ AutoCommit \/ Rebalance \/ ConsumerStep \/ Crash \/ Restart
             \/ UNCHANGED vars
    PROVE  OneEach' /\ OncePerRun' /\ Fresh' /\ IsApart(Stage)'
<1> USE DEF OnceInv, TypeInv
<1>1. CASE Produce \/ AutoCommit \/ Rebalance \/ Restart \/ SessionEnds \/ UNCHANGED vars
  <2>1. /\ UNCHANGED <<claim, cursor, pipeVars, taken, crashes>>
        /\ pc' \in {"consume", "down"} => pc \in {"consume", "down"}
    BY <1>1 DEF Produce, AutoCommit, Rebalance, Restart, SessionEnds, vars, sessionVars, outVars
  <2> QED BY <2>1, OnceFrame DEF Ahead
<1>2. CASE ClaimNext
  <2>1. /\ claim = "range" /\ claim' = "send" /\ cursor' = cursor + 1 /\ cursor \in Nat
        /\ pc' = pc /\ UNCHANGED <<pipeVars, taken, crashes>>
    BY <1>2, IngressAssumption DEF ClaimNext, TypeOK, outVars
  <2>2. UNCHANGED Ahead
    BY <2>1 DEF Ahead
  <2> QED BY <2>1, <2>2, OnceFrame
<1>3. CASE ClaimMark
  <2>1. /\ claim = "mark" /\ claim' = "range" /\ pc' = pc
        /\ UNCHANGED <<cursor, pipeVars, taken, crashes>>
    BY <1>3 DEF ClaimMark, outVars
  <2>2. UNCHANGED Ahead
    BY <2>1 DEF Ahead
  <2> QED BY <2>1, <2>2, OnceFrame
<1>4. CASE OpenSession
  <2>1. pc = "consume" /\ pc' = "session" /\ UNCHANGED <<pipeVars, taken, crashes>>
    BY <1>4 DEF OpenSession, outVars
  <2>2. \A s \in DOMAIN Stage \ {"ahead"} : Stage'[s] = Stage[s]
    <3>1. UNCHANGED TakenNow
      BY <2>1 DEF TakenNow
    <3> QED BY <2>1, <3>1, StageFacts DEF pipeVars
  <2>3. IsApart(Stage')
    BY <2>1, <2>2, StageFacts DEF IsApart, Fresh
  <2>4. OneEach' /\ OncePerRun' /\ Fresh'
    BY <2>1 DEF OneEach, OncePerRun, Fresh, pipeVars
  <2> QED BY <2>3, <2>4
<1>5. CASE ClaimSend
  <2>1. /\ hCh' = Append(hCh, held) /\ hCh \in Seq(Messages) /\ held \in Messages
        /\ claim = "send" /\ claim' = "mark" /\ held = cursor /\ pc = "session"
        /\ UNCHANGED <<pc, cursor, wmsg, ch, taken, crashes>>
    BY <1>5, IngressAssumption DEF ClaimSend, TypeOK, SessionInv, Messages, outVars
  <2>2. held \in Ahead /\ Ahead' = Ahead \ {held}
    BY <2>1, IngressAssumption DEF Ahead, Messages, TypeOK
  <2>3. held \notin Contents(hCh)
    BY <2>2, Disjoint, StageFacts
  <2>4. Contents(hCh') = Contents(hCh) \cup {held} /\ NoRepeats(hCh')
    BY <2>1, <2>3, AppendContents DEF OneEach
  <2>5. Moved(Stage, Stage', {held}, "ahead", "hCh")
    <3>1. UNCHANGED <<wmsg, ch, TakenNow>>
      BY <2>1 DEF TakenNow
    <3>2. \A s \in DOMAIN Stage \ {"ahead", "hCh"} : Stage'[s] = Stage[s]
      BY <3>1, StageFacts
    <3> QED BY <2>2, <2>4, <3>2, StageFacts DEF Moved
  <2>6. OneEach' /\ OncePerRun' /\ Fresh'
    BY <2>1, <2>4 DEF OneEach, OncePerRun, Fresh
  <2> QED BY <2>5, <2>6, Move
<1>6. CASE Crash
  <2>1. /\ hCh' = <<>> /\ ch' = <<>> /\ \A w \in Workers : wmsg'[w] = 0
        /\ taken' = taken /\ crashes' = crashes + 1 /\ crashes' \in 0..MaxCrashes
        /\ crashes \in Nat
    BY <1>6, IngressAssumption DEF Crash, TypeOK
  <2>2. TakenNow' = {}
    BY <2>1, IngressAssumption DEF TakenNow, Fresh
  <2>3. \A s \in DOMAIN Stage' \ {"ahead"} : Stage'[s] = {}
    <3>1. Contents(hCh') = {} /\ Contents(ch') = {}
      BY <2>1 DEF Contents
    <3> QED BY <2>1, <2>2, <3>1, StageFacts
  <2>4. IsApart(Stage')
    BY <2>3 DEF IsApart
  <2>5. Fresh'
    <3>1. \A k \in Messages, l \in 0..MaxCrashes : l > crashes' => taken'[k][l] = 0
      BY <2>1 DEF Fresh
    <3> QED BY <2>3, <3>1 DEF Fresh
  <2>6. OneEach' /\ OncePerRun'
    BY <2>1 DEF OneEach, OncePerRun, NoRepeats
  <2> QED BY <2>4, <2>5, <2>6
<1> QED BY <1>1, <1>2, <1>3, <1>4, <1>5, <1>6 DEF ConsumerStep

(* A worker and the ingestion take messages from one part to the next.     *)
LEMMA OnceWorker ==
    ASSUME OnceInv, Ingest \/ \E w \in Workers : WorkerStep(w)
    PROVE  OneEach' /\ OncePerRun' /\ Fresh' /\ IsApart(Stage)'
<1> USE DEF OnceInv, TypeInv
<1>0. /\ hCh \in Seq(Messages) /\ ch \in Seq(Messages) /\ 0 \notin Messages
      /\ wmsg \in [Workers -> 0..produced] /\ crashes \in 0..MaxCrashes
      /\ Contents(hCh) \subseteq Messages
  BY HeldApart DEF TypeOK
<1>1. CASE Ingest
  <2> DEFINE k == Head(ch)
  <2>1. /\ k \in Messages /\ ch # <<>> /\ ch' = Tail(ch)
        /\ taken'[k][crashes] = taken[k][crashes] + 1
        /\ \A m \in Messages, n \in 0..MaxCrashes :
              m # k \/ n # crashes => taken'[m][n] = taken[m][n]
        /\ UNCHANGED <<pc, claim, cursor, hCh, wmsg, crashes>>
    BY <1>1, IngestFacts DEF sessionVars
  <2>2. /\ k \in Contents(ch) /\ Contents(ch') = Contents(ch) \ {k} /\ NoRepeats(ch')
    BY <1>0, <2>1, TailFacts DEF OneEach
  <2>3. k \notin TakenNow
    BY <2>2, Disjoint, StageFacts
  <2>4. taken[k][crashes] = 0
    <3>1. taken[k][crashes] \in Nat
      BY <1>0, <2>1 DEF TypeOK
    <3> QED BY <2>1, <2>3, <3>1 DEF TakenNow
  <2>5. TakenNow' = TakenNow \cup {k}
    <3>1. taken'[k][crashes] > 0
      BY <2>1, <2>4
    <3>2. \A m \in Messages \ {k} : taken'[m][crashes] = taken[m][crashes]
      BY <1>0, <2>1
    <3> HIDE DEF k
    <3> QED BY <2>1, <3>1, <3>2 DEF TakenNow
  <2>6. OncePerRun'
    <3> SUFFICES ASSUME NEW m \in Messages, NEW l \in 0..MaxCrashes PROVE taken'[m][l] <= 1
      BY DEF OncePerRun
    <3>1. CASE m = k /\ l = crashes
      BY <2>1, <2>4, <3>1
    <3>2. CASE m # k \/ l # crashes
      BY <2>1, <3>2 DEF OncePerRun
    <3> QED BY <3>1, <3>2
  <2>7. Fresh'
    <3>1. pc \notin {"consume", "down"}
      BY <2>2, StageFacts DEF Fresh
    <3>2. \A m \in Messages, l \in 0..MaxCrashes : l > crashes => taken'[m][l] = 0
      BY <1>0, <2>1 DEF Fresh
    <3> QED BY <2>1, <3>1, <3>2 DEF Fresh
  <2>8. Moved(Stage, Stage', {k}, "ch", "taken")
    <3>1. UNCHANGED <<hCh, wmsg, Ahead>>
      BY <2>1 DEF Ahead
    <3>2. \A s \in DOMAIN Stage \ {"ch", "taken"} : Stage'[s] = Stage[s]
      BY <3>1, StageFacts
    <3> QED BY <2>2, <2>5, <3>2, StageFacts DEF Moved
  <2> QED BY <2>1, <2>2, <2>6, <2>7, <2>8, Move DEF OneEach
<1>2. ASSUME NEW w \in Workers, WorkerStep(w)
      PROVE  OneEach' /\ OncePerRun' /\ Fresh' /\ IsApart(Stage)'
  <2>1. /\ UNCHANGED <<pc, taken, crashes>> /\ UNCHANGED Ahead /\ UNCHANGED TakenNow
    <3>1. UNCHANGED <<pc, claim, cursor, taken, crashes>>
      BY <1>2 DEF WorkerStep, WorkerRecv, WorkerRejects, WorkerSend, sessionVars, outVars
    <3> QED BY <3>1 DEF Ahead, TakenNow
  <2>2. OncePerRun'
    BY <2>1 DEF OncePerRun
  <2>3. CASE WorkerRecv(w)
    <3> DEFINE k == Head(hCh)
    <3>1. /\ wmsg[w] = 0 /\ hCh # <<>> /\ hCh' = Tail(hCh) /\ ch' = ch
          /\ wmsg' = [wmsg EXCEPT ![w] = k]
      BY <2>3 DEF WorkerRecv, TypeOK
    <3>2. /\ k \in Contents(hCh) /\ Contents(hCh') = Contents(hCh) \ {k} /\ NoRepeats(hCh')
          /\ k # 0
      BY <1>0, <3>1, TailFacts DEF OneEach
    <3>3. k \notin Stage["worker"] /\ pc \notin {"consume", "down"}
      BY <3>2, Disjoint, StageFacts DEF Fresh
    <3>4. Moved(Stage, Stage', {k}, "hCh", "worker")
      <4>1. \A s \in DOMAIN Stage \ {"hCh", "worker"} : Stage'[s] = Stage[s]
        BY <2>1, <3>1, StageFacts
      <4>2. Stage'["worker"] = Stage["worker"] \cup {k}
        BY <1>0, <3>1, <3>2, StageFacts
      <4> QED BY <3>2, <4>1, <4>2, StageFacts DEF Moved
    <3>5. \A u, v \in Workers : wmsg'[u] = wmsg'[v] /\ wmsg'[u] # 0 => u = v
      BY <1>0, <3>1, <3>3, StageFacts DEF OneEach
    <3>6. OneEach' /\ Fresh'
      BY <2>1, <3>1, <3>2, <3>3, <3>5 DEF OneEach, Fresh
    <3> QED BY <2>2, <3>4, <3>6, Move
  <2>4. ASSUME NEW k, k = wmsg[w], k # 0, k \in Messages, wmsg' = [wmsg EXCEPT ![w] = 0]
        PROVE  /\ k \in Stage["worker"] /\ Stage'["worker"] = Stage["worker"] \ {k}
               /\ \A u, v \in Workers : wmsg'[u] = wmsg'[v] /\ wmsg'[u] # 0 => u = v
               /\ pc \notin {"consume", "down"}
    <3>1. k \in Stage["worker"]
      BY <2>4, StageFacts
    <3>2. \A v \in Workers : v # w => wmsg'[v] = wmsg[v] /\ wmsg[v] # k
      BY <1>0, <2>4 DEF OneEach
    <3>3. wmsg'[w] = 0
      BY <1>0, <2>4
    <3>4. Stage'["worker"] = Stage["worker"] \ {k}
      BY <2>4, <3>2, <3>3, StageFacts
    <3>5. \A u, v \in Workers : wmsg'[u] = wmsg'[v] /\ wmsg'[u] # 0 => u = v
      BY <3>2, <3>3 DEF OneEach
    <3>6. pc \notin {"consume", "down"}
      BY <3>1, StageFacts DEF Fresh
    <3> QED BY <3>1, <3>4, <3>5, <3>6
  <2>5. CASE WorkerRejects(w)
    <3> DEFINE k == wmsg[w]
    <3>1. k # 0 /\ k \in Messages /\ wmsg' = [wmsg EXCEPT ![w] = 0] /\ UNCHANGED <<hCh, ch>>
      BY <2>5, IngressAssumption DEF WorkerRejects, TypeOK, Messages
    <3>2. \A s \in DOMAIN Stage : Stage'[s] \subseteq Stage[s]
      <4>1. \A s \in DOMAIN Stage \ {"worker"} : Stage'[s] = Stage[s]
        BY <2>1, <3>1, StageFacts
      <4> QED BY <2>4, <3>1, <4>1
    <3>3. IsApart(Stage')
      BY <3>2, StageFacts DEF IsApart
    <3>4. OneEach' /\ Fresh'
      BY <2>1, <2>4, <3>1 DEF OneEach, Fresh
    <3> QED BY <2>2, <3>3, <3>4
  <2>6. CASE WorkerSend(w)
    <3> DEFINE k == wmsg[w]
    <3>1. /\ k # 0 /\ k \in Messages /\ wmsg' = [wmsg EXCEPT ![w] = 0] /\ UNCHANGED hCh
          /\ ch' = Append(ch, k)
      BY <2>6, IngressAssumption DEF WorkerSend, TypeOK, Messages
    <3>2. k \notin Contents(ch)
      BY <2>4, <3>1, Disjoint, StageFacts
    <3>3. Contents(ch') = Contents(ch) \cup {k} /\ NoRepeats(ch')
      BY <1>0, <3>1, <3>2, AppendContents DEF OneEach
    <3>4. Moved(Stage, Stage', {k}, "worker", "ch")
      <4>1. \A s \in DOMAIN Stage \ {"worker", "ch"} : Stage'[s] = Stage[s]
        BY <2>1, <3>1, StageFacts
      <4> QED BY <2>4, <3>1, <3>3, <4>1, StageFacts DEF Moved
    <3>5. OneEach' /\ Fresh'
      BY <2>1, <2>4, <3>1, <3>3 DEF OneEach, Fresh
    <3> QED BY <2>2, <3>4, <3>5, Move
  <2> QED BY <1>2, <2>3, <2>5, <2>6 DEF WorkerStep
<1> QED BY <1>1, <1>2

(* Within one life of the process no message is ingested twice: it has one *)
(* session, whose claim hands each message on once, and no interleaving of *)
(* the workers, the ingestion and a rebalance leads to a second copy.      *)
THEOREM IngestedOncePerRun == Spec => []OncePerRun
<1>1. OnceInv /\ [Next]_vars => OnceInv'
  BY TypeStep, OnceConsumer, OnceWorker DEF Next, OnceInv
<1>2. OnceInv => OncePerRun
  BY DEF OnceInv
<1> QED BY <1>1, <1>2, OnceInit, PTL DEF Spec

-----------------------------------------------------------------------------
(* What the channels and the workers can hold.                             *)
Room == HandlerCap + Cardinality(Workers) + ChCap

(* Two sets together are no larger than both.                              *)
LEMMA UnionBound ==
    ASSUME NEW S, NEW T, IsFiniteSet(S), IsFiniteSet(T),
           NEW m \in Nat, NEW n \in Nat, Cardinality(S) <= m, Cardinality(T) <= n
    PROVE  IsFiniteSet(S \cup T) /\ Cardinality(S \cup T) <= m + n
<1>1. /\ IsFiniteSet(S \cup T)
      /\ Cardinality(S \cup T) = Cardinality(S) + Cardinality(T) - Cardinality(S \cap T)
  BY FS_Union
<1>2. IsFiniteSet(S \cap T)
  BY FS_Intersection
<1>3. Cardinality(S) \in Nat /\ Cardinality(T) \in Nat /\ Cardinality(S \cap T) \in Nat
  BY <1>2, FS_CardinalityType
<1> QED BY <1>1, <1>3

(* The values of a function on a finite set are no more than its arguments.*)
LEMMA ValuesBound ==
    ASSUME NEW S, IsFiniteSet(S), NEW f, DOMAIN f = S, f = [s \in S |-> f[s]]
    PROVE  /\ IsFiniteSet({f[s] : s \in S})
           /\ Cardinality({f[s] : s \in S}) <= Cardinality(S)
<1> DEFINE T == {f[s] : s \in S}
<1>1. f \in Surjection(S, T)
  BY DEF Surjection
<1> HIDE DEF T
<1>2. IsFiniteSet(T) /\ Cardinality(T) <= Cardinality(S)
  BY <1>1, FS_Surjection
<1> QED BY <1>2 DEF T

(* A channel holds no more messages than its length.                       *)
LEMMA QueueBound ==
    ASSUME NEW S, NEW q \in Seq(S)
    PROVE  IsFiniteSet(Contents(q)) /\ Cardinality(Contents(q)) <= Len(q)
<1>1. DOMAIN q = 1..Len(q) /\ Len(q) \in Nat /\ q \in [1..Len(q) -> S]
  BY LenProperties
<1>2. IsFiniteSet(1..Len(q)) /\ Cardinality(1..Len(q)) = Len(q)
  BY <1>1, FS_Interval
<1>3. /\ IsFiniteSet({q[i] : i \in 1..Len(q)})
      /\ Cardinality({q[i] : i \in 1..Len(q)}) <= Cardinality(1..Len(q))
  BY <1>1, <1>2, ValuesBound
<1> QED BY <1>1, <1>2, <1>3 DEF Contents

(* The process holds no more than that besides what the claim has in hand. *)
LEMMA RoomBound ==
    ASSUME TypeOK
    PROVE  IsFiniteSet(Downstream) /\ Cardinality(Downstream) <= Room /\ Room \in Nat
<1> DEFINE W == {wmsg[w] : w \in Workers}  H == Contents(hCh)  C == Contents(ch)
<1>1. IsFiniteSet(H) /\ Cardinality(H) <= HandlerCap /\ IsFiniteSet(C) /\ Cardinality(C) <= ChCap
  <2>1. /\ hCh \in Seq(Messages) /\ ch \in Seq(Messages)
        /\ Len(hCh) <= HandlerCap /\ Len(ch) <= ChCap
    BY DEF TypeOK
  <2>2. /\ IsFiniteSet(H) /\ Cardinality(H) <= Len(hCh)
        /\ IsFiniteSet(C) /\ Cardinality(C) <= Len(ch)
    BY <2>1, QueueBound
  <2>3. Cardinality(H) \in Nat /\ Cardinality(C) \in Nat /\ Len(hCh) \in Nat /\ Len(ch) \in Nat
    BY <2>1, <2>2, FS_CardinalityType, LenProperties
  <2> QED BY <2>1, <2>2, <2>3, IngressAssumption
<1>2. IsFiniteSet(W \ {0}) /\ Cardinality(W \ {0}) <= Cardinality(Workers)
  <2>1. wmsg = [w \in Workers |-> wmsg[w]] /\ DOMAIN wmsg = Workers /\ IsFiniteSet(Workers)
    BY IngressAssumption DEF TypeOK
  <2>2. IsFiniteSet(W) /\ Cardinality(W) <= Cardinality(Workers)
    BY <2>1, ValuesBound
  <2>3. W \ {0} \in SUBSET W
    OBVIOUS
  <2> HIDE DEF W
  <2>4. IsFiniteSet(W \ {0}) /\ Cardinality(W \ {0}) <= Cardinality(W)
    BY <2>2, <2>3, FS_Subset
  <2>5. /\ Cardinality(W) \in Nat /\ Cardinality(W \ {0}) \in Nat
        /\ Cardinality(Workers) \in Nat
    BY <2>1, <2>2, <2>4, FS_CardinalityType
  <2> QED BY <2>2, <2>4, <2>5
<1>3. HandlerCap \in Nat /\ ChCap \in Nat /\ Cardinality(Workers) \in Nat
  BY IngressAssumption, FS_CardinalityType
<1> HIDE DEF W, H, C
<1>4. IsFiniteSet(H \cup (W \ {0})) /\ Cardinality(H \cup (W \ {0})) <= HandlerCap + Cardinality(Workers)
  BY <1>1, <1>2, <1>3, UnionBound
<1>5. HandlerCap + Cardinality(Workers) \in Nat
  BY <1>3
<1>6. /\ IsFiniteSet(H \cup (W \ {0}) \cup C)
      /\ Cardinality(H \cup (W \ {0}) \cup C) <= HandlerCap + Cardinality(Workers) + ChCap
  BY <1>1, <1>3, <1>4, <1>5, UnionBound
<1> QED BY <1>3, <1>6 DEF Downstream, W, H, C, Room

(* Only a crash loses anything, and at most what the process can hold: what*)
(* the claim has in hand is not committed, and is read again.              *)
LEMMA LossStep ==
    ASSUME TypeInv, LossBounded, [Next]_vars
    PROVE  LossBounded'
<1> USE DEF TypeInv
<1>1. CASE lost' = lost /\ crashes' = crashes
  BY <1>1 DEF LossBounded
<1>2. CASE Crash
  <2> DEFINE gone == {k \in InProcess : k <= committed}
  <2>1. crashes' = crashes + 1 /\ lost' = lost \cup gone /\ crashes \in Nat
    BY <1>2, IngressAssumption DEF Crash, TypeOK
  <2>2. gone \in SUBSET Downstream
    <3>1. held # 0 => held > committed
      BY IngressAssumption DEF TypeOK, SessionInv
    <3>2. committed \in Nat /\ held \in Nat
      BY IngressAssumption DEF TypeOK
    <3>3. InProcess = Downstream \cup ({held} \ {0})
      BY HeldApart
    <3> QED BY <3>1, <3>2, <3>3
  <2>3. /\ IsFiniteSet(Downstream) /\ Cardinality(Downstream) <= Room /\ Room \in Nat
    BY RoomBound
  <2> HIDE DEF gone
  <2>4. IsFiniteSet(gone) /\ Cardinality(gone) <= Cardinality(Downstream)
    BY <2>2, <2>3, FS_Subset
  <2>5. IsFiniteSet(lost)
    <3>1. IsFiniteSet(Messages)
      BY IngressAssumption, FS_Interval DEF Messages
    <3> QED BY <3>1, FS_Subset DEF TypeOK
  <2>6. Cardinality(gone) <= Room
    <3>1. Cardinality(gone) \in Nat /\ Cardinality(Downstream) \in Nat
      BY <2>3, <2>4, FS_CardinalityType
    <3> QED BY <2>3, <2>4, <3>1
  <2>7. Cardinality(lost) <= crashes * Room /\ crashes * Room \in Nat
    BY <2>1, <2>3 DEF LossBounded, Room
  <2>8. Cardinality(lost \cup gone) <= crashes * Room + Room
    BY <2>3, <2>4, <2>5, <2>6, <2>7, UnionBound
  <2>9. crashes * Room + Room = (crashes + 1) * Room
    BY <2>1, <2>3
  <2> QED BY <2>1, <2>8, <2>9 DEF LossBounded, Room
<1>3. Crash \/ (lost' = lost /\ crashes' = crashes)
  BY DEF Next, vars, outVars, Produce, AutoCommit, Rebalance, ConsumerStep, OpenSession,
         ClaimNext, ClaimSend, ClaimMark, SessionEnds, WorkerStep, WorkerRecv,
         WorkerRejects, WorkerSend, Ingest, Restart
<1> QED BY <1>1, <1>2, <1>3

(* A crash costs at most what the two channels and the workers hold.       *)
THEOREM LossIsBounded == Spec => []LossBounded
<1> DEFINE Inv == TypeInv /\ LossBounded
<1>1. Init => LossBounded
  BY IngressAssumption, FS_EmptySet, FS_CardinalityType DEF Init, LossBounded
<1>2. Inv /\ [Next]_vars => Inv'
  BY TypeStep, LossStep
<1> QED BY <1>1, <1>2, TypeInit, PTL DEF Spec
=============================================================================
