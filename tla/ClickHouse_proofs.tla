-------------------------- MODULE ClickHouse_proofs --------------------------
(***************************************************************************)
(* The ClickHouse ingestion, for any number of workers and connections,    *)
(* any batch size and any flush interval.                                  *)
(***************************************************************************)
EXTENDS ClickHouse, SequenceTheorems, FiniteSetTheorems, TLAPS

-----------------------------------------------------------------------------
(* Taking from and adding to a channel.                                    *)
LEMMA QueueFacts ==
    ASSUME NEW S, NEW q \in Seq(S)
    PROVE  /\ Len(q) \in Nat /\ DOMAIN q = 1..Len(q)
           /\ \A i \in 1..Len(q) : q[i] \in S
           /\ q # <<>> => /\ Head(q) \in S /\ Head(q) = q[1] /\ Len(q) >= 1
                          /\ Tail(q) \in Seq(S) /\ Len(Tail(q)) = Len(q) - 1
                          /\ \A i \in 1..(Len(q) - 1) : Tail(q)[i] = q[i + 1]
           /\ \A x \in S : /\ Append(q, x) \in Seq(S)
                           /\ Len(Append(q, x)) = Len(q) + 1
                           /\ \A i \in 1..Len(q) : Append(q, x)[i] = q[i]
                           /\ Append(q, x)[Len(q) + 1] = x
BY HeadTailProperties, AppendProperties, LenProperties

Contents(q) == {q[i] : i \in DOMAIN q}
NoRepeats(q) == \A i, j \in DOMAIN q : q[i] = q[j] => i = j

(* What that does to the elements of a channel without repetitions.        *)
LEMMA TailContents ==
    ASSUME NEW S, NEW q \in Seq(S), q # <<>>, NoRepeats(q)
    PROVE  /\ NoRepeats(Tail(q)) /\ Head(q) \in Contents(q)
           /\ Contents(Tail(q)) = Contents(q) \ {Head(q)}
<1> USE DEF Contents, NoRepeats
<1>1. /\ DOMAIN q = 1..Len(q) /\ Len(q) \in Nat /\ Len(q) >= 1 /\ Head(q) = q[1]
      /\ DOMAIN Tail(q) = 1..(Len(q) - 1)
      /\ \A i \in 1..(Len(q) - 1) : Tail(q)[i] = q[i + 1]
  <2>1. Tail(q) \in Seq(S) /\ Len(Tail(q)) = Len(q) - 1
    BY QueueFacts
  <2> QED BY <2>1, QueueFacts
<1>2. \A i \in 2..Len(q) : i - 1 \in 1..(Len(q) - 1) /\ Tail(q)[i - 1] = q[i]
  BY <1>1
<1>3. NoRepeats(Tail(q))
  BY <1>1
<1>4. Contents(Tail(q)) \subseteq Contents(q) \ {Head(q)}
  BY <1>1
<1>5. Contents(q) \ {Head(q)} \subseteq Contents(Tail(q))
  <2> SUFFICES ASSUME NEW i \in 2..Len(q) PROVE q[i] \in Contents(Tail(q))
    BY <1>1
  <2> QED BY <1>1, <1>2
<1> QED BY <1>1, <1>3, <1>4, <1>5

(* Putting a record at the end of a queue adds just that record.           *)
LEMMA AppendContents ==
    ASSUME NEW S, NEW q \in Seq(S), NEW x \in S
    PROVE  /\ Contents(Append(q, x)) = Contents(q) \cup {x}
           /\ NoRepeats(q) /\ x \notin Contents(q) => NoRepeats(Append(q, x))
<1> USE DEF Contents, NoRepeats
<1>1. /\ DOMAIN q = 1..Len(q) /\ Len(q) \in Nat
      /\ DOMAIN Append(q, x) = 1..(Len(q) + 1)
      /\ \A i \in 1..Len(q) : Append(q, x)[i] = q[i]
      /\ Append(q, x)[Len(q) + 1] = x
  <2>1. Append(q, x) \in Seq(S) /\ Len(Append(q, x)) = Len(q) + 1
    BY QueueFacts
  <2> QED BY <2>1, QueueFacts
<1> QED BY <1>1

-----------------------------------------------------------------------------
(* Every channel is empty at first.                                        *)
LEMMA TypeInit == Init => TypeOK
BY ConstantAssumption DEF Init, TypeOK, Records

(* A worker, the ingress and the signal handler.                           *)
LEMMA TypeWorker ==
    ASSUME TypeOK, Arrive \/ Cancel \/ \E w \in Workers : WorkerStep(w)
    PROVE  TypeOK'
<1> USE DEF TypeOK, batchVars, timerVars, workVars
<1>1. CASE Arrive
  <2>1. arrived + 1 \in Records /\ arrived + 1 \in 0..MaxRecords
    BY <1>1, ConstantAssumption DEF Arrive, Records
  <2>2. ch' \in Seq(Records) /\ Len(ch') <= ChCap
    BY <1>1, <2>1, QueueFacts, ConstantAssumption DEF Arrive
  <2> QED BY <1>1, <2>1, <2>2 DEF Arrive
<1>2. CASE Cancel
  BY <1>2 DEF Cancel
<1>3. ASSUME NEW w \in Workers, WorkerRecv(w) PROVE TypeOK'
  <2>1. /\ Head(ch) \in Records /\ Head(ch) # 0
        /\ ch' \in Seq(Records) /\ Len(ch') <= ChCap
    BY <1>3, QueueFacts, ConstantAssumption DEF WorkerRecv, Records
  <2> QED BY <1>3, <2>1 DEF WorkerRecv
<1>4. ASSUME NEW w \in Workers, WorkerSend(w) PROVE TypeOK'
  <2>1. wrec[w] \in Records
    BY <1>4 DEF WorkerSend
  <2>2. iCh' \in Seq(Records) /\ Len(iCh') <= RowCap
    BY <1>4, <2>1, QueueFacts, ConstantAssumption DEF WorkerSend
  <2> QED BY <1>4, <2>1, <2>2 DEF WorkerSend
<1>5. ASSUME NEW w \in Workers, WorkerDone(w) PROVE TypeOK'
  BY <1>5 DEF WorkerDone
<1> QED BY <1>1, <1>2, <1>3, <1>4, <1>5 DEF WorkerStep

(* An ingester and its timer.                                              *)
LEMMA TypeIngest ==
    ASSUME TypeOK, NEW i \in Ingesters, TimerFires(i) \/ IngestStep(i)
    PROVE  TypeOK'
<1> USE ConstantAssumption DEF TypeOK, batchVars, timerVars, workVars
<1>1. CASE TimerFires(i)
  BY <1>1 DEF TimerFires
<1>2. CASE BeginTx(i)
  BY <1>2 DEF BeginTx
<1>3. CASE Prepare(i)
  BY <1>3 DEF Prepare
<1>4. CASE PrepareFails(i)
  BY <1>4 DEF PrepareFails, LeakOne
<1>5. CASE Row(i)
  <2>1. Head(iCh) \in Records /\ iCh' \in Seq(Records) /\ Len(iCh') <= RowCap
    BY <1>5, QueueFacts DEF Row
  <2>2. rows' \in [Ingesters -> SUBSET Records] /\ failed' \subseteq Records
    <3> DEFINE k == Head(iCh)
    <3>1. k \in Records /\ rows \in [Ingesters -> SUBSET Records] /\ failed \subseteq Records
      BY <2>1
    <3>2. \/ rows' = [rows EXCEPT ![i] = @ \cup {k}] /\ failed' = failed
          \/ failed' = failed \cup {k} /\ rows' = rows
      BY <1>5 DEF Row
    <3> HIDE DEF k, TypeOK, Row
    <3> QED BY <3>1, <3>2
  <2>3. counter' \in [Ingesters -> 0..BatchSize]
    BY <1>5 DEF Row
  <2>4. /\ ipc' \in [Ingesters -> {"begin", "prepare", "loop", "commit", "done"}]
        /\ \A j \in Ingesters : ipc'[j] = "loop" => counter'[j] < BatchSize
    BY <1>5 DEF Row
  <2> QED BY <1>5, <2>1, <2>2, <2>3, <2>4 DEF Row
<1>6. CASE TickFlush(i)
  BY <1>6 DEF TickFlush
<1>7. CASE TickEmpty(i)
  <2>1. leaked' \in 0..MaxLeaks
    BY <1>7 DEF TickEmpty, LeakOne
  <2>2. ipc' = [ipc EXCEPT ![i] = "begin"] \/ ipc' = ipc
    BY <1>7 DEF TickEmpty
  <2>3. /\ ticked' \subseteq Ingesters /\ armed' \subseteq Ingesters
        /\ timeouts' \in [Ingesters -> Nat]
        /\ UNCHANGED <<arrived, ctx, ch, workVars, iCh, rows, counter, stored, failed>>
    BY <1>7 DEF TickEmpty
  <2> QED BY <2>1, <2>2, <2>3
<1>8. CASE Commit(i)
  BY <1>8 DEF Commit, CommitRows
<1>9. CASE IngestDone(i)
  BY <1>9 DEF IngestDone, CommitRows
<1> QED BY <1>1, <1>2, <1>3, <1>4, <1>5, <1>6, <1>7, <1>8, <1>9 DEF IngestStep

(* Every variable keeps its kind, the channels keep within their           *)
(* capacities, and no batch grows beyond BatchSize.                        *)
THEOREM TypeCorrect == Spec => []TypeOK
<1>1. TypeOK /\ [Next]_vars => TypeOK'
  <2> SUFFICES ASSUME TypeOK, [Next]_vars PROVE TypeOK'
    OBVIOUS
  <2>1. CASE UNCHANGED vars
    BY <2>1 DEF vars, workVars, batchVars, timerVars, TypeOK
  <2> QED BY <2>1, TypeWorker, TypeIngest DEF Next
<1> QED BY <1>1, TypeInit, PTL DEF Spec

-----------------------------------------------------------------------------
(* What the timer argument needs to know about the program counters.       *)
TimerInv ==
    /\ ipc \in [Ingesters -> {"begin", "prepare", "loop", "commit", "done"}]
    /\ TimerAlive

(* At first no tick is due.                                                *)
LEMMA TimerInit == Init => TimerInv
BY DEF Init, TimerInv, TimerAlive

(* Setting the timer, reading its tick and stopping it: the only steps     *)
(* that touch a timer, each on the timer of its own ingester.              *)
LEMMA TimerIngest ==
    ASSUME TimerInv, NEW i \in Ingesters, TimerFires(i) \/ IngestStep(i)
    PROVE  TimerInv'
<1> USE DEF TimerInv, TimerAlive, batchVars, timerVars
<1>1. CASE TimerFires(i)
  BY <1>1 DEF TimerFires
<1>2. CASE BeginTx(i)
  BY <1>2 DEF BeginTx
<1>3. CASE Prepare(i)
  BY <1>3 DEF Prepare
<1>4. CASE PrepareFails(i)
  BY <1>4 DEF PrepareFails
<1>5. CASE Row(i)
  <2>1. UNCHANGED timerVars
    BY <1>5 DEF Row
  <2>2. /\ ipc[i] = "loop"
        /\ \E v \in {"commit", "loop"} : ipc' = [ipc EXCEPT ![i] = v]
    BY <1>5 DEF Row
  <2> QED BY <2>1, <2>2
<1>6. CASE TickFlush(i)
  BY <1>6 DEF TickFlush
<1>7. CASE TickEmpty(i)
  <2>1. /\ ticked' = ticked \ {i} /\ armed' = armed \cup {i}
        /\ ipc' = [ipc EXCEPT ![i] = "begin"] \/ ipc' = ipc
    BY <1>7 DEF TickEmpty
  <2> QED BY <2>1
<1>8. CASE Commit(i)
  <2>1. /\ ipc' = [ipc EXCEPT ![i] = "begin"]
        /\ \A j \in Ingesters : j # i /\ j \in armed \cup ticked =>
                                 j \in (armed \cup ticked)'
    BY <1>8 DEF Commit
  <2> QED BY <2>1
<1>9. CASE IngestDone(i)
  BY <1>9 DEF IngestDone
<1> QED BY <1>1, <1>2, <1>3, <1>4, <1>5, <1>6, <1>7, <1>8, <1>9 DEF IngestStep

(* An ingester never waits in its loop without a tick to come: the handling*)
(* of the timer in ingest() loses no wake-up.                              *)
THEOREM NoLostWakeup == Spec => []TimerAlive
<1>1. TimerInv /\ [Next]_vars => TimerInv'
  <2> SUFFICES ASSUME TimerInv, [Next]_vars PROVE TimerInv'
    OBVIOUS
  <2>1. CASE UNCHANGED <<batchVars, timerVars>>
    BY <2>1 DEF TimerInv, TimerAlive, batchVars, timerVars
  <2>2. CASE Arrive \/ Cancel \/ \E w \in Workers : WorkerStep(w)
    BY <2>1, <2>2 DEF Arrive, Cancel, WorkerStep, WorkerRecv, WorkerSend, WorkerDone
  <2> QED BY <2>1, <2>2, TimerIngest DEF Next, vars
<1>2. TimerInv => TimerAlive
  BY DEF TimerInv
<1> QED BY <1>1, <1>2, TimerInit, PTL DEF Spec

-----------------------------------------------------------------------------
(* The rows that ingesters have in their transactions.                     *)
Collected == UNION {rows[i] : i \in Ingesters}

(* Where records are, by the kind of place.                                *)
Stage ==
    [new    |-> Records \ (1..arrived),
     ch     |-> Contents(ch),
     worker |-> {wrec[w] : w \in Workers} \ {0},
     iCh    |-> Contents(iCh),
     rows   |-> Collected,
     stored |-> stored,
     failed |-> failed]

(* Each record is in one part of P.                                        *)
IsPartition(P) ==
    \A k \in Records : \E s \in DOMAIN P : \A t \in DOMAIN P : k \in P[t] <=> t = s

(* Each place holds a record at most once.                                 *)
Apart ==
    /\ NoRepeats(ch) /\ NoRepeats(iCh)
    /\ \A w, v \in Workers : wrec[w] = wrec[v] /\ wrec[w] # 0 => w = v
    /\ \A i, j \in Ingesters : rows[i] \cap rows[j] # {} => i = j

(* An ingester gives a transaction up only while it is empty: a new one    *)
(* starts without rows, and the counter, which decides whether a tick      *)
(* finds the batch empty, is 0 only if it is.                              *)
NoneForgotten ==
    \A i \in Ingesters :
        /\ ipc[i] \in {"begin", "prepare"} => rows[i] = {}
        /\ ipc[i] = "loop" /\ counter[i] = 0 => rows[i] = {}

OnceInv == TypeOK /\ NoneForgotten /\ Apart /\ IsPartition(Stage)

(* Records M move from part a of P to part b and make it Q.                *)
Moved(P, Q, M, a, b) ==
    /\ a \in DOMAIN P /\ b \in DOMAIN P /\ a # b
    /\ M \subseteq P[a]
    /\ DOMAIN Q = DOMAIN P
    /\ Q[a] = P[a] \ M /\ Q[b] = P[b] \cup M
    /\ \A s \in DOMAIN P \ {a, b} : Q[s] = P[s]

(* That leaves a partition.                                                *)
LEMMA Move ==
    ASSUME NEW P, NEW Q, NEW M, NEW a, NEW b, IsPartition(P), Moved(P, Q, M, a, b)
    PROVE  IsPartition(Q)
<1> USE DEF Moved
<1> SUFFICES ASSUME NEW k \in Records
             PROVE  \E s \in DOMAIN P : \A t \in DOMAIN P : k \in Q[t] <=> t = s
  BY DEF IsPartition
<1>1. PICK s \in DOMAIN P : \A t \in DOMAIN P : k \in P[t] <=> t = s
  BY DEF IsPartition
<1>2. CASE k \in M
  <2>1. \A t \in DOMAIN P : k \in Q[t] <=> t = b
    BY <1>1, <1>2
  <2> QED BY <2>1
<1>3. CASE k \notin M
  <2>1. \A t \in DOMAIN P : k \in Q[t] <=> t = s
    BY <1>1, <1>3
  <2> QED BY <2>1
<1> QED BY <1>2, <1>3

(* The parts of the path a record goes, before and after a step.           *)
LEMMA StageFacts ==
    /\ DOMAIN Stage = {"new", "ch", "worker", "iCh", "rows", "stored", "failed"}
    /\ Stage["new"] = Records \ (1..arrived) /\ Stage["ch"] = Contents(ch)
    /\ Stage["worker"] = {wrec[w] : w \in Workers} \ {0}
    /\ Stage["iCh"] = Contents(iCh) /\ Stage["rows"] = Collected
    /\ Stage["stored"] = stored /\ Stage["failed"] = failed
    /\ DOMAIN Stage' = {"new", "ch", "worker", "iCh", "rows", "stored", "failed"}
    /\ Stage'["new"] = Records \ (1..arrived') /\ Stage'["ch"] = Contents(ch')
    /\ Stage'["worker"] = {wrec'[w] : w \in Workers} \ {0}
    /\ Stage'["iCh"] = Contents(iCh') /\ Stage'["rows"] = Collected'
    /\ Stage'["stored"] = stored' /\ Stage'["failed"] = failed'
BY DEF Stage

(* A record is in one part only.                                           *)
LEMMA Disjoint ==
    ASSUME IsPartition(Stage), NEW k \in Records,
           NEW s \in DOMAIN Stage, NEW t \in DOMAIN Stage, k \in Stage[s], k \in Stage[t]
    PROVE  s = t
BY DEF IsPartition

(* At first every record is still to come.                                 *)
LEMMA OnceInit == Init => OnceInv
<1> SUFFICES ASSUME Init PROVE OnceInv
  OBVIOUS
<1>1. TypeOK
  BY TypeInit
<1>2. NoneForgotten /\ Apart
  BY DEF Init, NoneForgotten, Apart, NoRepeats
<1>3. /\ Stage.new = Records
      /\ \A s \in DOMAIN Stage \ {"new"} : Stage[s] = {}
  BY DEF Init, Stage, Contents, Collected
<1>4. IsPartition(Stage)
  <2>1. "new" \in DOMAIN Stage
    BY DEF Stage
  <2> QED BY <1>3, <2>1 DEF IsPartition
<1> QED BY <1>1, <1>2, <1>4 DEF OnceInv

(* Steps that move no record.                                              *)
LEMMA OnceFrame ==
    ASSUME OnceInv, UNCHANGED <<arrived, ch, wrec, iCh, rows, stored, failed>>
    PROVE  Apart' /\ IsPartition(Stage)'
<1>1. Apart'
  BY DEF OnceInv, Apart
<1>2. Stage' = Stage
  BY DEF Stage, Collected
<1> QED BY <1>1, <1>2 DEF OnceInv

(* The ingress and the workers move records on, one at a time.             *)
LEMMA OnceWorker ==
    ASSUME OnceInv, TypeOK',
           Arrive \/ Cancel \/ \E w \in Workers : WorkerStep(w)
    PROVE  OnceInv'
<1> USE DEF OnceInv
<1>0. NoneForgotten'
  BY DEF NoneForgotten, Arrive, Cancel, WorkerStep, WorkerRecv, WorkerSend, WorkerDone,
         batchVars
<1>1. CASE Arrive
  <2> DEFINE k == arrived + 1
  <2>1. k \in Records /\ k \in Stage["new"]
    BY <1>1, ConstantAssumption, StageFacts DEF Arrive, TypeOK, Records
  <2>2. k \notin Contents(ch)
    BY <2>1, Disjoint, StageFacts
  <2>3. Contents(ch') = Contents(ch) \cup {k} /\ NoRepeats(ch')
    BY <1>1, <2>1, <2>2, AppendContents DEF Arrive, TypeOK, Apart
  <2>4. Records \ (1..arrived') = (Records \ (1..arrived)) \ {k}
    BY <1>1, ConstantAssumption DEF Arrive, TypeOK, Records
  <2>5. Moved(Stage, Stage', {k}, "new", "ch")
    <3>1. UNCHANGED <<wrec, iCh, Collected, stored, failed>>
      BY <1>1 DEF Arrive, Collected, workVars, batchVars
    <3>2. /\ Stage'["new"] = Stage["new"] \ {k} /\ Stage'["ch"] = Stage["ch"] \cup {k}
      BY <2>3, <2>4, StageFacts
    <3>3. \A s \in DOMAIN Stage \ {"new", "ch"} : Stage'[s] = Stage[s]
      BY <3>1, StageFacts
    <3> QED BY <2>1, <3>2, <3>3, StageFacts DEF Moved
  <2>6. IsPartition(Stage')
    BY <2>5, Move DEF OnceInv
  <2> QED BY <1>0, <1>1, <2>3, <2>6 DEF Arrive, Apart, workVars, batchVars
<1>2. CASE Cancel \/ \E w \in Workers : WorkerDone(w)
  BY <1>0, <1>2, OnceFrame DEF Cancel, WorkerDone, workVars, batchVars
<1>3. ASSUME NEW w \in Workers, WorkerRecv(w) PROVE OnceInv'
  <2> DEFINE k == Head(ch)
  <2>1. /\ k \in Records /\ k # 0 /\ k \in Contents(ch) /\ wrec[w] = 0
        /\ Contents(ch') = Contents(ch) \ {k} /\ NoRepeats(ch')
    BY <1>3, QueueFacts, TailContents DEF WorkerRecv, TypeOK, Apart, Records
  <2>2. k \notin Stage["worker"]
    BY <2>1, Disjoint, StageFacts
  <2>3. wrec' = [wrec EXCEPT ![w] = k] /\ wrec \in [Workers -> Records \cup {0}]
    BY <1>3 DEF WorkerRecv, TypeOK
  <2>4. \A u, v \in Workers : wrec'[u] = wrec'[v] /\ wrec'[u] # 0 => u = v
    BY <2>1, <2>2, <2>3, StageFacts DEF Apart
  <2>5. Moved(Stage, Stage', {k}, "ch", "worker")
    <3>1. UNCHANGED <<arrived, iCh, Collected, stored, failed>>
      BY <1>3 DEF WorkerRecv, Collected, batchVars
    <3>2. Stage'["worker"] = Stage["worker"] \cup {k}
      BY <2>1, <2>3, StageFacts
    <3>3. \A s \in DOMAIN Stage \ {"ch", "worker"} : Stage'[s] = Stage[s]
      BY <3>1, StageFacts
    <3> QED BY <2>1, <3>2, <3>3, StageFacts DEF Moved
  <2>6. IsPartition(Stage')
    BY <2>5, Move
  <2> QED BY <1>0, <1>3, <2>1, <2>4, <2>6 DEF WorkerRecv, Apart, batchVars
<1>4. ASSUME NEW w \in Workers, WorkerSend(w) PROVE OnceInv'
  <2> DEFINE k == wrec[w]
  <2>1. /\ k \in Records /\ k # 0 /\ k \in Stage["worker"]
        /\ wrec' = [wrec EXCEPT ![w] = 0] /\ wrec \in [Workers -> Records \cup {0}]
    BY <1>4, StageFacts DEF WorkerSend, TypeOK
  <2>2. k \notin Contents(iCh)
    BY <2>1, Disjoint, StageFacts
  <2>3. Contents(iCh') = Contents(iCh) \cup {k} /\ NoRepeats(iCh')
    BY <1>4, <2>1, <2>2, AppendContents DEF WorkerSend, TypeOK, Apart
  <2>4. \A u, v \in Workers : wrec'[u] = wrec'[v] /\ wrec'[u] # 0 => u = v
    BY <2>1 DEF Apart
  <2>5. Moved(Stage, Stage', {k}, "worker", "iCh")
    <3>1. UNCHANGED <<arrived, ch, Collected, stored, failed>>
      BY <1>4 DEF WorkerSend, Collected, batchVars
    <3>2. Stage'["worker"] = Stage["worker"] \ {k}
      BY <2>1, StageFacts DEF Apart
    <3>3. \A s \in DOMAIN Stage \ {"worker", "iCh"} : Stage'[s] = Stage[s]
      BY <3>1, StageFacts
    <3> QED BY <2>1, <2>3, <3>2, <3>3, StageFacts DEF Moved
  <2>6. IsPartition(Stage')
    BY <2>5, Move
  <2> QED BY <1>0, <1>4, <2>3, <2>4, <2>6 DEF WorkerSend, Apart, batchVars
<1> QED BY <1>1, <1>2, <1>3, <1>4 DEF WorkerStep

(* The rows of ingester i are committed or refused.                        *)
LEMMA OnceCommit ==
    ASSUME OnceInv, NEW i \in Ingesters, CommitRows(i),
           UNCHANGED <<arrived, ch, wrec, iCh>>
    PROVE  Apart' /\ IsPartition(Stage)'
<1> USE DEF OnceInv
<1>1. rows' = [rows EXCEPT ![i] = {}] /\ rows \in [Ingesters -> SUBSET Records]
  BY DEF CommitRows, TypeOK
<1>2. Apart'
  BY <1>1 DEF Apart
<1>3. Collected' = Collected \ rows[i] /\ rows[i] \subseteq Collected
  BY <1>1 DEF Apart, Collected
<1>4. CASE stored' = stored \cup rows[i] /\ UNCHANGED failed
  <2>1. Moved(Stage, Stage', rows[i], "rows", "stored")
    <3>1. \A s \in DOMAIN Stage \ {"rows", "stored"} : Stage'[s] = Stage[s]
      <4>1. UNCHANGED <<arrived, ch, wrec, iCh, failed>>
        BY <1>4
      <4> QED BY <4>1, StageFacts
    <3> QED BY <1>3, <1>4, <3>1, StageFacts DEF Moved
  <2> QED BY <1>2, <2>1, Move
<1>5. CASE failed' = failed \cup rows[i] /\ UNCHANGED stored
  <2>1. Moved(Stage, Stage', rows[i], "rows", "failed")
    <3>1. \A s \in DOMAIN Stage \ {"rows", "failed"} : Stage'[s] = Stage[s]
      BY <1>5, StageFacts
    <3> QED BY <1>3, <1>5, <3>1, StageFacts DEF Moved
  <2> QED BY <1>2, <2>1, Move
<1> QED BY <1>4, <1>5 DEF CommitRows

(* An ingester takes a row, and it is executed or refused.                 *)
LEMMA OnceRow ==
    ASSUME OnceInv, NEW i \in Ingesters, Row(i)
    PROVE  Apart' /\ IsPartition(Stage)'
<1> USE DEF OnceInv
<1> DEFINE k == Head(iCh)
<1>1. /\ k \in Records /\ k \in Contents(iCh)
      /\ Contents(iCh') = Contents(iCh) \ {k} /\ NoRepeats(iCh')
      /\ rows \in [Ingesters -> SUBSET Records]
  BY QueueFacts, TailContents DEF Row, TypeOK, Apart
<1>2. k \notin Collected
  BY <1>1, Disjoint, StageFacts
<1>3. UNCHANGED <<arrived, ch, wrec, stored>>
  BY DEF Row, workVars
<1>4. CASE rows' = [rows EXCEPT ![i] = @ \cup {k}] /\ UNCHANGED failed
  <2>1. Collected' = Collected \cup {k}
    BY <1>1, <1>4 DEF Collected
  <2>2. \A j, l \in Ingesters : rows'[j] \cap rows'[l] # {} => j = l
    BY <1>1, <1>2, <1>4 DEF Apart, Collected
  <2>3. Moved(Stage, Stage', {k}, "iCh", "rows")
    <3>1. \A s \in DOMAIN Stage \ {"iCh", "rows"} : Stage'[s] = Stage[s]
      BY <1>3, <1>4, StageFacts
    <3> QED BY <1>1, <2>1, <3>1, StageFacts DEF Moved
  <2> QED BY <1>1, <1>3, <2>2, <2>3, Move DEF Apart
<1>5. CASE failed' = failed \cup {k} /\ UNCHANGED rows
  <2>1. Moved(Stage, Stage', {k}, "iCh", "failed")
    <3>1. UNCHANGED Collected
      BY <1>5 DEF Collected
    <3>2. \A s \in DOMAIN Stage \ {"iCh", "failed"} : Stage'[s] = Stage[s]
      BY <1>3, <1>5, <3>1, StageFacts
    <3> QED BY <1>1, <1>5, <3>2, StageFacts DEF Moved
  <2> QED BY <1>1, <1>3, <1>5, <2>1, Move DEF Apart
<1> QED BY <1>4, <1>5 DEF Row

(* An ingester and its timer: what is begun without rows and what is       *)
(* abandoned had none.                                                     *)
LEMMA OnceIngest ==
    ASSUME OnceInv, TypeOK', NEW i \in Ingesters, TimerFires(i) \/ IngestStep(i)
    PROVE  OnceInv'
<1> USE DEF OnceInv, TypeOK
<1>1. CASE TimerFires(i)
  BY <1>1, OnceFrame DEF TimerFires, NoneForgotten, workVars, batchVars
<1>2. CASE BeginTx(i)
  <2>1. rows' = rows
    BY <1>2 DEF BeginTx, NoneForgotten
  <2> QED BY <1>2, <2>1, OnceFrame DEF BeginTx, NoneForgotten, workVars
<1>3. CASE Prepare(i)
  BY <1>3, OnceFrame DEF Prepare, NoneForgotten, workVars
<1>4. CASE PrepareFails(i)
  BY <1>4, OnceFrame DEF PrepareFails, NoneForgotten, workVars
<1>5. CASE Row(i)
  <2>1. NoneForgotten'
    <3>1. /\ counter' = [counter EXCEPT ![i] = @ + 1] /\ counter[i] + 1 # 0
          /\ \A j \in Ingesters \ {i} : rows'[j] = rows[j]
      BY <1>5, ConstantAssumption DEF Row
    <3>2. ipc' = [ipc EXCEPT ![i] = "commit"] \/ ipc' = [ipc EXCEPT ![i] = "loop"]
      BY <1>5 DEF Row
    <3> QED BY <3>1, <3>2 DEF NoneForgotten
  <2> QED BY <1>5, <2>1, OnceRow
<1>6. CASE TickFlush(i)
  BY <1>6, OnceFrame DEF TickFlush, NoneForgotten, workVars
<1>7. CASE TickEmpty(i)
  <2>1. /\ UNCHANGED <<arrived, ch, wrec, iCh, rows, counter, stored, failed>>
        /\ ipc[i] = "loop" /\ counter[i] = 0
        /\ ipc' = [ipc EXCEPT ![i] = "begin"] \/ ipc' = ipc
    BY <1>7 DEF TickEmpty, workVars
  <2> QED BY <2>1, OnceFrame DEF NoneForgotten
<1>8. CASE Commit(i)
  <2>1. NoneForgotten'
    BY <1>8 DEF Commit, CommitRows, NoneForgotten
  <2> QED BY <1>8, <2>1, OnceCommit DEF Commit, workVars
<1>9. CASE IngestDone(i)
  <2>1. NoneForgotten'
    BY <1>9 DEF IngestDone, CommitRows, NoneForgotten
  <2> QED BY <1>9, <2>1, OnceCommit DEF IngestDone, workVars
<1> QED BY <1>1, <1>2, <1>3, <1>4, <1>5, <1>6, <1>7, <1>8, <1>9 DEF IngestStep

(* The places that part n of the program has for what is found at D.       *)
Part(n, D) == {<<n, i>> : i \in D}

(* Tagging the places keeps their number: none stays none, one stays one.  *)
LEMMA Tagged ==
    ASSUME NEW n, NEW D
    PROVE  /\ D = {} => Part(n, D) = {}
           /\ (\E d : D = {d}) => \E p : Part(n, D) = {p}
<1>1. ASSUME NEW d, D = {d} PROVE Part(n, D) = {<<n, d>>}
  BY <1>1 DEF Part
<1>2. D = {} => Part(n, D) = {}
  BY DEF Part
<1> QED BY <1>1, <1>2

(* A part that holds a record holds it in one place.                       *)
LEMMA OncePlaces ==
    ASSUME OnceInv, NEW k \in 1..arrived
    PROVE  Cardinality(Places(k)) = 1
<1> USE DEF OnceInv
<1>1. k \in Records /\ k # 0
  BY ConstantAssumption DEF TypeOK, Records
<1> DEFINE InCh == {j \in DOMAIN ch : ch[j] = k}
           AtWorker == {v \in Workers : wrec[v] = k}
           InICh == {j \in DOMAIN iCh : iCh[j] = k}
           InRows == {j \in Ingesters : k \in rows[j]}
           InStored == stored \cap {k}
           InFailed == failed \cap {k}
<1>3. /\ k \notin Stage["ch"] => InCh = {}
      /\ k \in Stage["ch"] => \E d : InCh = {d}
  <2>1. k \in Stage["ch"] <=> InCh # {}
    BY <1>1, StageFacts DEF Contents
  <2>2. \A d, e \in InCh : d = e
    BY <1>1 DEF Apart, NoRepeats
  <2> QED BY <2>1, <2>2
<1>4. /\ k \notin Stage["worker"] => AtWorker = {}
      /\ k \in Stage["worker"] => \E d : AtWorker = {d}
  <2>1. k \in Stage["worker"] <=> AtWorker # {}
    BY <1>1, StageFacts
  <2>2. \A d, e \in AtWorker : d = e
    BY <1>1 DEF Apart, NoRepeats
  <2> QED BY <2>1, <2>2
<1>5. /\ k \notin Stage["iCh"] => InICh = {}
      /\ k \in Stage["iCh"] => \E d : InICh = {d}
  <2>1. k \in Stage["iCh"] <=> InICh # {}
    BY <1>1, StageFacts DEF Contents
  <2>2. \A d, e \in InICh : d = e
    BY <1>1 DEF Apart, NoRepeats
  <2> QED BY <2>1, <2>2
<1>6. /\ k \notin Stage["rows"] => InRows = {}
      /\ k \in Stage["rows"] => \E d : InRows = {d}
  <2>1. k \in Stage["rows"] <=> InRows # {}
    BY <1>1, StageFacts DEF Collected
  <2>2. \A d, e \in InRows : d = e
    BY <1>1 DEF Apart, NoRepeats
  <2> QED BY <2>1, <2>2
<1>7. /\ k \notin Stage["stored"] => InStored = {}
      /\ k \in Stage["stored"] => \E d : InStored = {d}
  BY StageFacts
<1>8. /\ k \notin Stage["failed"] => InFailed = {}
      /\ k \in Stage["failed"] => \E d : InFailed = {d}
  BY StageFacts
<1>9. k \notin Stage["new"]
  BY StageFacts
<1>10. PICK s \in DOMAIN Stage : \A t \in DOMAIN Stage : k \in Stage[t] <=> t = s
  BY <1>1 DEF IsPartition
<1>11. Places(k) = Part("ch", InCh) \cup Part("worker", AtWorker) \cup Part("iCh", InICh)
                     \cup Part("rows", InRows) \cup Part("stored", InStored)
                     \cup Part("failed", InFailed)
  BY DEF Places, Part
<1>12. \E p : Places(k) = {p}
  <2> HIDE DEF InCh, AtWorker, InICh, InRows, InStored, InFailed
  <2>1. CASE s = "ch"
    <3>1. \E p : Part("ch", InCh) = {p}
      BY <1>3, <1>10, Tagged, <2>1, StageFacts
    <3>2. /\ Part("worker", AtWorker) = {}
          /\ Part("iCh", InICh) = {}
          /\ Part("rows", InRows) = {}
          /\ Part("stored", InStored) = {}
          /\ Part("failed", InFailed) = {}
      BY <1>3, <1>4, <1>5, <1>6, <1>7, <1>8, <1>10, Tagged, <2>1, StageFacts
    <3> QED BY <1>11, <3>1, <3>2
  <2>2. CASE s = "worker"
    <3>1. \E p : Part("worker", AtWorker) = {p}
      BY <1>4, <1>10, Tagged, <2>2, StageFacts
    <3>2. /\ Part("ch", InCh) = {}
          /\ Part("iCh", InICh) = {}
          /\ Part("rows", InRows) = {}
          /\ Part("stored", InStored) = {}
          /\ Part("failed", InFailed) = {}
      BY <1>3, <1>4, <1>5, <1>6, <1>7, <1>8, <1>10, Tagged, <2>2, StageFacts
    <3> QED BY <1>11, <3>1, <3>2
  <2>3. CASE s = "iCh"
    <3>1. \E p : Part("iCh", InICh) = {p}
      BY <1>5, <1>10, Tagged, <2>3, StageFacts
    <3>2. /\ Part("ch", InCh) = {}
          /\ Part("worker", AtWorker) = {}
          /\ Part("rows", InRows) = {}
          /\ Part("stored", InStored) = {}
          /\ Part("failed", InFailed) = {}
      BY <1>3, <1>4, <1>5, <1>6, <1>7, <1>8, <1>10, Tagged, <2>3, StageFacts
    <3> QED BY <1>11, <3>1, <3>2
  <2>4. CASE s = "rows"
    <3>1. \E p : Part("rows", InRows) = {p}
      BY <1>6, <1>10, Tagged, <2>4, StageFacts
    <3>2. /\ Part("ch", InCh) = {}
          /\ Part("worker", AtWorker) = {}
          /\ Part("iCh", InICh) = {}
          /\ Part("stored", InStored) = {}
          /\ Part("failed", InFailed) = {}
      BY <1>3, <1>4, <1>5, <1>6, <1>7, <1>8, <1>10, Tagged, <2>4, StageFacts
    <3> QED BY <1>11, <3>1, <3>2
  <2>5. CASE s = "stored"
    <3>1. \E p : Part("stored", InStored) = {p}
      BY <1>7, <1>10, Tagged, <2>5, StageFacts
    <3>2. /\ Part("ch", InCh) = {}
          /\ Part("worker", AtWorker) = {}
          /\ Part("iCh", InICh) = {}
          /\ Part("rows", InRows) = {}
          /\ Part("failed", InFailed) = {}
      BY <1>3, <1>4, <1>5, <1>6, <1>7, <1>8, <1>10, Tagged, <2>5, StageFacts
    <3> QED BY <1>11, <3>1, <3>2
  <2>6. CASE s = "failed"
    <3>1. \E p : Part("failed", InFailed) = {p}
      BY <1>8, <1>10, Tagged, <2>6, StageFacts
    <3>2. /\ Part("ch", InCh) = {}
          /\ Part("worker", AtWorker) = {}
          /\ Part("iCh", InICh) = {}
          /\ Part("rows", InRows) = {}
          /\ Part("stored", InStored) = {}
      BY <1>3, <1>4, <1>5, <1>6, <1>7, <1>8, <1>10, Tagged, <2>6, StageFacts
    <3> QED BY <1>11, <3>1, <3>2
  <2> QED BY <1>9, <1>10, <2>1, <2>2, <2>3, <2>4, <2>5, <2>6, StageFacts
<1> QED BY <1>12, FS_Singleton

(* Every row is in one place at a time: no interleaving of workers,        *)
(* ingesters and timers stores one twice or loses it with a transaction    *)
(* that is abandoned, and the same holds when the database refuses it.     *)
THEOREM RowsConserved == Spec => []Conservation
<1>1. OnceInv /\ [Next]_vars => OnceInv'
  <2> SUFFICES ASSUME OnceInv, [Next]_vars PROVE OnceInv'
    OBVIOUS
  <2>1. TypeOK'
    <3>1. CASE UNCHANGED vars
      BY <3>1 DEF vars, workVars, batchVars, timerVars, TypeOK, OnceInv
    <3> QED BY <3>1, TypeWorker, TypeIngest DEF Next, OnceInv
  <2>2. CASE UNCHANGED vars
    BY <2>1, <2>2, OnceFrame DEF vars, workVars, batchVars, OnceInv, NoneForgotten
  <2> QED BY <2>1, <2>2, OnceWorker, OnceIngest DEF Next
<1>2. OnceInv => Conservation
  BY OncePlaces DEF Conservation
<1> QED BY <1>1, <1>2, OnceInit, PTL DEF Spec
=============================================================================
