---------------------------- MODULE Agent_proofs ----------------------------
(***************************************************************************)
(* Theorems about the agent, for every configuration, every number of      *)
(* buffers and every capacity.                                             *)
(***************************************************************************)
EXTENDS Agent, SequenceTheorems, FiniteSetTheorems, TLAPS

(* The configuration is a sequence of tracepoints of the right kind.       *)
LEMMA TracepointFacts ==
    /\ N \in Nat
    /\ \A i \in 1..N : /\ Tracepoints[i].fields \in STRING
                       /\ Tracepoints[i].egress \in Egresses
                       /\ Tracepoints[i].inet \subseteq Versions
                       /\ Tracepoints[i].workers \in Nat
<1>1. N \in Nat
  BY ConfigAssumption DEF N
<1>2. \A i \in 1..N : Tracepoints[i] \in TracepointConf
  BY ConfigAssumption DEF N
<1> QED BY <1>1, <1>2 DEF TracepointConf

(* What a table and a worker stand for.                                    *)
LEMMA TableFacts ==
    /\ \A t \in Tables : /\ t[1] \in 1..N
                         /\ EgressOf(t) \in Egresses
                         /\ FieldsOf(t) \in STRING
    /\ \A i \in 1..N : \A v \in Tracepoints[i].inet : <<i, v>> \in Tables
    /\ \A w \in Workers : TableOf(w) \in Tables
<1>1. \A t \in Tables : t[1] \in 1..N
  BY DEF Tables
<1>2. \A t \in Tables : EgressOf(t) \in Egresses /\ FieldsOf(t) \in STRING
  BY <1>1, TracepointFacts DEF EgressOf, FieldsOf
<1>3. \A i \in 1..N : \A v \in Tracepoints[i].inet : <<i, v>> \in Tables
  BY TracepointFacts DEF Tables
<1>4. \A w \in Workers : TableOf(w) \in Tables
  BY DEF Workers, TableOf
<1> QED BY <1>1, <1>2, <1>3, <1>4

(* Reading a field of a record.                                            *)
LEMMA RecordFacts ==
    /\ \A r \in Records : r.table \in Tables /\ r.seq \in Nat /\ r # Nil
    /\ \A t \in Tables : \A k \in Nat : [table |-> t, seq |-> k] \in Records
BY NilAssumption DEF Records

(* Taking from and adding to a channel.                                    *)
LEMMA QueueFacts ==
    ASSUME NEW S, NEW q \in Seq(S)
    PROVE  /\ Len(q) \in Nat
           /\ DOMAIN q = 1..Len(q)
           /\ \A i \in 1..Len(q) : q[i] \in S
           /\ q # <<>> => /\ Head(q) \in S /\ Head(q) = q[1] /\ Len(q) >= 1
                          /\ Tail(q) \in Seq(S) /\ Len(Tail(q)) = Len(q) - 1
                          /\ \A i \in 1..(Len(q) - 1) : Tail(q)[i] = q[i + 1]
           /\ \A x \in S : /\ Append(q, x) \in Seq(S)
                           /\ Len(Append(q, x)) = Len(q) + 1
                           /\ \A i \in 1..Len(q) : Append(q, x)[i] = q[i]
                           /\ Append(q, x)[Len(q) + 1] = x
<1>1. Len(q) \in Nat /\ DOMAIN q = 1..Len(q) /\ \A i \in 1..Len(q) : q[i] \in S
  OBVIOUS
<1>2. q # <<>> => /\ Head(q) \in S /\ Head(q) = q[1] /\ Len(q) >= 1
                  /\ Tail(q) \in Seq(S) /\ Len(Tail(q)) = Len(q) - 1
                  /\ \A i \in 1..(Len(q) - 1) : Tail(q)[i] = q[i + 1]
  BY HeadTailProperties
<1>3. \A x \in S : /\ Append(q, x) \in Seq(S)
                   /\ Len(Append(q, x)) = Len(q) + 1
                   /\ \A i \in 1..Len(q) : Append(q, x)[i] = q[i]
                   /\ Append(q, x)[Len(q) + 1] = x
  BY AppendProperties
<1> QED BY <1>1, <1>2, <1>3

-----------------------------------------------------------------------------
(* The program starts in a typed state.                                    *)
LEMMA TypeInit == Init => TypeOK
<1> SUFFICES ASSUME Init PROVE TypeOK
  OBVIOUS
<1>1. MainTypeOK
  BY TracepointFacts DEF Init, MainTypeOK
<1>2. KernelTypeOK
  BY CapacityAssumption DEF Init, KernelTypeOK
<1>3. WorkerTypeOK
  BY DEF Init, WorkerTypeOK
<1>4. BufferTypeOK
  BY CapacityAssumption DEF Init, BufferTypeOK
<1>5. EgressTypeOK
  BY DEF Init, EgressTypeOK
<1>6. StartTypeOK
  BY TableFacts DEF Init, StartTypeOK, NotStarted
<1> QED BY <1>1, <1>2, <1>3, <1>4, <1>5, <1>6 DEF TypeOK

(* Each part of the type invariant depends on its own variables only.      *)
LEMMA TypeFrame ==
    /\ MainTypeOK /\ UNCHANGED mainVars => MainTypeOK'
    /\ KernelTypeOK /\ UNCHANGED <<kernelVars, pollVars, perf>> => KernelTypeOK'
    /\ WorkerTypeOK /\ UNCHANGED workVars => WorkerTypeOK'
    /\ BufferTypeOK /\ UNCHANGED <<pool, content, out, dropped>> => BufferTypeOK'
    /\ EgressTypeOK /\ UNCHANGED <<columns, egressVars>> => EgressTypeOK'
    /\ StartTypeOK /\ UNCHANGED <<main, idx, todo, poll, wpc>> => StartTypeOK'
BY DEF MainTypeOK, KernelTypeOK, WorkerTypeOK, BufferTypeOK, EgressTypeOK,
       StartTypeOK, NotStarted, mainVars, kernelVars, pollVars, workVars, egressVars

(* Steps of main, of the signal handler and of a failing start.            *)
LEMMA TypeMain ==
    ASSUME TypeOK, MainStep \/ StartFails \/ Interrupt
    PROVE  TypeOK'
<1> USE DEF TypeOK, mainVars, kernelVars, pollVars, workVars, egressVars
<1>1. CASE StartEgress
  <2>1. /\ Tracepoints[idx].egress \in Egresses
        /\ idx \in 1..N /\ idx + 1 \in 1..(N + 1)
    BY <1>1, TracepointFacts DEF StartEgress, MainTypeOK
  <2>2. MainTypeOK'
    BY <1>1, <2>1 DEF StartEgress, MainTypeOK
  <2>3. EgressTypeOK'
    <3>1. CASE columns[Tracepoints[idx].egress] # 0
      BY <1>1, <3>1 DEF StartEgress, EgressTypeOK
    <3>2. CASE columns[Tracepoints[idx].egress] = 0
      <4>1. /\ columns' = [columns EXCEPT ![Tracepoints[idx].egress] = idx]
            /\ epc' = [epc EXCEPT ![Tracepoints[idx].egress] = "select"]
            /\ UNCHANGED <<ebuf, lines>>
        BY <1>1, <3>2 DEF StartEgress
      <4>2. /\ epc[Tracepoints[idx].egress] = "off"
            /\ ebuf[Tracepoints[idx].egress] = Nil
        BY <2>1, <3>2 DEF EgressTypeOK
      <4> QED BY <2>1, <4>1, <4>2 DEF EgressTypeOK, MainTypeOK
    <3> QED BY <3>1, <3>2
  <2>4. StartTypeOK'
    BY <1>1, <2>1 DEF StartEgress, StartTypeOK, NotStarted
  <2>5. KernelTypeOK' /\ WorkerTypeOK' /\ BufferTypeOK'
    BY <1>1, TypeFrame DEF StartEgress
  <2> QED BY <2>2, <2>3, <2>4, <2>5
<1>2. CASE EgressesStarted
  <2>1. MainTypeOK'
    BY <1>2, TracepointFacts DEF EgressesStarted, MainTypeOK
  <2>2. EgressTypeOK'
    BY <1>2 DEF EgressesStarted, EgressTypeOK
  <2>3. StartTypeOK'
    BY <1>2 DEF EgressesStarted, StartTypeOK, NotStarted
  <2>4. KernelTypeOK' /\ WorkerTypeOK' /\ BufferTypeOK'
    BY <1>2, TypeFrame DEF EgressesStarted
  <2> QED BY <2>1, <2>2, <2>3, <2>4
<1>3. CASE AttachTracepoint
  <2>1. MainTypeOK'
    BY <1>3, TracepointFacts DEF AttachTracepoint, MainTypeOK
  <2>2. EgressTypeOK'
    BY <1>3 DEF AttachTracepoint, EgressTypeOK
  <2>3. StartTypeOK'
    BY <1>3, TableFacts DEF AttachTracepoint, StartTypeOK, NotStarted, MainTypeOK
  <2>4. KernelTypeOK' /\ WorkerTypeOK' /\ BufferTypeOK'
    BY <1>3, TypeFrame DEF AttachTracepoint
  <2> QED BY <2>1, <2>2, <2>3, <2>4
<1>4. ASSUME NEW v \in Versions, StartTable(v)
      PROVE  TypeOK'
  <2>1. <<idx, v>> \in Tables
    BY <1>4, TableFacts DEF StartTable, MainTypeOK
  <2>2. Append(perfMaps, <<idx, v>>) \in Seq(Tables)
    BY <2>1, AppendProperties DEF MainTypeOK
  <2>3. \A w \in Workers : TableOf(w) = <<idx, v>> => wpc[w] = "off"
    BY <1>4, <2>1 DEF StartTable, StartTypeOK, NotStarted
  <2>4. MainTypeOK'
    BY <1>4, <2>1, <2>2, <2>3 DEF StartTable, MainTypeOK
  <2>5. KernelTypeOK'
    <3>1. poll[<<idx, v>>] = "off" /\ poll' = [poll EXCEPT ![<<idx, v>>] = "select"]
      BY <1>4, <2>1 DEF StartTable, StartTypeOK, NotStarted
    <3>2. UNCHANGED <<raisedOn, ring, lost, turn, hand, perf>>
      BY <1>4 DEF StartTable
    <3> QED BY <2>1, <3>1, <3>2 DEF KernelTypeOK
  <2>6. WorkerTypeOK'
    BY <1>4, <2>1, <2>2, <2>3 DEF StartTable, WorkerTypeOK
  <2>7. EgressTypeOK'
    BY <1>4, <2>1, <2>2, <2>3 DEF StartTable, EgressTypeOK
  <2>8. StartTypeOK'
    BY <1>4, <2>1, <2>2, <2>3, TableFacts DEF StartTable, StartTypeOK, NotStarted, MainTypeOK, KernelTypeOK, WorkerTypeOK, Tables
  <2>9. BufferTypeOK'
    BY <1>4, TypeFrame DEF StartTable
  <2> QED BY <2>4, <2>5, <2>6, <2>7, <2>8, <2>9
<1>5. CASE TracepointStarted
  <2>1. MainTypeOK'
    BY <1>5, TracepointFacts DEF TracepointStarted, MainTypeOK
  <2>2. EgressTypeOK'
    BY <1>5 DEF TracepointStarted, EgressTypeOK
  <2>3. StartTypeOK'
    BY <1>5, TableFacts, TracepointFacts DEF TracepointStarted, StartTypeOK, NotStarted, MainTypeOK
  <2>4. KernelTypeOK' /\ WorkerTypeOK' /\ BufferTypeOK'
    BY <1>5, TypeFrame DEF TracepointStarted
  <2> QED BY <2>1, <2>2, <2>3, <2>4
<1>6. CASE AllStarted
  <2>1. MainTypeOK'
    BY <1>6 DEF AllStarted, MainTypeOK
  <2>2. EgressTypeOK'
    BY <1>6 DEF AllStarted, EgressTypeOK
  <2>3. StartTypeOK'
    BY <1>6 DEF AllStarted, StartTypeOK, NotStarted
  <2>4. KernelTypeOK' /\ WorkerTypeOK' /\ BufferTypeOK'
    BY <1>6, TypeFrame DEF AllStarted
  <2> QED BY <2>1, <2>2, <2>3, <2>4
<1>7. CASE BeginClose
  <2>1. MainTypeOK'
    BY <1>7 DEF BeginClose, MainTypeOK
  <2>2. EgressTypeOK'
    BY <1>7 DEF BeginClose, EgressTypeOK
  <2>3. StartTypeOK'
    BY <1>7 DEF BeginClose, StartTypeOK, NotStarted
  <2>4. KernelTypeOK' /\ WorkerTypeOK' /\ BufferTypeOK'
    BY <1>7, TypeFrame DEF BeginClose
  <2> QED BY <2>1, <2>2, <2>3, <2>4
<1>8. CASE StopPerfMap
  <2>1. Head(perfMaps) \in Tables /\ Tail(perfMaps) \in Seq(Tables)
    BY <1>8, HeadTailProperties DEF StopPerfMap, MainTypeOK
  <2>2. MainTypeOK'
    BY <1>8, <2>1 DEF StopPerfMap, MainTypeOK
  <2>3. KernelTypeOK'
    BY <1>8, <2>1 DEF StopPerfMap, KernelTypeOK
  <2>4. EgressTypeOK'
    BY <1>8, <2>1 DEF StopPerfMap, EgressTypeOK
  <2>5. StartTypeOK'
    BY <1>8, <2>1 DEF StopPerfMap, StartTypeOK, NotStarted, KernelTypeOK
  <2>6. WorkerTypeOK' /\ BufferTypeOK'
    BY <1>8, TypeFrame DEF StopPerfMap
  <2> QED BY <2>2, <2>3, <2>4, <2>5, <2>6
<1>9. CASE Exit
  <2>1. MainTypeOK'
    BY <1>9 DEF Exit, MainTypeOK
  <2>2. EgressTypeOK'
    BY <1>9 DEF Exit, EgressTypeOK
  <2>3. StartTypeOK'
    BY <1>9 DEF Exit, StartTypeOK, NotStarted
  <2>4. KernelTypeOK' /\ WorkerTypeOK' /\ BufferTypeOK'
    BY <1>9, TypeFrame DEF Exit
  <2> QED BY <2>1, <2>2, <2>3, <2>4
<1>10. CASE StartEgressFails
  <2>1. MainTypeOK'
    BY <1>10 DEF StartEgressFails, MainTypeOK
  <2>2. EgressTypeOK'
    BY <1>10 DEF StartEgressFails, EgressTypeOK
  <2>3. StartTypeOK'
    BY <1>10 DEF StartEgressFails, StartTypeOK, NotStarted
  <2>4. KernelTypeOK' /\ WorkerTypeOK' /\ BufferTypeOK'
    BY <1>10, TypeFrame DEF StartEgressFails
  <2> QED BY <2>1, <2>2, <2>3, <2>4
<1>11. CASE StartTracepointFails
  <2>1. MainTypeOK'
    BY <1>11 DEF StartTracepointFails, MainTypeOK
  <2>2. EgressTypeOK'
    BY <1>11 DEF StartTracepointFails, EgressTypeOK
  <2>3. StartTypeOK'
    BY <1>11 DEF StartTracepointFails, StartTypeOK, NotStarted
  <2>4. KernelTypeOK' /\ WorkerTypeOK' /\ BufferTypeOK'
    BY <1>11, TypeFrame DEF StartTracepointFails
  <2> QED BY <2>1, <2>2, <2>3, <2>4
<1>12. CASE Interrupt
  <2>1. MainTypeOK'
    BY <1>12 DEF Interrupt, MainTypeOK
  <2>2. EgressTypeOK'
    BY <1>12 DEF Interrupt, EgressTypeOK
  <2>3. StartTypeOK'
    BY <1>12 DEF Interrupt, StartTypeOK, NotStarted
  <2>4. KernelTypeOK' /\ WorkerTypeOK' /\ BufferTypeOK'
    BY <1>12, TypeFrame DEF Interrupt
  <2> QED BY <2>1, <2>2, <2>3, <2>4
<1> QED BY <1>1, <1>2, <1>3, <1>4, <1>5, <1>6, <1>7, <1>8, <1>9, <1>10, <1>11, <1>12 DEF MainStep, StartFails

(* Steps of the kernel and of the poll goroutine.                          *)
LEMMA TypePoll ==
    ASSUME NEW t \in Tables, TypeOK, KernelEvent(t) \/ PollStep(t)
    PROVE  TypeOK'
<1> USE DEF TypeOK, mainVars, kernelVars, pollVars, workVars, egressVars
<1>1. CASE KernelEvent(t)
  <2>1. PICK c \in CPUs :
          /\ raisedOn' = [raisedOn EXCEPT ![t] = Append(@, c)]
          /\ \/ ring' = [ring EXCEPT ![t][c] = Append(@, Emitted(t) + 1)] /\ UNCHANGED lost
             \/ lost' = [lost EXCEPT ![t] = @ \cup {Emitted(t) + 1}] /\ UNCHANGED ring
    BY <1>1 DEF KernelEvent
  <2>2. /\ Emitted(t) + 1 \in Nat
        /\ Append(ring[t][c], Emitted(t) + 1) \in Seq(Nat)
        /\ Append(raisedOn[t], c) \in Seq(CPUs)
    <3>1. raisedOn[t] \in Seq(CPUs) /\ ring[t][c] \in Seq(Nat)
      BY DEF KernelTypeOK
    <3>2. Emitted(t) + 1 \in Nat
      BY <3>1 DEF Emitted
    <3> QED BY <3>1, <3>2, AppendProperties
  <2>3. lost[t] \cup {Emitted(t) + 1} \in SUBSET Nat
    BY <2>2 DEF KernelTypeOK
  <2>4. KernelTypeOK'
    <3>1. UNCHANGED <<poll, turn, hand, perf>> /\ (lost' = lost \/ ring' = ring)
      BY <1>1, <2>1 DEF KernelEvent
    <3>2. raisedOn' \in [Tables -> Seq(CPUs)]
      BY <2>1, <2>2 DEF KernelTypeOK
    <3>3. ring' \in [Tables -> [CPUs -> Seq(Nat)]]
      <4>1. CASE ring' = ring
        BY <4>1 DEF KernelTypeOK
      <4>2. CASE ring' = [ring EXCEPT ![t][c] = Append(@, Emitted(t) + 1)]
        BY <4>2, <2>2 DEF KernelTypeOK
      <4> QED BY <2>1, <4>1, <4>2
    <3>4. lost' \in [Tables -> SUBSET Nat]
      BY <2>1, <2>3 DEF KernelTypeOK
    <3> QED BY <3>1, <3>2, <3>3, <3>4 DEF KernelTypeOK
  <2>5. MainTypeOK' /\ WorkerTypeOK' /\ BufferTypeOK' /\ EgressTypeOK' /\ StartTypeOK'
    BY <1>1, TypeFrame DEF KernelEvent
  <2> QED BY <2>4, <2>5
<1>2. CASE PollReaders(t)
  <2>1. KernelTypeOK'
    BY <1>2 DEF PollReaders, KernelTypeOK, Readable
  <2>2. StartTypeOK'
    BY <1>2 DEF PollReaders, StartTypeOK, NotStarted, KernelTypeOK
  <2>3. MainTypeOK' /\ WorkerTypeOK' /\ BufferTypeOK' /\ EgressTypeOK'
    BY <1>2, TypeFrame DEF PollReaders
  <2> QED BY <2>1, <2>2, <2>3
<1>3. CASE PollRead(t)
  <2>1. PICK c \in CPUs :
          /\ ring[t][c] # <<>>
          /\ hand' = [hand EXCEPT ![t] = Head(ring[t][c])]
          /\ ring' = [ring EXCEPT ![t][c] = Tail(@)]
    BY <1>3 DEF PollRead
  <2>2. Head(ring[t][c]) \in Nat /\ Tail(ring[t][c]) \in Seq(Nat)
    BY <2>1, HeadTailProperties DEF KernelTypeOK
  <2>3. KernelTypeOK'
    BY <1>3, <2>1, <2>2 DEF PollRead, KernelTypeOK
  <2>4. StartTypeOK'
    BY <1>3 DEF PollRead, StartTypeOK, NotStarted, KernelTypeOK
  <2>5. MainTypeOK' /\ WorkerTypeOK' /\ BufferTypeOK' /\ EgressTypeOK'
    BY <1>3, TypeFrame DEF PollRead
  <2> QED BY <2>3, <2>4, <2>5
<1>4. CASE PollDeliver(t)
  <2>1. /\ Append(perf[t], hand[t]) \in Seq(Nat)
        /\ Len(Append(perf[t], hand[t])) = Len(perf[t]) + 1 /\ Len(perf[t]) \in Nat
    BY AppendProperties, LenProperties DEF KernelTypeOK
  <2>2. KernelTypeOK'
    BY <1>4, <2>1, CapacityAssumption DEF PollDeliver, KernelTypeOK
  <2>3. StartTypeOK'
    BY <1>4, <2>1 DEF PollDeliver, StartTypeOK, NotStarted, KernelTypeOK
  <2>4. MainTypeOK' /\ WorkerTypeOK' /\ BufferTypeOK' /\ EgressTypeOK'
    BY <1>4, TypeFrame DEF PollDeliver
  <2> QED BY <2>2, <2>3, <2>4
<1>5. CASE PollReturn(t)
  <2>1. KernelTypeOK'
    <3>1. PICK c \in CPUs : turn' = [turn EXCEPT ![t] = @ \ {c}]
      BY <1>5 DEF PollReturn
    <3>2. turn'[t] = turn[t] \ {c} /\ turn[t] \ {c} \in SUBSET CPUs
      BY <3>1 DEF KernelTypeOK
    <3> QED BY <1>5, <3>1, <3>2 DEF PollReturn, KernelTypeOK
  <2>2. StartTypeOK'
    BY <1>5 DEF PollReturn, StartTypeOK, NotStarted, KernelTypeOK
  <2>3. MainTypeOK' /\ WorkerTypeOK' /\ BufferTypeOK' /\ EgressTypeOK'
    BY <1>5, TypeFrame DEF PollReturn
  <2> QED BY <2>1, <2>2, <2>3
<1> QED BY <1>1, <1>2, <1>3, <1>4, <1>5 DEF PollStep

(* Steps of a worker.                                                      *)
LEMMA TypeWorker ==
    ASSUME NEW w \in Workers, TypeOK, WorkerStep(w)
    PROVE  TypeOK'
<1> USE DEF TypeOK, mainVars, kernelVars, pollVars, workVars, egressVars
<1>1. CASE WorkerRecv(w)
  <2>1. TableOf(w) \in Tables
    BY TableFacts
  <2>2. /\ Head(perf[TableOf(w)]) \in Nat /\ Tail(perf[TableOf(w)]) \in Seq(Nat)
        /\ Len(Tail(perf[TableOf(w)])) = Len(perf[TableOf(w)]) - 1
        /\ Len(perf[TableOf(w)]) \in Nat
    BY <1>1, <2>1, HeadTailProperties, LenProperties DEF WorkerRecv, KernelTypeOK
  <2>3. KernelTypeOK'
    BY <1>1, <2>1, <2>2, CapacityAssumption DEF WorkerRecv, KernelTypeOK
  <2>4. WorkerTypeOK'
    BY <1>1, <2>1, <2>2 DEF WorkerRecv, WorkerTypeOK
  <2>5. StartTypeOK'
    BY <1>1, <2>1, <2>2 DEF WorkerRecv, StartTypeOK, NotStarted, WorkerTypeOK
  <2>6. MainTypeOK' /\ BufferTypeOK' /\ EgressTypeOK'
    BY <1>1, TypeFrame DEF WorkerRecv
  <2> QED BY <2>3, <2>4, <2>5, <2>6
<1>2. CASE WorkerDone(w)
  <2>1. WorkerTypeOK'
    BY <1>2 DEF WorkerDone, WorkerTypeOK
  <2>2. StartTypeOK'
    BY <1>2 DEF WorkerDone, StartTypeOK, NotStarted, WorkerTypeOK
  <2>3. MainTypeOK' /\ KernelTypeOK' /\ BufferTypeOK' /\ EgressTypeOK'
    BY <1>2, TypeFrame DEF WorkerDone
  <2> QED BY <2>1, <2>2, <2>3
<1>3. CASE WorkerGet(w)
  <2>1. WorkerTypeOK'
    BY <1>3, NilAssumption DEF WorkerGet, WorkerTypeOK
  <2>2. BufferTypeOK'
    BY <1>3 DEF WorkerGet, BufferTypeOK
  <2>3. StartTypeOK'
    BY <1>3 DEF WorkerGet, StartTypeOK, NotStarted, WorkerTypeOK
  <2>4. MainTypeOK' /\ KernelTypeOK' /\ EgressTypeOK'
    BY <1>3, TypeFrame DEF WorkerGet
  <2> QED BY <2>1, <2>2, <2>3, <2>4
<1>4. CASE WorkerDecode(w)
  <2>1. [table |-> TableOf(w), seq |-> wev[w]] \in Records
    BY TableFacts, RecordFacts DEF WorkerTypeOK
  <2>2. WorkerTypeOK'
    BY <1>4, <2>1 DEF WorkerDecode, WorkerTypeOK
  <2>3. BufferTypeOK'
    BY <1>4, <2>1 DEF WorkerDecode, BufferTypeOK
  <2>4. StartTypeOK'
    BY <1>4, <2>1 DEF WorkerDecode, StartTypeOK, NotStarted, WorkerTypeOK
  <2>5. MainTypeOK' /\ KernelTypeOK' /\ EgressTypeOK'
    BY <1>4, TypeFrame DEF WorkerDecode
  <2> QED BY <2>2, <2>3, <2>4, <2>5
<1>5. CASE WorkerSend(w)
  <2>1. wbuf[w] \in Buffers /\ EgressOf(TableOf(w)) \in Egresses
    BY <1>5, TableFacts DEF WorkerSend, WorkerTypeOK
  <2>2. /\ Append(out[EgressOf(TableOf(w))], wbuf[w]) \in Seq(Buffers)
        /\ Len(out[EgressOf(TableOf(w))]) \in Nat
        /\ Len(Append(out[EgressOf(TableOf(w))], wbuf[w])) = Len(out[EgressOf(TableOf(w))]) + 1
    BY <2>1, AppendProperties, LenProperties DEF BufferTypeOK
  <2>3. content[wbuf[w]] \in Records \cup {Nil}
    BY <2>1 DEF BufferTypeOK
  <2>4. WorkerTypeOK'
    BY <1>5, <2>1, <2>2, <2>3 DEF WorkerSend, WorkerReleases, WorkerTypeOK
  <2>5. BufferTypeOK'
    <3>1. CASE Len(out[EgressOf(TableOf(w))]) < OutCap
      <4>1. /\ out' = [out EXCEPT ![EgressOf(TableOf(w))] = Append(@, wbuf[w])]
            /\ UNCHANGED <<dropped, content, pool>>
        BY <1>5, <3>1 DEF WorkerSend
      <4> QED BY <2>1, <2>2, <3>1, <4>1, CapacityAssumption DEF BufferTypeOK
    <3>2. CASE ~(Len(out[EgressOf(TableOf(w))]) < OutCap)
      <4>1. /\ dropped' = dropped \cup {content[wbuf[w]]}
            /\ content' = [content EXCEPT ![wbuf[w]] = Nil]
            /\ UNCHANGED <<out, pool>>
        BY <1>5, <3>2 DEF WorkerSend
      <4> QED BY <2>3, <4>1 DEF BufferTypeOK
    <3> QED BY <3>1, <3>2
  <2>6. StartTypeOK'
    BY <1>5, <2>1, <2>2, <2>3 DEF WorkerSend, WorkerReleases, StartTypeOK, NotStarted, WorkerTypeOK
  <2>7. MainTypeOK' /\ KernelTypeOK' /\ EgressTypeOK'
    BY <1>5, TypeFrame DEF WorkerSend, WorkerReleases
  <2> QED BY <2>4, <2>5, <2>6, <2>7
<1> QED BY <1>1, <1>2, <1>3, <1>4, <1>5 DEF WorkerStep

(* What an egress writes is a record and a field list.                     *)
LEMMA LineType ==
    ASSUME TypeOK, NEW e \in Egresses, epc[e] = "write"
    PROVE  [rec |-> content[ebuf[e]], columns |-> ColumnsOf(e, content[ebuf[e]])] \in Lines
<1> USE DEF TypeOK
<1>1. ebuf[e] \in Buffers /\ columns[e] \in 1..N
  BY TracepointFacts DEF EgressTypeOK, MainTypeOK
<1>2. content[ebuf[e]] \in Records \cup {Nil}
  BY <1>1 DEF BufferTypeOK
<1>3. ColumnsOf(e, content[ebuf[e]]) \in STRING
  <2>1. Tracepoints[columns[e]].fields \in STRING
    BY <1>1, TracepointFacts
  <2>2. content[ebuf[e]] # Nil => FieldsOf(content[ebuf[e]].table) \in STRING
    BY <1>2, TableFacts, RecordFacts
  <2> QED BY <2>1, <2>2 DEF ColumnsOf
<1> QED BY <1>2, <1>3 DEF Lines

(* Steps of an egress.                                                     *)
LEMMA TypeEgress ==
    ASSUME NEW e \in Egresses, TypeOK, EgressStep(e)
    PROVE  TypeOK'
<1> USE DEF TypeOK, mainVars, kernelVars, pollVars, workVars, egressVars
<1>1. CASE EgressRecv(e)
  <2>1. /\ Head(out[e]) \in Buffers /\ Tail(out[e]) \in Seq(Buffers)
        /\ Len(Tail(out[e])) = Len(out[e]) - 1 /\ Len(out[e]) \in Nat
    BY <1>1, HeadTailProperties, LenProperties DEF EgressRecv, BufferTypeOK
  <2>2. BufferTypeOK'
    BY <1>1, <2>1, CapacityAssumption DEF EgressRecv, BufferTypeOK
  <2>3. EgressTypeOK'
    BY <1>1, <2>1, NilAssumption DEF EgressRecv, EgressTypeOK
  <2>4. MainTypeOK' /\ KernelTypeOK' /\ WorkerTypeOK' /\ StartTypeOK'
    BY <1>1, TypeFrame DEF EgressRecv
  <2> QED BY <2>2, <2>3, <2>4
<1>2. CASE EgressDone(e)
  <2>1. EgressTypeOK'
    BY <1>2 DEF EgressDone, EgressTypeOK
  <2>2. MainTypeOK' /\ KernelTypeOK' /\ WorkerTypeOK' /\ BufferTypeOK' /\ StartTypeOK'
    BY <1>2, TypeFrame DEF EgressDone
  <2> QED BY <2>1, <2>2
<1>3. CASE EgressWrite(e)
  <2>1. epc[e] = "write"
    BY <1>3 DEF EgressWrite
  <2>2. ebuf[e] \in Buffers
    BY <2>1, NilAssumption DEF EgressTypeOK
  <2>5. [rec |-> content[ebuf[e]], columns |-> ColumnsOf(e, content[ebuf[e]])] \in Lines
    BY <2>1, LineType
  <2>6. Append(lines[e], [rec |-> content[ebuf[e]],
                           columns |-> ColumnsOf(e, content[ebuf[e]])]) \in Seq(Lines)
    BY <2>5, AppendProperties DEF EgressTypeOK
  <2>7. BufferTypeOK'
    BY <1>3, <2>1, <2>2, <2>5, <2>6 DEF EgressWrite, BufferTypeOK
  <2>8. EgressTypeOK'
    BY <1>3, <2>1, <2>2, <2>5, <2>6 DEF EgressWrite, EgressTypeOK
  <2>9. MainTypeOK' /\ KernelTypeOK' /\ WorkerTypeOK' /\ StartTypeOK'
    BY <1>3, TypeFrame DEF EgressWrite
  <2> QED BY <2>7, <2>8, <2>9
<1>4. CASE EgressPut(e)
  <2>1. ebuf[e] \in Buffers
    BY <1>4 DEF EgressPut, EgressTypeOK
  <2>2. BufferTypeOK'
    BY <1>4, <2>1 DEF EgressPut, BufferTypeOK
  <2>3. EgressTypeOK'
    BY <1>4, <2>1 DEF EgressPut, EgressTypeOK
  <2>4. MainTypeOK' /\ KernelTypeOK' /\ WorkerTypeOK' /\ StartTypeOK'
    BY <1>4, TypeFrame DEF EgressPut
  <2> QED BY <2>2, <2>3, <2>4
<1> QED BY <1>1, <1>2, <1>3, <1>4 DEF EgressStep

(* Type correctness of the agent: capacities are respected and buffers are *)
(* held exactly where the code holds them, for every configuration.        *)
THEOREM TypeCorrect == Spec => []TypeOK
<1>1. TypeOK /\ [Next]_vars => TypeOK'
  <2> SUFFICES ASSUME TypeOK, [Next]_vars PROVE TypeOK'
    OBVIOUS
  <2>1. CASE UNCHANGED vars
    BY <2>1, TypeFrame DEF vars, TypeOK, mainVars, kernelVars, pollVars, workVars,
                           egressVars
  <2> QED BY <2>1, TypeMain, TypePoll, TypeWorker, TypeEgress DEF Next
<1> QED BY <1>1, TypeInit, PTL DEF Spec
-----------------------------------------------------------------------------
(* Steps that move no buffer.                                              *)
LEMMA ExclusiveFrame ==
    BufferExclusive /\ UNCHANGED <<wbuf, pool, out, ebuf>> => BufferExclusive'
BY DEF BufferExclusive, WorkersExclusive, QueuesExclusive, EgressesExclusive

(* A worker takes a buffer: one of the pool, which by the invariant nobody *)
(* else refers to, or one that is not in use.                              *)
LEMMA ExclusiveGet ==
    ASSUME TypeOK, BufferExclusive, NEW w \in Workers, WorkerGet(w)
    PROVE  BufferExclusive'
<1>1. PICK b \in Buffers : /\ b \in pool \/ ~InUse(b)
                           /\ wbuf' = [wbuf EXCEPT ![w] = b]
                           /\ pool' = pool \ {b}
  BY DEF WorkerGet
<1>2. UNCHANGED <<out, ebuf>>
  BY DEF WorkerGet, egressVars
<1>3. b # Nil /\ wbuf \in [Workers -> Buffers \cup {Nil}]
  BY NilAssumption DEF TypeOK, WorkerTypeOK
<1>4. /\ \A v \in Workers : wbuf[v] # b
      /\ \A e \in Egresses : /\ ebuf[e] # b
                              /\ \A i \in DOMAIN out[e] : out[e][i] # b
  BY <1>1, <1>3 DEF BufferExclusive, WorkersExclusive, QueuesExclusive,
                    EgressesExclusive, InUse
<1>5. WorkersExclusive'
  BY <1>1, <1>2, <1>3, <1>4 DEF BufferExclusive, WorkersExclusive
<1>6. QueuesExclusive'
  BY <1>1, <1>2 DEF BufferExclusive, QueuesExclusive
<1>7. EgressesExclusive'
  BY <1>1, <1>2 DEF BufferExclusive, EgressesExclusive
<1> QED BY <1>5, <1>6, <1>7 DEF BufferExclusive

(* A worker hands its buffer to the egress channel, or to the collector.   *)
LEMMA ExclusiveSend ==
    ASSUME TypeOK, BufferExclusive, NEW w \in Workers, WorkerSend(w)
    PROVE  BufferExclusive'
<1> DEFINE e == EgressOf(TableOf(w))
<1> DEFINE n == Len(out[e])
<1>1. /\ e \in Egresses /\ wbuf[w] \in Buffers
      /\ wbuf \in [Workers -> Buffers \cup {Nil}]
      /\ out \in [Egresses -> Seq(Buffers)]
  BY TableFacts DEF TypeOK, WorkerTypeOK, BufferTypeOK, WorkerSend
<1>2. /\ wbuf' = [wbuf EXCEPT ![w] = Nil]
      /\ UNCHANGED <<pool, ebuf>>
      /\ out' = out \/ out' = [out EXCEPT ![e] = Append(@, wbuf[w])]
  BY DEF WorkerSend, WorkerReleases, egressVars
<1>3. /\ n \in Nat /\ DOMAIN out[e] = 1..n
      /\ DOMAIN Append(out[e], wbuf[w]) = 1..(n + 1)
      /\ \A i \in 1..n : Append(out[e], wbuf[w])[i] = out[e][i]
      /\ Append(out[e], wbuf[w])[n + 1] = wbuf[w]
  BY <1>1, AppendProperties, LenProperties
<1> HIDE DEF e, n
<1>4. \A f \in Egresses : \A i \in DOMAIN out'[f] :
         \/ i \in DOMAIN out[f] /\ out'[f][i] = out[f][i]
         \/ f = e /\ i = n + 1 /\ i \notin DOMAIN out[f] /\ out'[f][i] = wbuf[w]
  <2>1. CASE out' = out
    BY <2>1
  <2>2. CASE out' = [out EXCEPT ![e] = Append(@, wbuf[w])]
    BY <2>2, <1>1, <1>3
  <2> QED BY <1>2, <2>1, <2>2
<1>5. WorkersExclusive'
  BY <1>1, <1>2, <1>4, NilAssumption DEF BufferExclusive, WorkersExclusive
<1>6. QueuesExclusive'
  BY <1>1, <1>2, <1>4, NilAssumption
  DEF BufferExclusive, QueuesExclusive, WorkersExclusive
<1>7. EgressesExclusive'
  BY <1>2 DEF BufferExclusive, EgressesExclusive
<1> QED BY <1>5, <1>6, <1>7 DEF BufferExclusive

(* An egress takes the first buffer of its channel.                        *)
LEMMA ExclusiveRecv ==
    ASSUME TypeOK, BufferExclusive, NEW e \in Egresses, EgressRecv(e)
    PROVE  BufferExclusive'
<1>1. /\ out \in [Egresses -> Seq(Buffers)]
      /\ ebuf \in [Egresses -> Buffers \cup {Nil}]
  BY DEF TypeOK, BufferTypeOK, EgressTypeOK
<1>2. /\ out[e] # <<>>
      /\ ebuf' = [ebuf EXCEPT ![e] = Head(out[e])]
      /\ out' = [out EXCEPT ![e] = Tail(@)]
      /\ UNCHANGED <<pool, wbuf>>
  BY DEF EgressRecv, workVars
<1>3. /\ Head(out[e]) = out[e][1] /\ 1 \in DOMAIN out[e]
      /\ out[e][1] \in Buffers
      /\ \A i \in DOMAIN Tail(out[e]) : /\ i + 1 \in DOMAIN out[e] /\ i + 1 # 1
                                        /\ i \in Nat
                                        /\ Tail(out[e])[i] = out[e][i + 1]
  <2>1. out[e] \in Seq(Buffers) /\ out[e] # <<>>
    BY <1>1, <1>2
  <2>2. /\ Len(out[e]) \in Nat /\ DOMAIN out[e] = 1..Len(out[e])
        /\ Len(out[e]) >= 1
        /\ Head(out[e]) = out[e][1] /\ out[e][1] \in Buffers
        /\ Len(Tail(out[e])) = Len(out[e]) - 1
        /\ DOMAIN Tail(out[e]) = 1..Len(Tail(out[e]))
        /\ \A i \in 1..(Len(out[e]) - 1) : Tail(out[e])[i] = out[e][i + 1]
    BY <2>1, QueueFacts
  <2> QED BY <2>2
<1>4. \A f \in Egresses : \A i \in DOMAIN out'[f] :
         \/ f # e /\ i \in DOMAIN out[f] /\ out'[f][i] = out[f][i]
         \/ f = e /\ i + 1 \in DOMAIN out[f] /\ i + 1 # 1 /\ i \in Nat
                 /\ out'[f][i] = out[f][i + 1]
  BY <1>1, <1>2, <1>3
<1>5. WorkersExclusive'
  BY <1>1, <1>2, <1>3, <1>4 DEF BufferExclusive, WorkersExclusive
<1>6. QueuesExclusive'
  <2> SUFFICES ASSUME NEW f \in Egresses, NEW i \in DOMAIN out'[f]
               PROVE  /\ out'[f][i] \notin pool
                      /\ \A g \in Egresses :
                            /\ ebuf'[g] # out'[f][i]
                            /\ \A j \in DOMAIN out'[g] :
                                  out'[g][j] = out'[f][i] => f = g /\ i = j
    BY <1>2 DEF QueuesExclusive
  <2>1. PICK k \in DOMAIN out[f] : /\ out'[f][i] = out[f][k]
                                   /\ f = e => k = i + 1 /\ k # 1 /\ i \in Nat
                                   /\ f # e => k = i
    BY <1>4
  <2>2. out'[f][i] \notin pool
    BY <2>1 DEF BufferExclusive, QueuesExclusive
  <2>3. ASSUME NEW g \in Egresses
        PROVE  ebuf'[g] # out'[f][i]
    BY <1>1, <1>2, <1>3, <2>1 DEF BufferExclusive, QueuesExclusive
  <2>4. ASSUME NEW g \in Egresses, NEW j \in DOMAIN out'[g], out'[g][j] = out'[f][i]
        PROVE  f = g /\ i = j
    <3>1. PICK l \in DOMAIN out[g] : /\ out'[g][j] = out[g][l]
                                     /\ g = e => l = j + 1 /\ j \in Nat
                                     /\ g # e => l = j
      BY <1>4
    <3>2. out[g][l] = out[f][k]
      BY <2>1, <2>4, <3>1
    <3>3. f = g /\ k = l
      BY <3>2, Zenon DEF BufferExclusive, QueuesExclusive
    <3> QED BY <2>1, <3>1, <3>3
  <2> QED BY <2>2, <2>3, <2>4
<1>7. EgressesExclusive'
  BY <1>1, <1>2, <1>3 DEF BufferExclusive, EgressesExclusive, QueuesExclusive
<1> QED BY <1>5, <1>6, <1>7 DEF BufferExclusive

(* An egress returns its buffer to the pool.                               *)
LEMMA ExclusivePut ==
    ASSUME TypeOK, BufferExclusive, NEW e \in Egresses, EgressPut(e)
    PROVE  BufferExclusive'
<1>1. /\ ebuf \in [Egresses -> Buffers \cup {Nil}]
      /\ out \in [Egresses -> Seq(Buffers)] /\ ebuf[e] # Nil
  BY DEF TypeOK, EgressTypeOK, BufferTypeOK, EgressPut
<1>2. /\ pool' = pool \cup {ebuf[e]}
      /\ ebuf' = [ebuf EXCEPT ![e] = Nil]
      /\ UNCHANGED <<wbuf, out>>
  BY DEF EgressPut, workVars
<1>3. \A f \in Egresses : \A i \in DOMAIN out[f] : out[f][i] # Nil
  BY <1>1, ElementOfSeq, LenProperties, NilAssumption
<1>4. WorkersExclusive'
  BY <1>1, <1>2 DEF BufferExclusive, WorkersExclusive
<1>5. QueuesExclusive'
  BY <1>1, <1>2, <1>3 DEF BufferExclusive, QueuesExclusive
<1>6. EgressesExclusive'
  BY <1>1, <1>2 DEF BufferExclusive, EgressesExclusive
<1> QED BY <1>4, <1>5, <1>6 DEF BufferExclusive

(* One owner per buffer, for every configuration and every interleaving of *)
(* workers and egresses: no goroutine of ebpf/bcc.go or egress/ decodes    *)
(* into, reads or pools a buffer that another one still refers to.         *)
THEOREM Exclusive == Spec => []BufferExclusive
<1>1. Init => BufferExclusive
  BY DEF Init, BufferExclusive, WorkersExclusive, QueuesExclusive, EgressesExclusive
<1>2. TypeOK /\ BufferExclusive /\ [Next]_vars => BufferExclusive'
  <2> SUFFICES ASSUME TypeOK, BufferExclusive, [Next]_vars PROVE BufferExclusive'
    OBVIOUS
  <2> USE DEF mainVars, kernelVars, pollVars, workVars, egressVars
  <2>1. CASE UNCHANGED vars
    BY <2>1, ExclusiveFrame DEF vars
  <2>2. CASE MainStep \/ StartFails \/ Interrupt
    BY <2>2, ExclusiveFrame
    DEF MainStep, StartFails, StartEgress, EgressesStarted, AttachTracepoint,
        StartTable, TracepointStarted, AllStarted, BeginClose, StopPerfMap, Exit,
        StartEgressFails, StartTracepointFails, Interrupt
  <2>3. ASSUME NEW t \in Tables, KernelEvent(t) \/ PollStep(t)
        PROVE  BufferExclusive'
    BY <2>3, ExclusiveFrame
    DEF PollStep, KernelEvent, PollReaders, PollRead, PollDeliver, PollReturn
  <2>4. ASSUME NEW w \in Workers, WorkerStep(w)
        PROVE  BufferExclusive'
    <3>1. CASE WorkerRecv(w) \/ WorkerDone(w) \/ WorkerDecode(w)
      BY <3>1, ExclusiveFrame DEF WorkerRecv, WorkerDone, WorkerDecode
    <3> QED BY <2>4, <3>1, ExclusiveGet, ExclusiveSend DEF WorkerStep
  <2>5. ASSUME NEW e \in Egresses, EgressStep(e)
        PROVE  BufferExclusive'
    <3>1. CASE EgressDone(e) \/ EgressWrite(e)
      BY <3>1, ExclusiveFrame DEF EgressDone, EgressWrite
    <3> QED BY <2>5, <3>1, ExclusiveRecv, ExclusivePut DEF EgressStep
  <2> QED BY <2>1, <2>2, <2>3, <2>4, <2>5 DEF Next
<1> QED BY <1>1, <1>2, TypeCorrect, PTL DEF Spec
-----------------------------------------------------------------------------
(* Steps that touch neither buffers nor those who hold them.               *)
LEMMA RoutedFrame ==
    RecordsRouted /\ UNCHANGED <<wpc, wbuf, content, out, epc, ebuf, columns>>
      => RecordsRouted'
BY DEF RecordsRouted

(* An egress is started with a tracepoint that names it.                   *)
LEMMA RoutedStartEgress ==
    ASSUME TypeOK, RecordsRouted, StartEgress
    PROVE  RecordsRouted'
<1> DEFINE e == Tracepoints[idx].egress
<1>1. /\ columns \in [Egresses -> 0..N] /\ epc \in [Egresses ->
            {"off", "select", "write", "put", "done"}]
      /\ e \in Egresses
  BY TracepointFacts DEF TypeOK, MainTypeOK, EgressTypeOK, StartEgress
<1>2. UNCHANGED <<wpc, wbuf, content, out, ebuf>>
  BY DEF StartEgress, workVars
<1>3. \/ UNCHANGED <<columns, epc>>
      \/ columns' = [columns EXCEPT ![e] = idx] /\ epc' = [epc EXCEPT ![e] = "select"]
  BY DEF StartEgress
<1> QED BY <1>1, <1>2, <1>3 DEF RecordsRouted

(* main starts the workers of a table: they hold no buffer.                *)
LEMMA RoutedStartTable ==
    ASSUME TypeOK, RecordsRouted, NEW v \in Versions, StartTable(v)
    PROVE  RecordsRouted'
<1>1. \A w \in Workers : wpc'[w] = "send" => wpc[w] = "send"
  BY DEF StartTable
<1>2. UNCHANGED <<wbuf, content, out, epc, ebuf, columns>>
  BY DEF StartTable, egressVars
<1> QED BY <1>1, <1>2 DEF RecordsRouted

(* A worker receives, or leaves.                                           *)
LEMMA RoutedRecvDone ==
    ASSUME TypeOK, RecordsRouted, NEW w \in Workers, WorkerRecv(w) \/ WorkerDone(w)
    PROVE  RecordsRouted'
<1>1. \A v \in Workers : wpc'[v] = "send" => wpc[v] = "send"
  BY DEF WorkerRecv, WorkerDone, TypeOK, WorkerTypeOK
<1>2. UNCHANGED <<wbuf, content, out, epc, ebuf, columns>>
  BY DEF WorkerRecv, WorkerDone, egressVars, mainVars
<1> QED BY <1>1, <1>2 DEF RecordsRouted

(* The buffer a worker holds is nobody else's: writing it disturbs no      *)
(* record another goroutine or channel holds.                              *)
LEMMA RoutedOwn ==
    ASSUME TypeOK, BufferExclusive, RecordsRouted, NEW b \in Buffers,
           \/ b \in pool \/ ~InUse(b)
           \/ \E w \in Workers : wbuf[w] = b,
           \A c \in Buffers : c # b => content'[c] = content[c]
    PROVE  /\ \A e \in Egresses : \A i \in DOMAIN out[e] :
                 content'[out[e][i]] = content[out[e][i]]
           /\ \A e \in Egresses : ebuf[e] # Nil =>
                 content'[ebuf[e]] = content[ebuf[e]]
           /\ \A w \in Workers : wbuf[w] # Nil /\ wbuf[w] # b =>
                 content'[wbuf[w]] = content[wbuf[w]]
<1>1. b # Nil
  BY NilAssumption
<1>2. \A e \in Egresses : ebuf[e] # b /\ \A i \in DOMAIN out[e] : out[e][i] # b
  <2>1. CASE b \in pool
    BY <2>1, <1>1 DEF BufferExclusive, QueuesExclusive, EgressesExclusive
  <2>2. CASE ~InUse(b)
    BY <2>2 DEF InUse
  <2>3. CASE \E w \in Workers : wbuf[w] = b
    BY <2>3, <1>1 DEF BufferExclusive, WorkersExclusive
  <2> QED BY <2>1, <2>2, <2>3
<1>3. \A e \in Egresses : /\ ebuf[e] \in Buffers \cup {Nil}
                          /\ \A i \in DOMAIN out[e] : out[e][i] \in Buffers
  BY ElementOfSeq, LenProperties DEF TypeOK, EgressTypeOK, BufferTypeOK
<1>4. \A w \in Workers : wbuf[w] \in Buffers \cup {Nil}
  BY DEF TypeOK, WorkerTypeOK
<1> QED BY <1>2, <1>3, <1>4

(* Get and Reset.                                                          *)
LEMMA RoutedGet ==
    ASSUME TypeOK, BufferExclusive, RecordsRouted, NEW w \in Workers, WorkerGet(w)
    PROVE  RecordsRouted'
<1>1. PICK b \in Buffers : /\ b \in pool \/ ~InUse(b)
                           /\ wbuf' = [wbuf EXCEPT ![w] = b]
                           /\ content' = [content EXCEPT ![b] = Nil]
  BY DEF WorkerGet
<1>2. wpc' = [wpc EXCEPT ![w] = "decode"] /\ UNCHANGED <<out, epc, ebuf, columns>>
  BY DEF WorkerGet, egressVars, mainVars
<1>3. \A c \in Buffers : c # b => content'[c] = content[c]
  BY <1>1 DEF TypeOK, BufferTypeOK
<1>4. /\ \A e \in Egresses : \A i \in DOMAIN out[e] :
             content'[out[e][i]] = content[out[e][i]]
      /\ \A e \in Egresses : ebuf[e] # Nil => content'[ebuf[e]] = content[ebuf[e]]
      /\ \A v \in Workers : wbuf[v] # Nil /\ wbuf[v] # b =>
             content'[wbuf[v]] = content[wbuf[v]]
  BY <1>1, <1>3, RoutedOwn
<1>5. \A v \in Workers : wpc[v] = "send" => wbuf[v] # Nil /\ wbuf[v] # b
  BY <1>1, NilAssumption
  DEF TypeOK, WorkerTypeOK, BufferExclusive, WorkersExclusive, InUse
<1>6. \A e \in Egresses : epc[e] = "write" => ebuf[e] # Nil
  BY DEF TypeOK, EgressTypeOK
<1>7. \A v \in Workers : wpc'[v] = "send" => /\ wpc[v] = "send" /\ wbuf'[v] = wbuf[v]
                                            /\ content'[wbuf'[v]] = content[wbuf[v]]
  BY <1>1, <1>2, <1>4, <1>5 DEF TypeOK, WorkerTypeOK
<1> QED BY <1>2, <1>4, <1>6, <1>7 DEF RecordsRouted

(* The decode writes a record of the worker's own table.                   *)
LEMMA RoutedDecode ==
    ASSUME TypeOK, BufferExclusive, RecordsRouted, NEW w \in Workers, WorkerDecode(w)
    PROVE  RecordsRouted'
<1> DEFINE r == [table |-> TableOf(w), seq |-> wev[w]]
<1>1. /\ wbuf[w] \in Buffers
      /\ content \in [Buffers -> Records \cup {Nil}]
      /\ content' = [content EXCEPT ![wbuf[w]] = r]
      /\ wpc' = [wpc EXCEPT ![w] = "send"]
      /\ UNCHANGED <<wbuf, out, epc, ebuf, columns>>
  BY DEF WorkerDecode, egressVars, mainVars, TypeOK, WorkerTypeOK, BufferTypeOK
<1>2. r \in Records /\ r.table = TableOf(w)
  BY TableFacts, RecordFacts DEF TypeOK, WorkerTypeOK
<1> HIDE DEF r
<1>3. /\ \A e \in Egresses : \A i \in DOMAIN out[e] :
             content'[out[e][i]] = content[out[e][i]]
      /\ \A e \in Egresses : ebuf[e] # Nil => content'[ebuf[e]] = content[ebuf[e]]
      /\ \A v \in Workers : wbuf[v] # Nil /\ wbuf[v] # wbuf[w] =>
             content'[wbuf[v]] = content[wbuf[v]]
  BY <1>1, RoutedOwn
<1>4. \A e \in Egresses : epc[e] = "write" => ebuf[e] # Nil
  BY DEF TypeOK, EgressTypeOK
<1>5. \A v \in Workers \ {w} : wpc'[v] = "send" =>
         wpc[v] = "send" /\ content'[wbuf[v]] = content[wbuf[v]]
  <2>1. \A v \in Workers \ {w} : wpc'[v] = "send" => wpc[v] = "send" /\ wbuf[v] # Nil
    BY <1>1 DEF TypeOK, WorkerTypeOK
  <2>2. \A v \in Workers \ {w} : wbuf[v] # Nil => wbuf[v] # wbuf[w]
    BY DEF BufferExclusive, WorkersExclusive
  <2> QED BY <2>1, <2>2, <1>3
<1>6. content'[wbuf[w]] = r
  BY <1>1
<1> QED BY <1>1, <1>2, <1>3, <1>4, <1>5, <1>6 DEF RecordsRouted

(* The send moves the record, unchanged, to the channel of its egress.     *)
LEMMA RoutedSend ==
    ASSUME TypeOK, BufferExclusive, RecordsRouted, NEW w \in Workers, WorkerSend(w)
    PROVE  RecordsRouted'
<1> DEFINE e == EgressOf(TableOf(w))
<1>1. /\ wbuf[w] \in Buffers /\ e \in Egresses /\ wpc[w] = "send"
      /\ content \in [Buffers -> Records \cup {Nil}]
      /\ out \in [Egresses -> Seq(Buffers)]
  BY TableFacts DEF WorkerSend, TypeOK, WorkerTypeOK, BufferTypeOK
<1>2. /\ wpc' = [wpc EXCEPT ![w] = "select"]
      /\ wbuf' = [wbuf EXCEPT ![w] = Nil]
      /\ UNCHANGED <<epc, ebuf, columns>>
  BY DEF WorkerSend, WorkerReleases, egressVars, mainVars
<1>3. \/ out' = [out EXCEPT ![e] = Append(@, wbuf[w])] /\ content' = content
      \/ out' = out /\ content' = [content EXCEPT ![wbuf[w]] = Nil]
  BY DEF WorkerSend
<1>4. content[wbuf[w]] \in Records /\ EgressOf(content[wbuf[w]].table) = e
  BY <1>1 DEF RecordsRouted
<1>5. /\ Len(out[e]) \in Nat /\ DOMAIN out[e] = 1..Len(out[e])
      /\ DOMAIN Append(out[e], wbuf[w]) = 1..(Len(out[e]) + 1)
      /\ \A i \in 1..Len(out[e]) : Append(out[e], wbuf[w])[i] = out[e][i]
      /\ Append(out[e], wbuf[w])[Len(out[e]) + 1] = wbuf[w]
  BY <1>1, AppendProperties, LenProperties
<1> HIDE DEF e
<1>6. /\ \A f \in Egresses : \A i \in DOMAIN out[f] :
             content'[out[f][i]] = content[out[f][i]]
      /\ \A f \in Egresses : ebuf[f] # Nil => content'[ebuf[f]] = content[ebuf[f]]
      /\ \A v \in Workers : wbuf[v] # Nil /\ wbuf[v] # wbuf[w] =>
             content'[wbuf[v]] = content[wbuf[v]]
  <2>1. \A c \in Buffers : c # wbuf[w] => content'[c] = content[c]
    BY <1>1, <1>3
  <2> QED BY <2>1, <1>1, RoutedOwn
<1>7. \A f \in Egresses : \A i \in DOMAIN out'[f] :
         content'[out'[f][i]] \in Records /\ EgressOf(content'[out'[f][i]].table) = f
  <2>1. CASE out' = [out EXCEPT ![e] = Append(@, wbuf[w])] /\ content' = content
    <3>1. \A f \in Egresses \ {e} : out'[f] = out[f]
      BY <2>1, <1>1
    <3>2. out'[e] = Append(out[e], wbuf[w])
      BY <2>1, <1>1
    <3>3. \A i \in DOMAIN out'[e] : \/ i \in DOMAIN out[e] /\ out'[e][i] = out[e][i]
                                    \/ out'[e][i] = wbuf[w]
      BY <3>2, <1>5
    <3> QED BY <2>1, <3>1, <3>3, <1>4 DEF RecordsRouted
  <2>2. CASE out' = out
    BY <2>2, <1>6 DEF RecordsRouted
  <2> QED BY <1>3, <2>1, <2>2
<1>8. \A v \in Workers : wpc'[v] = "send" =>
         /\ wpc[v] = "send" /\ wbuf'[v] = wbuf[v]
         /\ content'[wbuf[v]] = content[wbuf[v]]
  <2>1. \A v \in Workers : wpc'[v] = "send" => v # w /\ wpc[v] = "send" /\ wbuf[v] # Nil
    BY <1>2 DEF TypeOK, WorkerTypeOK
  <2>2. \A v \in Workers \ {w} : wbuf[v] # Nil => wbuf[v] # wbuf[w]
    BY DEF BufferExclusive, WorkersExclusive
  <2>3. \A v \in Workers \ {w} : wbuf'[v] = wbuf[v]
    BY <1>2 DEF TypeOK, WorkerTypeOK
  <2> QED BY <2>1, <2>2, <2>3, <1>6
<1>9. \A f \in Egresses : epc[f] = "write" => ebuf[f] # Nil
  BY DEF TypeOK, EgressTypeOK
<1> QED BY <1>2, <1>6, <1>7, <1>8, <1>9 DEF RecordsRouted

(* The receive moves it from the channel to the egress.                    *)
LEMMA RoutedRecv ==
    ASSUME TypeOK, RecordsRouted, NEW e \in Egresses, EgressRecv(e)
    PROVE  RecordsRouted'
<1>1. /\ out \in [Egresses -> Seq(Buffers)] /\ out[e] # <<>>
      /\ ebuf \in [Egresses -> Buffers \cup {Nil}]
      /\ ebuf' = [ebuf EXCEPT ![e] = Head(out[e])]
      /\ out' = [out EXCEPT ![e] = Tail(@)]
      /\ epc' = [epc EXCEPT ![e] = "write"]
      /\ UNCHANGED <<wpc, wbuf, content, columns>>
  BY DEF EgressRecv, TypeOK, BufferTypeOK, EgressTypeOK, workVars, mainVars
<1>2. out[e] \in Seq(Buffers)
  BY <1>1
<1>3. /\ Len(out[e]) \in Nat /\ DOMAIN out[e] = 1..Len(out[e]) /\ Len(out[e]) >= 1
      /\ Head(out[e]) = out[e][1]
      /\ DOMAIN Tail(out[e]) = 1..(Len(out[e]) - 1)
      /\ \A i \in 1..(Len(out[e]) - 1) : Tail(out[e])[i] = out[e][i + 1]
  BY <1>1, <1>2, QueueFacts
<1>4. \A f \in Egresses : \A i \in DOMAIN out'[f] :
         \E k \in DOMAIN out[f] : out'[f][i] = out[f][k]
  <2>1. \A f \in Egresses : f # e => out'[f] = out[f]
    BY <1>1
  <2>2. out'[e] = Tail(out[e])
    BY <1>1
  <2>3. \A i \in DOMAIN Tail(out[e]) : /\ i + 1 \in DOMAIN out[e]
                                      /\ Tail(out[e])[i] = out[e][i + 1]
    BY <1>3
  <2>4. \A i \in DOMAIN out'[e] : \E k \in DOMAIN out[e] : out'[e][i] = out[e][k]
    BY <2>2, <2>3
  <2> QED BY <2>1, <2>4
<1>5. content[Head(out[e])] \in Records /\ EgressOf(content[Head(out[e])].table) = e
  BY <1>3 DEF RecordsRouted
<1>6. \A f \in Egresses : \A i \in DOMAIN out'[f] :
         content[out'[f][i]] \in Records /\ EgressOf(content[out'[f][i]].table) = f
  BY <1>4 DEF RecordsRouted
<1>7. \A f \in Egresses : epc'[f] = "write" =>
         content[ebuf'[f]] \in Records /\ EgressOf(content[ebuf'[f]].table) = f
  BY <1>1, <1>5 DEF RecordsRouted, TypeOK, EgressTypeOK
<1> QED BY <1>1, <1>6, <1>7 DEF RecordsRouted

(* Writing a record out empties the buffer of this egress only.            *)
LEMMA RoutedWrite ==
    ASSUME TypeOK, BufferExclusive, RecordsRouted, NEW e \in Egresses, EgressWrite(e)
    PROVE  RecordsRouted'
<1>1. /\ content \in [Buffers -> Records \cup {Nil}]
      /\ \A b \in Buffers : b # ebuf[e] => content'[b] = content[b]
      /\ epc' = [epc EXCEPT ![e] = "put"] /\ epc[e] = "write"
      /\ UNCHANGED <<wpc, wbuf, out, ebuf, columns>>
  BY DEF EgressWrite, TypeOK, BufferTypeOK, workVars, mainVars
<1>2. ebuf[e] # Nil
  BY <1>1 DEF TypeOK, EgressTypeOK
<1>3. \A w \in Workers : wpc[w] = "send" => content'[wbuf[w]] = content[wbuf[w]]
  <2>1. \A w \in Workers : wpc[w] = "send" => wbuf[w] \in Buffers /\ wbuf[w] # Nil
    BY DEF TypeOK, WorkerTypeOK
  <2>2. \A w \in Workers : wbuf[w] # Nil => wbuf[w] # ebuf[e]
    BY DEF BufferExclusive, WorkersExclusive
  <2> QED BY <2>1, <2>2, <1>1
<1>4. \A f \in Egresses : \A i \in DOMAIN out[f] :
         content'[out[f][i]] = content[out[f][i]]
  <2>1. \A f \in Egresses : \A i \in DOMAIN out[f] : out[f][i] \in Buffers
    BY ElementOfSeq, LenProperties DEF TypeOK, BufferTypeOK
  <2>2. \A f \in Egresses : \A i \in DOMAIN out[f] : out[f][i] # ebuf[e]
    BY DEF BufferExclusive, QueuesExclusive
  <2> QED BY <2>1, <2>2, <1>1
<1>5. \A f \in Egresses : epc'[f] = "write" =>
         epc[f] = "write" /\ content'[ebuf[f]] = content[ebuf[f]]
  <2>1. \A f \in Egresses : epc'[f] = "write" => f # e /\ epc[f] = "write"
    BY <1>1 DEF TypeOK, EgressTypeOK
  <2>2. \A f \in Egresses : epc[f] = "write" => ebuf[f] \in Buffers
    BY DEF TypeOK, EgressTypeOK
  <2>3. \A f \in Egresses : f # e => ebuf[f] # ebuf[e]
    BY <1>2 DEF BufferExclusive, EgressesExclusive
  <2> QED BY <2>1, <2>2, <2>3, <1>1
<1> QED BY <1>1, <1>3, <1>4, <1>5 DEF RecordsRouted

(* Leaving and returning the buffer to the pool write no buffer.           *)
LEMMA RoutedEnd ==
    ASSUME TypeOK, RecordsRouted, NEW e \in Egresses, EgressDone(e) \/ EgressPut(e)
    PROVE  RecordsRouted'
<1>1. \A f \in Egresses : epc'[f] = "write" => epc[f] = "write" /\ ebuf'[f] = ebuf[f]
  BY DEF EgressDone, EgressPut, TypeOK, EgressTypeOK
<1>2. UNCHANGED <<wpc, wbuf, content, out, columns>>
  BY DEF EgressDone, EgressPut, workVars, mainVars
<1> QED BY <1>1, <1>2 DEF RecordsRouted

(* A record stays what its worker decoded, on its way to the egress of its *)
(* tracepoint: the step of the induction.                                  *)
LEMMA RoutedStep ==
    TypeOK /\ BufferExclusive /\ RecordsRouted /\ [Next]_vars => RecordsRouted'
<1> SUFFICES ASSUME TypeOK, BufferExclusive, RecordsRouted, [Next]_vars
             PROVE  RecordsRouted'
  OBVIOUS
<1> USE DEF mainVars, kernelVars, pollVars, workVars, egressVars
<1>1. CASE UNCHANGED vars
  BY <1>1, RoutedFrame DEF vars
<1>2. CASE MainStep \/ StartFails \/ Interrupt
  <2>1. CASE EgressesStarted \/ AttachTracepoint \/ TracepointStarted \/ AllStarted
             \/ BeginClose \/ StopPerfMap \/ Exit \/ StartEgressFails
             \/ StartTracepointFails \/ Interrupt
    BY <2>1, RoutedFrame
    DEF EgressesStarted, AttachTracepoint, TracepointStarted, AllStarted, BeginClose,
        StopPerfMap, Exit, StartEgressFails, StartTracepointFails, Interrupt
  <2> QED BY <1>2, <2>1, RoutedStartEgress, RoutedStartTable DEF MainStep, StartFails
<1>3. ASSUME NEW t \in Tables, KernelEvent(t) \/ PollStep(t)
      PROVE  RecordsRouted'
  BY <1>3, RoutedFrame
  DEF PollStep, KernelEvent, PollReaders, PollRead, PollDeliver, PollReturn
<1>4. ASSUME NEW w \in Workers, WorkerStep(w)
      PROVE  RecordsRouted'
  BY <1>4, RoutedRecvDone, RoutedGet, RoutedDecode, RoutedSend DEF WorkerStep
<1>5. ASSUME NEW e \in Egresses, EgressStep(e)
      PROVE  RecordsRouted'
  BY <1>5, RoutedRecv, RoutedWrite, RoutedEnd DEF EgressStep
<1> QED BY <1>1, <1>2, <1>3, <1>4, <1>5 DEF Next

(* Which tracepoint an egress is started with: main has started the egress *)
(* of every tracepoint before the one it is at, and the first one that     *)
(* names an egress is the one its Start is given.                          *)
FirstStarted ==
    /\ main = "egress" => \A g \in 1..(idx - 1) : columns[Tracepoints[g].egress] # 0
    /\ \A e \in Egresses : columns[e] # 0 => NamesFirst(columns[e], e)

(* The chMap guard of main's first loop keeps this.                        *)
LEMMA FirstStep == TypeOK /\ FirstStarted /\ [Next]_vars => FirstStarted'
<1> SUFFICES ASSUME TypeOK, FirstStarted, [Next]_vars PROVE FirstStarted'
  OBVIOUS
<1>1. CASE StartEgress
  <2> DEFINE e == Tracepoints[idx].egress
  <2>1. /\ idx \in 1..N /\ e \in Egresses /\ columns \in [Egresses -> 0..N]
        /\ \A g \in 1..N : Tracepoints[g].egress \in Egresses
    BY <1>1, TracepointFacts DEF StartEgress, TypeOK, MainTypeOK
  <2>2. main = "egress" /\ main' = main /\ idx' = idx + 1
    BY <1>1 DEF StartEgress
  <2>3. \/ columns[e] # 0 /\ columns' = columns
        \/ columns[e] = 0 /\ columns' = [columns EXCEPT ![e] = idx]
    BY <1>1 DEF StartEgress
  <2>4. columns[e] = 0 => NamesFirst(idx, e)
    BY <2>1, <2>2 DEF FirstStarted, NamesFirst
  <2>5. columns'[e] # 0 /\ \A f \in Egresses : columns[f] # 0 => columns'[f] # 0
    BY <2>1, <2>3
  <2>6. \A g \in 1..(idx' - 1) : columns'[Tracepoints[g].egress] # 0
    <3>1. ASSUME NEW g \in 1..(idx' - 1) PROVE columns'[Tracepoints[g].egress] # 0
      <4>1. CASE g = idx
        BY <4>1, <2>5
      <4>2. CASE g # idx
        <5>1. g \in 1..(idx - 1) /\ g \in 1..N
          BY <4>2, <2>1, <2>2, TracepointFacts
        <5> QED BY <5>1, <2>1, <2>2, <2>5 DEF FirstStarted
      <4> QED BY <4>1, <4>2
    <3> QED BY <3>1
  <2>7. \A f \in Egresses : columns'[f] # 0 => NamesFirst(columns'[f], f)
    BY <2>1, <2>3, <2>4 DEF FirstStarted
  <2> QED BY <2>6, <2>7 DEF FirstStarted
<1>2. CASE ~StartEgress
  <2>1. columns' = columns /\ (main' = "egress" => main = "egress" /\ idx' = idx)
    BY <1>2
    DEF Next, vars, mainVars, MainStep, StartFails, EgressesStarted, AttachTracepoint,
        StartTable, TracepointStarted, AllStarted, BeginClose, StopPerfMap, Exit,
        StartEgressFails, StartTracepointFails, Interrupt, KernelEvent, PollStep,
        PollReaders, PollRead, PollDeliver, PollReturn, WorkerStep, WorkerRecv,
        WorkerDone, WorkerGet, WorkerDecode, WorkerSend, EgressStep, EgressRecv,
        EgressDone, EgressWrite, EgressPut
  <2> QED BY <2>1 DEF FirstStarted
<1> QED BY <1>1, <1>2

(* An egress has one first tracepoint.                                     *)
LEMMA OneFirst ==
    \A e \in Egresses : \A f, g \in 1..N : NamesFirst(f, e) /\ NamesFirst(g, e) => f = g
<1> SUFFICES ASSUME NEW e \in Egresses, NEW f \in 1..N, NEW g \in 1..N,
                    NamesFirst(f, e), NamesFirst(g, e), f # g
             PROVE  FALSE
  OBVIOUS
<1>1. f \in Nat /\ g \in Nat
  BY TracepointFacts
<1>2. f \in 1..(g - 1) \/ g \in 1..(f - 1)
  BY <1>1
<1> QED BY <1>2 DEF NamesFirst

(* Whatever field lists the tracepoints have that share an egress: a csv   *)
(* or jsonl file cuts every record with the list of the first tracepoint   *)
(* in the configuration file that names it, the console prints each under  *)
(* its own, and no output gets a record of a tracepoint that names another *)
(* egress, whatever was dropped before it.                                 *)
THEOREM ColumnsKept == Spec => []ColumnsOfFirst
<1>1. Init => RecordsRouted /\ FirstStarted /\ ColumnsOfFirst
  BY DEF Init, RecordsRouted, FirstStarted, ColumnsOfFirst
<1>2. TypeOK /\ RecordsRouted /\ FirstStarted /\ ColumnsOfFirst /\ [Next]_vars
        => ColumnsOfFirst'
  <2> SUFFICES ASSUME TypeOK, RecordsRouted, FirstStarted, ColumnsOfFirst, [Next]_vars
               PROVE  ColumnsOfFirst'
    OBVIOUS
  <2>1. CASE UNCHANGED lines
    BY <2>1 DEF ColumnsOfFirst
  <2>2. ASSUME NEW e \in Egresses, EgressWrite(e)
        PROVE  ColumnsOfFirst'
    <3> DEFINE rec == content[ebuf[e]]
    <3> DEFINE line == [rec |-> rec, columns |-> ColumnsOf(e, rec)]
    <3>1. /\ epc[e] = "write" /\ lines \in [Egresses -> Seq(Lines)]
          /\ lines' = [lines EXCEPT ![e] = Append(@, line)]
      BY <2>2 DEF EgressWrite, TypeOK, EgressTypeOK
    <3>2. /\ rec \in Records /\ rec # Nil /\ EgressOf(rec.table) = e
          /\ columns[e] \in 1..N /\ NamesFirst(columns[e], e)
      BY <3>1, RecordFacts, TracepointFacts
      DEF RecordsRouted, FirstStarted, TypeOK, EgressTypeOK, MainTypeOK
    <3>3. /\ line.rec = rec
          /\ line.columns = ColumnsOf(e, rec)
          /\ ColumnsOf(e, rec) = IF EgressType[e] \in FileTypes
                                 THEN Tracepoints[columns[e]].fields
                                 ELSE FieldsOf(rec.table)
      BY <3>2 DEF ColumnsOf
    <3>4. line \in Lines
      <4>1. FieldsOf(rec.table) \in STRING /\ Tracepoints[columns[e]].fields \in STRING
        BY <3>2, RecordFacts, TableFacts, TracepointFacts
      <4> QED BY <3>2, <3>3, <4>1 DEF Lines
    <3>5. \A f \in 1..N : NamesFirst(f, e) => f = columns[e]
      BY <3>2, OneFirst
    <3> HIDE DEF rec, line
    <3>6. \A i \in DOMAIN lines'[e] : \/ i \in DOMAIN lines[e] /\ lines'[e][i] = lines[e][i]
                                      \/ lines'[e][i] = line
      BY <3>1, <3>4, AppendProperties, LenProperties
    <3>7. \A f \in Egresses : f # e => lines'[f] = lines[f]
      BY <3>1
    <3> QED BY <3>2, <3>3, <3>5, <3>6, <3>7 DEF ColumnsOfFirst
  <2> QED
    BY <2>1, <2>2
    DEF Next, vars, mainVars, kernelVars, pollVars, workVars, egressVars, MainStep,
        StartFails, StartEgress, EgressesStarted, AttachTracepoint, StartTable,
        TracepointStarted, AllStarted, BeginClose, StopPerfMap, Exit,
        StartEgressFails, StartTracepointFails, Interrupt, KernelEvent, PollStep,
        PollReaders, PollRead, PollDeliver, PollReturn, WorkerStep, WorkerRecv,
        WorkerDone, WorkerGet, WorkerDecode, WorkerSend, EgressStep, EgressRecv,
        EgressDone, EgressPut
<1> QED BY <1>1, <1>2, RoutedStep, FirstStep, TypeCorrect, Exclusive, PTL DEF Spec
-----------------------------------------------------------------------------
(* The elements of a channel.                                              *)
Contents(q) == {q[i] : i \in DOMAIN q}
NoRepeats(q) == \A i, j \in DOMAIN q : q[i] = q[j] => i = j

(* What taking from a channel leaves in it.                                *)
LEMMA TailFacts ==
    ASSUME NEW S, NEW q \in Seq(S), q # <<>>
    PROVE  /\ Head(q) \in Contents(q)
           /\ Contents(q) = Contents(Tail(q)) \cup {Head(q)}
           /\ NoRepeats(q) => NoRepeats(Tail(q)) /\ Head(q) \notin Contents(Tail(q))
<1>1. /\ DOMAIN q = 1..Len(q) /\ Len(q) \in Nat /\ Len(q) >= 1 /\ Head(q) = q[1]
      /\ DOMAIN Tail(q) = 1..(Len(q) - 1)
      /\ \A i \in 1..(Len(q) - 1) : Tail(q)[i] = q[i + 1]
  <2>1. Tail(q) \in Seq(S) /\ Len(Tail(q)) = Len(q) - 1
    BY QueueFacts
  <2> QED BY <2>1, QueueFacts
<1>2. \A i \in 2..Len(q) : i - 1 \in 1..(Len(q) - 1) /\ Tail(q)[i - 1] = q[i]
  BY <1>1
<1>3. NoRepeats(q) => NoRepeats(Tail(q)) /\ Head(q) \notin Contents(Tail(q))
  BY <1>1 DEF Contents, NoRepeats
<1>4. Contents(Tail(q)) \cup {Head(q)} \subseteq Contents(q)
  BY <1>1 DEF Contents
<1>5. Contents(q) \subseteq Contents(Tail(q)) \cup {Head(q)}
  <2> SUFFICES ASSUME NEW i \in 2..Len(q) PROVE q[i] \in Contents(Tail(q))
    BY <1>1 DEF Contents
  <2> QED BY <1>1, <1>2 DEF Contents
<1> QED BY <1>3, <1>4, <1>5

(* Adding puts the new element last.                                       *)
LEMMA AppendContents ==
    ASSUME NEW S, NEW q \in Seq(S), NEW x \in S
    PROVE  /\ Contents(Append(q, x)) = Contents(q) \cup {x}
           /\ NoRepeats(q) /\ x \notin Contents(q) => NoRepeats(Append(q, x))
<1> USE DEF Contents, NoRepeats
<1>1. /\ DOMAIN q = 1..Len(q) /\ Len(q) \in Nat
      /\ DOMAIN Append(q, x) = 1..(Len(q) + 1)
      /\ \A i \in 1..Len(q) : Append(q, x)[i] = q[i]
      /\ Append(q, x)[Len(q) + 1] = x
  <2>1. Append(q, x) \in Seq(S) /\ Len(Append(q, x)) = Len(q) + 1
    BY QueueFacts
  <2> QED BY <2>1, QueueFacts
<1> QED BY <1>1

(* The kernel numbers the events of a table from 1.                        *)
Events == [table : Tables, seq : Nat \ {0}]
Event(t, k) == [table |-> t, seq |-> k]

(* The ring of a CPU holds events raised on it, under their numbers.       *)
RingsNumbered ==
    \A t \in Tables : \A c \in CPUs : \A k \in Contents(ring[t][c]) :
        k \in 1..Emitted(t) /\ raisedOn[t][k] = c

(* What a worker or a poll goroutine holds, and what was written.          *)
HeldInv ==
    /\ content \in [Buffers -> Events \cup {Nil}]
    /\ \A w \in Workers : wev[w] # 0 <=> wpc[w] \in {"get", "decode", "send"}
    /\ \A w \in Workers :
          wpc[w] = "send" => content[wbuf[w]] = Event(TableOf(w), wev[w])
    /\ \A t \in Tables : hand[t] # 0 <=> poll[t] = "deliver"
    /\ RingsNumbered
    /\ \A t \in Tables : 0 \notin Contents(perf[t])
    /\ \A e \in Egresses : \A i \in DOMAIN lines[e] :
          lines[e][i].rec \in Events /\ EgressOf(lines[e][i].rec.table) = e

BaseInv == TypeOK /\ BufferExclusive /\ RecordsRouted /\ HeldInv

(* Reading an event.                                                       *)
LEMMA EventFacts ==
    /\ \A r \in Events : /\ r.table \in Tables /\ r.seq \in Nat \ {0} /\ r # Nil
                         /\ r = Event(r.table, r.seq)
    /\ \A t \in Tables : \A k \in Nat \ {0} : /\ Event(t, k) \in Events
                                             /\ Event(t, k).table = t
                                             /\ Event(t, k).seq = k
    /\ Events \subseteq Records
<1>1. Events \subseteq Records
  BY DEF Events, Records
<1>2. Nil \notin Events
  BY <1>1, NilAssumption
<1> QED BY <1>1, <1>2 DEF Events, Event

(* Nothing is held at first.                                               *)
LEMMA HeldInit == Init => HeldInv
BY DEF Init, HeldInv, RingsNumbered, Contents

(* Steps that touch none of it.                                            *)
LEMMA HeldFrame ==
    HeldInv /\ UNCHANGED <<content, wev, wpc, wbuf, hand, poll, raisedOn, ring, perf, lines>>
      => HeldInv'
BY DEF HeldInv, RingsNumbered, Emitted

(* Steps that leave the rings alone.                                       *)
LEMMA RingsFrame == RingsNumbered /\ UNCHANGED <<raisedOn, ring>> => RingsNumbered'
BY DEF RingsNumbered, Emitted

(* Ring c of table t gets k, or gives its first event away.                *)
RingGets(t, c, k) == ring' = [ring EXCEPT ![t][c] = Append(@, k)]
RingGives(t, c) == ring[t][c] # <<>> /\ ring' = [ring EXCEPT ![t][c] = Tail(@)]

(* The event the kernel raises gets the next number.                       *)
Raises(t, c) ==
    /\ raisedOn' = [raisedOn EXCEPT ![t] = Append(@, c)]
    /\ \/ RingGets(t, c, Emitted(t) + 1) /\ UNCHANGED lost
       \/ lost' = [lost EXCEPT ![t] = @ \cup {Emitted(t) + 1}] /\ UNCHANGED ring

(* It is raised on some CPU.                                               *)
LEMMA KernelRaises ==
    ASSUME NEW t \in Tables, KernelEvent(t) PROVE \E c \in CPUs : Raises(t, c)
BY DEF KernelEvent, Raises, RingGets

(* What the numbers of a table are after it.                               *)
LEMMA RaisesFacts ==
    ASSUME TypeOK, NEW t \in Tables, NEW c \in CPUs, Raises(t, c)
    PROVE  /\ Emitted(t) \in Nat /\ Emitted(t)' = Emitted(t) + 1
           /\ raisedOn \in [Tables -> Seq(CPUs)] /\ DOMAIN raisedOn[t] = 1..Emitted(t)
           /\ \A k \in 1..Emitted(t) : raisedOn'[t][k] = raisedOn[t][k]
           /\ raisedOn'[t][Emitted(t) + 1] = c
           /\ \A u \in Tables \ {t} : raisedOn'[u] = raisedOn[u]
<1>1. raisedOn \in [Tables -> Seq(CPUs)] /\ raisedOn[t] \in Seq(CPUs)
  BY DEF TypeOK, KernelTypeOK
<1>2. raisedOn'[t] = Append(raisedOn[t], c) /\ \A u \in Tables \ {t} : raisedOn'[u] = raisedOn[u]
  BY <1>1 DEF Raises
<1> QED BY <1>1, <1>2, QueueFacts DEF Emitted

(* What the rings of a table are.                                          *)
LEMMA RingFacts ==
    ASSUME TypeOK, NEW t \in Tables, NEW c \in CPUs
    PROVE  /\ ring[t][c] \in Seq(Nat)
           /\ \A k : RingGets(t, c, k) =>
                 /\ ring'[t][c] = Append(ring[t][c], k)
                 /\ \A d \in CPUs \ {c} : ring'[t][d] = ring[t][d]
                 /\ \A u \in Tables \ {t} : ring'[u] = ring[u]
           /\ RingGives(t, c) =>
                 /\ ring'[t][c] = Tail(ring[t][c])
                 /\ \A d \in CPUs \ {c} : ring'[t][d] = ring[t][d]
                 /\ \A u \in Tables \ {t} : ring'[u] = ring[u]
<1>1. ring \in [Tables -> [CPUs -> Seq(Nat)]]
  BY DEF TypeOK, KernelTypeOK
<1> QED BY <1>1 DEF RingGets, RingGives

(* main starts a table, or stops one that is at its select.                *)
LEMMA HeldMain ==
    ASSUME BaseInv, MainStep \/ StartFails \/ Interrupt PROVE HeldInv'
<1> USE DEF BaseInv, mainVars, kernelVars, pollVars, workVars, egressVars
<1>1. ASSUME NEW v \in Versions, StartTable(v) PROVE HeldInv'
  <2> DEFINE t == <<idx, v>>
  <2>1. t \in Tables /\ NotStarted(t)
    BY <1>1, TableFacts DEF StartTable, TypeOK, MainTypeOK, NotStarted
  <2>2. poll[t] = "off" /\ \A w \in Workers : TableOf(w) = t => wpc[w] = "off"
    BY <2>1 DEF TypeOK, StartTypeOK
  <2>3. /\ \A w \in Workers : wpc'[w] = IF TableOf(w) = t THEN "select" ELSE wpc[w]
        /\ poll' = [poll EXCEPT ![t] = "select"]
        /\ UNCHANGED <<content, wev, wbuf, hand, raisedOn, ring, perf, lines>>
    BY <1>1 DEF StartTable
  <2> HIDE DEF t
  <2>4. \A w \in Workers : /\ wpc'[w] \in {"get", "decode", "send"} <=> wpc[w] \in {"get", "decode", "send"}
                           /\ wpc'[w] = "send" => wpc[w] = "send"
    BY <2>2, <2>3
  <2>5. \A u \in Tables : poll'[u] = "deliver" <=> poll[u] = "deliver"
    BY <2>2, <2>3 DEF TypeOK, KernelTypeOK
  <2> QED BY <2>3, <2>4, <2>5, RingsFrame DEF HeldInv
<1>2. CASE StopPerfMap
  <2>1. /\ poll[Head(perfMaps)] = "select" /\ poll' = [poll EXCEPT ![Head(perfMaps)] = "stopped"]
        /\ UNCHANGED <<content, wev, wpc, wbuf, hand, raisedOn, ring, perf, lines>>
    BY <1>2 DEF StopPerfMap
  <2>2. \A u \in Tables : poll'[u] = "deliver" <=> poll[u] = "deliver"
    BY <2>1 DEF TypeOK, KernelTypeOK
  <2> QED BY <2>1, <2>2, RingsFrame DEF HeldInv
<1>3. CASE StartEgress \/ EgressesStarted \/ AttachTracepoint \/ TracepointStarted \/ AllStarted
           \/ BeginClose \/ Exit \/ StartEgressFails \/ StartTracepointFails \/ Interrupt
  BY <1>3, HeldFrame
     DEF StartEgress, EgressesStarted, AttachTracepoint, TracepointStarted, AllStarted, BeginClose,
         Exit, StartEgressFails, StartTracepointFails, Interrupt
<1> QED BY <1>1, <1>2, <1>3 DEF MainStep, StartFails

(* The kernel numbers events from 1, and the callback holds one of those.  *)
LEMMA HeldPoll ==
    ASSUME BaseInv, NEW t \in Tables, KernelEvent(t) \/ PollStep(t) PROVE HeldInv'
<1> USE DEF BaseInv, kernelVars, pollVars, workVars, egressVars
<1>0. /\ perf \in [Tables -> Seq(Nat)] /\ hand \in [Tables -> Nat]
      /\ poll \in [Tables -> {"off", "select", "drain", "deliver", "stopped"}]
  BY DEF TypeOK, KernelTypeOK
<1>1. UNCHANGED <<content, wev, wpc, wbuf, lines>>
  BY DEF KernelEvent, PollStep, PollReaders, PollRead, PollDeliver, PollReturn
<1>2. /\ \A u \in Tables : hand'[u] # 0 <=> poll'[u] = "deliver"
      /\ RingsNumbered'
      /\ \A u \in Tables : 0 \notin Contents(perf'[u])
  <2>1. CASE KernelEvent(t)
    <3>1. UNCHANGED <<poll, hand, perf>>
      BY <2>1 DEF KernelEvent
    <3>2. PICK c \in CPUs : Raises(t, c)
      BY <2>1, KernelRaises
    <3> DEFINE n == Emitted(t) + 1
    <3>3. ASSUME NEW u \in Tables, NEW d \in CPUs, NEW k \in Contents(ring'[u][d])
          PROVE  k \in 1..Emitted(u)' /\ raisedOn'[u][k] = d
      <4>1. CASE u # t
        <5>1. ring'[u] = ring[u] /\ raisedOn'[u] = raisedOn[u]
          BY <3>2, <4>1, RaisesFacts, RingFacts DEF Raises
        <5> QED BY <5>1, <3>3 DEF HeldInv, RingsNumbered, Emitted
      <4>2. CASE u = t /\ k \in Contents(ring[t][d])
        <5>1. k \in 1..Emitted(t) /\ raisedOn[t][k] = d
          BY <4>2 DEF HeldInv, RingsNumbered
        <5> QED BY <3>2, <4>2, <5>1, RaisesFacts
      <4>3. CASE u = t /\ k \notin Contents(ring[t][d])
        <5>1. n \in Nat /\ ring[t][c] \in Seq(Nat)
          BY <3>2, RaisesFacts, RingFacts
        <5>2. Contents(Append(ring[t][c], n)) = Contents(ring[t][c]) \cup {n}
          BY <5>1, AppendContents
        <5>3. RingGets(t, c, n)
          BY <3>2, <3>3, <4>3 DEF Raises
        <5>4. d = c
          BY <3>3, <4>3, <5>3, RingFacts
        <5>5. ring'[t][c] = Append(ring[t][c], n)
          BY <5>3, RingFacts
        <5>6. k = n
          BY <3>3, <4>3, <5>2, <5>4, <5>5
        <5> QED BY <3>2, <4>3, <5>4, <5>6, RaisesFacts
      <4> QED BY <4>1, <4>2, <4>3
    <3>4. RingsNumbered'
      BY <3>3 DEF RingsNumbered
    <3> QED BY <3>1, <3>4 DEF HeldInv
  <2>2. CASE PollReaders(t) \/ PollReturn(t)
    <3>1. /\ UNCHANGED <<hand, raisedOn, ring, perf>> /\ poll[t] # "deliver"
          /\ \E x \in {"drain", "select"} : poll' = [poll EXCEPT ![t] = x]
      BY <2>2 DEF PollReaders, PollReturn
    <3> QED BY <1>0, <3>1, RingsFrame DEF HeldInv
  <2>3. CASE PollRead(t)
    <3>1. PICK c \in CPUs : /\ RingGives(t, c) /\ hand' = [hand EXCEPT ![t] = Head(ring[t][c])]
                            /\ UNCHANGED <<raisedOn, perf>> /\ poll' = [poll EXCEPT ![t] = "deliver"]
      BY <2>3 DEF PollRead, RingGives
    <3>2. /\ Head(ring[t][c]) \in Contents(ring[t][c])
          /\ Contents(Tail(ring[t][c])) \subseteq Contents(ring[t][c])
      <4>1. ring[t][c] \in Seq(Nat) /\ ring[t][c] # <<>>
        BY <3>1, RingFacts DEF RingGives
      <4> QED BY <4>1, TailFacts
    <3>3. Head(ring[t][c]) # 0
      BY <3>2 DEF HeldInv, RingsNumbered
    <3>4. \A u \in Tables : \A d \in CPUs : Contents(ring'[u][d]) \subseteq Contents(ring[u][d])
      <4> SUFFICES ASSUME NEW u \in Tables, NEW d \in CPUs
                   PROVE  Contents(ring'[u][d]) \subseteq Contents(ring[u][d])
        OBVIOUS
      <4>1. ring'[u][d] = ring[u][d] \/ (u = t /\ d = c /\ ring'[u][d] = Tail(ring[t][c]))
        BY <3>1, RingFacts
      <4> QED BY <3>2, <4>1
    <3>5. RingsNumbered'
      BY <3>1, <3>4 DEF HeldInv, RingsNumbered, Emitted
    <3> QED BY <1>0, <3>1, <3>3, <3>5 DEF HeldInv
  <2>4. CASE PollDeliver(t)
    <3>1. /\ UNCHANGED <<raisedOn, ring>> /\ poll' = [poll EXCEPT ![t] = "drain"]
          /\ poll[t] = "deliver"
          /\ hand' = [hand EXCEPT ![t] = 0] /\ perf' = [perf EXCEPT ![t] = Append(@, hand[t])]
      BY <2>4 DEF PollDeliver
    <3>2. perf[t] \in Seq(Nat) /\ hand[t] \in Nat
      BY <1>0
    <3>3. Contents(Append(perf[t], hand[t])) = Contents(perf[t]) \cup {hand[t]}
      BY <3>2, AppendContents
    <3> QED BY <1>0, <3>1, <3>3, RingsFrame DEF HeldInv
  <2> QED BY <2>1, <2>2, <2>3, <2>4 DEF PollStep
<1> QED BY <1>1, <1>2 DEF HeldInv

(* A worker that decodes writes the event it holds.                        *)
LEMMA HeldWorker ==
    ASSUME BaseInv, NEW w \in Workers, WorkerStep(w) PROVE HeldInv'
<1> USE DEF BaseInv, kernelVars, pollVars, egressVars
<1>0. /\ perf \in [Tables -> Seq(Nat)] /\ wev \in [Workers -> Nat]
      /\ wpc \in [Workers -> {"off", "select", "get", "decode", "send", "done"}]
      /\ wbuf \in [Workers -> Buffers \cup {Nil}]
      /\ \A v \in Workers : wpc[v] \in {"decode", "send"} <=> wbuf[v] # Nil
      /\ content \in [Buffers -> Events \cup {Nil}]
      /\ TableOf(w) \in Tables
  BY TableFacts DEF TypeOK, KernelTypeOK, WorkerTypeOK, HeldInv
<1>1. UNCHANGED <<hand, poll, raisedOn, ring, lines>> /\ RingsNumbered'
  <2>1. UNCHANGED <<hand, poll, raisedOn, ring, lines>>
    BY DEF WorkerStep, WorkerRecv, WorkerDone, WorkerGet, WorkerDecode, WorkerSend
  <2> QED BY <2>1, RingsFrame DEF HeldInv
<1>2. \A v \in Workers \ {w} : wev'[v] = wev[v] /\ wpc'[v] = wpc[v] /\ wbuf'[v] = wbuf[v]
  BY <1>0 DEF WorkerStep, WorkerRecv, WorkerDone, WorkerGet, WorkerDecode, WorkerSend,
              WorkerReleases, workVars
<1>3. CASE WorkerRecv(w)
  <2> DEFINE t == TableOf(w)
  <2>1. /\ perf[t] # <<>> /\ wev' = [wev EXCEPT ![w] = Head(perf[t])]
        /\ perf' = [perf EXCEPT ![t] = Tail(@)] /\ wpc' = [wpc EXCEPT ![w] = "get"]
        /\ UNCHANGED <<wbuf, content>>
    BY <1>3 DEF WorkerRecv
  <2>2. /\ Head(perf[t]) \in Contents(perf[t]) /\ Contents(Tail(perf[t])) \subseteq Contents(perf[t])
    BY <1>0, <2>1, TailFacts
  <2>3. \A u \in Tables : 0 \notin Contents(perf'[u])
    BY <1>0, <2>1, <2>2 DEF HeldInv
  <2>4. wev'[w] # 0 /\ wpc'[w] = "get"
    BY <1>0, <2>1, <2>2 DEF HeldInv
  <2> QED BY <1>0, <1>1, <1>2, <2>1, <2>3, <2>4 DEF HeldInv
<1>4. CASE WorkerDone(w)
  <2>1. /\ UNCHANGED <<perf, wev, wbuf, content>> /\ wpc[w] = "select"
        /\ wpc' = [wpc EXCEPT ![w] = "done"]
    BY <1>4 DEF WorkerDone
  <2>2. wpc'[w] = "done"
    BY <1>0, <2>1
  <2> QED BY <1>0, <1>1, <1>2, <2>1, <2>2 DEF HeldInv
<1>5. CASE WorkerGet(w)
  <2>1. PICK b \in Buffers : /\ b \in pool \/ ~InUse(b)
                             /\ content' = [content EXCEPT ![b] = Nil]
    BY <1>5 DEF WorkerGet
  <2>2. /\ UNCHANGED <<perf, wev>> /\ wpc[w] = "get" /\ wpc'[w] = "decode"
    BY <1>0, <1>5 DEF WorkerGet
  <2>3. \A c \in Buffers : c # b => content'[c] = content[c]
    BY <1>0, <2>1
  <2>4. \A v \in Workers : wbuf[v] # Nil => wbuf[v] # b
    <3>1. CASE b \in pool
      BY <3>1 DEF BufferExclusive, WorkersExclusive
    <3>2. CASE ~InUse(b)
      BY <3>2 DEF InUse
    <3> QED BY <2>1, <3>1, <3>2
  <2>5. \A v \in Workers : wpc'[v] = "send" => /\ wpc[v] = "send" /\ wbuf'[v] = wbuf[v]
                                              /\ content'[wbuf'[v]] = content[wbuf[v]]
    BY <1>0, <1>2, <2>2, <2>3, <2>4
  <2>6. content' \in [Buffers -> Events \cup {Nil}]
    BY <1>0, <2>1
  <2>7. \A v \in Workers : wpc'[v] \in {"get", "decode", "send"} <=> wpc[v] \in {"get", "decode", "send"}
    BY <1>2, <2>2
  <2> QED BY <1>0, <1>1, <2>2, <2>5, <2>6, <2>7 DEF HeldInv
<1>6. CASE WorkerDecode(w)
  <2> DEFINE r == Event(TableOf(w), wev[w])
  <2>1. /\ UNCHANGED <<perf, wev, wbuf>> /\ wpc[w] = "decode" /\ wpc'[w] = "send"
        /\ content' = [content EXCEPT ![wbuf[w]] = r]
    BY <1>0, <1>6 DEF WorkerDecode, Event
  <2>2. r \in Events /\ wbuf[w] \in Buffers
    BY <1>0, <2>1, EventFacts DEF HeldInv
  <2>3. \A v \in Workers \ {w} : wbuf[v] # Nil => wbuf[v] # wbuf[w]
    BY DEF BufferExclusive, WorkersExclusive
  <2> HIDE DEF r
  <2>4. \A v \in Workers \ {w} : wpc'[v] = "send" => /\ wpc[v] = "send"
                                                    /\ content'[wbuf[v]] = content[wbuf[v]]
    BY <1>0, <1>2, <2>1, <2>2, <2>3
  <2>5. content'[wbuf[w]] = r /\ content' \in [Buffers -> Events \cup {Nil}]
    BY <1>0, <2>1, <2>2
  <2>6. \A v \in Workers : wpc'[v] \in {"get", "decode", "send"} <=> wpc[v] \in {"get", "decode", "send"}
    BY <1>2, <2>1
  <2>7. \A v \in Workers : wpc'[v] = "send" => content'[wbuf'[v]] = Event(TableOf(v), wev'[v])
    BY <2>1, <2>4, <2>5 DEF r, HeldInv
  <2> QED BY <1>1, <2>1, <2>5, <2>6, <2>7 DEF HeldInv
<1>7. CASE WorkerSend(w)
  <2>1. /\ UNCHANGED perf /\ wpc[w] = "send" /\ wpc'[w] = "select" /\ wev'[w] = 0
        /\ content' = content \/ content' = [content EXCEPT ![wbuf[w]] = Nil]
    BY <1>0, <1>7 DEF WorkerSend, WorkerReleases
  <2>2. wbuf[w] \in Buffers /\ \A v \in Workers \ {w} : wbuf[v] # Nil => wbuf[v] # wbuf[w]
    BY <1>0, <2>1 DEF BufferExclusive, WorkersExclusive
  <2>3. \A v \in Workers : wpc'[v] = "send" => /\ v # w /\ wpc[v] = "send"
                                              /\ content'[wbuf'[v]] = content[wbuf[v]]
    BY <1>0, <1>2, <2>1, <2>2
  <2>4. content' \in [Buffers -> Events \cup {Nil}]
    BY <1>0, <2>1, <2>2
  <2>5. \A v \in Workers : wev'[v] # 0 <=> wpc'[v] \in {"get", "decode", "send"}
    BY <1>2, <2>1 DEF HeldInv
  <2>6. \A v \in Workers : wpc'[v] = "send" => content'[wbuf'[v]] = Event(TableOf(v), wev'[v])
    BY <1>2, <2>3 DEF HeldInv
  <2> QED BY <1>1, <2>1, <2>4, <2>5, <2>6 DEF HeldInv
<1> QED BY <1>3, <1>4, <1>5, <1>6, <1>7 DEF WorkerStep

(* What an egress writes is an event that was routed to it.                *)
LEMMA HeldEgress ==
    ASSUME BaseInv, NEW e \in Egresses, EgressStep(e) PROVE HeldInv'
<1> USE DEF BaseInv, kernelVars, pollVars, workVars
<1>1. UNCHANGED <<wev, wpc, wbuf, hand, poll, raisedOn, ring, perf>> /\ RingsNumbered'
  <2>1. UNCHANGED <<wev, wpc, wbuf, hand, poll, raisedOn, ring, perf>>
    BY DEF EgressStep, EgressRecv, EgressDone, EgressWrite, EgressPut
  <2> QED BY <2>1, RingsFrame DEF HeldInv
<1>2. CASE EgressRecv(e) \/ EgressDone(e) \/ EgressPut(e)
  <2>1. UNCHANGED <<content, lines>>
    BY <1>2 DEF EgressRecv, EgressDone, EgressPut
  <2> QED BY <1>1, <2>1, HeldFrame
<1>3. CASE EgressWrite(e)
  <2> DEFINE r == content[ebuf[e]]
  <2> DEFINE line == [rec |-> r, columns |-> ColumnsOf(e, r)]
  <2>1. /\ epc[e] = "write" /\ lines' = [lines EXCEPT ![e] = Append(@, line)]
        /\ content' = content \/ content' = [content EXCEPT ![ebuf[e]] = Nil]
    BY <1>3 DEF EgressWrite
  <2>2. /\ content \in [Buffers -> Events \cup {Nil}] /\ ebuf[e] \in Buffers /\ ebuf[e] # Nil
        /\ lines \in [Egresses -> Seq(Lines)]
    BY <2>1, NilAssumption DEF TypeOK, EgressTypeOK, HeldInv
  <2>3. r \in Events /\ EgressOf(r.table) = e
    <3>1. r \in Records /\ EgressOf(r.table) = e
      BY <2>1 DEF RecordsRouted
    <3> QED BY <2>2, <3>1, NilAssumption
  <2>4. line.rec = r
    OBVIOUS
  <2>5. \A w \in Workers : wpc[w] = "send" => content'[wbuf[w]] = content[wbuf[w]]
    <3>1. \A w \in Workers : wpc[w] = "send" => wbuf[w] \in Buffers /\ wbuf[w] # Nil
      BY DEF TypeOK, WorkerTypeOK
    <3>2. \A w \in Workers : wbuf[w] # Nil => wbuf[w] # ebuf[e]
      BY DEF BufferExclusive, WorkersExclusive
    <3> QED BY <2>1, <2>2, <3>1, <3>2
  <2>6. content' \in [Buffers -> Events \cup {Nil}]
    BY <2>1, <2>2
  <2>7. \A f \in Egresses : \A i \in DOMAIN lines'[f] :
           lines'[f][i].rec \in Events /\ EgressOf(lines'[f][i].rec.table) = f
    <3>1. lines[e] \in Seq(Lines) /\ \A f \in Egresses \ {e} : lines'[f] = lines[f]
      BY <2>1, <2>2
    <3>2. lines'[e] = Append(lines[e], line)
      BY <2>1, <2>2
    <3> HIDE DEF line
    <3>3. \A i \in DOMAIN lines'[e] : \/ i \in DOMAIN lines[e] /\ lines'[e][i] = lines[e][i]
                                      \/ lines'[e][i] = line
      BY <3>1, <3>2, AppendProperties, LenProperties
    <3> QED BY <2>3, <2>4, <3>1, <3>3 DEF HeldInv
  <2> QED BY <1>1, <2>5, <2>6, <2>7 DEF HeldInv
<1> QED BY <1>2, <1>3 DEF EgressStep

(* Buffers keep one owner: the step of the induction.                      *)
LEMMA BaseStep ==
    ASSUME BaseInv, [Next]_vars, TypeOK', BufferExclusive' PROVE BaseInv'
<1>1. RecordsRouted'
  BY RoutedStep DEF BaseInv
<1>2. HeldInv'
  <2>1. CASE UNCHANGED vars
    BY <2>1, HeldFrame DEF vars, BaseInv, kernelVars, pollVars, workVars, egressVars
  <2> QED BY <2>1, HeldMain, HeldPoll, HeldWorker, HeldEgress DEF Next
<1> QED BY <1>1, <1>2 DEF BaseInv
-----------------------------------------------------------------------------
(* No event is in two parts of P.                                          *)
IsApart(P) == \A s, t \in DOMAIN P : s # t => P[s] \cap P[t] = {}

(* Every event is in a part of P.                                          *)
Covers(P) == \A r \in Events : \E s \in DOMAIN P : r \in P[s]

(* The event r moves from part a of P to part b and makes it Q.            *)
Moved(P, Q, r, a, b) ==
    /\ a \in DOMAIN P /\ b \in DOMAIN P /\ a # b
    /\ r \in P[a]
    /\ DOMAIN Q = DOMAIN P
    /\ Q[a] = P[a] \ {r} /\ Q[b] = P[b] \cup {r}
    /\ \A s \in DOMAIN P \ {a, b} : Q[s] = P[s]

(* Moving keeps the parts apart and loses nothing.                         *)
LEMMA Move ==
    ASSUME NEW P, NEW Q, NEW r, NEW a, NEW b, IsApart(P), Moved(P, Q, r, a, b)
    PROVE  IsApart(Q) /\ (Covers(P) => Covers(Q))
<1> USE DEF Moved
<1>1. ASSUME NEW s \in DOMAIN P, NEW t \in DOMAIN P, s # t, NEW k \in Q[s], k \in Q[t]
      PROVE  FALSE
  <2>1. CASE k = r
    <3>1. \A u \in DOMAIN P : k \in P[u] => u = a
      BY <2>1 DEF IsApart
    <3>2. \A u \in DOMAIN P : k \in Q[u] => u = b
      BY <2>1, <3>1
    <3> QED BY <1>1, <3>2
  <2>2. CASE k # r
    <3>1. k \in P[s] /\ k \in P[t]
      BY <1>1, <2>2
    <3> QED BY <1>1, <3>1 DEF IsApart
  <2> QED BY <2>1, <2>2
<1>2. ASSUME Covers(P), NEW k \in Events PROVE \E s \in DOMAIN Q : k \in Q[s]
  <2>1. PICK s \in DOMAIN P : k \in P[s]
    BY <1>2 DEF Covers
  <2>2. k \in Q[s] \/ k \in Q[b]
    BY <2>1
  <2> QED BY <2>1, <2>2
<1> QED BY <1>1, <1>2 DEF IsApart, Covers

(* An event in two parts: they are the same.                               *)
LEMMA Disjoint ==
    ASSUME NEW P, IsApart(P), NEW r,
           NEW s \in DOMAIN P, NEW t \in DOMAIN P, r \in P[s], r \in P[t]
    PROVE  s = t
BY DEF IsApart

(* The events with the numbers that F gives each table.                    *)
Numbered(F) == {r \in Events : r.seq \in F[r.table]}

(* From F to G, table t gets the number k, or loses it.                    *)
Gains(F, G, t, k) ==
    /\ \A u \in Tables \ {t} : G[u] = F[u]
    /\ k \in G[t]
    /\ \A i \in Nat \ {0} : i \in G[t] <=> i \in F[t] \/ i = k

Loses(F, G, t, k) ==
    /\ \A u \in Tables \ {t} : G[u] = F[u]
    /\ k \in F[t]
    /\ \A i \in Nat \ {0} : i \in G[t] <=> i \in F[t] /\ i # k

(* One event more has a number.                                            *)
LEMMA NumberGained ==
    ASSUME NEW F, NEW G, NEW t \in Tables, NEW k \in Nat \ {0}, Gains(F, G, t, k)
    PROVE  Numbered(G) = Numbered(F) \cup {Event(t, k)}
<1>1. ASSUME NEW r \in Events
      PROVE  r \in Numbered(G) <=> r \in Numbered(F) \/ r = Event(t, k)
  <2>1. r.table \in Tables /\ r.seq \in Nat \ {0} /\ r = Event(r.table, r.seq)
    BY EventFacts
  <2>2. r = Event(t, k) <=> r.table = t /\ r.seq = k
    BY <2>1, EventFacts
  <2> QED BY <2>1, <2>2 DEF Numbered, Gains
<1>2. Event(t, k) \in Events
  BY EventFacts
<1> QED BY <1>1, <1>2 DEF Numbered, Gains

(* One event fewer has.                                                    *)
LEMMA NumberLost ==
    ASSUME NEW F, NEW G, NEW t \in Tables, NEW k \in Nat \ {0}, Loses(F, G, t, k)
    PROVE  Event(t, k) \in Numbered(F) /\ Numbered(G) = Numbered(F) \ {Event(t, k)}
<1>1. ASSUME NEW r \in Events
      PROVE  r \in Numbered(G) <=> r \in Numbered(F) /\ r # Event(t, k)
  <2>1. r.table \in Tables /\ r.seq \in Nat \ {0} /\ r = Event(r.table, r.seq)
    BY EventFacts
  <2>2. r = Event(t, k) <=> r.table = t /\ r.seq = k
    BY <2>1, EventFacts
  <2> QED BY <2>1, <2>2 DEF Numbered, Loses
<1>2. Event(t, k) \in Events /\ Event(t, k).table = t /\ Event(t, k).seq = k
  BY EventFacts
<1> QED BY <1>1, <1>2 DEF Numbered, Loses

-----------------------------------------------------------------------------
(* The numbers that are to come, in a ring, in a hand, in a channel, with  *)
(* a worker; the records in a channel, being written, and in a file.       *)
NewNos == [t \in Tables |-> {k \in Nat : k > Emitted(t)}]
RingNos == [t \in Tables |-> UNION {Contents(ring[t][c]) : c \in CPUs}]
HandNos == [t \in Tables |-> {hand[t]}]
PerfNos == [t \in Tables |-> Contents(perf[t])]
WorkerNos == [t \in Tables |-> {wev[w] : w \in {v \in Workers : TableOf(v) = t}}]
Queued == {r \in Events : \E i \in DOMAIN out[EgressOf(r.table)] :
                             content[out[EgressOf(r.table)][i]] = r}
Writing == {r \in Events : /\ epc[EgressOf(r.table)] = "write"
                           /\ content[ebuf[EgressOf(r.table)]] = r}
Written == {r \in Events : \E i \in DOMAIN lines[EgressOf(r.table)] :
                             lines[EgressOf(r.table)][i].rec = r}

(* Where events are, by the kind of place.                                 *)
Stage ==
    [new     |-> Numbered(NewNos),
     lost    |-> Numbered(lost),
     ring    |-> Numbered(RingNos),
     hand    |-> Numbered(HandNos),
     perf    |-> Numbered(PerfNos),
     worker  |-> Numbered(WorkerNos),
     dropped |-> dropped,
     out     |-> Queued,
     egress  |-> Writing,
     line    |-> Written]

(* The parts, before and after a step.                                     *)
LEMMA StageFacts ==
    /\ DOMAIN Stage = {"new", "lost", "ring", "hand", "perf", "worker", "dropped", "out",
                       "egress", "line"}
    /\ Stage["new"] = Numbered(NewNos) /\ Stage["lost"] = Numbered(lost)
    /\ Stage["ring"] = Numbered(RingNos) /\ Stage["hand"] = Numbered(HandNos)
    /\ Stage["perf"] = Numbered(PerfNos) /\ Stage["worker"] = Numbered(WorkerNos)
    /\ Stage["dropped"] = dropped /\ Stage["out"] = Queued
    /\ Stage["egress"] = Writing /\ Stage["line"] = Written
    /\ DOMAIN Stage' = DOMAIN Stage
    /\ Stage'["new"] = Numbered(NewNos') /\ Stage'["lost"] = Numbered(lost')
    /\ Stage'["ring"] = Numbered(RingNos') /\ Stage'["hand"] = Numbered(HandNos')
    /\ Stage'["perf"] = Numbered(PerfNos') /\ Stage'["worker"] = Numbered(WorkerNos')
    /\ Stage'["dropped"] = dropped' /\ Stage'["out"] = Queued'
    /\ Stage'["egress"] = Writing' /\ Stage'["line"] = Written'
BY DEF Stage

(* Each part holds an event at most once.                                  *)
OneEach ==
    /\ \A t \in Tables : NoRepeats(perf[t]) /\ \A c \in CPUs : NoRepeats(ring[t][c])
    /\ \A v, w \in Workers :
          TableOf(v) = TableOf(w) /\ wev[v] = wev[w] /\ wev[v] # 0 => v = w
    /\ \A e \in Egresses : \A i, j \in DOMAIN out[e] :
          content[out[e][i]] = content[out[e][j]] => i = j
    /\ \A e \in Egresses : \A i, j \in DOMAIN lines[e] :
          lines[e][i].rec = lines[e][j].rec => i = j

OnceInv == BaseInv /\ OneEach /\ IsApart(Stage) /\ Covers(Stage)

(* At first every event is still to come.                                  *)
LEMMA OnceInit == Init => OneEach /\ IsApart(Stage) /\ Covers(Stage)
<1> SUFFICES ASSUME Init PROVE OneEach /\ IsApart(Stage) /\ Covers(Stage)
  OBVIOUS
<1>1. /\ Stage["new"] = Events
      /\ \A s \in DOMAIN Stage \ {"new"} : Stage[s] = {}
  <2>1. \A t \in Tables : /\ NewNos[t] = {k \in Nat : k > 0} /\ lost[t] = {} /\ RingNos[t] = {}
                          /\ HandNos[t] = {0} /\ PerfNos[t] = {} /\ WorkerNos[t] \subseteq {0}
    BY DEF Init, NewNos, RingNos, HandNos, PerfNos, WorkerNos, Contents, Emitted
  <2>2. /\ Numbered(NewNos) = Events /\ Numbered(lost) = {} /\ Numbered(RingNos) = {}
        /\ Numbered(HandNos) = {} /\ Numbered(PerfNos) = {} /\ Numbered(WorkerNos) = {}
    BY <2>1, EventFacts DEF Numbered
  <2>3. \A r \in Events : EgressOf(r.table) \in Egresses
    BY EventFacts, TableFacts
  <2>4. Queued = {} /\ Writing = {} /\ Written = {} /\ dropped = {}
    BY <2>3 DEF Init, Queued, Writing, Written
  <2> QED BY <2>2, <2>4, StageFacts
<1>2. IsApart(Stage) /\ Covers(Stage)
  BY <1>1, StageFacts DEF IsApart, Covers
<1>3. OneEach
  BY DEF Init, OneEach, NoRepeats
<1> QED BY <1>2, <1>3

(* Steps that move no event.                                               *)
LEMMA OnceFrame ==
    ASSUME UNCHANGED <<raisedOn, lost, ring, hand, perf, wev, dropped, out, lines>>,
           \A e \in Egresses : \A i \in DOMAIN out[e] :
              content'[out[e][i]] = content[out[e][i]],
           \A e \in Egresses : epc'[e] = "write" <=> epc[e] = "write",
           \A e \in Egresses : epc[e] = "write" => content'[ebuf'[e]] = content[ebuf[e]]
    PROVE  Stage' = Stage /\ (OneEach => OneEach')
<1>1. UNCHANGED <<NewNos, RingNos, HandNos, PerfNos, WorkerNos>>
  BY DEF NewNos, RingNos, HandNos, PerfNos, WorkerNos, Emitted
<1>2. \A r \in Events : EgressOf(r.table) \in Egresses
  BY EventFacts, TableFacts
<1>3. UNCHANGED Queued
  BY <1>2 DEF Queued
<1>4. UNCHANGED Writing
  BY <1>2 DEF Writing
<1>5. UNCHANGED Written
  BY DEF Written
<1>6. Stage' = Stage
  BY <1>1, <1>3, <1>4, <1>5 DEF Stage
<1>7. OneEach => OneEach'
  BY DEF OneEach
<1> QED BY <1>6, <1>7

(* main moves no event.                                                    *)
LEMMA OnceMain ==
    ASSUME OnceInv, MainStep \/ StartFails \/ Interrupt
    PROVE  Stage' = Stage /\ OneEach'
<1> USE DEF OnceInv, BaseInv, mainVars, kernelVars, pollVars, workVars, egressVars
<1>1. CASE StartEgress
  <2> DEFINE e == Tracepoints[idx].egress
  <2>1. /\ UNCHANGED <<raisedOn, lost, ring, hand, perf, wev, dropped, out, lines, content, ebuf>>
        /\ e \in Egresses
        /\ \/ UNCHANGED epc
           \/ columns[e] = 0 /\ epc' = [epc EXCEPT ![e] = "select"]
    BY <1>1, TracepointFacts DEF StartEgress, TypeOK, MainTypeOK
  <2>2. columns[e] = 0 => epc[e] = "off"
    BY <2>1 DEF TypeOK, EgressTypeOK
  <2> HIDE DEF e
  <2>3. \A f \in Egresses : epc'[f] = "write" <=> epc[f] = "write"
    BY <2>1, <2>2 DEF TypeOK, EgressTypeOK
  <2> QED BY <2>1, <2>3, OnceFrame
<1>2. CASE \/ EgressesStarted \/ AttachTracepoint \/ TracepointStarted \/ AllStarted
           \/ BeginClose \/ StopPerfMap \/ Exit \/ StartEgressFails \/ StartTracepointFails
           \/ Interrupt \/ \E v \in Versions : StartTable(v)
  <2>1. UNCHANGED <<raisedOn, lost, ring, hand, perf, wev, dropped, out, lines, content, ebuf, epc>>
    BY <1>2 DEF EgressesStarted, AttachTracepoint, TracepointStarted, AllStarted, BeginClose,
                StopPerfMap, Exit, StartEgressFails, StartTracepointFails, Interrupt, StartTable
  <2> QED BY <2>1, OnceFrame
<1> QED BY <1>1, <1>2 DEF MainStep, StartFails

(* A number is in the rings of a table when it is in one of them.          *)
LEMMA RingNosFacts ==
    ASSUME NEW t \in Tables
    PROVE  /\ \A k : k \in RingNos[t] <=> \E c \in CPUs : k \in Contents(ring[t][c])
           /\ \A k : k \in RingNos'[t] <=> \E c \in CPUs : k \in Contents(ring'[t][c])
BY DEF RingNos

(* The kernel puts an event on a ring or loses it.                         *)
LEMMA OnceKernel ==
    ASSUME OnceInv, NEW t \in Tables, KernelEvent(t)
    PROVE  /\ OneEach'
           /\ \E c \in CPUs :
                /\ Raises(t, c)
                /\ \/ /\ RingGets(t, c, Emitted(t) + 1)
                      /\ Moved(Stage, Stage', Event(t, Emitted(t) + 1), "new", "ring")
                   \/ ring' = ring /\ Moved(Stage, Stage', Event(t, Emitted(t) + 1), "new", "lost")
<1> USE DEF OnceInv, BaseInv
<1> DEFINE k == Emitted(t) + 1  r == Event(t, k)
<1>c. PICK c \in CPUs : Raises(t, c)
  BY KernelRaises
<1>0. /\ lost \in [Tables -> SUBSET Nat] /\ ring[t][c] \in Seq(Nat)
      /\ Emitted(t) \in Nat /\ k \in Nat /\ k \in Nat \ {0}
  BY <1>c, RaisesFacts, RingFacts DEF TypeOK, KernelTypeOK
<1>1. UNCHANGED <<hand, perf, wev, dropped, out, lines, content, epc, ebuf>>
  BY DEF KernelEvent, pollVars, workVars, egressVars
<1>2. \/ RingGets(t, c, k) /\ UNCHANGED lost
      \/ lost' = [lost EXCEPT ![t] = @ \cup {k}] /\ ring' = ring
  BY <1>c DEF Raises
<1>3. UNCHANGED <<HandNos, PerfNos, WorkerNos, Queued, Writing, Written, dropped>>
  BY <1>1 DEF HandNos, PerfNos, WorkerNos, Queued, Writing, Written
<1>4. r \in Numbered(NewNos) /\ Numbered(NewNos') = Numbered(NewNos) \ {r}
  <2>1. /\ Emitted(t)' = Emitted(t) + 1
        /\ \A u \in Tables \ {t} : Emitted(u)' = Emitted(u)
    BY <1>c, RaisesFacts DEF Emitted
  <2>2. Loses(NewNos, NewNos', t, k)
    BY <1>0, <2>1 DEF Loses, NewNos
  <2> HIDE DEF k
  <2> QED BY <1>0, <2>2, NumberLost
<1>5. CASE RingGets(t, c, k) /\ UNCHANGED lost
  <2>1. r \notin Numbered(RingNos)
    BY <1>4, StageFacts, Disjoint
  <2>2. k \notin RingNos[t]
    BY <1>0, <2>1, EventFacts DEF Numbered
  <2> HIDE DEF k, r
  <2>3. /\ ring'[t][c] = Append(ring[t][c], k)
        /\ \A d \in CPUs \ {c} : ring'[t][d] = ring[t][d]
        /\ \A u \in Tables \ {t} : ring'[u] = ring[u]
    BY <1>5, RingFacts
  <2>4. /\ Contents(Append(ring[t][c], k)) = Contents(ring[t][c]) \cup {k}
        /\ NoRepeats(Append(ring[t][c], k))
    <3>1. k \notin Contents(ring[t][c]) /\ NoRepeats(ring[t][c])
      BY <2>2, RingNosFacts DEF OneEach
    <3> QED BY <1>0, <3>1, AppendContents
  <2>5. Numbered(RingNos') = Numbered(RingNos) \cup {r}
    <3>1. \A i : i \in RingNos'[t] <=> i \in RingNos[t] \/ i = k
      <4>1. \A i : i \in Contents(ring'[t][c]) <=> i \in Contents(ring[t][c]) \/ i = k
        BY <2>3, <2>4
      <4>2. \A d \in CPUs \ {c} : Contents(ring'[t][d]) = Contents(ring[t][d])
        BY <2>3
      <4> DEFINE A(d) == Contents(ring[t][d])  B(d) == Contents(ring'[t][d])
      <4>3. /\ \A i : i \in RingNos[t] <=> \E d \in CPUs : i \in A(d)
            /\ \A i : i \in RingNos'[t] <=> \E d \in CPUs : i \in B(d)
        BY RingNosFacts
      <4> HIDE DEF A, B
      <4> QED BY <4>1, <4>2, <4>3 DEF A, B
    <3>2. \A u \in Tables \ {t} : RingNos'[u] = RingNos[u]
      BY <2>3 DEF RingNos
    <3>3. Gains(RingNos, RingNos', t, k)
      BY <3>1, <3>2 DEF Gains
    <3>4. k \in Nat \ {0}
      BY <1>0
    <3> QED BY <3>3, <3>4, NumberGained DEF r
  <2>6. Moved(Stage, Stage', r, "new", "ring")
    <3>1. \A s \in DOMAIN Stage \ {"new", "ring"} : Stage'[s] = Stage[s]
      BY <1>3, <1>5, StageFacts
    <3> QED BY <1>4, <2>5, <3>1, StageFacts DEF Moved
  <2>7. OneEach'
    <3>1. \A u \in Tables : \A d \in CPUs : NoRepeats(ring'[u][d])
      <4> SUFFICES ASSUME NEW u \in Tables, NEW d \in CPUs PROVE NoRepeats(ring'[u][d])
        OBVIOUS
      <4>1. CASE u = t /\ d = c
        BY <2>3, <2>4, <4>1
      <4>2. CASE ~(u = t /\ d = c)
        BY <2>3, <4>2 DEF OneEach
      <4> QED BY <4>1, <4>2
    <3> QED BY <1>1, <3>1 DEF OneEach
  <2> QED BY <1>c, <1>5, <2>6, <2>7 DEF k, r
<1>6. CASE lost' = [lost EXCEPT ![t] = @ \cup {k}] /\ ring' = ring
  <2> HIDE DEF k
  <2>1. Numbered(lost') = Numbered(lost) \cup {Event(t, k)}
    <3>1. Gains(lost, lost', t, k)
      BY <1>0, <1>6 DEF Gains
    <3>2. k \in Nat \ {0}
      BY <1>0
    <3> QED BY <3>1, <3>2, NumberGained
  <2>2. UNCHANGED RingNos
    BY <1>6 DEF RingNos
  <2> HIDE DEF r
  <2>3. Moved(Stage, Stage', r, "new", "lost")
    <3>1. \A s \in DOMAIN Stage \ {"new", "lost"} : Stage'[s] = Stage[s]
      BY <1>3, <2>2, StageFacts
    <3> QED BY <1>4, <2>1, <3>1, StageFacts DEF Moved, r
  <2>4. OneEach'
    BY <1>1, <1>6 DEF OneEach
  <2> QED BY <1>c, <1>6, <2>3, <2>4 DEF k, r
<1> QED BY <1>2, <1>5, <1>6

(* The callback gets the first event of a ring.                            *)
ReadsFrom(t, c) ==
    /\ RingGives(t, c)
    /\ hand' = [hand EXCEPT ![t] = Head(ring[t][c])]
    /\ poll[t] = "drain" /\ perf' = perf

(* That is what a read does.                                               *)
LEMMA PollReads ==
    ASSUME NEW t \in Tables, PollRead(t) PROVE \E c \in CPUs : ReadsFrom(t, c)
BY DEF PollRead, ReadsFrom, RingGives

(* The poll goroutine takes an event off the ring and sends it on.         *)
LEMMA OncePoll ==
    ASSUME OnceInv, NEW t \in Tables, PollStep(t)
    PROVE  /\ OneEach'
           /\ \/ (PollReaders(t) \/ PollReturn(t)) /\ Stage' = Stage
              \/ /\ PollRead(t)
                 /\ \E c \in CPUs :
                      /\ ReadsFrom(t, c)
                      /\ Moved(Stage, Stage', Event(t, Head(ring[t][c])), "ring", "hand")
              \/ PollDeliver(t) /\ Moved(Stage, Stage', Event(t, hand[t]), "hand", "perf")
<1> USE DEF OnceInv, BaseInv
<1>0. /\ perf \in [Tables -> Seq(Nat)] /\ hand \in [Tables -> Nat]
      /\ perf[t] \in Seq(Nat) /\ hand[t] \in Nat /\ NoRepeats(perf[t])
      /\ (hand[t] # 0 <=> poll[t] = "deliver")
  BY DEF TypeOK, KernelTypeOK, OneEach, HeldInv
<1>1. /\ UNCHANGED <<raisedOn, lost, wev, dropped, out, lines, content, epc, ebuf>>
      /\ UNCHANGED <<NewNos, WorkerNos, Queued, Writing, Written, dropped>>
  <2>1. UNCHANGED <<raisedOn, lost, wev, dropped, out, lines, content, epc, ebuf>>
    BY DEF PollStep, PollReaders, PollRead, PollDeliver, PollReturn, kernelVars, workVars, egressVars
  <2> QED BY <2>1 DEF NewNos, WorkerNos, Queued, Writing, Written, Emitted
<1>2. CASE PollReaders(t) \/ PollReturn(t)
  <2>1. UNCHANGED <<ring, hand, perf>>
    BY <1>2 DEF PollReaders, PollReturn, kernelVars
  <2> QED BY <1>1, <1>2, <2>1, OnceFrame
<1>3. CASE PollRead(t)
  <2>c. PICK c \in CPUs : ReadsFrom(t, c)
    BY <1>3, PollReads
  <2> DEFINE k == Head(ring[t][c])  r == Event(t, k)
  <2>1. /\ ring[t][c] # <<>> /\ ring[t][c] \in Seq(Nat) /\ poll[t] = "drain"
        /\ hand' = [hand EXCEPT ![t] = k] /\ perf' = perf
        /\ ring'[t][c] = Tail(ring[t][c])
        /\ \A d \in CPUs \ {c} : ring'[t][d] = ring[t][d]
        /\ \A u \in Tables \ {t} : ring'[u] = ring[u]
    BY <2>c, RingFacts DEF ReadsFrom, RingGives
  <2>2. /\ k \in Contents(ring[t][c]) /\ Contents(ring[t][c]) = Contents(Tail(ring[t][c])) \cup {k}
        /\ NoRepeats(Tail(ring[t][c])) /\ k \notin Contents(Tail(ring[t][c]))
    BY <2>1, TailFacts DEF OneEach
  <2>3. k \in Nat \ {0} /\ \A d \in CPUs : k \in Contents(ring[t][d]) => d = c
    <3>1. k \in 1..Emitted(t)
      BY <2>2 DEF HeldInv, RingsNumbered
    <3>2. \A d \in CPUs : k \in Contents(ring[t][d]) => raisedOn[t][k] = d
      BY DEF HeldInv, RingsNumbered
    <3>3. k \in Nat \ {0}
      BY <3>1
    <3> HIDE DEF k
    <3> QED BY <2>2, <3>2, <3>3
  <2> HIDE DEF k
  <2>4. /\ \A u \in Tables \ {t} : hand'[u] = hand[u]
        /\ hand'[t] = k /\ hand[t] = 0
    BY <1>0, <2>1
  <2>5. r \in Numbered(RingNos) /\ Numbered(RingNos') = Numbered(RingNos) \ {r}
    <3>1. k \in RingNos[t] /\ \A i : i \in RingNos'[t] <=> i \in RingNos[t] /\ i # k
      <4>1. \A i : i \in Contents(ring'[t][c]) <=> i \in Contents(ring[t][c]) /\ i # k
        BY <2>1, <2>2
      <4>2. \A d \in CPUs \ {c} : \A i : i \in Contents(ring'[t][d]) <=> i \in Contents(ring[t][d]) /\ i # k
        BY <2>1, <2>3
      <4> QED BY <2>2, <4>1, <4>2, RingNosFacts
    <3>2. \A u \in Tables \ {t} : RingNos'[u] = RingNos[u]
      BY <2>1 DEF RingNos
    <3>3. Loses(RingNos, RingNos', t, k)
      BY <3>1, <3>2 DEF Loses
    <3>4. k \in Nat \ {0}
      BY <2>3
    <3> HIDE DEF r
    <3> QED BY <3>3, <3>4, NumberLost DEF r
  <2>6. Numbered(HandNos') = Numbered(HandNos) \cup {r}
    <3>1. Gains(HandNos, HandNos', t, k)
      BY <2>4 DEF HandNos, Gains
    <3> QED BY <2>3, <3>1, NumberGained
  <2> HIDE DEF r
  <2>7. Moved(Stage, Stage', r, "ring", "hand")
    <3>1. UNCHANGED <<lost, PerfNos>>
      BY <1>1, <2>1 DEF PerfNos
    <3>2. \A s \in DOMAIN Stage \ {"ring", "hand"} : Stage'[s] = Stage[s]
      BY <1>1, <3>1, StageFacts
    <3> QED BY <2>5, <2>6, <3>2, StageFacts DEF Moved
  <2>8. OneEach'
    <3>1. \A u \in Tables : \A d \in CPUs : NoRepeats(ring'[u][d])
      <4> SUFFICES ASSUME NEW u \in Tables, NEW d \in CPUs PROVE NoRepeats(ring'[u][d])
        OBVIOUS
      <4>1. CASE u = t /\ d = c
        BY <2>1, <2>2, <4>1
      <4>2. CASE ~(u = t /\ d = c)
        BY <2>1, <4>2 DEF OneEach
      <4> QED BY <4>1, <4>2
    <3> QED BY <1>1, <2>1, <3>1 DEF OneEach
  <2> QED BY <1>3, <2>c, <2>7, <2>8 DEF k, r
<1>4. CASE PollDeliver(t)
  <2> DEFINE k == hand[t]  r == Event(t, k)
  <2>1. /\ poll[t] = "deliver" /\ hand' = [hand EXCEPT ![t] = 0]
        /\ perf' = [perf EXCEPT ![t] = Append(@, k)] /\ UNCHANGED ring
    BY <1>4 DEF PollDeliver, kernelVars
  <2>2. k \in Nat \ {0}
    BY <1>0, <2>1
  <2>3. /\ \A u \in Tables \ {t} : perf'[u] = perf[u] /\ hand'[u] = hand[u]
        /\ perf'[t] = Append(perf[t], k) /\ hand'[t] = 0 /\ hand[t] = k
    BY <1>0, <2>1
  <2> HIDE DEF k
  <2>4. r \in Numbered(HandNos) /\ Numbered(HandNos') = Numbered(HandNos) \ {r}
    <3>1. Loses(HandNos, HandNos', t, k)
      BY <2>3 DEF Loses, HandNos
    <3> QED BY <2>2, <3>1, NumberLost
  <2>5. k \notin Contents(perf[t])
    <3>1. r \notin Numbered(PerfNos)
      BY <2>4, StageFacts, Disjoint
    <3> QED BY <2>2, <3>1, EventFacts DEF Numbered, PerfNos
  <2>6. Contents(perf'[t]) = Contents(perf[t]) \cup {k} /\ NoRepeats(perf'[t])
    BY <1>0, <2>2, <2>3, <2>5, AppendContents
  <2>7. Numbered(PerfNos') = Numbered(PerfNos) \cup {r}
    <3>1. Gains(PerfNos, PerfNos', t, k)
      BY <2>3, <2>6 DEF PerfNos, Gains
    <3> QED BY <2>2, <3>1, NumberGained
  <2> HIDE DEF r
  <2>8. Moved(Stage, Stage', r, "hand", "perf")
    <3>1. UNCHANGED <<lost, RingNos>>
      BY <1>1, <2>1 DEF RingNos
    <3>2. \A s \in DOMAIN Stage \ {"hand", "perf"} : Stage'[s] = Stage[s]
      BY <1>1, <3>1, StageFacts
    <3> QED BY <2>4, <2>7, <3>2, StageFacts DEF Moved
  <2>9. OneEach'
    BY <1>1, <2>1, <2>3, <2>6 DEF OneEach
  <2> QED BY <1>4, <2>8, <2>9 DEF k, r
<1> QED BY <1>2, <1>3, <1>4 DEF PollStep

(* A worker takes an event along, and puts it on the channel of its egress *)
(* or drops it.                                                            *)
LEMMA OnceWorker ==
    ASSUME OnceInv, NEW w \in Workers, WorkerStep(w)
    PROVE  /\ OneEach'
           /\ \/ /\ WorkerDone(w) \/ WorkerGet(w) \/ WorkerDecode(w)
                 /\ \A e \in Egresses : \A i \in DOMAIN out[e] :
                       content'[out[e][i]] = content[out[e][i]]
                 /\ Stage' = Stage
              \/ /\ WorkerRecv(w)
                 /\ Moved(Stage, Stage', Event(TableOf(w), Head(perf[TableOf(w)])), "perf", "worker")
              \/ /\ WorkerSend(w) /\ content' = content
                 /\ out' = [out EXCEPT ![EgressOf(TableOf(w))] = Append(@, wbuf[w])]
                 /\ Moved(Stage, Stage', Event(TableOf(w), wev[w]), "worker", "out")
              \/ /\ WorkerSend(w) /\ out' = out
                 /\ \A e \in Egresses : \A i \in DOMAIN out[e] :
                       content'[out[e][i]] = content[out[e][i]]
                 /\ Moved(Stage, Stage', Event(TableOf(w), wev[w]), "worker", "dropped")
<1> USE DEF OnceInv, BaseInv
<1>t. PICK t \in Tables : t = TableOf(w)
  BY TableFacts
<1>0. /\ t \in Tables /\ perf \in [Tables -> Seq(Nat)] /\ perf[t] \in Seq(Nat)
      /\ wev \in [Workers -> Nat] /\ wbuf \in [Workers -> Buffers \cup {Nil}]
      /\ wpc \in [Workers -> {"off", "select", "get", "decode", "send", "done"}]
      /\ content \in [Buffers -> Events \cup {Nil}]
      /\ \A v \in Workers : wpc[v] \in {"decode", "send"} <=> wbuf[v] # Nil
      /\ wev[w] # 0 <=> wpc[w] \in {"get", "decode", "send"}
      /\ NoRepeats(perf[t]) /\ 0 \notin Contents(perf[t])
      /\ \A u, v \in Workers : TableOf(u) = TableOf(v) /\ wev[u] = wev[v] /\ wev[u] # 0 => u = v
  BY <1>t DEF TypeOK, KernelTypeOK, WorkerTypeOK, OneEach, HeldInv
<1>1. UNCHANGED <<raisedOn, lost, ring, hand, lines, epc, ebuf>>
      /\ UNCHANGED <<NewNos, RingNos, HandNos, Written>>
  <2>1. UNCHANGED <<raisedOn, lost, ring, hand, lines, epc, ebuf>>
    BY DEF WorkerStep, WorkerRecv, WorkerDone, WorkerGet, WorkerDecode, WorkerSend, kernelVars,
           pollVars, egressVars
  <2> QED BY <2>1 DEF NewNos, RingNos, HandNos, Written, Emitted
<1>2. \A e \in Egresses : epc[e] = "write" => ebuf[e] # Nil
  BY DEF TypeOK, EgressTypeOK
<1> DEFINE Has(f, u, i) == \E v \in Workers : TableOf(v) = u /\ f[v] = i
<1>w. /\ \A u \in Tables : \A i : i \in WorkerNos[u] <=> Has(wev, u, i)
      /\ \A u \in Tables : \A i : i \in WorkerNos'[u] <=> Has(wev', u, i)
  BY DEF WorkerNos
<1>3. CASE WorkerDone(w)
  <2>1. UNCHANGED <<perf, wev, dropped, out, content>>
    BY <1>3 DEF WorkerDone
  <2> QED BY <1>1, <1>3, <2>1, OnceFrame
<1>4. CASE WorkerGet(w)
  <2>1. PICK b \in Buffers : /\ b \in pool \/ ~InUse(b)
                             /\ content' = [content EXCEPT ![b] = Nil]
    BY <1>4 DEF WorkerGet
  <2>2. /\ \A e \in Egresses : \A i \in DOMAIN out[e] :
              content'[out[e][i]] = content[out[e][i]]
        /\ \A e \in Egresses : ebuf[e] # Nil => content'[ebuf[e]] = content[ebuf[e]]
    BY <1>0, <2>1, RoutedOwn
  <2>3. UNCHANGED <<perf, wev, dropped, out>>
    BY <1>4 DEF WorkerGet
  <2> QED BY <1>1, <1>2, <1>4, <2>2, <2>3, OnceFrame
<1>5. CASE WorkerDecode(w)
  <2>1. /\ UNCHANGED <<perf, wev, dropped, out>> /\ wbuf[w] \in Buffers
        /\ content' = [content EXCEPT ![wbuf[w]] = [table |-> t, seq |-> wev[w]]]
    BY <1>0, <1>5, <1>t DEF WorkerDecode
  <2>2. \A c \in Buffers : c # wbuf[w] => content'[c] = content[c]
    BY <1>0, <2>1
  <2>3. /\ \A e \in Egresses : \A i \in DOMAIN out[e] :
              content'[out[e][i]] = content[out[e][i]]
        /\ \A e \in Egresses : ebuf[e] # Nil => content'[ebuf[e]] = content[ebuf[e]]
    BY <2>1, <2>2, RoutedOwn
  <2> QED BY <1>1, <1>2, <1>5, <2>1, <2>3, OnceFrame
<1>6. CASE WorkerRecv(w)
  <2> DEFINE k == Head(perf[t])  r == Event(t, k)
  <2>1. /\ perf[t] # <<>> /\ wpc[w] = "select" /\ wev' = [wev EXCEPT ![w] = k]
        /\ perf' = [perf EXCEPT ![t] = Tail(@)] /\ UNCHANGED <<dropped, out, content>>
    BY <1>6, <1>t DEF WorkerRecv
  <2>2. /\ k \in Contents(perf[t]) /\ Contents(perf[t]) = Contents(Tail(perf[t])) \cup {k}
        /\ NoRepeats(Tail(perf[t])) /\ k \notin Contents(Tail(perf[t]))
    BY <1>0, <2>1, TailFacts
  <2>3. k \in Nat \ {0}
    BY <1>0, <2>1, <2>2, QueueFacts
  <2> HIDE DEF k
  <2>4. /\ \A u \in Tables \ {t} : perf'[u] = perf[u]
        /\ perf'[t] = Tail(perf[t])
        /\ \A v \in Workers \ {w} : wev'[v] = wev[v]
        /\ wev'[w] = k /\ wev[w] = 0
    BY <1>0, <2>1
  <2>5. r \in Numbered(PerfNos) /\ Numbered(PerfNos') = Numbered(PerfNos) \ {r}
    <3>1. Loses(PerfNos, PerfNos', t, k)
      BY <1>0, <2>2, <2>4 DEF Loses, PerfNos
    <3> QED BY <2>3, <3>1, NumberLost
  <2>6. k \notin WorkerNos[t]
    <3>1. r \notin Numbered(WorkerNos)
      BY <2>5, StageFacts, Disjoint
    <3> QED BY <1>0, <2>3, <3>1, EventFacts DEF Numbered
  <2>7. \A v \in Workers \ {w} : TableOf(v) = t => wev[v] # k
    BY <1>0, <2>6 DEF WorkerNos
  <2>8. Numbered(WorkerNos') = Numbered(WorkerNos) \cup {r}
    <3>1. ASSUME NEW u \in Tables \ {t} PROVE WorkerNos'[u] = WorkerNos[u]
      <4>1. \A v \in {x \in Workers : TableOf(x) = u} : wev'[v] = wev[v]
        BY <1>t, <2>4
      <4> QED BY <4>1 DEF WorkerNos
    <3>2. k \in WorkerNos'[t]
      BY <1>0, <1>t, <1>w, <2>4
    <3>3. ASSUME NEW i \in Nat \ {0}
          PROVE  i \in WorkerNos'[t] <=> i \in WorkerNos[t] \/ i = k
      <4>1. Has(wev', t, i) <=> Has(wev, t, i) \/ i = k
        BY <1>t, <2>4
      <4> QED BY <1>0, <1>w, <4>1
    <3>4. Gains(WorkerNos, WorkerNos', t, k)
      BY <3>1, <3>2, <3>3 DEF Gains
    <3> QED BY <2>3, <3>4, NumberGained
  <2>9. UNCHANGED <<Queued, Writing, dropped, lost>>
    BY <1>1, <2>1 DEF Queued, Writing
  <2> HIDE DEF r
  <2>10. Moved(Stage, Stage', r, "perf", "worker")
    <3>1. \A s \in DOMAIN Stage \ {"perf", "worker"} : Stage'[s] = Stage[s]
      BY <1>1, <2>9, StageFacts
    <3> QED BY <2>5, <2>8, <3>1, StageFacts DEF Moved
  <2>11. \A u, v \in Workers : TableOf(u) = TableOf(v) /\ wev'[u] = wev'[v] /\ wev'[u] # 0 => u = v
    BY <1>0, <1>t, <2>4, <2>7
  <2>12. \A u \in Tables : NoRepeats(perf'[u])
    BY <2>2, <2>4 DEF OneEach
  <2>13. OneEach'
    BY <1>1, <2>1, <2>11, <2>12 DEF OneEach
  <2> QED BY <1>6, <1>t, <2>10, <2>13 DEF k, r
<1>7. CASE WorkerSend(w)
  <2> DEFINE b == wbuf[w]  k == wev[w]  r == Event(t, k)  e == EgressOf(t)
  <2>1. /\ wpc[w] = "send" /\ wev' = [wev EXCEPT ![w] = 0] /\ UNCHANGED perf
        /\ b \in Buffers /\ k \in Nat \ {0} /\ content[b] = r /\ e \in Egresses
    BY <1>0, <1>7, <1>t, TableFacts DEF WorkerSend, WorkerReleases, HeldInv
  <2>2. \/ /\ out' = [out EXCEPT ![e] = Append(@, b)] /\ UNCHANGED <<dropped, content>>
        \/ /\ UNCHANGED out /\ dropped' = dropped \cup {content[b]}
           /\ content' = [content EXCEPT ![b] = Nil]
    BY <1>7, <1>t DEF WorkerSend
  <2>3. r \in Events /\ r.table = t
    BY <1>0, <2>1, EventFacts
  <2>4. \A v \in Workers \ {w} : wev'[v] = wev[v]
    BY <1>0, <2>1
  <2>5. wev'[w] = 0
    BY <1>0, <2>1
  <2>6. r \in Numbered(WorkerNos) /\ Numbered(WorkerNos') = Numbered(WorkerNos) \ {r}
    <3>1. ASSUME NEW u \in Tables \ {t} PROVE WorkerNos'[u] = WorkerNos[u]
      <4>1. \A v \in {x \in Workers : TableOf(x) = u} : wev'[v] = wev[v]
        BY <1>t, <2>4
      <4> QED BY <4>1 DEF WorkerNos
    <3>2. k \in WorkerNos[t]
      BY <1>0, <1>t, <1>w
    <3>3. ASSUME NEW i \in Nat \ {0}
          PROVE  i \in WorkerNos'[t] <=> i \in WorkerNos[t] /\ i # k
      <4>1. Has(wev', t, i) <=> Has(wev, t, i) /\ i # k
        BY <1>0, <1>t, <2>1, <2>4, <2>5
      <4> QED BY <1>0, <1>w, <4>1
    <3>4. k \in Nat \ {0}
      BY <2>1
    <3> HIDE DEF k, r
    <3>5. Event(t, k) \in Numbered(WorkerNos)
          /\ Numbered(WorkerNos') = Numbered(WorkerNos) \ {Event(t, k)}
      <4>1. \A u \in Tables \ {t} : WorkerNos'[u] = WorkerNos[u]
        BY <3>1
      <4>2. \A i \in Nat \ {0} : i \in WorkerNos'[t] <=> i \in WorkerNos[t] /\ i # k
        BY <3>3
      <4>3. Loses(WorkerNos, WorkerNos', t, k)
        BY <3>2, <4>1, <4>2 DEF Loses
      <4> QED BY <3>4, <4>3, NumberLost
    <3> QED BY <3>5 DEF r, k
  <2>7. \A u, v \in Workers : TableOf(u) = TableOf(v) /\ wev'[u] = wev'[v] /\ wev'[u] # 0 => u = v
    BY <1>0, <2>4, <2>5
  <2>8. UNCHANGED PerfNos
    BY <2>1 DEF PerfNos
  <2>9. CASE out' = [out EXCEPT ![e] = Append(@, b)] /\ UNCHANGED <<dropped, content>>
    <3>1. out \in [Egresses -> Seq(Buffers)] /\ out[e] \in Seq(Buffers)
      BY <2>1 DEF TypeOK, BufferTypeOK
    <3>2. /\ \A f \in Egresses \ {e} : out'[f] = out[f]
          /\ out'[e] = Append(out[e], b)
      BY <2>1, <2>9, <3>1
    <3> DEFINE n == Len(out[e])
    <3>3. /\ n \in Nat /\ DOMAIN out[e] = 1..n /\ DOMAIN out'[e] = 1..(n + 1)
          /\ \A i \in 1..n : out'[e][i] = out[e][i]
          /\ out'[e][n + 1] = b
      BY <2>1, <3>1, <3>2, AppendProperties, LenProperties
    <3> HIDE DEF n, e, r
    <3>12. /\ content[out'[e][n + 1]] = r
           /\ \A i \in 1..(n + 1) : i = n + 1 \/ i \in 1..n
           /\ \A i \in 1..n : i \in 1..(n + 1)
           /\ n + 1 \in 1..(n + 1)
      BY <2>1, <3>3
    <3>4. \A s \in Events : s \in Queued' <=> s \in Queued \/ s = r
      <4> SUFFICES ASSUME NEW s \in Events PROVE s \in Queued' <=> s \in Queued \/ s = r
        OBVIOUS
      <4>1. EgressOf(s.table) \in Egresses /\ EgressOf(r.table) = e
        BY <2>3, EventFacts, TableFacts DEF e
      <4>2. CASE EgressOf(s.table) # e
        BY <2>9, <3>2, <4>1, <4>2 DEF Queued
      <4>3. CASE EgressOf(s.table) = e
        <5>1. s \in Queued' <=> \E i \in 1..(n + 1) : content[out'[e][i]] = s
          BY <2>9, <3>3, <4>3 DEF Queued
        <5>2. s \in Queued <=> \E i \in 1..n : content[out[e][i]] = s
          BY <3>3, <4>3 DEF Queued
        <5>3. (\E i \in 1..(n + 1) : content[out'[e][i]] = s)
                 <=> (\E i \in 1..n : content[out[e][i]] = s) \/ s = r
          BY <3>3, <3>12
        <5> QED BY <5>1, <5>2, <5>3
      <4> QED BY <4>2, <4>3
    <3>5. Queued' = Queued \cup {r}
      BY <2>3, <3>4 DEF Queued
    <3>6. UNCHANGED Writing
      BY <1>1, <2>9 DEF Writing
    <3>7. Moved(Stage, Stage', r, "worker", "out")
      <4>1. \A s \in DOMAIN Stage \ {"worker", "out"} : Stage'[s] = Stage[s]
        BY <1>1, <2>8, <2>9, <3>6, StageFacts
      <4> QED BY <2>6, <3>5, <4>1, StageFacts DEF Moved
    <3>8. r \notin Queued
      BY <2>6, StageFacts, Disjoint
    <3>9. \A i \in 1..n : content[out[e][i]] # r
      BY <2>3, <3>3, <3>8 DEF Queued, e
    <3>10. \A f \in Egresses : \A i, j \in DOMAIN out'[f] :
              content'[out'[f][i]] = content'[out'[f][j]] => i = j
      <4>1. \A i, j \in DOMAIN out'[e] : content[out'[e][i]] = content[out'[e][j]] => i = j
        <5>1. \A i, j \in 1..n : content[out[e][i]] = content[out[e][j]] => i = j
          BY <2>1, <3>3 DEF OneEach
        <5> QED BY <3>3, <3>12, <3>9, <5>1
      <4> QED BY <2>9, <3>2, <4>1 DEF OneEach
    <3>11. OneEach'
      BY <1>1, <2>1, <2>7, <3>10 DEF OneEach
    <3> QED BY <1>7, <1>t, <2>9, <3>7, <3>11 DEF r, e
  <2>10. CASE /\ UNCHANGED out /\ dropped' = dropped \cup {content[b]}
              /\ content' = [content EXCEPT ![b] = Nil]
    <3>1. \A c \in Buffers : c # b => content'[c] = content[c]
      BY <1>0, <2>10
    <3>2. /\ \A f \in Egresses : \A i \in DOMAIN out[f] :
                content'[out[f][i]] = content[out[f][i]]
          /\ \A f \in Egresses : ebuf[f] # Nil => content'[ebuf[f]] = content[ebuf[f]]
      BY <2>1, <3>1, RoutedOwn
    <3>3. \A s \in Events : EgressOf(s.table) \in Egresses
      BY EventFacts, TableFacts
    <3>4. UNCHANGED Queued
      BY <2>10, <3>2, <3>3 DEF Queued
    <3>5. UNCHANGED Writing
      BY <1>1, <1>2, <3>2, <3>3 DEF Writing
    <3> HIDE DEF r
    <3>6. Moved(Stage, Stage', r, "worker", "dropped")
      <4>1. \A s \in DOMAIN Stage \ {"worker", "dropped"} : Stage'[s] = Stage[s]
        BY <1>1, <2>8, <3>4, <3>5, StageFacts
      <4> QED BY <2>1, <2>6, <2>10, <4>1, StageFacts DEF Moved
    <3>7. OneEach'
      BY <1>1, <2>1, <2>7, <2>10, <3>2 DEF OneEach
    <3> QED BY <1>7, <1>t, <2>10, <3>2, <3>6, <3>7 DEF r
  <2> QED BY <2>2, <2>9, <2>10
<1> QED BY <1>3, <1>4, <1>5, <1>6, <1>7 DEF WorkerStep

(* An egress takes an event from its channel and writes it out.            *)
LEMMA OnceEgress ==
    ASSUME OnceInv, NEW e \in Egresses, EgressStep(e)
    PROVE  /\ OneEach'
           /\ \/ (EgressDone(e) \/ EgressPut(e)) /\ Stage' = Stage
              \/ /\ EgressRecv(e)
                 /\ Moved(Stage, Stage', content[Head(out[e])], "out", "egress")
              \/ /\ EgressWrite(e)
                 /\ \A f \in Egresses : \A i \in DOMAIN out[f] :
                       content'[out[f][i]] = content[out[f][i]]
                 /\ Moved(Stage, Stage', content[ebuf[e]], "egress", "line")
<1> USE DEF OnceInv, BaseInv
<1>0. /\ out \in [Egresses -> Seq(Buffers)] /\ ebuf \in [Egresses -> Buffers \cup {Nil}]
      /\ epc \in [Egresses -> {"off", "select", "write", "put", "done"}]
      /\ lines \in [Egresses -> Seq(Lines)] /\ content \in [Buffers -> Events \cup {Nil}]
      /\ \A f \in Egresses : epc[f] \in {"write", "put"} <=> ebuf[f] # Nil
  BY DEF TypeOK, EgressTypeOK, BufferTypeOK, HeldInv
<1>1. UNCHANGED <<raisedOn, lost, ring, hand, perf, wev, dropped>>
      /\ UNCHANGED <<NewNos, RingNos, HandNos, PerfNos, WorkerNos>>
  <2>1. UNCHANGED <<raisedOn, lost, ring, hand, perf, wev, dropped>>
    BY DEF EgressStep, EgressRecv, EgressDone, EgressWrite, EgressPut, kernelVars, pollVars, workVars
  <2> QED BY <2>1 DEF NewNos, RingNos, HandNos, PerfNos, WorkerNos, Emitted
<1>2. \A s \in Events : EgressOf(s.table) \in Egresses
  BY EventFacts, TableFacts
<1>3. CASE EgressDone(e) \/ EgressPut(e)
  <2>1. /\ UNCHANGED <<out, lines, content>> /\ epc[e] # "write"
        /\ \E x \in {"done", "select"} : epc' = [epc EXCEPT ![e] = x]
        /\ \A f \in Egresses \ {e} : ebuf'[f] = ebuf[f]
    BY <1>0, <1>3 DEF EgressDone, EgressPut
  <2>2. \A f \in Egresses : epc'[f] = "write" <=> epc[f] = "write"
    BY <1>0, <2>1
  <2>3. \A f \in Egresses : epc[f] = "write" => content'[ebuf'[f]] = content[ebuf[f]]
    BY <2>1
  <2> QED BY <1>1, <1>3, <2>1, <2>2, <2>3, OnceFrame
<1>4. CASE EgressRecv(e)
  <2> DEFINE b == Head(out[e])  r == content[b]  n == Len(out[e])
  <2>1. /\ epc[e] = "select" /\ out[e] # <<>> /\ ebuf' = [ebuf EXCEPT ![e] = b]
        /\ out' = [out EXCEPT ![e] = Tail(@)] /\ epc' = [epc EXCEPT ![e] = "write"]
        /\ UNCHANGED <<lines, content>>
    BY <1>4 DEF EgressRecv
  <2>2. out[e] \in Seq(Buffers)
    BY <1>0
  <2>3. /\ n \in Nat /\ n >= 1 /\ DOMAIN out[e] = 1..n /\ b = out[e][1] /\ b \in Buffers
        /\ DOMAIN Tail(out[e]) = 1..(n - 1)
        /\ \A i \in 1..(n - 1) : Tail(out[e])[i] = out[e][i + 1]
    BY <2>1, <2>2, QueueFacts
  <2>4. r \in Events /\ EgressOf(r.table) = e
    <3>1. r \in Records /\ EgressOf(r.table) = e
      BY <2>3 DEF RecordsRouted
    <3> QED BY <1>0, <2>3, <3>1, NilAssumption
  <2>5. \A i, j \in 1..n : content[out[e][i]] = content[out[e][j]] => i = j
    BY <2>3 DEF OneEach
  <2> HIDE DEF n
  <2>6. /\ \A f \in Egresses \ {e} : out'[f] = out[f] /\ epc'[f] = epc[f] /\ ebuf'[f] = ebuf[f]
        /\ out'[e] = Tail(out[e]) /\ epc'[e] = "write" /\ ebuf'[e] = b
    BY <1>0, <2>1
  <2>7. /\ r = content[out[e][1]] /\ 1 \in 1..n
        /\ \A i \in 2..n : content[out[e][i]] # r /\ i \in 1..n /\ i - 1 \in 1..(n - 1)
        /\ \A i \in 1..(n - 1) : content[out'[e][i]] = content[out[e][i + 1]] /\ i + 1 \in 2..n
        /\ \A i \in 1..n : i = 1 \/ i \in 2..n
    <3>1. /\ 1 \in 1..n /\ \A i \in 1..n : i = 1 \/ i \in 2..n
          /\ \A i \in 2..n : i # 1 /\ i \in 1..n /\ i - 1 \in 1..(n - 1)
          /\ \A i \in 1..(n - 1) : i + 1 \in 2..n
      BY <2>3
    <3>2. r = content[out[e][1]]
      BY <2>3
    <3>3. \A i \in 2..n : content[out[e][i]] # r
      BY <2>5, <3>1, <3>2
    <3>4. \A i \in 1..(n - 1) : out'[e][i] = out[e][i + 1]
      BY <2>3, <2>6
    <3> QED BY <3>1, <3>2, <3>3, <3>4
  <2> HIDE DEF b, r
  <2>8. \A s \in Events : s \in Queued' <=> s \in Queued /\ s # r
    <3> SUFFICES ASSUME NEW s \in Events PROVE s \in Queued' <=> s \in Queued /\ s # r
      OBVIOUS
    <3>1. CASE EgressOf(s.table) # e
      BY <1>2, <2>1, <2>4, <2>6, <3>1 DEF Queued
    <3>2. CASE EgressOf(s.table) = e
      <4>1. s \in Queued' <=> \E i \in 1..(n - 1) : content[out'[e][i]] = s
        BY <2>1, <2>3, <2>6, <3>2 DEF Queued
      <4>2. s \in Queued <=> \E i \in 1..n : content[out[e][i]] = s
        BY <2>3, <3>2 DEF Queued
      <4>3. (\E i \in 1..(n - 1) : content[out'[e][i]] = s) <=> (\E i \in 2..n : content[out[e][i]] = s)
        <5>1. \A i \in 2..n : (i - 1) + 1 = i
          BY <2>3
        <5> QED BY <2>7, <5>1
      <4>4. (\E i \in 1..n : content[out[e][i]] = s) /\ s # r <=> (\E i \in 2..n : content[out[e][i]] = s)
        BY <2>7
      <4> QED BY <4>1, <4>2, <4>3, <4>4
    <3> QED BY <3>1, <3>2
  <2>9. r \in Queued /\ Queued' = Queued \ {r}
    <3>1. r \in Queued
      BY <2>3, <2>4, <2>7 DEF Queued
    <3> QED BY <2>8, <3>1 DEF Queued
  <2>10. Writing' = Writing \cup {r}
    <3>1. \A s \in Events : s \in Writing' <=> s \in Writing \/ s = r
      <4> SUFFICES ASSUME NEW s \in Events PROVE s \in Writing' <=> s \in Writing \/ s = r
        OBVIOUS
      <4>1. CASE EgressOf(s.table) # e
        BY <1>2, <2>1, <2>4, <2>6, <4>1 DEF Writing
      <4>2. CASE EgressOf(s.table) = e
        <5>1. content'[ebuf'[e]] = r
          BY <2>1, <2>6 DEF r
        <5> QED BY <2>1, <2>6, <4>2, <5>1 DEF Writing
      <4> QED BY <4>1, <4>2
    <3> QED BY <2>4, <3>1 DEF Writing
  <2>11. UNCHANGED Written
    BY <2>1 DEF Written
  <2>12. Moved(Stage, Stage', r, "out", "egress")
    <3>1. \A s \in DOMAIN Stage \ {"out", "egress"} : Stage'[s] = Stage[s]
      BY <1>1, <2>11, StageFacts
    <3> QED BY <2>9, <2>10, <3>1, StageFacts DEF Moved
  <2>13. OneEach'
    <3>1. \A f \in Egresses : \A i, j \in DOMAIN out'[f] :
             content'[out'[f][i]] = content'[out'[f][j]] => i = j
      <4>1. \A i, j \in 1..(n - 1) : content[out'[e][i]] = content[out'[e][j]] => i = j
        <5> SUFFICES ASSUME NEW i \in 1..(n - 1), NEW j \in 1..(n - 1),
                            content[out'[e][i]] = content[out'[e][j]]
                     PROVE  i = j
          OBVIOUS
        <5>1. i + 1 = j + 1
          BY <2>5, <2>7
        <5> QED BY <2>3, <5>1
      <4> QED BY <2>1, <2>3, <2>6, <4>1 DEF OneEach
    <3> QED BY <1>1, <2>1, <3>1 DEF OneEach
  <2> QED BY <1>4, <2>12, <2>13 DEF r, b
<1>5. CASE EgressWrite(e)
  <2> DEFINE b == ebuf[e]  r == content[b]
  <2> DEFINE line == [rec |-> r, columns |-> ColumnsOf(e, r)]
  <2>1. /\ epc[e] = "write" /\ lines' = [lines EXCEPT ![e] = Append(@, line)]
        /\ content' = content \/ content' = [content EXCEPT ![b] = Nil]
        /\ epc' = [epc EXCEPT ![e] = "put"] /\ UNCHANGED <<out, ebuf>>
    BY <1>5 DEF EgressWrite
  <2>2. b \in Buffers /\ b # Nil
    BY <1>0, <2>1, NilAssumption
  <2>3. r \in Events /\ EgressOf(r.table) = e
    <3>1. r \in Records /\ EgressOf(r.table) = e
      BY <2>1 DEF RecordsRouted
    <3> QED BY <1>0, <2>2, <3>1, NilAssumption
  <2>4. line.rec = r
    OBVIOUS
  <2>5. /\ \A f \in Egresses \ {e} : lines'[f] = lines[f] /\ epc'[f] = epc[f]
        /\ lines'[e] = Append(lines[e], line) /\ epc'[e] = "put" /\ lines[e] \in Seq(Lines)
    BY <1>0, <2>1
  <2> DEFINE n == Len(lines[e])
  <2> HIDE DEF line
  <2>6. /\ n \in Nat /\ DOMAIN lines[e] = 1..n /\ DOMAIN lines'[e] = 1..(n + 1)
        /\ \A i \in 1..n : lines'[e][i] = lines[e][i]
        /\ lines'[e][n + 1] = line
    BY <2>5, AppendProperties, LenProperties
  <2> HIDE DEF n, r, b
  <2>7. \A c \in Buffers : c # b => content'[c] = content[c]
    BY <1>0, <2>1
  <2>8. \A f \in Egresses : \A i \in DOMAIN out[f] : content'[out[f][i]] = content[out[f][i]]
    <3>1. \A f \in Egresses : \A i \in DOMAIN out[f] : out[f][i] \in Buffers
      BY <1>0, ElementOfSeq, LenProperties
    <3>2. \A f \in Egresses : \A i \in DOMAIN out[f] : out[f][i] # b
      BY DEF BufferExclusive, QueuesExclusive, b
    <3> QED BY <2>7, <3>1, <3>2
  <2>9. \A f \in Egresses \ {e} : epc[f] = "write" => content'[ebuf[f]] = content[ebuf[f]]
    <3>1. \A f \in Egresses \ {e} : epc[f] = "write" => ebuf[f] # b /\ ebuf[f] \in Buffers
      BY <1>0, <2>2 DEF BufferExclusive, EgressesExclusive, b
    <3> QED BY <2>7, <3>1
  <2>10. UNCHANGED Queued
    BY <1>2, <2>1, <2>8 DEF Queued
  <2>11. r \in Writing /\ Writing' = Writing \ {r}
    <3>1. \A s \in Events : s \in Writing' <=> s \in Writing /\ s # r
      <4> SUFFICES ASSUME NEW s \in Events PROVE s \in Writing' <=> s \in Writing /\ s # r
        OBVIOUS
      <4>1. CASE EgressOf(s.table) # e
        BY <1>2, <2>1, <2>3, <2>5, <2>9, <4>1 DEF Writing
      <4>2. CASE EgressOf(s.table) = e
        <5>1. s \in Writing => s = r
          BY <4>2 DEF Writing, r, b
        <5> QED BY <2>5, <4>2, <5>1 DEF Writing
      <4> QED BY <4>1, <4>2
    <3>2. r \in Writing
      BY <2>1, <2>3 DEF Writing, r, b
    <3> QED BY <3>1, <3>2 DEF Writing
  <2>12. /\ lines'[e][n + 1].rec = r
         /\ \A i \in 1..(n + 1) : i = n + 1 \/ i \in 1..n
         /\ \A i \in 1..n : i \in 1..(n + 1)
         /\ n + 1 \in 1..(n + 1)
    BY <2>4, <2>6
  <2>13. Written' = Written \cup {r}
    <3>1. \A s \in Events : s \in Written' <=> s \in Written \/ s = r
      <4> SUFFICES ASSUME NEW s \in Events PROVE s \in Written' <=> s \in Written \/ s = r
        OBVIOUS
      <4>1. CASE EgressOf(s.table) # e
        BY <1>2, <2>3, <2>5, <4>1 DEF Written
      <4>2. CASE EgressOf(s.table) = e
        <5>1. s \in Written' <=> \E i \in 1..(n + 1) : lines'[e][i].rec = s
          BY <2>6, <4>2 DEF Written
        <5>2. s \in Written <=> \E i \in 1..n : lines[e][i].rec = s
          BY <2>6, <4>2 DEF Written
        <5> QED BY <2>6, <2>12, <5>1, <5>2
      <4> QED BY <4>1, <4>2
    <3> QED BY <2>3, <3>1 DEF Written
  <2>14. Moved(Stage, Stage', r, "egress", "line")
    <3>1. \A s \in DOMAIN Stage \ {"egress", "line"} : Stage'[s] = Stage[s]
      BY <1>1, <2>10, StageFacts
    <3> QED BY <2>11, <2>13, <3>1, StageFacts DEF Moved
  <2>15. OneEach'
    <3>1. r \notin Written
      BY <2>11, StageFacts, Disjoint
    <3>2. \A i \in 1..n : lines[e][i].rec # r
      BY <2>3, <2>6, <3>1 DEF Written
    <3>3. \A i, j \in 1..n : lines[e][i].rec = lines[e][j].rec => i = j
      BY <2>6 DEF OneEach
    <3>4. \A i, j \in 1..(n + 1) : lines'[e][i].rec = lines'[e][j].rec => i = j
      BY <2>6, <2>12, <3>2, <3>3
    <3>5. \A f \in Egresses : \A i, j \in DOMAIN lines'[f] :
             lines'[f][i].rec = lines'[f][j].rec => i = j
      <4>1. \A f \in Egresses \ {e} : \A i, j \in DOMAIN lines[f] :
               lines[f][i].rec = lines[f][j].rec => i = j
        BY DEF OneEach
      <4> QED BY <2>5, <2>6, <3>4, <4>1
    <3>6. \A f \in Egresses : \A i, j \in DOMAIN out'[f] :
             content'[out'[f][i]] = content'[out'[f][j]] => i = j
      BY <2>1, <2>8 DEF OneEach
    <3> QED BY <1>1, <3>5, <3>6 DEF OneEach
  <2> QED BY <1>5, <2>8, <2>14, <2>15 DEF r, b
<1> QED BY <1>3, <1>4, <1>5 DEF EgressStep

(* Every step keeps each event in one place.                               *)
LEMMA OnceStep ==
    ASSUME OnceInv, [Next]_vars, TypeOK', BufferExclusive' PROVE OnceInv'
<1>1. OneEach' /\ IsApart(Stage') /\ Covers(Stage')
  <2> USE DEF OnceInv
  <2>1. CASE UNCHANGED vars
    <3>1. UNCHANGED <<raisedOn, lost, ring, hand, perf, wev, dropped, out, lines, content, epc, ebuf>>
      BY <2>1 DEF vars, kernelVars, pollVars, workVars, egressVars
    <3> QED BY <3>1, OnceFrame
  <2>2. CASE MainStep \/ StartFails \/ Interrupt
    BY <2>2, OnceMain
  <2>3. ASSUME NEW t \in Tables, KernelEvent(t)
        PROVE  OneEach' /\ IsApart(Stage') /\ Covers(Stage')
    BY <2>3, OnceKernel, Move
  <2>4. ASSUME NEW t \in Tables, PollStep(t)
        PROVE  OneEach' /\ IsApart(Stage') /\ Covers(Stage')
    BY <2>4, OncePoll, Move
  <2>5. ASSUME NEW w \in Workers, WorkerStep(w)
        PROVE  OneEach' /\ IsApart(Stage') /\ Covers(Stage')
    BY <2>5, OnceWorker, Move
  <2>6. ASSUME NEW e \in Egresses, EgressStep(e)
        PROVE  OneEach' /\ IsApart(Stage') /\ Covers(Stage')
    BY <2>6, OnceEgress, Move
  <2> QED BY <2>1, <2>2, <2>3, <2>4, <2>5, <2>6 DEF Next
<1> QED BY <1>1, BaseStep DEF OnceInv

(* The places of event k of table t, by kind.                              *)
PlacesIn(t, k) ==
    LET rec == Event(t, k) IN
    [lost    |-> {<<"lost", i>> : i \in lost[t] \cap {k}},
     ring    |-> UNION {{<<"ring", c, i>> :
                           i \in {j \in DOMAIN ring[t][c] : ring[t][c][j] = k}}
                         : c \in CPUs},
     hand    |-> {<<"hand", i>> : i \in {k} \cap {hand[t]}},
     perf    |-> {<<"perf", i>> : i \in {j \in DOMAIN perf[t] : perf[t][j] = k}},
     worker  |-> {<<"worker", w>> : w \in {v \in Workers : TableOf(v) = t /\ wev[v] = k}},
     dropped |-> {<<"dropped", r>> : r \in dropped \cap {rec}},
     out     |-> UNION {{<<"out", e, i>> :
                           i \in {j \in DOMAIN out[e] : content[out[e][j]] = rec}}
                         : e \in Egresses},
     egress  |-> {<<"egress", e>> :
                    e \in {f \in Egresses : epc[f] = "write" /\ content[ebuf[f]] = rec}},
     line    |-> UNION {{<<"line", e, i>> :
                           i \in {j \in DOMAIN lines[e] : lines[e][j].rec = rec}}
                         : e \in Egresses}]

(* They are its places.                                                    *)
LEMMA PlacesByKind ==
    ASSUME NEW t, NEW k
    PROVE  /\ DOMAIN PlacesIn(t, k) = {"lost", "ring", "hand", "perf", "worker", "dropped", "out",
                                       "egress", "line"}
           /\ \A x : x \in Places(t, k) <=>
                        \E s \in DOMAIN PlacesIn(t, k) : x \in PlacesIn(t, k)[s]
<1>1. DOMAIN PlacesIn(t, k) = {"lost", "ring", "hand", "perf", "worker", "dropped", "out",
                               "egress", "line"}
  BY DEF PlacesIn
<1> DEFINE P == PlacesIn(t, k)
<1>2. Places(t, k) = P["lost"] \cup P["ring"] \cup P["hand"] \cup P["perf"] \cup P["worker"]
                       \cup P["dropped"] \cup P["out"] \cup P["egress"] \cup P["line"]
  BY DEF Places, PlacesIn, Event
<1> HIDE DEF P
<1>3. \A x : x \in Places(t, k) <=>
         \E s \in {"lost", "ring", "hand", "perf", "worker", "dropped", "out", "egress", "line"} :
            x \in P[s]
  BY <1>2
<1> QED BY <1>1, <1>3 DEF P

(* A part that holds an event has it in one place, any other in none.      *)
LEMMA FoundOnce ==
    ASSUME OnceInv, NEW t \in Tables, NEW k \in Nat \ {0}, NEW s \in DOMAIN Stage \ {"new"}
    PROVE  /\ Event(t, k) \in Stage[s] => \E d : PlacesIn(t, k)[s] = {d}
           /\ Event(t, k) \notin Stage[s] => PlacesIn(t, k)[s] = {}
<1> USE DEF OnceInv, BaseInv
<1> DEFINE r == Event(t, k)  e == EgressOf(t)
<1>0. /\ r \in Events /\ r.table = t /\ r.seq = k /\ e \in Egresses
      /\ EgressOf(r.table) = e
  BY EventFacts, TableFacts
<1>1. CASE s = "lost"
  <2>1. r \in Stage[s] <=> k \in lost[t]
    BY <1>0, <1>1, StageFacts DEF Numbered
  <2>2. PlacesIn(t, k)[s] = {<<"lost", i>> : i \in lost[t] \cap {k}}
    BY <1>1 DEF PlacesIn
  <2>3. k \in lost[t] => PlacesIn(t, k)[s] = {<<"lost", k>>}
    BY <2>2
  <2>4. k \notin lost[t] => PlacesIn(t, k)[s] = {}
    BY <2>2
  <2> QED BY <2>1, <2>3, <2>4
<1>2. CASE s = "ring"
  <2> DEFINE D(c) == {j \in DOMAIN ring[t][c] : ring[t][c][j] = k}
  <2>1. \A c : D(c) # {} <=> k \in Contents(ring[t][c])
    BY DEF Contents
  <2>2. r \in Stage[s] <=> \E c \in CPUs : D(c) # {}
    <3>1. r \in Stage[s] <=> k \in RingNos[t]
      BY <1>0, <1>2, StageFacts DEF Numbered
    <3> QED BY <2>1, <3>1, RingNosFacts
  <2>3. \A c \in CPUs : \A i, j \in D(c) : i = j
    BY DEF OneEach, NoRepeats
  <2>4. \A c, d \in CPUs : D(c) # {} /\ D(d) # {} => c = d
    BY <2>1 DEF HeldInv, RingsNumbered
  <2>5. PlacesIn(t, k)[s] = UNION {{<<"ring", c, i>> : i \in D(c)} : c \in CPUs}
    BY <1>2 DEF PlacesIn
  <2> HIDE DEF D, r
  <2>6. (\A c \in CPUs : D(c) = {}) => PlacesIn(t, k)[s] = {}
    BY <2>5
  <2>7. ASSUME NEW c \in CPUs, D(c) # {} PROVE \E d : PlacesIn(t, k)[s] = {d}
    <3>1. PICK j : D(c) = {j}
      BY <2>3, <2>7
    <3>2. \A d \in CPUs : d # c => D(d) = {}
      BY <2>4, <2>7
    <3>3. PlacesIn(t, k)[s] = {<<"ring", c, j>>}
      BY <2>5, <3>1, <3>2
    <3> QED BY <3>3
  <2> QED BY <2>2, <2>6, <2>7 DEF r
<1>3. CASE s = "hand"
  <2>1. r \in Stage[s] <=> k = hand[t]
    BY <1>0, <1>3, StageFacts DEF Numbered, HandNos
  <2>2. PlacesIn(t, k)[s] = {<<"hand", i>> : i \in {k} \cap {hand[t]}}
    BY <1>3 DEF PlacesIn
  <2>3. k = hand[t] => PlacesIn(t, k)[s] = {<<"hand", k>>}
    BY <2>2
  <2>4. k # hand[t] => PlacesIn(t, k)[s] = {}
    BY <2>2
  <2> QED BY <2>1, <2>3, <2>4
<1>4. CASE s = "perf"
  <2> DEFINE D == {j \in DOMAIN perf[t] : perf[t][j] = k}
  <2>1. r \in Stage[s] <=> D # {}
    BY <1>0, <1>4, StageFacts DEF Numbered, PerfNos, Contents
  <2>2. \A i, j \in D : i = j
    BY DEF OneEach, NoRepeats
  <2>3. PlacesIn(t, k)[s] = {<<"perf", i>> : i \in D}
    BY <1>4 DEF PlacesIn
  <2> HIDE DEF D, r
  <2>4. D # {} => \E d : D = {d}
    BY <2>2
  <2>5. D = {} => PlacesIn(t, k)[s] = {}
    BY <2>3
  <2>6. \A d : D = {d} => PlacesIn(t, k)[s] = {<<"perf", d>>}
    BY <2>3
  <2> QED BY <2>1, <2>4, <2>5, <2>6 DEF r
<1>5. CASE s = "worker"
  <2> DEFINE D == {v \in Workers : TableOf(v) = t /\ wev[v] = k}
  <2>1. r \in Stage[s] <=> D # {}
    BY <1>0, <1>5, StageFacts DEF Numbered, WorkerNos
  <2>2. \A i, j \in D : i = j
    BY DEF OneEach
  <2>3. PlacesIn(t, k)[s] = {<<"worker", i>> : i \in D}
    BY <1>5 DEF PlacesIn
  <2> HIDE DEF D, r
  <2>4. D # {} => \E d : D = {d}
    BY <2>2
  <2>5. D = {} => PlacesIn(t, k)[s] = {}
    BY <2>3
  <2>6. \A d : D = {d} => PlacesIn(t, k)[s] = {<<"worker", d>>}
    BY <2>3
  <2> QED BY <2>1, <2>4, <2>5, <2>6 DEF r
<1>6. CASE s = "dropped"
  <2>1. r \in Stage[s] <=> r \in dropped
    BY <1>6, StageFacts
  <2>2. PlacesIn(t, k)[s] = {<<"dropped", x>> : x \in dropped \cap {r}}
    BY <1>6 DEF PlacesIn
  <2> HIDE DEF r
  <2>3. r \in dropped => PlacesIn(t, k)[s] = {<<"dropped", r>>}
    BY <2>2
  <2>4. r \notin dropped => PlacesIn(t, k)[s] = {}
    BY <2>2
  <2> QED BY <2>1, <2>3, <2>4 DEF r
<1>7. CASE s = "out"
  <2> DEFINE D(f) == {j \in DOMAIN out[f] : content[out[f][j]] = r}
  <2>1. r \in Stage[s] <=> D(e) # {}
    BY <1>0, <1>7, StageFacts DEF Queued
  <2>2. \A i, j \in D(e) : i = j
    BY <1>0 DEF OneEach
  <2>3. \A f \in Egresses \ {e} : D(f) = {}
    BY <1>0 DEF RecordsRouted
  <2>4. PlacesIn(t, k)[s] = UNION {{<<"out", f, i>> : i \in D(f)} : f \in Egresses}
    BY <1>7 DEF PlacesIn
  <2> HIDE DEF D, e, r
  <2>5. PlacesIn(t, k)[s] = {<<"out", e, i>> : i \in D(e)}
    BY <1>0, <2>3, <2>4
  <2>6. D(e) # {} => \E d : D(e) = {d}
    BY <2>2
  <2>7. D(e) = {} => PlacesIn(t, k)[s] = {}
    BY <2>5
  <2>8. \A d : D(e) = {d} => PlacesIn(t, k)[s] = {<<"out", e, d>>}
    BY <2>5
  <2> QED BY <2>1, <2>6, <2>7, <2>8 DEF r
<1>8. CASE s = "egress"
  <2> DEFINE D == {f \in Egresses : epc[f] = "write" /\ content[ebuf[f]] = r}
  <2>1. r \in Stage[s] <=> e \in D
    BY <1>0, <1>8, StageFacts DEF Writing
  <2>2. \A f \in D : f = e
    BY <1>0 DEF RecordsRouted
  <2>3. PlacesIn(t, k)[s] = {<<"egress", f>> : f \in D}
    BY <1>8 DEF PlacesIn
  <2> HIDE DEF D, e, r
  <2>4. (e \in D => D = {e}) /\ (e \notin D => D = {})
    BY <2>2
  <2>5. D = {} => PlacesIn(t, k)[s] = {}
    BY <2>3
  <2>6. D = {e} => PlacesIn(t, k)[s] = {<<"egress", e>>}
    BY <2>3
  <2> QED BY <2>1, <2>4, <2>5, <2>6 DEF r
<1>9. CASE s = "line"
  <2> DEFINE D(f) == {j \in DOMAIN lines[f] : lines[f][j].rec = r}
  <2>1. r \in Stage[s] <=> D(e) # {}
    BY <1>0, <1>9, StageFacts DEF Written
  <2>2. \A i, j \in D(e) : i = j
    BY <1>0 DEF OneEach
  <2>3. \A f \in Egresses \ {e} : D(f) = {}
    BY <1>0 DEF HeldInv
  <2>4. PlacesIn(t, k)[s] = UNION {{<<"line", f, i>> : i \in D(f)} : f \in Egresses}
    BY <1>9 DEF PlacesIn
  <2> HIDE DEF D, e, r
  <2>5. PlacesIn(t, k)[s] = {<<"line", e, i>> : i \in D(e)}
    BY <1>0, <2>3, <2>4
  <2>6. D(e) # {} => \E d : D(e) = {d}
    BY <2>2
  <2>7. D(e) = {} => PlacesIn(t, k)[s] = {}
    BY <2>5
  <2>8. \A d : D(e) = {d} => PlacesIn(t, k)[s] = {<<"line", e, d>>}
    BY <2>5
  <2> QED BY <2>1, <2>6, <2>7, <2>8 DEF r
<1> QED BY <1>1, <1>2, <1>3, <1>4, <1>5, <1>6, <1>7, <1>8, <1>9, StageFacts

(* A raised event is no longer to come, and so in one of the places.       *)
LEMMA OncePlaces == OnceInv => Conservation
<1> SUFFICES ASSUME OnceInv, NEW t \in Tables, NEW k \in 1..Emitted(t)
             PROVE  Cardinality(Places(t, k)) = 1
  BY DEF Conservation
<1> DEFINE r == Event(t, k)
<1>1. k \in Nat \ {0} /\ r \in Events /\ r.table = t /\ r.seq = k /\ ~ (k > Emitted(t))
  <2>1. Emitted(t) \in Nat
    BY DEF OnceInv, BaseInv, TypeOK, KernelTypeOK, Emitted
  <2>2. k \in Nat \ {0} /\ ~ (k > Emitted(t))
    BY <2>1
  <2> QED BY <2>2, EventFacts
<1>2. r \notin Stage["new"]
  BY <1>1, StageFacts DEF Numbered, NewNos
<1>3. PICK s \in DOMAIN Stage \ {"new"} : r \in Stage[s]
  BY <1>1, <1>2 DEF OnceInv, Covers
<1>4. \A u \in DOMAIN Stage \ {"new", s} : r \notin Stage[u]
  BY <1>3 DEF OnceInv, IsApart
<1>5. PICK d : PlacesIn(t, k)[s] = {d}
  BY <1>1, <1>3, FoundOnce
<1>6. \A u \in DOMAIN Stage \ {"new", s} : PlacesIn(t, k)[u] = {}
  BY <1>1, <1>4, FoundOnce
<1>7. DOMAIN PlacesIn(t, k) = DOMAIN Stage \ {"new"}
  BY PlacesByKind, StageFacts
<1>8. \A x : x \in Places(t, k) <=> x = d
  <2>1. \A x : x \in Places(t, k) <=>
           \E u \in DOMAIN Stage \ {"new"} : x \in PlacesIn(t, k)[u]
    BY <1>7, PlacesByKind
  <2> QED BY <1>3, <1>5, <1>6, <2>1
<1>9. Places(t, k) = {d}
  BY <1>8
<1> QED BY <1>9, FS_Singleton

(* No event is duplicated, overwritten or silently gone between the ring   *)
(* and the output, whatever the configuration, the capacities and the      *)
(* interleaving of poll goroutines, workers and egresses: it is in one     *)
(* place, and one that is not on its way was counted as lost in the ring   *)
(* or dropped at a full egress channel (ebpf/bcc.go).                      *)
THEOREM EventsConserved == Spec => []Conservation
<1>1. Init => OnceInv
  <2>1. Init => RecordsRouted
    BY DEF Init, RecordsRouted
  <2>2. Init => BufferExclusive
    BY DEF Init, BufferExclusive, WorkersExclusive, QueuesExclusive, EgressesExclusive
  <2> QED BY <2>1, <2>2, TypeInit, HeldInit, OnceInit DEF OnceInv, BaseInv
<1>2. OnceInv /\ [Next]_vars /\ TypeOK' /\ BufferExclusive' => OnceInv'
  BY OnceStep
<1>3. OnceInv => Conservation
  BY OncePlaces
<1> QED BY <1>1, <1>2, <1>3, TypeCorrect, Exclusive, PTL DEF Spec
-----------------------------------------------------------------------------
(* y may come after x: with one worker, events of a table that one CPU     *)
(* raised do in the order of their numbers.  h gives the CPU of each.      *)
Ahead(h, x, y) ==
    /\ x.table = y.table /\ Tracepoints[x.table[1]].workers = 1
    /\ h[x.table][x.seq] = h[y.table][y.seq]
    => x.seq < y.seq

(* The parts an event passes, the last first.                              *)
Rank ==
    [line |-> 1, egress |-> 2, out |-> 3, worker |-> 4, perf |-> 5, hand |-> 6, ring |-> 7]

(* What is further along may come first.                                   *)
InLine(h, P) ==
    \A s, t \in DOMAIN Rank : Rank[s] < Rank[t] => \A x \in P[s], y \in P[t] : Ahead(h, x, y)

(* The events c[x] of the elements x of q are in order.                    *)
Rising(h, c, q) == \A i, j \in DOMAIN q : i < j => Ahead(h, c[q[i]], c[q[j]])

(* The events of the numbers in a channel of table t; those of the lines.  *)
EventsOf(t) == [k \in Nat |-> Event(t, k)]
RecOf == [l \in Lines |-> l.rec]

LineInv ==
    /\ InLine(raisedOn, Stage)
    /\ \A t \in Tables : \A c \in CPUs : Rising(raisedOn, EventsOf(t), ring[t][c])
    /\ \A t \in Tables : Rising(raisedOn, EventsOf(t), perf[t])
    /\ \A e \in Egresses : Rising(raisedOn, content, out[e]) /\ Rising(raisedOn, RecOf, lines[e])

(* The first event of a part overtakes nothing when it moves on to the     *)
(* next part.                                                              *)
LEMMA LineMove ==
    ASSUME NEW h, NEW P, NEW Q, NEW x, NEW a \in DOMAIN Rank, NEW b \in DOMAIN Rank,
           DOMAIN Rank \subseteq DOMAIN P, Rank[a] = Rank[b] + 1,
           \A y \in P[a] \ {x} : Ahead(h, x, y),
           Moved(P, Q, x, a, b), InLine(h, P)
    PROVE  InLine(h, Q)
<1> SUFFICES ASSUME NEW s \in DOMAIN Rank, NEW t \in DOMAIN Rank, Rank[s] < Rank[t],
                    NEW y \in Q[s], NEW z \in Q[t]
             PROVE  Ahead(h, y, z)
  BY DEF InLine
<1>1. /\ x \in P[a] /\ Q[a] = P[a] \ {x} /\ Q[b] = P[b] \cup {x}
      /\ \A u \in DOMAIN Rank \ {a, b} : Q[u] = P[u]
  BY DEF Moved
<1>2. /\ \A u \in DOMAIN Rank : Rank[u] \in Nat
      /\ \A u, v \in DOMAIN Rank : Rank[u] = Rank[v] => u = v
  BY DEF Rank
<1>3. CASE s = b /\ y = x
  <2>1. CASE t = a
    BY <1>1, <1>3, <2>1
  <2>2. CASE t # a
    <3>1. Rank[t] > Rank[a] /\ t # b
      BY <1>2, <1>3, <2>2
    <3>2. z \in P[t]
      BY <1>1, <2>2, <3>1
    <3> QED BY <1>1, <1>3, <3>1, <3>2 DEF InLine
  <2> QED BY <2>1, <2>2
<1>4. CASE ~(s = b /\ y = x)
  <2>1. y \in P[s]
    BY <1>1, <1>4
  <2>2. CASE t = b /\ z = x
    <3>1. Rank[s] < Rank[a]
      BY <1>2, <2>2
    <3> QED BY <1>1, <2>1, <2>2, <3>1 DEF InLine
  <2>3. CASE ~(t = b /\ z = x)
    <3>1. z \in P[t]
      BY <1>1, <2>3
    <3> QED BY <2>1, <3>1 DEF InLine
  <2> QED BY <2>2, <2>3
<1> QED BY <1>3, <1>4

(* Losing an event keeps the line.                                         *)
LEMMA LineShrinks ==
    ASSUME NEW h, NEW P, NEW Q, \A s \in DOMAIN Rank : Q[s] \subseteq P[s], InLine(h, P)
    PROVE  InLine(h, Q)
BY DEF InLine

(* The first of a channel in order is ahead of the others.                 *)
LEMMA RisingTail ==
    ASSUME NEW h, NEW S, NEW q \in Seq(S), q # <<>>, NEW c, Rising(h, c, q)
    PROVE  /\ Rising(h, c, Tail(q))
           /\ \A i \in DOMAIN q : q[i] # Head(q) => Ahead(h, c[Head(q)], c[q[i]])
<1>1. /\ DOMAIN q = 1..Len(q) /\ Len(q) \in Nat /\ Len(q) >= 1 /\ Head(q) = q[1]
      /\ DOMAIN Tail(q) = 1..(Len(q) - 1)
      /\ \A i \in 1..(Len(q) - 1) : Tail(q)[i] = q[i + 1]
  <2>1. Tail(q) \in Seq(S) /\ Len(Tail(q)) = Len(q) - 1
    BY QueueFacts
  <2> QED BY <2>1, QueueFacts
<1>2. Rising(h, c, Tail(q))
  <2> SUFFICES ASSUME NEW i \in 1..(Len(q) - 1), NEW j \in 1..(Len(q) - 1), i < j
               PROVE  Ahead(h, c[q[i + 1]], c[q[j + 1]])
    BY <1>1 DEF Rising
  <2>1. i + 1 \in 1..Len(q) /\ j + 1 \in 1..Len(q) /\ i + 1 < j + 1
    BY <1>1
  <2> QED BY <1>1, <2>1 DEF Rising
<1>3. \A i \in DOMAIN q : q[i] # Head(q) => Ahead(h, c[Head(q)], c[q[i]])
  <2> SUFFICES ASSUME NEW i \in 1..Len(q), i # 1 PROVE Ahead(h, c[q[1]], c[q[i]])
    BY <1>1
  <2>1. 1 \in 1..Len(q) /\ 1 < i
    BY <1>1
  <2> QED BY <1>1, <2>1 DEF Rising
<1> QED BY <1>2, <1>3

(* A channel stays in order when what is added may come after all of it.   *)
LEMMA RisingAppend ==
    ASSUME NEW h, NEW S, NEW q \in Seq(S), NEW x \in S, NEW c, Rising(h, c, q),
           \A i \in DOMAIN q : Ahead(h, c[q[i]], c[x])
    PROVE  Rising(h, c, Append(q, x))
<1>1. /\ DOMAIN q = 1..Len(q) /\ Len(q) \in Nat
      /\ DOMAIN Append(q, x) = 1..(Len(q) + 1)
      /\ \A i \in 1..Len(q) : Append(q, x)[i] = q[i]
      /\ Append(q, x)[Len(q) + 1] = x
  <2>1. Append(q, x) \in Seq(S) /\ Len(Append(q, x)) = Len(q) + 1
    BY QueueFacts
  <2> QED BY <2>1, QueueFacts
<1> SUFFICES ASSUME NEW i \in 1..(Len(q) + 1), NEW j \in 1..(Len(q) + 1), i < j
             PROVE  Ahead(h, c[Append(q, x)[i]], c[Append(q, x)[j]])
  BY <1>1 DEF Rising
<1>2. i \in 1..Len(q)
  BY <1>1
<1>3. CASE j \in 1..Len(q)
  BY <1>1, <1>2, <1>3 DEF Rising
<1>4. CASE j = Len(q) + 1
  BY <1>1, <1>2, <1>4
<1> QED BY <1>1, <1>3, <1>4

(* Nothing is under way at first.                                          *)
LEMMA LineInit == Init => LineInv
<1> SUFFICES ASSUME Init PROVE LineInv
  OBVIOUS
<1>1. /\ \A t \in Tables : \A c \in CPUs : Rising(raisedOn, EventsOf(t), ring[t][c])
      /\ \A t \in Tables : Rising(raisedOn, EventsOf(t), perf[t])
      /\ \A e \in Egresses : Rising(raisedOn, content, out[e]) /\ Rising(raisedOn, RecOf, lines[e])
  BY DEF Init, Rising
<1>2. \A s \in DOMAIN Rank : Stage[s] = {}
  <2>1. \A t \in Tables : /\ RingNos[t] = {} /\ HandNos[t] = {0} /\ PerfNos[t] = {}
                          /\ WorkerNos[t] \subseteq {0}
    BY DEF Init, RingNos, HandNos, PerfNos, WorkerNos, Contents
  <2>2. /\ Numbered(RingNos) = {} /\ Numbered(HandNos) = {} /\ Numbered(PerfNos) = {}
        /\ Numbered(WorkerNos) = {}
    BY <2>1, EventFacts DEF Numbered
  <2>3. \A r \in Events : EgressOf(r.table) \in Egresses
    BY EventFacts, TableFacts
  <2>4. Queued = {} /\ Writing = {} /\ Written = {}
    BY <2>3 DEF Init, Queued, Writing, Written
  <2> QED BY <2>2, <2>4, StageFacts DEF Rank
<1> QED BY <1>1, <1>2 DEF LineInv, InLine

(* Steps that move no event keep the line.                                 *)
LEMMA LineFrame ==
    ASSUME LineInv, Stage' = Stage, UNCHANGED <<raisedOn, ring, perf, out, lines>>,
           \A e \in Egresses : \A i \in DOMAIN out[e] :
              content'[out[e][i]] = content[out[e][i]]
    PROVE  LineInv'
<1>1. \A e \in Egresses : Rising(raisedOn, content', out[e])
  BY DEF LineInv, Rising
<1> QED BY <1>1 DEF LineInv

(* A table with one worker has no two.                                     *)
LEMMA OneWorker ==
    ASSUME NEW v \in Workers, NEW w \in Workers, TableOf(v) = TableOf(w),
           Tracepoints[TableOf(v)[1]].workers = 1
    PROVE  v = w
<1>1. PICK t \in Tables : v \in {t} \X (1..Tracepoints[t[1]].workers)
  BY DEF Workers
<1>2. PICK u \in Tables : w \in {u} \X (1..Tracepoints[u[1]].workers)
  BY DEF Workers
<1>3. v[1] = t /\ w[1] = u /\ t = u
  BY <1>1, <1>2 DEF TableOf
<1>4. v = <<t, 1>> /\ w = <<t, 1>>
  <2>1. 1..1 = {1}
    OBVIOUS
  <2>2. Tracepoints[t[1]].workers = 1
    BY <1>3 DEF TableOf
  <2> QED BY <1>1, <1>2, <1>3, <2>1, <2>2
<1> QED BY <1>4

(* A number in a channel of table t is an event of it there.               *)
LEMMA EventsOfFacts ==
    ASSUME NEW t \in Tables, NEW k \in Nat
    PROVE  EventsOf(t)[k] = Event(t, k)
BY DEF EventsOf

(* The events raised so far.                                               *)
Raised(h) == {x \in Events : x.seq <= Len(h[x.table])}

(* One more event changes nothing between those raised before, and it may  *)
(* come after all of them.                                                 *)
LEMMA AheadGrows ==
    ASSUME TypeOK, NEW t \in Tables, NEW c \in CPUs, Raises(t, c)
    PROVE  /\ \A x, y \in Raised(raisedOn) : Ahead(raisedOn, x, y) => Ahead(raisedOn', x, y)
           /\ \A x \in Raised(raisedOn) : Ahead(raisedOn', x, Event(t, Emitted(t) + 1))
<1>1. \A x \in Raised(raisedOn) : /\ x.table \in Tables /\ x.seq \in Nat \ {0}
                                 /\ x.seq <= Emitted(x.table)
  BY EventFacts DEF Raised, Emitted
<1>2. ASSUME NEW x \in Raised(raisedOn)
      PROVE  raisedOn'[x.table][x.seq] = raisedOn[x.table][x.seq]
  <2>1. CASE x.table # t
    BY <1>1, <2>1, RaisesFacts
  <2>2. CASE x.table = t
    <3>1. x.seq \in 1..Emitted(t)
      BY <1>1, <2>2, RaisesFacts
    <3> QED BY <2>2, <3>1, RaisesFacts
  <2> QED BY <2>1, <2>2
<1>3. \A x, y \in Raised(raisedOn) : Ahead(raisedOn, x, y) => Ahead(raisedOn', x, y)
  BY <1>2 DEF Ahead
<1>4. ASSUME NEW x \in Raised(raisedOn), x.table = t PROVE x.seq < Emitted(t) + 1
  BY <1>1, <1>4, RaisesFacts
<1>5. \A x \in Raised(raisedOn) : Ahead(raisedOn', x, Event(t, Emitted(t) + 1))
  BY <1>4 DEF Ahead, Event
<1> QED BY <1>3, <1>5

(* A channel of events that were raised before stays in order.             *)
LEMMA RisingGrows ==
    ASSUME NEW h, NEW g, NEW R, NEW c, NEW q, Rising(h, c, q), \A i \in DOMAIN q : c[q[i]] \in R,
           \A x, y \in R : Ahead(h, x, y) => Ahead(g, x, y)
    PROVE  Rising(g, c, q)
BY DEF Rising

(* Every event under way was raised.                                       *)
LEMMA StageRaised ==
    ASSUME OnceInv, NEW s \in DOMAIN Rank PROVE Stage[s] \subseteq Raised(raisedOn)
<1> USE DEF OnceInv, BaseInv
<1>1. s \in {"line", "egress", "out", "worker", "perf", "hand", "ring"}
  BY DEF Rank
<1>2. Stage[s] \subseteq Events
  BY <1>1, StageFacts DEF Numbered, Queued, Writing, Written
<1>3. s \in DOMAIN Stage /\ "new" \in DOMAIN Stage /\ s # "new"
  BY <1>1, StageFacts
<1>4. Stage[s] \cap Stage["new"] = {}
  BY <1>3 DEF IsApart
<1>5. ASSUME NEW x \in Stage[s] PROVE x.seq <= Len(raisedOn[x.table])
  <2>1. /\ x \in Events /\ x.table \in Tables /\ x.seq \in Nat /\ x \notin Numbered(NewNos)
        /\ Emitted(x.table) \in Nat
    BY <1>2, <1>4, StageFacts, EventFacts DEF TypeOK, KernelTypeOK, Emitted
  <2>2. ~(x.seq > Emitted(x.table))
    BY <2>1 DEF Numbered, NewNos
  <2> QED BY <2>1, <2>2 DEF Emitted
<1> QED BY <1>2, <1>5 DEF Raised

(* Those in a channel were.                                                *)
LEMMA QueuesRaised ==
    ASSUME OnceInv
    PROVE  /\ \A t \in Tables : \A c \in CPUs : \A i \in DOMAIN ring[t][c] :
                 EventsOf(t)[ring[t][c][i]] \in Raised(raisedOn)
           /\ \A t \in Tables : \A i \in DOMAIN perf[t] :
                 EventsOf(t)[perf[t][i]] \in Raised(raisedOn)
           /\ \A e \in Egresses : \A i \in DOMAIN out[e] : content[out[e][i]] \in Raised(raisedOn)
           /\ \A e \in Egresses : \A i \in DOMAIN lines[e] : RecOf[lines[e][i]] \in Raised(raisedOn)
<1> USE DEF OnceInv, BaseInv
<1>0. "perf" \in DOMAIN Rank /\ "out" \in DOMAIN Rank /\ "line" \in DOMAIN Rank /\ "ring" \in DOMAIN Rank
  BY DEF Rank
<1>1. ASSUME NEW t \in Tables, NEW c \in CPUs, NEW i \in DOMAIN ring[t][c]
      PROVE  EventsOf(t)[ring[t][c][i]] \in Raised(raisedOn)
  <2>1. ring[t][c][i] \in Nat \ {0} /\ ring[t][c][i] \in Nat
    <3>1. ring[t][c][i] \in 1..Emitted(t)
      BY DEF HeldInv, RingsNumbered, Contents
    <3> QED BY <3>1
  <2>2. ring[t][c][i] \in RingNos[t]
    BY RingNosFacts DEF Contents
  <2>3. Event(t, ring[t][c][i]) \in Stage["ring"]
    BY <2>1, <2>2, StageFacts, EventFacts DEF Numbered
  <2> QED BY <1>0, <2>1, <2>3, StageRaised, EventsOfFacts
<1>2. ASSUME NEW t \in Tables, NEW i \in DOMAIN perf[t]
      PROVE  EventsOf(t)[perf[t][i]] \in Raised(raisedOn)
  <2>1. perf[t][i] \in Nat \ {0} /\ perf[t][i] \in PerfNos[t]
    <3>1. perf[t] \in Seq(Nat)
      BY DEF TypeOK, KernelTypeOK
    <3> QED BY <3>1, QueueFacts DEF HeldInv, PerfNos, Contents
  <2>2. Event(t, perf[t][i]) \in Stage["perf"]
    BY <2>1, StageFacts, EventFacts DEF Numbered
  <2> QED BY <1>0, <2>1, <2>2, StageRaised, EventsOfFacts
<1>3. ASSUME NEW e \in Egresses, NEW i \in DOMAIN out[e]
      PROVE  content[out[e][i]] \in Raised(raisedOn)
  <2> DEFINE x == content[out[e][i]]
  <2>1. x \in Records /\ EgressOf(x.table) = e
    BY DEF RecordsRouted
  <2>2. out[e][i] \in Buffers
    <3>1. out[e] \in Seq(Buffers)
      BY DEF TypeOK, BufferTypeOK
    <3> QED BY <3>1, QueueFacts
  <2>3. x \in Events
    BY <2>1, <2>2, NilAssumption DEF HeldInv
  <2>4. x \in Stage["out"]
    BY <2>1, <2>3, StageFacts DEF Queued
  <2> QED BY <1>0, <2>4, StageRaised
<1>4. ASSUME NEW e \in Egresses, NEW i \in DOMAIN lines[e]
      PROVE  RecOf[lines[e][i]] \in Raised(raisedOn)
  <2> DEFINE x == lines[e][i].rec
  <2>1. x \in Events /\ EgressOf(x.table) = e
    BY DEF HeldInv
  <2>2. x \in Stage["line"]
    BY <2>1, StageFacts DEF Written
  <2>3. RecOf[lines[e][i]] = x
    <3>1. lines[e] \in Seq(Lines)
      BY DEF TypeOK, EgressTypeOK
    <3> QED BY <3>1, QueueFacts DEF RecOf
  <2> QED BY <1>0, <2>2, <2>3, StageRaised
<1> QED BY <1>1, <1>2, <1>3, <1>4

(* The kernel raises the events of a table in the order of their numbers.  *)
LEMMA LineKernel ==
    ASSUME OnceInv, LineInv, NEW t \in Tables, KernelEvent(t) PROVE LineInv'
<1> USE DEF OnceInv, BaseInv
<1> DEFINE k == Emitted(t) + 1  r == Event(t, k)
<1>c. PICK c \in CPUs :
        /\ Raises(t, c)
        /\ \/ RingGets(t, c, k) /\ Moved(Stage, Stage', r, "new", "ring")
           \/ ring' = ring /\ Moved(Stage, Stage', r, "new", "lost")
  BY OnceKernel
<1>1. UNCHANGED <<perf, out, lines, content>>
  BY DEF KernelEvent, workVars, egressVars
<1>2. /\ \A x, y \in Raised(raisedOn) : Ahead(raisedOn, x, y) => Ahead(raisedOn', x, y)
      /\ \A x \in Raised(raisedOn) : Ahead(raisedOn', x, r)
  BY <1>c, AheadGrows
<1>3. k \in Nat /\ ring[t][c] \in Seq(Nat)
  BY <1>c, RaisesFacts, RingFacts
<1> HIDE DEF k, r
<1>4. /\ \A u \in Tables : \A d \in CPUs : Rising(raisedOn', EventsOf(u), ring[u][d])
      /\ \A u \in Tables : Rising(raisedOn', EventsOf(u), perf[u])
      /\ \A e \in Egresses : Rising(raisedOn', content, out[e])
      /\ \A e \in Egresses : Rising(raisedOn', RecOf, lines[e])
  <2>1. \A u \in Tables : \A d \in CPUs : Rising(raisedOn', EventsOf(u), ring[u][d])
    BY <1>2, QueuesRaised, RisingGrows DEF LineInv
  <2>2. \A u \in Tables : Rising(raisedOn', EventsOf(u), perf[u])
    BY <1>2, QueuesRaised, RisingGrows DEF LineInv
  <2>3. \A e \in Egresses : Rising(raisedOn', content, out[e])
    BY <1>2, QueuesRaised, RisingGrows DEF LineInv
  <2>4. \A e \in Egresses : Rising(raisedOn', RecOf, lines[e])
    BY <1>2, QueuesRaised, RisingGrows DEF LineInv
  <2> QED BY <2>1, <2>2, <2>3, <2>4
<1>5. InLine(raisedOn', Stage')
  <2> SUFFICES ASSUME NEW s \in DOMAIN Rank, NEW u \in DOMAIN Rank, Rank[s] < Rank[u],
                      NEW x \in Stage'[s], NEW y \in Stage'[u]
               PROVE  Ahead(raisedOn', x, y)
    BY DEF InLine
  <2>1. s # "ring" /\ s # "lost" /\ u # "lost" /\ s # "new" /\ u # "new"
    BY DEF Rank
  <2>2. /\ s \in DOMAIN Stage /\ u \in DOMAIN Stage
        /\ x \in Stage[s] /\ (y \in Stage[u] \/ y = r)
    <3>1. s \in DOMAIN Stage /\ u \in DOMAIN Stage
      BY StageFacts DEF Rank
    <3> QED BY <1>c, <2>1, <3>1 DEF Moved
  <2>3. x \in Raised(raisedOn) /\ (y \in Stage[u] => y \in Raised(raisedOn))
    BY <2>2, StageRaised
  <2>4. CASE y \in Stage[u]
    <3>1. Ahead(raisedOn, x, y)
      BY <2>2, <2>4 DEF LineInv, InLine
    <3> QED BY <1>2, <2>3, <2>4, <3>1
  <2>5. CASE y = r
    BY <1>2, <2>3, <2>5
  <2> QED BY <2>2, <2>4, <2>5
<1>6. \A u \in Tables : \A d \in CPUs : Rising(raisedOn', EventsOf(u), ring'[u][d])
  <2>1. CASE ring' = ring
    BY <1>4, <2>1
  <2>2. CASE RingGets(t, c, k)
    <3>1. \A i \in DOMAIN ring[t][c] : Ahead(raisedOn', EventsOf(t)[ring[t][c][i]], EventsOf(t)[k])
      BY <1>2, <1>3, QueuesRaised, EventsOfFacts DEF r
    <3>2. Rising(raisedOn', EventsOf(t), Append(ring[t][c], k))
      BY <1>3, <1>4, <3>1, RisingAppend
    <3>3. \A u \in Tables : \A d \in CPUs :
             ring'[u][d] = ring[u][d] \/ (u = t /\ ring'[u][d] = Append(ring[t][c], k))
      BY <2>2, RingFacts
    <3> QED BY <1>4, <3>2, <3>3
  <2> QED BY <1>c, <2>1, <2>2
<1> QED BY <1>1, <1>4, <1>5, <1>6 DEF LineInv

(* The poll goroutine passes them on as it reads them.                     *)
LEMMA LinePoll ==
    ASSUME OnceInv, LineInv, NEW t \in Tables, PollStep(t) PROVE LineInv'
<1> USE DEF OnceInv, BaseInv
<1>0. /\ perf \in [Tables -> Seq(Nat)] /\ perf[t] \in Seq(Nat)
      /\ hand[t] \in Nat /\ InLine(raisedOn, Stage) /\ DOMAIN Rank \subseteq DOMAIN Stage
      /\ \A i \in DOMAIN perf[t] : perf[t][i] \in Nat
  <2>1. hand[t] \in Nat /\ perf \in [Tables -> Seq(Nat)] /\ perf[t] \in Seq(Nat)
    BY DEF TypeOK, KernelTypeOK
  <2> QED BY <2>1, QueueFacts, StageFacts DEF LineInv, Rank
<1>1. UNCHANGED <<raisedOn, out, lines, content>>
  BY DEF PollStep, PollReaders, PollRead, PollDeliver, PollReturn, egressVars, kernelVars
<1>2. CASE (PollReaders(t) \/ PollReturn(t)) /\ Stage' = Stage
  <2>1. UNCHANGED <<ring, perf>>
    BY <1>2 DEF PollReaders, PollReturn, kernelVars
  <2> QED BY <1>1, <1>2, <2>1, LineFrame
<1>3. ASSUME NEW c \in CPUs, ReadsFrom(t, c),
             Moved(Stage, Stage', Event(t, Head(ring[t][c])), "ring", "hand")
      PROVE  LineInv'
  <2> DEFINE k == Head(ring[t][c])  r == Event(t, k)
  <2>1. /\ ring[t][c] # <<>> /\ ring[t][c] \in Seq(Nat) /\ perf' = perf
        /\ ring'[t][c] = Tail(ring[t][c])
        /\ \A d \in CPUs \ {c} : ring'[t][d] = ring[t][d]
        /\ \A u \in Tables \ {t} : ring'[u] = ring[u]
    BY <1>3, RingFacts DEF ReadsFrom, RingGives
  <2>2. Moved(Stage, Stage', r, "ring", "hand")
    BY <1>3
  <2>3. k \in Nat /\ r.table = t /\ r.seq = k /\ raisedOn[t][k] = c
    <3>1. k \in Nat /\ k \in Contents(ring[t][c])
      BY <2>1, QueueFacts, TailFacts
    <3>2. raisedOn[t][k] = c
      BY <3>1 DEF HeldInv, RingsNumbered
    <3> QED BY <3>1, <3>2 DEF Event
  <2>4. /\ Rising(raisedOn, EventsOf(t), Tail(ring[t][c]))
        /\ \A i \in DOMAIN ring[t][c] :
              ring[t][c][i] # k => Ahead(raisedOn, EventsOf(t)[k], EventsOf(t)[ring[t][c][i]])
    BY <2>1, RisingTail DEF LineInv
  <2>5. \A y \in Stage["ring"] \ {r} : Ahead(raisedOn, r, y)
    <3> SUFFICES ASSUME NEW y \in Stage["ring"] \ {r}, y.table = t, raisedOn[t][y.seq] = c
                 PROVE  Ahead(raisedOn, r, y)
      BY <2>3 DEF Ahead
    <3>1. y \in Events /\ y.seq \in RingNos[t] /\ y = Event(t, y.seq) /\ y.seq \in Nat
      BY StageFacts, EventFacts DEF Numbered
    <3>2. PICK d \in CPUs : y.seq \in Contents(ring[t][d])
      BY <3>1, RingNosFacts
    <3>3. d = c
      BY <3>2 DEF HeldInv, RingsNumbered
    <3>4. PICK i \in DOMAIN ring[t][c] : ring[t][c][i] = y.seq
      BY <3>2, <3>3 DEF Contents
    <3>5. y.seq # k
      BY <3>1
    <3>6. EventsOf(t)[k] = r /\ EventsOf(t)[ring[t][c][i]] = y
      BY <2>3, <3>1, <3>4, EventsOfFacts
    <3> QED BY <2>4, <3>4, <3>5, <3>6
  <2> HIDE DEF k, r
  <2>6. InLine(raisedOn, Stage')
    <3>1. "ring" \in DOMAIN Rank /\ "hand" \in DOMAIN Rank /\ Rank["ring"] = Rank["hand"] + 1
      BY DEF Rank
    <3> QED BY <1>0, <2>2, <2>5, <3>1, LineMove
  <2>7. \A u \in Tables : \A d \in CPUs : Rising(raisedOn, EventsOf(u), ring'[u][d])
    <3> SUFFICES ASSUME NEW u \in Tables, NEW d \in CPUs
                 PROVE  Rising(raisedOn, EventsOf(u), ring'[u][d])
      OBVIOUS
    <3>1. CASE u = t /\ d = c
      BY <2>1, <2>4, <3>1
    <3>2. CASE ~(u = t /\ d = c)
      BY <2>1, <3>2 DEF LineInv
    <3> QED BY <3>1, <3>2
  <2> QED BY <1>1, <2>1, <2>6, <2>7 DEF LineInv
<1>4. CASE PollDeliver(t) /\ Moved(Stage, Stage', Event(t, hand[t]), "hand", "perf")
  <2> DEFINE k == hand[t]  r == Event(t, k)
  <2>1. perf' = [perf EXCEPT ![t] = Append(@, k)] /\ UNCHANGED ring
    BY <1>4 DEF PollDeliver, kernelVars
  <2>2. Moved(Stage, Stage', r, "hand", "perf")
    BY <1>4
  <2>3. k \in Nat /\ r.table = t /\ r.seq = k
    BY <1>0 DEF Event
  <2>4. \A y \in Stage["hand"] \ {r} : Ahead(raisedOn, r, y)
    <3> SUFFICES ASSUME NEW y \in Stage["hand"] \ {r}, y.table = t PROVE FALSE
      BY <2>3 DEF Ahead
    <3>1. y \in Events /\ y.seq \in HandNos[t] /\ y = Event(t, y.seq)
      BY StageFacts, EventFacts DEF Numbered
    <3> QED BY <3>1 DEF HandNos
  <2> HIDE DEF k, r
  <2>5. InLine(raisedOn, Stage')
    <3>1. "hand" \in DOMAIN Rank /\ "perf" \in DOMAIN Rank /\ Rank["hand"] = Rank["perf"] + 1
      BY DEF Rank
    <3> QED BY <1>0, <2>2, <2>4, <3>1, LineMove
  <2>6. ASSUME NEW i \in DOMAIN perf[t]
        PROVE  Ahead(raisedOn, EventsOf(t)[perf[t][i]], EventsOf(t)[k])
    <3>1. perf[t][i] # 0 /\ perf[t][i] \in PerfNos[t]
      BY DEF HeldInv, PerfNos, Contents
    <3>2. Event(t, perf[t][i]) \in Stage["perf"]
      BY <1>0, <3>1, StageFacts, EventFacts DEF Numbered
    <3>3. r \in Stage["hand"] /\ Rank["perf"] < Rank["hand"] /\ "perf" \in DOMAIN Rank /\ "hand" \in DOMAIN Rank
      BY <2>2 DEF Moved, Rank
    <3>4. Ahead(raisedOn, Event(t, perf[t][i]), r)
      BY <1>0, <3>2, <3>3 DEF InLine
    <3> QED BY <1>0, <2>3, <3>4, EventsOfFacts DEF r
  <2>7. Rising(raisedOn, EventsOf(t), Append(perf[t], k))
    BY <1>0, <2>3, <2>6, RisingAppend DEF LineInv
  <2>8. \A u \in Tables : Rising(raisedOn, EventsOf(u), perf'[u])
    BY <1>0, <2>1, <2>7 DEF LineInv
  <2> QED BY <1>1, <2>1, <2>5, <2>8 DEF LineInv
<1> QED BY <1>2, <1>3, <1>4, OncePoll

(* One worker hands the events of its table on in their order.             *)
LEMMA LineWorker ==
    ASSUME OnceInv, LineInv, NEW w \in Workers, WorkerStep(w) PROVE LineInv'
<1> USE DEF OnceInv, BaseInv
<1>t. PICK t \in Tables : t = TableOf(w)
  BY TableFacts
<1>0. /\ perf \in [Tables -> Seq(Nat)] /\ perf[t] \in Seq(Nat)
      /\ wev \in [Workers -> Nat] /\ InLine(raisedOn, Stage) /\ DOMAIN Rank \subseteq DOMAIN Stage
      /\ \A i \in DOMAIN perf[t] : perf[t][i] \in Nat
  <2>1. perf \in [Tables -> Seq(Nat)] /\ perf[t] \in Seq(Nat) /\ wev \in [Workers -> Nat]
    BY DEF TypeOK, KernelTypeOK, WorkerTypeOK
  <2> QED BY <2>1, QueueFacts, StageFacts DEF LineInv, Rank
<1>1. UNCHANGED <<raisedOn, ring, lines>>
  BY DEF WorkerStep, WorkerRecv, WorkerDone, WorkerGet, WorkerDecode, WorkerSend, kernelVars,
         egressVars
<1>2. CASE /\ WorkerDone(w) \/ WorkerGet(w) \/ WorkerDecode(w)
           /\ \A e \in Egresses : \A i \in DOMAIN out[e] :
                 content'[out[e][i]] = content[out[e][i]]
           /\ Stage' = Stage
  <2>1. UNCHANGED <<perf, out>>
    BY <1>2 DEF WorkerDone, WorkerGet, WorkerDecode
  <2> QED BY <1>1, <1>2, <2>1, LineFrame
<1>3. CASE /\ WorkerRecv(w)
           /\ Moved(Stage, Stage', Event(t, Head(perf[t])), "perf", "worker")
  <2> DEFINE k == Head(perf[t])  r == Event(t, k)
  <2>1. perf[t] # <<>> /\ perf' = [perf EXCEPT ![t] = Tail(@)] /\ UNCHANGED <<out, content>>
    BY <1>3, <1>t DEF WorkerRecv
  <2>2. Moved(Stage, Stage', r, "perf", "worker")
    BY <1>3
  <2>3. k \in Nat /\ r.table = t /\ r.seq = k
    BY <1>0, <2>1, QueueFacts DEF Event
  <2>4. /\ Rising(raisedOn, EventsOf(t), Tail(perf[t]))
        /\ \A i \in DOMAIN perf[t] : perf[t][i] # k => Ahead(raisedOn, EventsOf(t)[k], EventsOf(t)[perf[t][i]])
    BY <1>0, <2>1, RisingTail DEF LineInv
  <2>5. \A y \in Stage["perf"] \ {r} : Ahead(raisedOn, r, y)
    <3> SUFFICES ASSUME NEW y \in Stage["perf"] \ {r}, y.table = t PROVE Ahead(raisedOn, r, y)
      BY <2>3 DEF Ahead
    <3>1. y \in Events /\ y.seq \in PerfNos[t] /\ y = Event(t, y.seq)
      BY StageFacts, EventFacts DEF Numbered
    <3>2. PICK i \in DOMAIN perf[t] : perf[t][i] = y.seq
      BY <3>1 DEF PerfNos, Contents
    <3>3. y.seq # k
      BY <3>1
    <3>4. EventsOf(t)[k] = r /\ EventsOf(t)[perf[t][i]] = y
      BY <1>0, <2>3, <3>1, <3>2, EventsOfFacts
    <3> QED BY <2>4, <3>2, <3>3, <3>4
  <2> HIDE DEF k, r
  <2>6. InLine(raisedOn, Stage')
    <3>1. "perf" \in DOMAIN Rank /\ "worker" \in DOMAIN Rank /\ Rank["perf"] = Rank["worker"] + 1
      BY DEF Rank
    <3> QED BY <1>0, <2>2, <2>5, <3>1, LineMove
  <2>7. \A u \in Tables : Rising(raisedOn, EventsOf(u), perf'[u])
    BY <1>0, <2>1, <2>4 DEF LineInv
  <2> QED BY <1>1, <2>1, <2>6, <2>7 DEF LineInv
<1>4. CASE /\ WorkerSend(w) /\ content' = content
           /\ out' = [out EXCEPT ![EgressOf(t)] = Append(@, wbuf[w])]
           /\ Moved(Stage, Stage', Event(t, wev[w]), "worker", "out")
  <2> DEFINE b == wbuf[w]  k == wev[w]  r == Event(t, k)  e == EgressOf(t)
  <2>1. /\ wpc[w] = "send" /\ UNCHANGED perf /\ content' = content
        /\ out' = [out EXCEPT ![e] = Append(@, b)]
    BY <1>4 DEF WorkerSend
  <2>2. Moved(Stage, Stage', r, "worker", "out")
    BY <1>4
  <2>3. /\ b \in Buffers /\ content[b] = r /\ k \in Nat /\ k # 0 /\ r.table = t /\ r.seq = k
        /\ e \in Egresses /\ out \in [Egresses -> Seq(Buffers)] /\ out[e] \in Seq(Buffers)
    <3>1. e \in Egresses
      BY TableFacts
    <3>2. out \in [Egresses -> Seq(Buffers)] /\ out[e] \in Seq(Buffers)
      BY <3>1 DEF TypeOK, BufferTypeOK
    <3>3. b \in Buffers /\ content[b] = r /\ k # 0
      BY <1>t, <2>1 DEF TypeOK, WorkerTypeOK, HeldInv
    <3> QED BY <1>0, <3>1, <3>2, <3>3 DEF Event
  <2>4. \A y \in Stage["worker"] \ {r} : Ahead(raisedOn, r, y)
    <3> SUFFICES ASSUME NEW y \in Stage["worker"] \ {r}, y.table = t,
                        Tracepoints[t[1]].workers = 1
                 PROVE  FALSE
      BY <2>3 DEF Ahead
    <3>1. y \in Events /\ y.seq \in WorkerNos[t] /\ y = Event(t, y.seq)
      BY StageFacts, EventFacts DEF Numbered
    <3>2. PICK v \in Workers : TableOf(v) = t /\ wev[v] = y.seq
      BY <3>1 DEF WorkerNos
    <3>3. v = w
      BY <1>t, <3>2, OneWorker
    <3> QED BY <3>1, <3>2, <3>3
  <2> HIDE DEF b, k, r, e
  <2>5. InLine(raisedOn, Stage')
    <3>1. "worker" \in DOMAIN Rank /\ "out" \in DOMAIN Rank /\ Rank["worker"] = Rank["out"] + 1
      BY DEF Rank
    <3> QED BY <1>0, <2>2, <2>4, <3>1, LineMove
  <2>6. ASSUME NEW i \in DOMAIN out[e] PROVE Ahead(raisedOn, content[out[e][i]], content[b])
    <3> DEFINE s == content[out[e][i]]
    <3>1. s \in Events /\ EgressOf(s.table) = e
      <4>1. s \in Records /\ EgressOf(s.table) = e
        BY <2>3 DEF RecordsRouted
      <4>2. out[e][i] \in Buffers
        BY <2>3, QueueFacts
      <4> QED BY <4>1, <4>2, NilAssumption DEF HeldInv
    <3>2. s \in Stage["out"]
      BY <3>1, StageFacts DEF Queued
    <3>3. r \in Stage["worker"] /\ Rank["out"] < Rank["worker"] /\ "out" \in DOMAIN Rank
          /\ "worker" \in DOMAIN Rank
      BY <2>2 DEF Moved, Rank
    <3>4. Ahead(raisedOn, s, r)
      BY <1>0, <3>2, <3>3 DEF InLine
    <3> QED BY <2>3, <3>4
  <2>7. Rising(raisedOn, content, Append(out[e], b))
    BY <2>3, <2>6, RisingAppend DEF LineInv
  <2>8. \A f \in Egresses : Rising(raisedOn, content', out'[f])
    BY <2>1, <2>3, <2>7 DEF LineInv
  <2> QED BY <1>1, <2>1, <2>5, <2>8 DEF LineInv
<1>5. CASE /\ WorkerSend(w) /\ out' = out
           /\ \A e \in Egresses : \A i \in DOMAIN out[e] :
                 content'[out[e][i]] = content[out[e][i]]
           /\ Moved(Stage, Stage', Event(t, wev[w]), "worker", "dropped")
  <2>1. perf' = perf
    BY <1>5 DEF WorkerSend
  <2>2. InLine(raisedOn, Stage')
    <3>1. \A s \in DOMAIN Rank : s # "dropped"
      BY DEF Rank
    <3>2. \A s \in DOMAIN Rank : Stage'[s] \subseteq Stage[s]
      BY <1>0, <1>5, <3>1 DEF Moved
    <3> QED BY <1>0, <3>2, LineShrinks
  <2>3. \A f \in Egresses : Rising(raisedOn, content', out'[f])
    BY <1>5 DEF LineInv, Rising
  <2> QED BY <1>1, <2>1, <2>2, <2>3 DEF LineInv
<1> QED BY <1>t, <1>2, <1>3, <1>4, <1>5, OnceWorker

(* An egress writes in the order in which it receives.                     *)
LEMMA LineEgress ==
    ASSUME OnceInv, LineInv, NEW e \in Egresses, EgressStep(e) PROVE LineInv'
<1> USE DEF OnceInv, BaseInv
<1>0. /\ out \in [Egresses -> Seq(Buffers)] /\ out[e] \in Seq(Buffers)
      /\ lines \in [Egresses -> Seq(Lines)] /\ lines[e] \in Seq(Lines)
      /\ ebuf \in [Egresses -> Buffers \cup {Nil}]
      /\ content \in [Buffers -> Events \cup {Nil}]
      /\ InLine(raisedOn, Stage) /\ DOMAIN Rank \subseteq DOMAIN Stage
      /\ \A i \in DOMAIN out[e] : out[e][i] \in Buffers
      /\ \A i \in DOMAIN lines[e] : lines[e][i] \in Lines
  <2>1. /\ out \in [Egresses -> Seq(Buffers)] /\ out[e] \in Seq(Buffers)
        /\ lines \in [Egresses -> Seq(Lines)] /\ lines[e] \in Seq(Lines)
        /\ ebuf \in [Egresses -> Buffers \cup {Nil}] /\ content \in [Buffers -> Events \cup {Nil}]
    BY DEF TypeOK, BufferTypeOK, EgressTypeOK, HeldInv
  <2> QED BY <2>1, QueueFacts, StageFacts DEF LineInv, Rank
<1>1. UNCHANGED <<raisedOn, ring, perf>>
  BY DEF EgressStep, EgressRecv, EgressDone, EgressWrite, EgressPut, kernelVars
<1>2. CASE (EgressDone(e) \/ EgressPut(e)) /\ Stage' = Stage
  <2>1. UNCHANGED <<out, lines, content>>
    BY <1>2 DEF EgressDone, EgressPut
  <2> QED BY <1>1, <1>2, <2>1, LineFrame
<1>3. CASE EgressRecv(e) /\ Moved(Stage, Stage', content[Head(out[e])], "out", "egress")
  <2> DEFINE b == Head(out[e])  r == content[b]
  <2>1. /\ out[e] # <<>> /\ out' = [out EXCEPT ![e] = Tail(@)] /\ UNCHANGED <<lines, content>>
    BY <1>3 DEF EgressRecv
  <2>2. Moved(Stage, Stage', r, "out", "egress")
    BY <1>3
  <2>3. /\ Rising(raisedOn, content, Tail(out[e]))
        /\ \A i \in DOMAIN out[e] : out[e][i] # b => Ahead(raisedOn, r, content[out[e][i]])
    BY <1>0, <2>1, RisingTail DEF LineInv
  <2>4. EgressOf(r.table) = e
    BY <1>0, <2>1, QueueFacts DEF RecordsRouted
  <2>5. \A y \in Stage["out"] \ {r} : Ahead(raisedOn, r, y)
    <3> SUFFICES ASSUME NEW y \in Stage["out"] \ {r}, y.table = r.table PROVE Ahead(raisedOn, r, y)
      BY DEF Ahead
    <3>1. PICK i \in DOMAIN out[e] : content[out[e][i]] = y
      BY <2>4, StageFacts DEF Queued
    <3>2. out[e][i] # b
      BY <3>1
    <3> QED BY <2>3, <3>1, <3>2
  <2> HIDE DEF b, r
  <2>6. InLine(raisedOn, Stage')
    <3>1. "out" \in DOMAIN Rank /\ "egress" \in DOMAIN Rank /\ Rank["out"] = Rank["egress"] + 1
      BY DEF Rank
    <3> QED BY <1>0, <2>2, <2>5, <3>1, LineMove
  <2>7. \A f \in Egresses : Rising(raisedOn, content', out'[f])
    BY <1>0, <2>1, <2>3 DEF LineInv
  <2> QED BY <1>1, <2>1, <2>6, <2>7 DEF LineInv
<1>4. CASE /\ EgressWrite(e)
           /\ \A f \in Egresses : \A i \in DOMAIN out[f] :
                 content'[out[f][i]] = content[out[f][i]]
           /\ Moved(Stage, Stage', content[ebuf[e]], "egress", "line")
  <2> DEFINE r == content[ebuf[e]]
  <2> DEFINE line == [rec |-> r, columns |-> ColumnsOf(e, r)]
  <2>1. /\ epc[e] = "write" /\ lines' = [lines EXCEPT ![e] = Append(@, line)] /\ UNCHANGED out
    BY <1>4 DEF EgressWrite
  <2>2. Moved(Stage, Stage', r, "egress", "line")
    BY <1>4
  <2>3. EgressOf(r.table) = e
    BY <2>1 DEF RecordsRouted
  <2>4. line \in Lines /\ RecOf[line] = r
    <3>1. line \in Lines
      BY <2>1, LineType
    <3> QED BY <3>1 DEF RecOf
  <2>5. \A y \in Stage["egress"] \ {r} : Ahead(raisedOn, r, y)
    <3> SUFFICES ASSUME NEW y \in Stage["egress"] \ {r}, y.table = r.table PROVE FALSE
      BY DEF Ahead
    <3> QED BY <2>3, StageFacts DEF Writing
  <2> HIDE DEF r, line
  <2>6. InLine(raisedOn, Stage')
    <3>1. "egress" \in DOMAIN Rank /\ "line" \in DOMAIN Rank /\ Rank["egress"] = Rank["line"] + 1
      BY DEF Rank
    <3> QED BY <1>0, <2>2, <2>5, <3>1, LineMove
  <2>7. ASSUME NEW i \in DOMAIN lines[e] PROVE Ahead(raisedOn, RecOf[lines[e][i]], RecOf[line])
    <3> DEFINE s == lines[e][i].rec
    <3>1. s \in Events /\ EgressOf(s.table) = e
      BY DEF HeldInv
    <3>2. s \in Stage["line"]
      BY <3>1, StageFacts DEF Written
    <3>3. r \in Stage["egress"] /\ Rank["line"] < Rank["egress"] /\ "line" \in DOMAIN Rank
          /\ "egress" \in DOMAIN Rank
      BY <2>2 DEF Moved, Rank
    <3>4. Ahead(raisedOn, s, r)
      BY <1>0, <3>2, <3>3 DEF InLine
    <3>5. RecOf[lines[e][i]] = s
      BY <1>0 DEF RecOf
    <3> QED BY <2>4, <3>4, <3>5
  <2>8. Rising(raisedOn, RecOf, Append(lines[e], line))
    BY <1>0, <2>4, <2>7, RisingAppend DEF LineInv
  <2>9. \A f \in Egresses : Rising(raisedOn, RecOf, lines'[f])
    BY <1>0, <2>1, <2>8 DEF LineInv
  <2>10. \A f \in Egresses : Rising(raisedOn, content', out'[f])
    BY <1>4, <2>1 DEF LineInv, Rising
  <2> QED BY <1>1, <2>6, <2>9, <2>10 DEF LineInv
<1> QED BY <1>2, <1>3, <1>4, OnceEgress

(* Every step keeps the line.                                              *)
LEMMA LineStep ==
    ASSUME OnceInv, LineInv, [Next]_vars PROVE LineInv'
<1>1. CASE UNCHANGED vars
  <2>1. UNCHANGED <<raisedOn, lost, ring, hand, perf, wev, dropped, out, lines, content, epc, ebuf>>
    BY <1>1 DEF vars, kernelVars, pollVars, workVars, egressVars
  <2>2. Stage' = Stage
    BY <2>1, OnceFrame
  <2> QED BY <2>1, <2>2, LineFrame
<1>2. CASE MainStep \/ StartFails \/ Interrupt
  <2>1. UNCHANGED <<raisedOn, ring, perf, out, lines, content>>
    BY <1>2 DEF MainStep, StartFails, StartEgress, EgressesStarted, AttachTracepoint, StartTable,
       TracepointStarted, AllStarted, BeginClose, StopPerfMap, Exit, StartEgressFails,
       StartTracepointFails, Interrupt, kernelVars, egressVars
  <2> QED BY <1>2, <2>1, OnceMain, LineFrame
<1> QED BY <1>1, <1>2, LineKernel, LinePoll, LineWorker, LineEgress DEF Next

(* With one worker for a table, the lines of the events of it that one CPU *)
(* raised stand in the order in which that CPU raised them: what was lost  *)
(* or dropped leaves a gap and no such event overtakes another, whatever   *)
(* the other CPUs, tables and egresses do.  One worker is what config.go   *)
(* sets by default; a ring per CPU is what InitPerfMap opens.              *)
THEOREM OrderKept == Spec => []OrderPreserved
<1> DEFINE Inv == OnceInv /\ LineInv
<1>1. Init => Inv
  <2>1. Init => RecordsRouted
    BY DEF Init, RecordsRouted
  <2>2. Init => BufferExclusive
    BY DEF Init, BufferExclusive, WorkersExclusive, QueuesExclusive, EgressesExclusive
  <2> QED BY <2>1, <2>2, TypeInit, HeldInit, OnceInit, LineInit DEF OnceInv, BaseInv
<1>2. Inv /\ [Next]_vars /\ TypeOK' /\ BufferExclusive' => Inv'
  BY OnceStep, LineStep
<1>3. Inv => OrderPreserved
  <2> SUFFICES ASSUME Inv, NEW e \in Egresses, NEW i \in DOMAIN lines[e], NEW j \in DOMAIN lines[e],
                      i < j
               PROVE  Ahead(raisedOn, lines[e][i].rec, lines[e][j].rec)
    BY DEF OrderPreserved, Ahead
  <2>1. lines[e] \in Seq(Lines)
    BY DEF OnceInv, BaseInv, TypeOK, EgressTypeOK
  <2>2. RecOf[lines[e][i]] = lines[e][i].rec /\ RecOf[lines[e][j]] = lines[e][j].rec
    BY <2>1, QueueFacts DEF RecOf
  <2> QED BY <2>2 DEF LineInv, Rising
<1> QED BY <1>1, <1>2, <1>3, TypeCorrect, Exclusive, PTL DEF Spec
=============================================================================
