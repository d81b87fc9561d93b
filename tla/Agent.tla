------------------------------- MODULE Agent -------------------------------
(***************************************************************************)
(* The tcpdog agent: main starts one egress per name and then attaches     *)
(* every tracepoint (tcpdog/main.go).  Each (tracepoint, IP version) has a *)
(* kernel perf ring per CPU, a poll goroutine of the gobpf library that    *)
(* reads these rings in turn, and a pool of workers (ebpf/bcc.go) that     *)
(* decode a raw event into a pooled buffer and offer the buffer to the     *)
(* egress channel without blocking.  An egress goroutine (egress/csv,      *)
(* egress/jsonl, egress/console) writes the buffer out and returns it to   *)
(* the pool.  An interrupt cancels the context; main then stops the perf   *)
(* maps and leaves.                                                        *)
(***************************************************************************)
EXTENDS Integers, Sequences, FiniteSets

CONSTANTS
    Tracepoints,   \* the configured tracepoints, in file order
    EgressType,    \* egress name -> its type
    Buffers,       \* identities of *bytes.Buffer
    Nil,           \* no buffer, no record
    CPUs,          \* the online CPUs: the numbers of a table's readers
    RingCap,       \* records a kernel perf ring holds
    PerfCap,       \* capacity of the raw event channel of one table
    OutCap,        \* capacity of an egress channel
    MaxEvents      \* bound: tracepoint -> events per table

Versions == {4, 6}
FileTypes == {"csv", "jsonl"}
Egresses == DOMAIN EgressType
N == Len(Tracepoints)

(* One perf table per tracepoint and IP version; its workers.              *)
Tables == {t \in (1..N) \X Versions : t[2] \in Tracepoints[t[1]].inet}
Workers == UNION {{t} \X (1..Tracepoints[t[1]].workers) : t \in Tables}

EgressOf(t) == Tracepoints[t[1]].egress
FieldsOf(t) == Tracepoints[t[1]].fields
TableOf(w) == w[1]

(* A decoded record is known by the table it came from and its number.     *)
Records == [table : Tables, seq : Nat]

TracepointConf == [fields : STRING, egress : Egresses,
                   inet : SUBSET Versions, workers : Nat]

(* A written line: the record and the columns it was cut with.             *)
Lines == [rec : Records \cup {Nil}, columns : STRING]

(* What validate() has established before main goes on: the egress of      *)
(* every tracepoint is configured and its inet versions are 4 or 6.        *)
ASSUME ConfigAssumption ==
    /\ Tracepoints \in Seq(TracepointConf)
    /\ \A e \in Egresses : EgressType[e] \in FileTypes \cup {"console"}

ASSUME CapacityAssumption ==
    /\ CPUs \subseteq Nat
    /\ RingCap \in Nat /\ PerfCap \in Nat /\ OutCap \in Nat
    /\ MaxEvents \in [1..N -> Nat]

ASSUME NilAssumption == Nil \notin Buffers /\ Nil \notin Records

VARIABLES
    main,       \* where main is
    idx,        \* its loop index over Tracepoints
    todo,       \* IP versions of Tracepoints[idx] not yet set up
    ctx,        \* the context: open, or done once cancelled
    columns,    \* egress -> the tracepoint its Start was called with, or 0
    perfMaps,   \* started perf maps, in order; Close takes them from here
    raisedOn,   \* table -> the CPU of every event raised so far, in order
    ring,       \* table -> CPU -> kernel perf ring
    lost,       \* table -> events raised that found no room in a ring
    poll,       \* table -> where the poll goroutine is
    turn,       \* table -> CPUs whose rings this poll still has to drain
    hand,       \* table -> the event its callback is sending, or 0
    perf,       \* table -> channel from the callback to the workers
    wpc,        \* worker -> where it is
    wev,        \* worker -> the raw event it took, or 0
    wbuf,       \* worker -> the buffer it holds, or Nil
    pool,       \* buffers in the sync.Pool
    content,    \* buffer -> the record in it, or Nil when empty
    out,        \* egress -> channel of buffers
    dropped,    \* records given up because the egress channel was full
    epc,        \* egress -> where its goroutine is
    ebuf,       \* egress -> the buffer it took, or Nil
    lines       \* egress -> what it has written, in order

mainVars   == <<main, idx, todo, ctx, columns, perfMaps>>
kernelVars == <<raisedOn, ring, lost>>
pollVars   == <<poll, turn, hand>>
workVars   == <<wpc, wev, wbuf>>
egressVars == <<epc, ebuf, lines>>
vars == <<mainVars, kernelVars, pollVars, perf, workVars, pool, content,
          out, dropped, egressVars>>

Init ==
    /\ main = "egress" /\ idx = 1 /\ todo = {} /\ ctx = "open"
    /\ columns = [e \in Egresses |-> 0]
    /\ perfMaps = <<>>
    /\ raisedOn = [t \in Tables |-> <<>>]
    /\ ring = [t \in Tables |-> [c \in CPUs |-> <<>>]]
    /\ lost = [t \in Tables |-> {}]
    /\ poll = [t \in Tables |-> "off"]
    /\ turn = [t \in Tables |-> {}]
    /\ hand = [t \in Tables |-> 0]
    /\ perf = [t \in Tables |-> <<>>]
    /\ wpc = [w \in Workers |-> "off"]
    /\ wev = [w \in Workers |-> 0]
    /\ wbuf = [w \in Workers |-> Nil]
    /\ pool = {}
    /\ content = [b \in Buffers |-> Nil]
    /\ out = [e \in Egresses |-> <<>>]
    /\ dropped = {}
    /\ epc = [e \in Egresses |-> "off"]
    /\ ebuf = [e \in Egresses |-> Nil]
    /\ lines = [e \in Egresses |-> <<>>]

(* Events of table t the kernel has raised.                                *)
Emitted(t) == Len(raisedOn[t])

(* The process runs: neither main's return nor logger.Fatal has ended it.  *)
Alive == main \notin {"exit", "fatal"}

(* ctx.Done() is closed.                                                   *)
Cancelled == ctx = "done"

-----------------------------------------------------------------------------
(* main: the two start-up loops, the wait and the deferred Close.          *)

(* Mutant: the channel map is not asked whether the egress is running.     *)
StartEgressAgain ==
    /\ main = "egress" /\ idx <= N
    /\ LET e == Tracepoints[idx].egress IN
         /\ columns' = [columns EXCEPT ![e] = idx]
         /\ epc' = [epc EXCEPT ![e] = "select"]
    /\ idx' = idx + 1
    /\ UNCHANGED <<main, todo, ctx, perfMaps, kernelVars, pollVars, perf,
                   workVars, pool, content, out, dropped, ebuf, lines>>

(* The egress of Tracepoints[idx] is started with this tracepoint unless   *)
(* an earlier one named it already.                                        *)
StartEgress ==
    /\ main = "egress" /\ idx <= N
    /\ LET e == Tracepoints[idx].egress IN
         IF columns[e] # 0
         THEN UNCHANGED <<columns, epc>>
         ELSE /\ columns' = [columns EXCEPT ![e] = idx]
              /\ epc' = [epc EXCEPT ![e] = "select"]
    /\ idx' = idx + 1
    /\ UNCHANGED <<main, todo, ctx, perfMaps, kernelVars, pollVars, perf,
                   workVars, pool, content, out, dropped, ebuf, lines>>

(* A file egress whose file is not configured or cannot be opened.         *)
StartEgressFails ==
    /\ main = "egress" /\ idx <= N
    /\ LET e == Tracepoints[idx].egress
       IN columns[e] = 0 /\ EgressType[e] \in FileTypes
    /\ main' = "fatal"
    /\ UNCHANGED <<idx, todo, ctx, columns, perfMaps, kernelVars, pollVars,
                   perf, workVars, pool, content, out, dropped, egressVars>>

EgressesStarted ==
    /\ main = "egress" /\ idx > N
    /\ main' = "attach" /\ idx' = 1
    /\ UNCHANGED <<todo, ctx, columns, perfMaps, kernelVars, pollVars, perf,
                   workVars, pool, content, out, dropped, egressVars>>

(* BPF.Start up to its loop: LoadTracepoint and AttachTracepoint.  From    *)
(* here on the kernel runs the program.                                    *)
AttachTracepoint ==
    /\ main = "attach" /\ idx <= N
    /\ main' = "tables" /\ todo' = Tracepoints[idx].inet
    /\ UNCHANGED <<idx, ctx, columns, perfMaps, kernelVars, pollVars, perf,
                   workVars, pool, content, out, dropped, egressVars>>

(* One turn of BPF.Start's loop over tp.INet: the perf map is opened, its  *)
(* workers and its poll goroutine are started.                             *)
StartTable(v) ==
    /\ main = "tables" /\ v \in todo
    /\ todo' = todo \ {v}
    /\ LET t == <<idx, v>> IN
         /\ wpc' = [w \in Workers |-> IF TableOf(w) = t THEN "select" ELSE wpc[w]]
         /\ poll' = [poll EXCEPT ![t] = "select"]
         /\ perfMaps' = Append(perfMaps, t)
    /\ UNCHANGED <<main, idx, ctx, columns, kernelVars, turn, hand, perf, wev,
                   wbuf, pool, content, out, dropped, egressVars>>

TracepointStarted ==
    /\ main = "tables" /\ todo = {}
    /\ main' = "attach" /\ idx' = idx + 1
    /\ UNCHANGED <<todo, ctx, columns, perfMaps, kernelVars, pollVars, perf,
                   workVars, pool, content, out, dropped, egressVars>>

(* Loading, attaching or opening a perf map fails: logger.Fatal.           *)
StartTracepointFails ==
    /\ \/ main = "attach" /\ idx <= N
       \/ main = "tables" /\ todo # {}
    /\ main' = "fatal"
    /\ UNCHANGED <<idx, todo, ctx, columns, perfMaps, kernelVars, pollVars,
                   perf, workVars, pool, content, out, dropped, egressVars>>

AllStarted ==
    /\ main = "attach" /\ idx > N
    /\ main' = "wait"
    /\ UNCHANGED <<idx, todo, ctx, columns, perfMaps, kernelVars, pollVars,
                   perf, workVars, pool, content, out, dropped, egressVars>>

(* The signal handler cancels the context, at any time.                    *)
Interrupt ==
    /\ Alive /\ ~Cancelled
    /\ ctx' = "done"
    /\ UNCHANGED <<main, idx, todo, columns, perfMaps, kernelVars, pollVars, perf,
                   workVars, pool, content, out, dropped, egressVars>>

(* main leaves <-ctx.Done() and runs the deferred e.Close().               *)
BeginClose ==
    /\ main = "wait" /\ Cancelled
    /\ main' = "close"
    /\ UNCHANGED <<idx, todo, ctx, columns, perfMaps, kernelVars, pollVars,
                   perf, workVars, pool, content, out, dropped, egressVars>>

(* Mutant: Close stops the first perf map again and again.                 *)
StopFirstPerfMap ==
    /\ main = "close" /\ perfMaps # <<>>
    /\ poll[Head(perfMaps)] = "select"
    /\ poll' = [poll EXCEPT ![Head(perfMaps)] = "stopped"]
    /\ UNCHANGED <<main, idx, todo, ctx, columns, perfMaps, kernelVars, turn, hand,
                   perf, workVars, pool, content, out, dropped, egressVars>>

(* perfMap.Stop() hands a value over an unbuffered channel: it waits for   *)
(* the poll goroutine to be at its select.                                 *)
StopPerfMap ==
    /\ main = "close" /\ perfMaps # <<>>
    /\ poll[Head(perfMaps)] = "select"
    /\ poll' = [poll EXCEPT ![Head(perfMaps)] = "stopped"]
    /\ perfMaps' = Tail(perfMaps)
    /\ UNCHANGED <<main, idx, todo, ctx, columns, kernelVars, turn, hand, perf,
                   workVars, pool, content, out, dropped, egressVars>>

(* b.m.Close() detaches the program and main returns.                      *)
Exit ==
    /\ main = "close" /\ perfMaps = <<>>
    /\ main' = "exit"
    /\ UNCHANGED <<idx, todo, ctx, columns, perfMaps, kernelVars, pollVars,
                   perf, workVars, pool, content, out, dropped, egressVars>>

MainStep ==
    \/ StartEgress \/ EgressesStarted
    \/ AttachTracepoint \/ (\E v \in Versions : StartTable(v)) \/ TracepointStarted
    \/ AllStarted \/ BeginClose \/ StopPerfMap \/ Exit

StartFails == StartEgressFails \/ StartTracepointFails

-----------------------------------------------------------------------------
(* The kernel and the poll goroutine of gobpf.                             *)

(* The BPF program of table t is attached.                                 *)
Attached(t) == \/ main = "tables" /\ t[1] <= idx
               \/ main = "attach" /\ t[1] < idx
               \/ main \in {"wait", "close"}

(* The program submits an event to the ring of the CPU it runs on.  It is  *)
(* lost when the ring is full or has not been opened yet (no lost-channel  *)
(* is given to InitPerfMap).                                               *)
KernelEvent(t) ==
    /\ Attached(t) /\ Emitted(t) < MaxEvents[t[1]]
    /\ \E c \in CPUs :
         /\ raisedOn' = [raisedOn EXCEPT ![t] = Append(@, c)]
         /\ IF poll[t] # "off" /\ Len(ring[t][c]) < RingCap
            THEN ring' = [ring EXCEPT ![t][c] = Append(@, Emitted(t) + 1)]
                 /\ UNCHANGED lost
            ELSE lost' = [lost EXCEPT ![t] = @ \cup {Emitted(t) + 1}]
                 /\ UNCHANGED ring
    /\ UNCHANGED <<mainVars, pollVars, perf, workVars, pool, content, out, dropped,
                   egressVars>>

StopPending(t) == main = "close" /\ perfMaps # <<>> /\ Head(perfMaps) = t

(* The rings of table t with something in them.                            *)
Readable(t) == {c \in CPUs : ring[t][c] # <<>>}

(* The poll goroutine finds its stop channel not ready and polls its       *)
(* readers; a poll that finds every ring empty changes nothing.            *)
PollReaders(t) ==
    /\ Alive /\ poll[t] = "select" /\ ~StopPending(t) /\ Readable(t) # {}
    /\ poll' = [poll EXCEPT ![t] = "drain"]
    /\ turn' = [turn EXCEPT ![t] = Readable(t)]
    /\ UNCHANGED <<mainVars, kernelVars, hand, perf, workVars, pool, content, out,
                   dropped, egressVars>>

(* The reader whose turn it is: they are visited in the order of the CPUs. *)
Turn(t, c) == c \in turn[t] /\ \A d \in turn[t] : c <= d

(* It takes one event off that ring and calls back ...                     *)
PollRead(t) ==
    /\ Alive /\ poll[t] = "drain"
    /\ \E c \in CPUs :
         /\ Turn(t, c) /\ ring[t][c] # <<>>
         /\ hand' = [hand EXCEPT ![t] = Head(ring[t][c])]
         /\ ring' = [ring EXCEPT ![t][c] = Tail(@)]
    /\ poll' = [poll EXCEPT ![t] = "deliver"]
    /\ UNCHANGED <<mainVars, raisedOn, lost, turn, perf, workVars, pool, content, out,
                   dropped, egressVars>>

(* ... the callback sends it, blocking, to the channel of the workers.     *)
PollDeliver(t) ==
    /\ Alive /\ poll[t] = "deliver" /\ Len(perf[t]) < PerfCap
    /\ perf' = [perf EXCEPT ![t] = Append(@, hand[t])]
    /\ hand' = [hand EXCEPT ![t] = 0]
    /\ poll' = [poll EXCEPT ![t] = "drain"]
    /\ UNCHANGED <<mainVars, kernelVars, turn, workVars, pool, content, out, dropped,
                   egressVars>>

(* The ring is drained: on to the next one or, after the last, back to the *)
(* select on the stop channel.                                             *)
PollReturn(t) ==
    /\ Alive /\ poll[t] = "drain"
    /\ \E c \in CPUs :
         /\ Turn(t, c) /\ ring[t][c] = <<>>
         /\ turn' = [turn EXCEPT ![t] = @ \ {c}]
    /\ poll' = [poll EXCEPT ![t] = IF turn'[t] = {} THEN "select" ELSE "drain"]
    /\ UNCHANGED <<mainVars, kernelVars, hand, perf, workVars, pool, content, out,
                   dropped, egressVars>>

PollStep(t) == PollReaders(t) \/ PollRead(t) \/ PollDeliver(t) \/ PollReturn(t)

-----------------------------------------------------------------------------
(* A worker of BPF.Start.                                                  *)

(* Mutant: no record is taken while the egress channel is full.            *)
WorkerRecvThrottled(w) ==
    LET t == TableOf(w) IN
    /\ Alive /\ wpc[w] = "select" /\ perf[t] # <<>> /\ Len(out[EgressOf(t)]) < OutCap
    /\ wev' = [wev EXCEPT ![w] = Head(perf[t])]
    /\ perf' = [perf EXCEPT ![t] = Tail(@)]
    /\ wpc' = [wpc EXCEPT ![w] = "get"]
    /\ UNCHANGED <<mainVars, kernelVars, pollVars, wbuf, pool, content, out, dropped,
                   egressVars>>

WorkerRecv(w) ==
    LET t == TableOf(w) IN
    /\ Alive /\ wpc[w] = "select" /\ perf[t] # <<>>
    /\ wev' = [wev EXCEPT ![w] = Head(perf[t])]
    /\ perf' = [perf EXCEPT ![t] = Tail(@)]
    /\ wpc' = [wpc EXCEPT ![w] = "get"]
    /\ UNCHANGED <<mainVars, kernelVars, pollVars, wbuf, pool, content, out, dropped,
                   egressVars>>

WorkerDone(w) ==
    /\ Alive /\ wpc[w] = "select" /\ Cancelled
    /\ wpc' = [wpc EXCEPT ![w] = "done"]
    /\ UNCHANGED <<mainVars, kernelVars, pollVars, perf, wev, wbuf, pool, content,
                   out, dropped, egressVars>>

(* Buffers some goroutine or channel refers to.                            *)
InUse(b) == \/ \E w \in Workers : wbuf[w] = b
            \/ \E e \in Egresses : ebuf[e] = b \/ \E i \in DOMAIN out[e] : out[e][i] = b

(* Mutant: the worker looks at the context again after it took an event.   *)
WorkerGetGivesUp(w) ==
    /\ Alive /\ wpc[w] = "get"
    /\ \/ /\ Cancelled
          /\ wpc' = [wpc EXCEPT ![w] = "done"]
          /\ wev' = [wev EXCEPT ![w] = 0]
          /\ UNCHANGED <<wbuf, pool, content>>
       \/ /\ ~Cancelled
          /\ \E b \in Buffers :
               /\ b \in pool \/ ~InUse(b)
               /\ wbuf' = [wbuf EXCEPT ![w] = b]
               /\ pool' = pool \ {b}
               /\ content' = [content EXCEPT ![b] = Nil]
          /\ wpc' = [wpc EXCEPT ![w] = "decode"]
          /\ UNCHANGED wev
    /\ UNCHANGED <<mainVars, kernelVars, pollVars, perf, out, dropped, egressVars>>

(* BufPool.Get returns a pooled buffer or, also when the collector has     *)
(* emptied the pool behind its back, a new one; the worker resets it.      *)
WorkerGet(w) ==
    /\ Alive /\ wpc[w] = "get"
    /\ \E b \in Buffers :
         /\ b \in pool \/ ~InUse(b)
         /\ wbuf' = [wbuf EXCEPT ![w] = b]
         /\ pool' = pool \ {b}
         /\ content' = [content EXCEPT ![b] = Nil]
    /\ wpc' = [wpc EXCEPT ![w] = "decode"]
    /\ UNCHANGED <<mainVars, kernelVars, pollVars, perf, wev, out, dropped,
                   egressVars>>

WorkerDecode(w) ==
    /\ Alive /\ wpc[w] = "decode"
    /\ content' = [content EXCEPT ![wbuf[w]] = [table |-> TableOf(w), seq |-> wev[w]]]
    /\ wpc' = [wpc EXCEPT ![w] = "send"]
    /\ UNCHANGED <<mainVars, kernelVars, pollVars, perf, wev, wbuf, pool, out, dropped,
                   egressVars>>

(* The state of a worker that goes back to its select.                     *)
WorkerReleases(w) ==
    /\ wpc' = [wpc EXCEPT ![w] = "select"]
    /\ wev' = [wev EXCEPT ![w] = 0]
    /\ wbuf' = [wbuf EXCEPT ![w] = Nil]

(* Mutant: the capacity test is off by one.                                *)
WorkerSendOneMore(w) ==
    LET e == EgressOf(TableOf(w)) IN
    /\ Alive /\ wpc[w] = "send"
    /\ Len(out[e]) <= OutCap
    /\ out' = [out EXCEPT ![e] = Append(@, wbuf[w])]
    /\ WorkerReleases(w)
    /\ UNCHANGED <<mainVars, kernelVars, pollVars, perf, pool, content, dropped,
                   egressVars>>

(* Mutant: at a full channel the event goes back to the raw event channel. *)
WorkerSendRequeues(w) ==
    LET e == EgressOf(TableOf(w))
        t == TableOf(w) IN
    /\ Alive /\ wpc[w] = "send"
    /\ \/ /\ Len(out[e]) < OutCap
          /\ out' = [out EXCEPT ![e] = Append(@, wbuf[w])]
          /\ UNCHANGED <<perf, content>>
       \/ /\ Len(out[e]) >= OutCap /\ Len(perf[t]) < PerfCap
          /\ perf' = [perf EXCEPT ![t] = Append(@, wev[w])]
          /\ content' = [content EXCEPT ![wbuf[w]] = Nil]
          /\ UNCHANGED out
    /\ WorkerReleases(w)
    /\ UNCHANGED <<mainVars, kernelVars, pollVars, pool, dropped, egressVars>>

(* The select with a default: a full channel drops the record, and its     *)
(* buffer is left to the collector.                                        *)
WorkerSend(w) ==
    LET e == EgressOf(TableOf(w)) IN
    /\ Alive /\ wpc[w] = "send"
    /\ IF Len(out[e]) < OutCap
       THEN /\ out' = [out EXCEPT ![e] = Append(@, wbuf[w])]
            /\ UNCHANGED <<dropped, content>>
       ELSE /\ dropped' = dropped \cup {content[wbuf[w]]}
            /\ content' = [content EXCEPT ![wbuf[w]] = Nil]
            /\ UNCHANGED out
    /\ WorkerReleases(w)
    /\ UNCHANGED <<mainVars, kernelVars, pollVars, perf, pool, egressVars>>

WorkerStep(w) == \/ WorkerRecv(w) \/ WorkerDone(w) \/ WorkerGet(w)
                 \/ WorkerDecode(w) \/ WorkerSend(w)

-----------------------------------------------------------------------------
(* The goroutine of a csv, jsonl or console egress.                        *)

(* Mutant: the buffer goes back to the pool as soon as it is received.     *)
EgressRecvPuts(e) ==
    /\ Alive /\ epc[e] = "select" /\ out[e] # <<>>
    /\ ebuf' = [ebuf EXCEPT ![e] = Head(out[e])]
    /\ pool' = pool \cup {Head(out[e])}
    /\ out' = [out EXCEPT ![e] = Tail(@)]
    /\ epc' = [epc EXCEPT ![e] = "write"]
    /\ UNCHANGED <<mainVars, kernelVars, pollVars, perf, workVars, content, dropped,
                   lines>>

EgressRecv(e) ==
    /\ Alive /\ epc[e] = "select" /\ out[e] # <<>>
    /\ ebuf' = [ebuf EXCEPT ![e] = Head(out[e])]
    /\ out' = [out EXCEPT ![e] = Tail(@)]
    /\ epc' = [epc EXCEPT ![e] = "write"]
    /\ UNCHANGED <<mainVars, kernelVars, pollVars, perf, workVars, pool, content,
                   dropped, lines>>

(* The console egress does not look at the context.                        *)
EgressDone(e) ==
    /\ Alive /\ epc[e] = "select" /\ Cancelled /\ EgressType[e] \in FileTypes
    /\ epc' = [epc EXCEPT ![e] = "done"]
    /\ UNCHANGED <<mainVars, kernelVars, pollVars, perf, workVars, pool, content, out,
                   dropped, ebuf, lines>>

(* The columns under which a record is read: csv and jsonl cut it at the   *)
(* offsets, and under the header, of the tracepoint they were started      *)
(* with; the console prints the record as it is.                           *)
ColumnsOf(e, rec) ==
    IF EgressType[e] \in FileTypes \/ rec = Nil
    THEN Tracepoints[columns[e]].fields
    ELSE FieldsOf(rec.table)

(* marshal and flush.  Reading a buffer empties it, printing does not.     *)
EgressWrite(e) ==
    /\ Alive /\ epc[e] = "write"
    /\ LET rec == content[ebuf[e]]
       IN lines' = [lines EXCEPT ![e] =
                       Append(@, [rec |-> rec, columns |-> ColumnsOf(e, rec)])]
    /\ content' = IF EgressType[e] \in FileTypes
                  THEN [content EXCEPT ![ebuf[e]] = Nil] ELSE content
    /\ epc' = [epc EXCEPT ![e] = "put"]
    /\ UNCHANGED <<mainVars, kernelVars, pollVars, perf, workVars, pool, out, dropped,
                   ebuf>>

(* Mutant: a file egress that leaves after its first record.               *)
EgressPutLeaves(e) ==
    /\ Alive /\ epc[e] = "put"
    /\ pool' = pool \cup {ebuf[e]}
    /\ ebuf' = [ebuf EXCEPT ![e] = Nil]
    /\ epc' = [epc EXCEPT ![e] = "done"]
    /\ UNCHANGED <<mainVars, kernelVars, pollVars, perf, workVars, content, out,
                   dropped, lines>>

EgressPut(e) ==
    /\ Alive /\ epc[e] = "put"
    /\ pool' = pool \cup {ebuf[e]}
    /\ ebuf' = [ebuf EXCEPT ![e] = Nil]
    /\ epc' = [epc EXCEPT ![e] = "select"]
    /\ UNCHANGED <<mainVars, kernelVars, pollVars, perf, workVars, content, out,
                   dropped, lines>>

EgressStep(e) == EgressRecv(e) \/ EgressDone(e) \/ EgressWrite(e) \/ EgressPut(e)

-----------------------------------------------------------------------------
Next == \/ MainStep \/ StartFails \/ Interrupt
        \/ \E t \in Tables : KernelEvent(t) \/ PollStep(t)
        \/ \E w \in Workers : WorkerStep(w)
        \/ \E e \in Egresses : EgressStep(e)

Spec == Init /\ [][Next]_vars

(* The Go scheduler runs every goroutine that can run.                     *)
PollFairness == \A t \in Tables : WF_vars(PollStep(t))
WorkerFairness == \A w \in Workers : WF_vars(WorkerStep(w))
EgressFairness == \A e \in Egresses : WF_vars(EgressStep(e))

FairSpec == Spec /\ WF_vars(MainStep) /\ PollFairness /\ WorkerFairness
                 /\ EgressFairness

(* The same without the egress: a disk or a terminal that never returns.   *)
StalledSpec == Spec /\ WF_vars(MainStep) /\ PollFairness /\ WorkerFairness
-----------------------------------------------------------------------------
MainTypeOK ==
    /\ main \in {"egress", "attach", "tables", "wait", "close", "exit", "fatal"}
    /\ idx \in 1..(N + 1)
    /\ todo \subseteq Versions
    /\ main = "tables" => idx \in 1..N /\ todo \subseteq Tracepoints[idx].inet
    /\ ctx \in {"open", "done"}
    /\ columns \in [Egresses -> 0..N]
    /\ perfMaps \in Seq(Tables)

KernelTypeOK ==
    /\ raisedOn \in [Tables -> Seq(CPUs)]
    /\ ring \in [Tables -> [CPUs -> Seq(Nat)]]
    /\ lost \in [Tables -> SUBSET Nat]
    /\ poll \in [Tables -> {"off", "select", "drain", "deliver", "stopped"}]
    /\ turn \in [Tables -> SUBSET CPUs]
    /\ \A t \in Tables : poll[t] \in {"drain", "deliver"} <=> turn[t] # {}
    /\ hand \in [Tables -> Nat]
    /\ perf \in [Tables -> Seq(Nat)]
    /\ \A t \in Tables : Len(perf[t]) <= PerfCap

WorkerTypeOK ==
    /\ wpc \in [Workers -> {"off", "select", "get", "decode", "send", "done"}]
    /\ wev \in [Workers -> Nat]
    /\ wbuf \in [Workers -> Buffers \cup {Nil}]
    /\ \A w \in Workers : wpc[w] \in {"decode", "send"} <=> wbuf[w] # Nil

BufferTypeOK ==
    /\ pool \subseteq Buffers
    /\ content \in [Buffers -> Records \cup {Nil}]
    /\ out \in [Egresses -> Seq(Buffers)]
    /\ \A e \in Egresses : Len(out[e]) <= OutCap
    /\ dropped \subseteq Records \cup {Nil}

EgressTypeOK ==
    /\ epc \in [Egresses -> {"off", "select", "write", "put", "done"}]
    /\ ebuf \in [Egresses -> Buffers \cup {Nil}]
    /\ \A e \in Egresses : epc[e] \in {"write", "put"} <=> ebuf[e] # Nil
    /\ \A e \in Egresses : epc[e] # "off" => columns[e] # 0
    /\ lines \in [Egresses -> Seq(Lines)]

(* main has not come to table t yet.                                       *)
NotStarted(t) ==
    \/ main = "egress"
    \/ main = "attach" /\ t[1] >= idx
    \/ main = "tables" /\ (t[1] > idx \/ (t[1] = idx /\ t[2] \in todo))

StartTypeOK ==
    \A t \in Tables : NotStarted(t) =>
        poll[t] = "off" /\ \A w \in Workers : TableOf(w) = t => wpc[w] = "off"

(* Every variable holds a value of its kind, the channels of ebpf/bcc.go   *)
(* and tcpdog/main.go never hold more than their capacity, a worker or an  *)
(* egress holds a buffer exactly between its Get or receive and its send   *)
(* or Put, no egress goroutine runs that was not given a tracepoint, and   *)
(* no goroutine of a table runs before main has set the table up.          *)
TypeOK == /\ MainTypeOK /\ KernelTypeOK /\ WorkerTypeOK /\ BufferTypeOK
          /\ EgressTypeOK /\ StartTypeOK

(* A buffer handed round between workers, egress channels, egress          *)
(* goroutines and the sync.Pool has one owner at a time: nobody decodes    *)
(* into, sends or pools a buffer that somebody else still refers to.       *)
WorkersExclusive ==
    \A w \in Workers : wbuf[w] # Nil =>
        /\ wbuf[w] \notin pool
        /\ \A v \in Workers : wbuf[v] = wbuf[w] => v = w
        /\ \A e \in Egresses : /\ ebuf[e] # wbuf[w]
                                /\ \A i \in DOMAIN out[e] : out[e][i] # wbuf[w]

QueuesExclusive ==
    \A e \in Egresses : \A i \in DOMAIN out[e] :
        /\ out[e][i] \notin pool
        /\ \A f \in Egresses : /\ ebuf[f] # out[e][i]
                                /\ \A j \in DOMAIN out[f] :
                                      out[f][j] = out[e][i] => e = f /\ i = j

EgressesExclusive ==
    \A e \in Egresses : ebuf[e] # Nil =>
        /\ ebuf[e] \notin pool
        /\ \A f \in Egresses : ebuf[f] = ebuf[e] => f = e

BufferExclusive == WorkersExclusive /\ QueuesExclusive /\ EgressesExclusive

(* Where event k of table t is: in how many places between the kernel and  *)
(* the file it can be found.                                               *)
Places(t, k) ==
    LET rec == [table |-> t, seq |-> k] IN
    {<<"lost", i>> : i \in lost[t] \cap {k}}
      \cup (UNION {{<<"ring", c, i>> :
                      i \in {j \in DOMAIN ring[t][c] : ring[t][c][j] = k}}
                    : c \in CPUs})
      \cup {<<"hand", i>> : i \in {k} \cap {hand[t]}}
      \cup {<<"perf", i>> : i \in {j \in DOMAIN perf[t] : perf[t][j] = k}}
      \cup {<<"worker", w>> : w \in {v \in Workers : TableOf(v) = t /\ wev[v] = k}}
      \cup {<<"dropped", r>> : r \in dropped \cap {rec}}
      \cup (UNION {{<<"out", e, i>> :
                      i \in {j \in DOMAIN out[e] : content[out[e][j]] = rec}}
                    : e \in Egresses})
      \cup {<<"egress", e>> :
              e \in {f \in Egresses : epc[f] = "write" /\ content[ebuf[f]] = rec}}
      \cup (UNION {{<<"line", e, i>> :
                      i \in {j \in DOMAIN lines[e] : lines[e][j].rec = rec}}
                    : e \in Egresses})

(* No event is duplicated, overwritten or silently gone between the ring   *)
(* and the output: each one the kernel raised is in exactly one place, and *)
(* a record that is neither queued nor written was counted as lost in the  *)
(* ring or dropped at a full egress channel.                               *)
Conservation ==
    \A t \in Tables : \A k \in 1..Emitted(t) : Cardinality(Places(t, k)) = 1

(* With one worker per table (the default) the output keeps the order of   *)
(* the events of that table that one CPU raised, whatever was dropped in   *)
(* between.  Between two CPUs nothing keeps it: their rings are read one   *)
(* after the other.                                                        *)
OrderPreserved ==
    \A e \in Egresses : \A i, j \in DOMAIN lines[e] :
        LET a == lines[e][i].rec
            b == lines[e][j].rec
        IN i < j /\ a # Nil /\ b # Nil /\ a.table = b.table
             /\ Tracepoints[a.table[1]].workers = 1
             /\ raisedOn[a.table][a.seq] = raisedOn[a.table][b.seq]
               => a.seq < b.seq

(* The first tracepoint of the file that names egress e.                   *)
NamesFirst(f, e) == /\ Tracepoints[f].egress = e
                    /\ \A g \in 1..(f - 1) : Tracepoints[g].egress # e

(* Which columns a line stands under when tracepoints with different field *)
(* lists share an egress: main starts a file egress once, with the first   *)
(* tracepoint that names it, so that one's field list cuts the records of  *)
(* all of them, while the console prints each under its own.  No line is   *)
(* of another egress's tracepoint or of an emptied buffer.                 *)
ColumnsOfFirst ==
    \A e \in Egresses : \A i \in DOMAIN lines[e] :
        /\ lines[e][i].rec \in Records
        /\ EgressOf(lines[e][i].rec.table) = e
        /\ IF EgressType[e] \in FileTypes
           THEN \A f \in 1..N : NamesFirst(f, e) =>
                    lines[e][i].columns = Tracepoints[f].fields
           ELSE lines[e][i].columns = FieldsOf(lines[e][i].rec.table)

(* Why: from the decode on, the content of a buffer stays the record of a  *)
(* tracepoint of the egress the buffer travels to.                         *)
RecordsRouted ==
    /\ \A w \in Workers : wpc[w] = "send" =>
          /\ content[wbuf[w]] \in Records
          /\ EgressOf(content[wbuf[w]].table) = EgressOf(TableOf(w))
    /\ \A e \in Egresses : \A i \in DOMAIN out[e] :
          content[out[e][i]] \in Records /\ EgressOf(content[out[e][i]].table) = e
    /\ \A e \in Egresses : epc[e] = "write" =>
          content[ebuf[e]] \in Records /\ EgressOf(content[ebuf[e]].table) = e

(* A stalled egress never holds the kernel's ring back: the callback that  *)
(* waits for room in the raw event channel gets it, because the workers    *)
(* drop rather than wait at a full egress channel.                         *)
NoBackpressure ==
    \A t \in Tables :
        poll[t] = "deliver" ~> (poll[t] # "deliver" \/ Cancelled \/ ~Alive)

(* A record accepted by an egress channel is written out, unless the agent *)
(* is told to stop.                                                        *)
Delivered ==
    \A t \in Tables : \A k \in 1..MaxEvents[t[1]] :
        (\E i \in DOMAIN out[EgressOf(t)] :
            content[out[EgressOf(t)][i]] = [table |-> t, seq |-> k])
        ~> ((\E i \in DOMAIN lines[EgressOf(t)] :
               lines[EgressOf(t)][i].rec = [table |-> t, seq |-> k])
            \/ Cancelled \/ ~Alive)

(* Interrupted, the agent closes its perf maps and leaves.                 *)
ShutdownCompletes == Cancelled ~> ~Alive
=============================================================================
