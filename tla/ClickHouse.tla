----------------------------- MODULE ClickHouse -----------------------------
(***************************************************************************)
(* The ClickHouse ingestion of the server (ingestion/clickhouse): workers  *)
(* turn what arrives on the server's channel into rows, and one goroutine  *)
(* per configured connection collects rows in a transaction that it        *)
(* commits when BatchSize rows or the flush timer ask for it.  A database  *)
(* call may fail at any time; a failed Begin is tried again and changes    *)
(* nothing.                                                                *)
(***************************************************************************)
EXTENDS Integers, Sequences, FiniteSets

CONSTANTS
    Ingesters,    \* the ingest goroutines: cfg.Connections of them
    Workers,      \* the iWorker goroutines: cfg.Workers of them
    BatchSize,    \* cfg.BatchSize
    IdleLimit,    \* 300 / cfg.FlushInterval - 1, empty ticks before a new Begin
    ChCap,        \* capacity of the server's channel (1000 in server/main)
    RowCap,       \* capacity of iCh (1000)
    MaxRecords,   \* bound: records that arrive
    MaxLeaks      \* bound: open transactions left behind are counted up to this

ASSUME ConstantAssumption ==
    /\ BatchSize \in Nat \ {0} /\ IdleLimit \in Int
    /\ ChCap \in Nat /\ RowCap \in Nat /\ MaxRecords \in Nat /\ MaxLeaks \in Nat
    /\ IsFiniteSet(Ingesters) /\ IsFiniteSet(Workers)

Records == 1..MaxRecords

VARIABLES
    arrived,    \* records put into the server's channel so far
    ctx,        \* the server's context: open, or done
    ch,         \* the server's channel
    wpc, wrec,  \* worker -> where it is, and the record it holds or 0
    iCh,        \* the channel of rows
    ipc,        \* ingester -> where it is
    rows,       \* ingester -> rows executed in its transaction
    counter,    \* ingester -> rows counted towards BatchSize
    timeouts,   \* ingester -> empty ticks of this transaction
    armed,      \* ingesters whose timer is running
    ticked,     \* ingesters with a tick in timer.C
    leaked,     \* transactions neither committed nor rolled back
    stored,     \* rows committed
    failed      \* rows whose Exec or Commit failed

workVars == <<wpc, wrec>>
batchVars == <<ipc, rows, counter, timeouts>>
timerVars == <<armed, ticked>>
vars == <<arrived, ctx, ch, workVars, iCh, batchVars, timerVars, leaked, stored,
          failed>>

Init ==
    /\ arrived = 0 /\ ctx = "open" /\ ch = <<>>
    /\ wpc = [w \in Workers |-> "select"] /\ wrec = [w \in Workers |-> 0]
    /\ iCh = <<>>
    /\ ipc = [i \in Ingesters |-> "begin"]
    /\ rows = [i \in Ingesters |-> {}]
    /\ counter = [i \in Ingesters |-> 0]
    /\ timeouts = [i \in Ingesters |-> 0]
    /\ armed = Ingesters /\ ticked = {}      \* time.NewTimer(10 s)
    /\ leaked = 0 /\ stored = {} /\ failed = {}

-----------------------------------------------------------------------------
(* The ingress puts a record into the server's channel.                    *)
Arrive ==
    /\ arrived < MaxRecords /\ Len(ch) < ChCap
    /\ arrived' = arrived + 1 /\ ch' = Append(ch, arrived + 1)
    /\ UNCHANGED <<ctx, workVars, iCh, batchVars, timerVars, leaked, stored, failed>>

Cancel ==
    /\ ctx = "open" /\ ctx' = "done"
    /\ UNCHANGED <<arrived, ch, workVars, iCh, batchVars, timerVars, leaked, stored,
                   failed>>

(* iWorker                                                                 *)
WorkerRecv(w) ==
    /\ wpc[w] = "select" /\ ch # <<>>
    /\ wrec' = [wrec EXCEPT ![w] = Head(ch)] /\ ch' = Tail(ch)
    /\ wpc' = [wpc EXCEPT ![w] = "send"]
    /\ UNCHANGED <<arrived, ctx, iCh, batchVars, timerVars, leaked, stored, failed>>

WorkerSend(w) ==
    /\ wpc[w] = "send" /\ Len(iCh) < RowCap
    /\ iCh' = Append(iCh, wrec[w])
    /\ wrec' = [wrec EXCEPT ![w] = 0]
    /\ wpc' = [wpc EXCEPT ![w] = "select"]
    /\ UNCHANGED <<arrived, ctx, ch, batchVars, timerVars, leaked, stored, failed>>

WorkerDone(w) ==
    /\ wpc[w] = "select" /\ ctx = "done"
    /\ wpc' = [wpc EXCEPT ![w] = "done"]
    /\ UNCHANGED <<arrived, ctx, ch, wrec, iCh, batchVars, timerVars, leaked, stored,
                   failed>>

WorkerStep(w) == WorkerRecv(w) \/ WorkerSend(w) \/ WorkerDone(w)

-----------------------------------------------------------------------------
(* ingest                                                                  *)
TimerFires(i) ==
    /\ i \in armed
    /\ armed' = armed \ {i} /\ ticked' = ticked \cup {i}
    /\ UNCHANGED <<arrived, ctx, ch, workVars, iCh, batchVars, leaked, stored, failed>>

LeakOne == leaked' = IF leaked < MaxLeaks THEN leaked + 1 ELSE leaked

(* connect.Begin()                                                         *)
BeginTx(i) ==
    /\ ipc[i] = "begin"
    /\ ipc' = [ipc EXCEPT ![i] = "prepare"]
    /\ rows' = [rows EXCEPT ![i] = {}]
    /\ UNCHANGED <<arrived, ctx, ch, workVars, iCh, counter, timeouts, timerVars,
                   leaked, stored, failed>>

(* Mutant: the timer is not set again for the new batch.                   *)
PrepareUnarmed(i) ==
    /\ ipc[i] = "prepare"
    /\ ipc' = [ipc EXCEPT ![i] = "loop"]
    /\ counter' = [counter EXCEPT ![i] = 0]
    /\ timeouts' = [timeouts EXCEPT ![i] = 0]
    /\ UNCHANGED <<arrived, ctx, ch, workVars, iCh, rows, timerVars, leaked, stored,
                   failed>>

(* tx.Prepare(query), and the timer is set for the new batch.              *)
Prepare(i) ==
    /\ ipc[i] = "prepare"
    /\ ipc' = [ipc EXCEPT ![i] = "loop"]
    /\ counter' = [counter EXCEPT ![i] = 0]
    /\ timeouts' = [timeouts EXCEPT ![i] = 0]
    /\ armed' = armed \cup {i}
    /\ UNCHANGED <<arrived, ctx, ch, workVars, iCh, rows, ticked, leaked, stored,
                   failed>>

(* Prepare fails: continue, without a Rollback.                            *)
PrepareFails(i) ==
    /\ ipc[i] = "prepare"
    /\ ipc' = [ipc EXCEPT ![i] = "begin"]
    /\ LeakOne
    /\ UNCHANGED <<arrived, ctx, ch, workVars, iCh, rows, counter, timeouts, timerVars,
                   stored, failed>>

(* Mutant: the batch size test is off by one.                              *)
RowOneMore(i) ==
    /\ ipc[i] = "loop" /\ iCh # <<>>
    /\ iCh' = Tail(iCh)
    /\ \/ rows' = [rows EXCEPT ![i] = @ \cup {Head(iCh)}] /\ UNCHANGED failed
       \/ failed' = failed \cup {Head(iCh)} /\ UNCHANGED rows
    /\ counter' = [counter EXCEPT ![i] = @ + 1]
    /\ ipc' = [ipc EXCEPT ![i] = IF counter[i] + 1 > BatchSize THEN "commit" ELSE "loop"]
    /\ UNCHANGED <<arrived, ctx, ch, workVars, timeouts, timerVars, leaked, stored>>

(* case fields := <-iCh: a failed Exec is logged and the row counted.      *)
Row(i) ==
    /\ ipc[i] = "loop" /\ iCh # <<>>
    /\ iCh' = Tail(iCh)
    /\ \/ rows' = [rows EXCEPT ![i] = @ \cup {Head(iCh)}] /\ UNCHANGED failed
       \/ failed' = failed \cup {Head(iCh)} /\ UNCHANGED rows
    /\ counter' = [counter EXCEPT ![i] = @ + 1]
    /\ ipc' = [ipc EXCEPT ![i] = IF counter[i] + 1 >= BatchSize THEN "commit" ELSE "loop"]
    /\ UNCHANGED <<arrived, ctx, ch, workVars, timeouts, timerVars, leaked, stored>>

(* case <-timer.C with rows to flush.                                      *)
TickFlush(i) ==
    /\ ipc[i] = "loop" /\ i \in ticked /\ counter[i] > 0
    /\ ticked' = ticked \ {i}
    /\ ipc' = [ipc EXCEPT ![i] = "commit"]
    /\ UNCHANGED <<arrived, ctx, ch, workVars, iCh, rows, counter, timeouts, armed,
                   leaked, stored, failed>>

(* Mutant: an empty tick does not set the timer again.                     *)
TickEmptyUnarmed(i) ==
    /\ ipc[i] = "loop" /\ i \in ticked /\ counter[i] = 0
    /\ ticked' = ticked \ {i}
    /\ timeouts' = [timeouts EXCEPT ![i] = @ + 1]
    /\ IF timeouts[i] + 1 >= IdleLimit
       THEN ipc' = [ipc EXCEPT ![i] = "begin"] /\ LeakOne
       ELSE UNCHANGED <<ipc, leaked>>
    /\ UNCHANGED <<arrived, ctx, ch, workVars, iCh, rows, counter, armed, stored,
                   failed>>

(* Mutant: a tick counts as empty whatever was collected.                  *)
TickAlwaysEmpty(i) ==
    /\ ipc[i] = "loop" /\ i \in ticked
    /\ ticked' = ticked \ {i} /\ armed' = armed \cup {i}
    /\ timeouts' = [timeouts EXCEPT ![i] = @ + 1]
    /\ IF timeouts[i] + 1 >= IdleLimit
       THEN ipc' = [ipc EXCEPT ![i] = "begin"] /\ LeakOne
       ELSE UNCHANGED <<ipc, leaked>>
    /\ UNCHANGED <<arrived, ctx, ch, workVars, iCh, rows, counter, stored, failed>>

(* case <-timer.C with nothing to flush: after IdleLimit of them, about    *)
(* 300 s, continue OUTERLOOP with the transaction neither committed nor    *)
(* rolled back.  A FlushInterval of 0 does not come this far: the division *)
(* panics (Server, LoopDivides).                                           *)
TickEmpty(i) ==
    /\ ipc[i] = "loop" /\ i \in ticked /\ counter[i] = 0
    /\ ticked' = ticked \ {i} /\ armed' = armed \cup {i}
    /\ timeouts' = [timeouts EXCEPT ![i] = @ + 1]
    /\ IF timeouts[i] + 1 >= IdleLimit
       THEN ipc' = [ipc EXCEPT ![i] = "begin"] /\ LeakOne
       ELSE UNCHANGED <<ipc, leaked>>
    /\ UNCHANGED <<arrived, ctx, ch, workVars, iCh, rows, counter, stored, failed>>

(* The rows of ingester i, committed or refused.                           *)
CommitRows(i) ==
    /\ rows' = [rows EXCEPT ![i] = {}]
    /\ \/ stored' = stored \cup rows[i] /\ UNCHANGED failed
       \/ failed' = failed \cup rows[i] /\ UNCHANGED stored

(* tx.Commit(), timer.Stop() and, when the timer had fired, its tick.      *)
Commit(i) ==
    /\ ipc[i] = "commit"
    /\ CommitRows(i)
    /\ IF i \in armed
       THEN armed' = armed \ {i} /\ UNCHANGED ticked
       ELSE ticked' = ticked \ {i} /\ UNCHANGED armed
    /\ ipc' = [ipc EXCEPT ![i] = "begin"]
    /\ UNCHANGED <<arrived, ctx, ch, workVars, iCh, counter, timeouts, leaked>>

(* case <-ctx.Done(): commit what there is and return.                     *)
IngestDone(i) ==
    /\ ipc[i] = "loop" /\ ctx = "done"
    /\ CommitRows(i)
    /\ ipc' = [ipc EXCEPT ![i] = "done"]
    /\ UNCHANGED <<arrived, ctx, ch, workVars, iCh, counter, timeouts, timerVars,
                   leaked>>

IngestStep(i) == \/ BeginTx(i) \/ Prepare(i) \/ PrepareFails(i) \/ Row(i)
                 \/ TickFlush(i) \/ TickEmpty(i) \/ Commit(i) \/ IngestDone(i)

Next == \/ Arrive \/ Cancel
        \/ \E w \in Workers : WorkerStep(w)
        \/ \E i \in Ingesters : TimerFires(i) \/ IngestStep(i)

Spec == Init /\ [][Next]_vars

(* Goroutines run and timers fire.  A select may prefer rows to the tick   *)
(* any number of times; rows run out or fill the batch.                    *)
FairSpec == Spec /\ \A w \in Workers : WF_vars(WorkerStep(w))
                 /\ \A i \in Ingesters : WF_vars(TimerFires(i)) /\ WF_vars(IngestStep(i))

-----------------------------------------------------------------------------
(* Every variable holds a value of its kind, and a batch never collects    *)
(* more than BatchSize rows.                                               *)
TypeOK ==
    /\ arrived \in 0..MaxRecords
    /\ ctx \in {"open", "done"}
    /\ ch \in Seq(Records) /\ Len(ch) <= ChCap
    /\ wpc \in [Workers -> {"select", "send", "done"}]
    /\ wrec \in [Workers -> Records \cup {0}]
    /\ \A w \in Workers : wpc[w] = "send" <=> wrec[w] # 0
    /\ iCh \in Seq(Records) /\ Len(iCh) <= RowCap
    /\ ipc \in [Ingesters -> {"begin", "prepare", "loop", "commit", "done"}]
    /\ rows \in [Ingesters -> SUBSET Records]
    /\ counter \in [Ingesters -> 0..BatchSize]
    /\ \A i \in Ingesters : ipc[i] = "loop" => counter[i] < BatchSize
    /\ timeouts \in [Ingesters -> Nat]
    /\ armed \subseteq Ingesters /\ ticked \subseteq Ingesters
    /\ leaked \in 0..MaxLeaks
    /\ stored \subseteq Records /\ failed \subseteq Records

(* Where record k is.                                                      *)
Places(k) ==
    {<<"ch", i>> : i \in {j \in DOMAIN ch : ch[j] = k}}
      \cup {<<"worker", w>> : w \in {v \in Workers : wrec[v] = k}}
      \cup {<<"iCh", i>> : i \in {j \in DOMAIN iCh : iCh[j] = k}}
      \cup {<<"rows", i>> : i \in {j \in Ingesters : k \in rows[j]}}
      \cup {<<"stored", r>> : r \in stored \cap {k}}
      \cup {<<"failed", r>> : r \in failed \cap {k}}

(* Every row that arrives is stored exactly once, or refused by the        *)
(* database: a transaction that is abandoned never takes rows with it.     *)
Conservation == \A k \in 1..arrived : Cardinality(Places(k)) = 1

(* An ingester that collects rows always has a tick coming: whichever way  *)
(* it came into the loop, its timer runs or has fired and was not read.    *)
TimerAlive == \A i \in Ingesters : ipc[i] = "loop" => i \in armed \cup ticked

(* Rows do not stay in an open transaction: a batch that is not filled is  *)
(* committed by the flush timer.  (Where its rows are then, Conservation   *)
(* says.)                                                                  *)
Flushed ==
    \A i \in Ingesters : rows[i] # {} ~> (rows[i] = {} \/ ctx = "done")
=============================================================================
