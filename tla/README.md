# tcpdog in TLA+

tcpdog is two programs. The *agent* (`tcpdog/`) attaches eBPF programs to TCP
tracepoints, decodes what they submit and hands it to an output: a file, the
console, Kafka or gRPC. The *server* (`server/`) collects records from agents
through Kafka or gRPC and writes them to Elasticsearch, InfluxDB or ClickHouse.
This directory holds TLA+ models of both, the TLC configurations that check
them on small instances, and proofs of their safety properties for every
instance.

    tlc -workers 2 -config MCAgent_pair.cfg MCAgent     # one run
    tlapm Agent_proofs.tla                              # one module of proofs

`PROJECT.json` lists the runs, the source lines of every definition (`map`),
the mutants that show each property can fail, the findings and the hazards.

## 1. Inventory

### Agent

| part | source | state | operations |
|---|---|---|---|
| main | `tcpdog/main.go` | loop position, context, `chMap` | start one egress per name, start every tracepoint, wait, `Close` |
| eBPF module | `ebpf/bcc.go` | `perfMaps`, one raw event channel (1000) and `Workers` goroutines per table | `New`, `Start`, `Close` |
| kernel and gobpf | external | a perf ring per table and CPU, a poll goroutine per table | submit, poll, callback, `Stop` |
| decoder | `ebpf/decoder.go` | offset `c`, scratch values, per worker | `decode` |
| code generation | `ebpf/cgen.go`, `template.go`, `fields.go`, `data.go` | field models | the C program: filter, sampling, submit |
| buffer pool | `main.go` | `sync.Pool` of `*bytes.Buffer` | `Get` by workers, `Put` by egresses |
| csv, jsonl, console | `egress/csv`, `jsonl`, `console` | the field lengths of one tracepoint, a scratch buffer, the file | receive, cut, write, `Put` |
| grpc egress | `egress/grpc` | connection, stream, backoff | dial, open a stream, send, reconnect |
| kafka egress | `egress/kafka` | `bCh` (1000), the producer | marshal workers, producer loop |
| helper | `egress/helper` | backoff delay; names of a struct protobuf | `Next`; `Unmarshal` |
| config | `config/`, `tcpdog/helper.go` | the configuration | read, validate |

The parts share the buffer pool and the context; a record travels as a buffer
from a worker to one egress over that egress's channel (1000), offered without
blocking. What makes this hard: buffers are recycled while three kinds of
goroutines hold them; every queue between kernel and output has its own policy
when it is full (the ring loses silently, the raw event channel blocks the poll
goroutine, the egress channel drops); tracepoints share egresses; shutdown
happens with every queue in any state, and `perfMap.Stop` is a rendezvous.

*Correct* means: a buffer has one owner; each event is written once, or is
accounted for as lost or dropped; with one worker, records of one table that one
CPU raised keep their order; it is known which fields a line is cut with; a stuck
output does not back up into the kernel; sampling holds back what it says; an
interrupt ends the agent.

### Server

| part | source | state | operations |
|---|---|---|---|
| main, flows | `server/`, `config/config_server.go` | one channel (1000) per flow, `clickhouse` and the others' clients | validate, start the ingress and the ingestion of each flow |
| grpc ingress | `ingress/grpc` | one handler goroutine per stream; `remoteAddr` | receive, offer without blocking |
| kafka ingress | `ingress/kafka` | consumer group session, handler channel (1), workers | claim, mark, unmarshal, send |
| clickhouse | `ingestion/clickhouse` | row channel (1000), per ingester: transaction, counter, flush timer | collect, commit, abandon |
| elasticsearch, influxdb | `ingestion/...` | item channel (1000), a bulk indexer or write API | make an item, add it |
| geo | `geo/`, `geo/maxmind` | one object for the process: level, opened databases, lookup function | `Init`, once per flow; `Get` |

What makes this hard: streams break and the server restarts while records are
under way; the handler of a broken stream runs beside its successor; the flush
timer races with rows and is stopped, drained and reset on several paths;
offsets are marked before a record is stored; a rebalance looks like an end;
flows share one geo object, which the start of each initializes again while the
earlier ones use it; nine functions, for three storages and three serializations,
ought to agree on what a record says.

*Correct* means: a record is collected at most once; records of one stream keep
their order; one connection per egress and `Connections` to the database; an
accepted row is stored exactly once or refused; no batch waits for ever; flows
do not take each other's records or hold each other up; a storage is given what the
record says, under the right names and with the geography of its address.

## 2. Modules

| module | models | extends or uses |
|---|---|---|
| `Agent` | main, eBPF pipeline, buffer pool, file and console egress | |
| `MCAgent` | its small configurations | `Agent` |
| `Agent_proofs` | theorems about it | `Agent` |
| `Backoff`, `Backoff_proofs` | the retry delay, theorems about it | |
| `AtMostOnce` | what central collection promises | |
| `GrpcPath`, `GrpcPath_proofs` | grpc egress, streams, server crashes, grpc ingress; theorems about it | implements `AtMostOnce` |
| `ClickHouse`, `ClickHouse_proofs` | the ClickHouse ingestion, theorems about it | |
| `KafkaEgress`, `KafkaEgress_proofs` | marshal workers, the two producer loops, the producer; theorems about it | |
| `KafkaIngress`, `KafkaIngress_proofs` | consumer group session, marks, workers, crashes; theorems about it | |
| `Fields` | the field models, the names of fields, states and tracepoints | |
| `Config` | the agent's configuration: options or a file, defaults, validation | `Fields` |
| `RecordText` | the text of a record, its cells, its struct protobuf | |
| `Program` | the generated program, the decoder of what it submits, the egresses' reading of the result | `Config`, `RecordText` |
| `MCProgram`, `Program_proofs` | its requests, theorems about it | `Program` |
| `Maxmind` | the geo object and its lookups | |
| `Documents` | what each ingestion makes of a record | `Maxmind` |
| `Server` | the server: its start and its flows, from ingress to storage | `Documents` |
| `MCServer`, `Server_proofs` | its configurations, theorems about it | `Server` |

Two compositions put the parts together. `Program` follows one record of the agent
through configuration, code generation, kernel, decoder and text; `Server` runs the
flows of the server with their clients and the geo object between them. `Agent`,
`GrpcPath`, `KafkaEgress`, `KafkaIngress` and `ClickHouse` look at one part each, with
all of its queues and failures. `GrpcPath` is itself the composition of an egress and
the ingress it talks to.

### Agent

A *table* is a (tracepoint index, IP version) pair: it owns a perf ring for every
CPU, a poll goroutine, a raw event channel `perf[t]` and its workers. An event is
its number in its table, and `raisedOn` has the CPU of each. A record is `[table,
seq]`; the text of a record is abstracted to that identity, and a written line to
the record it was cut from and the field list it was cut with, which is all the
properties tell apart.

* `main`, `idx`, `todo` follow the two loops of `main()` and the loop of
  `BPF.Start` over `tp.INet`; `columns[e]` remembers which tracepoint egress
  `e` was started with. Every `logger.Fatal` is a step to `"fatal"`, after which
  nothing runs.
* The kernel raises an event of a table as soon as its program is attached
  (`AttachTracepoint` in `BPF.Start`), which is before its perf map is open: such
  an event, like one that finds the ring full, is in `lost` (the code passes no
  lost-channel to `InitPerfMap`).
* The poll goroutine is gobpf's: at its select it takes a stop request if one is
  pending and polls otherwise. A poll drains the rings that were readable, one after
  the other in the order of the CPUs (`turn`), whatever else arrives in between; each
  record read is handed to a callback that *blocks* on the raw event channel. It is
  external code, modelled from how `ebpf/bcc.go` uses it. An event of one CPU can thus
  overtake an older one of another CPU: `OrderPreserved` speaks of the events that one
  CPU raised, and of tables with one worker, since two workers race.
* main starts an egress once per name, with the first tracepoint that names it. A csv or
  jsonl egress cuts every record with that one's fields, so that tracepoints with
  *different* fields on one file get lines cut with the wrong names; the console prints
  each record as it is. `ColumnsOfFirst` says exactly this, and `shared` runs it with two
  different lists.
* The warning that a worker writes when it drops a record (`ebpf/bcc.go:88`) is
  synchronous and is left out like all logging: `NoBackpressure` is about an output that
  stalls, and a log that stalls would hold up the worker and the poll goroutine.
* A worker receives, gets a buffer, decodes, and sends with a `default`. It looks
  at the context only at its select. `sync.Pool.Get` may return a pooled buffer or
  a new one at any time, because the collector may empty the pool: `WorkerGet`
  takes any buffer that is pooled or referred to by nobody.
* A csv or jsonl egress reads the buffer empty (`content` becomes `Nil`) and
  returns to its select, where the context ends it; the console egress never looks
  at the context. A buffer is read at the moment the line is written, so a buffer
  that was recycled too early shows up as a wrong or empty line.

### Backoff

One action is one call of `Next` after the caller has worked for some time;
times are milliseconds, times beyond `Idle` are one value. `free` and `gap` are
history: the time since, and between, calls that returned without a delay. At
the two-minute limit `last` is no longer touched, so that a loop that fails for
ever gets one undelayed attempt about every half hour: `UndelayedApart` shows
that it is never more often than that.

### GrpcPath and AtMostOnce

`pc` follows the reconnect loop of `Start` with the inner loop of `protobuf`
(`StartStructPB` and `structpb` are the same program with another codec). A
stream is `up` until the network breaks it, the server goes down or the client
gives it up; messages sent and not received are on its `wire`. When a stream
breaks, its handler may still receive what had arrived, beside the handler of the
next stream, and loses the rest when it finds out. `SendFails` loses the record
in hand: the code neither resends it nor returns its buffer (the pool makes new
ones). `ClientDone` does not close the connection and the reconnect loop does
not look at the context: an agent that is cancelled while disconnected keeps
dialling until its process ends. `AtMostOnce` says that records are accepted in
turn and each is delivered at most once; `received` in `GrpcPath` is what the
handlers put into the server's channel, and its records are the refinement's
`delivered`.

### ClickHouse

`ipc` follows `ingest`: begin, prepare, the inner loop, commit. `armed` and
`ticked` are the two halves of a `time.Timer`: running, or fired with the tick
unread. Every database call may fail. `rows` is what was executed in the open
transaction; `leaked` counts transactions left without `Commit` or `Rollback`.

### KafkaEgress

`Serialization` is chosen at the start, as the configuration does: `json` (one loop
takes buffers itself) or `proto`, for `pb` and `spb` (one worker or more marshals
into `bCh`, a loop takes messages). Both loops are the same
inner `select`: with a message in hand, wait for the producer's input *or* one of
its errors, then go on. So each error that is read costs one other record
(`OneDiscardedPerError`), and errors are read only while a message is in hand: a
producer whose error nobody reads waits until the next record arrives. sarama's
producer is external: it keeps the order of what it takes, and stops at an error
until it is read. `Fail` stands for any failure after its retries. Which topic,
partition, compression and hostname a message gets is left out.

### KafkaIngress

One partition and the session of one server. `ClaimNext`, `ClaimSend` and
`ClaimMark` are the three steps of a round of `ConsumeClaim`; a mark becomes a
commit at any time (`AutoCommit`) or when the session ends. `lost` is history: the
messages that were committed and in the process when it went down. An interrupt is
a crash here, since `main` returns at once when the context is done and waits for
nobody. When a session ends `Consume` returns nil and the goroutine closes the
group, whatever the reason was. `Produce` numbers the messages; a message that
does not unmarshal is any message.

### Program

One module follows a record from the request that starts the agent to the line or the
struct that leaves it. `request`, one of `Requests`, is a command line or a file.

* `Start` is `config.Get` and `validate` (`Config`): options become a configuration,
  defaults are set, and what `validate` refuses ends the agent. It leaves
  `Tracepoints`, the lists with the names of the table in place of lower-case ones.
* `GetTracepointBPFCode` generates tracepoint after tracepoint and keeps the names
  declared, and those declared twice; a program with one of the latter does not
  compile, and nothing runs (`Loaded`). The template goes by the versions that have
  fields (`Blocks`, `FileNames`); `NamesLoaded` is what `BPF.Start` asks for, which goes by
  `INet`. A name is the tuple of its parts, in both.
* An address is that of a `struct sock`, which is opened, closed and reused; an
  event is one that passed the filters. The hash is keyed by the address and only a
  report deletes an entry, so that the count of a closed socket is continued by the
  next one at its address.
* `sk_trace` runs on each CPU in steps of its own: `Event` with the filters passed and
  `lookup_or_try_init` (`LookUp`, `Full`), the comparison (`Below`, `Reached`), then
  `Increment`, or `Delete` and `Submit`. Between two of them any other CPU may take
  steps, for the same address too, and a pointer into an entry that another CPU has
  deleted meanwhile finds any count (`stale`). Each operation on the map is one step, the
  map being the kernel's (`increment` adds atomically). A handler is not interrupted by
  another one on its CPU: the kernel does not nest them. A handler rests while a record
  is decoded, since they share nothing but that record.
* `KernelLocked` has the tracepoints that the kernel raises with the socket locked: two
  handlers of one address, both of these, do not overlap. `tcp_retransmit_synack` and
  `tcp_send_reset` are also raised for listening sockets, without the lock, and their
  handlers overlap with any.
* `Begin` and then `Field`, once for each field, are one call of `decode`. Memory is a
  function from offset to `<<member, significance>>`, so that a value is right when
  it consists of its own member's bytes in the right order, and no number has to be
  enumerated. `Layout`, `SizeOf`, `Alignment` and `NetworkOrder` are the compiler's
  and the kernel's side (external, a little-endian machine). `fieldsModel4` has one
  field for each combination of type, byte order and address flag of `ebpf/data.go`.
  The 16-bit width of `c` is not modelled: a BPF program's stack is 512 bytes.
* `Marshal` is what the egresses make of the text (`RecordText`): the cells that csv and
  jsonl cut out of it and the struct of `StructPB.Unmarshal`. The text is a sequence of
  symbols, so that cutting by the length of a name and at the next comma is done as the
  code does it: a key has as many symbols as the code counts, a value one, and the name
  of a task may have a comma in it. `End` puts the buffer back.

What the properties leave out is what the code does not do, and a reader should know:

* `skc_num`, the local port, is in host order and is read in network order
  (`ebpf/data.go:133`): `ValuesRead` says nothing of `LPort`.
* The sampling hash is the one name without the tracepoint's suffix
  (`ebpf/template.go:43`): two sampled tracepoints of one IP version, and a list with
  `Task` twice, give a program that does not compile. `ProgramLoads` says that this is so
  in these cases and in no other.
* For `tcp_retransmit_synack` and `tcp_send_reset` sampling has no bound: two CPUs can both
  find the count reached before one of them deletes the entry, and both submit.
  `AtMostOneIn` is about the five other tracepoints, and without its condition `Locked(i)`
  TLC finds it violated.
* When the hash is full, of entries of closed sockets for instance, a socket without
  an entry is never reported (`ebpf/template.go:131`, action `Full`). `AtMostOneIn`
  is what sampling keeps; that it reports one event in so many is not a property.
* `validate` lets an empty list of fields pass; no table is declared then, `Start` does
  not find what it asks for and ends the agent with `Fatal`. `ProgramLoads` says that
  names are missing in this case only; the step of `Start` itself is in `Agent`
  (`StartTracepointFails`). `INet` is a set here: a version that is listed twice starts a
  table twice.
* A comma in the name of a task shifts the cells behind it (`egress/csv/csv.go:47`), and
  `StructPB.Unmarshal` ends the agent at the first number it then misreads, with
  `log.Fatal`. `CellsRight` is about the cells in front of it.

### Fields and Config

`Fields` lists one field of each kind of `ebpf/data.go` and the names that
`ValidateField` and `ValidateTCPStatus` accept, in either case. `Config` is
`cliToConfig`, `setDefault` and `validate`; reading a yaml file is left out, what was
read is the record `File`. The modules have operators only and are run by `Program`.

### Server, Documents and Maxmind

* `main` is the loop of `server/main.go`, in the steps in which the other goroutines
  can see it: ingress, client of the storage, `Init` of the geo object in up to four
  assignments (level, city database, ASN database, function), workers and loop. An
  unknown type of ingress or ingestion falls through a `switch` without a default and
  starts nothing. `Fatal` ends the process.
* Flows are numbered. Each has the channel that main makes for it, workers, a channel of
  items and a loop that gives items to the client. `WorkerMakes` receives a record and
  makes an item of it; it is one step although `Init` may run in between, since a
  lookup reads `fn` and the databases once, and `Init` of the same configuration writes
  them with what they already hold. `Init` does not close what it opened before: each
  flow leaves one set of open databases behind.
* A panic in any goroutine ends the process (`"crash"`). It may come from a type assertion
  on a message of another serialization, from a lookup by a nil function or into a
  database that is not open, from what the nine functions do with a field, from a division
  (`LoopDivides`), or from the bulk indexer (`IndexerPanics`). `WorkerPanics` is what a
  worker does not survive.
* `getItem` of Elasticsearch may return an error (`GetItemFails`), for a text that is not
  UTF-8, which `protojson` refuses and a database of MaxMind may have: the error is
  logged, the record counts as `failed`, and the worker goes on with the next one. The
  makers of the other storages have no error to return.
* The client is external: it holds up to `ClientCap` items, then makes the loop wait, and
  stores an item or gives it up. The client of a flow in `Stalled` need not do either.
  `LoopDone` is what the loops do when the context is done: ClickHouse commits or fails
  to; `indexer.Close` of Elasticsearch has a context that is done and skips the last
  flush; the loop of InfluxDB returns without flushing its points.
* `Documents` has the nine functions. A value is `[as, of]`: the type it is held in and
  the field it is the value of, so that a value under another field's name, or text in
  place of a number, is seen. A worker looks its function up by the flow's
  serialization; an unknown name gives a nil function.
* `Maxmind` names what a lookup returns instead of computing it. Of an address it
  matters whether the database has a subdivision for it, without which two keys are
  missing, and whether it is an address at all.

What to know beside the properties:

* No validation looks at the following, and the process does not survive them once a
  record comes (or a timer fires) in a flow that has started. `Unsound` names them, and
  `NeverPanics` says that there is nothing else:
    * a serialization that is unknown, or another one than the call that agents use
      (`BadSerialization`);
    * a `GeoField` that is a number of a JSON record (`ingestion/elasticsearch/elasticsearch.go:133`,
      `ingestion/clickhouse/clickhouse.go:166`), or with pb an internal member of
      `pb.Fields` (`BadGeoField`);
    * a ClickHouse column that is no field of `pb.Fields`
      (`ingestion/clickhouse/clickhouse.go:175`, `:201`, `:231`), or a number that a JSON
      record lacks (`BadColumn`);
    * a `FlushInterval` of 0 for ClickHouse (`ingestion/clickhouse/clickhouse.go:139`), and a
      `FlushInterval` or `FlushBytes` below 0 for Elasticsearch, which the bulk indexer does
      not take (`BadNumber`; the indexer is external).
* Elasticsearch receives the 64-bit numbers of a `pb` record as text (`Untyped`), since
  `protojson` writes them so; those of `json` and `spb` are numbers.
* A value is an identity with a type. That a 64-bit number which comes through JSON or
  StructPB is a float64 in between, and is rounded above 2^53
  (`ingestion/clickhouse/clickhouse.go:177-179`), is not modelled: the conversion is the
  identity, and `DocumentsMatch` says nothing of large numbers.
* `NewState` and `OldState` are fields of the agent that `pb.Fields` does not have. With pb
  `protojson.Unmarshal` stops at such a field, its error is not looked at
  (`egress/grpc/grpc.go:112`, `egress/kafka/kafka.go:114`), and the record is sent with what
  was read so far. The records of the models only have fields that all serializations
  have.
* The `remoteAddr` of `statsHandler` is shared by all connections, but only reaches the
  log.

## 3. Runs

| run | instance | checks | distinct states |
|---|---|---|---|
| `shared` | 2 tracepoints with different fields, one csv file, 2 CPUs; 2+1 events | `TypeOK` `OrderPreserved` `ColumnsOfFirst` | 830 000 |
| `pair` | 1 tracepoint, 2 workers, 3 events, the egress need not move | `BufferExclusive` `Conservation` `NoBackpressure` | 514 000 |
| `live` | IPv4 and IPv6 on the console, 1 event each, fair | `Delivered` `ShutdownCompletes` | 94 000 |
| `shutdown` | 3 events, raw event channel of 1, fair | `ShutdownCompletes` is **violated** | |
| `backoff` | the code's own 2 s, 2 min, 30 min; five durations of work | `TypeOK` `UndelayedApart` `DelayGrows` | 14 500 |
| `grpc` | 5 records, 3 failures, channels of 2 and 1, fair | `TypeOK` `Conservation` `StreamOrder` `Drained`, implements `AtMostOnce` | 84 000 |
| `clickhouse` | 1 worker, 2 ingesters, 3 rows, batches of 2, fair | `TypeOK` `Conservation` `TimerAlive` `Flushed` | 316 000 |
| `kafka_out` | JSON, or 1 or 2 workers; 4 records, channels of 1, any failures, fair | `TypeOK` `Conservation` `OneDiscardedPerError` `DeliveryOrder` `NeverStuck` | 279 000 |
| `kafka_in` | 1 worker, 4 messages, 1 crash, 1 rebalance, fair | `TypeOK` `NothingSkipped` `LossBounded` `OncePerRun` `Consumed` | 173 000 |
| `kafka_in_rebalance` | 2 messages, 1 rebalance, fair | `KeepsConsuming` is **violated** | |
| `program` | every list of up to 3 of 8 kinds of fields and an empty one; 2 tracepoints, one of them or both sampled; command lines and files that `validate` refuses; 1 event each, and 6 for 1 or 2 tracepoints with and without the lock, rates 1 and 2; 2 CPUs, 2 addresses, a hash of 1 entry | `TypeOK` `ProgramLoads` `AtMostOneIn` `ValuesRead` `CellsRight` | 327 000 |
| `server` | every storage, serialization, geo level and kind of address; unchecked geo fields, columns, intervals and sizes, text that is not UTF-8; 3 pairs of flows with a stalled second storage; 18 faulty configurations; fair | `TypeOK` `Routed` `NeverPanics` `DocumentsMatch` `Stored` | 52 000 |

*Bounds.* Channels of 1000 become channels of 1 or 2: every policy is about empty, full
and the step between, and the instances have more events than places, so that every
queue fills, overflows and drains. There are as many buffers as workers, channel slots
and egresses can hold, or one for each event, so that `Get` never waits. `MaxEvents`,
`MaxRecords`, `MaxMessages`, `MaxFailures`, `MaxCrashes`, `MaxRebalances` and `MaxLeaks`
bound histories only. Four messages are what one worker, two channels of 1 and the
claim's own hand hold, the case `LossBounded` is about. Three fields of kinds of every
size give every pair of neighbours behind every offset modulo 8 that one field can
leave. Two tracepoints are enough for two declarations to clash. In `program` six events
let one hash entry be spent twice at a rate of two, by sockets that close in between,
and two CPUs are what it takes for a handler to find the count and the entry that
another one changes; one event is enough where nothing is sampled (`Events`). In
`shared` two CPUs let an event be overtaken; the other runs of `Agent` are about
channels and have one. In `server`, the flows have channels of 1, one worker and up to
two records each, so that every channel fills; two flows are what it takes for one to
start, stall or fail beside another. The nine functions and the geo levels are
enumerated completely, with a record that has a field of each type, for one flow.
Buffers are interchangeable and `shared` uses that as a symmetry, as `program` does with
CPUs and addresses; runs that check liveness do not. `CHECK_DEADLOCK FALSE` is said
where the program, or a bounded history, really ends.

*Fairness.* The Go scheduler runs a goroutine that can run: weak fairness for
main, each poll goroutine, each worker, each egress and each handler. A `select`
with two ready cases gets no strong fairness: it may take either, for as long as
both are ready. `pair` drops fairness of the egress: a disk or a terminal that
never comes back. `grpc` assumes that a crashed server is started again, and
bounds the failures. `kafka_out` assumes that the producer goes on with each
message, delivering it or giving it up (retries are bounded by `RetryMax`), and
`kafka_in` that marks are committed and a server that went down is started
again. `server` assumes that goroutines are scheduled and that a storage answers,
with success or failure, unless its flow is in `Stalled`. No fairness is assumed of the
kernel's events, the interrupt, the arrival of messages, or failures.

*Violations.* `shutdown`: the workers leave on the cancelled context, the raw
event channel fills, the callback waits for room and the poll goroutine never
comes back to the select that `perfMap.Stop` needs. The `live` run shows that
nothing else is in the way: with events that fit the channel, the agent always
leaves. `kafka_in_rebalance`: `Consume` returns nil after a rebalance and is not called
again; `Consumed`, in `kafka_in`, shows that this is the only way consumption ends.

One more known limit has no run. An idle ClickHouse ingester leaves its transaction open
(`continue OUTERLOOP`, `ingestion/clickhouse/clickhouse.go:140`): `leaked` counts them, and
with them the process holds more connections than the `Connections` of its
configuration.

## 4. Proofs

Every invariant and every action property that a run checks is also proved, as is the
refinement: `Spec => []P`, for all values of the constants.

| module | theorems, and the property each is about |
|---|---|
| `Agent_proofs` | `TypeCorrect` (`TypeOK`), `Exclusive` (`BufferExclusive`), `ColumnsKept` (`ColumnsOfFirst`), `EventsConserved` (`Conservation`), `OrderKept` (`OrderPreserved`) |
| `Backoff_proofs` | `DelayBounded` (`TypeOK`), `NeverHammers` (`UndelayedApart`), `DelayMonotone` (`DelayGrows`) |
| `ClickHouse_proofs` | `TypeCorrect` (`TypeOK`), `NoLostWakeup` (`TimerAlive`), `RowsConserved` (`Conservation`) |
| `GrpcPath_proofs` | `TypeCorrect` (`TypeOK`), `StreamsInOrder` (`StreamOrder`), `RecordsConserved` (`Conservation`), `ImplementsAtMostOnce` (`DeliversAtMostOnce`) |
| `KafkaEgress_proofs` | `TypeCorrect` (`TypeOK`), `RecordsConserved` (`Conservation`), `FailuresCostOneEach` (`OneDiscardedPerError`), `DeliveredInOrder` (`DeliveryOrder`) |
| `KafkaIngress_proofs` | `TypeCorrect` (`TypeOK`), `NoneSkipped` (`NothingSkipped`), `IngestedOncePerRun` (`OncePerRun`), `LossIsBounded` (`LossBounded`) |
| `Program_proofs` | `NeverOverSampled` (`AtMostOneIn`), `NamesAgree` (`ProgramLoads`), `TypeCorrect` (`TypeOK`), `EveryValueRead` (`ValuesRead`), `EveryCellRight` (`CellsRight`) |
| `Server_proofs` | `TypeCorrect` (`TypeOK`), `PanicsExplained` (`NeverPanics`), `RecordsRouted` (`Routed`), `DocumentsCorrect` (`DocumentsMatch`) |

None of the deeper properties is inductive as it stands. What each needs:

*One place for each record* (`Conservation` of `Agent`, `ClickHouse`, `GrpcPath` and
`KafkaEgress`, `Routed` of `Server`, `OncePerRun` of `KafkaIngress`). The properties
count the places a record can be found in; counting is awkward to reason about, and says
too little: that a queue holds a record twice is only excluded in sum. The inductive
invariant (`OnceInv`, in `Server_proofs` `RouteInv`) therefore speaks of sets. `Stage`
(or `PlacesOf`) is a record with one set for each part of the path, a part for what has
not arrived yet included. The sets are apart from each other and together have every
record; and within a part a record is there once (`OneEach`, `Apart`): no channel
repeats itself, no two workers hold the same one. An action then takes a record from one
part and puts it into another, which a lemma shows to keep sets apart and covering,
whatever the parts are. The property follows by adding up cardinalities, all of which
are 0 but one. In `Agent` and `KafkaEgress` the records travel inside buffers, so that
the argument starts from the exclusive ownership of buffers: without it, decoding into
one buffer would change what another channel holds. In `KafkaIngress` the part ahead of
the session is everything behind its cursor, and a rebalance or a restart must find the
parts within the process empty (`Fresh`), or the messages read again would be there
twice.

*Order* (`OrderPreserved` of `Agent`, `DeliveryOrder` of `KafkaEgress`, `StreamOrder` of
`GrpcPath`). The parts of the path have a `Rank`, the output the lowest. `LineInv` says
that a record in a part of lower rank is ahead of one in a part of higher rank
(`InLine`), and that each channel rises within itself. With one worker there is at most
one record of a table at each of the ranks between two channels, and this is where the
assumption on the number of workers is used. In `Agent` this is done for each CPU by
itself: the ring of a CPU rises, and the events of one CPU in the parts behind it are
ahead of those in its ring. In `GrpcPath` two streams may be open at
the server, and only records of one stream keep their order: `OrderInv` says that what
left the egress is ahead of what it holds, and that of its channel, and that what came
out of a stream is ahead of what is still on its wire.

*Agent, type and buffers.* `TypeOK` is inductive with two parts a reader might not
expect: an egress goroutine that runs was given a tracepoint, and no goroutine of a
table runs before main has come to it (`StartTypeOK`), without which `StartTable` could
take a buffer away from a worker that holds one. `BufferExclusive` is inductive on top
of it: a buffer that `WorkerGet` takes is pooled, hence owned by nobody by the
invariant, or in use by nobody. `ColumnsOfFirst` needs `BufferExclusive`: the content of a
buffer stays the record of a tracepoint of the egress it travels to (`RecordsRouted`),
because nobody else writes to it on the way. And it needs `FirstStarted`: an egress that
runs was started with the first tracepoint that names it, since main comes to the
tracepoints in their order and starts no egress twice. No assumption on the fields of
tracepoints is made.

*Backoff.* `UndelayedApart` rests on `BackoffInv`: `last` is never older than the last
undelayed return, and the delay slept last is at most the one in force.

*ClickHouse.* `TimerAlive` is inductive with the type of the two timer sets: each way
into the inner loop arms the timer, and inside it a tick is only taken by leaving the
loop or by arming again. `RowsConserved` needs that a transaction is given up only while
it has no rows (`NoneForgotten`).

*GrpcPath.* `TypeOK` needs that the goroutine has a connection whenever it is not
backing off, and that a stream that is up is the one opened last (`ClientInv`). The
refinement maps `accepted` and what was received to the variables of `AtMostOnce`: a
step that delivers is its step, since by `Conservation`'s invariant the record on the
wire was never received before; all others stutter.

*KafkaEgress.* A buffer is in one of four places (`BufferInv`) and a worker that sends
holds the record and no buffer (`KindInv`). `OneDiscardedPerError` rests on the parts
being apart: the message that the error case takes from `bCh` is not among those that
failed.

*KafkaIngress.* `NothingSkipped` needs `SessionInv`, which relates cursor, mark and what
the claim holds, and `CoverInv`: what is marked but not committed has been taken over as
well. For `LossBounded` each channel holds at most its capacity and each worker one, so
that a crash adds at most `Room` to what is lost.

*Server.* `StartInv` is what main has reached, flow by flow, from `Valid` on. `GeoInv`
is why a lookup that is initialized again is never one that a worker cannot call: until
the first flow runs each assignment of `Init` adds what the configured level needs, and
from then on it writes what is there already (`geo = Ready`). With it `PipeInv` can say
what the channels of a flow hold without mentioning the state of the geo object: the
messages that its agents send (`Messages`) and what is made of each with the lookup that
`Init` arrives at (`Items`). `NeverPanics` follows for the first, by looking at what
each function takes (the four parts of `Unsound` are what it does not), and
`DocumentsMatch` is a statement about every element of `Items`: one lemma for each
storage, by its kinds of message and of lookup.

*Program, sampling and types.* `AtMostOneIn` is not inductive: a count must not be spent
twice, and not by two tracepoints with different rates. `SampleInv` adds the count of
each key to what its reports stand for (`Spent`), and says that in a program that
compiles the hash of a version has one user (`OneUser`): a second one would declare it
again, which `GeneratedInv` turns into a name in `twice`. It also keeps what a handler
has found out until its next step (`Holds`): from the lookup on, its event is in no
report's share and not in the count; one that found the count below the rate is left out
with its event, one that found it reached spends the whole count when it deletes the
entry. Other CPUs cannot undo this because of `HandlersInv`: two handlers of one
address, both with the lock, do not overlap, and no entry is deleted under a pointer of
theirs. Before the program is loaded nothing is counted (`QuietBefore`). The theorem is
about every request, a configuration file of any length included: `ConfiguredType` shows
that what `validate` lets pass is a list of tracepoints with known fields, versions and
a rate that is not negative, and `StartInv` that starting with it establishes the
invariant. For `ProgramLoads`, `CodeInv` says what the file has declared, and that
something is declared twice exactly if a pair of tracepoints or a list of fields already
generated makes it so; names of two tracepoints differ in their suffix (`NamesApart`),
but for the hash. `HashInv` keeps the number of a version's entries within `HashSize`,
since a new one needs room, and each count within the rate of the one user.

*Program, layout and text.* The layout of a struct, the text of a record and the cells
are recursive functions over the list of fields. That such a function is defined at all,
and what it is at each field, is shown by induction over sets instead of predicates: a
set of numbers that has 0, and `n + 1` with `n`, has all of them (`Upwards`, from the
least number of what is missing). `MemberStarts` and `MembersInOrder` then give the
place of each member and `ByteOfMember` that no other member reaches there;
`PaddingAgrees` that the decoder pads as the compiler aligns. `ReadInv` says that
between two fields the decoder stands at the end of the last one, from which
`EveryValueRead` follows for lists of any length. For `EveryCellRight` the text is split
at each field into key, cell and rest (`TextSplit`), and the readers, which skip as many
symbols as the name says and cut at the next comma, stand at each of these points in
turn (`InStep`), up to the name with a comma.

The proofs use the named assumptions on the constants and nothing else:
`ConfigAssumption` and the parts of `ServerAssumption` about configurations, which say
no more than that a configuration has the types that reading gives it, and its records
fields of pb.Fields; capacities and
bounds that are natural numbers, finite sets of workers, a `Nil` that is no buffer
(`CapacityAssumption`, `NilAssumption`, `ConstantAssumption`, `BoundAssumption`,
`EgressAssumption`, `IngressAssumption`); `BackoffAssumption`; `ProgramAssumption`; and
`NamesAssumption`, which says how long the names of fields are, since the provers do not
take a string to be a sequence. TLC evaluates all of them.

Liveness (`Delivered`, `NoBackpressure`, `ShutdownCompletes`, `Drained`, `Flushed`,
`NeverStuck`, `Consumed`, `Stored`) is out of the prover's reach and is model-checked
only.

## 5. Not modelled, and the plan

Next, in this order:

1. Proofs: the facts on which liveness rests and that are safety: that a full raw event
   channel always finds a worker that is not waiting for an egress, that a producer loop
   which offers a message never waits for itself. Abstract specifications of what the
   Kafka path and the ClickHouse ingestion promise, as `AtMostOnce` is for gRPC, and
   that the detailed modules implement them.
2. Filters of the generated program: which names a filter may use.

Partly modelled: the code generator, without filters, the expressions of fields and the
condition on the state of a socket; the configuration, without the options of single
outputs.

Not modelled, and left out for good: reading yaml, flags and certificates, the contents of
MaxMind's files, generated protobuf code (`proto/`), the wording of log lines, and write
errors of files, which the code ignores. An error of `proto.Marshal` in the agent's Kafka
output (`egress/kafka/kafka.go:91`, `:116`) is logged and what there is of the message is sent:
the steps are the same, and no property tells the two messages apart. What a client batches
when the process ends is lost (`ingestion/elasticsearch/elasticsearch.go:84`,
`ingestion/influxdb/influxdb.go:60`): the steps are in `Server`, and no property promises
more than the code does.
