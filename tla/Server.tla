------------------------------- MODULE Server -------------------------------
(***************************************************************************)
(* The server (server, config/config_server.go) as the composition of its  *)
(* flows: main reads and validates the configuration and starts, one flow  *)
(* after the other, the ingress, the client of the storage, the geo        *)
(* lookup, which all flows share, and the goroutines that carry records    *)
(* from the ingress over the flow's channel, the marshal workers and the   *)
(* channel of items to the client.                                         *)
(*                                                                         *)
(* GrpcPath, KafkaIngress and ClickHouse describe an ingress and a storage *)
(* in detail; here an ingress is where records come from and a client      *)
(* keeps the items it was given until the storage answers.                 *)
(***************************************************************************)
EXTENDS Documents, FiniteSets

CONSTANTS
    Configurations, \* what the server may be started with
    Flows,          \* bound: flows of a configuration are numbered in this set
    Records,        \* bound: records of a flow are numbered in this set
    Workers,        \* marshal workers of a flow
    ChCap,          \* capacity of a flow's channel (1000)
    ItemCap,        \* capacity of the channel of items (1000)
    ClientCap       \* items that a client holds before it makes the loop wait

Types == [Ingress |-> {"grpc", "kafka"},
          Ingestion |-> {"elasticsearch", "influxdb", "clickhouse"}]

(* Flows in their order and the records that agents send to each.  Of a    *)
(* storage's configuration nothing is checked but its type: any names, and *)
(* any numbers.                                                            *)
ASSUME ServerAssumption ==
    /\ \A cf \in Configurations :
         /\ cf.Flow \in Seq([Ingress : STRING, Ingestion : STRING, Serialization : STRING])
         /\ DOMAIN cf.Flow \subseteq Flows
         /\ \A f \in DOMAIN cf.Flow :
              /\ cf.Sent[f] \in Seq([names : SUBSET DOMAIN Kind, place : Places,
                                      utf8 : BOOLEAN])
              /\ DOMAIN cf.Sent[f] \subseteq Records
         /\ \A db \in DOMAIN cf.Ingestion :
              /\ cf.Ingestion[db].Fields \in Seq(STRING)
              /\ cf.Ingestion[db].GeoField \in STRING
              /\ cf.Ingestion[db].FlushInterval \in Int /\ cf.Ingestion[db].FlushBytes \in Int
    /\ IsFiniteSet(Records)
    /\ ChCap \in Nat /\ ItemCap \in Nat \ {0} /\ ClientCap \in Nat \ {0}

VARIABLES
    conf,       \* the configuration, the records agents send and stalled storages
    status,     \* "load", "run", "done" (the context is done), "exit" or "crash"
    main,       \* the flow main starts, and which step of it
    geo,        \* geo.Reg["maxmind"]
    listening,  \* addresses of the grpc ingresses
    sources,    \* flows whose ingress was started
    running,    \* flows whose workers and loop were started
    arrived,    \* flow -> records that came to its ingress
    dropped,    \* records dropped at a full channel
    chan,       \* flow -> its channel
    holds,      \* flow and worker -> <<the item to send>>, or <<>>
    items,      \* flow -> the channel of items
    client,     \* flow -> items in the client of its storage
    left,       \* flow and worker, or flow and Loop, that have returned
    stored,     \* flow -> items its storage has
    failed      \* records without an item, or whose item the client gave up

startVars == <<main, geo, listening, sources, running>>
pipeVars == <<chan, holds, items, client, left, stored, failed>>
vars == <<conf, status, startVars, arrived, dropped, pipeVars>>

(* The loop of a flow, next to its workers.                                *)
Loop == 0

Init ==
    /\ conf \in Configurations
    /\ status = "load" /\ main = <<1, "ingress">> /\ geo = New
    /\ listening = {} /\ sources = {} /\ running = {}
    /\ arrived = [f \in Flows |-> 0] /\ dropped = {}
    /\ chan = [f \in Flows |-> <<>>]
    /\ holds = [f \in Flows |-> [w \in Workers |-> <<>>]]
    /\ items = [f \in Flows |-> <<>>] /\ client = [f \in Flows |-> <<>>]
    /\ stored = [f \in Flows |-> {}]
    /\ left = {} /\ failed = {}

-----------------------------------------------------------------------------
(* GetServer and validateFlow.                                             *)
Valid ==
    /\ conf.Loads
    /\ Len(conf.Flow) >= 1
    /\ \A f \in DOMAIN conf.Flow :
         /\ conf.Flow[f].Serialization # ""
         /\ conf.Flow[f].Ingestion \in DOMAIN conf.Ingestion
         /\ conf.Flow[f].Ingress \in DOMAIN conf.Ingress

Validate ==
    /\ status = "load"
    /\ status' = IF Valid THEN "run" ELSE "exit"
    /\ UNCHANGED <<conf, startVars, arrived, dropped, pipeVars>>

Alive == status \in {"run", "done"}

IngressOf(f) == conf.Ingress[conf.Flow[f].Ingress]
IngestionOf(f) == conf.Ingestion[conf.Flow[f].Ingestion]

(* main is at this step of the flow it starts; main only looks at the      *)
(* context once it has started them all.                                   *)
At(step) == Alive /\ main[1] \in DOMAIN conf.Flow /\ main[2] = step
flow == main[1]

To(step) == main' = <<flow, step>>
NextFlow == main' = <<flow + 1, "ingress">>

(* logger.Fatal                                                            *)
Fatal == status' = "exit" /\ UNCHANGED startVars

Crash == status' = "crash"

(* An address is listened on once; the brokers must answer.                *)
IngressStarts(f) ==
    /\ IngressOf(f).Opens
    /\ IngressOf(f).Type = "grpc" => IngressOf(f).Addr \notin listening

(* A switch without a default: another type starts nothing.                *)
StartIngress ==
    /\ At("ingress")
    /\ \/ /\ IngressOf(flow).Type \notin Types.Ingress
          /\ To("client") /\ UNCHANGED <<status, geo, listening, sources, running>>
       \/ /\ IngressOf(flow).Type \in Types.Ingress /\ ~IngressStarts(flow)
          /\ Fatal
       \/ /\ IngressOf(flow).Type \in Types.Ingress /\ IngressStarts(flow)
          /\ listening' = listening \cup
                            (IF IngressOf(flow).Type = "grpc" THEN {IngressOf(flow).Addr} ELSE {})
          /\ sources' = sources \cup {flow}
          /\ To("client") /\ UNCHANGED <<status, geo, running>>
    /\ UNCHANGED <<conf, arrived, dropped, pipeVars>>

(* Mutant: the error of the client is only logged.                         *)
StartClientGoesOn ==
    /\ At("client")
    /\ IF IngestionOf(flow).Type \notin Types.Ingestion
       THEN NextFlow
       ELSE To(IF conf.Geo.Type = "maxmind" THEN "level" ELSE "workers")
    /\ UNCHANGED <<conf, status, geo, listening, sources, running, arrived, dropped, pipeVars>>

(* esutil makes a ticker and buffers, which no negative number is for.     *)
IndexerPanics(i) == i.Type = "elasticsearch" /\ (i.FlushInterval < 0 \/ i.FlushBytes < 0)

(* The client is made first; sql.Open is followed by a Ping.               *)
StartClient ==
    /\ At("client")
    /\ IF IngestionOf(flow).Type \notin Types.Ingestion
       THEN NextFlow /\ UNCHANGED <<status, geo, listening, sources, running>>
       ELSE \/ /\ ~IngestionOf(flow).Opens
               /\ Fatal
            \/ /\ IngestionOf(flow).Opens /\ IndexerPanics(IngestionOf(flow))
               /\ Crash /\ UNCHANGED startVars
            \/ /\ IngestionOf(flow).Opens /\ ~IndexerPanics(IngestionOf(flow))
               /\ To(IF conf.Geo.Type = "maxmind" THEN "level" ELSE "workers")
               /\ UNCHANGED <<status, geo, listening, sources, running>>
    /\ UNCHANGED <<conf, arrived, dropped, pipeVars>>

(* Mutant: Init starts from an empty object.                               *)
InitLevelAnew ==
    /\ At("level")
    /\ LET g == WithLevel(New, conf.Geo)
       IN \/ ~Validated(g, conf.Geo) /\ Fatal
          \/ /\ Validated(g, conf.Geo)
             /\ geo' = g /\ To(IF NeedsCity(g) THEN "city" ELSE "asn")
             /\ UNCHANGED <<status, listening, sources, running>>
    /\ UNCHANGED <<conf, arrived, dropped, pipeVars>>

(* Geo.Init, in steps: flows that were started before use the object.      *)
InitLevel ==
    /\ At("level")
    /\ LET g == WithLevel(geo, conf.Geo)
       IN \/ ~Validated(g, conf.Geo) /\ Fatal
          \/ /\ Validated(g, conf.Geo)
             /\ geo' = g /\ To(IF NeedsCity(g) THEN "city" ELSE "asn")
             /\ UNCHANGED <<status, listening, sources, running>>
    /\ UNCHANGED <<conf, arrived, dropped, pipeVars>>

OpenDatabase(step, g, next) ==
    /\ At(step)
    /\ \/ ~conf.Geo.Readable /\ Fatal
       \/ /\ conf.Geo.Readable
          /\ geo' = g /\ To(next)
          /\ UNCHANGED <<status, listening, sources, running>>
    /\ UNCHANGED <<conf, arrived, dropped, pipeVars>>

InitCity == OpenDatabase("city", WithCity(geo), IF NeedsASN(geo) THEN "asn" ELSE "func")
InitASN == OpenDatabase("asn", WithASN(geo), "func")

InitFunc ==
    /\ At("func")
    /\ geo' = WithFunc(geo) /\ To("workers")
    /\ UNCHANGED <<conf, status, listening, sources, running, arrived, dropped, pipeVars>>

StartWorkers ==
    /\ At("workers")
    /\ running' = running \cup {flow} /\ NextFlow
    /\ UNCHANGED <<conf, status, geo, listening, sources, arrived, dropped, pipeVars>>

MainStep ==
    \/ Validate \/ StartIngress \/ StartClient
    \/ InitLevel \/ InitCity \/ InitASN \/ InitFunc \/ StartWorkers

Interrupt ==
    /\ status = "run" /\ status' = "done"
    /\ UNCHANGED <<conf, startVars, arrived, dropped, pipeVars>>

(* main returns, and with it every goroutine ends where it is.             *)
Exit ==
    /\ status = "done" /\ flow \notin DOMAIN conf.Flow
    /\ status' = "exit"
    /\ UNCHANGED <<conf, startVars, arrived, dropped, pipeVars>>

-----------------------------------------------------------------------------
(* Mutant: make(chan interface{}, 1000) in front of the loop of main.      *)
ChannelShared(f) == 1

ChannelOf(f) == f

Room(f) == Len(chan[ChannelOf(f)]) < ChCap

Ser(f) == conf.Flow[f].Serialization

(* What a record is delivered as: grpc has a call for pb and one for spb,  *)
(* which the agent chooses; kafka decodes with the flow's serialization.   *)
Delivered(f) == IF IngressOf(f).Type = "grpc" THEN conf.Calls[f] ELSE Ser(f)

Put(f, k) ==
    LET m == [id |-> <<f, k>>, msg |-> Message(Delivered(f), conf.Sent[f][k])]
    IN chan' = [chan EXCEPT ![ChannelOf(f)] = Append(@, m)]

Arrive(f) ==
    /\ Alive /\ f \in sources /\ arrived[f] < Len(conf.Sent[f])
    /\ arrived' = [arrived EXCEPT ![f] = @ + 1]
    /\ LET k == arrived[f] + 1
       IN \/ /\ IngressOf(f).Type = "grpc" /\ ~Room(f)
             /\ dropped' = dropped \cup {<<f, k>>} /\ UNCHANGED <<status, chan>>
          \/ /\ Delivered(f) \in Serializations /\ Room(f)
             /\ Put(f, k) /\ UNCHANGED <<status, dropped>>
          \/ /\ Delivered(f) \notin Serializations
             /\ Crash /\ UNCHANGED <<dropped, chan>>
    /\ UNCHANGED <<conf, startVars, holds, items, client, left, stored, failed>>

(* What an ingestion has of the geo lookup.                                *)
Provider == IF conf.Geo.Type = "maxmind" THEN geo ELSE NoGeo

(* The ingestion's function for the flow's serialization.                  *)
Made(f, m, g) ==
    LET i == IngestionOf(f)
    IN CASE i.Type = "elasticsearch" -> getItemMaker(Ser(f), m, i.GeoField, g)
         [] i.Type = "influxdb" -> getPointMaker(Ser(f), m, i.GeoField, g)
         [] i.Type = "clickhouse" -> getSliceIfMaker(Ser(f), m, i.GeoField, g, i.Fields)

(* The value of the geo field is looked up: influxdb asks for the kind of  *)
(* a value first, and pb.Fields has its fields set or not.                 *)
LooksUp(f, m) ==
    LET i == IngestionOf(f)
    IN /\ conf.Geo.Type = "maxmind"
       /\ \/ i.GeoField \in DOMAIN m.fields /\ (i.Type = "influxdb" => Kind[i.GeoField] = "string")
          \/ Ser(f) = "pb" /\ i.Type # "influxdb" /\ i.GeoField \in DOMAIN Kind

(* Without an item: a call of the lookup while the object is not ready for *)
(* it, or a function that does not return.                                 *)
WorkerPanics(f, m) == (LooksUp(f, m) /\ GetPanics(geo)) \/ Made(f, m, Provider) = Panic

(* getItem returns an error, which is logged, and the worker continues.    *)
GetItemFails(f, m) == IngestionOf(f).Type = "elasticsearch" /\ Refused(m)

WorkerMakes(f, w) ==
    /\ Alive /\ f \in running /\ holds[f][w] = <<>> /\ <<f, w>> \notin left
    /\ chan[ChannelOf(f)] # <<>>
    /\ LET m == Head(chan[ChannelOf(f)])
       IN \/ /\ WorkerPanics(f, m.msg)
             /\ Crash /\ UNCHANGED <<holds, failed>>
          \/ /\ ~WorkerPanics(f, m.msg) /\ GetItemFails(f, m.msg)
             /\ failed' = failed \cup {m.id} /\ UNCHANGED <<status, holds>>
          \/ /\ ~WorkerPanics(f, m.msg) /\ ~GetItemFails(f, m.msg)
             /\ holds' = [holds EXCEPT ![f][w] = <<[id |-> m.id, doc |-> Made(f, m.msg, Provider)[1]]>>]
             /\ UNCHANGED <<status, failed>>
    /\ chan' = [chan EXCEPT ![ChannelOf(f)] = Tail(@)]
    /\ UNCHANGED <<conf, startVars, arrived, dropped, items, client, left, stored>>

HasItem(f, w) == holds[f][w] # <<>>

(* Mutant: an item that finds no room is dropped.                          *)
WorkerSendsOrDrops(f, w) ==
    /\ Alive /\ HasItem(f, w)
    /\ items' = IF Len(items[f]) < ItemCap
                THEN [items EXCEPT ![f] = @ \o holds[f][w]] ELSE items
    /\ holds' = [holds EXCEPT ![f][w] = <<>>]
    /\ UNCHANGED <<conf, status, startVars, arrived, dropped, chan, client, left, stored, failed>>

WorkerSends(f, w) ==
    /\ Alive /\ HasItem(f, w) /\ Len(items[f]) < ItemCap
    /\ items' = [items EXCEPT ![f] = @ \o holds[f][w]]
    /\ holds' = [holds EXCEPT ![f][w] = <<>>]
    /\ UNCHANGED <<conf, status, startVars, arrived, dropped, chan, client, left, stored, failed>>

WorkerDone(f, w) ==
    /\ status = "done" /\ f \in running /\ holds[f][w] = <<>> /\ <<f, w>> \notin left
    /\ left' = left \cup {<<f, w>>}
    /\ UNCHANGED <<conf, status, startVars, arrived, dropped, chan, holds, items, client, stored, failed>>

-----------------------------------------------------------------------------
(* The loop that gives items to the client, which makes it wait when it    *)
(* has no room.                                                            *)
LoopTakes(f) ==
    /\ Alive /\ f \in running /\ <<f, Loop>> \notin left
    /\ items[f] # <<>> /\ Len(client[f]) < ClientCap
    /\ client' = [client EXCEPT ![f] = Append(@, Head(items[f]))]
    /\ items' = [items EXCEPT ![f] = Tail(@)]
    /\ UNCHANGED <<conf, status, startVars, arrived, dropped, chan, holds, left, stored, failed>>

(* 300 / FlushInterval, once the timer finds that a connection of the flow *)
(* has no row in its transaction.                                          *)
LoopDivides(f) ==
    /\ Alive /\ f \in running /\ <<f, Loop>> \notin left
    /\ IngestionOf(f).Type = "clickhouse" /\ IngestionOf(f).FlushInterval = 0
    /\ Crash
    /\ UNCHANGED <<conf, startVars, arrived, dropped, pipeVars>>

(* indexer.Close with a context that is done returns at once, WriteAPI is  *)
(* not closed at all: either client goes on until the process ends.  The   *)
(* loop of ClickHouse commits, which fails if the database does not answer.*)
LoopDone(f) ==
    /\ status = "done" /\ f \in running /\ <<f, Loop>> \notin left
    /\ left' = left \cup {<<f, Loop>>}
    /\ \/ /\ IngestionOf(f).Type = "clickhouse" /\ f \notin conf.Stalled
          /\ stored' = [stored EXCEPT ![f] = @ \cup {client[f][i] : i \in DOMAIN client[f]}]
          /\ client' = [client EXCEPT ![f] = <<>>]
          /\ UNCHANGED failed
       \/ /\ IngestionOf(f).Type = "clickhouse"
          /\ failed' = failed \cup {client[f][i].id : i \in DOMAIN client[f]}
          /\ client' = [client EXCEPT ![f] = <<>>]
          /\ UNCHANGED stored
       \/ IngestionOf(f).Type # "clickhouse" /\ UNCHANGED <<client, stored, failed>>
    /\ UNCHANGED <<conf, status, startVars, arrived, dropped, chan, holds, items>>

ClientStores(f) ==
    /\ Alive /\ client[f] # <<>>
    /\ stored' = [stored EXCEPT ![f] = @ \cup {Head(client[f])}]
    /\ client' = [client EXCEPT ![f] = Tail(@)]
    /\ UNCHANGED <<conf, status, startVars, arrived, dropped, chan, holds, items, left, failed>>

ClientGivesUp(f) ==
    /\ Alive /\ client[f] # <<>>
    /\ failed' = failed \cup {Head(client[f]).id}
    /\ client' = [client EXCEPT ![f] = Tail(@)]
    /\ UNCHANGED <<conf, status, startVars, arrived, dropped, chan, holds, items, left, stored>>

-----------------------------------------------------------------------------
WorkerStep(f, w) == WorkerMakes(f, w) \/ WorkerSends(f, w) \/ WorkerDone(f, w)
LoopStep(f) == LoopTakes(f) \/ LoopDivides(f) \/ LoopDone(f)
ClientStep(f) == ClientStores(f) \/ ClientGivesUp(f)

Next ==
    \/ MainStep \/ Interrupt \/ Exit
    \/ \E f \in Flows :
         \/ Arrive(f) \/ LoopStep(f) \/ ClientStep(f)
         \/ \E w \in Workers : WorkerStep(f, w)

(* Goroutines are scheduled, and a storage that is not stalled answers.    *)
Fairness ==
    /\ WF_vars(MainStep)
    /\ \A f \in Flows :
         /\ WF_vars(LoopStep(f))
         /\ WF_vars(f \notin conf.Stalled /\ ClientStep(f))
         /\ \A w \in Workers : WF_vars(WorkerStep(f, w))

Spec == Init /\ [][Next]_vars /\ Fairness

-----------------------------------------------------------------------------
(* Every variable holds a value of its kind, channels keep within their    *)
(* capacities, and what runs was started from a valid configuration: a     *)
(* flow that runs has a client, and no address is listened on twice.       *)
TypeOK ==
    /\ status \in {"load", "run", "done", "exit", "crash"}
    /\ status = "load" => sources = {} /\ running = {}
    /\ sources \cup running # {} => Valid
    /\ running \subseteq {f \in DOMAIN conf.Flow : f < flow /\ IngestionOf(f).Opens}
    /\ \A f, h \in sources :
         f # h /\ IngressOf(f).Type = "grpc" /\ IngressOf(h).Type = "grpc" =>
             IngressOf(f).Addr # IngressOf(h).Addr
    /\ geo.level \in 0..LevelCityLocASN
    /\ \A f \in Flows : /\ arrived[f] \in 0..Cardinality(Records)
                        /\ Len(chan[f]) <= ChCap /\ Len(items[f]) <= ItemCap
                        /\ Len(client[f]) <= ClientCap
    /\ left \subseteq running \X (Workers \cup {Loop})

Ids(seq) == {seq[i].id : i \in DOMAIN seq}

(* Where the records of flow f are, a place for each way it may go.        *)
PlacesOf(f) ==
    [dropped |-> {r \in dropped : r[1] = f},
     chan |-> Ids(chan[f]),
     workers |-> {holds[f][w][1].id : w \in {x \in Workers : HasItem(f, x)}},
     items |-> Ids(items[f]),
     client |-> Ids(client[f]),
     stored |-> {i.id : i \in stored[f]},
     failed |-> {r \in failed : r[1] = f}]

(* A record that reached a flow's ingress is in exactly one place of that  *)
(* flow, as long as no panic has thrown away what a worker held: flows     *)
(* never take each other's records, and none disappears on the way.        *)
Routed ==
    status # "crash" =>
        \A f \in Flows :
            LET at == PlacesOf(f)
            IN /\ UNION {at[p] : p \in DOMAIN at} = {<<f, k>> : k \in 1..arrived[f]}
               /\ \A p, q \in DOMAIN at : p # q => at[p] \cap at[q] = {}

(* What validateFlow and the configuration of a storage do not look at and *)
(* the process does not survive.                                           *)

(* An unknown serialization, or agents that use the call of another one.   *)
BadSerialization(f) == Ser(f) \notin Serializations \/ Delivered(f) # Ser(f)

(* A geo field that is a number of a JSON record or, with pb, none of the  *)
(* fields but an internal member.  Influxdb has no trouble with either.    *)
BadGeoField(f) ==
    LET field == IngestionOf(f).GeoField
    IN /\ conf.Geo.Type = "maxmind" /\ IngestionOf(f).Type # "influxdb"
       /\ \/ /\ Ser(f) = "json"
             /\ \E k \in DOMAIN conf.Sent[f] :
                  field \in conf.Sent[f][k].names /\ Kind[field] # "string"
          \/ Ser(f) = "pb" /\ field \in Internal

(* A column for what is no field, or for a number that a JSON record lacks.*)
BadColumn(f) ==
    /\ IngestionOf(f).Type = "clickhouse"
    /\ \E c \in DOMAIN IngestionOf(f).Fields :
         LET n == IngestionOf(f).Fields[c]
         IN \/ n \notin Columns
            \/ /\ Ser(f) = "json" /\ n \in DOMAIN Kind /\ Kind[n] # "string"
               /\ \E k \in DOMAIN conf.Sent[f] : n \notin conf.Sent[f][k].names

(* A divisor of 0, or a size or an interval that is negative.              *)
BadNumber(f) ==
    \/ IngestionOf(f).Type = "clickhouse" /\ IngestionOf(f).FlushInterval = 0
    \/ IndexerPanics(IngestionOf(f))

Unsound(f) == BadSerialization(f) \/ BadGeoField(f) \/ BadColumn(f) \/ BadNumber(f)

(* Nothing else ends the process with a panic, and no flow that main has   *)
(* not come to; above all not the lookup that the second flow initializes  *)
(* while the first one is using it.                                        *)
NeverPanics == status = "crash" => \E f \in DOMAIN conf.Flow : f <= flow /\ Unsound(f)

-----------------------------------------------------------------------------
(* What a geo level is configured for, by its name.                        *)
Promised(level, place) ==
    LET Has(names) == level \in names
    IN IF place = "none" THEN {}
       ELSE (IF Has({"asn", "city-asn", "City-ASN", "city-loc-asn"})
             THEN {"ASN", "ASNOrg"} ELSE {})
         \cup (IF Has({"asn"}) THEN {}
               ELSE {"CCode", "Country", "City"}
                      \cup (IF place = "divided" THEN {"CSCode", "Region"} ELSE {}))
         \cup (IF Has({"city-loc", "city-loc-asn"}) THEN {"GeoLocation"} ELSE {})

(* The text of record r that is looked up, as a set of at most one field.  *)
Address(f, r) == {n \in r.names \cap {IngestionOf(f).GeoField} : Kind[n] = "string"}

Geography(f, r) ==
    IF conf.Geo.Type = "maxmind" /\ Address(f, r) # {}
    THEN Promised(conf.Geo.Level, r.place) ELSE {}

(* What the storage is asked to keep of record r: a name, and whether it   *)
(* is text.                                                                *)
Expected(f, r) ==
    LET i == IngestionOf(f)
        told == r.names \cup Geography(f, r)
        kept == CASE i.Type = "elasticsearch" -> told
                  [] i.Type = "influxdb" -> IF conf.Geo.Type = "maxmind"
                                            THEN (r.names \ Address(f, r)) \cup Geography(f, r)
                                            ELSE told
                  [] i.Type = "clickhouse" -> {i.Fields[c] : c \in DOMAIN i.Fields} \cap told
    IN {<<n, Kind[n] = "string">> : n \in kept}

(* What it was given, as far as each value is the one of its own name.     *)
Given(f, doc) ==
    LET i == IngestionOf(f)
        Own(m, text) == {<<n, text>> : n \in {x \in DOMAIN m : m[x].of = x}}
    IN CASE i.Type = "elasticsearch" ->
              {<<n, doc[n].as = "text">> : n \in {x \in DOMAIN doc : doc[x].of = x}}
         [] i.Type = "influxdb" ->
              Own(doc.tags, TRUE) \cup Own(doc.fields, FALSE)
                \cup {<<n, FALSE>> : n \in doc.time}
         [] i.Type = "clickhouse" ->
              {<<i.Fields[c], doc[c].as = "string">> :
                 c \in {x \in DOMAIN i.Fields : doc[x].of = i.Fields[x]}}

(* Nothing is given under the name of something else.                      *)
Misplaced(f, doc) ==
    LET i == IngestionOf(f)
        Wrong(m) == \E n \in DOMAIN m : m[n].of # n
    IN CASE i.Type = "elasticsearch" -> Wrong(doc)
         [] i.Type = "influxdb" -> Wrong(doc.tags) \/ Wrong(doc.fields)
         [] i.Type = "clickhouse" ->
              \E c \in DOMAIN i.Fields : doc[c].of \notin {i.Fields[c], "nothing"}

(* Elasticsearch gets the 64-bit numbers of a pb record as text.           *)
Untyped(f, facts) ==
    IF IngestionOf(f).Type = "elasticsearch" /\ Ser(f) = "pb"
    THEN {IF Kind[x[1]] = "uint64" THEN <<x[1], TRUE>> ELSE x : x \in facts} ELSE facts

(* Nine functions agree: whatever the serialization, a storage is given    *)
(* what the record says and the configured geography of its address, each  *)
(* value under its own name and as text or number.                         *)
DocumentsMatch ==
    \A f \in Flows : \A s \in stored[f] :
        LET r == conf.Sent[f][s.id[2]]
        IN /\ Given(f, s.doc) = Untyped(f, Expected(f, r))
           /\ ~Misplaced(f, s.doc)

(* A storage that answers gets the records of its flow, or the server says *)
(* that it gave one up, although the storage of another flow is stalled.   *)
Stored ==
    \A f \in Flows, k \in Records :
        ( /\ status = "run" /\ f \in DOMAIN conf.Flow \ conf.Stalled
          /\ <<f, k>> \in Ids(chan[ChannelOf(f)])
          /\ IngestionOf(f).Type \in Types.Ingestion )
        ~> ( \/ status # "run" \/ <<f, k>> \in failed
             \/ \E s \in stored[f] : s.id = <<f, k>> )
=============================================================================
