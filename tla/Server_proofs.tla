---------------------------- MODULE Server_proofs ----------------------------
(***************************************************************************)
(* Theorems about the server, for every set of configurations, any number  *)
(* of flows, records and workers, and every capacity.                      *)
(***************************************************************************)
EXTENDS Server, SequenceTheorems, FiniteSetTheorems, TLAPS

(* Taking from and adding to a channel.                                    *)
LEMMA QueueFacts ==
    ASSUME NEW S, NEW q \in Seq(S)
    PROVE  /\ Len(q) \in Nat /\ DOMAIN q = 1..Len(q)
           /\ \A i \in 1..Len(q) : q[i] \in S
           /\ q # <<>> => /\ Head(q) \in S /\ Head(q) = q[1] /\ Len(q) >= 1
                          /\ Tail(q) \in Seq(S) /\ Len(Tail(q)) = Len(q) - 1
                          /\ \A i \in 1..(Len(q) - 1) : Tail(q)[i] = q[i + 1]
           /\ \A x \in S : /\ Append(q, x) \in Seq(S) /\ q \o <<x>> = Append(q, x)
                           /\ Len(Append(q, x)) = Len(q) + 1
                           /\ \A i \in 1..Len(q) : Append(q, x)[i] = q[i]
                           /\ Append(q, x)[Len(q) + 1] = x
BY HeadTailProperties, AppendProperties, LenProperties, AppendIsConcat

(* A configuration has the shape that main relies on.                      *)
LEMMA ConfFacts ==
    ASSUME conf \in Configurations
    PROVE  /\ DOMAIN conf.Flow \subseteq Flows /\ DOMAIN conf.Flow \subseteq Nat \ {0}
           /\ \A f \in DOMAIN conf.Flow :
                /\ Len(conf.Sent[f]) \in 0..Cardinality(Records)
                /\ DOMAIN conf.Sent[f] = 1..Len(conf.Sent[f])
                /\ \A k \in DOMAIN conf.Sent[f] :
                     /\ conf.Sent[f][k].names \subseteq DOMAIN Kind
                     /\ conf.Sent[f][k].place \in Places
<1> DEFINE R == [names : SUBSET DOMAIN Kind, place : Places, utf8 : BOOLEAN]
           F == [Ingress : STRING, Ingestion : STRING, Serialization : STRING]
<1>1. /\ conf.Flow \in Seq(F) /\ DOMAIN conf.Flow \subseteq Flows
      /\ \A f \in DOMAIN conf.Flow : conf.Sent[f] \in Seq(R) /\ DOMAIN conf.Sent[f] \subseteq Records
      /\ IsFiniteSet(Records)
  BY ServerAssumption
<1>2. \A r \in R : r.names \subseteq DOMAIN Kind /\ r.place \in Places
  OBVIOUS
<1> HIDE DEF R, F
<1>3. DOMAIN conf.Flow \subseteq Nat \ {0}
  BY <1>1, QueueFacts
<1>4. ASSUME NEW f \in DOMAIN conf.Flow
      PROVE  /\ Len(conf.Sent[f]) \in 0..Cardinality(Records)
             /\ DOMAIN conf.Sent[f] = 1..Len(conf.Sent[f])
             /\ \A k \in DOMAIN conf.Sent[f] : conf.Sent[f][k] \in R
  <2>1. conf.Sent[f] \in Seq(R) /\ DOMAIN conf.Sent[f] \subseteq Records
    BY <1>1, <1>4
  <2>2. /\ Len(conf.Sent[f]) \in Nat /\ DOMAIN conf.Sent[f] = 1..Len(conf.Sent[f])
        /\ \A k \in DOMAIN conf.Sent[f] : conf.Sent[f][k] \in R
    BY <2>1, QueueFacts
  <2>3. Cardinality(1..Len(conf.Sent[f])) = Len(conf.Sent[f])
    BY <2>2, FS_Interval
  <2>4. Cardinality(1..Len(conf.Sent[f])) <= Cardinality(Records) /\ Cardinality(Records) \in Nat
    BY <1>1, <2>1, <2>2, FS_Subset, FS_CardinalityType
  <2> QED BY <2>2, <2>3, <2>4
<1> QED BY <1>1, <1>2, <1>3, <1>4

-----------------------------------------------------------------------------
(* What main has reached.                                                  *)
Steps == {"ingress", "client", "level", "city", "asn", "func", "workers"}

ProgressInv ==
    /\ conf \in Configurations
    /\ DOMAIN main = {1, 2} /\ main[1] \in Nat \ {0} /\ main[2] \in Steps
    /\ status \in {"load", "run", "done", "exit", "crash"}
    /\ status = "load" => sources = {} /\ running = {} /\ main[2] = "ingress"
    /\ status \in {"run", "done"} => Valid
    /\ sources \cup running # {} => Valid

(* The ingresses of the flows that main is done with and perhaps of the    *)
(* one it is at; the addresses of grpc ingresses are kept.                 *)
SourcesInv ==
    /\ \A f \in sources : /\ f \in DOMAIN conf.Flow /\ f <= main[1]
                          /\ main[2] = "ingress" => f < main[1]
    /\ \A f \in sources : IngressOf(f).Type = "grpc" => IngressOf(f).Addr \in listening
    /\ \A f, h \in sources :
         f # h /\ IngressOf(f).Type = "grpc" /\ IngressOf(h).Type = "grpc" =>
             IngressOf(f).Addr # IngressOf(h).Addr

(* The client of a flow is there before the lookup is initialized for it,  *)
(* if there is one, and before its workers.                                *)
HasClient(f) == IngestionOf(f).Opens /\ IngestionOf(f).Type \in Types.Ingestion

RunningInv ==
    /\ \A f \in running : f \in DOMAIN conf.Flow /\ f < main[1] /\ HasClient(f)
    /\ main[2] \notin {"ingress", "client"} => HasClient(main[1])
    /\ main[2] \in {"level", "city", "asn", "func"} => conf.Geo.Type = "maxmind"

StartInv == ProgressInv /\ SourcesInv /\ RunningInv

(* Nothing is started at first.                                            *)
LEMMA StartInit == Init => StartInv
BY DEF Init, StartInv, ProgressInv, SourcesInv, RunningInv, Steps

(* What does not depend on more than the configuration.                    *)
LEMMA ConfStays ==
    ASSUME conf' = conf
    PROVE  /\ Valid' = Valid
           /\ \A f : /\ IngressOf(f)' = IngressOf(f) /\ IngestionOf(f)' = IngestionOf(f)
                    /\ HasClient(f)' = HasClient(f)
                    /\ Ser(f)' = Ser(f) /\ Delivered(f)' = Delivered(f)
                    /\ Unsound(f)' = Unsound(f)
BY DEF Valid, IngressOf, IngestionOf, HasClient, Ser, Delivered, Unsound, BadSerialization,
       BadGeoField, BadColumn, BadNumber, IndexerPanics

(* Main stays within the flows of the configuration.                       *)
LEMMA MainFacts ==
    ASSUME StartInv, NEW step, At(step)
    PROVE  /\ flow = main[1] /\ flow \in DOMAIN conf.Flow /\ flow \in Nat \ {0}
           /\ main[2] = step /\ Valid /\ status \in {"run", "done"}
BY ConfFacts DEF StartInv, ProgressInv, At, Alive, flow

(* Each step of main.                                                      *)
LEMMA StartMain == StartInv /\ MainStep => StartInv'
<1> SUFFICES ASSUME StartInv, MainStep PROVE StartInv'
  OBVIOUS
<1> USE DEF StartInv
<1>1. CASE Validate
  <2>1. /\ conf' = conf /\ main' = main /\ listening' = listening /\ sources' = sources
        /\ running' = running /\ status = "load" /\ status' = IF Valid THEN "run" ELSE "exit"
    BY <1>1 DEF Validate, startVars
  <2> QED BY <2>1, ConfStays DEF ProgressInv, SourcesInv, RunningInv
<1>2. CASE StartIngress
  <2> USE DEF StartIngress, startVars, Fatal, To
  <2>1. /\ flow = main[1] /\ flow \in DOMAIN conf.Flow /\ flow \in Nat \ {0} /\ main[2] = "ingress"
        /\ Valid /\ status \in {"run", "done"} /\ conf' = conf
    BY <1>2, MainFacts
  <2>2. CASE IngressOf(flow).Type \in Types.Ingress /\ ~IngressStarts(flow)
    <3>1. status' = "exit" /\ UNCHANGED startVars
      BY <1>2, <2>2
    <3> QED BY <2>1, <3>1, ConfStays DEF ProgressInv, SourcesInv, RunningInv, startVars
  <2>3. CASE IngressOf(flow).Type \notin Types.Ingress
    <3>1. main' = <<flow, "client">> /\ UNCHANGED <<status, listening, sources, running>>
      BY <1>2, <2>3
    <3> QED BY <2>1, <3>1, ConfStays DEF ProgressInv, SourcesInv, RunningInv, Steps
  <2>4. CASE IngressOf(flow).Type \in Types.Ingress /\ IngressStarts(flow)
    <3>1. /\ main' = <<flow, "client">> /\ UNCHANGED <<status, running>>
          /\ sources' = sources \cup {flow}
          /\ listening' = listening \cup
                            (IF IngressOf(flow).Type = "grpc" THEN {IngressOf(flow).Addr} ELSE {})
      BY <1>2, <2>4
    <3>2. IngressOf(flow).Type = "grpc" => IngressOf(flow).Addr \notin listening
      BY <2>4 DEF IngressStarts
    <3>3. ProgressInv' /\ RunningInv'
      BY <2>1, <3>1, ConfStays DEF ProgressInv, RunningInv, Steps
    <3>4. SourcesInv'
      BY <2>1, <3>1, <3>2, ConfStays DEF ProgressInv, SourcesInv
    <3> QED BY <3>3, <3>4
  <2> QED BY <2>2, <2>3, <2>4
<1>3. CASE StartClient
  <2> USE DEF StartClient, startVars, Fatal, To, NextFlow
  <2>1. /\ flow = main[1] /\ flow \in DOMAIN conf.Flow /\ flow \in Nat \ {0} /\ main[2] = "client"
        /\ Valid /\ status \in {"run", "done"} /\ conf' = conf
    BY <1>3, MainFacts
  <2>2. CASE IngestionOf(flow).Type \notin Types.Ingestion
    <3>1. main' = <<flow + 1, "ingress">> /\ UNCHANGED <<status, listening, sources, running>>
      BY <1>3, <2>2
    <3> QED BY <2>1, <3>1, ConfStays, ConfFacts DEF ProgressInv, SourcesInv, RunningInv, Steps
  <2>3. CASE IngestionOf(flow).Type \in Types.Ingestion /\ ~IngestionOf(flow).Opens
    <3>1. status' = "exit" /\ UNCHANGED startVars
      BY <1>3, <2>3
    <3> QED BY <2>1, <3>1, ConfStays DEF ProgressInv, SourcesInv, RunningInv, startVars
  <2>4. CASE /\ IngestionOf(flow).Type \in Types.Ingestion /\ IngestionOf(flow).Opens
             /\ IndexerPanics(IngestionOf(flow))
    <3>1. status' = "crash" /\ UNCHANGED startVars
      BY <1>3, <2>4 DEF Crash
    <3> QED BY <2>1, <3>1, ConfStays DEF ProgressInv, SourcesInv, RunningInv, startVars
  <2>5. CASE /\ IngestionOf(flow).Type \in Types.Ingestion /\ IngestionOf(flow).Opens
             /\ ~IndexerPanics(IngestionOf(flow))
    <3>1. /\ main' = <<flow, IF conf.Geo.Type = "maxmind" THEN "level" ELSE "workers">>
          /\ UNCHANGED <<status, listening, sources, running>> /\ HasClient(flow)
      BY <1>3, <2>5 DEF HasClient
    <3> QED BY <2>1, <3>1, ConfStays DEF ProgressInv, SourcesInv, RunningInv, Steps
  <2> QED BY <2>2, <2>3, <2>4, <2>5
<1>4. ASSUME NEW step \in {"level", "city", "asn", "func"}, At(step), conf' = conf,
             \/ status' = "exit" /\ UNCHANGED startVars
             \/ /\ UNCHANGED <<status, listening, sources, running>>
                /\ \E next \in {"city", "asn", "func", "workers"} : main' = <<flow, next>>
      PROVE  StartInv'
  <2>1. /\ flow = main[1] /\ flow \in DOMAIN conf.Flow /\ flow \in Nat \ {0} /\ main[2] = step
        /\ Valid /\ status \in {"run", "done"}
    BY <1>4, MainFacts
  <2>2. /\ UNCHANGED <<listening, sources, running>> /\ status' \in {status, "exit"}
        /\ \/ main' = main
           \/ \E next \in {"city", "asn", "func", "workers"} : main' = <<flow, next>>
    BY <1>4 DEF startVars
  <2> QED BY <1>4, <2>1, <2>2, ConfStays DEF ProgressInv, SourcesInv, RunningInv, Steps
<1>5. CASE InitLevel
  BY <1>4, <1>5 DEF InitLevel, Fatal, To
<1>6. CASE InitCity
  BY <1>4, <1>6 DEF InitCity, OpenDatabase, Fatal, To
<1>7. CASE InitASN
  BY <1>4, <1>7 DEF InitASN, OpenDatabase, Fatal, To
<1>8. CASE InitFunc
  BY <1>4, <1>8 DEF InitFunc, To
<1>9. CASE StartWorkers
  <2>1. /\ flow = main[1] /\ flow \in DOMAIN conf.Flow /\ flow \in Nat \ {0} /\ main[2] = "workers"
        /\ Valid /\ status \in {"run", "done"} /\ conf' = conf
        /\ main' = <<flow + 1, "ingress">> /\ running' = running \cup {flow}
        /\ UNCHANGED <<status, listening, sources>>
    BY <1>9, MainFacts DEF StartWorkers, NextFlow
  <2> QED BY <2>1, ConfStays, ConfFacts DEF ProgressInv, SourcesInv, RunningInv, Steps
<1> QED BY <1>1, <1>2, <1>3, <1>5, <1>6, <1>7, <1>8, <1>9 DEF MainStep

(* All other steps leave what main did as it is.                           *)
LEMMA StartOthers ==
    ASSUME StartInv, UNCHANGED <<conf, startVars>>,
           \/ status' \in {status, "crash"}
           \/ status' \in {"done", "exit"} /\ status \in {"run", "done"}
    PROVE  StartInv'
<1>1. /\ UNCHANGED <<conf, main, listening, sources, running>>
      /\ status' = "load" => status = "load"
      /\ status' \in {"run", "done"} => status \in {"run", "done"}
      /\ status' \in {"load", "run", "done", "exit", "crash"}
  BY DEF startVars, StartInv, ProgressInv
<1> QED BY <1>1, ConfStays DEF StartInv, ProgressInv, SourcesInv, RunningInv

-----------------------------------------------------------------------------
Lookups == {"getASN", "getCityASN", "getCityLocASN"}

GeoType == [level : 0..LevelCityLocASN, cityDB : BOOLEAN, asnDB : BOOLEAN, isASN : BOOLEAN,
            fn : Lookups \cup {"nil", "none"}]

(* What Init makes of the new object.                                      *)
Ready ==
    LET levelled == WithLevel(New, conf.Geo)
        city == IF NeedsCity(levelled) THEN WithCity(levelled) ELSE levelled
    IN WithFunc(IF NeedsASN(levelled) THEN WithASN(city) ELSE city)

(* The geo object is initialized once and for all: until the first flow    *)
(* runs each step adds what the level needs, from then on each step writes *)
(* what is there already, so that workers always see the same object.      *)
GeoInv ==
    /\ geo \in GeoType /\ geo.fn # "none"
    /\ main[2] \in {"city", "asn", "func"} => geo.level = Ready.level /\ geo.level # 0
    /\ main[2] = "city" => NeedsCity(geo)
    /\ main[2] = "asn" => NeedsASN(geo) /\ geo.cityDB = Ready.cityDB
    /\ main[2] = "func" =>
         geo.cityDB = Ready.cityDB /\ geo.asnDB = Ready.asnDB /\ geo.isASN = Ready.isASN
    /\ geo.cityDB => Ready.cityDB
    /\ geo.asnDB => Ready.asnDB
    /\ geo.isASN = geo.asnDB
    /\ geo.level # 0 => geo.level = Ready.level
    /\ geo.fn # "nil" => geo = Ready /\ Ready.level # 0
    /\ main[2] = "workers" /\ conf.Geo.Type = "maxmind" => geo = Ready /\ Ready.level # 0
    /\ running # {} /\ conf.Geo.Type = "maxmind" => geo = Ready /\ Ready.level # 0

(* The fields of that object, and that a lookup in it does not panic.      *)
LEMMA ReadyFacts ==
    /\ Ready \in GeoType /\ Ready.level = str2Level(conf.Geo.Level)
    /\ Ready.cityDB <=> Ready.level # LevelASN
    /\ Ready.asnDB <=> Ready.level % 2 = 1
    /\ Ready.isASN = Ready.asnDB
    /\ Ready.fn = getFunc(Ready)
    /\ Ready.level # 0 => Ready.fn \in Lookups /\ ~GetPanics(Ready)
<1> DEFINE l == WithLevel(New, conf.Geo)
           c == IF NeedsCity(l) THEN WithCity(l) ELSE l
           a == IF NeedsASN(l) THEN WithASN(c) ELSE c
<1> USE DEF LevelASN, LevelCity, LevelCityASN, LevelCityLoc, LevelCityLocASN
<1>1. str2Level(conf.Geo.Level) \in 0..5
  BY DEF str2Level
<1>2. /\ New \in GeoType /\ New.level = 0 /\ ~New.cityDB /\ ~New.asnDB /\ ~New.isASN
      /\ New.fn = "nil"
  BY DEF New, GeoType
<1>3. /\ l \in GeoType /\ l.level = str2Level(conf.Geo.Level)
      /\ ~l.cityDB /\ ~l.asnDB /\ ~l.isASN
  BY <1>1, <1>2 DEF WithLevel, GeoType
<1> HIDE DEF l
<1>4. /\ c \in GeoType /\ c.level = l.level /\ ~c.asnDB /\ ~c.isASN
      /\ c.cityDB <=> c.level # LevelASN
  BY <1>3 DEF WithCity, NeedsCity, GeoType
<1> HIDE DEF c
<1>5. /\ a \in GeoType /\ a.level = l.level /\ a.cityDB = c.cityDB
      /\ a.asnDB <=> a.level % 2 = 1
      /\ a.isASN = a.asnDB
  BY <1>3, <1>4 DEF WithASN, NeedsASN, GeoType
<1> HIDE DEF a
<1>6. getFunc(a) \in Lookups \cup {"nil"} /\ (a.level # 0 => getFunc(a) \in Lookups)
  <2>1. a.level \in 0..5
    BY <1>5 DEF GeoType
  <2> QED BY <2>1 DEF getFunc, Lookups
<1>7. /\ WithFunc(a) \in GeoType /\ WithFunc(a).fn = getFunc(a)
      /\ WithFunc(a).level = a.level /\ WithFunc(a).cityDB = a.cityDB
      /\ WithFunc(a).asnDB = a.asnDB /\ WithFunc(a).isASN = a.isASN
  BY <1>5, <1>6 DEF WithFunc, GeoType
<1>8. Ready = WithFunc(a)
  BY DEF Ready, l, c, a
<1>9. getFunc(Ready) = getFunc(a)
  BY <1>7, <1>8 DEF getFunc
<1>10. getFunc(a) = "getASN" => a.level = LevelASN
  <2>1. a.level \in 0..5
    BY <1>5 DEF GeoType
  <2> QED BY <2>1 DEF getFunc
<1>11. getFunc(a) \in Lookups \ {"getASN"} => a.level # LevelASN
  BY DEF getFunc, Lookups
<1> QED BY <1>3, <1>4, <1>5, <1>6, <1>7, <1>8, <1>9, <1>10, <1>11 DEF GetPanics, Lookups

(* The new object knows nothing.                                           *)
LEMMA GeoInit == Init => GeoInv
<1> SUFFICES ASSUME Init PROVE GeoInv
  OBVIOUS
<1>1. /\ New \in GeoType /\ New.level = 0 /\ New.fn = "nil"
      /\ New.cityDB = FALSE /\ New.asnDB = FALSE /\ New.isASN = FALSE
  BY DEF New, GeoType, LevelCityLocASN
<1>2. geo = New /\ main[2] = "ingress" /\ running = {}
  BY DEF Init
<1> HIDE DEF New
<1> QED BY <1>1, <1>2 DEF GeoInv

(* What is initialized depends on the configuration only.                  *)
LEMMA ReadyStays == conf' = conf => Ready' = Ready
BY DEF Ready

(* An object with the fields of Ready is Ready.                            *)
LEMMA SameGeo ==
    ASSUME NEW g \in GeoType, g.level = Ready.level, g.cityDB = Ready.cityDB,
           g.asnDB = Ready.asnDB, g.isASN = Ready.isASN, g.fn = Ready.fn
    PROVE  g = Ready
<1>1. Ready \in GeoType
  BY ReadyFacts
<1> QED BY <1>1 DEF GeoType

(* Each step of main.                                                      *)
LEMMA GeoMain == StartInv /\ GeoInv /\ MainStep => GeoInv'
<1> SUFFICES ASSUME StartInv, GeoInv, MainStep PROVE GeoInv'
  OBVIOUS
<1>1. ASSUME conf' = conf, geo' = geo, main' = main \/ main'[2] \in {"ingress", "client"},
             running' = running
      PROVE  GeoInv'
  BY <1>1, ReadyStays DEF GeoInv
<1>2. conf' = conf
  BY DEF MainStep, Validate, StartIngress, StartClient, InitLevel, InitCity, InitASN, InitFunc,
         StartWorkers, OpenDatabase
<1>3. CASE Validate
  BY <1>1, <1>2, <1>3 DEF Validate, startVars
<1>4. CASE StartIngress
  BY <1>1, <1>2, <1>4 DEF StartIngress, startVars, To, Fatal
<1>5. CASE StartClient
  <2>1. UNCHANGED <<geo, running>>
    BY <1>5 DEF StartClient, startVars, Fatal
  <2>2. CASE main' = main \/ main'[2] \in {"ingress", "client"}
    BY <1>1, <1>2, <2>1, <2>2
  <2>3. CASE main'[2] = "level"
    BY <1>2, <2>1, <2>3, ReadyStays DEF GeoInv
  <2>4. CASE main'[2] = "workers" /\ conf.Geo.Type # "maxmind"
    BY <1>2, <2>1, <2>4, ReadyStays DEF GeoInv
  <2> QED BY <1>5, <2>2, <2>3, <2>4 DEF StartClient, startVars, Fatal, Crash, To, NextFlow
<1>6. CASE InitLevel
  <2> DEFINE g == WithLevel(geo, conf.Geo)
  <2>1. CASE UNCHANGED startVars
    BY <1>1, <1>2, <2>1 DEF startVars
  <2>2. CASE Validated(g, conf.Geo)
    <3>1. /\ g \in GeoType /\ g.level = Ready.level /\ g.cityDB = geo.cityDB
          /\ g.asnDB = geo.asnDB /\ g.isASN = geo.isASN /\ g.fn = geo.fn
      <4>1. str2Level(conf.Geo.Level) = Ready.level /\ Ready.level \in 0..LevelCityLocASN
        BY ReadyFacts DEF GeoType
      <4> QED BY <4>1 DEF GeoInv, GeoType, WithLevel
    <3>2. g.level # 0
      BY <2>2 DEF Validated
    <3>3. \/ UNCHANGED startVars
          \/ /\ geo' = g /\ running' = running
             /\ main' = <<flow, IF NeedsCity(g) THEN "city" ELSE "asn">>
      BY <1>6 DEF InitLevel, Fatal, To
    <3>4. geo = Ready => g = Ready
      BY <3>1, SameGeo
    <3> HIDE DEF g
    <3>5. NeedsCity(g) \/ (NeedsASN(g) /\ ~g.cityDB /\ ~Ready.cityDB)
      <4>1. CASE g.level = 1
        <5>1. ~Ready.cityDB /\ (geo.cityDB => Ready.cityDB)
          BY <3>1, <4>1, ReadyFacts DEF LevelASN, GeoInv
        <5> QED BY <3>1, <4>1, <5>1 DEF NeedsASN
      <4>2. CASE g.level # 1
        BY <3>1, <4>2 DEF NeedsCity, NeedsASN, LevelASN
      <4> QED BY <4>1, <4>2
    <3>6. CASE /\ geo' = g /\ running' = running
               /\ main' = <<flow, IF NeedsCity(g) THEN "city" ELSE "asn">>
      <4>1. main'[2] \in {"city", "asn"} /\ Ready' = Ready
        BY <1>2, <3>6, ReadyStays
      <4>2. main'[2] = "city" => NeedsCity(g)
        BY <3>6
      <4>3. main'[2] = "asn" => NeedsASN(g) /\ g.cityDB = Ready.cityDB
        <5>1. g.cityDB \in BOOLEAN /\ Ready.cityDB \in BOOLEAN
          BY <3>1, ReadyFacts DEF GeoType
        <5> QED BY <3>5, <3>6, <5>1
      <4> QED BY <1>2, <3>1, <3>2, <3>4, <3>6, <4>1, <4>2, <4>3 DEF GeoInv
    <3> QED BY <2>1, <3>3, <3>6
  <2> QED BY <1>6, <2>1, <2>2 DEF InitLevel, Fatal
<1>7. CASE InitCity
  <2> DEFINE g == WithCity(geo)
  <2>1. geo.level = Ready.level /\ geo.level # 0 /\ NeedsCity(geo)
    BY <1>7, MainFacts DEF InitCity, OpenDatabase, GeoInv
  <2>2. /\ g \in GeoType /\ g.level = geo.level /\ g.cityDB = TRUE
        /\ g.asnDB = geo.asnDB /\ g.isASN = geo.isASN /\ g.fn = geo.fn
    BY DEF WithCity, GeoInv, GeoType
  <2>3. Ready.cityDB = TRUE
    <3>1. Ready.cityDB
      BY <2>1, ReadyFacts DEF NeedsCity
    <3> QED BY <3>1, ReadyFacts DEF GeoType
  <2>4. geo = Ready => g = Ready
    BY <2>1, <2>2, <2>3, SameGeo
  <2>5. ~NeedsASN(geo) => geo.asnDB = Ready.asnDB /\ geo.isASN = Ready.isASN
    <3>1. geo.asnDB \in BOOLEAN /\ Ready.asnDB \in BOOLEAN
      BY ReadyFacts DEF GeoInv, GeoType
    <3>2. ~NeedsASN(geo) => ~Ready.asnDB
      BY <2>1, ReadyFacts DEF NeedsASN
    <3>3. (geo.asnDB => Ready.asnDB) /\ geo.isASN = geo.asnDB
      BY DEF GeoInv
    <3> QED BY <3>1, <3>2, <3>3, ReadyFacts
  <2> HIDE DEF g
  <2>6. CASE UNCHANGED startVars
    BY <1>1, <1>2, <2>6 DEF startVars
  <2>7. CASE /\ geo' = g /\ running' = running
             /\ main' = <<flow, IF NeedsASN(geo) THEN "asn" ELSE "func">>
    <3>1. /\ main'[2] \in {"asn", "func"} /\ Ready' = Ready
          /\ main'[2] = "asn" => NeedsASN(geo)
          /\ main'[2] = "func" => ~NeedsASN(geo)
      BY <1>2, <2>7, ReadyStays
    <3>2. NeedsASN(g) = NeedsASN(geo)
      BY <2>2 DEF NeedsASN
    <3> QED BY <1>2, <2>1, <2>2, <2>3, <2>4, <2>5, <2>7, <3>1, <3>2 DEF GeoInv
  <2> QED BY <1>7, <2>6, <2>7 DEF InitCity, OpenDatabase, Fatal, To, g
<1>8. CASE InitASN
  <2> DEFINE g == WithASN(geo)
  <2>1. /\ geo.level = Ready.level /\ geo.level # 0 /\ NeedsASN(geo)
        /\ geo.cityDB = Ready.cityDB
    BY <1>8, MainFacts DEF InitASN, OpenDatabase, GeoInv
  <2>2. /\ g \in GeoType /\ g.level = geo.level /\ g.cityDB = geo.cityDB
        /\ g.asnDB = TRUE /\ g.isASN = TRUE /\ g.fn = geo.fn
    BY DEF WithASN, GeoInv, GeoType
  <2>3. Ready.asnDB = TRUE /\ Ready.isASN = TRUE
    <3>1. Ready.asnDB /\ Ready.isASN = Ready.asnDB
      BY <2>1, ReadyFacts DEF NeedsASN
    <3> QED BY <3>1, ReadyFacts DEF GeoType
  <2>4. geo = Ready => g = Ready
    BY <2>1, <2>2, <2>3, SameGeo
  <2> HIDE DEF g
  <2>5. CASE UNCHANGED startVars
    BY <1>1, <1>2, <2>5 DEF startVars
  <2>6. CASE geo' = g /\ running' = running /\ main' = <<flow, "func">>
    <3>1. main'[2] = "func" /\ Ready' = Ready
      BY <1>2, <2>6, ReadyStays
    <3> QED BY <1>2, <2>1, <2>2, <2>3, <2>4, <2>6, <3>1 DEF GeoInv
  <2> QED BY <1>8, <2>5, <2>6 DEF InitASN, OpenDatabase, Fatal, To, g
<1>9. CASE InitFunc
  <2> DEFINE g == WithFunc(geo)
  <2>1. /\ geo.level = Ready.level /\ geo.level # 0
        /\ geo.cityDB = Ready.cityDB /\ geo.asnDB = Ready.asnDB /\ geo.isASN = Ready.isASN
    BY <1>9, MainFacts DEF InitFunc, GeoInv
  <2>2. getFunc(geo) = Ready.fn /\ Ready.fn \in Lookups
    BY <2>1, ReadyFacts DEF getFunc
  <2>3. /\ g \in GeoType /\ g.level = geo.level /\ g.cityDB = geo.cityDB
        /\ g.asnDB = geo.asnDB /\ g.isASN = geo.isASN /\ g.fn = Ready.fn
    BY <2>2 DEF WithFunc, GeoInv, GeoType
  <2>4. g = Ready
    BY <2>1, <2>3, SameGeo
  <2>5. geo' = g /\ running' = running /\ main'[2] = "workers" /\ Ready' = Ready
    BY <1>2, <1>9, ReadyStays DEF InitFunc, To
  <2> HIDE DEF g
  <2> QED BY <1>2, <2>1, <2>2, <2>4, <2>5, ReadyFacts DEF GeoInv, Lookups
<1>10. CASE StartWorkers
  <2>1. /\ geo' = geo /\ main'[2] = "ingress" /\ Ready' = Ready /\ main[2] = "workers"
    BY <1>2, <1>10, ReadyStays, MainFacts DEF StartWorkers, NextFlow
  <2> QED BY <1>2, <2>1 DEF GeoInv
<1> QED BY <1>3, <1>4, <1>5, <1>6, <1>7, <1>8, <1>9, <1>10 DEF MainStep

(* What runs has a lookup that does not panic.                             *)
LEMMA RunningLookup ==
    ASSUME GeoInv, running # {}, conf.Geo.Type = "maxmind"
    PROVE  geo = Ready /\ ~GetPanics(geo)
BY ReadyFacts DEF GeoInv

-----------------------------------------------------------------------------
(* What goes through flow f: the records that agents send, as the ingress  *)
(* delivers them, and what the ingestion makes of each that it can.        *)
Messages(f) ==
    {[id |-> <<f, k>>, msg |-> Message(Delivered(f), conf.Sent[f][k])] :
        k \in DOMAIN conf.Sent[f]}

FinalProvider == IF conf.Geo.Type = "maxmind" THEN Ready ELSE NoGeo

Usable(f) ==
    /\ Valid /\ f \in DOMAIN conf.Flow /\ HasClient(f)
    /\ conf.Geo.Type = "maxmind" => Ready.level # 0

Items(f) ==
    {[id |-> m.id, doc |-> Made(f, m.msg, FinalProvider)[1]] :
        m \in {x \in Messages(f) : Usable(f) /\ Made(f, x.msg, FinalProvider) # Panic}}

(* They carry the number of their record.                                  *)
LEMMA ItemFacts ==
    ASSUME NEW f
    PROVE  /\ \A m \in Messages(f) : m.id[1] = f /\ m.id[2] \in DOMAIN conf.Sent[f]
                                     /\ m.id = <<f, m.id[2]>>
           /\ \A i \in Items(f) : i.id[1] = f /\ i.id[2] \in DOMAIN conf.Sent[f]
                                  /\ i.id = <<f, i.id[2]>>
<1>1. \A m \in Messages(f) : m.id[1] = f /\ m.id[2] \in DOMAIN conf.Sent[f] /\ m.id = <<f, m.id[2]>>
  BY DEF Messages
<1> QED BY <1>1 DEF Items

(* They depend on the configuration only.                                  *)
LEMMA ItemsStay ==
    ASSUME conf' = conf, NEW f
    PROVE  Messages(f)' = Messages(f) /\ Items(f)' = Items(f) /\ FinalProvider' = FinalProvider
<1>1. Delivered(f)' = Delivered(f) /\ Ready' = Ready
  BY ConfStays, ReadyStays
<1>2. Messages(f)' = Messages(f)
  BY <1>1 DEF Messages
<1>3. FinalProvider' = FinalProvider
  BY <1>1 DEF FinalProvider
<1>4. \A m, g : Made(f, m, g)' = Made(f, m, g)
  BY DEF Made, IngestionOf, Ser
<1>5. Usable(f)' = Usable(f)
  BY <1>1, ConfStays DEF Usable
<1> QED BY <1>2, <1>3, <1>4, <1>5 DEF Items

(* What a flow delivers: a message of a serialization, with the fields of  *)
(* its record, each held in the type that the serialization has for it.    *)
LEMMA MessageFacts ==
    ASSUME conf \in Configurations, NEW f \in DOMAIN conf.Flow, NEW m \in Messages(f)
    PROVE  LET r == conf.Sent[f][m.id[2]]
           IN /\ m.id[2] \in DOMAIN conf.Sent[f]
              /\ m.msg.ser = Delivered(f) /\ DOMAIN m.msg.fields = r.names
              /\ r.names \subseteq DOMAIN Kind
              /\ \A n \in r.names : m.msg.fields[n] = V(Held(Delivered(f), n), n)
              /\ m.msg.place = r.place /\ r.place \in Places
<1> DEFINE r == conf.Sent[f][m.id[2]]
<1>1. m.id[2] \in DOMAIN conf.Sent[f] /\ m.msg = Message(Delivered(f), r)
  BY DEF Messages
<1>2. r.names \subseteq DOMAIN Kind /\ r.place \in Places
  BY <1>1, ConfFacts
<1>3. /\ m.msg.ser = Delivered(f) /\ DOMAIN m.msg.fields = r.names /\ m.msg.place = r.place
      /\ \A n \in r.names : m.msg.fields[n] = V(Held(Delivered(f), n), n)
  <2> DEFINE held == [n \in r.names |-> V(Held(Delivered(f), n), n)]
  <2>1. m.msg.ser = Delivered(f) /\ m.msg.fields = held /\ m.msg.place = r.place
    <3> HIDE DEF held, r
    <3>1. m.msg = [ser |-> Delivered(f), fields |-> held, place |-> r.place, utf8 |-> r.utf8]
      BY <1>1 DEF Message, held
    <3> QED BY <3>1
  <2> HIDE DEF r
  <2>2. DOMAIN held = r.names /\ \A n \in r.names : held[n] = V(Held(Delivered(f), n), n)
    OBVIOUS
  <2> QED BY <2>1, <2>2
<1> QED BY <1>1, <1>2, <1>3

(* A function that does not return has an unsound configuration: it is of  *)
(* another serialization, or its geo field or one of its columns is not    *)
(* what it takes.                                                          *)
LEMMA MadeSound ==
    ASSUME conf \in Configurations, NEW f \in DOMAIN conf.Flow, HasClient(f), ~Unsound(f),
           NEW m \in Messages(f)
    PROVE  Made(f, m.msg, FinalProvider) # Panic
<1> DEFINE i == IngestionOf(f)
           field == i.GeoField
           g == FinalProvider
           k == m.id[2]
           N == conf.Sent[f][k].names
<1>1. Ser(f) \in Serializations /\ Delivered(f) = Ser(f)
  BY DEF Unsound, BadSerialization
<1>2. /\ k \in DOMAIN conf.Sent[f] /\ m.msg.ser = Ser(f) /\ DOMAIN m.msg.fields = N
      /\ N \subseteq DOMAIN Kind
      /\ \A n \in N : m.msg.fields[n] = V(Held(Ser(f), n), n)
  BY <1>1, MessageFacts
<1>3. g # NoGeo => conf.Geo.Type = "maxmind"
  BY DEF FinalProvider
<1>4. i.Type # "influxdb" /\ Ser(f) = "json" => ~NoText(m.msg, field, g)
  <2> SUFFICES ASSUME i.Type # "influxdb", Ser(f) = "json", g # NoGeo, field \in N
               PROVE  m.msg.fields[field].as = "string"
    BY <1>2 DEF NoText
  <2>1. Kind[field] = "string"
    BY <1>2, <1>3 DEF Unsound, BadGeoField
  <2>2. Held("json", field) = "string"
    BY <2>1 DEF Held
  <2>3. m.msg.fields[field] = V(Held("json", field), field)
    BY <1>2
  <2> QED BY <2>2, <2>3 DEF V
<1>5. i.Type # "influxdb" /\ Ser(f) = "pb" => ~NoPointer(field, g)
  BY <1>3 DEF Unsound, BadGeoField, NoPointer
<1>6. i.Type = "clickhouse" => ~NoColumn(i.Fields)
  BY DEF Unsound, BadColumn, NoColumn
<1>7. i.Type = "clickhouse" /\ Ser(f) = "json" =>
        \A c \in DOMAIN i.Fields :
           i.Fields[c] \in {n \in DOMAIN Kind : Kind[n] # "string"} => i.Fields[c] \in N
  BY <1>2 DEF Unsound, BadColumn
<1> HIDE DEF g, field, k, N
<1>8. \A x : <<x>> # Panic
  BY DEF Panic
<1>9. \A result : Asserted(m.msg, Ser(f), result) # Panic
  BY <1>2, <1>8 DEF Asserted
<1> HIDE DEF Panic
<1>10. CASE i.Type = "elasticsearch"
  BY <1>1, <1>4, <1>5, <1>9, <1>10
     DEF Made, getItemMaker, itemJSON, itemSPB, itemPB, Serializations, g, field
<1>11. CASE i.Type = "influxdb"
  BY <1>1, <1>9, <1>11
     DEF Made, getPointMaker, pointJSON, pointSPB, pointPB, Serializations, g, field
<1>12. CASE i.Type = "clickhouse"
  <2>1. CASE Ser(f) = "json"
    <3> DEFINE all == SetAll(m.msg.fields, GeoOf(m.msg, field, g))
               Numbers == {n \in DOMAIN Kind : Kind[n] # "string"}
    <3>1. N \subseteq DOMAIN all
      BY <1>2 DEF SetAll
    <3>2. ~\E c \in DOMAIN i.Fields : i.Fields[c] \in Numbers \ DOMAIN all
      BY <1>7, <1>12, <2>1, <3>1
    <3>3. JSON(m.msg, field, g, i.Fields) # Panic
      BY <1>4, <1>6, <1>9, <1>12, <2>1, <3>2 DEF JSON
    <3> QED BY <1>12, <2>1, <3>3 DEF Made, getSliceIfMaker, g, field
  <2>2. CASE Ser(f) # "json"
    BY <1>1, <1>5, <1>6, <1>9, <1>12, <2>2
       DEF Made, getSliceIfMaker, PB, SPB, Serializations, g, field
  <2> QED BY <2>1, <2>2
<1> QED BY <1>10, <1>11, <1>12 DEF HasClient, Types

-----------------------------------------------------------------------------
(* Nothing comes to a flow before its ingress is started, and each channel *)
(* has messages or items of its own flow, within its capacity.             *)
ArrivedInv ==
    /\ arrived \in [Flows -> Nat]
    /\ \A f \in Flows : arrived[f] # 0 => f \in sources /\ arrived[f] <= Len(conf.Sent[f])
    /\ DOMAIN chan = Flows
    /\ \A f \in Flows : /\ chan[f] \in Seq(Messages(f)) /\ Len(chan[f]) <= ChCap
                        /\ chan[f] # <<>> => f \in sources

HoldsInv ==
    /\ DOMAIN holds = Flows
    /\ \A f \in Flows : /\ DOMAIN holds[f] = Workers
                        /\ \A w \in Workers : HasItem(f, w) =>
                             \E i \in Items(f) : holds[f][w] = <<i>>
    /\ left \subseteq running \X (Workers \cup {Loop})

StorageInv ==
    /\ DOMAIN items = Flows /\ DOMAIN client = Flows /\ DOMAIN stored = Flows
    /\ \A f \in Flows : /\ items[f] \in Seq(Items(f)) /\ Len(items[f]) <= ItemCap
                        /\ client[f] \in Seq(Items(f)) /\ Len(client[f]) <= ClientCap
                        /\ stored[f] \subseteq Items(f)

PipeInv == ArrivedInv /\ HoldsInv /\ StorageInv

(* Everything is empty at first.                                           *)
LEMMA PipeInit == Init => PipeInv
<1> SUFFICES ASSUME Init PROVE PipeInv
  OBVIOUS
<1>1. ChCap \in Nat /\ ItemCap \in Nat /\ ClientCap \in Nat
  BY ServerAssumption
<1>2. \A S : <<>> \in Seq(S) /\ Len(<<>>) = 0
  OBVIOUS
<1>3. ArrivedInv
  BY <1>1, <1>2 DEF Init, ArrivedInv
<1>4. HoldsInv
  BY DEF Init, HoldsInv, HasItem
<1>5. StorageInv
  BY <1>1, <1>2 DEF Init, StorageInv
<1> QED BY <1>3, <1>4, <1>5 DEF PipeInv

(* Steps of main only add flows, and go forward.                           *)
LEMMA MainAdds ==
    MainStep => /\ UNCHANGED <<conf, arrived, dropped, pipeVars>>
                /\ sources \subseteq sources' /\ running \subseteq running'
                /\ status # "crash"
                /\ \/ status' \in {status, "run", "exit"}
                   \/ /\ status' = "crash" /\ UNCHANGED startVars
                      /\ At("client") /\ IndexerPanics(IngestionOf(flow))
<1> SUFFICES ASSUME MainStep
             PROVE  /\ UNCHANGED <<conf, arrived, dropped, pipeVars>>
                    /\ sources \subseteq sources' /\ running \subseteq running'
                    /\ status # "crash"
                    /\ \/ status' \in {status, "run", "exit"}
                       \/ /\ status' = "crash" /\ UNCHANGED startVars
                          /\ At("client") /\ IndexerPanics(IngestionOf(flow))
  OBVIOUS
<1>1. CASE StartClient
  <2>1. status \in {"run", "done"} /\ At("client")
    BY <1>1 DEF StartClient, At, Alive
  <2> QED BY <1>1, <2>1 DEF StartClient, Fatal, Crash, startVars
<1>2. CASE ~StartClient
  BY <1>2 DEF MainStep, Validate, StartIngress, InitLevel, InitCity, InitASN, InitFunc,
              StartWorkers, OpenDatabase, At, Alive, Fatal, startVars
<1> QED BY <1>1, <1>2

(* A part of the invariant whose variables stay.                           *)
LEMMA PipeFrame ==
    ASSUME conf' = conf, sources \subseteq sources', running \subseteq running'
    PROVE  /\ ArrivedInv /\ UNCHANGED <<arrived, chan>> => ArrivedInv'
           /\ HoldsInv /\ UNCHANGED <<holds, left>> => HoldsInv'
           /\ StorageInv /\ UNCHANGED <<items, client, stored>> => StorageInv'
<1>1. \A f : Messages(f)' = Messages(f) /\ Items(f)' = Items(f)
  BY ItemsStay
<1>2. ASSUME ArrivedInv, UNCHANGED <<arrived, chan>> PROVE ArrivedInv'
  BY <1>1, <1>2 DEF ArrivedInv
<1>3. ASSUME HoldsInv, UNCHANGED <<holds, left>> PROVE HoldsInv'
  <2>1. \A f, w : HasItem(f, w)' = HasItem(f, w)
    BY <1>3 DEF HasItem
  <2>2. left' \subseteq running' \X (Workers \cup {Loop})
    BY <1>3 DEF HoldsInv
  <2> QED BY <1>1, <1>3, <2>1, <2>2 DEF HoldsInv
<1>4. ASSUME StorageInv, UNCHANGED <<items, client, stored>> PROVE StorageInv'
  BY <1>1, <1>4 DEF StorageInv
<1> QED BY <1>2, <1>3, <1>4

(* What main started, the lookup, and what the flows hold.                 *)
Inv == StartInv /\ GeoInv /\ PipeInv

(* A record arrives.                                                       *)
LEMMA PipeArrive == ASSUME Inv, NEW f \in Flows, Arrive(f) PROVE PipeInv'
<1> USE DEF Inv, PipeInv
<1>1. /\ f \in sources /\ f \in DOMAIN conf.Flow /\ arrived[f] < Len(conf.Sent[f])
      /\ arrived' = [arrived EXCEPT ![f] = @ + 1]
      /\ UNCHANGED <<conf, startVars, holds, items, client, left, stored, failed>>
      /\ UNCHANGED <<sources, running>>
      /\ \/ UNCHANGED chan
         \/ Room(f) /\ Put(f, arrived[f] + 1)
  BY DEF Arrive, StartInv, SourcesInv, startVars
<1>2. HoldsInv' /\ StorageInv'
  BY <1>1, PipeFrame
<1>3. /\ Len(conf.Sent[f]) \in Nat /\ DOMAIN conf.Sent[f] = 1..Len(conf.Sent[f])
      /\ arrived[f] \in Nat /\ arrived[f] + 1 \in DOMAIN conf.Sent[f]
  BY <1>1, ConfFacts DEF StartInv, ProgressInv, ArrivedInv
<1>4. /\ arrived' \in [Flows -> Nat]
      /\ \A h \in Flows : arrived'[h] # 0 => h \in sources' /\ arrived'[h] <= Len(conf.Sent[h])
  BY <1>1, <1>3 DEF ArrivedInv
<1>5. \A h : Messages(h)' = Messages(h)
  BY <1>1, ItemsStay
<1>6. CASE UNCHANGED chan
  BY <1>1, <1>4, <1>5, <1>6, <1>2 DEF ArrivedInv
<1>7. CASE Room(f) /\ Put(f, arrived[f] + 1)
  <2> DEFINE k == arrived[f] + 1
             m == [id |-> <<f, k>>, msg |-> Message(Delivered(f), conf.Sent[f][k])]
  <2>1. m \in Messages(f)
    BY <1>3 DEF Messages
  <2>2. chan' = [chan EXCEPT ![f] = Append(@, m)] /\ Len(chan[f]) < ChCap
    BY <1>7 DEF Put, ChannelOf, Room
  <2> HIDE DEF m
  <2>3. chan[f] \in Seq(Messages(f)) /\ DOMAIN chan = Flows
    BY DEF ArrivedInv
  <2>4. /\ Append(chan[f], m) \in Seq(Messages(f)) /\ Len(chan[f]) \in Nat
        /\ Len(Append(chan[f], m)) = Len(chan[f]) + 1
    BY <2>1, <2>3, QueueFacts
  <2>5. /\ DOMAIN chan' = Flows
        /\ \A h \in Flows : /\ chan'[h] \in Seq(Messages(h)) /\ Len(chan'[h]) <= ChCap
                            /\ chan'[h] # <<>> => h \in sources
    BY <1>1, <2>2, <2>3, <2>4, ServerAssumption DEF ArrivedInv
  <2> QED BY <1>1, <1>2, <1>4, <1>5, <2>5 DEF ArrivedInv
<1> QED BY <1>1, <1>6, <1>7

(* What a worker makes of the first message of its flow, whatever the      *)
(* state the lookup is in: the item of Items, unless it panics or the      *)
(* message is refused.                                                     *)
LEMMA MakesItem ==
    ASSUME Inv, NEW f \in Flows, NEW w \in Workers, WorkerMakes(f, w)
    PROVE  /\ f \in sources /\ f \in running /\ HasClient(f) /\ chan[f] # <<>>
           /\ Head(chan[f]) \in Messages(f)
           /\ chan' = [chan EXCEPT ![f] = Tail(@)]
           /\ holds[f][w] = <<>>
           /\ \/ /\ status' = "crash" /\ Unsound(f) /\ UNCHANGED <<holds, failed>>
              \/ /\ status' = status /\ UNCHANGED holds
                 /\ failed' = failed \cup {Head(chan[f]).id}
              \/ /\ status' = status /\ UNCHANGED failed
                 /\ \E i \in Items(f) : /\ i.id = Head(chan[f]).id
                                        /\ holds' = [holds EXCEPT ![f][w] = <<i>>]
<1> DEFINE m == Head(chan[f])
<1> USE DEF Inv, PipeInv
<1>1. /\ f \in running /\ chan[f] # <<>> /\ chan' = [chan EXCEPT ![f] = Tail(@)]
      /\ holds[f][w] = <<>>
  BY DEF WorkerMakes, ChannelOf
<1>2. f \in sources /\ HasClient(f) /\ m \in Messages(f)
  <2>1. chan[f] \in Seq(Messages(f)) /\ f \in sources
    BY <1>1 DEF ArrivedInv
  <2>2. HasClient(f)
    BY <1>1 DEF StartInv, RunningInv
  <2> QED BY <1>1, <2>1, <2>2, QueueFacts
<1>3. /\ Provider = FinalProvider
      /\ WorkerPanics(f, m.msg) => Made(f, m.msg, FinalProvider) = Panic
      /\ Made(f, m.msg, FinalProvider) = Panic => WorkerPanics(f, m.msg)
  <2>1. conf.Geo.Type = "maxmind" => geo = Ready /\ ~GetPanics(geo)
    BY <1>1, RunningLookup
  <2>2. Provider = FinalProvider
    BY <2>1 DEF Provider, FinalProvider
  <2>3. LooksUp(f, m.msg) => conf.Geo.Type = "maxmind"
    BY DEF LooksUp
  <2> QED BY <2>1, <2>2, <2>3 DEF WorkerPanics
<1>4. Made(f, m.msg, FinalProvider) = Panic => Unsound(f)
  <2>1. conf \in Configurations /\ f \in DOMAIN conf.Flow
    BY <1>2 DEF StartInv, ProgressInv, SourcesInv
  <2> QED BY <1>2, <2>1, MadeSound
<1> DEFINE i == [id |-> m.id, doc |-> Made(f, m.msg, FinalProvider)[1]]
<1>5. Made(f, m.msg, FinalProvider) # Panic => i \in Items(f)
  <2>1. Usable(f)
    BY <1>1, <1>2 DEF Usable, StartInv, ProgressInv, RunningInv, GeoInv
  <2> QED BY <1>2, <2>1 DEF Items
<1>6. \/ /\ status' = "crash" /\ WorkerPanics(f, m.msg) /\ UNCHANGED <<holds, failed>>
      \/ status' = status /\ UNCHANGED holds /\ failed' = failed \cup {m.id}
      \/ /\ status' = status /\ UNCHANGED failed /\ ~WorkerPanics(f, m.msg)
         /\ holds' = [holds EXCEPT ![f][w] = <<[id |-> m.id, doc |-> Made(f, m.msg, Provider)[1]]>>]
  BY DEF WorkerMakes, ChannelOf, Crash
<1>7. i.id = m.id /\ [id |-> m.id, doc |-> Made(f, m.msg, Provider)[1]] = i
  BY <1>3
<1> HIDE DEF i, m
<1>8. m = Head(chan[f])
  BY DEF m
<1> QED BY <1>1, <1>2, <1>3, <1>4, <1>5, <1>6, <1>7, <1>8

(* A worker takes, sends or leaves.                                        *)
LEMMA PipeWorker ==
    ASSUME Inv, NEW f \in Flows, NEW w \in Workers, WorkerStep(f, w)
    PROVE  PipeInv'
<1> USE DEF Inv, PipeInv
<1>1. UNCHANGED <<conf, main, geo, listening, sources, running, arrived>>
  BY DEF WorkerStep, WorkerMakes, WorkerSends, WorkerDone, startVars
<1>2. \A h : Messages(h)' = Messages(h) /\ Items(h)' = Items(h)
  BY <1>1, ItemsStay
<1>3. CASE WorkerMakes(f, w)
  <2>1. /\ chan[f] # <<>> /\ chan' = [chan EXCEPT ![f] = Tail(@)]
        /\ UNCHANGED <<items, client, left, stored>>
        /\ \/ UNCHANGED holds
           \/ \E i \in Items(f) : holds' = [holds EXCEPT ![f][w] = <<i>>]
    <3>1. UNCHANGED <<items, client, left, stored>>
      BY <1>3 DEF WorkerMakes
    <3> QED BY <1>3, <3>1, MakesItem
  <2>2. chan[f] \in Seq(Messages(f)) /\ DOMAIN chan = Flows
    BY DEF ArrivedInv
  <2>3. /\ Tail(chan[f]) \in Seq(Messages(f)) /\ Len(Tail(chan[f])) <= Len(chan[f])
        /\ Len(Tail(chan[f])) \in Nat /\ Len(chan[f]) \in Nat
    BY <2>1, <2>2, QueueFacts
  <2>4. /\ DOMAIN chan' = Flows
        /\ \A h \in Flows : /\ chan'[h] \in Seq(Messages(h)) /\ Len(chan'[h]) <= ChCap
                            /\ chan'[h] # <<>> => h \in sources
    BY <2>1, <2>2, <2>3, ServerAssumption DEF ArrivedInv
  <2>5. ArrivedInv'
    BY <1>1, <1>2, <2>4 DEF ArrivedInv
  <2>6. HoldsInv'
    <3>1. CASE UNCHANGED holds
      BY <1>1, <2>1, <3>1, PipeFrame
    <3>2. ASSUME NEW i \in Items(f), holds' = [holds EXCEPT ![f][w] = <<i>>]
          PROVE  HoldsInv'
      <4>1. /\ DOMAIN holds' = Flows /\ \A h \in Flows : DOMAIN holds'[h] = Workers
            /\ \A h \in Flows, v \in Workers :
                 \/ holds'[h][v] = holds[h][v]
                 \/ h = f /\ holds'[h][v] = <<i>>
        BY <3>2 DEF HoldsInv
      <4> QED BY <1>1, <1>2, <2>1, <4>1 DEF HoldsInv, HasItem
    <3> QED BY <2>1, <3>1, <3>2
  <2> QED BY <1>1, <2>1, <2>5, <2>6, PipeFrame
<1>4. CASE WorkerSends(f, w)
  <2>1. /\ HasItem(f, w) /\ Len(items[f]) < ItemCap
        /\ items' = [items EXCEPT ![f] = @ \o holds[f][w]]
        /\ holds' = [holds EXCEPT ![f][w] = <<>>]
        /\ UNCHANGED <<chan, client, left, stored>>
    BY <1>4 DEF WorkerSends
  <2>2. PICK i \in Items(f) : holds[f][w] = <<i>>
    BY <2>1 DEF HoldsInv
  <2>3. /\ items[f] \in Seq(Items(f)) /\ DOMAIN items = Flows
    BY DEF StorageInv
  <2>4. /\ items[f] \o <<i>> \in Seq(Items(f)) /\ Len(items[f] \o <<i>>) = Len(items[f]) + 1
        /\ Len(items[f]) \in Nat
    BY <2>2, <2>3, QueueFacts
  <2>5. items' = [items EXCEPT ![f] = items[f] \o <<i>>]
    BY <2>1, <2>2
  <2>6. StorageInv'
    <3>1. /\ DOMAIN items' = Flows /\ items'[f] = items[f] \o <<i>>
          /\ \A h \in Flows \ {f} : items'[h] = items[h]
      BY <2>3, <2>5
    <3>2. Len(items'[f]) <= ItemCap
      BY <2>1, <2>4, <3>1, ServerAssumption
    <3> QED BY <1>2, <2>1, <2>4, <3>1, <3>2 DEF StorageInv
  <2>7. /\ DOMAIN holds' = Flows /\ \A h \in Flows : DOMAIN holds'[h] = Workers
        /\ \A h \in Flows, v \in Workers : holds'[h][v] \in {holds[h][v], <<>>}
    BY <2>1 DEF HoldsInv
  <2>8. HoldsInv'
    BY <1>1, <1>2, <2>1, <2>7 DEF HoldsInv, HasItem
  <2> QED BY <1>1, <2>1, <2>6, <2>8, PipeFrame
<1>5. CASE WorkerDone(f, w)
  <2>1. /\ f \in running /\ left' = left \cup {<<f, w>>}
        /\ UNCHANGED <<chan, holds, items, client, stored>>
    BY <1>5 DEF WorkerDone
  <2>2. left' \subseteq running \X (Workers \cup {Loop})
    BY <2>1 DEF HoldsInv
  <2>3. HoldsInv'
    BY <1>1, <1>2, <2>1, <2>2 DEF HoldsInv, HasItem
  <2> QED BY <1>1, <2>1, <2>3, PipeFrame
<1> QED BY <1>3, <1>4, <1>5 DEF WorkerStep

(* The loop takes or leaves, the client stores or gives up.                *)
LEMMA PipeClient ==
    ASSUME Inv, NEW f \in Flows, LoopStep(f) \/ ClientStep(f)
    PROVE  PipeInv'
<1> USE DEF Inv, PipeInv
<1>1. UNCHANGED <<conf, main, geo, listening, sources, running, arrived, chan, holds>>
  BY DEF LoopStep, ClientStep, LoopTakes, LoopDivides, LoopDone, ClientStores, ClientGivesUp,
         startVars, pipeVars
<1>2. \A h : Messages(h)' = Messages(h) /\ Items(h)' = Items(h)
  BY <1>1, ItemsStay
<1>3. /\ items[f] \in Seq(Items(f)) /\ client[f] \in Seq(Items(f)) /\ stored[f] \subseteq Items(f)
      /\ DOMAIN items = Flows /\ DOMAIN client = Flows /\ DOMAIN stored = Flows
      /\ Len(items[f]) \in Nat /\ Len(client[f]) \in Nat /\ Len(client[f]) <= ClientCap
  BY QueueFacts DEF StorageInv
<1>4. ArrivedInv'
  BY <1>1, PipeFrame
<1>5. CASE LoopTakes(f)
  <2>1. /\ items[f] # <<>> /\ Len(client[f]) < ClientCap
        /\ client' = [client EXCEPT ![f] = Append(@, Head(items[f]))]
        /\ items' = [items EXCEPT ![f] = Tail(@)]
        /\ UNCHANGED <<left, stored>>
    BY <1>5 DEF LoopTakes
  <2>2. /\ Head(items[f]) \in Items(f) /\ Tail(items[f]) \in Seq(Items(f))
        /\ Len(Tail(items[f])) <= Len(items[f]) /\ Len(Tail(items[f])) \in Nat
    BY <1>3, <2>1, QueueFacts
  <2>3. /\ Append(client[f], Head(items[f])) \in Seq(Items(f))
        /\ Len(Append(client[f], Head(items[f]))) = Len(client[f]) + 1
    BY <1>3, <2>2, QueueFacts
  <2>4. StorageInv'
    BY <1>2, <1>3, <2>1, <2>2, <2>3, ServerAssumption DEF StorageInv
  <2> QED BY <1>1, <1>4, <2>1, <2>4, PipeFrame
<1>6. CASE client[f] # <<>> /\ UNCHANGED <<items, left>> /\ client' = [client EXCEPT ![f] = Tail(@)]
           /\ (UNCHANGED stored \/ stored' = [stored EXCEPT ![f] = @ \cup {Head(client[f])}])
  <2>1. /\ Head(client[f]) \in Items(f) /\ Tail(client[f]) \in Seq(Items(f))
        /\ Len(Tail(client[f])) <= Len(client[f]) /\ Len(Tail(client[f])) \in Nat
    BY <1>3, <1>6, QueueFacts
  <2>2. StorageInv'
    BY <1>2, <1>3, <1>6, <2>1, ServerAssumption DEF StorageInv
  <2> QED BY <1>1, <1>4, <1>6, <2>2, PipeFrame
<1>7. CASE ClientStep(f)
  BY <1>6, <1>7 DEF ClientStep, ClientStores, ClientGivesUp
<1>8. CASE LoopDivides(f)
  <2>1. UNCHANGED <<items, client, stored, left>>
    BY <1>8 DEF LoopDivides, pipeVars
  <2> QED BY <1>1, <1>4, <2>1, PipeFrame
<1>9. CASE LoopDone(f)
  <2>1. /\ f \in running /\ left' = left \cup {<<f, Loop>>} /\ UNCHANGED items
        /\ UNCHANGED client \/ client' = [client EXCEPT ![f] = <<>>]
        /\ \/ UNCHANGED stored
           \/ stored' = [stored EXCEPT ![f] = @ \cup {client[f][i] : i \in DOMAIN client[f]}]
    BY <1>9 DEF LoopDone
  <2>2. {client[f][i] : i \in DOMAIN client[f]} \subseteq Items(f)
    BY <1>3, QueueFacts
  <2>3. <<>> \in Seq(Items(f)) /\ Len(<<>>) = 0
    OBVIOUS
  <2>4. StorageInv'
    <3>1. /\ DOMAIN client' = Flows /\ client'[f] \in {client[f], <<>>}
          /\ \A h \in Flows \ {f} : client'[h] = client[h]
      BY <1>3, <2>1
    <3>2. DOMAIN stored' = Flows /\ \A h \in Flows : stored'[h] \subseteq Items(h)
      BY <1>3, <2>1, <2>2 DEF StorageInv
    <3>3. client'[f] \in Seq(Items(f)) /\ Len(client'[f]) <= ClientCap
      <4>1. CASE client'[f] = client[f]
        BY <1>3, <4>1
      <4>2. CASE client'[f] = <<>>
        <5>1. 0 <= ClientCap
          BY ServerAssumption
        <5> QED BY <2>3, <4>2, <5>1
      <4> QED BY <3>1, <4>1, <4>2
    <3> QED BY <1>2, <2>1, <3>1, <3>2, <3>3 DEF StorageInv
  <2>5. left' \subseteq running \X (Workers \cup {Loop})
    BY <2>1 DEF HoldsInv
  <2>6. HoldsInv'
    BY <1>1, <1>2, <2>5 DEF HoldsInv, HasItem
  <2> QED BY <1>4, <2>4, <2>6
<1> QED BY <1>5, <1>7, <1>8, <1>9 DEF LoopStep

(* Every step keeps the invariant.                                         *)
LEMMA InvStep == Inv /\ [Next]_vars => Inv'
<1> SUFFICES ASSUME Inv, [Next]_vars PROVE Inv'
  OBVIOUS
<1>1. ASSUME UNCHANGED <<conf, startVars>>,
             \/ status' \in {status, "crash"}
             \/ status' \in {"done", "exit"} /\ status \in {"run", "done"}
      PROVE  StartInv' /\ GeoInv'
  <2>1. StartInv'
    BY <1>1, StartOthers DEF Inv
  <2>2. UNCHANGED <<conf, main, geo, running>> /\ Ready' = Ready
    BY <1>1, ReadyStays DEF startVars
  <2> QED BY <2>1, <2>2 DEF Inv, GeoInv
<1>2. CASE MainStep
  <2>1. StartInv' /\ GeoInv'
    BY <1>2, StartMain, GeoMain DEF Inv
  <2>2. PipeInv'
    BY <1>2, MainAdds, PipeFrame DEF Inv, PipeInv, pipeVars
  <2> QED BY <2>1, <2>2 DEF Inv
<1>3. CASE Interrupt \/ Exit \/ UNCHANGED vars
  <2>1. /\ UNCHANGED <<conf, startVars, arrived, pipeVars>>
        /\ \/ status' = status
           \/ status' \in {"done", "exit"} /\ status \in {"run", "done"}
    BY <1>3 DEF Interrupt, Exit, vars
  <2>2. PipeInv'
    BY <2>1, PipeFrame DEF Inv, PipeInv, pipeVars, startVars
  <2> QED BY <1>1, <2>1, <2>2 DEF Inv
<1>4. ASSUME NEW f \in Flows, Arrive(f) PROVE Inv'
  <2>1. UNCHANGED <<conf, startVars>> /\ status' \in {status, "crash"}
    BY <1>4 DEF Arrive, Crash
  <2> QED BY <1>1, <1>4, <2>1, PipeArrive DEF Inv
<1>5. ASSUME NEW f \in Flows, LoopStep(f) \/ ClientStep(f) PROVE Inv'
  <2>1. UNCHANGED <<conf, startVars>> /\ status' \in {status, "crash"}
    BY <1>5 DEF LoopStep, ClientStep, LoopTakes, LoopDivides, LoopDone, ClientStores,
                ClientGivesUp, Crash
  <2> QED BY <1>1, <1>5, <2>1, PipeClient DEF Inv
<1>6. ASSUME NEW f \in Flows, NEW w \in Workers, WorkerStep(f, w) PROVE Inv'
  <2>1. UNCHANGED <<conf, startVars>> /\ status' \in {status, "crash"}
    BY <1>6 DEF WorkerStep, WorkerMakes, WorkerSends, WorkerDone, Crash
  <2> QED BY <1>1, <1>6, <2>1, PipeWorker DEF Inv
<1> QED BY <1>2, <1>3, <1>4, <1>5, <1>6 DEF Next

(* The parts of the type invariant.                                        *)
LEMMA InvType == Inv => TypeOK
<1> SUFFICES ASSUME Inv PROVE TypeOK
  OBVIOUS
<1> USE DEF Inv, StartInv, PipeInv
<1>1. /\ status \in {"load", "run", "done", "exit", "crash"}
      /\ status = "load" => sources = {} /\ running = {}
      /\ sources \cup running # {} => Valid
  BY DEF ProgressInv
<1>2. running \subseteq {f \in DOMAIN conf.Flow : f < flow /\ IngestionOf(f).Opens}
  BY DEF RunningInv, HasClient, flow
<1>3. \A f, h \in sources :
         f # h /\ IngressOf(f).Type = "grpc" /\ IngressOf(h).Type = "grpc" =>
             IngressOf(f).Addr # IngressOf(h).Addr
  BY DEF SourcesInv
<1>4. geo.level \in 0..LevelCityLocASN
  BY DEF GeoInv, GeoType
<1>5. ASSUME NEW f \in Flows PROVE arrived[f] \in 0..Cardinality(Records)
  <2>1. CASE arrived[f] = 0
    BY <2>1, ServerAssumption, FS_CardinalityType
  <2>2. CASE arrived[f] # 0
    <3>1. f \in DOMAIN conf.Flow /\ arrived[f] \in Nat /\ arrived[f] <= Len(conf.Sent[f])
      BY <2>2 DEF ArrivedInv, SourcesInv
    <3>2. Len(conf.Sent[f]) \in Nat /\ Len(conf.Sent[f]) <= Cardinality(Records)
      BY <3>1, ConfFacts, ServerAssumption, FS_CardinalityType DEF ProgressInv
    <3>3. Cardinality(Records) \in Nat
      BY ServerAssumption, FS_CardinalityType
    <3> QED BY <3>1, <3>2, <3>3
  <2> QED BY <2>1, <2>2
<1>6. left \subseteq running \X (Workers \cup {Loop})
  BY DEF HoldsInv
<1>7. \A f \in Flows : /\ Len(chan[f]) <= ChCap /\ Len(items[f]) <= ItemCap
                       /\ Len(client[f]) <= ClientCap
  BY DEF ArrivedInv, StorageInv
<1> QED BY <1>1, <1>2, <1>3, <1>4, <1>5, <1>6, <1>7 DEF TypeOK

(* Init and every step: the invariant of a run.                            *)
LEMMA AlwaysInv == Spec => []Inv
<1>1. Init => Inv
  BY StartInit, GeoInit, PipeInit DEF Inv
<1> QED BY <1>1, InvStep, PTL DEF Spec

(* Channels keep within their capacities, and what runs was started from a *)
(* valid configuration (server/main.go, server/helper.go: validate): a     *)
(* flow that runs has a client, and no address is listened on twice.       *)
THEOREM TypeCorrect == Spec => []TypeOK
BY AlwaysInv, InvType, PTL

-----------------------------------------------------------------------------
(* Main does not go back.                                                  *)
LEMMA MainForward == Inv /\ [Next]_vars => flow <= flow' /\ flow \in Nat
<1> SUFFICES ASSUME Inv, [Next]_vars PROVE flow <= flow'
  BY DEF Inv, StartInv, ProgressInv, flow
<1>1. flow \in Nat /\ flow = main[1]
  BY DEF Inv, StartInv, ProgressInv, flow
<1>2. UNCHANGED main \/ main' = <<flow + 1, "ingress">> \/ \E step : main' = <<flow, step>>
  BY DEF Next, MainStep, Validate, StartIngress, StartClient, InitLevel, InitCity, InitASN,
         InitFunc, StartWorkers, OpenDatabase, Fatal, Crash, To, NextFlow, Interrupt, Exit, Arrive,
         LoopStep, ClientStep, WorkerStep, WorkerMakes, WorkerSends, WorkerDone, LoopTakes,
         LoopDivides, LoopDone, ClientStores, ClientGivesUp, vars, startVars
<1> QED BY <1>1, <1>2 DEF flow

(* The configuration of one of the flows is to blame for a panic.          *)
LEMMA PanicStep == Inv /\ NeverPanics /\ [Next]_vars => NeverPanics'
<1> SUFFICES ASSUME Inv, NeverPanics, [Next]_vars, status' = "crash"
             PROVE  \E f \in DOMAIN conf'.Flow : f <= flow' /\ Unsound(f)'
  BY DEF NeverPanics
<1>1. conf' = conf /\ flow <= flow' /\ flow \in Nat /\ flow' \in Nat /\ flow = main[1]
  <2>1. conf' = conf
    BY MainAdds DEF Next, Interrupt, Exit, Arrive, LoopStep, ClientStep, WorkerStep, WorkerMakes,
                    WorkerSends, WorkerDone, LoopTakes, LoopDivides, LoopDone, ClientStores,
                    ClientGivesUp, vars
  <2>2. main'[1] \in Nat
    BY InvStep DEF Inv, StartInv, ProgressInv
  <2> QED BY <2>1, <2>2, MainForward DEF flow
<1>2. DOMAIN conf.Flow \subseteq Nat
  BY ConfFacts DEF Inv, StartInv, ProgressInv
<1>3. ASSUME NEW f \in DOMAIN conf.Flow, f <= flow, Unsound(f)
      PROVE  \E h \in DOMAIN conf'.Flow : h <= flow' /\ Unsound(h)'
  <2>1. Unsound(f)' /\ f <= flow'
    BY <1>1, <1>2, <1>3, ConfStays
  <2> QED BY <1>1, <2>1
<1>4. CASE status = "crash"
  BY <1>3, <1>4 DEF NeverPanics
<1>5. CASE status # "crash"
  <2>1. ~Interrupt /\ ~Exit /\ ~UNCHANGED vars
    BY <1>5 DEF Interrupt, Exit, vars
  <2>2. CASE MainStep
    <3>1. At("client") /\ IndexerPanics(IngestionOf(flow))
      BY <1>5, <2>2, MainAdds
    <3>2. flow \in DOMAIN conf.Flow /\ Unsound(flow)
      BY <3>1 DEF At, flow, Unsound, BadNumber
    <3> QED BY <1>1, <1>3, <3>2
  <2>3. ASSUME NEW f \in Flows PROVE ~ClientStep(f) /\ ~LoopTakes(f) /\ ~LoopDone(f)
    BY <1>5 DEF ClientStep, LoopTakes, LoopDone, ClientStores, ClientGivesUp
  <2>4. ASSUME NEW f \in Flows, LoopDivides(f)
        PROVE  \E h \in DOMAIN conf'.Flow : h <= flow' /\ Unsound(h)'
    <3>1. f \in DOMAIN conf.Flow /\ f < main[1] /\ Unsound(f)
      BY <2>4 DEF LoopDivides, Inv, StartInv, RunningInv, Unsound, BadNumber
    <3> QED BY <1>1, <1>2, <1>3, <3>1
  <2>5. ASSUME NEW f \in Flows, Arrive(f)
        PROVE  \E h \in DOMAIN conf'.Flow : h <= flow' /\ Unsound(h)'
    <3>1. f \in sources /\ Delivered(f) \notin Serializations
      BY <1>5, <2>5 DEF Arrive
    <3>2. f \in DOMAIN conf.Flow /\ f <= main[1] /\ Unsound(f)
      BY <3>1 DEF Inv, StartInv, SourcesInv, Unsound, BadSerialization
    <3> QED BY <1>1, <1>3, <3>2
  <2>6. ASSUME NEW f \in Flows, NEW w \in Workers, WorkerStep(f, w)
        PROVE  \E h \in DOMAIN conf'.Flow : h <= flow' /\ Unsound(h)'
    <3>1. WorkerMakes(f, w)
      BY <1>5, <2>6 DEF WorkerStep, WorkerSends, WorkerDone
    <3>2. f \in sources /\ Unsound(f)
      BY <1>5, <3>1, MakesItem
    <3>3. f \in DOMAIN conf.Flow /\ f <= main[1]
      BY <3>2 DEF Inv, StartInv, SourcesInv
    <3> QED BY <1>1, <1>3, <3>2, <3>3
  <2> QED BY <2>1, <2>2, <2>3, <2>4, <2>5, <2>6 DEF Next, LoopStep
<1> QED BY <1>4, <1>5

(* A panic of the server comes from a flow that main has come to and whose *)
(* serialization, geo field, columns or numbers nothing has looked at      *)
(* (config/config_server.go: validateFlow; ingestion), for any values of   *)
(* them: the lookup that every ingestion initializes again                 *)
(* (geo/maxmind/maxmind.go) is never one that a worker cannot call.        *)
THEOREM PanicsExplained == Spec => []NeverPanics
<1>1. Init => NeverPanics
  BY DEF Init, NeverPanics
<1> QED BY <1>1, AlwaysInv, PanicStep, PTL DEF Spec

-----------------------------------------------------------------------------
(* A channel has no two elements of the same record.                       *)
Distinct(q) == \A i, j \in DOMAIN q : q[i].id = q[j].id => i = j

(* Taking from a channel takes that record out of it.                      *)
LEMMA TailIds ==
    ASSUME NEW S, NEW q \in Seq(S), q # <<>>, Distinct(q)
    PROVE  /\ Head(q).id \in Ids(q)
           /\ Ids(Tail(q)) = Ids(q) \ {Head(q).id}
           /\ Distinct(Tail(q))
<1> DEFINE t == Tail(q)
<1>1. /\ DOMAIN q = 1..Len(q) /\ Len(q) \in Nat /\ Len(q) >= 1 /\ Head(q) = q[1]
      /\ DOMAIN t = 1..(Len(q) - 1)
      /\ \A i \in 1..(Len(q) - 1) : t[i] = q[i + 1]
  <2>1. t \in Seq(S) /\ Len(t) = Len(q) - 1
    BY QueueFacts
  <2> QED BY <2>1, QueueFacts
<1> HIDE DEF t
<1>2. \A i \in DOMAIN t : i + 1 \in DOMAIN q /\ i + 1 # 1 /\ t[i].id = q[i + 1].id
  BY <1>1
<1>3. \A i \in DOMAIN q \ {1} : i - 1 \in DOMAIN t /\ t[i - 1].id = q[i].id
  BY <1>1
<1>4. 1 \in DOMAIN q
  BY <1>1
<1>5. Head(q).id \in Ids(q)
  BY <1>1, <1>4 DEF Ids
<1>6. Distinct(t)
  <2> SUFFICES ASSUME NEW i \in DOMAIN t, NEW j \in DOMAIN t, t[i].id = t[j].id PROVE i = j
    BY DEF Distinct
  <2>1. i + 1 = j + 1
    BY <1>2 DEF Distinct
  <2> QED BY <1>1, <2>1
<1>7. ASSUME NEW x \in Ids(t) PROVE x \in Ids(q) \ {Head(q).id}
  <2>1. PICK i \in DOMAIN t : x = t[i].id
    BY <1>7 DEF Ids
  <2>2. x = q[i + 1].id /\ i + 1 \in DOMAIN q /\ i + 1 # 1
    BY <1>2, <2>1
  <2>3. x # q[1].id
    BY <1>4, <2>2 DEF Distinct
  <2> QED BY <1>1, <2>2, <2>3 DEF Ids
<1>8. ASSUME NEW x \in Ids(q) \ {Head(q).id} PROVE x \in Ids(t)
  <2>1. PICK i \in DOMAIN q : x = q[i].id
    BY <1>8 DEF Ids
  <2>2. i # 1
    BY <1>1, <1>8, <2>1
  <2> QED BY <1>3, <2>1, <2>2 DEF Ids
<1> QED BY <1>5, <1>6, <1>7, <1>8 DEF t

(* Adding puts one more record in it.                                      *)
LEMMA AppendIds ==
    ASSUME NEW S, NEW q \in Seq(S), NEW x \in S
    PROVE  /\ Ids(Append(q, x)) = Ids(q) \cup {x.id}
           /\ Distinct(q) /\ x.id \notin Ids(q) => Distinct(Append(q, x))
<1> DEFINE a == Append(q, x)
<1>1. /\ DOMAIN q = 1..Len(q) /\ Len(q) \in Nat /\ DOMAIN a = 1..(Len(q) + 1)
      /\ \A i \in 1..Len(q) : a[i] = q[i]
      /\ a[Len(q) + 1] = x
  <2>1. a \in Seq(S) /\ Len(a) = Len(q) + 1
    BY QueueFacts
  <2> QED BY <2>1, QueueFacts
<1> HIDE DEF a
<1>2. \A i \in DOMAIN a : i \in DOMAIN q \/ i = Len(q) + 1
  BY <1>1
<1>3. DOMAIN q \subseteq DOMAIN a /\ Len(q) + 1 \in DOMAIN a
  BY <1>1
<1>4. \A i \in DOMAIN q : a[i] = q[i]
  BY <1>1
<1>5. Ids(a) = Ids(q) \cup {x.id}
  BY <1>1, <1>2, <1>3, <1>4 DEF Ids
<1>6. Distinct(q) /\ x.id \notin Ids(q) => Distinct(a)
  BY <1>1, <1>2, <1>3, <1>4 DEF Ids, Distinct
<1> QED BY <1>5, <1>6 DEF a

(* Parts that share nothing, and what they have together.                  *)
IsApart(P) == \A p, q \in DOMAIN P : p # q => P[p] \cap P[q] = {}

Together(P) == UNION {P[p] : p \in DOMAIN P}

(* The elements of M move from part a of P to part b and make it Q.        *)
Moved(P, Q, M, a, b) ==
    /\ a \in DOMAIN P /\ b \in DOMAIN P /\ a # b
    /\ M \subseteq P[a]
    /\ DOMAIN Q = DOMAIN P
    /\ Q[a] = P[a] \ M /\ Q[b] = P[b] \cup M
    /\ \A s \in DOMAIN P \ {a, b} : Q[s] = P[s]

(* x comes into part b of P and makes it Q.                                *)
Came(P, Q, x, b) ==
    /\ b \in DOMAIN P /\ DOMAIN Q = DOMAIN P
    /\ Q[b] = P[b] \cup {x}
    /\ \A s \in DOMAIN P \ {b} : Q[s] = P[s]

(* Moving keeps the parts apart and loses nothing.                         *)
LEMMA Move ==
    ASSUME NEW P, NEW Q, NEW M, NEW a, NEW b, IsApart(P), Moved(P, Q, M, a, b)
    PROVE  IsApart(Q) /\ Together(Q) = Together(P)
<1> USE DEF Moved
<1>1. ASSUME NEW s \in DOMAIN P, NEW t \in DOMAIN P, s # t, NEW k, k \in Q[s], k \in Q[t]
      PROVE  FALSE
  <2>1. CASE k \in M
    <3>1. \A u \in DOMAIN P : k \in P[u] => u = a
      BY <2>1 DEF IsApart
    <3>2. \A u \in DOMAIN P : k \in Q[u] => u = b
      BY <2>1, <3>1
    <3> QED BY <1>1, <3>2
  <2>2. CASE k \notin M
    <3>1. k \in P[s] /\ k \in P[t]
      BY <1>1, <2>2
    <3> QED BY <1>1, <3>1 DEF IsApart
  <2> QED BY <2>1, <2>2
<1>2. ASSUME NEW k PROVE k \in Together(P) <=> k \in Together(Q)
  <2>1. ASSUME NEW s \in DOMAIN P, k \in P[s] PROVE \E t \in DOMAIN Q : k \in Q[t]
    <3>1. k \in Q[s] \/ k \in Q[b]
      BY <2>1
    <3> QED BY <3>1
  <2>2. ASSUME NEW s \in DOMAIN Q, k \in Q[s] PROVE \E t \in DOMAIN P : k \in P[t]
    <3>1. k \in P[s] \/ k \in P[a]
      BY <2>2
    <3> QED BY <3>1
  <2> QED BY <2>1, <2>2 DEF Together
<1>3. IsApart(Q)
  BY <1>1 DEF IsApart
<1>4. Together(Q) = Together(P)
  BY <1>2
<1> QED BY <1>3, <1>4

(* So does adding what is in none of them.                                 *)
LEMMA Come ==
    ASSUME NEW P, NEW Q, NEW x, NEW b, IsApart(P), Came(P, Q, x, b), x \notin Together(P)
    PROVE  IsApart(Q) /\ Together(Q) = Together(P) \cup {x}
<1> USE DEF Came
<1>1. \A s \in DOMAIN P : x \notin P[s]
  BY DEF Together
<1>2. IsApart(Q)
  BY <1>1 DEF IsApart
<1>3. ASSUME NEW k PROVE k \in Together(Q) <=> (k \in Together(P) \/ k = x)
  <2>1. ASSUME NEW s \in DOMAIN P, k \in P[s] PROVE \E t \in DOMAIN Q : k \in Q[t]
    BY <2>1
  <2>2. ASSUME NEW s \in DOMAIN Q, k \in Q[s], k # x PROVE k \in P[s]
    BY <2>2
  <2>3. x \in Q[b] /\ b \in DOMAIN Q
    OBVIOUS
  <2> QED BY <2>1, <2>2, <2>3 DEF Together
<1>4. Together(Q) = Together(P) \cup {x}
  BY <1>3
<1> QED BY <1>2, <1>4

(* The parts of a flow, before and after a step.                           *)
Dropped(f) == {r \in dropped : r[1] = f}
HeldIds(f) == {holds[f][w][1].id : w \in {x \in Workers : HasItem(f, x)}}
StoredIds(f) == {i.id : i \in stored[f]}
GivenUp(f) == {r \in failed : r[1] = f}

(* What the parts are called, and that there are no others.                *)
LEMMA PartFacts ==
    ASSUME NEW f
    PROVE  /\ DOMAIN PlacesOf(f) =
                {"dropped", "chan", "workers", "items", "client", "stored", "failed"}
           /\ PlacesOf(f)["dropped"] = Dropped(f) /\ PlacesOf(f)["chan"] = Ids(chan[f])
           /\ PlacesOf(f)["workers"] = HeldIds(f) /\ PlacesOf(f)["items"] = Ids(items[f])
           /\ PlacesOf(f)["client"] = Ids(client[f])
           /\ PlacesOf(f)["stored"] = StoredIds(f) /\ PlacesOf(f)["failed"] = GivenUp(f)
           /\ DOMAIN (PlacesOf(f)') = DOMAIN PlacesOf(f)
           /\ PlacesOf(f)'["dropped"] = Dropped(f)' /\ PlacesOf(f)'["chan"] = Ids(chan'[f])
           /\ PlacesOf(f)'["workers"] = HeldIds(f)' /\ PlacesOf(f)'["items"] = Ids(items'[f])
           /\ PlacesOf(f)'["client"] = Ids(client'[f])
           /\ PlacesOf(f)'["stored"] = StoredIds(f)' /\ PlacesOf(f)'["failed"] = GivenUp(f)'
BY DEF PlacesOf, Dropped, HeldIds, StoredIds, GivenUp, Ids

(* Each part holds a record at most once.                                  *)
HeldOnce(f) ==
    \A v, w \in Workers :
        HasItem(f, v) /\ HasItem(f, w) /\ holds[f][v][1].id = holds[f][w][1].id => v = w

OneEach(f) ==
    Distinct(chan[f]) /\ Distinct(items[f]) /\ Distinct(client[f]) /\ HeldOnce(f)

Numbered(f, n) == {<<f, k>> : k \in 1..n}

(* What arrived for a flow is in exactly one of its parts, and there once. *)
FlowOnce(f) ==
    /\ OneEach(f)
    /\ IsApart(PlacesOf(f))
    /\ Together(PlacesOf(f)) = Numbered(f, arrived[f])

RouteInv == status # "crash" => \A f \in Flows : FlowOnce(f)

(* Nothing arrived at first.                                               *)
LEMMA RouteInit == Init => RouteInv
<1> SUFFICES ASSUME Init, NEW f \in Flows PROVE FlowOnce(f)
  BY DEF RouteInv
<1>1. /\ chan[f] = <<>> /\ items[f] = <<>> /\ client[f] = <<>> /\ stored[f] = {}
      /\ dropped = {} /\ failed = {} /\ arrived[f] = 0
      /\ \A w \in Workers : ~HasItem(f, w)
  BY DEF Init, HasItem
<1>2. \A p \in DOMAIN PlacesOf(f) : PlacesOf(f)[p] = {}
  <2>1. Ids(<<>>) = {} /\ HeldIds(f) = {} /\ StoredIds(f) = {} /\ Dropped(f) = {} /\ GivenUp(f) = {}
    BY <1>1 DEF Ids, HeldIds, StoredIds, Dropped, GivenUp
  <2> QED BY <1>1, <2>1, PartFacts
<1>3. OneEach(f)
  BY <1>1 DEF OneEach, HeldOnce, Distinct
<1>4. Together(PlacesOf(f)) = {} /\ Numbered(f, 0) = {}
  BY <1>2 DEF Together, Numbered
<1> QED BY <1>1, <1>2, <1>3, <1>4 DEF FlowOnce, IsApart

(* A flow of which nothing changes.                                        *)
LEMMA FlowStays ==
    ASSUME NEW f, FlowOnce(f), chan'[f] = chan[f], holds'[f] = holds[f], items'[f] = items[f],
           client'[f] = client[f], stored'[f] = stored[f], arrived'[f] = arrived[f],
           Dropped(f)' = Dropped(f), GivenUp(f)' = GivenUp(f)
    PROVE  FlowOnce(f)'
<1>1. \A w : HasItem(f, w)' = HasItem(f, w)
  BY DEF HasItem
<1>2. HeldIds(f)' = HeldIds(f) /\ StoredIds(f)' = StoredIds(f)
  BY <1>1 DEF HeldIds, StoredIds
<1>3. OneEach(f)'
  BY <1>1 DEF FlowOnce, OneEach, HeldOnce
<1>4. /\ DOMAIN (PlacesOf(f)') = DOMAIN PlacesOf(f)
      /\ \A p \in DOMAIN PlacesOf(f) : PlacesOf(f)'[p] = PlacesOf(f)[p]
  BY <1>2, PartFacts
<1>5. IsApart(PlacesOf(f)')
  BY <1>4 DEF FlowOnce, IsApart
<1>6. Together(PlacesOf(f)') = Together(PlacesOf(f))
  BY <1>4 DEF Together
<1>7. (Numbered(f, arrived[f]))' = Numbered(f, arrived[f])
  BY DEF Numbered
<1> QED BY <1>3, <1>5, <1>6, <1>7 DEF FlowOnce

(* A flow in which records move from one part to another.                  *)
LEMMA FlowMoves ==
    ASSUME NEW f, FlowOnce(f), OneEach(f)', arrived'[f] = arrived[f], NEW M, NEW a, NEW b,
           Moved(PlacesOf(f), PlacesOf(f)', M, a, b)
    PROVE  FlowOnce(f)'
<1>1. IsApart(PlacesOf(f)') /\ Together(PlacesOf(f)') = Together(PlacesOf(f))
  BY Move DEF FlowOnce
<1>2. (Numbered(f, arrived[f]))' = Numbered(f, arrived[f])
  BY DEF Numbered
<1> QED BY <1>1, <1>2 DEF FlowOnce

(* Steps of one flow leave the others alone.                               *)
LEMMA OthersStay ==
    ASSUME NEW f \in Flows, \A h \in Flows : FlowOnce(h), FlowOnce(f)',
           \A h \in Flows \ {f} :
             /\ chan'[h] = chan[h] /\ holds'[h] = holds[h] /\ items'[h] = items[h]
             /\ client'[h] = client[h] /\ stored'[h] = stored[h] /\ arrived'[h] = arrived[h],
           \A r \in dropped' \cup dropped : r[1] # f => (r \in dropped' <=> r \in dropped),
           \A r \in failed' \cup failed : r[1] # f => (r \in failed' <=> r \in failed)
    PROVE  RouteInv'
<1>1. ASSUME NEW h \in Flows \ {f} PROVE FlowOnce(h)'
  <2>1. Dropped(h)' = Dropped(h) /\ GivenUp(h)' = GivenUp(h)
    BY <1>1 DEF Dropped, GivenUp
  <2> QED BY <1>1, <2>1, FlowStays
<1> QED BY <1>1 DEF RouteInv

(* A record arrives.                                                       *)
LEMMA RouteArrive ==
    ASSUME Inv, RouteInv, NEW f \in Flows, Arrive(f)
    PROVE  RouteInv'
<1> SUFFICES ASSUME status' # "crash" PROVE RouteInv'
  BY DEF RouteInv
<1> USE DEF Inv, PipeInv
<1> DEFINE n == arrived[f]
           x == <<f, n + 1>>
<1>1. /\ f \in sources /\ arrived' = [arrived EXCEPT ![f] = @ + 1] /\ arrived[f] < Len(conf.Sent[f])
      /\ UNCHANGED <<conf, holds, items, client, stored, failed>>
      /\ status # "crash"
      /\ \/ dropped' = dropped \cup {x} /\ UNCHANGED chan
         \/ Put(f, n + 1) /\ UNCHANGED dropped
  BY DEF Arrive, Alive, Crash
<1>2. n \in Nat /\ arrived'[f] = n + 1 /\ \A h \in Flows \ {f} : arrived'[h] = arrived[h]
  BY <1>1 DEF ArrivedInv
<1>3. \A h \in Flows : FlowOnce(h)
  BY <1>1 DEF RouteInv
<1>4. x \notin Together(PlacesOf(f)) /\ Numbered(f, n + 1) = Numbered(f, n) \cup {x}
  <2>1. 1..(n + 1) = (1..n) \cup {n + 1} /\ n + 1 \notin 1..n
    BY <1>2
  <2>2. x \notin Numbered(f, n) /\ Numbered(f, n + 1) = Numbered(f, n) \cup {x}
    BY <2>1 DEF Numbered
  <2> QED BY <1>3, <2>2 DEF FlowOnce
<1>5. /\ HeldIds(f)' = HeldIds(f) /\ StoredIds(f)' = StoredIds(f) /\ GivenUp(f)' = GivenUp(f)
      /\ HeldOnce(f)' = HeldOnce(f)
  BY <1>1 DEF HeldIds, HasItem, StoredIds, GivenUp, HeldOnce
<1> HIDE DEF x
<1>6. ASSUME NEW b, Came(PlacesOf(f), PlacesOf(f)', x, b), OneEach(f)' PROVE FlowOnce(f)'
  <2>1. IsApart(PlacesOf(f)') /\ Together(PlacesOf(f)') = Together(PlacesOf(f)) \cup {x}
    BY <1>3, <1>4, <1>6, Come DEF FlowOnce
  <2>2. (Numbered(f, arrived[f]))' = Numbered(f, n + 1)
    BY <1>2 DEF Numbered
  <2> QED BY <1>3, <1>4, <1>6, <2>1, <2>2 DEF FlowOnce
<1>7. x[1] = f
  BY DEF x
<1>8. CASE dropped' = dropped \cup {x} /\ UNCHANGED chan
  <2>1. Dropped(f)' = Dropped(f) \cup {x}
    BY <1>7, <1>8 DEF Dropped
  <2>2. Came(PlacesOf(f), PlacesOf(f)', x, "dropped")
    BY <1>1, <1>5, <1>8, <2>1, PartFacts DEF Came
  <2>3. OneEach(f)'
    BY <1>1, <1>3, <1>5, <1>8 DEF FlowOnce, OneEach
  <2>4. FlowOnce(f)'
    BY <1>6, <2>2, <2>3
  <2>5. \A r \in dropped' \cup dropped : r[1] # f => (r \in dropped' <=> r \in dropped)
    BY <1>7, <1>8
  <2> QED BY <1>1, <1>2, <1>3, <1>8, <2>4, <2>5, OthersStay
<1>9. CASE Put(f, n + 1) /\ UNCHANGED dropped
  <2> DEFINE m == [id |-> x, msg |-> Message(Delivered(f), conf.Sent[f][n + 1])]
  <2>1. chan' = [chan EXCEPT ![f] = Append(@, m)]
    BY <1>9 DEF Put, ChannelOf, x
  <2>2. f \in DOMAIN conf.Flow /\ n + 1 \in DOMAIN conf.Sent[f]
    <3>1. f \in DOMAIN conf.Flow
      BY <1>1 DEF StartInv, SourcesInv
    <3>2. Len(conf.Sent[f]) \in Nat /\ DOMAIN conf.Sent[f] = 1..Len(conf.Sent[f])
      BY <3>1, ConfFacts DEF StartInv, ProgressInv
    <3> QED BY <1>1, <1>2, <3>1, <3>2
  <2>3. m \in Messages(f)
    BY <2>2 DEF Messages, x
  <2>4. m.id = x
    OBVIOUS
  <2> HIDE DEF m
  <2>5. chan[f] \in Seq(Messages(f)) /\ DOMAIN chan = Flows
    BY DEF ArrivedInv
  <2>6. chan'[f] = Append(chan[f], m) /\ \A h \in Flows \ {f} : chan'[h] = chan[h]
    BY <2>1, <2>5
  <2>7. x \notin Ids(chan[f])
    BY <1>4, PartFacts DEF Together
  <2>8. Ids(chan'[f]) = Ids(chan[f]) \cup {x} /\ Distinct(chan'[f])
    BY <1>3, <2>3, <2>4, <2>5, <2>6, <2>7, AppendIds DEF FlowOnce, OneEach
  <2>9. Dropped(f)' = Dropped(f)
    BY <1>9 DEF Dropped
  <2>10. Came(PlacesOf(f), PlacesOf(f)', x, "chan")
    BY <1>1, <1>5, <2>8, <2>9, PartFacts DEF Came
  <2>11. OneEach(f)'
    BY <1>1, <1>3, <1>5, <2>8 DEF FlowOnce, OneEach
  <2>12. FlowOnce(f)'
    BY <1>6, <2>10, <2>11
  <2> QED BY <1>1, <1>2, <1>3, <1>9, <2>6, <2>12, OthersStay
<1> QED BY <1>1, <1>8, <1>9

(* A worker puts down what it holds, or takes something to hold.           *)
LEMMA HoldFacts ==
    ASSUME NEW f \in Flows, NEW w \in Workers, HoldsInv, HeldOnce(f), NEW v,
           holds' = [holds EXCEPT ![f][w] = v]
    PROVE  /\ \A h \in Flows \ {f} : holds'[h] = holds[h]
           /\ \A i : HasItem(f, w) /\ holds[f][w] = <<i>> /\ v = <<>> =>
                       /\ i.id \in HeldIds(f) /\ HeldIds(f)' = HeldIds(f) \ {i.id}
                       /\ HeldOnce(f)'
           /\ \A i : ~HasItem(f, w) /\ v = <<i>> =>
                       /\ HeldIds(f)' = HeldIds(f) \cup {i.id}
                       /\ i.id \notin HeldIds(f) => HeldOnce(f)'
<1>1. /\ \A h \in Flows \ {f} : holds'[h] = holds[h]
      /\ holds'[f][w] = v /\ \A x \in Workers \ {w} : holds'[f][x] = holds[f][x]
  BY DEF HoldsInv
<1>2. \A x \in Workers : HasItem(f, x)' <=> holds'[f][x] # <<>>
  BY DEF HasItem
<1>3. \A x \in Workers : HasItem(f, x) <=> holds[f][x] # <<>>
  BY DEF HasItem
<1>4. \A i : <<i>> # <<>> /\ <<i>>[1] = i
  OBVIOUS
<1>5. ASSUME NEW i, HasItem(f, w), holds[f][w] = <<i>>, v = <<>>
      PROVE  /\ i.id \in HeldIds(f) /\ HeldIds(f)' = HeldIds(f) \ {i.id}
             /\ HeldOnce(f)'
  <2>1. \A x \in Workers \ {w} : HasItem(f, x) => holds[f][x][1].id # i.id
    BY <1>4, <1>5 DEF HeldOnce
  <2>2. \A x \in Workers : HasItem(f, x)' <=> x # w /\ HasItem(f, x)
    BY <1>1, <1>2, <1>3, <1>5
  <2>3. i.id \in HeldIds(f)
    BY <1>4, <1>5 DEF HeldIds
  <2>4. HeldIds(f)' = HeldIds(f) \ {i.id}
    BY <1>1, <1>4, <1>5, <2>1, <2>2 DEF HeldIds
  <2>5. HeldOnce(f)'
    BY <1>1, <2>2 DEF HeldOnce
  <2> QED BY <2>3, <2>4, <2>5
<1>6. ASSUME NEW i, ~HasItem(f, w), v = <<i>>
      PROVE  /\ HeldIds(f)' = HeldIds(f) \cup {i.id}
             /\ i.id \notin HeldIds(f) => HeldOnce(f)'
  <2>1. \A x \in Workers : HasItem(f, x)' <=> x = w \/ HasItem(f, x)
    BY <1>1, <1>2, <1>3, <1>4, <1>6
  <2>2. HeldIds(f)' = HeldIds(f) \cup {i.id}
    BY <1>1, <1>4, <1>6, <2>1 DEF HeldIds
  <2>3. i.id \notin HeldIds(f) => \A x \in Workers : HasItem(f, x) => holds[f][x][1].id # i.id
    BY DEF HeldIds
  <2>4. i.id \notin HeldIds(f) => HeldOnce(f)'
    BY <1>1, <1>4, <1>6, <2>1, <2>3 DEF HeldOnce
  <2> QED BY <2>2, <2>4
<1> QED BY <1>1, <1>5, <1>6

(* A worker takes a message, which it may not make an item of, or sends an *)
(* item.                                                                   *)
LEMMA RouteWorker ==
    ASSUME Inv, RouteInv, NEW f \in Flows, NEW w \in Workers, WorkerStep(f, w)
    PROVE  RouteInv'
<1> SUFFICES ASSUME status' # "crash" PROVE RouteInv'
  BY DEF RouteInv
<1> USE DEF Inv, PipeInv
<1>1. UNCHANGED <<conf, arrived, dropped, client, stored>> /\ status # "crash"
  BY DEF WorkerStep, WorkerMakes, WorkerSends, WorkerDone, Alive
<1>2. \A h \in Flows : FlowOnce(h)
  BY <1>1 DEF RouteInv
<1>3. /\ Dropped(f)' = Dropped(f) /\ StoredIds(f)' = StoredIds(f)
      /\ UNCHANGED failed => GivenUp(f)' = GivenUp(f)
      /\ OneEach(f) /\ IsApart(PlacesOf(f))
  BY <1>1, <1>2 DEF Dropped, StoredIds, GivenUp, FlowOnce
<1>4. CASE WorkerMakes(f, w)
  <2> DEFINE m == Head(chan[f])
  <2>1. /\ chan[f] # <<>> /\ chan' = [chan EXCEPT ![f] = Tail(@)] /\ holds[f][w] = <<>>
        /\ m \in Messages(f)
    BY <1>4, MakesItem
  <2>2. \/ UNCHANGED holds /\ failed' = failed \cup {m.id}
        \/ /\ UNCHANGED failed
           /\ \E i \in Items(f) : i.id = m.id /\ holds' = [holds EXCEPT ![f][w] = <<i>>]
    BY <1>4, MakesItem
  <2>3. UNCHANGED items
    BY <1>4 DEF WorkerMakes
  <2>4. chan[f] \in Seq(Messages(f)) /\ DOMAIN chan = Flows
    BY DEF ArrivedInv
  <2>5. chan'[f] = Tail(chan[f]) /\ \A h \in Flows \ {f} : chan'[h] = chan[h]
    BY <2>1, <2>4
  <2>6. /\ m.id \in Ids(chan[f]) /\ Ids(chan'[f]) = Ids(chan[f]) \ {m.id} /\ Distinct(chan'[f])
    BY <1>3, <2>1, <2>4, <2>5, TailIds DEF OneEach
  <2>7. m.id[1] = f
    BY <2>1, ItemFacts
  <2> HIDE DEF m
  <2>8. CASE UNCHANGED holds /\ failed' = failed \cup {m.id}
    <3>1. HeldIds(f)' = HeldIds(f) /\ HeldOnce(f)' = HeldOnce(f)
      BY <2>8 DEF HeldIds, HeldOnce, HasItem
    <3>2. GivenUp(f)' = GivenUp(f) \cup {m.id}
      BY <2>7, <2>8 DEF GivenUp
    <3>3. Moved(PlacesOf(f), PlacesOf(f)', {m.id}, "chan", "failed")
      BY <1>1, <1>3, <2>3, <2>6, <3>1, <3>2, PartFacts DEF Moved
    <3>4. OneEach(f)'
      BY <1>1, <1>3, <2>3, <2>6, <3>1 DEF OneEach
    <3>5. FlowOnce(f)'
      BY <1>1, <1>2, <3>3, <3>4, FlowMoves
    <3>6. \A r \in failed' \cup failed : r[1] # f => (r \in failed' <=> r \in failed)
      BY <2>7, <2>8
    <3> QED BY <1>1, <1>2, <2>3, <2>5, <2>8, <3>5, <3>6, OthersStay
  <2>9. ASSUME UNCHANGED failed, NEW i \in Items(f), i.id = m.id,
               holds' = [holds EXCEPT ![f][w] = <<i>>]
        PROVE  RouteInv'
    <3>1. i.id \notin HeldIds(f)
      BY <1>3, <2>6, <2>9, PartFacts DEF IsApart
    <3>2. ~HasItem(f, w)
      BY <2>1 DEF HasItem
    <3>3. /\ \A h \in Flows \ {f} : holds'[h] = holds[h]
          /\ HeldIds(f)' = HeldIds(f) \cup {i.id} /\ HeldOnce(f)'
      <4>1. HeldOnce(f)
        BY <1>3 DEF OneEach
      <4> QED BY <2>9, <3>1, <3>2, <4>1, HoldFacts
    <3>4. Moved(PlacesOf(f), PlacesOf(f)', {m.id}, "chan", "workers")
      BY <1>1, <1>3, <2>3, <2>6, <2>9, <3>3, PartFacts DEF Moved
    <3>5. OneEach(f)'
      BY <1>1, <1>3, <2>3, <2>6, <3>3 DEF OneEach
    <3>6. FlowOnce(f)'
      BY <1>1, <1>2, <3>4, <3>5, FlowMoves
    <3> QED BY <1>1, <1>2, <2>3, <2>5, <2>9, <3>3, <3>6, OthersStay
  <2> QED BY <2>2, <2>8, <2>9
<1>5. CASE WorkerSends(f, w)
  <2>1. /\ HasItem(f, w) /\ items' = [items EXCEPT ![f] = @ \o holds[f][w]]
        /\ holds' = [holds EXCEPT ![f][w] = <<>>] /\ UNCHANGED <<chan, failed>>
    BY <1>5 DEF WorkerSends
  <2>2. PICK i \in Items(f) : holds[f][w] = <<i>>
    BY <2>1 DEF HoldsInv
  <2>3. items[f] \in Seq(Items(f)) /\ DOMAIN items = Flows
    BY DEF StorageInv
  <2>4. items'[f] = Append(items[f], i) /\ \A h \in Flows \ {f} : items'[h] = items[h]
    BY <2>1, <2>2, <2>3, QueueFacts
  <2>5. /\ \A h \in Flows \ {f} : holds'[h] = holds[h]
        /\ i.id \in HeldIds(f) /\ HeldIds(f)' = HeldIds(f) \ {i.id} /\ HeldOnce(f)'
    <3>1. HeldOnce(f)
      BY <1>3 DEF OneEach
    <3> QED BY <2>1, <2>2, <3>1, HoldFacts
  <2>6. i.id \notin Ids(items[f])
    BY <1>3, <2>5, PartFacts DEF IsApart
  <2>7. Ids(items'[f]) = Ids(items[f]) \cup {i.id} /\ Distinct(items'[f])
    BY <1>3, <2>3, <2>4, <2>6, AppendIds DEF OneEach
  <2>8. Moved(PlacesOf(f), PlacesOf(f)', {i.id}, "workers", "items")
    BY <1>1, <1>3, <2>1, <2>5, <2>7, PartFacts DEF Moved
  <2>9. OneEach(f)'
    BY <1>1, <1>3, <2>1, <2>5, <2>7 DEF OneEach
  <2>10. FlowOnce(f)'
    BY <1>1, <1>2, <2>8, <2>9, FlowMoves
  <2> QED BY <1>1, <1>2, <2>1, <2>4, <2>5, <2>10, OthersStay
<1>6. CASE WorkerDone(f, w)
  <2>1. UNCHANGED <<chan, holds, items, failed>>
    BY <1>6 DEF WorkerDone
  <2>2. FlowOnce(f)'
    BY <1>1, <1>2, <1>3, <2>1, FlowStays
  <2> QED BY <1>1, <1>2, <2>1, <2>2, OthersStay
<1> QED BY <1>4, <1>5, <1>6 DEF WorkerStep

(* The loop takes an item.                                                 *)
LEMMA RouteLoop ==
    ASSUME Inv, RouteInv, NEW f \in Flows, LoopTakes(f)
    PROVE  RouteInv'
<1> USE DEF Inv, PipeInv
<1>1. /\ UNCHANGED <<conf, arrived, dropped, chan, holds, stored, failed>> /\ status # "crash"
      /\ items[f] # <<>> /\ client' = [client EXCEPT ![f] = Append(@, Head(items[f]))]
      /\ items' = [items EXCEPT ![f] = Tail(@)]
  BY DEF LoopTakes, Alive
<1>2. \A h \in Flows : FlowOnce(h)
  BY <1>1 DEF RouteInv
<1>3. /\ Dropped(f)' = Dropped(f) /\ StoredIds(f)' = StoredIds(f) /\ GivenUp(f)' = GivenUp(f)
      /\ HeldIds(f)' = HeldIds(f) /\ HeldOnce(f)' = HeldOnce(f)
      /\ OneEach(f) /\ IsApart(PlacesOf(f))
  BY <1>1, <1>2 DEF Dropped, StoredIds, GivenUp, HeldIds, HeldOnce, HasItem, FlowOnce
<1>4. /\ items[f] \in Seq(Items(f)) /\ client[f] \in Seq(Items(f))
      /\ DOMAIN items = Flows /\ DOMAIN client = Flows
  BY DEF StorageInv
<1> DEFINE i == Head(items[f])
<1>5. /\ items'[f] = Tail(items[f]) /\ \A h \in Flows \ {f} : items'[h] = items[h]
      /\ client'[f] = Append(client[f], i) /\ \A h \in Flows \ {f} : client'[h] = client[h]
  BY <1>1, <1>4
<1>6. i \in Items(f)
  BY <1>1, <1>4, QueueFacts
<1>7. i.id \in Ids(items[f]) /\ Ids(items'[f]) = Ids(items[f]) \ {i.id} /\ Distinct(items'[f])
  BY <1>1, <1>3, <1>4, <1>5, TailIds DEF OneEach
<1> HIDE DEF i
<1>8. i.id \notin Ids(client[f])
  BY <1>3, <1>7, PartFacts DEF IsApart
<1>9. Ids(client'[f]) = Ids(client[f]) \cup {i.id} /\ Distinct(client'[f])
  BY <1>3, <1>4, <1>5, <1>6, <1>8, AppendIds DEF OneEach
<1>10. Moved(PlacesOf(f), PlacesOf(f)', {i.id}, "items", "client")
  BY <1>1, <1>3, <1>7, <1>9, PartFacts DEF Moved
<1>11. OneEach(f)'
  BY <1>1, <1>3, <1>7, <1>9 DEF OneEach
<1>12. FlowOnce(f)'
  BY <1>1, <1>2, <1>10, <1>11, FlowMoves
<1> QED BY <1>1, <1>2, <1>5, <1>12, OthersStay

(* What is done with some of the items that a client holds: they are       *)
(* stored, or given up.                                                    *)
LEMMA RouteAnswer ==
    ASSUME Inv, RouteInv, status # "crash", NEW f \in Flows,
           UNCHANGED <<conf, arrived, dropped, chan, holds, items>>,
           NEW c \in Seq(Items(f)), client' = [client EXCEPT ![f] = c], Distinct(c),
           NEW M \in SUBSET Items(f), {i.id : i \in M} \subseteq Ids(client[f]),
           Ids(c) = Ids(client[f]) \ {i.id : i \in M},
           \/ stored' = [stored EXCEPT ![f] = @ \cup M] /\ UNCHANGED failed
           \/ failed' = failed \cup {i.id : i \in M} /\ UNCHANGED stored
    PROVE  RouteInv'
<1> USE DEF Inv, PipeInv
<1> DEFINE R == {i.id : i \in M}
<1>1. \A h \in Flows : FlowOnce(h)
  BY DEF RouteInv
<1>2. /\ Dropped(f)' = Dropped(f)
      /\ HeldIds(f)' = HeldIds(f) /\ HeldOnce(f)' = HeldOnce(f)
      /\ OneEach(f) /\ IsApart(PlacesOf(f))
  BY <1>1 DEF Dropped, HeldIds, HeldOnce, HasItem, FlowOnce
<1>3. client'[f] = c /\ \A h \in Flows \ {f} : client'[h] = client[h]
  BY DEF StorageInv
<1>4. OneEach(f)'
  BY <1>2, <1>3 DEF OneEach
<1>5. \A r \in R : r[1] = f
  BY ItemFacts
<1>6. Ids(client'[f]) = Ids(client[f]) \ R /\ R \subseteq Ids(client[f])
  BY <1>3
<1>7. CASE stored' = [stored EXCEPT ![f] = @ \cup M] /\ UNCHANGED failed
  <2>1. stored'[f] = stored[f] \cup M /\ \A h \in Flows \ {f} : stored'[h] = stored[h]
    BY <1>7 DEF StorageInv
  <2>2. StoredIds(f)' = StoredIds(f) \cup R /\ GivenUp(f)' = GivenUp(f)
    BY <1>7, <2>1 DEF StoredIds, GivenUp
  <2> HIDE DEF R
  <2>3. Moved(PlacesOf(f), PlacesOf(f)', R, "client", "stored")
    BY <1>2, <1>6, <2>2, PartFacts DEF Moved
  <2>4. FlowOnce(f)'
    BY <1>1, <1>4, <2>3, FlowMoves
  <2> QED BY <1>1, <1>3, <1>7, <2>1, <2>4, OthersStay
<1>8. CASE failed' = failed \cup R /\ UNCHANGED stored
  <2>1. StoredIds(f)' = StoredIds(f) /\ GivenUp(f)' = GivenUp(f) \cup R
    BY <1>5, <1>8 DEF StoredIds, GivenUp
  <2>2. \A r \in failed' \cup failed : r[1] # f => (r \in failed' <=> r \in failed)
    BY <1>5, <1>8
  <2> HIDE DEF R
  <2>3. Moved(PlacesOf(f), PlacesOf(f)', R, "client", "failed")
    BY <1>2, <1>6, <2>1, PartFacts DEF Moved
  <2>4. FlowOnce(f)'
    BY <1>1, <1>4, <2>3, FlowMoves
  <2> QED BY <1>1, <1>3, <1>8, <2>2, <2>4, OthersStay
<1> QED BY <1>7, <1>8

(* The client has an answer for its first item, or, when the loop of       *)
(* ClickHouse ends, for all of them.                                       *)
LEMMA RouteClient ==
    ASSUME Inv, RouteInv, NEW f \in Flows, ClientStep(f) \/ LoopDone(f)
    PROVE  RouteInv'
<1> USE DEF Inv, PipeInv
<1>1. /\ UNCHANGED <<conf, arrived, dropped, chan, holds, items>> /\ status # "crash"
  BY DEF ClientStep, ClientStores, ClientGivesUp, LoopDone, Alive
<1>2. \A h \in Flows : FlowOnce(h)
  BY <1>1 DEF RouteInv
<1>3. /\ client[f] \in Seq(Items(f)) /\ DOMAIN client = Flows /\ Distinct(client[f])
  BY <1>2 DEF StorageInv, FlowOnce, OneEach
<1>4. CASE ClientStep(f)
  <2> DEFINE i == Head(client[f])
             c == Tail(client[f])
  <2>1. /\ client[f] # <<>> /\ client' = [client EXCEPT ![f] = c]
        /\ \/ stored' = [stored EXCEPT ![f] = @ \cup {i}] /\ UNCHANGED failed
           \/ failed' = failed \cup {i.id} /\ UNCHANGED stored
    BY <1>4 DEF ClientStep, ClientStores, ClientGivesUp
  <2>2. i \in Items(f) /\ c \in Seq(Items(f))
    BY <1>3, <2>1, QueueFacts
  <2>3. i.id \in Ids(client[f]) /\ Ids(c) = Ids(client[f]) \ {i.id} /\ Distinct(c)
    BY <1>3, <2>1, TailIds
  <2> HIDE DEF i, c
  <2>4. {j.id : j \in {i}} = {i.id} /\ {i} \in SUBSET Items(f)
    BY <2>2
  <2> QED BY <1>1, <2>1, <2>2, <2>3, <2>4, RouteAnswer
<1>5. CASE LoopDone(f)
  <2> DEFINE M == {client[f][i] : i \in DOMAIN client[f]}
  <2>1. CASE UNCHANGED <<client, stored, failed>>
    <3>1. FlowOnce(f)'
      <4>1. Dropped(f)' = Dropped(f) /\ GivenUp(f)' = GivenUp(f)
        BY <1>1, <2>1 DEF Dropped, GivenUp
      <4> QED BY <1>1, <1>2, <2>1, <4>1, FlowStays
    <3> QED BY <1>1, <1>2, <2>1, <3>1, OthersStay
  <2>2. {i.id : i \in M} = Ids(client[f])
    BY DEF Ids
  <2>3. M \in SUBSET Items(f)
    BY <1>3, QueueFacts
  <2>4. /\ <<>> \in Seq(Items(f)) /\ Distinct(<<>>)
        /\ Ids(<<>>) = Ids(client[f]) \ {i.id : i \in M}
    BY <2>2 DEF Distinct, Ids
  <2>5. CASE /\ client' = [client EXCEPT ![f] = <<>>]
             /\ \/ stored' = [stored EXCEPT ![f] = @ \cup M] /\ UNCHANGED failed
                \/ failed' = failed \cup Ids(client[f]) /\ UNCHANGED stored
    <3> HIDE DEF M
    <3> QED BY <1>1, <2>2, <2>3, <2>4, <2>5, RouteAnswer
  <2> QED BY <1>5, <2>1, <2>5 DEF LoopDone, Ids
<1> QED BY <1>4, <1>5

(* Every step keeps the records of a flow in one place each.               *)
LEMMA RouteStep == Inv /\ RouteInv /\ [Next]_vars => RouteInv'
<1> SUFFICES ASSUME Inv, RouteInv, [Next]_vars PROVE RouteInv'
  OBVIOUS
<1>1. ASSUME UNCHANGED <<arrived, dropped, pipeVars>>, status' = "crash" \/ status # "crash"
      PROVE  RouteInv'
  <2>1. CASE status' = "crash"
    BY <2>1 DEF RouteInv
  <2>2. CASE status # "crash"
    <3>1. \A f \in Flows : FlowOnce(f)
      BY <2>2 DEF RouteInv
    <3>2. \A f : Dropped(f)' = Dropped(f) /\ GivenUp(f)' = GivenUp(f)
      BY <1>1 DEF Dropped, GivenUp, pipeVars
    <3>3. \A f \in Flows : FlowOnce(f)'
      BY <1>1, <3>1, <3>2, FlowStays DEF pipeVars
    <3> QED BY <3>3 DEF RouteInv
  <2> QED BY <1>1, <2>1, <2>2
<1>2. CASE MainStep
  BY <1>1, <1>2, MainAdds
<1>3. CASE Interrupt \/ Exit \/ UNCHANGED vars
  BY <1>1, <1>3 DEF Interrupt, Exit, vars
<1>4. ASSUME NEW f \in Flows, Arrive(f) PROVE RouteInv'
  BY <1>4, RouteArrive
<1>5. ASSUME NEW f \in Flows, LoopStep(f) \/ ClientStep(f) PROVE RouteInv'
  <2>1. CASE LoopDivides(f)
    <3>1. UNCHANGED <<arrived, dropped, pipeVars>> /\ status' = "crash"
      BY <2>1 DEF LoopDivides, Crash
    <3> QED BY <1>1, <3>1
  <2> QED BY <1>5, <2>1, RouteLoop, RouteClient DEF LoopStep
<1>6. ASSUME NEW f \in Flows, NEW w \in Workers, WorkerStep(f, w) PROVE RouteInv'
  BY <1>6, RouteWorker
<1> QED BY <1>2, <1>3, <1>4, <1>5, <1>6 DEF Next

(* A record that reached the ingress of a flow is in exactly one place of  *)
(* that flow, or the server has crashed (server/helper.go: a channel for   *)
(* each flow; ingestion: workers, a channel and a client for each flow),   *)
(* a record that a worker makes no item of in that of the failed.          *)
THEOREM RecordsRouted == Spec => []Routed
<1>1. RouteInv => Routed
  <2> SUFFICES ASSUME RouteInv, status # "crash", NEW f \in Flows
               PROVE  LET at == PlacesOf(f)
                      IN /\ UNION {at[p] : p \in DOMAIN at} = {<<f, k>> : k \in 1..arrived[f]}
                         /\ \A p, q \in DOMAIN at : p # q => at[p] \cap at[q] = {}
    BY DEF Routed
  <2> QED BY DEF RouteInv, FlowOnce, Together, IsApart, Numbered
<1> QED BY <1>1, AlwaysInv, RouteInit, RouteStep, PTL DEF Spec

-----------------------------------------------------------------------------
(* The types of fields, and that geography is text.                        *)
LEMMA KindFacts ==
    /\ \A n \in DOMAIN Kind : Kind[n] \in {"string", "uint32", "uint64"} /\ n # "nothing"
    /\ GeoNames \subseteq DOMAIN Kind
    /\ \A n \in GeoNames : Kind[n] = "string"
    /\ "Timestamp" \in DOMAIN Kind => Kind["Timestamp"] = "uint64"
BY DEF Kind, GeoNames

(* The level of a name, as its lookup goes by it.                          *)
LEMMA LevelFacts ==
    ASSUME NEW name
    PROVE  LET l == str2Level(name)
           IN /\ l = 1 => name = "asn"
              /\ l = 2 => name = "city"
              /\ l = 3 => name \in {"city-asn", "City-ASN"}
              /\ l = 4 => name = "city-loc"
              /\ l = 5 => name = "city-loc-asn"
              /\ l \in 0..5
BY DEF str2Level, LevelASN, LevelCity, LevelCityASN, LevelCityLoc, LevelCityLocASN

(* The lookup finds what the level is configured for.                      *)
LEMMA LookupFinds ==
    ASSUME Ready.level # 0, NEW place \in Places
    PROVE  /\ Get(Ready, place) = Promised(conf.Geo.Level, place)
           /\ Get(Ready, place) \subseteq GeoNames
           /\ Get(Ready, "none") = {}
<1> DEFINE l == Ready.level
           name == conf.Geo.Level
<1>1. /\ l = str2Level(name) /\ Ready.fn = getFunc(Ready) /\ (Ready.isASN <=> l % 2 = 1)
  BY ReadyFacts
<1>2. /\ l = 1 => name = "asn"
      /\ l = 2 => name = "city"
      /\ l = 3 => name \in {"city-asn", "City-ASN"}
      /\ l = 4 => name = "city-loc"
      /\ l = 5 => name = "city-loc-asn"
      /\ l \in 1..5
  BY <1>1, LevelFacts
<1>3. /\ l = 1 => Ready.fn = "getASN"
      /\ l \in {2, 3} => Ready.fn = "getCityASN"
      /\ l \in {4, 5} => Ready.fn = "getCityLocASN"
  BY <1>1 DEF getFunc, LevelASN, LevelCity, LevelCityASN, LevelCityLoc, LevelCityLocASN
<1>4. Ready.isASN <=> l \in {1, 3, 5}
  BY <1>1, <1>2
<1> DEFINE Own == IF place = "none" THEN {} ELSE {"ASN", "ASNOrg"}
           City == IF place = "none" THEN {}
                   ELSE {"CCode", "Country", "City"}
                          \cup (IF place = "divided" THEN {"CSCode", "Region"} ELSE {})
           Location == IF place = "none" THEN {} ELSE {"GeoLocation"}
<1>5. /\ Subdivision("none") = {}
      /\ getASN(place) = Own
      /\ getCityASN(Ready, place) = City \cup (IF Ready.isASN THEN Own ELSE {})
      /\ getCityLocASN(Ready, place) =
           City \cup Location \cup (IF Ready.isASN THEN Own ELSE {})
  BY DEF getASN, getCityASN, getCityLocASN, Subdivision, Places
<1>6. /\ name = "asn" => Promised(name, place) = Own
      /\ name = "city" => Promised(name, place) = City
      /\ name \in {"city-asn", "City-ASN"} => Promised(name, place) = Own \cup City
      /\ name = "city-loc" => Promised(name, place) = City \cup Location
      /\ name = "city-loc-asn" => Promised(name, place) = Own \cup City \cup Location
  BY DEF Promised
<1>7. Own \subseteq GeoNames /\ City \subseteq GeoNames /\ Location \subseteq GeoNames
  BY DEF GeoNames
<1> HIDE DEF Own, City, Location
<1>8. /\ l = 1 => Get(Ready, place) = Own
      /\ l = 2 => Get(Ready, place) = City
      /\ l = 3 => Get(Ready, place) = City \cup Own
      /\ l = 4 => Get(Ready, place) = City \cup Location
      /\ l = 5 => Get(Ready, place) = City \cup Location \cup Own
  BY <1>3, <1>4, <1>5 DEF Get
<1>9. Get(Ready, place) = Promised(name, place)
  BY <1>2, <1>6, <1>8
<1>10. Get(Ready, place) \subseteq GeoNames
  BY <1>2, <1>7, <1>8
<1>11. Get(Ready, "none") = {}
  <2>1. /\ getASN("none") = {}
        /\ getCityASN(Ready, "none") = {} /\ getCityLocASN(Ready, "none") = {}
    BY <1>5 DEF getASN, getCityASN, getCityLocASN
  <2> QED BY <1>2, <1>3, <2>1 DEF Get
<1> QED BY <1>9, <1>10, <1>11

(* A message that an ingestion makes something of is of the flow's         *)
(* serialization, and has the fields of its record.                        *)
LEMMA UsableMessage ==
    ASSUME conf \in Configurations, NEW f, Usable(f), NEW m \in Messages(f),
           Made(f, m.msg, FinalProvider) # Panic
    PROVE  LET r == conf.Sent[f][m.id[2]]
           IN /\ Ser(f) \in Serializations /\ m.msg.ser = Ser(f)
              /\ DOMAIN m.msg.fields = r.names /\ r.names \subseteq DOMAIN Kind
              /\ \A n \in r.names : m.msg.fields[n] = V(Held(Ser(f), n), n)
              /\ m.msg.place = r.place /\ r.place \in Places
<1> DEFINE r == conf.Sent[f][m.id[2]]
           i == IngestionOf(f)
<1>1. /\ m.msg.ser = Delivered(f) /\ DOMAIN m.msg.fields = r.names /\ r.names \subseteq DOMAIN Kind
      /\ m.msg.place = r.place /\ r.place \in Places
      /\ \A n \in r.names : m.msg.fields[n] = V(Held(Delivered(f), n), n)
  BY MessageFacts DEF Usable
<1>2. \A ser, result : Asserted(m.msg, ser, result) # Panic => m.msg.ser = ser
  BY DEF Asserted
<1>3. i.Type \in {"elasticsearch", "influxdb", "clickhouse"}
  BY DEF Usable, HasClient, Types
<1> HIDE DEF Panic
<1>4. Ser(f) \in Serializations /\ m.msg.ser = Ser(f)
  <2>1. CASE i.Type = "elasticsearch"
    BY <1>2, <2>1 DEF Made, getItemMaker, itemJSON, itemSPB, itemPB, Serializations
  <2>2. CASE i.Type = "influxdb"
    BY <1>2, <2>2 DEF Made, getPointMaker, pointJSON, pointSPB, pointPB, Serializations
  <2>3. CASE i.Type = "clickhouse"
    BY <1>2, <2>3 DEF Made, getSliceIfMaker, JSON, PB, SPB, Serializations
  <2> QED BY <1>3, <2>1, <2>2, <2>3
<1> QED BY <1>1, <1>4

(* The geography of an address, for each way it is looked up.              *)
LEMMA GeoFacts ==
    ASSUME conf \in Configurations, NEW f, Usable(f), NEW m \in Messages(f),
           Made(f, m.msg, FinalProvider) # Panic
    PROVE  LET r == conf.Sent[f][m.id[2]]
               field == IngestionOf(f).GeoField
               G == Geography(f, r)
               g == FinalProvider
           IN /\ G \subseteq GeoNames
              /\ GeoOf(m.msg, field, g) = Texts(G) /\ GeoOfPB(m.msg, field, g) = Texts(G)
              /\ G = IF g # NoGeo /\ field \in r.names /\ Kind[field] = "string"
                     THEN Get(g, r.place) ELSE {}
              /\ g # NoGeo <=> conf.Geo.Type = "maxmind"
<1> DEFINE r == conf.Sent[f][m.id[2]]
           field == IngestionOf(f).GeoField
           g == FinalProvider
<1>1. /\ DOMAIN m.msg.fields = r.names /\ r.names \subseteq DOMAIN Kind
      /\ m.msg.place = r.place /\ r.place \in Places
  BY UsableMessage
<1>2. g # NoGeo <=> conf.Geo.Type = "maxmind"
  <2>1. CASE conf.Geo.Type = "maxmind"
    <3>1. Ready.fn \in Lookups /\ g = Ready
      BY <2>1, ReadyFacts DEF Usable, FinalProvider
    <3>2. NoGeo.fn = "none"
      <4>1. New \in GeoType
        BY DEF New, GeoType, LevelCityLocASN
      <4> HIDE DEF New
      <4> QED BY <4>1 DEF NoGeo, GeoType
    <3> QED BY <2>1, <3>1, <3>2 DEF Lookups
  <2>2. CASE conf.Geo.Type # "maxmind"
    BY <2>2 DEF FinalProvider
  <2> QED BY <2>1, <2>2
<1>3. conf.Geo.Type = "maxmind" =>
        /\ g = Ready /\ Get(g, r.place) = Promised(conf.Geo.Level, r.place)
        /\ Get(g, r.place) \subseteq GeoNames /\ Get(g, "none") = {}
  BY <1>1, LookupFinds DEF Usable, FinalProvider
<1> DEFINE isText == field \in r.names /\ Kind[field] = "string"
<1> HIDE DEF g
<1>4. Geography(f, r) = IF g # NoGeo /\ isText THEN Get(g, r.place) ELSE {}
  <2>1. Address(f, r) # {} <=> isText
    BY DEF Address
  <2> QED BY <1>2, <1>3, <2>1 DEF Geography
<1>5. Geography(f, r) \subseteq GeoNames
  BY <1>2, <1>3, <1>4
<1>6. PlaceOf(m.msg, field) = IF isText THEN r.place ELSE "none"
  BY <1>1 DEF PlaceOf
<1>7. ASSUME g # NoGeo PROVE Get(g, PlaceOf(m.msg, field)) = Geography(f, r)
  BY <1>2, <1>3, <1>4, <1>6, <1>7
<1>8. GeoOf(m.msg, field, g) = Texts(Geography(f, r))
  <2>1. (IF g # NoGeo /\ field \in DOMAIN m.msg.fields
         THEN Get(g, PlaceOf(m.msg, field)) ELSE {}) = Geography(f, r)
    BY <1>1, <1>4, <1>7
  <2> QED BY <2>1 DEF GeoOf
<1>9. GeoOfPB(m.msg, field, g) = Texts(Geography(f, r))
  <2>1. (IF g # NoGeo /\ field \in DOMAIN Kind
         THEN Get(g, PlaceOf(m.msg, field)) ELSE {}) = Geography(f, r)
    BY <1>1, <1>4, <1>7
  <2> QED BY <2>1 DEF GeoOfPB
<1> QED BY <1>2, <1>4, <1>5, <1>8, <1>9 DEF g

(* What a storage is to be given of names with their geography.            *)
Facts(names) == {<<n, Kind[n] = "string">> : n \in names}

Matches(f, r, doc) == Given(f, doc) = Untyped(f, Expected(f, r)) /\ ~Misplaced(f, doc)

(* The parts of a value.                                                   *)
LEMMA ValueFacts == \A as, of : V(as, of).as = as /\ V(as, of).of = of
BY DEF V

(* Elasticsearch: every field and the geography, each of the JSON type of  *)
(* its value.                                                              *)
LEMMA ElasticMatches ==
    ASSUME conf \in Configurations, NEW f, Usable(f), NEW m \in Messages(f),
           Made(f, m.msg, FinalProvider) # Panic, IngestionOf(f).Type = "elasticsearch"
    PROVE  Matches(f, conf.Sent[f][m.id[2]], Made(f, m.msg, FinalProvider)[1])
<1> DEFINE r == conf.Sent[f][m.id[2]]
           field == IngestionOf(f).GeoField
           G == Geography(f, r)
           N == r.names
           doc == Made(f, m.msg, FinalProvider)[1]
<1>1. /\ Ser(f) \in Serializations /\ m.msg.ser = Ser(f)
      /\ DOMAIN m.msg.fields = N /\ N \subseteq DOMAIN Kind
      /\ \A n \in N : m.msg.fields[n] = V(Held(Ser(f), n), n)
  BY UsableMessage
<1>2. /\ G \subseteq GeoNames
      /\ GeoOf(m.msg, field, FinalProvider) = Texts(G)
      /\ GeoOfPB(m.msg, field, FinalProvider) = Texts(G)
  BY GeoFacts
<1>3. G \subseteq DOMAIN Kind /\ \A n \in G : Kind[n] = "string"
  BY <1>2, KindFacts
<1> HIDE DEF N, G
<1>4. doc = Marshal(SetAll(m.msg.fields, Texts(G)))
  <2>1. [k \in DOMAIN Texts(G) \cap DOMAIN Kind |-> Texts(G)[k]] = Texts(G)
    BY <1>3 DEF Texts
  <2>2. \A result : <<result>>[1] = result
    OBVIOUS
  <2>3. \A result : Asserted(m.msg, Ser(f), result)[1] = result
    BY <1>1, <2>2 DEF Asserted
  <2> HIDE DEF Panic
  <2> QED BY <1>1, <1>2, <2>1, <2>3
          DEF Made, getItemMaker, itemJSON, itemSPB, itemPB, Serializations
<1> HIDE DEF doc
<1>5. /\ DOMAIN doc = N \cup G
      /\ \A n \in N \cup G : /\ doc[n].of = n
                             /\ n \in G => doc[n].as = "text"
                             /\ n \notin G => doc[n].as = JsonType[Held(Ser(f), n)]
  <2> DEFINE s == SetAll(m.msg.fields, Texts(G))
  <2>1. /\ DOMAIN s = N \cup G
        /\ \A n \in N \cup G : s[n] = IF n \in G THEN V("string", n) ELSE V(Held(Ser(f), n), n)
    BY <1>1 DEF SetAll, Texts
  <2> HIDE DEF s
  <2>2. DOMAIN doc = N \cup G /\ \A n \in N \cup G : doc[n] = V(JsonType[s[n].as], s[n].of)
    BY <1>4, <2>1 DEF Marshal, s
  <2>3. JsonType["string"] = "text"
    BY DEF JsonType
  <2> QED BY <2>1, <2>2, <2>3, ValueFacts
<1>6. ASSUME NEW n \in N \cup G
      PROVE  doc[n].as = "text" <=> \/ Kind[n] = "string"
                                    \/ Ser(f) = "pb" /\ Kind[n] = "uint64"
  <2>1. CASE n \in G
    BY <1>3, <1>5, <2>1
  <2>2. CASE n \notin G
    <3>1. Kind[n] \in {"string", "uint32", "uint64"}
      BY <1>1, <2>2, KindFacts
    <3> QED BY <1>1, <1>5, <2>2, <3>1 DEF Held, JsonType, Serializations
  <2> QED BY <2>1, <2>2
<1>7. Given(f, doc) = {<<n, doc[n].as = "text">> : n \in N \cup G}
  <2>1. {x \in DOMAIN doc : doc[x].of = x} = N \cup G
    BY <1>5
  <2> QED BY <2>1 DEF Given
<1>8. Expected(f, r) = Facts(N \cup G)
  BY DEF Expected, Facts, N, G
<1>9. Untyped(f, Facts(N \cup G)) =
        {<<n, Kind[n] = "string" \/ (Ser(f) = "pb" /\ Kind[n] = "uint64")>> : n \in N \cup G}
  <2>1. CASE Ser(f) = "pb"
    <3>1. Untyped(f, Facts(N \cup G)) =
             {IF Kind[x[1]] = "uint64" THEN <<x[1], TRUE>> ELSE x : x \in Facts(N \cup G)}
      BY <2>1 DEF Untyped
    <3>2. \A n : (IF Kind[<<n, Kind[n] = "string">>[1]] = "uint64"
                  THEN <<<<n, Kind[n] = "string">>[1], TRUE>> ELSE <<n, Kind[n] = "string">>)
                 = <<n, Kind[n] = "string" \/ Kind[n] = "uint64">>
      OBVIOUS
    <3>3. Untyped(f, Facts(N \cup G)) =
            {IF Kind[<<n, Kind[n] = "string">>[1]] = "uint64"
             THEN <<<<n, Kind[n] = "string">>[1], TRUE>> ELSE <<n, Kind[n] = "string">> : n \in N \cup G}
      BY <3>1 DEF Facts
    <3> QED BY <2>1, <3>2, <3>3
  <2>2. CASE Ser(f) # "pb"
    BY <2>2 DEF Untyped, Facts
  <2> QED BY <2>1, <2>2
<1>10. \A n \in N \cup G : (doc[n].as = "text") = (Kind[n] = "string" \/ (Ser(f) = "pb" /\ Kind[n] = "uint64"))
  BY <1>6
<1>11. ~Misplaced(f, doc)
  BY <1>5 DEF Misplaced
<1>12. Given(f, doc) = Untyped(f, Expected(f, r))
  BY <1>7, <1>8, <1>9, <1>10
<1>13. Matches(f, r, doc)
  BY <1>11, <1>12 DEF Matches
<1> QED BY <1>13 DEF doc

(* InfluxDB: texts and the geography as tags, numbers as fields, the time, *)
(* and the address itself only without a lookup.                           *)
LEMMA InfluxMatches ==
    ASSUME conf \in Configurations, NEW f, Usable(f), NEW m \in Messages(f),
           Made(f, m.msg, FinalProvider) # Panic, IngestionOf(f).Type = "influxdb"
    PROVE  Matches(f, conf.Sent[f][m.id[2]], Made(f, m.msg, FinalProvider)[1])
<1> DEFINE r == conf.Sent[f][m.id[2]]
           field == IngestionOf(f).GeoField
           g == FinalProvider
           G == Geography(f, r)
           N == r.names
           doc == Made(f, m.msg, FinalProvider)[1]
           text == IF Ser(f) = "spb" THEN "StringValue" ELSE "string"
           T == {n \in N : Kind[n] = "string"}
           own == {n \in T : g = NoGeo \/ n # field}
<1>1. /\ Ser(f) \in Serializations /\ m.msg.ser = Ser(f)
      /\ DOMAIN m.msg.fields = N /\ N \subseteq DOMAIN Kind /\ m.msg.place = r.place
      /\ \A n \in N : m.msg.fields[n] = V(Held(Ser(f), n), n)
  BY UsableMessage
<1>2. /\ G \subseteq GeoNames
      /\ G = IF g # NoGeo /\ field \in N /\ Kind[field] = "string" THEN Get(g, r.place) ELSE {}
      /\ g # NoGeo <=> conf.Geo.Type = "maxmind"
  BY GeoFacts
<1>3. \A n \in G : Kind[n] = "string"
  BY <1>2, KindFacts
<1> HIDE DEF N, G, g
<1>4. doc = Point(m.msg, field, g, text)
  <2>1. \A result : <<result>>[1] = result
    OBVIOUS
  <2>2. \A result : Asserted(m.msg, Ser(f), result)[1] = result
    BY <1>1, <2>1 DEF Asserted
  <2> HIDE DEF Panic
  <2> QED BY <1>1, <2>2
          DEF Made, getPointMaker, pointJSON, pointSPB, pointPB, Serializations, g
<1>5. /\ {n \in DOMAIN m.msg.fields : m.msg.fields[n].as = text} = T
      /\ \A n \in N : m.msg.fields[n].of = n
  <2>1. ASSUME NEW n \in N PROVE m.msg.fields[n].as = text <=> Kind[n] = "string"
    <3>1. Kind[n] \in {"string", "uint32", "uint64"}
      BY <1>1, KindFacts
    <3> QED BY <1>1, <3>1, ValueFacts DEF Held, Serializations
  <2> QED BY <1>1, <2>1, ValueFacts
<1> HIDE DEF text, doc
<1> DEFINE looked == T \ own
           ownTags == [n \in own |-> V("string", m.msg.fields[n].of)]
           geoTags == Texts(IF looked = {} THEN {} ELSE Get(g, m.msg.place))
           numbers == [n \in N \ (T \cup {"Timestamp"}) |-> V("number", m.msg.fields[n].of)]
           time == {m.msg.fields[n].of : n \in N \cap {"Timestamp"}}
<1>6. doc = [tags |-> SetAll(ownTags, geoTags), fields |-> numbers, time |-> time]
  <2>1. {n \in T : g = NoGeo \/ n # field} = own
    OBVIOUS
  <2> QED BY <1>1, <1>4, <1>5, <2>1 DEF Point
<1>7. (IF looked = {} THEN {} ELSE Get(g, m.msg.place)) = G
  <2>1. looked = {} <=> ~(g # NoGeo /\ field \in N /\ Kind[field] = "string")
    OBVIOUS
  <2> QED BY <1>1, <1>2, <2>1
<1>8. /\ DOMAIN doc.tags = own \cup G /\ \A n \in own \cup G : doc.tags[n].of = n
      /\ DOMAIN doc.fields = N \ (T \cup {"Timestamp"})
      /\ \A n \in DOMAIN doc.fields : doc.fields[n].of = n
      /\ doc.time = N \cap {"Timestamp"}
  <2>1. geoTags = Texts(G)
    BY <1>7
  <2>2. DOMAIN ownTags = own /\ \A n \in own : ownTags[n] = V("string", n)
    BY <1>5
  <2>3. /\ DOMAIN numbers = N \ (T \cup {"Timestamp"})
        /\ \A n \in DOMAIN numbers : numbers[n] = V("number", n)
    BY <1>5
  <2>4. time = N \cap {"Timestamp"}
    BY <1>5
  <2>5. doc.tags = SetAll(ownTags, geoTags) /\ doc.fields = numbers /\ doc.time = time
    BY <1>6
  <2> HIDE DEF ownTags, geoTags, numbers, time, own
  <2>6. /\ DOMAIN doc.tags = own \cup G
        /\ \A n \in own \cup G : doc.tags[n] = V("string", n)
    BY <2>1, <2>2, <2>5 DEF SetAll, Texts
  <2> QED BY <2>3, <2>4, <2>5, <2>6, ValueFacts
<1> HIDE DEF ownTags, geoTags, numbers, time, looked
<1>9. ~Misplaced(f, doc)
  BY <1>8 DEF Misplaced
<1>10. Given(f, doc) = {<<n, TRUE>> : n \in own \cup G}
                        \cup {<<n, FALSE>> : n \in N \ T}
  <2>1. {x \in DOMAIN doc.tags : doc.tags[x].of = x} = own \cup G
    BY <1>8
  <2>2. {x \in DOMAIN doc.fields : doc.fields[x].of = x} = N \ (T \cup {"Timestamp"})
    BY <1>8
  <2>3. Given(f, doc) = {<<n, TRUE>> : n \in own \cup G}
                         \cup {<<n, FALSE>> : n \in N \ (T \cup {"Timestamp"})}
                         \cup {<<n, FALSE>> : n \in N \cap {"Timestamp"}}
    BY <1>8, <2>1, <2>2 DEF Given
  <2>4. N \ T = (N \ (T \cup {"Timestamp"})) \cup (N \cap {"Timestamp"})
    <3>1. "Timestamp" \in N => "Timestamp" \notin T
      BY <1>1, KindFacts
    <3> QED BY <3>1
  <2> QED BY <2>3, <2>4
<1>11. Expected(f, r) = Facts(own \cup G \cup (N \ T))
  <2>1. (IF conf.Geo.Type = "maxmind" THEN (N \ Address(f, r)) \cup G ELSE N \cup G)
          = own \cup G \cup (N \ T)
    <3>1. Address(f, r) = {n \in N : n = field /\ Kind[n] = "string"}
      BY DEF Address, N
    <3>2. conf.Geo.Type = "maxmind" => N \ Address(f, r) = own \cup (N \ T)
      BY <1>2, <3>1
    <3>3. conf.Geo.Type # "maxmind" => N = own \cup (N \ T)
      BY <1>2
    <3> QED BY <3>2, <3>3
  <2> QED BY <2>1 DEF Expected, Facts, N, G
<1>12. \A n \in own \cup G : (Kind[n] = "string") = TRUE
  BY <1>3
<1>13. \A n \in N \ T : (Kind[n] = "string") = FALSE
  OBVIOUS
<1>14. Facts(own \cup G \cup (N \ T)) = {<<n, TRUE>> : n \in own \cup G}
                                         \cup {<<n, FALSE>> : n \in N \ T}
  <2> DEFINE A == own \cup G
             B == N \ T
  <2> HIDE DEF A, B
  <2>1. Facts(A \cup B) = Facts(A) \cup Facts(B)
    BY DEF Facts
  <2>2. Facts(A) = {<<n, TRUE>> : n \in A}
    BY <1>12 DEF Facts, A
  <2>3. Facts(B) = {<<n, FALSE>> : n \in B}
    BY <1>13 DEF Facts, B
  <2> QED BY <2>1, <2>2, <2>3 DEF A, B
<1>15. Untyped(f, Expected(f, r)) = Expected(f, r)
  BY DEF Untyped
<1>16. Matches(f, r, doc)
  BY <1>9, <1>10, <1>11, <1>14, <1>15 DEF Matches
<1> QED BY <1>16 DEF doc

(* ClickHouse: each column its own value, if there is one.                 *)
LEMMA RowMatches ==
    ASSUME conf \in Configurations, NEW f, Usable(f), NEW m \in Messages(f),
           Made(f, m.msg, FinalProvider) # Panic, IngestionOf(f).Type = "clickhouse"
    PROVE  Matches(f, conf.Sent[f][m.id[2]], Made(f, m.msg, FinalProvider)[1])
<1> DEFINE r == conf.Sent[f][m.id[2]]
           i == IngestionOf(f)
           G == Geography(f, r)
           N == r.names
           doc == Made(f, m.msg, FinalProvider)[1]
           Cols == i.Fields
<1>1. /\ Ser(f) \in Serializations /\ m.msg.ser = Ser(f)
      /\ DOMAIN m.msg.fields = N /\ N \subseteq DOMAIN Kind
      /\ \A n \in N : m.msg.fields[n] = V(Held(Ser(f), n), n)
  BY UsableMessage
<1>2. /\ G \subseteq GeoNames
      /\ GeoOf(m.msg, i.GeoField, FinalProvider) = Texts(G)
      /\ GeoOfPB(m.msg, i.GeoField, FinalProvider) = Texts(G)
  BY GeoFacts
<1>3. \A n \in G : Kind[n] = "string"
  BY <1>2, KindFacts
<1>4. /\ \A c \in DOMAIN Cols : Cols[c] \in DOMAIN Kind \/ Cols[c] = "unknownFields"
      /\ \A n \in DOMAIN Kind : n # "nothing"
  <2> HIDE DEF Panic
  <2>1. ~NoColumn(Cols)
    BY <1>1 DEF Made, getSliceIfMaker, JSON, PB, SPB, Serializations
  <2> QED BY <2>1, KindFacts DEF NoColumn, Columns
<1> HIDE DEF N, G, Cols
<1>5. /\ DOMAIN Texts(G) = G /\ \A n \in G : Texts(G)[n] = V("string", n)
      /\ \A n \in N : m.msg.fields[n].of = n
  BY <1>1, ValueFacts DEF Texts
<1>6. /\ DOMAIN doc = DOMAIN Cols
      /\ \A c \in DOMAIN Cols : LET n == Cols[c]
                                IN IF n \in N \cup G
                                   THEN doc[c] = V(Kind[n], n)
                                   ELSE doc[c].of = "nothing"
  <2> DEFINE fields == SetAll(m.msg.fields, Texts(G))
  <2>1. \A result : <<result>>[1] = result
    OBVIOUS
  <2>2. \A result : Asserted(m.msg, Ser(f), result)[1] = result
    BY <1>1, <2>1 DEF Asserted
  <2> HIDE DEF Panic
  <2>3. CASE Ser(f) = "json"
    <3> DEFINE Value(n) == IF n \in DOMAIN fields THEN V(Kind[n], fields[n].of) ELSE Nil
    <3>1. doc = [c \in DOMAIN Cols |-> Value(Cols[c])]
      BY <1>2, <2>2, <2>3 DEF Made, getSliceIfMaker, JSON, Cols
    <3>2. DOMAIN fields = N \cup G /\ \A n \in N \cup G : fields[n].of = n
      BY <1>1, <1>5, ValueFacts DEF SetAll
    <3>3. Nil.of = "nothing"
      BY ValueFacts DEF Nil
    <3> QED BY <3>1, <3>2, <3>3
  <2>4. CASE Ser(f) = "pb"
    <3> DEFINE Value(n) == IF n \in N THEN V(Kind[n], m.msg.fields[n].of)
                           ELSE IF n \in G THEN Texts(G)[n] ELSE Nil
    <3>1. doc = [c \in DOMAIN Cols |-> Value(Cols[c])]
      BY <1>1, <1>2, <1>5, <2>2, <2>4 DEF Made, getSliceIfMaker, PB, Cols
    <3>2. Nil.of = "nothing"
      BY ValueFacts DEF Nil
    <3> QED BY <1>3, <1>5, <3>1, <3>2
  <2>5. CASE Ser(f) = "spb"
    <3> DEFINE Value(n) == IF n \in N THEN V(Kind[n], m.msg.fields[n].of)
                           ELSE IF n \in G THEN Texts(G)[n]
                           ELSE IF n \in DOMAIN Kind THEN Zero(Kind[n]) ELSE Nil
    <3>1. doc = [c \in DOMAIN Cols |-> Value(Cols[c])]
      BY <1>1, <1>2, <1>5, <2>2, <2>5 DEF Made, getSliceIfMaker, SPB, Cols
    <3>2. (\A as : Zero(as).of = "nothing") /\ Nil.of = "nothing"
      BY ValueFacts DEF Zero, Nil
    <3> QED BY <1>3, <1>5, <3>1, <3>2
  <2> QED BY <1>1, <2>3, <2>4, <2>5 DEF Serializations
<1> HIDE DEF doc
<1>7. \A c \in DOMAIN Cols :
         /\ doc[c].of = Cols[c] <=> Cols[c] \in N \cup G
         /\ doc[c].of \in {Cols[c], "nothing"}
         /\ Cols[c] \in N \cup G => doc[c].as = Kind[Cols[c]]
  BY <1>4, <1>6, ValueFacts
<1>8. ~Misplaced(f, doc)
  BY <1>7 DEF Misplaced, Cols
<1> DEFINE C == {c \in DOMAIN Cols : Cols[c] \in N \cup G}
           kept == {Cols[c] : c \in DOMAIN Cols} \cap (N \cup G)
<1>9. Given(f, doc) = {<<Cols[c], doc[c].as = "string">> : c \in C}
  <2>1. {x \in DOMAIN Cols : doc[x].of = Cols[x]} = C
    BY <1>7
  <2> QED BY <2>1 DEF Given, Cols
<1>10. \A c \in C : (doc[c].as = "string") = (Kind[Cols[c]] = "string")
  BY <1>7
<1>11. Expected(f, r) = Facts(kept)
  BY DEF Expected, Facts, N, G, Cols
<1>12. kept = {Cols[c] : c \in C}
  OBVIOUS
<1>13. Facts(kept) = {<<Cols[c], Kind[Cols[c]] = "string">> : c \in C}
  BY <1>12 DEF Facts
<1>14. Given(f, doc) = Facts(kept)
  <2> HIDE DEF C
  <2> QED BY <1>9, <1>10, <1>13
<1>15. Untyped(f, Expected(f, r)) = Expected(f, r)
  BY DEF Untyped
<1>16. Matches(f, r, doc)
  BY <1>8, <1>11, <1>14, <1>15 DEF Matches
<1> QED BY <1>16 DEF doc

(* Whatever the storage and the serialization, and whatever geography is   *)
(* configured, a storage is given what the record says and the geography   *)
(* of its address (ingestion: nine functions; geo/maxmind/maxmind.go).     *)
THEOREM DocumentsCorrect == Spec => []DocumentsMatch
<1>1. Inv => DocumentsMatch
  <2> SUFFICES ASSUME Inv, NEW f \in Flows, NEW s \in stored[f]
               PROVE  Matches(f, conf.Sent[f][s.id[2]], s.doc)
    BY DEF DocumentsMatch, Matches
  <2>1. s \in Items(f) /\ conf \in Configurations
    BY DEF Inv, PipeInv, StorageInv, StartInv, ProgressInv
  <2>2. PICK m \in Messages(f) : /\ Usable(f) /\ Made(f, m.msg, FinalProvider) # Panic
                                 /\ s = [id |-> m.id, doc |-> Made(f, m.msg, FinalProvider)[1]]
    BY <2>1 DEF Items
  <2>3. s.id = m.id /\ s.doc = Made(f, m.msg, FinalProvider)[1]
    BY <2>2
  <2>4. IngestionOf(f).Type \in {"elasticsearch", "influxdb", "clickhouse"}
    BY <2>2 DEF Usable, HasClient, Types
  <2>5. Matches(f, conf.Sent[f][m.id[2]], Made(f, m.msg, FinalProvider)[1])
    BY <2>1, <2>2, <2>4, ElasticMatches, InfluxMatches, RowMatches
  <2> QED BY <2>3, <2>5
<1> QED BY <1>1, AlwaysInv, PTL
=============================================================================
