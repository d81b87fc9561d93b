------------------------------ MODULE MCServer ------------------------------
(* Configurations of the server for TLC, and what agents send to it.       *)
EXTENDS Server, TLC

Fn(k, v) == [x \in {k} |-> v]

Grpc(addr) == [Type |-> "grpc", Addr |-> addr, Opens |-> TRUE]
Kafka == [Type |-> "kafka", Addr |-> "broker", Opens |-> TRUE]

Storage(type) ==
    [Type |-> type, Opens |-> TRUE, GeoField |-> "SAddr",
     Fields |-> <<"Task", "RTT", "City", "BytesSent", "ASN">>,
     FlushInterval |-> 1, FlushBytes |-> 1]

Geo(level) ==
    [Type |-> "maxmind", Level |-> level, PathASN |-> TRUE, PathCity |-> TRUE, Readable |-> TRUE]
WithoutGeo == [Geo("") EXCEPT !.Type = ""]

Names == {"Task", "SAddr", "RTT", "BytesSent", "Hostname", "Timestamp"}
Sent(names, place) == [names |-> names, place |-> place, utf8 |-> TRUE]

Flow(ser) == [Ingress |-> "in1", Ingestion |-> "db1", Serialization |-> ser]

(* One flow over in, which agents call with ser, to a storage.             *)
Single(in, type, ser, geoConf, sent) ==
    [Loads |-> TRUE,
     Ingress |-> Fn("in1", in), Ingestion |-> Fn("db1", Storage(type)),
     Flow |-> <<Flow(ser)>>, Geo |-> geoConf,
     Calls |-> <<ser>>, Sent |-> <<sent>>, Stalled |-> {}]

(* The nine functions under every geo level, with addresses of each kind   *)
(* and records without one.                                                *)
Conversions ==
    {Single(Kafka, type, ser, g, <<record>>) :
        type \in Types.Ingestion, ser \in Serializations,
        g \in {Geo(l) : l \in {"asn", "city", "City-ASN", "city-loc", "city-loc-asn"}}
                \cup {WithoutGeo},
        record \in {Sent(Names, place) : place \in Places}
                     \cup {Sent(Names \ {"SAddr"}, "none")}}

(* A flow of each kind whose storage has a configuration that nothing      *)
(* looks at, and one with a text that is not UTF-8.                        *)
Plain(type, ser, record) == Single(Kafka, type, ser, Geo("city"), <<record>>)

Unchecked ==
    LET Flows1 == {Plain(type, ser, Sent(Names, "divided")) :
                     type \in Types.Ingestion, ser \in Serializations}
    IN {[cf EXCEPT !.Ingestion["db1"].GeoField = field] :
            cf \in Flows1, field \in {"RTT", "City", "state", "NewState"}}
       \cup {[cf EXCEPT !.Ingestion["db1"].Fields = <<"Task", name>>] :
            cf \in Flows1, name \in {"NewState", "sizeCache", "unknownFields"}}
       \cup {[cf EXCEPT !.Ingestion["db1"].FlushInterval = interval] :
            cf \in Flows1, interval \in {-1, 0}}
       \cup {[cf EXCEPT !.Ingestion["db1"].FlushBytes = -1] : cf \in Flows1}
       \cup {Plain(type, ser, [Sent(Names, "divided") EXCEPT !.utf8 = FALSE]) :
            type \in Types.Ingestion, ser \in Serializations}

(* A second flow, to a storage that may stop answering.                    *)
Pair(a, b, ser, geoConf, type2, ser2) ==
    [Loads |-> TRUE,
     Ingress |-> ("in1" :> Grpc("a1") @@ "in2" :> b),
     Ingestion |-> ("db1" :> Storage(a) @@ "db2" :> Storage(type2)),
     Flow |-> <<Flow(ser), [Ingress |-> "in2", Ingestion |-> "db2", Serialization |-> ser2]>>,
     Geo |-> geoConf, Calls |-> <<ser, "pb">>,
     Sent |-> <<<<Sent(Names, "divided"), Sent(Names, "none")>>,
                <<Sent(Names, "undivided"), Sent(Names, "undivided")>>>>,
     Stalled |-> {2}]

Sound == Pair("elasticsearch", Kafka, "pb", Geo("city-asn"), "clickhouse", "pb")

(* With one record each.                                                   *)
OneRecord(cf) ==
    [cf EXCEPT !.Sent = <<<<Sent(Names, "divided")>>, <<Sent(Names, "none")>>>>]

Pairs ==
    {Sound,
     OneRecord(Pair("clickhouse", Kafka, "spb", Geo("asn"), "influxdb", "json")),
     OneRecord(Pair("influxdb", Kafka, "pb", WithoutGeo, "elasticsearch", "pb"))}

(* What validate, Fatal, a switch without a default and a panic are for.   *)
Faulty ==
    LET S == OneRecord(Sound)
    IN {[S EXCEPT !.Loads = FALSE],
        [S EXCEPT !.Flow = <<>>, !.Sent = <<>>],
        [S EXCEPT !.Flow[2].Ingestion = "db3"],
        [S EXCEPT !.Flow[2].Ingress = "in3"],
        [S EXCEPT !.Flow[1].Serialization = ""],
        [S EXCEPT !.Flow[2].Serialization = "xml"],
        [S EXCEPT !.Flow[1].Serialization = "spb"],
        [S EXCEPT !.Flow[2].Ingress = "in1", !.Flow[2].Serialization = "pb"],
        [S EXCEPT !.Ingress["in2"].Type = "nats"],
        [S EXCEPT !.Ingress["in2"].Opens = FALSE],
        [S EXCEPT !.Ingestion["db2"].Type = "mysql"],
        [S EXCEPT !.Ingestion["db2"].Opens = FALSE],
        [S EXCEPT !.Geo.Level = "country"],
        [S EXCEPT !.Geo.PathCity = FALSE],
        [S EXCEPT !.Geo.PathASN = FALSE],
        [S EXCEPT !.Geo.Readable = FALSE],
        [S EXCEPT !.Geo = [Geo("asn") EXCEPT !.Readable = FALSE]],
        [S EXCEPT !.Sent[2] = <<Sent(Names \ {"RTT"}, "none")>>]}

AllConfigurations == Conversions \cup Unchecked \cup Pairs \cup Faulty
=============================================================================
