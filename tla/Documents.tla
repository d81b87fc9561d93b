----------------------------- MODULE Documents -----------------------------
(***************************************************************************)
(* What the ingestions make of a record: an Elasticsearch document         *)
(* (itemJSON, itemSPB, itemPB), an InfluxDB point (pointJSON, pointSPB,    *)
(* pointPB) or the values of a ClickHouse row (JSON, SPB, PB), nine        *)
(* functions for three storages and three serializations.                  *)
(*                                                                         *)
(* A value has the type it is held in and the field it is the value of.    *)
(* A message is the record as the ingress delivers it: its serialization,  *)
(* its fields, what the geo databases know of the text that is looked up,  *)
(* and whether the record and what they know are UTF-8.                    *)
(***************************************************************************)
EXTENDS Maxmind, Sequences

V(as, of) == [as |-> as, of |-> of]

GeoNames == {"CCode", "Country", "City", "CSCode", "Region", "GeoLocation", "ASN", "ASNOrg"}

(* The Go types of pb.Fields, with a field of each type that agents send.  *)
Kind == [n \in GeoNames \cup {"Task", "SAddr", "Hostname", "RTT", "BytesSent", "Timestamp"} |->
           CASE n = "RTT" -> "uint32"
             [] n \in {"BytesSent", "Timestamp"} -> "uint64"
             [] OTHER -> "string"]

(* What FieldByName finds in pb.Fields next to them: no pointers.          *)
Internal == {"state", "sizeCache", "unknownFields"}

Serializations == {"json", "spb", "pb"}

(* A decoded JSON object has strings and float64s, a Struct its two kinds  *)
(* of values, and pb.Fields a pointer of its own type for each field.      *)
Held(ser, n) ==
    CASE ser = "json" -> IF Kind[n] = "string" THEN "string" ELSE "float64"
      [] ser = "spb" -> IF Kind[n] = "string" THEN "StringValue" ELSE "NumberValue"
      [] ser = "pb" -> Kind[n]

Message(ser, r) ==
    [ser |-> ser, fields |-> [n \in r.names |-> V(Held(ser, n), n)],
     place |-> r.place, utf8 |-> r.utf8]

(* A function returns <<its result>>, or never: a type assertion or a      *)
(* conversion that fails, Elem of what is no pointer, a call of the nil    *)
(* function that stands for an unknown serialization.                      *)
Panic == <<>>

Asserted(m, ser, result) == IF m.ser = ser THEN <<result>> ELSE Panic

(* The ingestion has no geo provider.                                      *)
NoGeo == [New EXCEPT !.fn = "none"]

(* for k, v := range geoKV { f[k] = v }                                    *)
SetAll(f, geoKV) ==
    [k \in DOMAIN f \cup DOMAIN geoKV |-> IF k \in DOMAIN geoKV THEN geoKV[k] ELSE f[k]]

Texts(keys) == [k \in keys |-> V("string", k)]

(* A number, or a field that is not set, is looked up as a text that is no *)
(* address.                                                                *)
PlaceOf(m, field) ==
    IF field \in DOMAIN m.fields /\ Kind[field] = "string" THEN m.place ELSE "none"

(* Geo of a map of fields: only if the configured field is in it.          *)
GeoOf(m, field, g) ==
    Texts(IF g # NoGeo /\ field \in DOMAIN m.fields THEN Get(g, PlaceOf(m, field)) ELSE {})

(* gv.(string)                                                             *)
NoText(m, field, g) ==
    g # NoGeo /\ field \in DOMAIN m.fields /\ m.fields[field].as # "string"

(* Geo of pb.Fields: if it has the configured field, set or not.           *)
GeoOfPB(m, field, g) ==
    Texts(IF g # NoGeo /\ field \in DOMAIN Kind THEN Get(g, PlaceOf(m, field)) ELSE {})

(* gv.Elem()                                                               *)
NoPointer(field, g) == g # NoGeo /\ field \in Internal

-----------------------------------------------------------------------------
(* Elasticsearch.  json.Marshal and protojson.Marshal: protojson writes a  *)
(* 64-bit integer as a text.                                               *)
JsonType == [string |-> "text", float64 |-> "number",
             StringValue |-> "text", NumberValue |-> "number",
             uint32 |-> "number", uint64 |-> "text"]

Marshal(f) == [n \in DOMAIN f |-> V(JsonType[f[n].as], f[n].of)]

(* err is not nil: protojson refuses a text, of the record or of the       *)
(* database, that is not UTF-8.                                            *)
Refused(m) == m.ser # "json" /\ ~m.utf8

itemJSON(m, field, g) ==
    IF NoText(m, field, g) THEN Panic
    ELSE Asserted(m, "json", Marshal(SetAll(m.fields, GeoOf(m, field, g))))

itemSPB(m, field, g) == Asserted(m, "spb", Marshal(SetAll(m.fields, GeoOf(m, field, g))))

(* Mutant: the loop's variable itself, of which there is one, is set.      *)
itemPBLoopVariable(m, field, g) ==
    LET geoKV == GeoOfPB(m, field, g)
    IN Asserted(m, "pb", Marshal(SetAll(m.fields, [k \in DOMAIN geoKV |->
                                    geoKV[CHOOSE l \in DOMAIN geoKV : TRUE]])))

(* Keys without a field of this name in pb.Fields are left out.            *)
itemPB(m, field, g) ==
    LET geoKV == GeoOfPB(m, field, g)
    IN IF NoPointer(field, g) THEN Panic
       ELSE Asserted(m, "pb", Marshal(SetAll(m.fields,
                                      [k \in DOMAIN geoKV \cap DOMAIN Kind |-> geoKV[k]])))

-----------------------------------------------------------------------------
(* InfluxDB: texts are tags, numbers fields, and the time is the point's.  *)
(* The address that is looked up is replaced by its geography.             *)
Point(m, field, g, text) ==
    LET names == DOMAIN m.fields
        texts == {n \in names : m.fields[n].as = text}
        own == {n \in texts : g = NoGeo \/ n # field}
        looked == texts \ own
    IN [tags |-> SetAll([n \in own |-> V("string", m.fields[n].of)],
                        Texts(IF looked = {} THEN {} ELSE Get(g, m.place))),
        fields |-> [n \in names \ (texts \cup {"Timestamp"}) |-> V("number", m.fields[n].of)],
        time |-> {m.fields[n].of : n \in names \cap {"Timestamp"}}]

pointJSON(m, field, g) == Asserted(m, "json", Point(m, field, g, "string"))

pointSPB(m, field, g) == Asserted(m, "spb", Point(m, field, g, "StringValue"))

pointPB(m, field, g) == Asserted(m, "pb", Point(m, field, g, "string"))

-----------------------------------------------------------------------------
(* ClickHouse: the values of the configured fields, in their order.        *)
Nil == V("nil", "nothing")
Zero(as) == V(as, "nothing")

(* Names that FieldByName(name).Type().Elem() and FieldByName(name).       *)
(* Pointer() take: fields, and the one internal member that is a slice.    *)
Columns == DOMAIN Kind \cup {"unknownFields"}

NoColumn(columns) == \E i \in DOMAIN columns : columns[i] \notin Columns

(* f[name].(float64): nil is no number.                                    *)
JSON(m, field, g, columns) ==
    LET f == SetAll(m.fields, GeoOf(m, field, g))
        Numbers == {n \in DOMAIN Kind : Kind[n] # "string"}
        Value(n) == IF n \in DOMAIN f THEN V(Kind[n], f[n].of) ELSE Nil
    IN IF \/ NoText(m, field, g) \/ NoColumn(columns)
          \/ \E i \in DOMAIN columns : columns[i] \in Numbers \ DOMAIN f
       THEN Panic
       ELSE Asserted(m, "json", [i \in DOMAIN columns |-> Value(columns[i])])

PB(m, field, g, columns) ==
    LET geoKV == GeoOfPB(m, field, g)
        Value(n) == IF n \in DOMAIN m.fields THEN V(Kind[n], m.fields[n].of)
                    ELSE IF n \in DOMAIN geoKV THEN geoKV[n] ELSE Nil
    IN IF NoPointer(field, g) \/ NoColumn(columns) THEN Panic
       ELSE Asserted(m, "pb", [i \in DOMAIN columns |-> Value(columns[i])])

SPB(m, field, g, columns) ==
    LET geoKV == GeoOf(m, field, g)
        Value(n) == IF n \in DOMAIN m.fields THEN V(Kind[n], m.fields[n].of)
                    ELSE IF n \in DOMAIN geoKV THEN geoKV[n]
                    ELSE IF n \in DOMAIN Kind THEN Zero(Kind[n]) ELSE Nil
    IN IF NoColumn(columns) THEN Panic
       ELSE Asserted(m, "spb", [i \in DOMAIN columns |-> Value(columns[i])])

-----------------------------------------------------------------------------
getItemMaker(ser, m, field, g) ==
    CASE ser = "json" -> itemJSON(m, field, g)
      [] ser = "spb" -> itemSPB(m, field, g)
      [] ser = "pb" -> itemPB(m, field, g)
      [] OTHER -> Panic

getPointMaker(ser, m, field, g) ==
    CASE ser = "json" -> pointJSON(m, field, g)
      [] ser = "spb" -> pointSPB(m, field, g)
      [] ser = "pb" -> pointPB(m, field, g)
      [] OTHER -> Panic

getSliceIfMaker(ser, m, field, g, columns) ==
    CASE ser = "json" -> JSON(m, field, g, columns)
      [] ser = "spb" -> SPB(m, field, g, columns)
      [] ser = "pb" -> PB(m, field, g, columns)
      [] OTHER -> Panic
=============================================================================
