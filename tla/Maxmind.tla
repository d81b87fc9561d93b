------------------------------ MODULE Maxmind ------------------------------
(***************************************************************************)
(* The geo provider of the server (geo, geo/maxmind): one object, made in  *)
(* New when the program starts, that every ingestion initializes again and *)
(* asks for the geography of an address.  A text value is named after the  *)
(* key it stands for; the databases are external, and of an address only   *)
(* its Place matters: whether they know a subdivision for it, or whether   *)
(* it is no address at all.                                                *)
(***************************************************************************)
EXTENDS Integers

LevelASN        == 1
LevelCity       == 2
LevelCityASN    == 3
LevelCityLoc    == 4
LevelCityLocASN == 5

(* strings.ToLower and str2Level, 0 for a name that is not in the map.     *)
str2Level(level) ==
    CASE level = "asn" -> LevelASN
      [] level = "city" -> LevelCity
      [] level \in {"city-asn", "City-ASN"} -> LevelCityASN
      [] level = "city-loc" -> LevelCityLoc
      [] level = "city-loc-asn" -> LevelCityLocASN
      [] OTHER -> 0

(* &Geo{}: a database is there or nil, and fn names the lookup, or "nil".  *)
New == [level |-> 0, cityDB |-> FALSE, asnDB |-> FALSE, isASN |-> FALSE, fn |-> "nil"]

(* A configuration has a level, the two paths that it gives, and whether   *)
(* the files can be opened.                                                *)
GeoConfig ==
    [Level : STRING, PathASN : BOOLEAN, PathCity : BOOLEAN, Readable : BOOLEAN]

WithLevel(g, cfg) == [g EXCEPT !.level = str2Level(cfg.Level)]

(* validate.  A configuration without a level has an unknown one.          *)
Validated(g, cfg) ==
    /\ g.level # 0
    /\ g.level \in {LevelASN, LevelCityASN, LevelCityLocASN} => cfg.PathASN
    /\ g.level # LevelASN => cfg.PathCity

NeedsCity(g) == g.level # LevelASN
NeedsASN(g) == g.level % 2 = 1

WithCity(g) == [g EXCEPT !.cityDB = TRUE]
WithASN(g) == [g EXCEPT !.isASN = TRUE, !.asnDB = TRUE]

getFunc(g) ==
    CASE g.level = LevelASN -> "getASN"
      [] g.level \in {LevelCity, LevelCityASN} -> "getCityASN"
      [] g.level \in {LevelCityLoc, LevelCityLocASN} -> "getCityLocASN"
      [] OTHER -> "nil"

WithFunc(g) == [g EXCEPT !.fn = getFunc(g)]

-----------------------------------------------------------------------------
Places == {"divided", "undivided", "none"}

(* A call of a nil function, or of a method of a nil database.             *)
GetPanics(g) ==
    \/ g.fn = "nil"
    \/ g.fn = "getASN" /\ ~g.asnDB
    \/ g.fn # "getASN" /\ (~g.cityDB \/ (g.isASN /\ ~g.asnDB))

(* Where a lookup fails only its error is logged.                          *)
getASN(place) == IF place = "none" THEN {} ELSE {"ASN", "ASNOrg"}

Subdivision(place) == IF place = "divided" THEN {"CSCode", "Region"} ELSE {}

getCityASN(g, place) ==
    (IF place = "none" THEN {} ELSE {"CCode", "Country", "City"})
      \cup Subdivision(place)
      \cup (IF g.isASN THEN getASN(place) ELSE {})

getCityLocASN(g, place) ==
    (IF place = "none" THEN {} ELSE {"CCode", "Country", "City", "GeoLocation"})
      \cup Subdivision(place)
      \cup (IF g.isASN THEN getASN(place) ELSE {})

(* The keys of the map that Get returns.                                   *)
Get(g, place) ==
    CASE g.fn = "getASN" -> getASN(place)
      [] g.fn = "getCityASN" -> getCityASN(g, place)
      [] g.fn = "getCityLocASN" -> getCityLocASN(g, place)
=============================================================================
