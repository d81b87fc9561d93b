------------------------------- MODULE Config -------------------------------
(***************************************************************************)
(* The agent's configuration (config/config.go, tcpdog/helper.go): from    *)
(* the command line or a file to the tracepoints that the agent runs with. *)
(* A list of versions is a set: what the agent does with a version that is *)
(* named twice is not described.                                           *)
(***************************************************************************)
EXTENDS Fields

(* config.Tracepoint                                                       *)
Tracepoint ==
    [Name : STRING, Fields : STRING, TCPState : STRING, Workers : Int,
     Sample : Int, INet : SUBSET Int, Egress : STRING]

(* What the agent is started with: a file, one that cannot be read, or     *)
(* options only.  A file's list of fields may be empty, what is split at   *)
(* the commas of an option is not.                                         *)
IsRequest(r) ==
    /\ r.Config \in {"", "file", "unreadable"}
    /\ r.File.Tracepoints \in Seq(Tracepoint)
    /\ \A n \in DOMAIN r.File.Fields : r.File.Fields[n] \in Seq(STRING)
    /\ r.File.Egress \subseteq STRING
    /\ r.CLI \in [Tracepoint : STRING, Fields : Seq(STRING) \ {<<>>}, TCPState : STRING,
                  Workers : Int, Sample : Int, IPv4 : BOOLEAN, IPv6 : BOOLEAN]

cliToConfig(cli) ==
    [Tracepoints |->
       <<[Name |-> cli.Tracepoint, Fields |-> "cli", TCPState |-> cli.TCPState,
          Workers |-> cli.Workers, Sample |-> cli.Sample,
          INet |-> (IF cli.IPv4 THEN {4} ELSE {}) \cup (IF cli.IPv6 THEN {6} ELSE {}),
          Egress |-> "console"]>>,
     Fields |-> [cli |-> cli.Fields],
     Egress |-> {"console"}]

(* setDefault                                                              *)
WithDefaults(tp) ==
    [tp EXCEPT !.INet = IF @ = {} THEN {4} ELSE @,
               !.Workers = IF @ < 1 THEN 1 ELSE @]

setDefault(conf) ==
    [Tracepoints |-> [i \in DOMAIN conf.Tracepoints |-> WithDefaults(conf.Tracepoints[i])],
     Fields |-> conf.Fields, Egress |-> conf.Egress]

(* Get, of a file that can be read.                                        *)
Get(r) == setDefault(IF r.Config = "" THEN cliToConfig(r.CLI) ELSE r.File)

validateFields(conf, name) ==
    /\ name \in DOMAIN conf.Fields
    /\ \A i \in DOMAIN conf.Fields[name] : KnownField(conf.Fields[name][i])

(* Mutant: any version of IP.                                              *)
validateMixNoINet(conf, tp) == tp.Egress \in conf.Egress /\ tp.Sample >= 0

validateMix(conf, tp) ==
    /\ tp.Egress \in conf.Egress
    /\ tp.INet \subseteq Versions
    /\ tp.Sample >= 0

validate(conf) ==
    \A i \in DOMAIN conf.Tracepoints :
        LET tp == conf.Tracepoints[i]
        IN /\ validateFields(conf, tp.Fields)
           /\ KnownStatus(tp.TCPState)
           /\ tp.Name \in validTracepoints
           /\ validateMix(conf, tp)

(* GetTPFields, after validate has put the names of the table in place.    *)
GetTPFields(conf, name) ==
    [i \in DOMAIN conf.Fields[name] |-> FieldName(conf.Fields[name][i])]
=============================================================================
