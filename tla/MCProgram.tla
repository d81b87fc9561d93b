----------------------------- MODULE MCProgram -----------------------------
(* Requests to the agent and what TLC needs to enumerate them.             *)
EXTENDS Program, TLC

NamedTp(name, list, inet, sample) ==
    [Name |-> name, Fields |-> list, TCPState |-> "tcp_close",
     Workers |-> 0, Sample |-> sample, INet |-> inet, Egress |-> "console"]

Tp(list, inet, sample) == NamedTp("sock:inet_sock_set_state", list, inet, sample)

NoOptions ==
    [Tracepoint |-> "sock:inet_sock_set_state", Fields |-> <<"rtt", "saddr">>,
     TCPState |-> "TCP_CLOSE", Workers |-> 1, Sample |-> 0, IPv4 |-> FALSE, IPv6 |-> FALSE]

File(tps, lists) ==
    [Config |-> "file",
     File |-> [Tracepoints |-> tps, Fields |-> lists, Egress |-> {"console"}],
     CLI |-> NoOptions]

(* Up to three fields, or none, of eight kinds on both IP versions, the    *)
(* second one in lower case.                                               *)
Kinds == {"NumSAcks", "AdvMSS", "DPort", "LPort", "SRTT", "BytesSent", "SAddr", "Task"}
LowerCase(name) == CHOOSE f \in DOMAIN fieldsLowerCaseMap : fieldsLowerCaseMap[f] = name
Lists == {[fs EXCEPT ![2] = LowerCase(@)] : fs \in [1..2 -> Kinds] \cup [1..3 -> Kinds]}
           \cup [1..1 -> Kinds] \cup {<<>>}
WideRequests == {File(<<Tp("l", {4, 6}, 0)>>, [l |-> fs]) : fs \in Lists}

(* A sampled tracepoint, and next to it one with any rate, versions and    *)
(* fields.                                                                 *)
PairRequests ==
    {File(<<Tp("l", {4}, 2), Tp("m", inet, sample)>>, [l |-> <<"SRTT", "RTT">>, m |-> fs]) :
        inet \in SUBSET Versions, sample \in {0, 2}, fs \in {<<>>, <<"SAddr">>}}

(* A sampled tracepoint that comes with or without the lock of the socket, *)
(* alone or with another one.                                              *)
SampledRequests ==
    LET First(name, sample) == NamedTp(name, "l", {4}, sample)
        Names == {"tcp:tcp_retransmit_skb", "tcp:tcp_retransmit_synack"}
    IN {File(tps, [l |-> <<"SRTT">>]) :
          tps \in {<<First(name, sample)>> : name \in Names, sample \in {1, 2}}
                  \cup {<<First(name, 1), NamedTp(other, "l", {4, 6}, 0)>> :
                           name \in Names, other \in Names}
                  \cup {<<First(name, 1), NamedTp(other, "l", {6}, 2)>> :
                           name \in Names, other \in Names}}

(* The command line, and what validate is there for.                       *)
OptionRequests ==
    {[Config |-> "", File |-> File(<<>>, <<>>).File,
      CLI |-> [NoOptions EXCEPT !.IPv4 = v4, !.IPv6 = v6, !.Fields = fs]] :
        v4 \in BOOLEAN, v6 \in BOOLEAN, fs \in {<<"rtt", "saddr">>, <<"rtt", "rto">>}}

WrongRequests ==
    LET R == File(<<Tp("l", {6}, 0)>>, [l |-> <<"Task", "SRTT">>])
    IN {[R EXCEPT !.Config = "unreadable"],
        [R EXCEPT !.File.Tracepoints[1].Fields = "m"],
        [R EXCEPT !.File.Tracepoints[1].TCPState = "closed"],
        [R EXCEPT !.File.Tracepoints[1].Name = "tcp:tcp_rcv_space_adjust"],
        [R EXCEPT !.File.Tracepoints[1].Egress = "file"],
        [R EXCEPT !.File.Tracepoints[1].INet = {4, 5}],
        [R EXCEPT !.File.Tracepoints[1].Sample = -1],
        [R EXCEPT !.File.Tracepoints = <<>>]}

AllRequests ==
    WideRequests \cup PairRequests \cup OptionRequests \cup WrongRequests \cup SampledRequests

(* One event is enough where nothing is sampled.                           *)
Events == [r \in AllRequests |-> IF r \in SampledRequests THEN 6 ELSE 1]

Symmetry == Permutations(CPUs) \cup Permutations(Socks)
=============================================================================
