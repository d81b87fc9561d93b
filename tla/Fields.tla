------------------------------- MODULE Fields -------------------------------
(***************************************************************************)
(* The fields that a tracepoint may report (ebpf/data.go, ebpf/fields.go): *)
(* one field of each kind that the table lists, and the checks of names.   *)
(***************************************************************************)
EXTENDS Integers, Sequences

Attrs(ctype, bigEndian, ip) == [CType |-> ctype, BigEndian |-> bigEndian, IP |-> ip]

fieldsModel4 ==
    [NumSAcks   |-> Attrs("u8", FALSE, FALSE),
     AdvMSS     |-> Attrs("u16", FALSE, FALSE),
     DPort      |-> Attrs("u16", TRUE, FALSE),
     LPort      |-> Attrs("u16", TRUE, FALSE),
     SRTT       |-> Attrs("u32", FALSE, FALSE),
     RTT        |-> Attrs("u32", FALSE, FALSE),
     BytesSent  |-> Attrs("u64", FALSE, FALSE),
     SAddr      |-> Attrs("u32", TRUE, TRUE),
     Task       |-> Attrs("char", FALSE, FALSE)]

(* init: IPv6 has the fields of IPv4 with longer addresses.                *)
fieldsModel6 == [fieldsModel4 EXCEPT !.SAddr = [@ EXCEPT !.CType = "u128"]]

Versions == {4, 6}

Model(v) == IF v = 4 THEN fieldsModel4 ELSE fieldsModel6

Size == [u8 |-> 1, u16 |-> 2, u32 |-> 4, u64 |-> 8, u128 |-> 16, char |-> 16]

-----------------------------------------------------------------------------
(* A name is written as in the table or in lower case.                     *)
fieldsLowerCaseMap ==
    [numsacks |-> "NumSAcks", advmss |-> "AdvMSS", dport |-> "DPort", lport |-> "LPort",
     srtt |-> "SRTT", rtt |-> "RTT", bytessent |-> "BytesSent", saddr |-> "SAddr",
     task |-> "Task"]

KnownField(f) == f \in DOMAIN fieldsModel4 \cup DOMAIN fieldsLowerCaseMap

(* ValidateField                                                           *)
FieldName(f) == IF f \in DOMAIN fieldsModel4 THEN f ELSE fieldsLowerCaseMap[f]

(* ValidateTCPStatus: strings.ToUpper, and the statuses that are used.     *)
statusUpper == [TCP_CLOSE |-> "TCP_CLOSE", tcp_close |-> "TCP_CLOSE",
                TCP_ALL |-> "TCP_ALL", tcp_all |-> "TCP_ALL"]

KnownStatus(s) == s \in DOMAIN statusUpper

validTracepoints ==
    {"tcp:tcp_retransmit_skb", "tcp:tcp_retransmit_synack", "tcp:tcp_destroy_sock",
     "tcp:tcp_send_reset", "tcp:tcp_receive_reset", "tcp:tcp_probe",
     "sock:inet_sock_set_state"}
=============================================================================
