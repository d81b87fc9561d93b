------------------------------ MODULE GrpcPath ------------------------------
(***************************************************************************)
(* Central collection through gRPC: the reconnecting client of egress/grpc *)
(* (Start and protobuf, StartStructPB and structpb are the same program),  *)
(* the streams of the transport, and the handlers of ingress/grpc that     *)
(* offer what they receive to the server's channel without blocking.       *)
(* Streams break and the server crashes and restarts.                      *)
(***************************************************************************)
EXTENDS Integers, Sequences, FiniteSets

CONSTANTS
    InCap,        \* capacity of the egress channel (1000 in main)
    SrvCap,       \* capacity of the server's channel (1000 in server/main)
    MaxRecords,   \* bound: records accepted
    MaxFailures   \* bound: broken streams and server crashes

ASSUME BoundAssumption ==
    InCap \in Nat /\ SrvCap \in Nat /\ MaxRecords \in Nat /\ MaxFailures \in Nat

Records == 1..MaxRecords
Streams == 1..(MaxFailures + 1)

VARIABLES
    accepted,   \* records accepted into the egress channel so far
    in,         \* the egress channel
    ctx,        \* the agent's context: open, or done
    pc,         \* where the egress goroutine is
    buf,        \* the record it took from the channel, or 0
    conns,      \* grpc.ClientConns dialled and not closed
    opened,     \* streams opened so far; the latest is the current one
    state,      \* stream -> none, up or broken
    wire,       \* stream -> messages sent and not yet received
    handler,    \* stream -> the server's handler: none, recv or ended
    up,         \* the server runs: up, or down
    srv,        \* the server's channel
    received,   \* what the handlers put in it, with the stream it came by
    dropped,    \* what they gave up because it was full
    lost,       \* what went down with a stream
    failures    \* failures so far

clientVars == <<ctx, pc, buf, conns, opened>>
streamVars == <<state, wire>>
serverVars == <<handler, up, srv, received, dropped>>
vars == <<accepted, in, clientVars, streamVars, serverVars, lost, failures>>

Init ==
    /\ accepted = 0 /\ in = <<>> /\ ctx = "open"
    /\ pc = "backoff" /\ buf = 0 /\ conns = 0 /\ opened = 0
    /\ state = [s \in Streams |-> "none"]
    /\ wire = [s \in Streams |-> <<>>]
    /\ handler = [s \in Streams |-> "none"]
    /\ up = "up" /\ srv = <<>> /\ received = <<>>
    /\ dropped = {} /\ lost = {} /\ failures = 0

Contents(q) == {q[i] : i \in DOMAIN q}

-----------------------------------------------------------------------------
(* The agent's workers offer a record; Agent models what a full channel    *)
(* does to it.                                                             *)
Accept ==
    /\ accepted < MaxRecords /\ Len(in) < InCap
    /\ accepted' = accepted + 1
    /\ in' = Append(in, accepted + 1)
    /\ UNCHANGED <<clientVars, streamVars, serverVars, lost, failures>>

Cancel ==
    /\ ctx = "open" /\ ctx' = "done"
    /\ UNCHANGED <<accepted, in, pc, buf, conns, opened, streamVars, serverVars, lost,
                   failures>>

(* backoff.Next and grpc.Dial; a dial that fails goes round again.         *)
Dial ==
    /\ pc = "backoff"
    /\ pc' = "open" /\ conns' = conns + 1
    /\ UNCHANGED <<accepted, in, ctx, buf, opened, streamVars, serverVars, lost,
                   failures>>

OpenStream ==
    /\ pc = "open" /\ up = "up" /\ ctx = "open" /\ opened + 1 \in Streams
    /\ opened' = opened + 1
    /\ state' = [state EXCEPT ![opened + 1] = "up"]
    /\ handler' = [handler EXCEPT ![opened + 1] = "recv"]
    /\ pc' = "select"
    /\ UNCHANGED <<accepted, in, ctx, buf, conns, wire, up, srv, received, dropped,
                   lost, failures>>

(* No server, or the context of the stream is done: conn.Close, continue.  *)
OpenStreamFails ==
    /\ pc = "open" /\ (up = "down" \/ ctx = "done")
    /\ pc' = "backoff" /\ conns' = conns - 1
    /\ UNCHANGED <<accepted, in, ctx, buf, opened, streamVars, serverVars, lost,
                   failures>>

(* case buf = <-ch                                                         *)
Select ==
    /\ pc = "select" /\ in # <<>>
    /\ buf' = Head(in) /\ in' = Tail(in)
    /\ pc' = "send"
    /\ UNCHANGED <<accepted, ctx, conns, opened, streamVars, serverVars, lost,
                   failures>>

(* stream.Send hands the message to the transport; the buffer is returned. *)
Send ==
    /\ pc = "send" /\ state[opened] = "up"
    /\ wire' = [wire EXCEPT ![opened] = Append(@, buf)]
    /\ buf' = 0
    /\ pc' = "select"
    /\ UNCHANGED <<accepted, in, ctx, conns, opened, state, serverVars, lost,
                   failures>>

(* Mutant: the old connection is left open.                                *)
SendFailsOpen ==
    /\ pc = "send" /\ (state[opened] = "broken" \/ ctx = "done")
    /\ lost' = lost \cup {buf} /\ buf' = 0
    /\ pc' = "backoff"
    /\ state' = [state EXCEPT ![opened] = "broken"]
    /\ UNCHANGED <<accepted, in, ctx, conns, opened, wire, serverVars, failures>>

(* Mutant: break instead of continue.                                      *)
SendFailsLeaves ==
    /\ pc = "send" /\ (state[opened] = "broken" \/ ctx = "done")
    /\ lost' = lost \cup {buf} /\ buf' = 0
    /\ conns' = conns - 1 /\ pc' = "done"
    /\ state' = [state EXCEPT ![opened] = "broken"]
    /\ UNCHANGED <<accepted, in, ctx, opened, wire, serverVars, failures>>

(* Mutant: what is not known to have arrived is sent again.                *)
SendFailsResends ==
    /\ pc = "send" /\ (state[opened] = "broken" \/ ctx = "done")
    /\ in' = wire[opened] \o <<buf>> \o in /\ buf' = 0
    /\ conns' = conns - 1 /\ pc' = "backoff"
    /\ state' = [state EXCEPT ![opened] = "broken"]
    /\ UNCHANGED <<accepted, ctx, opened, wire, serverVars, lost, failures>>

(* Send reports a broken stream, or one whose context is done: the record  *)
(* in hand is gone, the connection is closed, the loop goes round.         *)
SendFails ==
    /\ pc = "send" /\ (state[opened] = "broken" \/ ctx = "done")
    /\ lost' = lost \cup {buf} /\ buf' = 0
    /\ conns' = conns - 1 /\ pc' = "backoff"
    /\ state' = [state EXCEPT ![opened] = "broken"]
    /\ UNCHANGED <<accepted, in, ctx, opened, wire, serverVars, failures>>

(* case <-ctx.Done(): CloseAndRecv on a stream whose context is done; the  *)
(* connection is not closed.                                               *)
ClientDone ==
    /\ pc = "select" /\ ctx = "done"
    /\ pc' = "done"
    /\ state' = [state EXCEPT ![opened] = "broken"]
    /\ UNCHANGED <<accepted, in, ctx, buf, conns, opened, wire, serverVars, lost,
                   failures>>

ClientStep == \/ Dial \/ OpenStream \/ OpenStreamFails \/ Select \/ Send
              \/ SendFails \/ ClientDone

-----------------------------------------------------------------------------
(* The network.                                                            *)
Break(s) ==
    /\ state[s] = "up" /\ failures < MaxFailures
    /\ state' = [state EXCEPT ![s] = "broken"]
    /\ failures' = failures + 1
    /\ UNCHANGED <<accepted, in, clientVars, wire, serverVars, lost>>

(* The server goes down with its channel and everything under way to it.   *)
ServerCrash ==
    /\ up = "up" /\ failures < MaxFailures
    /\ up' = "down" /\ failures' = failures + 1
    /\ state' = [s \in Streams |-> IF state[s] = "up" THEN "broken" ELSE state[s]]
    /\ handler' = [s \in Streams |-> IF handler[s] = "recv" THEN "ended" ELSE handler[s]]
    /\ lost' = lost \cup UNION {Contents(wire[s]) : s \in Streams}
    /\ wire' = [s \in Streams |-> <<>>]
    /\ srv' = <<>>
    /\ UNCHANGED <<accepted, in, clientVars, received, dropped>>

ServerStart ==
    /\ up = "down" /\ up' = "up"
    /\ UNCHANGED <<accepted, in, clientVars, streamVars, handler, srv, received,
                   dropped, lost, failures>>

-----------------------------------------------------------------------------
(* The server: Tracepoint or TracepointSPB, one goroutine per stream.      *)

(* Mutant: a goroutine per message.                                        *)
HandlerRecvAsync(s) ==
    /\ handler[s] = "recv"
    /\ \E i \in DOMAIN wire[s] :
         /\ wire' = [wire EXCEPT ![s] = SubSeq(@, 1, i - 1) \o SubSeq(@, i + 1, Len(@))]
         /\ IF Len(srv) < SrvCap
            THEN /\ srv' = Append(srv, wire[s][i])
                 /\ received' = Append(received, [rec |-> wire[s][i], stream |-> s])
                 /\ UNCHANGED dropped
            ELSE dropped' = dropped \cup {wire[s][i]} /\ UNCHANGED <<srv, received>>
    /\ UNCHANGED <<accepted, in, clientVars, state, handler, up, lost, failures>>

(* srv.Recv and the select with a default.                                 *)
HandlerRecv(s) ==
    /\ handler[s] = "recv" /\ wire[s] # <<>>
    /\ wire' = [wire EXCEPT ![s] = Tail(@)]
    /\ IF Len(srv) < SrvCap
       THEN /\ srv' = Append(srv, Head(wire[s]))
            /\ received' = Append(received, [rec |-> Head(wire[s]), stream |-> s])
            /\ UNCHANGED dropped
       ELSE dropped' = dropped \cup {Head(wire[s])} /\ UNCHANGED <<srv, received>>
    /\ UNCHANGED <<accepted, in, clientVars, state, handler, up, lost, failures>>

(* Recv returns an error once the stream is broken, whether or not         *)
(* messages that arrived before are still queued; until the handler finds  *)
(* out it may go on receiving them, beside the handler of a newer stream.  *)
HandlerEnds(s) ==
    /\ handler[s] = "recv" /\ state[s] = "broken"
    /\ handler' = [handler EXCEPT ![s] = "ended"]
    /\ lost' = lost \cup Contents(wire[s])
    /\ wire' = [wire EXCEPT ![s] = <<>>]
    /\ UNCHANGED <<accepted, in, clientVars, state, up, srv, received, dropped,
                   failures>>

(* The ingestion takes a record from the server's channel.                 *)
Consume ==
    /\ srv # <<>> /\ srv' = Tail(srv)
    /\ UNCHANGED <<accepted, in, clientVars, streamVars, handler, up, received,
                   dropped, lost, failures>>

Next == \/ Accept \/ Cancel \/ ClientStep \/ ServerCrash \/ ServerStart \/ Consume
        \/ \E s \in Streams : Break(s) \/ HandlerRecv(s) \/ HandlerEnds(s)

Spec == Init /\ [][Next]_vars

(* Every goroutine of both programs runs, and a crashed server is started  *)
(* again.                                                                  *)
FairSpec == Spec /\ WF_vars(ClientStep) /\ WF_vars(ServerStart) /\ WF_vars(Consume)
                 /\ \A s \in Streams : WF_vars(HandlerRecv(s) \/ HandlerEnds(s))

-----------------------------------------------------------------------------
(* Every variable holds a value of its kind; the goroutine holds a record  *)
(* exactly while it sends, and uses a stream only once it has opened one;  *)
(* however often it reconnects, it keeps at most one connection and one    *)
(* stream that is up.                                                      *)
TypeOK ==
    /\ accepted \in 0..MaxRecords
    /\ in \in Seq(Records) /\ Len(in) <= InCap
    /\ ctx \in {"open", "done"}
    /\ pc \in {"backoff", "open", "select", "send", "done"}
    /\ buf \in Records \cup {0}
    /\ pc = "send" <=> buf # 0
    /\ conns \in 0..1 /\ Cardinality({s \in Streams : state[s] = "up"}) <= 1
    /\ opened \in 0..(MaxFailures + 1)
    /\ pc \in {"select", "send"} => opened \in Streams
    /\ state \in [Streams -> {"none", "up", "broken"}]
    /\ wire \in [Streams -> Seq(Records)]
    /\ handler \in [Streams -> {"none", "recv", "ended"}]
    /\ up \in {"up", "down"}
    /\ srv \in Seq(Records) /\ Len(srv) <= SrvCap
    /\ received \in Seq([rec : Records, stream : Streams])
    /\ dropped \subseteq Records /\ lost \subseteq Records
    /\ failures \in 0..MaxFailures

(* Where record k is.                                                      *)
Places(k) ==
    {<<"in", i>> : i \in {j \in DOMAIN in : in[j] = k}}
      \cup {<<"buf", b>> : b \in {buf} \cap {k}}
      \cup (UNION {{<<"wire", s, i>> : i \in {j \in DOMAIN wire[s] : wire[s][j] = k}}
                   : s \in Streams})
      \cup {<<"received", i>> : i \in {j \in DOMAIN received : received[j].rec = k}}
      \cup {<<"dropped", r>> : r \in dropped \cap {k}}
      \cup {<<"lost", r>> : r \in lost \cap {k}}

(* A record that is neither on its way nor received went down with a       *)
(* broken stream or was dropped at the server's full channel; none is sent *)
(* twice.                                                                  *)
Conservation == \A k \in 1..accepted : Cardinality(Places(k)) = 1

(* Records that came by one stream arrive in the order they were accepted. *)
StreamOrder ==
    \A i, j \in DOMAIN received :
        i < j /\ received[i].stream = received[j].stream
          => received[i].rec < received[j].rec

(* Central collection delivers at most once.                               *)
Collected == INSTANCE AtMostOnce
             WITH delivered <- [i \in DOMAIN received |-> received[i].rec]
DeliversAtMostOnce == Collected!Spec

(* The egress channel is always drained again: no failure of a stream or   *)
(* of the server stops the egress for good.                                *)
Drained ==
    \A k \in Records : k \in Contents(in) ~> (k \notin Contents(in) \/ ctx = "done")
=============================================================================
