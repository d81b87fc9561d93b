------------------------------ MODULE MCAgent ------------------------------
(* Small configurations of the agent for TLC.                              *)
EXTENDS Agent, TLC

(* Two tracepoints with different fields share a csv egress.               *)
SharedTracepoints ==
    << [fields |-> "f1", egress |-> "file", inet |-> {4}, workers |-> 1],
       [fields |-> "f2", egress |-> "file", inet |-> {4}, workers |-> 1] >>
SharedEvents == <<2, 1>>
SharedEgressType == [e \in {"file"} |-> "csv"]

(* One tracepoint for both IP versions on the console.                     *)
DualTracepoints ==
    << [fields |-> "f1", egress |-> "tty", inet |-> {4, 6}, workers |-> 1] >>
DualEgressType == [e \in {"tty"} |-> "console"]

(* One tracepoint, two workers.                                            *)
PairTracepoints ==
    << [fields |-> "f1", egress |-> "file", inet |-> {4}, workers |-> 2] >>

(* One tracepoint, one worker.                                             *)
SingleTracepoint ==
    << [fields |-> "f1", egress |-> "file", inet |-> {4}, workers |-> 1] >>

OneEach == <<1>>
ThreeEvents == <<3>>

BufferSymmetry == Permutations(Buffers)
=============================================================================
