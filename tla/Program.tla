------------------------------ MODULE Program ------------------------------
(***************************************************************************)
(* The generated BPF program and the decoder of what it submits (ebpf):    *)
(* GetBPFCode puts the code of all tracepoints into one C file; its        *)
(* handlers fill a struct, sample the events of a socket and submit it,    *)
(* each CPU in steps of its own; a worker's decoder walks over the bytes   *)
(* with an offset of its own.                                              *)
(*                                                                         *)
(* A name of the program is a tuple: a number that is put into it is a     *)
(* part of its own, in the template as in the loader.  A byte is the       *)
(* member it belongs to and its significance there, and a value the bytes  *)
(* it is made of, the most significant one first.                          *)
(***************************************************************************)
EXTENDS Config, RecordText, FiniteSets

CONSTANTS
    Requests,       \* what the agent may be started with
    CPUs,           \* the machine's CPUs: a handler is not interrupted by another
    Socks,          \* addresses of struct sock
    HashSize,       \* entries of a BPF_HASH (100000)
    MaxEvents       \* bound: request -> events of all its tracepoints

-----------------------------------------------------------------------------
(* A tracepoint as code generation and decoders see it.                    *)
TracepointConf ==
    [Name : validTracepoints, Fields : Seq(DOMAIN fieldsModel4),
     INet : (SUBSET Versions) \ {{}}, Sample : Nat]

ASSUME ProgramAssumption ==
    /\ \A r \in Requests : IsRequest(r)
    /\ HashSize \in Nat /\ MaxEvents \in [Requests -> Nat]

(* A string is a sequence of characters: TLC knows, the provers do not.    *)
ASSUME NamesAssumption ==
    Len("Timestamp") = 9 /\ \A f \in DOMAIN fieldsModel4 : Len(f) \in Nat

VARIABLES
    request,        \* what the agent was started with
    status,         \* "start", "run" or "exit"
    Tracepoints,    \* the configuration's, once it is validated
    index,          \* tracepoint whose code is generated next
    declared,       \* names declared at file scope so far
    twice,          \* names declared more than once, in the file or in a struct
    open,           \* address -> IP version of its open socket, or 0
    pc,             \* CPU -> what its handler does next, or "idle"
    job,            \* CPU -> tracepoint and address its handler is at, or NoJob
    stale,          \* CPUs whose pointer to a count has outlived the entry
    hash,           \* version and address -> count, or Absent
    events,         \* version and address -> events that came to the sampling
    reports,        \* version and address -> events of these submitted
    raised,         \* events of all tracepoints
    rec,            \* version and tracepoint of the record to decode, or Nothing
    c,              \* the decoder: offset in the record
    next,           \* the decoder: index of the field to decode, 0 before the first
    out,            \* values written into the buffer
    crashed,        \* a slice went beyond the record
    line            \* what the egresses made of the record's text, or <<>>

codeVars == <<request, status, Tracepoints, index, declared, twice>>
handlerVars == <<pc, job, stale, raised>>
sampleVars == <<hash, events, reports>>
decodeVars == <<c, next, out, crashed, line>>
vars == <<codeVars, open, handlerVars, sampleVars, rec, decodeVars>>

Keys == Versions \X Socks
Absent == -1
Nothing == <<0, 0>>
NoJob == <<>>

Init ==
    /\ request \in Requests /\ status = "start" /\ Tracepoints = <<>>
    /\ index = 1 /\ declared = {} /\ twice = {}
    /\ open = [s \in Socks |-> 0]
    /\ pc = [p \in CPUs |-> "idle"] /\ job = [p \in CPUs |-> NoJob] /\ stale = {}
    /\ hash = [k \in Keys |-> Absent]
    /\ events = [k \in Keys |-> 0] /\ reports = [k \in Keys |-> 0]
    /\ raised = 0 /\ rec = Nothing
    /\ c = 0 /\ next = 0 /\ out = <<>> /\ crashed = FALSE /\ line = <<>>

-----------------------------------------------------------------------------
(* main reads the configuration and validates it.                          *)
Loadable == request.Config # "unreadable" /\ validate(Get(request))

Configured(conf) ==
    [i \in DOMAIN conf.Tracepoints |->
       [Name |-> conf.Tracepoints[i].Name,
        Fields |-> GetTPFields(conf, conf.Tracepoints[i].Fields),
        INet |-> conf.Tracepoints[i].INet, Sample |-> conf.Tracepoints[i].Sample]]

Start ==
    /\ status = "start"
    /\ \/ ~Loadable /\ status' = "exit" /\ UNCHANGED Tracepoints
       \/ Loadable /\ status' = "run" /\ Tracepoints' = Configured(Get(request))
    /\ UNCHANGED <<request, index, declared, twice, open, handlerVars, sampleVars, rec,
                   decodeVars>>

-----------------------------------------------------------------------------
(* GetBPFCode                                                              *)

(* The versions that there is a block of code for: one for 4 and one for   *)
(* any other, if there are fields.                                         *)
Blocks(i) ==
    IF Tracepoints[i].Fields = <<>> THEN {}
    ELSE (Tracepoints[i].INet \cap {4})
           \cup (IF \E v \in Tracepoints[i].INet : v # 4 THEN {6} ELSE {})

SampledVersions(i) == {v \in Blocks(i) : Tracepoints[i].Sample # 0}

(* The function, and for each block the struct, the perf output and the    *)
(* hash, which has no suffix of the tracepoint.                            *)
FileNames(i) ==
    {<<"sk_trace", i>>}
      \cup {<<"ipv", v, "_data", i, "_t">> : v \in Blocks(i)}
      \cup {<<"ipv", v, "_events", i>> : v \in Blocks(i)}
      \cup {<<"ipv", v, "_sample">> : v \in SampledVersions(i)}

(* Member i of the structs: the kernel's name for the field and an index,  *)
(* but no index for the name of the task.                                  *)
Member(fs, i) ==
    IF fs[i] = "Task" THEN <<"current_comm">>
    ELSE IF fs[i] \in {"SRTT", "RTT"} THEN <<"srtt_us", i>> ELSE <<fs[i], i>>

MembersTwice(fs) ==
    {Member(fs, i) : i \in {j \in DOMAIN fs :
                       \E k \in DOMAIN fs : k # j /\ Member(fs, k) = Member(fs, j)}}

GetTracepointBPFCode ==
    /\ status = "run" /\ index <= Len(Tracepoints)
    /\ declared' = declared \cup FileNames(index)
    /\ twice' = twice \cup (declared \cap FileNames(index))
                      \cup MembersTwice(Tracepoints[index].Fields)
    /\ index' = index + 1
    /\ UNCHANGED <<request, status, Tracepoints, open, handlerVars, sampleVars, rec, decodeVars>>

(* The program compiles and is loaded.                                     *)
Loaded == status = "run" /\ index > Len(Tracepoints) /\ twice = {}

-----------------------------------------------------------------------------
(* The kernel's sockets: an address is given to another socket once the    *)
(* one that had it is closed, which no handler is at.                      *)
HandlersAt(s) == {p \in CPUs : pc[p] # "idle" /\ job[p][2] = s}

Open(s, v) ==
    /\ Loaded /\ open[s] = 0 /\ open' = [open EXCEPT ![s] = v]
    /\ UNCHANGED <<codeVars, handlerVars, sampleVars, rec, decodeVars>>

Close(s) ==
    /\ open[s] # 0 /\ HandlersAt(s) = {} /\ open' = [open EXCEPT ![s] = 0]
    /\ UNCHANGED <<codeVars, handlerVars, sampleVars, rec, decodeVars>>

(* The tracepoints that the kernel only comes to with the socket locked.   *)
(* The two others are also raised for a listening socket, by any number of *)
(* CPUs.                                                                   *)
KernelLocked == validTracepoints \ {"tcp:tcp_retransmit_synack", "tcp:tcp_send_reset"}

Locked(i) == Tracepoints[i].Name \in KernelLocked

-----------------------------------------------------------------------------
(* sk_trace.  It runs while no record is being decoded: the program and    *)
(* the decoders share nothing but the record.                              *)

(* Tracepoint i is raised on CPU p, with an event of the socket at s that  *)
(* passes the filters.                                                     *)
Event(p, i, s) ==
    /\ Loaded /\ rec = Nothing /\ raised < MaxEvents[request] /\ pc[p] = "idle"
    /\ open[s] \in Blocks(i)
    /\ Locked(i) => \A q \in HandlersAt(s) : ~Locked(job[q][1])
    /\ job' = [job EXCEPT ![p] = <<i, s>>]
    /\ raised' = raised + 1
    /\ UNCHANGED <<codeVars, open, stale, reports, rec, decodeVars>>

Key(s) == <<open[s], s>>
HasEntry(k) == hash[k] # Absent
Room(k) == Cardinality({q \in Keys : q[1] = k[1] /\ HasEntry(q)}) < HashSize

Unsampled(p, i, s) ==
    /\ Event(p, i, s) /\ Tracepoints[i].Sample = 0
    /\ pc' = [pc EXCEPT ![p] = "submit"]
    /\ UNCHANGED <<hash, events>>

ToSample(p, i, s) ==
    /\ Event(p, i, s) /\ Tracepoints[i].Sample # 0
    /\ events' = [events EXCEPT ![Key(s)] = @ + 1]

(* lookup_or_try_init finds or makes the entry, and the handler has a      *)
(* pointer to its count.                                                   *)
LookUp(p, i, s) ==
    /\ ToSample(p, i, s)
    /\ HasEntry(Key(s)) \/ Room(Key(s))
    /\ hash' = [hash EXCEPT ![Key(s)] = IF HasEntry(Key(s)) THEN @ ELSE 0]
    /\ pc' = [pc EXCEPT ![p] = "compare"]

(* !count: the hash is full.                                               *)
Full(p, i, s) ==
    /\ ToSample(p, i, s)
    /\ ~HasEntry(Key(s)) /\ ~Room(Key(s))
    /\ pc' = [pc EXCEPT ![p] = "increment"]
    /\ UNCHANGED hash

(* The handler of CPU p at a step of its own.                              *)
At(p, step) == rec = Nothing /\ pc[p] = step

JobKey(p) == Key(job[p][2])
Rate(p) == Tracepoints[job[p][1]].Sample

GoesTo(p, step) ==
    /\ pc' = [pc EXCEPT ![p] = step]
    /\ job' = IF step = "idle" THEN [job EXCEPT ![p] = NoJob] ELSE job
    /\ UNCHANGED <<codeVars, open, raised, events, decodeVars>>

(* Mutant: *count <= Sample.                                               *)
BelowOrEqual(p) ==
    /\ At(p, "compare")
    /\ p \in stale \/ hash[JobKey(p)] <= Rate(p)
    /\ stale' = stale \ {p} /\ GoesTo(p, "increment")
    /\ UNCHANGED <<hash, reports, rec>>

(* *count < Sample, where a pointer into an entry that is gone may find    *)
(* any count.                                                              *)
Below(p) ==
    /\ At(p, "compare")
    /\ p \in stale \/ hash[JobKey(p)] < Rate(p)
    /\ stale' = stale \ {p} /\ GoesTo(p, "increment")
    /\ UNCHANGED <<hash, reports, rec>>

Reached(p) ==
    /\ At(p, "compare")
    /\ p \in stale \/ hash[JobKey(p)] >= Rate(p)
    /\ stale' = stale \ {p} /\ GoesTo(p, "delete")
    /\ UNCHANGED <<hash, reports, rec>>

(* increment looks the key up again, makes an entry where there is room,   *)
(* and the event is left out.                                              *)
Increment(p) ==
    /\ At(p, "increment")
    /\ LET k == JobKey(p)
       IN hash' = [hash EXCEPT ![k] = IF HasEntry(k) THEN @ + 1
                                      ELSE IF Room(k) THEN 1 ELSE @]
    /\ GoesTo(p, "idle")
    /\ UNCHANGED <<stale, reports, rec>>

(* Mutant: the entry stays, with its count.                                *)
DeleteNothing(p) ==
    /\ At(p, "delete") /\ GoesTo(p, "submit")
    /\ UNCHANGED <<hash, stale, reports, rec>>

(* The entry goes, under the pointers of others if there are any.          *)
Delete(p) ==
    /\ At(p, "delete")
    /\ hash' = [hash EXCEPT ![JobKey(p)] = Absent]
    /\ stale' = stale \cup {q \in CPUs : pc[q] = "compare" /\ JobKey(q) = JobKey(p)}
    /\ GoesTo(p, "submit")
    /\ UNCHANGED <<reports, rec>>

(* perf_submit                                                             *)
Submit(p) ==
    /\ At(p, "submit")
    /\ rec' = <<open[job[p][2]], job[p][1]>>
    /\ reports' = IF Rate(p) = 0 THEN reports ELSE [reports EXCEPT ![JobKey(p)] = @ + 1]
    /\ GoesTo(p, "idle")
    /\ UNCHANGED <<hash, stale>>

-----------------------------------------------------------------------------
(* The compiler's side, for a little-endian machine: natural alignment, an *)
(* array aligned as its elements, and what the kernel keeps in network     *)
(* order: __be16 skc_dport, the addresses and text, but __u16 skc_num.     *)
Alignment == [Size EXCEPT !.char = 1]

NetworkOrder == {"DPort", "SAddr", "Task"}

LeastMultiple(n, a) == CHOOSE m \in n..(n + a - 1) : m % a = 0

(* Offsets of the members of struct ipv4_data_t, ipv6_data_t.              *)
Layout(v, fs) ==
    LET T(i) == Model(v)[fs[i]].CType
        at[i \in DOMAIN fs] ==
            LeastMultiple(IF i = 1 THEN 0 ELSE at[i - 1] + Size[T(i - 1)],
                          Alignment[T(i)])
    IN at

(* sizeof, up to the strictest alignment.                                  *)
SizeOf(v, fs) ==
    LET T(i) == Model(v)[fs[i]].CType
        strictest == CHOOSE a \in {Alignment[T(i)] : i \in DOMAIN fs} :
                         \A i \in DOMAIN fs : Alignment[T(i)] <= a
    IN LeastMultiple(Layout(v, fs)[Len(fs)] + Size[T(Len(fs))], strictest)

Pad == <<0, 0>>

(* What perf_submit copies: byte offset -> <<member, significance>>.       *)
Memory(v, fs) ==
    LET at == Layout(v, fs)
        S(i) == Size[Model(v)[fs[i]].CType]
        In(i, o) == at[i] <= o /\ o < at[i] + S(i)
        Cell(i, o) == <<i, IF fs[i] \in NetworkOrder THEN S(i) - 1 - (o - at[i])
                                                   ELSE o - at[i]>>
    IN [o \in 0..SizeOf(v, fs) - 1 |->
          IF \E i \in DOMAIN fs : In(i, o)
          THEN Cell(CHOOSE i \in DOMAIN fs : In(i, o), o)
          ELSE Pad]

(* The value of member i of the struct.                                    *)
Value(v, fs, i) ==
    LET s == Size[Model(v)[fs[i]].CType] IN [b \in 1..s |-> <<i, s - b>>]

fields == Tracepoints[rec[2]].Fields

-----------------------------------------------------------------------------
(* decode                                                                  *)

(* A worker takes the record and a clean buffer.                           *)
Begin ==
    /\ rec # Nothing /\ next = 0
    /\ c' = 0 /\ next' = 1 /\ out' = <<>>
    /\ UNCHANGED <<codeVars, open, handlerVars, sampleVars, rec, crashed, line>>

(* The version a worker's decoder was made with: the one of its table.     *)
DecoderVersion == rec[1]

prop == Model(DecoderVersion)[fields[next]]

(* Mutant: a character array is padded like a word.                        *)
AlignedToSize(t) == IF c % Size[t] > 0 THEN c + (Size[t] - (c % Size[t])) ELSE c

(* Padding before a type: none before u8 and char.                         *)
Aligned(t) ==
    IF t \notin {"u8", "char"} /\ c % Size[t] > 0
    THEN c + (Size[t] - (c % Size[t]))
    ELSE c

(* bytesToUint16 to 64 in either byte order; addresses and text are taken  *)
(* as they stand.                                                          *)
Read(t, at, data) ==
    [b \in 1..Size[t] |->
       IF prop.BigEndian \/ prop.IP \/ t = "char" THEN data[at + b - 1]
                                              ELSE data[at + Size[t] - b]]

Field ==
    /\ rec # Nothing /\ next \in DOMAIN fields /\ ~crashed
    /\ LET t == prop.CType
           at == Aligned(t)
           data == Memory(rec[1], fields)
       IN IF at + Size[t] > SizeOf(rec[1], fields)
          THEN crashed' = TRUE /\ UNCHANGED <<c, next, out>>
          ELSE /\ out' = Append(out, Read(t, at, data))
               /\ c' = at + Size[t] /\ next' = next + 1
               /\ UNCHANGED crashed
    /\ UNCHANGED <<codeVars, open, handlerVars, sampleVars, rec, line>>

(* The buffer goes to an egress: csv and jsonl cut it into cells, or       *)
(* StructPB takes its values.  The name of the task may have a comma.      *)
Marshal ==
    /\ rec # Nothing /\ next = Len(fields) + 1 /\ line = <<>>
    /\ \E inTask \in {FALSE} \cup {fields[i] = "Task" : i \in DOMAIN fields} :
         line' = LET buf == Text(fields, inTask)
                 IN <<[inTask |-> inTask, csv |-> marshal(fields, buf),
                       spb |-> Unmarshal(fields, buf)]>>
    /\ UNCHANGED <<codeVars, open, handlerVars, sampleVars, rec, c, next, out, crashed>>

(* The buffer goes back to the pool.                                       *)
End ==
    /\ rec # Nothing /\ line # <<>>
    /\ rec' = Nothing /\ next' = 0 /\ line' = <<>>
    /\ UNCHANGED <<codeVars, open, handlerVars, sampleVars, c, out, crashed>>

-----------------------------------------------------------------------------
Raised(p, i, s) == Unsampled(p, i, s) \/ LookUp(p, i, s) \/ Full(p, i, s)
Handler(p) == Below(p) \/ Reached(p) \/ Increment(p) \/ Delete(p) \/ Submit(p)

Next ==
    \/ Start \/ GetTracepointBPFCode
    \/ \E s \in Socks, v \in Versions : Open(s, v)
    \/ \E s \in Socks : Close(s)
    \/ \E p \in CPUs, i \in DOMAIN Tracepoints, s \in Socks : Raised(p, i, s)
    \/ \E p \in CPUs : Handler(p)
    \/ Begin \/ Field \/ Marshal \/ End

Spec == Init /\ [][Next]_vars

-----------------------------------------------------------------------------
(* Every variable holds a value of its kind; a hash holds no more than it  *)
(* was declared for and no count beyond the rate where the socket is       *)
(* locked, and a decoder between two fields has written one value for each *)
(* field before.                                                           *)
TypeOK ==
    /\ status \in {"start", "run", "exit"}
    /\ Tracepoints \in Seq(TracepointConf) /\ index \in 1..(Len(Tracepoints) + 1)
    /\ open \in [Socks -> Versions \cup {0}]
    /\ pc \in [CPUs -> {"idle", "compare", "increment", "delete", "submit"}]
    /\ \A p \in CPUs : IF pc[p] = "idle" THEN job[p] = NoJob
                       ELSE job[p] \in (DOMAIN Tracepoints) \X Socks
    /\ stale \subseteq CPUs
    /\ hash \in [Keys -> {Absent} \cup Nat]
    /\ \A v \in Versions :
         Cardinality({s \in Socks : hash[<<v, s>>] # Absent}) <= HashSize
    /\ \A i \in DOMAIN Tracepoints : \A v \in SampledVersions(i), s \in Socks :
         Loaded /\ Locked(i) => hash[<<v, s>>] <= Tracepoints[i].Sample
    /\ events \in [Keys -> 0..MaxEvents[request]] /\ reports \in [Keys -> Nat]
    /\ raised \in 0..MaxEvents[request]
    /\ rec # Nothing => rec[2] \in DOMAIN Tracepoints /\ rec[1] \in Blocks(rec[2])
    /\ c \in Nat /\ crashed \in BOOLEAN
    /\ next # 0 => rec # Nothing /\ Len(out) = next - 1

(* What BPF.Start asks the loaded program for: a function, and a table for *)
(* each version of the configuration.                                      *)
NamesLoaded(i) ==
    {<<"sk_trace", i>>} \cup {<<"ipv", v, "_events", i>> : v \in Tracepoints[i].INet}

(* The generator and the loader build names apart from each other, out of  *)
(* the versions of a configuration.  After validate, what Start asks for   *)
(* is in the program if and only if there are fields to report; and the    *)
(* file declares nothing twice if and only if no two sampled tracepoints   *)
(* share a version and no list names the task twice.                       *)
ProgramLoads ==
    index > Len(Tracepoints) =>
        /\ \A i \in DOMAIN Tracepoints :
             (NamesLoaded(i) \subseteq declared) <=> (Tracepoints[i].Fields # <<>>)
        /\ (twice = {}) <=>
             /\ \A i, j \in DOMAIN Tracepoints :
                  i # j => SampledVersions(i) \cap SampledVersions(j) = {}
             /\ \A i \in DOMAIN Tracepoints : \A k, l \in DOMAIN Tracepoints[i].Fields :
                  Tracepoints[i].Fields[k] = "Task" /\ Tracepoints[i].Fields[l] = "Task" => k = l

(* Where the socket is locked sampling holds back what it says, although   *)
(* lookup, comparison, deletion and submission are steps of their own: at  *)
(* any time, of the events of an address at most one in Sample + 1 was     *)
(* submitted, through other CPUs' handlers, closes, reuse of the address   *)
(* and a hash that is full.  (For the two tracepoints that come without    *)
(* the lock there is no such bound.)                                       *)
AtMostOneIn ==
    \A i \in DOMAIN Tracepoints : \A v \in SampledVersions(i), s \in Socks :
        Locked(i) =>
          reports[<<v, s>>] * (Tracepoints[i].Sample + 1) <= events[<<v, s>>]

(* However fields of different sizes follow each other, the decoder's      *)
(* offset agrees with the compiler's layout and its byte order with the    *)
(* kernel's: each value it writes is the one of its own field, and no      *)
(* slice reaches beyond what the kernel submitted, which would be a panic. *)
(* (LPort is read in the wrong order.)                                     *)
ValuesRead ==
    /\ ~crashed
    /\ next # 0 => \A i \in DOMAIN out :
                      i \in DOMAIN fields /\ fields[i] # "LPort" =>
                          out[i] = Value(rec[1], fields, i)

(* The writer of a record and its readers agree on where a value is: a     *)
(* line has every value in its own cell and its timestamp, and StructPB    *)
(* reads the same values without their quotes and does not end the         *)
(* process.  Where the name of the task has a comma this is only so for    *)
(* the cells in front of it.                                               *)
CellsRight ==
    line # <<>> =>
        LET l == line[1]
            inFront(i) == \A j \in 1..i : fields[j] # "Task"
            cell(i) == ValueText(i, fields[i], FALSE) \o <<Comma>>
        IN /\ \A i \in DOMAIN fields : ~l.inTask \/ inFront(i) => l.csv.cells[i] = cell(i)
           /\ ~l.inTask => /\ l.csv.time = Timestamp
                           /\ l.spb = <<[values |-> [i \in DOMAIN fields |->
                                                       <<Symbol("value", i)>>],
                                         time |-> Timestamp]>>
=============================================================================
