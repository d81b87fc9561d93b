--------------------------- MODULE Program_proofs ---------------------------
(***************************************************************************)
(* Theorems about the generated program, the decoder of what it submits    *)
(* and the readers of the text the decoder writes, for every set of        *)
(* requests and sockets and every size of the hash.                        *)
(*                                                                         *)
(* Sampling never submits more than one in Sample + 1 events of a socket   *)
(* whose lock the kernel holds while it raises them.  A handler looks up,  *)
(* counts, submits and deletes in steps of its own, and every CPU runs one:*)
(* under the lock at most one of them is at a socket.  A hash is shared by *)
(* all versions' handlers that name it, so that the argument also needs    *)
(* what the compiler makes sure of: in a program that loads, at most one   *)
(* tracepoint uses the hash of a version.                                  *)
(*                                                                         *)
(* The layout of a struct, the text of a record and the cells that are cut *)
(* out of it are recursive functions.  That they are defined, and what     *)
(* they are at each field, is shown by induction over the fields: a set of *)
(* numbers that has 0, and n + 1 with n, has all numbers (Upwards).        *)
(***************************************************************************)
EXTENDS Program, SequenceTheorems, FiniteSetTheorems, WellFoundedInduction, TLAPS

(* The count of a key, 0 without an entry.                                 *)
Count(k) == IF hash[k] = Absent THEN 0 ELSE hash[k]

(* The counters hold numbers.                                              *)
Counters ==
    /\ hash \in [Keys -> {Absent} \cup Nat]
    /\ events \in [Keys -> Nat] /\ reports \in [Keys -> Nat]

(* A hash of the code generated so far has one user, unless the file does  *)
(* not compile.                                                            *)
OneUser ==
    /\ Tracepoints \in Seq(TracepointConf) /\ index \in Nat \ {0}
    /\ request \in Requests /\ (status = "start" => index = 1)
    /\ \A j \in DOMAIN Tracepoints : j < index =>
         \A v \in SampledVersions(j) : <<"ipv", v, "_sample">> \in declared
    /\ twice = {} =>
         \A j, k \in DOMAIN Tracepoints : j < index /\ k < index /\ j # k =>
             SampledVersions(j) \cap SampledVersions(k) = {}

(* Nothing is counted before the program is loaded.                        *)
QuietBefore ==
    Loaded \/ /\ \A k \in Keys : events[k] = 0 /\ reports[k] = 0 /\ hash[k] = Absent
              /\ \A p \in CPUs : pc[p] = "idle"

Steps == {"idle", "compare", "increment", "delete", "submit"}

WithLock(p) == Locked(job[p][1])

(* A handler is at an open socket of its tracepoint, and where the socket  *)
(* is locked there is no other with the lock at it.                        *)
HandlersInv ==
    /\ pc \in [CPUs -> Steps] /\ job = [p \in CPUs |-> job[p]]
    /\ \A p \in stale : p \in CPUs /\ pc[p] = "compare"
    /\ \A p \in CPUs : pc[p] = "idle" => job[p] = NoJob
    /\ \A p \in CPUs : pc[p] # "idle" =>
         \E i \in DOMAIN Tracepoints, s \in Socks :
            /\ job[p] = <<i, s>> /\ open[s] \in Blocks(i)
            /\ pc[p] # "submit" => Tracepoints[i].Sample # 0
    /\ \A p, q \in CPUs : pc[p] # "idle" /\ pc[q] # "idle" /\ p # q =>
         \/ job[p][2] # job[q][2]
         \/ ~WithLock(p) \/ ~WithLock(q)

(* Events that the reports of a key stand for.                             *)
Paid(i, k) == reports[k] * (Tracepoints[i].Sample + 1)

(* What a handler has found out stays so until its next step: its event is *)
(* not in a report's share nor in the count before it is left out or       *)
(* submitted, and then the count was spent with it.                        *)
Holds(step, rate, paid, count, came) ==
    /\ step \in {"compare", "increment", "delete"} => paid + count + 1 <= came
    /\ step = "increment" => count < rate
    /\ step = "delete" => count >= rate
    /\ step = "submit" => paid + rate + 1 <= came /\ count = 0

(* Every event of a key is in a report's share, in the count or with the   *)
(* handler that is at it: what an entry stands for is never spent twice.   *)
KeySpent(i, v, s) ==
    LET k == <<v, s>>
    IN /\ Count(k) <= Tracepoints[i].Sample /\ Paid(i, k) + Count(k) <= events[k]
       /\ \A p \in CPUs : job[p] = <<i, s>> /\ open[s] = v =>
            /\ Holds(pc[p], Tracepoints[i].Sample, Paid(i, k), Count(k), events[k])
            /\ pc[p] = "compare" => p \notin stale /\ hash[k] # Absent

Spent ==
    \A i \in DOMAIN Tracepoints : \A v \in SampledVersions(i), s \in Socks :
        Locked(i) => KeySpent(i, v, s)

SampleInv == Counters /\ OneUser /\ QuietBefore /\ HandlersInv /\ Spent

(* What a tracepoint is.                                                   *)
LEMMA TracepointType ==
    ASSUME Tracepoints \in Seq(TracepointConf), NEW i \in DOMAIN Tracepoints
    PROVE  /\ i \in Nat /\ i <= Len(Tracepoints)
           /\ Tracepoints[i].INet \subseteq Versions /\ Tracepoints[i].INet # {}
           /\ Tracepoints[i].Sample \in Nat
           /\ Tracepoints[i].Fields \in Seq(DOMAIN fieldsModel4)
           /\ Blocks(i) = IF Tracepoints[i].Fields = <<>> THEN {} ELSE Tracepoints[i].INet
           /\ SampledVersions(i) \subseteq Versions
<1>2. i \in 1..Len(Tracepoints) /\ Tracepoints[i] \in TracepointConf
  OBVIOUS
<1>3. /\ Tracepoints[i].INet \subseteq Versions /\ Tracepoints[i].INet # {}
      /\ Tracepoints[i].Sample \in Nat /\ Tracepoints[i].Fields \in Seq(DOMAIN fieldsModel4)
  BY <1>2 DEF TracepointConf
<1>4. Blocks(i) = IF Tracepoints[i].Fields = <<>> THEN {} ELSE Tracepoints[i].INet
  BY <1>3 DEF Blocks, Versions
<1> QED
  BY <1>2, <1>3, <1>4 DEF SampledVersions

(* At first nothing is generated, and nothing is counted.                  *)
LEMMA SampleInit == Init => SampleInv
<1> SUFFICES ASSUME Init PROVE SampleInv
  OBVIOUS
<1>1. Counters
  BY DEF Init, Counters, Absent
<1>2. OneUser
  <2>1. Tracepoints = <<>> /\ index = 1 /\ DOMAIN Tracepoints = {} /\ request \in Requests
    BY DEF Init
  <2>2. Tracepoints \in Seq(TracepointConf)
    BY <2>1
  <2> QED
    BY <2>1, <2>2 DEF OneUser
<1>3. QuietBefore
  BY DEF Init, QuietBefore
<1>4. HandlersInv
  BY DEF Init, HandlersInv, Steps
<1>5. Spent
  <2> SUFFICES ASSUME NEW i \in DOMAIN Tracepoints PROVE FALSE
    BY DEF Spent
  <2> QED
    BY DEF Init
<1> QED
  BY <1>1, <1>2, <1>3, <1>4, <1>5 DEF SampleInv

-----------------------------------------------------------------------------
(* A step that leaves the code alone leaves its users alone.               *)
LEMMA UserKept ==
    ASSUME OneUser, UNCHANGED codeVars
    PROVE  OneUser' /\ (Loaded' <=> Loaded)
<1>1. UNCHANGED <<request, status, Tracepoints, index, declared, twice>>
  BY DEF codeVars
<1>2. \A i : SampledVersions(i)' = SampledVersions(i)
  BY <1>1 DEF SampledVersions, Blocks
<1> QED
  BY <1>1, <1>2 DEF OneUser, Loaded

(* In a program that loads, a version's hash has one user.                 *)
LEMMA UserOfHash ==
    ASSUME OneUser, Loaded, NEW i \in DOMAIN Tracepoints, NEW j \in DOMAIN Tracepoints,
           NEW v, v \in SampledVersions(i), v \in SampledVersions(j)
    PROVE  i = j
<1>1. index > Len(Tracepoints) /\ twice = {} /\ index \in Nat /\ Len(Tracepoints) \in Nat
  BY DEF OneUser, Loaded
<1>2. i \in Nat /\ i <= Len(Tracepoints) /\ j \in Nat /\ j <= Len(Tracepoints)
  BY TracepointType DEF OneUser
<1> QED
  BY <1>1, <1>2 DEF OneUser

(* What a handler that is not idle is at.                                  *)
LEMMA JobFacts ==
    ASSUME SampleInv, NEW p \in CPUs, pc[p] # "idle"
    PROVE  \E i \in DOMAIN Tracepoints, s \in Socks :
             /\ job[p] = <<i, s>> /\ open[s] \in Blocks(i) /\ Loaded
             /\ open[s] \in Versions /\ Key(s) \in Keys /\ Key(s) = <<open[s], s>>
             /\ JobKey(p) = Key(s) /\ Rate(p) = Tracepoints[i].Sample
             /\ Tracepoints[i].Sample \in Nat
             /\ Tracepoints[i].Sample # 0 => open[s] \in SampledVersions(i)
             /\ pc[p] # "submit" => Tracepoints[i].Sample # 0
<1>1. PICK i \in DOMAIN Tracepoints, s \in Socks :
        /\ job[p] = <<i, s>> /\ open[s] \in Blocks(i)
        /\ pc[p] # "submit" => Tracepoints[i].Sample # 0
  BY DEF SampleInv, HandlersInv
<1>2. job[p][1] = i /\ job[p][2] = s
  BY <1>1
<1>3. Loaded
  BY DEF SampleInv, QuietBefore
<1>4. open[s] \in Versions /\ Tracepoints[i].Sample \in Nat
  BY <1>1, TracepointType DEF SampleInv, OneUser
<1>5. Key(s) \in Keys /\ Key(s) = <<open[s], s>>
  BY <1>4 DEF Key, Keys
<1>6. JobKey(p) = Key(s) /\ Rate(p) = Tracepoints[i].Sample
  BY <1>2 DEF JobKey, Rate
<1>7. Tracepoints[i].Sample # 0 => open[s] \in SampledVersions(i)
  BY <1>1 DEF SampledVersions
<1> QED
  BY <1>1, <1>3, <1>4, <1>5, <1>6, <1>7

(* A handler begins where no other has the lock.                           *)
LEMMA HandlersBegin ==
    ASSUME SampleInv, NEW p \in CPUs, NEW i \in DOMAIN Tracepoints, NEW s \in Socks,
           Event(p, i, s), NEW step \in Steps \ {"idle"}, pc' = [pc EXCEPT ![p] = step],
           step # "submit" => Tracepoints[i].Sample # 0
    PROVE  HandlersInv'
<1>1. /\ UNCHANGED <<Tracepoints, open, stale>> /\ job' = [job EXCEPT ![p] = <<i, s>>]
      /\ pc[p] = "idle" /\ open[s] \in Blocks(i)
      /\ Locked(i) => \A q \in HandlersAt(s) : ~Locked(job[q][1])
  BY DEF Event, codeVars
<1>2. /\ pc'[p] = step /\ job'[p] = <<i, s>> /\ pc' \in [CPUs -> Steps]
      /\ job' = [q \in CPUs |-> job'[q]]
      /\ \A q \in CPUs : q # p => pc'[q] = pc[q] /\ job'[q] = job[q]
  BY <1>1 DEF SampleInv, HandlersInv
<1>3. \A j : Blocks(j)' = Blocks(j) /\ Locked(j)' = Locked(j)
  BY <1>1 DEF Blocks, Locked
<1>4. ASSUME NEW q \in CPUs, pc'[q] # "idle"
      PROVE  \E j \in DOMAIN Tracepoints, t \in Socks :
               /\ job'[q] = <<j, t>> /\ open[t] \in Blocks(j)
               /\ pc'[q] # "submit" => Tracepoints[j].Sample # 0
  <2>1. CASE q = p
    BY <1>1, <1>2, <2>1
  <2>2. CASE q # p
    BY <1>2, <1>4, <2>2 DEF SampleInv, HandlersInv
  <2> QED
    BY <2>1, <2>2
<1>5. ASSUME NEW q \in CPUs, q # p, pc[q] # "idle"
      PROVE  job[q][2] # s \/ ~Locked(i) \/ ~Locked(job[q][1])
  BY <1>1, <1>5 DEF HandlersAt
<1>6. ASSUME NEW q \in CPUs, NEW r \in CPUs, pc'[q] # "idle", pc'[r] # "idle", q # r
      PROVE  job'[q][2] # job'[r][2] \/ ~WithLock(q)' \/ ~WithLock(r)'
  <2>1. job'[p][1] = i /\ job'[p][2] = s
    BY <1>2
  <2>5. /\ WithLock(p)' <=> Locked(i)
        /\ \A o \in CPUs : o # p => (WithLock(o)' <=> Locked(job[o][1]))
    BY <1>2, <1>3, <2>1 DEF WithLock
  <2>2. CASE q = p
    BY <1>2, <1>5, <1>6, <2>1, <2>2, <2>5
  <2>3. CASE r = p
    BY <1>2, <1>5, <1>6, <2>1, <2>3, <2>5
  <2>4. CASE q # p /\ r # p
    BY <1>2, <1>6, <2>4, <2>5 DEF SampleInv, HandlersInv, WithLock
  <2> QED
    BY <2>2, <2>3, <2>4
<1>7. \A q \in CPUs : pc'[q] = "idle" => job'[q] = NoJob
  BY <1>2 DEF SampleInv, HandlersInv
<1>9. \A q \in stale' : q \in CPUs /\ pc'[q] = "compare"
  BY <1>1, <1>2 DEF SampleInv, HandlersInv
<1> QED
  BY <1>1, <1>2, <1>3, <1>4, <1>6, <1>7, <1>9 DEF HandlersInv

(* A handler goes on where it is, or is done.                              *)
LEMMA HandlersGo ==
    ASSUME SampleInv, NEW p \in CPUs, pc[p] # "idle", NEW step \in Steps, GoesTo(p, step),
           pc[p] = "submit" => step = "idle",
           \A q \in stale' : q \in CPUs /\ pc'[q] = "compare"
    PROVE  HandlersInv'
<1>1. /\ UNCHANGED <<Tracepoints, open>> /\ pc' = [pc EXCEPT ![p] = step]
      /\ job' = IF step = "idle" THEN [job EXCEPT ![p] = NoJob] ELSE job
  BY DEF GoesTo, codeVars
<1>2. /\ pc'[p] = step /\ pc' \in [CPUs -> Steps] /\ job' = [q \in CPUs |-> job'[q]]
      /\ job'[p] = IF step = "idle" THEN NoJob ELSE job[p]
      /\ \A q \in CPUs : q # p => pc'[q] = pc[q] /\ job'[q] = job[q]
  BY <1>1 DEF SampleInv, HandlersInv
<1>3. \A j : Blocks(j)' = Blocks(j) /\ Locked(j)' = Locked(j)
  BY <1>1 DEF Blocks, Locked
<1>4. \A q \in CPUs : pc'[q] # "idle" =>
        /\ pc[q] # "idle" /\ job'[q] = job[q]
        /\ pc[q] = "submit" => pc'[q] = "submit"
  BY <1>2
<1>5. ASSUME NEW q \in CPUs, pc'[q] # "idle"
      PROVE  \E j \in DOMAIN Tracepoints, t \in Socks :
               /\ job'[q] = <<j, t>> /\ open[t] \in Blocks(j)
               /\ pc'[q] # "submit" => Tracepoints[j].Sample # 0
  BY <1>4, <1>5 DEF SampleInv, HandlersInv
<1>6. \A q, r \in CPUs : pc'[q] # "idle" /\ pc'[r] # "idle" /\ q # r =>
         job'[q][2] # job'[r][2] \/ ~WithLock(q)' \/ ~WithLock(r)'
  BY <1>3, <1>4 DEF SampleInv, HandlersInv, WithLock
<1>7. \A q \in CPUs : pc'[q] = "idle" => job'[q] = NoJob
  BY <1>2 DEF SampleInv, HandlersInv
<1> QED
  BY <1>1, <1>2, <1>3, <1>5, <1>6, <1>7 DEF HandlersInv

(* A step of one handler changes one key, which is of one tracepoint only, *)
(* and where the socket is locked it is the only handler at it.            *)
LEMMA OthersSpent ==
    ASSUME SampleInv, NEW p \in CPUs, NEW i \in DOMAIN Tracepoints, NEW s \in Socks, Loaded,
           open[s] \in SampledVersions(i), UNCHANGED <<codeVars, open>>,
           Counters', HandlersInv', job[p] = <<i, s>> \/ job'[p] = <<i, s>>,
           pc'[p] # "idle" => job'[p] = <<i, s>>,
           pc[p] # "idle" => job[p] = <<i, s>>,
           \A q \in CPUs : q # p =>
              /\ pc'[q] = pc[q] /\ job'[q] = job[q]
              /\ q \in stale' => q \in stale \/ job[q] = <<i, s>>,
           \A k \in Keys : k # Key(s) => /\ hash'[k] = hash[k] /\ events'[k] = events[k]
                                         /\ reports'[k] = reports[k],
           Locked(i) =>
              /\ Count(Key(s))' <= Tracepoints[i].Sample
              /\ Paid(i, Key(s))' + Count(Key(s))' <= events'[Key(s)]
              /\ Holds(pc'[p], Tracepoints[i].Sample, Paid(i, Key(s))', Count(Key(s))',
                       events'[Key(s)])
              /\ pc'[p] = "compare" => p \notin stale' /\ hash'[Key(s)] # Absent
    PROVE  SampleInv'
<1>1. OneUser' /\ QuietBefore'
  BY UserKept DEF SampleInv, QuietBefore
<1>2. /\ UNCHANGED <<Tracepoints, open>> /\ Key(s)' = Key(s) /\ Key(s) = <<open[s], s>>
      /\ \A j : Locked(j)' = Locked(j) /\ SampledVersions(j)' = SampledVersions(j)
  BY DEF codeVars, Locked, SampledVersions, Blocks, Key
<1>3. ASSUME NEW j \in DOMAIN Tracepoints, NEW v \in SampledVersions(j), NEW t \in Socks,
             Locked(j), <<v, t>> # Key(s)
      PROVE  KeySpent(j, v, t)'
  <2> DEFINE k == <<v, t>>
  <2>1. k \in Keys /\ KeySpent(j, v, t)
    BY <1>3, TracepointType DEF Keys, SampleInv, OneUser, Spent
  <2>2. Count(k)' = Count(k) /\ Paid(j, k)' = Paid(j, k) /\ UNCHANGED <<hash[k], events[k]>>
    BY <1>2, <1>3, <2>1 DEF Count, Paid
  <2>3. ASSUME NEW q \in CPUs, job'[q] = <<j, t>>, open[t] = v
        PROVE  /\ Holds(pc'[q], Tracepoints[j].Sample, Paid(j, k), Count(k), events[k])
               /\ pc'[q] = "compare" => q \notin stale' /\ hash[k] # Absent
    <3>1. <<j, t>> # <<i, s>>
      BY <1>2, <1>3, <2>3
    <3>2. q # p
      <4>1. ASSUME q = p PROVE pc'[p] = "idle"
        BY <2>3, <3>1, <4>1
      <4>2. ASSUME pc'[p] = "idle" PROVE job'[p] = <<>>
        BY <4>2 DEF HandlersInv, NoJob
      <4>3. <<j, t>> # <<>>
        OBVIOUS
      <4> QED
        BY <2>3, <4>1, <4>2, <4>3
    <3> QED
      BY <2>1, <2>3, <3>1, <3>2 DEF KeySpent
  <2> HIDE DEF k
  <2> QED
    BY <1>2, <2>1, <2>2, <2>3 DEF KeySpent, k
<1>4. ASSUME NEW j \in DOMAIN Tracepoints, NEW v \in SampledVersions(j), NEW t \in Socks,
             Locked(j), <<v, t>> = Key(s)
      PROVE  KeySpent(j, v, t)'
  <2>1. v = open[s] /\ t = s /\ j = i
    BY <1>2, <1>4, UserOfHash DEF SampleInv
  <2>2. ASSUME NEW q \in CPUs, job'[q] = <<i, s>> PROVE q = p
    <3> SUFFICES ASSUME q # p PROVE FALSE
      OBVIOUS
    <3>1. job[q] = <<i, s>> /\ pc'[q] = pc[q]
      BY <2>2
    <3>2. <<i, s>> # <<>>
      OBVIOUS
    <3>3. pc[q] # "idle" /\ pc'[q] # "idle"
      BY <3>1, <3>2 DEF SampleInv, HandlersInv, NoJob
    <3>4. job[q][1] = i /\ job[q][2] = s /\ job'[q][1] = i /\ job'[q][2] = s /\ Locked(i)
      BY <1>4, <2>1, <2>2, <3>1
    <3>5. CASE job[p] = <<i, s>>
      <4>1. pc[p] # "idle" /\ job[p][1] = i /\ job[p][2] = s
        BY <3>2, <3>5 DEF SampleInv, HandlersInv, NoJob
      <4> QED
        BY <2>2, <3>3, <3>4, <4>1 DEF SampleInv, HandlersInv, WithLock
    <3>6. CASE job'[p] = <<i, s>>
      <4>1. pc'[p] # "idle" /\ job'[p][1] = i /\ job'[p][2] = s
        BY <3>2, <3>6 DEF HandlersInv, NoJob
      <4> QED
        BY <1>2, <2>2, <3>3, <3>4, <4>1 DEF HandlersInv, WithLock
    <3> QED
      BY <3>5, <3>6
  <2> QED
    BY <1>2, <1>4, <2>1, <2>2 DEF KeySpent
<1>5. Spent'
  BY <1>2, <1>3, <1>4 DEF Spent
<1> QED
  BY <1>1, <1>5 DEF SampleInv

(* A step that goes on to another one.                                     *)
LEMMA GoFacts ==
    ASSUME SampleInv, NEW p \in CPUs, pc[p] # "idle", NEW step \in Steps, GoesTo(p, step)
    PROVE  /\ UNCHANGED <<codeVars, open, raised, events, decodeVars>>
           /\ pc'[p] = step /\ (step # "idle" => job'[p] = job[p])
           /\ \A q \in CPUs : q # p => pc'[q] = pc[q] /\ job'[q] = job[q]
BY DEF GoesTo, SampleInv, HandlersInv

(* An event that comes to the sampling and its socket.                     *)
LEMMA EventFacts ==
    ASSUME SampleInv, NEW p \in CPUs, NEW i \in DOMAIN Tracepoints, NEW s \in Socks,
           ToSample(p, i, s)
    PROVE  /\ Loaded /\ open[s] \in SampledVersions(i) /\ open[s] \in Versions
           /\ Key(s) \in Keys /\ Key(s) = <<open[s], s>>
           /\ UNCHANGED <<codeVars, open, stale, reports, rec>>
           /\ pc[p] = "idle" /\ p \notin stale /\ job'[p] = <<i, s>>
           /\ \A q \in CPUs : q # p => job'[q] = job[q]
           /\ events' = [events EXCEPT ![Key(s)] = @ + 1] /\ events' \in [Keys -> Nat]
           /\ events[Key(s)] \in Nat /\ events'[Key(s)] = events[Key(s)] + 1
           /\ Tracepoints[i].Sample \in Nat \ {0}
           /\ Count(Key(s)) \in Nat /\ Paid(i, Key(s)) \in Nat
<1>1. /\ Loaded /\ open[s] \in SampledVersions(i)
      /\ UNCHANGED <<codeVars, open, stale, reports, rec>> /\ pc[p] = "idle"
      /\ job' = [job EXCEPT ![p] = <<i, s>>]
      /\ events' = [events EXCEPT ![Key(s)] = @ + 1] /\ Tracepoints[i].Sample # 0
  BY DEF ToSample, Event, SampledVersions
<1>2. open[s] \in Versions /\ Tracepoints[i].Sample \in Nat
  BY <1>1, TracepointType DEF SampleInv, OneUser
<1>3. Key(s) \in Keys /\ Key(s) = <<open[s], s>>
  BY <1>2 DEF Key, Keys
<1>4. p \notin stale /\ job'[p] = <<i, s>> /\ \A q \in CPUs : q # p => job'[q] = job[q]
  BY <1>1 DEF SampleInv, HandlersInv
<1>5. /\ events[Key(s)] \in Nat /\ events'[Key(s)] = events[Key(s)] + 1
      /\ events' \in [Keys -> Nat] /\ reports[Key(s)] \in Nat /\ Count(Key(s)) \in Nat
  BY <1>1, <1>3 DEF SampleInv, Counters, Count, Absent
<1>6. Paid(i, Key(s)) \in Nat
  <2> DEFINE r == reports[Key(s)]
             S == Tracepoints[i].Sample
  <2> HIDE DEF r, S
  <2>1. r \in Nat /\ S \in Nat
    BY <1>2, <1>5 DEF r, S
  <2>2. r * (S + 1) \in Nat
    BY <2>1
  <2> QED
    BY <2>2 DEF Paid, r, S
<1> QED
  BY <1>1, <1>2, <1>3, <1>4, <1>5, <1>6

(* The handler that finds its count has a new event that nothing was made  *)
(* of yet.                                                                 *)
LEMMA LookUpSpent ==
    ASSUME SampleInv, NEW p \in CPUs, NEW i \in DOMAIN Tracepoints, NEW s \in Socks,
           LookUp(p, i, s)
    PROVE  SampleInv'
<1> DEFINE k == Key(s)
           S == Tracepoints[i].Sample
<1>0. /\ ToSample(p, i, s) /\ Event(p, i, s) /\ pc' = [pc EXCEPT ![p] = "compare"]
      /\ hash' = [hash EXCEPT ![k] = IF HasEntry(k) THEN @ ELSE 0]
  BY DEF LookUp, ToSample
<1>1. /\ Loaded /\ open[s] \in SampledVersions(i) /\ open[s] \in Versions
      /\ k \in Keys /\ k = <<open[s], s>>
      /\ UNCHANGED <<codeVars, open, stale, reports, rec>>
      /\ pc[p] = "idle" /\ p \notin stale /\ job'[p] = <<i, s>>
      /\ \A q \in CPUs : q # p => job'[q] = job[q]
      /\ events' = [events EXCEPT ![k] = @ + 1] /\ events' \in [Keys -> Nat]
      /\ events[k] \in Nat /\ events'[k] = events[k] + 1
      /\ S \in Nat \ {0} /\ Count(k) \in Nat /\ Paid(i, k) \in Nat
  BY <1>0, EventFacts
<1>2. HandlersInv'
  BY <1>0, <1>1, HandlersBegin DEF Steps
<1>3. /\ hash' \in [Keys -> {Absent} \cup Nat]
      /\ hash'[k] = Count(k) /\ hash'[k] # Absent
      /\ \A o \in Keys : o # k => hash'[o] = hash[o] /\ events'[o] = events[o]
  BY <1>0, <1>1 DEF SampleInv, Counters, HasEntry, Count, Absent
<1>4. Counters'
  BY <1>1, <1>3 DEF SampleInv, Counters
<1>5. /\ k' = k /\ Count(k)' = Count(k) /\ Paid(i, k)' = Paid(i, k)
  BY <1>1, <1>3 DEF Key, Count, Paid, codeVars
<1>6. pc'[p] = "compare" /\ \A q \in CPUs : q # p => pc'[q] = pc[q]
  BY <1>0 DEF SampleInv, HandlersInv
<1>7. Locked(i) => Count(k) <= S /\ Paid(i, k) + Count(k) <= events[k]
  BY <1>1 DEF SampleInv, Spent, KeySpent
<1> HIDE DEF S, k
<1>8. Locked(i) =>
        /\ Count(k)' <= S /\ Paid(i, k)' + Count(k)' <= events'[k]
        /\ Holds(pc'[p], S, Paid(i, k)', Count(k)', events'[k])
  BY <1>1, <1>5, <1>6, <1>7 DEF Holds
<1> QED
  BY <1>1, <1>2, <1>3, <1>4, <1>6, <1>8, OthersSpent DEF k, S

(* The handler that finds no count has a new event to leave out.           *)
LEMMA FullSpent ==
    ASSUME SampleInv, NEW p \in CPUs, NEW i \in DOMAIN Tracepoints, NEW s \in Socks,
           Full(p, i, s)
    PROVE  SampleInv'
<1> DEFINE k == Key(s)
           S == Tracepoints[i].Sample
<1>0. /\ ToSample(p, i, s) /\ Event(p, i, s) /\ pc' = [pc EXCEPT ![p] = "increment"]
      /\ hash' = hash /\ ~HasEntry(k)
  BY DEF Full, ToSample
<1>1. /\ Loaded /\ open[s] \in SampledVersions(i) /\ open[s] \in Versions
      /\ k \in Keys /\ k = <<open[s], s>>
      /\ UNCHANGED <<codeVars, open, stale, reports, rec>>
      /\ pc[p] = "idle" /\ p \notin stale /\ job'[p] = <<i, s>>
      /\ \A q \in CPUs : q # p => job'[q] = job[q]
      /\ events' = [events EXCEPT ![k] = @ + 1] /\ events' \in [Keys -> Nat]
      /\ events[k] \in Nat /\ events'[k] = events[k] + 1
      /\ S \in Nat \ {0} /\ Count(k) \in Nat /\ Paid(i, k) \in Nat
  BY <1>0, EventFacts
<1>2. HandlersInv'
  BY <1>0, <1>1, HandlersBegin DEF Steps
<1>3. \A o \in Keys : o # k => hash'[o] = hash[o] /\ events'[o] = events[o]
  BY <1>0, <1>1 DEF SampleInv, Counters
<1>4. Counters'
  BY <1>0, <1>1 DEF SampleInv, Counters
<1>5. /\ k' = k /\ Count(k)' = Count(k) /\ Paid(i, k)' = Paid(i, k) /\ Count(k) = 0
  BY <1>0, <1>1 DEF Key, Count, Paid, codeVars, HasEntry
<1>6. pc'[p] = "increment" /\ \A q \in CPUs : q # p => pc'[q] = pc[q]
  BY <1>0 DEF SampleInv, HandlersInv
<1>7. Locked(i) => Count(k) <= S /\ Paid(i, k) + Count(k) <= events[k]
  BY <1>1 DEF SampleInv, Spent, KeySpent
<1> HIDE DEF S, k
<1>8. Locked(i) =>
        /\ Count(k)' <= S /\ Paid(i, k)' + Count(k)' <= events'[k]
        /\ Holds(pc'[p], S, Paid(i, k)', Count(k)', events'[k])
  BY <1>1, <1>5, <1>6, <1>7 DEF Holds
<1> QED
  BY <1>1, <1>2, <1>3, <1>4, <1>6, <1>8, OthersSpent DEF k, S

(* What is known where a handler of a sampled tracepoint goes on.          *)
LEMMA KeyFacts ==
    ASSUME SampleInv, NEW i \in DOMAIN Tracepoints, NEW s \in Socks, Key(s) \in Keys
    PROVE  /\ Tracepoints[i].Sample \in Nat /\ hash[Key(s)] \in {Absent} \cup Nat
           /\ Count(Key(s)) \in Nat /\ Paid(i, Key(s)) \in Nat
           /\ events[Key(s)] \in Nat /\ reports[Key(s)] \in Nat
<1>1. /\ reports[Key(s)] \in Nat /\ Count(Key(s)) \in Nat /\ events[Key(s)] \in Nat
      /\ hash[Key(s)] \in {Absent} \cup Nat
  BY DEF SampleInv, Counters, Count, Absent
<1>2. Tracepoints[i].Sample \in Nat
  BY TracepointType DEF SampleInv, OneUser
<1> DEFINE r == reports[Key(s)]
           S == Tracepoints[i].Sample
<1> HIDE DEF r, S
<1>3. r \in Nat /\ S \in Nat
  BY <1>1, <1>2 DEF r, S
<1>4. r * (S + 1) \in Nat
  BY <1>3
<1> QED
  BY <1>1, <1>2, <1>4 DEF Paid, r, S

(* A comparison only decides where the handler goes on.                    *)
LEMMA ComparedSpent ==
    ASSUME SampleInv, NEW p \in CPUs, NEW i \in DOMAIN Tracepoints, NEW s \in Socks,
           pc[p] = "compare", job[p] = <<i, s>>, Loaded,
           open[s] \in SampledVersions(i), Key(s) \in Keys, Key(s) = <<open[s], s>>,
           NEW step \in {"increment", "delete"}, GoesTo(p, step),
           stale' = stale \ {p}, UNCHANGED <<hash, reports>>,
           p \notin stale => IF step = "increment" THEN hash[Key(s)] < Tracepoints[i].Sample
                                                   ELSE hash[Key(s)] >= Tracepoints[i].Sample
    PROVE  SampleInv'
<1> DEFINE k == Key(s)
           S == Tracepoints[i].Sample
<1>1. /\ UNCHANGED <<codeVars, open, raised, events, decodeVars>>
      /\ pc'[p] = step /\ job'[p] = job[p]
      /\ \A q \in CPUs : q # p => pc'[q] = pc[q] /\ job'[q] = job[q]
  BY GoFacts DEF Steps
<1>2. \A q \in stale' : q \in CPUs /\ pc'[q] = "compare"
  BY <1>1 DEF SampleInv, HandlersInv
<1>3. HandlersInv'
  BY <1>2, HandlersGo DEF Steps
<1>4. Counters'
  BY <1>1 DEF SampleInv, Counters
<1>5. /\ S \in Nat /\ hash[k] \in {Absent} \cup Nat
      /\ Count(k) \in Nat /\ Paid(i, k) \in Nat /\ events[k] \in Nat
  BY KeyFacts
<1>6. /\ k' = k /\ Count(k)' = Count(k) /\ Paid(i, k)' = Paid(i, k)
  BY <1>1 DEF Key, Count, Paid, codeVars
<1>7. Locked(i) => /\ Count(k) <= S /\ Paid(i, k) + Count(k) <= events[k]
                   /\ Holds("compare", S, Paid(i, k), Count(k), events[k])
                   /\ p \notin stale /\ hash[k] # Absent
  BY DEF SampleInv, Spent, KeySpent
<1>8. Locked(i) => IF step = "increment" THEN Count(k) < S ELSE Count(k) >= S
  BY <1>7 DEF Count
<1> HIDE DEF S, k
<1>9. Locked(i) =>
        /\ Count(k)' <= S /\ Paid(i, k)' + Count(k)' <= events'[k]
        /\ Holds(step, S, Paid(i, k)', Count(k)', events'[k])
  BY <1>1, <1>5, <1>6, <1>7, <1>8 DEF Holds
<1> QED
  BY <1>1, <1>3, <1>4, <1>9, OthersSpent DEF k, S

(* An event that is left out is counted, at most.                          *)
LEMMA IncrementSpent ==
    ASSUME SampleInv, NEW p \in CPUs, Increment(p)
    PROVE  SampleInv'
<1>0. pc[p] = "increment" /\ GoesTo(p, "idle") /\ UNCHANGED <<stale, reports, rec>>
  BY DEF Increment, At
<1>1. PICK i \in DOMAIN Tracepoints, s \in Socks :
        /\ job[p] = <<i, s>> /\ Loaded /\ open[s] \in SampledVersions(i)
        /\ Key(s) \in Keys /\ Key(s) = <<open[s], s>> /\ JobKey(p) = Key(s)
  BY <1>0, JobFacts
<1> DEFINE k == Key(s)
           S == Tracepoints[i].Sample
<1>2. /\ UNCHANGED <<codeVars, open, raised, events, decodeVars>> /\ pc'[p] = "idle"
      /\ \A q \in CPUs : q # p => pc'[q] = pc[q] /\ job'[q] = job[q]
  BY <1>0, GoFacts DEF Steps
<1>3. \A q \in stale' : q \in CPUs /\ pc'[q] = "compare"
  BY <1>0, <1>2 DEF SampleInv, HandlersInv
<1>4. HandlersInv'
  BY <1>0, <1>3, HandlersGo DEF Steps
<1>5. /\ S \in Nat /\ hash[k] \in {Absent} \cup Nat
      /\ Count(k) \in Nat /\ Paid(i, k) \in Nat /\ events[k] \in Nat
  BY <1>1, KeyFacts
<1>6. /\ hash' \in [Keys -> {Absent} \cup Nat]
      /\ hash'[k] \in {hash[k], Count(k) + 1}
      /\ \A o \in Keys : o # k => hash'[o] = hash[o]
  BY <1>1, <1>5 DEF Increment, SampleInv, Counters, HasEntry, Count, Absent
<1>7. Counters'
  BY <1>0, <1>2, <1>6 DEF SampleInv, Counters
<1>8. k' = k /\ Paid(i, k)' = Paid(i, k) /\ Count(k)' \in {Count(k), Count(k) + 1}
  BY <1>0, <1>2, <1>5, <1>6 DEF Key, Count, Paid, codeVars, Absent
<1>9. Locked(i) => /\ Count(k) <= S /\ Paid(i, k) + Count(k) <= events[k]
                   /\ Holds("increment", S, Paid(i, k), Count(k), events[k])
  BY <1>0, <1>1 DEF SampleInv, Spent, KeySpent
<1> HIDE DEF S, k
<1>10. Locked(i) =>
        /\ Count(k)' <= S /\ Paid(i, k)' + Count(k)' <= events'[k]
        /\ Holds("idle", S, Paid(i, k)', Count(k)', events'[k])
  BY <1>2, <1>5, <1>8, <1>9 DEF Holds
<1> QED
  BY <1>0, <1>1, <1>2, <1>4, <1>6, <1>7, <1>10, OthersSpent DEF k, S

(* The count is spent with the entry.                                      *)
LEMMA DeleteSpent ==
    ASSUME SampleInv, NEW p \in CPUs, Delete(p)
    PROVE  SampleInv'
<1>0. /\ pc[p] = "delete" /\ GoesTo(p, "submit") /\ UNCHANGED <<reports, rec>>
      /\ hash' = [hash EXCEPT ![JobKey(p)] = Absent]
      /\ stale' = stale \cup {q \in CPUs : pc[q] = "compare" /\ JobKey(q) = JobKey(p)}
  BY DEF Delete, At
<1>1. PICK i \in DOMAIN Tracepoints, s \in Socks :
        /\ job[p] = <<i, s>> /\ Loaded /\ open[s] \in SampledVersions(i)
        /\ Key(s) \in Keys /\ Key(s) = <<open[s], s>> /\ JobKey(p) = Key(s)
  BY <1>0, JobFacts
<1> DEFINE k == Key(s)
           S == Tracepoints[i].Sample
<1>2. /\ UNCHANGED <<codeVars, open, raised, events, decodeVars>>
      /\ pc'[p] = "submit" /\ job'[p] = job[p]
      /\ \A q \in CPUs : q # p => pc'[q] = pc[q] /\ job'[q] = job[q]
  BY <1>0, GoFacts DEF Steps
<1>3. \A q \in stale' : q \in CPUs /\ pc'[q] = "compare"
  BY <1>0, <1>2 DEF SampleInv, HandlersInv
<1>4. HandlersInv'
  BY <1>0, <1>3, HandlersGo DEF Steps
<1>5. ASSUME NEW q \in CPUs, pc[q] = "compare", JobKey(q) = k
      PROVE  job[q] = <<i, s>>
  <2>1. PICK j \in DOMAIN Tracepoints, t \in Socks :
          /\ job[q] = <<j, t>> /\ open[t] \in SampledVersions(j) /\ JobKey(q) = <<open[t], t>>
    BY <1>5, JobFacts
  <2>2. open[t] = open[s] /\ t = s
    BY <1>1, <1>5, <2>1
  <2> QED
    BY <1>1, <2>1, <2>2, UserOfHash DEF SampleInv
<1>6. /\ S \in Nat /\ Count(k) \in Nat /\ Paid(i, k) \in Nat /\ events[k] \in Nat
  BY <1>1, KeyFacts
<1>7. /\ hash' \in [Keys -> {Absent} \cup Nat] /\ hash'[k] = Absent
      /\ \A o \in Keys : o # k => hash'[o] = hash[o]
  BY <1>0, <1>1 DEF SampleInv, Counters
<1>8. Counters'
  BY <1>0, <1>2, <1>7 DEF SampleInv, Counters
<1>9. k' = k /\ Paid(i, k)' = Paid(i, k) /\ Count(k)' = 0
  BY <1>0, <1>2, <1>7 DEF Key, Count, Paid, codeVars
<1>10. Locked(i) => /\ Count(k) <= S /\ Paid(i, k) + Count(k) <= events[k]
                    /\ Holds("delete", S, Paid(i, k), Count(k), events[k])
  BY <1>0, <1>1 DEF SampleInv, Spent, KeySpent
<1>11. \A q \in CPUs : q # p => (q \in stale' => q \in stale \/ job[q] = <<i, s>>)
  BY <1>0, <1>1, <1>5
<1> HIDE DEF S, k
<1>12. Locked(i) =>
        /\ Count(k)' <= S /\ Paid(i, k)' + Count(k)' <= events'[k]
        /\ Holds("submit", S, Paid(i, k)', Count(k)', events'[k])
  BY <1>2, <1>6, <1>9, <1>10 DEF Holds
<1> QED
  BY <1>0, <1>1, <1>2, <1>4, <1>7, <1>8, <1>11, <1>12, OthersSpent DEF k, S

(* A report stands for its event and those that were counted.              *)
LEMMA SubmitSpent ==
    ASSUME SampleInv, NEW p \in CPUs, Submit(p), Rate(p) # 0
    PROVE  SampleInv'
<1>0. /\ pc[p] = "submit" /\ GoesTo(p, "idle") /\ UNCHANGED <<hash, stale>>
      /\ reports' = [reports EXCEPT ![JobKey(p)] = @ + 1]
  BY DEF Submit, At
<1>1. PICK i \in DOMAIN Tracepoints, s \in Socks :
        /\ job[p] = <<i, s>> /\ Loaded /\ open[s] \in SampledVersions(i)
        /\ Key(s) \in Keys /\ Key(s) = <<open[s], s>> /\ JobKey(p) = Key(s)
  BY <1>0, JobFacts
<1> DEFINE k == Key(s)
           S == Tracepoints[i].Sample
           r == reports[k]
<1>2. /\ UNCHANGED <<codeVars, open, raised, events, decodeVars>> /\ pc'[p] = "idle"
      /\ \A q \in CPUs : q # p => pc'[q] = pc[q] /\ job'[q] = job[q]
  BY <1>0, GoFacts DEF Steps
<1>3. \A q \in stale' : q \in CPUs /\ pc'[q] = "compare"
  BY <1>0, <1>2 DEF SampleInv, HandlersInv
<1>4. HandlersInv'
  BY <1>0, <1>3, HandlersGo DEF Steps
<1>5. /\ S \in Nat /\ Count(k) \in Nat /\ Paid(i, k) \in Nat /\ events[k] \in Nat /\ r \in Nat
  BY <1>1, KeyFacts
<1>6. /\ reports' \in [Keys -> Nat] /\ reports'[k] = r + 1
      /\ \A o \in Keys : o # k => reports'[o] = reports[o]
  BY <1>0, <1>1 DEF SampleInv, Counters
<1>7. Counters'
  BY <1>0, <1>2, <1>6 DEF SampleInv, Counters
<1>8. k' = k /\ Count(k)' = Count(k) /\ Paid(i, k) = r * (S + 1)
      /\ Paid(i, k)' = (r + 1) * (S + 1)
  BY <1>0, <1>2, <1>6 DEF Key, Count, Paid, codeVars
<1>9. Locked(i) => /\ Count(k) <= S /\ Paid(i, k) + Count(k) <= events[k]
                   /\ Holds("submit", S, Paid(i, k), Count(k), events[k])
  BY <1>0, <1>1 DEF SampleInv, Spent, KeySpent
<1> HIDE DEF S, k, r
<1>10. (r + 1) * (S + 1) = r * (S + 1) + S + 1
  BY <1>5
<1>11. Locked(i) =>
        /\ Count(k)' <= S /\ Paid(i, k)' + Count(k)' <= events'[k]
        /\ Holds("idle", S, Paid(i, k)', Count(k)', events'[k])
  <2> DEFINE paid == Paid(i, k)
             paidn == Paid(i, k)'
  <2>1. paidn = paid + S + 1
    BY <1>8, <1>10
  <2> HIDE DEF paid, paidn
  <2>2. Locked(i) => Count(k) = 0 /\ paid + S + 1 <= events[k]
    BY <1>9 DEF Holds, paid
  <2>3. Locked(i) => paidn + 0 <= events[k]
    BY <2>1, <2>2, <1>5 DEF paid
  <2> QED
    BY <1>2, <1>5, <1>8, <2>2, <2>3 DEF Holds, paidn
<1> QED
  BY <1>0, <1>1, <1>2, <1>4, <1>6, <1>7, <1>11, OthersSpent DEF k, S

(* A handler that does not sample has no part in the counts.               *)
LEMMA UnsampledSpent ==
    ASSUME SampleInv, NEW p \in CPUs, NEW i \in DOMAIN Tracepoints, NEW s \in Socks, Loaded,
           Tracepoints[i].Sample = 0, UNCHANGED <<codeVars, open, sampleVars, stale>>,
           HandlersInv', job'[p] \in {NoJob, <<i, s>>},
           \A q \in CPUs : q # p => pc'[q] = pc[q] /\ job'[q] = job[q]
    PROVE  SampleInv'
<1>1. OneUser' /\ QuietBefore'
  BY UserKept DEF SampleInv, QuietBefore
<1>2. /\ UNCHANGED <<Tracepoints, open, hash, events, reports>>
      /\ \A j : Locked(j)' = Locked(j) /\ SampledVersions(j)' = SampledVersions(j)
  BY DEF codeVars, sampleVars, Locked, SampledVersions, Blocks
<1>3. Counters'
  BY <1>2 DEF SampleInv, Counters
<1>4. ASSUME NEW j \in DOMAIN Tracepoints, NEW v \in SampledVersions(j), NEW t \in Socks,
             Locked(j)
      PROVE  KeySpent(j, v, t)'
  <2> DEFINE k == <<v, t>>
  <2>1. KeySpent(j, v, t) /\ j # i
    BY <1>4 DEF SampleInv, Spent, SampledVersions
  <2>2. Count(k)' = Count(k) /\ Paid(j, k)' = Paid(j, k)
    BY <1>2 DEF Count, Paid
  <2>3. \A q \in CPUs : job'[q] = <<j, t>> => q # p
    <3>1. <<j, t>> # <<>> /\ <<j, t>> # <<i, s>>
      BY <2>1
    <3> QED
      BY <3>1 DEF NoJob
  <2> QED
    BY <1>2, <2>1, <2>2, <2>3 DEF KeySpent
<1>5. Spent'
  BY <1>2, <1>4 DEF Spent
<1> QED
  BY <1>1, <1>3, <1>5 DEF SampleInv

(* Before the program is loaded there is nothing to spend.                 *)
LEMMA QuietSpent ==
    ASSUME Tracepoints' \in Seq(TracepointConf), Counters', HandlersInv',
           \A k \in Keys : events'[k] = 0 /\ reports'[k] = 0 /\ hash'[k] = Absent,
           \A p \in CPUs : pc'[p] = "idle"
    PROVE  Spent'
<1> SUFFICES ASSUME NEW i \in DOMAIN Tracepoints', NEW v \in SampledVersions(i)',
                    NEW s \in Socks
             PROVE  KeySpent(i, v, s)'
  BY DEF Spent
<1>1. Tracepoints'[i] \in TracepointConf
  OBVIOUS
<1>2. Tracepoints'[i].INet \subseteq Versions /\ Tracepoints'[i].Sample \in Nat
  BY <1>1 DEF TracepointConf
<1>3. v \in Versions
  BY <1>2 DEF SampledVersions, Blocks, Versions
<1> DEFINE k == <<v, s>>
<1>4. k \in Keys
  BY <1>3 DEF Keys
<1>5. events'[k] = 0 /\ Count(k)' = 0 /\ reports'[k] = 0
  BY <1>4 DEF Count
<1>6. Paid(i, k)' = 0
  BY <1>2, <1>5 DEF Paid
<1>7. \A p \in CPUs : job'[p] # <<i, s>>
  <2>1. <<i, s>> # <<>>
    OBVIOUS
  <2> QED
    BY <2>1 DEF HandlersInv, NoJob
<1> HIDE DEF k
<1> QED
  BY <1>2, <1>5, <1>6, <1>7 DEF KeySpent, k

(* Generating the code of one more tracepoint: a hash that another one     *)
(* declared is declared twice, and the file does not compile.              *)
LEMMA GeneratedInv ==
    ASSUME SampleInv, GetTracepointBPFCode
    PROVE  SampleInv'
<1>1. /\ index \in DOMAIN Tracepoints /\ index' = index + 1 /\ index \in Nat
      /\ UNCHANGED <<request, status, Tracepoints, hash, events, reports, pc, job, stale, open>>
      /\ status = "run"
  <2>1. Tracepoints \in Seq(TracepointConf)
    BY DEF SampleInv, OneUser
  <2> QED
    BY <2>1 DEF GetTracepointBPFCode, SampleInv, OneUser, sampleVars, handlerVars
<1>2. /\ declared' = declared \cup FileNames(index)
      /\ declared \cap FileNames(index) \subseteq twice' /\ twice \subseteq twice'
  BY DEF GetTracepointBPFCode
<1>3. \A v \in SampledVersions(index) : <<"ipv", v, "_sample">> \in FileNames(index)
  BY DEF FileNames
<1>4. \A j \in DOMAIN Tracepoints : j \in Nat /\ SampledVersions(j)' = SampledVersions(j)
  BY <1>1, TracepointType DEF SampleInv, OneUser, SampledVersions, Blocks
<1>5. OneUser'
  <2>1. ASSUME NEW j \in DOMAIN Tracepoints, j < index', NEW v \in SampledVersions(j)
        PROVE  <<"ipv", v, "_sample">> \in declared'
    <3>1. j < index \/ j = index
      BY <2>1, <1>1, <1>4
    <3> QED
      BY <3>1, <1>2, <1>3 DEF SampleInv, OneUser
  <2>2. ASSUME twice' = {}, NEW j \in DOMAIN Tracepoints, j < index'
        PROVE  /\ twice = {} /\ (j < index \/ j = index)
               /\ j < index => SampledVersions(j) \cap SampledVersions(index) = {}
    <3>1. twice = {} /\ declared \cap FileNames(index) = {}
      BY <2>2, <1>2
    <3>2. j < index => \A v \in SampledVersions(j) : <<"ipv", v, "_sample">> \in declared
      BY DEF SampleInv, OneUser
    <3>3. j < index => SampledVersions(j) \cap SampledVersions(index) = {}
      BY <3>1, <3>2, <1>3, Zenon
    <3>4. j < index \/ j = index
      BY <2>2, <1>1, <1>4
    <3> QED
      BY <3>1, <3>3, <3>4
  <2>3. ASSUME twice' = {}, NEW j \in DOMAIN Tracepoints, NEW k \in DOMAIN Tracepoints,
               j < index', k < index', j # k
        PROVE  SampledVersions(j) \cap SampledVersions(k) = {}
    BY <2>2, <2>3 DEF SampleInv, OneUser
  <2> QED
    BY <1>1, <1>4, <2>1, <2>3 DEF SampleInv, OneUser
<1>6. ~Loaded
  BY <1>1 DEF GetTracepointBPFCode, Loaded, SampleInv, OneUser
<1>7. \A p \in CPUs : pc[p] = "idle" /\ job[p] = NoJob
  BY <1>6 DEF SampleInv, QuietBefore, HandlersInv
<1>8. Counters' /\ QuietBefore' /\ HandlersInv'
  <2>1. Counters'
    BY <1>1 DEF SampleInv, Counters
  <2>2. QuietBefore'
    BY <1>1, <1>6, <1>7 DEF SampleInv, QuietBefore
  <2>3. HandlersInv'
    BY <1>1, <1>7 DEF SampleInv, HandlersInv
  <2> QED
    BY <2>1, <2>2, <2>3
<1>9. Spent'
  <2>1. /\ Tracepoints' \in Seq(TracepointConf)
        /\ \A k \in Keys : events'[k] = 0 /\ reports'[k] = 0 /\ hash'[k] = Absent
        /\ \A p \in CPUs : pc'[p] = "idle"
    BY <1>1, <1>6, <1>7 DEF SampleInv, OneUser, QuietBefore
  <2> QED
    BY <1>8, <2>1, QuietSpent
<1> QED
  BY <1>5, <1>8, <1>9 DEF SampleInv

(* A name that is known is resolved to one of the table.                   *)
LEMMA KnownFieldName == ASSUME NEW f, KnownField(f) PROVE FieldName(f) \in DOMAIN fieldsModel4
BY DEF KnownField, FieldName, fieldsModel4, fieldsLowerCaseMap

(* A tracepoint that was read or made of the options, whose literals the   *)
(* provers do not know to be strings.                                      *)
ReadTracepoint ==
    LET Names == STRING \cup {"cli", "console"}
    IN [Name : STRING, Fields : Names, TCPState : STRING, Workers : Int, Sample : Int,
        INet : SUBSET Int, Egress : Names]

(* What Get returns has the kinds of what was read, with defaults.         *)
LEMMA ConfType ==
    ASSUME NEW r, IsRequest(r)
    PROVE  /\ \E len \in Nat : DOMAIN Get(r).Tracepoints = 1..len
           /\ \A i \in DOMAIN Get(r).Tracepoints :
                 \E tp \in ReadTracepoint : Get(r).Tracepoints[i] = WithDefaults(tp)
           /\ \A n \in DOMAIN Get(r).Fields : Get(r).Fields[n] \in Seq(STRING)
<1>1. ASSUME NEW read, Get(r) = setDefault(read), read.Tracepoints \in Seq(ReadTracepoint),
             \A n \in DOMAIN read.Fields : read.Fields[n] \in Seq(STRING)
      PROVE  /\ \E len \in Nat : DOMAIN Get(r).Tracepoints = 1..len
             /\ \A i \in DOMAIN Get(r).Tracepoints :
                   \E tp \in ReadTracepoint : Get(r).Tracepoints[i] = WithDefaults(tp)
             /\ \A n \in DOMAIN Get(r).Fields : Get(r).Fields[n] \in Seq(STRING)
  <2>1. /\ Get(r).Fields = read.Fields
        /\ Get(r).Tracepoints = [i \in DOMAIN read.Tracepoints |->
                                   WithDefaults(read.Tracepoints[i])]
    BY <1>1 DEF setDefault
  <2>2. /\ DOMAIN read.Tracepoints = 1..Len(read.Tracepoints)
        /\ Len(read.Tracepoints) \in Nat
        /\ \A i \in DOMAIN read.Tracepoints : read.Tracepoints[i] \in ReadTracepoint
    BY <1>1
  <2> QED
    BY <2>1, <2>2, <1>1
<1>2. CASE r.Config = ""
  <2> DEFINE cli == r.CLI
             read == cliToConfig(cli)
  <2>1. cli \in [Tracepoint : STRING, Fields : Seq(STRING) \ {<<>>}, TCPState : STRING,
                 Workers : Int, Sample : Int, IPv4 : BOOLEAN, IPv6 : BOOLEAN]
    BY DEF IsRequest
  <2>2. read.Fields = [n \in {"cli"} |-> cli.Fields]
    BY DEF cliToConfig
  <2>3. \A n \in DOMAIN read.Fields : read.Fields[n] \in Seq(STRING)
    BY <2>1, <2>2
  <2> DEFINE inet == (IF cli.IPv4 THEN {4} ELSE {}) \cup (IF cli.IPv6 THEN {6} ELSE {})
             tp == [Name |-> cli.Tracepoint, Fields |-> "cli", TCPState |-> cli.TCPState,
                    Workers |-> cli.Workers, Sample |-> cli.Sample, INet |-> inet,
                    Egress |-> "console"]
  <2>4. inet \in SUBSET Int
    OBVIOUS
  <2>5. tp \in ReadTracepoint
    <3>1. /\ cli.Tracepoint \in STRING /\ cli.TCPState \in STRING
          /\ cli.Workers \in Int /\ cli.Sample \in Int
      BY <2>1
    <3> HIDE DEF inet, cli
    <3> QED
      BY <3>1, <2>4 DEF ReadTracepoint
  <2>6. read.Tracepoints = <<tp>>
    BY DEF cliToConfig
  <2>7. read.Tracepoints \in Seq(ReadTracepoint)
    <3> HIDE DEF tp, read
    <3> QED
      BY <2>5, <2>6
  <2>8. Get(r) = setDefault(read)
    BY <1>2 DEF Get
  <2> HIDE DEF read
  <2> QED
    BY <1>1, <2>3, <2>7, <2>8
<1>3. CASE r.Config # ""
  <2>1. /\ r.File.Tracepoints \in Seq(Tracepoint)
        /\ \A n \in DOMAIN r.File.Fields : r.File.Fields[n] \in Seq(STRING)
    BY DEF IsRequest
  <2>3. Tracepoint \subseteq ReadTracepoint
    BY DEF Tracepoint, ReadTracepoint
  <2>4. r.File.Tracepoints \in Seq(ReadTracepoint)
    BY <2>1, <2>3
  <2>2. Get(r) = setDefault(r.File)
    BY <1>3 DEF Get
  <2> QED
    BY <1>1, <2>1, <2>2, <2>4
<1> QED
  BY <1>2, <1>3

(* What validate lets pass is a list of tracepoints, whatever the request: *)
(* each has a name, a version and a rate that is not negative.             *)
LEMMA ConfiguredType ==
    ASSUME NEW r \in Requests, validate(Get(r))
    PROVE  Configured(Get(r)) \in Seq(TracepointConf)
<1> DEFINE conf == Get(r)
<1>0. IsRequest(r)
  BY ProgramAssumption
<1>1. ASSUME NEW i \in DOMAIN conf.Tracepoints
      PROVE  Configured(conf)[i] \in TracepointConf
  <2> DEFINE tp == conf.Tracepoints[i]
             names == conf.Fields[tp.Fields]
  <2>1. PICK from \in ReadTracepoint : tp = WithDefaults(from)
    BY <1>0, <1>1, ConfType
  <2>2. /\ tp.Fields \in DOMAIN conf.Fields
        /\ \A j \in DOMAIN names : KnownField(names[j])
        /\ tp.INet \subseteq Versions /\ tp.Sample >= 0 /\ tp.Name \in validTracepoints
    BY <1>1 DEF validate, validateFields, validateMix
  <2>3. tp.INet # {} /\ tp.Sample \in Int
    BY <2>1 DEF WithDefaults, ReadTracepoint
  <2>4. names \in Seq(STRING)
    BY <1>0, <2>2, ConfType
  <2>5. GetTPFields(conf, tp.Fields) \in Seq(DOMAIN fieldsModel4)
    <3> DEFINE fs == [j \in DOMAIN names |-> FieldName(names[j])]
    <3>1. GetTPFields(conf, tp.Fields) = fs
      BY DEF GetTPFields
    <3>2. Len(names) \in Nat /\ DOMAIN names = 1..Len(names)
      BY <2>4
    <3>3. \A j \in DOMAIN names : FieldName(names[j]) \in DOMAIN fieldsModel4
      BY <2>2, KnownFieldName
    <3>4. fs \in [1..Len(names) -> DOMAIN fieldsModel4]
      BY <3>2, <3>3
    <3>5. fs \in Seq(DOMAIN fieldsModel4)
      BY <3>2, <3>4, SeqDef
    <3> HIDE DEF fs
    <3> QED
      BY <3>1, <3>5
  <2>6. Configured(conf)[i] = [Name |-> tp.Name, Fields |-> GetTPFields(conf, tp.Fields),
                               INet |-> tp.INet, Sample |-> tp.Sample]
    BY <1>1 DEF Configured
  <2> HIDE DEF tp, conf
  <2> QED
    BY <2>2, <2>3, <2>5, <2>6 DEF TracepointConf
<1>2. PICK len \in Nat : DOMAIN conf.Tracepoints = 1..len
  BY <1>0, ConfType
<1>3. Configured(conf) \in [1..len -> TracepointConf]
  BY <1>1, <1>2 DEF Configured
<1> QED
  BY <1>3, SeqDef

(* Start leaves the counters alone, at zero, and no code is generated yet. *)
LEMMA StartInv ==
    ASSUME SampleInv, Start
    PROVE  SampleInv'
<1>1. /\ status = "start" /\ index = 1 /\ ~Loaded /\ request \in Requests
      /\ UNCHANGED <<request, index, declared, twice, hash, events, reports, pc, job, stale, open>>
  BY DEF Start, Loaded, sampleVars, handlerVars, SampleInv, OneUser
<1>2. Tracepoints' \in Seq(TracepointConf)
  BY <1>1, ConfiguredType DEF Start, Loadable, SampleInv, OneUser
<1>3. \A j \in DOMAIN Tracepoints' : ~(j < index')
  BY <1>1, <1>2
<1>4. OneUser'
  BY <1>1, <1>2, <1>3 DEF OneUser
<1>5. \A p \in CPUs : pc[p] = "idle" /\ job[p] = NoJob
  BY <1>1 DEF SampleInv, QuietBefore, HandlersInv
<1>6. HandlersInv'
  BY <1>1, <1>5 DEF SampleInv, HandlersInv
<1>7. Counters' /\ QuietBefore'
  BY <1>1, <1>5 DEF SampleInv, Counters, QuietBefore
<1>8. \A k \in Keys : events[k] = 0 /\ reports[k] = 0 /\ hash[k] = Absent
  BY <1>1 DEF SampleInv, QuietBefore
<1>9. Spent'
  BY <1>1, <1>2, <1>5, <1>6, <1>7, <1>8, QuietSpent
<1> QED
  BY <1>4, <1>6, <1>7, <1>9 DEF SampleInv

(* A socket that no handler is at may be opened and closed.                *)
LEMMA SocketSpent ==
    ASSUME SampleInv, NEW s \in Socks, NEW v, open' = [open EXCEPT ![s] = v],
           \A p \in CPUs : pc[p] # "idle" => job[p][2] # s,
           UNCHANGED <<codeVars, handlerVars, sampleVars>>
    PROVE  SampleInv'
<1>1. UNCHANGED <<Tracepoints, hash, events, reports, pc, job, stale>>
  BY DEF codeVars, handlerVars, sampleVars
<1>2. /\ \A j : /\ Locked(j)' = Locked(j) /\ SampledVersions(j)' = SampledVersions(j)
                /\ Blocks(j)' = Blocks(j)
      /\ \A p \in CPUs : WithLock(p)' = WithLock(p)
  BY <1>1 DEF Locked, SampledVersions, Blocks, WithLock
<1>3. \A t : t # s => open'[t] = open[t]
  BY DEF SampleInv
<1>4. ASSUME NEW p \in CPUs, pc[p] # "idle"
      PROVE  \E i \in DOMAIN Tracepoints, t \in Socks :
               /\ job[p] = <<i, t>> /\ open'[t] \in Blocks(i)
               /\ pc[p] # "submit" => Tracepoints[i].Sample # 0
  <2>1. PICK i \in DOMAIN Tracepoints, t \in Socks :
          /\ job[p] = <<i, t>> /\ open[t] \in Blocks(i)
          /\ pc[p] # "submit" => Tracepoints[i].Sample # 0
    BY <1>4 DEF SampleInv, HandlersInv
  <2>2. t # s
    BY <1>4, <2>1
  <2> QED
    BY <1>3, <2>1, <2>2
<1>5. HandlersInv'
  BY <1>1, <1>2, <1>4 DEF SampleInv, HandlersInv
<1>6. ASSUME NEW i \in DOMAIN Tracepoints, NEW w \in SampledVersions(i), NEW t \in Socks,
             Locked(i)
      PROVE  KeySpent(i, w, t)'
  <2>1. KeySpent(i, w, t)
    BY <1>6 DEF SampleInv, Spent
  <2>2. /\ Count(<<w, t>>)' = Count(<<w, t>>)
        /\ Paid(i, <<w, t>>)' = Paid(i, <<w, t>>)
    BY <1>1 DEF Count, Paid
  <2>3. \A p \in CPUs : job[p] = <<i, t>> => t # s
    <3>1. <<i, t>> # <<>>
      OBVIOUS
    <3> QED
      BY <3>1 DEF SampleInv, HandlersInv, NoJob
  <2> QED
    BY <1>1, <1>3, <2>1, <2>2, <2>3 DEF KeySpent
<1>7. Spent'
  BY <1>1, <1>2, <1>6 DEF Spent
<1>8. OneUser' /\ QuietBefore' /\ Counters'
  BY <1>1, UserKept DEF SampleInv, QuietBefore, Counters
<1> QED
  BY <1>5, <1>7, <1>8 DEF SampleInv

(* A step of the decoder or none changes nothing of it.                    *)
LEMMA SampleKept ==
    ASSUME SampleInv, UNCHANGED <<codeVars, open, handlerVars, sampleVars>>
    PROVE  SampleInv'
<1>1. UNCHANGED <<Tracepoints, open, hash, events, reports, pc, job, stale>>
  BY DEF codeVars, handlerVars, sampleVars
<1>2. /\ \A j : /\ Locked(j)' = Locked(j) /\ SampledVersions(j)' = SampledVersions(j)
                /\ Blocks(j)' = Blocks(j)
      /\ \A p \in CPUs : WithLock(p)' = WithLock(p)
      /\ \A k : Count(k)' = Count(k) /\ \A i : Paid(i, k)' = Paid(i, k)
  BY <1>1 DEF Locked, SampledVersions, Blocks, WithLock, Count, Paid
<1>3. HandlersInv'
  BY <1>1, <1>2 DEF SampleInv, HandlersInv
<1>4. \A i, v, s : KeySpent(i, v, s)' <=> KeySpent(i, v, s)
  BY <1>1, <1>2 DEF KeySpent
<1>5. Spent'
  BY <1>1, <1>2, <1>4 DEF SampleInv, Spent
<1>6. OneUser' /\ QuietBefore' /\ Counters'
  BY <1>1, UserKept DEF SampleInv, QuietBefore, Counters
<1> QED
  BY <1>3, <1>5, <1>6 DEF SampleInv

(* The step of one handler.                                                *)
LEMMA HandlerSpent ==
    ASSUME SampleInv, NEW p \in CPUs, Handler(p)
    PROVE  SampleInv'
<1>1. CASE Below(p) \/ Reached(p)
  <2>1. pc[p] = "compare" /\ stale' = stale \ {p} /\ UNCHANGED <<hash, reports>>
    BY <1>1 DEF Below, Reached, At
  <2>2. PICK i \in DOMAIN Tracepoints, s \in Socks :
          /\ job[p] = <<i, s>> /\ Loaded /\ open[s] \in SampledVersions(i)
          /\ Key(s) \in Keys /\ Key(s) = <<open[s], s>> /\ JobKey(p) = Key(s)
          /\ Rate(p) = Tracepoints[i].Sample
    BY <2>1, JobFacts
  <2>3. CASE Below(p)
    <3>1. /\ GoesTo(p, "increment")
          /\ p \notin stale => hash[Key(s)] < Tracepoints[i].Sample
      BY <2>2, <2>3 DEF Below
    <3> QED
      BY <2>1, <2>2, <3>1, ComparedSpent
  <2>4. CASE Reached(p)
    <3>1. /\ GoesTo(p, "delete")
          /\ p \notin stale => hash[Key(s)] >= Tracepoints[i].Sample
      BY <2>2, <2>4 DEF Reached
    <3> QED
      BY <2>1, <2>2, <3>1, ComparedSpent
  <2> QED
    BY <1>1, <2>3, <2>4
<1>2. CASE Increment(p)
  BY <1>2, IncrementSpent
<1>3. CASE Delete(p)
  BY <1>3, DeleteSpent
<1>4. CASE Submit(p)
  <2>1. CASE Rate(p) # 0
    BY <1>4, <2>1, SubmitSpent
  <2>2. CASE Rate(p) = 0
    <3>1. pc[p] = "submit" /\ GoesTo(p, "idle") /\ UNCHANGED <<hash, stale, reports>>
      BY <1>4, <2>2 DEF Submit, At
    <3>2. PICK i \in DOMAIN Tracepoints, s \in Socks :
            job[p] = <<i, s>> /\ Loaded /\ Rate(p) = Tracepoints[i].Sample
      BY <3>1, JobFacts
    <3>3. /\ UNCHANGED <<codeVars, open, raised, events, decodeVars>> /\ pc'[p] = "idle"
          /\ \A q \in CPUs : q # p => pc'[q] = pc[q] /\ job'[q] = job[q]
      BY <3>1, GoFacts DEF Steps
    <3>4. \A q \in stale' : q \in CPUs /\ pc'[q] = "compare"
      BY <3>1, <3>3 DEF SampleInv, HandlersInv
    <3>5. HandlersInv'
      BY <3>1, <3>4, HandlersGo DEF Steps
    <3>6. job'[p] = NoJob
      BY <3>3, <3>5 DEF HandlersInv
    <3>7. UNCHANGED sampleVars
      BY <3>1, <3>3 DEF sampleVars
    <3> QED
      BY <2>2, <3>1, <3>2, <3>3, <3>5, <3>6, <3>7, UnsampledSpent
  <2> QED
    BY <2>1, <2>2
<1> QED
  BY <1>1, <1>2, <1>3, <1>4 DEF Handler

(* An event begins a handler.                                              *)
LEMMA RaisedSpent ==
    ASSUME SampleInv, NEW p \in CPUs, NEW i \in DOMAIN Tracepoints, NEW s \in Socks,
           Raised(p, i, s)
    PROVE  SampleInv'
<1>1. CASE LookUp(p, i, s)
  BY <1>1, LookUpSpent
<1>2. CASE Full(p, i, s)
  BY <1>2, FullSpent
<1>3. CASE Unsampled(p, i, s)
  <2>1. /\ Event(p, i, s) /\ Tracepoints[i].Sample = 0
        /\ pc' = [pc EXCEPT ![p] = "submit"] /\ UNCHANGED <<hash, events>>
    BY <1>3 DEF Unsampled
  <2>2. /\ Loaded /\ UNCHANGED <<codeVars, open, stale, reports>>
        /\ job' = [job EXCEPT ![p] = <<i, s>>]
    BY <2>1 DEF Event
  <2>3. HandlersInv'
    BY <2>1, HandlersBegin DEF Steps
  <2>4. /\ job'[p] = <<i, s>>
        /\ \A q \in CPUs : q # p => pc'[q] = pc[q] /\ job'[q] = job[q]
    BY <2>1, <2>2 DEF SampleInv, HandlersInv
  <2>5. UNCHANGED sampleVars
    BY <2>1, <2>2 DEF sampleVars
  <2> QED
    BY <2>1, <2>2, <2>3, <2>4, <2>5, UnsampledSpent
<1> QED
  BY <1>1, <1>2, <1>3 DEF Raised

(* Every step keeps what is spent within what was counted.                 *)
LEMMA SampleStep == SampleInv /\ [Next]_vars => SampleInv'
<1> SUFFICES ASSUME SampleInv, [Next]_vars PROVE SampleInv'
  OBVIOUS
<1>1. CASE GetTracepointBPFCode
  BY <1>1, GeneratedInv
<1>2. ASSUME NEW p \in CPUs, NEW i \in DOMAIN Tracepoints, NEW s \in Socks, Raised(p, i, s)
      PROVE  SampleInv'
  BY <1>2, RaisedSpent
<1>3. ASSUME NEW p \in CPUs, Handler(p) PROVE SampleInv'
  BY <1>3, HandlerSpent
<1>4. ASSUME NEW s \in Socks, NEW v \in Versions, Open(s, v) PROVE SampleInv'
  <2>1. /\ open[s] = 0 /\ open' = [open EXCEPT ![s] = v]
        /\ UNCHANGED <<codeVars, handlerVars, sampleVars>>
    BY <1>4 DEF Open
  <2>2. \A p \in CPUs : pc[p] # "idle" => job[p][2] # s
    <3> SUFFICES ASSUME NEW p \in CPUs, pc[p] # "idle" PROVE job[p][2] # s
      OBVIOUS
    <3>1. PICK i \in DOMAIN Tracepoints, t \in Socks : job[p] = <<i, t>> /\ open[t] \in Versions
      BY JobFacts
    <3> QED
      BY <2>1, <3>1 DEF Versions
  <2> QED
    BY <2>1, <2>2, SocketSpent
<1>5. ASSUME NEW s \in Socks, Close(s) PROVE SampleInv'
  <2>1. /\ open' = [open EXCEPT ![s] = 0] /\ UNCHANGED <<codeVars, handlerVars, sampleVars>>
        /\ \A p \in CPUs : pc[p] # "idle" => job[p][2] # s
    BY <1>5 DEF Close, HandlersAt
  <2> QED
    BY <2>1, SocketSpent
<1>6. CASE Begin \/ Field \/ Marshal \/ End
  BY <1>6, SampleKept DEF Begin, Field, Marshal, End
<1>7. CASE UNCHANGED vars
  BY <1>7, SampleKept DEF vars
<1>8. CASE Start
  BY <1>8, StartInv
<1> QED
  BY <1>1, <1>2, <1>3, <1>4, <1>5, <1>6, <1>7, <1>8 DEF Next

(* Of the events of an address at most one in Sample + 1 is ever submitted *)
(* by a tracepoint that comes with the socket locked, for every number of  *)
(* CPUs whose handlers take their steps in any order.                      *)
THEOREM NeverOverSampled == Spec => []AtMostOneIn
<1>1. SampleInv => AtMostOneIn
  <2> SUFFICES ASSUME SampleInv, NEW i \in DOMAIN Tracepoints,
                      NEW v \in SampledVersions(i), NEW s \in Socks, Locked(i)
               PROVE Paid(i, <<v, s>>) <= events[<<v, s>>]
    BY DEF AtMostOneIn, Paid
  <2> DEFINE k == <<v, s>>
  <2>1. k \in Keys /\ Tracepoints[i].Sample \in Nat
    BY TracepointType DEF Keys, SampleInv, OneUser
  <2>2. /\ Count(k) \in Nat /\ events[k] \in Nat /\ reports[k] \in Nat
    BY <2>1 DEF SampleInv, Counters, Count, Absent
  <2>3. Paid(i, k) + Count(k) <= events[k]
    BY DEF SampleInv, Spent, KeySpent
  <2> DEFINE r == reports[k]
             S == Tracepoints[i].Sample
  <2> HIDE DEF r, S
  <2>4. r \in Nat /\ S \in Nat
    BY <2>1, <2>2 DEF r, S
  <2>5. r * (S + 1) \in Nat
    BY <2>4
  <2>6. Paid(i, k) \in Nat
    BY <2>5 DEF Paid, r, S
  <2> QED
    BY <2>2, <2>3, <2>6
<1> QED
  BY <1>1, SampleInit, SampleStep, PTL DEF Spec

-----------------------------------------------------------------------------
OneTask(fs) == \A k, l \in DOMAIN fs : fs[k] = "Task" /\ fs[l] = "Task" => k = l

(* The tracepoints before n have nothing to declare twice.                 *)
Apart(n) ==
    /\ \A i, j \in 1..(n - 1) : i # j => SampledVersions(i) \cap SampledVersions(j) = {}
    /\ \A i \in 1..(n - 1) : OneTask(Tracepoints[i].Fields)

(* What is declared so far is what the tracepoints before index need, and  *)
(* something of that is there twice if and only if it clashes.             *)
CodeInv ==
    /\ status \in {"start", "run", "exit"}
    /\ index \in 1..(Len(Tracepoints) + 1)
    /\ status # "run" => Tracepoints = <<>>
    /\ \A j \in 1..(index - 1) : FileNames(j) \subseteq declared
    /\ \A n \in declared : \E j \in 1..(index - 1) : n \in FileNames(j)
    /\ (twice = {}) <=> Apart(index)

(* A name of a file is of one of four kinds, which their lengths tell      *)
(* apart.                                                                  *)
LEMMA NameKinds ==
    ASSUME NEW i, NEW n \in FileNames(i)
    PROVE  \/ n = <<"sk_trace", i>> /\ Len(n) = 2
           \/ \E v \in Blocks(i) : n = <<"ipv", v, "_data", i, "_t">> /\ Len(n) = 5
           \/ \E v \in Blocks(i) : n = <<"ipv", v, "_events", i>> /\ Len(n) = 4
           \/ \E v \in SampledVersions(i) : n = <<"ipv", v, "_sample">> /\ Len(n) = 3
<1>1. CASE n = <<"sk_trace", i>>
  BY <1>1
<1>2. ASSUME NEW v \in Blocks(i), n = <<"ipv", v, "_data", i, "_t">> PROVE Len(n) = 5
  BY <1>2
<1>3. ASSUME NEW v \in Blocks(i), n = <<"ipv", v, "_events", i>> PROVE Len(n) = 4
  BY <1>3
<1>4. ASSUME NEW v \in SampledVersions(i), n = <<"ipv", v, "_sample">> PROVE Len(n) = 3
  BY <1>4
<1> QED
  BY <1>1, <1>2, <1>3, <1>4 DEF FileNames

(* A name of four parts is the one of a perf output.                       *)
LEMMA EventsName ==
    ASSUME NEW i, NEW n \in FileNames(i), Len(n) = 4
    PROVE  \E v \in Blocks(i) : n = <<"ipv", v, "_events", i>>
BY NameKinds

(* The files of two tracepoints have no name in common but a hash.         *)
LEMMA NamesApart ==
    ASSUME NEW i, NEW j, i # j, NEW n \in FileNames(i), n \in FileNames(j)
    PROVE  SampledVersions(i) \cap SampledVersions(j) # {}
<1>1. n # <<"sk_trace", i>>
  <2>1. Len(<<"sk_trace", i>>) = 2
    OBVIOUS
  <2>2. <<"sk_trace", i>> # <<"sk_trace", j>>
    OBVIOUS
  <2> QED
    BY <2>1, <2>2, NameKinds
<1>2. ASSUME NEW v, n = <<"ipv", v, "_data", i, "_t">> PROVE FALSE
  <2>1. Len(n) = 5
    BY <1>2
  <2>2. \A w : <<"ipv", v, "_data", i, "_t">> # <<"ipv", w, "_data", j, "_t">>
    OBVIOUS
  <2> QED
    BY <1>2, <2>1, <2>2, NameKinds
<1>3. ASSUME NEW v, n = <<"ipv", v, "_events", i>> PROVE FALSE
  <2>1. Len(n) = 4
    BY <1>3
  <2>2. \A w : <<"ipv", v, "_events", i>> # <<"ipv", w, "_events", j>>
    OBVIOUS
  <2> QED
    BY <1>3, <2>1, <2>2, NameKinds
<1>4. PICK v \in SampledVersions(i) : n = <<"ipv", v, "_sample">> /\ Len(n) = 3
  BY <1>1, <1>2, <1>3, NameKinds
<1>5. PICK w \in SampledVersions(j) : n = <<"ipv", w, "_sample">>
  BY <1>4, NameKinds
<1>6. v = w
  BY <1>4, <1>5
<1> QED
  BY <1>6

(* An index tells two members apart, unless they are the task's name.      *)
LEMMA MembersApart ==
    ASSUME NEW fs \in Seq(DOMAIN fieldsModel4)
    PROVE  (MembersTwice(fs) = {}) <=> OneTask(fs)
<1>1. ASSUME NEW j \in DOMAIN fs, NEW k \in DOMAIN fs, k # j, Member(fs, k) = Member(fs, j)
      PROVE  fs[j] = "Task" /\ fs[k] = "Task"
  <2>1. \A l \in DOMAIN fs : IF fs[l] = "Task" THEN Member(fs, l) = <<"current_comm">>
                             ELSE \E x : Member(fs, l) = <<x, l>>
    BY DEF Member
  <2>2. /\ \A x, y : <<x, j>> # <<y, k>>
        /\ \A x : <<x, j>> # <<"current_comm">> /\ <<x, k>> # <<"current_comm">>
    BY <1>1
  <2>3. fs[j] # "Task" => fs[k] = "Task"
    BY <1>1, <2>1, <2>2, Zenon
  <2>4. fs[k] # "Task" => fs[j] = "Task"
    BY <1>1, <2>1, <2>2, Zenon
  <2>5. ~ (fs[j] # "Task" /\ fs[k] = "Task")
    BY <1>1, <2>1, <2>2, Zenon
  <2>6. ~ (fs[k] # "Task" /\ fs[j] = "Task")
    BY <1>1, <2>1, <2>2, Zenon
  <2> QED
    BY <2>3, <2>4, <2>5, <2>6
<1>2. ASSUME OneTask(fs) PROVE MembersTwice(fs) = {}
  BY <1>1, <1>2 DEF MembersTwice, OneTask
<1>3. ASSUME MembersTwice(fs) = {}, NEW k \in DOMAIN fs, NEW l \in DOMAIN fs,
             fs[k] = "Task", fs[l] = "Task"
      PROVE  k = l
  <2>1. Member(fs, k) = Member(fs, l)
    BY <1>3 DEF Member
  <2> QED
    BY <1>3, <2>1 DEF MembersTwice
<1> QED
  BY <1>2, <1>3 DEF OneTask

(* No code of a tracepoint is there before its turn, so that what it finds *)
(* declared is another one's.                                              *)
LEMMA GeneratedCode ==
    ASSUME SampleInv, CodeInv, GetTracepointBPFCode
    PROVE  CodeInv'
<1>1. /\ Tracepoints \in Seq(TracepointConf) /\ index \in DOMAIN Tracepoints
      /\ index \in Nat \ {0} /\ Len(Tracepoints) \in Nat /\ index <= Len(Tracepoints)
  <2>1. Tracepoints \in Seq(TracepointConf) /\ index \in Nat \ {0}
    BY DEF SampleInv, OneUser
  <2> QED
    BY <2>1 DEF GetTracepointBPFCode
<1>2. /\ status = "run" /\ UNCHANGED <<status, Tracepoints>> /\ index' = index + 1
      /\ declared' = declared \cup FileNames(index)
      /\ twice' = twice \cup (declared \cap FileNames(index))
                        \cup MembersTwice(Tracepoints[index].Fields)
  BY DEF GetTracepointBPFCode
<1>3. 1..(index' - 1) = 1..(index - 1) \cup {index} /\ index \notin 1..(index - 1)
  BY <1>1, <1>2
<1>4. \A j : FileNames(j)' = FileNames(j) /\ SampledVersions(j)' = SampledVersions(j)
  BY <1>2 DEF FileNames, SampledVersions, Blocks
<1>5. \A j \in 1..(index' - 1) : FileNames(j)' \subseteq declared'
  BY <1>2, <1>3, <1>4 DEF CodeInv
<1>6. \A n \in declared' : \E j \in 1..(index' - 1) : n \in FileNames(j)'
  BY <1>2, <1>3, <1>4 DEF CodeInv
<1>7. (declared \cap FileNames(index) = {}) <=>
        \A j \in 1..(index - 1) : SampledVersions(j) \cap SampledVersions(index) = {}
  <2>1. ASSUME NEW n \in declared, n \in FileNames(index)
        PROVE  \E j \in 1..(index - 1) : SampledVersions(j) \cap SampledVersions(index) # {}
    <3>1. PICK j \in 1..(index - 1) : n \in FileNames(j)
      BY DEF CodeInv
    <3>2. j # index
      BY <1>3
    <3> QED
      BY <2>1, <3>1, <3>2, NamesApart
  <2>2. ASSUME NEW j \in 1..(index - 1), NEW v \in SampledVersions(j),
               v \in SampledVersions(index)
        PROVE  declared \cap FileNames(index) # {}
    <3>1. <<"ipv", v, "_sample">> \in FileNames(j) /\ <<"ipv", v, "_sample">> \in FileNames(index)
      BY <2>2 DEF FileNames
    <3> QED
      BY <3>1 DEF CodeInv
  <2> QED
    BY <2>1, <2>2
<1>8. (MembersTwice(Tracepoints[index].Fields) = {}) <=> OneTask(Tracepoints[index].Fields)
  BY <1>1, TracepointType, MembersApart
<1>9. (twice' = {}) <=>
        /\ Apart(index) /\ OneTask(Tracepoints[index].Fields)
        /\ \A j \in 1..(index - 1) : SampledVersions(j) \cap SampledVersions(index) = {}
  BY <1>2, <1>7, <1>8 DEF CodeInv
<1>10. Apart(index)' <=>
        /\ Apart(index) /\ OneTask(Tracepoints[index].Fields)
        /\ \A j \in 1..(index - 1) : SampledVersions(j) \cap SampledVersions(index) = {}
  <2>1. Apart(index)' <=>
          /\ \A i, j \in 1..(index' - 1) :
                i # j => SampledVersions(i) \cap SampledVersions(j) = {}
          /\ \A i \in 1..(index' - 1) : OneTask(Tracepoints[i].Fields)
    BY <1>2, <1>4 DEF Apart, OneTask
  <2> DEFINE before == 1..(index - 1)
  <2>2. 1..(index' - 1) = before \cup {index} /\ index \notin before
    BY <1>3
  <2>3. Apart(index) <=>
          /\ \A i, j \in before : i # j => SampledVersions(i) \cap SampledVersions(j) = {}
          /\ \A i \in before : OneTask(Tracepoints[i].Fields)
    BY DEF Apart
  <2> HIDE DEF before
  <2>4. (\A i, j \in before \cup {index} :
            i # j => SampledVersions(i) \cap SampledVersions(j) = {})
         <=> /\ \A i, j \in before : i # j => SampledVersions(i) \cap SampledVersions(j) = {}
             /\ \A j \in before : SampledVersions(j) \cap SampledVersions(index) = {}
    BY <2>2
  <2> QED
    BY <2>1, <2>2, <2>3, <2>4 DEF before
<1>11. /\ status' \in {"start", "run", "exit"} /\ index' \in 1..(Len(Tracepoints') + 1)
       /\ (status' # "run" => Tracepoints' = <<>>)
  BY <1>1, <1>2
<1>12. (twice' = {}) <=> Apart(index)'
  BY <1>9, <1>10
<1> QED
  BY <1>5, <1>6, <1>11, <1>12 DEF CodeInv

(* No name is declared at first.                                           *)
LEMMA CodeInit == Init => CodeInv
BY DEF Init, CodeInv, Apart

(* The declarations change where code is generated, and nowhere else.      *)
LEMMA CodeStep ==
    ASSUME SampleInv, CodeInv, [Next]_vars
    PROVE  CodeInv'
<1>1. CASE GetTracepointBPFCode
  BY <1>1, GeneratedCode
<1>2. CASE Start
  <2>1. status = "start" /\ index = 1 /\ UNCHANGED <<index, declared, twice>>
    BY <1>2 DEF Start, SampleInv, OneUser
  <2>2. SampleInv'
    BY <1>2, StartInv
  <2>3. Tracepoints' \in Seq(TracepointConf)
    BY <2>2 DEF SampleInv, OneUser
  <2>4. index' \in 1..(Len(Tracepoints') + 1)
    BY <2>1, <2>3
  <2>5. status' \in {"start", "run", "exit"} /\ (status' # "run" => Tracepoints' = <<>>)
    BY <1>2, <2>1 DEF Start, CodeInv
  <2>6. 1..(index - 1) = {} /\ declared = {}
    BY <2>1 DEF CodeInv
  <2>7. Apart(index) /\ Apart(index)'
    BY <2>1, <2>6 DEF Apart
  <2> QED
    BY <2>1, <2>4, <2>5, <2>6, <2>7 DEF CodeInv
<1>3. ASSUME UNCHANGED codeVars PROVE CodeInv'
  <2>1. UNCHANGED <<status, Tracepoints, index, declared, twice>>
    BY <1>3 DEF codeVars
  <2>2. \A j : FileNames(j)' = FileNames(j) /\ SampledVersions(j)' = SampledVersions(j)
    BY <2>1 DEF FileNames, SampledVersions, Blocks
  <2>3. Apart(index)' <=> Apart(index)
    BY <2>1, <2>2 DEF Apart
  <2> QED
    BY <2>1, <2>2, <2>3 DEF CodeInv
<1>4. ASSUME NEW p \in CPUs, NEW i \in DOMAIN Tracepoints, NEW s \in Socks, Raised(p, i, s)
      PROVE  CodeInv'
  BY <1>3, <1>4 DEF Raised, Unsampled, LookUp, Full, ToSample, Event
<1>9. ASSUME NEW p \in CPUs, Handler(p) PROVE CodeInv'
  BY <1>3, <1>9 DEF Handler, Below, Reached, Increment, Delete, Submit, GoesTo
<1>5. ASSUME NEW s \in Socks, NEW v \in Versions, Open(s, v) PROVE CodeInv'
  BY <1>3, <1>5 DEF Open
<1>6. ASSUME NEW s \in Socks, Close(s) PROVE CodeInv'
  BY <1>3, <1>6 DEF Close
<1>7. CASE Begin \/ Field \/ Marshal \/ End
  BY <1>3, <1>7 DEF Begin, Field, Marshal, End
<1>8. CASE UNCHANGED vars
  BY <1>3, <1>8 DEF vars
<1> QED
  BY <1>1, <1>2, <1>4, <1>5, <1>6, <1>7, <1>8, <1>9 DEF Next

(* What the loader asks for is what the generator made, and the file       *)
(* compiles, exactly where there are fields, and no two sampled            *)
(* tracepoints share a version nor is the task named twice.                *)
THEOREM NamesAgree == Spec => []ProgramLoads
<1>1. SampleInv /\ CodeInv => ProgramLoads
  <2> SUFFICES ASSUME SampleInv, CodeInv, index > Len(Tracepoints) PROVE ProgramLoads
    BY DEF ProgramLoads
  <2>1. Tracepoints \in Seq(TracepointConf)
    BY DEF SampleInv, OneUser
  <2>2. DOMAIN Tracepoints = 1..(index - 1)
    BY <2>1 DEF CodeInv
  <2>3. ASSUME NEW i \in DOMAIN Tracepoints
        PROVE  (NamesLoaded(i) \subseteq declared) <=> (Tracepoints[i].Fields # <<>>)
    <3>1. /\ Tracepoints[i].INet # {}
          /\ Blocks(i) = IF Tracepoints[i].Fields = <<>> THEN {} ELSE Tracepoints[i].INet
      BY <2>1, TracepointType
    <3>2. ASSUME Tracepoints[i].Fields # <<>> PROVE NamesLoaded(i) \subseteq declared
      <4>1. FileNames(i) \subseteq declared
        BY <2>2 DEF CodeInv
      <4> QED
        BY <3>1, <3>2, <4>1 DEF NamesLoaded, FileNames
    <3>3. ASSUME Tracepoints[i].Fields = <<>>, NamesLoaded(i) \subseteq declared PROVE FALSE
      <4>1. PICK v : v \in Tracepoints[i].INet
        BY <3>1
      <4> DEFINE n == <<"ipv", v, "_events", i>>
      <4>2. n \in declared /\ Len(n) = 4
        BY <3>3, <4>1 DEF NamesLoaded
      <4>3. PICK j \in 1..(index - 1) : n \in FileNames(j)
        BY <4>2 DEF CodeInv
      <4> HIDE DEF n
      <4>4. \E w \in Blocks(j) : n = <<"ipv", w, "_events", j>>
        BY <4>2, <4>3, EventsName
      <4>5. j = i /\ Blocks(j) # {}
        BY <4>4 DEF n
      <4> QED
        BY <3>1, <3>3, <4>5
    <3> QED
      BY <3>2, <3>3
  <2>4. (twice = {}) <=>
           /\ \A i, j \in DOMAIN Tracepoints :
                i # j => SampledVersions(i) \cap SampledVersions(j) = {}
           /\ \A i \in DOMAIN Tracepoints : OneTask(Tracepoints[i].Fields)
    BY <2>2 DEF CodeInv, Apart
  <2> QED
    BY <2>3, <2>4 DEF ProgramLoads, OneTask
<1> QED
  BY <1>1, SampleInit, SampleStep, CodeInit, CodeStep, PTL DEF Spec

-----------------------------------------------------------------------------
(* Sockets of version v with an entry in its hash.                         *)
Entries(v) == {s \in Socks : hash[<<v, s>>] # Absent}

(* A hash takes no more entries than it was declared for.                  *)
HashInv ==
    /\ request \in Requests
    /\ raised \in 0..MaxEvents[request] /\ \A k \in Keys : events[k] <= raised
    /\ \A v \in Versions : IsFiniteSet(Entries(v)) /\ Cardinality(Entries(v)) <= HashSize

(* An entry of a hash is a socket: what Room counts.                       *)
LEMMA RoomLeft ==
    ASSUME NEW v \in Versions, NEW s \in Socks, IsFiniteSet(Entries(v)), Room(<<v, s>>)
    PROVE  Cardinality(Entries(v)) < HashSize
<1> DEFINE K == {q \in Keys : q[1] = v /\ HasEntry(q)}
           f == [t \in Entries(v) |-> <<v, t>>]
<1>1. \A t \in Entries(v) : <<v, t>> \in K
  BY DEF Entries, Keys, HasEntry
<1>2. \A q \in K : \E t \in Entries(v) : q = <<v, t>>
  BY DEF Entries, Keys, HasEntry
<1>3. f \in Bijection(Entries(v), K)
  <2>1. f \in [Entries(v) -> K]
    BY <1>1
  <2>2. \A q \in K : \E t \in Entries(v) : f[t] = q
    BY <1>2
  <2>3. \A t, u \in Entries(v) : f[t] = f[u] => t = u
    OBVIOUS
  <2> HIDE DEF f, K
  <2> QED
    BY <2>1, <2>2, <2>3 DEF Bijection, Injection, Surjection, IsInjective
<1>4. Cardinality(K) = Cardinality(Entries(v))
  <2> HIDE DEF K, f
  <2> QED
    BY <1>3, FS_Bijection DEF ExistsBijection
<1> QED
  BY <1>4 DEF Room

(* An element more makes a set larger by at most one.                      *)
LEMMA OneMore ==
    ASSUME NEW S, IsFiniteSet(S), NEW x
    PROVE  IsFiniteSet(S \cup {x}) /\ Cardinality(S \cup {x}) <= Cardinality(S) + 1
<1>1. Cardinality(S) \in Nat
  BY FS_CardinalityType
<1>2. /\ IsFiniteSet(S \cup {x})
      /\ Cardinality(S \cup {x}) = IF x \in S THEN Cardinality(S) ELSE Cardinality(S) + 1
  BY FS_AddElement
<1> QED
  BY <1>1, <1>2

(* The hash keeps its bounds when one entry of it goes, is changed, or is  *)
(* made where there is room.                                               *)
LEMMA EntryChanged ==
    ASSUME SampleInv, HashInv, NEW v \in Versions, NEW s \in Socks, NEW x,
           hash' = [hash EXCEPT ![<<v, s>>] = x],
           x # Absent => HasEntry(<<v, s>>) \/ Room(<<v, s>>)
    PROVE  \A w \in Versions :
             IsFiniteSet(Entries(w)') /\ Cardinality(Entries(w)') <= HashSize
<1>1. /\ <<v, s>> \in Keys /\ hash'[<<v, s>>] = x
      /\ \A k \in Keys : k # <<v, s>> => hash'[k] = hash[k]
  BY DEF Keys, SampleInv, Counters
<1>2. /\ IsFiniteSet(Entries(v)) /\ Cardinality(Entries(v)) \in Nat
      /\ Cardinality(Entries(v)) <= HashSize /\ HashSize \in Nat
  BY FS_CardinalityType, ProgramAssumption DEF HashInv
<1>3. IsFiniteSet(Entries(v)') /\ Cardinality(Entries(v)') <= HashSize
  <2>1. CASE x = Absent
    <3>1. Entries(v)' \subseteq Entries(v)
      BY <1>1, <2>1 DEF Entries, Keys
    <3>2. /\ IsFiniteSet(Entries(v)')
          /\ Cardinality(Entries(v)') <= Cardinality(Entries(v))
      BY <1>2, <3>1, FS_Subset
    <3>3. Cardinality(Entries(v)') \in Nat
      BY <3>2, FS_CardinalityType
    <3> QED
      BY <1>2, <3>2, <3>3
  <2>2. CASE x # Absent
    <3>1. Entries(v)' = Entries(v) \cup {s}
      BY <1>1, <2>2 DEF Entries, Keys
    <3>2. CASE HasEntry(<<v, s>>)
      <4>1. Entries(v)' = Entries(v)
        BY <3>1, <3>2 DEF HasEntry, Entries
      <4> QED
        BY <1>2, <4>1
    <3>3. CASE Room(<<v, s>>)
      <4>1. Cardinality(Entries(v)) < HashSize
        BY <1>2, <3>3, RoomLeft
      <4>2. /\ IsFiniteSet(Entries(v) \cup {s})
            /\ Cardinality(Entries(v) \cup {s}) <= Cardinality(Entries(v)) + 1
        BY <1>2, OneMore
      <4>3. Cardinality(Entries(v) \cup {s}) \in Nat
        BY <4>2, FS_CardinalityType
      <4> QED
        BY <1>2, <3>1, <4>1, <4>2, <4>3
    <3> QED
      BY <2>2, <3>2, <3>3
  <2> QED
    BY <2>1, <2>2
<1>4. ASSUME NEW w \in Versions, w # v
      PROVE  IsFiniteSet(Entries(w)') /\ Cardinality(Entries(w)') <= HashSize
  <2>1. \A t \in Socks : hash'[<<w, t>>] = hash[<<w, t>>]
    BY <1>1, <1>4 DEF Keys
  <2>2. Entries(w)' = Entries(w)
    BY <2>1 DEF Entries
  <2> QED
    BY <2>2 DEF HashInv
<1> QED
  BY <1>3, <1>4

(* A step that leaves the hash alone leaves its entries alone.             *)
LEMMA HashKept ==
    ASSUME HashInv, UNCHANGED hash
    PROVE  \A w \in Versions :
             IsFiniteSet(Entries(w)') /\ Cardinality(Entries(w)') <= HashSize
<1>1. \A w : Entries(w)' = Entries(w)
  BY DEF Entries
<1> QED
  BY <1>1 DEF HashInv

(* The hash is empty at first.                                             *)
LEMMA HashInit == Init => HashInv
<1> SUFFICES ASSUME Init PROVE HashInv
  OBVIOUS
<1>1. \A v \in Versions : Entries(v) = {}
  BY DEF Init, Entries, Keys
<1>2. IsFiniteSet({}) /\ Cardinality({}) = 0
  BY FS_EmptySet
<1>3. raised \in 0..MaxEvents[request] /\ \A k \in Keys : events[k] <= raised
  BY ProgramAssumption DEF Init
<1>4. request \in Requests
  BY DEF Init
<1> QED
  BY <1>1, <1>2, <1>3, <1>4, ProgramAssumption DEF HashInv

(* An event is one of those that were raised.                              *)
LEMMA RaisedHash ==
    ASSUME SampleInv, HashInv, NEW p \in CPUs, NEW i \in DOMAIN Tracepoints, NEW s \in Socks,
           Raised(p, i, s)
    PROVE  HashInv'
<1>1. /\ raised < MaxEvents[request] /\ raised' = raised + 1 /\ request' = request
  BY DEF Raised, Unsampled, LookUp, Full, ToSample, Event, codeVars
<1>2. /\ raised \in Nat /\ raised' = raised + 1
      /\ request' \in Requests /\ raised' \in 0..MaxEvents[request']
  <2>1. MaxEvents[request] \in Nat /\ raised \in 0..MaxEvents[request] /\ request \in Requests
    BY ProgramAssumption DEF HashInv
  <2> QED
    BY <1>1, <2>1
<1>3. \A k \in Keys : events[k] \in Nat /\ events[k] <= raised
  BY DEF SampleInv, Counters, HashInv
<1>4. CASE Unsampled(p, i, s)
  <2>1. UNCHANGED <<hash, events>>
    BY <1>4 DEF Unsampled
  <2>2. \A k \in Keys : events'[k] <= raised'
    BY <1>2, <1>3, <2>1
  <2> QED
    BY <1>2, <2>1, <2>2, HashKept DEF HashInv
<1>5. CASE ToSample(p, i, s)
  <2>1. /\ open[s] \in Versions /\ Key(s) \in Keys /\ Key(s) = <<open[s], s>>
        /\ events' = [events EXCEPT ![Key(s)] = @ + 1]
    BY <1>5, EventFacts
  <2>2. ASSUME NEW k \in Keys PROVE events'[k] <= raised'
    <3>1. events'[k] = IF k = Key(s) THEN events[k] + 1 ELSE events[k]
      BY <2>1 DEF SampleInv, Counters
    <3> QED
      BY <1>2, <1>3, <3>1
  <2>3. CASE LookUp(p, i, s)
    <3>1. /\ hash' = [hash EXCEPT ![Key(s)] = IF HasEntry(Key(s)) THEN @ ELSE 0]
          /\ HasEntry(Key(s)) \/ Room(Key(s))
      BY <2>3 DEF LookUp
    <3> DEFINE x == IF HasEntry(Key(s)) THEN hash[Key(s)] ELSE 0
    <3>2. hash' = [hash EXCEPT ![<<open[s], s>>] = x]
      BY <2>1, <3>1
    <3> HIDE DEF x
    <3> DEFINE k == <<open[s], s>>
    <3>4. HasEntry(k) \/ Room(k)
      BY <2>1, <3>1
    <3>5. hash' = [hash EXCEPT ![k] = x]
      BY <3>2
    <3>3. \A w \in Versions : IsFiniteSet(Entries(w)') /\ Cardinality(Entries(w)') <= HashSize
      <4>1. x # Absent => HasEntry(k) \/ Room(k)
        BY <3>4
      <4> QED
        BY <2>1, <3>5, <4>1, EntryChanged
    <3> QED
      BY <1>2, <2>2, <3>3 DEF HashInv
  <2>4. CASE Full(p, i, s)
    <3>1. UNCHANGED hash
      BY <2>4 DEF Full
    <3> QED
      BY <1>2, <2>2, <3>1, HashKept DEF HashInv
  <2>5. CASE Unsampled(p, i, s)
    BY <1>4, <2>5
  <2> QED
    BY <2>3, <2>4, <2>5 DEF Raised
<1> QED
  BY <1>4, <1>5 DEF Raised, LookUp, Full

(* A handler makes an entry only where there is room.                      *)
LEMMA HandlerHash ==
    ASSUME SampleInv, HashInv, NEW p \in CPUs, Handler(p)
    PROVE  HashInv'
<1>1. /\ UNCHANGED <<request, raised, events>> /\ pc[p] # "idle"
      /\ UNCHANGED hash \/ Increment(p) \/ Delete(p)
  BY DEF Handler, Below, Reached, Increment, Delete, Submit, GoesTo, At, codeVars
<1>2. PICK i \in DOMAIN Tracepoints, s \in Socks :
        open[s] \in Versions /\ Key(s) = <<open[s], s>> /\ JobKey(p) = Key(s)
  BY <1>1, JobFacts
<1> DEFINE k == <<open[s], s>>
<1>3. CASE UNCHANGED hash
  BY <1>1, <1>3, HashKept DEF HashInv
<1>4. ASSUME NEW x, hash' = [hash EXCEPT ![k] = x], x # Absent => HasEntry(k) \/ Room(k)
      PROVE  HashInv'
  <2>1. \A w \in Versions : IsFiniteSet(Entries(w)') /\ Cardinality(Entries(w)') <= HashSize
    BY <1>2, <1>4, EntryChanged
  <2> QED
    BY <1>1, <2>1 DEF HashInv
<1>5. CASE Increment(p)
  <2> DEFINE x == IF HasEntry(k) THEN hash[k] + 1 ELSE IF Room(k) THEN 1 ELSE hash[k]
  <2>1. hash' = [hash EXCEPT ![k] = x]
    BY <1>2, <1>5 DEF Increment
  <2>2. x # Absent => HasEntry(k) \/ Room(k)
    BY DEF HasEntry
  <2> HIDE DEF x, k
  <2> QED
    BY <1>4, <2>1, <2>2
<1>6. CASE Delete(p)
  <2>1. hash' = [hash EXCEPT ![k] = Absent]
    BY <1>2, <1>6 DEF Delete
  <2> HIDE DEF k
  <2> QED
    BY <1>4, <2>1
<1> QED
  BY <1>1, <1>3, <1>5, <1>6

(* Every step keeps the hash within its size.                              *)
LEMMA HashStep ==
    ASSUME SampleInv, HashInv, [Next]_vars
    PROVE  HashInv'
<1>1. ASSUME UNCHANGED <<request, hash, events, raised>> PROVE HashInv'
  BY <1>1, HashKept DEF HashInv
<1>2. CASE Start
  BY <1>1, <1>2 DEF Start, codeVars, sampleVars, handlerVars
<1>3. CASE GetTracepointBPFCode
  BY <1>1, <1>3 DEF GetTracepointBPFCode, codeVars, sampleVars, handlerVars
<1>4. ASSUME NEW p \in CPUs, NEW i \in DOMAIN Tracepoints, NEW s \in Socks, Raised(p, i, s)
      PROVE  HashInv'
  BY <1>4, RaisedHash
<1>5. ASSUME NEW p \in CPUs, Handler(p) PROVE HashInv'
  BY <1>5, HandlerHash
<1>6. ASSUME NEW s \in Socks, NEW v \in Versions, Open(s, v) PROVE HashInv'
  BY <1>1, <1>6 DEF Open, codeVars, sampleVars, handlerVars
<1>7. ASSUME NEW s \in Socks, Close(s) PROVE HashInv'
  BY <1>1, <1>7 DEF Close, codeVars, sampleVars, handlerVars
<1>8. CASE Begin \/ Field \/ Marshal \/ End
  BY <1>1, <1>8 DEF Begin, Field, Marshal, End, codeVars, sampleVars, handlerVars
<1>9. CASE UNCHANGED vars
  BY <1>1, <1>9 DEF vars, codeVars, sampleVars, handlerVars
<1> QED
  BY <1>2, <1>3, <1>4, <1>5, <1>6, <1>7, <1>8, <1>9 DEF Next

-----------------------------------------------------------------------------
(* A record names a tracepoint and one of its versions, and its decoder    *)
(* wrote a value for each field that it has behind it.                     *)
DecoderInv ==
    /\ open \in [Socks -> Versions \cup {0}]
    /\ status = "start" => rec = Nothing
    /\ rec # Nothing => rec[2] \in DOMAIN Tracepoints /\ rec[1] \in Blocks(rec[2])
    /\ c \in Nat /\ crashed \in BOOLEAN /\ next \in Nat
    /\ out \in Seq({out[i] : i \in DOMAIN out})
    /\ next # 0 => rec # Nothing /\ Len(out) = next - 1

(* A field of either version has a type of a known size.                   *)
LEMMA FieldSize ==
    ASSUME NEW v \in Versions, NEW f \in DOMAIN fieldsModel4
    PROVE  Size[Model(v)[f].CType] \in Nat \ {0}
<1>1. /\ DOMAIN fieldsModel4["SAddr"] = {"CType", "BigEndian", "IP"}
      /\ "SAddr" \in DOMAIN fieldsModel4
  BY DEF fieldsModel4, Attrs
<1>2. f # "SAddr" => fieldsModel6[f] = fieldsModel4[f]
  BY DEF fieldsModel6
<1>3. fieldsModel6["SAddr"].CType = "u128"
  BY <1>1 DEF fieldsModel6
<1>4. fieldsModel4[f].CType \in {"u8", "u16", "u32", "u64", "char"}
  BY DEF fieldsModel4, Attrs
<1>5. Model(v)[f].CType \in {"u8", "u16", "u32", "u64", "u128", "char"}
  <2>1. Model(v)[f] = fieldsModel4[f] \/ Model(v)[f] = fieldsModel6[f]
    BY DEF Model
  <2> QED
    BY <2>1, <1>2, <1>3, <1>4
<1> QED
  BY <1>5 DEF Size

(* The decoder's offset only grows.                                        *)
LEMMA OffsetType ==
    ASSUME c \in Nat, NEW t, Size[t] \in Nat \ {0}
    PROVE  Aligned(t) \in Nat
<1>1. c % Size[t] \in 0..(Size[t] - 1)
  OBVIOUS
<1> QED
  BY <1>1 DEF Aligned

(* A value is put behind the ones written before.                          *)
LEMMA OneMoreValue ==
    ASSUME NEW s, s \in Seq({s[i] : i \in DOMAIN s}), NEW x
    PROVE  LET t == Append(s, x)
           IN t \in Seq({t[i] : i \in DOMAIN t}) /\ Len(t) = Len(s) + 1
<1> DEFINE t == Append(s, x)
           S == {s[i] : i \in DOMAIN s} \cup {x}
<1>1. s \in Seq(S)
  BY SeqDef
<1>2. t \in Seq(S) /\ Len(t) = Len(s) + 1
  <2> HIDE DEF S
  <2> QED
    BY <1>1, AppendProperties DEF S
<1>3. DOMAIN t = 1..Len(t) /\ Len(t) \in Nat
  BY <1>2
<1>4. t \in [1..Len(t) -> {t[i] : i \in DOMAIN t}]
  <2> HIDE DEF S, t
  <2>1. t = [i \in 1..Len(t) |-> t[i]]
    BY <1>2
  <2> QED
    BY <2>1, <1>3
<1>5. t \in Seq({t[i] : i \in DOMAIN t})
  <2> HIDE DEF t, S
  <2> QED
    BY <1>3, <1>4, SeqDef
<1> QED
  BY <1>2, <1>5

(* One field of a record is decoded.                                       *)
LEMMA FieldDecoder ==
    ASSUME SampleInv, DecoderInv, Field
    PROVE  DecoderInv'
<1>1. /\ UNCHANGED <<open, status, Tracepoints, rec>>
      /\ rec # Nothing /\ next \in DOMAIN fields
  BY DEF Field, codeVars
<1>0. \A i : Blocks(i)' = Blocks(i)
  BY <1>1 DEF Blocks
<1>2. /\ Tracepoints \in Seq(TracepointConf) /\ rec[2] \in DOMAIN Tracepoints
      /\ rec[1] \in Blocks(rec[2])
  BY <1>1 DEF DecoderInv, SampleInv, OneUser
<1>3. rec[1] \in Versions /\ Tracepoints[rec[2]] \in TracepointConf
  BY <1>2, TracepointType
<1>4. fields \in Seq(DOMAIN fieldsModel4)
  BY <1>3 DEF fields, TracepointConf
<1>5. fields[next] \in DOMAIN fieldsModel4 /\ next \in Nat \ {0}
  BY <1>1, <1>4
<1> DEFINE t == prop.CType
           at == Aligned(t)
<1>6. Size[t] \in Nat \ {0}
  BY <1>3, <1>5, FieldSize DEF prop, DecoderVersion
<1>7. at \in Nat
  BY <1>6, OffsetType DEF DecoderInv
<1>8. \/ crashed' = TRUE /\ UNCHANGED <<c, next, out>>
      \/ \E x : /\ out' = Append(out, x) /\ c' = at + Size[t] /\ next' = next + 1
                /\ crashed' = crashed
  BY DEF Field
<1> HIDE DEF t, at
<1>9. CASE crashed' = TRUE /\ UNCHANGED <<c, next, out>>
  BY <1>0, <1>1, <1>9 DEF DecoderInv
<1>10. ASSUME NEW x, out' = Append(out, x), c' = at + Size[t], next' = next + 1,
              crashed' = crashed
       PROVE  DecoderInv'
  <2>1. out \in Seq({out[i] : i \in DOMAIN out}) /\ Len(out) = next - 1
    BY <1>5 DEF DecoderInv
  <2>2. out' \in Seq({out'[i] : i \in DOMAIN out'}) /\ Len(out') = Len(out) + 1
    BY <1>10, <2>1, OneMoreValue
  <2>3. c' \in Nat /\ next' \in Nat /\ Len(out') = next' - 1
    BY <1>5, <1>6, <1>7, <1>10, <2>1, <2>2
  <2> QED
    BY <1>0, <1>1, <1>10, <2>2, <2>3 DEF DecoderInv
<1> QED
  BY <1>8, <1>9, <1>10

(* Nothing of the decoder changes while its record and code stay.          *)
LEMMA DecoderKept ==
    ASSUME DecoderInv, UNCHANGED <<codeVars, rec, c, next, out, crashed>>,
           open' \in [Socks -> Versions \cup {0}]
    PROVE  DecoderInv'
<1>1. UNCHANGED <<status, Tracepoints>> /\ \A i : Blocks(i)' = Blocks(i)
  BY DEF codeVars, Blocks
<1> QED
  BY <1>1 DEF DecoderInv

(* A handler submits a record for a version that its tracepoint has.       *)
LEMMA HandlerDecoder ==
    ASSUME SampleInv, DecoderInv, NEW p \in CPUs, Handler(p)
    PROVE  DecoderInv'
<1>1. /\ UNCHANGED <<codeVars, open, c, next, out, crashed>> /\ rec = Nothing
      /\ pc[p] # "idle" /\ (rec' = rec \/ Submit(p))
  BY DEF Handler, Below, Reached, Increment, Delete, Submit, GoesTo, At, decodeVars
<1>2. next = 0
  BY <1>1 DEF DecoderInv
<1>3. CASE rec' = rec
  BY <1>1, <1>3, DecoderKept DEF DecoderInv
<1>4. CASE Submit(p)
  <2>1. PICK i \in DOMAIN Tracepoints, s \in Socks :
          job[p] = <<i, s>> /\ open[s] \in Blocks(i) /\ Loaded
    BY <1>1, JobFacts
  <2>2. rec'[1] = open[s] /\ rec'[2] = i
    BY <1>4, <2>1 DEF Submit
  <2>3. UNCHANGED <<status, Tracepoints>> /\ status = "run" /\ \A j : Blocks(j)' = Blocks(j)
    BY <1>1, <2>1 DEF codeVars, Blocks, Loaded
  <2> QED
    BY <1>1, <1>2, <2>1, <2>2, <2>3 DEF DecoderInv
<1> QED
  BY <1>1, <1>3, <1>4

(* No record is decoded at first.                                          *)
LEMMA DecoderInit == Init => DecoderInv
<1> SUFFICES ASSUME Init PROVE DecoderInv
  OBVIOUS
<1>1. out \in Seq({out[i] : i \in DOMAIN out})
  BY DEF Init
<1>2. /\ open \in [Socks -> Versions \cup {0}] /\ rec = Nothing
      /\ c \in Nat /\ crashed \in BOOLEAN /\ next = 0
  BY DEF Init
<1> QED
  BY <1>1, <1>2 DEF DecoderInv

(* Every step keeps a decoder at a field of its record.                    *)
LEMMA DecoderStep ==
    ASSUME SampleInv, CodeInv, DecoderInv, [Next]_vars
    PROVE  DecoderInv'
<1>1. ASSUME UNCHANGED <<codeVars, rec, c, next, out, crashed>>,
             open' \in [Socks -> Versions \cup {0}]
      PROVE  DecoderInv'
  BY <1>1, DecoderKept
<1>2. CASE Start
  <2>1. /\ UNCHANGED <<open, rec, c, next, out, crashed>> /\ status = "start"
        /\ status' \in {"run", "exit"}
    BY <1>2 DEF Start, decodeVars
  <2> QED
    BY <2>1 DEF DecoderInv
<1>3. CASE GetTracepointBPFCode
  <2>1. /\ UNCHANGED <<status, Tracepoints, open, rec, c, next, out, crashed>>
        /\ \A i : Blocks(i)' = Blocks(i)
    BY <1>3 DEF GetTracepointBPFCode, decodeVars, Blocks
  <2> QED
    BY <2>1 DEF DecoderInv
<1>4. ASSUME NEW s \in Socks, NEW v \in Versions, Open(s, v) PROVE DecoderInv'
  <2>1. open' \in [Socks -> Versions \cup {0}]
    BY <1>4 DEF Open, DecoderInv
  <2> QED
    BY <1>1, <1>4, <2>1 DEF Open, decodeVars
<1>5. ASSUME NEW s \in Socks, Close(s) PROVE DecoderInv'
  <2>1. open' \in [Socks -> Versions \cup {0}]
    BY <1>5 DEF Close, DecoderInv
  <2> QED
    BY <1>1, <1>5, <2>1 DEF Close, decodeVars
<1>6. ASSUME NEW p \in CPUs, NEW i \in DOMAIN Tracepoints, NEW s \in Socks, Raised(p, i, s)
      PROVE  DecoderInv'
  <2>1. Event(p, i, s)
    BY <1>6 DEF Raised, Unsampled, LookUp, Full, ToSample
  <2> QED
    BY <1>1, <2>1 DEF Event, decodeVars, DecoderInv
<1>12. ASSUME NEW p \in CPUs, Handler(p) PROVE DecoderInv'
  BY <1>12, HandlerDecoder
<1>7. CASE Begin
  <2>1. /\ UNCHANGED <<status, Tracepoints, open, rec, crashed>> /\ rec # Nothing
        /\ c' = 0 /\ next' = 1 /\ out' = <<>> /\ \A i : Blocks(i)' = Blocks(i)
    BY <1>7 DEF Begin, codeVars, Blocks
  <2>2. out' \in Seq({out'[i] : i \in DOMAIN out'}) /\ Len(out') = 0
    BY <2>1
  <2> QED
    BY <2>1, <2>2 DEF DecoderInv
<1>8. CASE Field
  BY <1>8, FieldDecoder
<1>9. CASE Marshal
  BY <1>1, <1>9 DEF Marshal, DecoderInv
<1>10. CASE End
  <2>1. /\ UNCHANGED <<status, Tracepoints, open, c, out, crashed>>
        /\ rec' = Nothing /\ next' = 0
    BY <1>10 DEF End, codeVars
  <2> QED
    BY <2>1 DEF DecoderInv
<1>11. CASE UNCHANGED vars
  BY <1>1, <1>11 DEF vars, decodeVars, DecoderInv
<1> QED
  BY <1>2, <1>3, <1>4, <1>5, <1>6, <1>7, <1>8, <1>9, <1>10, <1>11, <1>12 DEF Next

(* Whatever is configured, the hashes keep to their size and to the rate,  *)
(* and the decoder to the fields of the record it has.                     *)
THEOREM TypeCorrect == Spec => []TypeOK
<1>1. SampleInv /\ CodeInv /\ HashInv /\ DecoderInv => TypeOK
  <2> SUFFICES ASSUME SampleInv, CodeInv, HashInv, DecoderInv PROVE TypeOK
    OBVIOUS
  <2>1. /\ status \in {"start", "run", "exit"}
        /\ Tracepoints \in Seq(TracepointConf) /\ index \in 1..(Len(Tracepoints) + 1)
        /\ open \in [Socks -> Versions \cup {0}] /\ hash \in [Keys -> {Absent} \cup Nat]
    BY DEF SampleInv, CodeInv, OneUser, Counters, DecoderInv
  <2>2. \A v \in Versions :
           Cardinality({s \in Socks : hash[<<v, s>>] # Absent}) <= HashSize
    BY DEF HashInv, Entries
  <2>3. ASSUME NEW i \in DOMAIN Tracepoints, NEW v \in SampledVersions(i), NEW s \in Socks,
               Locked(i)
        PROVE  hash[<<v, s>>] <= Tracepoints[i].Sample
    <3>1. /\ Count(<<v, s>>) <= Tracepoints[i].Sample /\ Tracepoints[i].Sample \in Nat
      BY <2>1, <2>3, TracepointType DEF SampleInv, Spent, KeySpent
    <3> QED
      BY <3>1 DEF Count, Absent
  <2>4. raised \in 0..MaxEvents[request]
    BY DEF HashInv
  <2>5. events \in [Keys -> 0..MaxEvents[request]] /\ reports \in [Keys -> Nat]
    <3>1. MaxEvents[request] \in Nat /\ \A k \in Keys : events[k] \in Nat /\ events[k] <= raised
      BY ProgramAssumption DEF SampleInv, Counters, HashInv
    <3>2. \A k \in Keys : events[k] \in 0..MaxEvents[request]
      BY <2>4, <3>1
    <3> QED
      BY <3>2 DEF SampleInv, Counters
  <2>6. /\ pc \in [CPUs -> {"idle", "compare", "increment", "delete", "submit"}]
        /\ stale \subseteq CPUs
        /\ \A p \in CPUs : IF pc[p] = "idle" THEN job[p] = NoJob
                           ELSE job[p] \in (DOMAIN Tracepoints) \X Socks
    <3>1. /\ pc \in [CPUs -> {"idle", "compare", "increment", "delete", "submit"}]
          /\ stale \subseteq CPUs
      BY DEF SampleInv, HandlersInv, Steps
    <3>2. ASSUME NEW p \in CPUs
          PROVE  IF pc[p] = "idle" THEN job[p] = NoJob
                 ELSE job[p] \in (DOMAIN Tracepoints) \X Socks
      <4>1. CASE pc[p] = "idle"
        BY <4>1 DEF SampleInv, HandlersInv
      <4>2. CASE pc[p] # "idle"
        <5>1. PICK i \in DOMAIN Tracepoints, s \in Socks : job[p] = <<i, s>>
          BY <4>2, JobFacts
        <5> QED
          BY <4>2, <5>1
      <4> QED
        BY <4>1, <4>2
    <3> QED
      BY <3>1, <3>2
  <2> QED
    BY <2>1, <2>2, <2>3, <2>4, <2>5, <2>6 DEF TypeOK, DecoderInv
<1> QED
  BY <1>1, SampleInit, SampleStep, CodeInit, CodeStep, HashInit, HashStep, DecoderInit,
     DecoderStep, PTL DEF Spec

-----------------------------------------------------------------------------
(* Induction on a set of numbers, from the well-foundedness of their order *)
(* (the induction theorems of the library have an operator for a           *)
(* parameter, which the provers cannot instantiate).                       *)

(* A set of numbers has a least one.                                       *)
LEMMA LeastNumber ==
    ASSUME NEW S \in SUBSET Nat, S # {}
    PROVE  \E n \in S : \A m \in S : n <= m
<1>1. \E R : IsWellFoundedOn(R, Nat) /\ \A m, n \in Nat : <<m, n>> \in R <=> m < n
  <2> DEFINE R == OpToRel(<, Nat)
  <2>1. IsWellFoundedOn(R, Nat)
    BY NatLessThanWellFounded
  <2>2. \A m, n \in Nat : <<m, n>> \in R <=> m < n
    BY DEF OpToRel
  <2> HIDE DEF R
  <2> QED
    BY <2>1, <2>2
<1>2. PICK R : IsWellFoundedOn(R, Nat) /\ \A m, n \in Nat : <<m, n>> \in R <=> m < n
  BY <1>1
<1>3. \E n \in S : \A m \in S : ~ (<<m, n>> \in R)
  <2>1. IsWellFoundedOn(R, Nat)
    BY <1>2
  <2>2. S \subseteq Nat /\ S # {}
    OBVIOUS
  <2> QED
    BY <2>1, <2>2, WFMin, Zenon
<1>4. \E n \in S : \A m \in S : ~ (m < n)
  BY <1>2, <1>3, Zenon
<1> QED
  BY <1>4

(* What holds of 0 and with a number of the next one holds of all.         *)
LEMMA Upwards ==
    ASSUME NEW S, 0 \in S, \A n \in Nat : n \in S => n + 1 \in S
    PROVE  \A n \in Nat : n \in S
<1> SUFFICES ASSUME Nat \ S # {} PROVE FALSE
  OBVIOUS
<1>1. PICK n \in Nat \ S : \A m \in Nat \ S : n <= m
  BY LeastNumber
<1>2. n - 1 \in Nat /\ n - 1 \in S
  BY <1>1
<1> QED
  BY <1>1, <1>2

-----------------------------------------------------------------------------
(* The compiler's layout of a struct, for every list of fields.            *)

Powers == {1, 2, 4, 8, 16}

(* LeastMultiple is what its name says, and there is no other.             *)
LEMMA Multiple ==
    ASSUME NEW n \in Nat, NEW a \in Powers
    PROVE  /\ LeastMultiple(n, a) \in n..(n + a - 1)
           /\ \A m \in n..(n + a - 1) : m % a = 0 => m = LeastMultiple(n, a)
<1>1. \E m \in n..(n + a - 1) : m % a = 0
  <2> DEFINE m == IF n % a = 0 THEN n ELSE n + (a - (n % a))
  <2>1. m \in n..(n + a - 1) /\ m % a = 0
    <3>1. CASE a = 1
      BY <3>1
    <3>2. CASE a = 2
      BY <3>2
    <3>3. CASE a = 4
      BY <3>3
    <3>4. CASE a = 8
      BY <3>4
    <3>5. CASE a = 16
      BY <3>5
    <3> QED
      BY <3>1, <3>2, <3>3, <3>4, <3>5 DEF Powers
  <2> QED
    BY <2>1
<1>2. LeastMultiple(n, a) \in n..(n + a - 1) /\ LeastMultiple(n, a) % a = 0
  BY <1>1 DEF LeastMultiple
<1>3. ASSUME NEW m \in n..(n + a - 1), NEW k \in n..(n + a - 1), m % a = 0, k % a = 0
      PROVE  m = k
  <2>1. CASE a = 1
    BY <2>1
  <2>2. CASE a = 2
    BY <1>3, <2>2
  <2>3. CASE a = 4
    BY <1>3, <2>3
  <2>4. CASE a = 8
    BY <1>3, <2>4
  <2>5. CASE a = 16
    BY <1>3, <2>5
  <2> QED
    BY <2>1, <2>2, <2>3, <2>4, <2>5 DEF Powers
<1> QED
  BY <1>2, <1>3

Types == {"u8", "u16", "u32", "u64", "u128", "char"}

(* Sizes and alignments of the types.                                      *)
LEMMA Sizes ==
    ASSUME NEW t \in Types
    PROVE  /\ Size[t] \in Powers /\ Alignment[t] \in Powers
           /\ t \in {"u8", "char"} => Alignment[t] = 1
           /\ t \notin {"u8", "char"} => Alignment[t] = Size[t]
<1>1. DOMAIN Size = Types /\ Size["u8"] = 1 /\ Size[t] \in Powers
  BY DEF Size, Types, Powers
<1>2. Alignment[t] = IF t = "char" THEN 1 ELSE Size[t]
  BY <1>1 DEF Alignment
<1> QED
  BY <1>1, <1>2 DEF Powers

(* The decoder's padding is the compiler's.                                *)
LEMMA PaddingAgrees ==
    ASSUME NEW t \in Types, c \in Nat
    PROVE  Aligned(t) = LeastMultiple(c, Alignment[t])
<1>1. CASE t \in {"u8", "char"}
  <2>1. Aligned(t) = c /\ Alignment[t] = 1
    BY <1>1, Sizes DEF Aligned
  <2>2. LeastMultiple(c, 1) \in c..(c + 1 - 1)
    BY Multiple DEF Powers
  <2> QED
    BY <2>1, <2>2
<1>2. CASE t \notin {"u8", "char"}
  <2> DEFINE a == Size[t]
             m == IF c % a > 0 THEN c + (a - (c % a)) ELSE c
  <2>1. a \in Powers /\ Alignment[t] = a /\ Aligned(t) = m
    BY <1>2, Sizes DEF Aligned
  <2> HIDE DEF a
  <2>2. m \in c..(c + a - 1) /\ m % a = 0
    <3>1. CASE a = 1
      BY <3>1
    <3>2. CASE a = 2
      BY <3>2
    <3>3. CASE a = 4
      BY <3>3
    <3>4. CASE a = 8
      BY <3>4
    <3>5. CASE a = 16
      BY <3>5
    <3> QED
      BY <2>1, <3>1, <3>2, <3>3, <3>4, <3>5 DEF Powers
  <2> QED
    BY <2>1, <2>2, Multiple
<1> QED
  BY <1>1, <1>2

(* Type of a field, and where the field before it ends.                    *)
TypeOf(v, fs, i) == Model(v)[fs[i]].CType
EndOf(v, fs, at, i) == IF i = 0 THEN 0 ELSE at[i] + Size[TypeOf(v, fs, i)]

(* A list of fields of a version.                                          *)
FieldList(v, fs) == v \in Versions /\ fs \in Seq(DOMAIN fieldsModel4)

(* The type of a field is one that the compiler and the decoder know.      *)
LEMMA FieldTypes ==
    ASSUME NEW v, NEW fs, FieldList(v, fs), NEW i \in DOMAIN fs
    PROVE  TypeOf(v, fs, i) \in Types
<1>1. /\ DOMAIN fieldsModel4["SAddr"] = {"CType", "BigEndian", "IP"}
      /\ "SAddr" \in DOMAIN fieldsModel4
  BY DEF fieldsModel4, Attrs
<1>2. \A f \in DOMAIN fieldsModel4 : f # "SAddr" => fieldsModel6[f] = fieldsModel4[f]
  BY DEF fieldsModel6
<1>3. fieldsModel6["SAddr"].CType = "u128"
  BY <1>1 DEF fieldsModel6
<1>4. \A f \in DOMAIN fieldsModel4 : fieldsModel4[f].CType \in Types
  BY DEF fieldsModel4, Attrs, Types
<1>5. fs[i] \in DOMAIN fieldsModel4
  BY DEF FieldList
<1> QED
  BY <1>2, <1>3, <1>4, <1>5 DEF TypeOf, Model, Types

(* The recursion that defines the layout has a solution.                   *)
LEMMA LayoutDefined ==
    ASSUME NEW v, NEW fs, FieldList(v, fs)
    PROVE  LET at == Layout(v, fs)
           IN at = [i \in DOMAIN fs |-> LeastMultiple(EndOf(v, fs, at, i - 1),
                                                      Alignment[TypeOf(v, fs, i)])]
<1> DEFINE Place(g, i) == LeastMultiple(EndOf(v, fs, g, i - 1), Alignment[TypeOf(v, fs, i)])
           S == {n \in Nat : \E g : g = [i \in 1..n |-> Place(g, i)]}
<1>1. 0 \in S
  <2> DEFINE g == [i \in 1..0 |-> 0]
  <2>1. g = [i \in 1..0 |-> Place(g, i)]
    OBVIOUS
  <2> HIDE DEF g, Place
  <2> QED
    BY <2>1
<1>2. ASSUME NEW n \in Nat, n \in S PROVE n + 1 \in S
  <2>1. PICK g : g = [i \in 1..n |-> Place(g, i)]
    BY <1>2
  <2> DEFINE h == [i \in 1..(n + 1) |-> IF i \in 1..n THEN g[i] ELSE Place(g, n + 1)]
  <2>2. \A i \in 1..(n + 1) : EndOf(v, fs, h, i - 1) = EndOf(v, fs, g, i - 1)
    BY DEF EndOf
  <2> HIDE DEF h
  <2>3. \A i \in 1..(n + 1) : Place(h, i) = Place(g, i)
    BY <2>2
  <2> HIDE DEF Place
  <2>4. \A i \in 1..(n + 1) : h[i] = Place(h, i)
    BY <2>1, <2>3 DEF h
  <2>5. h = [i \in 1..(n + 1) |-> Place(h, i)]
    BY <2>4 DEF h
  <2> QED
    BY <2>5
<1> HIDE DEF S
<1>3. Len(fs) \in S
  BY <1>1, <1>2, Upwards DEF FieldList
<1>4. \E g : g = [i \in DOMAIN fs |-> Place(g, i)]
  BY <1>3 DEF S, FieldList
<1>5. Layout(v, fs) = CHOOSE g : g = [i \in DOMAIN fs |-> Place(g, i)]
  BY DEF Layout, EndOf, TypeOf
<1> HIDE DEF Place
<1>6. Layout(v, fs) = [i \in DOMAIN fs |-> Place(Layout(v, fs), i)]
  BY <1>4, <1>5
<1> QED
  BY <1>6 DEF Place

(* A member begins at or behind the end of the one before it.              *)
LEMMA MemberStarts ==
    ASSUME NEW v, NEW fs, FieldList(v, fs)
    PROVE  \A i \in DOMAIN fs :
              LET at == Layout(v, fs)
                  end == EndOf(v, fs, at, i - 1)
              IN /\ end \in Nat /\ at[i] \in Nat /\ end <= at[i]
                 /\ at[i] = LeastMultiple(end, Alignment[TypeOf(v, fs, i)])
                 /\ EndOf(v, fs, at, i) \in Nat /\ at[i] < EndOf(v, fs, at, i)
<1> DEFINE at == Layout(v, fs)
           S == {n \in Nat : n <= Len(fs) => EndOf(v, fs, at, n) \in Nat}
<1>1. DOMAIN fs = 1..Len(fs) /\ Len(fs) \in Nat
  BY DEF FieldList
<1>2. ASSUME NEW i \in DOMAIN fs, EndOf(v, fs, at, i - 1) \in Nat
      PROVE  /\ at[i] \in Nat /\ EndOf(v, fs, at, i - 1) <= at[i]
             /\ at[i] = LeastMultiple(EndOf(v, fs, at, i - 1), Alignment[TypeOf(v, fs, i)])
             /\ EndOf(v, fs, at, i) \in Nat /\ at[i] < EndOf(v, fs, at, i)
  <2>1. at[i] = LeastMultiple(EndOf(v, fs, at, i - 1), Alignment[TypeOf(v, fs, i)])
    BY LayoutDefined
  <2>2. Alignment[TypeOf(v, fs, i)] \in Powers /\ Size[TypeOf(v, fs, i)] \in Powers
    BY FieldTypes, Sizes
  <2>3. at[i] \in Nat /\ EndOf(v, fs, at, i - 1) <= at[i]
    <3> DEFINE e == EndOf(v, fs, at, i - 1)
               a == Alignment[TypeOf(v, fs, i)]
    <3>1. e \in Nat /\ a \in Powers /\ at[i] = LeastMultiple(e, a)
      BY <1>2, <2>1, <2>2
    <3> HIDE DEF e, a, at
    <3>2. at[i] \in e..(e + a - 1)
      BY <3>1, Multiple
    <3> QED
      BY <3>1, <3>2 DEF e
  <2>4. EndOf(v, fs, at, i) = at[i] + Size[TypeOf(v, fs, i)]
    BY <1>1 DEF EndOf
  <2> QED
    BY <2>1, <2>2, <2>3, <2>4 DEF Powers
<1> HIDE DEF at
<1>3. 0 \in S
  BY DEF EndOf
<1>4. ASSUME NEW n \in Nat, n \in S PROVE n + 1 \in S
  <2>1. ASSUME n + 1 <= Len(fs) PROVE EndOf(v, fs, at, n + 1) \in Nat
    <3>1. n + 1 \in DOMAIN fs /\ (n + 1) - 1 = n /\ n <= Len(fs)
      BY <1>1, <2>1
    <3> QED
      BY <3>1, <1>2, <1>4
  <2> QED
    BY <2>1
<1>5. \A n \in Nat : n \in S
  <2> HIDE DEF S
  <2> QED
    BY <1>3, <1>4, Upwards
<1>6. ASSUME NEW i \in DOMAIN fs PROVE EndOf(v, fs, at, i - 1) \in Nat
  <2>1. i - 1 \in Nat /\ i - 1 <= Len(fs)
    BY <1>1
  <2>2. i - 1 \in S
    BY <2>1, <1>5
  <2> QED
    BY <2>1, <2>2
<1> QED
  BY <1>2, <1>6 DEF at

(* Members are in the order of the fields and do not overlap.              *)
LEMMA MembersInOrder ==
    ASSUME NEW v, NEW fs, FieldList(v, fs), NEW i \in DOMAIN fs
    PROVE  \A j \in DOMAIN fs : i <= j =>
              EndOf(v, fs, Layout(v, fs), i) <= EndOf(v, fs, Layout(v, fs), j)
<1> DEFINE End_(j) == EndOf(v, fs, Layout(v, fs), j)
           S == {n \in Nat : n \in DOMAIN fs /\ i <= n => End_(i) <= End_(n)}
<1>1. DOMAIN fs = 1..Len(fs) /\ Len(fs) \in Nat
  BY DEF FieldList
<1>2. \A j \in DOMAIN fs : End_(j) \in Nat /\ End_(j - 1) \in Nat /\ End_(j - 1) <= End_(j)
  BY MemberStarts
<1> HIDE DEF End_
<1>3. 0 \in S
  BY <1>1
<1>4. ASSUME NEW n \in Nat, n \in S PROVE n + 1 \in S
  <2>1. ASSUME n + 1 \in DOMAIN fs, i <= n + 1 PROVE End_(i) <= End_(n + 1)
    <3>1. CASE i = n + 1
      BY <3>1, <1>2
    <3>2. CASE i <= n
      <4>1. n \in DOMAIN fs /\ (n + 1) - 1 = n
        BY <1>1, <2>1, <3>2
      <4>2. End_(i) <= End_(n)
        BY <1>4, <3>2, <4>1
      <4>3. End_(n) <= End_(n + 1)
        BY <1>2, <2>1, <4>1
      <4> QED
        BY <1>2, <2>1, <4>1, <4>2, <4>3
    <3> QED
      BY <3>1, <3>2, <2>1, <1>1
  <2> QED
    BY <2>1
<1>5. \A n \in Nat : n \in S
  <2> HIDE DEF S
  <2> QED
    BY <1>3, <1>4, Upwards
<1>6. \A j \in DOMAIN fs : i <= j => End_(i) <= End_(j)
  BY <1>1, <1>5
<1> QED
  BY <1>6 DEF End_

(* The struct is no shorter than its members.                              *)
LEMMA MembersInStruct ==
    ASSUME NEW v, NEW fs, FieldList(v, fs), NEW i \in DOMAIN fs
    PROVE  SizeOf(v, fs) \in Nat /\ EndOf(v, fs, Layout(v, fs), i) <= SizeOf(v, fs)
<1> DEFINE As == {Alignment[TypeOf(v, fs, j)] : j \in DOMAIN fs}
           strictest == CHOOSE a \in As : \A j \in DOMAIN fs : Alignment[TypeOf(v, fs, j)] <= a
           last == EndOf(v, fs, Layout(v, fs), Len(fs))
<1>1. DOMAIN fs = 1..Len(fs) /\ Len(fs) \in Nat /\ Len(fs) \in DOMAIN fs /\ i <= Len(fs)
  BY DEF FieldList
<1>2. \A j \in DOMAIN fs : Alignment[TypeOf(v, fs, j)] \in Powers
  BY FieldTypes, Sizes
<1>3. \E a \in As : \A j \in DOMAIN fs : Alignment[TypeOf(v, fs, j)] <= a
  <2>1. As \subseteq Powers /\ As # {}
    BY <1>1, <1>2
  <2> HIDE DEF As
  <2>2. \E a \in As : \A b \in As : b <= a
    <3>1. CASE 16 \in As
      BY <2>1, <3>1 DEF Powers
    <3>2. CASE 16 \notin As /\ 8 \in As
      BY <2>1, <3>2 DEF Powers
    <3>3. CASE 16 \notin As /\ 8 \notin As /\ 4 \in As
      BY <2>1, <3>3 DEF Powers
    <3>4. CASE As \subseteq {1, 2} /\ 2 \in As
      BY <3>4
    <3>5. CASE As \subseteq {1}
      <4>1. 1 \in As
        BY <2>1, <3>5
      <4> QED
        BY <3>5, <4>1
    <3> QED
      BY <2>1, <3>1, <3>2, <3>3, <3>4, <3>5 DEF Powers
  <2> QED
    BY <2>2 DEF As
<1>4. strictest \in Powers
  <2>1. strictest \in As
    BY <1>3
  <2> QED
    BY <2>1, <1>2
<1>5. SizeOf(v, fs) = LeastMultiple(last, strictest)
  BY <1>1 DEF SizeOf, EndOf, TypeOf
<1>6. last \in Nat /\ EndOf(v, fs, Layout(v, fs), i) <= last
      /\ EndOf(v, fs, Layout(v, fs), i) \in Nat
  BY <1>1, MemberStarts, MembersInOrder
<1> HIDE DEF last, strictest
<1>7. LeastMultiple(last, strictest) \in last..(last + strictest - 1)
  BY <1>4, <1>6, Multiple
<1> QED
  BY <1>5, <1>6, <1>7, <1>4 DEF Powers

(* A byte of the struct is one of the member that it lies in.              *)
LEMMA ByteOfMember ==
    ASSUME NEW v, NEW fs, FieldList(v, fs), NEW i \in DOMAIN fs,
           NEW o \in Layout(v, fs)[i]..(EndOf(v, fs, Layout(v, fs), i) - 1)
    PROVE  Memory(v, fs)[o] =
              <<i, IF fs[i] \in NetworkOrder
                   THEN Size[TypeOf(v, fs, i)] - 1 - (o - Layout(v, fs)[i])
                   ELSE o - Layout(v, fs)[i]>>
<1> DEFINE at == Layout(v, fs)
           In(j) == at[j] <= o /\ o < at[j] + Size[TypeOf(v, fs, j)]
           Cell(j) == <<j, IF fs[j] \in NetworkOrder
                           THEN Size[TypeOf(v, fs, j)] - 1 - (o - at[j])
                           ELSE o - at[j]>>
           k == CHOOSE j \in DOMAIN fs : In(j)
<1>1. DOMAIN fs = 1..Len(fs) /\ Len(fs) \in Nat
  BY DEF FieldList
<1>2. \A j \in DOMAIN fs : /\ EndOf(v, fs, at, j) = at[j] + Size[TypeOf(v, fs, j)]
                           /\ at[j] \in Nat /\ EndOf(v, fs, at, j) \in Nat
                           /\ EndOf(v, fs, at, j - 1) \in Nat
                           /\ EndOf(v, fs, at, j - 1) <= at[j]
  BY <1>1, MemberStarts DEF EndOf
<1>3. In(i) /\ o \in Nat
  BY <1>2
<1>4. o \in 0..(SizeOf(v, fs) - 1)
  BY <1>2, MembersInStruct
<1>5. Memory(v, fs)[o] = Cell(k)
  <2>1. \E j \in DOMAIN fs : In(j)
    BY <1>3
  <2>2. Memory(v, fs)[o] = IF \E j \in DOMAIN fs : In(j) THEN Cell(k) ELSE Pad
    BY <1>4 DEF Memory, TypeOf
  <2> QED
    BY <2>1, <2>2
<1>6. ASSUME NEW j \in DOMAIN fs, NEW h \in DOMAIN fs, In(j), In(h), j < h PROVE FALSE
  <2>1. h - 1 \in DOMAIN fs /\ j <= h - 1
    BY <1>1, <1>6
  <2>2. EndOf(v, fs, at, j) <= EndOf(v, fs, at, h - 1)
    BY <2>1, MembersInOrder
  <2>3. EndOf(v, fs, at, h - 1) <= at[h] /\ at[h] \in Nat /\ EndOf(v, fs, at, h - 1) \in Nat
    BY <1>2
  <2>4. o < EndOf(v, fs, at, j) /\ at[h] <= o /\ EndOf(v, fs, at, j) \in Nat
    BY <1>2, <1>6
  <2> HIDE DEF at
  <2> QED
    BY <1>3, <2>2, <2>3, <2>4
<1>7. k \in DOMAIN fs /\ In(k)
  BY <1>3
<1>8. k = i
  <2> HIDE DEF In, k
  <2> QED
    BY <1>1, <1>3, <1>6, <1>7
<1> HIDE DEF k
<1> QED
  BY <1>5, <1>8

-----------------------------------------------------------------------------
(* The decoder against the layout.                                         *)

(* The table's byte order is the kernel's, but for LPort.                  *)
LEMMA ByteOrder ==
    ASSUME NEW v \in Versions, NEW f \in DOMAIN fieldsModel4, f # "LPort"
    PROVE  LET p == Model(v)[f]
           IN (p.BigEndian \/ p.IP \/ p.CType = "char") <=> f \in NetworkOrder
<1>1. /\ DOMAIN fieldsModel4["SAddr"] = {"CType", "BigEndian", "IP"}
      /\ "SAddr" \in DOMAIN fieldsModel4 /\ fieldsModel4["SAddr"].IP = TRUE
  BY DEF fieldsModel4, Attrs
<1>2. f # "SAddr" => fieldsModel6[f] = fieldsModel4[f]
  BY DEF fieldsModel6
<1>3. fieldsModel6["SAddr"].IP = TRUE
  BY <1>1 DEF fieldsModel6
<1>4. CASE f = "SAddr"
  <2>1. Model(v)[f].IP = TRUE
    BY <1>1, <1>3, <1>4 DEF Model
  <2> QED
    BY <2>1, <1>4 DEF NetworkOrder
<1>5. CASE f \in {"DPort", "Task"}
  <2>1. fieldsModel4["DPort"].BigEndian = TRUE /\ fieldsModel4["Task"].CType = "char"
    BY DEF fieldsModel4, Attrs
  <2>2. Model(v)[f] = fieldsModel4[f]
    BY <1>2, <1>5 DEF Model
  <2> QED
    BY <2>1, <2>2, <1>5 DEF NetworkOrder
<1>6. CASE f \notin {"SAddr", "DPort", "Task"}
  <2>1. /\ fieldsModel4[f].BigEndian = FALSE /\ fieldsModel4[f].IP = FALSE
        /\ fieldsModel4[f].CType # "char"
    BY <1>6 DEF fieldsModel4, Attrs
  <2>2. Model(v)[f] = fieldsModel4[f]
    BY <1>2, <1>6 DEF Model
  <2> QED
    BY <2>1, <2>2, <1>6 DEF NetworkOrder
<1> QED
  BY <1>4, <1>5, <1>6

(* Where the member before the decoder's next one ends.                    *)
DecodedEnd == EndOf(rec[1], fields, Layout(rec[1], fields), next - 1)

(* The decoder is where the member before its next one ends, and what it   *)
(* wrote are the values of the fields before.                              *)
ReadInv ==
    /\ crashed = FALSE
    /\ next # 0 =>
         /\ c = DecodedEnd
         /\ \A i \in DOMAIN out : i \in DOMAIN fields /\ fields[i] # "LPort" =>
                                     out[i] = Value(rec[1], fields, i)

(* What is being decoded is a list of fields of a version.                 *)
LEMMA RecordFields ==
    ASSUME SampleInv, DecoderInv, rec # Nothing
    PROVE  FieldList(rec[1], fields)
<1>1. /\ Tracepoints \in Seq(TracepointConf) /\ rec[2] \in DOMAIN Tracepoints
      /\ rec[1] \in Blocks(rec[2])
  BY DEF DecoderInv, SampleInv, OneUser
<1>2. rec[1] \in Versions /\ fields \in Seq(DOMAIN fieldsModel4) /\ fields # <<>>
  BY <1>1, TracepointType DEF fields
<1> QED
  BY <1>2 DEF FieldList

(* The next member lies where the decoder reads, and in the right order.   *)
LEMMA FieldRead ==
    ASSUME SampleInv, DecoderInv, ReadInv, rec # Nothing, next \in DOMAIN fields
    PROVE  LET t == prop.CType
               at == Aligned(t)
           IN /\ at + Size[t] <= SizeOf(rec[1], fields)
              /\ at + Size[t] = EndOf(rec[1], fields, Layout(rec[1], fields), next)
              /\ fields[next] # "LPort" =>
                   Read(t, at, Memory(rec[1], fields)) = Value(rec[1], fields, next)
<1> DEFINE v == rec[1]
           lay == Layout(v, fields)
           t == TypeOf(v, fields, next)
           data == Memory(v, fields)
<1>1. FieldList(v, fields)
  BY RecordFields
<1>2. /\ DOMAIN fields = 1..Len(fields) /\ next \in Nat \ {0} /\ v \in Versions
      /\ fields[next] \in DOMAIN fieldsModel4
  BY <1>1 DEF FieldList
<1>3. prop = Model(v)[fields[next]] /\ prop.CType = t /\ t \in Types
  BY <1>1, FieldTypes DEF prop, DecoderVersion, TypeOf
<1>4. /\ lay[next] \in Nat /\ EndOf(v, fields, lay, next) = lay[next] + Size[t]
      /\ EndOf(v, fields, lay, next) <= SizeOf(v, fields)
  BY <1>1, <1>2, MemberStarts, MembersInStruct DEF EndOf
<1>5. Aligned(t) = lay[next]
  <2>1. c = EndOf(v, fields, lay, next - 1) /\ c \in Nat
    BY <1>2 DEF ReadInv, DecodedEnd, DecoderInv
  <2>2. lay[next] = LeastMultiple(c, Alignment[t])
    BY <1>1, <2>1, MemberStarts
  <2> HIDE DEF lay, t
  <2> QED
    BY <1>3, <2>1, <2>2, PaddingAgrees
<1>6. ASSUME fields[next] # "LPort"
      PROVE  Read(t, lay[next], data) = Value(v, fields, next)
  <2> DEFINE s == Size[t]
  <2>1. s \in Powers
    BY <1>3, Sizes
  <2>2. \A o \in lay[next]..(lay[next] + s - 1) :
           data[o] = <<next, IF fields[next] \in NetworkOrder THEN s - 1 - (o - lay[next])
                                                              ELSE o - lay[next]>>
    <3>1. lay[next] + s - 1 = EndOf(v, fields, lay, next) - 1
      BY <1>4, <2>1 DEF Powers
    <3> QED
      BY <1>1, <1>2, <3>1, ByteOfMember
  <2>3. (prop.BigEndian \/ prop.IP \/ t = "char") <=> fields[next] \in NetworkOrder
    BY <1>2, <1>3, <1>6, ByteOrder
  <2>4. Value(v, fields, next) = [b \in 1..s |-> <<next, s - b>>]
    BY DEF Value, TypeOf
  <2> HIDE DEF lay, data, t
  <2>5. Read(t, lay[next], data) =
           [b \in 1..s |-> IF fields[next] \in NetworkOrder THEN data[lay[next] + b - 1]
                                                            ELSE data[lay[next] + s - b]]
    <3>1. Read(t, lay[next], data) =
           [b \in 1..s |-> IF prop.BigEndian \/ prop.IP \/ t = "char"
                           THEN data[lay[next] + b - 1] ELSE data[lay[next] + s - b]]
      BY DEF Read
    <3> QED
      BY <2>3, <3>1
  <2>6. ASSUME NEW b \in 1..s
        PROVE  (IF fields[next] \in NetworkOrder THEN data[lay[next] + b - 1]
                                                 ELSE data[lay[next] + s - b])
                 = <<next, s - b>>
    <3>0. s \in Nat /\ b \in Nat /\ lay[next] \in Nat
      BY <1>4, <2>1 DEF Powers
    <3> HIDE DEF s
    <3>1. CASE fields[next] \in NetworkOrder
      <4>1. lay[next] + b - 1 \in lay[next]..(lay[next] + s - 1)
        BY <3>0
      <4>2. data[lay[next] + b - 1] = <<next, s - 1 - ((lay[next] + b - 1) - lay[next])>>
        BY <2>2, <3>1, <4>1
      <4>3. s - 1 - ((lay[next] + b - 1) - lay[next]) = s - b
        BY <3>0
      <4> QED
        BY <3>1, <4>2, <4>3
    <3>2. CASE fields[next] \notin NetworkOrder
      <4>1. lay[next] + s - b \in lay[next]..(lay[next] + s - 1)
        BY <3>0
      <4>2. data[lay[next] + s - b] = <<next, (lay[next] + s - b) - lay[next]>>
        BY <2>2, <3>2, <4>1
      <4>3. (lay[next] + s - b) - lay[next] = s - b
        BY <3>0
      <4> QED
        BY <3>2, <4>2, <4>3
    <3> QED
      BY <3>1, <3>2
  <2> HIDE DEF s
  <2> QED
    BY <2>4, <2>5, <2>6
<1> HIDE DEF v, lay, t, data
<1> QED
  BY <1>3, <1>4, <1>5, <1>6 DEF v, lay, data

(* Nothing has been read at first.                                         *)
LEMMA ReadInit == Init => ReadInv
BY DEF Init, ReadInv

(* The tracepoint, the record and the decoder stay as they are.            *)
LEMMA ReadKept ==
    ASSUME ReadInv, crashed' = crashed,
           next' # 0 => UNCHANGED <<Tracepoints, rec, c, next, out>>
    PROVE  ReadInv'
<1>1. next' # 0 => fields' = fields
  BY DEF fields
<1> QED
  BY <1>1 DEF ReadInv, DecodedEnd

(* Every step leaves the decoder at the end of the field that it read      *)
(* last.                                                                   *)
LEMMA ReadStep ==
    ASSUME SampleInv, DecoderInv, ReadInv, [Next]_vars
    PROVE  ReadInv'
<1>1. CASE Start
  <2>1. rec = Nothing /\ UNCHANGED <<rec, c, next, out, crashed>>
    BY <1>1 DEF Start, decodeVars, DecoderInv
  <2>2. next = 0
    BY <2>1 DEF DecoderInv
  <2> QED
    BY <2>1, <2>2, ReadKept
<1>2. CASE GetTracepointBPFCode
  BY <1>2, ReadKept DEF GetTracepointBPFCode, decodeVars
<1>3. ASSUME NEW s \in Socks, NEW v \in Versions, Open(s, v) PROVE ReadInv'
  BY <1>3, ReadKept DEF Open, codeVars, decodeVars
<1>4. ASSUME NEW s \in Socks, Close(s) PROVE ReadInv'
  BY <1>4, ReadKept DEF Close, codeVars, decodeVars
<1>5. ASSUME rec = Nothing, UNCHANGED decodeVars PROVE ReadInv'
  <2>1. next' = 0 /\ crashed' = crashed
    BY <1>5 DEF DecoderInv, decodeVars
  <2> QED
    BY <2>1, ReadKept
<1>11. ASSUME NEW p \in CPUs, NEW i \in DOMAIN Tracepoints, NEW s \in Socks, Raised(p, i, s)
       PROVE  ReadInv'
  BY <1>5, <1>11 DEF Raised, Unsampled, LookUp, Full, ToSample, Event
<1>12. ASSUME NEW p \in CPUs, Handler(p) PROVE ReadInv'
  BY <1>5, <1>12 DEF Handler, Below, Reached, Increment, Delete, Submit, GoesTo, At
<1>6. CASE Begin
  <2>1. /\ UNCHANGED <<Tracepoints, rec, crashed>> /\ c' = 0 /\ next' = 1 /\ out' = <<>>
    BY <1>6 DEF Begin, codeVars
  <2>2. c' = DecodedEnd'
    BY <2>1 DEF DecodedEnd, EndOf
  <2>3. DOMAIN out' = {}
    BY <2>1
  <2> QED
    BY <2>1, <2>2, <2>3 DEF ReadInv
<1>7. CASE Field
  <2> DEFINE t == prop.CType
             at == Aligned(t)
             x == Read(t, at, Memory(rec[1], fields))
  <2>1. rec # Nothing /\ next \in DOMAIN fields /\ UNCHANGED <<Tracepoints, rec>>
    BY <1>7 DEF Field, codeVars
  <2>2. fields' = fields /\ next \in Nat \ {0}
    BY <2>1, RecordFields DEF fields, FieldList
  <2>3. /\ at + Size[t] <= SizeOf(rec[1], fields)
        /\ at + Size[t] = EndOf(rec[1], fields, Layout(rec[1], fields), next)
        /\ fields[next] # "LPort" => x = Value(rec[1], fields, next)
    BY <2>1, FieldRead
  <2>4. at + Size[t] \in Nat /\ SizeOf(rec[1], fields) \in Nat
    BY <2>1, <2>3, RecordFields, MemberStarts, MembersInStruct
  <2>5. /\ out' = Append(out, x) /\ c' = at + Size[t] /\ next' = next + 1
        /\ crashed' = crashed
    <3>1. ~ (at + Size[t] > SizeOf(rec[1], fields))
      BY <2>3, <2>4
    <3> QED
      BY <1>7, <3>1 DEF Field
  <2>6. c' = DecodedEnd'
    <3>1. next' - 1 = next
      BY <2>2, <2>5
    <3> HIDE DEF at, t
    <3> QED
      BY <2>1, <2>2, <2>3, <2>5, <3>1 DEF DecodedEnd
  <2> HIDE DEF x
  <2>7. out \in Seq({out[i] : i \in DOMAIN out}) /\ Len(out) = next - 1
    BY <2>2 DEF DecoderInv
  <2>8. DOMAIN out' = 1..next /\ out'[next] = x /\ \A i \in 1..(next - 1) : out'[i] = out[i]
    <3>1. out \in Seq({out[i] : i \in DOMAIN out} \cup {x})
      BY <2>7, SeqDef
    <3> DEFINE S == {out[i] : i \in DOMAIN out} \cup {x}
    <3>2. out \in Seq(S) /\ x \in S
      BY <3>1
    <3> HIDE DEF S
    <3> QED
      BY <2>2, <2>5, <2>7, <3>2, AppendProperties
  <2>9. ASSUME NEW i \in DOMAIN out', i \in DOMAIN fields, fields[i] # "LPort"
        PROVE  out'[i] = Value(rec[1], fields, i)
    <3>1. i = next \/ i \in 1..(next - 1)
      BY <2>2, <2>8
    <3>2. DOMAIN out = 1..(next - 1)
      BY <2>7
    <3> QED
      BY <2>2, <2>3, <2>8, <2>9, <3>1, <3>2 DEF ReadInv
  <2> HIDE DEF at, t
  <2>10. \A i \in DOMAIN out' : i \in DOMAIN fields' /\ fields'[i] # "LPort" =>
                                   out'[i] = Value(rec[1], fields, i)'
    BY <2>1, <2>2, <2>9
  <2> QED
    BY <2>5, <2>6, <2>10 DEF ReadInv
<1>8. CASE Marshal
  BY <1>8, ReadKept DEF Marshal, codeVars
<1>9. CASE End
  BY <1>9, ReadKept DEF End
<1>10. CASE UNCHANGED vars
  BY <1>10, ReadKept DEF vars, codeVars, decodeVars
<1> QED
  BY <1>1, <1>2, <1>3, <1>4, <1>6, <1>7, <1>8, <1>9, <1>10, <1>11, <1>12 DEF Next

(* For every list of fields the decoder reads each value where the         *)
(* compiler put it and never beyond the end of the record.                 *)
THEOREM EveryValueRead == Spec => []ValuesRead
<1>1. ReadInv => ValuesRead
  BY DEF ReadInv, ValuesRead
<1> QED
  BY <1>1, SampleInit, SampleStep, CodeInit, CodeStep, DecoderInit, DecoderStep, ReadInit,
     ReadStep, PTL DEF Spec

-----------------------------------------------------------------------------
(* The text of a record and its readers.                                   *)

Symbols == [is : {"bracket", "comma", "quote", "time", "key", "value"}, of : Nat]

(* A function of the first n numbers is a sequence of length n.            *)
LEMMA CountedSeq ==
    ASSUME NEW S, NEW n \in Nat, NEW s \in [1..n -> S]
    PROVE  s \in Seq(S) /\ Len(s) = n
<1>1. s \in Seq(S)
  BY SeqDef
<1>2. DOMAIN s = 1..n /\ DOMAIN s = 1..Len(s) /\ Len(s) \in Nat
  BY <1>1
<1> QED
  BY <1>1, <1>2

(* What texts are made of.                                                 *)
LEMMA SymbolsMade ==
    /\ Comma \in Symbols /\ Quote \in Symbols /\ Bracket \in Symbols
    /\ Timestamp \in Seq(Symbols) /\ Len(Timestamp) = 10
    /\ \A n \in Nat : Symbol("value", n) \in Symbols /\ Symbol("key", n) \in Symbols
    /\ \A n \in Nat : Symbol("value", n) # Comma
    /\ Quote # Comma
<1>1. \A n \in Nat : /\ Symbol("value", n) \in Symbols /\ Symbol("key", n) \in Symbols
                     /\ Symbol("time", n) \in Symbols
  BY DEF Symbol, Symbols
<1>2. Timestamp = [j \in 1..10 |-> Symbol("time", 0)]
  BY DEF Timestamp, Repeat
<1>3. Timestamp \in Seq(Symbols) /\ Len(Timestamp) = 10
  <2>1. Symbol("time", 0) \in Symbols
    BY <1>1
  <2>2. Timestamp \in [1..10 -> Symbols]
    BY <1>2, <2>1
  <2> QED
    BY <2>2, CountedSeq
<1>4. Comma \in Symbols /\ Quote \in Symbols /\ Bracket \in Symbols
  BY DEF Comma, Quote, Bracket, Symbol, Symbols
<1>5. Quote # Comma /\ \A n \in Nat : Symbol("value", n) # Comma
  BY DEF Comma, Quote, Symbol
<1> QED
  BY <1>1, <1>3, <1>4, <1>5

(* Behind a text's first part comes its second.                            *)
LEMMA Parts ==
    ASSUME NEW S, NEW a \in Seq(S), NEW b \in Seq(S)
    PROVE  Behind(a \o b, Len(a)) = b /\ NextBytes(a \o b, Len(a)) = a
<1> DEFINE t == a \o b
<1>1. /\ t \in Seq(S) /\ Len(t) = Len(a) + Len(b) /\ Len(a) \in Nat /\ Len(b) \in Nat
      /\ \A i \in 1..Len(a) : t[i] = a[i]
      /\ \A i \in 1..Len(b) : t[Len(a) + i] = b[i]
  OBVIOUS
<1> HIDE DEF t
<1>2. Behind(t, Len(a)) = b
  <2> DEFINE r == SubSeq(t, Len(a) + 1, Len(t))
  <2>1. \A i \in (Len(a) + 1)..Len(t) : t[i] \in S
    BY <1>1
  <2>2. /\ r \in Seq(S) /\ Len(r) = Len(b)
        /\ \A i \in 1..Len(b) : r[i] = t[Len(a) + i]
    BY <1>1, <2>1
  <2> HIDE DEF r
  <2>3. r = b
    BY <1>1, <2>2, SeqEqual
  <2> QED
    BY <2>3 DEF r, Behind
<1>3. NextBytes(t, Len(a)) = a
  <2> DEFINE r == SubSeq(t, 1, Len(a))
  <2>1. \A i \in 1..Len(a) : t[i] \in S
    BY <1>1
  <2>2. /\ r \in Seq(S) /\ Len(r) = Len(a) /\ \A i \in 1..Len(a) : r[i] = t[i]
    BY <1>1, <2>1
  <2>3. NextBytes(t, Len(a)) = r
    BY <1>1 DEF NextBytes
  <2> HIDE DEF r
  <2>4. r = a
    BY <1>1, <2>2, SeqEqual
  <2> QED
    BY <2>3, <2>4
<1> QED
  BY <1>2, <1>3 DEF t

(* What is behind a part, or is read up to a comma, is text again.         *)
LEMMA ReadersType ==
    ASSUME NEW S, NEW s \in Seq(S)
    PROVE  /\ \A n \in Nat : Behind(s, n) \in Seq(S)
           /\ ReadBytes(s) \in Seq(S)
<1>1. ASSUME NEW n \in Nat PROVE Behind(s, n) \in Seq(S)
  BY DEF Behind
<1>2. ReadBytes(s) \in Seq(S)
  <2> DEFINE commas == {j \in DOMAIN s : s[j] = Comma}
             first == CHOOSE j \in commas : \A k \in commas : j <= k
  <2>1. CASE commas = {}
    BY <2>1 DEF ReadBytes
  <2>2. CASE commas # {}
    <3>1. commas \in SUBSET Nat
      OBVIOUS
    <3>2. \E j \in commas : \A k \in commas : j <= k
      <4> HIDE DEF commas
      <4> QED
        BY <2>2, <3>1, LeastNumber
    <3>3. first \in commas
      <4> HIDE DEF commas
      <4> QED
        BY <3>2
    <3>4. first \in 1..Len(s)
      BY <3>3
    <3>5. ReadBytes(s) = NextBytes(s, first)
      BY <2>2 DEF ReadBytes
    <3> HIDE DEF first
    <3>6. NextBytes(s, first) \in Seq(S)
      BY <3>4 DEF NextBytes
    <3> QED
      BY <3>5, <3>6
  <2> QED
    BY <2>1, <2>2
<1> QED
  BY <1>1, <1>2

(* A value without a comma is read up to the one behind it.                *)
LEMMA ReadValue ==
    ASSUME NEW v \in Seq(Symbols), \A i \in 1..Len(v) : v[i] # Comma, NEW r \in Seq(Symbols)
    PROVE  ReadBytes((v \o <<Comma>>) \o r) = v \o <<Comma>>
<1> DEFINE cell == v \o <<Comma>>
           t == cell \o r
           commas == {j \in DOMAIN t : t[j] = Comma}
           first == CHOOSE j \in commas : \A k \in commas : j <= k
<1>1. /\ cell \in Seq(Symbols) /\ Len(cell) = Len(v) + 1 /\ Len(v) \in Nat
      /\ \A i \in 1..Len(v) : cell[i] = v[i]
      /\ cell[Len(v) + 1] = Comma
  BY SymbolsMade
<1> HIDE DEF cell
<1>2. /\ t \in Seq(Symbols) /\ Len(t) = Len(cell) + Len(r) /\ Len(r) \in Nat
      /\ \A i \in 1..Len(cell) : t[i] = cell[i]
  BY <1>1
<1> HIDE DEF t
<1>3. Len(cell) \in commas
  BY <1>1, <1>2
<1>4. \A k \in commas : Len(cell) <= k
  BY <1>1, <1>2
<1>5. first = Len(cell)
  <2>1. first \in commas /\ \A k \in commas : first <= k
    <3> HIDE DEF commas
    <3> QED
      BY <1>3, <1>4
  <2>2. commas \subseteq Nat
    BY <1>2
  <2> HIDE DEF commas, first
  <2> QED
    BY <1>3, <1>4, <2>1, <2>2
<1>6. ReadBytes(t) = NextBytes(t, first)
  BY <1>3 DEF ReadBytes
<1> HIDE DEF first
<1>7. NextBytes(t, Len(cell)) = cell
  BY <1>1, Parts DEF t
<1> QED
  BY <1>5, <1>6, <1>7 DEF t, cell

(* An element put behind a sequence.                                       *)
LEMMA PutBehind ==
    ASSUME NEW S, NEW s \in Seq(S), NEW x \in S, NEW t \in Seq(S), Len(t) = Len(s) + 1,
           t[Len(s) + 1] = x, \A i \in 1..Len(s) : t[i] = s[i]
    PROVE  s \o <<x>> = t
<1> DEFINE r == s \o <<x>>
<1>1. /\ r \in Seq(S) /\ Len(r) = Len(s) + 1 /\ r[Len(s) + 1] = x /\ Len(s) \in Nat
      /\ \A i \in 1..Len(s) : r[i] = s[i]
  OBVIOUS
<1> HIDE DEF r
<1>2. \A i \in 1..Len(r) : r[i] = t[i]
  BY <1>1
<1>3. r = t
  BY <1>1, <1>2, SeqEqual
<1> QED
  BY <1>3 DEF r

(* Symbols put together one by one.                                        *)
LEMMA PairOf ==
    ASSUME NEW S, NEW a \in S, NEW b \in S
    PROVE  <<a>> \o <<b>> = <<a, b>>
<1> DEFINE s == <<a>>
           t == <<a, b>>
<1>1. /\ s \in Seq(S) /\ t \in Seq(S) /\ Len(s) = 1 /\ Len(t) = 2 /\ t[2] = b
      /\ \A i \in 1..1 : t[i] = s[i]
  OBVIOUS
<1>3. /\ Len(t) = Len(s) + 1
      /\ t[Len(s) + 1] = b
      /\ \A i \in 1..Len(s) : t[i] = s[i]
  BY <1>1
<1> HIDE DEF s, t
<1>2. s \o <<b>> = t
  BY <1>1, <1>3, PutBehind
<1> QED
  BY <1>2 DEF s, t

(* The same with a third one.                                              *)
LEMMA TripleOf ==
    ASSUME NEW S, NEW a \in S, NEW b \in S, NEW d \in S
    PROVE  <<a, b>> \o <<d>> = <<a, b, d>>
<1> DEFINE s == <<a, b>>
           t == <<a, b, d>>
<1>1. /\ s \in Seq(S) /\ t \in Seq(S) /\ Len(s) = 2 /\ Len(t) = 3 /\ t[3] = d
      /\ \A i \in 1..2 : t[i] = s[i]
  OBVIOUS
<1>3. /\ Len(t) = Len(s) + 1
      /\ t[Len(s) + 1] = d
      /\ \A i \in 1..Len(s) : t[i] = s[i]
  BY <1>1
<1> HIDE DEF s, t
<1>2. s \o <<d>> = t
  BY <1>1, <1>3, PutBehind
<1> QED
  BY <1>2 DEF s, t

(* The same with a fourth one.                                             *)
LEMMA QuadrupleOf ==
    ASSUME NEW S, NEW a \in S, NEW b \in S, NEW d \in S, NEW e \in S
    PROVE  <<a, b, d>> \o <<e>> = <<a, b, d, e>>
<1> DEFINE s == <<a, b, d>>
           t == <<a, b, d, e>>
<1>1. /\ s \in Seq(S) /\ t \in Seq(S) /\ Len(s) = 3 /\ Len(t) = 4 /\ t[4] = e
      /\ \A i \in 1..3 : t[i] = s[i]
  OBVIOUS
<1>3. /\ Len(t) = Len(s) + 1
      /\ t[Len(s) + 1] = e
      /\ \A i \in 1..Len(s) : t[i] = s[i]
  BY <1>1
<1> HIDE DEF s, t
<1>2. s \o <<e>> = t
  BY <1>1, <1>3, PutBehind
<1> QED
  BY <1>2 DEF s, t

(* Names of fields, in the order of a list.                                *)
FieldNames(names) == names \in Seq(DOMAIN fieldsModel4)

(* A value in front of its comma.                                          *)
CellText(i, name, inTask) == ValueText(i, name, inTask) \o <<Comma>>

(* A key is as long as the readers take it to be.                          *)
LEMMA KeyLength ==
    ASSUME NEW i \in Nat, NEW name, Len(name) \in Nat
    PROVE  /\ KeyText(i, name) \in Seq(Symbols)
           /\ Len(KeyText(i, name)) = keyLen(name) /\ keyLen(name) \in Nat
<1>1. KeyText(i, name) = [j \in 1..(Len(name) + 3) |-> Symbol("key", i)]
  BY DEF KeyText, Repeat
<1>2. KeyText(i, name) \in [1..(Len(name) + 3) -> Symbols] /\ Len(name) + 3 \in Nat
  BY <1>1, SymbolsMade
<1> QED
  BY <1>2, CountedSeq DEF keyLen

(* What stands for a value.                                                *)
LEMMA ValueParts ==
    ASSUME NEW i \in Nat, NEW name, NEW inTask \in BOOLEAN
    PROVE  /\ ValueText(i, name, inTask) \in Seq(Symbols)
           /\ CellText(i, name, inTask) \in Seq(Symbols)
           /\ ~inTask \/ name # "Task" =>
                /\ ValueText(i, name, inTask) = ValueText(i, name, FALSE)
                /\ \A j \in 1..Len(ValueText(i, name, FALSE)) :
                      ValueText(i, name, FALSE)[j] # Comma
           /\ name \in isString =>
                CellText(i, name, FALSE) = <<Quote, Symbol("value", i), Quote, Comma>>
           /\ name \notin isString =>
                CellText(i, name, FALSE) = <<Symbol("value", i), Comma>>
<1> DEFINE x == Symbol("value", i)
           y == IF inTask /\ name = "Task" THEN <<Comma>> \o <<x>> ELSE <<>>
<1>1. /\ x \in Symbols /\ Quote \in Symbols /\ Comma \in Symbols
      /\ x # Comma /\ Quote # Comma
  BY SymbolsMade
<1>2. CASE name \notin isString
  <2>1. ValueText(i, name, inTask) = <<x>> /\ ValueText(i, name, FALSE) = <<x>>
    BY <1>2 DEF ValueText
  <2> HIDE DEF x
  <2>2. CellText(i, name, FALSE) = <<x, Comma>>
    BY <1>1, <2>1, PairOf DEF CellText
  <2>3. /\ <<x>> \in Seq(Symbols) /\ \A j \in 1..Len(<<x>>) : <<x>>[j] # Comma
        /\ <<x>> \o <<Comma>> \in Seq(Symbols)
    BY <1>1
  <2> QED
    BY <1>2, <2>1, <2>2, <2>3 DEF CellText, x
<1>3. CASE name \in isString
  <2>1. ValueText(i, name, inTask) = ((<<Quote>> \o <<x>>) \o y) \o <<Quote>>
    BY <1>3 DEF ValueText
  <2>2. ValueText(i, name, FALSE) = ((<<Quote>> \o <<x>>) \o <<>>) \o <<Quote>>
    BY <1>3 DEF ValueText
  <2>3. ~inTask \/ name # "Task" => y = <<>>
    OBVIOUS
  <2>4. y \in Seq(Symbols)
    <3> HIDE DEF x
    <3> QED
      BY <1>1
  <2> HIDE DEF x, y
  <2>5. <<Quote>> \o <<x>> = <<Quote, x>> /\ <<Quote, x>> \in Seq(Symbols)
    BY <1>1, PairOf
  <2>6. <<Quote, x>> \o <<>> = <<Quote, x>>
    BY <2>5
  <2>7. ValueText(i, name, FALSE) = <<Quote, x, Quote>>
    BY <1>1, <2>2, <2>5, <2>6, TripleOf
  <2>8. CellText(i, name, FALSE) = <<Quote, x, Quote, Comma>>
    BY <1>1, <2>7, QuadrupleOf DEF CellText
  <2>9. \A j \in 1..Len(<<Quote, x, Quote>>) : <<Quote, x, Quote>>[j] # Comma
    BY <1>1
  <2>10. ValueText(i, name, inTask) \in Seq(Symbols)
    BY <1>1, <2>1, <2>4, <2>5
  <2>11. CellText(i, name, inTask) \in Seq(Symbols)
    BY <1>1, <2>10 DEF CellText
  <2>12. ~inTask \/ name # "Task" => ValueText(i, name, inTask) = ValueText(i, name, FALSE)
    BY <2>1, <2>2, <2>3
  <2> QED
    BY <1>3, <2>7, <2>8, <2>9, <2>10, <2>11, <2>12 DEF x
<1> QED
  BY <1>2, <1>3

(* The text up to field i, as the decoder writes it.                       *)
Written(u, names, inTask) ==
    u = [i \in 0..Len(names) |->
           IF i = 0 THEN <<Bracket>>
           ELSE u[i - 1] \o KeyText(i, names[i]) \o ValueText(i, names[i], inTask) \o <<Comma>>]

(* The text is the last of the prefixes with the timestamp behind it.      *)
LEMMA TextDefined ==
    ASSUME NEW names, FieldNames(names), NEW inTask
    PROVE  \E u : /\ Written(u, names, inTask)
                  /\ Text(names, inTask) = u[Len(names)] \o KeyText(0, "Timestamp")
                                             \o Timestamp \o <<Bracket>>
<1> DEFINE After(g, i) == IF i = 0 THEN <<Bracket>>
                          ELSE g[i - 1] \o KeyText(i, names[i])
                                 \o ValueText(i, names[i], inTask) \o <<Comma>>
           S == {n \in Nat : \E g : g = [i \in 0..n |-> After(g, i)]}
<1>1. 0 \in S
  <2> DEFINE g == [i \in 0..0 |-> <<Bracket>>]
  <2>1. g = [i \in 0..0 |-> After(g, i)]
    OBVIOUS
  <2> HIDE DEF g, After
  <2> QED
    BY <2>1
<1>2. ASSUME NEW n \in Nat, n \in S PROVE n + 1 \in S
  <2>1. PICK g : g = [i \in 0..n |-> After(g, i)]
    BY <1>2
  <2> DEFINE h == [i \in 0..(n + 1) |-> IF i \in 0..n THEN g[i] ELSE After(g, n + 1)]
  <2>2. \A i \in 1..(n + 1) : h[i - 1] = g[i - 1]
    OBVIOUS
  <2> HIDE DEF h
  <2>3. \A i \in 0..(n + 1) : After(h, i) = After(g, i)
    BY <2>2
  <2> HIDE DEF After
  <2>4. \A i \in 0..(n + 1) : h[i] = After(h, i)
    BY <2>1, <2>3 DEF h
  <2>5. h = [i \in 0..(n + 1) |-> After(h, i)]
    BY <2>4 DEF h
  <2> QED
    BY <2>5
<1> HIDE DEF S
<1>3. Len(names) \in S
  BY <1>1, <1>2, Upwards DEF FieldNames
<1> DEFINE u == CHOOSE g : g = [i \in 0..Len(names) |-> After(g, i)]
<1>4. u = [i \in 0..Len(names) |-> After(u, i)]
  <2> HIDE DEF After
  <2> QED
    BY <1>3 DEF S
<1>5. Text(names, inTask) = u[Len(names)] \o KeyText(0, "Timestamp") \o Timestamp \o <<Bracket>>
  BY DEF Text
<1>6. Written(u, names, inTask)
  <2> HIDE DEF u
  <2> QED
    BY <1>4 DEF Written
<1> HIDE DEF u
<1> QED
  BY <1>5, <1>6

(* Every prefix is text, and grows by a key and a cell.                    *)
LEMMA WrittenType ==
    ASSUME NEW names, FieldNames(names), NEW inTask \in BOOLEAN,
           NEW u, Written(u, names, inTask)
    PROVE  /\ u[0] = <<Bracket>>
           /\ \A i \in 0..Len(names) : u[i] \in Seq(Symbols)
           /\ \A i \in 1..Len(names) :
                 /\ KeyText(i, names[i]) \in Seq(Symbols)
                 /\ Len(KeyText(i, names[i])) = keyLen(names[i])
                 /\ CellText(i, names[i], inTask) \in Seq(Symbols)
                 /\ u[i] = u[i - 1] \o (KeyText(i, names[i]) \o CellText(i, names[i], inTask))
<1> DEFINE S == {n \in Nat : n <= Len(names) => u[n] \in Seq(Symbols)}
<1>1. Len(names) \in Nat /\ \A i \in 1..Len(names) : Len(names[i]) \in Nat
  BY NamesAssumption DEF FieldNames
<1>2. \A i \in 1..Len(names) :
         /\ KeyText(i, names[i]) \in Seq(Symbols)
         /\ Len(KeyText(i, names[i])) = keyLen(names[i])
         /\ ValueText(i, names[i], inTask) \in Seq(Symbols)
         /\ CellText(i, names[i], inTask) \in Seq(Symbols)
  <2> SUFFICES ASSUME NEW i \in 1..Len(names)
               PROVE  /\ KeyText(i, names[i]) \in Seq(Symbols)
                      /\ Len(KeyText(i, names[i])) = keyLen(names[i])
                      /\ ValueText(i, names[i], inTask) \in Seq(Symbols)
                      /\ CellText(i, names[i], inTask) \in Seq(Symbols)
    OBVIOUS
  <2>1. i \in Nat /\ Len(names[i]) \in Nat
    BY <1>1
  <2> QED
    BY <2>1, KeyLength, ValueParts
<1>3. u[0] = <<Bracket>>
  BY <1>1 DEF Written
<1>4. ASSUME NEW i \in 1..Len(names), u[i - 1] \in Seq(Symbols)
      PROVE  /\ u[i] \in Seq(Symbols)
             /\ u[i] = u[i - 1] \o (KeyText(i, names[i]) \o CellText(i, names[i], inTask))
  <2> DEFINE a == u[i - 1]
             k == KeyText(i, names[i])
             x == ValueText(i, names[i], inTask)
             e == <<Comma>>
  <2>1. u[i] = ((a \o k) \o x) \o e
    <3>1. i \in 0..Len(names) /\ i # 0
      BY <1>1
    <3> QED
      BY <3>1 DEF Written
  <2>2. a \in Seq(Symbols) /\ k \in Seq(Symbols) /\ x \in Seq(Symbols) /\ e \in Seq(Symbols)
    BY <1>2, <1>4, SymbolsMade
  <2>3. CellText(i, names[i], inTask) = x \o e
    BY DEF CellText
  <2> HIDE DEF a, k, x, e
  <2>4. k \o x \in Seq(Symbols) /\ (a \o k) \o x = a \o (k \o x)
    BY <2>2, ConcatAssociative
  <2>5. (a \o (k \o x)) \o e = a \o ((k \o x) \o e)
    <3> DEFINE kx == k \o x
    <3>1. kx \in Seq(Symbols)
      BY <2>4
    <3> HIDE DEF kx
    <3>2. (a \o kx) \o e = a \o (kx \o e)
      BY <2>2, <3>1, ConcatAssociative
    <3> QED
      BY <3>2 DEF kx
  <2>6. (k \o x) \o e = k \o (x \o e)
    BY <2>2, ConcatAssociative
  <2>7. a \o (k \o (x \o e)) \in Seq(Symbols)
    BY <2>2
  <2> QED
    BY <2>1, <2>3, <2>4, <2>5, <2>6, <2>7 DEF a, k
<1>5. 0 \in S
  <2>1. <<Bracket>> \in Seq(Symbols)
    BY SymbolsMade
  <2> QED
    BY <1>3, <2>1
<1>6. ASSUME NEW n \in Nat, n \in S PROVE n + 1 \in S
  <2>1. ASSUME n + 1 <= Len(names) PROVE u[n + 1] \in Seq(Symbols)
    <3>1. n + 1 \in 1..Len(names) /\ (n + 1) - 1 = n /\ n <= Len(names)
      BY <1>1, <2>1
    <3> QED
      BY <3>1, <1>4, <1>6
  <2> QED
    BY <2>1
<1>7. \A n \in Nat : n \in S
  <2> HIDE DEF S
  <2> QED
    BY <1>5, <1>6, Upwards
<1>8. \A i \in 0..Len(names) : u[i] \in Seq(Symbols)
  BY <1>1, <1>7
<1>9. \A i \in 1..Len(names) : i - 1 \in 0..Len(names)
  BY <1>1
<1> QED
  BY <1>2, <1>3, <1>4, <1>8, <1>9

(* Behind each prefix is the key and the cell of the next field, and       *)
(* behind the last one the timestamp.                                      *)
Split(u, names, inTask, buf) ==
    /\ buf \in Seq(Symbols)
    /\ \A i \in 0..Len(names) : Behind(buf, Len(u[i])) \in Seq(Symbols)
    /\ \A i \in 1..Len(names) :
          Behind(buf, Len(u[i - 1])) =
            KeyText(i, names[i]) \o (CellText(i, names[i], inTask) \o Behind(buf, Len(u[i])))
    /\ Behind(buf, Len(u[Len(names)])) = KeyText(0, "Timestamp") \o (Timestamp \o <<Bracket>>)

(* The text is split so.                                                   *)
LEMMA TextSplit ==
    ASSUME NEW names, FieldNames(names), NEW inTask \in BOOLEAN,
           NEW u, Written(u, names, inTask), NEW buf,
           buf = u[Len(names)] \o KeyText(0, "Timestamp") \o Timestamp \o <<Bracket>>
    PROVE  Split(u, names, inTask, buf)
<1> DEFINE n == Len(names)
           Rest(i) == Behind(buf, Len(u[i]))
           kt == KeyText(0, "Timestamp")
           tail == kt \o (Timestamp \o <<Bracket>>)
           K(i) == KeyText(i, names[i])
           C(i) == CellText(i, names[i], inTask)
           Ends(d) == d <= n => \E R \in Seq(Symbols) : buf = u[n - d] \o R
           S == {d \in Nat : Ends(d)}
<1>1. /\ n \in Nat
      /\ \A i \in 0..n : u[i] \in Seq(Symbols)
      /\ \A i \in 1..n : /\ K(i) \in Seq(Symbols) /\ C(i) \in Seq(Symbols)
                         /\ u[i] = u[i - 1] \o (K(i) \o C(i))
  <2>1. n \in Nat
    BY DEF FieldNames
  <2>2. \A i \in 0..n : u[i] \in Seq(Symbols)
    BY WrittenType
  <2>3. \A i \in 1..n : /\ K(i) \in Seq(Symbols) /\ C(i) \in Seq(Symbols)
                        /\ u[i] = u[i - 1] \o (K(i) \o C(i))
    BY WrittenType
  <2> HIDE DEF n, K, C
  <2> QED
    BY <2>1, <2>2, <2>3
<1>2. kt \in Seq(Symbols) /\ Timestamp \in Seq(Symbols) /\ <<Bracket>> \in Seq(Symbols)
  <2>1. Len("Timestamp") \in Nat
    BY NamesAssumption
  <2> QED
    BY <2>1, KeyLength, SymbolsMade
<1>3. tail \in Seq(Symbols) /\ buf = u[n] \o tail
  <2> DEFINE a == u[n]
             b == <<Bracket>>
             t == Timestamp
  <2>1. buf = ((a \o kt) \o t) \o b
    OBVIOUS
  <2>2. a \in Seq(Symbols)
    BY <1>1
  <2>3. t \in Seq(Symbols) /\ b \in Seq(Symbols)
    BY <1>2
  <2> DEFINE ak == a \o kt
             tb == t \o b
  <2> HIDE DEF a, b, t, kt
  <2>4. ak \in Seq(Symbols) /\ tb \in Seq(Symbols)
    BY <1>2, <2>2, <2>3
  <2> HIDE DEF ak
  <2>5. (ak \o t) \o b = ak \o (t \o b)
    BY <2>3, <2>4, ConcatAssociative
  <2> USE DEF ak
  <2> HIDE DEF tb
  <2>6. (a \o kt) \o tb = a \o (kt \o tb)
    BY <1>2, <2>2, <2>4, ConcatAssociative
  <2>7. kt \o tb \in Seq(Symbols)
    BY <1>2, <2>4
  <2> QED
    BY <2>1, <2>5, <2>6, <2>7 DEF tb, t, b, a
<1> HIDE DEF n, kt, tail, K, C
<1>4. ASSUME NEW i \in 1..n, NEW R \in Seq(Symbols), buf = u[i] \o R
      PROVE  /\ K(i) \o (C(i) \o R) \in Seq(Symbols)
             /\ buf = u[i - 1] \o (K(i) \o (C(i) \o R))
  <2> DEFINE a == u[i - 1]
             k == K(i)
             x == C(i)
             kx == k \o x
  <2>1. a \in Seq(Symbols) /\ k \in Seq(Symbols) /\ x \in Seq(Symbols)
    <3>1. i - 1 \in 0..n
      BY <1>1
    <3> QED
      BY <1>1, <3>1
  <2>2. buf = (a \o kx) \o R
    BY <1>1, <1>4
  <2> HIDE DEF a, k, x
  <2>3. (a \o (k \o x)) \o R = a \o (k \o (x \o R))
    <3>1. \A y \in Seq(Symbols) : (a \o y) \o R = a \o (y \o R)
      BY <2>1
    <3>2. k \o x \in Seq(Symbols)
      BY <2>1
    <3>3. (k \o x) \o R = k \o (x \o R)
      BY <2>1, ConcatAssociative, SMTT(60)
    <3> QED
      BY <3>1, <3>2, <3>3
  <2>4. k \o (x \o R) \in Seq(Symbols)
    BY <2>1
  <2> QED
    BY <2>2, <2>3, <2>4 DEF a, k, x
<1>5. \A i \in 0..n : \E R \in Seq(Symbols) : buf = u[i] \o R
  <2>1. 0 \in S
    <3>1. n - 0 = n
      BY <1>1
    <3> QED
      BY <1>3, <3>1
  <2>2. ASSUME NEW d \in Nat, d \in S PROVE d + 1 \in S
    <3>1. ASSUME d + 1 <= n PROVE \E R \in Seq(Symbols) : buf = u[n - (d + 1)] \o R
      <4>1. n - d \in 1..n /\ (n - d) - 1 = n - (d + 1) /\ d <= n
        BY <1>1, <3>1
      <4>2. PICK R \in Seq(Symbols) : buf = u[n - d] \o R
        BY <2>2, <4>1
      <4> DEFINE i == n - d
      <4>3. /\ K(i) \o (C(i) \o R) \in Seq(Symbols)
            /\ buf = u[i - 1] \o (K(i) \o (C(i) \o R))
        BY <1>4, <4>1, <4>2
      <4> QED
        BY <4>1, <4>3
    <3>2. Ends(d + 1)
      BY <3>1
    <3> HIDE DEF Ends
    <3> QED
      BY <3>2
  <2>3. \A d \in Nat : d \in S
    <3> HIDE DEF S
    <3> QED
      BY <2>1, <2>2, Upwards
  <2>4. ASSUME NEW i \in 0..n PROVE \E R \in Seq(Symbols) : buf = u[i] \o R
    <3>1. n - i \in Nat /\ n - i <= n /\ n - (n - i) = i
      BY <1>1
    <3>2. n - i \in S
      BY <2>3, <3>1
    <3> QED
      BY <3>1, <3>2
  <2> QED
    BY <2>4
<1>6. ASSUME NEW i \in 0..n, NEW R \in Seq(Symbols), buf = u[i] \o R PROVE Rest(i) = R
  <2>1. u[i] \in Seq(Symbols)
    BY <1>1
  <2> QED
    BY <1>6, <2>1, Parts
<1> HIDE DEF Rest
<1>7. \A i \in 0..n : Rest(i) \in Seq(Symbols) /\ buf = u[i] \o Rest(i)
  BY <1>5, <1>6
<1>8. ASSUME NEW i \in 1..n PROVE Rest(i - 1) = K(i) \o (C(i) \o Rest(i))
  <2>1. i \in 0..n /\ i - 1 \in 0..n
    BY <1>1
  <2> QED
    BY <1>4, <1>6, <1>7, <2>1
<1>9. Rest(n) = tail
  <2>1. n \in 0..n
    BY <1>1
  <2> QED
    BY <1>3, <1>6, <2>1
<1>10. buf \in Seq(Symbols)
  <2>1. n \in 0..n
    BY <1>1
  <2>2. u[n] \in Seq(Symbols)
    BY <1>1, <2>1
  <2> DEFINE a == u[n]
  <2>3. a \in Seq(Symbols) /\ tail \in Seq(Symbols) /\ buf = a \o tail
    BY <1>3, <2>2
  <2> HIDE DEF a
  <2>4. a \o tail \in Seq(Symbols)
    BY <2>3
  <2> QED
    BY <2>3, <2>4
<1> QED
  BY <1>7, <1>8, <1>9, <1>10 DEF Rest, n, tail, kt, K, C, Split

(* The loop of the readers over the fields.                                *)
Loop(a, names, buf) ==
    a = [i \in 0..Len(names) |->
           IF i = 0 THEN [cells |-> <<>>, rest |-> Behind(buf, 1)]
           ELSE LET rest == Behind(a[i - 1].rest, keyLen(names[i]))
                    cell == ReadBytes(rest)
                IN [cells |-> Append(a[i - 1].cells, cell),
                    rest |-> Behind(rest, Len(cell))]]

(* There is such a loop, and the cells are what it ends with.              *)
LEMMA CutDefined ==
    ASSUME NEW names, FieldNames(names), NEW buf
    PROVE  \E a : Loop(a, names, buf) /\ Cut(names, buf) = a[Len(names)]
<1> DEFINE Base == [cells |-> <<>>, rest |-> Behind(buf, 1)]
           Step(x, i) == LET rest == Behind(x.rest, keyLen(names[i]))
                             cell == ReadBytes(rest)
                         IN [cells |-> Append(x.cells, cell), rest |-> Behind(rest, Len(cell))]
           After(g, i) == IF i = 0 THEN Base ELSE Step(g[i - 1], i)
           S == {n \in Nat : \E g : g = [i \in 0..n |-> After(g, i)]}
<1>1. 0 \in S
  <2> DEFINE g == [i \in 0..0 |-> Base]
  <2>1. g = [i \in 0..0 |-> After(g, i)]
    OBVIOUS
  <2> HIDE DEF g, After
  <2> QED
    BY <2>1
<1>2. ASSUME NEW n \in Nat, n \in S PROVE n + 1 \in S
  <2>1. PICK g : g = [i \in 0..n |-> After(g, i)]
    BY <1>2
  <2> DEFINE h == [i \in 0..(n + 1) |-> IF i \in 0..n THEN g[i] ELSE After(g, n + 1)]
  <2>2. \A i \in 1..(n + 1) : h[i - 1] = g[i - 1]
    OBVIOUS
  <2> HIDE DEF h, Step, Base
  <2>3. \A i \in 0..(n + 1) : After(h, i) = After(g, i)
    BY <2>2
  <2> HIDE DEF After
  <2>4. \A i \in 0..(n + 1) : h[i] = After(h, i)
    BY <2>1, <2>3 DEF h
  <2>5. h = [i \in 0..(n + 1) |-> After(h, i)]
    BY <2>4 DEF h
  <2> QED
    BY <2>5
<1> HIDE DEF S
<1>3. Len(names) \in S
  BY <1>1, <1>2, Upwards DEF FieldNames
<1> DEFINE a == CHOOSE g : g = [i \in 0..Len(names) |-> After(g, i)]
<1>4. a = [i \in 0..Len(names) |-> After(a, i)]
  <2> HIDE DEF After
  <2> QED
    BY <1>3 DEF S
<1>5. Cut(names, buf) = a[Len(names)]
  BY DEF Cut
<1>6. Loop(a, names, buf)
  <2> HIDE DEF a
  <2> QED
    BY <1>4 DEF Loop
<1> HIDE DEF a
<1> QED
  BY <1>5, <1>6

(* Between two turns there is a cell for each field before, and text.      *)
CutTyped(a, names) ==
    \A i \in 0..Len(names) :
       /\ a[i].cells \in Seq(Seq(Symbols)) /\ Len(a[i].cells) = i
       /\ a[i].rest \in Seq(Symbols)

(* A turn skips the key, adds a cell and goes behind it.                   *)
CutNext(a, names) ==
    \A i \in 1..Len(names) :
       LET rest == Behind(a[i - 1].rest, keyLen(names[i]))
           cell == ReadBytes(rest)
       IN /\ rest \in Seq(Symbols) /\ cell \in Seq(Symbols)
          /\ a[i].cells = Append(a[i - 1].cells, cell)
          /\ a[i].rest = Behind(rest, Len(cell))

(* Cells are added one for each field.                                     *)
LEMMA LoopType ==
    ASSUME NEW names, FieldNames(names), NEW buf \in Seq(Symbols),
           NEW a, Loop(a, names, buf)
    PROVE  /\ a[0] = [cells |-> <<>>, rest |-> Behind(buf, 1)]
           /\ CutTyped(a, names) /\ CutNext(a, names)
<1> DEFINE Typed(i) == /\ a[i].cells \in Seq(Seq(Symbols)) /\ Len(a[i].cells) = i
                       /\ a[i].rest \in Seq(Symbols)
           Rest(i) == Behind(a[i - 1].rest, keyLen(names[i]))
           Cell(i) == ReadBytes(Rest(i))
           S == {n \in Nat : n <= Len(names) => Typed(n)}
<1>1. Len(names) \in Nat /\ \A i \in 1..Len(names) : keyLen(names[i]) \in Nat
  BY NamesAssumption DEF FieldNames, keyLen
<1>2. a[0] = [cells |-> <<>>, rest |-> Behind(buf, 1)]
  <2>1. 0 \in 0..Len(names)
    BY <1>1
  <2> QED
    BY <2>1 DEF Loop
<1>3. \A i \in 1..Len(names) :
         a[i] = [cells |-> Append(a[i - 1].cells, Cell(i)), rest |-> Behind(Rest(i), Len(Cell(i)))]
  <2> SUFFICES ASSUME NEW i \in 1..Len(names)
               PROVE a[i] = [cells |-> Append(a[i - 1].cells, Cell(i)),
                             rest |-> Behind(Rest(i), Len(Cell(i)))]
    OBVIOUS
  <2>1. i \in 0..Len(names) /\ i # 0
    BY <1>1
  <2> QED
    BY <2>1 DEF Loop
<1>4. Typed(0)
  <2>1. a[0].cells = <<>> /\ a[0].rest = Behind(buf, 1)
    BY <1>2
  <2>2. Behind(buf, 1) \in Seq(Symbols)
    BY ReadersType
  <2>3. <<>> \in Seq(Seq(Symbols)) /\ Len(<<>>) = 0
    OBVIOUS
  <2> QED
    BY <2>1, <2>2, <2>3
<1>5. ASSUME NEW i \in 1..Len(names), Typed(i - 1)
      PROVE  /\ Typed(i) /\ Rest(i) \in Seq(Symbols) /\ Cell(i) \in Seq(Symbols)
             /\ a[i].cells = Append(a[i - 1].cells, Cell(i))
             /\ a[i].rest = Behind(Rest(i), Len(Cell(i)))
  <2>1. Rest(i) \in Seq(Symbols)
    BY <1>1, <1>5, ReadersType
  <2>2. Cell(i) \in Seq(Symbols) /\ Len(Cell(i)) \in Nat
    <3> HIDE DEF Rest
    <3>1. Cell(i) \in Seq(Symbols)
      BY <2>1, ReadersType
    <3> HIDE DEF Cell
    <3> QED
      BY <3>1
  <2> HIDE DEF Rest, Cell
  <2>3. /\ a[i].cells = Append(a[i - 1].cells, Cell(i))
        /\ a[i].rest = Behind(Rest(i), Len(Cell(i)))
    <3>1. a[i] = [cells |-> Append(a[i - 1].cells, Cell(i)), rest |-> Behind(Rest(i), Len(Cell(i)))]
      BY <1>3
    <3> QED
      BY <3>1
  <2>4. a[i].rest \in Seq(Symbols)
    BY <2>1, <2>2, <2>3, ReadersType
  <2> DEFINE s == a[i - 1].cells
             T == Seq(Symbols)
  <2>5. s \in Seq(T) /\ Len(s) = i - 1 /\ Cell(i) \in T
    BY <1>5, <2>2
  <2> HIDE DEF s, T
  <2>6. Append(s, Cell(i)) \in Seq(T) /\ Len(Append(s, Cell(i))) = (i - 1) + 1
    BY <2>5, AppendProperties
  <2>7. a[i].cells \in Seq(Seq(Symbols)) /\ Len(a[i].cells) = i
    BY <2>3, <2>6 DEF s, T
  <2> QED
    BY <2>1, <2>2, <2>3, <2>4, <2>7
<1> HIDE DEF Typed, Rest, Cell
<1>6. 0 \in S
  BY <1>4
<1>7. ASSUME NEW n \in Nat, n \in S PROVE n + 1 \in S
  <2>1. ASSUME n + 1 <= Len(names) PROVE Typed(n + 1)
    <3>1. n + 1 \in 1..Len(names) /\ (n + 1) - 1 = n /\ n <= Len(names)
      BY <1>1, <2>1
    <3> QED
      BY <3>1, <1>5, <1>7
  <2> QED
    BY <2>1
<1>8. \A n \in Nat : n \in S
  <2> HIDE DEF S
  <2> QED
    BY <1>6, <1>7, Upwards
<1>9. \A i \in 0..Len(names) : Typed(i)
  BY <1>1, <1>8
<1>10. \A i \in 1..Len(names) : Typed(i - 1)
  <2>1. \A i \in 1..Len(names) : i - 1 \in 0..Len(names)
    BY <1>1
  <2> QED
    BY <1>9, <2>1
<1>11. \A i \in 1..Len(names) :
          /\ Rest(i) \in Seq(Symbols) /\ Cell(i) \in Seq(Symbols)
          /\ a[i].cells = Append(a[i - 1].cells, Cell(i))
          /\ a[i].rest = Behind(Rest(i), Len(Cell(i)))
  BY <1>5, <1>10
<1> QED
  BY <1>2, <1>9, <1>11 DEF Typed, Rest, Cell, CutTyped, CutNext

(* A cell that was cut is not touched again.                               *)
LEMMA CellsStay ==
    ASSUME NEW names, FieldNames(names), NEW buf \in Seq(Symbols),
           NEW a, Loop(a, names, buf), NEW i \in 1..Len(names)
    PROVE  \A j \in i..Len(names) : a[j].cells[i] = a[i].cells[i]
<1> DEFINE S == {n \in Nat : n \in i..Len(names) => a[n].cells[i] = a[i].cells[i]}
<1>1. Len(names) \in Nat
  BY DEF FieldNames
<1>5. \A j \in 0..Len(names) : a[j].cells \in Seq(Seq(Symbols)) /\ Len(a[j].cells) = j
  <2>1. CutTyped(a, names)
    BY LoopType
  <2> QED
    BY <2>1 DEF CutTyped
<1>6. \A j \in 1..Len(names) :
         \E x \in Seq(Symbols) : a[j].cells = Append(a[j - 1].cells, x)
  <2>1. CutNext(a, names)
    BY LoopType
  <2> QED
    BY <2>1 DEF CutNext
<1>2. 0 \in S
  OBVIOUS
<1>3. ASSUME NEW n \in Nat, n \in S PROVE n + 1 \in S
  <2>1. ASSUME n + 1 \in i..Len(names) PROVE a[n + 1].cells[i] = a[i].cells[i]
    <3>1. CASE n + 1 = i
      BY <3>1
    <3>2. CASE n + 1 # i
      <4>1. n \in i..Len(names) /\ n + 1 \in 1..Len(names) /\ (n + 1) - 1 = n
            /\ n \in 0..Len(names) /\ i \in 1..n
        BY <1>1, <2>1, <3>2
      <4>2. a[n].cells[i] = a[i].cells[i]
        BY <1>3, <4>1
      <4> DEFINE s == a[n].cells
                 T == Seq(Symbols)
      <4>3. s \in Seq(T) /\ Len(s) = n
        BY <4>1, <1>5
      <4>4. \E x \in T : a[n + 1].cells = Append(a[(n + 1) - 1].cells, x)
        BY <4>1, <1>6
      <4>5. PICK x \in T : a[n + 1].cells = Append(s, x)
        BY <4>1, <4>4
      <4> HIDE DEF s, T
      <4>6. Append(s, x)[i] = s[i]
        BY <4>1, <4>3, AppendProperties
      <4> QED
        BY <4>2, <4>5, <4>6 DEF s
    <3> QED
      BY <3>1, <3>2
  <2> QED
    BY <2>1
<1>4. \A n \in Nat : n \in S
  <2> HIDE DEF S
  <2> QED
    BY <1>2, <1>3, Upwards
<1> QED
  BY <1>1, <1>4

(* In front of a name with a comma the readers stand where the writer put  *)
(* the next key.                                                           *)
InFront(names, inTask, i) == inTask => \A j \in 1..i : names[j] # "Task"

(* After each turn in front of such a name.                                *)
Stands(a, u, names, inTask, buf) ==
    \A i \in 0..Len(names) : InFront(names, inTask, i) =>
       /\ a[i].rest = Behind(buf, Len(u[i]))
       /\ i # 0 => a[i].cells[i] = CellText(i, names[i], FALSE)

(* In front of such a name the readers keep step with the writer.          *)
LEMMA InStep ==
    ASSUME NEW names, FieldNames(names), NEW inTask \in BOOLEAN,
           NEW u, Written(u, names, inTask), NEW buf,
           buf = u[Len(names)] \o KeyText(0, "Timestamp") \o Timestamp \o <<Bracket>>,
           NEW a, Loop(a, names, buf)
    PROVE  Stands(a, u, names, inTask, buf)
<1> DEFINE Right(i) == /\ a[i].rest = Behind(buf, Len(u[i]))
                       /\ i # 0 => a[i].cells[i] = CellText(i, names[i], FALSE)
           Ok(n) == n <= Len(names) /\ InFront(names, inTask, n) => Right(n)
           S == {n \in Nat : Ok(n)}
<1> HIDE DEF Ok
<1>1. Len(names) \in Nat
  BY DEF FieldNames
<1>7. /\ buf \in Seq(Symbols)
      /\ \A i \in 0..Len(names) : Behind(buf, Len(u[i])) \in Seq(Symbols)
      /\ \A i \in 1..Len(names) :
            Behind(buf, Len(u[i - 1])) =
              KeyText(i, names[i]) \o (CellText(i, names[i], inTask) \o Behind(buf, Len(u[i])))
  <2>1. Split(u, names, inTask, buf)
    BY TextSplit
  <2> QED
    BY <2>1 DEF Split
<1>8. /\ a[0] = [cells |-> <<>>, rest |-> Behind(buf, 1)]
      /\ \A i \in 0..Len(names) : a[i].cells \in Seq(Seq(Symbols)) /\ Len(a[i].cells) = i
  <2>1. a[0] = [cells |-> <<>>, rest |-> Behind(buf, 1)] /\ CutTyped(a, names)
    BY <1>7, LoopType
  <2> QED
    BY <2>1 DEF CutTyped
<1>9. \A i \in 1..Len(names) :
         LET rest == Behind(a[i - 1].rest, keyLen(names[i]))
             cell == ReadBytes(rest)
         IN /\ cell \in Seq(Symbols)
            /\ a[i].cells = Append(a[i - 1].cells, cell)
            /\ a[i].rest = Behind(rest, Len(cell))
  <2>1. CutNext(a, names)
    BY <1>7, LoopType
  <2> QED
    BY <2>1 DEF CutNext
<1>10. /\ u[0] = <<Bracket>>
       /\ \A i \in 1..Len(names) :
             /\ KeyText(i, names[i]) \in Seq(Symbols)
             /\ Len(KeyText(i, names[i])) = keyLen(names[i])
             /\ CellText(i, names[i], inTask) \in Seq(Symbols)
  BY WrittenType
<1>2. Ok(0)
  <2>1. u[0] = <<Bracket>> /\ Len(<<Bracket>>) = 1
    BY <1>10
  <2>2. a[0].rest = Behind(buf, 1)
    BY <1>8
  <2> QED
    BY <2>1, <2>2 DEF Ok
<1>3. ASSUME NEW n \in Nat, Ok(n) PROVE Ok(n + 1)
  <2> SUFFICES ASSUME n + 1 <= Len(names), InFront(names, inTask, n + 1) PROVE Right(n + 1)
    BY DEF Ok
  <2> DEFINE i == n + 1
             K == KeyText(i, names[i])
             C == CellText(i, names[i], inTask)
             R == Behind(buf, Len(u[i]))
             rest == Behind(a[n].rest, keyLen(names[i]))
             cell == ReadBytes(rest)
  <2>1. i \in 1..Len(names) /\ i \in 0..Len(names) /\ i - 1 = n /\ n \in 0..Len(names)
        /\ i \in Nat /\ n <= Len(names)
    BY <1>1
  <2>2. InFront(names, inTask, n) /\ (~inTask \/ names[i] # "Task")
    BY <2>1 DEF InFront
  <2>3. a[n].rest = Behind(buf, Len(u[n]))
    BY <1>3, <2>1, <2>2 DEF Ok
  <2>4. R \in Seq(Symbols) /\ Behind(buf, Len(u[n])) = K \o (C \o R)
    <3>1. Behind(buf, Len(u[i - 1])) = K \o (C \o R)
      BY <2>1, <1>7
    <3>2. R \in Seq(Symbols)
      BY <2>1, <1>7
    <3> QED
      BY <2>1, <3>1, <3>2
  <2>5. K \in Seq(Symbols) /\ Len(K) = keyLen(names[i]) /\ C \in Seq(Symbols)
    BY <2>1, <1>10
  <2>6. /\ a[i].cells = Append(a[n].cells, cell)
        /\ a[i].rest = Behind(rest, Len(cell))
        /\ a[n].cells \in Seq(Seq(Symbols)) /\ Len(a[n].cells) = n
        /\ cell \in Seq(Symbols)
    <3>1. /\ a[i].cells = Append(a[i - 1].cells, ReadBytes(Behind(a[i - 1].rest, keyLen(names[i]))))
          /\ a[i].rest = Behind(Behind(a[i - 1].rest, keyLen(names[i])),
                                Len(ReadBytes(Behind(a[i - 1].rest, keyLen(names[i])))))
          /\ ReadBytes(Behind(a[i - 1].rest, keyLen(names[i]))) \in Seq(Symbols)
      BY <2>1, <1>9
    <3>2. a[n].cells \in Seq(Seq(Symbols)) /\ Len(a[n].cells) = n
      BY <2>1, <1>8
    <3> QED
      BY <2>1, <3>1, <3>2
  <2>7. C = CellText(i, names[i], FALSE)
    BY <2>1, <2>2, ValueParts DEF CellText
  <2>8. ReadBytes(C \o R) = C
    <3> DEFINE x == ValueText(i, names[i], FALSE)
    <3>1. /\ x \in Seq(Symbols) /\ \A j \in 1..Len(x) : x[j] # Comma
          /\ C = x \o <<Comma>>
      BY <2>1, <2>7, ValueParts DEF CellText
    <3> HIDE DEF x, C, R
    <3> QED
      BY <2>4, <3>1, ReadValue
  <2>9. rest = C \o R
    <3> DEFINE CR == C \o R
    <3> HIDE DEF K, C, R
    <3>3. CR \in Seq(Symbols)
      BY <2>4, <2>5
    <3>4. a[n].rest = K \o CR
      BY <2>3, <2>4
    <3> HIDE DEF CR
    <3>1. CR \in Seq(Symbols) /\ a[n].rest = K \o CR
      BY <3>3, <3>4
    <3>2. Behind(K \o CR, Len(K)) = CR
      BY <2>5, <3>1, Parts
    <3> QED
      BY <2>5, <3>1, <3>2 DEF CR
  <2>10. cell = C
    <3> HIDE DEF rest, C, R
    <3> QED
      BY <2>8, <2>9
  <2>11. a[i].rest = R
    <3>1. Behind(C \o R, Len(C)) = R
      <4> HIDE DEF C, R
      <4> QED
        BY <2>4, <2>5, Parts
    <3> HIDE DEF rest, cell, C, R
    <3> QED
      BY <2>6, <2>9, <2>10, <3>1
  <2>12. a[i].cells[i] = C
    <3> DEFINE s == a[n].cells
               T == Seq(Symbols)
    <3>1. s \in Seq(T) /\ Len(s) = n /\ cell \in T
      BY <2>6
    <3> HIDE DEF s, T, cell
    <3>2. Append(s, cell)[n + 1] = cell
      BY <3>1, AppendProperties
    <3> QED
      BY <2>6, <2>10, <3>2 DEF s
  <2> QED
    BY <2>7, <2>11, <2>12
<1>4. 0 \in S /\ \A n \in Nat : n \in S => n + 1 \in S
  BY <1>2, <1>3
<1>5. \A n \in Nat : n \in S
  <2> HIDE DEF S
  <2> QED
    BY <1>4, Upwards
<1>6. \A i \in 0..Len(names) : Ok(i)
  BY <1>1, <1>5
<1> SUFFICES ASSUME NEW i \in 0..Len(names), InFront(names, inTask, i) PROVE Right(i)
  BY DEF Stands
<1>11. Ok(i) /\ i <= Len(names)
  BY <1>1, <1>6
<1> QED
  BY <1>11 DEF Ok

(* Every cell in front of a name with a comma is what was written, and     *)
(* without one so is the timestamp.                                        *)
LEMMA CellsFound ==
    ASSUME NEW names, FieldNames(names), NEW inTask \in BOOLEAN
    PROVE  LET cut == Cut(names, Text(names, inTask))
           IN /\ \A i \in 1..Len(names) :
                    InFront(names, inTask, i) => cut.cells[i] = CellText(i, names[i], FALSE)
              /\ ~inTask => NextBytes(Behind(cut.rest, 12), 10) = Timestamp
<1>1. PICK u : /\ Written(u, names, inTask)
               /\ Text(names, inTask) = u[Len(names)] \o KeyText(0, "Timestamp")
                                          \o Timestamp \o <<Bracket>>
  BY TextDefined
<1> DEFINE buf == Text(names, inTask)
<1>2. buf = u[Len(names)] \o KeyText(0, "Timestamp") \o Timestamp \o <<Bracket>>
  BY <1>1
<1> HIDE DEF buf
<1>3. PICK a : Loop(a, names, buf) /\ Cut(names, buf) = a[Len(names)]
  BY CutDefined
<1>4. Split(u, names, inTask, buf)
  BY <1>1, <1>2, TextSplit
<1>5. Len(names) \in Nat
  BY DEF FieldNames
<1>6. \A i \in 0..Len(names) : InFront(names, inTask, i) =>
         /\ a[i].rest = Behind(buf, Len(u[i]))
         /\ i # 0 => a[i].cells[i] = CellText(i, names[i], FALSE)
  <2>1. Stands(a, u, names, inTask, buf)
    BY <1>1, <1>2, <1>3, InStep
  <2> QED
    BY <2>1 DEF Stands
<1>7. ASSUME NEW i \in 1..Len(names), InFront(names, inTask, i)
      PROVE  Cut(names, buf).cells[i] = CellText(i, names[i], FALSE)
  <2>1. i \in 0..Len(names) /\ i # 0 /\ Len(names) \in i..Len(names)
    BY <1>5
  <2>2. a[i].cells[i] = CellText(i, names[i], FALSE)
    BY <1>6, <1>7, <2>1
  <2>3. buf \in Seq(Symbols)
    BY <1>4 DEF Split
  <2>4. \A j \in i..Len(names) : a[j].cells[i] = a[i].cells[i]
    BY <1>3, <2>3, CellsStay
  <2> QED
    BY <1>3, <2>1, <2>2, <2>4
<1>8. ASSUME ~inTask PROVE NextBytes(Behind(Cut(names, buf).rest, 12), 10) = Timestamp
  <2> DEFINE k == KeyText(0, "Timestamp")
             t == Timestamp
             b == <<Bracket>>
             tb == t \o b
  <2>1. Len(names) \in 0..Len(names) /\ InFront(names, inTask, Len(names))
    BY <1>5, <1>8 DEF InFront
  <2>2. a[Len(names)].rest = Behind(buf, Len(u[Len(names)]))
    BY <1>6, <2>1
  <2>3. Behind(buf, Len(u[Len(names)])) = k \o tb
    BY <1>4 DEF Split
  <2>4. Cut(names, buf).rest = k \o tb
    BY <1>3, <2>2, <2>3
  <2>5. k \in Seq(Symbols) /\ Len(k) = 12
    <3>1. Len("Timestamp") = 9
      BY NamesAssumption
    <3>2. k \in Seq(Symbols) /\ Len(k) = keyLen("Timestamp")
      BY <3>1, KeyLength
    <3>4. ASSUME NEW f, Len(f) = 9 PROVE keyLen(f) = 12
      BY <3>4 DEF keyLen
    <3>3. keyLen("Timestamp") = 12
      BY <3>1, <3>4, Zenon
    <3> QED
      BY <3>2, <3>3
  <2>6. t \in Seq(Symbols) /\ Len(t) = 10 /\ b \in Seq(Symbols)
    BY SymbolsMade
  <2> HIDE DEF k, t, b
  <2>7. tb \in Seq(Symbols)
    BY <2>6
  <2>8. NextBytes(tb, 10) = t
    BY <2>6, Parts
  <2> HIDE DEF tb
  <2>9. Behind(k \o tb, 12) = tb
    BY <2>5, <2>7, Parts
  <2> QED
    BY <2>4, <2>8, <2>9 DEF t
<1> QED
  BY <1>7, <1>8 DEF buf

(* A part of one element.                                                  *)
LEMMA OneOf ==
    ASSUME NEW S, NEW t \in Seq(S), NEW x \in S, NEW n \in 1..Len(t), t[n] = x
    PROVE  \A m \in Int : m = n => SubSeq(t, n, m) = <<x>>
<1> DEFINE r == SubSeq(t, n, n)
           s == <<x>>
<1>1. r \in Seq(S) /\ Len(r) = 1 /\ r[1] = x
  OBVIOUS
<1>2. s \in Seq(S) /\ Len(s) = 1 /\ s[1] = x
  OBVIOUS
<1> HIDE DEF r, s
<1>3. \A j \in 1..Len(r) : r[j] = s[j]
  BY <1>1, <1>2
<1>4. r = s
  BY <1>1, <1>2, <1>3, SeqEqual
<1> QED
  BY <1>4 DEF r, s

(* StructPB takes the value out of its cell.                               *)
LEMMA CellValue ==
    ASSUME NEW i \in Nat, NEW name, NEW cell, cell = CellText(i, name, FALSE)
    PROVE  /\ cell # <<>> /\ cell[Len(cell)] = Comma
           /\ name \in isString => /\ Len(cell) >= 3
                                   /\ SubSeq(cell, 2, Len(cell) - 2) = <<Symbol("value", i)>>
           /\ name \notin isString =>
                IsNumber(cell) /\ SubSeq(cell, 1, Len(cell) - 1) = <<Symbol("value", i)>>
<1> DEFINE x == Symbol("value", i)
<1>1. x \in Symbols /\ Quote \in Symbols /\ Comma \in Symbols /\ x.is = "value"
  BY SymbolsMade DEF Symbol
<1>2. CASE name \in isString
  <2> DEFINE t == <<Quote, x, Quote, Comma>>
  <2>1. cell = t
    BY <1>2, ValueParts
  <2> HIDE DEF x
  <2>2. t \in Seq(Symbols) /\ Len(t) = 4 /\ t[2] = x /\ t[4] = Comma
    BY <1>1
  <2> HIDE DEF t
  <2>3. SubSeq(t, 2, Len(t) - 2) = <<x>>
    <3>1. 2 \in 1..Len(t) /\ Len(t) - 2 \in Int /\ Len(t) - 2 = 2
      BY <2>2
    <3> QED
      BY <1>1, <2>2, <3>1, OneOf
  <2>4. t # <<>> /\ t[Len(t)] = Comma /\ Len(t) >= 3
    BY <2>2
  <2> QED
    BY <1>2, <2>1, <2>3, <2>4 DEF x
<1>3. CASE name \notin isString
  <2> DEFINE t == <<x, Comma>>
  <2>1. cell = t
    BY <1>3, ValueParts
  <2> HIDE DEF x
  <2>2. t \in Seq(Symbols) /\ Len(t) = 2 /\ t[1] = x /\ t[2] = Comma
    BY <1>1
  <2> HIDE DEF t
  <2>3. SubSeq(t, 1, Len(t) - 1) = <<x>>
    <3>1. 1 \in 1..Len(t) /\ Len(t) - 1 \in Int /\ Len(t) - 1 = 1
      BY <2>2
    <3> QED
      BY <1>1, <2>2, <3>1, OneOf
  <2>4. t # <<>> /\ t[Len(t)] = Comma
    BY <2>2
  <2>5. IsNumber(t)
    BY <1>1, <2>2 DEF IsNumber
  <2> QED
    BY <1>3, <2>1, <2>3, <2>4, <2>5 DEF x
<1> QED
  BY <1>2, <1>3

(* StructPB reads the values and does not end the process.                 *)
LEMMA StructRead ==
    ASSUME NEW names, FieldNames(names)
    PROVE  Unmarshal(names, Text(names, FALSE)) =
             <<[values |-> [i \in DOMAIN names |-> <<Symbol("value", i)>>], time |-> Timestamp]>>
<1> DEFINE cut == Cut(names, Text(names, FALSE))
           C(i) == cut.cells[i]
           Readable(i) ==
              /\ C(i) # <<>> /\ C(i)[Len(C(i))] = Comma
              /\ IF names[i] \in isString THEN Len(C(i)) >= 3 ELSE IsNumber(C(i))
           V(i) == IF names[i] \in isString THEN SubSeq(C(i), 2, Len(C(i)) - 2)
                                            ELSE SubSeq(C(i), 1, Len(C(i)) - 1)
           time == NextBytes(Behind(cut.rest, 12), 10)
<1>1. DOMAIN names = 1..Len(names) /\ Len(names) \in Nat
  BY DEF FieldNames
<1>2. time = Timestamp /\ \A i \in 1..Len(names) : C(i) = CellText(i, names[i], FALSE)
  <2>1. \A i \in 1..Len(names) : InFront(names, FALSE, i)
    BY DEF InFront
  <2> QED
    BY <2>1, CellsFound
<1>3. Unmarshal(names, Text(names, FALSE)) =
        IF \A i \in DOMAIN names : Readable(i)
        THEN <<[values |-> [i \in DOMAIN names |-> V(i)], time |-> time]>> ELSE <<>>
  BY DEF Unmarshal
<1> HIDE DEF C, time, cut
<1>4. ASSUME NEW i \in DOMAIN names PROVE Readable(i) /\ V(i) = <<Symbol("value", i)>>
  <2>1. i \in Nat /\ C(i) = CellText(i, names[i], FALSE)
    <3>1. i \in 1..Len(names) /\ i \in Nat
      BY <1>1
    <3>2. C(i) = CellText(i, names[i], FALSE)
      BY <1>2, <3>1
    <3> QED
      BY <3>1, <3>2
  <2> DEFINE cell == C(i)
             name == names[i]
  <2> HIDE DEF cell, name
  <2>2. /\ cell # <<>> /\ cell[Len(cell)] = Comma
        /\ name \in isString => /\ Len(cell) >= 3
                                /\ SubSeq(cell, 2, Len(cell) - 2) = <<Symbol("value", i)>>
        /\ name \notin isString =>
             IsNumber(cell) /\ SubSeq(cell, 1, Len(cell) - 1) = <<Symbol("value", i)>>
    <3>1. cell = CellText(i, name, FALSE)
      BY <2>1 DEF cell, name
    <3> QED
      BY <2>1, <3>1, CellValue
  <2> QED
    BY <2>2 DEF cell, name
<1> HIDE DEF Readable, V
<1>5. [i \in DOMAIN names |-> V(i)] = [i \in DOMAIN names |-> <<Symbol("value", i)>>]
  BY <1>4
<1> QED
  BY <1>2, <1>3, <1>4, <1>5

(* What the egresses make of a record.                                     *)
LineOf(names, inTask) ==
    <<[inTask |-> inTask, csv |-> marshal(names, Text(names, inTask)),
       spb |-> Unmarshal(names, Text(names, inTask))]>>

(* A line is of the record that is being decoded.                          *)
LineInv == line # <<>> => rec # Nothing /\ \E inTask \in BOOLEAN : line = LineOf(fields, inTask)

(* There is no line at first.                                              *)
LEMMA LineInit == Init => LineInv
BY DEF Init, LineInv

(* The record and its line stay.                                           *)
LEMMA LineKept ==
    ASSUME LineInv, line' = line, line # <<>> => UNCHANGED <<Tracepoints, rec>>
    PROVE  LineInv'
<1>1. line # <<>> => fields' = fields
  BY DEF fields
<1> HIDE DEF fields
<1> QED
  BY <1>1 DEF LineInv, LineOf

(* Every step leaves a line with its record.                               *)
LEMMA LineStep ==
    ASSUME DecoderInv, LineInv, [Next]_vars
    PROVE  LineInv'
<1>1. CASE Start
  <2>1. rec = Nothing /\ line' = line
    BY <1>1 DEF Start, decodeVars, DecoderInv
  <2>2. line = <<>>
    BY <2>1 DEF LineInv
  <2> QED
    BY <2>1, <2>2, LineKept
<1>2. CASE GetTracepointBPFCode
  BY <1>2, LineKept DEF GetTracepointBPFCode, decodeVars
<1>3. ASSUME NEW s \in Socks, NEW v \in Versions, Open(s, v) PROVE LineInv'
  BY <1>3, LineKept DEF Open, codeVars, decodeVars
<1>4. ASSUME NEW s \in Socks, Close(s) PROVE LineInv'
  BY <1>4, LineKept DEF Close, codeVars, decodeVars
<1>5. ASSUME rec = Nothing, UNCHANGED decodeVars PROVE LineInv'
  <2>1. line' = line /\ line = <<>>
    BY <1>5 DEF LineInv, decodeVars
  <2> QED
    BY <2>1, LineKept
<1>11. ASSUME NEW p \in CPUs, NEW i \in DOMAIN Tracepoints, NEW s \in Socks, Raised(p, i, s)
       PROVE  LineInv'
  BY <1>5, <1>11 DEF Raised, Unsampled, LookUp, Full, ToSample, Event
<1>12. ASSUME NEW p \in CPUs, Handler(p) PROVE LineInv'
  BY <1>5, <1>12 DEF Handler, Below, Reached, Increment, Delete, Submit, GoesTo, At
<1>6. CASE Begin
  BY <1>6, LineKept DEF Begin, codeVars
<1>7. CASE Field
  BY <1>7, LineKept DEF Field, codeVars
<1>8. CASE Marshal
  <2>1. rec # Nothing /\ UNCHANGED <<Tracepoints, rec>>
    BY <1>8 DEF Marshal, codeVars
  <2>2. \E inTask \in BOOLEAN : line' = LineOf(fields, inTask)
    <3>1. PICK inTask \in {FALSE} \cup {fields[i] = "Task" : i \in DOMAIN fields} :
             line' = LineOf(fields, inTask)
      BY <1>8 DEF Marshal, LineOf
    <3>2. inTask \in BOOLEAN
      OBVIOUS
    <3> QED
      BY <3>1, <3>2
  <2>3. fields' = fields
    BY <2>1 DEF fields
  <2> HIDE DEF fields
  <2> QED
    BY <2>1, <2>2, <2>3 DEF LineInv, LineOf
<1>9. CASE End
  BY <1>9 DEF End, LineInv
<1>10. CASE UNCHANGED vars
  BY <1>10, LineKept DEF vars, codeVars, decodeVars
<1> QED
  BY <1>1, <1>2, <1>3, <1>4, <1>6, <1>7, <1>8, <1>9, <1>10, <1>11, <1>12 DEF Next

(* For every list of fields csv and jsonl find every value in its own      *)
(* cell, and the timestamp, and StructPB the same values; where the name   *)
(* of the task has a comma, csv and jsonl find those in front of it.       *)
THEOREM EveryCellRight == Spec => []CellsRight
<1>1. ASSUME SampleInv, DecoderInv, LineInv PROVE CellsRight
  <2> SUFFICES ASSUME line # <<>> PROVE CellsRight
    BY DEF CellsRight
  <2>1. PICK inTask \in BOOLEAN : line = LineOf(fields, inTask)
    BY <1>1 DEF LineInv
  <2> DEFINE names == fields
             l == line[1]
  <2>2. FieldNames(names) /\ DOMAIN names = 1..Len(names)
    BY <1>1, RecordFields DEF LineInv, FieldList, FieldNames
  <2>3. /\ l.inTask = inTask
        /\ l.csv = marshal(names, Text(names, inTask))
        /\ l.spb = Unmarshal(names, Text(names, inTask))
    BY <2>1 DEF LineOf
  <2> HIDE DEF names
  <2>4. /\ l.csv.cells = Cut(names, Text(names, inTask)).cells
        /\ l.csv.time = NextBytes(Behind(Cut(names, Text(names, inTask)).rest, 12), 10)
    BY <2>3 DEF marshal
  <2> HIDE DEF l
  <2>5. ASSUME NEW i \in DOMAIN names, ~inTask \/ \A j \in 1..i : names[j] # "Task"
        PROVE  l.csv.cells[i] = ValueText(i, names[i], FALSE) \o <<Comma>>
    <3>1. InFront(names, inTask, i) /\ i \in 1..Len(names)
      BY <2>2, <2>5 DEF InFront
    <3>2. Cut(names, Text(names, inTask)).cells[i] = CellText(i, names[i], FALSE)
      BY <2>2, <3>1, CellsFound
    <3> QED
      BY <2>4, <3>2 DEF CellText
  <2>6. ASSUME ~inTask
        PROVE  /\ l.csv.time = Timestamp
               /\ l.spb = <<[values |-> [i \in DOMAIN names |-> <<Symbol("value", i)>>],
                             time |-> Timestamp]>>
    <3>1. l.csv.time = Timestamp
      BY <2>2, <2>4, <2>6, CellsFound
    <3>2. inTask = FALSE
      BY <2>6
    <3> QED
      BY <2>2, <2>3, <3>1, <3>2, StructRead
  <2> QED
    BY <2>3, <2>5, <2>6 DEF CellsRight, names, l
<1> QED
  BY <1>1, SampleInit, SampleStep, CodeInit, CodeStep, DecoderInit, DecoderStep, LineInit,
     LineStep, PTL DEF Spec
====
