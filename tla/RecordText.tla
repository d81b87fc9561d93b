----------------------------- MODULE RecordText -----------------------------
(***************************************************************************)
(* The text of a record and its readers.  The decoder writes a record as a *)
(* JSON object into a buffer (ebpf/decoder.go); csv and jsonl cut their    *)
(* cells out of it (egress/csv, egress/jsonl), and StructPB its values     *)
(* (egress/helper), all by the lengths of the names they know and the next *)
(* comma.  What a field's value is made of does not matter here: it is one *)
(* symbol, but the name of a task may have a comma in it.                  *)
(***************************************************************************)
EXTENDS Integers, Sequences

Symbol(is, of) == [is |-> is, of |-> of]
Repeat(sym, n) == [j \in 1..n |-> sym]

Comma == Symbol("comma", 0)
Quote == Symbol("quote", 0)
Bracket == Symbol("bracket", 0)
Timestamp == Repeat(Symbol("time", 0), 10)

(* StructPB.init; DAddr is like SAddr.                                     *)
isString == {"Task", "SAddr", "DAddr"}

-----------------------------------------------------------------------------
(* decode: "name":value, for every field, the timestamp without a comma.   *)
ValueText(i, name, inTask) ==
    LET v == <<Symbol("value", i)>>
    IN IF name \notin isString THEN v
       ELSE <<Quote>> \o v \o (IF inTask /\ name = "Task" THEN <<Comma>> \o v ELSE <<>>)
              \o <<Quote>>

KeyText(i, name) == Repeat(Symbol("key", i), Len(name) + 3)

Text(names, inTask) ==
    LET upTo[i \in 0..Len(names)] ==
            IF i = 0 THEN <<Bracket>>
            ELSE upTo[i - 1] \o KeyText(i, names[i]) \o ValueText(i, names[i], inTask)
                   \o <<Comma>>
    IN upTo[Len(names)] \o KeyText(0, "Timestamp") \o Timestamp \o <<Bracket>>

-----------------------------------------------------------------------------
(* Mutant: the colon is forgotten.                                         *)
keyLenShort(name) == Len(name) + 2

(* fieldsLen                                                               *)
keyLen(name) == Len(name) + 3

(* bytes.Buffer: Next(n) and what it leaves behind, which is nothing at    *)
(* the end, and the bytes that ReadBytes(comma) returns.                   *)
NextBytes(buf, n) == SubSeq(buf, 1, IF n < Len(buf) THEN n ELSE Len(buf))
Behind(buf, n) == SubSeq(buf, n + 1, Len(buf))
ReadBytes(buf) ==
    LET commas == {j \in DOMAIN buf : buf[j] = Comma}
    IN IF commas = {} THEN buf
       ELSE NextBytes(buf, CHOOSE j \in commas : \A k \in commas : j <= k)

(* The loop over the fields: the cells, commas included, and the rest.     *)
Cut(names, buf) ==
    LET after[i \in 0..Len(names)] ==
            IF i = 0 THEN [cells |-> <<>>, rest |-> Behind(buf, 1)]
            ELSE LET rest == Behind(after[i - 1].rest, keyLen(names[i]))
                     cell == ReadBytes(rest)
                 IN [cells |-> Append(after[i - 1].cells, cell),
                     rest |-> Behind(rest, Len(cell))]
    IN after[Len(names)]

(* marshal of csv, and of jsonl, which puts it in brackets.                *)
marshal(names, buf) ==
    LET cut == Cut(names, buf)
    IN [cells |-> cut.cells, time |-> NextBytes(Behind(cut.rest, 12), 10)]

(* strconv.Atoi accepts a number, without its comma.                       *)
IsNumber(cell) == Len(cell) = 2 /\ cell[1].is = "value" /\ cell[2] = Comma

(* Unmarshal, <<the struct>>, or never: log.Fatal at a text that ends      *)
(* before its comma or a number that is none, a panic at a text that is    *)
(* too short to have quotes.  A wrong timestamp is only logged.            *)
Unmarshal(names, buf) ==
    LET cut == Cut(names, buf)
        Cell(i) == cut.cells[i]
        Readable(i) ==
            /\ Cell(i) # <<>> /\ Cell(i)[Len(Cell(i))] = Comma
            /\ IF names[i] \in isString THEN Len(Cell(i)) >= 3 ELSE IsNumber(Cell(i))
        Value(i) == IF names[i] \in isString THEN SubSeq(Cell(i), 2, Len(Cell(i)) - 2)
                                             ELSE SubSeq(Cell(i), 1, Len(Cell(i)) - 1)
    IN IF \A i \in DOMAIN names : Readable(i)
       THEN <<[values |-> [i \in DOMAIN names |-> Value(i)],
               time |-> NextBytes(Behind(cut.rest, 12), 10)]>>
       ELSE <<>>
=============================================================================
