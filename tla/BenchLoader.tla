---------------------------- MODULE BenchLoader ----------------------------
(***************************************************************************)
(* BenchLoader (bench_loader.cpp): a benchmark file, read with operator>>  *)
(* and getline from a stream that is only asked whether it is good before  *)
(* each customer, and the problem that is made of it.                      *)
(*                                                                         *)
(* A text is a sequence of tokens, [kind, value]: numbers, words and ends  *)
(* of lines.  Blanks are left out.  The distances are those between the    *)
(* points, in the order of the points.                                     *)
(***************************************************************************)
EXTENDS Integers, SequencesExt

CONSTANT Files    \* [text, benchmark, vehicles, capacity, customers]: what is
                  \* in a file, and if it is a benchmark, what it says

Garbage == -1     \* what a member holds that was never written
Fields  == <<"number", "x", "y", "demand", "readyTime", "dueDate", "serviceTime">>

\* behind `from`, the fourth end of a line is at `to`
FourthEnd(text, from, to) ==
    LET ends == {i \in from + 1 .. to : text[i].kind = "newline"}
    IN  to \in ends /\ \E a, b, c \in ends \ {to} : a < b /\ b < c /\ ends = {a, b, c, to}

\* behind `base`, blank lines up to `first` and a line for each customer
LinesFrom(f, base, first) ==
    LET n == Len(f.customers)
    IN  /\ first + 8 * n - 1 \in DOMAIN f.text
        /\ \A k \in DOMAIN f.text :
              k \in base + 1 .. first \/ k >= first + 8 * n => f.text[k].kind = "newline"
        /\ \A i \in 1 .. n - 1 : f.text[first + 8 * i].kind = "newline"
        /\ \A i \in 1 .. n, j \in 1 .. 7 :
              f.text[first + 8 * (i - 1) + j] = [kind |-> "number", value |-> f.customers[i][j]]

\* a benchmark: the name and four lines, the number of the vehicles and their
\* capacity, four lines again, and behind blank lines a line for each customer
IsBenchmark(f) ==
    /\ f.text[1].kind # "newline" /\ f.customers # << >>
    /\ \E head \in DOMAIN f.text :
         /\ FourthEnd(f.text, 1, head) /\ head + 2 \in DOMAIN f.text
         /\ f.text[head + 1] = [kind |-> "number", value |-> f.vehicles]
         /\ f.text[head + 2] = [kind |-> "number", value |-> f.capacity]
         /\ \E base \in head + 2 .. Len(f.text) :
              /\ FourthEnd(f.text, head + 2, base)
              /\ \E first \in base .. Len(f.text) : LinesFrom(f, base, first)

\* a number that is read has no sign
ASSUME FilesAssumption ==
    \A f \in Files :
        /\ f.text \in Seq([kind : {"number", "word", "newline"}, value : Nat])
        /\ f.benchmark => /\ f.vehicles \in Nat /\ f.capacity \in Nat
                          /\ f.customers \in Seq([1 .. 7 -> Nat])
                          /\ IsBenchmark(f)

VARIABLES
    file,
    stream,      \* what of the text is taken, and the stream's state
    benchPc,     \* "name", "vehicles", "customers", "build", "done" or "undefined"
    venchilesNumber, venchilesCapacity,
    customers,
    venchiles,   \* the capacities of m_venchiles
    benchTasks,  \* m_tasks
    points       \* points_for_calc

benchVars == <<file, stream, benchPc, venchilesNumber, venchilesCapacity, customers, venchiles, benchTasks, points>>

-----------------------------------------------------------------------------
(* The stream, external: the C++ library.                                   *)

StreamType == [pos : Nat, eof : BOOLEAN, fail : BOOLEAN]

\* mutation of Good: the stream is asked for its end only
Good_NotEof(s) == ~s.eof

Good(s) == ~s.eof /\ ~s.fail

Kind(i) == file.text[i].kind

\* operator>>: s.value is what is assigned.  A stream that is not good, or at
\* its end, assigns nothing, and a word is no number, for which 0 is assigned.
Extract(s, kind) ==
    LET rest == {i \in DOMAIN file.text : i > s.pos /\ Kind(i) # "newline"}
        at == Min(rest)
    IN  IF s.eof \/ s.fail THEN [stream |-> [s EXCEPT !.fail = TRUE], value |-> Garbage]
        ELSE IF rest = {} THEN [stream |-> [pos |-> Len(file.text), eof |-> TRUE, fail |-> TRUE], value |-> Garbage]
        ELSE IF kind = "number" /\ Kind(at) = "word"
        THEN [stream |-> [pos |-> at - 1, eof |-> FALSE, fail |-> TRUE], value |-> 0]
        ELSE [stream |-> [pos |-> at, eof |-> at = Len(file.text), fail |-> FALSE], value |-> file.text[at].value]

\* std::getline
GetLine(s) ==
    LET ends == {i \in DOMAIN file.text : i > s.pos /\ Kind(i) = "newline"}
    IN  IF s.eof \/ s.fail THEN [s EXCEPT !.fail = TRUE]
        ELSE IF ends = {} THEN [pos |-> Len(file.text), eof |-> TRUE, fail |-> s.pos = Len(file.text)]
        ELSE [s EXCEPT !.pos = Min(ends)]

-----------------------------------------------------------------------------
(* BenchLoader::BenchLoader                                                 *)

\* mutation: a heading is taken for part of the data
FourLines_Three(s) == GetLine(GetLine(GetLine(s)))

FourLines(s) == GetLine(GetLine(GetLine(GetLine(s))))

ReadName ==
    /\ benchPc = "name"
    /\ stream' = FourLines(Extract(stream, "word").stream)
    /\ benchPc' = "vehicles"
    /\ UNCHANGED <<file, venchilesNumber, venchilesCapacity, customers, venchiles, benchTasks, points>>

ReadVehicles ==
    /\ benchPc = "vehicles"
    /\ LET number == Extract(stream, "number")
           capacity == Extract(number.stream, "number")
       IN  /\ venchilesNumber' = number.value
           /\ venchilesCapacity' = capacity.value
           /\ stream' = FourLines(capacity.stream)
    /\ benchPc' = "customers"
    /\ UNCHANGED <<file, customers, venchiles, benchTasks, points>>

\* a member of a customer
ReadField(sofar, field) ==
    LET next == Extract(sofar.stream, "number")
    IN  [stream |-> next.stream, values |-> Append(sofar.values, next.value)]

\* one turn of the loop
ReadCustomer ==
    /\ benchPc = "customers" /\ Good(stream)
    /\ LET read == FoldLeft(ReadField, [stream |-> stream, values |-> << >>], Fields)
       IN  /\ stream' = read.stream
           /\ customers' = Append(customers, read.values)
    /\ UNCHANGED <<file, benchPc, venchilesNumber, venchilesCapacity, venchiles, benchTasks, points>>

EndOfCustomers ==
    /\ benchPc = "customers" /\ ~Good(stream)
    /\ benchPc' = "build"
    /\ UNCHANGED <<file, stream, venchilesNumber, venchilesCapacity, customers, venchiles, benchTasks, points>>

\* TaskPoint of a customer; its place is <<x, y>>
TaskPoint(c) == [place |-> <<c[2], c[3]>>, ts |-> c[5], te |-> c[6], dur |-> c[7]]

\* the first customer is the depot, where every task starts
BenchTasks ==
    [i \in 1 .. Len(customers) - 1 |->
        [capacity |-> customers[i + 1][4], start |-> TaskPoint(customers[1]), end |-> TaskPoint(customers[i + 1])]]

\* points_for_calc
Points(ts) == FlattenSeq([i \in DOMAIN ts |-> <<ts[i].start.place, ts[i].end.place>>])

\* The vehicles, the tasks and the points of the matrices.  The number of
\* vehicles may never have been read.
Build ==
    /\ benchPc = "build"
    /\ IF venchilesNumber = Garbage
       THEN benchPc' = "undefined" /\ UNCHANGED <<venchiles, benchTasks, points>>
       ELSE /\ venchiles' = [i \in 1 .. venchilesNumber |-> venchilesCapacity]
            /\ benchTasks' = BenchTasks
            /\ points' = Points(BenchTasks)
            /\ benchPc' = "done"
    /\ UNCHANGED <<file, stream, venchilesNumber, venchilesCapacity, customers>>

BenchInit ==
    /\ file \in Files
    /\ stream = [pos |-> 0, eof |-> FALSE, fail |-> FALSE]
    /\ benchPc = "name"
    /\ venchilesNumber = Garbage /\ venchilesCapacity = Garbage
    /\ customers = << >> /\ venchiles = << >> /\ benchTasks = << >> /\ points = << >>

BenchNext == ReadName \/ ReadVehicles \/ ReadCustomer \/ EndOfCustomers \/ Build

BenchSpec == BenchInit /\ [][BenchNext]_benchVars

-----------------------------------------------------------------------------
Complete(c) == \A i \in DOMAIN Fields : c[i] # Garbage

\* The solver's nodes: task t owns the points 2t and 2t + 1 of the matrices.
BenchTypeOK ==
    /\ stream \in StreamType /\ stream.pos <= Len(file.text)
    /\ benchPc \in {"name", "vehicles", "customers", "build", "done", "undefined"}
    /\ \A i \in DOMAIN customers : Len(customers[i]) = Len(Fields)
    /\ Len(points) = 2 * Len(benchTasks)
    /\ \A i \in DOMAIN benchTasks : points[2 * i - 1] = benchTasks[i].start.place /\ points[2 * i] = benchTasks[i].end.place

\* Whatever the file holds, the loop ends at the first customer that it cannot
\* read: only the last one can hold garbage.
OneBrokenCustomer ==
    \A i \in 1 .. Len(customers) - 1 : Complete(customers[i])

\* Of a benchmark every vehicle and every customer becomes part of the problem,
\* in order.  Exactly if its last line is ended, a task more follows: one to a
\* customer whose demand, place, window and service time were never written.
WholeBenchmark ==
    benchPc = "done" /\ file.benchmark =>
        LET n == Len(file.customers) - 1
            ended == Kind(Len(file.text)) = "newline"
            Nowhere == [place |-> <<Garbage, Garbage>>, ts |-> Garbage, te |-> Garbage, dur |-> Garbage]
        IN  /\ venchiles = [i \in 1 .. file.vehicles |-> file.capacity]
            /\ Len(benchTasks) = IF ended THEN n + 1 ELSE n
            /\ \A i \in 1 .. n :
                  /\ benchTasks[i].capacity = file.customers[i + 1][4]
                  /\ benchTasks[i].start = TaskPoint(file.customers[1])
                  /\ benchTasks[i].end = TaskPoint(file.customers[i + 1])
            /\ ended => benchTasks[n + 1] = [capacity |-> Garbage, start |-> TaskPoint(file.customers[1]), end |-> Nowhere]
=============================================================================
