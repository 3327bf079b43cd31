----------------------------- MODULE MCService -----------------------------
(***************************************************************************)
(* The service around the solver: the Go backend; a request's way from the *)
(* client's JSON to the solver's objects; what the requests of one process *)
(* share, the logger and the statistics of the fails; and the consoles,    *)
(* with the loader of benchmark files.  These parts share nothing that a   *)
(* property is about, so a behaviour is one of one part, while the others  *)
(* rest where a run has not begun or is over.                              *)
(***************************************************************************)
EXTENDS ServiceParts

VARIABLE part    \* which part moves

-----------------------------------------------------------------------------
(* Benchmarks of up to three customers, with and without an end of the      *)
(* last line; every beginning of one; and those with a word in one place.   *)

Number(n) == [kind |-> "number", value |-> n]
Word == [kind |-> "word", value |-> 0]
Eol  == [kind |-> "newline", value |-> 0]

Customer(i) == <<i, 10 + i, 20 + i, 30 * i, 40 + i, 50 + i, 60 * i>>
Line(c) == [i \in DOMAIN c |-> Number(c[i])]
Heads(trucks, capacity) ==
    <<Word, Eol, Eol, Word, Eol, Word, Word, Eol, Number(trucks), Number(capacity), Eol,
      Eol, Word, Eol, Word, Word, Word, Eol, Eol>>

Text(n, trucks, capacity, ended) ==
    Heads(trucks, capacity)
      \o FlattenSeq([i \in 1 .. n |-> Line(Customer(i - 1)) \o IF i < n \/ ended THEN <<Eol>> ELSE << >>])

Benchmarks ==
    {[text |-> Text(n, trucks, 9, ended), benchmark |-> TRUE, vehicles |-> trucks, capacity |-> 9,
      customers |-> [i \in 1 .. n |-> Customer(i - 1)]] :
        n \in 1 .. 3, trucks \in {1, 2}, ended \in BOOLEAN}

Broken(text) == [text |-> text, benchmark |-> FALSE, vehicles |-> 0, capacity |-> 0, customers |-> << >>]
SmallBenchmark ==
    CHOOSE f \in Benchmarks : Len(f.customers) = 2 /\ f.vehicles = 1 /\ f.text[Len(f.text)] # Eol
MCFiles ==
    LET whole == Text(3, 2, 9, TRUE)
    IN  Benchmarks \cup {Broken(SubSeq(whole, 1, k)) : k \in 0 .. Len(whole)}
                   \cup {Broken([whole EXCEPT ![k] = Word]) : k \in DOMAIN whole}

-----------------------------------------------------------------------------
(* Requests: a sample of the form of the files in data/, and every request  *)
(* that differs from it in one member, which is absent or has an odd value. *)

N(n) == [num |-> n]
S(text) == [str |-> text]
A(items) == [arr |-> items]
O(members) == [obj |-> members]
Null == [nul |-> 0]

MCModulus == [uint16 |-> 16, uint32 |-> 64, size_t |-> 2048]
MCNumerals == "30" :> [value |-> 30, whole |-> TRUE] @@ "2.5" :> [value |-> 2, whole |-> FALSE]
              @@ "-1" :> [value |-> -1, whole |-> TRUE]

MCVehicle == O([id |-> N(5), capacity |-> S("2.5"), length |-> S("2.5"), height |-> S("2.5"),
                width |-> S("2.5"), trip_duration |-> N(9), trip_length |-> N(9),
                cost_of_using |-> S("30"), cost_per_km |-> [bool |-> FALSE],
                trip_max_tasks |-> S("30"), working_zone |-> A(<<N(3), N(4)>>),
                restricted_zone |-> Null])
MCPoint == O([lat |-> N(1), lon |-> N(2), ts |-> N(0), te |-> N(7), dur |-> N(1)])
MCTask == O([id |-> N(20), capacity |-> N(1), volume |-> N(0), maxsize |-> N(0), start |-> MCPoint,
             end |-> MCPoint, vip |-> N(0), types |-> A(<<N(1)>>)])
Corner(lat, lon) == A(<<N(lat), N(lon)>>)
MCPolygon == O([id |-> N(3), zonetype |-> N(1), points |-> A(<<Corner(0, 0), Corner(0, 9), Corner(9, 0)>>)])
MCCircle == O([id |-> N(4), zonetype |-> N(2), points |-> A(<<N(1), N(1), N(8)>>)])
MCSettings == O([mean_track_speed_km_in_hour |-> N(36), colony_size_limit |-> N(20),
                 max_time_in_sec |-> N(60), log_level |-> S("info")])
Sample == O([account_id |-> N(7), vehicles |-> A(<<MCVehicle>>), zones |-> A(<<MCPolygon, MCCircle>>),
             tasks |-> A(<<MCTask, MCTask>>), settings |-> MCSettings])

Odd == {Null, [bool |-> TRUE], N(-1), N(1), N(70), S("30"), S("x"), S("-1"), S("2.5"), A(<< >>),
        A(<<N(3)>>), A(<<Null>>), A(<<Corner(1, 1), A(<<N(1)>>)>>), A(<<A(<<N(1), N(1), N(1)>>)>>), O(<< >>)}

With(j, key, value) == O([k \in DOMAIN j.obj \cup {key} |-> IF k = key THEN value ELSE j.obj[k]])
Without(j, key) == O([k \in DOMAIN j.obj \ {key} |-> j.obj[k]])
Varied(j) == {j} \cup {With(j, key, value) : key \in DOMAIN j.obj, value \in Odd}
                 \cup {Without(j, key) : key \in DOMAIN j.obj}

MCSamples == {Sample, With(Sample, "zones", Null), Without(Sample, "settings"),
              With(Sample, "vehicles", A(<<With(MCVehicle, "working_zone", Null), MCVehicle>>)),
              With(Sample, "tasks", A(<<MCTask>>))}
MCBodies ==
    MCSamples \cup Varied(Sample)
    \cup {With(Sample, "vehicles", A(<<v>>)) : v \in Varied(MCVehicle)}
    \cup {With(Sample, "vehicles", A(<<MCVehicle, v>>)) : v \in Odd}
    \cup {With(Sample, "zones", A(<<z>>)) : z \in Varied(MCPolygon) \cup Varied(MCCircle)}
    \cup {With(With(Sample, "zones", A(<<With(MCPolygon, "id", N(i)), MCCircle>>)),
               "vehicles", A(<<With(MCVehicle, "working_zone", A(<<N(k), N(n)>>))>>)) :
            i, k, n \in {-1, 0, 4, 20, 63, 68}}
    \cup {With(Sample, "tasks", A(<<t>>)) : t \in Varied(MCTask)}
    \cup {With(Sample, "tasks", A(<<With(MCTask, end, p)>>)) : end \in {"start", "end"}, p \in Varied(MCPoint)}
    \cup {With(Sample, "settings", s) : s \in Varied(MCSettings)}

\* what JsonParser is handed without the backend: among others the request of
\* tests/test_data.hpp, and one without settings
TestData == {Without(With(Sample, "vehicles",
                    A(<<With(With(MCVehicle, "trip_duration", S("30")), "trip_length", S("30"))>>)), "settings")}
MCTexts == TestData \cup {Sample, With(Sample, "settings", O(<< >>)), N(1)}
           \cup {Without(Sample, key) : key \in DOMAIN Sample.obj}

\* these values, and the values in them that are not among them
Within(values) ==
    LET items == UNION {Range(j.arr) : j \in {k \in values : Is("arr", k)}}
        members == UNION {Range(j.obj) : j \in {k \in values : Is("obj", k)}}
    IN  values \cup {j \in items \cup members : j \notin values}
MCMembers  == Within(MCBodies \cup MCTexts)
MCObjects  == Within(MCMembers)
MCFields   == Within(MCObjects)
MCElements == Within(MCFields)
MCJson     == Within(MCElements)

-----------------------------------------------------------------------------

\* a request that is not read yet, a console without options, a file that is not opened, a logger that is not
\* initialized, and searches that are over and printed
RequestRests ==
    /\ body = Null /\ posted = FALSE /\ root = Null /\ requestPc = "zones"
    /\ zones = << >> /\ vehicles = << >> /\ tasks = << >> /\ settings = Client!Defaults
ConsoleRests ==
    /\ program = "service" /\ argv = << >> /\ fault = "none" /\ stage = "store" /\ level = "info"
    /\ exported = FALSE /\ found = "nothing" /\ params = Console!NoParams /\ printed = FALSE /\ code = -1
BenchRests ==
    /\ file = Broken(<< >>) /\ stream = [pos |-> 0, eof |-> FALSE, fail |-> FALSE]
    /\ benchPc = "name" /\ venchilesNumber = Garbage /\ venchilesCapacity = Garbage
    /\ customers = << >> /\ venchiles = << >> /\ benchTasks = << >> /\ points = << >>
LogRests == LogInit
FailsRest ==
    /\ lock = [r \in Parallel |-> Nobody]
    /\ colonyPc = [c \in Colonies |-> "done"] /\ it = [c \in Colonies |-> MaxElement + 1]
    /\ fails = [c \in Colonies |-> Zero] /\ global = Zero
    /\ pcSolve = [r \in Requests |-> "printed"] /\ copied = [r \in Requests |-> MaxElement]
    /\ copy = [r \in Requests |-> Zero] /\ mixed = [r \in Requests |-> FALSE]
    /\ serial = [r \in Requests |-> Zero]

requestVars == <<body, posted, root, requestPc, zones, vehicles, tasks, settings>>
serviceVars == <<part, vars, requestVars, consoleVars, benchVars, logVars, failVars>>

\* bound: every file for one way to call the benchmark's console, and one file
\* for all of its options; the service's console opens none
FileMatters ==
    \/ program = "service" /\ file = Broken(<< >>)
    \/ program = "bench" /\ file = SmallBenchmark
    \/ program = "bench" /\ DOMAIN argv = {"bench_file", "help"} /\ fault = "none"

ServiceInit ==
    \/ part = "backend" /\ Init /\ RequestRests /\ ConsoleRests /\ BenchRests /\ LogRests /\ FailsRest
    \/ part = "request" /\ Client!Init /\ Init /\ ConsoleRests /\ BenchRests /\ LogRests /\ FailsRest
    \/ part = "console" /\ ConsolesInit /\ FileMatters /\ Init /\ RequestRests /\ LogRests /\ FailsRest
    \/ part = "log" /\ LogInit /\ Init /\ RequestRests /\ ConsoleRests /\ BenchRests /\ FailsRest
    \/ part = "fails" /\ FailsInit /\ Init /\ RequestRests /\ ConsoleRests /\ BenchRests /\ LogRests

\* requests are read or not, consoles end, and nobody has to write a record
Ended ==
    /\ \/ part = "request" /\ requestPc \in {"done", "refused", "thrown", "undefined"}
       \/ part = "console" /\ stage \in {"ended", "undefined"}
       \/ part = "log" /\ refused = Callers
    /\ UNCHANGED serviceVars

ServiceNext ==
    \/ part = "backend" /\ Next
        /\ UNCHANGED <<part, requestVars, consoleVars, benchVars, logVars, failVars>>
    \/ part = "request" /\ Client!Next
        /\ UNCHANGED <<part, vars, consoleVars, benchVars, logVars, failVars>>
    \/ part = "console" /\ ConsolesNext
        /\ UNCHANGED <<part, vars, requestVars, logVars, failVars>>
    \/ part = "log" /\ LogNext
        /\ UNCHANGED <<part, vars, requestVars, consoleVars, benchVars, failVars>>
    \/ part = "fails" /\ FailsNext
        /\ UNCHANGED <<part, vars, requestVars, consoleVars, benchVars, logVars>>
    \/ Ended

\* the fairness of Backend
ServiceSpec ==
    /\ ServiceInit /\ [][ServiceNext]_serviceVars
    /\ WF_vars(Enter)
    /\ \A h \in Handlers : WF_vars(Handle(h))

-----------------------------------------------------------------------------
(* The properties are Backend's and ServiceParts'.                          *)
=============================================================================
