------------------------------ MODULE Consoles ------------------------------
(***************************************************************************)
(* The two programs that run the solver from a command line: the service's *)
(* console (src/console/main.cpp) and the library's benchmark console      *)
(* (libs/route_solver/src/console/main.cpp).  Each is one sequence of      *)
(* stages inside one try block; a stage is a step, and may throw.  The     *)
(* problem of the benchmark console is what BenchLoader has made of a file *)
(* (BenchLoader.tla), and only read here.                                  *)
(*                                                                         *)
(* External: boost::program_options.  store() throws for an option that    *)
(* it does not know, notify() for a required one that is not there.        *)
(***************************************************************************)
EXTENDS Integers, Sequences, FiniteSets

CONSTANTS Values    \* the numbers that may be given for an option

VARIABLES
    program,    \* "service" or "bench"
    argv,       \* the options given, each with its value
    fault,      \* what is wrong with the files, the map or the problem
    pc,         \* the stage
    level,      \* gLogLevel
    exported,   \* the export was written
    found,      \* what the search has returned: "nothing" before it has, or
                \* a solution, "unsolved" when no route of it is solved
    params,     \* the BeeColonyParams that the search was started with
    printed,    \* the help was printed
    code,       \* what main returns, -1 before it does
    benchPc, venchiles, benchTasks    \* caseData: how far it is, and the problem

vars == <<program, argv, fault, pc, level, exported, found, params, printed, code>>

-----------------------------------------------------------------------------
Required == [service |-> {"task", "osrm"}, bench |-> {"bench_file"}]
Known == [service |-> {"task", "osrm", "export_to_folder", "export_format", "help"},
          bench |-> {"bench_file", "speed", "colony_size", "max_cycles", "max_trials", "max_seconds", "help"}]
Numbers == {"speed", "colony_size", "max_cycles", "max_trials", "max_seconds"}
DefaultNumber == [speed |-> 10, colony_size |-> 100, max_cycles |-> 2000000, max_trials |-> 10, max_seconds |-> 10]
Number(option) == IF option \in DOMAIN argv THEN argv[option] ELSE DefaultNumber[option]


LevelNames == {"trace", "debug", "info", "warn", "error", "fatal"}

\* what may go wrong outside of the programs: a path is missing, the task is no
\* JSON, no request, or names a level that there is not, the format is another,
\* the folder is missing, OSRM has no map or no durations, the request has no
\* vehicle, or OSRM has no line for a route that was found
Faults == {"none", "path", "json", "request", "level", "folder", "format", "map", "vehicles", "polyline"}

NoParams == [colonySize |-> 0, trialCountMax |-> 0, maxTimeInSecHardLimit |-> 0, maxTimeInSecNoNewBestSolution |-> 0]

Init ==
    /\ program \in {"service", "bench"}
    /\ \E options \in SUBSET (Known[program] \cup {"unknown"}), v \in Values :
          argv = [o \in options |-> IF o \in Numbers THEN v ELSE 0]
    /\ fault \in Faults
    /\ pc = "store" /\ level = "info" /\ exported = FALSE /\ found = "nothing"
    /\ params = NoParams /\ printed = FALSE /\ code = -1

Ended(c) == pc' = "ended" /\ code' = c

\* one stage: it throws, which ends main through the catch block, or goes on
Stage(at, ok, next) == pc = at /\ IF ok THEN pc' = next /\ UNCHANGED code ELSE Ended(1)
Unless(f) == fault # f

Options ==
    /\ \/ Stage("store", DOMAIN argv \subseteq Known[program], "notify")
       \/ Stage("notify", Required[program] \subseteq DOMAIN argv, "paths")
       \/ Stage("paths", Unless("path"), IF program = "service" THEN "parse" ELSE "load")
    /\ UNCHANGED <<program, argv, fault, level, exported, found, params, printed>>

\* the level is set before the request is read
Task ==
    /\ \/ Stage("parse", Unless("json"), "level") /\ UNCHANGED level
       \/ /\ Stage("level", Unless("level"), "request")
          /\ IF Unless("level") THEN level' \in LevelNames ELSE UNCHANGED level
       \/ Stage("request", Unless("request"), "export") /\ UNCHANGED level
    /\ UNCHANGED <<program, argv, fault, exported, found, params, printed>>

\* mutation: an export that is not possible is left out
Export_Skipped ==
    /\ pc = "export"
    /\ pc' = "solve"
    /\ exported' = ("export_to_folder" \in DOMAIN argv /\ Unless("folder") /\ Unless("format"))
    /\ UNCHANGED <<program, argv, fault, level, found, params, printed, code>>

\* the export is written before anything is solved, and stays if that fails
Export ==
    /\ LET wanted == "export_to_folder" \in DOMAIN argv
           able == Unless("folder") /\ Unless("format")
       IN  /\ Stage("export", wanted => able, "solve")
           /\ exported' = (wanted /\ able)
    /\ UNCHANGED <<program, argv, fault, level, found, params, printed>>

\* what truckSolve and Solver::solve look for
Outcomes == {"unsolved", "solved"}

\* mutation: a result without a solved route is taken for a solution
Solve_Unlooked ==
    /\ pc = "solve"
    /\ IF fault = "map" THEN Ended(1) /\ UNCHANGED found
       ELSE IF fault = "vehicles" THEN pc' = "undefined" /\ UNCHANGED <<code, found>>
       ELSE /\ found' \in Outcomes
            /\ IF Unless("polyline") THEN pc' = "help" /\ UNCHANGED code ELSE Ended(1)
    /\ UNCHANGED <<program, argv, fault, level, exported, params, printed>>

\* Solver's constructor and Solver::solve.  Without a vehicle the search draws
\* from an empty range; a solution without a solved route is refused; and the
\* line of each route is asked for last.
Solve ==
    /\ pc = "solve"
    /\ IF fault = "map" THEN Ended(1) /\ UNCHANGED found
       ELSE IF fault = "vehicles" THEN pc' = "undefined" /\ UNCHANGED <<code, found>>
       ELSE /\ found' \in Outcomes
            /\ IF found' = "solved" /\ Unless("polyline") THEN pc' = "help" /\ UNCHANGED code ELSE Ended(1)
    /\ UNCHANGED <<program, argv, fault, level, exported, params, printed>>

\* the constructor of caseData has returned, or its behaviour is undefined
Load ==
    /\ pc = "load" /\ benchPc \in {"done", "undefined"}
    /\ pc' = IF benchPc = "done" THEN "bench" ELSE "undefined"
    /\ UNCHANGED <<program, argv, fault, level, exported, found, params, printed, code>>

\* BeeColonyParams(colonySize, maxCycles, maxTrials, maxSeconds)
BenchParams ==
    [colonySize |-> Number("colony_size"), trialCountMax |-> Number("max_cycles"),
     maxTimeInSecHardLimit |-> Number("max_trials"), maxTimeInSecNoNewBestSolution |-> Number("max_seconds")]

\* truckSolve, always in parallel and for all tasks: it draws from the vehicles
\* and from the tasks, and whatever it returns is only logged
Bench ==
    /\ pc = "bench"
    /\ params' = BenchParams
    /\ IF venchiles = << >> \/ benchTasks = << >>
       THEN pc' = "undefined" /\ UNCHANGED found
       ELSE pc' = "help" /\ found' \in Outcomes
    /\ UNCHANGED <<program, argv, fault, level, exported, printed, code>>

Help ==
    /\ pc = "help" /\ Ended(0)
    /\ printed' = ("help" \in DOMAIN argv)
    /\ UNCHANGED <<program, argv, fault, level, exported, found, params>>

Next == Options \/ Task \/ Export \/ Solve \/ Load \/ Bench \/ Help

Spec == Init /\ [][Next]_vars

-----------------------------------------------------------------------------
TypeOK ==
    /\ pc \in {"store", "notify", "paths", "parse", "level", "request", "export", "solve",
               "load", "bench", "help", "undefined", "ended"}
    /\ code \in {-1, 0, 1} /\ (pc = "ended") = (code # -1)
    /\ level \in LevelNames /\ found \in {"nothing"} \cup Outcomes
    /\ params = NoParams \/ (program = "bench" /\ \A f \in DOMAIN params : params[f] \in Nat)

\* Whoever runs a console from a script has only its code.  Of the service's
\* console, 0 says that a solution was found in which some route is solved, and
\* that an export that was asked for is written.  Of the benchmark's it says
\* only that the search has run on the problem of the whole file, and 1 that it
\* was not begun: a solution that solves nothing ends with 0 there.  The help
\* is printed only behind a search that has returned and was not refused, so
\* never to who does not know the required options.
CodeTells ==
    /\ code = 0 /\ program = "service" => found = "solved" /\ ("export_to_folder" \in DOMAIN argv => exported)
    /\ code = 0 /\ program = "bench" => /\ found # "nothing" /\ benchPc = "done"
                                        /\ venchiles # << >> /\ benchTasks # << >>
    /\ code = 1 /\ program = "bench" => found = "nothing"
    /\ printed => code = 0 /\ found # "nothing" /\ Required[program] \subseteq DOMAIN argv
=============================================================================
