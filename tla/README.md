# Verification of route_solver_service

The service plans truck routes. A client posts vehicles, tasks (a pickup and a
delivery each) and zones; the service gets travel times from OSRM, searches for
good routes with an artificial bee colony, and answers with trips. This
directory holds TLA+ models of that program, the TLC configurations that check
them on small instances, and proofs that the TLA+ proof system (tlapm) checks
for every instance. `LRS/` below stands for `src/libs/route_solver/`.

## 1. Inventory

| Part | Code | State it keeps | Operations | What makes it correct |
|---|---|---|---|---|
| Parallel colony | `LRS/include/route_solver/abc/abc_parallel.hpp` | spin lock, stop flags, shared best fitness, caller's best solution, per-thread best | `colonyRoutine`, `beeColonySolveParallel` | lock excludes; the result is the best that any thread found; the search stops in time, and not too early |
| Sequential colony | `LRS/include/route_solver/abc/abc.hpp` | food sources with trial counters, ranking, best | `beeColonySolve` | onlookers all get a source, the fitter more; the best is not lost |
| Producer | `LRS/src/lib/solution/truck_solution.cpp` | cache of checked routes, fail counters | `generateRandom`, `produceNeighborhood`, `calculateFitnessOfRoutes`, `checkSingleRoute`, `getResultStats` | each task on one route at most; a route flagged solved is feasible; the cache changes no answer |
| Truck simulation | `LRS/src/lib/solution/currentroutestate.cpp` | clock, distance, load, volume, tasks on board, node, statistics | `moveNextStart`, `processLoad`, `moveNextEnd`, `processUnload`, totals | the counters match what is on board; feasible routes keep all limits; the report adds up |
| Fail statistics | `LRS/src/lib/solution/fail_statistics.cpp` | a counter per event, one global sum | `addEvent`, `operator+=` | the global counters are the sum of all threads' |
| Vehicle/task checker | `LRS/src/lib/solve/vehicle_to_task_checker.cpp` | matrix vehicle x task; two maps while it is built | constructor | a row depends on its own vehicle's zones and limits |
| Zones | `LRS/src/lib/solve/winding_number.cpp`, `LRS/src/lib/structs/data_structs.cpp` | - | `wn_PnPoly`, `isTaskInZone`, `canTakeTask` | inside means inside |
| Solver | `src/src/lib/solve/solver.cpp` | OSRM handle | `solve` | each failure is reported, results follow the statistics |
| Library entry, log | `src/src/wrapper/interface.cpp`, `LRS/src/lib/log.cpp` | the solver, the global log level | `setup`, `processRequest` | one callback and one return code per call |
| Go backend | `src/golang/src/backend/*.go` | semaphore, one context per request | `GET /ping`, `POST /solve_routes`, callbacks | slots come back; answers fit the outcome; nobody waits for ever |
| Request parser | `src/src/lib/parser/json_parser.cpp`, `src/golang/src/backend/structs.go` | the parsed request | `JsonRequest`'s binding, `JsonParser`'s constructor, `produceInputDataCsvToFolder` | what is solved is what was asked, with its references and defaults; a bad request is refused |
| JSON library | `src/libs/json/json.hpp` (nlohmann 2.0.x, kept in the repository) | the scanner's pointers into its buffer, the parser's look-ahead | `scan`, `get_string`, `get_number`, `parse_internal`, `dump`, comparison, CBOR, MessagePack, pointers, `flatten`, `patch`, `diff` | reads stay inside; what is written is read back; what the grammar refuses is refused |
| Log | `LRS/src/lib/log.cpp` | the global level, the sinks | three functions of initialization, `setLogLevel` | a request's level filters, the callback is called |
| Result | `src/src/lib/solve/solver.cpp` 221-358, `getResultStats` | - | copying of trips, totals, lines | the trips of the answer are the routes of the solution |
| Consoles | `src/src/console/main.cpp`, `LRS/src/console/main.cpp` | options | `main` | the exit code tells what the search has found, an export is written or refused |
| Bench loader | `LRS/src/lib/solution/bench_loader.cpp` | the problem it has read | constructor | the problem is the file's |
| OSRM profiles, scripts, images, CUDA test | various | - | - | - |

How the parts interact. A handler goroutine takes a slot of the semaphore and
calls `processRequest`, which parses, asks OSRM for the matrix, builds the
vehicle/task checker, runs one of the two colonies and walks the best solution
once more for its statistics; it calls back `processRequestDone` or
`processRequestError`, and the handler answers. Each colony thread has a
producer of its own, with its own cache and fail counters. Threads share the
best fitness and the caller's best solution under one spin lock per search, and
the fail statistics and log level with the whole process. The request's text is
read, and the answer's is written, by json.hpp.

What is hard to test here: the interleavings of colony threads and the main
thread around the spin lock; when a search ends, which depends on sleeps, whole
seconds and an unfair lock; the `solved` flag of a route, which is read and
left in place by several early returns; the write of an onlooker to another
source than the one it improved; rounding of onlooker shares; maps that insert
when they are read; a loop that reads past a vector; slots that are not given
back when a handler panics. `PROJECT.json` lists each of these at its line.

## 2. Modules

    CurrentRouteState <- RouteCheck <- RouteWalk <- RouteWalkProofs   MCRouteWalk
                         |          <- TruckSolution                  MCTruckSolution
                         |               <- Report <- ReportProofs \
    WindingNumber <- TaskChecker \                                  |
    Report, Colony, TaskChecker <- Solving <- SolvingProofs         > MCSolving
    ReportProofs                           <- SolvingProofs        /
    FoldLemmas <- RouteCheckProofs <- RouteWalkProofs, ReportProofs
               <- ServiceProofs, JsonLexerProofs
    Search  <=implements=  ParallelSearch <- ParallelSearchProofs     (its own run)
    Service <=implements=  Backend <- ServiceProofs                \
    Backend, JsonAccess, BenchLoader, Log, FailStatistics           > MCService
                <- ServiceParts <- ServiceProofs                   /
    JsonAccess  <- Request    Consoles   (instances of ServiceParts; Consoles
                              waits for, and then reads, BenchLoader's problem)
    JsonGrammar <- JsonLexer <- JsonLexerProofs          \
                <- JsonText                               >           MCJsonReader
                <- JsonNumber                            /
    JsonDocument                                        /
    JsonBinary                                           \
    JsonCompare                                           >           MCJsonValues
    JsonPointer <- PointerText, JsonFlatten, JsonPatch   /

`<-` is EXTENDS. MCSolving, MCService, MCJsonReader and MCJsonValues check
several components in one run: they extend or instantiate each of them, and a
variable `part` says which of them a behaviour is about. What is proved about is
extended, its names made apart (`ColonySpec`, `CheckerSpec`, `LogSpec`,
`FailsSpec`, `ConsolesSpec`), so that the run and the theorem state the same
definition; Solving and ServiceParts are such products, without any values for
the constants. The components of such a run share no
variable, so nothing is gained or lost by the product; the others rest in a
state of theirs in which a call has not begun or is over. What is composed
because it does interact is one module: the threads of a search
(ParallelSearch), handlers, semaphore and library (Backend), searches over one
collector of fails (FailStatistics), requests over one log level (Log), a
search and the answer made of it (TruckSolution and Report), a client's body,
the backend's binding and the parser (Request), and the benchmark's console with
the loader whose problem it searches (Consoles, BenchLoader: `ConsolesSpec` of
ServiceParts, in which the console waits while the file is read).

**CurrentRouteState** is the class of that name: a record for its members and a
pure operator for each member function. Times are whole seconds, and the matrix
holds tenths, so that adding a leg truncates as `size_t += double` does.
`MoveNextEnd` leaves `currentNode` alone, because the code does.

**RouteCheck** computes what `checkSingleRoute` returns for a route, as a fold
of the walk over the nodes. **RouteWalk** is the same call one member function
at a time, one action for each: `CheckOrder` (276-293, and 295), `CheckVehicle`
(297-308), `VisitStart`/`Load`, `VisitEnd`/`Unload`, `Finish`. `MatchesCheck`
says that the two agree, so the fold may stand for the call in
**TruckSolution**: one food source and the cache, with `GenerateRandom` and
`ProduceNeighborhood` (produce, compare, replace when fitter). The fitness
`1/cost + solved/T + vip/T` is kept as three numbers and compared exactly by
cross-multiplication. `FlagAfterCheck` keeps the flag of the route on a cache
hit and on a wrong order, as the early returns do.

**Colony** is one colony, bee by bee. `Employ`, `Rank`, `Onlook`, `Record` are
the phases that both colonies share; `Win`, `Lose` (parallel) and `Again`
(sequential) are what follows. A solution is its fitness and trial counter, and
a neighbour has any fitness. `Counts` allows for the rounding of the quotient
before it is truncated.

**ParallelSearch** has one action for each shared access of `colonyRoutine` and
of the main thread: `PubLock`, `Compare`, `Publish`, `PubUnlock`, `Judge`;
`MergeLock` ... `MergeUnlock`; `Sleep`, `LookLock`, `Look`, `LookUnlock`,
`Decide`, `Stop`, `Join`. A whole cycle of the colony is the one step `Cycle`,
which is what Colony details. Time counts half seconds, the length of the
sleep. **Search** is the abstract specification: workers find ever better
solutions, the search adopts strictly better ones only, and returns when no
worker knows a better one. The refinement mapping is `known <- best`,
`held <- out`, `returned <- pcMain = "returned"`.

**WindingNumber** and **TaskChecker** are the constructor of
`VehicleTaskChecker`: `IndexZone` (21-32) for each zone, then `FillRow` (34-80)
for each vehicle. `NextVertex` reads "beyond" for the last vertex, because the
loop runs over all `V.size()` of them. `Lookup`/`Looked` is `operator[]` of the
map with its insertion. The branch for restricted zones repeats the condition
before it and is dead, in the model as in the code.

**Backend** is the Go service with the library's stages. `Enter` is the send on
the semaphore, `Leave` the receive; `Throw` is either `catch` of
`processRequest`, `Parse`/`Table`/`Search`/`Result` are the stages that may
throw. External, and modelled from its use: gin runs a handler per connection
and recovers from its panics, and blocked senders on a channel are served in
order. **Service** is the abstract specification: turns in the order of waiting,
no more at a time than slots are left, one outcome and one answer per request.
The refinement mapping keeps the solving handlers of the queue (`waiting`),
those in the library (`inside`), the text of the callback (`outcome`), and
`slots <- NumCPU` less the pings that panicked.

**FailStatistics** is one `globalFailsCollector` under the searches of several
requests: `operator+=` and the copy for the log go counter by counter, under a
lock that excludes the workers of one search only. `Combined` is `operator+=` of
one counter: it takes the other's value, as the code does (the run
`fails_summed` is about what it should do). What is checked and proved here is
about the interleaving, and would hold of a sum as well.

**Report** continues TruckSolution from the best source to the answer:
`getResultStats`, the checks of `Solver::solve` in their order, and the copying.

**Request** is a request's way from the client's body through the backend's
struct (`Bind`, which fills in Go's zero values) to `JsonParser`'s constructor,
one zone, vehicle or task a step. **JsonAccess** is how json.hpp lets it read: a
member of a const value that is not there is undefined behaviour, a value of
another type throws, numbers convert modulo the width.

**JsonGrammar** says what tokens are, by sets of texts. **JsonLexer** is the
automaton that re2c made of the same definitions, one step per byte, with
`m_start`, `m_marker`, `m_cursor`, its check of the bytes left and
`fill_line_buffer`. **JsonText** is `escape_string` with its two passes and
`get_string`; **JsonNumber** is `get_number` with integers of `Half`;
**JsonDocument** is `parse_internal`, its calls an explicit stack, and `dump`.
**JsonCompare** is `operator==` and `operator<` with the conversions between the
three types of numbers. **JsonBinary** is both binary formats both ways.
**JsonPointer** is the text of pointers and the ways to reach a value by one;
**PointerText**, **JsonFlatten** and **JsonPatch** apply it. In `copy` the order
of the two sides of `result[ptr] = result.at(from_ptr)` is left to the compiler
before C++17, so both are taken.

**Log** is the sinks with their filters and the shared level. **Consoles** is
both programs, a stage a step. What a search returns is `found`: a solution in
which some route is solved, or one in which none is. `Solver::solve` looks and
throws (`Solve`); the benchmark's console only logs it (`Bench`), and draws from
empty ranges when the file gave no vehicle or no task. **BenchLoader** is the
reading of a benchmark, where a failed `operator>>` leaves the stream failed and
writes nothing more.

A definition `X_Something` before `X` is a mutation of `X`: a bug of the kind
that could have been written there. Each checked property fails for one of them
(`mutants` in `PROJECT.json`).

## 3. Runs

All with `tlc -workers 2 -config <cfg> <module>`; each ends within five minutes.
Deadlock is checked in `parallel`, `solving` and `service`, where a behaviour
that ends does so in a state the module names (`Over`, `Ended`); not in the
others, which model calls that return.

| Run | Module / cfg | What it shows | Bounds and why they are enough |
|---|---|---|---|
| route_walk | MCRouteWalk / MCRouteWalk.cfg | on-board counters, times, limits, sums, the order check, and step-by-step = fold | all routes of 1-3 tasks, in every order, on 5 vehicles; the windows, loads and limits are chosen so that every failure event the code can raise occurs and every limit divides routes into feasible and not |
| parallel | ParallelSearch / MCParallelSearch.cfg | lock, owner of the best, result, both limits, return, refinement of Search | 2 threads and the main thread; 3 fitness values, which a lost update needs: one that is read, one that is written meanwhile, and one that must not follow; limits of 2 s and 0 s with a sleep that may last a half second longer. The theorems hold for any numbers |
| solving | MCSolving / MCSolving.cfg | one route per task, flags, cache, the answer's trips; seating and contest of the bees; polygons, zone ids, limits | 2 tasks, 2 vehicles, one of which may not take the first task, and the neighbours of neighbours until nothing new is found; 3 sources, 3 fitness values, trial limit 1: every ranking with and without ties, exact and inexact shares; every triangle on a 3x3 grid with one fixed corner, in both senses, two concave quadrilaterals, a circle, ids that are shared, repeated and unknown, three contents of the memory behind a vector |
| service | MCService / MCService.cfg | slots, answers, progress, refinement of Service; requests that are read whole or refused; what exit codes tell; benchmark files, loaded and then searched; the shared level and the shared fails | 3 solves and 2 pinging clients over 2 slots: both slots can be lost, and a queue of three forms; 943 bodies, each a sample with one member absent or odd, ids on both sides of every width (16, 64 and 2048 for 2^16, 2^32 and 2^64); every option and every fault of both consoles, with files of 1-3 customers cut at every value, with a word at every place, with the last line ended and not; 2 requests with 4 levels, one of them unknown; one parallel search of 2 workers and one sequential, 2 counters |
| json_reader | MCJsonReader / MCJsonReader.cfg | reads inside the buffer, refills that lose nothing, longest tokens; strings and numbers mean what they say; the parser accepts the grammar and dump is read back | every text of up to 5 bytes of a number's alphabet; strings with lead and tail bytes at the ends of their ranges, escapes complete and not; literals with a byte wrong; strings of up to 3 bytes to escape, tokens of up to 3 pieces to read; numbers of up to 4 bytes with limits -32, 31 and 63; every text of up to 9 tokens |
| json_values | MCJsonValues / MCJsonValues.cfg | both binary formats, comparison, pointers, flatten, patch | numbers at every boundary of 1, 2, 4 and 8 bytes, strings to 65536 bytes, lists and maps to 32 and 24 elements, cut near every end; 39 values three at a time, with 8 for 2^63 and 4 for 2^53, so that both lossy conversions lose; pointers of up to 6 characters of an alphabet with both escapes; 18466 documents of up to three levels, among them an array of twelve, whose indices have one digit and two, and 9285 objects of up to three pointers to unflatten; 2209 pairs for diff, and patches of two elements that a caller wrote |
| route_teleport | MCRouteWalk / MCRouteTeleport.cfg | **violated**: the reported distance is the distance along the route | as route_walk |
| fails_summed | ParallelSearch / MCFailsSummed.cfg | **violated**: global fails are the sum of the threads' | 2 threads, 1 event each |
| tasks_traded | MCTruckSolution / MCTasksTraded.cfg | **violated**: a fitter neighbour serves no fewer tasks | 3 tasks, 1 vehicle |
| cache_flag | MCTruckSolution / MCCacheFlag.cfg | **violated**: an unsolved solution has an infeasible route | 2 tasks, 2 vehicles, partial results off |
| polygon_overrun | MCSolving / MCPolygonOverrun.cfg | **violated**: winding number 0 only outside | as solving |
| restricted_zone | MCSolving / MCRestrictedZone.cfg | **violated**: no vehicle gets a task in a zone that is restricted for it | as solving |

The violated properties are statements of the code's own comments, headers, logs
and operators; `findings` in `PROJECT.json` quotes each.

A property of a run that covers several things a component promises is a
conjunction of named parts, each with a comment of its own in the component's
module and at least one mutant that breaks it:

| Property | Parts |
|---|---|
| ReportFits | ReportedTimesFit, ReportAddsUp |
| RoutesSound | EachTaskServedOnce, AcceptedRoutesSound, AlwaysARouteToShuffle |
| TripsAreRoutes | AnswersWhenSolved, ServedByOneTrip, OnBoardAsReported, TripSpansTasks, LineThroughTasks |
| BeesFollowFitness | EveryOnlookerSeated, FitterGetsMore, WinnerKeepsElite |
| MatrixRight | PolygonsRight, RowsIndependent, AllowedTaskFits |
| AskedIsSolved | WholeRequest, ReferencesKept, PolygonsClosed, DefaultsAgree, RootComplete, SamplesAccepted |
| ConsolesTell | CodeTells (of Consoles), OneBrokenCustomer, WholeBenchmark (of BenchLoader) |
| RequestsApart | LevelWasAsked, SinksFiltered, MergesWhole |
| TokensMeanValues | SpaceFits, WrittenIsToken, RoundTrip, ReadMeansToken, NoOverflow, Exact |
| DocumentsFaithful | Faithful, RefusedAtOnce, NoScanBehindEnd, DumpRoundTrip |
| BinaryKept | TypeOK, RoundTrip, PeerIsUnderstood, Compact, PrematureEnd, InsideTheVector |
| OrderSound | Trichotomy, Derived, OrderedInRange |
| PointersRestore | PointerKept, TextKept, Restored, NothingOverwritten |
| PatchesFit | DiffPatches, ElsewhereKept, FoundThere, MoveConserves |

What the passing runs say that is not obvious from the code, by the part that
says it:

- `EmptyTruckNeverDelivers`: the checks of `moveNextEnd` and `processUnload`
  for an empty truck are unreachable behind the order check.
- `AcceptedRoutesSound`: a wrong order leaves `solved` as it was, so a
  shuffled copy of a solved route may carry a flag it does not deserve; it is
  never accepted, because the failed check also returns a cost of
  `numeric_limits<double>::max()`. The mutant that returns cost 0 breaks it.
- `AnswersWhenSolved`: although a flag may be older than its route's last
  order, `getResultStats` finds as many statistics as nodes for each route it
  takes, and an answer fails for OSRM alone.
- `HardLimitOverrun`: a search with a limit of L seconds decides to stop no
  later than L + 1 seconds and the jitter of one sleep: `>` on truncated
  seconds adds up to one.
- `NoFreshBestIgnored`: giving up for lack of progress counts from the last
  best that was seen; only one published after the last look can be younger.
- `LostOnlyAmongOnlookers`: because an onlooker's find is written to
  `solutions[s]`, good solutions may be overwritten, but only in that phase and
  not once recorded.
- `AllowedTaskFits`: 0 means "no limit" on the way and "nothing" to
  `canTakeTask`; the stricter of the two decides, so the disagreement admits no
  route.
- `EveryRequestAnswered`: unless as many pings have panicked as there are
  slots, every solve is answered, however often the pings return; it needs the
  first-in-first-out order of the channel.
- `RootComplete`: the parser looks members up in a way that is undefined for one
  that is absent; the backend's struct makes the outermost object complete, and
  only that one. A vehicle or task without a member reaches the lookup:
  `WholeRequest` and `SamplesAccepted` are about requests that do not.
- `MergesWhole`: the log of a request shows what the merges of its search make one
  after the other, each as one step, although a merge goes counter by counter;
  two requests that merge at once mix their counters, and such logs are left out.
- `CodeTells`: 0 of the service's console says that some route is solved, and 0 of
  the benchmark's only that the search has run on the whole file: a solution that
  solves nothing ends with 0 there. `--help` alone prints no help.
- `WholeBenchmark`: a benchmark whose last line is ended, as in the repository's
  test, gives a problem with one task more, to a customer nobody wrote; one whose
  last line is not ended gives exactly its customers.
- `SinksFiltered`: a request's level filters the file and the console alike with
  `initializeLogger`, and nothing with the other two functions.
- `OneBrokenCustomer`: whatever is wrong with a benchmark file, the loop pushes
  one customer at most that was not read.
- `LevelWasAsked`: a request with an unknown level is refused before it changes
  the level of the others.
- `ReadsInside`, `BufferIsText`: the counts of bytes that re2c computed suffice
  on every path, and all four pointers survive a refill, the null one included.
- `WrittenIsToken`: `escape_string` lets bytes above 127 through, so what it
  writes is a token exactly if the string is UTF-8.
- `OrderedInRange`: with numbers that all three types can hold, `<` is a total
  order; beyond them it is not (below).
- `NothingOverwritten`, `Restored`: `unflatten` guesses from the first key it
  meets whether a container is an array. The keys come in the order of their
  texts, and it never loses a value; what it restores is what was flattened,
  unless an object has the key `0` (an empty container becomes a null, as documented).

### Statements of the repository that the code does not meet, without a run

Met while modelling and seen in the models' behaviours; the models follow the
code.

| Code | What it does | What is said |
|---|---|---|
| `src/src/lib/parser/json_parser.cpp:105` | members of a const value are taken without asking whether they are there; release builds have no assertions | `src/libs/json/json.hpp:3839`: "The element with key @a key must exist" |
| `src/src/lib/parser/json_parser.cpp:106` | `trip_duration` is read as a number | `src/tests/test_data.hpp:20` gives it as a string |
| `src/src/lib/parser/json_parser.cpp:187` | without settings the speed stays 90, in km/h | `src/include/solve/solver.hpp:59`: `speedForAproximationMetersInSecond` |
| `src/src/lib/parser/json_parser.cpp:281` | exported points are kept under internal ids and looked up by external ones | `src/data/export/venchile_12286.csv:2` has the points |
| `LRS/src/lib/solution/bench_loader.cpp:62` | a customer is pushed although nothing was read, when the last line is ended | `LRS/unit_tests/gh_bench_test.cpp:21` calls such a text with 50 customers `dummy_50` |
| `src/src/console/main.cpp:33` | `notify` throws for a required option before `help` is looked for | line 30: "produce help message" |
| `LRS/src/console/main.cpp:67` | `max_cycles` is passed as the limit of trials, `max_trials` as the hard limit of time | line 43: "max trials per solution" |
| `LRS/src/lib/log.cpp:169` | the sink with the callback is never added | `log.hpp:45`: `initializeWithCallBack` |
| `LRS/src/lib/log.cpp:171` | the console sink of that initialization has no filter | `src/golang/src/backend/structs.go:13`: a level per request |
| `src/libs/json/json.hpp:7803` | a map's key that is no string throws `domain_error` | 8043-8045: `invalid_argument` or `out_of_range` |
| `src/libs/json/json.hpp:7593` | 0x3b with n from 2^63 on is read as a number that is not negative | 7590: "Negative integer -1-n" |
| `src/libs/json/json.hpp:6140` | unsigned, signed and floating-point numbers from 2^63 on are ordered in a circle | 993-994: LessThanComparable |
| `src/libs/json/json.hpp:5930` | a NaN is not equal to itself | 5875-5877: equal if neither is greater |
| `src/libs/json/json.hpp:11612` | `/1a` is the element 1 | 12024: throws if an index "was not a number" |
| `src/libs/json/json.hpp:11455` | `{"0": 1}` comes back from `flatten().unflatten()` as `[1]` | 12105-12107: always equal |
| `src/libs/json/json.hpp:12262` | add below a primitive value does nothing and succeeds | 12261: a parent "cannot be primitive" |
| `src/libs/json/json.hpp:12289` | remove below a primitive value does nothing | 12146-12148: throws |

## 4. Fairness

ParallelSearch: weak fairness of each thread and of the main thread (the
operating system schedules them; a thread that can step does), and strong
fairness of `LookLock`. The strong one is an assumption about the spin lock,
which promises no order: without it the main thread could find the lock taken
at every look and never tell anyone to stop, and `Termination` fails. It is
justified by the length of the sections: a worker holds the lock for a
comparison and an assignment and is then away for a whole cycle. No fairness is
assumed for the workers' own attempts: after the stop there are finitely many.

Backend: weak fairness of each handler and of `Enter`. The library's stages
return because the search does (`Termination`). No client has to send anything.

JsonLexer: weak fairness of the scanner's step, for the thread runs on; that it
never goes round in a circle is what `ScanTerminates` says.

The other modules have safety properties only.

## 5. Proofs

`ParallelSearchProofs` proves, for any finite or infinite set of threads, any
limits, jitter and number of fitness values (assumptions: `FitnessAssumption`,
`LimitAssumption`):

| Theorem | Property | Inductive invariant and why it is needed |
|---|---|---|
| TypeCorrect | TypeOK | itself |
| MutexCorrect | MutualExclusion | `LockInv`: adds that the lock is taken while somebody is inside, without which entering says nothing |
| ResultCorrect | ResultIsBest | `ResultInv`: a comparison made under the lock still holds at the write (`Comparisons`), who has merged has nothing better than the result (`Merged`), somebody has a solution as good as the shared fitness (`Backed`), and the search returns after all have merged (`Joined`) |
| SharedImproves | SharedOnlyImproves | `ResultInv` |
| WinnerCorrect | OneWinnerPerFitness | `WinnerInv`: an owner's fitness is at most the shared one, so a second owner must be strictly better |
| OverrunBounded | HardLimitOverrun | `ClockInv`: before each sleep the clock has not passed the limit |
| PatienceKept | NoFreshBestIgnored | `SeenInv`: when nothing new was published since the last look, `lastUpdate` is not before the publication it stands for |
| Refinement | ImplementsSearch | `ResultInv`: `MergeWrite` maps to `Adopt`, `Cycle` and `Begin` to `Find`, `Join` to `Return`, all else to a stutter |

Each proof has one lemma for the worker's actions and one for the main
thread's, with a case for each action. `MutexCorrect` is proved only; that the
lock is needed shows in the mutants that break `OneWinnerPerFitness`,
`SharedOnlyImproves` and `ResultIsBest` without it.

`FoldLemmas` is what the other proofs know of induction, sums and folds. The
library's induction theorems take an operator, which no installed prover can
instantiate; these take a set instead (`Induction`, `SetInduction`, from
`NatLessThanWellFounded` and `WFMin`), so that a property is proved of a *set* of
numbers or of sets. With them the folds of the community modules, which choose
the function that iterates them, are shown to have one (`SumIsIter`,
`SumRemove`, `SumAdd`, `SumEqual` for `SumFunctionOnSet`; the same for
`FoldLeft` and `FlattenSeq`), and so sums over routes and on-board loads can be
reasoned about for every number of tasks. `RouteCheckProofs` holds what
`CurrentRouteState` and `RouteCheck` compute: a type lemma for each member
function of the truck (`MoveNextStartType` ...), that the recursive check of a
route returns a statistics or an event, that a route that passes left the
vehicle's limits and the windows alone (`GoodWalk`), and the differences of the
walk as running totals (`TotalIs`).

`RouteWalkProofs` proves, for every fleet, set of tasks, pair of matrices and
route that the producer can build (assumptions: `FleetAssumption`,
`MatrixAssumption`, `CostAssumption`):

| Theorem | Property | Inductive invariant and why it is needed |
|---|---|---|
| WalkTypeCorrect | TypeOK | `TypeInv`: adds that the clock is not before the start of the route (`Clock`), without which a trip's time may be negative, and what the checks of `moveNextEnd` leave for `processUnload` (`Placed`): a node to stand on and a task to take off the counter |
| EmptyTruckCorrect | EmptyTruckNeverDelivers | `LoadInv`: `m_taskTaken`, `m_currentLoad` and `m_currentVolume` are the number and the sums of the tasks on board, which past the order check gain the task of a loading node (`OnboardLoad`) and lose that of an unloading one (`OnboardUnload`); a truck without a node behind it has loaded nothing (`Carried`) |
| BookkeepingCorrect | OnboardBookkeeping | `LoadInv` |
| LimitsCorrect | VehicleLimitsHold | `LoadInv` with `ReportInv`: no entry written so far shows more than the vehicle can take, and behind an unloading node the trip is within its limits (`Limited`); the last node of a route unloads |
| ReportCorrect | ReportFits | the same, with two entries for each node served and one for the node the truck stands on, the last of which is the truck (`Recorded`), and the metres of the entries the sum that the truck keeps (`DistanceKept`) |
| MatchesCorrect | MatchesCheck | `Follows`: between two nodes the walk is where the loop of RouteCheck is after as many nodes, and between the two member functions of a node it is one of them further |

`ReportProofs` proves, from the same assumptions, for one source of food,
however many neighbours are tried, and for the answer that is made of it:

| Theorem | Property | Inductive invariant and why it is needed |
|---|---|---|
| SolutionTypeCorrect | TypeOK | `Inv` |
| RoutesCorrect | RoutesSound | `Inv`: the routes deal out the vehicles and tasks without sharing (`Deal`), `stat` is the total of their checks (`Totals`), and a flagged route can be driven (`Drivable`). The last needs the contest of the two solutions: a neighbour may keep the flag of a route that was shuffled out of order, but its failed check costs so much that it is never fitter than the source it was made of (`NotFitter`, `StaleNotFitter`) |
| CacheCorrect | CacheTransparent | `CacheSound`: every cached statistics is that of a route that passes |
| ReportTypeCorrect | ReportTypeOK | `ReportInv`. The routes that have statistics are no more than the routes of the solution, which `StatedRoutes` shows by the injection that `stat_of` is; whatever throws leaves all vectors as they were (`ThrownTypes`) |
| AnswerCorrect | TripsAreRoutes | `ReportInv`: `Inv`, and for each stage how far its vector is filled and with what, element for element (`Stated`, `Assembled`, `Responded`). Because a flagged route passes its check, `getResultStats` finds an entry for each node (`GoodWalk`), its totals of differences are the load on board (`TotalIs`), and its times follow each other |

`ServedByOneTrip` and `OnBoardAsReported` hold when the client's ids differ
(`DistinctTasks`): the answer names tasks by them, and nothing in the parser
keeps a client from giving two tasks one id. The condition is part of the
properties.

`SolvingProofs` proves, under `ColonyAssumption`, for a colony of any size, any
limit of trials and any values of fitness: `ColonyTypeCorrect` (ColonyTypeOK),
`BeesCorrect` (BeesFollowFitness) and `LossesCorrect` (LostOnlyAmongOnlookers).
The invariant is `ColonyInv`. Seating needs arithmetic only: a share that is
truncated and increased by one covers the quotient (`ShareCovers`), so the
shares add up to at least the number of onlookers (`SharesFill`), however ties
are ranked and quotients are rounded. That a winner is kept needs
where its solution comes from: only a parallel colony wins (`OnlyParallelWins`),
what it knows as best it once shared and still is among its sources
(`BestWasShared`, `BestIsASource`), and nobody is fitter (`NoneIsBetter`).

SolvingProofs also proves, for any zones, tasks and vehicles whose ids are `0 ..` (as
`CheckerAssumption` says of the inputs):

| Theorem | Property | Inductive invariant and why it is needed |
|---|---|---|
| CheckerTypeCorrect | CheckerTypeOK | `CheckerInv` |
| RowsCorrect | RowsIndependent, AllowedTaskFits | `CheckerInv`: a lookup with an id that no zone has adds an entry to the map, but what the map answers is still the last zone of that id, or 0 (`MapRight`); rows are filled when all zones have been looked at (`RowsAfterZones`) |
| SolvingTypesCorrect | SolvingTypeOK | those of ReportTypeCorrect, ColonyTypeCorrect and CheckerTypeCorrect: the run's property is their conjunction |

That the lists of the polygons are right (`PolygonsRight`) is plane geometry,
which is model-checked only, on the polygons of the run.

`JsonLexerProofs` proves, for every set of texts of any length and any bytes
(assumption: `TextsAssumption`, that texts are sequences of bytes):

| Theorem | Property | Inductive invariant and why it is needed |
|---|---|---|
| LexerTypeCorrect | TypeOK | `IInv`; the order of the pointers that the assertions of `fill_line_buffer` state |
| ReadsCorrect | ReadsInside | `IInv`: with the state come the bytes that are still known to be there (`Room`, counted by `Ahead`): five at the start of a token, three after each digit, and each state has fewer behind it or checks again (`ReadsRoom`). A NUL ends every state (`NulStops`), so the padding is not reached (`BeforePad`) |
| BufferCorrect | BufferIsText | `IInv`: what a refill drops is before `m_start`, and the marker is behind it in every state that goes back to it (`Marks`) |
| LongestCorrect | LongestToken | `IInv` with `Tracks`: each state stands for what the bytes from `m_start` to `m_cursor` are (`Known`), and in a state that may go back behind a number the marker is where that number ended |

`LexerTypeCorrect` is the scanner's part of `ReaderTypeOK`.
In the first three proofs the automaton enters through four lemmas about its
transitions, each by cases over the states; the refill through `Padding`,
`Appending`, `Shifted` and `Refilled`, about sequences and places alone.

`LongestCorrect` compares the automaton with the grammar of JsonGrammar, which
speaks of sequences and not of states. The grammar is first restated by places
in the text that is left: `NumberIs`, `StringIs`, `FixedIs`, and `KindIs` for
all of them. A number is a mantissa and an exponent, of which only one split is
possible (`OneInteger`, `OneMantissa`). For a string, `Cuts` is a fold over the
text; `CutsAre` shows which places it finds, `UnitIs` which bytes a character
has by the arithmetic of UTF-8 (`Character1` to `Character4`), and, no character
being the beginning of another (`OneUnit`), characters follow each other without
a gap (`NextCut`). Then for numbers, strings and words alike: a byte that is
read keeps what the state knows (`KnownReads`); a byte that goes on to a longer
token is read (`KnownLive`), so that where the scanner cannot go on there is no
longer token; what it accepts is a token and the longest (`KnownEnds`); and
where it stops or goes back to, the last token ended (`KnownHere`). A refill
changes none of the distances between the pointers (`EnterPlaces`). With
the overlong `MoreBytes_Overlong` in place of `MoreBytes`, the mutant of the
run, `CharReads` is no longer provable: the byte read after E0 would not keep
the string made of characters.

`ServiceProofs` proves, for any finite sets of clients and any number of CPUs
(assumption: `BackendAssumption`):

| Theorem | Property | Inductive invariant and why it is needed |
|---|---|---|
| BackendTypeCorrect | TypeOK | `IInv`; it is the backend's part of `ServiceTypeOK` |
| RequestCorrect | AskedIsSolved | `ClientInv`: `root` is what was posted or what the backend made of it (`Marshalled`), each object read so far is its element's, member for member (`ObjectsRead`), and a range is read whole before the next begins; the settings are the defaults until the last step, and what Go fills in is what the parser would take by itself (`PresetsAreDefaults`) |
| ServiceTypesCorrect | ServiceTypeOK | `IInv`, `ClientInv`, `ConsoleInv` with `ConsoleTypeInv`, `BenchInv`, `LogInv`, `FailsInv`; of a benchmark, that its matrices have two points for each task (`PointsAre`, by induction over the tasks) |
| SlotsCorrect | SlotsAccounted | `IInv`: who is in the queue waits and waits once (`QueueInv`), so that entering adds one holder for the slot it takes; pings and solves have places of their own (`Roles`), so that only a ping loses its slot |
| AnswersCorrect | AnswerFits | `IInv`: what the library has left of a call at each place of its handler (`Turns`): nothing before it returns, trips exactly with code 0 after it |
| SharedCorrect | RequestsApart | `LogInv`: the level has a name that somebody asked for, and the core is what the function of initialization that was called has made of it (`FolderInv`); `FailsInv`, below |
| ConsolesCorrect | ConsolesTell | `ConsoleInv`: each stage knows what the stages before it have left, and that of the loader too, whose problem no later step of the console changes; `BenchInv`, below |
| PromiseKept | KeepsPromise | `IInv`: `Bind` maps to `Wait` or `Refuse`, `Enter` of a solve to `Admit`, the step of the library that calls back to `Finish`, `Respond` to `Answer`, a ping's panic to `LoseSlot`, all else to a stutter. The queue maps to the solves in it, and how that part grows and shrinks with the queue is by induction over it (`SolvesAppend`, `SolvesTail`) |

`SharedCorrect` is about any requests, levels, threads and counters
(`FailsAssumption`: a request is searched in one way, by at least one worker).
`FailsInv` compares the collector with the history `serial`, in which each merge
of a search is one step. Only the holder of the lock of a search merges for it
(`MergesLocked`); so until another request merges, what the holder has passed is
as in `serial` and the rest becomes so when it combines its own counters, and
when nobody of the search is merging, all of it is (`Alone`). The copy begins
after all threads are joined (`JoinedFirst`), when `serial` can change no more.
Of `Combined` the proof uses that it is a number, so it would hold of a sum too.
With `hardware_concurrency() = 0` there is no worker, no merge, and the log is
what earlier requests left: `Workers # {}` excludes it.

`ConsolesCorrect` is about any options and any files. `Extract` and `GetLine`
are restated as where they leave the stream (`ExtractTakes`, `GetLineTakes`),
and `ReadCustomer`, a fold over the seven fields, as the streams and numbers
between them (`ReadIs`). While the stream is good every customer that was read
is complete (`CustomerRead`), so only the last one can hold garbage. Of a
benchmark, the stream stands behind as many lines as customers were read
(`Reading`, `BenchAt`). If the last line is ended the loop turns once more, and
what it reads there is garbage in every member (`NothingLeft`); if not, the
stream is at its end with the last number, and the loop stops
(`AllCustomers`). What a benchmark looks like is `IsBenchmark` in
BenchLoader, and TLC evaluates `FilesAssumption` for the files of the run; of
other files nothing is assumed but that they are tokens.

`RequestCorrect` is about any set of JSON values, in which a request may have
any member of any type or none: `AccessAssumption` says that a JSON value has
one type and that its members and elements are values again, and
`RequestAssumption` that the bodies are such values, that the samples have the
form that `SampleForm` states, and that `size_t` holds what Go fills in. The proof found a fault of an earlier model: the arms
of `AfterSettings` for the speed and for the other keys overlapped, so that the
value of one key was not determined by the definition, although TLC took the
first arm as the code does. `OptionsAssumption` says that an option's value is a
number, and `LogAssumption` keeps the mark of a request that has not asked yet
apart from the levels that requests ask for.

The slots are counted by `FS_AddElement` and `FS_RemoveElement`, one lemma each
for a handler that enters, leaves, panics or does none of it; each action cites
the one it needs.

Model-checked only: the lists of polygons (`PolygonsRight`, a part of
`MatrixRight`); what strings and numbers mean (`TokensMeanValues`); what the
RECURSIVE operators of JsonDocument, JsonPointer, JsonFlatten, JsonPatch,
JsonCompare and JsonBinary compute for every input (`DocumentsFaithful`,
`PointersRestore`, `PatchesFit`, `OrderSound`, `BinaryKept`, and the parser's part
of `ReaderTypeOK`), for the prover has no arithmetic in a module that reaches one;
and liveness (`Termination`, `EveryRequestAnswered`, `ScanTerminates`), which is
out of its reach.

## 6. Not modelled

- OSRM: a third-party engine; its matrices are constants and its failures
  alternatives of two steps. Routing profiles, the CUDA test of a kernel that
  nothing calls, images and scripts are data and tooling.
- `cn_PnPoly` is called by nothing. Coordinates of zones are whole numbers, so
  the rounding of floating-point coordinates is not modelled; costs are exact.
- `setup` of the library constructs the solver once, before any request.
  `produceInputDataCsvToFolder` and the backend's dump folder write files that
  nothing reads; `print` of the statistics and the records of the log are
  wording.
- json.hpp: its iterators, the containers' modifiers (`insert`, `erase`,
  `push_back`, `swap`), the conversion traits and stream adaptors are templates
  around the standard containers; the parser's callback is passed by no caller.
  A floating-point number is a choice among the values around it, and its digits
  are printf's.
- Hazards that no property covers. `vehicleFromJson` never sets a vehicle's
  types, so a task with any type can be served by nobody (json_parser.cpp:98):
  Request and TaskChecker show it, and no statement says otherwise.
  `getTripMaxTasks` returns 16 of 32 bits, so that a limit of 65536 is none
  (data_structs.hpp:163): the models hold what it returns. The fraction of a leg
  is cut off when it is added to the clock (currentroutestate.cpp:47), which no
  property tells from rounding. An id of a zone that there is not counts as the
  zone at index 0 (vehicle_to_task_checker.cpp:47), and `RowsIndependent` takes
  it so. The benchmark's console passes its numbers in another order than its
  help names them, which `BenchParams` shows and no property is about. The
  marshalled bytes have no NUL behind them when they are passed to C
  (main.go:74). `hardware_concurrency()` may be 0, and then no worker starts
  (abc_parallel.hpp:201); ParallelSearch assumes no number of threads, and with
  none returns the random solution. The parser recurses once per level of
  nesting (json.hpp:11158), and the size of the stack is the platform's.

## 7. Plan

Done: the modules above. Left, in this order:

1. *Proofs*: the digits of JsonNumber and the strings of JsonText.
2. *TaskChecker feeding RouteCheck*: the matrix computed by TaskChecker as
   `Valid`, to state that no accepted route visits a task outside its vehicle's
   zones.
3. *json.hpp*: containers' modifiers, for what they do to iterators that a
   caller holds.
