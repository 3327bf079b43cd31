----------------------------- MODULE ServiceParts -----------------------------
(***************************************************************************)
(* The parts of the service around the solver: the Go backend (Backend); a *)
(* request's way from the client's JSON to the solver's objects (Request); *)
(* what the requests of one process share beside the slots, the logger's   *)
(* level (Log) and the statistics of the fails (FailStatistics); and the   *)
(* consoles (Consoles), with the loader of benchmark files (BenchLoader).  *)
(***************************************************************************)
EXTENDS Backend, JsonAccess, BenchLoader, Log, FailStatistics

CONSTANTS
    Bodies, Texts, Samples, Int32Max,    \* Request
    Values                               \* Consoles

VARIABLES
    body, posted, root, requestPc, zones, vehicles, tasks, settings,               \* Request
    program, argv, fault, stage, level, exported, found, params, printed, code     \* Consoles

Client  == INSTANCE Request WITH pc <- requestPc
Console == INSTANCE Consoles WITH pc <- stage

\* Requests are values; the samples have their form; and size_t is wide enough
\* for the numbers that the backend fills in.
ASSUME RequestAssumption ==
    /\ Bodies \subseteq Json /\ Texts \subseteq Json
    /\ \A j \in Samples : Client!SampleForm(j)
    /\ \A key \in DOMAIN Client!GoSettings :
          LET preset == Client!GoSettings[key].preset
          IN  Client!Is("num", preset) => preset.num \in 0 .. Modulus.size_t - 1

\* the numbers that may be given for an option
ASSUME OptionsAssumption == Values \subseteq Nat

-----------------------------------------------------------------------------
(* A console and the loader that it runs: the benchmark's console waits in  *)
(* its constructor, the service's has none.                                 *)

consoleVars == <<program, argv, fault, stage, level, exported, found, params, printed, code>>

Loading == stage = "load" /\ BenchNext /\ UNCHANGED consoleVars

ConsolesInit == Console!Init /\ BenchInit
ConsolesNext == (Console!Next /\ UNCHANGED benchVars) \/ Loading
ConsolesSpec == ConsolesInit /\ [][ConsolesNext]_<<consoleVars, benchVars>>

-----------------------------------------------------------------------------
(* Properties; those of the instances say in their modules what they are    *)
(* about.                                                                   *)

\* Every variable of every part has its type.
ServiceTypeOK ==
    TypeOK /\ Client!TypeOK /\ Console!TypeOK /\ BenchTypeOK /\ LogTypeOK /\ FailsTypeOK

\* What the solver solves is what the client has asked for.
AskedIsSolved == Client!AskedIsSolved

\* The code of a console tells what the search has found, and the export that
\* was asked for is written; the problem of a benchmark is the whole file, with
\* a customer of garbage more exactly if its last line is ended; and of a broken
\* file all but the last customer was read.
ConsolesTell == Console!CodeTells /\ OneBrokenCustomer /\ WholeBenchmark

\* What one request does to the logger and the statistics that it shares with
\* others: a level that does not exist changes nothing; the workers of a search
\* merge their fails one after the other, each whole, as long as no request
\* merges in between; and which records a request's level lets through depends
\* on how the logger was initialized.
RequestsApart ==
    /\ [](LevelWasAsked /\ MergesWhole)
    /\ SinksFiltered
=============================================================================
