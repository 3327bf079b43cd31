-------------------------------- MODULE Log --------------------------------
(***************************************************************************)
(* The logger (log.hpp, log.cpp): one level for the whole process, which   *)
(* every request sets, and the sinks that the three functions of           *)
(* initialization add.                                                     *)
(*                                                                         *)
(* External: Boost.Log's core hands a record to every sink that was added  *)
(* to it whose filter, if it has one, lets the record through; without a   *)
(* sink it would write to one of its own.                                  *)
(***************************************************************************)
EXTENDS Naturals, Sequences, FiniteSets

CONSTANTS
    Callers,     \* the calls of processRequest that run at a time
    Asked        \* what a request may have as log_level

\* enum LogLevel, in order
LogLevels == <<"trace", "debug", "info", "warn", "error", "fatal">>
LevelOf(name) == CHOOSE i \in DOMAIN LogLevels : LogLevels[i] = name
Known(name) == \E i \in DOMAIN LogLevels : LogLevels[i] = name

\* "" is who has not asked yet; an empty name is as unknown as any other
ASSUME LogAssumption == "" \notin Asked

VARIABLES
    init,        \* how the logger was initialized: "", "console", "folder", "callback"
    core,        \* the sinks of the core: [to, filtered]
    logLevel,    \* gLogLevel
    asked,       \* what each request has asked for, "" before it does
    refused,     \* the requests whose level was not one
    written      \* history: the last record, and where it went

logVars == <<init, core, logLevel, asked, refused, written>>

Nothing == [level |-> 0, to |-> {}]

LogInit ==
    /\ init = "" /\ core = {} /\ logLevel = LevelOf("info")
    /\ asked = [r \in Callers |-> ""] /\ refused = {}
    /\ written = Nothing

-----------------------------------------------------------------------------
\* the filter of a sink; a sink that is not added to the core is only a
\* variable of the function, filter or not
Sink(to, filtered) == [to |-> to, filtered |-> filtered]

\* mutation: the console of initializeLogger has no filter, like the others
FolderSinks_Unfiltered == {Sink("file", TRUE), Sink("console", FALSE)}

\* initializeLogger adds what it makes
FolderSinks == {Sink("file", TRUE), Sink("console", TRUE)}

\* initializeJustConsole and initializeWithCallBack make a sink with a filter,
\* for files or for the callback, which they do not add
ConsoleSinks == {Sink("console", FALSE)}
CallbackSinks == {Sink("console", FALSE)}

Initialize ==
    /\ init = ""
    /\ \/ init' = "console" /\ core' = ConsoleSinks
       \/ init' = "callback" /\ core' = CallbackSinks
       \/ init' = "folder" /\ core' = FolderSinks
    /\ UNCHANGED <<logLevel, asked, refused, written>>

\* mutation: a name that is not known means the lowest level
SetLogLevel_Lenient(r) ==
    /\ init # "" /\ asked[r] = ""
    /\ \E name \in Asked :
          /\ asked' = [asked EXCEPT ![r] = name]
          /\ logLevel' = IF Known(name) THEN LevelOf(name) ELSE 1
          /\ refused' = IF Known(name) THEN refused ELSE refused \cup {r}
    /\ UNCHANGED <<init, core, written>>

\* setLogLevelFromString, once for each request
SetLogLevel(r) ==
    /\ init # "" /\ asked[r] = ""
    /\ \E name \in Asked :
          /\ asked' = [asked EXCEPT ![r] = name]
          /\ IF Known(name)
             THEN logLevel' = LevelOf(name) /\ UNCHANGED refused
             ELSE refused' = refused \cup {r} /\ UNCHANGED logLevel
    /\ UNCHANGED <<init, core, written>>

\* log_level_filter
Passes(sink, level) == sink.filtered => level >= logLevel

\* a record of a request
Record(r) ==
    /\ init # "" /\ r \notin refused
    /\ \E level \in DOMAIN LogLevels :
          written' = [level |-> level, to |-> {sink.to : sink \in {s \in core : Passes(s, level)}}]
    /\ UNCHANGED <<init, core, logLevel, asked, refused>>

LogNext == Initialize \/ \E r \in Callers : SetLogLevel(r) \/ Record(r)

LogSpec == LogInit /\ [][LogNext]_logVars

-----------------------------------------------------------------------------
LogTypeOK ==
    /\ init \in {"", "console", "folder", "callback"}
    /\ core \subseteq [to : {"file", "console"}, filtered : BOOLEAN]
    /\ logLevel \in DOMAIN LogLevels
    /\ refused = {r \in Callers : asked[r] # "" /\ ~Known(asked[r])}

\* The level is that of some request, or the one it began with: a request with
\* a level that does not exist changes nothing for the others.
LevelWasAsked ==
    \/ logLevel = LevelOf("info")
    \/ \E r \in Callers : asked[r] = LogLevels[logLevel]

\* Which records a request's level keeps from whom: with initializeLogger it
\* filters the file and the console alike; with the other two functions their
\* console has every record, whatever any request has asked for.
SinksFiltered ==
    [][written' # written =>
         written'.to = IF init # "folder" THEN {"console"}
                       ELSE IF written'.level >= logLevel THEN {"file", "console"} ELSE {}]_logVars
=============================================================================
