---------------------------- MODULE ParallelSearch ----------------------------
(***************************************************************************)
(* beeColonySolveParallel and its colonyRoutine threads                    *)
(* (libs/route_solver/include/route_solver/abc/abc_parallel.hpp): every    *)
(* thread runs a colony of its own, publishes its best fitness under a     *)
(* spin lock after each cycle, and merges its best solution into the       *)
(* caller's when it is told to stop.  The main thread looks at the shared  *)
(* fitness twice a second and decides when to stop.                        *)
(*                                                                         *)
(* A solution is its fitness.  What a colony does between two publications *)
(* is one step here, Cycle, which finds any solution at least as good as   *)
(* the colony's best; the module Colony models it bee by bee.  The load of *)
(* the flag is relaxed: reading it late is reading it earlier, because it  *)
(* changes once and the thread writes nothing in between.                  *)
(* Time is counted in half seconds, the main thread's sleep.               *)
(***************************************************************************)
EXTENDS Integers, FiniteSets, FiniteSetsExt

CONSTANTS
    Threads,     \* one per hardware thread; hardware_concurrency() may be 0
    MaxFitness,  \* bound: fitness values are 1 .. MaxFitness
    HardLimit,   \* params.maxTimeInSecHardLimit
    NoNewLimit,  \* params.maxTimeInSecNoNewBestSolution
    Jitter,      \* bound: extra half seconds a sleep and a lock may take
    MaxFails     \* bound: events a colony counts

ASSUME FitnessAssumption == MaxFitness \in Nat \ {0}
ASSUME LimitAssumption ==
    /\ HardLimit \in Nat
    /\ NoNewLimit \in Nat
    /\ Jitter \in Nat
    /\ MaxFails \in Nat

Fitness == 1 .. MaxFitness

VARIABLES
    lock,         \* SpinLock::m_state
    flag,         \* WorkerState::m_state
    syncBest,     \* syncGlobalBestSolutionFitness, shared
    out,          \* the caller's bestSolution, shared
    globalFails,  \* globalFailsCollector, shared
    pc,           \* where each thread is
    best,         \* each thread's bestSolution, 0 before it has one
    ours,         \* each thread's our_is_best
    fails,        \* each thread's m_failsCollector
    pcMain,       \* where the main thread is
    globalBest,   \* the main thread's globalBestSolutionFitness
    newBest,      \* the main thread's new_best_found
    now, lastUpdate,  \* steady_clock since start, and lastUpdateTime
    publishedAt   \* history: when syncBest was last raised

shared  == <<lock, flag, syncBest, out, globalFails>>
workers == <<pc, best, ours, fails>>
main    == <<pcMain, globalBest, newBest, now, lastUpdate>>
vars    == <<lock, flag, syncBest, out, globalFails, pc, best, ours, fails,
             pcMain, globalBest, newBest, now, lastUpdate, publishedAt>>

\* a thread between its lock() and its unlock()
PubSection   == {"compare", "publish", "pubUnlock"}
MergeSection == {"mergeCompare", "mergeWrite", "mergeFails", "mergeUnlock"}
InSection(t) == pc[t] \in PubSection \cup MergeSection
MainInSection == pcMain \in {"look", "lookUnlock"}

WorkerPCs == {"unborn", "start", "loop", "search", "pubLock", "judge",
              "mergeLock", "done"} \cup PubSection \cup MergeSection
MainPCs   == {"spawn", "sleep", "lookLock", "look", "lookUnlock", "decide",
              "stop", "join", "returned"}

Init ==
    /\ lock = "Unlocked"
    /\ flag = "RunningState"
    /\ out \in Fitness
    /\ syncBest = out
    /\ globalBest = out
    /\ globalFails = 0
    /\ pc = [t \in Threads |-> "unborn"]
    /\ best = [t \in Threads |-> 0]
    /\ ours = [t \in Threads |-> FALSE]
    /\ fails = [t \in Threads |-> 0]
    /\ pcMain = "spawn"
    /\ newBest = FALSE
    /\ now = 0
    /\ lastUpdate = 0
    /\ publishedAt = 0

-----------------------------------------------------------------------------
(* A worker thread *)

Goto(t, p) == pc' = [pc EXCEPT ![t] = p]

\* the exchange that finds the lock free; one that finds it taken changes nothing
Acquire == lock = "Unlocked" /\ lock' = "Locked"
Release == lock' = "Unlocked"

\* mutant of Begin: the thread starts without a solution
Begin_NoSolution(t) ==
    /\ pc[t] = "start"
    /\ Goto(t, "loop")
    /\ UNCHANGED <<shared, best, ours, fails, main, publishedAt>>

\* lines 63-74: the first random solution
Begin(t) ==
    /\ pc[t] = "start"
    /\ \E f \in Fitness : best' = [best EXCEPT ![t] = f]
    /\ Goto(t, "loop")
    /\ UNCHANGED <<shared, ours, fails, main, publishedAt>>

\* mutant of CheckFlag: the thread never sees that it was told to stop
CheckFlag_Deaf(t) ==
    /\ pc[t] = "loop"
    /\ Goto(t, "search")
    /\ UNCHANGED <<shared, best, ours, fails, main, publishedAt>>

CheckFlag(t) ==
    /\ pc[t] = "loop"
    /\ Goto(t, IF flag = "RunningState" THEN "search" ELSE "mergeLock")
    /\ UNCHANGED <<shared, best, ours, fails, main, publishedAt>>

\* lines 78-150: one cycle of the colony and the recording of its best
Cycle(t) ==
    /\ pc[t] = "search"
    /\ \E f \in Fitness : f >= best[t] /\ best' = [best EXCEPT ![t] = f]
    /\ \E n \in 0 .. MaxFails : n >= fails[t] /\ fails' = [fails EXCEPT ![t] = n]
    /\ ours' = [ours EXCEPT ![t] = FALSE]
    /\ Goto(t, "pubLock")
    /\ UNCHANGED <<shared, main, publishedAt>>

\* mutant of PubLock: publishing does not take the lock
PubLock_NoLock(t) ==
    /\ pc[t] = "pubLock"
    /\ Goto(t, "compare")
    /\ UNCHANGED <<shared, best, ours, fails, main, publishedAt>>

PubLock(t) ==
    /\ pc[t] = "pubLock"
    /\ Acquire
    /\ Goto(t, "compare")
    /\ UNCHANGED <<flag, syncBest, out, globalFails, best, ours, fails, main, publishedAt>>

Compare(t) ==
    /\ pc[t] = "compare"
    /\ Goto(t, IF best[t] > syncBest THEN "publish" ELSE "pubUnlock")
    /\ UNCHANGED <<shared, best, ours, fails, main, publishedAt>>

Publish(t) ==
    /\ pc[t] = "publish"
    /\ syncBest' = best[t]
    /\ publishedAt' = now
    /\ ours' = [ours EXCEPT ![t] = TRUE]
    /\ Goto(t, "pubUnlock")
    /\ UNCHANGED <<lock, flag, out, globalFails, best, fails, main>>

PubUnlock(t) ==
    /\ pc[t] = "pubUnlock"
    /\ Release
    /\ Goto(t, "judge")
    /\ UNCHANGED <<flag, syncBest, out, globalFails, best, ours, fails, main, publishedAt>>

\* lines 161-167: a colony that did not win draws a new population, which
\* leaves its best solution alone
Judge(t) ==
    /\ pc[t] = "judge"
    /\ Goto(t, "loop")
    /\ UNCHANGED <<shared, best, ours, fails, main, publishedAt>>

\* mutant of MergeLock: merging does not take the lock
MergeLock_NoLock(t) ==
    /\ pc[t] = "mergeLock"
    /\ Goto(t, "mergeCompare")
    /\ UNCHANGED <<shared, best, ours, fails, main, publishedAt>>

MergeLock(t) ==
    /\ pc[t] = "mergeLock"
    /\ Acquire
    /\ Goto(t, "mergeCompare")
    /\ UNCHANGED <<flag, syncBest, out, globalFails, best, ours, fails, main, publishedAt>>

MergeCompare(t) ==
    /\ pc[t] = "mergeCompare"
    /\ Goto(t, IF best[t] > out THEN "mergeWrite" ELSE "mergeFails")
    /\ UNCHANGED <<shared, best, ours, fails, main, publishedAt>>

MergeWrite(t) ==
    /\ pc[t] = "mergeWrite"
    /\ out' = best[t]
    /\ Goto(t, "mergeFails")
    /\ UNCHANGED <<lock, flag, syncBest, globalFails, best, ours, fails, main, publishedAt>>

\* globalFailsCollector += m_failsCollector, whose operator assigns
MergeFails(t) ==
    /\ pc[t] = "mergeFails"
    /\ globalFails' = fails[t]
    /\ Goto(t, "mergeUnlock")
    /\ UNCHANGED <<lock, flag, syncBest, out, best, ours, fails, main, publishedAt>>

MergeUnlock(t) ==
    /\ pc[t] = "mergeUnlock"
    /\ Release
    /\ Goto(t, "done")
    /\ UNCHANGED <<flag, syncBest, out, globalFails, best, ours, fails, main, publishedAt>>

Worker(t) ==
    \/ Begin(t) \/ CheckFlag(t) \/ Cycle(t)
    \/ PubLock(t) \/ Compare(t) \/ Publish(t) \/ PubUnlock(t) \/ Judge(t)
    \/ MergeLock(t) \/ MergeCompare(t) \/ MergeWrite(t) \/ MergeFails(t) \/ MergeUnlock(t)

-----------------------------------------------------------------------------
(* The main thread *)

\* the threads spawned first already run while the others are spawned
Spawn ==
    /\ pcMain = "spawn"
    /\ \E t \in Threads : pc[t] = "unborn" /\ Goto(t, "start")
    /\ UNCHANGED <<shared, best, ours, fails, main, publishedAt>>

StartClock ==
    /\ pcMain = "spawn"
    /\ \A t \in Threads : pc[t] # "unborn"
    /\ pcMain' = "sleep"
    /\ UNCHANGED <<shared, workers, globalBest, newBest, now, lastUpdate, publishedAt>>

Sleep ==
    /\ pcMain = "sleep"
    /\ \E d \in 0 .. Jitter : now' = now + 1 + d
    /\ newBest' = FALSE
    /\ pcMain' = "lookLock"
    /\ UNCHANGED <<shared, workers, globalBest, lastUpdate, publishedAt>>

LookLock ==
    /\ pcMain = "lookLock"
    /\ Acquire
    /\ pcMain' = "look"
    /\ UNCHANGED <<flag, syncBest, out, globalFails, workers, globalBest,
                   newBest, now, lastUpdate, publishedAt>>

Look ==
    /\ pcMain = "look"
    /\ newBest' = (syncBest > globalBest)
    /\ globalBest' = IF syncBest > globalBest THEN syncBest ELSE globalBest
    /\ pcMain' = "lookUnlock"
    /\ UNCHANGED <<shared, workers, now, lastUpdate, publishedAt>>

LookUnlock ==
    /\ pcMain = "lookUnlock"
    /\ Release
    /\ pcMain' = "decide"
    /\ UNCHANGED <<flag, syncBest, out, globalFails, workers, globalBest,
                   newBest, now, lastUpdate, publishedAt>>

\* duration_cast<seconds> truncates
Seconds(d) == d \div 2

\* mutant of TimeIsUp: only the time without a new best counts
TimeIsUp_NoHardLimit(n, last) == Seconds(n - last) > NoNewLimit

TimeIsUp(n, last) == Seconds(n) > HardLimit \/ Seconds(n - last) > NoNewLimit

\* mutant of Decide: a new best does not restart the wait for the next one
Decide_NoRestart ==
    /\ pcMain = "decide"
    /\ pcMain' = IF TimeIsUp(now, lastUpdate) THEN "stop" ELSE "sleep"
    /\ UNCHANGED <<shared, workers, globalBest, newBest, now, lastUpdate, publishedAt>>

Decide ==
    /\ pcMain = "decide"
    /\ lastUpdate' = IF newBest THEN now ELSE lastUpdate
    /\ pcMain' = IF TimeIsUp(now, lastUpdate') THEN "stop" ELSE "sleep"
    /\ UNCHANGED <<shared, workers, globalBest, newBest, now, publishedAt>>

Stop ==
    /\ pcMain = "stop"
    /\ flag' = "StopState"
    /\ pcMain' = "join"
    /\ UNCHANGED <<lock, syncBest, out, globalFails, workers, globalBest,
                   newBest, now, lastUpdate, publishedAt>>

\* mutant of Join: the threads are left running
Join_NoWait ==
    /\ pcMain = "join"
    /\ pcMain' = "returned"
    /\ UNCHANGED <<shared, workers, globalBest, newBest, now, lastUpdate, publishedAt>>

\* join returns for every thread once all have left colonyRoutine
Join ==
    /\ pcMain = "join"
    /\ \A t \in Threads : pc[t] = "done"
    /\ pcMain' = "returned"
    /\ UNCHANGED <<shared, workers, globalBest, newBest, now, lastUpdate, publishedAt>>

Main == Spawn \/ StartClock \/ Sleep \/ LookLock \/ Look \/ LookUnlock
           \/ Decide \/ Stop \/ Join

\* nothing is left to do
Returned == pcMain = "returned" /\ UNCHANGED vars

Next == Main \/ (\E t \in Threads : Worker(t)) \/ Returned

Spec == Init /\ [][Next]_vars

(***************************************************************************)
(* Every thread keeps being scheduled.  The spin lock promises nobody a    *)
(* turn, so a thread is not assumed to win a lock it keeps finding taken;  *)
(* only the main thread is, because a colony holds the lock for a handful  *)
(* of instructions and then leaves it alone for a whole cycle.             *)
(***************************************************************************)
Fairness ==
    /\ WF_vars(Main)
    /\ SF_vars(LookLock)
    /\ \A t \in Threads : WF_vars(Worker(t))

FairSpec == Spec /\ Fairness

-----------------------------------------------------------------------------

\* the types of the C++ variables; a thread has a solution as soon as it has begun
TypeOK ==
    /\ lock \in {"Locked", "Unlocked"}
    /\ flag \in {"RunningState", "StopState"}
    /\ syncBest \in Fitness /\ out \in Fitness /\ globalBest \in Fitness
    /\ globalFails \in Nat
    /\ pc \in [Threads -> WorkerPCs]
    /\ best \in [Threads -> Fitness \cup {0}]
    /\ \A t \in Threads : best[t] = 0 <=> pc[t] \in {"unborn", "start"}
    /\ ours \in [Threads -> BOOLEAN]
    /\ fails \in [Threads -> Nat]
    /\ pcMain \in MainPCs
    /\ newBest \in BOOLEAN
    /\ now \in Nat /\ lastUpdate \in 0 .. now /\ publishedAt \in 0 .. now

\* the spin lock keeps the three critical sections of the program apart
MutualExclusion ==
    /\ \A t, u \in Threads : InSection(t) /\ InSection(u) => t = u
    /\ \A t \in Threads : ~(InSection(t) /\ MainInSection)

\* two colonies never both keep their population for the same fitness: each
\* value is won by one thread, the others draw a new population
OneWinnerPerFitness ==
    \A t, u \in Threads :
        /\ t # u /\ ours[t] /\ ours[u]
        /\ pc[t] \in {"pubUnlock", "judge"} /\ pc[u] \in {"pubUnlock", "judge"}
        => best[t] # best[u]

\* the solution handed back is at least as good as every one any colony
\* recorded, as the shared fitness, and as what was logged as a new best
ResultIsBest ==
    pcMain = "returned" =>
        /\ \A t \in Threads : best[t] <= out
        /\ globalBest <= syncBest
        /\ syncBest <= out

\* the decision to stop may come more than a second after the limit, because
\* the limit is compared in whole seconds after each sleep, but never later
HardLimitOverrun == now <= 2 * (HardLimit + 1) + Jitter

\* the shared fitness and the caller's solution never get worse, whatever the
\* order in which threads publish and merge
SharedOnlyImproves == [][syncBest' >= syncBest /\ out' >= out]_vars

\* the search only gives up before the hard limit when the best it has seen
\* has stood for more than NoNewLimit seconds, counted from when it was
\* published; a best published after the last look is the one exception
NoFreshBestIgnored ==
    [][pcMain = "decide" /\ pcMain' = "stop" /\ Seconds(now) <= HardLimit
       => globalBest # syncBest \/ Seconds(now - publishedAt) > NoNewLimit]_vars

\* all threads are told to stop, finish, and are joined
Termination == <>(pcMain = "returned")

\* the parallel search implements the abstract one
Abstract == INSTANCE Search WITH
    Workers <- Threads, known <- best, held <- out, returned <- (pcMain = "returned")
ImplementsSearch == Abstract!Spec

\* merging adds up what the threads counted, as "+=" says
FailsAreSummed ==
    pcMain = "returned" => globalFails = MapThenSumSet(LAMBDA t : fails[t], Threads)
=============================================================================
