------------------------- MODULE ParallelSearchProofs -------------------------
(***************************************************************************)
(* Theorems of ParallelSearch, for every set of threads, every range of    *)
(* fitness values and all limits.                                          *)
(***************************************************************************)
EXTENDS ParallelSearch, TLAPS

-----------------------------------------------------------------------------
(* Types *)

LEMMA InitTypeOK == Init => TypeOK
<1> SUFFICES ASSUME Init PROVE TypeOK
  OBVIOUS
<1>1. ours \in [Threads -> BOOLEAN] /\ newBest \in BOOLEAN
  BY DEF Init
<1>2. now \in Nat /\ lastUpdate \in 0 .. now /\ publishedAt \in 0 .. now
  BY DEF Init
<1>3. syncBest \in Fitness /\ out \in Fitness /\ globalBest \in Fitness
  BY DEF Init
<1>4. pc \in [Threads -> WorkerPCs] /\ pcMain \in MainPCs
  BY DEF Init, WorkerPCs, MainPCs
<1>5. /\ best \in [Threads -> Fitness \cup {0}]
      /\ \A t \in Threads : best[t] = 0 <=> pc[t] \in {"unborn", "start"}
  BY DEF Init
<1>6. fails \in [Threads -> Nat] /\ globalFails \in Nat
  BY DEF Init
<1> QED
  BY <1>1, <1>2, <1>3, <1>4, <1>5, <1>6 DEF Init, TypeOK

\* a step of thread t leaves the other threads, and the main thread, where they are
LEMMA WorkerFrame ==
  ASSUME TypeOK, NEW t \in Threads, Worker(t)
  PROVE  /\ \A u \in Threads \ {t} : /\ pc'[u] = pc[u] /\ best'[u] = best[u]
                                     /\ ours'[u] = ours[u] /\ fails'[u] = fails[u]
         /\ UNCHANGED <<main, flag>>
  BY DEF Worker, Begin, CheckFlag, Cycle, PubLock, Compare, Publish, PubUnlock, Judge,
         MergeLock, MergeCompare, MergeWrite, MergeFails, MergeUnlock, TypeOK, Goto,
         shared, main

LEMMA WorkerTypeOK ==
  ASSUME TypeOK, NEW t \in Threads, Worker(t)
  PROVE  TypeOK'
<1> USE DEF TypeOK, WorkerPCs, PubSection, MergeSection, Goto, shared, main
<1>1. CASE Begin(t)
  BY <1>1, FitnessAssumption DEF Begin, Fitness
<1>2. CASE CheckFlag(t)
  BY <1>2 DEF CheckFlag
<1>3. CASE Cycle(t)
  BY <1>3, FitnessAssumption, LimitAssumption DEF Cycle, Fitness
<1>4. CASE PubLock(t)
  BY <1>4 DEF PubLock, Acquire
<1>5. CASE Compare(t)
  BY <1>5 DEF Compare
<1>6. CASE Publish(t)
  BY <1>6 DEF Publish
<1>7. CASE PubUnlock(t)
  BY <1>7 DEF PubUnlock, Release
<1>8. CASE Judge(t)
  BY <1>8 DEF Judge
<1>9. CASE MergeLock(t)
  BY <1>9 DEF MergeLock, Acquire
<1>10. CASE MergeCompare(t)
  BY <1>10 DEF MergeCompare
<1>11. CASE MergeWrite(t)
  BY <1>11 DEF MergeWrite
<1>12. CASE MergeFails(t)
  BY <1>12 DEF MergeFails
<1>13. CASE MergeUnlock(t)
  BY <1>13 DEF MergeUnlock, Release
<1> QED
  BY <1>1, <1>2, <1>3, <1>4, <1>5, <1>6, <1>7, <1>8, <1>9, <1>10, <1>11, <1>12,
     <1>13 DEF Worker

LEMMA MainTypeOK ==
  ASSUME TypeOK, Main
  PROVE  TypeOK'
<1> USE DEF TypeOK, MainPCs, shared, workers
<1>1. CASE Spawn
  BY <1>1 DEF Spawn, Goto, main, WorkerPCs
<1>2. CASE StartClock
  BY <1>2 DEF StartClock
<1>3. CASE Sleep
  <2>1. now' \in Nat /\ now <= now'
    BY <1>3, LimitAssumption DEF Sleep
  <2>2. lastUpdate' \in 0 .. now' /\ publishedAt' \in 0 .. now'
    BY <1>3, <2>1 DEF Sleep
  <2> QED
    BY <1>3, <2>1, <2>2 DEF Sleep
<1>4. CASE LookLock
  BY <1>4 DEF LookLock, Acquire
<1>5. CASE Look
  BY <1>5 DEF Look
<1>6. CASE LookUnlock
  BY <1>6 DEF LookUnlock, Release
<1>7. CASE Decide
  BY <1>7 DEF Decide
<1>8. CASE Stop
  BY <1>8 DEF Stop
<1>9. CASE Join
  BY <1>9 DEF Join
<1> QED
  BY <1>1, <1>2, <1>3, <1>4, <1>5, <1>6, <1>7, <1>8, <1>9 DEF Main

\* Every variable keeps the type of the C++ member it stands for, and a thread
\* that has begun has a solution (abc_parallel.hpp 69).
THEOREM TypeCorrect == Spec => []TypeOK
<1>1. TypeOK /\ [Next]_vars => TypeOK'
  <2>1. CASE UNCHANGED vars
    BY <2>1 DEF vars, TypeOK
  <2> QED
    BY <2>1, WorkerTypeOK, MainTypeOK DEF Next, Returned
<1> QED
  BY <1>1, InitTypeOK, PTL DEF Spec

-----------------------------------------------------------------------------
(* The spin lock *)

\* MutualExclusion is not inductive: a section is entered on the strength of
\* the lock's value, so that value must be tied to the sections
LockHeld ==
    (\E t \in Threads : InSection(t)) \/ MainInSection => lock = "Locked"

LockInv == MutualExclusion /\ LockHeld

LEMMA WorkerLockInv ==
  ASSUME TypeOK, LockInv, NEW t \in Threads, Worker(t)
  PROVE  LockInv'
<1> USE DEF LockInv, MutualExclusion, LockHeld, InSection, MainInSection,
            PubSection, MergeSection, Goto, shared, main, TypeOK
<1>1. CASE PubLock(t) \/ MergeLock(t)
  BY <1>1 DEF PubLock, MergeLock, Acquire
<1>2. CASE PubUnlock(t) \/ MergeUnlock(t)
  BY <1>2 DEF PubUnlock, MergeUnlock, Release
<1>3. CASE Compare(t) \/ Publish(t) \/ MergeCompare(t) \/ MergeWrite(t) \/ MergeFails(t)
  BY <1>3 DEF Compare, Publish, MergeCompare, MergeWrite, MergeFails
<1>4. CASE Begin(t) \/ CheckFlag(t) \/ Cycle(t) \/ Judge(t)
  BY <1>4 DEF Begin, CheckFlag, Cycle, Judge
<1> QED
  BY <1>1, <1>2, <1>3, <1>4 DEF Worker

LEMMA MainLockInv ==
  ASSUME TypeOK, LockInv, Main
  PROVE  LockInv'
<1> USE DEF LockInv, MutualExclusion, LockHeld, InSection, MainInSection,
            PubSection, MergeSection, shared, workers, TypeOK
<1>1. CASE Spawn
  BY <1>1 DEF Spawn, Goto, main
<1>2. CASE LookLock
  BY <1>2 DEF LookLock, Acquire
<1>3. CASE Look
  BY <1>3 DEF Look
<1>4. CASE LookUnlock
  BY <1>4 DEF LookUnlock, Release
<1>5. CASE StartClock \/ Sleep \/ Decide \/ Stop \/ Join
  BY <1>5 DEF StartClock, Sleep, Decide, Stop, Join
<1> QED
  BY <1>1, <1>2, <1>3, <1>4, <1>5 DEF Main

LEMMA InitLockInv == Init => LockInv
  BY DEF Init, LockInv, MutualExclusion, LockHeld, InSection, MainInSection,
         PubSection, MergeSection

LEMMA LockInvStep == TypeOK /\ LockInv /\ [Next]_vars => LockInv'
<1>1. LockInv /\ UNCHANGED vars => LockInv'
  BY DEF vars, LockInv, MutualExclusion, LockHeld, InSection, MainInSection
<1> QED
  BY <1>1, WorkerLockInv, MainLockInv DEF Next, Returned

LEMMA LockInvariant == Spec => []LockInv
  BY InitLockInv, LockInvStep, TypeCorrect, PTL DEF Spec

\* The publishing, merging and looking sections (abc_parallel.hpp 151-159,
\* 170-178 and 223-231) never overlap.
THEOREM MutexCorrect == Spec => []MutualExclusion
<1>1. LockInv => MutualExclusion
  BY DEF LockInv
<1> QED
  BY <1>1, LockInvariant, PTL

-----------------------------------------------------------------------------
(* The result *)

\* what was compared under the lock still holds when it is written
Comparisons ==
    \A t \in Threads : /\ pc[t] = "publish" => best[t] > syncBest
                       /\ pc[t] = "mergeWrite" => best[t] > out

\* a thread that has merged has nothing better than the caller's solution
Merged == \A t \in Threads : pc[t] \in {"mergeFails", "mergeUnlock", "done"} => best[t] <= out

\* somebody holds a solution as good as the shared fitness, and nothing better
\* was ever announced
Backed ==
    /\ syncBest <= out \/ \E t \in Threads : syncBest <= best[t]
    /\ globalBest <= syncBest

Joined == pcMain = "returned" => \A t \in Threads : pc[t] = "done"

ResultInv == Comparisons /\ Merged /\ Backed /\ Joined

LEMMA ResultInvImplies == TypeOK /\ ResultInv => ResultIsBest
<1> SUFFICES ASSUME TypeOK, ResultInv, pcMain = "returned"
             PROVE  /\ \A t \in Threads : best[t] <= out
                    /\ globalBest <= syncBest /\ syncBest <= out
  BY DEF ResultIsBest
<1>1. \A t \in Threads : best[t] <= out
  BY DEF ResultInv, Joined, Merged
<1>2. globalBest <= syncBest
  BY DEF ResultInv, Backed
<1>3. syncBest <= out
  BY <1>1 DEF ResultInv, Backed, TypeOK, Fitness
<1> QED
  BY <1>1, <1>2, <1>3

\* a thread's own best and the two shared values only rise
LEMMA WorkerImproves ==
  ASSUME TypeOK, Comparisons, NEW t \in Threads, Worker(t)
  PROVE  /\ \A u \in Threads : best'[u] >= best[u]
         /\ syncBest' >= syncBest
         /\ out' >= out
<1> USE FitnessAssumption DEF TypeOK, Fitness, shared, Comparisons
<1>1. CASE Begin(t)
  <2>1. best[t] = 0 /\ best'[t] \in Fitness
    BY <1>1 DEF Begin
  <2> QED
    BY <1>1, <2>1 DEF Begin
<1>2. CASE Cycle(t)
  BY <1>2 DEF Cycle
<1>3. CASE Publish(t)
  BY <1>3 DEF Publish
<1>4. CASE MergeWrite(t)
  BY <1>4 DEF MergeWrite
<1>5. CASE UNCHANGED <<best, syncBest, out>>
  BY <1>5
<1> QED
  BY <1>1, <1>2, <1>3, <1>4, <1>5
  DEF Worker, CheckFlag, PubLock, Compare, PubUnlock, Judge, MergeLock, MergeCompare,
      MergeFails, MergeUnlock

LEMMA WorkerResultInv ==
  ASSUME TypeOK, LockInv, ResultInv, NEW t \in Threads, Worker(t)
  PROVE  ResultInv'
<1> USE DEF ResultInv, TypeOK
<1>1. Comparisons'
  <2> SUFFICES ASSUME NEW u \in Threads
               PROVE  /\ pc'[u] = "publish" => best'[u] > syncBest'
                      /\ pc'[u] = "mergeWrite" => best'[u] > out'
    BY DEF Comparisons
  <2>1. CASE u = t
    BY <2>1 DEF Comparisons, Worker, Begin, CheckFlag, Cycle, PubLock, Compare, Publish,
         PubUnlock, Judge, MergeLock, MergeCompare, MergeWrite, MergeFails, MergeUnlock,
         Goto, shared
  <2>2. CASE u # t
    <3>1. pc'[u] = pc[u] /\ best'[u] = best[u]
      BY <2>2, WorkerFrame
    <3>2. pc[u] \in {"publish", "mergeWrite"} => pc[t] \notin {"publish", "mergeWrite"}
      BY <2>2 DEF LockInv, MutualExclusion, InSection, PubSection, MergeSection
    <3>3. pc[t] \notin {"publish", "mergeWrite"} => syncBest' = syncBest /\ out' = out
      BY DEF Worker, Begin, CheckFlag, Cycle, PubLock, Compare, Publish, PubUnlock, Judge,
         MergeLock, MergeCompare, MergeWrite, MergeFails, MergeUnlock, shared
    <3> QED
      BY <3>1, <3>2, <3>3 DEF Comparisons
  <2> QED
    BY <2>1, <2>2
<1>2. Merged'
  <2> SUFFICES ASSUME NEW u \in Threads, pc'[u] \in {"mergeFails", "mergeUnlock", "done"}
               PROVE  best'[u] <= out'
    BY DEF Merged
  <2>1. CASE u = t
    BY <2>1 DEF Merged, Worker, Begin, CheckFlag, Cycle, PubLock, Compare, Publish,
         PubUnlock, Judge, MergeLock, MergeCompare, MergeWrite, MergeFails, MergeUnlock,
         Goto, shared, Fitness
  <2>2. CASE u # t
    <3>1. pc'[u] = pc[u] /\ best'[u] = best[u] /\ out' >= out
      BY <2>2, WorkerFrame, WorkerImproves
    <3>2. out \in Int /\ out' \in Int /\ best[u] \in Int
      BY WorkerTypeOK DEF Fitness
    <3> QED
      BY <3>1, <3>2 DEF Merged
  <2> QED
    BY <2>1, <2>2
<1>3. Backed'
  <2>1. globalBest' = globalBest /\ syncBest' >= syncBest /\ out' >= out
    BY WorkerFrame, WorkerImproves DEF main
  <2>2. /\ globalBest \in Int /\ syncBest \in Int /\ syncBest' \in Int
        /\ out \in Int /\ out' \in Int
    BY WorkerTypeOK DEF Fitness
  <2>3. \A u \in Threads : best[u] \in Int /\ best'[u] \in Int /\ best'[u] >= best[u]
    BY WorkerTypeOK, WorkerImproves DEF Fitness
  <2>4. CASE Publish(t)
    BY <2>1, <2>2, <2>3, <2>4 DEF Publish, Backed
  <2>5. CASE syncBest' = syncBest
    <3>1. CASE syncBest <= out
      BY <2>1, <2>2, <2>5, <3>1 DEF Backed
    <3>2. ASSUME NEW u \in Threads, syncBest <= best[u] PROVE syncBest' <= best'[u]
      BY <2>2, <2>3, <2>5, <3>2
    <3> QED
      BY <2>1, <2>5, <3>1, <3>2 DEF Backed
  <2> QED
    BY <2>4, <2>5 DEF Worker, Begin, CheckFlag, Cycle, PubLock, Compare, PubUnlock, Judge,
         MergeLock, MergeCompare, MergeWrite, MergeFails, MergeUnlock, shared
<1>4. Joined'
  <2>1. pc[t] # "done"
    BY DEF Worker, Begin, CheckFlag, Cycle, PubLock, Compare, Publish, PubUnlock, Judge,
         MergeLock, MergeCompare, MergeWrite, MergeFails, MergeUnlock
  <2> QED
    BY <2>1, WorkerFrame DEF Joined, main
<1> QED
  BY <1>1, <1>2, <1>3, <1>4

LEMMA MainResultInv ==
  ASSUME TypeOK, ResultInv, Main
  PROVE  ResultInv'
<1> USE DEF ResultInv, TypeOK, shared, workers
<1>1. CASE Spawn
  BY <1>1 DEF Spawn, Goto, main, Comparisons, Merged, Backed, Joined
<1>2. CASE StartClock \/ Sleep \/ LookLock \/ LookUnlock \/ Decide \/ Stop
  BY <1>2 DEF StartClock, Sleep, LookLock, LookUnlock, Decide, Stop, Comparisons,
     Merged, Backed, Joined
<1>3. CASE Look
  <2>1. globalBest' <= syncBest
    BY <1>3 DEF Look, Fitness, Backed
  <2> QED
    BY <1>3, <2>1 DEF Look, Comparisons, Merged, Backed, Joined
<1>4. CASE Join
  BY <1>4 DEF Join, Comparisons, Merged, Backed, Joined
<1> QED
  BY <1>1, <1>2, <1>3, <1>4 DEF Main

LEMMA InitResultInv == Init => ResultInv
  BY DEF Init, ResultInv, Comparisons, Merged, Backed, Joined, Fitness

LEMMA StutterResultInv == ResultInv /\ UNCHANGED vars => ResultInv'
  BY DEF vars, ResultInv, Comparisons, Merged, Backed, Joined

LEMMA ResultInvariant == Spec => []ResultInv
<1>1. TypeOK /\ LockInv /\ ResultInv /\ [Next]_vars => ResultInv'
  BY WorkerResultInv, MainResultInv, StutterResultInv DEF Next, Returned
<1> QED
  BY <1>1, InitResultInv, TypeCorrect, LockInvariant, PTL DEF Spec

\* Whatever order the threads publish, are stopped and merge in, the solution
\* handed back (line 263) is at least as good as every colony's best, as the
\* shared fitness and as the one logged last (line 236).
THEOREM ResultCorrect == Spec => []ResultIsBest
  BY ResultInvariant, TypeCorrect, ResultInvImplies, PTL

\* The shared fitness and the caller's solution never get worse.
THEOREM SharedImproves == Spec => SharedOnlyImproves
<1>1. TypeOK /\ ResultInv /\ [Next]_vars
        => [syncBest' >= syncBest /\ out' >= out]_vars
  <2> SUFFICES ASSUME TypeOK, ResultInv, Next
               PROVE  syncBest' >= syncBest /\ out' >= out
    OBVIOUS
  <2>1. ASSUME NEW t \in Threads, Worker(t) PROVE syncBest' >= syncBest /\ out' >= out
    BY <2>1, WorkerImproves DEF ResultInv
  <2>2. CASE Main \/ Returned
    BY <2>2 DEF Main, Returned, Spawn, StartClock, Sleep, LookLock, Look, LookUnlock,
       Decide, Stop, Join, shared, vars, TypeOK, Fitness
  <2> QED
    BY <2>1, <2>2 DEF Next
<1> QED
  BY <1>1, TypeCorrect, ResultInvariant, PTL DEF Spec, SharedOnlyImproves

-----------------------------------------------------------------------------
(* The winner of a fitness *)

\* a thread that won has published its best, and one that is about to publish
\* has not won yet
Winners ==
    \A t \in Threads :
        /\ pc[t] \in {"pubLock", "compare", "publish"} => ~ours[t]
        /\ pc[t] \in {"pubUnlock", "judge"} /\ ours[t] => best[t] <= syncBest

WinnerInv == OneWinnerPerFitness /\ Winners

LEMMA WorkerWinnerInv ==
  ASSUME TypeOK, LockInv, ResultInv, WinnerInv, NEW t \in Threads, Worker(t)
  PROVE  WinnerInv'
<1> USE DEF TypeOK
<1>1. /\ syncBest \in Int /\ syncBest' \in Int /\ syncBest' >= syncBest
      /\ \A u \in Threads : best[u] \in Int /\ best'[u] \in Int
  BY WorkerTypeOK, WorkerImproves DEF Fitness, ResultInv
<1>2. Winners'
  <2> SUFFICES ASSUME NEW u \in Threads
               PROVE  /\ pc'[u] \in {"pubLock", "compare", "publish"} => ~ours'[u]
                      /\ pc'[u] \in {"pubUnlock", "judge"} /\ ours'[u]
                            => best'[u] <= syncBest'
    BY DEF Winners
  <2>1. CASE u = t
    BY <1>1, <2>1 DEF WinnerInv, Winners, Worker, Begin, CheckFlag, Cycle, PubLock,
       Compare, Publish, PubUnlock, Judge, MergeLock, MergeCompare, MergeWrite,
       MergeFails, MergeUnlock, Goto, shared
  <2>2. CASE u # t
    BY <1>1, <2>2, WorkerFrame DEF WinnerInv, Winners
  <2> QED
    BY <2>1, <2>2
<1>3. OneWinnerPerFitness'
  <2>1. CASE Publish(t)
    <3>1. ASSUME NEW u \in Threads, u # t, ours[u], pc[u] \in {"pubUnlock", "judge"}
          PROVE  best[u] < best[t]
      BY <1>1, <2>1, <3>1 DEF Publish, WinnerInv, Winners, ResultInv, Comparisons
    <3>2. best' = best /\ \A u \in Threads \ {t} : pc'[u] = pc[u] /\ ours'[u] = ours[u]
      BY <2>1, WorkerFrame DEF Publish
    <3> QED
      BY <1>1, <3>1, <3>2 DEF WinnerInv, OneWinnerPerFitness
  <2>2. CASE ~Publish(t)
    <3>1. pc'[t] \in {"pubUnlock", "judge"} /\ ours'[t]
            => /\ pc[t] \in {"pubUnlock", "judge"} /\ ours[t]
               /\ best'[t] = best[t]
      BY <2>2 DEF WinnerInv, Winners, Worker, Begin, CheckFlag, Cycle, PubLock, Compare,
         PubUnlock, Judge, MergeLock, MergeCompare, MergeWrite, MergeFails, MergeUnlock,
         Goto, shared
    <3>2. \A u \in Threads \ {t} : /\ pc'[u] = pc[u] /\ ours'[u] = ours[u]
                                    /\ best'[u] = best[u]
      BY WorkerFrame
    <3> QED
      BY <3>1, <3>2 DEF WinnerInv, OneWinnerPerFitness
  <2> QED
    BY <2>1, <2>2
<1> QED
  BY <1>2, <1>3 DEF WinnerInv

LEMMA MainWinnerInv ==
  ASSUME TypeOK, WinnerInv, Main
  PROVE  WinnerInv'
<1>1. CASE Spawn
  BY <1>1 DEF Spawn, Goto, shared, TypeOK, WinnerInv, OneWinnerPerFitness, Winners
<1>2. CASE UNCHANGED <<pc, best, ours, syncBest>>
  BY <1>2 DEF WinnerInv, OneWinnerPerFitness, Winners
<1> QED
  BY <1>1, <1>2 DEF Main, StartClock, Sleep, LookLock, Look, LookUnlock, Decide, Stop,
     Join, shared, workers

\* No two threads keep their population (line 161) for one and the same fitness.
THEOREM WinnerCorrect == Spec => []OneWinnerPerFitness
<1>1. Init => WinnerInv
  BY DEF Init, WinnerInv, OneWinnerPerFitness, Winners
<1>2. TypeOK /\ LockInv /\ ResultInv /\ WinnerInv /\ [Next]_vars => WinnerInv'
  <2>1. WinnerInv /\ UNCHANGED vars => WinnerInv'
    BY DEF vars, WinnerInv, OneWinnerPerFitness, Winners
  <2> QED
    BY <2>1, WorkerWinnerInv, MainWinnerInv DEF Next, Returned
<1>3. WinnerInv => OneWinnerPerFitness
  BY DEF WinnerInv
<1> QED
  BY <1>1, <1>2, <1>3, TypeCorrect, LockInvariant, ResultInvariant, PTL DEF Spec

-----------------------------------------------------------------------------
(* The clock *)

\* the main thread only goes back to sleep within the hard limit
ClockInv ==
    /\ now <= 2 * (HardLimit + 1) + Jitter
    /\ pcMain \in {"spawn", "sleep"} => now <= 2 * HardLimit + 1

LEMMA MainClockInv ==
  ASSUME TypeOK, ClockInv, Main
  PROVE  ClockInv'
<1> USE LimitAssumption DEF TypeOK, ClockInv
<1>1. CASE Sleep
  <2> PICK d \in 0 .. Jitter : now' = now + 1 + d
    BY <1>1 DEF Sleep
  <2>1. now <= 2 * HardLimit + 1 /\ pcMain' = "lookLock"
    BY <1>1 DEF Sleep
  <2> QED
    BY <2>1
<1>2. CASE Decide
  <2>1. now' = now /\ (pcMain' = "sleep" => ~(now \div 2 > HardLimit))
    BY <1>2 DEF Decide, TimeIsUp, Seconds
  <2>2. ~(now \div 2 > HardLimit) => now <= 2 * HardLimit + 1
    OBVIOUS
  <2>3. pcMain' # "spawn"
    BY <1>2 DEF Decide
  <2> QED
    BY <2>1, <2>2, <2>3
<1>3. CASE Spawn \/ StartClock \/ LookLock \/ Look \/ LookUnlock \/ Stop \/ Join
  BY <1>3 DEF Spawn, StartClock, LookLock, Look, LookUnlock, Stop, Join, main
<1> QED
  BY <1>1, <1>2, <1>3 DEF Main

\* The search stops at most one second, one sleep and the jitter of the last
\* sleep after the hard limit (line 243 compares whole seconds with ">").
THEOREM OverrunBounded == Spec => []HardLimitOverrun
<1>1. Init => ClockInv
  BY LimitAssumption DEF Init, ClockInv
<1>2. TypeOK /\ ClockInv /\ [Next]_vars => ClockInv'
  <2>1. CASE UNCHANGED <<now, pcMain>>
    BY <2>1 DEF ClockInv
  <2> QED
    BY <2>1, MainClockInv, WorkerFrame DEF Next, Returned, vars, main
<1>3. ClockInv => HardLimitOverrun
  BY DEF ClockInv, HardLimitOverrun
<1> QED
  BY <1>1, <1>2, <1>3, TypeCorrect, PTL DEF Spec

\* the shared best the main thread has seen was published before lastUpdate,
\* unless it was only seen in this very look
SeenInv ==
    /\ globalBest = syncBest => publishedAt <= lastUpdate \/ newBest
    /\ newBest => pcMain \in {"lookUnlock", "decide", "sleep", "stop", "join", "returned"}
    /\ newBest /\ pcMain \notin {"lookUnlock", "decide"} => lastUpdate = now

LEMMA MainSeenInv ==
  ASSUME TypeOK, Backed, SeenInv, Main
  PROVE  SeenInv'
<1> USE DEF TypeOK, SeenInv, shared, workers
<1>1. CASE Spawn
  BY <1>1 DEF Spawn, main
<1>2. CASE Sleep
  BY <1>2 DEF Sleep
<1>3. CASE Look
  BY <1>3 DEF Look, Backed, Fitness
<1>4. CASE Decide
  BY <1>4 DEF Decide
<1>5. CASE StartClock \/ LookLock \/ LookUnlock \/ Stop \/ Join
  BY <1>5 DEF StartClock, LookLock, LookUnlock, Stop, Join
<1> QED
  BY <1>1, <1>2, <1>3, <1>4, <1>5 DEF Main

LEMMA WorkerSeenInv ==
  ASSUME TypeOK, ResultInv, SeenInv, NEW t \in Threads, Worker(t)
  PROVE  SeenInv'
<1>1. CASE Publish(t)
  BY <1>1 DEF Publish, main, TypeOK, Fitness, ResultInv, Comparisons, Backed, SeenInv
<1>2. CASE UNCHANGED <<syncBest, publishedAt, main>>
  BY <1>2 DEF SeenInv, main
<1> QED
  BY <1>1, <1>2, WorkerFrame DEF Worker, Begin, CheckFlag, Cycle, PubLock, Compare,
     PubUnlock, Judge, MergeLock, MergeCompare, MergeWrite, MergeFails, MergeUnlock, shared

\* A search that stops before the hard limit has seen no new best for more
\* than NoNewLimit seconds, counted from the publication (lines 225-243).
THEOREM PatienceKept == Spec => NoFreshBestIgnored
<1>1. Init => SeenInv
  BY DEF Init, SeenInv
<1>2. TypeOK /\ ResultInv /\ SeenInv /\ [Next]_vars => SeenInv'
  <2>1. CASE UNCHANGED vars
    BY <2>1 DEF vars, SeenInv
  <2> QED
    BY <2>1, MainSeenInv, WorkerSeenInv DEF Next, Returned, ResultInv
<1>3. ASSUME TypeOK, SeenInv, [Next]_vars,
             pcMain = "decide", pcMain' = "stop", Seconds(now) <= HardLimit,
             globalBest = syncBest
      PROVE  Seconds(now - publishedAt) > NoNewLimit
  <2>1. Decide
    BY <1>3, WorkerFrame DEF Next, Main, Returned, vars, main, Spawn, StartClock, Sleep,
       LookLock, Look, LookUnlock, Stop, Join
  <2>2. Seconds(now - lastUpdate') > NoNewLimit
    BY <1>3, <2>1, LimitAssumption DEF Decide, TimeIsUp, Seconds, TypeOK
  <2>3. ~newBest
    <3> SUFFICES ASSUME newBest PROVE FALSE
      OBVIOUS
    <3>1. lastUpdate' = now
      BY <2>1 DEF Decide
    <3>2. now - now = 0
      BY <1>3 DEF TypeOK
    <3>3. Seconds(now - lastUpdate') = 0
      BY <3>1, <3>2 DEF Seconds
    <3> QED
      BY <2>2, <3>3, LimitAssumption
  <2>4. lastUpdate' = lastUpdate /\ publishedAt <= lastUpdate
    BY <1>3, <2>1, <2>3 DEF Decide, SeenInv
  <2> QED
    BY <2>2, <2>4, <1>3, LimitAssumption DEF Seconds, TypeOK
<1>4. TypeOK /\ SeenInv /\ [Next]_vars
        => [pcMain = "decide" /\ pcMain' = "stop" /\ Seconds(now) <= HardLimit
            => globalBest # syncBest \/ Seconds(now - publishedAt) > NoNewLimit]_vars
  BY <1>3
<1> QED
  BY <1>1, <1>2, <1>4, TypeCorrect, ResultInvariant, PTL DEF Spec, NoFreshBestIgnored

-----------------------------------------------------------------------------
(* The refinement *)

LEMMA WorkerImplements ==
  ASSUME TypeOK, ResultInv, NEW t \in Threads, Worker(t)
  PROVE  [Abstract!Next]_(Abstract!vars)
<1> USE DEF Abstract!Next, Abstract!vars, Abstract!Find, Abstract!Adopt, TypeOK, shared, main
<1>1. pcMain # "returned"
  BY DEF ResultInv, Joined, Worker, Begin, CheckFlag, Cycle, PubLock, Compare, Publish,
     PubUnlock, Judge, MergeLock, MergeCompare, MergeWrite, MergeFails, MergeUnlock
<1>2. CASE Begin(t)
  <2> PICK f \in Fitness : best' = [best EXCEPT ![t] = f]
    BY <1>2 DEF Begin
  <2>1. f > best[t]
    BY <1>2 DEF Begin, Fitness
  <2> QED
    BY <1>1, <1>2, <2>1 DEF Begin
<1>3. CASE Cycle(t)
  <2> PICK f \in Fitness : f >= best[t] /\ best' = [best EXCEPT ![t] = f]
    BY <1>3 DEF Cycle
  <2>1. CASE f > best[t]
    BY <1>1, <1>3, <2>1 DEF Cycle
  <2>2. CASE f = best[t]
    <3>1. best' = best
      BY <2>2
    <3> QED
      BY <1>3, <3>1 DEF Cycle
  <2>3. f \in Int /\ best[t] \in Int
    BY DEF Fitness
  <2>4. f > best[t] \/ f = best[t]
    BY <2>3
  <2> QED
    BY <2>1, <2>2, <2>4
<1>4. CASE MergeWrite(t)
  BY <1>1, <1>4 DEF MergeWrite, ResultInv, Comparisons
<1>5. CASE UNCHANGED <<best, out, pcMain>>
  BY <1>5
<1> QED
  BY <1>2, <1>3, <1>4, <1>5 DEF Worker, CheckFlag, PubLock, Compare, Publish, PubUnlock,
     Judge, MergeLock, MergeCompare, MergeFails, MergeUnlock

LEMMA MainImplements ==
  ASSUME TypeOK, ResultInv, Main
  PROVE  [Abstract!Next]_(Abstract!vars)
<1> USE DEF Abstract!Next, Abstract!vars, Abstract!Return, shared, workers
<1>1. CASE Join
  <2>1. \A t \in Threads : best[t] <= out
    BY <1>1 DEF Join, ResultInv, Merged
  <2> QED
    BY <1>1, <2>1 DEF Join
<1>2. CASE UNCHANGED <<best, out>> /\ pcMain # "returned" /\ pcMain' # "returned"
  BY <1>2
<1>3. CASE Spawn
  BY <1>3 DEF Spawn, main
<1> QED
  BY <1>1, <1>2, <1>3 DEF Main, StartClock, Sleep, LookLock, Look, LookUnlock, Decide, Stop

\* The threads, the lock and the merges implement the abstract search: the
\* caller's solution is only replaced by a strictly better one that a colony
\* holds, and the call returns when no colony holds a better one.
THEOREM Refinement == Spec => ImplementsSearch
<1>1. Init => Abstract!Init
  BY DEF Init, Abstract!Init
<1>2. TypeOK /\ ResultInv /\ [Next]_vars => [Abstract!Next]_(Abstract!vars)
  <2>1. UNCHANGED vars => UNCHANGED Abstract!vars
    BY DEF vars, Abstract!vars
  <2> QED
    BY <2>1, WorkerImplements, MainImplements DEF Next, Returned
<1> QED
  BY <1>1, <1>2, TypeCorrect, ResultInvariant, PTL DEF Spec, ImplementsSearch, Abstract!Spec
=============================================================================
