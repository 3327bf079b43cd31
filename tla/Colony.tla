-------------------------------- MODULE Colony --------------------------------
(***************************************************************************)
(* One bee colony, a bee at a time: the loop body that beeColonySolve      *)
(* (libs/route_solver/include/route_solver/abc/abc.hpp 44-134) and         *)
(* colonyRoutine (abc_parallel.hpp 76-168) share, with the publication and *)
(* the restart that only the latter has.                                   *)
(*                                                                         *)
(* A solution is its fitness and its trial counter.  What a bee finds is   *)
(* any fitness: the producer is modelled in TruckSolution.                 *)
(***************************************************************************)
EXTENDS Integers, FiniteSets, Sequences, SequencesExt

CONSTANTS
    ColonySize,     \* params.colonySize
    TrialCountMax,  \* params.trialCountMax
    MaxFitness      \* bound: fitness values are 1 .. MaxFitness

ASSUME ColonyAssumption == ColonySize \in Nat /\ TrialCountMax \in Nat /\ MaxFitness \in Nat

Fitness == 1 .. MaxFitness

totalSolCount == ColonySize \div 2
Seats == 1 .. totalSolCount

\* bound: a counter that exceeds the limit need not be told from a larger one
Trials == 0 .. TrialCountMax + 1
Solution == [fitness : Fitness, trial : Trials]

VARIABLES
    parallel,      \* which of the two: the multiThreaded argument of solver.cpp 224
    solutions,     \* the food sources, one per employed bee
    bestSolution,  \* its fitness
    seekers,       \* onSeekersIndexes: onlooker -> the source it was sent to
    phase, bee,    \* where in the loop body, and its index s: the bee it has come to
    syncBest,      \* the fitness shared with the other colonies
    our_is_best,   \* whether the last publication won
    seeded         \* history: bestSolution is still the one drawn at line 34 / 69

colonyVars == <<parallel, solutions, bestSolution, seekers, phase, bee, syncBest, our_is_best, seeded>>

New(f) == [fitness |-> f, trial |-> 0]

\* ++m_trialCounter
Tried(sol) == [sol EXCEPT !.trial = IF @ > TrialCountMax THEN @ ELSE @ + 1]

Populations == [Seats -> {New(f) : f \in Fitness}]

ColonyInit ==
    /\ parallel \in BOOLEAN
    /\ solutions \in Populations
    /\ bestSolution \in Fitness
    /\ seekers = <<>>
    /\ phase = "employed"
    /\ bee = 1
    /\ syncBest \in Fitness
    /\ our_is_best = FALSE
    /\ seeded = TRUE

-----------------------------------------------------------------------------

\* a bee keeps what it found only when it is strictly better than the source
Employ ==
    /\ phase = "employed"
    /\ bee <= totalSolCount
    /\ \E f \in Fitness :
          solutions' = [solutions EXCEPT ![bee] =
                           IF f > @.fitness THEN New(f) ELSE Tried(@)]
    /\ bee' = bee + 1
    /\ UNCHANGED <<parallel, bestSolution, seekers, phase, syncBest, our_is_best,
                   seeded>>

FitnessSum == SumFunction([i \in Seats |-> solutions[i].fitness])

\* mutant of Rankings: the comparison is turned around
Rankings_Ascending ==
    {order \in [Seats -> Seats] :
        /\ \A i, j \in Seats : i # j => order[i] # order[j]
        /\ \A i, j \in Seats :
              i < j => solutions[order[i]].fitness <= solutions[order[j]].fitness}

\* std::sort by descending probability; it leaves equals in any order
Rankings ==
    {order \in [Seats -> Seats] :
        /\ \A i, j \in Seats : i # j => order[i] # order[j]
        /\ \A i, j \in Seats :
              i < j => solutions[order[i]].fitness >= solutions[order[j]].fitness}

\* mutant of Counts: without the "+ 1"
Counts_NoExtra(i) ==
    LET share == solutions[i].fitness * totalSolCount
        whole == share \div FitnessSum
    IN  IF share % FitnessSum = 0 /\ whole > 0 THEN {whole - 1, whole} ELSE {whole}

\* size_t(p * totalSolCount + 1) with p a rounded quotient: a product that is
\* a whole number may come out just below it
Counts(i) ==
    LET share == solutions[i].fitness * totalSolCount
        whole == share \div FitnessSum
    IN  IF share % FitnessSum = 0 THEN {whole, whole + 1} ELSE {whole + 1}

\* mutant of Seating: the number of onlookers is not looked at
Seating_NoCut(order, count) ==
    FlattenSeq([i \in Seats |-> [k \in 1 .. count[order[i]] |-> order[i]]])

\* the first totalSolCount onlookers, count[i] of them sent to each source i
Seating(order, count) ==
    LET all == FlattenSeq([i \in Seats |-> [k \in 1 .. count[order[i]] |-> order[i]]])
    IN  SubSeq(all, 1, IF Len(all) < totalSolCount THEN Len(all) ELSE totalSolCount)

Rank ==
    /\ phase = "employed"
    /\ bee > totalSolCount
    /\ \E order \in Rankings :
       \E count \in {c \in [Seats -> 0 .. totalSolCount + 1] :
                        \A i \in Seats : c[i] \in Counts(i)} :
          seekers' = Seating(order, count)
    /\ phase' = "onlooker"
    /\ bee' = 1
    /\ UNCHANGED <<parallel, solutions, bestSolution, syncBest, our_is_best, seeded>>

\* an onlooker improves on the source it was sent to, and what it found
\* replaces the source of its own index; or it fails there once too often, and the source it was
\* sent to is drawn anew
Onlook ==
    /\ phase = "onlooker"
    /\ bee <= Len(seekers)
    /\ LET index == seekers[bee]
           old   == solutions[index]
       IN  \/ \E f \in Fitness :
                 /\ f > old.fitness
                 /\ solutions' = [solutions EXCEPT ![bee] = New(f)]
           \/ /\ Tried(old).trial <= TrialCountMax
              /\ solutions' = [solutions EXCEPT ![index] = Tried(old)]
           \/ /\ Tried(old).trial > TrialCountMax
              /\ \E f \in Fitness : solutions' = [solutions EXCEPT ![index] = New(f)]
    /\ bee' = bee + 1
    /\ UNCHANGED <<parallel, bestSolution, seekers, phase, syncBest, our_is_best,
                   seeded>>

\* mutant of Record: every source is compared with the old best, the last one wins
Record_LastWins ==
    /\ phase = "onlooker"
    /\ bee > Len(seekers)
    /\ LET better == {i \in Seats : solutions[i].fitness > bestSolution}
       IN  bestSolution' = IF better = {} THEN bestSolution
                                          ELSE solutions[Max(better)].fitness
    /\ seeded' = (seeded /\ bestSolution' = bestSolution)
    /\ phase' = "recorded"
    /\ seekers' = <<>>
    /\ UNCHANGED <<parallel, solutions, bee, syncBest, our_is_best>>

Record ==
    /\ phase = "onlooker"
    /\ bee > Len(seekers)
    /\ bestSolution' = Max({bestSolution} \cup {solutions[i].fitness : i \in Seats})
    /\ seeded' = (seeded /\ bestSolution' = bestSolution)
    /\ phase' = "recorded"
    /\ seekers' = <<>>
    /\ UNCHANGED <<parallel, solutions, bee, syncBest, our_is_best>>

\* what the other colonies have published meanwhile
Others == {f \in Fitness : f >= syncBest}

\* mutant of Win: a tie wins, too
Win_Ties ==
    /\ phase = "recorded"
    /\ parallel
    /\ \E f \in Others : bestSolution >= f
    /\ syncBest' = bestSolution
    /\ our_is_best' = TRUE
    /\ phase' = "employed"
    /\ bee' = 1
    /\ UNCHANGED <<parallel, solutions, bestSolution, seekers, seeded>>

\* another cycle with the population of this one
Win ==
    /\ phase = "recorded"
    /\ parallel
    /\ \E f \in Others : bestSolution > f
    /\ syncBest' = bestSolution
    /\ our_is_best' = TRUE
    /\ phase' = "employed"
    /\ bee' = 1
    /\ UNCHANGED <<parallel, solutions, bestSolution, seekers, seeded>>

\* another cycle with a population drawn anew
Lose ==
    /\ phase = "recorded"
    /\ parallel
    /\ \E f \in Others : bestSolution <= f /\ syncBest' = f
    /\ our_is_best' = FALSE
    /\ solutions' \in Populations
    /\ phase' = "employed"
    /\ bee' = 1
    /\ UNCHANGED <<parallel, bestSolution, seekers, seeded>>

\* the sequential colony keeps its population in any case
Again ==
    /\ phase = "recorded"
    /\ ~parallel
    /\ phase' = "employed"
    /\ bee' = 1
    /\ UNCHANGED <<parallel, solutions, bestSolution, seekers, syncBest, our_is_best, seeded>>

\* the sequential colony looks at the clock after a cycle, the parallel one at
\* the flag before a cycle
Stop ==
    /\ IF parallel THEN phase = "employed" /\ bee = 1 ELSE phase = "recorded"
    /\ phase' = "stopped"
    /\ UNCHANGED <<parallel, solutions, bestSolution, seekers, bee, syncBest, our_is_best,
                   seeded>>

Stopped == phase = "stopped" /\ UNCHANGED colonyVars

ColonyNext == Employ \/ Rank \/ Onlook \/ Record \/ Win \/ Lose \/ Again \/ Stop \/ Stopped

ColonySpec == ColonyInit /\ [][ColonyNext]_colonyVars

-----------------------------------------------------------------------------

\* the types of the locals of the loop
ColonyTypeOK ==
    /\ parallel \in BOOLEAN
    /\ solutions \in [Seats -> Solution]
    /\ bestSolution \in Fitness
    /\ seekers \in Seq(Seats) /\ Len(seekers) <= totalSolCount
    /\ phase \in {"employed", "onlooker", "recorded", "stopped"}
    /\ bee \in 1 .. totalSolCount + 1
    /\ syncBest \in Fitness
    /\ our_is_best \in BOOLEAN
    /\ seeded \in BOOLEAN

\* the truncated shares always fill every onlooker's seat, so that no onlooker
\* is left with the index of an earlier cycle and none is missing
EveryOnlookerSeated == phase = "onlooker" => Len(seekers) = totalSolCount

Seated(i) == Cardinality({k \in DOMAIN seekers : seekers[k] = i})

\* a better source is sent at least as many onlookers as a worse one, although
\* the last sources in the ranking may be cut off by the number of onlookers
FitterGetsMore ==
    phase = "onlooker" /\ bee = 1 =>
        \A i, j \in Seats :
            solutions[i].fitness > solutions[j].fitness => Seated(i) >= Seated(j)

\* a colony that keeps its population because it won has the winning solution
\* in it, unless that is still the one drawn before the first cycle
WinnerKeepsElite ==
    phase = "employed" /\ bee = 1 /\ our_is_best /\ ~seeded =>
        \E i \in Seats : solutions[i].fitness = bestSolution

\* onlookers follow fitness, and the winner stays
BeesFollowFitness == EveryOnlookerSeated /\ FitterGetsMore /\ WinnerKeepsElite

Known == {bestSolution} \cup {solutions[i].fitness : i \in Seats}

\* the best solution a colony has come across is only ever lost among the
\* onlookers: one that was sent elsewhere puts what it found in its place (line
\* 98 of abc.hpp writes solutions[s], not the one the onlooker improved on), or it
\* is abandoned before it was recorded; it survives the employed bees, the
\* recording, a lost publication and the restart
LostOnlyAmongOnlookers ==
    [][(\E f \in Known : \A g \in Known' : g < f) =>
          /\ phase = "onlooker"
          /\ bee \in DOMAIN seekers
          /\ \/ seekers[bee] # bee
             \/ solutions[bee].trial >= TrialCountMax]_colonyVars
=============================================================================
