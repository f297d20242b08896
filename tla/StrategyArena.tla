---------------------------- MODULE StrategyArena ----------------------------
(* The arena that ranks competing strategies: from one observation of each *)
(* strategy and the lifecycles of the previous decision it derives the     *)
(* next lifecycles and how the capital is shared among the active ones.    *)
(* It keeps nothing itself: the caller hands the previous lifecycles in.   *)
(* Percentages are integers; a fitness is scaled by its number of ranks.   *)
EXTENDS Integers, FiniteSets, FiniteSetsExt

CONSTANTS
    Strategy,       \* 1 .. n, in the order of their ids
    Evidence,       \* what may be observed of all: the metrics, trades, whether invalidated
    Confidence,     \* of the market state
    MinShadow, MinActive,               \* trades
    Gate,           \* the least value of each metric, and of the confidence
    MaxActive, MaxEach, MaxTotal        \* ArenaPolicy

VARIABLES lifecycle, observation, market, weight

vars == <<lifecycle, observation, market, weight>>

\* The metrics with their share of the fitness; "safety" is the negated drawdown.
Share == [expectancy |-> 25, recent |-> 20, factor |-> 15, safety |-> 15, regime |-> 15,
          stability |-> 10]

-----------------------------------------------------------------------------
(* Lifecycles.                                                             *)

\* _active_eligible: the survival gate.  Expectancies must exceed their bound.
Eligible(o, confidence) ==
    /\ ~o.invalid
    /\ o.trades >= MinActive
    /\ o.expectancy > Gate.expectancy /\ o.recent > Gate.recent
    /\ o.factor >= Gate.factor /\ o.safety >= Gate.safety /\ o.regime >= Gate.regime
    /\ confidence >= Gate.confidence

\* _next_lifecycle.
NextLifecycle(previous, o, eligible) ==
    IF previous = "retired" \/ o.invalid THEN "retired"
    ELSE IF o.trades < MinShadow THEN "experimental"
    ELSE IF previous = "experimental" THEN "shadow"
    ELSE IF eligible THEN "active"
    ELSE IF previous \in {"active", "dormant"} THEN "dormant"
    ELSE "shadow"

-----------------------------------------------------------------------------
(* Fitness.                                                                *)

\* _percentile_ranks: the place among the ranked, equal values in order of id.  A
\* single one has rank 1.
PercentileRank(s, pool, metric, seen) ==
    IF pool = {s} THEN 1
    ELSE Cardinality({t \in pool : \/ seen[t][metric] < seen[s][metric]
                                   \/ seen[t][metric] = seen[s][metric] /\ t < s})

Scale(pool) == IF Cardinality(pool) = 1 THEN 1 ELSE Cardinality(pool) - 1

\* _composite_fitness, times Scale.
Fitness(s, pool, seen) ==
    LET part(metric) == Share[metric] * PercentileRank(s, pool, metric, seen) IN
    part("expectancy") + part("recent") + part("factor") + part("safety") + part("regime")
        + part("stability")

\* The fittest are allocated, equally fit ones in order of id.
Fittest(active, fitness) ==
    {s \in active :
        Cardinality({t \in active : \/ fitness[t] > fitness[s]
                                    \/ fitness[t] = fitness[s] /\ t < s}) < MaxActive}

-----------------------------------------------------------------------------
(* _capped_proportional_weights.  A weight is a fraction <<n, d>>.         *)

Target(ids) == Min({MaxTotal, MaxEach * Cardinality(ids)})

Total(strength, ids) == MapThenSumSet(LAMBDA s : strength[s], ids)

\* What the others leave, when those outside "open" have their cap.
Remaining(ids, open) == Target(ids) - MaxEach * Cardinality(ids \ open)

\* The rounds: who would get more than the cap gets the cap, and the rest is shared
\* again.
Uncapped(ids, strength) ==
    LET After[open \in SUBSET ids] ==
            LET over == {s \in open : Remaining(ids, open) * strength[s]
                                        > MaxEach * Total(strength, open)}
            IN  IF over = {} THEN open ELSE After[open \ over]
    IN  After[ids]

Weights(ids, strength) ==
    LET open == Uncapped(ids, strength) IN
    [s \in ids |-> IF s \in open THEN <<Remaining(ids, open) * strength[s], Total(strength, open)>>
                   ELSE <<MaxEach, 1>>]

\* StrategyArena.evaluate.  Fitness is relative to the eligible ones only.
Decided(previous, seen, confidence) ==
    LET pool == {s \in DOMAIN seen : Eligible(seen[s], confidence)}
        next == [s \in DOMAIN seen |-> NextLifecycle(previous[s], seen[s], s \in pool)]
        fitness == [s \in pool |-> Fitness(s, pool, seen)]
        chosen == Fittest({s \in pool : next[s] = "active"}, fitness)
    IN  [lifecycle |-> next,
         weight |-> Weights(chosen, [s \in chosen |-> Max({5 * Scale(pool), fitness[s]})])]

-----------------------------------------------------------------------------
NoWeights == [s \in {} |-> <<0, 1>>]

\* A strategy the previous decision does not name is experimental.
Init ==
    /\ lifecycle = [s \in Strategy |-> "experimental"]
    /\ observation \in Evidence
    /\ market \in Confidence
    /\ weight = NoWeights

Evaluate(seen, confidence) ==
    LET decision == Decided(lifecycle, seen, confidence) IN
    /\ lifecycle' = decision.lifecycle
    /\ weight' = decision.weight
    /\ observation' = seen
    /\ market' = confidence

Next == \E seen \in Evidence, confidence \in Confidence : Evaluate(seen, confidence)

Spec == Init /\ [][Next]_vars

-----------------------------------------------------------------------------
(* Properties.                                                             *)

Lifecycles == {"experimental", "shadow", "active", "dormant", "retired"}

TypeOK ==
    /\ lifecycle \in [Strategy -> Lifecycles]
    /\ observation \in Evidence /\ market \in Confidence
    /\ DOMAIN weight \subseteq Strategy

\* At most MaxActive strategies, all active, share exactly the target, and none gets
\* more than the cap; a strategy better than another in every metric gets no less.
SharesFair ==
    LET ids == DOMAIN weight
        AtLeast(v, w) == v[1] * w[2] >= w[1] * v[2]
        capped == {s \in ids : weight[s] = <<MaxEach, 1>>}
        open == ids \ capped
    IN  /\ Cardinality(ids) <= MaxActive
        /\ \A s \in ids : lifecycle[s] = "active" /\ AtLeast(<<MaxEach, 1>>, weight[s])
        /\ open # {} =>
             \A d \in {weight[s][2] : s \in open} :
                 Total([s \in open |-> weight[s][1]], open)
                    = d * (Target(ids) - MaxEach * Cardinality(capped))
        /\ open = {} => MaxEach * Cardinality(capped) = Target(ids)
        /\ \A s, t \in ids :
             (\A metric \in DOMAIN Share : observation[s][metric] > observation[t][metric]) =>
                AtLeast(weight[s], weight[t])

\* "Adding hundreds of weak experiments must not change active allocations"
\* (strategy_arena.py:204): the shares are those of a decision that is shown only
\* the strategies that clear the gate.  A shadow that clears it was experimental.
WeakOnesIgnored ==
    weight # NoWeights =>
        LET cleared == {s \in Strategy : Eligible(observation[s], market)}
            previous == [s \in cleared |-> IF lifecycle[s] = "shadow" THEN "experimental" ELSE lifecycle[s]]
        IN  weight = Decided(previous, [s \in cleared |-> observation[s]], market).weight
=============================================================================
