------------------------------ MODULE Backtest ------------------------------
(* The historical backtesters, run side by side over one plan of candidates *)
(* in two worlds.  A plan is what a strategy made of point-in-time data: the *)
(* score of every candidate and the horizon it chose.  A world is what the  *)
(* strategy must not see: the return every trade will turn out to have, the *)
(* liquidity of the entry days, the day two companies begin to move         *)
(* together.  The backtesters are                                           *)
(*   "legacy"       FixedAllocationBacktester                               *)
(*   "tranche"      FixedAllocationTrancheBacktester                        *)
(*   "overlay"      RiskOverlayBacktester                                   *)
(*   "intelligent"  IntelligentPortfolioBacktester                          *)
(*   "engine"       HistoricalStrategyBacktester, with                      *)
(*                  FixedAllocationPortfolioPolicy and pass-through risk    *)
(*   "liquid"       ExecutionRealisticHistoricalBacktester                  *)
(* Capital is counted in whole units and rounded down; a return is a        *)
(* percentage with the round-trip cost taken off.                           *)
EXTENDS Integers, FiniteSets, FiniteSetsExt, Folds

CONSTANTS
    Candidate,      \* candidates, as numbers in the order of their identifiers
    CompanyOf,      \* the company of a candidate
    EntryDay,       \* the day a candidate is entered
    ExitDay,        \* the day a candidate's position ends, by horizon
    Plans,          \* what the strategy may decide: scores and horizons
    Worlds,         \* what the market may do: returns, depth and link
    Pair,           \* the two companies that may become correlated
    Capital,        \* the capital at the start
    Alloc,          \* the share of the equity a position is given, in percent
    MaxOpen,        \* how many positions are held at once
    MaxTranches,    \* how many of them for one company ("tranche")
    MaxGross,       \* the exposure the engine's policy allows, in percent
    MinAlloc, TopAlloc,     \* the bounds of the adaptive sizes, in percent
    NearCap,        \* the exposure to correlated companies, in percent
    Throttle,       \* the one-way risk multiplier of a candidate, in percent
    Quality,        \* the two-way size multiplier of a candidate, in percent
    LastDay         \* the day the last position ends

VARIABLES
    plan,           \* the strategy's decisions
    world,          \* the two worlds
    day,            \* the day replayed last
    book            \* cash, positions and closed trades, by world and backtester

vars == <<plan, world, day, book>>

Twin == {1, 2}
Backtesters == {"legacy", "tranche", "overlay", "intelligent", "engine", "liquid"}
-----------------------------------------------------------------------------
(* What every backtester does. *)

Entries(d) == {c \in Candidate : plan.chosen[c] /\ EntryDay[c] = d}

Leaves(c) == ExitDay[plan.horizon[c]][c]

\* The days a backtester visits: the legacy ones know the exits of the chosen
\* horizon, the engine the exits of every horizon.
Calendar(b) ==
    {EntryDay[c] : c \in Candidate} \cup
    IF b \in {"engine", "liquid"}
    THEN {ExitDay[h][c] : h \in DOMAIN ExitDay, c \in Candidate}
    ELSE {Leaves(c) : c \in {x \in Candidate : plan.chosen[x]}}

Invested(positions) == MapThenSumSet(LAMBDA p : p.capital, positions)
Gross(k) == Invested(k.open)
Equity(k) == k.cash + Gross(k)
Held(k, c) == {p \in k.open : CompanyOf[p.c] = CompanyOf[c]}

\* What the positions due earn, by position.
Earned(k, d, w) ==
    [p \in {q \in k.open : q.c \in {c \in Candidate : Leaves(c) <= d}} |->
        (p.capital * world[w].returns[p.c]) \div 100]

Returned(earned) == MapThenSumSet(LAMBDA p : p.capital + earned[p], DOMAIN earned)

\* Every position due ends, with what it earned, before anything is entered.
CloseDue(k, earned) ==
    LET due == DOMAIN earned IN
    [cash |-> k.cash + Returned(earned),
     open |-> k.open \ due,
     done |-> k.done \cup {[c |-> p.c, capital |-> p.capital, pnl |-> earned[p]] : p \in due}]

\* The candidates of a day are considered highest score first, then by identifier.
Before(a, b) ==
    \/ plan.score[a] > plan.score[b]
    \/ plan.score[a] = plan.score[b] /\ a < b

Last(set) == CHOOSE c \in set : \A x \in set \ {c} : Before(x, c)

Enter(k, c, capital) ==
    [k EXCEPT !.cash = @ - capital, !.open = @ \cup {[c |-> c, capital |-> capital]}]

Smaller(a, b) == Min({a, b})
-----------------------------------------------------------------------------
(* The four backtesters that walk the candidates one by one. *)

\* One candidate in FixedAllocationBacktester: a share of the equity, or what
\* cash is left.
LegacyEntry(k, c, tranches) ==
    LET capital == Smaller(k.cash, (Equity(k) * Alloc) \div 100) IN
    IF /\ Cardinality(Held(k, c)) < tranches
       /\ Cardinality(k.open) < MaxOpen
       /\ capital > 0
    THEN Enter(k, c, capital)
    ELSE k

\* The correlation is taken over bars that include the day of the decision.
LinkedToday(d, w) == IF world[w].link <= d THEN {Pair} ELSE {}

\* The pairs of companies known to move together on day d: their returns are
\* correlated in the bars strictly before it.
Linked(d, w) == IF world[w].link < d THEN {Pair} ELSE {}

\* The positions that move with candidate c.
Neighbours(k, c, linked) ==
    {p \in k.open : \/ CompanyOf[p.c] = CompanyOf[c]
                    \/ {CompanyOf[p.c], CompanyOf[c]} \in linked}

\* Risk only ever takes away from the base share, down to the floor.
OverlayPct(c, near) ==
    Max({MinAlloc, (Alloc * Smaller(Throttle[c], IF near THEN 70 ELSE 100)) \div 100})

\* Score, predicted risk and correlation move the share both ways.
IntelligentPct(c, near) ==
    Max({MinAlloc,
         Smaller(TopAlloc, (Alloc * Quality[c] * (IF near THEN 50 ELSE 100)) \div 10000)})

\* One candidate in the backtesters that size with risk: gross and correlated
\* exposure leave a headroom, below the floor there is no entry.
SizedEntry(k, c, linked, pct) ==
    LET near == Neighbours(k, c, linked)
        floor == (Equity(k) * MinAlloc) \div 100
        gross == (Equity(k) * MaxGross) \div 100 - Gross(k)
        room == (Equity(k) * NearCap) \div 100 - Invested(near)
        capital == Min({k.cash, (Equity(k) * pct) \div 100, gross}
                       \cup {room : p \in near}) IN
    IF /\ Held(k, c) = {}
       /\ Cardinality(k.open) < MaxOpen
       /\ Equity(k) > 0
       /\ capital >= floor /\ capital > 0
    THEN Enter(k, c, capital)
    ELSE k

OverlayEntry(k, c, linked) ==
    SizedEntry(k, c, linked, OverlayPct(c, Neighbours(k, c, linked) # {}))

IntelligentEntry(k, c, linked) ==
    SizedEntry(k, c, linked, IntelligentPct(c, Neighbours(k, c, linked) # {}))
-----------------------------------------------------------------------------
(* The two that follow the engine: the policy allocates for the whole batch *)
(* from one snapshot, then the allocations are filled.                      *)

\* FixedAllocationPortfolioPolicy.allocate, on the snapshot of the morning: one
\* candidate after those that were given an allocation.
Fits(k, n) == 100 * Gross(k) + (n + 1) * Alloc * Equity(k) <= MaxGross * Equity(k)

Allocate(k, c, chosen) ==
    IF /\ Cardinality(chosen) < MaxOpen - Cardinality(k.open)
       /\ Held(k, c) = {}
       /\ \A x \in chosen : CompanyOf[x] # CompanyOf[c]
       /\ Fits(k, Cardinality(chosen))
    THEN chosen \cup {c}
    ELSE chosen

Allocations(k, d) ==
    MapThenFoldSet(LAMBDA c, chosen : Allocate(k, c, chosen), {}, LAMBDA c : c, Last, Entries(d))

\* An allocation is filled with its share of the morning's equity, or with what
\* cash is left.
Fill(k, c, target) ==
    LET capital == Smaller(k.cash, target) IN
    IF capital > 0 THEN Enter(k, c, capital) ELSE k

\* The share is taken of the cash instead.
TargetOfCash(k) == (k.cash * Alloc) \div 100

Target(k) == (Equity(k) * Alloc) \div 100

\* The candidates whose order the entry day could not have filled.
Unfillable(k, d, w) == {c \in Entries(d) : Target(k) > world[w].depth[c]}

\* An unfillable order is refused; its slot is spent.
LiquidFill(x, c, target, refused) == IF c \in refused THEN x ELSE Fill(x, c, target)
-----------------------------------------------------------------------------
Init ==
    /\ plan \in Plans
    /\ world \in [Twin -> Worlds]
    /\ day = 0
    /\ book = [w \in Twin |-> [b \in Backtesters |->
                 [cash |-> Capital, open |-> {}, done |-> {}]]]

\* What each backtester does with a candidate: x is the book by now, k the morning's.
Considered(b, c, x, k, linked, refused) ==
    CASE b = "legacy" -> LegacyEntry(x, c, 1)
      [] b = "tranche" -> LegacyEntry(x, c, MaxTranches)
      [] b = "overlay" -> OverlayEntry(x, c, linked)
      [] b = "intelligent" -> IntelligentEntry(x, c, linked)
      [] b = "engine" -> Fill(x, c, Target(k))
      [] b = "liquid" -> LiquidFill(x, c, Target(k), refused)

Batch(b, k, d) == IF b \in {"engine", "liquid"} THEN Allocations(k, d) ELSE Entries(d)

\* The candidates of a day, one by one.
Entered(b, k, d, linked, refused) ==
    MapThenFoldSet(LAMBDA c, x : Considered(b, c, x, k, linked, refused),
                   k, LAMBDA c : c, Last, Batch(b, k, d))

\* One day of one backtester: nothing on a day it does not visit.
Played(b, k, d, w) ==
    LET closed == CloseDue(k, Earned(k, d, w)) IN
    IF d \in Calendar(b)
    THEN Entered(b, closed, d, Linked(d, w), Unfillable(closed, d, w))
    ELSE k

Next ==
    /\ day < LastDay
    /\ day' = day + 1
    /\ book' = [w \in Twin |-> [b \in Backtesters |-> Played(b, book[w][b], day + 1, w)]]
    /\ UNCHANGED <<plan, world>>

Spec == Init /\ [][Next]_vars
-----------------------------------------------------------------------------
(* Properties. *)

TypeOK ==
    /\ plan \in Plans
    /\ world \in [Twin -> Worlds]
    /\ day \in 0..LastDay
    /\ \A w \in Twin, b \in Backtesters :
         LET k == book[w][b] IN
         /\ k.cash >= 0
         /\ \A p \in k.open : p.c \in Candidate /\ p.capital > 0
         /\ \A t \in k.done : t.c \in Candidate

\* "Prove the generic strategy/research architecture reproduces V5 exactly"
\* (strategy_engine_v5_replay.py:63): after every day the engine has the cash,
\* the positions and the closed trades of the legacy backtester, although it
\* visits other days, allocates a whole batch at once and refuses where the
\* legacy one takes what cash is left.
EngineMatchesLegacy ==
    \A w \in Twin : book[w]["engine"] = book[w]["legacy"]

\* Tomorrow no candidate meets an open slot that the exposure limit keeps closed while
\* cash is left: there the engine refuses and the legacy backtester buys.
RoomTomorrow ==
    \A w \in Twin :
        LET k == CloseDue(book[w]["legacy"], Earned(book[w]["legacy"], day + 1, w)) IN
        \A n \in 0 .. Cardinality(Entries(day + 1)) - 1 :
            n < MaxOpen - Cardinality(k.open) => Fits(k, n) \/ k.cash <= n * Target(k)

\* What the two worlds show until day d: the returns of trades that have ended,
\* the liquidity of entry days that have come, the link of companies in bars
\* before the day.
SamePast(d) ==
    /\ \A c \in Candidate :
         /\ Leaves(c) <= d => world[1].returns[c] = world[2].returns[c]
         /\ EntryDay[c] <= d => world[1].depth[c] = world[2].depth[c]
    /\ \/ world[1].link = world[2].link
       \/ world[1].link >= d /\ world[2].link >= d

\* "The strategy sees only PIT FeatureSnapshot values and current portfolio
\* state" (research/historical.py:85-90): no backtester's cash, positions or
\* closed trades depend on what the day could not show.
DecisionsIgnoreFuture ==
    SamePast(day) => book[1] = book[2]
=============================================================================
