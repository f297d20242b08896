------------------------------ MODULE Research ------------------------------
(* From historical data to a strategy that trades: the prepared history,   *)
(* market synchronization, candidate rows, backtests, the research         *)
(* generation, the arena, the runtime registry and the rolling             *)
(* calibration.  A behaviour is a behaviour of the one "scene" names;      *)
(* variables the scene does not use hold Unused.                           *)
EXTENDS Integers, FiniteSets

CONSTANTS
    \* of StrategyRuntime
    Legacy, Challenger, Rebootstrap, Shared, MaxStops, MaxRegistryEdits,
    \* of StrategyResearch
    Row, DecidedIn, ExitIn, Return, Stored, Variant, HorizonsOf, WindowOf, Picks(_, _), Data,
    ModelYear, MinTrain, FinalistCount, MaxOverlap, Screener, MaxEdits,
    \* of MarketSync
    MarketCompany, Ticker, Spy, MarketWindow, MaxSession,
    \* of CandidateRows
    Event, Company, CompanyOf, Sessions, MaxDay, Horizons, Fence, YearOf, TestYear, MaxHalts,
    \* of RollingCalibration
    Candidate, Seeded, DayOf, Horizon, Predictions, Window, Threshold, MaxDate, MaxCrashes,
    \* of Backtest
    Trade, TradeCompany, EntryDay, ExitDay, Plans, Worlds, Pair, Capital, Alloc, MaxOpen,
    MaxTranches, MaxGross, MinAlloc, TopAlloc, NearCap, Throttle, Quality, LastDay,
    \* of HistoricalData
    Quarters, Rows, Late, Pages, Rank, Traceable, Path, Most, MaxJobs,
    \* of StrategyArena
    Strategy, Evidence, Confidence, MinShadow, MinActive, Gate, MaxActive, MaxEach, MaxTotal,
    \* of MarketSync, StrategyResearch and HistoricalData
    MaxFaults,
    None, Torn, Unused

VARIABLES
    scene,
    \* of StrategyRuntime; the first two also of StrategyResearch
    registry, edits, manifest, root, temp, overlay, job, session, failed, stops,
    \* of StrategyResearch; faults also of MarketSync
    faults, data, screening, report, qualifying, qualification, freezing,
    \* of MarketSync
    completed, filed, vendor, raw, mapped, bars, sync,
    \* of CandidateRows; today also of RollingCalibration
    today, publicOn, traded, taken, live, asOf,
    \* of RollingCalibration
    predicted, arrived, disk, memory, batch, emitted, step, receipts, evaluated,
    latest, crashes,
    \* of Backtest
    plan, world, day, book,
    \* of HistoricalData
    archive, stored, events, companies, observed, metadata, holdouts, listed, alias,
    lobbying, command, commands, mishaps,
    \* of StrategyArena
    lifecycle, observation, market, weight

records == <<registry, edits>>
runtimeVars == <<manifest, root, temp, overlay, job, session, failed, stops>>
researchVars == <<data, screening, report, qualifying, qualification, freezing>>
marketVars == <<completed, filed, vendor, raw, mapped, bars, sync>>
rowVars == <<publicOn, traded, taken, live, asOf>>
calibrationVars ==
    <<predicted, arrived, disk, memory, batch, emitted, step, receipts, evaluated, latest, crashes>>
backtestVars == <<plan, world, day, book>>
historyVars ==
    <<archive, stored, events, companies, observed, metadata, holdouts, listed, alias,
      lobbying, command, commands, mishaps>>
arenaVars == <<lifecycle, observation, market, weight>>
vars == <<scene, records, faults, today, runtimeVars, researchVars, marketVars, rowVars,
          calibrationVars, backtestVars, historyVars, arenaVars>>
-----------------------------------------------------------------------------
Runtime == INSTANCE StrategyRuntime WITH MaxEdits <- MaxRegistryEdits
Generation == INSTANCE StrategyResearch
Market == INSTANCE MarketSync WITH Company <- MarketCompany, Window <- MarketWindow
Training == INSTANCE CandidateRows
Calibration == INSTANCE RollingCalibration WITH MaxDay <- MaxDate
Replay == INSTANCE Backtest WITH Candidate <- Trade, CompanyOf <- TradeCompany
History == INSTANCE HistoricalData
Arena == INSTANCE StrategyArena
-----------------------------------------------------------------------------
(* What the constants are. *)

BoundsSensible ==
    /\ MaxStops \in Nat /\ MaxRegistryEdits \in Nat /\ MaxEdits \in Nat /\ MaxFaults \in Nat
    /\ LastDay \in Nat
ASSUME BoundsAssumption == BoundsSensible

\* Candidates are finitely many, and the validation sample was decided on before the
\* first live date.
ASSUME CalibrationAssumption ==
    /\ IsFiniteSet(Candidate) /\ Seeded \subseteq Candidate
    /\ DayOf \in [Candidate -> Int] /\ \A c \in Seeded : DayOf[c] < 1
    /\ Window \in Nat /\ MaxDate \in Nat \ {0}

\* Horizons are finitely many, and the models predict within their scales.
PredictionsSensible ==
    /\ IsFiniteSet(Horizon) /\ Horizon \subseteq Int
    /\ \A p \in Predictions : \A c \in Candidate, h \in Horizon :
         p[c][h].profit \in 0 .. 480 /\ p[c][h].alpha \in 0 .. 480 /\ p[c][h].return \in Int
ASSUME PredictionsAssumption == PredictionsSensible

\* Days are numbered from 1, every event is a company's, and the calendar begins before
\* the test year and reaches it.
CalendarSensible ==
    /\ MaxDay \in Nat \ {0} /\ Sessions \subseteq 1 .. MaxDay
    /\ CompanyOf \in [Event -> Company]
YearsSensible ==
    Horizons # {} /\ YearOf[1] # TestYear /\ \E d \in 1 .. MaxDay : YearOf[d] = TestYear
ASSUME RowsAssumption == CalendarSensible /\ YearsSensible

\* A model picks rows of the year it is given.
PicksSensible ==
    \A trained, test \in SUBSET Row : Picks(trained, test) \subseteq test
ASSUME PicksAssumption == PicksSensible

\* Hypotheses are finitely many and ordered by their names, and so many rows earn numbers.
VariantsSensible ==
    /\ IsFiniteSet(Variant) /\ Variant \subseteq Int
    /\ IsFiniteSet(Row) /\ \A r \in Row : Return[r] \in Int
ASSUME VariantsAssumption == VariantsSensible

\* Quarters are numbered from 1, days are numbers, and no file is not a set of rows.
HistorySensible ==
    /\ IsFiniteSet(Quarters) /\ Quarters = 1 .. Cardinality(Quarters)
    /\ \A r \in Rows : r.traded \in Nat /\ r.filed \in Nat
    /\ \A rows \in SUBSET Rows : rows # None

\* The register has a first page, and a filing's number is of one client.
RegisterSensible ==
    /\ 1 \in DOMAIN Pages
    /\ \A p, q \in DOMAIN Pages : \A f \in Pages[p], g \in Pages[q] :
         f.id = g.id => f.client = g.client
ASSUME HistoryAssumption == HistorySensible /\ RegisterSensible

\* Sessions are counted from 1, and tickers are finitely many.
MarketSensible ==
    /\ MaxSession \in Nat \ {0} /\ MarketWindow \in Nat /\ MaxFaults \in Nat
    /\ IsFiniteSet(Ticker)
ASSUME MarketAssumption == MarketSensible

\* Entries and later exits have a day, and so has the link of two companies.
TimesSensible ==
    /\ \A c \in Trade : EntryDay[c] \in Int
    /\ \A q \in Plans, c \in Trade :
         /\ q.horizon[c] \in DOMAIN ExitDay
         /\ ExitDay[q.horizon[c]][c] \in Int /\ EntryDay[c] < ExitDay[q.horizon[c]][c]
    /\ \A m \in Worlds : m.link \in Int

\* Candidates are finitely many and ordered by their identifiers, scores are ordered, a
\* position is worth nothing at worst, and capital and shares are not negative.
TradesSensible ==
    /\ IsFiniteSet(Trade) /\ Trade \subseteq Int
    /\ \A q \in Plans, c \in Trade : q.score[c] \in Int
    /\ \A m \in Worlds, c \in Trade : m.returns[c] \in Int /\ m.returns[c] >= -100
    /\ Capital \in Nat /\ Alloc \in Nat /\ MaxOpen \in Nat /\ MaxTranches \in Nat
    /\ MaxGross \in 0 .. 100 /\ MinAlloc \in Nat /\ TopAlloc \in Nat /\ NearCap \in Nat
    /\ \A c \in Trade : Throttle[c] \in Nat /\ Quality[c] \in Nat
ASSUME BacktestAssumption == TimesSensible /\ TradesSensible

\* Everyone is observed, trades are counted, and a strategy that trades has shadowed.
ContestsSensible ==
    /\ \A seen \in Evidence :
         DOMAIN seen = Strategy /\ \A s \in Strategy : seen[s].trades \in Int
    /\ MinShadow \in Int /\ MinActive \in Int /\ MinShadow <= MinActive

\* Strategies are finitely many and ordered by their ids.
StrategiesOrdered == IsFiniteSet(Strategy) /\ Strategy \subseteq Int /\ MaxActive \in Nat

\* ArenaPolicy refuses caps that are not positive.
LimitsSensible == MaxEach \in Nat \ {0} /\ MaxTotal \in Nat \ {0}

\* Metrics are ordered.
MetricsOrdered ==
    \A seen \in Evidence : \A s \in Strategy : \A metric \in DOMAIN Arena!Share :
        seen[s][metric] \in Int
ASSUME ArenaAssumption ==
    ContestsSensible /\ StrategiesOrdered /\ LimitsSensible /\ MetricsOrdered
-----------------------------------------------------------------------------
NoRecords == registry = Unused /\ edits = Unused
NoRuntime ==
    /\ manifest = Unused /\ root = Unused /\ temp = Unused /\ overlay = Unused
    /\ job = Unused /\ session = Unused /\ failed = Unused /\ stops = Unused
NoResearch ==
    /\ data = Unused /\ screening = Unused /\ report = Unused
    /\ qualifying = Unused /\ qualification = Unused /\ freezing = Unused
NoMarket ==
    /\ completed = Unused /\ filed = Unused /\ vendor = Unused /\ raw = Unused
    /\ mapped = Unused /\ bars = Unused /\ sync = Unused
NoRows ==
    /\ publicOn = Unused /\ traded = Unused /\ taken = Unused /\ live = Unused /\ asOf = Unused
NoCalibration ==
    /\ predicted = Unused /\ arrived = Unused /\ disk = Unused /\ memory = Unused
    /\ batch = Unused /\ emitted = Unused /\ step = Unused /\ receipts = Unused
    /\ evaluated = Unused /\ latest = Unused /\ crashes = Unused
NoBacktest == plan = Unused /\ world = Unused /\ day = Unused /\ book = Unused
NoHistory ==
    /\ archive = Unused /\ stored = Unused /\ events = Unused /\ companies = Unused
    /\ observed = Unused /\ metadata = Unused /\ holdouts = Unused /\ listed = Unused
    /\ alias = Unused /\ lobbying = Unused /\ command = Unused /\ commands = Unused
    /\ mishaps = Unused
NoArena == lifecycle = Unused /\ observation = Unused /\ market = Unused /\ weight = Unused
NoneOfTheRest == NoHistory /\ NoArena

Init ==
    \/ /\ scene = "runtime" /\ Runtime!Init
       /\ faults = Unused /\ today = Unused
       /\ NoResearch /\ NoMarket /\ NoRows /\ NoCalibration /\ NoBacktest /\ NoneOfTheRest
    \/ /\ scene = "research" /\ Generation!Init
       /\ today = Unused
       /\ NoRuntime /\ NoMarket /\ NoRows /\ NoCalibration /\ NoBacktest /\ NoneOfTheRest
    \/ /\ scene = "market" /\ Market!Init
       /\ today = Unused
       /\ NoRecords /\ NoRuntime /\ NoResearch /\ NoRows /\ NoCalibration /\ NoBacktest /\ NoneOfTheRest
    \/ /\ scene = "rows" /\ Training!Init
       /\ faults = Unused
       /\ NoRecords /\ NoRuntime /\ NoResearch /\ NoMarket /\ NoCalibration /\ NoBacktest /\ NoneOfTheRest
    \/ /\ scene = "calibration" /\ Calibration!Init
       /\ faults = Unused
       /\ NoRecords /\ NoRuntime /\ NoResearch /\ NoMarket /\ NoRows /\ NoBacktest /\ NoneOfTheRest
    \/ /\ scene = "backtest" /\ Replay!Init
       /\ faults = Unused /\ today = Unused
       /\ NoRecords /\ NoRuntime /\ NoResearch /\ NoMarket /\ NoRows /\ NoCalibration /\ NoneOfTheRest
    \/ /\ scene = "history" /\ History!Init
       /\ faults = Unused /\ today = Unused
       /\ NoRecords /\ NoRuntime /\ NoResearch /\ NoMarket /\ NoRows /\ NoCalibration /\ NoBacktest
       /\ NoArena
    \/ /\ scene = "arena" /\ Arena!Init
       /\ faults = Unused /\ today = Unused
       /\ NoRecords /\ NoRuntime /\ NoResearch /\ NoMarket /\ NoRows /\ NoCalibration /\ NoBacktest
       /\ NoHistory

restVars == <<historyVars, arenaVars>>
sceneVars == <<records, faults, today, runtimeVars, researchVars, marketVars, rowVars,
               calibrationVars, backtestVars>>

Only(name) == scene = name /\ UNCHANGED scene

Next ==
    \/ /\ Only("runtime") /\ Runtime!Next
       /\ UNCHANGED <<faults, today, researchVars, marketVars, rowVars, calibrationVars, backtestVars, restVars>>
    \/ /\ Only("research") /\ Generation!Next
       /\ UNCHANGED <<today, runtimeVars, marketVars, rowVars, calibrationVars, backtestVars, restVars>>
    \/ /\ Only("market") /\ Market!Next
       /\ UNCHANGED <<records, today, runtimeVars, researchVars, rowVars, calibrationVars, backtestVars, restVars>>
    \/ /\ Only("rows") /\ Training!Next
       /\ UNCHANGED <<records, faults, runtimeVars, researchVars, marketVars, calibrationVars, backtestVars, restVars>>
    \/ /\ Only("calibration") /\ Calibration!Next
       /\ UNCHANGED <<records, faults, runtimeVars, researchVars, marketVars, rowVars, backtestVars, restVars>>
    \/ /\ Only("backtest") /\ Replay!Next
       /\ UNCHANGED <<records, faults, today, runtimeVars, researchVars, marketVars, rowVars, calibrationVars, restVars>>
    \/ /\ Only("history") /\ History!Next
       /\ UNCHANGED <<sceneVars, arenaVars>>
    \/ /\ Only("arena") /\ Arena!Next
       /\ UNCHANGED <<sceneVars, historyVars>>

Spec == Init /\ [][Next]_vars

\* The behaviours of one scene.
MarketSpec == scene = "market" /\ Spec
RowsSpec == scene = "rows" /\ Spec
-----------------------------------------------------------------------------
(* The properties of the modules, each in its scene. *)

\* The state of every scene has its type.
TypeOK ==
    /\ scene = "runtime" => Runtime!TypeOK
    /\ scene = "research" => Generation!TypeOK
    /\ scene = "market" => Market!TypeOK
    /\ scene = "rows" => Training!TypeOK
    /\ scene = "calibration" => Calibration!TypeOK
    /\ scene = "backtest" => Replay!TypeOK
    /\ scene = "history" => History!TypeOK
    /\ scene = "arena" => Arena!TypeOK

\* StrategyRuntime: the champion is tradable, and a freeze that failed can be retried
\* unless it was writing a manifest or the summary.  StrategyArena: the active
\* strategies' shares are fair.
StrategiesSound ==
    /\ scene = "runtime" => Runtime!ChampionTradable /\ Runtime!FailedFreezeRetries
    /\ scene = "arena" => Arena!SharesFair

\* StrategyRuntime: no write, raise or death of a job takes away a runtime on which
\* the runs go through, except a raise after the registry's save and a stale save.
JobsKeepRuntime ==
    [][scene = "runtime" /\ job' # job /\ ~Runtime!LateRaise /\ ~Runtime!StaleSave =>
          (Runtime!Loadable /\ Runtime!Restorable => (Runtime!Loadable /\ Runtime!Restorable)')]_vars

\* MarketSync and HistoricalData: a command that reports its end has done all of its
\* work, whatever earlier ones left.  A session missing after a ready synchronization
\* was asked for; after a population every usable row has its event.
FinishedIsComplete ==
    /\ scene = "market" => Market!AskedFor
    /\ scene = "history" => History!PopulationComplete

\* RollingCalibration and StrategyResearch: what a batch or a registered strategy
\* was decided on can be reproduced later from what was written.
Reproducible ==
    /\ scene = "calibration" => Calibration!ReceiptReproducible
    /\ scene = "research" => Generation!ShadowReproduces

\* CandidateRows and Backtest: neither the split of a test year nor any day of a
\* backtest depends on what came later.  HistoricalData: a holdout has no company
\* that was used before.
NoLookAhead ==
    /\ scene = "history" => History!HoldoutsDisjoint
    /\ scene = "rows" => Training!HindsightIsPointInTime
    /\ scene = "backtest" => Replay!DecisionsIgnoreFuture

\* The pairs of implementations that must agree: live decisions and a
\* chronological replay, live candidates and training rows, the engine and the
\* legacy backtester, the rows of the freeze and of the screening, two enrichments of
\* one lobbying client, an arena with and one without its weak strategies.
SameResult ==
    /\ scene = "history" => History!OneCompanyPerClient
    /\ scene = "arena" => Arena!WeakOnesIgnored
    /\ scene = "calibration" => Calibration!LiveMatchesReplay
    /\ scene = "rows" => Training!LiveIsTrained
    /\ scene = "backtest" => Replay!EngineMatchesLegacy
    /\ scene = "research" => Generation!FreezeTrainsLikeScreening

\* MarketSync: "Provider coverage that lags the completed exchange session still
\* fails closed" (current_market.py:72).
ReadyIsCovered == scene = "market" => Market!ReadyIsCovered

\* CandidateRows: no validation row is admitted "whose longer 60-session outcome was
\* not known before the test year began" (walk_forward.py:41-45).
HindsightIsPointInTime == scene = "rows" => Training!HindsightIsPointInTime
=============================================================================
