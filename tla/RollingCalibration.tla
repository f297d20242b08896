-------------------------- MODULE RollingCalibration --------------------------
(* The decisions of a V5-style strategy: percentiles of model scores       *)
(* against a rolling history, the choice of a horizon, a second percentile *)
(* for the chosen signals, and the history's life across runs: restored    *)
(* from the overlay file, changed by an evaluation in memory, checkpointed *)
(* before the broker, lost in a crash, read again by a later diagnosis.    *)
(* A score is an integer; a percentile is in units of 1/120, exact while   *)
(* a history holds at most six rows.                                       *)
EXTENDS Integers, FiniteSets

CONSTANTS
    Candidate,      \* candidates: one company on one execution date
    Seeded,         \* those of the validation sample
    DayOf,          \* execution date of each
    Horizon,        \* holding horizons in sessions
    Predictions,    \* what the models may predict: per candidate and horizon
    Window,         \* calibration_window_days
    Threshold,      \* rank_threshold, in units of 1/120
    MaxDay, MaxCrashes,
    None

VARIABLES
    predicted,  \* the models' predictions, fixed throughout
    today,      \* the execution date the next batch would have
    arrived,    \* candidates whose events were accepted
    disk,       \* the overlay file
    memory,     \* the running process's histories
    batch, emitted, step,
    receipts,   \* completed batches
    evaluated,  \* candidates of each date that some checkpoint contained
    latest,     \* those of its last checkpoint
    crashes

vars == <<predicted, today, arrived, disk, memory, batch, emitted, step, receipts, evaluated,
          latest, crashes>>

Live == Candidate \ Seeded
Days == 1 .. MaxDay

-----------------------------------------------------------------------------
(* RollingScoreHistory: a set of rows [day, of, score].                    *)

\* Mutant: rows of the batch's own date count.
PastOrToday(history, day) == {e \in history : day - Window <= e.day /\ e.day <= day}

\* The rows a batch of that date is ranked against.
Past(history, day) == {e \in history : day - Window <= e.day /\ e.day < day}

\* _percentile: the mid-rank; one half of an empty history.
Percentile(rows, score) ==
    IF rows = {} THEN 60
    ELSE (60 * (  Cardinality({e \in rows : e.score < score})
                + Cardinality({e \in rows : e.score <= score}))) \div Cardinality(rows)

\* percentiles(update=True): pruned to the window, then the batch appended.
Updated(history, day, scores) ==
    Past(history, day) \cup {[day |-> day, of |-> c, score |-> scores[c]] : c \in DOMAIN scores}

-----------------------------------------------------------------------------
(* V5AdaptiveHorizonStrategy over a calibration [profit, alpha, final].    *)

\* alpha_rank_weight is one quarter.
Combined(profit, alpha) == 3 * profit + alpha

\* The stage-one signal of every horizon.
Signals(cal, day, c) ==
    [h \in Horizon |->
        Combined(Percentile(Past(cal.profit[h], day), predicted[c][h].profit),
                 Percentile(Past(cal.alpha[h], day), predicted[c][h].alpha))]

\* Predicted return covers the costs and predicted downside is bearable.
Eligible(c) == {h \in Horizon : predicted[c][h].safe}

\* _choose_horizon: best signal, then return, then the shorter horizon.
Better(c, signals, h, k) ==
    \/ signals[h] > signals[k]
    \/ signals[h] = signals[k] /\ predicted[c][h].return > predicted[c][k].return
    \/ signals[h] = signals[k] /\ predicted[c][h].return = predicted[c][k].return /\ h <= k

Chosen(c, signals) == CHOOSE h \in Eligible(c) : \A k \in Eligible(c) : Better(c, signals, h, k)

Signal(cal, day, c) == LET s == Signals(cal, day, c) IN s[Chosen(c, s)]

Tradable(cands) == {c \in cands : Eligible(c) # {}}

\* evaluate, and diagnose_strategy with update=False: what is emitted.
Decide(cal, day, cands) ==
    {c \in Tradable(cands) :
        Percentile(Past(cal.final, day), Signal(cal, day, c)) >= Threshold}

\* Mutant: a candidate without an eligible horizon takes a row of the ranking.
RankedAll(cands) == cands

\* Those whose signal enters the final history.
Ranked(cands) == Tradable(cands)

\* evaluate: all histories after the batch.
Evaluated(cal, day, cands) ==
    [profit |-> [h \in Horizon |->
                    Updated(cal.profit[h], day, [c \in cands |-> predicted[c][h].profit])],
     alpha  |-> [h \in Horizon |->
                    Updated(cal.alpha[h], day, [c \in cands |-> predicted[c][h].alpha])],
     final  |-> Updated(cal.final, day,
                    [c \in Ranked(cands) |-> IF Eligible(c) = {} THEN 0 ELSE Signal(cal, day, c)])]

\* static_score_percentiles: the sample ranked against itself.
StaticSignals(c) ==
    [h \in Horizon |->
        LET rows(field(_)) == {[of |-> x, score |-> field(predicted[x][h])] : x \in Seeded}
            profit(s) == s.profit
            alpha(s) == s.alpha
        IN  Combined(Percentile(rows(profit), predicted[c][h].profit),
                     Percentile(rows(alpha), predicted[c][h].alpha))]

StaticSignal(c) == LET s == StaticSignals(c) IN s[Chosen(c, s)]

\* V5CalibrationState.from_validation, as the frozen artifact stores it.
Frozen ==
    LET seed(cands, score(_)) == {[day |-> DayOf[c], of |-> c, score |-> score(c)] : c \in cands}
    IN  [profit |-> [h \in Horizon |->
                        LET score(c) == predicted[c][h].profit IN seed(Seeded, score)],
         alpha  |-> [h \in Horizon |->
                        LET score(c) == predicted[c][h].alpha IN seed(Seeded, score)],
         final  |-> seed(Tradable(Seeded), StaticSignal)]

-----------------------------------------------------------------------------
(* Runs.                                                                   *)

\* restore: the overlay if there is one, else the artifact's calibration.
Restored == IF disk = None THEN Frozen ELSE disk

Init ==
    /\ predicted \in Predictions
    /\ today = 1 /\ arrived = {} /\ disk = None /\ memory = None
    /\ batch = {} /\ emitted = {} /\ step = "idle"
    /\ receipts = {} /\ crashes = 0
    /\ evaluated = [d \in Days |-> {}] /\ latest = [d \in Days |-> {}]

Completed == UNION {r.batch : r \in receipts}

Arrive(c) ==
    /\ c \in Live \ arrived /\ DayOf[c] = today
    /\ arrived' = arrived \cup {c}
    /\ UNCHANGED <<predicted, today, disk, memory, batch, emitted, step, receipts,
                   evaluated, latest, crashes>>

\* The accepted candidates of the next session that no receipt names.
Evaluate ==
    /\ step = "idle"
    /\ batch' = {c \in arrived \ Completed : DayOf[c] = today}
    /\ batch' # {}
    /\ emitted' = Decide(Restored, today, batch')
    /\ memory' = Evaluated(Restored, today, batch')
    /\ step' = "evaluated"
    /\ UNCHANGED <<predicted, today, arrived, disk, receipts, evaluated, latest, crashes>>

\* save_registry_checkpoint, before the broker commits.
Checkpoint ==
    /\ step = "evaluated"
    /\ disk' = memory
    /\ evaluated' = [evaluated EXCEPT ![today] = @ \cup batch]
    /\ latest' = [latest EXCEPT ![today] = batch]
    /\ step' = "saved"
    /\ UNCHANGED <<predicted, today, arrived, memory, batch, emitted, receipts, crashes>>

\* save_registry and the receipt.
Complete ==
    /\ step = "saved"
    /\ disk' = memory
    /\ receipts' = receipts \cup {[day |-> today, batch |-> batch, emitted |-> emitted]}
    /\ memory' = None /\ batch' = {} /\ emitted' = {} /\ step' = "idle"
    /\ UNCHANGED <<predicted, today, arrived, evaluated, latest, crashes>>

\* The retry may find more candidates accepted.
Crash ==
    /\ step # "idle" /\ crashes < MaxCrashes
    /\ memory' = None /\ batch' = {} /\ emitted' = {} /\ step' = "idle"
    /\ crashes' = crashes + 1
    /\ UNCHANGED <<predicted, today, arrived, disk, receipts, evaluated, latest>>

\* What was not decided in time is stale.
NextDay ==
    /\ step = "idle" /\ today < MaxDay
    /\ today' = today + 1
    /\ UNCHANGED <<predicted, arrived, disk, memory, batch, emitted, step, receipts,
                   evaluated, latest, crashes>>

Next ==
    \/ \E c \in Candidate : Arrive(c)
    \/ Evaluate \/ Checkpoint \/ Complete \/ Crash \/ NextDay

Spec == Init /\ [][Next]_vars

-----------------------------------------------------------------------------
ScoreRows == [day : {DayOf[c] : c \in Candidate}, of : Candidate, score : 0 .. 480]
IsCalibration(cal) ==
    /\ DOMAIN cal.profit = Horizon /\ DOMAIN cal.alpha = Horizon
    /\ cal.final \subseteq ScoreRows
    /\ \A h \in Horizon : cal.profit[h] \subseteq ScoreRows /\ cal.alpha[h] \subseteq ScoreRows

TypeOK ==
    /\ predicted \in Predictions /\ today \in Days
    /\ arrived \subseteq Live /\ batch \subseteq arrived /\ emitted \subseteq batch
    /\ disk = None \/ IsCalibration(disk)
    /\ step \in {"idle", "evaluated", "saved"}
    /\ (memory = None) = (step = "idle") /\ (memory # None => IsCalibration(memory))
    /\ \A r \in receipts : r.day \in Days /\ r.emitted \subseteq r.batch
    /\ \A d \in Days : latest[d] \subseteq evaluated[d]

\* rewind_registry_calibration_before and diagnose_registry on the overlay.
Rewound(cal, day) ==
    LET before(history) == {e \in history : e.day < day}
    IN  [profit |-> [h \in Horizon |-> before(cal.profit[h])],
         alpha  |-> [h \in Horizon |-> before(cal.alpha[h])],
         final  |-> before(cal.final)]

\* diagnose_current_receipt: what the diagnosis says a receipt's batch emits.
Rediagnosed(r) == Decide(Rewound(Restored, r.day), r.day, r.batch)

\* "exactly reconstructs the reference population for a recent completed
\* receipt": as long as no later date was evaluated, the overlay, however it
\* came about, reproduces the decision of every receipt.
ReceiptReproducible ==
    \A r \in receipts :
        (\A d \in Days : d > r.day => evaluated[d] = {}) =>
            Rediagnosed(r) = r.emitted

\* rolling_filtered_score_percentiles: the reference, without any state.
Population(day) ==
    Seeded \cup UNION {latest[d] : d \in {x \in Days : x < day}}

InWindow(day, cands) == {c \in cands : day - Window <= DayOf[c] /\ DayOf[c] < day}

ReplaySignals(c) ==
    [h \in Horizon |->
        LET past == InWindow(DayOf[c], Population(DayOf[c]))
            profit == {[of |-> x, score |-> predicted[x][h].profit] : x \in past}
            alpha == {[of |-> x, score |-> predicted[x][h].alpha] : x \in past}
        IN  Combined(Percentile(profit, predicted[c][h].profit),
                     Percentile(alpha, predicted[c][h].alpha))]

ReplaySignal(c) ==
    IF c \in Seeded THEN StaticSignal(c)
    ELSE LET s == ReplaySignals(c) IN s[Chosen(c, s)]

ReplayEmits(c) ==
    LET past == Tradable(InWindow(DayOf[c], Population(DayOf[c])))
    IN  /\ Eligible(c) # {}
        /\ Percentile({[of |-> x, score |-> ReplaySignal(x)] : x \in past}, ReplaySignal(c))
             >= Threshold

\* A live decision is the one a chronological replay of the same dates makes,
\* through crashes, retries and restored overlays, as long as no earlier date
\* was decided in two batches: the second replaces the rows of the first.
LiveMatchesReplay ==
    \A r \in receipts :
        (\A d \in Days : d < r.day => latest[d] = evaluated[d]) =>
            r.emitted = {c \in r.batch : ReplayEmits(c)}
=============================================================================
