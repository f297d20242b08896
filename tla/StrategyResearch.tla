-------------------------- MODULE StrategyResearch --------------------------
(* A generation of challenger strategies on its way into the runtime        *)
(* registry: screening writes report.json, qualification re-trains the      *)
(* finalists and writes qualification.json, the freeze re-trains the clean  *)
(* ones once more, compares the model year and registers them as SHADOW.    *)
(* The three are commands of an operator; between and during them the       *)
(* research data may be edited and a process may die.                       *)
(*                                                                          *)
(* What LightGBM learns from rows and picks from a year is Picks, a         *)
(* deterministic operator of the rows trained on.                           *)
EXTENDS Integers, Sequences, FiniteSets, FiniteSetsExt, Folds

CONSTANTS
    Row,            \* training rows, as numbers
    DecidedIn,      \* the year a row was decided in
    ExitIn,         \* the year its label ends in, by horizon
    Return,         \* what a trade of the row earns
    Stored,         \* the horizon whose exit a stored row carries
    Variant,        \* the generation's hypotheses, in the order of their names
    HorizonsOf,     \* the horizons a variant trades
    WindowOf,       \* the years of training data it uses
    Picks(_, _),    \* the rows a model trained on given rows picks of a year's
    Data,           \* research data: excluded labels and thinly traded rows
    ModelYear,      \* the year that is frozen
    MinTrain,       \* rows needed to train
    FinalistCount, MaxOverlap,      \* the selection's limits; overlap in percent
    Screener,       \* processes that may screen this generation
    MaxEdits, MaxFaults,            \* bounds
    None, Torn

VARIABLES
    data,           \* what a command that prepares now would read
    edits,          \* how often it was edited
    faults,         \* worker failures and deaths of processes
    screening,      \* each screener's run
    report,         \* report.json
    qualifying,     \* the qualification under way
    qualification,  \* qualification.json
    freezing,       \* the freeze under way
    registry        \* the SHADOW strategies registered

vars == <<data, edits, faults, screening, report, qualifying, qualification,
          freezing, registry>>

Years == {DecidedIn[r] : r \in Row}
Total(rows) == MapThenSumSet(LAMBDA r : Return[r], rows)
-----------------------------------------------------------------------------
(* The evaluation of a variant.  A row is read with the exit of the stored  *)
(* horizon.                                                                 *)

Source == {[id |-> r, exit |-> ExitIn[Stored][r]] : r \in Row}

\* _filter_executable_rows: quality exclusions of the variant's horizons and
\* the trailing volume.
Executable(v, rows, d) ==
    {r \in rows : /\ \A h \in HorizonsOf[v] : <<r.id, h>> \notin d.excluded
                  /\ r.id \notin d.thin}

\* Rows carry the latest exit among the variant's horizons.
Fenced(v, rows) ==
    {[r EXCEPT !.exit = Max({ExitIn[h][r.id] : h \in HorizonsOf[v]})] : r \in rows}

\* annual_walk_forward_splits, one year, with the variant's training window.
Split(v, rows, y) ==
    LET eligible == {r \in rows : r.exit < y} IN
    [train |-> {r.id : r \in {x \in eligible : /\ DecidedIn[x.id] < y - 1
                                              /\ DecidedIn[x.id] >= y - 1 - WindowOf[v]}},
     validation |-> {r.id : r \in {x \in eligible : DecidedIn[x.id] = y - 1}},
     test |-> {r.id : r \in {x \in rows : DecidedIn[x.id] = y}}]

\* A year with no row before the validation year, in it or in the year itself is
\* skipped; the window comes after.
Splits(v, rows) ==
    {y \in Years :
        /\ \E r \in rows : r.exit < y /\ DecidedIn[r.id] < y - 1
        /\ Split(v, rows, y).validation # {}
        /\ Split(v, rows, y).test # {}}

Trades(s) == Picks(s.train \cup s.validation, s.test)

\* Screening and qualification put the fence on every row, then filter.
ScreenedRows(v, d) == Executable(v, Fenced(v, Source), d)

\* The freeze keeps the stored exit as its fence.
FrozenRowsUnfenced(v, d) == Executable(v, Source, d)

\* The freeze filters, then puts the fence on what is left.
FrozenRows(v, d) == Fenced(v, Executable(v, Source, d))

Evaluation(v, d) ==
    LET rows == ScreenedRows(v, d) IN
    [years |-> [y \in Splits(v, rows) |-> Trades(Split(v, rows, y))],
     rows |-> Cardinality(Executable(v, Source, d))]

Trainable(v, d) ==
    LET rows == ScreenedRows(v, d) IN
    /\ Splits(v, rows) # {}
    /\ \A y \in Splits(v, rows) : Cardinality(Split(v, rows, y).train) >= MinTrain

TradesOf(result) == UNION {result.years[y] : y \in DOMAIN result.years}

\* Jaccard, in percent.
Overlap(a, b) ==
    LET all == TradesOf(a) \cup TradesOf(b) IN
    IF all = {} THEN 0 ELSE (100 * Cardinality(TradesOf(a) \cap TradesOf(b))) \div Cardinality(all)

\* PopulationGate and select_diverse_finalists: the profitable ones by score,
\* without those too close to an earlier one.
Score(result) == Total(TradesOf(result))

Weakest(results, some) ==
    CHOOSE v \in some : \A u \in some \ {v} :
        \/ Score(results[u]) > Score(results[v])
        \/ Score(results[u]) = Score(results[v]) /\ u < v

Admit(results, v, s) ==
    IF /\ Len(s) < FinalistCount
       /\ \A i \in DOMAIN s : Overlap(results[s[i]], results[v]) <= MaxOverlap
    THEN Append(s, v)
    ELSE s

Finalists(results) ==
    MapThenFoldSet(LAMBDA v, s : Admit(results, v, s), << >>, LAMBDA v : v,
                   LAMBDA some : Weakest(results, some),
                   {v \in DOMAIN results : Score(results[v]) > 0})

\* _qualification_clean: still profitable without the best year.
Clean(result) ==
    LET year(y) == Total(result.years[y]) IN
    \E best \in DOMAIN result.years :
        /\ \A y \in DOMAIN result.years : year(y) <= year(best)
        /\ MapThenSumSet(year, DOMAIN result.years \ {best}) > 0
-----------------------------------------------------------------------------
Idle == [step |-> "idle"]

Init ==
    /\ data \in Data /\ edits = 0 /\ faults = 0
    /\ screening = [p \in Screener |-> Idle]
    /\ report = None /\ qualifying = Idle
    /\ qualification = None /\ freezing = Idle
    /\ registry = {}

commands == <<screening, report, qualifying, qualification, freezing, registry>>

\* Exclusions, prices or volumes change under the commands.
Edit ==
    /\ edits < MaxEdits
    /\ \E d \in Data \ {data} : data' = d
    /\ edits' = edits + 1
    /\ UNCHANGED <<faults, commands>>

\* The report of an earlier run is replaced.
UnreportedEver == TRUE

\* A generation is screened once: the report must not be there yet.
Unreported == report = None

StartScreening(p) ==
    /\ screening[p] = Idle
    /\ Unreported
    /\ screening' = [screening EXCEPT ![p] =
           [step |-> "screening", data |-> data, results |-> <<>>, failed |-> {}]]
    /\ UNCHANGED <<data, edits, faults, report, qualifying, qualification, freezing, registry>>

With(results, v, result) ==
    [u \in DOMAIN results \cup {v} |-> IF u = v THEN result ELSE results[u]]

\* A worker finishes a hypothesis, or fails it: for want of rows, or by itself.
Screen(p, v) ==
    LET s == screening[p] IN
    /\ s.step = "screening"
    /\ v \notin DOMAIN s.results \cup s.failed
    /\ \/ /\ Trainable(v, s.data)
          /\ screening' = [screening EXCEPT ![p].results = With(@, v, Evaluation(v, s.data))]
          /\ UNCHANGED faults
       \/ /\ \/ ~Trainable(v, s.data) /\ UNCHANGED faults
             \/ faults < MaxFaults /\ faults' = faults + 1
          /\ screening' = [screening EXCEPT ![p].failed = @ \cup {v}]
    /\ UNCHANGED <<data, edits, report, qualifying, qualification, freezing, registry>>

\* The end of a screening writes the report, whatever is there by now.
WriteReport(p) ==
    LET s == screening[p] IN
    /\ s.step = "screening"
    /\ DOMAIN s.results \cup s.failed = Variant
    /\ report' = [exclusions |-> Cardinality(s.data.excluded), results |-> s.results,
                  failed |-> s.failed, finalists |-> Finalists(s.results)]
    /\ screening' = [screening EXCEPT ![p] = Idle]
    /\ UNCHANGED <<data, edits, faults, qualifying, qualification, freezing, registry>>

\* Qualification takes a whole report of a generation without failures, and
\* prepares the data anew: as many exclusions as were screened with.
StartQualification ==
    /\ qualifying = Idle
    /\ report \notin {None, Torn}
    /\ report.failed = {} /\ report.finalists # <<>>
    /\ Cardinality(data.excluded) = report.exclusions
    /\ qualifying' = [step |-> "qualifying", data |-> data, report |-> report]
    /\ UNCHANGED <<data, edits, faults, screening, report, qualification, freezing, registry>>

\* Every finalist has the trades, the horizons and the row counts it was
\* screened with.
Reproduced(q) ==
    \A i \in DOMAIN q.report.finalists :
        LET v == q.report.finalists[i] IN
        /\ Trainable(v, q.data)
        /\ Evaluation(v, q.data) = q.report.results[v]

\* All finalists or an error; a qualification that is there is not replaced.
Qualify ==
    /\ qualifying.step = "qualifying"
    /\ qualification' =
           IF Reproduced(qualifying) /\ qualification = None
           THEN [exclusions |-> Cardinality(qualifying.data.excluded),
                 finalists |-> [i \in DOMAIN qualifying.report.finalists |->
                     LET v == qualifying.report.finalists[i] IN
                     [variant |-> v, result |-> Evaluation(v, qualifying.data)]]]
           ELSE qualification
    /\ qualifying' = Idle
    /\ UNCHANGED <<data, edits, faults, screening, report, freezing, registry>>

\* The clean finalists of the qualification, as the freeze selects them.
Selected(q) == {i \in DOMAIN q.finalists : Clean(q.finalists[i].result)}

\* The freeze reads both files, insists that they agree, refuses a strategy that
\* is registered, and prepares the data once more.
StartFreeze ==
    /\ freezing = Idle
    /\ report \notin {None, Torn} /\ qualification \notin {None, Torn}
    /\ report.failed = {}
    /\ qualification.exclusions = report.exclusions
    /\ Cardinality(data.excluded) = report.exclusions
    /\ Selected(qualification) # {}
    /\ \A i \in Selected(qualification) :
         LET v == qualification.finalists[i].variant IN
         /\ \E j \in DOMAIN report.finalists : report.finalists[j] = v
         /\ \A g \in registry : g.variant # v
    /\ freezing' = [step |-> "freezing", data |-> data, report |-> report,
                    qualification |-> qualification]
    /\ UNCHANGED <<data, edits, faults, screening, report, qualifying, qualification, registry>>

\* The frozen artifact, loaded back, trades the model year as it was screened.
Replays(v, d, r) ==
    LET rows == FrozenRows(v, d)
        s == Split(v, rows, ModelYear)
        expected == {t \in TradesOf(r.results[v]) : t \in s.test} IN
    /\ ModelYear \in Splits(v, rows)
    /\ Cardinality(s.train) >= MinTrain
    /\ ModelYear \in DOMAIN r.results[v].years
    /\ Trades(s) = expected
    /\ Total(Trades(s)) = Total(r.results[v].years[ModelYear])

\* The whole cohort is registered, or nothing.
Freeze ==
    LET f == freezing
        cohort == {f.qualification.finalists[i] : i \in Selected(f.qualification)} IN
    /\ f.step = "freezing"
    /\ registry' =
           IF \A g \in cohort : Replays(g.variant, f.data, f.report)
           THEN registry \cup {[variant |-> g.variant, scorecard |-> g.result,
                                trained |-> Split(g.variant, FrozenRows(g.variant, f.data), ModelYear),
                                report |-> f.report] : g \in cohort}
           ELSE registry
    /\ freezing' = Idle
    /\ UNCHANGED <<data, edits, faults, screening, report, qualifying, qualification>>

\* A process dies; the file it was about to write may be cut short.
Die ==
    /\ faults < MaxFaults
    /\ faults' = faults + 1
    /\ \/ \E p \in Screener :
            /\ screening[p] # Idle
            /\ screening' = [screening EXCEPT ![p] = Idle]
            /\ report' \in {report} \cup
                   (IF DOMAIN screening[p].results \cup screening[p].failed = Variant
                    THEN {Torn} ELSE {})
            /\ UNCHANGED <<qualifying, qualification, freezing>>
       \/ /\ qualifying # Idle /\ qualifying' = Idle
          /\ qualification' \in {qualification} \cup
                 (IF Reproduced(qualifying) /\ qualification = None THEN {Torn} ELSE {})
          /\ UNCHANGED <<screening, report, freezing>>
       \/ /\ freezing # Idle /\ freezing' = Idle
          /\ UNCHANGED <<screening, report, qualifying, qualification>>
    /\ UNCHANGED <<data, edits, registry>>

Next ==
    \/ Edit
    \/ \E p \in Screener : StartScreening(p) \/ (\E v \in Variant : Screen(p, v)) \/ WriteReport(p)
    \/ StartQualification \/ Qualify
    \/ StartFreeze \/ Freeze
    \/ Die

Spec == Init /\ [][Next]_vars
-----------------------------------------------------------------------------
(* Properties. *)

TypeOK ==
    /\ data \in Data /\ edits \in 0..MaxEdits /\ faults \in 0..MaxFaults
    /\ \A p \in Screener : screening[p].step \in {"idle", "screening"}
    /\ report \in {None, Torn} \/ report.failed \subseteq Variant
    /\ qualifying.step \in {"idle", "qualifying"}
    /\ freezing.step \in {"idle", "freezing"}
    /\ \A g \in registry : g.variant \in Variant

\* A registered challenger's evidence is of one piece: the scorecard it is
\* registered with is, year by year, the one the report it was replayed against
\* was screened with; that generation had no failed hypothesis; and the model
\* that was frozen trades the model year of that scorecard.
ShadowReproduces ==
    \A g \in registry :
        /\ g.report.failed = {}
        /\ g.scorecard = g.report.results[g.variant]
        /\ Trades(g.trained) = g.scorecard.years[ModelYear]

\* Whatever the data: the rows the freeze trains and tests a variant on are those
\* the screening of the same data does, although one puts the maturity fence
\* before the execution filters and the other after.
FreezeTrainsLikeScreening ==
    \A v \in Variant :
        Split(v, FrozenRows(v, data), ModelYear) = Split(v, ScreenedRows(v, data), ModelYear)
=============================================================================
