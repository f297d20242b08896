----------------------------- MODULE CandidateRows -----------------------------
(* The rows models are trained on and the candidates a cycle decides on.    *)
(* Events become public on days; the triggers of a company that wait for    *)
(* the same session are one opportunity.  Training builds its rows in       *)
(* hindsight from the bars that followed; the live assembly rebuilds the    *)
(* rows of the companies in its batch and adds the coming session, which    *)
(* has no bar yet.  The bars of a session are there on its evening, when    *)
(* the cycles of the model run; a stock may not trade on a session.         *)
EXTENDS Integers, FiniteSets, TLC

CONSTANTS
    Event, Company, CompanyOf,
    Sessions,       \* the exchange's session days
    MaxDay,
    Horizons,       \* holding horizons in sessions
    Fence,          \* the horizons whose exit must lie before the test year
    YearOf,         \* the year of each day
    TestYear,       \* the year a model is trained for
    MaxHalts        \* bound on sessions a stock does not trade on

VARIABLES
    today,
    publicOn,       \* the day each public event became public
    traded,         \* the sessions each company's stock has a bar of
    taken,          \* events consumed by a batch
    live,           \* candidates that cycles decided on
    asOf            \* the training split built on the eve of TestYear, once there

vars == <<today, publicOn, traded, taken, live, asOf>>

Day == 1 .. MaxDay
Never == MaxDay + 1
Earliest(days) == CHOOSE d \in days : \A x \in days : d <= x
Latest(days) == CHOOSE d \in days : \A x \in days : x <= d
Boundary == Earliest({d \in Day : YearOf[d] = TestYear})

Public == DOMAIN publicOn
NextIn(days, d) == IF \E x \in days : x > d THEN Earliest({x \in days : x > d}) ELSE Never

\* The benchmark has a bar of every session that closed.
Closed == {s \in Sessions : s <= today}
HasHistory(e) == \E s \in traded[CompanyOf[e]] : s < publicOn[e]

\* CandidateSnapshotBuilder.build: the session of the stock's next bar.
Built(e) == IF HasHistory(e) THEN NextIn(traded[CompanyOf[e]], publicOn[e]) ELSE Never

-----------------------------------------------------------------------------
(* Rows in hindsight: TrainingDatasetBuilder, multi-horizon targets and the *)
(* annual split.                                                            *)

\* The session a label ends on.
Exit(c, s, h) ==
    LET from == {d \in traded[c] : d >= s}
        reached == {d \in from : Cardinality({x \in from : x <= d}) = h}
    IN  IF reached = {} THEN Never ELSE Earliest(reached)

\* The triggers of company c that are decided on for session s.
Triggers(c, s, sessionOf) == {e \in Public : CompanyOf[e] = c /\ sessionOf[e] = s}

\* augment_opportunity_history_features: the company's earlier opportunities.
Prior(c, s, sessionOf) ==
    {<<x, Triggers(c, x, sessionOf)>> :
        x \in {d \in Sessions : d < s /\ Triggers(c, d, sessionOf) # {}}}

\* build_multi_horizon_targets.
Exits(c, s) == [h \in Horizons |-> Exit(c, s, h)]

BaseRow(c, s, sessionOf) ==
    [company |-> c, session |-> s, triggers |-> Triggers(c, s, sessionOf),
     prior |-> Prior(c, s, sessionOf), exits |-> Exits(c, s)]

\* A row is compared with the others of its session only.
PeersOthers(r, rows) == {q.company : q \in {p \in rows : p.session = r.session} \ {r}}

\* augment_system_context_features: the rows a row is ranked with, itself one.
Peers(r, rows) == {q.company : q \in {p \in rows : p.session = r.session}}

\* TrainingDatasetBuilder.build: every labelled opportunity.
TrainingRows ==
    LET sessionOf == [e \in Public |-> Built(e)]
        keys == {<<CompanyOf[e], sessionOf[e]>> : e \in Public}
    IN  {r \in {BaseRow(k[1], k[2], sessionOf) : k \in {k \in keys : k[2] # Never}} :
            \A h \in Horizons : r.exits[h] # Never}

DecidedOn(r) == Latest({publicOn[e] : e \in r.triggers})

\* The fence of the shortest horizon.
MaturityShort(r) == Earliest({r.exits[h] : h \in Fence})

\* multi_horizon_maturity_dates, with every horizon in the fence; rows without it
\* carry the exit of the stored horizon.
Maturity(r) == Latest({r.exits[h] : h \in Fence})

\* annual_walk_forward_splits for TestYear.
Split ==
    LET eligible == {r \in TrainingRows : Maturity(r) < Boundary}
    IN  [train |-> {r \in eligible : YearOf[DecidedOn(r)] < TestYear - 1},
         validation |-> {r \in eligible : YearOf[DecidedOn(r)] = TestYear - 1}]

-----------------------------------------------------------------------------
(* Candidates of a cycle for session x: PitCandidateAssembler.              *)

\* A halted stock's event shifts to the next session.
LiveSessionShifting(e, x) ==
    IF Built(e) # Never THEN Built(e)
    ELSE IF HasHistory(e) /\ publicOn[e] < x THEN x ELSE Never

\* _resolve_snapshot: the stored next bar, else the coming session unless the
\* benchmark has traded since the publication.
LiveSession(e, x) ==
    IF Built(e) # Never THEN Built(e)
    ELSE IF /\ HasHistory(e)
            /\ publicOn[e] < x
            /\ NextIn(Closed, publicOn[e]) >= x
    THEN x ELSE Never

Candidates(batch, x) ==
    LET affected == {CompanyOf[e] : e \in batch}
        sessionOf == [e \in Public |-> LiveSession(e, x)]
        rows == {r \in {BaseRow(c, x, sessionOf) : c \in affected} : r.triggers # {}}
    IN  {[company |-> r.company, session |-> x, known |-> Public,
          triggers |-> r.triggers, prior |-> r.prior,
          peers |-> Peers(r, rows)] : r \in rows}

\* Pending events whose session is the coming one.
Batch(x) == {e \in Public \ taken : NextIn(Sessions, publicOn[e]) = x}

-----------------------------------------------------------------------------
Init ==
    /\ today = 1
    /\ publicOn = << >>
    /\ traded = [c \in Company |-> Sessions \cap {1}]
    /\ taken = {}
    /\ live = {}
    /\ asOf = {}

\* A day passes; on a session each stock trades or not.
NextDay(trading) ==
    /\ today < MaxDay
    /\ today' = today + 1
    /\ trading # {} => today' \in Sessions
    /\ traded' = [c \in Company |-> IF c \in trading THEN traded[c] \cup {today'} ELSE traded[c]]
    /\ \A c \in Company : Cardinality({s \in Sessions : s <= today'} \ traded'[c]) <= MaxHalts
    /\ asOf' = IF today' = Boundary THEN {Split} ELSE asOf
    /\ UNCHANGED <<publicOn, taken, live>>

Publish(e) ==
    /\ e \notin Public
    /\ publicOn' = [x \in Public \cup {e} |-> IF x = e THEN today ELSE publicOn[x]]
    /\ UNCHANGED <<today, traded, taken, live, asOf>>

\* A cycle: every affected company must have its candidate, or the batch stays.
Cycle ==
    LET x == NextIn(Sessions, today)
        batch == Batch(x)
        found == Candidates(batch, x)
    IN  /\ x # Never /\ batch # {}
        /\ {l.company : l \in found} = {CompanyOf[e] : e \in batch}
        /\ live' = live \cup found
        /\ taken' = taken \cup batch
        /\ UNCHANGED <<today, publicOn, traded, asOf>>

Next ==
    \/ \E trading \in SUBSET Company : NextDay(trading)
    \/ \E e \in Event : Publish(e)
    \/ Cycle

Spec == Init /\ [][Next]_vars

-----------------------------------------------------------------------------
(* Properties.                                                             *)

TypeOK ==
    /\ today \in Day
    /\ Public \subseteq Event /\ \A e \in Public : publicOn[e] <= today
    /\ \A c \in Company : traded[c] \subseteq Closed
    /\ taken \subseteq Public
    /\ \A l \in live : l.company \in l.peers /\ l.triggers \subseteq l.known
    /\ asOf = {} <=> today < Boundary

\* A live candidate has the triggers and the history of the training row of its
\* session, as far as they were public; only triggers of a publication that was
\* followed by a session the stock did not trade on join that row in hindsight.
\* A training row of that session whose candidate it was not ranked with was
\* decided on by another cycle for the session, or public only later.
LiveIsTrained ==
    LET Joined(r) == {e \in r.triggers : NextIn(Sessions, publicOn[e]) # r.session}
        Ranked(x) == UNION {m.peers : m \in {n \in live : n.session = x}}
    IN  \A l \in live : \A r \in TrainingRows :
          r.session = l.session =>
            /\ r.company = l.company =>
                 /\ l.triggers = (r.triggers \cap l.known) \ Joined(r)
                 /\ l.prior = r.prior
            /\ (r.triggers \cap l.known) \ Joined(r) # {} => r.company \in Ranked(l.session)

\* The split research builds in hindsight for a test year is the one that could
\* have been built when that year began: no label of the future is in it.
HindsightIsPointInTime == asOf \subseteq {Split}
=============================================================================
