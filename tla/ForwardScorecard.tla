-------------------------- MODULE ForwardScorecard --------------------------
(* Forward evidence: decision diagnostics are immutable files, one per      *)
(* batch; a refresh extends the market series of their securities, joins    *)
(* each decision to the labels that have matured and replaces the           *)
(* scorecard; an analysis reads the scorecard back.  A lane's refresh runs  *)
(* under the runtime lock, the refresh tool beside it without.              *)
(*                                                                          *)
(* Time counts sessions; session s has completed when completed >= s.       *)
EXTENDS Integers, FiniteSets, FiniteSetsExt

CONSTANTS
    Batch,          \* diagnostic files, one candidate each
    SecurityOf,     \* the candidate's security
    ExecutionOn,    \* its execution session
    Chosen,         \* the horizon its strategy chose, or None
    SourceOf,       \* the evidence source in the file
    Benchmark,
    Horizons,       \* label horizons, in sessions
    Limit,          \* bars read per label
    MaxSession, MaxAborts,
    None

Security == {SecurityOf[b] : b \in Batch} \cup {Benchmark}
Refresher == {"lane", "tool"}

VARIABLES
    completed,      \* the last completed session
    bars,           \* the market database: sessions with a bar, per security
    diagnostics,    \* diagnostic files on disk
    invalidated,    \* batches in the invalidation file
    scorecard,      \* the scorecard file: batch -> labels, or None
    reported,       \* labels that analyses have reported, with their source
    pc, run,        \* per refresher
    aborts

vars == <<completed, bars, diagnostics, invalidated, scorecard, reported, pc, run, aborts>>

NoRun == [asOf |-> 0, batches |-> {}, todo |-> {}]

Init ==
    /\ completed = 0
    /\ bars = [s \in Security |-> {0}]
    /\ diagnostics = {}
    /\ invalidated = {}
    /\ scorecard = None
    /\ reported = {}
    /\ pc = [p \in Refresher |-> "idle"]
    /\ run = [p \in Refresher |-> NoRun]
    /\ aborts = 0

SessionCloses ==
    /\ completed < MaxSession
    /\ completed' = completed + 1
    /\ UNCHANGED <<bars, diagnostics, invalidated, scorecard, reported, pc, run, aborts>>

\* A cycle or a lane, under the lock, writes the diagnostics of a batch before
\* its session; a file that exists with the same content is left alone.
WriteDiagnostics(b) ==
    /\ pc["lane"] = "idle"
    /\ b \notin diagnostics /\ ExecutionOn[b] = completed + 1
    /\ diagnostics' = diagnostics \cup {b}
    /\ UNCHANGED <<completed, bars, invalidated, scorecard, reported, pc, run, aborts>>

\* Excluding evidence is append-only: an entry is never changed or removed.
AddInvalidation(b) ==
    /\ pc["lane"] = "idle"
    /\ b \in diagnostics \ invalidated
    /\ invalidated' = invalidated \cup {b}
    /\ UNCHANGED <<completed, bars, diagnostics, scorecard, reported, pc, run, aborts>>
-----------------------------------------------------------------------------
(* The refresh. *)

Due(batches, asOf) == {b \in batches : ExecutionOn[b] <= asOf}
Lagging(securities, asOf) == {s \in securities : Max(bars[s]) < asOf}

AdmittedAll == diagnostics    \* Mutant: the invalidation file is ignored.
Admitted == diagnostics \ invalidated

\* The lane refreshes as of now; the tool as of any moment it is told.
StartRefresh(p, asOf) ==
    /\ pc[p] = "idle"
    /\ p = "lane" => asOf = completed
    /\ LET tracked == {SecurityOf[b] : b \in Due(Admitted, asOf)}
       IN run' = [run EXCEPT ![p] = [asOf |-> asOf, batches |-> Admitted,
                     todo |-> Lagging(tracked \cup {Benchmark}, asOf)]]
    /\ pc' = [pc EXCEPT ![p] = "sync"]
    /\ UNCHANGED <<completed, bars, diagnostics, invalidated, scorecard, reported, aborts>>

\* Mutant: a refresh also fills the gaps of a series.
MissingAnywhere(s, asOf) == (1 .. asOf) \ bars[s]
Missing(s, asOf) == Max(bars[s]) + 1 .. asOf

\* A series is fetched from the day after its last stored bar.  The vendor may
\* not have every session yet, so gaps and lagging series are normal.
SyncSeries(p, s, got) ==
    /\ pc[p] = "sync" /\ s \in run[p].todo
    /\ got \subseteq Missing(s, Min({run[p].asOf, completed}))
    /\ bars' = [bars EXCEPT ![s] = @ \cup got]
    /\ run' = [run EXCEPT ![p].todo = @ \ {s}]
    /\ UNCHANGED <<completed, diagnostics, invalidated, scorecard, reported, pc, aborts>>

\* The days of a set up to d.
UpTo(days, d) == {e \in days : e <= d}

\* Sessions the first Limit bars of a series have from a session on, to asOf.
BarsFrom(s, first, asOf) ==
    LET all == {d \in bars[s] : d >= first}
    IN {d \in UpTo(all, asOf) : Cardinality(UpTo(all, d)) <= Limit}

\* A label spans the first h sessions both series have, to the last of them; it counts
\* only when the first is the execution session.
Common(b, asOf) ==
    BarsFrom(SecurityOf[b], ExecutionOn[b], asOf) \cap BarsFrom(Benchmark, ExecutionOn[b], asOf)
Spans(days, h, d) == d \in days /\ Cardinality(UpTo(days, d)) = h
Label(b, h, asOf) ==
    IF ExecutionOn[b] \in Common(b, asOf) /\ \E d \in Common(b, asOf) : Spans(Common(b, asOf), h, d)
    THEN CHOOSE d \in Common(b, asOf) : Spans(Common(b, asOf), h, d)
    ELSE None

Labels(b, asOf) == [h \in Horizons |-> Label(b, h, asOf)]

WriteScorecard(p) ==
    /\ pc[p] = "sync" /\ run[p].todo = {}
    /\ scorecard' = [b \in run[p].batches |-> Labels(b, run[p].asOf)]
    /\ pc' = [pc EXCEPT ![p] = "idle"]
    /\ run' = [run EXCEPT ![p] = NoRun]
    /\ UNCHANGED <<completed, bars, diagnostics, invalidated, reported, aborts>>

\* A request fails, a row does not parse, the database is open elsewhere or the
\* process dies: the scorecard stays as it was.
AbortRefresh(p) ==
    /\ pc[p] # "idle" /\ aborts < MaxAborts
    /\ aborts' = aborts + 1
    /\ pc' = [pc EXCEPT ![p] = "idle"]
    /\ run' = [run EXCEPT ![p] = NoRun]
    /\ UNCHANGED <<completed, bars, diagnostics, invalidated, scorecard, reported>>
-----------------------------------------------------------------------------
(* The analysis of rank thresholds: the decisions with a chosen horizon, at   *)
(* the label of that horizon, with the source the diagnostic file names.      *)

Matured(b) == Chosen[b] # None /\ scorecard[b][Chosen[b]] # None

Analyze ==
    /\ scorecard # None
    /\ reported' = reported \cup
         {[batch |-> b, source |-> SourceOf[b], end |-> scorecard[b][Chosen[b]]] :
            b \in {x \in DOMAIN scorecard : Matured(x)}}
    /\ UNCHANGED <<completed, bars, diagnostics, invalidated, scorecard, pc, run, aborts>>
-----------------------------------------------------------------------------
Refresh(p) ==
    \/ \E asOf \in 1 .. completed : StartRefresh(p, asOf)
    \/ \E s \in Security : \E got \in SUBSET (1 .. completed) : SyncSeries(p, s, got)
    \/ WriteScorecard(p)

Next ==
    \/ SessionCloses
    \/ \E b \in Batch : WriteDiagnostics(b) \/ AddInvalidation(b)
    \/ \E p \in Refresher : Refresh(p) \/ AbortRefresh(p)
    \/ Analyze

Spec == Init /\ [][Next]_vars

\* The scheduler runs the lane again and again, and what it began goes on.
FairSpec == Spec /\ WF_vars(Refresh("lane"))
-----------------------------------------------------------------------------
TypeOK ==
    /\ completed \in 0 .. MaxSession
    /\ bars \in [Security -> SUBSET (0 .. MaxSession)]
    /\ invalidated \subseteq diagnostics /\ diagnostics \subseteq Batch
    /\ scorecard = None \/ DOMAIN scorecard \subseteq diagnostics
    /\ \A p \in Refresher : pc[p] \in {"idle", "sync"} /\ run[p].batches \subseteq diagnostics
    /\ aborts \in 0 .. MaxAborts

\* A label, once published or reported, is a fact: what a refresh would compute
\* from the database now is the same, whichever refresh wrote it, however the
\* two series lagged and whatever was fetched since.
LabelsAreFacts ==
    /\ scorecard # None =>
         \A b \in DOMAIN scorecard : \A h \in Horizons :
            scorecard[b][h] # None => scorecard[b][h] = Label(b, h, completed)
    /\ \A r \in reported : r.end = Label(r.batch, Chosen[r.batch], completed)

\* Invalidated evidence leaves the scorecard for good: a refresh outside the lock
\* that began before the invalidation may bring it back, but not for ever.
Counts(b) == scorecard # None /\ b \in DOMAIN scorecard
InvalidatedLeaves == \A b \in Batch : b \in invalidated ~> [](~Counts(b))
=============================================================================
