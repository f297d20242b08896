------------------------------ MODULE LdaLane ------------------------------
(* The measurement-only lane for lobbying disclosures: one run, under the  *)
(* shared runtime lock, polls the LDA listing page by page, stores the new *)
(* filings as events, makes them pending, writes off those whose session   *)
(* has passed, and scores the rest into one immutable diagnostic file.     *)
(*                                                                         *)
(* Time counts half days: an even number is the morning before the open of *)
(* the session of that day, an odd number the rest of the day.  Filings    *)
(* are numbered in the order of their cursors (posted_at, filing_uuid).    *)
EXTENDS Integers, FiniteSets, FiniteSetsExt

CONSTANTS
    Filing,         \* 1..n, in cursor order
    PostedAt,       \* the half day each filing is posted in
    Modelled,       \* filings whose client resolves to a modelled company
    CompanyOf,      \* that company
    PageSize,
    NewestFirst,    \* the order in which the agency's pages list filings
    EdgeBlocks,     \* the agency's edge may deny access between two pages
    Lookback,       \* days, of the first poll
    MaxTime,        \* bound on time
    MaxAborts       \* bound on raises and process deaths

VARIABLES
    now,
    intake,         \* the intake file: cursor, pending, stale
    stored,         \* filings with an event in the lane's event database
    diagnostics,    \* diagnostic files of this lane: target and events
    pc,
    run,            \* what the running process holds in memory
    aborts

vars == <<now, intake, stored, diagnostics, pc, run, aborts>>

Day(t) == t \div 2
Target(t) == (t + 1) \div 2        \* the session a run at t plans for
Intended(f) == Day(PostedAt[f]) + 1  \* the first session after the posting day

NoRun == [cutoff |-> 0, cursor |-> 0, page |-> 0, relay |-> 0,
          snapshot |-> {}, seen |-> {}, selected |-> {}, ready |-> {}]

Init ==
    /\ now = 0
    /\ intake = [cursor |-> 0, pending |-> {}, stale |-> {}]
    /\ stored = {}
    /\ diagnostics = {}
    /\ pc = "idle"
    /\ run = NoRun
    /\ aborts = 0

\* A run starts with the lock: it reads the cursor and fixes its cutoff.
StartRun ==
    /\ pc = "idle"
    /\ run' = [NoRun EXCEPT !.cutoff = now, !.cursor = intake.cursor, !.page = 1]
    /\ pc' = "poll"
    /\ UNCHANGED <<now, intake, stored, diagnostics, aborts>>

\* What the date filters of a request let through, and have been posted at time t.
Window ==
    LET after == IF run.cursor = 0 THEN Day(run.cutoff) - Lookback
                                   ELSE Day(PostedAt[run.cursor]) - 1
    IN {f \in Filing : Day(PostedAt[f]) \in after .. Day(run.cutoff)}
InWindow(t) == {f \in Window : PostedAt[f] <= t}

\* How many filings a listing shows before f.
Rank(f, listing) ==
    Cardinality({g \in listing : IF NewestFirst /\ run.relay = 0 THEN g > f ELSE g < f})

\* Mutant: the first page is taken for the second.
PageOffByOne(listing) ==
    {f \in listing : (Rank(f, listing) + 1) \div PageSize = run.page}

Page(listing) ==
    {f \in listing : Rank(f, listing) \in (run.page - 1) * PageSize .. run.page * PageSize - 1}

\* Filings of a page that the poll has not passed before.
TooOld(f, cutoff) == PostedAt[f] < cutoff - 2 * Lookback

\* Mutant: the filing at the cursor is listed again and taken for a new one.
UnseenAtCursor(f) ==
    /\ PostedAt[f] <= run.cutoff
    /\ f >= run.cursor
    /\ run.cursor = 0 => ~TooOld(f, run.cutoff)

Unseen(f) ==
    /\ PostedAt[f] <= run.cutoff
    /\ f > run.cursor
    /\ run.cursor = 0 => ~TooOld(f, run.cutoff)

\* One page from the agency, or from the relay's snapshot once access was denied.
FetchPage ==
    /\ pc = "poll"
    /\ LET listing == IF run.relay > 0 THEN run.snapshot ELSE InWindow(now)
       IN /\ run' = [run EXCEPT !.seen = @ \cup {f \in Page(listing) : Unseen(f)},
                                !.page = @ + 1]
          /\ pc' = IF run.page * PageSize < Cardinality(listing) THEN "poll" ELSE "store"
    /\ UNCHANGED <<now, intake, stored, diagnostics, aborts>>

\* The edge denies a page: from this page on, the relay's snapshot, which must
\* cover the requested days, answers in its own order.
FallBack ==
    /\ EdgeBlocks /\ pc = "poll" /\ run.relay = 0
    /\ \E taken \in 0 .. now :
         /\ Day(taken) >= Day(run.cutoff)
         /\ run' = [run EXCEPT !.relay = run.page, !.snapshot = InWindow(taken)]
    /\ UNCHANGED <<now, intake, stored, diagnostics, pc, aborts>>

\* Events first; put_many ignores the ids it already has.
StoreEvents ==
    /\ pc = "store"
    /\ stored' = stored \cup (run.seen \cap Modelled)
    /\ pc' = "commit"
    /\ UNCHANGED <<now, intake, diagnostics, run, aborts>>

\* Then cursor and pending items in one replacement of the intake file.  The
\* cursor also passes filings of companies nobody models.
CommitPoll ==
    /\ pc = "commit"
    /\ intake' = [intake EXCEPT
         !.cursor = Max({@} \cup run.seen),
         !.pending = @ \cup ((run.seen \cap Modelled) \ intake.stale)]
    /\ pc' = "select"
    /\ UNCHANGED <<now, stored, diagnostics, run, aborts>>

\* Mutant: the day after its session an item still counts as current.
StaleLater(f) == PostedAt[f] <= run.cutoff /\ Intended(f) < Target(run.cutoff) - 1

Actionable(f) == PostedAt[f] <= run.cutoff /\ Intended(f) = Target(run.cutoff)
Stale(f) == PostedAt[f] <= run.cutoff /\ Intended(f) < Target(run.cutoff)

\* Classify the pending items against the target session and write off the
\* stale ones; those of a later session stay pending untouched.
Select ==
    /\ pc = "select"
    /\ LET stale == {f \in intake.pending : Stale(f)}
           selected == {f \in intake.pending : Actionable(f)}
       IN /\ intake' = [intake EXCEPT !.pending = @ \ stale, !.stale = @ \cup stale]
          /\ run' = [run EXCEPT !.selected = selected]
          /\ pc' = IF selected = {} THEN "scorecard" ELSE "market"
    /\ UNCHANGED <<now, stored, diagnostics, aborts>>

\* The selected events whose company has a current series; without any of them
\* the run ends here.
Proceed(ready) ==
    /\ run' = IF ready = {} THEN NoRun ELSE [run EXCEPT !.ready = ready]
    /\ pc' = IF ready = {} THEN "idle" ELSE "score"

\* Every selected company's series is brought up to date on its own; those that
\* cannot be are left for a later run of the same session.
SyncMarket ==
    /\ pc = "market"
    /\ run.selected \subseteq stored
    /\ \E companies \in SUBSET {CompanyOf[f] : f \in run.selected} :
         Proceed({f \in run.selected : CompanyOf[f] \in companies})
    /\ UNCHANGED <<now, intake, stored, diagnostics, aborts>>

Batch == [target |-> Target(run.cutoff), events |-> run.ready]

\* The diagnostic file carries the batch's id; one that is already there is
\* taken for this batch's, otherwise the candidates are scored and written.
Score ==
    /\ pc = "score"
    /\ diagnostics' = diagnostics \cup {Batch}
    /\ pc' = "acknowledge"
    /\ UNCHANGED <<now, intake, stored, run, aborts>>

\* Acknowledged items leave no tombstone: only the cursor keeps them away.
Acknowledge ==
    /\ pc = "acknowledge"
    /\ intake' = [intake EXCEPT !.pending = @ \ run.ready]
    /\ pc' = "scorecard"
    /\ UNCHANGED <<now, stored, diagnostics, run, aborts>>

\* The run ends with the forward scorecard, which reads the lane's files only.
RefreshScorecard ==
    /\ pc = "scorecard"
    /\ pc' = "idle"
    /\ run' = NoRun
    /\ UNCHANGED <<now, intake, stored, diagnostics, aborts>>

\* A request, the extractor, the candidate assembly or the benchmark's series
\* raises, the page limit is hit, or the process dies: memory is gone.
Abort ==
    /\ pc # "idle" /\ aborts < MaxAborts
    /\ aborts' = aborts + 1
    /\ pc' = "idle"
    /\ run' = NoRun
    /\ UNCHANGED <<now, intake, stored, diagnostics>>

Tick ==
    /\ now < MaxTime
    /\ now' = now + 1
    /\ UNCHANGED <<intake, stored, diagnostics, pc, run, aborts>>

RunStep ==
    \/ StartRun \/ FetchPage \/ StoreEvents \/ CommitPoll \/ Select
    \/ SyncMarket \/ Score \/ Acknowledge \/ RefreshScorecard

Next == RunStep \/ FallBack \/ Abort \/ Tick

Spec == Init /\ [][Next]_vars

\* The scheduler reruns the lane and a running process goes on; time passes
\* only between runs often enough for each half day to have a complete run.
FairSpec == Spec /\ WF_vars(RunStep) /\ WF_vars(Tick)
-----------------------------------------------------------------------------
TypeOK ==
    /\ now \in 0 .. MaxTime
    /\ intake \in [cursor : {0} \cup Filing, pending : SUBSET Modelled,
                   stale : SUBSET Modelled]
    /\ stored \subseteq Modelled
    /\ diagnostics \subseteq [target : 0 .. MaxTime, events : SUBSET Modelled]
    /\ pc \in {"idle", "poll", "store", "commit", "select", "market", "score",
               "acknowledge", "scorecard"}
    /\ aborts \in 0 .. MaxAborts

Scored == UNION {b.events : b \in diagnostics}
Accounted == intake.pending \cup intake.stale \cup Scored

\* No step moves the cursor past a modelled filing that is not pending, written
\* off or scored, except one that was too old for the first poll; and what is
\* accounted for stays so, whatever is interrupted.  Excepted are polls that the
\* relay took over in the middle of a listing in the other order.
CursorStep ==
    /\ Accounted \subseteq Accounted'
    /\ \A f \in Modelled :
         (intake.cursor < f /\ f <= intake'.cursor) =>
            \/ f \in Accounted'
            \/ intake.cursor = 0 /\ TooOld(f, run.cutoff)
            \/ NewestFirst /\ run.relay > 1
CursorCovers == [][CursorStep]_vars

\* A filing counts as evidence once: two diagnostic files share a filing only
\* when a run was cut off between writing and acknowledging, and then both are
\* for the session the filing was posted for.
EvidenceOnce ==
    \A b, c \in diagnostics :
       b # c /\ b.events \cap c.events # {} =>
          aborts > 0 /\ \A f \in b.events \cap c.events :
                           b.target = Intended(f) /\ c.target = Intended(f)

\* A pending filing is scored or written off before the clock stops, although
\* market data may stay away and runs may be cut off.
Waiting(f) == f \in intake.pending /\ Intended(f) < Target(MaxTime)
PendingEnds == \A f \in Modelled : Waiting(f) ~> ~Waiting(f)

\* Items in the queue have their event, or every later run would raise.
PendingStored == intake.pending \subseteq stored
=============================================================================
