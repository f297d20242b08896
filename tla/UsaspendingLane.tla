-------------------------- MODULE UsaspendingLane --------------------------
(* The measurement-only lane for federal contracts: one run, under the      *)
(* shared runtime lock, first applies the one-time freshness migration,     *)
(* then polls the awards modified since its watermark (with an overlap),    *)
(* resolves each to one company by the names and the UEIs of its recipient  *)
(* and its parent, stores and queues the transactions that are new, and     *)
(* scores those of the target session into one immutable diagnostic file.   *)
(*                                                                          *)
(* Time counts half days as in LdaLane.  An event's public time is the      *)
(* cutoff of the run that first observed it.                                *)
EXTENDS Integers, FiniteSets, FiniteSetsExt

CONSTANTS
    Award, Transaction,
    AwardOf,        \* the award of a transaction
    Uei,            \* per award, the recipient's and its parent's identifier, or None
    Named,          \* per award, the company that alone bears the party's name, or None
    Resembling,     \* awards whose recipient's name resembles a modelled one
    SharedAliases,  \* identifiers that the authoritative side gives a company
    Company,        \* the modelled companies
    Doubtful,       \* transactions whose row may fit none or several details
    ChangedOn,      \* the days a transaction is modified in the database
    ActionDay,      \* the day the contract action itself happened
    MaxLag,         \* days between action and observation
    Overlap, Lookback,
    Legacy,         \* transactions a run without the freshness rule has observed
    ListingMoves,   \* the agency's listing may change while a run pages it
    MaxTime, MaxAborts,
    None

VARIABLES
    now,
    intake,         \* the intake file: watermark, pending, handled
    stored,         \* the lane's event database
    aliases,        \* verified identifiers, on disk
    diagnostics,    \* diagnostic files of this lane
    invalidated,    \* batches excluded from forward evidence, on disk
    migration,      \* the migration file: the events it took out, or None
    pc, run, aborts

vars == <<now, intake, stored, aliases, diagnostics, invalidated, migration,
          pc, run, aborts>>

Day(t) == t \div 2
Target(t) == (t + 1) \div 2
Stored == {t \in Transaction : stored[t] # None}
Intended(t) == Day(stored[t].at) + 1
StaleAction(t, day) == day - ActionDay[t] > MaxLag

\* Mutant: the age of the action is not looked at.
FreshAlways(t, day) == day >= ActionDay[t]
Fresh(t, day) == day >= ActionDay[t] /\ ~StaleAction(t, day)

NoRun == [cutoff |-> 0, after |-> 0, page |-> 0, index |-> {}, found |-> {},
          recovered |-> {}, unmapped |-> {}, unmatched |-> {},
          selected |-> {}, ready |-> {}]

\* The company of what an earlier version has stored: it knew the recipient.
KnownAs(a) == CHOOSE c \in Company : <<Uei[a].recipient, c>> \in SharedAliases

\* What an earlier version may leave behind: events pending, handled or, after
\* a crash, only stored; a batch of the handled ones and perhaps of pending ones.
Init ==
    /\ now = 1
    /\ stored = [t \in Transaction |->
         IF t \in Legacy THEN [company |-> KnownAs(AwardOf[t]), at |-> 0]
                         ELSE None]
    /\ aliases = {}
    /\ \E pending \in SUBSET Legacy : \E handled \in SUBSET (Legacy \ pending) :
         /\ intake = [watermark |-> IF handled \cup pending = {} THEN None ELSE 0,
                      pending |-> pending, handled |-> handled]
         /\ \E scored \in {handled, Legacy} :
              diagnostics = IF handled = {} THEN {} ELSE {[target |-> 1, events |-> scored]}
    /\ invalidated = {}
    /\ migration = None
    /\ pc = "idle"
    /\ run = NoRun
    /\ aborts = 0

StartRun ==
    /\ pc = "idle"
    /\ run' = [NoRun EXCEPT !.cutoff = now]
    /\ pc' = IF migration = None THEN "invalidate" ELSE "begin"
    /\ UNCHANGED <<now, intake, stored, aliases, diagnostics, invalidated, migration, aborts>>
-----------------------------------------------------------------------------
(* The freshness migration writes three files, the last of which says that it *)
(* is done.                                                                   *)

Outdated == {t \in Stored : StaleAction(t, Day(stored[t].at))}

InvalidateBatches ==
    /\ pc = "invalidate"
    /\ invalidated' = IF Outdated = {} THEN invalidated ELSE invalidated \cup diagnostics
    /\ pc' = "dispose"
    /\ UNCHANGED <<now, intake, stored, aliases, diagnostics, migration, run, aborts>>

\* Mutant: handled items stay queued.
HandleKept(events) ==
    intake' = [intake EXCEPT !.handled = @ \cup (intake.pending \cap events)]

Handle(events) ==
    intake' = [intake EXCEPT !.pending = @ \ events,
                             !.handled = @ \cup (intake.pending \cap events)]

DisposeOutdated ==
    /\ pc = "dispose"
    /\ Handle(Outdated)
    /\ pc' = "migrate"
    /\ UNCHANGED <<now, stored, aliases, diagnostics, invalidated, migration, run, aborts>>

FinishMigration ==
    /\ pc = "migrate"
    /\ migration' = Outdated
    /\ pc' = "begin"
    /\ UNCHANGED <<now, intake, stored, aliases, diagnostics, invalidated, run, aborts>>
-----------------------------------------------------------------------------
(* The poll. *)

\* Identifiers that stored events vouch for: those of recipients, not of parents.
VerifiedIndex ==
    {<<Uei[AwardOf[t]].recipient, stored[t].company>> :
        t \in {x \in Stored : Uei[AwardOf[x]].recipient # None}}

BeginPoll ==
    /\ pc = "begin"
    /\ run' = [run EXCEPT !.page = 1, !.index = VerifiedIndex,
         !.after = IF intake.watermark = None THEN Day(run.cutoff) - Lookback
                                              ELSE Day(intake.watermark) - Overlap]
    /\ pc' = "poll"
    /\ UNCHANGED <<now, intake, stored, aliases, diagnostics, invalidated, migration, aborts>>

\* The modification date the database shows now; 'None' before the first one.
LastChange(t) ==
    LET past == {d \in ChangedOn[t] : d <= Day(now)}
    IN IF past = {} THEN None ELSE Max(past)
Changed(t) == LastChange(t) # None /\ LastChange(t) \in run.after .. Day(run.cutoff)

\* The awards of the window, in the order of their last modification.
AwardChange(a) == Max({LastChange(t) : t \in {x \in Transaction : AwardOf[x] = a /\ Changed(x)}})
Listing == {AwardOf[t] : t \in {x \in Transaction : Changed(x)}}
Rank(a) ==
    Cardinality({b \in Listing : \/ AwardChange(b) < AwardChange(a)
                                 \/ AwardChange(b) = AwardChange(a) /\ b < a})

\* The companies that a party's identifier or its name stands for.
By(a, party) ==
    {v[2] : v \in {x \in aliases \cup SharedAliases \cup run.index :
                      x[1] = Uei[a][party] /\ x[1] # None}}
    \cup ({Named[a][party]} \ {None})

\* The parent is looked at only when the recipient is known or resembles a name.
Candidates(a) ==
    IF By(a, "recipient") = {} /\ a \notin Resembling THEN {}
    ELSE By(a, "recipient") \cup By(a, "parent")

Identifiers(a) == {Uei[a].recipient, Uei[a].parent} \ {None}
Identified(a, company) == Identifiers(a) \X {company}

\* A company that a name confirms keeps both identifiers beyond the run.
Remembered(a, company) ==
    IF company \in {Named[a].recipient, Named[a].parent} THEN Identified(a, company) ELSE {}

\* The changed transactions of an award that pass the freshness rule.
Rows(a) == {t \in Transaction : /\ AwardOf[t] = a /\ Changed(t)
                                /\ Fresh(t, Day(run.cutoff))}
Known(t) == stored[t] # None /\ (migration = None \/ t \notin migration)
RecoveredNever(rows) == {}    \* Mutant: a stored event counts as queued.
Recovered(rows) == {t \in rows : Known(t) /\ t \notin intake.pending}

\* The next award (pages have one each).  The same award again, because the listing
\* moved, adds nothing.
Reading(a) == pc = "poll" /\ Rank(a) = run.page - 1

\* An award of no, of several or of an unmodelled company is at most counted.
SkipAward(a) ==
    /\ Reading(a)
    /\ \A company \in Company : Candidates(a) # {company}
    /\ run' = [run EXCEPT !.page = @ + 1, !.unmapped = @ \cup {a}]
    /\ UNCHANGED <<now, intake, stored, aliases, diagnostics, invalidated, migration, pc, aborts>>

\* Of a company's award the identifiers are remembered, then the rows that fit one
\* detail collected: the handled ones are left, the stored ones recovered.
Matched(a, unmatched) == Rows(a) \ (unmatched \cup intake.handled)
Disagrees(t, company) == Known(t) /\ stored[t].company # company

ReadAward(a, company, unmatched) ==
    /\ Reading(a) /\ Candidates(a) = {company}
    /\ \A t \in Matched(a, unmatched) : ~Disagrees(t, company)
    /\ aliases' = aliases \cup Remembered(a, company)
    /\ run' = [run EXCEPT
         !.page = @ + 1,
         !.index = @ \cup Identified(a, company),
         !.found = @ \cup {[id |-> t, company |-> company] :
                              t \in {x \in Matched(a, unmatched) : ~Known(x)}},
         !.recovered = @ \cup Recovered(Matched(a, unmatched)),
         !.unmatched = @ \cup unmatched]
    /\ UNCHANGED <<now, intake, stored, diagnostics, invalidated, migration, pc, aborts>>

\* A stored event of another company ends the run; the aliases stay.
CompanyChanged(a, company, unmatched) ==
    /\ Reading(a) /\ Candidates(a) = {company}
    /\ \E t \in Matched(a, unmatched) : Disagrees(t, company)
    /\ aliases' = aliases \cup Remembered(a, company)
    /\ pc' = "idle"
    /\ run' = NoRun
    /\ UNCHANGED <<now, intake, stored, diagnostics, invalidated, migration, aborts>>

NextAward ==
    \E a \in Listing :
       \/ SkipAward(a)
       \/ \E company \in Company, unmatched \in SUBSET (Rows(a) \cap Doubtful) :
             ReadAward(a, company, unmatched) \/ CompanyChanged(a, company, unmatched)

EndOfListing ==
    /\ pc = "poll" /\ run.page > Cardinality(Listing)
    /\ pc' = "store"
    /\ UNCHANGED <<now, intake, stored, aliases, diagnostics, invalidated, migration, run, aborts>>

Found == {e.id : e \in run.found}
CompanyFound(t) == (CHOOSE e \in run.found : e.id = t).company

\* Events before the queue; put_many keeps what it has under the same id.
StoreEvents ==
    /\ pc = "store"
    /\ stored' = [t \in Transaction |->
         IF t \in Found /\ stored[t] = None
         THEN [company |-> CompanyFound(t), at |-> run.cutoff] ELSE stored[t]]
    /\ pc' = "commit"
    /\ UNCHANGED <<now, intake, aliases, diagnostics, invalidated, migration, run, aborts>>

CommitPoll ==
    /\ pc = "commit"
    /\ intake' = [intake EXCEPT
         !.watermark = IF @ = None THEN run.cutoff ELSE Max({@, run.cutoff}),
         !.pending = @ \cup ((Found \cup run.recovered) \ intake.handled)]
    /\ pc' = "select"
    /\ UNCHANGED <<now, stored, aliases, diagnostics, invalidated, migration, run, aborts>>
-----------------------------------------------------------------------------
(* The batch. *)

\* Items the target session has passed are handled without evidence; unlike the
\* lobbying lane's they, too, leave a tombstone.
Select ==
    /\ pc = "select"
    /\ LET selected == {t \in intake.pending : Intended(t) = Target(run.cutoff)}
       IN /\ Handle({t \in intake.pending : Intended(t) < Target(run.cutoff)})
          /\ run' = [run EXCEPT !.selected = selected]
          /\ pc' = IF selected = {} THEN "scorecard" ELSE "market"
    /\ UNCHANGED <<now, stored, aliases, diagnostics, invalidated, migration, aborts>>

Proceed(ready) ==
    /\ run' = IF ready = {} THEN NoRun ELSE [run EXCEPT !.ready = ready]
    /\ pc' = IF ready = {} THEN "idle" ELSE "score"

SyncMarket ==
    /\ pc = "market"
    /\ \E companies \in SUBSET {stored[t].company : t \in run.selected} :
         Proceed({t \in run.selected : stored[t].company \in companies})
    /\ UNCHANGED <<now, intake, stored, aliases, diagnostics, invalidated, migration, aborts>>

\* An existing file with the batch's id stands for the batch, also when the
\* migration has invalidated it.
Score ==
    /\ pc = "score"
    /\ diagnostics' = diagnostics \cup {[target |-> Target(run.cutoff), events |-> run.ready]}
    /\ pc' = "acknowledge"
    /\ UNCHANGED <<now, intake, stored, aliases, invalidated, migration, run, aborts>>

Acknowledge ==
    /\ pc = "acknowledge"
    /\ Handle(run.ready)
    /\ pc' = "scorecard"
    /\ UNCHANGED <<now, stored, aliases, diagnostics, invalidated, migration, run, aborts>>

RefreshScorecard ==
    /\ pc = "scorecard"
    /\ pc' = "idle"
    /\ run' = NoRun
    /\ UNCHANGED <<now, intake, stored, aliases, diagnostics, invalidated, migration, aborts>>

\* A request, the extractor, the assembly or the benchmark's series raises, the
\* page limit is hit, or the process dies.
Abort ==
    /\ pc # "idle" /\ aborts < MaxAborts
    /\ aborts' = aborts + 1
    /\ pc' = "idle"
    /\ run' = NoRun
    /\ UNCHANGED <<now, intake, stored, aliases, diagnostics, invalidated, migration>>

Tick ==
    /\ now < MaxTime
    /\ ListingMoves \/ pc # "poll"
    /\ now' = now + 1
    /\ UNCHANGED <<intake, stored, aliases, diagnostics, invalidated, migration, pc, run, aborts>>

RunStep ==
    \/ StartRun \/ InvalidateBatches \/ DisposeOutdated \/ FinishMigration
    \/ BeginPoll \/ NextAward \/ EndOfListing \/ StoreEvents \/ CommitPoll
    \/ Select \/ SyncMarket \/ Score \/ Acknowledge \/ RefreshScorecard

Next == RunStep \/ Abort \/ Tick

Spec == Init /\ [][Next]_vars

FairSpec == Spec /\ WF_vars(RunStep) /\ WF_vars(Tick)
-----------------------------------------------------------------------------
TypeOK ==
    /\ now \in 1 .. MaxTime
    /\ intake.watermark \in {None} \cup 0 .. MaxTime
    /\ intake.pending \subseteq Transaction /\ intake.handled \subseteq Transaction
    /\ intake.pending \cap intake.handled = {}
    /\ aliases \subseteq (UNION {Identifiers(a) : a \in Award}) \X Company
    /\ invalidated \subseteq diagnostics
    /\ migration # None => migration \subseteq Transaction
    /\ aborts \in 0 .. MaxAborts

Counted == diagnostics \ invalidated

\* Once the migration file exists, no transaction that was stale when observed
\* is waiting or counts as evidence: not after a crash between its three
\* files, nor by a later poll, the overlap or the recovery of a stored event.
OutdatedExcluded ==
    migration # None =>
       \A t \in Stored : StaleAction(t, Day(stored[t].at)) =>
          t \notin intake.pending /\ \A b \in Counted : t \notin b.events

\* A poll that commits its watermark leaves every stored transaction whose change was
\* due in its window queued or handled, so an event of a run interrupted between the
\* event database and the intake file is not stranded there.  Excused are those the poll
\* itself passes over: an action too long ago by then, an award without one company, a
\* row without one detail, and a poll that goes on when another day's changes move
\* awards back in the listing and others come forward past its page.
Due(t) ==
    \E d \in ChangedOn[t] :
       /\ d <= Day(run.cutoff)
       /\ d >= IF intake.watermark = None THEN Day(run.cutoff) - Lookback
                                          ELSE Day(intake.watermark) - Overlap
Moved == \E t \in Transaction : \E d \in ChangedOn[t] : Day(run.cutoff) < d /\ d <= Day(now)
PassedOver(t) ==
    StaleAction(t, Day(run.cutoff)) \/ AwardOf[t] \in run.unmapped \/ t \in run.unmatched
OrphanFree ==
    pc = "commit" /\ pc' = "select" /\ ~Moved =>
       \A t \in Stored' :
          Due(t) /\ ~PassedOver(t) => t \in intake'.pending \cup intake'.handled
NoOrphan == [][OrphanFree]_vars

\* A transaction counts twice only when a run, of this version or the earlier
\* one, was cut off between the diagnostic file and the acknowledgement, and then
\* for one session.
EvidenceOnce ==
    \A b, c \in Counted :
       b # c /\ b.events \cap c.events # {} =>
          /\ b.target = c.target
          /\ aborts > 0 \/ b.events \cap c.events \subseteq Legacy

=============================================================================
