------------------------- MODULE ShadowLanesInvariant -------------------------
(* The inductive strengthening of the safety properties of the lanes and of *)
(* the forward evidence.                                                    *)
EXTENDS MCShadowLanes

-----------------------------------------------------------------------------
(* LdaLane.                                                                 *)

LdaType ==
    /\ Lda!TypeOK
    /\ run \in [cutoff : 0 .. now, cursor : {0} \cup Filing, page : Nat, relay : Nat,
                snapshot : SUBSET Filing, seen : SUBSET Filing,
                selected : SUBSET Modelled, ready : SUBSET Modelled]

\* What the run has read is what the files still hold; events are stored first.
LdaFiles ==
    /\ Lda!PendingStored
    /\ pc = "commit" => run.seen \cap Modelled \subseteq stored
    /\ pc \in {"poll", "store", "commit"} => run.cursor = intake.cursor
    /\ \A f \in run.seen : Lda!Unseen(f)
    /\ \A f \in intake.pending \cup Lda!Scored : f <= intake.cursor

\* The way of a batch: its filings are of its session, and wait until it is written.
LdaBatches ==
    /\ run.ready \subseteq run.selected
    /\ pc \in {"poll", "store", "commit", "select", "market"} => run.ready = {}
    /\ pc \in {"market", "score", "acknowledge"} =>
          /\ run.selected \subseteq intake.pending
          /\ \A f \in run.selected : Lda!Intended(f) = Lda!Target(run.cutoff)
    /\ pc = "acknowledge" => Lda!Batch \in diagnostics
    /\ \A b \in diagnostics : \A f \in b.events : Lda!Intended(f) = b.target
    /\ aborts = 0 =>
          /\ \A b \in diagnostics :
                b.events \cap intake.pending # {} => pc = "acknowledge" /\ b = Lda!Batch
          /\ \A b, c \in diagnostics : b # c => b.events \cap c.events = {}

\* The order of the pages: the newest filings first, or the oldest.
Descending == NewestFirst /\ run.relay = 0
Ascending  == ~NewestFirst \/ run.relay = 1
Before(f)  == {g \in Lda!Window : g < f}
Passed     == (run.page - 1) * PageSize

\* What the poll has seen covers the pages it has passed.  Newest first, filings posted
\* meanwhile only push the others back; oldest first, they come after the last page.
LdaPoll ==
    /\ pc = "poll" =>
          /\ run.page >= 1
          /\ run.page = 1 => run.seen = {}
          /\ run.relay > 0 => \E taken \in 0 .. now : run.snapshot = Lda!InWindow(taken)
          /\ Descending => \A f \in Filing :
                Lda!Unseen(f) /\ Lda!Rank(f, Lda!InWindow(now)) < Passed => f \in run.seen
          /\ Ascending => \A f \in Filing :
                /\ Lda!Unseen(f) /\ Cardinality(Before(f)) < Passed => f \in run.seen
                /\ f \in run.seen => Cardinality(Before(f)) < Passed
    /\ pc \in {"store", "commit"} /\ (Descending \/ Ascending) =>
          \A f \in Filing, g \in run.seen : Lda!Unseen(f) /\ f < g => f \in run.seen

LdaInv == LdaType /\ LdaFiles /\ LdaBatches /\ LdaPoll
-----------------------------------------------------------------------------
(* UsaspendingLane.                                                         *)

Verified == (UNION {Usa!Identifiers(a) : a \in Award}) \X Company

UsaType ==
    /\ Usa!TypeOK
    /\ intake \in [watermark : {None} \cup 0 .. MaxTime,
                   pending : SUBSET Transaction, handled : SUBSET Transaction]
    /\ DOMAIN stored = Transaction
    /\ \A t \in Usa!Stored : stored[t] \in [company : Company, at : 0 .. now]
    /\ aliases \subseteq Verified
    /\ diagnostics \subseteq [target : Int, events : SUBSET Transaction]
    /\ (migration = None \/ migration \in SUBSET Transaction)
    /\ pc \in {"idle", "invalidate", "dispose", "migrate", "begin", "poll", "store", "commit",
               "select", "market", "score", "acknowledge", "scorecard"}
    /\ run \in [cutoff : 0 .. now, after : Int, page : Nat, index : SUBSET Verified,
                found : SUBSET [id : Transaction, company : Company],
                recovered : SUBSET Transaction, unmapped : SUBSET Award,
                unmatched : SUBSET Transaction, selected : SUBSET Transaction,
                ready : SUBSET Transaction]

\* What is queued, handled or scored has its event, observed at the cutoff of a run
\* that has passed and not before its action; what a poll collects is fresh at the cutoff.
UsaFiles ==
    /\ intake.pending \cup intake.handled \cup run.recovered \subseteq Usa!Stored
    /\ \A b \in diagnostics : b.events \subseteq Usa!Stored
    /\ pc = "commit" => Usa!Found \subseteq Usa!Stored
    /\ pc # "idle" => \A t \in Usa!Stored : stored[t].at <= run.cutoff
    /\ \A t \in Usa!Stored : ActionDay[t] <= Usa!Day(stored[t].at)
    /\ \A t \in Usa!Found \cup run.recovered : Usa!Fresh(t, Usa!Day(run.cutoff))

\* The migration's three files, one after the other; nothing else runs before the last.
UsaMigration ==
    /\ migration = None => pc \in {"idle", "invalidate", "dispose", "migrate"}
    /\ pc \in {"invalidate", "dispose", "migrate"} => migration = None
    /\ pc \in {"dispose", "migrate"} /\ Usa!Outdated # {} => diagnostics \subseteq invalidated
    /\ pc = "migrate" => intake.pending \cap Usa!Outdated = {}
    /\ Usa!OutdatedExcluded

UsaBatch == [target |-> Usa!Target(run.cutoff), events |-> run.ready]

\* The way of a batch: its transactions are of its session, and leave a tombstone.
UsaBatches ==
    /\ run.ready \subseteq run.selected
    /\ pc \notin {"score", "acknowledge", "scorecard"} => run.ready = {}
    /\ pc \in {"market", "score", "acknowledge"} =>
          /\ run.selected \subseteq intake.pending
          /\ \A t \in run.selected : Usa!Intended(t) = Usa!Target(run.cutoff)
    /\ \A b \in diagnostics : \A t \in b.events : Usa!Intended(t) = b.target
    /\ aborts = 0 =>
          /\ \A b \in diagnostics : \A t \in b.events \ Legacy :
                t \in intake.handled \/ (pc = "acknowledge" /\ b = UsaBatch)
          /\ \A b, c \in diagnostics : b # c => b.events \cap c.events \subseteq Legacy

\* The first day of the window of a poll.
UsaFloor == IF intake.watermark = None THEN Usa!Day(run.cutoff) - Lookback
                                       ELSE Usa!Day(intake.watermark) - Overlap

\* As long as the listing has not moved, what a poll has passed is queued or handled or
\* will be, unless it was passed over.
UsaPoll ==
    /\ pc = "poll" => run.page >= 1
    /\ pc \in {"poll", "store", "commit"} => run.after = UsaFloor
    /\ pc \in {"poll", "store", "commit"} /\ ~Usa!Moved =>
          \A t \in Usa!Stored :
             /\ Usa!Changed(t) /\ ~Usa!PassedOver(t)
             /\ pc = "poll" => Usa!Rank(AwardOf[t]) < run.page - 1
             => t \in intake.pending \cup intake.handled \cup run.recovered \cup Usa!Found

UsaInv == UsaType /\ UsaFiles /\ UsaMigration /\ UsaBatches /\ UsaPoll

-----------------------------------------------------------------------------
(* ForwardScorecard.                                                        *)

ForwardType ==
    /\ Forward!TypeOK
    /\ \A s \in Forward!Security : bars[s] # {}
    /\ pc \in [Forward!Refresher -> {"idle", "sync"}]
    /\ run \in [Forward!Refresher -> [asOf : 0 .. completed, batches : SUBSET diagnostics,
                                      todo : SUBSET Forward!Security]]
    /\ \A r \in reported : r.batch \in Batches /\ r.end # None

ForwardInv == ForwardType /\ Forward!LabelsAreFacts

-----------------------------------------------------------------------------
\* The inductive invariant.
Inv ==
    /\ scene = "lda" => LdaInv
    /\ scene = "usa" => UsaInv
    /\ scene = "forward" => ForwardInv

=============================================================================
