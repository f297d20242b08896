----------------------------- MODULE MCProgress -----------------------------
(* What must eventually happen before and after the cycle: the event intake *)
(* and the PAPER ledger, each on a small instance and under the fairness of *)
(* its own module; and the ledger over more sessions than elsewhere, with a *)
(* vendor that publishes out of order ("late").  A behaviour is a behaviour *)
(* of the one "scene" names; variables it does not use hold Unused.         *)
EXTENDS Naturals, TLC

CONSTANTS
    \* of EventIntake
    Cik, Filing, Day, Feeds, WithEvents, Lookback, MaxDay, None,
    \* of PaperLedger
    Company, Horizon, MaxSession,
    \* shared
    Unused

VARIABLES
    scene, crashes, pc,
    \* of EventIntake
    day, listed, raw, normalized, watermark, pending, quarantine, recovered,
    receipts, stale, cutoff, finalized, unpolled, feed, todo, parsed, done,
    selected, image, rpc, active, rimage,
    \* of PaperLedger
    clock, vendor, bars, submitted, waiting, reports, positions, asOf, target, behind

intakeVars ==
    <<day, listed, raw, normalized, watermark, pending, quarantine, recovered,
      receipts, stale, cutoff, finalized, unpolled, feed, todo, parsed, done,
      selected, image, rpc, active, rimage>>
ledgerVars ==
    <<clock, vendor, bars, submitted, waiting, reports, positions, asOf, target, behind>>
vars == <<scene, crashes, pc, intakeVars, ledgerVars>>

Intake == INSTANCE EventIntake WITH MaxCrashes <- 1, Overlap <- FALSE
Ledger == INSTANCE PaperLedger WITH MaxCrashes <- 2, VendorInOrder <- TRUE
Late == INSTANCE PaperLedger WITH MaxCrashes <- 2, VendorInOrder <- FALSE

Init ==
    \/ scene = "intake" /\ Intake!Init
       /\ clock = Unused /\ vendor = Unused /\ bars = Unused /\ submitted = Unused
       /\ waiting = Unused /\ reports = Unused /\ positions = Unused
       /\ asOf = Unused /\ target = Unused /\ behind = Unused
    \/ scene \in {"ledger", "late"} /\ Ledger!Init
       /\ day = Unused /\ listed = Unused /\ raw = Unused /\ normalized = Unused
       /\ watermark = Unused /\ pending = Unused /\ quarantine = Unused
       /\ recovered = Unused /\ receipts = Unused /\ stale = Unused
       /\ cutoff = Unused /\ finalized = Unused /\ unpolled = Unused /\ feed = Unused
       /\ todo = Unused /\ parsed = Unused /\ done = Unused /\ selected = Unused
       /\ image = Unused /\ rpc = Unused /\ active = Unused /\ rimage = Unused

IntakeOnly == scene = "intake" /\ UNCHANGED <<scene, ledgerVars>>
LedgerOnly == scene = "ledger" /\ UNCHANGED <<scene, intakeVars>>
LateOnly == scene = "late" /\ UNCHANGED <<scene, intakeVars>>

Next ==
    \/ IntakeOnly /\ Intake!Next
    \/ LedgerOnly /\ Ledger!Next
    \/ LateOnly /\ Late!Next

\* The fairness of EventIntake!FairSpec and PaperLedger!FairSpec.
FairSpec ==
    /\ Init /\ [][Next]_vars
    /\ SF_vars(IntakeOnly /\ Intake!PipelineStep)
    /\ WF_vars(IntakeOnly /\ Intake!RecoveryStep)
    /\ WF_vars(IntakeOnly /\ Intake!NextDay)
    /\ WF_vars(LedgerOnly /\ Ledger!PipelineStep)
    /\ WF_vars(LedgerOnly /\ Ledger!Tick)
    /\ WF_vars(LedgerOnly /\ Ledger!PublishAny)

\* Two filings, in the feeds of two companies.
MCDay == (1 :> 1) @@ (2 :> 2)
MCFeeds == (1 :> {1}) @@ (2 :> {2})
MCHorizon == ("acme" :> 2)
-----------------------------------------------------------------------------
(* The properties of the modules, each in its scene. *)

\* Whatever bars come late, no fill and no exit was on another session than its
\* own, and no exit waits (PaperLedger).
FillsOnTheirSession == scene = "late" => Late!FillsOnTheirSession /\ Late!ExitsNeverWait

\* Every listed filing gets an outcome, is quarantined or was too old at the
\* first poll (EventIntake!IntakeProceeds).
IntakeProceeds ==
    \A l \in Intake!Listing :
        (scene = "intake" /\ l \in listed /\ l.filing \in WithEvents) ~>
            \/ scene # "intake"
            \/ l.filing \in Intake!Finalized
            \/ l.filing \in Intake!Filings(quarantine)
            \/ Intake!TooOld(l)

\* Every entry order is filled or expires (PaperLedger!EntriesSettle).
EntriesSettle ==
    \A o \in Ledger!Entry :
        (scene = "ledger" /\ o \in Ledger!WaitingEntries) 
            ~> (scene = "ledger" => o \notin Ledger!WaitingEntries)

\* Every position whose horizon ends is closed (PaperLedger!PositionsClose).
PositionsClose ==
    \A o \in Ledger!Entry :
        (scene = "ledger" /\ o \in positions /\ o.on + Horizon[o.company] <= MaxSession + 1)
            ~> (scene = "ledger" => o \notin positions)
=============================================================================
