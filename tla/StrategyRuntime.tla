--------------------------- MODULE StrategyRuntime ---------------------------
(* The strategy registry file, the artifact manifests and model            *)
(* directories it points to, and the calibration overlays of the runs:     *)
(* the four programs that write them (the champion's bootstrap, the freeze *)
(* of the champion's plugin, the freeze of a cohort of challengers, an     *)
(* operator's lifecycle session) and the loader every run starts with.     *)
(* None of them takes the runtime lock.  A job is one of the first three;  *)
(* its steps are its writes, and between them it may raise (the code       *)
(* cleans up) or die (nothing does).                                       *)
EXTENDS Integers, FiniteSets

CONSTANTS
    Legacy,         \* the bootstrapped champion
    Challenger,     \* variants a freeze can publish
    None,
    Rebootstrap,    \* TRUE: the bootstrap may run after the champion's freeze
    Shared,         \* TRUE: a session may be open while a job runs
    MaxStops,       \* bound on raises and deaths of jobs
    MaxEdits        \* bound on the record changes of sessions

VARIABLES
    registry,   \* strategy_registry.json: the champion and the stages
    manifest,   \* artifacts/<id>.json: which directory it describes
    root,       \* models/<id>: how much of the directory is there
    temp,       \* ids with a .freeze-tmp directory
    overlay,    \* strategy_state/<id>.json: the manifest it belongs to
    job, session, stops, edits,
    failed      \* the last cohort whose freeze raised, and where it did

vars == <<registry, manifest, root, temp, overlay, job, session, failed, stops, edits>>

Strategies == {Legacy} \cup Challenger
Stages == {"DEVELOPMENT", "SHADOW", "PAPER", "LIVE", "RETIRED"}
Idle == [kind |-> "none"]

\* A freeze that raised: whether after the registry's save, and whose manifest it was
\* writing.
NoFailure == [cohort |-> {}, late |-> FALSE, torn |-> {}]

\* engine/registry.py: a snapshot names the champion and every record's stage.
Snapshot == [champion: Strategies \cup {None}, stage: [Strategies -> Stages \cup {"absent"}]]

TypeOK ==
    /\ registry \in Snapshot
    /\ manifest \in [Strategies -> {"none", "torn", "models", "root"}]
    /\ root \in [Strategies -> {"absent", "models", "metadata", "whole"}]
    /\ temp \subseteq Challenger
    /\ overlay \in [Strategies -> {"none", "models", "root"}]
    /\ job.kind \in {"none", "bootstrap", "champion", "cohort"}
    /\ session = None \/ session.view \in Snapshot
    /\ failed \in [cohort : SUBSET Challenger, late : BOOLEAN, torn : SUBSET Challenger]
    /\ stops \in 0 .. MaxStops /\ edits \in 0 .. MaxEdits

Init ==
    /\ registry = [champion |-> None, stage |-> [s \in Strategies |-> "absent"]]
    /\ manifest = [s \in Strategies |-> "none"]
    /\ root = [s \in Strategies |-> "absent"]
    /\ temp = {} /\ failed = NoFailure
    /\ overlay = [s \in Strategies |-> "none"]
    /\ job = Idle /\ session = None /\ stops = 0 /\ edits = 0

-----------------------------------------------------------------------------
(* What the loader accepts.                                                *)

\* verify_strategy_artifact_manifest: the experiment's models never change.
Verified(s) == manifest[s] = "models" \/ (manifest[s] = "root" /\ root[s] = "whole")

Active == {s \in Strategies : registry.stage[s] \notin {"absent", "RETIRED"}}

\* verify_paper_shadow_runtime and load_persisted_shadow_registry, without an
\* injected champion, as every run calls them.
Loads(s) ==
    /\ Verified(s)
    /\ manifest[s] = "root"
    /\ s # registry.champion => registry.stage[s] = "SHADOW"

Loadable ==
    /\ registry.champion # None
    /\ registry.stage[registry.champion] \in {"PAPER", "LIVE"}
    /\ \A s \in Active : Loads(s)

\* restore_registry raises unless each overlay belongs to the manifest.
Restorable == \A s \in Active : overlay[s] \in {"none", manifest[s]}

\* A run: restores the overlays, and saves them under the manifests' digests.
Run ==
    /\ Loadable /\ Restorable
    /\ overlay' = [s \in Strategies |-> IF s \in Active THEN manifest[s] ELSE overlay[s]]
    /\ UNCHANGED <<registry, manifest, root, temp, job, session, failed, stops, edits>>

-----------------------------------------------------------------------------
(* bootstrap_v5_paper_champion: the manifest, in place and not atomically, *)
(* then the record.                                                        *)

MayStart == job = Idle /\ (Shared \/ session = None)

Bootstrap ==
    /\ MayStart
    /\ Rebootstrap \/ root[Legacy] = "absent"
    /\ manifest' = [manifest EXCEPT ![Legacy] = "torn"]
    /\ job' = [kind |-> "bootstrap", step |-> "manifest"]
    /\ UNCHANGED <<registry, root, temp, overlay, session, failed, stops, edits>>

BootstrapManifest ==
    /\ job.kind = "bootstrap" /\ job.step = "manifest"
    /\ manifest' = [manifest EXCEPT ![Legacy] = "models"]
    /\ job' = [job EXCEPT !.step = "record"]
    /\ UNCHANGED <<registry, root, temp, overlay, session, failed, stops, edits>>

\* Refuses to replace another champion or to overwrite a differing record.
BootstrapRecord ==
    /\ job.kind = "bootstrap" /\ job.step = "record"
    /\ registry' =
        IF registry.champion \in {None, Legacy} /\ registry.stage[Legacy] \in {"absent", "PAPER"}
        THEN [champion |-> Legacy, stage |-> [registry.stage EXCEPT ![Legacy] = "PAPER"]]
        ELSE registry
    /\ job' = Idle
    /\ UNCHANGED <<manifest, root, temp, overlay, session, failed, stops, edits>>

-----------------------------------------------------------------------------
(* freeze_v5_runtime_plugin: models, metadata, replay, manifest.           *)

FreezeChampion ==
    /\ MayStart
    /\ registry.champion = Legacy /\ registry.stage[Legacy] \in {"PAPER", "LIVE"}
    /\ Verified(Legacy) /\ root[Legacy] = "absent"
    /\ root' = [root EXCEPT ![Legacy] = "models"]
    /\ job' = [kind |-> "champion", step |-> "metadata"]
    /\ UNCHANGED <<registry, manifest, temp, overlay, session, failed, stops, edits>>

ChampionMetadata ==
    /\ job.kind = "champion" /\ job.step = "metadata"
    /\ root' = [root EXCEPT ![Legacy] = "metadata"]
    /\ job' = [job EXCEPT !.step = "replay"]
    /\ UNCHANGED <<registry, manifest, temp, overlay, session, failed, stops, edits>>

\* The reloaded plugin reproduced the locked year: the result is recorded.
ChampionReplayed ==
    /\ job.kind = "champion" /\ job.step = "replay"
    /\ root' = [root EXCEPT ![Legacy] = "whole"]
    /\ job' = [job EXCEPT !.step = "publish"]
    /\ UNCHANGED <<registry, manifest, temp, overlay, session, failed, stops, edits>>

\* The pending manifest is verified and replaces the champion's.
ChampionPublished ==
    /\ job.kind = "champion" /\ job.step = "publish"
    /\ manifest' = [manifest EXCEPT ![Legacy] = "root"]
    /\ job' = Idle
    /\ UNCHANGED <<registry, root, temp, overlay, session, failed, stops, edits>>

\* The directory is removed only once write_frozen_factory_strategy returned.
ChampionRaised ==
    /\ job.kind = "champion" /\ stops < MaxStops
    /\ root' = IF job.step = "metadata" THEN root ELSE [root EXCEPT ![Legacy] = "absent"]
    /\ job' = Idle /\ stops' = stops + 1
    /\ UNCHANGED <<registry, manifest, temp, overlay, session, failed, edits>>

-----------------------------------------------------------------------------
(* freeze_maturity_safe_finalists: train all, publish all, then register.  *)

\* What the command refuses before it starts.
Preflight(cohort) ==
    \A s \in cohort : /\ registry.stage[s] = "absent" /\ root[s] = "absent"
                      /\ s \notin temp /\ manifest[s] = "none"

FreezeCohort(cohort) ==
    /\ MayStart /\ cohort # {}
    /\ registry.champion # None /\ Preflight(cohort)
    /\ job' = [kind |-> "cohort", step |-> "train", cohort |-> cohort, seen |-> registry,
               roots |-> {}, manifests |-> {}]
    /\ failed' = NoFailure
    /\ UNCHANGED <<registry, manifest, root, temp, overlay, session, stops, edits>>

\* Phase 1: trained, serialized, reloaded and replayed in a directory of its own.
Train(s) ==
    /\ job.kind = "cohort" /\ job.step = "train" /\ s \in job.cohort \ temp
    /\ temp' = temp \cup {s}
    /\ job' = IF job.cohort \subseteq temp' THEN [job EXCEPT !.step = "publish"] ELSE job
    /\ UNCHANGED <<registry, manifest, root, overlay, session, failed, stops, edits>>

\* Phase 2: the directory becomes visible ...
Publish(s) ==
    /\ job.kind = "cohort" /\ job.step = "publish" /\ s \in job.cohort \ job.roots
    /\ job.roots = job.manifests
    /\ temp' = temp \ {s}
    /\ root' = [root EXCEPT ![s] = "whole"]
    /\ job' = [job EXCEPT !.roots = @ \cup {s}]
    /\ UNCHANGED <<registry, manifest, overlay, session, failed, stops, edits>>

\* ... its manifest is opened ...
OpenManifest(s) ==
    /\ job.kind = "cohort" /\ job.step = "publish" /\ s \in job.roots \ job.manifests
    /\ manifest[s] = "none"
    /\ manifest' = [manifest EXCEPT ![s] = "torn"]
    /\ UNCHANGED <<registry, root, temp, overlay, job, session, failed, stops, edits>>

\* ... and written, verified and loaded.
WriteManifest(s) ==
    /\ job.kind = "cohort" /\ job.step = "publish" /\ s \in job.roots \ job.manifests
    /\ manifest[s] = "torn"
    /\ manifest' = [manifest EXCEPT ![s] = "root"]
    /\ job' = [job EXCEPT !.manifests = @ \cup {s},
                          !.step = IF job.cohort \subseteq job.manifests \cup {s}
                                   THEN "register" ELSE "publish"]
    /\ UNCHANGED <<registry, root, temp, overlay, session, failed, stops, edits>>

\* Mutant: the records are saved once the directories are published.
RegisterEarly ==
    /\ job.kind = "cohort" /\ job.step = "publish" /\ temp = {}
    /\ registry' = [job.seen EXCEPT !.stage =
                       [s \in Strategies |-> IF s \in job.cohort THEN "SHADOW" ELSE @[s]]]
    /\ job' = [job EXCEPT !.step = "summary"]
    /\ UNCHANGED <<manifest, root, temp, overlay, session, failed, stops, edits>>

\* The snapshot read at the start, with the cohort's SHADOW records.
Register ==
    /\ job.kind = "cohort" /\ job.step = "register"
    /\ registry' = [job.seen EXCEPT !.stage =
                       [s \in Strategies |-> IF s \in job.cohort THEN "SHADOW" ELSE @[s]]]
    /\ job' = [job EXCEPT !.step = "summary"]
    /\ UNCHANGED <<manifest, root, temp, overlay, session, failed, stops, edits>>

Summary ==
    /\ job.kind = "cohort" /\ job.step = "summary"
    /\ job' = Idle
    /\ UNCHANGED <<registry, manifest, root, temp, overlay, session, failed, stops, edits>>

\* Mutant: only directories whose manifest was written are removed.
CleanedDescribed ==
    [s \in Strategies |-> IF s \in job.manifests THEN "absent" ELSE root[s]]

CleanedRoots == [s \in Strategies |-> IF s \in job.roots THEN "absent" ELSE root[s]]

\* A raise at any step, the summary's write included: the exception handler removes
\* what this invocation listed as created.  A manifest that was only opened is not
\* listed yet, and the records are not taken back.
CohortRaised ==
    /\ job.kind = "cohort" /\ stops < MaxStops
    /\ root' = CleanedRoots
    /\ temp' = temp \ job.cohort
    /\ manifest' = [s \in Strategies |-> IF s \in job.manifests THEN "none" ELSE manifest[s]]
    /\ failed' = [cohort |-> job.cohort, late |-> job.step = "summary",
                  torn |-> {s \in job.cohort : manifest[s] = "torn"}]
    /\ job' = Idle /\ stops' = stops + 1
    /\ UNCHANGED <<registry, overlay, session, edits>>

\* A death of the process leaves everything where it is.
Died ==
    /\ job # Idle /\ stops < MaxStops
    /\ job' = Idle /\ stops' = stops + 1
    /\ UNCHANGED <<registry, manifest, root, temp, overlay, session, failed, edits>>

-----------------------------------------------------------------------------
(* An operator's session: a StrategyLifecycleController over a registry    *)
(* object that holds its own copy of the records and saves all of it.      *)

OpenSession ==
    /\ session = None /\ (Shared \/ job = Idle)
    /\ Loadable /\ edits < MaxEdits
    /\ session' = [view |-> registry, loaded |-> Active]
    /\ UNCHANGED <<registry, manifest, root, temp, overlay, job, failed, stops, edits>>

CloseSession ==
    /\ session # None
    /\ session' = None
    /\ UNCHANGED <<registry, manifest, root, temp, overlay, job, failed, stops, edits>>

Save(view) ==
    /\ session' = [session EXCEPT !.view = view]
    /\ registry' = view
    /\ edits' = edits + 1
    /\ UNCHANGED <<manifest, root, temp, overlay, job, failed, stops>>

\* _ALLOWED_TRANSITIONS.
Allowed == [DEVELOPMENT |-> {"SHADOW", "RETIRED"}, SHADOW |-> {"PAPER", "RETIRED"},
            PAPER |-> {"LIVE", "RETIRED"}, LIVE |-> {"PAPER", "RETIRED"}, RETIRED |-> {},
            absent |-> {}]

\* Mutant: the champion may be retired.
UpdatableAlways(view, s, stage) == TRUE

\* update_record refuses to retire the champion.
Updatable(view, s, stage) == stage = "RETIRED" => s # view.champion

\* transition; a profitability gate that refuses leaves everything as it is.
Transition(s, stage) ==
    /\ session # None /\ edits < MaxEdits
    /\ stage \in Allowed[session.view.stage[s]]
    /\ Updatable(session.view, s, stage)
    /\ Save([session.view EXCEPT !.stage[s] = stage])

\* promote_champion with the stage its caller requires, then set_champion.
Promote(s, required) ==
    /\ session # None /\ edits < MaxEdits
    /\ s # session.view.champion
    /\ session.view.stage[s] = required
    /\ s \in session.loaded
    /\ Save([session.view EXCEPT !.champion = s])

-----------------------------------------------------------------------------
BootstrapStep == Bootstrap \/ BootstrapManifest \/ BootstrapRecord
ChampionStep == FreezeChampion \/ ChampionMetadata \/ ChampionReplayed \/ ChampionPublished
                    \/ ChampionRaised
CohortStep ==
    \/ \E cohort \in SUBSET Challenger : FreezeCohort(cohort)
    \/ \E s \in Challenger : Train(s) \/ Publish(s) \/ OpenManifest(s) \/ WriteManifest(s)
    \/ Register \/ Summary \/ CohortRaised
SessionStep ==
    \/ OpenSession \/ CloseSession
    \/ \E s \in Strategies, stage \in Stages : Transition(s, stage)
    \/ \E s \in Strategies, required \in {"PAPER", "LIVE"} : Promote(s, required)

Next == Run \/ BootstrapStep \/ ChampionStep \/ CohortStep \/ Died \/ SessionStep

Spec == Init /\ [][Next]_vars

-----------------------------------------------------------------------------
\* The persisted champion is a strategy that trades, whatever was promoted,
\* demoted or retired in whatever order, and whoever saved a stale snapshot.
ChampionTradable ==
    registry.champion # None => registry.stage[registry.champion] \in {"PAPER", "LIVE"}

\* A raise after the registry's save: the handler deletes what the registry names.
LateRaise == CohortRaised /\ job.step = "summary"

\* A freeze saves a snapshot older than what a session saved meanwhile.
StaleSave == Register /\ registry # job.seen

\* A runtime on which the runs go through, loader and overlays, is not taken
\* away by a job: not by any of its writes, nor by a raise or a death, whether or
\* not a session is open beside it.  Two steps of a cohort's freeze are excepted:
\* a raise of its last write, and undoing what a session saved meanwhile.
JobsKeepRuntime ==
    [][job' # job /\ ~LateRaise /\ ~StaleSave /\ Loadable /\ Restorable =>
          (Loadable /\ Restorable)']_vars

\* "Clean every path created by this invocation so a failed freeze can be
\* retried safely": the preflight of the failed cohort succeeds again, unless a
\* manifest was being written or the records were saved already.  Even then
\* nothing is left of it but that manifest and those records.
FailedFreezeRetries ==
    job = Idle =>
        /\ ~failed.late /\ failed.torn = {} => Preflight(failed.cohort)
        /\ \A s \in failed.cohort :
             /\ root[s] = "absent" /\ s \notin temp
             /\ manifest[s] = IF s \in failed.torn THEN "torn" ELSE "none"
             /\ ~failed.late => registry.stage[s] = "absent"

=============================================================================
