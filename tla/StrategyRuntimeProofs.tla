------------------------ MODULE StrategyRuntimeProofs ------------------------
(* Theorems about the runtime registry, for every set of challengers and    *)
(* every bound.  That the champion stays tradable and what a failed freeze  *)
(* leaves are proved also for a session that is open beside a job and saves *)
(* a snapshot older than what the other one wrote.                          *)
EXTENDS Research, TLAPS

\* What a process holds while it works.
Jobs ==
    {Runtime!Idle}
    \cup [kind : {"bootstrap"}, step : {"manifest", "record"}]
    \cup [kind : {"champion"}, step : {"metadata", "replay", "publish"}]
    \cup [kind : {"cohort"}, step : {"train", "publish", "register", "summary"},
          cohort : SUBSET Challenger, seen : Runtime!Snapshot, roots : SUBSET Challenger,
          manifests : SUBSET Challenger]

OpenSessions == [view : Runtime!Snapshot, loaded : SUBSET Runtime!Strategies]

\* The part of the type invariant that the registry's writers rely on.
Held ==
    /\ registry \in Runtime!Snapshot /\ job \in Jobs
    /\ session = None \/ session \in OpenSessions

\* A snapshot whose champion trades.
Sound(snapshot) ==
    snapshot.champion # None => snapshot.stage[snapshot.champion] \in {"PAPER", "LIVE"}

\* Every snapshot that may be saved is sound: the registry's, the open session's, and
\* the one a freeze read at its start, in which its cohort is not registered yet.
SnapshotsSound ==
    /\ Sound(registry)
    /\ session # None => Sound(session.view)
    /\ job.kind = "cohort" =>
         /\ Sound(job.seen)
         /\ \A s \in job.cohort : job.seen.stage[s] = "absent"

RegistryInv == Held /\ SnapshotsSound
-----------------------------------------------------------------------------
LEMMA RuntimeInit == Runtime!Init => RegistryInv
BY DEF Runtime!Init, RegistryInv, Held, SnapshotsSound, Sound, Runtime!Snapshot, Jobs,
       Runtime!Idle, Runtime!Stages

\* A step that touches no snapshot, and whose job is no cohort's or the one before.
LEMMA RegistryUntouched ==
    ASSUME RegistryInv, UNCHANGED <<registry, session>>, job' \in Jobs,
           \/ job'.kind # "cohort"
           \/ /\ job.kind = "cohort"
              /\ job'.seen = job.seen /\ job'.cohort = job.cohort
    PROVE  RegistryInv'
BY DEF RegistryInv, Held, SnapshotsSound, Sound

LEMMA RunStep == RegistryInv /\ Runtime!Run => RegistryInv'
BY RegistryUntouched DEF Runtime!Run, RegistryInv, Held

LEMMA BootstrapSteps == RegistryInv /\ Runtime!BootstrapStep => RegistryInv'
  <1> SUFFICES ASSUME RegistryInv, Runtime!BootstrapStep PROVE RegistryInv'
    OBVIOUS
  <1>1. CASE Runtime!Bootstrap
    <2>1. job' \in Jobs /\ job'.kind # "cohort"
      BY <1>1 DEF Runtime!Bootstrap, Jobs
    <2> QED
      BY <1>1, <2>1, RegistryUntouched DEF Runtime!Bootstrap
  <1>2. CASE Runtime!BootstrapManifest
    <2>1. job \in [kind : {"bootstrap"}, step : {"manifest", "record"}]
      BY <1>2 DEF Runtime!BootstrapManifest, RegistryInv, Held, Jobs, Runtime!Idle
    <2>2. job' \in Jobs /\ job'.kind # "cohort"
      BY <1>2, <2>1 DEF Runtime!BootstrapManifest, Jobs
    <2> QED
      BY <1>2, <2>2, RegistryUntouched DEF Runtime!BootstrapManifest
  <1>3. CASE Runtime!BootstrapRecord
    <2>1. job' \in Jobs /\ job'.kind # "cohort"
      BY <1>3 DEF Runtime!BootstrapRecord, Jobs, Runtime!Idle
    <2>2. registry' \in Runtime!Snapshot /\ Sound(registry')
      BY <1>3 DEF Runtime!BootstrapRecord, RegistryInv, Held, SnapshotsSound, Sound,
                  Runtime!Snapshot, Runtime!Strategies, Runtime!Stages
    <2> QED
      BY <1>3, <2>1, <2>2 DEF Runtime!BootstrapRecord, RegistryInv, Held, SnapshotsSound
  <1> QED
    BY <1>1, <1>2, <1>3 DEF Runtime!BootstrapStep

LEMMA ChampionSteps == RegistryInv /\ Runtime!ChampionStep => RegistryInv'
  <1> SUFFICES ASSUME RegistryInv, Runtime!ChampionStep PROVE RegistryInv'
    OBVIOUS
  <1>1. UNCHANGED <<registry, session>>
    BY DEF Runtime!ChampionStep, Runtime!FreezeChampion, Runtime!ChampionMetadata,
           Runtime!ChampionReplayed,
           Runtime!ChampionPublished, Runtime!ChampionRaised
  <1>2. job' \in Jobs /\ job'.kind # "cohort"
    <2>1. CASE Runtime!FreezeChampion
      BY <2>1 DEF Runtime!FreezeChampion, Jobs
    <2>2. CASE Runtime!ChampionPublished \/ Runtime!ChampionRaised
      BY <2>2 DEF Runtime!ChampionPublished, Runtime!ChampionRaised, Jobs, Runtime!Idle
    <2>3. CASE Runtime!ChampionMetadata \/ Runtime!ChampionReplayed
      <3>1. job \in [kind : {"champion"}, step : {"metadata", "replay", "publish"}]
        BY <2>3 DEF Runtime!ChampionMetadata, Runtime!ChampionReplayed, RegistryInv, Held, Jobs,
                    Runtime!Idle
      <3> QED
        BY <2>3, <3>1 DEF Runtime!ChampionMetadata, Runtime!ChampionReplayed, Jobs
    <2> QED
      BY <2>1, <2>2, <2>3 DEF Runtime!ChampionStep
  <1> QED
    BY <1>1, <1>2, RegistryUntouched

LEMMA CohortSteps == RegistryInv /\ Runtime!CohortStep => RegistryInv'
  <1> SUFFICES ASSUME RegistryInv, Runtime!CohortStep PROVE RegistryInv'
    OBVIOUS
  <1> DEFINE CohortJob == [kind : {"cohort"}, step : {"train", "publish", "register", "summary"},
                           cohort : SUBSET Challenger, seen : Runtime!Snapshot,
                           roots : SUBSET Challenger, manifests : SUBSET Challenger]
  <1>1. job.kind = "cohort" => job \in CohortJob
    BY DEF RegistryInv, Held, Jobs, Runtime!Idle
  <1>2. CASE \E cohort \in SUBSET Challenger : Runtime!FreezeCohort(cohort)
    <2>1. PICK cohort \in SUBSET Challenger : Runtime!FreezeCohort(cohort)
      BY <1>2
    <2>2. job' \in Jobs
      BY <2>1 DEF Runtime!FreezeCohort, Jobs, RegistryInv, Held
    <2>3. /\ job'.seen = registry /\ job'.cohort = cohort
          /\ \A s \in cohort : registry.stage[s] = "absent"
      BY <2>1 DEF Runtime!FreezeCohort, Runtime!Preflight
    <2> QED
      BY <2>1, <2>2, <2>3 DEF Runtime!FreezeCohort, RegistryInv, Held, SnapshotsSound, Sound
  <1>3. CASE Runtime!Register
    <2>1. job \in CohortJob
      BY <1>1, <1>3 DEF Runtime!Register
    <2>2. job' \in Jobs /\ job'.seen = job.seen /\ job'.cohort = job.cohort
      BY <1>3, <2>1 DEF Runtime!Register, Jobs
    <2>3. registry' \in Runtime!Snapshot /\ registry'.champion = job.seen.champion
      BY <1>3, <2>1 DEF Runtime!Register, Runtime!Snapshot, Runtime!Strategies, Runtime!Stages
    <2>4. \A s \in Runtime!Strategies \ job.cohort : registry'.stage[s] = job.seen.stage[s]
      BY <1>3, <2>1 DEF Runtime!Register, Runtime!Snapshot, Runtime!Strategies
    <2>5. Sound(registry')
      BY <1>3, <2>1, <2>3, <2>4 DEF Runtime!Register, RegistryInv, SnapshotsSound, Sound,
                                    Runtime!Snapshot
    <2> QED
      BY <1>3, <2>2, <2>3, <2>5 DEF Runtime!Register, RegistryInv, Held, SnapshotsSound, Sound
  <1>4. CASE Runtime!Summary \/ Runtime!CohortRaised
    <2>1. job' \in Jobs /\ job'.kind # "cohort"
      BY <1>4 DEF Runtime!Summary, Runtime!CohortRaised, Jobs, Runtime!Idle
    <2> QED
      BY <1>4, <2>1, RegistryUntouched DEF Runtime!Summary, Runtime!CohortRaised
  <1>5. ASSUME NEW s \in Challenger,
               \/ Runtime!Train(s) \/ Runtime!Publish(s)
               \/ Runtime!OpenManifest(s) \/ Runtime!WriteManifest(s)
        PROVE  RegistryInv'
    <2>1. job \in CohortJob
      BY <1>1, <1>5 DEF Runtime!Train, Runtime!Publish, Runtime!OpenManifest, Runtime!WriteManifest
    <2>2. /\ job' \in CohortJob
          /\ job'.seen = job.seen /\ job'.cohort = job.cohort
      <3>1. CASE Runtime!Train(s)
        BY <2>1, <3>1 DEF Runtime!Train
      <3>2. CASE Runtime!Publish(s)
        BY <2>1, <3>2 DEF Runtime!Publish
      <3>3. CASE Runtime!OpenManifest(s)
        BY <2>1, <3>3 DEF Runtime!OpenManifest
      <3>4. CASE Runtime!WriteManifest(s)
        BY <2>1, <3>4 DEF Runtime!WriteManifest
      <3> QED
        BY <1>5, <3>1, <3>2, <3>3, <3>4
    <2>3. UNCHANGED <<registry, session>>
      BY <1>5 DEF Runtime!Train, Runtime!Publish, Runtime!OpenManifest, Runtime!WriteManifest
    <2> QED
      BY <2>1, <2>2, <2>3, RegistryUntouched DEF Jobs
  <1> QED
    BY <1>2, <1>3, <1>4, <1>5 DEF Runtime!CohortStep

LEMMA DeathStep == RegistryInv /\ Runtime!Died => RegistryInv'
  <1> SUFFICES ASSUME RegistryInv, Runtime!Died PROVE RegistryInv'
    OBVIOUS
  <1>1. job' \in Jobs /\ job'.kind # "cohort"
    BY DEF Runtime!Died, Jobs, Runtime!Idle
  <1> QED
    BY <1>1, RegistryUntouched DEF Runtime!Died

LEMMA SessionSteps == RegistryInv /\ Runtime!SessionStep => RegistryInv'
  <1> SUFFICES ASSUME RegistryInv, Runtime!SessionStep PROVE RegistryInv'
    OBVIOUS
  <1>1. CASE Runtime!OpenSession
    BY <1>1 DEF Runtime!OpenSession, Runtime!Active, RegistryInv, Held, OpenSessions,
                SnapshotsSound, Sound
  <1>2. CASE Runtime!CloseSession
    BY <1>2 DEF Runtime!CloseSession, RegistryInv, Held, SnapshotsSound, Sound
  <1>3. ASSUME NEW view \in Runtime!Snapshot, Sound(view), session # None, Runtime!Save(view)
        PROVE  RegistryInv'
    <2>1. session' \in OpenSessions /\ session'.view = view
      BY <1>3 DEF Runtime!Save, RegistryInv, Held, OpenSessions
    <2> QED
      BY <1>3, <2>1 DEF Runtime!Save, RegistryInv, Held, SnapshotsSound, Sound
  <1>4. ASSUME NEW s \in Runtime!Strategies, NEW stage \in Runtime!Stages,
               Runtime!Transition(s, stage)
        PROVE  RegistryInv'
    <2> DEFINE view == [session.view EXCEPT !.stage[s] = stage]
    <2>1. session # None /\ session.view \in Runtime!Snapshot /\ Sound(session.view)
      BY <1>4 DEF Runtime!Transition, RegistryInv, Held, OpenSessions, SnapshotsSound
    <2>2. view \in Runtime!Snapshot /\ view.champion = session.view.champion
      BY <2>1 DEF Runtime!Snapshot
    <2>3. Sound(view)
      BY <1>4, <2>1, <2>2 DEF Sound, Runtime!Transition, Runtime!Allowed, Runtime!Updatable,
                              Runtime!Snapshot, Runtime!Stages
    <2> QED
      BY <1>3, <1>4, <2>1, <2>2, <2>3 DEF Runtime!Transition
  <1>5. ASSUME NEW s \in Runtime!Strategies, NEW required \in {"PAPER", "LIVE"},
               Runtime!Promote(s, required)
        PROVE  RegistryInv'
    <2> DEFINE view == [session.view EXCEPT !.champion = s]
    <2>1. session # None /\ session.view \in Runtime!Snapshot
      BY <1>5 DEF Runtime!Promote, RegistryInv, Held, OpenSessions
    <2>2. view \in Runtime!Snapshot /\ Sound(view)
      BY <1>5, <2>1 DEF Runtime!Promote, Runtime!Snapshot, Sound
    <2> QED
      BY <1>3, <1>5, <2>1, <2>2 DEF Runtime!Promote
  <1> QED
    BY <1>1, <1>2, <1>4, <1>5 DEF Runtime!SessionStep

LEMMA RuntimeNext == RegistryInv /\ [Runtime!Next]_Runtime!vars => RegistryInv'
  <1> SUFFICES ASSUME RegistryInv, [Runtime!Next]_Runtime!vars PROVE RegistryInv'
    OBVIOUS
  <1>1. CASE UNCHANGED Runtime!vars
    BY <1>1 DEF Runtime!vars, RegistryInv, Held, SnapshotsSound, Sound
  <1> QED
    BY <1>1, RunStep, BootstrapSteps, ChampionSteps, CohortSteps, DeathStep, SessionSteps
    DEF Runtime!Next

-----------------------------------------------------------------------------
\* ChampionTradable of the runtime, in every order of jobs, raises, deaths and sessions:
\* the persisted champion is in a stage that trades.  From such a stage only the other
\* one and retirement follow, the registry refuses to retire its champion, and a freeze
\* replaces only records that the snapshot it saves did not have.
THEOREM ChampionTradableCorrect == Runtime!Spec => []Runtime!ChampionTradable
  <1>1. RegistryInv => Runtime!ChampionTradable
    BY DEF RegistryInv, SnapshotsSound, Sound, Runtime!ChampionTradable
  <1> QED
    BY <1>1, RuntimeInit, RuntimeNext, PTL DEF Runtime!Spec
-----------------------------------------------------------------------------
(* The files of a cohort's freeze, also with a session open beside it.     *)

FilesTyped ==
    /\ manifest \in [Runtime!Strategies -> {"none", "torn", "models", "root"}]
    /\ root \in [Runtime!Strategies -> {"absent", "models", "metadata", "whole"}]
    /\ overlay \in [Runtime!Strategies -> {"none", "models", "root"}]
    /\ temp \subseteq Challenger
    /\ failed \in [cohort : SUBSET Challenger, late : BOOLEAN, torn : SUBSET Challenger]

\* The strategies a snapshot has a record of.
Known(snapshot) == {s \in Runtime!Strategies : snapshot.stage[s] # "absent"}

\* A session knows no strategy that the registry does not.
SessionKnowsLess == session # None => Known(session.view) \subseteq Known(registry)

\* What a freeze has published, and that nobody else registers meanwhile.
CohortWritten ==
    job.kind = "cohort" =>
        /\ failed = Runtime!NoFailure
        /\ job.manifests \subseteq job.roots /\ job.roots \subseteq job.cohort
        /\ \A s \in job.cohort :
             /\ root[s] = IF s \in job.roots THEN "whole" ELSE "absent"
             /\ IF s \in job.manifests THEN manifest[s] = "root"
                ELSE manifest[s] \in IF s \in job.roots THEN {"none", "torn"} ELSE {"none"}
        /\ job.step # "summary" => Known(registry) \subseteq Known(job.seen)
        /\ job.step \in {"register", "summary"} => job.cohort \subseteq job.manifests

\* What a freeze that raised has left.
LeftOver ==
    \A s \in failed.cohort :
        /\ root[s] = "absent" /\ s \notin temp
        /\ manifest[s] = IF s \in failed.torn THEN "torn" ELSE "none"
        /\ ~failed.late => s \notin Known(registry)

FreezeInv == RegistryInv /\ FilesTyped /\ SessionKnowsLess /\ CohortWritten /\ LeftOver

LEMMA FreezeInit == Runtime!Init => FreezeInv
BY RuntimeInit DEF Runtime!Init, FreezeInv, FilesTyped, SessionKnowsLess, CohortWritten,
       LeftOver, Runtime!NoFailure, Runtime!Idle, Runtime!Strategies

\* A step of another job, or of none: it writes no file of a challenger.
LEMMA FreezeElsewhere ==
    ASSUME FreezeInv, RegistryInv', FilesTyped', UNCHANGED <<temp, session, failed>>,
           Legacy \notin Challenger, job'.kind # "cohort",
           Known(registry) \subseteq Known(registry'),
           \A s \in Challenger : /\ root'[s] = root[s] /\ manifest'[s] = manifest[s]
                                 /\ registry'.stage[s] = registry.stage[s]
    PROVE  FreezeInv'
  <1>1. SessionKnowsLess'
    BY DEF FreezeInv, SessionKnowsLess, Known
  <1>2. CohortWritten'
    BY DEF CohortWritten
  <1>3. LeftOver'
    BY DEF FreezeInv, FilesTyped, LeftOver, Known
  <1> QED
    BY <1>1, <1>2, <1>3 DEF FreezeInv

LEMMA FreezeRun == FreezeInv /\ Runtime!Run => FreezeInv'
  <1> SUFFICES ASSUME FreezeInv, Runtime!Run PROVE FreezeInv'
    OBVIOUS
  <1>1. overlay' \in [Runtime!Strategies -> {"none", "models", "root"}]
    BY DEF FreezeInv, FilesTyped, Runtime!Run, Runtime!Loadable, Runtime!Loads
  <1>2. RegistryInv'
    BY RunStep DEF FreezeInv
  <1> QED
    BY <1>1, <1>2 DEF Runtime!Run, FreezeInv, FilesTyped, SessionKnowsLess, CohortWritten,
                      LeftOver, Known

LEMMA FreezeBootstrap ==
    FreezeInv /\ Legacy \notin Challenger /\ Runtime!BootstrapStep => FreezeInv'
  <1> SUFFICES ASSUME FreezeInv, Legacy \notin Challenger, Runtime!BootstrapStep
               PROVE  FreezeInv'
    OBVIOUS
  <1>1. RegistryInv' /\ UNCHANGED <<root, temp, session, failed, overlay>>
    BY BootstrapSteps DEF FreezeInv, Runtime!BootstrapStep, Runtime!Bootstrap,
       Runtime!BootstrapManifest, Runtime!BootstrapRecord
  <1>2. job'.kind # "cohort"
    <2>1. CASE Runtime!BootstrapManifest
      <3>1. job \in [kind : {"bootstrap"}, step : {"manifest", "record"}]
        BY <2>1 DEF Runtime!BootstrapManifest, FreezeInv, RegistryInv, Held, Jobs, Runtime!Idle
      <3> QED
        BY <2>1, <3>1 DEF Runtime!BootstrapManifest
    <2> QED
      BY <2>1 DEF Runtime!BootstrapStep, Runtime!Bootstrap, Runtime!BootstrapRecord, Runtime!Idle
  <1>3. /\ FilesTyped'
        /\ \A s \in Challenger : manifest'[s] = manifest[s]
    BY <1>1 DEF Runtime!BootstrapStep, Runtime!Bootstrap, Runtime!BootstrapManifest,
                Runtime!BootstrapRecord, FreezeInv, FilesTyped, Runtime!Strategies
  <1>4. /\ Known(registry) \subseteq Known(registry')
        /\ \A s \in Challenger : registry'.stage[s] = registry.stage[s]
    BY DEF Runtime!BootstrapStep, Runtime!Bootstrap, Runtime!BootstrapManifest,
           Runtime!BootstrapRecord, FreezeInv, RegistryInv, Held, Runtime!Snapshot, Known,
           Runtime!Strategies
  <1> QED
    BY <1>1, <1>2, <1>3, <1>4, FreezeElsewhere

LEMMA FreezeChampionStep ==
    FreezeInv /\ Legacy \notin Challenger /\ Runtime!ChampionStep => FreezeInv'
  <1> SUFFICES ASSUME FreezeInv, Legacy \notin Challenger, Runtime!ChampionStep
               PROVE  FreezeInv'
    OBVIOUS
  <1> USE DEF Runtime!ChampionStep, Runtime!FreezeChampion, Runtime!ChampionMetadata,
              Runtime!ChampionReplayed, Runtime!ChampionPublished, Runtime!ChampionRaised
  <1>1. RegistryInv' /\ UNCHANGED <<registry, temp, session, failed, overlay>>
    BY ChampionSteps DEF FreezeInv
  <1>2. job'.kind # "cohort"
    <2>1. CASE Runtime!ChampionMetadata \/ Runtime!ChampionReplayed
      <3>1. job \in [kind : {"champion"}, step : {"metadata", "replay", "publish"}]
        BY <2>1 DEF FreezeInv, RegistryInv, Held, Jobs, Runtime!Idle
      <3> QED
        BY <2>1, <3>1
    <2> QED
      BY <2>1 DEF Runtime!Idle
  <1>3. FilesTyped'
    BY <1>1 DEF FreezeInv, FilesTyped, Runtime!Strategies
  <1>4. \A s \in Challenger : root'[s] = root[s] /\ manifest'[s] = manifest[s]
    BY DEF FreezeInv, FilesTyped, Runtime!Strategies
  <1>5. Known(registry) \subseteq Known(registry')
    BY <1>1
  <1> QED
    BY <1>1, <1>2, <1>3, <1>4, <1>5, FreezeElsewhere

LEMMA FreezeDeath == FreezeInv /\ Legacy \notin Challenger /\ Runtime!Died => FreezeInv'
  <1> SUFFICES ASSUME FreezeInv, Legacy \notin Challenger, Runtime!Died PROVE FreezeInv'
    OBVIOUS
  <1>1. RegistryInv' /\ job'.kind # "cohort"
    BY DeathStep DEF FreezeInv, Runtime!Died, Runtime!Idle
  <1> QED
    BY <1>1, FreezeElsewhere DEF Runtime!Died, FreezeInv, FilesTyped

\* A session saves no strategy that the registry had lost.
LEMMA FreezeSession == FreezeInv /\ Runtime!SessionStep => FreezeInv'
  <1> SUFFICES ASSUME FreezeInv, Runtime!SessionStep PROVE FreezeInv'
    OBVIOUS
  <1>1. RegistryInv'
    BY SessionSteps DEF FreezeInv
  <1>2. CASE Runtime!OpenSession \/ Runtime!CloseSession
    <2>1. SessionKnowsLess'
      BY <1>2 DEF Runtime!OpenSession, Runtime!CloseSession, SessionKnowsLess
    <2> QED
      BY <1>1, <1>2, <2>1 DEF Runtime!OpenSession, Runtime!CloseSession, FreezeInv, FilesTyped,
                              CohortWritten, LeftOver, Known
  <1>3. ASSUME NEW view, session # None, Runtime!Save(view),
               Known(view) = Known(session.view)
        PROVE  FreezeInv'
    <2>1. session'.view = view /\ registry' = view
      BY <1>3 DEF Runtime!Save, OpenSessions, FreezeInv, RegistryInv, Held
    <2>2. Known(registry') \subseteq Known(registry)
      BY <1>3, <2>1 DEF FreezeInv, SessionKnowsLess
    <2>3. SessionKnowsLess'
      BY <2>1 DEF SessionKnowsLess
    <2>4. Known(registry)' = Known(registry')
      BY DEF Known
    <2>5. CohortWritten'
      BY <1>3, <2>2, <2>4 DEF Runtime!Save, FreezeInv, CohortWritten, Known
    <2>6. LeftOver'
      BY <1>3, <2>2, <2>4 DEF Runtime!Save, FreezeInv, LeftOver
    <2> QED
      BY <1>1, <1>3, <2>3, <2>5, <2>6 DEF Runtime!Save, FreezeInv, FilesTyped
  <1>4. ASSUME NEW s \in Runtime!Strategies, NEW stage \in Runtime!Stages,
               Runtime!Transition(s, stage)
        PROVE  FreezeInv'
    <2> DEFINE view == [session.view EXCEPT !.stage[s] = stage]
    <2>1. session # None /\ session.view \in Runtime!Snapshot
      BY <1>4 DEF Runtime!Transition, FreezeInv, RegistryInv, Held, OpenSessions
    <2>2. stage # "absent" /\ session.view.stage[s] # "absent"
      BY <1>4, <2>1 DEF Runtime!Transition, Runtime!Allowed, Runtime!Stages, Runtime!Snapshot
    <2>3. Known(view) = Known(session.view)
      BY <2>1, <2>2 DEF Runtime!Snapshot, Known
    <2>4. Runtime!Save(view)
      BY <1>4 DEF Runtime!Transition
    <2> HIDE DEF view
    <2> QED
      BY <1>3, <2>1, <2>3, <2>4
  <1>5. ASSUME NEW s \in Runtime!Strategies, NEW required \in {"PAPER", "LIVE"},
               Runtime!Promote(s, required)
        PROVE  FreezeInv'
    <2> DEFINE view == [session.view EXCEPT !.champion = s]
    <2>1. session # None /\ session.view \in Runtime!Snapshot
      BY <1>5 DEF Runtime!Promote, FreezeInv, RegistryInv, Held, OpenSessions
    <2>2. Known(view) = Known(session.view)
      BY <2>1 DEF Runtime!Snapshot, Known
    <2>3. Runtime!Save(view)
      BY <1>5 DEF Runtime!Promote
    <2> HIDE DEF view
    <2> QED
      BY <1>3, <2>1, <2>2, <2>3
  <1> QED
    BY <1>2, <1>4, <1>5 DEF Runtime!SessionStep

\* A freeze's own step, which is not its end: what it has to keep.
LEMMA FreezeGoesOn ==
    ASSUME FreezeInv, RegistryInv', FilesTyped', CohortWritten', UNCHANGED <<registry, session>>,
           failed' = Runtime!NoFailure
    PROVE  FreezeInv'
BY DEF FreezeInv, SessionKnowsLess, LeftOver, Known, Runtime!NoFailure

LEMMA FreezeCohortStep == FreezeInv /\ Runtime!CohortStep => FreezeInv'
  <1> SUFFICES ASSUME FreezeInv, Runtime!CohortStep PROVE FreezeInv'
    OBVIOUS
  <1> DEFINE CohortJob == [kind : {"cohort"}, step : {"train", "publish", "register", "summary"},
                           cohort : SUBSET Challenger, seen : Runtime!Snapshot,
                           roots : SUBSET Challenger, manifests : SUBSET Challenger]
  <1>1. job.kind = "cohort" => job \in CohortJob /\ failed = Runtime!NoFailure
    BY DEF FreezeInv, RegistryInv, Held, CohortWritten, Jobs, Runtime!Idle
  <1>2. RegistryInv'
    BY CohortSteps DEF FreezeInv
  <1>3. CASE \E cohort \in SUBSET Challenger : Runtime!FreezeCohort(cohort)
    <2>1. PICK cohort \in SUBSET Challenger : Runtime!FreezeCohort(cohort)
      BY <1>3
    <2>2. CohortWritten'
      BY <2>1 DEF Runtime!FreezeCohort, Runtime!Preflight, CohortWritten, Known
    <2>3. FilesTyped'
      BY <2>1 DEF Runtime!FreezeCohort, Runtime!NoFailure, FreezeInv, FilesTyped
    <2> QED
      BY <1>2, <2>1, <2>2, <2>3, FreezeGoesOn DEF Runtime!FreezeCohort
  <1>4. ASSUME NEW s \in Challenger, Runtime!Train(s)
        PROVE  FreezeInv'
    <2>1. job \in CohortJob /\ failed' = Runtime!NoFailure
      BY <1>1, <1>4 DEF Runtime!Train
    <2>2. job'.kind = "cohort" /\ job'.step \in {"train", "publish"}
      BY <1>4, <2>1 DEF Runtime!Train
    <2>3. \A f \in {"seen", "cohort", "roots", "manifests"} : job'[f] = job[f]
      BY <1>4, <2>1 DEF Runtime!Train
    <2>4. CohortWritten'
      BY <1>4, <2>1, <2>2, <2>3 DEF Runtime!Train, FreezeInv, CohortWritten, Known
    <2>5. FilesTyped'
      BY <1>4 DEF Runtime!Train, FreezeInv, FilesTyped
    <2> QED
      BY <1>2, <1>4, <2>1, <2>4, <2>5, FreezeGoesOn DEF Runtime!Train
  <1>5. ASSUME NEW s \in Challenger, Runtime!Publish(s)
        PROVE  FreezeInv'
    <2>1. job \in CohortJob /\ failed' = Runtime!NoFailure
      BY <1>1, <1>5 DEF Runtime!Publish
    <2>2. /\ job'.kind = "cohort" /\ job'.step = "publish"
          /\ job'.seen = job.seen /\ job'.cohort = job.cohort
          /\ job'.roots = job.roots \cup {s} /\ job'.manifests = job.manifests
      BY <1>5, <2>1 DEF Runtime!Publish
    <2>3. FilesTyped'
      BY <1>5 DEF Runtime!Publish, FreezeInv, FilesTyped, Runtime!Strategies
    <2>4. \A x \in Runtime!Strategies : root'[x] = IF x = s THEN "whole" ELSE root[x]
      BY <1>5 DEF Runtime!Publish, FreezeInv, FilesTyped
    <2>5. CohortWritten'
      BY <1>5, <2>1, <2>2, <2>4 DEF Runtime!Publish, FreezeInv, CohortWritten,
                                    Runtime!Strategies, Known
    <2> QED
      BY <1>2, <1>5, <2>1, <2>3, <2>5, FreezeGoesOn DEF Runtime!Publish
  <1>6. ASSUME NEW s \in Challenger, Runtime!OpenManifest(s)
        PROVE  FreezeInv'
    <2>1. job \in CohortJob /\ failed' = Runtime!NoFailure
      BY <1>1, <1>6 DEF Runtime!OpenManifest
    <2>2. FilesTyped'
      BY <1>6 DEF Runtime!OpenManifest, FreezeInv, FilesTyped, Runtime!Strategies
    <2>3. CohortWritten'
      BY <1>6, <2>1 DEF Runtime!OpenManifest, FreezeInv, FilesTyped, CohortWritten,
                        Runtime!Strategies, Known
    <2> QED
      BY <1>2, <1>6, <2>1, <2>2, <2>3, FreezeGoesOn DEF Runtime!OpenManifest
  <1>7. ASSUME NEW s \in Challenger, Runtime!WriteManifest(s)
        PROVE  FreezeInv'
    <2>1. job \in CohortJob /\ failed' = Runtime!NoFailure
      BY <1>1, <1>7 DEF Runtime!WriteManifest
    <2>2. FilesTyped'
      BY <1>7 DEF Runtime!WriteManifest, FreezeInv, FilesTyped, Runtime!Strategies
    <2>3. /\ job'.kind = "cohort" /\ job'.seen = job.seen /\ job'.cohort = job.cohort
          /\ job'.roots = job.roots /\ job'.manifests = job.manifests \cup {s}
          /\ job'.step \in {"publish", "register"}
          /\ job'.step = "register" => job.cohort \subseteq job.manifests \cup {s}
      BY <1>7, <2>1 DEF Runtime!WriteManifest
    <2>4. \A x \in Runtime!Strategies : manifest'[x] = IF x = s THEN "root" ELSE manifest[x]
      BY <1>7 DEF Runtime!WriteManifest, FreezeInv, FilesTyped
    <2>5. CohortWritten'
      BY <1>7, <2>1, <2>3, <2>4 DEF Runtime!WriteManifest, FreezeInv, CohortWritten,
                                    Runtime!Strategies, Known
    <2> QED
      BY <1>2, <1>7, <2>1, <2>2, <2>5, FreezeGoesOn DEF Runtime!WriteManifest
  <1>8. CASE Runtime!Register
    <2>1. job \in CohortJob /\ failed' = Runtime!NoFailure
      BY <1>1, <1>8 DEF Runtime!Register
    <2>2. /\ job'.kind = "cohort" /\ job'.step = "summary"
          /\ \A f \in {"seen", "cohort", "roots", "manifests"} : job'[f] = job[f]
      BY <1>8, <2>1 DEF Runtime!Register
    <2>3. \A s \in Runtime!Strategies :
            registry'.stage[s] = IF s \in job.cohort THEN "SHADOW" ELSE job.seen.stage[s]
      BY <1>8, <2>1 DEF Runtime!Register, Runtime!Snapshot
    <2>4. Known(registry) \subseteq Known(job.seen) /\ Known(job.seen) \subseteq Known(registry')
      BY <1>8, <2>3 DEF Runtime!Register, FreezeInv, CohortWritten, Known
    <2>5. SessionKnowsLess'
      BY <1>8, <2>4 DEF Runtime!Register, FreezeInv, SessionKnowsLess, Known
    <2>6. CohortWritten'
      BY <1>8, <2>1, <2>2 DEF Runtime!Register, FreezeInv, CohortWritten
    <2> QED
      BY <1>2, <1>8, <2>1, <2>5, <2>6 DEF Runtime!Register, FreezeInv, FilesTyped, LeftOver,
                                          Runtime!NoFailure
  <1>9. CASE Runtime!Summary
    <2>1. job'.kind # "cohort" /\ failed' = Runtime!NoFailure
      BY <1>1, <1>9 DEF Runtime!Summary, Runtime!Idle
    <2> QED
      BY <1>2, <1>9, <2>1, FreezeGoesOn DEF Runtime!Summary, FreezeInv, FilesTyped, CohortWritten
  <1>10. CASE Runtime!CohortRaised
    <2>1. job \in CohortJob /\ job'.kind # "cohort"
      BY <1>1, <1>10 DEF Runtime!CohortRaised, Runtime!Idle
    <2>2. FilesTyped'
      BY <1>10, <2>1 DEF Runtime!CohortRaised, Runtime!CleanedRoots, FreezeInv, FilesTyped
    <2>3. job.step # "summary" => job.cohort \cap Known(registry) = {}
      BY <1>10 DEF Runtime!CohortRaised, FreezeInv, RegistryInv, SnapshotsSound, CohortWritten,
                   Known
    <2>4. LeftOver'
      <3> SUFFICES ASSUME NEW s \in job.cohort
                   PROVE  /\ root'[s] = "absent" /\ s \notin temp'
                          /\ manifest'[s] = IF manifest[s] = "torn" THEN "torn" ELSE "none"
                          /\ job.step # "summary" => s \notin Known(registry')
        BY <1>10 DEF Runtime!CohortRaised, LeftOver, Known
      <3>1. s \in Runtime!Strategies
        BY <2>1 DEF Runtime!Strategies
      <3> QED
        BY <1>10, <2>1, <2>3, <3>1 DEF Runtime!CohortRaised, Runtime!CleanedRoots, FreezeInv,
                                       CohortWritten
    <2> QED
      BY <1>2, <1>10, <2>1, <2>2, <2>4 DEF Runtime!CohortRaised, FreezeInv, SessionKnowsLess,
                                           CohortWritten, Known
  <1> QED
    BY <1>3, <1>4, <1>5, <1>6, <1>7, <1>8, <1>9, <1>10 DEF Runtime!CohortStep

LEMMA FreezeNext ==
    FreezeInv /\ Legacy \notin Challenger /\ [Runtime!Next]_Runtime!vars => FreezeInv'
  <1> SUFFICES ASSUME FreezeInv, Legacy \notin Challenger, [Runtime!Next]_Runtime!vars
               PROVE  FreezeInv'
    OBVIOUS
  <1>1. CASE UNCHANGED Runtime!vars
    <2>1. RegistryInv'
      BY RuntimeNext DEF FreezeInv
    <2> QED
      BY <1>1, <2>1 DEF Runtime!vars, FreezeInv, FilesTyped, SessionKnowsLess, CohortWritten,
                        LeftOver, Known
  <1> QED
    BY <1>1, FreezeRun, FreezeBootstrap, FreezeChampionStep, FreezeDeath, FreezeSession,
       FreezeCohortStep
    DEF Runtime!Next

-----------------------------------------------------------------------------
\* FailedFreezeRetries, in every order of jobs, raises, deaths and sessions: "Clean every
\* path created by this invocation so a failed freeze can be retried safely".  At any
\* later time the preflight of the same cohort succeeds, unless the raise came from the
\* write of a manifest, which is left torn, or from that of the summary, after which the
\* registry names strategies without files.
THEOREM FailedFreezeRetriesCorrect ==
    ASSUME Legacy \notin Challenger
    PROVE  Runtime!Spec => []Runtime!FailedFreezeRetries
  <1>1. FreezeInv /\ [Runtime!Next]_Runtime!vars => FreezeInv'
    BY FreezeNext
  <1>2. FreezeInv => Runtime!FailedFreezeRetries
    <2> SUFFICES ASSUME FreezeInv PROVE Runtime!FailedFreezeRetries
      OBVIOUS
    <2>1. \A s \in failed.cohort : s \notin Known(registry) => registry.stage[s] = "absent"
      BY DEF FreezeInv, FilesTyped, Known, Runtime!Strategies
    <2> QED
      BY <2>1 DEF FreezeInv, LeftOver, Runtime!FailedFreezeRetries, Runtime!Preflight
  <1> QED
    BY <1>1, <1>2, FreezeInit, PTL DEF Runtime!Spec
-----------------------------------------------------------------------------
(* Jobs one after the other, and no session beside them.                   *)

\* A session keeps nothing but what the registry has.
Exclusive == session # None => job = Runtime!Idle /\ session.view = registry

\* Only a run leaves an overlay, and of registered strategies.
OverlaysRegistered ==
    \A s \in Runtime!Strategies : registry.stage[s] = "absent" => overlay[s] = "none"

\* While the champion's files are written, no run gets through.
ChampionWritten ==
    /\ job.kind = "bootstrap" =>
         manifest[Legacy] = IF job.step = "manifest" THEN "torn" ELSE "models"
    /\ job.kind = "champion" =>
         /\ registry.champion = Legacy /\ registry.stage[Legacy] \in {"PAPER", "LIVE"}
         /\ manifest[Legacy] = "models"

\* Nobody saves the registry while a freeze works.
SeenIsCurrent == job.kind = "cohort" /\ job.step # "summary" => job.seen = registry

Files == Exclusive /\ OverlaysRegistered /\ ChampionWritten /\ SeenIsCurrent

FilesInv == FreezeInv /\ Files

\* The program as its operators are told to use it; a variant is not the champion.
Apart == ~Shared /\ ~Rebootstrap /\ Legacy \notin Challenger

LEMMA FilesInit == Runtime!Init => Files
BY DEF Runtime!Init, Files, Exclusive, OverlaysRegistered, ChampionWritten, SeenIsCurrent,
       Runtime!Idle

LEMMA RunFiles == FilesInv /\ Runtime!Run => Files'
  <1> SUFFICES ASSUME FilesInv, Runtime!Run PROVE Files'
    OBVIOUS
  <1>1. OverlaysRegistered'
    BY DEF FilesInv, Files, OverlaysRegistered, Runtime!Run, Runtime!Active
  <1> QED
    BY <1>1 DEF FilesInv, Files, Exclusive, ChampionWritten, SeenIsCurrent, Runtime!Run

LEMMA BootstrapFiles == FilesInv /\ Apart /\ Runtime!BootstrapStep => Files'
  <1> SUFFICES ASSUME FilesInv, Apart, Runtime!BootstrapStep PROVE Files'
    OBVIOUS
  <1> USE DEF FilesInv, FreezeInv, RegistryInv, Held, Files, FilesTyped, Exclusive,
              OverlaysRegistered, ChampionWritten, SeenIsCurrent, Apart, Runtime!Strategies
  <1>1. CASE Runtime!Bootstrap
    BY <1>1 DEF Runtime!Bootstrap, Runtime!MayStart
  <1>2. CASE Runtime!BootstrapManifest
    <2>1. job \in [kind : {"bootstrap"}, step : {"manifest", "record"}]
      BY <1>2 DEF Runtime!BootstrapManifest, Jobs, Runtime!Idle
    <2>2. job'.kind = "bootstrap" /\ job'.step = "record" /\ session = None
      BY <1>2, <2>1 DEF Runtime!BootstrapManifest, Runtime!Idle
    <2> QED
      BY <1>2, <2>2 DEF Runtime!BootstrapManifest
  <1>3. CASE Runtime!BootstrapRecord
    <2>1. session = None /\ job'.kind = "none"
      BY <1>3 DEF Runtime!BootstrapRecord, Runtime!Idle
    <2>2. \A s \in Runtime!Strategies : registry'.stage[s] = "absent" => registry.stage[s] = "absent"
      BY <1>3 DEF Runtime!BootstrapRecord, Runtime!Snapshot
    <2> QED
      BY <1>3, <2>1, <2>2 DEF Runtime!BootstrapRecord
  <1> QED
    BY <1>1, <1>2, <1>3 DEF Runtime!BootstrapStep

LEMMA ChampionFiles == FilesInv /\ Apart /\ Runtime!ChampionStep => Files'
  <1> SUFFICES ASSUME FilesInv, Apart, Runtime!ChampionStep PROVE Files'
    OBVIOUS
  <1> USE DEF FilesInv, FreezeInv, RegistryInv, Held, Files, FilesTyped, Exclusive,
              OverlaysRegistered, ChampionWritten, SeenIsCurrent, Apart, Runtime!Strategies
  <1>1. CASE Runtime!FreezeChampion
    BY <1>1 DEF Runtime!FreezeChampion, Runtime!MayStart, Runtime!Verified
  <1>2. CASE Runtime!ChampionMetadata \/ Runtime!ChampionReplayed
    <2>1. job \in [kind : {"champion"}, step : {"metadata", "replay", "publish"}]
      BY <1>2 DEF Runtime!ChampionMetadata, Runtime!ChampionReplayed, Jobs, Runtime!Idle
    <2>2. job'.kind = "champion" /\ session = None
      BY <1>2, <2>1 DEF Runtime!ChampionMetadata, Runtime!ChampionReplayed, Runtime!Idle
    <2> QED
      BY <1>2, <2>1, <2>2 DEF Runtime!ChampionMetadata, Runtime!ChampionReplayed
  <1>3. CASE Runtime!ChampionPublished \/ Runtime!ChampionRaised
    <2>1. session = None /\ job'.kind = "none"
      BY <1>3 DEF Runtime!ChampionPublished, Runtime!ChampionRaised, Runtime!Idle
    <2> QED
      BY <1>3, <2>1 DEF Runtime!ChampionPublished, Runtime!ChampionRaised
  <1> QED
    BY <1>1, <1>2, <1>3 DEF Runtime!ChampionStep

LEMMA DeathFiles == FilesInv /\ Runtime!Died => Files'
  <1> SUFFICES ASSUME FilesInv, Runtime!Died PROVE Files'
    OBVIOUS
  <1>1. session = None /\ job'.kind = "none"
    BY DEF FilesInv, Files, Exclusive, Runtime!Died, Runtime!Idle
  <1> QED
    BY <1>1 DEF FilesInv, Files, Exclusive, OverlaysRegistered, ChampionWritten, SeenIsCurrent,
                Runtime!Died

LEMMA SessionFiles == FilesInv /\ Apart /\ Runtime!SessionStep => Files'
  <1> SUFFICES ASSUME FilesInv, Apart, Runtime!SessionStep PROVE Files'
    OBVIOUS
  <1>1. CASE Runtime!OpenSession \/ Runtime!CloseSession
    BY <1>1 DEF Runtime!OpenSession, Runtime!CloseSession, FilesInv, Files, Exclusive,
                OverlaysRegistered, ChampionWritten, SeenIsCurrent, Apart
  <1>2. ASSUME NEW view, session # None, Runtime!Save(view),
               \A s \in Runtime!Strategies : view.stage[s] = "absent" <=> registry.stage[s] = "absent"
        PROVE  Files'
    <2>1. job = Runtime!Idle /\ job.kind = "none"
      BY <1>2 DEF Runtime!Idle, FilesInv, Files, Exclusive
    <2>2. session'.view = view /\ registry' = view
      BY <1>2 DEF Runtime!Save, OpenSessions, FilesInv, FreezeInv, RegistryInv, Held
    <2> QED
      BY <1>2, <2>1, <2>2 DEF Runtime!Save, FilesInv, Files, Exclusive, OverlaysRegistered,
                              ChampionWritten, SeenIsCurrent
  <1>3. ASSUME NEW s \in Runtime!Strategies, NEW stage \in Runtime!Stages,
               Runtime!Transition(s, stage)
        PROVE  Files'
    <2> DEFINE view == [session.view EXCEPT !.stage[s] = stage]
    <2>1. session # None /\ session.view = registry /\ registry \in Runtime!Snapshot
      BY <1>3 DEF Runtime!Transition, FilesInv, FreezeInv, RegistryInv, Held, Files, Exclusive
    <2>2. stage # "absent" /\ registry.stage[s] # "absent"
      BY <1>3, <2>1 DEF Runtime!Transition, Runtime!Allowed, Runtime!Stages, Runtime!Snapshot
    <2>3. \A x \in Runtime!Strategies : view.stage[x] = "absent" <=> registry.stage[x] = "absent"
      BY <2>1, <2>2 DEF Runtime!Snapshot
    <2>4. Runtime!Save(view)
      BY <1>3 DEF Runtime!Transition
    <2> HIDE DEF view
    <2> QED
      BY <1>2, <2>1, <2>3, <2>4
  <1>4. ASSUME NEW s \in Runtime!Strategies, NEW required \in {"PAPER", "LIVE"},
               Runtime!Promote(s, required)
        PROVE  Files'
    <2> DEFINE view == [session.view EXCEPT !.champion = s]
    <2>1. session # None /\ session.view = registry /\ registry \in Runtime!Snapshot
      BY <1>4 DEF Runtime!Promote, FilesInv, FreezeInv, RegistryInv, Held, Files, Exclusive
    <2>2. view.stage = registry.stage
      BY <2>1 DEF Runtime!Snapshot
    <2>3. \A x \in Runtime!Strategies : view.stage[x] = "absent" <=> registry.stage[x] = "absent"
      BY <2>2
    <2>4. Runtime!Save(view)
      BY <1>4 DEF Runtime!Promote
    <2> HIDE DEF view
    <2> QED
      BY <1>2, <2>1, <2>3, <2>4
  <1> QED
    BY <1>1, <1>3, <1>4 DEF Runtime!SessionStep

LEMMA CohortFiles == FilesInv /\ Apart /\ Runtime!CohortStep => Files'
  <1> SUFFICES ASSUME FilesInv, Apart, Runtime!CohortStep PROVE Files'
    OBVIOUS
  <1>1. job.kind # "none" => session = None
    BY DEF FilesInv, Files, Exclusive, Runtime!Idle
  <1>2. CASE \E cohort \in SUBSET Challenger : Runtime!FreezeCohort(cohort)
    BY <1>2 DEF Runtime!FreezeCohort, Runtime!MayStart, Apart, FilesInv, Files, Exclusive,
                OverlaysRegistered, ChampionWritten, SeenIsCurrent
  <1>3. CASE Runtime!Register
    <2>1. /\ job \in [kind : {"cohort"}, step : {"train", "publish", "register", "summary"},
                      cohort : SUBSET Challenger, seen : Runtime!Snapshot,
                      roots : SUBSET Challenger, manifests : SUBSET Challenger]
          /\ job.seen = registry
      BY <1>3 DEF Runtime!Register, FilesInv, Files, SeenIsCurrent, FreezeInv, RegistryInv, Held,
                  Jobs, Runtime!Idle
    <2>2. job'.kind = "cohort" /\ job'.step = "summary" /\ session' = None
      BY <1>1, <1>3, <2>1 DEF Runtime!Register
    <2>3. \A s \in Runtime!Strategies : registry'.stage[s] = "absent" => registry.stage[s] = "absent"
      BY <1>3, <2>1 DEF Runtime!Register, Runtime!Snapshot
    <2> QED
      BY <1>3, <2>2, <2>3 DEF Runtime!Register, FilesInv, Files, Exclusive, OverlaysRegistered,
                              ChampionWritten, SeenIsCurrent
  <1>4. CASE Runtime!Summary \/ Runtime!CohortRaised
    <2>1. job'.kind = "none" /\ session' = None
      BY <1>1, <1>4 DEF Runtime!Summary, Runtime!CohortRaised, Runtime!Idle
    <2> QED
      BY <1>4, <2>1 DEF Runtime!Summary, Runtime!CohortRaised, FilesInv, Files, Exclusive,
                        OverlaysRegistered, ChampionWritten, SeenIsCurrent
  <1>5. ASSUME NEW s \in Challenger,
               \/ Runtime!Train(s) \/ Runtime!Publish(s)
               \/ Runtime!OpenManifest(s) \/ Runtime!WriteManifest(s)
        PROVE  Files'
    <2> USE DEF Runtime!Train, Runtime!Publish, Runtime!OpenManifest, Runtime!WriteManifest
    <2>1. /\ job \in [kind : {"cohort"}, step : {"train", "publish", "register", "summary"},
                      cohort : SUBSET Challenger, seen : Runtime!Snapshot,
                      roots : SUBSET Challenger, manifests : SUBSET Challenger]
          /\ job.step # "summary"
      BY <1>5 DEF FilesInv, FreezeInv, RegistryInv, Held, Jobs, Runtime!Idle
    <2>2. job'.kind = "cohort" /\ job'.seen = job.seen
      <3>1. CASE Runtime!Train(s)
        BY <2>1, <3>1
      <3>2. CASE Runtime!Publish(s)
        BY <2>1, <3>2
      <3>3. CASE Runtime!OpenManifest(s)
        BY <2>1, <3>3
      <3>4. CASE Runtime!WriteManifest(s)
        BY <2>1, <3>4
      <3> QED
        BY <1>5, <3>1, <3>2, <3>3, <3>4
    <2>3. UNCHANGED <<registry, overlay>> /\ session' = None
      BY <1>1, <1>5, <2>1
    <2> QED
      BY <2>1, <2>2, <2>3 DEF FilesInv, Files, Exclusive, OverlaysRegistered, ChampionWritten,
                              SeenIsCurrent
  <1> QED
    BY <1>2, <1>3, <1>4, <1>5 DEF Runtime!CohortStep

LEMMA FilesNext == FilesInv /\ Apart /\ [Runtime!Next]_Runtime!vars => FilesInv'
  <1> SUFFICES ASSUME FilesInv, Apart, [Runtime!Next]_Runtime!vars PROVE FilesInv'
    OBVIOUS
  <1>1. FreezeInv'
    BY FreezeNext DEF FilesInv, Apart
  <1>2. CASE UNCHANGED Runtime!vars
    BY <1>1, <1>2 DEF Runtime!vars, FilesInv, Files, Exclusive, OverlaysRegistered,
                      ChampionWritten, SeenIsCurrent
  <1> QED
    BY <1>1, <1>2, RunFiles, BootstrapFiles, ChampionFiles, CohortFiles, DeathFiles, SessionFiles
    DEF Runtime!Next, FilesInv

\* A runtime on which the runs go through.
Runnable == Runtime!Loadable /\ Runtime!Restorable

\* It depends on the records and the files of registered strategies only.
LEMMA RunningDepends ==
    ASSUME Runnable, UNCHANGED <<registry, overlay>>,
           \A s \in Runtime!Active : manifest'[s] = manifest[s] /\ root'[s] = root[s]
    PROVE  Runnable'
BY DEF Runnable, Runtime!Loadable, Runtime!Restorable, Runtime!Active, Runtime!Loads,
       Runtime!Verified

LEMMA ChampionJobsKeep ==
    ASSUME FilesInv, Apart, Runnable, Runtime!BootstrapStep \/ Runtime!ChampionStep
    PROVE  Runnable'
  <1>1. Legacy \in Runtime!Strategies
    BY DEF Runtime!Strategies
  <1>2. Legacy \in Runtime!Active => manifest[Legacy] = "root" /\ root[Legacy] = "whole"
    BY DEF Runnable, Runtime!Loadable, Runtime!Loads, Runtime!Verified
  <1>3. CASE Runtime!Bootstrap \/ Runtime!BootstrapManifest
    <2>1. Legacy \notin Runtime!Active
      BY <1>2, <1>3 DEF Runtime!Bootstrap, Runtime!BootstrapManifest, Apart, FilesInv, Files,
                        ChampionWritten
    <2>2. \A s \in Runtime!Active : manifest'[s] = manifest[s]
      BY <1>3, <2>1 DEF Runtime!Bootstrap, Runtime!BootstrapManifest, FilesInv, FreezeInv,
                        FilesTyped, Runtime!Active
    <2> QED
      BY <1>3, <2>2, RunningDepends DEF Runtime!Bootstrap, Runtime!BootstrapManifest
  <1>4. CASE Runtime!BootstrapRecord
    <2>1. Legacy \notin Runtime!Active
      BY <1>2, <1>4 DEF Runtime!BootstrapRecord, FilesInv, Files, ChampionWritten
    <2>2. registry.champion # Legacy
      BY <1>1, <2>1 DEF Runnable, Runtime!Loadable, Runtime!Active
    <2>3. registry' = registry
      BY <1>4, <2>2 DEF Runtime!BootstrapRecord, Runnable, Runtime!Loadable
    <2> QED
      BY <1>4, <2>3, RunningDepends DEF Runtime!BootstrapRecord
  <1>5. CASE Runtime!ChampionStep
    <2>1. registry.champion = Legacy /\ registry.stage[Legacy] \in {"PAPER", "LIVE"}
      BY <1>5 DEF Runtime!ChampionStep, Runtime!FreezeChampion, Runtime!ChampionMetadata,
                  Runtime!ChampionReplayed,
                  Runtime!ChampionPublished, Runtime!ChampionRaised, FilesInv, Files,
                  ChampionWritten
    <2>2. Legacy \in Runtime!Active
      BY <1>1, <2>1 DEF Runtime!Active
    <2>3. manifest[Legacy] # "root" \/ root[Legacy] = "absent"
      BY <1>5 DEF Runtime!ChampionStep, Runtime!FreezeChampion, Runtime!ChampionMetadata,
                  Runtime!ChampionReplayed,
                  Runtime!ChampionPublished, Runtime!ChampionRaised, FilesInv, Files,
                  ChampionWritten
    <2> QED
      BY <1>2, <2>2, <2>3
  <1> QED
    BY <1>3, <1>4, <1>5 DEF Runtime!BootstrapStep

LEMMA CohortKeeps ==
    ASSUME FilesInv, Apart, Runnable, Runtime!CohortStep, ~Runtime!LateRaise
    PROVE  Runnable'
  <1> DEFINE CohortJob == [kind : {"cohort"}, step : {"train", "publish", "register", "summary"},
                           cohort : SUBSET Challenger, seen : Runtime!Snapshot,
                           roots : SUBSET Challenger, manifests : SUBSET Challenger]
  <1>1. job.kind = "cohort" => job \in CohortJob
    BY DEF FilesInv, FreezeInv, RegistryInv, Held, Jobs, Runtime!Idle
  <1>2. job.kind = "cohort" /\ job.step # "summary" => job.cohort \cap Runtime!Active = {}
    BY DEF FilesInv, Files, FreezeInv, RegistryInv, SnapshotsSound, SeenIsCurrent,
           Runtime!Active
  <1>3. CASE (\E cohort \in SUBSET Challenger : Runtime!FreezeCohort(cohort)) \/ Runtime!Summary
    BY <1>3, RunningDepends DEF Runtime!FreezeCohort, Runtime!Summary
  <1>4. ASSUME NEW s \in Challenger,
               \/ Runtime!Train(s) \/ Runtime!Publish(s)
               \/ Runtime!OpenManifest(s) \/ Runtime!WriteManifest(s)
        PROVE  Runnable'
    <2>1. job \in CohortJob /\ s \in job.cohort /\ job.step # "summary"
      BY <1>1, <1>4 DEF Runtime!Train, Runtime!Publish, Runtime!OpenManifest,
                        Runtime!WriteManifest, FilesInv, Files, FreezeInv, SeenIsCurrent, CohortWritten
    <2>2. s \notin Runtime!Active
      BY <1>2, <2>1
    <2>3. \A x \in Runtime!Active : manifest'[x] = manifest[x] /\ root'[x] = root[x]
      BY <1>4, <2>2 DEF Runtime!Train, Runtime!Publish, Runtime!OpenManifest,
                        Runtime!WriteManifest, FilesInv, FreezeInv, FilesTyped, Runtime!Active
    <2> QED
      BY <1>4, <2>3, RunningDepends DEF Runtime!Train, Runtime!Publish, Runtime!OpenManifest,
                                        Runtime!WriteManifest
  <1>5. CASE Runtime!Register
    <2>1. job \in CohortJob /\ job.seen = registry /\ job.cohort \subseteq job.manifests
      BY <1>1, <1>5 DEF Runtime!Register, FilesInv, Files, FreezeInv, SeenIsCurrent, CohortWritten
    <2>2. job.manifests \subseteq job.roots /\ job.cohort \subseteq Runtime!Strategies
      BY <1>5, <2>1 DEF Runtime!Register, FilesInv, Files, FreezeInv, SeenIsCurrent, CohortWritten, Runtime!Strategies
    <2>3. \A s \in job.cohort : /\ registry.stage[s] = "absent" /\ root[s] = "whole"
                                /\ manifest[s] = "root"
      BY <1>5, <2>1, <2>2 DEF Runtime!Register, FilesInv, FreezeInv, RegistryInv,
                              SnapshotsSound, CohortWritten
    <2>4. registry'.champion = registry.champion
      BY <1>5, <2>1 DEF Runtime!Register, Runtime!Snapshot
    <2>5. \A s \in Runtime!Strategies :
            registry'.stage[s] = IF s \in job.cohort THEN "SHADOW" ELSE registry.stage[s]
      BY <1>5, <2>1 DEF Runtime!Register, Runtime!Snapshot
    <2>6. registry.champion \in Runtime!Strategies \ job.cohort
      BY <2>3 DEF Runnable, Runtime!Loadable, FilesInv, FreezeInv, RegistryInv, Held, Runtime!Snapshot
    <2>7. ASSUME NEW s \in Runtime!Active'
          PROVE  Runtime!Loads(s)' /\ overlay'[s] \in {"none", manifest'[s]}
      <3>1. CASE s \in job.cohort
        <4>1. overlay[s] = "none"
          BY <2>2, <2>3, <3>1 DEF FilesInv, Files, OverlaysRegistered
        <4> QED
          BY <1>5, <2>2, <2>3, <2>5, <3>1, <4>1 DEF Runtime!Register, Runtime!Loads,
                                                    Runtime!Verified
      <3>2. CASE s \notin job.cohort
        <4>1. s \in Runtime!Active /\ registry'.stage[s] = registry.stage[s]
          BY <2>5, <2>7, <3>2 DEF Runtime!Active
        <4> QED
          BY <1>5, <2>4, <4>1 DEF Runtime!Register, Runnable, Runtime!Loadable,
                                  Runtime!Restorable, Runtime!Loads, Runtime!Verified
      <3> QED
        BY <3>1, <3>2
    <2> QED
      BY <2>4, <2>5, <2>6, <2>7 DEF Runnable, Runtime!Loadable, Runtime!Restorable
  <1>6. CASE Runtime!CohortRaised
    <2>1. job \in CohortJob /\ job.step # "summary"
      BY <1>1, <1>6 DEF Runtime!CohortRaised, Runtime!LateRaise
    <2>2. job.roots \subseteq job.cohort /\ job.manifests \subseteq job.cohort
      BY <1>6, <2>1 DEF Runtime!CohortRaised, FilesInv, Files, FreezeInv, SeenIsCurrent, CohortWritten
    <2>3. \A x \in Runtime!Active : manifest'[x] = manifest[x] /\ root'[x] = root[x]
      BY <1>2, <1>6, <2>1, <2>2 DEF Runtime!CohortRaised, Runtime!CleanedRoots, Runtime!Active
    <2> QED
      BY <1>6, <2>3, RunningDepends DEF Runtime!CohortRaised
  <1> QED
    BY <1>3, <1>4, <1>5, <1>6 DEF Runtime!CohortStep

LEMMA RuntimeKept ==
    FilesInv /\ Apart /\ [Runtime!Next]_Runtime!vars /\ job' # job /\ ~Runtime!LateRaise
        /\ Runnable => Runnable'
  <1> SUFFICES ASSUME FilesInv, Apart, [Runtime!Next]_Runtime!vars, job' # job,
                      ~Runtime!LateRaise, Runnable
               PROVE  Runnable'
    OBVIOUS
  <1>1. ~ (UNCHANGED Runtime!vars \/ Runtime!Run \/ Runtime!SessionStep)
    BY DEF Runtime!vars, Runtime!Run, Runtime!SessionStep, Runtime!OpenSession,
           Runtime!CloseSession, Runtime!Transition, Runtime!Promote, Runtime!Save
  <1>2. CASE Runtime!Died
    BY <1>2, RunningDepends DEF Runtime!Died
  <1> QED
    BY <1>1, <1>2, ChampionJobsKeep, CohortKeeps DEF Runtime!Next

-----------------------------------------------------------------------------
\* JobsKeepRuntime, for jobs without a session beside them: neither a bootstrap nor a
\* freeze, at any of its writes, by a death or by a raise before the registry names the
\* cohort, takes away a runtime on which loader and restore succeed, because what they
\* write belongs to strategies the registry does not name yet.
THEOREM JobsKeepRuntimeCorrect == ASSUME Apart PROVE Runtime!Spec => Runtime!JobsKeepRuntime
  <1>1. FilesInv /\ [Runtime!Next]_Runtime!vars => FilesInv'
    BY FilesNext
  <1>2. Runtime!Init => FilesInv
    BY FreezeInit, FilesInit DEF FilesInv
  <1>3. FilesInv /\ [Runtime!Next]_Runtime!vars =>
          [job' # job /\ ~Runtime!LateRaise /\ ~Runtime!StaleSave
             /\ Runtime!Loadable /\ Runtime!Restorable =>
           (Runtime!Loadable /\ Runtime!Restorable)']_Runtime!vars
    BY RuntimeKept DEF Runnable
  <1> QED
    BY <1>1, <1>2, <1>3, PTL DEF Runtime!Spec, Runtime!JobsKeepRuntime
=============================================================================
