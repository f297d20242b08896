-------------------------- MODULE ShadowLanesProofs --------------------------
(* Proofs about the lobbying lane, the contract lane and the forward         *)
(* evidence for all values of their constants that satisfy the assumptions   *)
(* of MCShadowLanes.                                                         *)
EXTENDS ShadowLanesInvariant, FiniteSetTheorems, WellFoundedInduction, TLAPS

-----------------------------------------------------------------------------
(* Finite sets of numbers.                                                  *)

\* A finite set of integers that is not empty has a maximum.
LEMMA MaxOfIntegers ==
    ASSUME NEW S \in SUBSET Int, IsFiniteSet(S), S # {}
    PROVE  Lda!Max(S) \in S /\ \A x \in S : x <= Lda!Max(S)
  <1> DEFINE HasMax(T) == \E m \in T : \A x \in T : m >= x
             Bad == {T \in SUBSET S : T # {} /\ ~ HasMax(T)}
             Below == StrictSubsetOrdering(S)
  <1>1. HasMax(S)
    <2> SUFFICES ASSUME ~ HasMax(S) PROVE FALSE
      OBVIOUS
    <2>1. Bad # {} /\ Bad \subseteq FiniteSubsetsOf(S)
      <3>1. \A T \in SUBSET S : IsFiniteSet(T)
        BY FS_Subset
      <3>2. S \in Bad
        OBVIOUS
      <3> QED
        BY <3>1, <3>2 DEF FiniteSubsetsOf
    <2>2. PICK T \in Bad : \A U \in Bad : ~ (<<U, T>> \in Below)
      <3>1. IsWellFoundedOn(Below, FiniteSubsetsOf(S))
        BY FS_StrictSubsetOrderingWellFounded
      <3> HIDE DEF Bad, Below
      <3> QED
        BY <2>1, <3>1, WFMin, Zenon
    <2>3. PICK x \in T : TRUE
      BY <2>2
    <2>4. CASE T \ {x} = {}
      <3>1. T = {x} /\ x \in Int
        BY <2>3, <2>4
      <3> QED
        BY <2>2, <3>1
    <2>5. CASE T \ {x} # {}
      <3>1. T \ {x} \in SUBSET S /\ T \ {x} # T /\ T \in SUBSET S
        BY <2>2, <2>3
      <3>2. <<T \ {x}, T>> \in Below
        BY <3>1 DEF StrictSubsetOrdering
      <3>3. HasMax(T \ {x})
        BY <2>2, <2>5, <3>1, <3>2
      <3>4. PICK m \in T \ {x} : \A y \in T \ {x} : m >= y
        BY <3>3
      <3>5. m \in Int /\ x \in Int /\ \A y \in T : y \in Int
        BY <2>3, <3>1, <3>4
      <3>6. HasMax(T)
        <4>1. CASE m >= x
          BY <3>4, <4>1
        <4>2. CASE x >= m
          BY <2>3, <3>4, <3>5, <4>2
        <4> QED
          BY <3>5, <4>1, <4>2
      <3> QED
        BY <2>2, <3>6
    <2> QED
      BY <2>4, <2>5
  <1> QED
    BY <1>1 DEF Lda!Max

-----------------------------------------------------------------------------
(* LdaLane: types.                                                          *)

LEMMA LdaTypeInit == Lda!Init => LdaType
  BY LdaAssumption, BoundsAssumption DEF Lda!Init, LdaType, Lda!TypeOK, Lda!NoRun

\* The cursor a poll commits is the newest of what it has seen.
LEMMA LdaMax ==
    ASSUME LdaType
    PROVE  LET S == {intake.cursor} \cup run.seen
           IN  Lda!Max(S) \in S /\ (\A f \in S : f <= Lda!Max(S)) /\ S \subseteq {0} \cup Filing
  <1> DEFINE S == {intake.cursor} \cup run.seen
  <1>1. S \subseteq {0} \cup Filing /\ S # {}
    BY DEF LdaType, Lda!TypeOK
  <1>2. {0} \cup Filing \subseteq Int /\ IsFiniteSet({0} \cup Filing)
    BY LdaAssumption, FS_AddElement
  <1>3. IsFiniteSet(S)
    BY <1>1, <1>2, FS_Subset
  <1> HIDE DEF S
  <1>4. Lda!Max(S) \in S /\ \A f \in S : f <= Lda!Max(S)
    BY <1>1, <1>2, <1>3, MaxOfIntegers
  <1> QED
    BY <1>1, <1>4 DEF S

LEMMA LdaTypeNext ==
    ASSUME LdaType, Lda!Next
    PROVE  LdaType'
  <1> USE LdaAssumption, BoundsAssumption DEF LdaType, Lda!TypeOK
  <1>1. CASE Lda!StartRun
    <2>1. run' = [cutoff |-> now, cursor |-> intake.cursor, page |-> 1, relay |-> 0,
                  snapshot |-> {}, seen |-> {}, selected |-> {}, ready |-> {}]
      BY <1>1 DEF Lda!StartRun, Lda!NoRun
    <2>2. now \in 0 .. now /\ intake.cursor \in {0} \cup Filing /\ now' = now
      BY <1>1 DEF Lda!StartRun
    <2>3. run' \in [cutoff : 0 .. now, cursor : {0} \cup Filing, page : Nat, relay : Nat,
                    snapshot : SUBSET Filing, seen : SUBSET Filing,
                    selected : SUBSET Modelled, ready : SUBSET Modelled]
      BY <2>1, <2>2
    <2> QED
      BY <1>1, <2>2, <2>3 DEF Lda!StartRun
  <1>2. CASE Lda!FetchPage
    <2> DEFINE listing == IF run.relay > 0 THEN run.snapshot ELSE Lda!InWindow(now)
    <2>1. listing \subseteq Filing /\ Lda!Page(listing) \subseteq listing
      BY DEF Lda!InWindow, Lda!Window, Lda!Page
    <2>2. run.seen \cup {f \in Lda!Page(listing) : Lda!Unseen(f)} \subseteq Filing
      BY <2>1
    <2>3. /\ run' = [run EXCEPT !.seen = run.seen \cup {f \in Lda!Page(listing) : Lda!Unseen(f)},
                                !.page = run.page + 1]
          /\ pc' \in {"poll", "store"} /\ UNCHANGED <<now, intake, stored, diagnostics, aborts>>
      BY <1>2 DEF Lda!FetchPage
    <2> DEFINE seen == run.seen \cup {f \in Lda!Page(listing) : Lda!Unseen(f)}
    <2> HIDE DEF listing, seen
    <2>4. seen \in SUBSET Filing /\ run.page + 1 \in Nat
      BY <2>2 DEF seen
    <2>5. run' = [run EXCEPT !.seen = seen, !.page = run.page + 1]
      BY <2>3 DEF seen
    <2> QED
      BY <2>3, <2>4, <2>5
  <1>3. CASE Lda!StoreEvents
    BY <1>3 DEF Lda!StoreEvents
  <1>4. CASE Lda!CommitPoll
    <2>1. Lda!Max({intake.cursor} \cup run.seen) \in {0} \cup Filing
      BY LdaMax
    <2> QED
      BY <1>4, <2>1 DEF Lda!CommitPoll
  <1>5. CASE Lda!Select
    BY <1>5 DEF Lda!Select
  <1>6. CASE Lda!SyncMarket
    BY <1>6 DEF Lda!SyncMarket, Lda!Proceed, Lda!NoRun
  <1>7. CASE Lda!Score
    BY <1>7 DEF Lda!Score, Lda!Batch, Lda!Target
  <1>8. CASE Lda!Acknowledge
    BY <1>8 DEF Lda!Acknowledge
  <1>9. CASE Lda!RefreshScorecard
    BY <1>9 DEF Lda!RefreshScorecard, Lda!NoRun
  <1>10. CASE Lda!FallBack
    <2>1. \A t : Lda!InWindow(t) \subseteq Filing
      BY DEF Lda!InWindow, Lda!Window
    <2>2. PICK taken \in 0 .. now :
             run' = [run EXCEPT !.relay = run.page, !.snapshot = Lda!InWindow(taken)]
      BY <1>10 DEF Lda!FallBack
    <2>3. UNCHANGED <<now, intake, stored, diagnostics, pc, aborts>>
      BY <1>10 DEF Lda!FallBack
    <2> QED
      BY <2>1, <2>2, <2>3
  <1>11. CASE Lda!Abort
    BY <1>11 DEF Lda!Abort, Lda!NoRun
  <1>12. CASE Lda!Tick
    BY <1>12 DEF Lda!Tick
  <1> QED
    BY <1>1, <1>2, <1>3, <1>4, <1>5, <1>6, <1>7, <1>8, <1>9, <1>10, <1>11, <1>12
    DEF Lda!Next, Lda!RunStep

-----------------------------------------------------------------------------
(* LdaLane: the files, and the way of a batch.                              *)

\* What a poll has seen is ahead of the cursor, what is queued or scored is not.
LEMMA LdaCommit ==
    ASSUME LdaType, LdaFiles, Lda!CommitPoll
    PROVE  /\ intake'.cursor \in {intake.cursor} \cup run.seen
           /\ intake.cursor <= intake'.cursor
           /\ \A f \in run.seen : intake.cursor < f /\ f <= intake'.cursor
           /\ intake'.pending = intake.pending \cup ((run.seen \cap Modelled) \ intake.stale)
           /\ intake'.stale = intake.stale
           /\ intake.cursor \in Int /\ intake'.cursor \in Int /\ run.seen \subseteq Int
           /\ pc = "commit" /\ pc' = "select"
           /\ UNCHANGED <<now, stored, diagnostics, run, aborts>>
  <1>1. /\ intake' = [intake EXCEPT !.cursor = Lda!Max({intake.cursor} \cup run.seen),
                          !.pending = intake.pending \cup ((run.seen \cap Modelled) \ intake.stale)]
        /\ pc = "commit" /\ pc' = "select" /\ UNCHANGED <<now, stored, diagnostics, run, aborts>>
    BY DEF Lda!CommitPoll
  <1>2. {0} \cup Filing \subseteq Int
    BY LdaAssumption
  <1>3. \A f \in run.seen : intake.cursor < f
    BY <1>1 DEF LdaFiles, Lda!Unseen
  <1>4. intake.cursor \in {0} \cup Filing /\ run.seen \subseteq Filing
    BY DEF LdaType, Lda!TypeOK
  <1>5. /\ intake'.cursor = Lda!Max({intake.cursor} \cup run.seen)
        /\ intake'.pending = intake.pending \cup ((run.seen \cap Modelled) \ intake.stale)
        /\ intake'.stale = intake.stale
    BY <1>1 DEF LdaType, Lda!TypeOK
  <1> QED
    BY <1>1, <1>2, <1>3, <1>4, <1>5, LdaMax

LEMMA LdaSessions ==
    ASSUME LdaType
    PROVE  Lda!Target(run.cutoff) \in Int /\ \A f \in Filing : Lda!Intended(f) \in Int
  BY LdaAssumption, BoundsAssumption DEF LdaType, Lda!TypeOK, Lda!Target, Lda!Intended, Lda!Day

LEMMA LdaQueued ==
    ASSUME LdaType, LdaFiles
    PROVE  \A f \in intake.pending \cup Lda!Scored : f <= intake.cursor /\ f \in Int
  <1>1. Modelled \subseteq Int
    BY LdaAssumption
  <1>2. intake.pending \subseteq Modelled
    BY DEF LdaType, Lda!TypeOK
  <1>3. Lda!Scored \subseteq Modelled
    BY DEF LdaType, Lda!TypeOK, Lda!Scored
  <1> QED
    BY <1>1, <1>2, <1>3 DEF LdaFiles

LEMMA LdaFilesNext ==
    ASSUME LdaType, LdaFiles, LdaBatches, Lda!Next
    PROVE  LdaFiles'
  <1> USE DEF LdaType, Lda!TypeOK, LdaFiles, Lda!PendingStored, Lda!Scored, Lda!Unseen
  <1>1. CASE Lda!StartRun
    BY <1>1 DEF Lda!StartRun, Lda!NoRun
  <1>2. CASE Lda!FetchPage
    BY <1>2 DEF Lda!FetchPage
  <1>3. CASE Lda!StoreEvents
    BY <1>3 DEF Lda!StoreEvents
  <1>4. CASE Lda!CommitPoll
    <2>1. \A f \in intake.pending \cup Lda!Scored : f <= intake.cursor /\ f \in Int
      BY LdaQueued
    <2>2. \A f \in intake'.pending \cup Lda!Scored : f <= intake'.cursor
      BY <1>4, <2>1, LdaCommit
    <2> QED
      BY <1>4, <2>2, LdaCommit
  <1>5. CASE Lda!Select
    BY <1>5 DEF Lda!Select
  <1>6. CASE Lda!SyncMarket
    BY <1>6 DEF Lda!SyncMarket, Lda!Proceed, Lda!NoRun
  <1>7. CASE Lda!Score
    BY <1>7 DEF Lda!Score, Lda!Batch, LdaBatches
  <1>8. CASE Lda!Acknowledge
    BY <1>8 DEF Lda!Acknowledge
  <1>9. CASE Lda!RefreshScorecard
    BY <1>9 DEF Lda!RefreshScorecard, Lda!NoRun
  <1>10. CASE Lda!FallBack
    BY <1>10 DEF Lda!FallBack
  <1>11. CASE Lda!Abort
    BY <1>11 DEF Lda!Abort, Lda!NoRun
  <1>12. CASE Lda!Tick
    BY <1>12 DEF Lda!Tick
  <1> QED
    BY <1>1, <1>2, <1>3, <1>4, <1>5, <1>6, <1>7, <1>8, <1>9, <1>10, <1>11, <1>12
    DEF Lda!Next, Lda!RunStep

LEMMA LdaBatchesNext ==
    ASSUME LdaType, LdaFiles, LdaBatches, Lda!Next
    PROVE  LdaBatches'
  <1> USE DEF LdaType, Lda!TypeOK, LdaBatches, Lda!Batch
  <1>1. CASE Lda!StartRun
    BY <1>1 DEF Lda!StartRun, Lda!NoRun
  <1>2. CASE Lda!FetchPage
    BY <1>2 DEF Lda!FetchPage
  <1>3. CASE Lda!StoreEvents
    BY <1>3 DEF Lda!StoreEvents
  <1>4. CASE Lda!CommitPoll
    <2>1. \A b \in diagnostics : \A f \in b.events : f <= intake.cursor /\ f \in Int
      BY LdaAssumption DEF LdaFiles, Lda!Scored
    <2>2. \A b \in diagnostics : b.events \cap intake'.pending \subseteq intake.pending
      BY <1>4, <2>1, LdaCommit
    <2> QED
      BY <1>4, <2>2, LdaCommit
  <1>5. CASE Lda!Select
    <2> DEFINE stale == {f \in intake.pending : Lda!Stale(f)}
               selected == {f \in intake.pending : Lda!Actionable(f)}
    <2>1. /\ intake'.pending = intake.pending \ stale /\ intake'.stale = intake.stale \cup stale
          /\ run' = [run EXCEPT !.selected = selected] /\ pc' \in {"scorecard", "market"}
          /\ UNCHANGED <<stored, diagnostics, aborts>> /\ pc = "select"
      BY <1>5 DEF Lda!Select
    <2>2. \A f \in selected : Lda!Intended(f) = Lda!Target(run.cutoff)
      BY DEF Lda!Actionable
    <2>3. selected \cap stale = {}
      <3>1. \A f \in intake.pending : Lda!Intended(f) \in Int
        BY LdaSessions, LdaAssumption
      <3>2. Lda!Target(run.cutoff) \in Int
        BY LdaSessions
      <3>3. \A f \in stale : Lda!Intended(f) < Lda!Target(run.cutoff) /\ f \in intake.pending
        BY DEF Lda!Stale
      <3> HIDE DEF stale, selected
      <3> QED
        BY <2>2, <3>1, <3>2, <3>3
    <2>4. selected \subseteq intake.pending
      OBVIOUS
    <2> HIDE DEF stale, selected
    <2>5. selected \subseteq intake'.pending /\ intake'.pending \subseteq intake.pending
      BY <2>1, <2>3, <2>4
    <2>6. /\ run'.selected = selected /\ run'.cutoff = run.cutoff
          /\ run'.ready = {} /\ run.ready = {}
      BY <2>1
    <2>7. pc' # "acknowledge" /\ pc' # "score" /\ pc # "acknowledge"
      BY <2>1
    <2>8. Lda!Target(run'.cutoff) = Lda!Target(run.cutoff)
      BY <2>6
    <2>9. \A f \in run'.selected : Lda!Intended(f) = Lda!Target(run'.cutoff)
      BY <2>2, <2>6, <2>8
    <2> QED
      BY <2>1, <2>5, <2>6, <2>7, <2>9
  <1>6. CASE Lda!SyncMarket
    BY <1>6 DEF Lda!SyncMarket, Lda!Proceed, Lda!NoRun
  <1>7. CASE Lda!Score
    BY <1>7 DEF Lda!Score
  <1>8. CASE Lda!Acknowledge
    BY <1>8 DEF Lda!Acknowledge
  <1>9. CASE Lda!RefreshScorecard
    BY <1>9 DEF Lda!RefreshScorecard, Lda!NoRun
  <1>10. CASE Lda!FallBack
    BY <1>10 DEF Lda!FallBack
  <1>11. CASE Lda!Abort
    BY <1>11 DEF Lda!Abort, Lda!NoRun
  <1>12. CASE Lda!Tick
    BY <1>12 DEF Lda!Tick
  <1> QED
    BY <1>1, <1>2, <1>3, <1>4, <1>5, <1>6, <1>7, <1>8, <1>9, <1>10, <1>11, <1>12
    DEF Lda!Next, Lda!RunStep

-----------------------------------------------------------------------------
(* LdaLane: the pages of a poll.                                            *)

LEMMA LdaCardinality == \A S : Lda!Cardinality(S) = Cardinality(S)
  BY DEF Lda!Cardinality, Cardinality

LEMMA LdaWindow ==
    ASSUME LdaType
    PROVE  /\ Lda!Window \subseteq Filing
           /\ \A S \in SUBSET Filing : IsFiniteSet(S) /\ Cardinality(S) \in Nat
           /\ \A S, T \in SUBSET Filing : S \subseteq T => Cardinality(S) <= Cardinality(T)
  <1>1. \A S \in SUBSET Filing : IsFiniteSet(S)
    BY FS_Subset, LdaAssumption
  <1>2. \A S, T \in SUBSET Filing : S \subseteq T => Cardinality(S) <= Cardinality(T)
    BY <1>1, FS_Subset
  <1> QED
    BY <1>1, <1>2, FS_CardinalityType DEF Lda!Window

\* The date filters of a request let through everything the poll has not passed.
LEMMA LdaUnseenListed ==
    ASSUME LdaType, NEW f \in Filing, Lda!Unseen(f)
    PROVE  f \in Lda!Window /\ f \in Lda!InWindow(now) /\ PostedAt[f] \in Nat
  <1>0. {0} \cup Filing \subseteq Nat
    BY LdaAssumption
  <1>1. /\ now \in Nat /\ run.cutoff \in Nat /\ run.cutoff <= now /\ run.cursor \in {0} \cup Filing
        /\ PostedAt[f] \in Nat /\ PostedAt[f] <= run.cutoff
        /\ Lookback \in Nat
    BY LdaAssumption, BoundsAssumption DEF LdaType, Lda!TypeOK, Lda!Unseen
  <1>2. Lda!Day(PostedAt[f]) <= Lda!Day(run.cutoff) /\ Lda!Day(PostedAt[f]) \in Int
        /\ Lda!Day(run.cutoff) \in Int
    BY <1>1 DEF Lda!Day
  <1>3. CASE run.cursor = 0
    <2>1. PostedAt[f] >= run.cutoff - 2 * Lookback
      BY <1>1, <1>3 DEF Lda!Unseen, Lda!TooOld
    <2>2. Lda!Day(PostedAt[f]) >= Lda!Day(run.cutoff) - Lookback
      BY <1>1, <2>1 DEF Lda!Day
    <2> QED
      BY <1>1, <1>2, <1>3, <2>2 DEF Lda!Window, Lda!InWindow
  <1>4. CASE run.cursor # 0
    <2>1. run.cursor \in Filing /\ run.cursor <= f
      <3>1. f > run.cursor /\ f \in Nat /\ run.cursor \in Nat
        <4>1. f > run.cursor
          BY DEF Lda!Unseen
        <4>2. f \in Nat /\ run.cursor \in Nat
          BY <1>0, <1>1
        <4> QED
          BY <4>1, <4>2
      <3> QED
        BY <1>1, <1>4, <3>1
    <2>2. PostedAt[run.cursor] <= PostedAt[f] /\ PostedAt[run.cursor] \in Nat
      BY <2>1, LdaAssumption
    <2>3. /\ Lda!Day(PostedAt[f]) >= Lda!Day(PostedAt[run.cursor]) - 1
          /\ Lda!Day(PostedAt[run.cursor]) \in Int
      BY <1>1, <2>2 DEF Lda!Day
    <2> QED
      BY <1>1, <1>2, <1>4, <2>3 DEF Lda!Window, Lda!InWindow
  <1> QED
    BY <1>3, <1>4

\* One page more is passed; what it lists and the poll has not passed before is seen.
LEMMA LdaFetch ==
    ASSUME LdaType, Lda!FetchPage, run.page >= 1
    PROVE  LET listing == IF run.relay > 0 THEN run.snapshot ELSE Lda!InWindow(now)
           IN  /\ run'.seen = run.seen \cup {f \in Lda!Page(listing) : Lda!Unseen(f)}
               /\ run'.page = run.page + 1
               /\ pc' = IF Passed' < Cardinality(listing) THEN "poll" ELSE "store"
               /\ \A f \in listing : f \in Lda!Page(listing) <=>
                     ~(Lda!Rank(f, listing) < Passed) /\ Lda!Rank(f, listing) < Passed'
               /\ Passed \in Nat /\ Passed' \in Nat /\ Passed <= Passed'
               /\ listing \subseteq Filing
               /\ UNCHANGED <<run.cutoff, run.cursor, run.relay, run.snapshot, now, intake>>
               /\ Lda!Window' = Lda!Window
               /\ \A f : Lda!Unseen(f)' <=> Lda!Unseen(f)
  <1> DEFINE listing == IF run.relay > 0 THEN run.snapshot ELSE Lda!InWindow(now)
             seen == run.seen \cup {f \in Lda!Page(listing) : Lda!Unseen(f)}
  <1>1. /\ run' = [run EXCEPT !.seen = seen, !.page = run.page + 1]
        /\ pc' = IF run.page * PageSize < Cardinality(listing) THEN "poll" ELSE "store"
        /\ UNCHANGED <<now, intake>>
    <2> HIDE DEF listing
    <2>1. /\ run' = [run EXCEPT !.seen = @ \cup {f \in Lda!Page(listing) : Lda!Unseen(f)},
                                !.page = @ + 1]
          /\ pc' = IF run.page * PageSize < Cardinality(listing) THEN "poll" ELSE "store"
      BY LdaCardinality DEF Lda!FetchPage, listing
    <2>2. UNCHANGED <<now, intake>>
      BY DEF Lda!FetchPage
    <2> QED
      BY <2>1, <2>2
  <1>2. listing \subseteq Filing
    BY LdaWindow DEF LdaType, Lda!InWindow
  <1>3. run.page \in Nat /\ PageSize \in Nat
    BY LdaAssumption DEF LdaType
  <1>4. \A f \in listing : Lda!Rank(f, listing) \in Nat
    <2> TAKE f \in listing
    <2> DEFINE before == {g \in listing :
                            IF NewestFirst /\ run.relay = 0 THEN g > f ELSE g < f}
    <2>1. before \in SUBSET Filing
      BY <1>2
    <2> HIDE DEF before
    <2>2. Cardinality(before) \in Nat
      BY <2>1, LdaWindow
    <2> QED
      BY <2>2, LdaCardinality, Zenon DEF Lda!Rank, before
  <1> HIDE DEF seen, listing
  <1>5. /\ run'.seen = seen /\ run'.page = run.page + 1
        /\ UNCHANGED <<run.cutoff, run.cursor, run.relay, run.snapshot>>
    BY <1>1 DEF LdaType
  <1>6. run'.page - 1 = run.page
    BY <1>3, <1>5
  <1>7. Passed' = run.page * PageSize
    BY <1>6 DEF Passed
  <1>8. /\ Passed \in Nat /\ run.page * PageSize \in Nat /\ Passed <= run.page * PageSize
        /\ Passed = (run.page - 1) * PageSize
    BY <1>3 DEF Passed
  <1>9. \A f \in listing : f \in Lda!Page(listing) <=>
           ~(Lda!Rank(f, listing) < Passed) /\ Lda!Rank(f, listing) < run.page * PageSize
    <2> DEFINE low == (run.page - 1) * PageSize
               high == run.page * PageSize
    <2>1. \A f \in listing : f \in Lda!Page(listing) <=> Lda!Rank(f, listing) \in low .. high - 1
      BY DEF Lda!Page
    <2>2. low = Passed /\ low \in Nat /\ high \in Nat
      BY <1>8
    <2> HIDE DEF low, high
    <2>3. \A f \in listing : f \in Lda!Page(listing) <=>
             ~(Lda!Rank(f, listing) < low) /\ Lda!Rank(f, listing) < high
      BY <1>4, <2>1, <2>2
    <2> QED
      BY <2>2, <2>3 DEF high
  <1>10. Lda!Window' = Lda!Window /\ \A f : Lda!Unseen(f)' <=> Lda!Unseen(f)
    BY <1>5 DEF Lda!Window, Lda!Unseen
  <1> QED
    BY <1>1, <1>2, <1>5, <1>7, <1>8, <1>9, <1>10 DEF seen, listing

\* Of the filings that a listing shows, exactly those posted later are after one of them.
LEMMA LdaBefore ==
    ASSUME LdaType, NEW t \in Nat, NEW f \in Lda!Window
    PROVE  /\ f \in Lda!InWindow(t) => {g \in Lda!InWindow(t) : g < f} = Before(f)
           /\ f \notin Lda!InWindow(t) => Lda!InWindow(t) \subseteq Before(f)
           /\ \A g \in Lda!InWindow(t) : f < g => f \in Lda!InWindow(t)
           /\ \A g \in Lda!Window : f < g => Cardinality(Before(f)) <= Cardinality(Before(g))
           /\ Cardinality(Before(f)) \in Nat
           /\ Lda!InWindow(t) \subseteq Filing
  <1>1. Lda!Window \subseteq Filing /\ Filing \subseteq Nat
    BY LdaWindow, LdaAssumption
  <1>2. \A g, h \in Lda!Window :
           PostedAt[g] \in Nat /\ PostedAt[h] \in Nat /\ (g <= h => PostedAt[g] <= PostedAt[h])
    BY <1>1, LdaAssumption
  <1>3. f \in Lda!InWindow(t) => {g \in Lda!InWindow(t) : g < f} = Before(f)
    <2> SUFFICES ASSUME f \in Lda!InWindow(t), NEW g \in Lda!Window, g < f
                 PROVE  g \in Lda!InWindow(t)
      BY DEF Lda!InWindow, Before
    <2>1. PostedAt[g] <= PostedAt[f] /\ PostedAt[f] <= t
      <3>1. g <= f
        BY <1>1
      <3> QED
        BY <1>2, <3>1 DEF Lda!InWindow
    <2> QED
      BY <1>2, <2>1 DEF Lda!InWindow
  <1>4. f \notin Lda!InWindow(t) => Lda!InWindow(t) \subseteq Before(f)
    <2> SUFFICES ASSUME f \notin Lda!InWindow(t), NEW g \in Lda!InWindow(t)
                 PROVE  g \in Before(f)
      OBVIOUS
    <2>1. g \in Lda!Window /\ PostedAt[g] <= t /\ ~(PostedAt[f] <= t)
      BY DEF Lda!InWindow
    <2>2. ~(f <= g)
      BY <1>2, <2>1
    <2> QED
      BY <1>1, <2>1, <2>2 DEF Before
  <1>5. \A g \in Lda!InWindow(t) : f < g => f \in Lda!InWindow(t)
    BY <1>1, <1>2 DEF Lda!InWindow
  <1>6. \A g \in Lda!Window : f < g => Before(f) \subseteq Before(g)
    <2> SUFFICES ASSUME NEW g \in Lda!Window, f < g, NEW h \in Lda!Window, h < f
                 PROVE  h < g
      BY DEF Before
    <2> QED
      BY <1>1
  <1>7. \A g : Before(g) \in SUBSET Filing
    BY <1>1 DEF Before
  <1>8. Lda!InWindow(t) \subseteq Filing
    BY <1>1 DEF Lda!InWindow
  <1> QED
    BY <1>3, <1>4, <1>5, <1>6, <1>7, <1>8, LdaWindow

\* Newest first: what is listed meanwhile pushes the rest back, and is passed with it.
LEMMA LdaFetchDescending ==
    ASSUME LdaType, LdaPoll, Lda!FetchPage, Descending
    PROVE  /\ \A f \in Filing :
                Lda!Unseen(f) /\ Lda!Rank(f, Lda!InWindow(now)) < Passed' => f \in run'.seen
           /\ pc' = "store" => \A f \in Filing : Lda!Unseen(f) => f \in run'.seen
  <1> DEFINE listing == Lda!InWindow(now)
  <1>1. pc = "poll" /\ run.page >= 1
    BY DEF Lda!FetchPage, LdaPoll
  <1>2. ~(run.relay > 0)
    BY DEF Descending
  <1>3. /\ run'.seen = run.seen \cup {f \in Lda!Page(listing) : Lda!Unseen(f)}
        /\ pc' = IF Passed' < Cardinality(listing) THEN "poll" ELSE "store"
        /\ \A f \in listing : f \in Lda!Page(listing) <=>
              ~(Lda!Rank(f, listing) < Passed) /\ Lda!Rank(f, listing) < Passed'
        /\ Passed' \in Nat
        /\ listing \subseteq Filing
    BY <1>1, <1>2, LdaFetch
  <1>4. \A f \in Filing : Lda!Unseen(f) => f \in listing
    BY LdaUnseenListed
  <1>5. \A f \in Filing : Lda!Unseen(f) /\ Lda!Rank(f, listing) < Passed => f \in run.seen
    BY <1>1 DEF LdaPoll, Descending
  <1> HIDE DEF listing
  <1>6. \A f \in Filing : Lda!Unseen(f) /\ Lda!Rank(f, listing) < Passed' => f \in run'.seen
    BY <1>3, <1>4, <1>5
  <1>7. \A f \in listing : Lda!Rank(f, listing) \in Nat /\ Lda!Rank(f, listing) < Cardinality(listing)
    <2> TAKE f \in listing
    <2> DEFINE before == {g \in listing : IF NewestFirst /\ run.relay = 0 THEN g > f ELSE g < f}
    <2>1. listing \in SUBSET Filing /\ Filing \subseteq Nat
      BY <1>3, LdaAssumption
    <2>2. f \notin before /\ before \subseteq listing
      BY <2>1
    <2> HIDE DEF before
    <2>3. before \cup {f} \subseteq listing /\ IsFiniteSet(before)
      BY <2>1, <2>2, LdaWindow
    <2>4. Cardinality(before \cup {f}) = Cardinality(before) + 1
      BY <2>2, <2>3, FS_AddElement
    <2>5. Cardinality(before \cup {f}) <= Cardinality(listing) /\ Cardinality(before) \in Nat
          /\ Cardinality(listing) \in Nat
      BY <2>1, <2>3, LdaWindow
    <2>6. Lda!Rank(f, listing) = Cardinality(before)
      BY LdaCardinality, Zenon DEF Lda!Rank, before
    <2> QED
      BY <2>4, <2>5, <2>6
  <1>8. Cardinality(listing) \in Nat
    BY <1>3, LdaWindow
  <1>9. ASSUME pc' = "store", NEW f \in Filing, Lda!Unseen(f)
        PROVE  f \in run'.seen
    <2>1. ~(Passed' < Cardinality(listing))
      BY <1>3, <1>9
    <2>2. f \in listing /\ Lda!Rank(f, listing) \in Nat /\ Lda!Rank(f, listing) < Cardinality(listing)
      BY <1>4, <1>7, <1>9
    <2>3. Lda!Rank(f, listing) < Passed'
      BY <1>3, <1>8, <2>1, <2>2
    <2> QED
      BY <1>6, <1>9, <2>3
  <1> QED
    BY <1>6, <1>9 DEF listing

\* Oldest first: while the listing continues, what is not listed yet comes after this page.
LEMMA LdaFetchAscending ==
    ASSUME LdaType, LdaPoll, LdaFiles, Lda!FetchPage, Ascending
    PROVE  /\ pc' = "poll" => \A f \in Filing :
                /\ Lda!Unseen(f) /\ Cardinality(Before(f)) < Passed' => f \in run'.seen
                /\ f \in run'.seen => Cardinality(Before(f)) < Passed'
           /\ pc' = "store" => \A f \in Filing, g \in run'.seen :
                Lda!Unseen(f) /\ f < g => f \in run'.seen
  <1> DEFINE listing == IF run.relay > 0 THEN run.snapshot ELSE Lda!InWindow(now)
  <1>1. pc = "poll" /\ run.page >= 1
    BY DEF Lda!FetchPage, LdaPoll
  <1>2. now \in Nat
    BY BoundsAssumption DEF LdaType, Lda!TypeOK
  <1>3. PICK t \in 0 .. now : listing = Lda!InWindow(t)
    BY <1>1, <1>2 DEF LdaPoll
  <1>4. /\ run'.seen = run.seen \cup {f \in Lda!Page(listing) : Lda!Unseen(f)}
        /\ pc' = IF Passed' < Cardinality(listing) THEN "poll" ELSE "store"
        /\ \A f \in listing : f \in Lda!Page(listing) <=>
              ~(Lda!Rank(f, listing) < Passed) /\ Lda!Rank(f, listing) < Passed'
        /\ Passed \in Nat /\ Passed' \in Nat /\ Passed <= Passed'
        /\ listing \subseteq Filing
    BY <1>1, LdaFetch
  <1>5. /\ \A f \in Filing :
              /\ Lda!Unseen(f) /\ Cardinality(Before(f)) < Passed => f \in run.seen
              /\ f \in run.seen => Cardinality(Before(f)) < Passed
        /\ \A f \in run.seen : Lda!Unseen(f) /\ f \in Filing
    BY <1>1 DEF LdaPoll, LdaFiles, LdaType
  <1> HIDE DEF listing
  <1>6. \A f \in Filing : Lda!Unseen(f) => f \in Lda!Window
    BY LdaUnseenListed
  <1>7. \A f \in Lda!Window :
          /\ f \in listing => {g \in listing : g < f} = Before(f)
          /\ f \notin listing => listing \subseteq Before(f)
          /\ \A g \in listing : f < g => f \in listing
          /\ \A g \in Lda!Window : f < g => Cardinality(Before(f)) <= Cardinality(Before(g))
          /\ Cardinality(Before(f)) \in Nat
    BY <1>2, <1>3, LdaBefore
  <1>8. listing \subseteq Lda!Window /\ Cardinality(listing) \in Nat
    BY <1>3, <1>4, LdaWindow DEF Lda!InWindow
  <1>9. \A f \in listing : Lda!Rank(f, listing) = Cardinality(Before(f))
    <2> TAKE f \in listing
    <2>1. ~(NewestFirst /\ run.relay = 0)
      BY DEF Ascending
    <2>2. {g \in listing : IF NewestFirst /\ run.relay = 0 THEN g > f ELSE g < f}
             = {g \in listing : g < f}
      BY <2>1
    <2> QED
      BY <1>7, <1>8, <2>2, LdaCardinality, Zenon DEF Lda!Rank
  <1>10. ASSUME NEW f \in listing, Lda!Unseen(f), Cardinality(Before(f)) < Passed'
         PROVE  f \in run'.seen
    BY <1>4, <1>5, <1>9, <1>10
  <1>11. \A f \in run'.seen : /\ Lda!Unseen(f) /\ f \in Filing /\ f \in Lda!Window
                              /\ Cardinality(Before(f)) < Passed'
    <2> TAKE f \in run'.seen
    <2>1. CASE f \in run.seen
      <3>1. Lda!Unseen(f) /\ f \in Filing /\ f \in Lda!Window /\ Cardinality(Before(f)) < Passed
            /\ Cardinality(Before(f)) \in Nat
        BY <1>5, <1>6, <1>7, <2>1
      <3> QED
        BY <1>4, <3>1
    <2>2. CASE f \in Lda!Page(listing) /\ Lda!Unseen(f)
      <3>1. f \in listing
        BY <2>2 DEF Lda!Page
      <3> QED
        BY <1>4, <1>8, <1>9, <2>2, <3>1
    <2> QED
      BY <1>4, <2>1, <2>2
  <1>12. ASSUME pc' = "poll", NEW f \in Filing, Lda!Unseen(f), Cardinality(Before(f)) < Passed'
         PROVE  f \in run'.seen
    <2>1. f \in Lda!Window /\ Passed' < Cardinality(listing) /\ Cardinality(Before(f)) \in Nat
      BY <1>4, <1>6, <1>7, <1>12
    <2>2. CASE f \in listing
      BY <1>10, <1>12, <2>2
    <2>3. CASE f \notin listing
      <3>1. listing \subseteq Before(f) /\ Before(f) \subseteq Filing
        BY <1>7, <2>1, <2>3, LdaWindow DEF Before
      <3>2. Cardinality(listing) <= Cardinality(Before(f))
        BY <1>4, <3>1, LdaWindow
      <3> QED
        BY <1>4, <1>8, <1>12, <2>1, <3>2
    <2> QED
      BY <2>2, <2>3
  <1>13. ASSUME pc' = "store", NEW f \in Filing, NEW g \in run'.seen, Lda!Unseen(f), f < g
         PROVE  f \in run'.seen
    <2>1. /\ f \in Lda!Window /\ g \in Lda!Window
          /\ Cardinality(Before(f)) <= Cardinality(Before(g))
          /\ Cardinality(Before(f)) \in Nat /\ Cardinality(Before(g)) \in Nat
      BY <1>6, <1>7, <1>11, <1>13
    <2>2. CASE g \in run.seen
      <3>1. Cardinality(Before(g)) < Passed
        BY <1>5, <2>2
      <3>2. Cardinality(Before(f)) < Passed
        BY <1>4, <2>1, <3>1
      <3> QED
        BY <1>4, <1>5, <1>13, <3>2
    <2>3. CASE g \in Lda!Page(listing)
      <3>1. g \in listing
        BY <2>3 DEF Lda!Page
      <3>2. f \in listing
        BY <1>7, <1>13, <2>1, <3>1
      <3>3. Cardinality(Before(f)) < Passed'
        BY <1>4, <1>11, <2>1
      <3> QED
        BY <1>10, <1>13, <3>2, <3>3
    <2> QED
      BY <1>4, <2>2, <2>3
  <1> QED
    BY <1>11, <1>12, <1>13

\* What is posted meanwhile never moves a filing towards the first page.
LEMMA LdaTickRank ==
    ASSUME LdaType, LdaType', Lda!Tick, NEW f \in Filing
    PROVE  Lda!Rank(f, Lda!InWindow(now)) <= Lda!Rank(f, Lda!InWindow(now))'
           /\ Lda!Rank(f, Lda!InWindow(now)) \in Nat /\ Lda!Rank(f, Lda!InWindow(now))' \in Nat
  <1> DEFINE sooner(t) == {g \in Lda!InWindow(t) :
                             IF NewestFirst /\ run.relay = 0 THEN g > f ELSE g < f}
  <1>1. now \in Nat /\ now' = now + 1 /\ UNCHANGED run
    BY BoundsAssumption DEF LdaType, Lda!TypeOK, Lda!Tick
  <1>2. Lda!InWindow(now) \subseteq Lda!InWindow(now + 1)
    <2>1. \A g \in Lda!Window : PostedAt[g] \in Nat
      BY LdaWindow, LdaAssumption
    <2> QED
      BY <1>1, <2>1 DEF Lda!InWindow
  <1>3. sooner(now) \subseteq sooner(now + 1) /\ \A t : sooner(t) \in SUBSET Filing
    <2>1. \A t : Lda!InWindow(t) \subseteq Filing
      BY LdaWindow DEF Lda!InWindow
    <2> QED
      BY <1>2, <2>1
  <1>4. Lda!Rank(f, Lda!InWindow(now)) = Cardinality(sooner(now))
    BY LdaCardinality, Zenon DEF Lda!Rank
  <1>5. Lda!Rank(f, Lda!InWindow(now))' = Cardinality(sooner(now + 1))
    <2>1. Lda!Window' = Lda!Window
      BY <1>1 DEF Lda!Window
    <2>2. Lda!InWindow(now)' = Lda!InWindow(now + 1)
      BY <1>1, <2>1 DEF Lda!InWindow
    <2> QED
      BY <1>1, <2>2, LdaCardinality, Zenon DEF Lda!Rank
  <1> HIDE DEF sooner
  <1> QED
    BY <1>3, <1>4, <1>5, LdaWindow

\* How many filings a listing shows before another is the size of a set of filings.
LEMMA LdaRankType ==
    ASSUME LdaType', NEW f \in Filing
    PROVE  \E before \in SUBSET Filing : Lda!Rank(f, Lda!InWindow(now))' = Cardinality(before)
  <1> DEFINE before == {g \in Lda!InWindow(now)' :
                          IF NewestFirst /\ run'.relay = 0 THEN g > f ELSE g < f}
  <1>1. before \in SUBSET Filing
    BY DEF Lda!InWindow, Lda!Window
  <1>2. Lda!Rank(f, Lda!InWindow(now))' = Cardinality(before)
    BY LdaCardinality, Zenon DEF Lda!Rank
  <1> HIDE DEF before
  <1> QED
    BY <1>1, <1>2

LEMMA LdaPollNext ==
    ASSUME LdaType, LdaFiles, LdaPoll, Lda!Next
    PROVE  LdaPoll'
  <1>0. LdaType'
    BY LdaTypeNext
  <1>1. CASE Lda!StartRun
    <2>1. /\ run' = [Lda!NoRun EXCEPT !.cutoff = now, !.cursor = intake.cursor, !.page = 1]
          /\ pc' = "poll"
      BY <1>1 DEF Lda!StartRun
    <2>2. run'.page = 1 /\ run'.seen = {} /\ run'.relay = 0
      BY <2>1 DEF Lda!NoRun
    <2>3. Passed' = 0
      BY <2>2, LdaAssumption DEF Passed
    <2>4. \A f \in Filing : ~(Lda!Rank(f, Lda!InWindow(now))' < 0)
      <3> TAKE f \in Filing
      <3>1. PICK before \in SUBSET Filing : Lda!Rank(f, Lda!InWindow(now))' = Cardinality(before)
        BY <1>0, LdaRankType
      <3> QED
        BY <3>1, LdaWindow
    <2>5. \A f : Before(f)' \in SUBSET Filing
      BY DEF Before, Lda!Window
    <2>6. \A f : ~(Cardinality(Before(f))' < 0)
      BY <2>5, LdaWindow
    <2> QED
      BY <2>1, <2>2, <2>3, <2>4, <2>6 DEF LdaPoll
  <1>2. CASE Lda!FetchPage
    <2>1. pc = "poll" /\ run.page >= 1 /\ run.page \in Nat /\ pc' \in {"poll", "store"}
      BY <1>2 DEF Lda!FetchPage, LdaPoll, LdaType
    <2>2. /\ run'.page = run.page + 1
          /\ UNCHANGED <<run.cutoff, run.cursor, run.relay, run.snapshot, now, intake>>
          /\ Lda!Window' = Lda!Window
          /\ \A f : Lda!Unseen(f)' <=> Lda!Unseen(f)
      BY <1>2, <2>1, LdaFetch
    <2>3. /\ \A t : Lda!InWindow(t)' = Lda!InWindow(t)
          /\ \A f : Before(f)' = Before(f)
          /\ Descending' = Descending /\ Ascending' = Ascending
      BY <2>2 DEF Lda!InWindow, Before, Descending, Ascending
    <2>4. run'.page >= 1 /\ run'.page # 1
      BY <2>1, <2>2
    <2>5. run'.relay > 0 => \E taken \in 0 .. now' : run'.snapshot = Lda!InWindow(taken)'
      BY <2>1, <2>2, <2>3 DEF LdaPoll
    <2>6. Lda!InWindow(now)' = Lda!InWindow(now)
      BY <2>2, <2>3 DEF Lda!InWindow
    <2>7. \A f : Lda!Rank(f, Lda!InWindow(now))' = Lda!Rank(f, Lda!InWindow(now))
      BY <2>2, <2>6, Zenon DEF Lda!Rank
    <2>8. CASE Descending
      <3>1. ~Ascending
        BY <2>8 DEF Descending, Ascending
      <3> QED
        BY <1>2, <2>1, <2>2, <2>3, <2>4, <2>5, <2>7, <2>8, <3>1, LdaFetchDescending DEF LdaPoll
    <2>9. CASE Ascending
      <3>1. ~Descending
        BY <2>9 DEF Descending, Ascending
      <3> QED
        BY <1>2, <2>1, <2>2, <2>3, <2>4, <2>5, <2>9, <3>1, LdaFetchAscending DEF LdaPoll
    <2>10. CASE ~Descending /\ ~Ascending
      BY <2>1, <2>2, <2>3, <2>4, <2>5, <2>10 DEF LdaPoll
    <2> QED
      BY <2>8, <2>9, <2>10
  <1>3. CASE Lda!StoreEvents
    BY <1>3 DEF Lda!StoreEvents, LdaPoll, Descending, Ascending, Lda!Unseen
  <1>4. CASE Lda!CommitPoll
    BY <1>4 DEF Lda!CommitPoll, LdaPoll
  <1>5. CASE Lda!Select
    BY <1>5 DEF Lda!Select, LdaPoll
  <1>6. CASE Lda!SyncMarket
    BY <1>6 DEF Lda!SyncMarket, Lda!Proceed, LdaPoll
  <1>7. CASE Lda!Score
    BY <1>7 DEF Lda!Score, LdaPoll
  <1>8. CASE Lda!Acknowledge
    BY <1>8 DEF Lda!Acknowledge, LdaPoll
  <1>9. CASE Lda!RefreshScorecard
    BY <1>9 DEF Lda!RefreshScorecard, LdaPoll
  <1>10. CASE Lda!FallBack
    <2>1. PICK taken \in 0 .. now :
             run' = [run EXCEPT !.relay = run.page, !.snapshot = Lda!InWindow(taken)]
      BY <1>10 DEF Lda!FallBack
    <2>2. run.relay = 0 /\ pc = "poll" /\ pc' = "poll" /\ now' = now
      BY <1>10 DEF Lda!FallBack
    <2>3. run.page >= 1 /\ run.page \in Nat
      BY <2>2 DEF LdaPoll, LdaType
    <2>4. /\ run'.relay = run.page /\ run'.snapshot = Lda!InWindow(taken)
          /\ UNCHANGED <<run.cutoff, run.cursor, run.page, run.seen>>
      BY <2>1 DEF LdaType
    <2>5. /\ Lda!Window' = Lda!Window /\ Passed' = Passed
          /\ \A f : Lda!Unseen(f)' <=> Lda!Unseen(f)
      BY <2>4 DEF Lda!Window, Lda!Unseen, Passed
    <2>6. /\ \A t : Lda!InWindow(t)' = Lda!InWindow(t)
          /\ \A f : Before(f)' = Before(f)
      BY <2>5 DEF Lda!InWindow, Before
    <2>7. ~Descending'
      BY <2>3, <2>4 DEF Descending
    <2>8. ASSUME Ascending', NEW f \in Filing
          PROVE  /\ Lda!Unseen(f)' /\ Cardinality(Before(f))' < Passed' => f \in run'.seen
                 /\ f \in run'.seen => Cardinality(Before(f))' < Passed'
      <3>1. CASE Ascending
        BY <2>2, <2>4, <2>5, <2>6, <3>1 DEF LdaPoll
      <3>2. CASE ~Ascending
        <4>1. run.page = 1
          BY <2>4, <2>8, <3>2 DEF Ascending
        <4>2. run.seen = {} /\ Passed = 0
          BY <2>2, <4>1, LdaAssumption DEF LdaPoll, Passed
        <4>3. Before(f) \in SUBSET Filing
          BY LdaWindow DEF Before
        <4>4. Cardinality(Before(f)) \in Nat
          BY <4>3, LdaWindow
        <4> QED
          BY <2>4, <2>5, <2>6, <4>2, <4>4
      <3> QED
        BY <3>1, <3>2
    <2> QED
      BY <2>2, <2>3, <2>4, <2>6, <2>7, <2>8 DEF LdaPoll
  <1>11. CASE Lda!Abort
    BY <1>11 DEF Lda!Abort, LdaPoll
  <1>12. CASE Lda!Tick
    <2>1. now' = now + 1 /\ now \in Nat /\ UNCHANGED <<run, pc>>
      BY <1>12, BoundsAssumption DEF LdaType, Lda!TypeOK, Lda!Tick
    <2>2. /\ Lda!Window' = Lda!Window /\ Passed' = Passed
          /\ \A f : Lda!Unseen(f)' <=> Lda!Unseen(f)
      BY <2>1 DEF Lda!Window, Lda!Unseen, Passed
    <2>3. /\ \A t : Lda!InWindow(t)' = Lda!InWindow(t)
          /\ \A f : Before(f)' = Before(f)
          /\ Descending' = Descending /\ Ascending' = Ascending
      BY <2>1, <2>2 DEF Lda!InWindow, Before, Descending, Ascending
    <2>4. pc = "poll" /\ run.relay > 0 =>
             \E taken \in 0 .. now' : run'.snapshot = Lda!InWindow(taken)'
      BY <2>1, <2>3 DEF LdaPoll
    <2>5. ASSUME pc = "poll", Descending, NEW f \in Filing, Lda!Unseen(f),
                 Lda!Rank(f, Lda!InWindow(now))' < Passed
          PROVE  f \in run.seen
      <3>1. Passed \in Nat
        BY <2>5, LdaAssumption DEF LdaPoll, LdaType, Passed
      <3>2. Lda!Rank(f, Lda!InWindow(now)) < Passed
        BY <1>12, <1>0, <2>5, <3>1, LdaTickRank
      <3> QED
        BY <2>5, <3>2 DEF LdaPoll
    <2> QED
      BY <2>1, <2>2, <2>3, <2>4, <2>5 DEF LdaPoll
  <1> QED
    BY <1>1, <1>2, <1>3, <1>4, <1>5, <1>6, <1>7, <1>8, <1>9, <1>10, <1>11, <1>12
    DEF Lda!Next, Lda!RunStep

-----------------------------------------------------------------------------
(* LdaLane: what the properties need of a step and of a state.              *)

\* What is accounted for stays so.
LEMMA LdaAccounted ==
    ASSUME LdaType, LdaFiles, LdaBatches, Lda!Next
    PROVE  Lda!Accounted \subseteq Lda!Accounted'
  <1> USE DEF LdaType, Lda!TypeOK, Lda!Accounted, Lda!Scored
  <1>1. CASE Lda!StartRun
    BY <1>1 DEF Lda!StartRun, Lda!NoRun
  <1>2. CASE Lda!FetchPage
    BY <1>2 DEF Lda!FetchPage
  <1>3. CASE Lda!StoreEvents
    BY <1>3 DEF Lda!StoreEvents
  <1>4. CASE Lda!CommitPoll
    BY <1>4, LdaCommit
  <1>5. CASE Lda!Select
    BY <1>5 DEF Lda!Select
  <1>6. CASE Lda!SyncMarket
    BY <1>6 DEF Lda!SyncMarket, Lda!Proceed, Lda!NoRun
  <1>7. CASE Lda!Score
    BY <1>7 DEF Lda!Score
  <1>8. CASE Lda!Acknowledge
    <2>1. run.ready \subseteq Lda!Scored
      BY <1>8 DEF Lda!Acknowledge, LdaBatches, Lda!Batch
    <2> QED
      BY <1>8, <2>1 DEF Lda!Acknowledge
  <1>9. CASE Lda!RefreshScorecard
    BY <1>9 DEF Lda!RefreshScorecard, Lda!NoRun
  <1>10. CASE Lda!FallBack
    BY <1>10 DEF Lda!FallBack
  <1>11. CASE Lda!Abort
    BY <1>11 DEF Lda!Abort, Lda!NoRun
  <1>12. CASE Lda!Tick
    BY <1>12 DEF Lda!Tick
  <1> QED
    BY <1>1, <1>2, <1>3, <1>4, <1>5, <1>6, <1>7, <1>8, <1>9, <1>10, <1>11, <1>12
    DEF Lda!Next, Lda!RunStep

LEMMA LdaCursorMoves ==
    ASSUME Lda!Next, intake'.cursor # intake.cursor, LdaType
    PROVE  Lda!CommitPoll
  BY DEF Lda!Next, Lda!RunStep, Lda!StartRun, Lda!FetchPage, Lda!StoreEvents, Lda!Select,
         Lda!SyncMarket, Lda!Score, Lda!Acknowledge, Lda!RefreshScorecard, Lda!FallBack,
         Lda!Abort, Lda!Tick, LdaType, Lda!TypeOK

LEMMA LdaCursorStep ==
    ASSUME LdaType, LdaFiles, LdaBatches, LdaPoll, Lda!Next
    PROVE  Lda!CursorStep
  <1>1. ASSUME NEW f \in Modelled, intake.cursor < f, f <= intake'.cursor,
               ~(intake.cursor = 0 /\ Lda!TooOld(f, run.cutoff)), ~(NewestFirst /\ run.relay > 1)
        PROVE  f \in Lda!Accounted'
    <2>1. f \in Filing /\ {0} \cup Filing \subseteq Nat /\ intake.cursor \in {0} \cup Filing
          /\ run.cutoff \in Int /\ run.relay \in Nat
      BY LdaAssumption, BoundsAssumption DEF LdaType, Lda!TypeOK
    <2>2. Lda!CommitPoll
      BY <1>1, <2>1, LdaCursorMoves
    <2>3. /\ intake'.cursor \in {intake.cursor} \cup run.seen
          /\ intake'.pending = intake.pending \cup ((run.seen \cap Modelled) \ intake.stale)
          /\ intake'.stale = intake.stale
          /\ pc = "commit"
      BY <2>2, LdaCommit
    <2>4. intake'.cursor \in run.seen /\ intake'.cursor \in Filing
      BY <1>1, <2>1, <2>3 DEF LdaType
    <2>5. run.cursor = intake.cursor /\ Lda!Unseen(intake'.cursor)
      BY <2>3, <2>4 DEF LdaFiles
    <2>6. PostedAt[f] <= run.cutoff
      <3>1. PostedAt[f] <= PostedAt[intake'.cursor] /\ PostedAt[f] \in Nat
            /\ PostedAt[intake'.cursor] \in Nat
        BY <1>1, <2>1, <2>4, LdaAssumption
      <3> QED
        BY <2>1, <2>5, <3>1 DEF Lda!Unseen
    <2>7. Lda!Unseen(f)
      BY <1>1, <2>1, <2>5, <2>6 DEF Lda!Unseen
    <2>8. Descending \/ Ascending
      BY <1>1, <2>1, LdaAssumption DEF Descending, Ascending
    <2>9. f \in run.seen
      <3>1. CASE f = intake'.cursor
        BY <2>4, <3>1
      <3>2. CASE f # intake'.cursor
        <4>1. f < intake'.cursor
          BY <1>1, <2>1, <2>4, <3>2
        <4> QED
          BY <2>1, <2>3, <2>4, <2>7, <2>8, <4>1 DEF LdaPoll
      <3> QED
        BY <3>1, <3>2
    <2> QED
      BY <2>3, <2>9 DEF Lda!Accounted
  <1> QED
    BY <1>1, LdaAccounted DEF Lda!CursorStep

LEMMA LdaEvidence ==
    ASSUME LdaType, LdaBatches
    PROVE  Lda!EvidenceOnce
  BY BoundsAssumption DEF LdaType, Lda!TypeOK, LdaBatches, Lda!EvidenceOnce

-----------------------------------------------------------------------------
(* UsaspendingLane: types.                                                  *)

LEMMA UsaTypeInit == Usa!Init => UsaType
  <1> SUFFICES ASSUME Usa!Init PROVE UsaType
    OBVIOUS
  <1> USE UsaAssumption, BoundsAssumption DEF Usa!Init, Usa!NoRun
  <1>1. \A t \in Legacy : Usa!KnownAs(AwardOf[t]) \in Company
    BY DEF Usa!KnownAs
  <1>2. PICK pending \in SUBSET Legacy : \E handled \in SUBSET (Legacy \ pending) :
          /\ intake = [watermark |-> IF handled \cup pending = {} THEN None ELSE 0,
                       pending |-> pending, handled |-> handled]
          /\ \E scored \in {handled, Legacy} :
               diagnostics = IF handled = {} THEN {} ELSE {[target |-> 1, events |-> scored]}
    OBVIOUS
  <1>3. PICK handled \in SUBSET (Legacy \ pending) :
          /\ intake = [watermark |-> IF handled \cup pending = {} THEN None ELSE 0,
                       pending |-> pending, handled |-> handled]
          /\ \E scored \in {handled, Legacy} :
               diagnostics = IF handled = {} THEN {} ELSE {[target |-> 1, events |-> scored]}
    BY <1>2
  <1>4. PICK scored \in {handled, Legacy} :
          diagnostics = IF handled = {} THEN {} ELSE {[target |-> 1, events |-> scored]}
    BY <1>3
  <1>5. Legacy \subseteq Transaction
    OBVIOUS
  <1>6. /\ intake \in [watermark : {None} \cup 0 .. MaxTime,
                       pending : SUBSET Transaction, handled : SUBSET Transaction]
        /\ intake.watermark \in {None} \cup 0 .. MaxTime
        /\ intake.pending \subseteq Transaction /\ intake.handled \subseteq Transaction
        /\ intake.pending \cap intake.handled = {}
    BY <1>3, <1>5
  <1>7. diagnostics \subseteq [target : Int, events : SUBSET Transaction]
    BY <1>4, <1>5
  <1>8. now \in 1 .. MaxTime /\ invalidated = {} /\ migration = None /\ aborts \in 0 .. MaxAborts
    OBVIOUS
  <1>9. /\ DOMAIN stored = Transaction
        /\ \A t \in Usa!Stored : stored[t] \in [company : Company, at : 0 .. now]
    BY <1>1, <1>5 DEF Usa!Stored
  <1>10. run \in [cutoff : 0 .. now, after : Int, page : Nat, index : SUBSET Verified,
                  found : SUBSET [id : Transaction, company : Company],
                  recovered : SUBSET Transaction, unmapped : SUBSET Award,
                  unmatched : SUBSET Transaction, selected : SUBSET Transaction,
                  ready : SUBSET Transaction]
    BY <1>8
  <1>11. aliases = {} /\ pc = "idle"
    OBVIOUS
  <1> QED
    BY <1>6, <1>7, <1>8, <1>9, <1>10, <1>11 DEF UsaType, Usa!TypeOK

LEMMA UsaListing ==
    ASSUME UsaType
    PROVE  Usa!Listing \subseteq Award
  BY UsaAssumption DEF Usa!Listing

LEMMA UsaVouched == UsaType => Usa!VerifiedIndex \subseteq Verified
  <1> SUFFICES ASSUME UsaType, NEW t \in Usa!Stored, Uei[AwardOf[t]].recipient # None
               PROVE  <<Uei[AwardOf[t]].recipient, stored[t].company>> \in Verified
    BY DEF Usa!VerifiedIndex
  <1>1. AwardOf[t] \in Award
    BY UsaAssumption DEF Usa!Stored
  <1>2. stored[t].company \in Company
    BY DEF UsaType
  <1> QED
    BY <1>1, <1>2 DEF Verified, Usa!Identifiers

\* What reading an award leaves behind.
LEMMA UsaReads ==
    ASSUME UsaType, NEW a \in Usa!Listing, NEW company \in Company,
           NEW unmatched \in SUBSET (Usa!Rows(a) \cap Doubtful),
           Usa!ReadAward(a, company, unmatched)
    PROVE  /\ run'.page = run.page + 1 /\ run'.index = run.index \cup Usa!Identified(a, company)
           /\ run'.found = run.found \cup {[id |-> t, company |-> company] :
                              t \in {x \in Usa!Matched(a, unmatched) : ~Usa!Known(x)}}
           /\ run'.recovered = run.recovered \cup Usa!Recovered(Usa!Matched(a, unmatched))
           /\ run'.unmatched = run.unmatched \cup unmatched
           /\ UNCHANGED <<run.cutoff, run.after, run.unmapped, run.selected, run.ready>>
           /\ aliases' = aliases \cup Usa!Remembered(a, company)
           /\ UNCHANGED <<now, intake, stored, diagnostics, invalidated, migration, pc, aborts>>
           /\ pc = "poll" /\ Usa!Rank(a) = run.page - 1
           /\ DOMAIN run' = DOMAIN run /\ run' = [f \in DOMAIN run |-> run'[f]]
  BY DEF Usa!ReadAward, Usa!Reading, UsaType

LEMMA UsaSkips ==
    ASSUME UsaType, NEW a \in Usa!Listing, Usa!SkipAward(a)
    PROVE  /\ run'.page = run.page + 1 /\ run'.unmapped = run.unmapped \cup {a}
           /\ UNCHANGED <<run.cutoff, run.after, run.index, run.found, run.recovered,
                          run.unmatched, run.selected, run.ready>>
           /\ UNCHANGED <<now, intake, stored, aliases, diagnostics, invalidated, migration,
                          pc, aborts>>
           /\ pc = "poll" /\ Usa!Rank(a) = run.page - 1
           /\ DOMAIN run' = DOMAIN run /\ run' = [f \in DOMAIN run |-> run'[f]]
  BY DEF Usa!SkipAward, Usa!Reading, UsaType

\* A run that a changed company ends.
LEMMA UsaChanged ==
    ASSUME NEW a, NEW company, NEW unmatched, Usa!CompanyChanged(a, company, unmatched)
    PROVE  /\ pc = "poll" /\ pc' = "idle" /\ run' = Usa!NoRun
           /\ aliases' = aliases \cup Usa!Remembered(a, company)
           /\ UNCHANGED <<now, intake, stored, diagnostics, invalidated, migration, aborts>>
  BY DEF Usa!CompanyChanged, Usa!Reading

\* What a name confirms, and what a poll indexes, are identifiers of awards.
LEMMA UsaRemembers ==
    ASSUME UsaType, NEW a \in Award, NEW company \in Company
    PROVE  /\ Usa!Identified(a, company) \subseteq Verified
           /\ Usa!Remembered(a, company) \subseteq Verified
  BY DEF Usa!Identified, Usa!Remembered, Verified

\* The rows of an award that fit a detail.
LEMMA UsaMatches ==
    ASSUME NEW a, NEW unmatched
    PROVE  /\ Usa!Rows(a) \subseteq Transaction
           /\ Usa!Matched(a, unmatched) \subseteq Usa!Rows(a)
           /\ Usa!Recovered(Usa!Matched(a, unmatched)) \subseteq
                 Usa!Matched(a, unmatched) \cap Usa!Stored
  BY DEF Usa!Rows, Usa!Matched, Usa!Recovered, Usa!Known, Usa!Stored

LEMMA UsaTypeNext ==
    ASSUME UsaType, Usa!Next
    PROVE  UsaType'
  <1> USE UsaAssumption, BoundsAssumption DEF UsaType, Usa!TypeOK
  <1>1. CASE Usa!StartRun
    <2>1. /\ run' = [cutoff |-> now, after |-> 0, page |-> 0, index |-> {}, found |-> {},
                     recovered |-> {}, unmapped |-> {}, unmatched |-> {},
                     selected |-> {}, ready |-> {}]
          /\ pc' \in {"invalidate", "begin"}
          /\ UNCHANGED <<now, intake, stored, aliases, diagnostics, invalidated, migration, aborts>>
      BY <1>1 DEF Usa!StartRun, Usa!NoRun
    <2>2. now \in 0 .. now
      OBVIOUS
    <2> QED
      BY <2>1, <2>2 DEF Usa!Stored
  <1>2. CASE Usa!InvalidateBatches
    BY <1>2 DEF Usa!InvalidateBatches, Usa!Stored
  <1>3. CASE Usa!DisposeOutdated
    BY <1>3 DEF Usa!DisposeOutdated, Usa!Stored, Usa!Handle
  <1>4. CASE Usa!FinishMigration
    <2>1. Usa!Outdated \subseteq Transaction
      BY DEF Usa!Outdated, Usa!Stored
    <2> QED
      BY <1>4, <2>1 DEF Usa!FinishMigration, Usa!Stored
  <1>5. CASE Usa!BeginPoll
    <2>1. PICK after \in Int : run' = [run EXCEPT !.page = 1, !.index = Usa!VerifiedIndex, !.after = after]
      <3>1. intake.watermark = None \/ intake.watermark \in 0 .. MaxTime
        OBVIOUS
      <3>2. Usa!Day(run.cutoff) \in Int
        BY DEF Usa!Day
      <3>3. intake.watermark \in 0 .. MaxTime => Usa!Day(intake.watermark) \in Int
        BY DEF Usa!Day
      <3> DEFINE after == IF intake.watermark = None THEN Usa!Day(run.cutoff) - Lookback
                                                      ELSE Usa!Day(intake.watermark) - Overlap
      <3>4. run' = [run EXCEPT !.page = 1, !.index = Usa!VerifiedIndex, !.after = after]
        BY <1>5 DEF Usa!BeginPoll
      <3>5. after \in Int
        BY <3>1, <3>2, <3>3
      <3> HIDE DEF after
      <3> QED
        BY <3>4, <3>5
    <2>2. Usa!VerifiedIndex \subseteq Verified
      BY UsaVouched
    <2>3. /\ pc' = "poll"
          /\ UNCHANGED <<now, intake, stored, aliases, diagnostics, invalidated, migration, aborts>>
      BY <1>5 DEF Usa!BeginPoll
    <2> QED
      BY <2>1, <2>2, <2>3 DEF Usa!Stored
  <1>6. ASSUME NEW a \in Usa!Listing, Usa!SkipAward(a) PROVE UsaType'
    <2>1. a \in Award
      BY UsaListing
    <2>2. run' \in [cutoff : 0 .. now, after : Int, page : Nat, index : SUBSET Verified,
                    found : SUBSET [id : Transaction, company : Company],
                    recovered : SUBSET Transaction, unmapped : SUBSET Award,
                    unmatched : SUBSET Transaction, selected : SUBSET Transaction,
                    ready : SUBSET Transaction]
      <3>1. run' = [run EXCEPT !.page = run.page + 1, !.unmapped = run.unmapped \cup {a}]
        BY <1>6 DEF Usa!SkipAward
      <3>2. run.page + 1 \in Nat /\ run.unmapped \cup {a} \in SUBSET Award
        BY <2>1
      <3> HIDE DEF Usa!TypeOK
      <3> QED
        BY <3>1, <3>2
    <2> QED
      BY <1>6, <2>2, UsaSkips DEF Usa!Stored
  <1>17. ASSUME NEW a \in Usa!Listing, NEW company \in Company,
                NEW unmatched \in SUBSET (Usa!Rows(a) \cap Doubtful),
                Usa!ReadAward(a, company, unmatched)
         PROVE  UsaType'
    <2> DEFINE found == run.found \cup {[id |-> t, company |-> company] :
                            t \in {x \in Usa!Matched(a, unmatched) : ~Usa!Known(x)}}
               index == run.index \cup Usa!Identified(a, company)
               recovered == run.recovered \cup Usa!Recovered(Usa!Matched(a, unmatched))
    <2>1. a \in Award
      BY UsaListing
    <2>2. /\ UNCHANGED <<now, intake, stored, diagnostics, invalidated, migration, pc, aborts>>
          /\ aliases' = aliases \cup Usa!Remembered(a, company)
      BY <1>17, UsaReads
    <2>3. aliases' \subseteq Verified /\ index \subseteq Verified
      BY <2>1, <2>2, UsaRemembers
    <2>4. Usa!Matched(a, unmatched) \subseteq Transaction /\ recovered \subseteq Transaction
          /\ unmatched \subseteq Transaction
      BY UsaMatches
    <2>5. found \subseteq [id : Transaction, company : Company]
      BY <2>4
    <2>6. run' = [run EXCEPT !.page = run.page + 1, !.index = index, !.found = found,
                             !.recovered = recovered, !.unmatched = run.unmatched \cup unmatched]
      BY <1>17 DEF Usa!ReadAward
    <2>7. run.page + 1 \in Nat /\ run.unmatched \cup unmatched \in SUBSET Transaction
      BY <2>4
    <2> HIDE DEF found, index, recovered
    <2>8. run' \in [cutoff : 0 .. now, after : Int, page : Nat, index : SUBSET Verified,
                    found : SUBSET [id : Transaction, company : Company],
                    recovered : SUBSET Transaction, unmapped : SUBSET Award,
                    unmatched : SUBSET Transaction, selected : SUBSET Transaction,
                    ready : SUBSET Transaction]
      <3> HIDE DEF Usa!TypeOK
      <3> QED
        BY <2>3, <2>4, <2>5, <2>6, <2>7
    <2>9. Usa!TypeOK'
      BY <2>2, <2>3 DEF Verified
    <2> QED
      BY <2>2, <2>3, <2>8, <2>9 DEF Usa!Stored
  <1>18. ASSUME NEW a \in Usa!Listing, NEW company \in Company,
                NEW unmatched \in SUBSET (Usa!Rows(a) \cap Doubtful),
                Usa!CompanyChanged(a, company, unmatched)
         PROVE  UsaType'
    <2>1. a \in Award
      BY UsaListing
    <2>2. aliases' \subseteq Verified
      <3>1. aliases' = aliases \cup Usa!Remembered(a, company)
        BY <1>18, UsaChanged
      <3>2. Usa!Remembered(a, company) \subseteq Verified
        BY <2>1, UsaRemembers
      <3> QED
        BY <3>1, <3>2
    <2>3. pc' = "idle" /\ run' = Usa!NoRun
          /\ UNCHANGED <<now, intake, stored, diagnostics, invalidated, migration, aborts>>
      BY <1>18, UsaChanged
    <2>4. Usa!TypeOK'
      BY <2>2, <2>3 DEF Verified
    <2>5. 0 \in 0 .. now
      OBVIOUS
    <2>6. run' \in [cutoff : 0 .. now, after : Int, page : Nat, index : SUBSET Verified,
                    found : SUBSET [id : Transaction, company : Company],
                    recovered : SUBSET Transaction, unmapped : SUBSET Award,
                    unmatched : SUBSET Transaction, selected : SUBSET Transaction,
                    ready : SUBSET Transaction]
      BY <2>3, <2>5 DEF Usa!NoRun
    <2> QED
      BY <2>2, <2>3, <2>4, <2>6 DEF Usa!Stored
  <1>7. CASE Usa!EndOfListing
    BY <1>7 DEF Usa!EndOfListing, Usa!Stored
  <1>8. CASE Usa!StoreEvents
    <2>1. /\ stored' = [t \in Transaction |->
               IF t \in Usa!Found /\ stored[t] = None
               THEN [company |-> Usa!CompanyFound(t), at |-> run.cutoff] ELSE stored[t]]
          /\ pc' = "commit"
          /\ UNCHANGED <<now, intake, aliases, diagnostics, invalidated, migration, run, aborts>>
      BY <1>8 DEF Usa!StoreEvents
    <2>2. \A t \in Usa!Found : Usa!CompanyFound(t) \in Company
      BY DEF Usa!Found, Usa!CompanyFound
    <2>3. \A t \in Usa!Stored' : stored'[t] \in [company : Company, at : 0 .. now]
      BY <2>1, <2>2 DEF Usa!Stored
    <2> QED
      BY <2>1, <2>3
  <1>9. CASE Usa!CommitPoll
    <2>1. Usa!Found \subseteq Transaction
      BY DEF Usa!Found
    <2>2. PICK watermark \in 0 .. MaxTime :
            intake' = [intake EXCEPT !.watermark = watermark,
              !.pending = intake.pending \cup ((Usa!Found \cup run.recovered) \ intake.handled)]
      <3>1. run.cutoff \in 0 .. MaxTime
        OBVIOUS
      <3>2. intake.watermark # None => Usa!Max({intake.watermark, run.cutoff}) \in 0 .. MaxTime
        <4> SUFFICES ASSUME intake.watermark # None
                     PROVE  Usa!Max({intake.watermark, run.cutoff}) \in 0 .. MaxTime
          OBVIOUS
        <4> DEFINE S == {intake.watermark, run.cutoff}
        <4>1. intake.watermark \in 0 .. MaxTime
          OBVIOUS
        <4>2. S \subseteq 0 .. MaxTime /\ S # {} /\ S \in SUBSET Int
          BY <3>1, <4>1
        <4>3. IsFiniteSet(S)
          <5>1. IsFiniteSet({intake.watermark}) /\ IsFiniteSet({intake.watermark} \cup {run.cutoff})
            BY FS_Singleton, FS_AddElement
          <5>2. S = {intake.watermark} \cup {run.cutoff}
            OBVIOUS
          <5> HIDE DEF S
          <5> QED
            BY <5>1, <5>2, Zenon
        <4> HIDE DEF S
        <4>4. Lda!Max(S) \in S
          BY <4>2, <4>3, MaxOfIntegers
        <4>5. Usa!Max(S) = Lda!Max(S)
          BY DEF Usa!Max, Lda!Max
        <4> QED
          BY <4>2, <4>4, <4>5 DEF S
      <3>3. intake' = [intake EXCEPT
              !.watermark = IF intake.watermark = None THEN run.cutoff
                            ELSE Usa!Max({intake.watermark, run.cutoff}),
              !.pending = intake.pending \cup ((Usa!Found \cup run.recovered) \ intake.handled)]
        BY <1>9 DEF Usa!CommitPoll
      <3> QED
        BY <3>1, <3>2, <3>3
    <2>3. /\ pc' = "select"
          /\ UNCHANGED <<now, stored, aliases, diagnostics, invalidated, migration, run, aborts>>
      BY <1>9 DEF Usa!CommitPoll
    <2> QED
      BY <2>1, <2>2, <2>3 DEF Usa!Stored
  <1>10. CASE Usa!Select
    BY <1>10 DEF Usa!Select, Usa!Stored, Usa!Handle
  <1>11. CASE Usa!SyncMarket
    <2>1. /\ pc' \in {"idle", "score"}
          /\ UNCHANGED <<now, intake, stored, aliases, diagnostics, invalidated, migration, aborts>>
      BY <1>11 DEF Usa!SyncMarket, Usa!Proceed
    <2>2. PICK ready \in SUBSET Transaction :
             run' = Usa!NoRun \/ run' = [run EXCEPT !.ready = ready]
      <3>1. PICK companies : Usa!Proceed({t \in run.selected : stored[t].company \in companies})
        BY <1>11 DEF Usa!SyncMarket
      <3> QED
        BY <3>1 DEF Usa!Proceed
    <2>3. 0 \in 0 .. now
      OBVIOUS
    <2>4. run' \in [cutoff : 0 .. now, after : Int, page : Nat, index : SUBSET Verified,
                    found : SUBSET [id : Transaction, company : Company],
                    recovered : SUBSET Transaction, unmapped : SUBSET Award,
                    unmatched : SUBSET Transaction, selected : SUBSET Transaction,
                    ready : SUBSET Transaction]
      <3> HIDE DEF Usa!TypeOK
      <3>1. CASE run' = Usa!NoRun
        BY <2>3, <3>1 DEF Usa!NoRun
      <3>2. CASE run' = [run EXCEPT !.ready = ready]
        BY <3>2
      <3> QED
        BY <2>2, <3>1, <3>2
    <2> QED
      BY <2>1, <2>4 DEF Usa!Stored
  <1>12. CASE Usa!Score
    <2>1. [target |-> Usa!Target(run.cutoff), events |-> run.ready] \in [target : Int, events : SUBSET Transaction]
      BY DEF Usa!Target
    <2> QED
      BY <1>12, <2>1 DEF Usa!Score, Usa!Stored
  <1>13. CASE Usa!Acknowledge
    BY <1>13 DEF Usa!Acknowledge, Usa!Stored, Usa!Handle
  <1>14. CASE Usa!RefreshScorecard
    BY <1>14 DEF Usa!RefreshScorecard, Usa!Stored, Usa!NoRun
  <1>15. CASE Usa!Abort
    BY <1>15 DEF Usa!Abort, Usa!Stored, Usa!NoRun
  <1>16. CASE Usa!Tick
    BY <1>16 DEF Usa!Tick, Usa!Stored
  <1> QED
    BY <1>1, <1>2, <1>3, <1>4, <1>5, <1>6, <1>7, <1>8, <1>9, <1>10, <1>11, <1>12,
       <1>13, <1>14, <1>15, <1>16, <1>17, <1>18
    DEF Usa!Next, Usa!RunStep, Usa!NextAward

-----------------------------------------------------------------------------
(* UsaspendingLane: the files, the migration, and the way of a batch.       *)

\* What is stored stays as it is, and what is found is stored.
LEMMA UsaStores ==
    ASSUME UsaType, Usa!StoreEvents
    PROVE  /\ Usa!Stored' = Usa!Stored \cup Usa!Found
           /\ \A t \in Usa!Stored : stored'[t] = stored[t]
           /\ \A t \in Usa!Stored' \ Usa!Stored : stored'[t].at = run.cutoff
           /\ Usa!Found \subseteq Transaction
           /\ pc = "store" /\ pc' = "commit"
           /\ UNCHANGED <<now, intake, aliases, diagnostics, invalidated, migration, run, aborts>>
  <1>1. /\ stored' = [t \in Transaction |->
             IF t \in Usa!Found /\ stored[t] = None
             THEN [company |-> Usa!CompanyFound(t), at |-> run.cutoff] ELSE stored[t]]
        /\ pc = "store" /\ pc' = "commit"
        /\ UNCHANGED <<now, intake, aliases, diagnostics, invalidated, migration, run, aborts>>
    BY DEF Usa!StoreEvents
  <1>2. \A t \in Usa!Found : Usa!CompanyFound(t) \in Company
    BY DEF UsaType, Usa!Found, Usa!CompanyFound
  <1>3. run.cutoff \in 0 .. MaxTime
    BY BoundsAssumption DEF UsaType, Usa!TypeOK
  <1>4. \A t \in Usa!Found : [company |-> Usa!CompanyFound(t), at |-> run.cutoff] # None
    BY <1>2, <1>3, UsaAssumption
  <1>5. Usa!Found \subseteq Transaction
    BY DEF UsaType, Usa!Found
  <1>6. Usa!Stored' = Usa!Stored \cup Usa!Found
    BY <1>1, <1>4, <1>5 DEF Usa!Stored
  <1>7. \A t \in Usa!Stored : stored'[t] = stored[t]
    BY <1>1 DEF Usa!Stored
  <1>8. \A t \in Usa!Stored' \ Usa!Stored : stored'[t].at = run.cutoff
    BY <1>1, <1>6 DEF Usa!Stored
  <1> QED
    BY <1>1, <1>5, <1>6, <1>7, <1>8

\* An action that is fresh at a run's cutoff was not stale when it was observed.
LEMMA UsaFresh ==
    ASSUME UsaType, NEW t \in Usa!Stored, stored[t].at <= run.cutoff,
           Usa!Fresh(t, Usa!Day(run.cutoff))
    PROVE  ~Usa!StaleAction(t, Usa!Day(stored[t].at))
  <1>1. ActionDay[t] \in Int /\ MaxLag \in Int /\ stored[t].at \in Int /\ run.cutoff \in Int
    BY UsaAssumption, BoundsAssumption DEF UsaType, Usa!TypeOK, Usa!Stored
  <1>2. /\ Usa!Day(stored[t].at) <= Usa!Day(run.cutoff)
        /\ Usa!Day(stored[t].at) \in Int /\ Usa!Day(run.cutoff) \in Int
    BY <1>1 DEF Usa!Day
  <1> QED
    BY <1>1, <1>2 DEF Usa!Fresh, Usa!StaleAction

LEMMA UsaFilesNext ==
    ASSUME UsaType, UsaFiles, UsaBatches, Usa!Next
    PROVE  UsaFiles'
  <1> USE DEF UsaFiles, Usa!Stored, Usa!Found, Usa!Fresh, Usa!StaleAction, Usa!Day
  <1>1. CASE Usa!StartRun
    <2>1. run'.cutoff = now /\ run'.found = {} /\ run'.recovered = {} /\ pc' # "commit"
      BY <1>1 DEF Usa!StartRun, Usa!NoRun
    <2>2. UNCHANGED <<intake, stored, diagnostics>>
      BY <1>1 DEF Usa!StartRun
    <2>3. \A t \in Usa!Stored : stored[t].at <= now
      BY DEF UsaType, Usa!TypeOK
    <2> QED
      BY <2>1, <2>2, <2>3
  <1>2. CASE Usa!InvalidateBatches
    BY <1>2 DEF Usa!InvalidateBatches
  <1>3. CASE Usa!DisposeOutdated
    <2>1. intake'.pending \cup intake'.handled \subseteq intake.pending \cup intake.handled
      BY <1>3 DEF Usa!DisposeOutdated, Usa!Handle, UsaType
    <2> QED
      BY <1>3, <2>1 DEF Usa!DisposeOutdated, UsaType
  <1>4. CASE Usa!FinishMigration
    BY <1>4 DEF Usa!FinishMigration
  <1>5. CASE Usa!BeginPoll
    BY <1>5 DEF Usa!BeginPoll
  <1>6. ASSUME NEW a \in Usa!Listing, Usa!SkipAward(a) PROVE UsaFiles'
    BY <1>6, UsaSkips
  <1>17. ASSUME NEW a \in Usa!Listing, NEW company \in Company,
                NEW unmatched \in SUBSET (Usa!Rows(a) \cap Doubtful),
                Usa!ReadAward(a, company, unmatched)
         PROVE  UsaFiles'
    <2> DEFINE rows == Usa!Matched(a, unmatched)
    <2>1. /\ rows \subseteq Transaction
          /\ \A t \in rows : Usa!Fresh(t, Usa!Day(run.cutoff))
          /\ Usa!Recovered(rows) \subseteq Usa!Stored /\ Usa!Recovered(rows) \subseteq rows
      BY UsaMatches DEF Usa!Rows
    <2>2. UNCHANGED <<intake, stored, diagnostics, pc>> /\ pc = "poll"
          /\ run'.recovered = run.recovered \cup Usa!Recovered(rows)
          /\ run'.cutoff = run.cutoff
      BY <1>17, UsaReads
    <2>3. run'.found = run.found \cup {[id |-> t, company |-> company] :
                                         t \in {x \in rows : ~Usa!Known(x)}}
      BY <1>17, UsaReads
    <2> HIDE DEF rows
    <2>4. Usa!Found' \subseteq Usa!Found \cup rows
      BY <2>3 DEF Usa!Found
    <2> HIDE DEF Usa!Found
    <2> QED
      BY <2>1, <2>2, <2>4
  <1>18. ASSUME NEW a \in Usa!Listing, NEW company \in Company,
                NEW unmatched \in SUBSET (Usa!Rows(a) \cap Doubtful),
                Usa!CompanyChanged(a, company, unmatched)
         PROVE  UsaFiles'
    BY <1>18, UsaChanged DEF Usa!NoRun
  <1>7. CASE Usa!EndOfListing
    BY <1>7 DEF Usa!EndOfListing
  <1>8. CASE Usa!StoreEvents
    <2>1. /\ Usa!Stored' = Usa!Stored \cup Usa!Found
          /\ \A t \in Usa!Stored : stored'[t] = stored[t]
          /\ \A t \in Usa!Stored' \ Usa!Stored : stored'[t].at = run.cutoff
          /\ pc = "store" /\ pc' = "commit" /\ UNCHANGED <<intake, diagnostics, run>>
      BY <1>8, UsaStores
    <2>2. Usa!Found' = Usa!Found
      BY <2>1
    <2>3. run.cutoff \in Int
      BY DEF UsaType
    <2> HIDE DEF Usa!Found, Usa!Stored
    <2>4. \A t \in Usa!Stored' : stored'[t].at <= run'.cutoff
      BY <2>1, <2>3
    <2> QED
      BY <2>1, <2>2, <2>4
  <1>9. CASE Usa!CommitPoll
    <2>1. /\ intake'.pending = intake.pending \cup ((Usa!Found \cup run.recovered) \ intake.handled)
          /\ intake'.handled = intake.handled
      BY <1>9 DEF Usa!CommitPoll, UsaType
    <2>2. pc = "commit" /\ pc' = "select" /\ UNCHANGED <<stored, diagnostics, run>>
      BY <1>9 DEF Usa!CommitPoll
    <2> QED
      BY <2>1, <2>2
  <1>10. CASE Usa!Select
    <2>1. intake'.pending \cup intake'.handled \subseteq intake.pending \cup intake.handled
      BY <1>10 DEF Usa!Select, Usa!Handle, UsaType
    <2> QED
      BY <1>10, <2>1 DEF Usa!Select, UsaType
  <1>11. CASE Usa!SyncMarket
    BY <1>11 DEF Usa!SyncMarket, Usa!Proceed, Usa!NoRun
  <1>12. CASE Usa!Score
    BY <1>12 DEF Usa!Score, UsaBatches
  <1>13. CASE Usa!Acknowledge
    <2>1. intake'.pending \cup intake'.handled \subseteq intake.pending \cup intake.handled
      BY <1>13 DEF Usa!Acknowledge, Usa!Handle, UsaType
    <2> QED
      BY <1>13, <2>1 DEF Usa!Acknowledge, UsaType
  <1>14. CASE Usa!RefreshScorecard
    BY <1>14 DEF Usa!RefreshScorecard, Usa!NoRun
  <1>15. CASE Usa!Abort
    BY <1>15 DEF Usa!Abort, Usa!NoRun
  <1>16. CASE Usa!Tick
    BY <1>16 DEF Usa!Tick
  <1> QED
    BY <1>1, <1>2, <1>3, <1>4, <1>5, <1>6, <1>7, <1>8, <1>9, <1>10, <1>11, <1>12,
       <1>13, <1>14, <1>15, <1>16, <1>17, <1>18
    DEF Usa!Next, Usa!RunStep, Usa!NextAward

LEMMA UsaMigrationNext ==
    ASSUME UsaType, UsaFiles, UsaMigration, UsaBatches, Usa!Next
    PROVE  UsaMigration'
  <1>1. CASE Usa!StartRun
    BY <1>1 DEF Usa!StartRun,
           UsaMigration, Usa!OutdatedExcluded, Usa!Counted, Usa!Outdated, Usa!Stored, Usa!StaleAction, Usa!Day
  <1>2. CASE Usa!InvalidateBatches
    <2>1. /\ pc = "invalidate" /\ pc' = "dispose"
          /\ invalidated' = IF Usa!Outdated = {} THEN invalidated ELSE invalidated \cup diagnostics
          /\ UNCHANGED <<intake, stored, diagnostics, migration>>
      BY <1>2 DEF Usa!InvalidateBatches
    <2>2. Usa!Outdated' = Usa!Outdated
      BY <2>1 DEF Usa!Outdated, Usa!Stored, Usa!StaleAction, Usa!Day
    <2> QED
      BY <2>1, <2>2 DEF UsaMigration, Usa!OutdatedExcluded
  <1>3. CASE Usa!DisposeOutdated
    <2>1. /\ intake'.pending = intake.pending \ Usa!Outdated /\ pc = "dispose" /\ pc' = "migrate"
          /\ UNCHANGED <<stored, diagnostics, invalidated, migration, run>>
      BY <1>3 DEF Usa!DisposeOutdated, Usa!Handle, UsaType
    <2>2. Usa!Outdated' = Usa!Outdated
      BY <2>1 DEF Usa!Outdated, Usa!Stored, Usa!StaleAction, Usa!Day
    <2> QED
      BY <2>1, <2>2 DEF UsaMigration, Usa!OutdatedExcluded
  <1>4. CASE Usa!FinishMigration
    <2>1. /\ pc = "migrate" /\ pc' = "begin" /\ migration' = Usa!Outdated
          /\ UNCHANGED <<intake, stored, diagnostics, invalidated, run>>
      BY <1>4 DEF Usa!FinishMigration
    <2>2. migration' # None
      <3>1. Usa!Outdated \in SUBSET Transaction
        BY DEF Usa!Outdated, Usa!Stored
      <3> QED
        BY <2>1, <3>1, UsaAssumption
    <2>3. Usa!OutdatedExcluded'
      <3>1. \A t \in Usa!Stored : Usa!StaleAction(t, Usa!Day(stored[t].at)) => t \in Usa!Outdated
        BY DEF Usa!Outdated
      <3> QED
        BY <2>1, <2>2, <3>1
        DEF UsaMigration, Usa!OutdatedExcluded, Usa!Counted, Usa!Stored, Usa!StaleAction, Usa!Day
    <2> QED
      BY <2>1, <2>2, <2>3 DEF UsaMigration
  <1>5. CASE Usa!BeginPoll
    BY <1>5 DEF Usa!BeginPoll,
           UsaMigration, Usa!OutdatedExcluded, Usa!Counted, Usa!Outdated, Usa!Stored, Usa!StaleAction, Usa!Day
  <1>6. ASSUME NEW a \in Usa!Listing, Usa!SkipAward(a) PROVE UsaMigration'
    BY <1>6, UsaSkips
    DEF UsaMigration, Usa!OutdatedExcluded, Usa!Counted, Usa!Outdated, Usa!Stored, Usa!StaleAction,
        Usa!Day
  <1>17. ASSUME NEW a \in Usa!Listing, NEW company \in Company,
                NEW unmatched \in SUBSET (Usa!Rows(a) \cap Doubtful),
                Usa!ReadAward(a, company, unmatched)
         PROVE  UsaMigration'
    BY <1>17, UsaReads
    DEF UsaMigration, Usa!OutdatedExcluded, Usa!Counted, Usa!Outdated, Usa!Stored, Usa!StaleAction,
        Usa!Day
  <1>18. ASSUME NEW a \in Usa!Listing, NEW company \in Company,
                NEW unmatched \in SUBSET (Usa!Rows(a) \cap Doubtful),
                Usa!CompanyChanged(a, company, unmatched)
         PROVE  UsaMigration'
    BY <1>18, UsaChanged
    DEF UsaMigration, Usa!OutdatedExcluded, Usa!Counted, Usa!Outdated, Usa!Stored, Usa!StaleAction,
        Usa!Day
  <1>7. CASE Usa!EndOfListing
    BY <1>7 DEF Usa!EndOfListing,
           UsaMigration, Usa!OutdatedExcluded, Usa!Counted, Usa!Outdated, Usa!Stored, Usa!StaleAction, Usa!Day
  <1>8. CASE Usa!StoreEvents
    <2>1. /\ Usa!Stored' = Usa!Stored \cup Usa!Found
          /\ \A t \in Usa!Stored : stored'[t] = stored[t]
          /\ \A t \in Usa!Stored' \ Usa!Stored : stored'[t].at = run.cutoff
          /\ pc = "store" /\ pc' = "commit"
          /\ UNCHANGED <<intake, diagnostics, invalidated, migration, run>>
      BY <1>8, UsaStores
    <2>2. \A t \in Usa!Found : ~Usa!StaleAction(t, Usa!Day(run.cutoff))
      BY DEF UsaFiles, Usa!Fresh
    <2>3. migration # None
      BY <2>1 DEF UsaMigration
    <2>4. \A t \in Usa!Stored' : Usa!StaleAction(t, Usa!Day(stored'[t].at)) =>
             t \in Usa!Stored /\ Usa!StaleAction(t, Usa!Day(stored[t].at))
      BY <2>1, <2>2
    <2>5. Usa!OutdatedExcluded'
      BY <2>1, <2>3, <2>4 DEF UsaMigration, Usa!OutdatedExcluded, Usa!Counted, Usa!StaleAction, Usa!Day
    <2> QED
      BY <2>1, <2>3, <2>5 DEF UsaMigration
  <1>9. CASE Usa!CommitPoll
    <2>1. intake'.pending = intake.pending \cup ((Usa!Found \cup run.recovered) \ intake.handled)
      BY <1>9 DEF Usa!CommitPoll, UsaType
    <2>2. /\ pc = "commit" /\ pc' = "select"
          /\ UNCHANGED <<stored, diagnostics, invalidated, migration, run>>
      BY <1>9 DEF Usa!CommitPoll
    <2>3. \A t \in Usa!Found \cup run.recovered :
             t \in Usa!Stored /\ ~Usa!StaleAction(t, Usa!Day(stored[t].at))
      BY <2>2, UsaFresh DEF UsaFiles
    <2>4. migration # None
      BY <2>2 DEF UsaMigration
    <2>5. Usa!OutdatedExcluded'
      BY <2>1, <2>2, <2>3, <2>4
      DEF UsaMigration, Usa!OutdatedExcluded, Usa!Counted, Usa!Stored, Usa!StaleAction, Usa!Day
    <2> QED
      BY <2>2, <2>4, <2>5 DEF UsaMigration
  <1>10. CASE Usa!Select
    <2>1. intake'.pending \subseteq intake.pending /\ UNCHANGED <<stored, diagnostics, invalidated, migration>>
          /\ pc \notin {"idle", "invalidate", "dispose", "migrate"}
          /\ pc' \notin {"idle", "invalidate", "dispose", "migrate"}
      BY <1>10 DEF Usa!Select, Usa!Handle, UsaType
    <2>2. migration # None
      BY <2>1 DEF UsaMigration
    <2> QED
      BY <2>1, <2>2 DEF UsaMigration, Usa!OutdatedExcluded, Usa!Counted, Usa!Stored, Usa!StaleAction, Usa!Day
  <1>11. CASE Usa!SyncMarket
    BY <1>11 DEF Usa!SyncMarket, Usa!Proceed,
           UsaMigration, Usa!OutdatedExcluded, Usa!Counted, Usa!Outdated, Usa!Stored, Usa!StaleAction, Usa!Day
  <1>12. CASE Usa!Score
    <2>1. /\ diagnostics' = diagnostics \cup {[target |-> Usa!Target(run.cutoff), events |-> run.ready]}
          /\ pc = "score" /\ pc' = "acknowledge"
          /\ UNCHANGED <<intake, stored, invalidated, migration, run>>
      BY <1>12 DEF Usa!Score
    <2>2. migration # None /\ run.ready \subseteq intake.pending
      BY <2>1 DEF UsaMigration, UsaBatches
    <2>3. Usa!OutdatedExcluded'
      BY <2>1, <2>2
      DEF UsaMigration, Usa!OutdatedExcluded, Usa!Counted, Usa!Stored, Usa!StaleAction, Usa!Day
    <2> QED
      BY <2>1, <2>2, <2>3 DEF UsaMigration
  <1>13. CASE Usa!Acknowledge
    <2>1. intake'.pending \subseteq intake.pending /\ UNCHANGED <<stored, diagnostics, invalidated, migration>>
          /\ pc \notin {"idle", "invalidate", "dispose", "migrate"}
          /\ pc' \notin {"idle", "invalidate", "dispose", "migrate"}
      BY <1>13 DEF Usa!Acknowledge, Usa!Handle, UsaType
    <2>2. migration # None
      BY <2>1 DEF UsaMigration
    <2> QED
      BY <2>1, <2>2 DEF UsaMigration, Usa!OutdatedExcluded, Usa!Counted, Usa!Stored, Usa!StaleAction, Usa!Day
  <1>14. CASE Usa!RefreshScorecard
    BY <1>14 DEF Usa!RefreshScorecard,
           UsaMigration, Usa!OutdatedExcluded, Usa!Counted, Usa!Outdated, Usa!Stored, Usa!StaleAction, Usa!Day
  <1>15. CASE Usa!Abort
    BY <1>15 DEF Usa!Abort,
           UsaMigration, Usa!OutdatedExcluded, Usa!Counted, Usa!Outdated, Usa!Stored, Usa!StaleAction, Usa!Day
  <1>16. CASE Usa!Tick
    BY <1>16 DEF Usa!Tick,
           UsaMigration, Usa!OutdatedExcluded, Usa!Counted, Usa!Outdated, Usa!Stored, Usa!StaleAction, Usa!Day
  <1> QED
    BY <1>1, <1>2, <1>3, <1>4, <1>5, <1>6, <1>7, <1>8, <1>9, <1>10, <1>11, <1>12,
       <1>13, <1>14, <1>15, <1>16, <1>17, <1>18
    DEF Usa!Next, Usa!RunStep, Usa!NextAward

LEMMA UsaBatchesNext ==
    ASSUME UsaType, UsaFiles, UsaBatches, Usa!Next
    PROVE  UsaBatches'
  <1>1. CASE Usa!StartRun
    BY <1>1 DEF Usa!StartRun, Usa!NoRun, UsaType, UsaBatches, UsaBatch, Usa!Target, Usa!Intended, Usa!Day
  <1>2. CASE Usa!InvalidateBatches
    BY <1>2 DEF Usa!InvalidateBatches, UsaType, UsaBatches, UsaBatch, Usa!Target, Usa!Intended, Usa!Day
  <1>3. CASE Usa!DisposeOutdated
    <2>1. /\ intake.handled \subseteq intake'.handled /\ pc = "dispose" /\ pc' = "migrate"
          /\ UNCHANGED <<stored, diagnostics, run, aborts>>
      BY <1>3 DEF Usa!DisposeOutdated, Usa!Handle, UsaType
    <2> QED
      BY <2>1 DEF UsaBatches, UsaBatch, Usa!Intended, Usa!Day
  <1>4. CASE Usa!FinishMigration
    BY <1>4 DEF Usa!FinishMigration, UsaType, UsaBatches, UsaBatch, Usa!Target, Usa!Intended, Usa!Day
  <1>5. CASE Usa!BeginPoll
    BY <1>5 DEF Usa!BeginPoll, UsaType, UsaBatches, UsaBatch, Usa!Target, Usa!Intended, Usa!Day
  <1>6. ASSUME NEW a \in Usa!Listing, Usa!SkipAward(a) PROVE UsaBatches'
    <2>1. /\ UNCHANGED <<intake, stored, diagnostics, aborts, pc>> /\ pc = "poll"
          /\ UNCHANGED <<run.cutoff, run.selected, run.ready>>
      BY <1>6, UsaSkips
    <2> QED
      BY <2>1 DEF UsaBatches, UsaBatch, Usa!Intended, Usa!Day
  <1>17. ASSUME NEW a \in Usa!Listing, NEW company \in Company,
                NEW unmatched \in SUBSET (Usa!Rows(a) \cap Doubtful),
                Usa!ReadAward(a, company, unmatched)
         PROVE  UsaBatches'
    <2>1. /\ UNCHANGED <<intake, stored, diagnostics, aborts, pc>> /\ pc = "poll"
          /\ UNCHANGED <<run.cutoff, run.selected, run.ready>>
      BY <1>17, UsaReads
    <2> QED
      BY <2>1 DEF UsaBatches, UsaBatch, Usa!Intended, Usa!Day
  <1>18. ASSUME NEW a \in Usa!Listing, NEW company \in Company,
                NEW unmatched \in SUBSET (Usa!Rows(a) \cap Doubtful),
                Usa!CompanyChanged(a, company, unmatched)
         PROVE  UsaBatches'
    <2>1. /\ UNCHANGED <<intake, stored, diagnostics, aborts>> /\ pc = "poll" /\ pc' = "idle"
          /\ run'.selected = {} /\ run'.ready = {} /\ run.ready = {}
      BY <1>18, UsaChanged DEF Usa!NoRun, UsaBatches
    <2> QED
      BY <2>1 DEF UsaBatches, UsaBatch, Usa!Intended, Usa!Day
  <1>7. CASE Usa!EndOfListing
    BY <1>7 DEF Usa!EndOfListing, UsaType, UsaBatches, UsaBatch, Usa!Target, Usa!Intended, Usa!Day
  <1>8. CASE Usa!StoreEvents
    <2>1. /\ \A t \in Usa!Stored : stored'[t] = stored[t]
          /\ pc = "store" /\ pc' = "commit" /\ UNCHANGED <<intake, diagnostics, run, aborts>>
      BY <1>8, UsaStores
    <2>2. \A t \in Usa!Stored : Usa!Intended(t)' = Usa!Intended(t)
      BY <2>1 DEF Usa!Intended, Usa!Day
    <2>3. \A b \in diagnostics : b.events \subseteq Usa!Stored
      BY DEF UsaFiles
    <2> QED
      BY <2>1, <2>2, <2>3 DEF UsaBatches, UsaBatch
  <1>9. CASE Usa!CommitPoll
    <2>1. /\ intake'.handled = intake.handled /\ pc = "commit" /\ pc' = "select"
          /\ UNCHANGED <<stored, diagnostics, run, aborts>>
      BY <1>9 DEF Usa!CommitPoll, UsaType
    <2>2. run.ready = {}
      BY <2>1 DEF UsaBatches
    <2> QED
      BY <2>1, <2>2 DEF UsaBatches, UsaBatch, Usa!Intended, Usa!Day
  <1>10. CASE Usa!Select
    <2> DEFINE selected == {t \in intake.pending : Usa!Intended(t) = Usa!Target(run.cutoff)}
               past == {t \in intake.pending : Usa!Intended(t) < Usa!Target(run.cutoff)}
    <2>1. /\ Usa!Handle(past) /\ run' = [run EXCEPT !.selected = selected]
          /\ pc' \in {"scorecard", "market"} /\ pc = "select"
          /\ UNCHANGED <<stored, diagnostics, aborts>>
      BY <1>10 DEF Usa!Select
    <2>2. intake'.pending = intake.pending \ past /\ intake.handled \subseteq intake'.handled
      BY <2>1 DEF Usa!Handle, UsaType
    <2>3. selected \subseteq intake'.pending
      <3>1. Usa!Target(run.cutoff) \in Int
        BY DEF UsaType, Usa!TypeOK, Usa!Target
      <3>2. selected \cap past = {}
        BY <3>1
      <3> QED
        BY <2>2, <3>2
    <2>4. run'.selected = selected /\ run'.cutoff = run.cutoff /\ run'.ready = {} /\ run.ready = {}
      BY <2>1 DEF UsaType, UsaBatches
    <2>5. Usa!Target(run'.cutoff) = Usa!Target(run.cutoff)
      BY <2>4
    <2>6. \A t : Usa!Intended(t)' = Usa!Intended(t)
      BY <2>1 DEF Usa!Intended, Usa!Day
    <2>7. \A t \in run'.selected : Usa!Intended(t)' = Usa!Target(run'.cutoff)
      BY <2>4, <2>5, <2>6
    <2> HIDE DEF selected, past
    <2> QED
      BY <2>1, <2>2, <2>3, <2>4, <2>6, <2>7 DEF UsaBatches
  <1>11. CASE Usa!SyncMarket
    <2>1. PICK companies \in SUBSET {stored[t].company : t \in run.selected} :
             Usa!Proceed({t \in run.selected : stored[t].company \in companies})
      BY <1>11 DEF Usa!SyncMarket
    <2>2. PICK ready \in SUBSET run.selected :
             /\ run' = IF ready = {} THEN Usa!NoRun ELSE [run EXCEPT !.ready = ready]
             /\ pc' = IF ready = {} THEN "idle" ELSE "score"
      BY <2>1 DEF Usa!Proceed
    <2>3. pc = "market" /\ UNCHANGED <<intake, stored, diagnostics, aborts>>
      BY <1>11 DEF Usa!SyncMarket
    <2>4. CASE ready = {}
      BY <2>2, <2>3, <2>4 DEF UsaBatches, UsaBatch, Usa!NoRun, Usa!Intended, Usa!Day
    <2>5. CASE ready # {}
      <3>1. /\ run'.ready = ready /\ UNCHANGED <<run.selected, run.cutoff>> /\ pc' = "score"
        BY <2>2, <2>5 DEF UsaType
      <3> QED
        BY <2>2, <2>3, <3>1 DEF UsaBatches, UsaBatch, Usa!Intended, Usa!Day, Usa!Target
    <2> QED
      BY <2>4, <2>5
  <1>12. CASE Usa!Score
    <2>1. /\ diagnostics' = diagnostics \cup {UsaBatch} /\ pc = "score" /\ pc' = "acknowledge"
          /\ UNCHANGED <<intake, stored, run, aborts>>
      BY <1>12 DEF Usa!Score, UsaBatch
    <2>2. UsaBatch' = UsaBatch /\ \A t : Usa!Intended(t)' = Usa!Intended(t)
      BY <2>1 DEF UsaBatch, Usa!Target, Usa!Intended, Usa!Day
    <2>3. UsaBatch.events = run.ready /\ UsaBatch.target = Usa!Target(run.cutoff)
      BY DEF UsaBatch
    <2>4. /\ run.ready \subseteq run.selected /\ run.selected \subseteq intake.pending
          /\ \A t \in run.selected : Usa!Intended(t) = Usa!Target(run.cutoff)
      BY <2>1 DEF UsaBatches
    <2>5. aborts = 0 => \A b \in diagnostics : b.events \cap run.ready \subseteq Legacy
      BY <2>1, <2>4 DEF UsaBatches, UsaType, Usa!TypeOK
    <2>6. \A b \in diagnostics' : \A t \in b.events : Usa!Intended(t) = b.target
      BY <2>1, <2>3, <2>4 DEF UsaBatches
    <2>7. aborts = 0 => \A b, d \in diagnostics' : b # d => b.events \cap d.events \subseteq Legacy
      BY <2>1, <2>3, <2>5 DEF UsaBatches
    <2>8. aborts = 0 => \A b \in diagnostics' : \A t \in b.events \ Legacy :
             t \in intake.handled \/ b = UsaBatch
      BY <2>1 DEF UsaBatches
    <2>9. Usa!Target(run.cutoff)' = Usa!Target(run.cutoff)
      BY <2>1 DEF Usa!Target
    <2> QED
      BY <2>1, <2>2, <2>4, <2>6, <2>7, <2>8, <2>9 DEF UsaBatches
  <1>13. CASE Usa!Acknowledge
    <2>1. /\ intake'.handled = intake.handled \cup (intake.pending \cap run.ready)
          /\ pc = "acknowledge" /\ pc' = "scorecard"
          /\ UNCHANGED <<stored, diagnostics, run, aborts>>
      BY <1>13 DEF Usa!Acknowledge, Usa!Handle, UsaType
    <2>2. run.ready \subseteq intake'.handled
      BY <2>1 DEF UsaBatches
    <2>3. UsaBatch.events = run.ready
      BY DEF UsaBatch
    <2> QED
      BY <2>1, <2>2, <2>3 DEF UsaBatches, Usa!Intended, Usa!Day
  <1>14. CASE Usa!RefreshScorecard
    BY <1>14 DEF Usa!RefreshScorecard, Usa!NoRun, UsaType, UsaBatches, UsaBatch, Usa!Target, Usa!Intended, Usa!Day
  <1>15. CASE Usa!Abort
    <2>1. /\ aborts' # 0 /\ run'.ready = {} /\ run'.selected = {} /\ pc' = "idle"
          /\ UNCHANGED <<intake, stored, diagnostics>>
      BY <1>15 DEF Usa!Abort, Usa!NoRun, UsaType, Usa!TypeOK
    <2> QED
      BY <2>1 DEF UsaBatches, Usa!Intended, Usa!Day
  <1>16. CASE Usa!Tick
    BY <1>16 DEF Usa!Tick, UsaType, UsaBatches, UsaBatch, Usa!Target, Usa!Intended, Usa!Day
  <1> QED
    BY <1>1, <1>2, <1>3, <1>4, <1>5, <1>6, <1>7, <1>8, <1>9, <1>10, <1>11, <1>12,
       <1>13, <1>14, <1>15, <1>16, <1>17, <1>18
    DEF Usa!Next, Usa!RunStep, Usa!NextAward

LEMMA UsaEvidence ==
    ASSUME UsaType, UsaBatches
    PROVE  Usa!EvidenceOnce
  <1>1. SUFFICES ASSUME NEW b \in Usa!Counted, NEW c \in Usa!Counted, b # c,
                        b.events \cap c.events # {}
                 PROVE  /\ b.target = c.target
                        /\ aborts > 0 \/ b.events \cap c.events \subseteq Legacy
    BY DEF Usa!EvidenceOnce
  <1>2. b \in diagnostics /\ c \in diagnostics
    BY DEF Usa!Counted
  <1>3. PICK t \in b.events \cap c.events : TRUE
    BY <1>1
  <1>4. b.target = c.target
    BY <1>2, <1>3 DEF UsaBatches
  <1>5. aborts \in Nat
    BY BoundsAssumption DEF UsaType, Usa!TypeOK
  <1> QED
    BY <1>1, <1>2, <1>4, <1>5 DEF UsaBatches

\* The initial state.
LEMMA UsaInit == Usa!Init => UsaInv
  <1> SUFFICES ASSUME Usa!Init PROVE UsaInv
    OBVIOUS
  <1>1. UsaType
    BY UsaTypeInit
  <1>2. Legacy \subseteq Transaction
    BY UsaAssumption
  <1>3. \E pending \in SUBSET Legacy : \E handled \in SUBSET (Legacy \ pending) :
          /\ intake = [watermark |-> IF handled \cup pending = {} THEN None ELSE 0,
                       pending |-> pending, handled |-> handled]
          /\ \E scored \in {handled, Legacy} :
               diagnostics = IF handled = {} THEN {} ELSE {[target |-> 1, events |-> scored]}
    BY DEF Usa!Init
  <1>4. /\ intake.pending \subseteq Legacy /\ intake.handled \subseteq Legacy
        /\ \A b, c \in diagnostics : b.events \subseteq Legacy /\ b.target = 1 /\ b = c
    BY <1>3
  <1>5. /\ stored = [t \in Transaction |->
              IF t \in Legacy THEN [company |-> Usa!KnownAs(AwardOf[t]), at |-> 0]
                              ELSE None]
        /\ run = Usa!NoRun /\ pc = "idle" /\ migration = None
    BY DEF Usa!Init
  <1>6. Usa!Stored = Legacy /\ \A t \in Legacy : stored[t].at = 0
    <2>1. \A t \in Legacy : Usa!KnownAs(AwardOf[t]) \in Company
      BY UsaAssumption DEF Usa!KnownAs
    <2>2. \A t \in Legacy :
            [company |-> Usa!KnownAs(AwardOf[t]), at |-> 0]
               \in [company : Company, at : 0 .. MaxTime]
      BY <2>1, BoundsAssumption
    <2>3. \A t \in Legacy : stored[t] # None
      <3>1. \A e \in [company : Company, at : 0 .. MaxTime] : e # None
        BY UsaAssumption
      <3> QED
        BY <1>2, <1>5, <2>2, <3>1
    <2> QED
      BY <1>2, <1>5, <2>3 DEF Usa!Stored
  <1>7. UsaFiles
    <2>1. \A t \in Legacy : ActionDay[t] <= Usa!Day(stored[t].at)
      BY <1>6, UsaAssumption DEF Usa!Day
    <2> QED
      BY <1>4, <1>5, <1>6, <2>1 DEF UsaFiles, Usa!NoRun, Usa!Found
  <1>8. UsaMigration
    BY <1>5 DEF UsaMigration, Usa!OutdatedExcluded
  <1>9. UsaBatches
    <2>1. \A t \in Legacy : Usa!Intended(t) = 1
      BY <1>6 DEF Usa!Intended, Usa!Day
    <2> QED
      BY <1>4, <1>5, <2>1 DEF UsaBatches, Usa!NoRun
  <1>10. UsaPoll
    BY <1>5 DEF UsaPoll, Usa!NoRun
  <1> QED
    BY <1>1, <1>7, <1>8, <1>9, <1>10 DEF UsaInv

-----------------------------------------------------------------------------
(* UsaspendingLane: what a poll passes.                                     *)

\* The database shows the last change there is so far.
LEMMA UsaLastChange ==
    ASSUME UsaType, NEW t \in Transaction
    PROVE  /\ (\E d \in ChangedOn[t] : d <= Usa!Day(now)) =>
                 /\ Usa!LastChange(t) \in ChangedOn[t] /\ Usa!LastChange(t) # None
                 /\ Usa!LastChange(t) \in Int /\ Usa!LastChange(t) <= Usa!Day(now)
                 /\ \A d \in ChangedOn[t] : d <= Usa!Day(now) => d <= Usa!LastChange(t)
           /\ ~(\E d \in ChangedOn[t] : d <= Usa!Day(now)) => Usa!LastChange(t) = None
  <1> DEFINE past == {d \in ChangedOn[t] : d <= Usa!Day(now)}
  <1>1. past \subseteq ChangedOn[t] /\ ChangedOn[t] \subseteq Int /\ IsFiniteSet(ChangedOn[t])
    BY UsaAssumption
  <1>2. Usa!LastChange(t) = IF past = {} THEN None ELSE Usa!Max(past)
    BY DEF Usa!LastChange
  <1>3. ASSUME past # {}
        PROVE  Usa!Max(past) \in past /\ \A d \in past : d <= Usa!Max(past)
    <2>1. past \in SUBSET Int /\ IsFiniteSet(past)
      BY <1>1, FS_Subset
    <2> HIDE DEF past
    <2>2. Lda!Max(past) \in past /\ \A d \in past : d <= Lda!Max(past)
      BY <1>3, <2>1, MaxOfIntegers
    <2> QED
      BY <2>2 DEF Usa!Max, Lda!Max
  <1>4. CASE past = {}
    BY <1>2, <1>4
  <1>5. CASE past # {}
    <2>1. Usa!LastChange(t) \in past /\ \A d \in past : d <= Usa!LastChange(t)
      BY <1>2, <1>3, <1>5
    <2>2. Usa!LastChange(t) \in ChangedOn[t] /\ Usa!LastChange(t) # None /\ Usa!LastChange(t) \in Int
      BY <1>1, <2>1, UsaAssumption
    <2> QED
      BY <1>5, <2>1, <2>2
  <1> QED
    BY <1>4, <1>5

LEMMA UsaCardinality ==
    /\ \A S : Usa!Cardinality(S) = Cardinality(S)
    /\ \A S \in SUBSET Award : IsFiniteSet(S) /\ Cardinality(S) \in Nat
  <1>1. \A S : Usa!Cardinality(S) = Cardinality(S)
    BY DEF Usa!Cardinality, Cardinality
  <1> QED
    BY <1>1, UsaAssumption, FS_Subset, FS_CardinalityType

\* An award of the listing has a day.
LEMMA UsaAwardChange ==
    ASSUME UsaType, NEW a \in Usa!Listing
    PROVE  a \in Int /\ Usa!AwardChange(a) \in Int
  <1> DEFINE days == {Usa!LastChange(t) : t \in {x \in Transaction : AwardOf[x] = a /\ Usa!Changed(x)}}
  <1>1. days # {}
    BY DEF Usa!Listing
  <1>2. days \subseteq run.after .. Usa!Day(run.cutoff)
    BY DEF Usa!Changed
  <1>3. run.after \in Int /\ Usa!Day(run.cutoff) \in Int
    BY DEF UsaType, Usa!TypeOK, Usa!Day
  <1>4. Usa!AwardChange(a) = Usa!Max(days)
    BY DEF Usa!AwardChange
  <1>5. a \in Int
    BY UsaListing, UsaAssumption
  <1> HIDE DEF days
  <1>6. IsFiniteSet(days) /\ days \in SUBSET Int
    <2>1. IsFiniteSet(run.after .. Usa!Day(run.cutoff))
      BY <1>3, FS_Interval
    <2>2. run.after .. Usa!Day(run.cutoff) \subseteq Int
      BY <1>3
    <2> QED
      BY <1>2, <2>1, <2>2, FS_Subset
  <1>7. Lda!Max(days) \in days
    BY <1>1, <1>6, MaxOfIntegers
  <1> QED
    BY <1>4, <1>5, <1>6, <1>7 DEF Usa!Max, Lda!Max

\* The places of the listing are 0, 1, ... and no two awards share one.
LEMMA UsaRank ==
    ASSUME UsaType
    PROVE  /\ \A a \in Usa!Listing : Usa!Rank(a) \in Nat /\ Usa!Rank(a) < Usa!Cardinality(Usa!Listing)
           /\ Usa!Cardinality(Usa!Listing) \in Nat
           /\ \A a, b \in Usa!Listing : Usa!Rank(a) = Usa!Rank(b) => a = b
  <1> DEFINE L == Usa!Listing
             Sooner(b, a) == \/ Usa!AwardChange(b) < Usa!AwardChange(a)
                             \/ Usa!AwardChange(b) = Usa!AwardChange(a) /\ b < a
             Ahead(a) == {b \in L : Sooner(b, a)}
  <1>1. L \in SUBSET Award
    BY UsaListing
  <1>2. \A a \in L : a \in Int /\ Usa!AwardChange(a) \in Int
    BY UsaAwardChange
  <1>3. \A a : Usa!Rank(a) = Cardinality(Ahead(a))
    BY UsaCardinality, Zenon DEF Usa!Rank
  <1>4. \A a, b \in L : a = b \/ Sooner(a, b) \/ Sooner(b, a)
    BY <1>2
  <1>5. \A a, b \in L : \A c \in L : Sooner(a, b) /\ Sooner(c, a) => Sooner(c, b)
    BY <1>2
  <1>6. \A a \in L : ~Sooner(a, a)
    BY <1>2
  <1> HIDE DEF L, Sooner
  <1>7. \A a : Ahead(a) \subseteq L
    OBVIOUS
  <1> HIDE DEF Ahead
  <1>8. \A a : Ahead(a) \in SUBSET Award /\ IsFiniteSet(Ahead(a)) /\ Cardinality(Ahead(a)) \in Nat
    BY <1>1, <1>7, UsaCardinality
  <1>9. IsFiniteSet(L) /\ Cardinality(L) \in Nat /\ Usa!Cardinality(L) = Cardinality(L)
    BY <1>1, UsaCardinality
  <1>10. ASSUME NEW a \in L PROVE Cardinality(Ahead(a)) < Cardinality(L)
    <2>1. a \notin Ahead(a)
      BY <1>6 DEF Ahead
    <2>2. Cardinality(Ahead(a)) <= Cardinality(L) /\ Cardinality(Ahead(a)) # Cardinality(L)
      BY <1>7, <1>9, <2>1, FS_Subset
    <2> QED
      BY <1>8, <1>9, <2>2
  <1>11. ASSUME NEW a \in L, NEW b \in L, Sooner(a, b)
         PROVE  Cardinality(Ahead(a)) # Cardinality(Ahead(b))
    <2>1. Ahead(a) \subseteq Ahead(b)
      BY <1>5, <1>11 DEF Ahead
    <2>2. a \in Ahead(b) /\ a \notin Ahead(a)
      BY <1>6, <1>11 DEF Ahead
    <2> QED
      BY <1>8, <2>1, <2>2, FS_Subset
  <1>12. \A a, b \in L : Usa!Rank(a) = Usa!Rank(b) => a = b
    BY <1>3, <1>4, <1>11
  <1>13. \A a \in L : Usa!Rank(a) \in Nat /\ Usa!Rank(a) < Usa!Cardinality(L)
    BY <1>3, <1>8, <1>9, <1>10
  <1> QED
    BY <1>9, <1>12, <1>13 DEF L

\* How many awards are listed before another is the size of a set of awards.
LEMMA UsaRankType ==
    ASSUME NEW a
    PROVE  Usa!Rank(a)' \in Nat
  <1> DEFINE ahead == {b \in Usa!Listing' : \/ Usa!AwardChange(b)' < Usa!AwardChange(a)'
                                            \/ Usa!AwardChange(b)' = Usa!AwardChange(a)' /\ b < a}
  <1>1. ahead \in SUBSET Award
    BY UsaAssumption DEF Usa!Listing
  <1>2. Usa!Rank(a)' = Cardinality(ahead)
    BY UsaCardinality, Zenon DEF Usa!Rank
  <1> HIDE DEF ahead
  <1> QED
    BY <1>1, <1>2, UsaCardinality

\* The listing is a matter of the changes so far and of the window.
LEMMA UsaSameListing ==
    ASSUME \A t \in Transaction : Usa!LastChange(t)' = Usa!LastChange(t),
           run'.after = run.after, run'.cutoff = run.cutoff
    PROVE  /\ \A t \in Transaction : Usa!Changed(t)' = Usa!Changed(t)
           /\ Usa!Listing' = Usa!Listing
           /\ \A a : Usa!Rank(a)' = Usa!Rank(a)
  <1>1. \A t \in Transaction : Usa!Changed(t)' = Usa!Changed(t)
    BY DEF Usa!Changed, Usa!Day
  <1>2. Usa!Listing' = Usa!Listing
    BY <1>1 DEF Usa!Listing
  <1>3. \A a : Usa!AwardChange(a)' = Usa!AwardChange(a)
    <2> TAKE a
    <2> DEFINE days == {Usa!LastChange(t) : t \in {x \in Transaction : AwardOf[x] = a /\ Usa!Changed(x)}}
               days2 == {Usa!LastChange(t)' : t \in {x \in Transaction : AwardOf[x] = a /\ Usa!Changed(x)'}}
    <2>1. days2 = days
      BY <1>1
    <2>2. Usa!AwardChange(a) = Usa!Max(days) /\ Usa!AwardChange(a)' = Usa!Max(days2)
      BY Zenon DEF Usa!AwardChange, Usa!Max
    <2> HIDE DEF days, days2
    <2> QED
      BY <2>1, <2>2
  <1>4. \A a : Usa!Rank(a)' = Usa!Rank(a)
    <2> TAKE a
    <2> DEFINE ahead == {b \in Usa!Listing : \/ Usa!AwardChange(b) < Usa!AwardChange(a)
                                             \/ Usa!AwardChange(b) = Usa!AwardChange(a) /\ b < a}
               ahead2 == {b \in Usa!Listing' : \/ Usa!AwardChange(b)' < Usa!AwardChange(a)'
                                               \/ Usa!AwardChange(b)' = Usa!AwardChange(a)' /\ b < a}
    <2>1. ahead2 = ahead
      BY <1>2, <1>3
    <2>2. Usa!Rank(a) = Usa!Cardinality(ahead) /\ Usa!Rank(a)' = Usa!Cardinality(ahead2)
      BY Zenon DEF Usa!Rank, Usa!Cardinality
    <2> HIDE DEF ahead, ahead2
    <2> QED
      BY <2>1, <2>2
  <1> QED
    BY <1>1, <1>2, <1>4

LEMMA UsaSameDay ==
    ASSUME now' = now, run'.cutoff = run.cutoff
    PROVE  /\ \A t \in Transaction : Usa!LastChange(t)' = Usa!LastChange(t)
           /\ Usa!Moved' = Usa!Moved
  <1>1. \A t : {d \in ChangedOn[t] : d <= Usa!Day(now')} = {d \in ChangedOn[t] : d <= Usa!Day(now)}
    OBVIOUS
  <1> QED
    BY <1>1 DEF Usa!LastChange, Usa!Moved, Usa!Day

\* A half day that moves nothing changes nothing.
LEMMA UsaTickChange ==
    ASSUME UsaType, Usa!Tick, ~Usa!Moved'
    PROVE  ~Usa!Moved /\ \A t \in Transaction : Usa!LastChange(t)' = Usa!LastChange(t)
  <1>1. now' = now + 1 /\ run' = run /\ now \in Int /\ run.cutoff \in 0 .. now
    BY DEF UsaType, Usa!TypeOK, Usa!Tick
  <1>2. /\ Usa!Day(run.cutoff) <= Usa!Day(now) /\ Usa!Day(now) <= Usa!Day(now')
        /\ Usa!Day(run.cutoff) \in Int /\ Usa!Day(now) \in Int /\ Usa!Day(now') \in Int
        /\ Usa!Day(run'.cutoff) = Usa!Day(run.cutoff)
    BY <1>1 DEF Usa!Day
  <1>3. \A t \in Transaction : \A d \in ChangedOn[t] :
          d \in Int /\ ~(Usa!Day(run.cutoff) < d /\ d <= Usa!Day(now'))
    BY <1>2, UsaAssumption DEF Usa!Moved, Usa!Day
  <1>4. \A t \in Transaction : \A d \in ChangedOn[t] : d <= Usa!Day(now') <=> d <= Usa!Day(now)
    BY <1>2, <1>3
  <1>5. ~Usa!Moved
    BY <1>2, <1>3, <1>4 DEF Usa!Moved
  <1>6. ASSUME NEW t \in Transaction PROVE Usa!LastChange(t)' = Usa!LastChange(t)
    <2> DEFINE past == {d \in ChangedOn[t] : d <= Usa!Day(now)}
               past2 == {d \in ChangedOn[t] : d <= Usa!Day(now')}
    <2>1. past2 = past
      BY <1>4
    <2>2. /\ Usa!LastChange(t) = IF past = {} THEN None ELSE Usa!Max(past)
          /\ Usa!LastChange(t)' = IF past2 = {} THEN None ELSE Usa!Max(past2)
      BY Zenon DEF Usa!LastChange, Usa!Max, Usa!Day
    <2> HIDE DEF past, past2
    <2> QED
      BY <2>1, <2>2
  <1> QED
    BY <1>5, <1>6

\* Reading an award collects what of it is stored and neither queued nor handled.
LEMMA UsaCollects ==
    ASSUME UsaType, UsaFiles, NEW t \in Usa!Stored, NEW company \in Company,
           NEW unmatched \in SUBSET (Usa!Rows(AwardOf[t]) \cap Doubtful),
           AwardOf[t] \in Usa!Listing, t \notin unmatched,
           Usa!Changed(t), ~Usa!StaleAction(t, Usa!Day(run.cutoff)),
           Usa!ReadAward(AwardOf[t], company, unmatched)
    PROVE  t \in intake.pending \cup intake.handled \cup run'.recovered \cup Usa!Found'
  <1> DEFINE rows == Usa!Matched(AwardOf[t], unmatched)
             new == {[id |-> x, company |-> company] : x \in {y \in rows : ~Usa!Known(y)}}
  <1>1. /\ pc = "poll" /\ run'.recovered = run.recovered \cup Usa!Recovered(rows)
        /\ run'.found = run.found \cup new
    BY UsaReads
  <1>2. t \in Transaction
    BY DEF Usa!Stored
  <1>3. Usa!Fresh(t, Usa!Day(run.cutoff))
    <2>1. ActionDay[t] <= Usa!Day(stored[t].at) /\ stored[t].at <= run.cutoff
      BY <1>1 DEF UsaFiles
    <2>2. ActionDay[t] \in Int /\ stored[t].at \in Int /\ run.cutoff \in Int
      BY <1>2, UsaAssumption DEF UsaType, Usa!TypeOK
    <2>3. Usa!Day(stored[t].at) <= Usa!Day(run.cutoff)
          /\ Usa!Day(stored[t].at) \in Int /\ Usa!Day(run.cutoff) \in Int
      BY <2>1, <2>2 DEF Usa!Day
    <2> QED
      BY <2>1, <2>2, <2>3 DEF Usa!Fresh
  <1>4. t \in intake.handled \/ t \in rows
    BY <1>2, <1>3 DEF Usa!Rows, Usa!Matched
  <1>5. CASE t \in rows /\ Usa!Known(t)
    BY <1>1, <1>5 DEF Usa!Recovered
  <1>6. CASE t \in rows /\ ~Usa!Known(t)
    <2>1. [id |-> t, company |-> company] \in new
      BY <1>6
    <2>2. [id |-> t, company |-> company] \in run'.found
      BY <1>1, <2>1
    <2> QED
      BY <2>2 DEF Usa!Found
  <1> QED
    BY <1>4, <1>5, <1>6

\* What a run passes over depends on the run.
LEMMA UsaSameRun ==
    ASSUME run' = run
    PROVE  \A t : Usa!PassedOver(t)' = Usa!PassedOver(t)
  BY DEF Usa!PassedOver, Usa!StaleAction, Usa!Day

LEMMA UsaPollNext ==
    ASSUME UsaType, UsaFiles, UsaPoll, Usa!Next
    PROVE  UsaPoll'
  <1>1. CASE Usa!StartRun
    <2>1. pc' \notin {"poll", "store", "commit"}
      BY <1>1 DEF Usa!StartRun
    <2> QED
      BY <2>1 DEF UsaPoll
  <1>2. CASE Usa!InvalidateBatches
    <2>1. pc' \notin {"poll", "store", "commit"}
      BY <1>2 DEF Usa!InvalidateBatches
    <2> QED
      BY <2>1 DEF UsaPoll
  <1>3. CASE Usa!DisposeOutdated
    <2>1. pc' \notin {"poll", "store", "commit"}
      BY <1>3 DEF Usa!DisposeOutdated
    <2> QED
      BY <2>1 DEF UsaPoll
  <1>4. CASE Usa!FinishMigration
    <2>1. pc' \notin {"poll", "store", "commit"}
      BY <1>4 DEF Usa!FinishMigration
    <2> QED
      BY <2>1 DEF UsaPoll
  <1>5. CASE Usa!BeginPoll
    <2>1. /\ run'.page = 1 /\ pc' = "poll" /\ intake' = intake
          /\ run'.cutoff = run.cutoff /\ run'.after = UsaFloor
      BY <1>5 DEF Usa!BeginPoll, UsaType, UsaFloor
    <2>2. \A a : ~(Usa!Rank(a)' < 0)
      BY UsaRankType
    <2> QED
      BY <2>1, <2>2 DEF UsaPoll, UsaFloor, Usa!Day
  <1>6. ASSUME NEW a \in Usa!Listing, Usa!SkipAward(a) PROVE UsaPoll'
    <2>1. /\ UNCHANGED <<now, intake, stored, pc>> /\ pc = "poll" /\ Usa!Rank(a) = run.page - 1
          /\ run'.page = run.page + 1 /\ run'.after = run.after /\ run'.cutoff = run.cutoff
          /\ run.found = run'.found /\ run.recovered = run'.recovered
          /\ run'.unmapped = run.unmapped \cup {a} /\ run'.unmatched = run.unmatched
      BY <1>6, UsaSkips
    <2>2. /\ run.page \in Nat /\ run.page >= 1 /\ run.after = UsaFloor
          /\ UsaFloor' = UsaFloor
      BY <2>1 DEF UsaType, UsaPoll, UsaFloor, Usa!Day
    <2>3. /\ \A t \in Transaction : Usa!Changed(t)' = Usa!Changed(t)
          /\ Usa!Listing' = Usa!Listing /\ \A x : Usa!Rank(x)' = Usa!Rank(x)
          /\ Usa!Moved' = Usa!Moved
      BY <2>1, UsaSameDay, UsaSameListing
    <2>4. Usa!Stored' = Usa!Stored /\ Usa!Found \subseteq Usa!Found' /\ Usa!Stored \subseteq Transaction
      BY <2>1 DEF Usa!Stored, Usa!Found
    <2>5. \A t \in Transaction : ~Usa!PassedOver(t)' =>
             ~Usa!PassedOver(t) /\ AwardOf[t] # a
             /\ ~Usa!StaleAction(t, Usa!Day(run.cutoff))
      BY <2>1 DEF Usa!PassedOver, Usa!StaleAction, Usa!Day
    <2>6. ASSUME ~Usa!Moved', NEW t \in Usa!Stored', Usa!Changed(t)', ~Usa!PassedOver(t)',
                 Usa!Rank(AwardOf[t])' < run'.page - 1
          PROVE  t \in intake'.pending \cup intake'.handled \cup run'.recovered \cup Usa!Found'
      <3>1. t \in Usa!Stored /\ t \in Transaction /\ Usa!Changed(t) /\ ~Usa!Moved
            /\ Usa!Rank(AwardOf[t]) < run.page
        BY <2>1, <2>2, <2>3, <2>4, <2>6
      <3>2. AwardOf[t] \in Usa!Listing
        BY <3>1 DEF Usa!Listing
      <3>3. Usa!Rank(AwardOf[t]) \in Nat
        BY <3>2, UsaRank
      <3>4. CASE Usa!Rank(AwardOf[t]) < run.page - 1
        <4>1. t \in intake.pending \cup intake.handled \cup run.recovered \cup Usa!Found
          BY <2>1, <2>5, <2>6, <3>1, <3>4 DEF UsaPoll
        <4> QED
          BY <2>1, <2>4, <4>1
      <3>5. CASE Usa!Rank(AwardOf[t]) = run.page - 1
        <4>1. AwardOf[t] = a
          BY <2>1, <3>2, <3>5, UsaRank
        <4> QED
          BY <4>1, <2>1, <2>5, <2>6, <3>1
      <3> QED
        BY <2>2, <3>1, <3>3, <3>4, <3>5
    <2>7. run'.page >= 1 /\ run'.after = UsaFloor'
      BY <2>1, <2>2
    <2> QED
      BY <2>1, <2>6, <2>7 DEF UsaPoll
  <1>17. ASSUME NEW a \in Usa!Listing, NEW company \in Company,
                NEW unmatched \in SUBSET (Usa!Rows(a) \cap Doubtful),
                Usa!ReadAward(a, company, unmatched)
         PROVE  UsaPoll'
    <2>1. /\ UNCHANGED <<now, intake, stored, pc>> /\ pc = "poll" /\ Usa!Rank(a) = run.page - 1
          /\ run'.page = run.page + 1 /\ run'.after = run.after /\ run'.cutoff = run.cutoff
          /\ run.found \subseteq run'.found /\ run.recovered \subseteq run'.recovered
          /\ run'.unmapped = run.unmapped /\ run'.unmatched = run.unmatched \cup unmatched
      <3> DEFINE new == {[id |-> t, company |-> company] :
                              t \in {x \in Usa!Matched(a, unmatched) : ~Usa!Known(x)}}
      <3>1. run'.found = run.found \cup new
        BY <1>17, UsaReads
      <3> HIDE DEF new
      <3> QED
        BY <1>17, <3>1, UsaReads
    <2>2. /\ run.page \in Nat /\ run.page >= 1 /\ run.after = UsaFloor
          /\ UsaFloor' = UsaFloor
      BY <2>1 DEF UsaType, UsaPoll, UsaFloor, Usa!Day
    <2>3. /\ \A t \in Transaction : Usa!Changed(t)' = Usa!Changed(t)
          /\ Usa!Listing' = Usa!Listing /\ \A x : Usa!Rank(x)' = Usa!Rank(x)
          /\ Usa!Moved' = Usa!Moved
      BY <2>1, UsaSameDay, UsaSameListing
    <2>4. Usa!Stored' = Usa!Stored /\ Usa!Found \subseteq Usa!Found' /\ Usa!Stored \subseteq Transaction
      BY <2>1 DEF Usa!Stored, Usa!Found
    <2>5. \A t \in Transaction : ~Usa!PassedOver(t)' =>
             ~Usa!PassedOver(t) /\ t \notin unmatched
             /\ ~Usa!StaleAction(t, Usa!Day(run.cutoff))
      BY <2>1 DEF Usa!PassedOver, Usa!StaleAction, Usa!Day
    <2>6. ASSUME ~Usa!Moved', NEW t \in Usa!Stored', Usa!Changed(t)', ~Usa!PassedOver(t)',
                 Usa!Rank(AwardOf[t])' < run'.page - 1
          PROVE  t \in intake'.pending \cup intake'.handled \cup run'.recovered \cup Usa!Found'
      <3>1. t \in Usa!Stored /\ t \in Transaction /\ Usa!Changed(t) /\ ~Usa!Moved
            /\ Usa!Rank(AwardOf[t]) < run.page
        BY <2>1, <2>2, <2>3, <2>4, <2>6
      <3>2. AwardOf[t] \in Usa!Listing
        BY <3>1 DEF Usa!Listing
      <3>3. Usa!Rank(AwardOf[t]) \in Nat
        BY <3>2, UsaRank
      <3>4. CASE Usa!Rank(AwardOf[t]) < run.page - 1
        <4>1. t \in intake.pending \cup intake.handled \cup run.recovered \cup Usa!Found
          BY <2>1, <2>5, <2>6, <3>1, <3>4 DEF UsaPoll
        <4> QED
          BY <2>1, <2>4, <4>1
      <3>5. CASE Usa!Rank(AwardOf[t]) = run.page - 1
        <4>1. AwardOf[t] = a
          BY <2>1, <3>2, <3>5, UsaRank
        <4> QED
          BY <4>1, <2>1, <2>5, <2>6, <3>1, <1>17, UsaCollects
      <3> QED
        BY <2>2, <3>1, <3>3, <3>4, <3>5
    <2>7. run'.page >= 1 /\ run'.after = UsaFloor'
      BY <2>1, <2>2
    <2> QED
      BY <2>1, <2>6, <2>7 DEF UsaPoll
  <1>18. ASSUME NEW a \in Usa!Listing, NEW company \in Company,
                NEW unmatched \in SUBSET (Usa!Rows(a) \cap Doubtful),
                Usa!CompanyChanged(a, company, unmatched)
         PROVE  UsaPoll'
    <2>1. pc' \notin {"poll", "store", "commit"}
      BY <1>18, UsaChanged
    <2> QED
      BY <2>1 DEF UsaPoll
  <1>7. CASE Usa!EndOfListing
    <2>1. /\ UNCHANGED <<now, intake, stored, migration, run>>
          /\ pc = "poll" /\ pc' = "store" /\ run.page > Usa!Cardinality(Usa!Listing)
      BY <1>7 DEF Usa!EndOfListing
    <2>2. run.page \in Nat /\ run'.cutoff = run.cutoff /\ run'.after = run.after
      BY <2>1 DEF UsaType
    <2>3. /\ \A t \in Transaction : Usa!Changed(t)' = Usa!Changed(t)
          /\ Usa!Moved' = Usa!Moved
      BY <2>1, <2>2, UsaSameDay, UsaSameListing
    <2>4. ASSUME ~Usa!Moved, NEW t \in Usa!Stored, Usa!Changed(t), ~Usa!PassedOver(t)
          PROVE  t \in intake.pending \cup intake.handled \cup run.recovered \cup Usa!Found
      <3>1. AwardOf[t] \in Usa!Listing
        BY <2>4 DEF Usa!Stored, Usa!Listing
      <3>2. Usa!Rank(AwardOf[t]) < run.page - 1
        <4>1. /\ Usa!Rank(AwardOf[t]) \in Nat /\ Usa!Cardinality(Usa!Listing) \in Nat
              /\ Usa!Rank(AwardOf[t]) < Usa!Cardinality(Usa!Listing)
          BY <3>1, UsaRank
        <4> QED
          BY <2>1, <2>2, <4>1
      <3> QED
        BY <2>1, <2>4, <3>2 DEF UsaPoll
    <2>5. Usa!Stored' = Usa!Stored /\ Usa!Found' = Usa!Found /\ Usa!Stored \subseteq Transaction
      BY <2>1 DEF Usa!Stored, Usa!Found
    <2>6. run'.after = UsaFloor'
      BY <2>1 DEF UsaPoll, UsaFloor, Usa!Day
    <2>7. \A t : Usa!PassedOver(t)' = Usa!PassedOver(t)
      BY <2>1, UsaSameRun
    <2> QED
      BY <2>1, <2>3, <2>4, <2>5, <2>6, <2>7 DEF UsaPoll
  <1>8. CASE Usa!StoreEvents
    <2>1. /\ Usa!Stored' = Usa!Stored \cup Usa!Found /\ Usa!Found \subseteq Transaction
          /\ pc = "store" /\ pc' = "commit"
          /\ UNCHANGED <<now, intake, migration, run>>
      BY <1>8, UsaStores
    <2>2. /\ \A t \in Transaction : Usa!Changed(t)' = Usa!Changed(t)
          /\ Usa!Moved' = Usa!Moved
      BY <2>1, UsaSameDay, UsaSameListing
    <2>3. Usa!Found' = Usa!Found /\ Usa!Stored \subseteq Transaction
      BY <2>1 DEF Usa!Stored, Usa!Found
    <2>4. \A t : Usa!PassedOver(t)' = Usa!PassedOver(t)
      BY <2>1, UsaSameRun
    <2>5. run'.after = UsaFloor'
      BY <2>1 DEF UsaPoll, UsaFloor, Usa!Day
    <2>6. ~Usa!Moved => \A t \in Usa!Stored :
             Usa!Changed(t) /\ ~Usa!PassedOver(t)
             => t \in intake.pending \cup intake.handled \cup run.recovered \cup Usa!Found
      BY <2>1 DEF UsaPoll
    <2> QED
      BY <2>1, <2>2, <2>3, <2>4, <2>5, <2>6 DEF UsaPoll
  <1>9. CASE Usa!CommitPoll
    <2>1. pc' \notin {"poll", "store", "commit"}
      BY <1>9 DEF Usa!CommitPoll
    <2> QED
      BY <2>1 DEF UsaPoll
  <1>10. CASE Usa!Select
    <2>1. pc' \notin {"poll", "store", "commit"}
      BY <1>10 DEF Usa!Select
    <2> QED
      BY <2>1 DEF UsaPoll
  <1>11. CASE Usa!SyncMarket
    <2>1. pc' \notin {"poll", "store", "commit"}
      BY <1>11 DEF Usa!SyncMarket, Usa!Proceed
    <2> QED
      BY <2>1 DEF UsaPoll
  <1>12. CASE Usa!Score
    <2>1. pc' \notin {"poll", "store", "commit"}
      BY <1>12 DEF Usa!Score
    <2> QED
      BY <2>1 DEF UsaPoll
  <1>13. CASE Usa!Acknowledge
    <2>1. pc' \notin {"poll", "store", "commit"}
      BY <1>13 DEF Usa!Acknowledge
    <2> QED
      BY <2>1 DEF UsaPoll
  <1>14. CASE Usa!RefreshScorecard
    <2>1. pc' \notin {"poll", "store", "commit"}
      BY <1>14 DEF Usa!RefreshScorecard
    <2> QED
      BY <2>1 DEF UsaPoll
  <1>15. CASE Usa!Abort
    <2>1. pc' \notin {"poll", "store", "commit"}
      BY <1>15 DEF Usa!Abort
    <2> QED
      BY <2>1 DEF UsaPoll
  <1>16. CASE Usa!Tick
    <2>1. UNCHANGED <<intake, stored, migration, pc, run>>
      BY <1>16 DEF Usa!Tick
    <2>2. Usa!Stored' = Usa!Stored /\ Usa!Found' = Usa!Found /\ Usa!Stored \subseteq Transaction
      BY <2>1 DEF Usa!Stored, Usa!Found
    <2>3. \A t : Usa!PassedOver(t)' = Usa!PassedOver(t)
      BY <2>1, UsaSameRun
    <2>4. ~Usa!Moved' =>
             /\ ~Usa!Moved
             /\ \A t \in Transaction : Usa!Changed(t)' = Usa!Changed(t)
             /\ \A x : Usa!Rank(x)' = Usa!Rank(x)
      BY <1>16, <2>1, UsaTickChange, UsaSameListing
    <2>5. pc' \in {"poll", "store", "commit"} => run'.after = UsaFloor'
      BY <2>1 DEF UsaPoll, UsaFloor, Usa!Day
    <2>6. ASSUME pc' \in {"poll", "store", "commit"}, ~Usa!Moved', NEW t \in Usa!Stored',
                 Usa!Changed(t)', ~Usa!PassedOver(t)',
                 pc' = "poll" => Usa!Rank(AwardOf[t])' < run'.page - 1
          PROVE  t \in intake'.pending \cup intake'.handled \cup run'.recovered \cup Usa!Found'
      <3>1. /\ t \in Usa!Stored /\ ~Usa!Moved /\ Usa!Changed(t)
            /\ ~Usa!PassedOver(t) /\ pc \in {"poll", "store", "commit"}
            /\ pc = "poll" => Usa!Rank(AwardOf[t]) < run.page - 1
        BY <2>1, <2>2, <2>3, <2>4, <2>6
      <3>2. t \in intake.pending \cup intake.handled \cup run.recovered \cup Usa!Found
        BY <3>1 DEF UsaPoll
      <3> QED
        BY <2>1, <2>2, <3>2
    <2>7. pc' = "poll" => run'.page >= 1
      BY <2>1 DEF UsaPoll
    <2> QED
      BY <2>5, <2>6, <2>7, Zenon DEF UsaPoll
  <1> QED
    BY <1>1, <1>2, <1>3, <1>4, <1>5, <1>6, <1>7, <1>8, <1>9, <1>10, <1>11, <1>12,
       <1>13, <1>14, <1>15, <1>16, <1>17, <1>18
    DEF Usa!Next, Usa!RunStep, Usa!NextAward

LEMMA UsaCommits ==
    ASSUME UsaType, Usa!Next, pc = "commit", pc' = "select"
    PROVE  Usa!CommitPoll
  BY DEF Usa!Next, Usa!RunStep, Usa!NextAward, Usa!StartRun, Usa!InvalidateBatches,
         Usa!DisposeOutdated, Usa!FinishMigration, Usa!BeginPoll, Usa!Reading, Usa!SkipAward,
         Usa!ReadAward, Usa!CompanyChanged, Usa!EndOfListing, Usa!StoreEvents, Usa!Select,
         Usa!SyncMarket, Usa!Score, Usa!Acknowledge, Usa!RefreshScorecard, Usa!Abort, Usa!Tick

LEMMA UsaOrphanFree ==
    ASSUME UsaType, UsaPoll, Usa!Next
    PROVE  Usa!OrphanFree
  <1> SUFFICES ASSUME pc = "commit", pc' = "select", ~Usa!Moved,
                      NEW t \in Usa!Stored', Usa!Due(t), ~Usa!PassedOver(t)
               PROVE  t \in intake'.pending \cup intake'.handled
    BY Zenon DEF Usa!OrphanFree
  <1> DEFINE cut == Usa!Day(run.cutoff)
  <1>1. Usa!CommitPoll
    BY UsaCommits
  <1>2. /\ stored' = stored /\ intake.handled \subseteq intake'.handled
        /\ intake'.pending = intake.pending \cup ((Usa!Found \cup run.recovered) \ intake.handled)
    BY <1>1 DEF Usa!CommitPoll, UsaType
  <1>3. t \in Usa!Stored /\ t \in Transaction
    BY <1>2 DEF Usa!Stored
  <1>4. run.cutoff \in Int /\ run.cutoff <= now /\ now \in Int
    BY DEF UsaType, Usa!TypeOK
  <1>5. run.after = UsaFloor
    BY DEF UsaPoll
  <1>6. cut \in Int /\ cut <= Usa!Day(now) /\ Usa!Day(now) \in Int /\ run.after \in Int
    BY <1>4 DEF Usa!Day, UsaType
  <1>7. PICK d \in ChangedOn[t] : d <= cut /\ d >= run.after
    BY <1>5 DEF Usa!Due, UsaFloor
  <1>8. \A e \in ChangedOn[t] : e \in Int /\ (e <= Usa!Day(now) => e <= cut)
    BY <1>3, <1>6, UsaAssumption DEF Usa!Moved
  <1> HIDE DEF cut
  <1>9. /\ Usa!LastChange(t) \in ChangedOn[t] /\ Usa!LastChange(t) # None
        /\ Usa!LastChange(t) \in Int /\ d <= Usa!LastChange(t)
        /\ Usa!LastChange(t) <= Usa!Day(now)
    <2>1. d <= Usa!Day(now)
      BY <1>6, <1>7, <1>8
    <2> QED
      BY <1>3, <1>7, <2>1, UsaLastChange
  <1>10. run.after <= Usa!LastChange(t) /\ Usa!LastChange(t) <= cut
    BY <1>6, <1>7, <1>8, <1>9
  <1>11. Usa!Changed(t)
    BY <1>6, <1>9, <1>10 DEF Usa!Changed, cut
  <1>12. t \in intake.pending \cup intake.handled \cup run.recovered \cup Usa!Found
    BY <1>3, <1>11 DEF UsaPoll
  <1> QED
    BY <1>2, <1>12

-----------------------------------------------------------------------------
(* ForwardScorecard.                                                        *)

LEMMA ForwardSessions ==
    /\ \A S \in SUBSET (0 .. MaxSession) : IsFiniteSet(S) /\ Cardinality(S) \in Nat
    /\ \A S \in SUBSET (0 .. MaxSession) : S # {} => \A x \in S : x <= Forward!Max(S)
    /\ \A S : Forward!Cardinality(S) = Cardinality(S)
  <1>1. \A S \in SUBSET (0 .. MaxSession) : IsFiniteSet(S)
    <2>1. IsFiniteSet(0 .. MaxSession)
      <3>1. 0 \in Int /\ MaxSession \in Int
        BY BoundsAssumption
      <3> QED
        BY <3>1, FS_Interval
    <2> QED
      BY <2>1, FS_Subset
  <1>2. ASSUME NEW S \in SUBSET (0 .. MaxSession), S # {}
        PROVE  \A x \in S : x <= Forward!Max(S)
    <2>1. S \in SUBSET Int /\ IsFiniteSet(S)
      BY <1>1
    <2>2. \A x \in S : x <= Lda!Max(S)
      BY <1>2, <2>1, MaxOfIntegers
    <2> QED
      BY <2>2 DEF Forward!Max, Lda!Max
  <1>3. \A S : Forward!Cardinality(S) = Cardinality(S)
    BY DEF Forward!Cardinality, Cardinality
  <1> QED
    BY <1>1, <1>2, <1>3, FS_CardinalityType

\* No two sessions of a series are its n-th.
LEMMA ForwardRankUnique ==
    ASSUME NEW S \in SUBSET (0 .. MaxSession), NEW d \in S, NEW e \in S,
           Cardinality(Forward!UpTo(S, d)) = Cardinality(Forward!UpTo(S, e))
    PROVE  d = e
  <1>1. d \in Int /\ e \in Int /\ \A x \in S : x \in Int
    OBVIOUS
  <1>2. \A x \in S : Forward!UpTo(S, x) \subseteq S /\ x \in Forward!UpTo(S, x)
    BY <1>1 DEF Forward!UpTo
  <1>3. ASSUME NEW x \in S, NEW y \in S, x < y,
               Cardinality(Forward!UpTo(S, x)) = Cardinality(Forward!UpTo(S, y))
        PROVE  FALSE
    <2>1. Forward!UpTo(S, x) \subseteq Forward!UpTo(S, y) /\ y \notin Forward!UpTo(S, x)
      <3>1. x \in Int /\ y \in Int
        BY <1>1
      <3>2. \A z \in S : z <= x => z <= y
        BY <1>1, <1>3, <3>1
      <3>3. ~(y <= x)
        BY <1>3, <3>1
      <3> QED
        BY <3>2, <3>3 DEF Forward!UpTo
    <2>2. IsFiniteSet(Forward!UpTo(S, y))
      BY <1>2, ForwardSessions
    <2>3. Forward!UpTo(S, x) = Forward!UpTo(S, y)
      BY <1>3, <2>1, <2>2, FS_Subset
    <2> QED
      BY <1>2, <2>1, <2>3
  <1> QED
    BY <1>1, <1>3

\* Series grow at their ends only, so the bars a label may use are the beginning of
\* those it may use later.
LEMMA ForwardBarsFrom ==
    ASSUME NEW s, NEW first \in Nat, NEW asOf \in Int, NEW later \in Int, asOf <= later,
           bars[s] \subseteq 0 .. MaxSession, bars'[s] \subseteq 0 .. MaxSession,
           bars[s] \subseteq bars'[s],
           \A d \in bars'[s] \ bars[s] : \A e \in bars[s] : e < d
    PROVE  /\ Forward!BarsFrom(s, first, asOf) \subseteq Forward!BarsFrom(s, first, later)'
           /\ \A d \in Forward!BarsFrom(s, first, later)' \ Forward!BarsFrom(s, first, asOf) :
                 \A e \in Forward!BarsFrom(s, first, asOf) : e < d
           /\ Forward!BarsFrom(s, first, later)' \subseteq 0 .. MaxSession
  <1> DEFINE all == {d \in bars[s] : d >= first}
             all2 == {d \in bars'[s] : d >= first}
  <1>1. \A d \in bars'[s] : d \in Int
    OBVIOUS
  <1>2. \A d \in all : Forward!UpTo(all2, d) = Forward!UpTo(all, d)
    <2> SUFFICES ASSUME NEW d \in all, NEW e \in all2, e <= d
                 PROVE  e \in all
      BY DEF Forward!UpTo
    <2>1. d \in bars[s] /\ e \in bars'[s] /\ d \in Int /\ e \in Int
      BY <1>1
    <2>2. ~(d < e)
      BY <2>1
    <2> QED
      BY <2>1, <2>2
  <1>3. Forward!BarsFrom(s, first, asOf) =
           {d \in all : d <= asOf /\ Cardinality(Forward!UpTo(all, d)) <= Limit}
    BY ForwardSessions, Zenon DEF Forward!BarsFrom, Forward!UpTo
  <1>4. Forward!BarsFrom(s, first, later)' =
           {d \in all2 : d <= later /\ Cardinality(Forward!UpTo(all2, d)) <= Limit}
    BY ForwardSessions, Zenon DEF Forward!BarsFrom, Forward!UpTo
  <1>5. all \subseteq all2 /\ all2 \subseteq bars'[s] /\ all2 \subseteq 0 .. MaxSession
        /\ \A d \in all2 \ all : \A e \in all : e < d
    OBVIOUS
  <1>6. \A d \in all : d <= asOf => d <= later
    BY <1>1
  <1> HIDE DEF all, all2
  <1>7. \A d \in all2 : d \in Int
    BY <1>1, <1>5, Zenon
  <1>8. ASSUME NEW d \in Forward!BarsFrom(s, first, later)',
               d \notin Forward!BarsFrom(s, first, asOf),
               NEW e \in Forward!BarsFrom(s, first, asOf)
        PROVE  e < d
    <2>1. e \in all /\ e <= asOf /\ e \in Int /\ d \in all2 /\ d \in Int
      BY <1>3, <1>4, <1>5, <1>7
    <2>2. CASE d \notin all
      BY <1>5, <2>1, <2>2
    <2>3. CASE d \in all
      <3>1. ~(d <= asOf)
        BY <1>2, <1>3, <1>4, <1>8, <2>3
      <3> QED
        BY <2>1, <3>1
    <2> QED
      BY <2>2, <2>3
  <1> QED
    BY <1>2, <1>3, <1>4, <1>5, <1>6, <1>8

LEMMA ForwardLabelStays ==
    ASSUME ForwardType, ForwardType', NEW b \in Batches, NEW h,
           NEW asOf \in Int, NEW later \in Int, asOf <= later,
           \A s \in Forward!Security : bars[s] \subseteq bars'[s],
           \A s \in Forward!Security : \A d \in bars'[s] \ bars[s] : \A e \in bars[s] : e < d,
           Forward!Label(b, h, asOf) # None
    PROVE  Forward!Label(b, h, later)' = Forward!Label(b, h, asOf)
  <1> DEFINE C == Forward!Common(b, asOf)
             D == Forward!Common(b, later)'
             A(s) == Forward!BarsFrom(s, ExecutionOn[b], asOf)
             A2(s) == Forward!BarsFrom(s, ExecutionOn[b], later)'
  <1>1. \A s \in {SecurityOf[b], Benchmark} :
           /\ A(s) \subseteq A2(s)
           /\ \A d \in A2(s) \ A(s) : \A e \in A(s) : e < d
           /\ A2(s) \subseteq 0 .. MaxSession
    <2> TAKE s \in {SecurityOf[b], Benchmark}
    <2>1. s \in Forward!Security
      BY DEF Forward!Security
    <2>2. bars[s] \subseteq 0 .. MaxSession /\ bars'[s] \subseteq 0 .. MaxSession
      BY <2>1 DEF ForwardType, Forward!TypeOK
    <2> QED
      BY <2>1, <2>2, ForwardBarsFrom, ForwardAssumption
  <1>2. C = A(SecurityOf[b]) \cap A(Benchmark) /\ D = A2(SecurityOf[b]) \cap A2(Benchmark)
    BY DEF Forward!Common
  <1> HIDE DEF A, A2
  <1>3. /\ C \subseteq D /\ D \subseteq 0 .. MaxSession
        /\ \A d \in D \ C : \A e \in C : e < d
    BY <1>1, <1>2
  <1> HIDE DEF C, D
  <1>4. \A d \in C : Forward!UpTo(D, d) = Forward!UpTo(C, d)
    <2> SUFFICES ASSUME NEW d \in C, NEW e \in D, e <= d
                 PROVE  e \in C
      BY <1>3 DEF Forward!UpTo
    <2>1. d \in Int /\ e \in Int
      BY <1>3
    <2> QED
      BY <1>3, <2>1
  <1>5. /\ Forward!Label(b, h, asOf) =
              IF ExecutionOn[b] \in C /\ \E d \in C : Forward!Spans(C, h, d)
              THEN CHOOSE d \in C : Forward!Spans(C, h, d) ELSE None
        /\ Forward!Label(b, h, later)' =
              IF ExecutionOn[b] \in D /\ \E d \in D : Forward!Spans(D, h, d)
              THEN CHOOSE d \in D : Forward!Spans(D, h, d) ELSE None
    BY Zenon DEF Forward!Label, C, D, Forward!Spans, Forward!UpTo
  <1>6. \A S, d : Forward!Spans(S, h, d) <=> d \in S /\ Cardinality(Forward!UpTo(S, d)) = h
    BY ForwardSessions, Zenon DEF Forward!Spans
  <1> DEFINE end == CHOOSE d \in C : Forward!Spans(C, h, d)
  <1>7. /\ ExecutionOn[b] \in C /\ end \in C /\ Forward!Spans(C, h, end)
        /\ Forward!Label(b, h, asOf) = end
    BY <1>5
  <1> HIDE DEF end
  <1>8. end \in D /\ Forward!Spans(D, h, end) /\ ExecutionOn[b] \in D
    BY <1>3, <1>4, <1>6, <1>7
  <1>9. \A d \in D : Forward!Spans(D, h, d) => d = end
    BY <1>3, <1>6, <1>8, ForwardRankUnique
  <1> QED
    BY <1>5, <1>7, <1>8, <1>9

LEMMA ForwardInit == Forward!Init => ForwardInv
  <1> SUFFICES ASSUME Forward!Init PROVE ForwardInv
    OBVIOUS
  <1>1. Forward!NoRun \in [asOf : 0 .. completed, batches : SUBSET diagnostics,
                           todo : SUBSET Forward!Security]
    BY DEF Forward!Init, Forward!NoRun
  <1> QED
    BY <1>1, BoundsAssumption DEF Forward!Init, ForwardInv, ForwardType, Forward!TypeOK,
       Forward!LabelsAreFacts

\* The steps one by one, and how series grow.
LEMMA ForwardTypeNext ==
    ASSUME ForwardType, Forward!Next
    PROVE  /\ ForwardType' /\ completed <= completed'
           /\ \A s \in Forward!Security : bars[s] \subseteq bars'[s]
           /\ \A s \in Forward!Security : \A d \in bars'[s] \ bars[s] : \A e \in bars[s] : e < d
  <1> USE BoundsAssumption DEF ForwardType, Forward!TypeOK
  <1>1. CASE Forward!SessionCloses
    <2>1. completed' = completed + 1 /\ completed < MaxSession
          /\ UNCHANGED <<bars, diagnostics, invalidated, scorecard, reported, pc, run, aborts>>
      BY <1>1 DEF Forward!SessionCloses
    <2> QED
      BY <2>1
  <1>2. ASSUME NEW b \in Batches, Forward!WriteDiagnostics(b)
        PROVE  ForwardType' /\ completed' = completed /\ bars' = bars
    BY <1>2 DEF Forward!WriteDiagnostics
  <1>3. ASSUME NEW b \in Batches, Forward!AddInvalidation(b)
        PROVE  ForwardType' /\ completed' = completed /\ bars' = bars
    BY <1>3 DEF Forward!AddInvalidation
  <1>4. ASSUME NEW p \in Forward!Refresher, NEW asOf \in 1 .. completed,
               Forward!StartRefresh(p, asOf)
        PROVE  ForwardType' /\ completed' = completed /\ bars' = bars
    <2>1. \A S, t : Forward!Lagging(S, t) \subseteq S
      BY DEF Forward!Lagging
    <2>2. \A S : Forward!Due(S, asOf) \subseteq S
      BY DEF Forward!Due
    <2>3. {SecurityOf[b] : b \in Forward!Due(Forward!Admitted, asOf)} \cup {Benchmark}
             \subseteq Forward!Security
      BY <2>2 DEF Forward!Admitted, Forward!Security
    <2> DEFINE todo == Forward!Lagging({SecurityOf[b] : b \in Forward!Due(Forward!Admitted, asOf)}
                                          \cup {Benchmark}, asOf)
    <2>4. todo \subseteq Forward!Security /\ Forward!Admitted \subseteq diagnostics
      BY <2>1, <2>3 DEF Forward!Admitted
    <2>5. /\ run' = [run EXCEPT ![p] = [asOf |-> asOf, batches |-> Forward!Admitted, todo |-> todo]]
          /\ pc' = [pc EXCEPT ![p] = "sync"]
          /\ UNCHANGED <<completed, bars, diagnostics, invalidated, scorecard, reported, aborts>>
      BY <1>4 DEF Forward!StartRefresh
    <2> HIDE DEF todo
    <2> QED
      BY <2>4, <2>5
  <1>5. ASSUME NEW p \in Forward!Refresher, NEW s \in Forward!Security,
               NEW got \in SUBSET (1 .. completed), Forward!SyncSeries(p, s, got)
        PROVE  /\ ForwardType' /\ completed' = completed
               /\ \A r \in Forward!Security : bars[r] \subseteq bars'[r]
               /\ \A r \in Forward!Security : \A d \in bars'[r] \ bars[r] : \A e \in bars[r] : e < d
    <2>1. /\ got \subseteq Forward!Missing(s, Forward!Min({run[p].asOf, completed}))
          /\ bars' = [bars EXCEPT ![s] = bars[s] \cup got]
          /\ run' = [run EXCEPT ![p].todo = run[p].todo \ {s}]
          /\ UNCHANGED <<completed, diagnostics, invalidated, scorecard, reported, pc, aborts>>
      BY <1>5 DEF Forward!SyncSeries
    <2>2. \A d \in got : \A e \in bars[s] : e < d
      <3>1. bars[s] \in SUBSET (0 .. MaxSession) /\ bars[s] # {}
        OBVIOUS
      <3>2. \A e \in bars[s] : e <= Forward!Max(bars[s]) /\ e \in Int
        BY <3>1, ForwardSessions
      <3>3. Forward!Max(bars[s]) \in Int
        <4>1. bars[s] \in SUBSET Int /\ IsFiniteSet(bars[s])
          BY <3>1, ForwardSessions
        <4>2. Lda!Max(bars[s]) \in bars[s]
          BY <3>1, <4>1, MaxOfIntegers
        <4> QED
          BY <4>1, <4>2 DEF Forward!Max, Lda!Max
      <3>4. \A d \in got : d > Forward!Max(bars[s]) /\ d \in Int
        BY <2>1, <3>3 DEF Forward!Missing
      <3> QED
        BY <3>2, <3>3, <3>4
    <2>3. got \subseteq 0 .. MaxSession
      OBVIOUS
    <2>4. \A r \in Forward!Security : bars'[r] = IF r = s THEN bars[s] \cup got ELSE bars[r]
      BY <2>1
    <2> QED
      BY <2>1, <2>2, <2>3, <2>4
  <1>6. ASSUME NEW p \in Forward!Refresher, Forward!WriteScorecard(p)
        PROVE  ForwardType' /\ completed' = completed /\ bars' = bars
    <2>1. /\ scorecard' = [b \in run[p].batches |-> Forward!Labels(b, run[p].asOf)]
          /\ pc' = [pc EXCEPT ![p] = "idle"] /\ run' = [run EXCEPT ![p] = Forward!NoRun]
          /\ UNCHANGED <<completed, bars, diagnostics, invalidated, reported, aborts>>
      BY <1>6 DEF Forward!WriteScorecard
    <2>2. DOMAIN scorecard' \subseteq diagnostics
      BY <2>1
    <2> QED
      BY <2>1, <2>2 DEF Forward!NoRun
  <1>7. ASSUME NEW p \in Forward!Refresher, Forward!AbortRefresh(p)
        PROVE  ForwardType' /\ completed' = completed /\ bars' = bars
    BY <1>7 DEF Forward!AbortRefresh, Forward!NoRun
  <1>8. CASE Forward!Analyze
    <2>1. /\ reported' = reported \cup
               {[batch |-> b, source |-> SourceOf[b], end |-> scorecard[b][Chosen[b]]] :
                  b \in {x \in DOMAIN scorecard : Forward!Matured(x)}}
          /\ scorecard # None
          /\ UNCHANGED <<completed, bars, diagnostics, invalidated, scorecard, pc, run, aborts>>
      BY <1>8 DEF Forward!Analyze
    <2>2. DOMAIN scorecard \subseteq Batches
      BY <2>1
    <2>3. \A r \in reported' : r.batch \in Batches /\ r.end # None
      BY <2>1, <2>2 DEF Forward!Matured
    <2> QED
      BY <2>1, <2>3
  <1>9. completed \in Int
    OBVIOUS
  <1> QED
    BY <1>1, <1>2, <1>3, <1>4, <1>5, <1>6, <1>7, <1>8, <1>9
    DEF Forward!Next, Forward!Refresh

\* A published label is what a refresh would compute now, and stays so.
LEMMA ForwardLabelsNext ==
    ASSUME ForwardType, Forward!LabelsAreFacts, Forward!Next
    PROVE  Forward!LabelsAreFacts'
  <1>1. /\ ForwardType' /\ completed <= completed' /\ completed \in Int /\ completed' \in Int
        /\ \A s \in Forward!Security : bars[s] \subseteq bars'[s]
        /\ \A s \in Forward!Security : \A d \in bars'[s] \ bars[s] : \A e \in bars[s] : e < d
    BY ForwardTypeNext DEF ForwardType, Forward!TypeOK
  <1>2. \A b \in Batches : \A h : \A asOf \in Int :
           asOf <= completed' /\ Forward!Label(b, h, asOf) # None =>
              Forward!Label(b, h, completed)' = Forward!Label(b, h, asOf)
    <2> SUFFICES ASSUME NEW b \in Batches, NEW h, NEW asOf \in Int, asOf <= completed',
                        Forward!Label(b, h, asOf) # None
                 PROVE  Forward!Label(b, h, completed)' = Forward!Label(b, h, asOf)
      OBVIOUS
    <2>1. \A later \in Int : asOf <= later =>
             Forward!Label(b, h, later)' = Forward!Label(b, h, asOf)
      BY <1>1, ForwardLabelStays
    <2> QED
      BY <1>1, <2>1
  <1>3. \A b \in Batches : \A h :
           Forward!Label(b, h, completed) # None =>
              Forward!Label(b, h, completed)' = Forward!Label(b, h, completed)
    BY <1>1, <1>2
  <1>4. /\ scorecard # None => DOMAIN scorecard \subseteq Batches
        /\ \A r \in reported : r.batch \in Batches /\ r.end # None
    BY DEF ForwardType, Forward!TypeOK
  <1>5. ASSUME scorecard # None
        PROVE  \A b \in DOMAIN scorecard : \A h \in Horizons :
                  scorecard[b][h] # None => scorecard[b][h] = Forward!Label(b, h, completed)'
    <2>1. \A b \in DOMAIN scorecard : \A h \in Horizons :
             scorecard[b][h] # None => scorecard[b][h] = Forward!Label(b, h, completed)
      BY <1>5 DEF Forward!LabelsAreFacts
    <2> QED
      BY <1>3, <1>4, <1>5, <2>1
  <1>6. \A r \in reported : r.end = Forward!Label(r.batch, Chosen[r.batch], completed)'
    <2>1. \A r \in reported : r.end = Forward!Label(r.batch, Chosen[r.batch], completed)
      BY DEF Forward!LabelsAreFacts
    <2> QED
      BY <1>3, <1>4, <2>1
  <1>7. CASE scorecard' = scorecard /\ reported' = reported
    BY <1>5, <1>6, <1>7, Zenon DEF Forward!LabelsAreFacts
  <1>8. ASSUME NEW p \in Forward!Refresher, Forward!WriteScorecard(p)
        PROVE  Forward!LabelsAreFacts'
    <2>1. /\ scorecard' = [b \in run[p].batches |-> Forward!Labels(b, run[p].asOf)]
          /\ reported' = reported /\ completed' = completed
      BY <1>8 DEF Forward!WriteScorecard
    <2>2. run[p].batches \subseteq Batches /\ run[p].asOf \in Int /\ run[p].asOf <= completed'
      BY <1>1, <2>1 DEF ForwardType, Forward!TypeOK
    <2>3. \A b \in DOMAIN scorecard' : \A h \in Horizons :
             b \in Batches /\ scorecard'[b][h] = Forward!Label(b, h, run[p].asOf)
      BY <2>1, <2>2 DEF Forward!Labels
    <2>4. \A b \in DOMAIN scorecard' : \A h \in Horizons :
             scorecard'[b][h] # None => scorecard'[b][h] = Forward!Label(b, h, completed)'
      BY <1>2, <2>2, <2>3
    <2> QED
      BY <1>6, <2>1, <2>4, Zenon DEF Forward!LabelsAreFacts
  <1>9. CASE Forward!Analyze
    <2>1. /\ reported' = reported \cup
               {[batch |-> b, source |-> SourceOf[b], end |-> scorecard[b][Chosen[b]]] :
                  b \in {x \in DOMAIN scorecard : Forward!Matured(x)}}
          /\ scorecard # None /\ scorecard' = scorecard
      BY <1>9 DEF Forward!Analyze
    <2>2. \A b \in DOMAIN scorecard : Forward!Matured(b) =>
             /\ b \in Batches /\ Chosen[b] \in Horizons /\ scorecard[b][Chosen[b]] # None
      BY <1>4, <2>1, ForwardAssumption DEF Forward!Matured
    <2>3. \A b \in DOMAIN scorecard : Forward!Matured(b) =>
             scorecard[b][Chosen[b]] = Forward!Label(b, Chosen[b], completed)'
      BY <1>5, <2>1, <2>2
    <2>4. \A r \in reported' : r.end = Forward!Label(r.batch, Chosen[r.batch], completed)'
      <3> SUFFICES ASSUME NEW r \in reported', r \notin reported
                   PROVE  r.end = Forward!Label(r.batch, Chosen[r.batch], completed)'
        BY <1>6
      <3>1. PICK b \in DOMAIN scorecard : Forward!Matured(b) /\
               r = [batch |-> b, source |-> SourceOf[b], end |-> scorecard[b][Chosen[b]]]
        BY <2>1
      <3>2. r.batch = b /\ r.end = scorecard[b][Chosen[b]]
        BY <3>1
      <3> QED
        BY <2>3, <3>1, <3>2
    <2> QED
      BY <1>5, <2>1, <2>4, Zenon DEF Forward!LabelsAreFacts
  <1> QED
    BY <1>7, <1>8, <1>9
    DEF Forward!Next, Forward!Refresh, Forward!SessionCloses, Forward!WriteDiagnostics,
        Forward!AddInvalidation, Forward!StartRefresh, Forward!SyncSeries, Forward!AbortRefresh

-----------------------------------------------------------------------------
(* The scenes together.                                                     *)

LEMMA LdaInit == Lda!Init => LdaInv
  <1> SUFFICES ASSUME Lda!Init PROVE LdaInv
    OBVIOUS
  <1>1. LdaType
    BY LdaTypeInit
  <1>2. /\ pc = "idle" /\ intake.pending = {} /\ diagnostics = {} /\ run.seen = {}
        /\ run.ready = {} /\ run.selected = {}
    BY DEF Lda!Init, Lda!NoRun
  <1> QED
    BY <1>1, <1>2 DEF LdaInv, LdaFiles, LdaBatches, LdaPoll, Lda!PendingStored, Lda!Scored

LEMMA LdaStutters ==
    ASSUME LdaInv, UNCHANGED <<now, intake, stored, diagnostics, pc, run, aborts>>
    PROVE  LdaInv'
  BY DEF LdaInv, LdaType, Lda!TypeOK, LdaFiles, Lda!PendingStored, Lda!Unseen, Lda!TooOld,
         Lda!Scored, LdaBatches, Lda!Batch, Lda!Intended, Lda!Target, Lda!Day, LdaPoll,
         Lda!InWindow, Lda!Window, Descending, Ascending, Before, Passed, Lda!Rank

LEMMA UsaStutters ==
    ASSUME UsaInv, UNCHANGED <<now, intake, stored, aliases, diagnostics, invalidated,
                               migration, pc, run, aborts>>
    PROVE  UsaInv'
  <1>1. UsaType' /\ UsaFiles' /\ UsaMigration' /\ UsaBatches'
    BY DEF UsaInv, UsaType, Usa!TypeOK, UsaFiles, Usa!Stored, Usa!Found, Usa!Fresh,
           Usa!StaleAction, Usa!Day, UsaMigration, Usa!Outdated, Usa!OutdatedExcluded,
           Usa!Counted, UsaBatches, UsaBatch, Usa!Target, Usa!Intended
  <1>2. UsaPoll'
    <2>1. /\ \A t \in Transaction : Usa!Changed(t)' = Usa!Changed(t)
          /\ \A a : Usa!Rank(a)' = Usa!Rank(a)
          /\ Usa!Moved' = Usa!Moved
      BY UsaSameDay, UsaSameListing
    <2>2. Usa!Stored' = Usa!Stored /\ Usa!Found' = Usa!Found /\ Usa!Stored \subseteq Transaction
      BY DEF Usa!Stored, Usa!Found
    <2>3. \A t : Usa!PassedOver(t)' = Usa!PassedOver(t)
      BY UsaSameRun
    <2>4. UsaFloor' = UsaFloor
      BY DEF UsaFloor, Usa!Day
    <2> QED
      BY <2>1, <2>2, <2>3, <2>4 DEF UsaInv, UsaPoll
  <1> QED
    BY <1>1, <1>2 DEF UsaInv

LEMMA ForwardStutters ==
    ASSUME ForwardInv, UNCHANGED <<completed, bars, diagnostics, invalidated, scorecard, reported,
                                   pc, run, aborts>>
    PROVE  ForwardInv'
  <1>1. ForwardType'
    BY DEF ForwardInv, ForwardType, Forward!TypeOK
  <1>0. completed' = completed /\ bars' = bars /\ scorecard' = scorecard /\ reported' = reported
    OBVIOUS
  <1>2. \A b : Forward!Common(b, completed)' = Forward!Common(b, completed)
    BY <1>0 DEF Forward!Common, Forward!BarsFrom
  <1>3. \A b, h : Forward!Label(b, h, completed)' = Forward!Label(b, h, completed)
    BY <1>2 DEF Forward!Label
  <1>4. Forward!LabelsAreFacts
    BY DEF ForwardInv
  <1>5. Forward!LabelsAreFacts'
    BY <1>0, <1>3, <1>4 DEF Forward!LabelsAreFacts
  <1> QED
    BY <1>1, <1>5 DEF ForwardInv

LEMMA InvInit == Init => Inv
  BY LdaInit, UsaInit, ForwardInit DEF Init, Inv

LEMMA InvNext == Inv /\ [Next]_vars => Inv'
  <1> SUFFICES ASSUME Inv, [Next]_vars PROVE Inv'
    OBVIOUS
  <1>1. CASE LdaOnly /\ Lda!Next
    <2>1. scene = "lda" /\ scene' = "lda"
      BY <1>1 DEF LdaOnly
    <2>2. LdaInv
      BY <2>1 DEF Inv
    <2>3. LdaInv'
      BY <1>1, <2>2, LdaTypeNext, LdaFilesNext, LdaBatchesNext, LdaPollNext DEF LdaInv
    <2> QED
      BY <2>1, <2>3 DEF Inv
  <1>2. CASE UsaOnly /\ Usa!Next
    <2>1. scene = "usa" /\ scene' = "usa"
      BY <1>2 DEF UsaOnly
    <2>2. UsaInv
      BY <2>1 DEF Inv
    <2>3. UsaInv'
      BY <1>2, <2>2, UsaTypeNext, UsaFilesNext, UsaMigrationNext, UsaBatchesNext,
         UsaPollNext DEF UsaInv
    <2> QED
      BY <2>1, <2>3 DEF Inv
  <1>3. CASE ForwardOnly /\ Forward!Next
    <2>1. scene = "forward" /\ scene' = "forward"
      BY <1>3 DEF ForwardOnly
    <2>2. ForwardInv
      BY <2>1 DEF Inv
    <2>3. ForwardInv'
      BY <1>3, <2>2, ForwardTypeNext, ForwardLabelsNext DEF ForwardInv
    <2> QED
      BY <2>1, <2>3 DEF Inv
  <1>4. CASE UNCHANGED vars
    <2>1. /\ scene' = scene
          /\ UNCHANGED <<now, intake, stored, diagnostics, pc, run, aborts, aliases, invalidated,
                         migration, completed, bars, scorecard, reported>>
      BY <1>4 DEF vars, laneVars, usaVars, forwardVars
    <2> QED
      BY <2>1, LdaStutters, UsaStutters, ForwardStutters DEF Inv
  <1> QED
    BY <1>1, <1>2, <1>3, <1>4 DEF Next

LEMMA Invariant == FairSpec => []Inv
  BY InvInit, InvNext, PTL DEF FairSpec

\* TypeOK holds for all values of the constants.
THEOREM Typed == FairSpec => []TypeOK
  <1>1. Inv => TypeOK
    BY DEF Inv, TypeOK, LdaInv, LdaType, LdaFiles, UsaInv, UsaType, ForwardInv, ForwardType
  <1> QED
    BY <1>1, Invariant, PTL

\* No step of the lobbying lane moves its cursor past a modelled filing that is lost.
THEOREM NoFilingPassed == FairSpec => CursorCovers
  <1>1. Inv /\ [Next]_vars => [scene = "lda" => Lda!CursorStep]_vars
    <2> SUFFICES ASSUME Inv, Next, scene = "lda" PROVE Lda!CursorStep
      BY Zenon
    <2>1. Lda!Next /\ LdaInv
      BY DEF Next, UsaOnly, ForwardOnly, Inv
    <2> QED
      BY <2>1, LdaCursorStep DEF LdaInv
  <1> QED
    BY <1>1, Invariant, PTL DEF FairSpec, CursorCovers

\* No step of the contract lane moves its watermark past all changes of a stored
\* transaction that is neither queued nor handled, unless the listing moved.
THEOREM NoneOrphaned == FairSpec => NoOrphan
  <1>1. Inv /\ [Next]_vars => [scene = "usa" => Usa!OrphanFree]_vars
    <2> SUFFICES ASSUME Inv, Next, scene = "usa" PROVE Usa!OrphanFree
      BY Zenon
    <2>1. Usa!Next /\ UsaInv
      BY DEF Next, LdaOnly, ForwardOnly, Inv
    <2> QED
      BY <2>1, UsaOrphanFree DEF UsaInv
  <1> QED
    BY <1>1, Invariant, PTL DEF FairSpec, NoOrphan

\* Both lanes count a filing or transaction once, but for a run that was cut off.
THEOREM CountedOnce == FairSpec => []EvidenceOnce
  <1>1. Inv => EvidenceOnce
    BY LdaEvidence, UsaEvidence DEF Inv, EvidenceOnce, LdaInv, UsaInv
  <1> QED
    BY <1>1, Invariant, PTL

\* What the contract lane's migration takes out is neither queued nor counted again.
THEOREM OutdatedStayOut == FairSpec => []OutdatedExcluded
  <1>1. Inv => OutdatedExcluded
    BY DEF Inv, OutdatedExcluded, UsaInv, UsaMigration
  <1> QED
    BY <1>1, Invariant, PTL

\* A published label is what any refresh would compute now.
THEOREM LabelsStay == FairSpec => []LabelsAreFacts
  <1>1. Inv => LabelsAreFacts
    BY DEF Inv, LabelsAreFacts, ForwardInv
  <1> QED
    BY <1>1, Invariant, PTL

==============================================================================
