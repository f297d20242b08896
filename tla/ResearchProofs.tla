--------------------------- MODULE ResearchProofs ---------------------------
(***************************************************************************)
(* Theorems about the components between the stored history and a          *)
(* decision: the rolling calibration, the training split and live          *)
(* candidates, a generation of strategies, the backtesters and the arena;  *)
(* and, with the registry, the history and the market synchronization, the *)
(* properties of Research as a whole.                                      *)
(***************************************************************************)
EXTENDS Research, StrategyRuntimeProofs, HistoricalDataProofs, MarketSyncProofs,
        Sequences, FiniteSetTheorems, FunctionTheorems, WellFoundedInduction,
        NaturalsInduction, TLAPS

-----------------------------------------------------------------------------
(* The rolling calibration.                                                *)

Days == 1 .. MaxDate

\* No overlay is not a calibration.
NoOverlayApart == \A p, a, f : None # [profit |-> p, alpha |-> a, final |-> f]

\* With the assumption on its constants.
CalibrationSensible ==
    /\ IsFiniteSet(Candidate) /\ Seeded \subseteq Candidate
    /\ DayOf \in [Candidate -> Int] /\ \A c \in Seeded : DayOf[c] < 1
    /\ Window \in Nat /\ MaxDate \in Nat \ {0}
    /\ NoOverlayApart

\* Two calibrations decide a day alike.
Same(cal, other, date) ==
    /\ \A h \in Horizon :
         /\ Calibration!Past(cal.profit[h], date) = Calibration!Past(other.profit[h], date)
         /\ Calibration!Past(cal.alpha[h], date) = Calibration!Past(other.alpha[h], date)
    /\ Calibration!Past(cal.final, date) = Calibration!Past(other.final, date)

LEMMA DecideSame ==
    ASSUME NEW cal, NEW other, NEW date, Same(cal, other, date)
    PROVE  /\ \A cands :
                Calibration!Decide(cal, date, cands) = Calibration!Decide(other, date, cands)
           /\ \A c : Calibration!Signal(cal, date, c) = Calibration!Signal(other, date, c)
  <1>1. ASSUME NEW c
        PROVE  Calibration!Signals(cal, date, c) = Calibration!Signals(other, date, c)
    BY DEF Same, Calibration!Signals
  <1>2. ASSUME NEW c
        PROVE  Calibration!Signal(cal, date, c) = Calibration!Signal(other, date, c)
    BY <1>1 DEF Calibration!Signal
  <1> QED
    BY <1>2 DEF Same, Calibration!Decide

\* A batch is not ranked against itself.
LEMMA PastOfUpdated ==
    ASSUME NEW history, NEW date \in Int, NEW scores
    PROVE  Calibration!Past(Calibration!Updated(history, date, scores), date)
               = Calibration!Past(history, date)
BY DEF Calibration!Past, Calibration!Updated

LEMMA EvaluatedSame ==
    ASSUME NEW cal, NEW date \in Int, NEW cands
    PROVE  Same(Calibration!Evaluated(cal, date, cands), cal, date)
BY PastOfUpdated DEF Same, Calibration!Evaluated

LEMMA RewoundSame ==
    ASSUME NEW cal, NEW date \in Int
    PROVE  Same(Calibration!Rewound(cal, date), cal, date)
BY DEF Same, Calibration!Rewound, Calibration!Past


\* Batches are of live candidates of today, what checkpoints contained of those of its
\* date, and no later date has any.
Dated ==
    /\ today \in Days
    /\ arrived \subseteq Candidate \ Seeded
    /\ batch \subseteq {c \in Candidate \ Seeded : DayOf[c] = today}
    /\ evaluated \in [Days -> SUBSET Candidate] /\ latest \in [Days -> SUBSET Candidate]
    /\ \A d \in Days : latest[d] \subseteq evaluated[d]
    /\ \A d \in Days : evaluated[d] \subseteq {c \in Candidate \ Seeded : DayOf[c] = d}
    /\ \A d \in Days : d > today => evaluated[d] = {}
    /\ \A r \in receipts : r.day \in Days /\ r.day <= today
                           /\ r.batch \subseteq {c \in Candidate \ Seeded : DayOf[c] = r.day}

\* Between the decision and the receipt, memory is what the overlay was or becomes.
Deciding ==
    /\ step \in {"idle", "evaluated", "saved"}
    /\ step = "idle" => batch = {}
    /\ step # "idle" =>
         /\ batch # {}
         /\ memory # None
         /\ emitted = Calibration!Decide(memory, today, batch)
         /\ Same(memory, Calibration!Restored, today)
    /\ step = "evaluated" => memory = Calibration!Evaluated(Calibration!Restored, today, batch)
    /\ step = "saved" => disk = memory /\ evaluated[today] # {}

\* No date after d was evaluated.
LastDate(d) == \A x \in Days : x > d => evaluated[x] = {}

\* Until a later date is evaluated, the overlay decides the batch of a receipt again as
\* the receipt says.
Redecided ==
    \A r \in receipts :
        LastDate(r.day) => Calibration!Decide(Calibration!Restored, r.day, r.batch) = r.emitted

CalibrationInv == Dated /\ Deciding /\ Redecided

LEMMA EvaluatedIsNoNone ==
    ASSUME CalibrationSensible, NEW cal, NEW date, NEW cands
    PROVE  Calibration!Evaluated(cal, date, cands) # None
BY DEF CalibrationSensible, NoOverlayApart, Calibration!Evaluated

LEMMA CalibrationInit ==
    ASSUME CalibrationSensible, Calibration!Init
    PROVE  CalibrationInv
  <1>1. Dated
    BY DEF Calibration!Init, CalibrationSensible, Dated, Days, Calibration!Days
  <1>2. Deciding /\ Redecided
    BY DEF Calibration!Init, Deciding, Redecided
  <1> QED
    BY <1>1, <1>2 DEF CalibrationInv

\* With the models' predictions fixed, a decision depends on its arguments only.
LEMMA DecisionIsPure ==
    ASSUME predicted' = predicted, NEW cal, NEW date, NEW cands
    PROVE  /\ Calibration!Decide(cal, date, cands)' = Calibration!Decide(cal, date, cands)
           /\ Calibration!Evaluated(cal, date, cands)' = Calibration!Evaluated(cal, date, cands)
           /\ Calibration!Frozen' = Calibration!Frozen
  <1>1. /\ \A c : Calibration!Signal(cal, date, c)' = Calibration!Signal(cal, date, c)
        /\ \A c : Calibration!Eligible(c)' = Calibration!Eligible(c)
    BY DEF Calibration!Signal, Calibration!Signals, Calibration!Chosen, Calibration!Better,
           Calibration!Eligible
  <1>2. Calibration!Tradable(cands)' = Calibration!Tradable(cands)
    BY <1>1 DEF Calibration!Tradable
  <1>3. Calibration!Frozen' = Calibration!Frozen
    BY DEF Calibration!Frozen, Calibration!Tradable, Calibration!Eligible,
           Calibration!StaticSignal, Calibration!StaticSignals, Calibration!Chosen,
           Calibration!Better
  <1>4. Calibration!Decide(cal, date, cands)' = Calibration!Decide(cal, date, cands)
    BY <1>1, <1>2 DEF Calibration!Decide
  <1>5. /\ \A h : [c \in cands |-> predicted[c][h].profit]'
                    = [c \in cands |-> predicted[c][h].profit]
        /\ \A h : [c \in cands |-> predicted[c][h].alpha]'
                    = [c \in cands |-> predicted[c][h].alpha]
        /\ [c \in Calibration!Ranked(cands) |->
              IF Calibration!Eligible(c) = {} THEN 0 ELSE Calibration!Signal(cal, date, c)]'
             = [c \in Calibration!Ranked(cands) |->
                  IF Calibration!Eligible(c) = {} THEN 0 ELSE Calibration!Signal(cal, date, c)]
    BY <1>1, <1>2 DEF Calibration!Ranked
  <1>6. Calibration!Evaluated(cal, date, cands)' = Calibration!Evaluated(cal, date, cands)
    BY <1>5 DEF Calibration!Evaluated
  <1> QED
    BY <1>3, <1>4, <1>6

\* Steps that leave overlay, memory and receipts.
LEMMA RestoredStays ==
    ASSUME predicted' = predicted, disk' = disk
    PROVE  Calibration!Restored' = Calibration!Restored
BY DecisionIsPure DEF Calibration!Restored

LEMMA RedecidedStays ==
    ASSUME Redecided, UNCHANGED <<predicted, disk, receipts, evaluated>>
    PROVE  Redecided'
  <1>1. Calibration!Restored' = Calibration!Restored
    BY RestoredStays
  <1>2. \A cal, date, cands :
          Calibration!Decide(cal, date, cands)' = Calibration!Decide(cal, date, cands)
    BY DecisionIsPure
  <1> QED
    BY <1>1, <1>2 DEF Redecided, LastDate

LEMMA ArriveKeeps ==
    ASSUME CalibrationInv, NEW c, Calibration!Arrive(c)
    PROVE  CalibrationInv'
  <1>1. Dated'
    BY DEF Calibration!Arrive, Calibration!Live, CalibrationInv, Dated
  <1>2. Calibration!Restored' = Calibration!Restored
    BY RestoredStays DEF Calibration!Arrive
  <1>3. /\ \A cal, date, cands :
             Calibration!Decide(cal, date, cands)' = Calibration!Decide(cal, date, cands)
        /\ \A cal, date, cands :
             Calibration!Evaluated(cal, date, cands)' = Calibration!Evaluated(cal, date, cands)
    BY DecisionIsPure DEF Calibration!Arrive
  <1>4. Deciding'
    BY <1>2, <1>3 DEF Calibration!Arrive, CalibrationInv, Deciding, Same
  <1>5. Redecided'
    BY RedecidedStays DEF Calibration!Arrive, CalibrationInv
  <1> QED
    BY <1>1, <1>4, <1>5 DEF CalibrationInv

LEMMA CrashKeeps ==
    ASSUME CalibrationInv, Calibration!Crash
    PROVE  CalibrationInv'
  <1>1. Dated'
    BY DEF Calibration!Crash, CalibrationInv, Dated
  <1>2. Deciding'
    BY DEF Calibration!Crash, CalibrationInv, Deciding
  <1>3. Redecided'
    BY RedecidedStays DEF Calibration!Crash, CalibrationInv
  <1> QED
    BY <1>1, <1>2, <1>3 DEF CalibrationInv

LEMMA NextDayKeeps ==
    ASSUME CalibrationSensible, CalibrationInv, Calibration!NextDay
    PROVE  CalibrationInv'
  <1>1. Dated'
    BY DEF Calibration!NextDay, CalibrationInv, Dated, Deciding, Days, CalibrationSensible
  <1>2. Deciding'
    BY DEF Calibration!NextDay, CalibrationInv, Deciding
  <1>3. Redecided'
    BY RedecidedStays DEF Calibration!NextDay, CalibrationInv
  <1> QED
    BY <1>1, <1>2, <1>3 DEF CalibrationInv

LEMMA EvaluateKeeps ==
    ASSUME CalibrationSensible, CalibrationInv, Calibration!Evaluate
    PROVE  CalibrationInv'
  <1>1. Dated'
    BY DEF Calibration!Evaluate, CalibrationInv, Dated
  <1>2. Redecided'
    BY RedecidedStays DEF Calibration!Evaluate, CalibrationInv
  <1>3. Deciding'
    <2>1. Calibration!Restored' = Calibration!Restored
      BY RestoredStays DEF Calibration!Evaluate
    <2>2. /\ \A cal, date, cands :
               Calibration!Decide(cal, date, cands)' = Calibration!Decide(cal, date, cands)
          /\ \A cal, date, cands :
               Calibration!Evaluated(cal, date, cands)' = Calibration!Evaluated(cal, date, cands)
      BY DecisionIsPure DEF Calibration!Evaluate
    <2>3. /\ today' = today /\ memory' = Calibration!Evaluated(Calibration!Restored, today, batch')
          /\ emitted' = Calibration!Decide(Calibration!Restored, today, batch')
          /\ step' = "evaluated" /\ batch' # {} /\ today \in Int
      BY DEF Calibration!Evaluate, CalibrationInv, Dated, Days
    <2>4. Same(memory', Calibration!Restored, today)
      BY <2>3, EvaluatedSame
    <2>5. emitted' = Calibration!Decide(memory', today, batch')
      BY <2>3, <2>4, DecideSame
    <2>6. memory' # None
      BY <2>3, EvaluatedIsNoNone
    <2> QED
      BY <2>1, <2>2, <2>3, <2>4, <2>5, <2>6 DEF Deciding, Same
  <1> QED
    BY <1>1, <1>2, <1>3 DEF CalibrationInv

LEMMA CheckpointKeeps ==
    ASSUME CalibrationSensible, CalibrationInv, Calibration!Checkpoint
    PROVE  CalibrationInv'
  <1> USE DEF Calibration!Checkpoint
  <1>1. today \in Days /\ evaluated' \in [Days -> SUBSET Candidate] /\ batch # {}
        /\ evaluated'[today] = evaluated[today] \cup batch
        /\ latest'[today] = batch
        /\ \A d \in Days \ {today} : evaluated'[d] = evaluated[d] /\ latest'[d] = latest[d]
        /\ latest' \in [Days -> SUBSET Candidate]
    BY DEF CalibrationInv, Dated, Deciding
  <1>2. Dated'
    BY <1>1 DEF CalibrationInv, Dated, Days
  <1>3. Calibration!Restored' = memory /\ memory # None
    BY DEF CalibrationInv, Deciding, Calibration!Restored
  <1>4. \A cal, date, cands :
          Calibration!Decide(cal, date, cands)' = Calibration!Decide(cal, date, cands)
    BY DecisionIsPure
  <1>5. Deciding'
    BY <1>1, <1>3, <1>4 DEF CalibrationInv, Deciding, Same
  <1>6. ASSUME NEW r \in receipts, LastDate(r.day)'
        PROVE  Calibration!Decide(memory, r.day, r.batch) = r.emitted
    <2>1. r.day = today
      BY <1>1, <1>6 DEF CalibrationInv, Dated, LastDate, Days
    <2>2. LastDate(r.day)
      BY <1>1, <1>6, <2>1 DEF LastDate, Days
    <2> QED
      BY <2>1, <2>2, DecideSame DEF CalibrationInv, Redecided, Deciding
  <1>7. Redecided'
    BY <1>3, <1>4, <1>6 DEF Redecided
  <1> QED
    BY <1>2, <1>5, <1>7 DEF CalibrationInv

LEMMA CompleteKeeps ==
    ASSUME CalibrationSensible, CalibrationInv, Calibration!Complete
    PROVE  CalibrationInv'
  <1> USE DEF Calibration!Complete
  <1>1. Dated'
    BY DEF CalibrationInv, Dated, Days
  <1>2. Deciding'
    BY DEF CalibrationInv, Deciding
  <1>3. Calibration!Restored' = memory /\ Calibration!Restored = memory
    BY DEF CalibrationInv, Deciding, Calibration!Restored
  <1>4. \A cal, date, cands :
          Calibration!Decide(cal, date, cands)' = Calibration!Decide(cal, date, cands)
    BY DecisionIsPure
  <1>5. ASSUME NEW r \in receipts', LastDate(r.day)'
        PROVE  Calibration!Decide(memory, r.day, r.batch) = r.emitted
    BY <1>3, <1>5 DEF CalibrationInv, Redecided, LastDate, Deciding
  <1>6. Redecided'
    BY <1>3, <1>4, <1>5 DEF Redecided
  <1> QED
    BY <1>1, <1>2, <1>6 DEF CalibrationInv

LEMMA CalibrationInvCorrect ==
    ASSUME CalibrationSensible
    PROVE  Calibration!Spec => []CalibrationInv
  <1>1. Calibration!Init => CalibrationInv
    BY CalibrationInit
  <1>2. CalibrationInv /\ [Calibration!Next]_(Calibration!vars) => CalibrationInv'
    <2> SUFFICES ASSUME CalibrationInv, [Calibration!Next]_(Calibration!vars)
                 PROVE  CalibrationInv'
      OBVIOUS
    <2>1. CASE UNCHANGED Calibration!vars
      <3>1. Dated'
        BY <2>1 DEF Calibration!vars, CalibrationInv, Dated
      <3>2. Calibration!Restored' = Calibration!Restored
        BY <2>1, RestoredStays DEF Calibration!vars
      <3>3. /\ \A cal, date, cands :
                 Calibration!Decide(cal, date, cands)' = Calibration!Decide(cal, date, cands)
            /\ \A cal, date, cands :
                 Calibration!Evaluated(cal, date, cands)' = Calibration!Evaluated(cal, date, cands)
        BY <2>1, DecisionIsPure DEF Calibration!vars
      <3>4. Deciding'
        BY <2>1, <3>2, <3>3 DEF Calibration!vars, CalibrationInv, Deciding, Same
      <3>5. Redecided'
        BY <2>1, RedecidedStays DEF Calibration!vars, CalibrationInv
      <3> QED
        BY <3>1, <3>4, <3>5 DEF CalibrationInv
    <2> QED
      BY <2>1, ArriveKeeps, CrashKeeps, NextDayKeeps, EvaluateKeeps, CheckpointKeeps,
         CompleteKeeps DEF Calibration!Next
  <1> QED
    BY <1>1, <1>2, PTL DEF Calibration!Spec

\* The overlay, rewound before the date of a receipt, gives that receipt's decision
\* again, whatever crashed in between, as long as no later date was evaluated
\* (rewind_registry_calibration_before, diagnose_current_receipt).
THEOREM ReceiptReproducibleCorrect ==
    ASSUME NoOverlayApart
    PROVE  Calibration!Spec => []Calibration!ReceiptReproducible
  <1> CalibrationSensible
    BY CalibrationAssumption DEF CalibrationSensible
  <1>1. CalibrationInv => Calibration!ReceiptReproducible
    <2> SUFFICES ASSUME CalibrationInv, NEW r \in receipts, LastDate(r.day)
                 PROVE  Calibration!Rediagnosed(r) = r.emitted
      BY DEF Calibration!ReceiptReproducible, LastDate, Days, Calibration!Days
    <2>1. r.day \in Int
      BY DEF CalibrationInv, Dated, Days
    <2>2. Same(Calibration!Rewound(Calibration!Restored, r.day), Calibration!Restored, r.day)
      BY <2>1, RewoundSame
    <2> QED
      BY <2>2, DecideSame DEF Calibration!Rediagnosed, CalibrationInv, Redecided
  <1> QED
    BY <1>1, CalibrationInvCorrect, PTL

-----------------------------------------------------------------------------
(* The live calibration and the chronological replay.                      *)

LEMMA SameCardinality ==
    ASSUME NEW S
    PROVE  Calibration!Cardinality(S) = Cardinality(S)
BY DEF Calibration!Cardinality, Cardinality, Calibration!IsFiniteSet, IsFiniteSet

LEMMA PercentileOfCounts ==
    ASSUME NEW R, NEW Q, NEW v, R = {} <=> Q = {}, Cardinality(R) = Cardinality(Q),
           Cardinality({e \in R : e.score < v}) = Cardinality({e \in Q : e.score < v}),
           Cardinality({e \in R : e.score <= v}) = Cardinality({e \in Q : e.score <= v})
    PROVE  Calibration!Percentile(R, v) = Calibration!Percentile(Q, v)
  <1>1. CASE R = {}
    BY <1>1, Zenon DEF Calibration!Percentile
  <1>2. CASE R # {}
    <2>1. Calibration!Percentile(R, v)
            = (60 * (Cardinality({e \in R : e.score < v})
                     + Cardinality({e \in R : e.score <= v}))) \div Cardinality(R)
      BY <1>2, SameCardinality, Zenon DEF Calibration!Percentile
    <2>2. Calibration!Percentile(Q, v)
            = (60 * (Cardinality({e \in Q : e.score < v})
                     + Cardinality({e \in Q : e.score <= v}))) \div Cardinality(Q)
      BY <1>2, SameCardinality, Zenon DEF Calibration!Percentile
    <2> QED
      BY <2>1, <2>2, Zenon
  <1> QED
    BY <1>1, <1>2

\* The rows of a history in a window, and the replay's of the same candidates.
LEMMA PercentileOfRows ==
    ASSUME NEW S, IsFiniteSet(S), NEW score, NEW v
    PROVE  Calibration!Percentile({[day |-> DayOf[x], of |-> x, score |-> score[x]] : x \in S}, v)
             = Calibration!Percentile({[of |-> x, score |-> score[x]] : x \in S}, v)
  <1> DEFINE Dates(A) == {[day |-> DayOf[x], of |-> x, score |-> score[x]] : x \in A}
             Plain(A) == {[of |-> x, score |-> score[x]] : x \in A}
  <1>1. ASSUME NEW A \in SUBSET S
        PROVE  Cardinality(Dates(A)) = Cardinality(Plain(A))
    <2>1. IsFiniteSet(A)
      BY FS_Subset
    <2> DEFINE f == [x \in A |-> [day |-> DayOf[x], of |-> x, score |-> score[x]]]
               g == [x \in A |-> [of |-> x, score |-> score[x]]]
    <2>2. f \in Bijection(A, Dates(A))
      <3>1. f \in [A -> Dates(A)] /\ \A x \in A : f[x].of = x
        OBVIOUS
      <3>2. \A r \in Dates(A) : \E x \in A : f[x] = r
        OBVIOUS
      <3> HIDE DEF f, Dates
      <3> QED
        BY <3>1, <3>2, Fun_IsBij
    <2>3. g \in Bijection(A, Plain(A))
      <3>1. g \in [A -> Plain(A)] /\ \A x \in A : g[x].of = x
        OBVIOUS
      <3>2. \A r \in Plain(A) : \E x \in A : g[x] = r
        OBVIOUS
      <3> HIDE DEF g, Plain
      <3> QED
        BY <3>1, <3>2, Fun_IsBij
    <2>4. Cardinality(Dates(A)) = Cardinality(A)
      BY <2>1, <2>2, FS_Bijection DEF ExistsBijection
    <2>5. Cardinality(Plain(A)) = Cardinality(A)
      BY <2>1, <2>3, FS_Bijection DEF ExistsBijection
    <2> QED
      BY <2>4, <2>5
  <1>2. /\ {e \in Dates(S) : e.score < v} = Dates({x \in S : score[x] < v})
        /\ {e \in Dates(S) : e.score <= v} = Dates({x \in S : score[x] <= v})
        /\ {e \in Plain(S) : e.score < v} = Plain({x \in S : score[x] < v})
        /\ {e \in Plain(S) : e.score <= v} = Plain({x \in S : score[x] <= v})
    OBVIOUS
  <1>3. /\ Cardinality({e \in Dates(S) : e.score < v})
             = Cardinality({e \in Plain(S) : e.score < v})
        /\ Cardinality({e \in Dates(S) : e.score <= v})
             = Cardinality({e \in Plain(S) : e.score <= v})
        /\ Cardinality(Dates(S)) = Cardinality(Plain(S))
    <2>1. {x \in S : score[x] < v} \in SUBSET S /\ {x \in S : score[x] <= v} \in SUBSET S
          /\ S \in SUBSET S
      OBVIOUS
    <2> HIDE DEF Dates, Plain
    <2> QED
      BY <1>1, <1>2, <2>1
  <1>4. Dates(S) = {} <=> Plain(S) = {}
    OBVIOUS
  <1> HIDE DEF Dates, Plain
  <1>5. Calibration!Percentile(Dates(S), v) = Calibration!Percentile(Plain(S), v)
    BY <1>3, <1>4, PercentileOfCounts
  <1> QED
    BY <1>5 DEF Dates, Plain

\* No date before D was decided in two batches.
OncePerDate(D) == \A d \in Days : d < D => latest[d] = evaluated[d]

\* What the replay ranks candidates of date D against.
Sample(D) == Calibration!InWindow(D, Calibration!Population(D))

\* Calibration cal has for date D the rows of the replay.
Contains(cal, D) ==
    /\ \A h \in Horizon :
         /\ Calibration!Past(cal.profit[h], D)
              = {[day |-> DayOf[x], of |-> x, score |-> predicted[x][h].profit] : x \in Sample(D)}
         /\ Calibration!Past(cal.alpha[h], D)
              = {[day |-> DayOf[x], of |-> x, score |-> predicted[x][h].alpha] : x \in Sample(D)}
    /\ Calibration!Past(cal.final, D)
         = {[day |-> DayOf[x], of |-> x, score |-> Calibration!ReplaySignal(x)] :
              x \in Calibration!Tradable(Sample(D))}

\* The overlay has the rows of the replay for every date to come.
WindowKept == \A D \in Days : D >= today /\ OncePerDate(D) => Contains(Calibration!Restored, D)

Replayed ==
    \A r \in receipts :
        OncePerDate(r.day) => r.emitted = {c \in r.batch : Calibration!ReplayEmits(c)}

LEMMA SampleFinite ==
    ASSUME CalibrationSensible, Dated, NEW D
    PROVE  /\ IsFiniteSet(Sample(D)) /\ Sample(D) \subseteq Candidate
           /\ IsFiniteSet(Calibration!Tradable(Sample(D)))
  <1>1. Calibration!Population(D) \subseteq Candidate
    BY DEF CalibrationSensible, Dated, Calibration!Population, Days, Calibration!Days
  <1>2. Sample(D) \subseteq Candidate /\ Calibration!Tradable(Sample(D)) \subseteq Candidate
    BY <1>1 DEF Sample, Calibration!InWindow, Calibration!Tradable
  <1> QED
    BY <1>2, FS_Subset DEF CalibrationSensible

\* The stage-one ranks agree, hence the signal, hence what is emitted.
LEMMA SignalIsReplayed ==
    ASSUME CalibrationSensible, Dated, NEW cal, NEW D, Contains(cal, D),
           NEW c \in Candidate \ Seeded, DayOf[c] = D
    PROVE  Calibration!Signal(cal, D, c) = Calibration!ReplaySignal(c)
  <1> DEFINE S == Sample(D)
             profit(h) == {[of |-> x, score |-> predicted[x][h].profit] : x \in S}
             alpha(h) == {[of |-> x, score |-> predicted[x][h].alpha] : x \in S}
  <1>1. IsFiniteSet(S)
    BY SampleFinite
  <1>2. ASSUME NEW h \in Horizon, NEW v
        PROVE  /\ Calibration!Percentile(Calibration!Past(cal.profit[h], D), v)
                    = Calibration!Percentile(profit(h), v)
               /\ Calibration!Percentile(Calibration!Past(cal.alpha[h], D), v)
                    = Calibration!Percentile(alpha(h), v)
    <2> DEFINE p == [x \in S |-> predicted[x][h].profit]
               a == [x \in S |-> predicted[x][h].alpha]
    <2>1. /\ Calibration!Past(cal.profit[h], D)
               = {[day |-> DayOf[x], of |-> x, score |-> p[x]] : x \in S}
          /\ Calibration!Past(cal.alpha[h], D)
               = {[day |-> DayOf[x], of |-> x, score |-> a[x]] : x \in S}
      BY DEF Contains
    <2>2. /\ profit(h) = {[of |-> x, score |-> p[x]] : x \in S}
          /\ alpha(h) = {[of |-> x, score |-> a[x]] : x \in S}
      OBVIOUS
    <2> HIDE DEF S, p, a, profit, alpha
    <2> QED
      BY <1>1, <2>1, <2>2, PercentileOfRows
  <1>3. Calibration!Signals(cal, D, c) = Calibration!ReplaySignals(c)
    <2>1. Calibration!ReplaySignals(c)
            = [h \in Horizon |->
                 Calibration!Combined(Calibration!Percentile(profit(h), predicted[c][h].profit),
                                      Calibration!Percentile(alpha(h), predicted[c][h].alpha))]
      BY DEF Calibration!ReplaySignals, Sample
    <2> HIDE DEF profit, alpha
    <2> QED
      BY <1>2, <2>1 DEF Calibration!Signals
  <1> QED
    BY <1>3 DEF Calibration!Signal, Calibration!ReplaySignal

LEMMA DecisionIsReplayed ==
    ASSUME CalibrationSensible, Dated, NEW cal, NEW D, Contains(cal, D),
           NEW cands, cands \subseteq {c \in Candidate \ Seeded : DayOf[c] = D}
    PROVE  Calibration!Decide(cal, D, cands) = {c \in cands : Calibration!ReplayEmits(c)}
  <1> DEFINE T == Calibration!Tradable(Sample(D))
             rows == {[of |-> x, score |-> Calibration!ReplaySignal(x)] : x \in T}
  <1>1. ASSUME NEW v
        PROVE  Calibration!Percentile(Calibration!Past(cal.final, D), v)
                 = Calibration!Percentile(rows, v)
    <2> DEFINE s == [x \in T |-> Calibration!ReplaySignal(x)]
    <2>1. IsFiniteSet(T)
      BY SampleFinite
    <2>2. Calibration!Past(cal.final, D) = {[day |-> DayOf[x], of |-> x, score |-> s[x]] : x \in T}
      BY DEF Contains
    <2>3. rows = {[of |-> x, score |-> s[x]] : x \in T}
      OBVIOUS
    <2> HIDE DEF T, s, rows
    <2> QED
      BY <2>1, <2>2, <2>3, PercentileOfRows
  <1>2. ASSUME NEW c \in cands
        PROVE  Calibration!ReplayEmits(c)
                 <=> /\ Calibration!Eligible(c) # {}
                     /\ Calibration!Percentile(rows, Calibration!ReplaySignal(c)) >= Threshold
    BY DEF Calibration!ReplayEmits, Sample
  <1>3. \A c \in cands : Calibration!Signal(cal, D, c) = Calibration!ReplaySignal(c)
    BY SignalIsReplayed
  <1> HIDE DEF rows
  <1> QED
    BY <1>1, <1>2, <1>3 DEF Calibration!Decide, Calibration!Tradable

\* The replay of a date depends on earlier dates only.
LEMMA ReplayStays ==
    ASSUME predicted' = predicted, NEW D,
           \A d \in Days : d < D => latest'[d] = latest[d]
    PROVE  /\ Sample(D)' = Sample(D)
           /\ \A cands : Calibration!Tradable(cands)' = Calibration!Tradable(cands)
           /\ \A c : Calibration!StaticSignal(c)' = Calibration!StaticSignal(c)
           /\ \A c \in Candidate : DayOf[c] = D =>
                Calibration!ReplaySignal(c)' = Calibration!ReplaySignal(c)
  <1>1. Calibration!Population(D)' = Calibration!Population(D)
    BY DEF Calibration!Population, Days, Calibration!Days
  <1>2. Sample(D)' = Sample(D)
    BY <1>1 DEF Sample, Calibration!InWindow
  <1>3. \A cands : Calibration!Tradable(cands)' = Calibration!Tradable(cands)
    BY DEF Calibration!Tradable, Calibration!Eligible
  <1>4. \A c : Calibration!StaticSignal(c)' = Calibration!StaticSignal(c)
    BY DEF Calibration!StaticSignal, Calibration!StaticSignals, Calibration!Chosen,
           Calibration!Better, Calibration!Eligible
  <1>5. ASSUME NEW c \in Candidate, DayOf[c] = D
        PROVE  Calibration!ReplaySignal(c)' = Calibration!ReplaySignal(c)
    <2>1. Calibration!ReplaySignals(c)' = Calibration!ReplaySignals(c)
      BY <1>2, <1>5 DEF Calibration!ReplaySignals, Sample
    <2>2. \A s : Calibration!Chosen(c, s)' = Calibration!Chosen(c, s)
      BY DEF Calibration!Chosen, Calibration!Better, Calibration!Eligible
    <2> QED
      BY <1>4, <2>1, <2>2 DEF Calibration!ReplaySignal
  <1> QED
    BY <1>2, <1>3, <1>4, <1>5

LEMMA EmitsStays ==
    ASSUME CalibrationSensible, predicted' = predicted, NEW D \in Int,
           \A d \in Days : d < D => latest'[d] = latest[d], Dated, Dated'
    PROVE  /\ {[day |-> DayOf[x], of |-> x, score |-> Calibration!ReplaySignal(x)] :
                 x \in Calibration!Tradable(Sample(D))}'
             = {[day |-> DayOf[x], of |-> x, score |-> Calibration!ReplaySignal(x)] :
                 x \in Calibration!Tradable(Sample(D))}
           /\ \A c \in Candidate : DayOf[c] = D =>
                (Calibration!ReplayEmits(c)' <=> Calibration!ReplayEmits(c))
  <1> DEFINE T == Calibration!Tradable(Sample(D))
  <1>1. Sample(D)' = Sample(D) /\ T' = T
    BY ReplayStays
  <1>2. ASSUME NEW c \in Candidate, DayOf[c] <= D
        PROVE  Calibration!ReplaySignal(c)' = Calibration!ReplaySignal(c)
    <2>1. DayOf[c] \in Int
      BY DEF CalibrationSensible
    <2>2. \A d \in Days : d < DayOf[c] => latest'[d] = latest[d]
      BY <1>2, <2>1 DEF Days
    <2> QED
      BY <2>1, <2>2, ReplayStays
  <1>3. \A x \in T : x \in Candidate /\ DayOf[x] < D /\ DayOf[x] \in Int
    BY SampleFinite DEF Calibration!Tradable, Sample, Calibration!InWindow, CalibrationSensible
  <1>4. \A x \in T : Calibration!ReplaySignal(x)' = Calibration!ReplaySignal(x)
    BY <1>2, <1>3
  <1>5. ASSUME NEW c \in Candidate, DayOf[c] = D
        PROVE  Calibration!ReplayEmits(c)' <=> Calibration!ReplayEmits(c)
    <2>1. Calibration!ReplaySignal(c)' = Calibration!ReplaySignal(c)
          /\ Calibration!Eligible(c)' = Calibration!Eligible(c)
      BY <1>2, <1>5 DEF Calibration!Eligible
    <2>2. {[of |-> x, score |-> Calibration!ReplaySignal(x)] : x \in T}'
            = {[of |-> x, score |-> Calibration!ReplaySignal(x)] : x \in T}
      BY <1>1, <1>4
    <2>3. Calibration!ReplayEmits(c)
            <=> /\ Calibration!Eligible(c) # {}
                /\ Calibration!Percentile({[of |-> x, score |-> Calibration!ReplaySignal(x)] :
                                           x \in T},
                                          Calibration!ReplaySignal(c)) >= Threshold
      BY <1>5 DEF Calibration!ReplayEmits, Sample
    <2>4. Calibration!ReplayEmits(c)'
            <=> /\ Calibration!Eligible(c)' # {}
                /\ Calibration!Percentile({[of |-> x, score |-> Calibration!ReplaySignal(x)] :
                                           x \in T}',
                                          Calibration!ReplaySignal(c)') >= Threshold
      BY <1>5 DEF Calibration!ReplayEmits, Sample
    <2> QED
      BY <2>1, <2>2, <2>3, <2>4
  <1> QED
    BY <1>1, <1>4, <1>5

LEMMA ContainsStays ==
    ASSUME CalibrationSensible, predicted' = predicted, NEW cal, NEW D \in Int,
           \A d \in Days : d < D => latest'[d] = latest[d], Dated, Dated', Contains(cal, D)
    PROVE  Contains(cal, D)'
  <1>1. Sample(D)' = Sample(D)
    BY ReplayStays
  <1>2. /\ \A h \in Horizon :
             /\ {[day |-> DayOf[x], of |-> x, score |-> predicted[x][h].profit] : x \in Sample(D)}'
                  = {[day |-> DayOf[x], of |-> x, score |-> predicted[x][h].profit] :
                     x \in Sample(D)}
             /\ {[day |-> DayOf[x], of |-> x, score |-> predicted[x][h].alpha] : x \in Sample(D)}'
                  = {[day |-> DayOf[x], of |-> x, score |-> predicted[x][h].alpha] :
                     x \in Sample(D)}
    BY <1>1
  <1> QED
    BY <1>2, EmitsStays DEF Contains

\* The rows of candidates A with their scores, and those a window of D reaches.
RowsOf(A, score) == {[day |-> DayOf[x], of |-> x, score |-> score[x]] : x \in A}
Reached(A, D) == {x \in A : D - Window <= DayOf[x]}

\* An evaluation of batch B makes the rows of sample S those of both.
LEMMA UpdatedRows ==
    ASSUME NEW history, NEW date, NEW S, NEW B, NEW A, NEW score, NEW scores,
           A = S \cup B, \A x \in B : DayOf[x] = date,
           B = DOMAIN scores, \A x \in B : scores[x] = score[x],
           Calibration!Past(history, date) = RowsOf(S, score)
    PROVE  Calibration!Updated(history, date, scores) = RowsOf(A, score)
  <1>1. {[day |-> date, of |-> c, score |-> scores[c]] : c \in DOMAIN scores} = RowsOf(B, score)
    BY DEF RowsOf
  <1>2. RowsOf(S, score) \cup RowsOf(B, score) = RowsOf(A, score)
    BY DEF RowsOf
  <1> QED
    BY <1>1, <1>2 DEF Calibration!Updated

LEMMA PastOfRows ==
    ASSUME NEW A, NEW D, NEW score, \A x \in A : DayOf[x] < D
    PROVE  Calibration!Past(RowsOf(A, score), D) = RowsOf(Reached(A, D), score)
BY DEF Calibration!Past, RowsOf, Reached

\* The sample of a later date: of the old one and the last batch what the window reaches.
LEMMA LaterSample ==
    ASSUME CalibrationSensible, CalibrationInv, Calibration!Checkpoint,
           NEW D \in Days, today < D, OncePerDate(D)'
    PROVE  Sample(D)' = Reached(Sample(today) \cup batch, D) /\ OncePerDate(today)
  <1>1. /\ today \in Days /\ latest'[today] = batch
        /\ \A d \in Days \ {today} : latest'[d] = latest[d] /\ evaluated'[d] = evaluated[d]
        /\ \A d \in Days : d > today => latest[d] = {}
    BY DEF Calibration!Checkpoint, CalibrationInv, Dated
  <1>2. Calibration!Population(D)' = Calibration!Population(today) \cup batch
    BY <1>1 DEF Calibration!Population, Calibration!Days, Days, CalibrationSensible
  <1>3. \A x \in Calibration!Population(today) : DayOf[x] \in Int /\ DayOf[x] < today
    BY <1>1 DEF Calibration!Population, Calibration!Days, Days, CalibrationSensible,
                CalibrationInv, Dated
  <1>4. \A x \in batch : DayOf[x] = today
    BY DEF CalibrationInv, Dated
  <1>5. Sample(D)' = {x \in Calibration!Population(D)' : D - Window <= DayOf[x] /\ DayOf[x] < D}
    BY DEF Sample, Calibration!InWindow
  <1>6. Sample(today)
          = {x \in Calibration!Population(today) : today - Window <= DayOf[x] /\ DayOf[x] < today}
    BY DEF Sample, Calibration!InWindow
  <1>7. Sample(D)' = Reached(Sample(today) \cup batch, D)
    BY <1>1, <1>2, <1>3, <1>4, <1>5, <1>6 DEF CalibrationSensible, Days, Reached
  <1>8. OncePerDate(today)
    BY <1>1 DEF OncePerDate, Days
  <1> QED
    BY <1>7, <1>8

LEMMA CheckpointContains ==
    ASSUME CalibrationSensible, CalibrationInv, WindowKept, Calibration!Checkpoint, CalibrationInv',
           NEW D \in Days, today < D, OncePerDate(D)'
    PROVE  Contains(memory, D)'
  <1> DEFINE R == Calibration!Restored
             S == Sample(today)
             A == S \cup batch
             K == Reached(A, D)
  <1>1. /\ Dated /\ Dated' /\ today \in Days /\ today' = today /\ predicted' = predicted
        /\ memory' = memory /\ memory = Calibration!Evaluated(R, today, batch)
        /\ today \in Int /\ D \in Int /\ Window \in Nat
    BY DEF CalibrationInv, Deciding, Dated, Days, Calibration!Checkpoint, CalibrationSensible
  <1>2. Sample(D)' = K /\ OncePerDate(today)
    BY LaterSample
  <1>3. Contains(R, today)
    BY <1>1, <1>2 DEF WindowKept
  <1>4. /\ batch \in SUBSET Candidate /\ \A x \in batch : DayOf[x] = today
        /\ \A x \in batch : x \in Candidate \ Seeded
    BY <1>1 DEF Dated
  <1>5. S \in SUBSET Candidate /\ \A x \in S : DayOf[x] < today
    BY <1>1, SampleFinite DEF Sample, Calibration!InWindow
  <1>6. K \in SUBSET Candidate /\ \A x \in K : DayOf[x] <= today
    BY <1>1, <1>4, <1>5 DEF CalibrationSensible, Reached
  <1>7. \A x \in A : DayOf[x] < D
    BY <1>1, <1>4, <1>5 DEF CalibrationSensible
  <1>8. ASSUME NEW h \in Horizon
        PROVE  /\ Calibration!Past(memory.profit[h], D)
                    = {[day |-> DayOf[x], of |-> x, score |-> predicted[x][h].profit] : x \in K}
               /\ Calibration!Past(memory.alpha[h], D)
                    = {[day |-> DayOf[x], of |-> x, score |-> predicted[x][h].alpha] : x \in K}
    <2> DEFINE p == [x \in Candidate |-> predicted[x][h].profit]
               a == [x \in Candidate |-> predicted[x][h].alpha]
               bp == [c \in batch |-> predicted[c][h].profit]
               ba == [c \in batch |-> predicted[c][h].alpha]
    <2>1. /\ memory.profit[h] = Calibration!Updated(R.profit[h], today, bp)
          /\ memory.alpha[h] = Calibration!Updated(R.alpha[h], today, ba)
      BY <1>1 DEF Calibration!Evaluated
    <2>2. /\ batch = DOMAIN bp /\ \A x \in batch : bp[x] = p[x]
          /\ batch = DOMAIN ba /\ \A x \in batch : ba[x] = a[x]
      BY <1>4
    <2>3. \A C \in SUBSET Candidate :
             /\ {[day |-> DayOf[x], of |-> x, score |-> predicted[x][h].profit] : x \in C}
                  = RowsOf(C, p)
             /\ {[day |-> DayOf[x], of |-> x, score |-> predicted[x][h].alpha] : x \in C}
                  = RowsOf(C, a)
      BY DEF RowsOf
    <2>4. /\ Calibration!Past(R.profit[h], today) = RowsOf(S, p)
          /\ Calibration!Past(R.alpha[h], today) = RowsOf(S, a)
      BY <1>3, <1>5, <2>3 DEF Contains
    <2> HIDE DEF p, a, bp, ba, R
    <2>5. /\ Calibration!Updated(R.profit[h], today, bp) = RowsOf(A, p)
          /\ Calibration!Updated(R.alpha[h], today, ba) = RowsOf(A, a)
      <3>1. A = S \cup batch
        OBVIOUS
      <3> HIDE DEF A, S
      <3>2. \A x \in batch : DayOf[x] = today
        BY <1>4
      <3>3. Calibration!Updated(R.profit[h], today, bp) = RowsOf(A, p)
        <4>1. batch = DOMAIN bp /\ (\A x \in batch : bp[x] = p[x])
              /\ Calibration!Past(R.profit[h], today) = RowsOf(S, p)
          BY <2>2, <2>4
        <4> QED
          BY <3>1, <3>2, <4>1, UpdatedRows
      <3>4. Calibration!Updated(R.alpha[h], today, ba) = RowsOf(A, a)
        <4>1. batch = DOMAIN ba /\ (\A x \in batch : ba[x] = a[x])
              /\ Calibration!Past(R.alpha[h], today) = RowsOf(S, a)
          BY <2>2, <2>4
        <4> QED
          BY <3>1, <3>2, <4>1, UpdatedRows
      <3> QED
        BY <3>3, <3>4
    <2>6. /\ Calibration!Past(RowsOf(A, p), D) = RowsOf(K, p)
          /\ Calibration!Past(RowsOf(A, a), D) = RowsOf(K, a)
      BY <1>7, PastOfRows
    <2> QED
      BY <1>6, <2>1, <2>3, <2>5, <2>6
  <1>9. Calibration!Past(memory.final, D)
          = {[day |-> DayOf[x], of |-> x, score |-> Calibration!ReplaySignal(x)] :
               x \in Calibration!Tradable(K)}
    <2> DEFINE T == Calibration!Tradable(S)
               B == Calibration!Tradable(batch)
               TB == T \cup B
               f == [x \in Candidate |-> Calibration!ReplaySignal(x)]
               bf == [c \in Calibration!Ranked(batch) |->
                        IF Calibration!Eligible(c) = {} THEN 0 ELSE Calibration!Signal(R, today, c)]
    <2>1. memory.final = Calibration!Updated(R.final, today, bf)
      BY <1>1 DEF Calibration!Evaluated
    <2>2. /\ T \in SUBSET Candidate /\ \A x \in T : DayOf[x] < today
          /\ B \in SUBSET Candidate /\ \A x \in B : DayOf[x] = today
      BY <1>4, <1>5 DEF Calibration!Tradable
    <2>3. B = DOMAIN bf /\ \A x \in B : bf[x] = f[x]
      <3>1. \A x \in B : Calibration!Signal(R, today, x) = Calibration!ReplaySignal(x)
        BY <1>1, <1>3, <1>4, SignalIsReplayed DEF Calibration!Tradable
      <3> QED
        BY <2>2, <3>1 DEF Calibration!Ranked, Calibration!Tradable
    <2>4. \A C \in SUBSET Candidate :
             {[day |-> DayOf[x], of |-> x, score |-> Calibration!ReplaySignal(x)] : x \in C}
               = RowsOf(C, f)
      BY DEF RowsOf
    <2>5. Calibration!Past(R.final, today) = RowsOf(T, f)
      BY <1>3, <2>2, <2>4 DEF Contains
    <2>6. Calibration!Tradable(K) = Reached(TB, D)
      BY DEF Calibration!Tradable, Reached
    <2>7. Calibration!Tradable(K) \in SUBSET Candidate
      BY <1>6 DEF Calibration!Tradable
    <2>8. \A x \in TB : DayOf[x] < D
      BY <1>7 DEF Calibration!Tradable
    <2> HIDE DEF T, B, f, bf, R, S, K
    <2>9. Calibration!Updated(R.final, today, bf) = RowsOf(TB, f)
      <3>1. TB = T \cup B
        OBVIOUS
      <3> HIDE DEF TB
      <3> QED
        BY <2>2, <2>3, <2>5, <3>1, UpdatedRows
    <2>10. Calibration!Past(RowsOf(TB, f), D) = RowsOf(Reached(TB, D), f)
      BY <2>8, PastOfRows
    <2> QED
      BY <2>1, <2>4, <2>6, <2>7, <2>9, <2>10
  <1>10. ASSUME NEW x \in K
        PROVE  Calibration!ReplaySignal(x)' = Calibration!ReplaySignal(x)
    <2>1. x \in Candidate /\ DayOf[x] \in Int /\ DayOf[x] <= today
      BY <1>6 DEF CalibrationSensible
    <2>2. \A d \in Days : d < DayOf[x] => latest'[d] = latest[d]
      BY <1>1, <2>1 DEF Calibration!Checkpoint, Dated, Days
    <2> QED
      BY <1>1, <2>1, <2>2, ReplayStays
  <1>11. Calibration!Tradable(Sample(D))' = Calibration!Tradable(K)
         /\ Calibration!Tradable(K) \subseteq K
    <2>1. \A cands : Calibration!Tradable(cands)' = Calibration!Tradable(cands)
      BY <1>1 DEF Calibration!Tradable, Calibration!Eligible
    <2> HIDE DEF K
    <2> QED
      BY <1>2, <2>1 DEF Calibration!Tradable
  <1> HIDE DEF S, K
  <1>12. \A h \in Horizon :
           /\ (Calibration!Past(memory.profit[h], D)
                = {[day |-> DayOf[x], of |-> x, score |-> predicted[x][h].profit] :
                   x \in Sample(D)})'
           /\ (Calibration!Past(memory.alpha[h], D)
                = {[day |-> DayOf[x], of |-> x, score |-> predicted[x][h].alpha] :
                   x \in Sample(D)})'
    BY <1>1, <1>2, <1>8 DEF Calibration!Past
  <1>13. (Calibration!Past(memory.final, D)
            = {[day |-> DayOf[x], of |-> x, score |-> Calibration!ReplaySignal(x)] :
                 x \in Calibration!Tradable(Sample(D))})'
    <2>1. {[day |-> DayOf[x], of |-> x, score |-> Calibration!ReplaySignal(x)] :
             x \in Calibration!Tradable(Sample(D))}'
            = {[day |-> DayOf[x], of |-> x, score |-> Calibration!ReplaySignal(x)] :
                 x \in Calibration!Tradable(K)}
      BY <1>10, <1>11
    <2> QED
      BY <1>1, <1>9, <2>1 DEF Calibration!Past
  <1> QED
    BY <1>12, <1>13 DEF Contains

LEMMA KeptStays ==
    ASSUME CalibrationSensible, Dated, Dated', WindowKept,
           Calibration!Restored' = Calibration!Restored,
           today <= today', UNCHANGED <<predicted, evaluated, latest>>
    PROVE  WindowKept'
  <1> DEFINE R == Calibration!Restored
  <1>1. ASSUME NEW D \in Days, D >= today', OncePerDate(D)'
        PROVE  Contains(R, D)'
    <2>1. D \in Int /\ today \in Int /\ today' \in Int
      BY DEF Dated, Days
    <2>2. Contains(R, D)
      BY <1>1, <2>1 DEF WindowKept, OncePerDate
    <2>3. \A cal : Contains(cal, D) => Contains(cal, D)'
      BY <2>1, ContainsStays
    <2> HIDE DEF R
    <2>4. R' = R
      BY DEF R
    <2> QED
      BY <2>2, <2>3, <2>4
  <1> QED
    BY <1>1 DEF WindowKept

LEMMA KeptCheckpoint ==
    ASSUME CalibrationSensible, CalibrationInv, CalibrationInv', WindowKept, Calibration!Checkpoint
    PROVE  WindowKept'
  <1>1. /\ Calibration!Restored' = memory /\ memory' = memory /\ today' = today
        /\ Dated /\ Dated' /\ predicted' = predicted /\ today \in Days
        /\ Same(memory, Calibration!Restored, today)
    BY DEF CalibrationInv, Deciding, Calibration!Restored, Calibration!Checkpoint, Dated
  <1>2. \A d \in Days : d < today => latest'[d] = latest[d] /\ evaluated'[d] = evaluated[d]
    BY <1>1 DEF Calibration!Checkpoint, Dated, Days
  <1>3. ASSUME OncePerDate(today)'
        PROVE  Contains(memory, today)'
    <2>1. OncePerDate(today)
      BY <1>1, <1>2, <1>3 DEF OncePerDate
    <2>2. Contains(Calibration!Restored, today) /\ today \in Int
      BY <1>1, <2>1 DEF WindowKept, Days
    <2>3. Contains(memory, today)
      BY <1>1, <2>2 DEF Contains, Same
    <2>4. \A cal, D : D = today /\ Contains(cal, D) => Contains(cal, D)'
      BY <1>1, <1>2, <2>2, ContainsStays
    <2> QED
      BY <1>1, <2>3, <2>4
  <1>4. ASSUME NEW D \in Days, D > today, OncePerDate(D)'
        PROVE  Contains(memory, D)'
    BY <1>4, CheckpointContains DEF Days
  <1>5. ASSUME NEW D \in Days, D >= today, OncePerDate(D)'
        PROVE  Contains(memory, D)'
    <2>1. CASE D > today
      BY <1>4, <1>5, <2>1
    <2>2. CASE D = today
      BY <1>1, <1>3, <1>5, <2>2
    <2> QED
      BY <1>1, <1>5, <2>1, <2>2 DEF Days
  <1> QED
    BY <1>1, <1>5 DEF WindowKept

LEMMA ReplayedStays ==
    ASSUME CalibrationSensible, Dated, Dated', Replayed, UNCHANGED <<predicted, receipts>>,
           \A d \in Days : d < today => latest'[d] = latest[d] /\ evaluated'[d] = evaluated[d]
    PROVE  Replayed'
  <1> SUFFICES ASSUME NEW r \in receipts, OncePerDate(r.day)'
               PROVE  r.emitted = {c \in r.batch : Calibration!ReplayEmits(c)'}
    BY DEF Replayed
  <1>1. /\ r.day \in Days /\ r.day \in Int /\ today \in Int /\ r.day <= today
        /\ \A c \in r.batch : c \in Candidate /\ DayOf[c] = r.day
    BY DEF Dated, Days
  <1>2. \A d \in Days : d < r.day => latest'[d] = latest[d] /\ evaluated'[d] = evaluated[d]
    BY <1>1 DEF Days
  <1>3. OncePerDate(r.day)
    BY <1>2 DEF OncePerDate
  <1>4. \A c \in r.batch : Calibration!ReplayEmits(c)' <=> Calibration!ReplayEmits(c)
    BY <1>1, <1>2, EmitsStays
  <1> QED
    BY <1>3, <1>4 DEF Replayed

LEMMA ReplayedComplete ==
    ASSUME CalibrationSensible, CalibrationInv, CalibrationInv', WindowKept, Replayed,
           Calibration!Complete
    PROVE  Replayed'
  <1>1. /\ Dated /\ Dated' /\ predicted' = predicted /\ latest' = latest
        /\ evaluated' = evaluated /\ Calibration!Restored = memory /\ today \in Days
        /\ batch \subseteq {c \in Candidate \ Seeded : DayOf[c] = today}
        /\ emitted = Calibration!Decide(memory, today, batch)
    BY DEF CalibrationInv, Deciding, Dated, Calibration!Restored, Calibration!Complete
  <1>2. ASSUME NEW r \in receipts', OncePerDate(r.day)
        PROVE  r.emitted = {c \in r.batch : Calibration!ReplayEmits(c)}
    <2>1. CASE r \in receipts
      BY <1>2, <2>1 DEF Replayed
    <2>2. CASE r = [day |-> today, batch |-> batch, emitted |-> emitted]
      <3>1. Contains(memory, today)
        BY <1>1, <1>2, <2>2 DEF WindowKept, Days
      <3>2. emitted = {c \in batch : Calibration!ReplayEmits(c)}
        BY <1>1, <3>1, DecisionIsReplayed
      <3> QED
        BY <2>2, <3>2
    <2> QED
      BY <1>2, <2>1, <2>2 DEF Calibration!Complete
  <1>3. ASSUME NEW r \in receipts', OncePerDate(r.day)'
        PROVE  r.emitted = {c \in r.batch : Calibration!ReplayEmits(c)'}
    <2>1. /\ r.day \in Int /\ \A c \in r.batch : c \in Candidate /\ DayOf[c] = r.day
      BY <1>1 DEF Dated, Days
    <2>2. OncePerDate(r.day)
      BY <1>1, <1>3 DEF OncePerDate
    <2>3. \A c \in r.batch : Calibration!ReplayEmits(c)' <=> Calibration!ReplayEmits(c)
      BY <1>1, <2>1, EmitsStays
    <2> QED
      BY <1>2, <2>2, <2>3
  <1> QED
    BY <1>3 DEF Replayed

LEMMA ReplayInit ==
    ASSUME CalibrationSensible, Calibration!Init
    PROVE  WindowKept /\ Replayed
  <1>1. Calibration!Restored = Calibration!Frozen
    BY DEF Calibration!Init, Calibration!Restored
  <1>2. \A D \in Days : Calibration!Population(D) = Seeded
    BY DEF Calibration!Init, Calibration!Population, Days, Calibration!Days
  <1>3. ASSUME NEW D \in Days
        PROVE  Contains(Calibration!Frozen, D)
    <2>1. Sample(D) = {c \in Seeded : D - Window <= DayOf[c]}
          /\ \A c \in Seeded : DayOf[c] < D /\ c \in Candidate
      BY <1>2 DEF Sample, Calibration!InWindow, CalibrationSensible, Days
    <2>2. \A h \in Horizon :
            /\ Calibration!Frozen.profit[h]
                 = {[day |-> DayOf[c], of |-> c, score |-> predicted[c][h].profit] : c \in Seeded}
            /\ Calibration!Frozen.alpha[h]
                 = {[day |-> DayOf[c], of |-> c, score |-> predicted[c][h].alpha] : c \in Seeded}
      BY DEF Calibration!Frozen
    <2>3. Calibration!Frozen.final
            = {[day |-> DayOf[c], of |-> c, score |-> Calibration!StaticSignal(c)] :
                 c \in Calibration!Tradable(Seeded)}
      BY DEF Calibration!Frozen
    <2>4. \A c \in Seeded : Calibration!ReplaySignal(c) = Calibration!StaticSignal(c)
      BY DEF Calibration!ReplaySignal
    <2>5. /\ Calibration!Tradable(Sample(D))
               = {c \in Calibration!Tradable(Seeded) : D - Window <= DayOf[c]}
          /\ Calibration!Tradable(Seeded) \subseteq Seeded
      BY <2>1 DEF Calibration!Tradable
    <2>6. \A h \in Horizon :
            /\ Calibration!Past(Calibration!Frozen.profit[h], D)
                 = {[day |-> DayOf[x], of |-> x, score |-> predicted[x][h].profit] :
                    x \in Sample(D)}
            /\ Calibration!Past(Calibration!Frozen.alpha[h], D)
                 = {[day |-> DayOf[x], of |-> x, score |-> predicted[x][h].alpha] : x \in Sample(D)}
      BY <2>1, <2>2 DEF Calibration!Past
    <2>7. Calibration!Past(Calibration!Frozen.final, D)
            = {[day |-> DayOf[x], of |-> x, score |-> Calibration!ReplaySignal(x)] :
                 x \in Calibration!Tradable(Sample(D))}
      BY <2>1, <2>3, <2>4, <2>5 DEF Calibration!Past
    <2> QED
      BY <2>6, <2>7 DEF Contains
  <1> QED
    BY <1>1, <1>3 DEF WindowKept, Replayed, Calibration!Init

\* A live decision is the one a chronological replay of the same dates makes, through
\* crashes, retries, pruned windows and restored overlays, as long as no earlier date
\* was decided in two batches (V5CalibrationState, rolling_filtered_score_percentiles).
THEOREM LiveMatchesReplayCorrect ==
    ASSUME NoOverlayApart
    PROVE  Calibration!Spec => []Calibration!LiveMatchesReplay
  <1> CalibrationSensible
    BY CalibrationAssumption DEF CalibrationSensible
  <1>1. Calibration!Init => WindowKept /\ Replayed
    BY ReplayInit
  <1>2. /\ CalibrationInv /\ CalibrationInv' /\ WindowKept /\ Replayed
        /\ [Calibration!Next]_(Calibration!vars)
        => WindowKept' /\ Replayed'
    <2> SUFFICES ASSUME CalibrationInv, CalibrationInv', WindowKept, Replayed,
                        [Calibration!Next]_(Calibration!vars)
                 PROVE  WindowKept' /\ Replayed'
      OBVIOUS
    <2>1. Dated /\ Dated' /\ today \in Days
      BY DEF CalibrationInv, Dated
    <2>2. CASE \/ \E c \in Candidate : Calibration!Arrive(c)
               \/ Calibration!Evaluate \/ Calibration!Crash \/ Calibration!NextDay
               \/ UNCHANGED Calibration!vars
      <3>1. /\ UNCHANGED <<predicted, disk, receipts, evaluated, latest>>
            /\ today' = today \/ today' = today + 1
        BY <2>2 DEF Calibration!Arrive, Calibration!Evaluate, Calibration!Crash,
                    Calibration!NextDay, Calibration!vars
      <3>2. today <= today'
        BY <2>1, <3>1 DEF Days
      <3>3. Calibration!Restored' = Calibration!Restored
        BY <3>1, RestoredStays
      <3> QED
        BY <2>1, <3>1, <3>2, <3>3, KeptStays, ReplayedStays
    <2>3. CASE Calibration!Checkpoint
      <3>1. \A d \in Days : d < today => latest'[d] = latest[d] /\ evaluated'[d] = evaluated[d]
        BY <2>1, <2>3 DEF Calibration!Checkpoint, Dated, Days
      <3> QED
        BY <2>1, <2>3, <3>1, KeptCheckpoint, ReplayedStays DEF Calibration!Checkpoint
    <2>4. CASE Calibration!Complete
      <3>1. Calibration!Restored' = Calibration!Restored
        BY <2>4 DEF CalibrationInv, Deciding, Calibration!Restored, Calibration!Complete
      <3>2. UNCHANGED <<predicted, evaluated, latest, today>> /\ today <= today
        BY <2>1, <2>4 DEF Calibration!Complete, Days
      <3> QED
        BY <2>1, <2>4, <3>1, <3>2, KeptStays, ReplayedComplete
    <2> QED
      BY <2>2, <2>3, <2>4 DEF Calibration!Next
  <1>3. CalibrationInv /\ Replayed => Calibration!LiveMatchesReplay
    BY DEF Replayed, OncePerDate, Calibration!LiveMatchesReplay, Days, Calibration!Days
  <1> QED
    BY <1>1, <1>2, <1>3, CalibrationInvCorrect, PTL DEF Calibration!Spec

-----------------------------------------------------------------------------
(* The training split.                                                     *)

\* Every horizon is in the fence.
RowsSensible == CalendarSensible /\ YearsSensible /\ Fence = Horizons

LEMMA LeastDay ==
    ASSUME NEW R \in SUBSET Nat, R # {}
    PROVE  /\ Training!Earliest(R) \in R
           /\ \A x \in R : Training!Earliest(R) <= x
  <1>1. PICK x \in R : \A y \in R : <<y, x>> \notin OpToRel(<, Nat)
    BY NatLessThanWellFounded, WFMin, Zenon
  <1>2. \A y \in R : y \in Nat /\ x \in Nat /\ ~ (y < x)
    BY <1>1, Zenon DEF OpToRel
  <1>3. \A y \in R : x <= y
    BY <1>2
  <1> QED
    BY <1>3 DEF Training!Earliest

LEMMA GreatestDay ==
    ASSUME NEW N \in Nat, NEW R, R \subseteq 0 .. N, R # {}
    PROVE  /\ Training!Latest(R) \in R
           /\ \A x \in R : x <= Training!Latest(R)
  <1> DEFINE Bounds == {n \in Nat : \A x \in R : x <= n}
  <1>1. Bounds \in SUBSET Nat /\ N \in Bounds
    OBVIOUS
  <1>2. PICK m \in Bounds : \A n \in Bounds : m <= n
    <2> HIDE DEF Bounds
    <2> QED
      BY <1>1, LeastDay
  <1>3. m \in R
    <2> SUFFICES ASSUME m \notin R
                 PROVE  FALSE
      OBVIOUS
    <2>1. \A x \in R : x <= m /\ x # m /\ x \in Nat
      OBVIOUS
    <2>2. PICK y \in R : TRUE
      OBVIOUS
    <2>3. m - 1 \in Nat /\ \A x \in R : x <= m - 1
      BY <2>1, <2>2
    <2> QED
      BY <1>2, <2>3
  <1>4. \A x \in R : x <= m
    OBVIOUS
  <1> QED
    BY <1>3, <1>4 DEF Training!Latest

LEMMA BoundaryIsDay ==
    ASSUME CalendarSensible, YearsSensible
    PROVE  Training!Boundary \in 1 .. MaxDay
  <1> DEFINE Y == {d \in Training!Day : YearOf[d] = TestYear}
  <1>1. Y \in SUBSET Nat /\ Y # {} /\ Y \subseteq 1 .. MaxDay
    BY DEF RowsSensible, CalendarSensible, YearsSensible, Training!Day
  <1> HIDE DEF Y
  <1>2. Training!Earliest(Y) \in 1 .. MaxDay
    BY <1>1, LeastDay
  <1> QED
    BY <1>2 DEF Training!Boundary, Y

-----------------------------------------------------------------------------
\* Two sets of bars that agree before the boundary.
Alike(T, U) ==
    /\ T \subseteq 1 .. MaxDay /\ U \subseteq 1 .. MaxDay
    /\ {d \in T : d < Training!Boundary} = {d \in U : d < Training!Boundary}

LEMMA NextIsLater ==
    ASSUME NEW T \in SUBSET (1 .. MaxDay), NEW p \in 1 .. MaxDay, MaxDay \in Nat
    PROVE  /\ Training!NextIn(T, p) \in Nat /\ p < Training!NextIn(T, p)
           /\ Training!NextIn(T, p) # Training!Never =>
                /\ Training!NextIn(T, p) \in T
                /\ \A x \in T : p < x => Training!NextIn(T, p) <= x
  <1> DEFINE L == {x \in T : x > p}
  <1>1. MaxDay \in Nat /\ p \in Nat /\ p <= MaxDay /\ \A x \in T : x \in Nat
    OBVIOUS
  <1> HIDE DEF L
  <1>2. L \in SUBSET Nat /\ \A x : x \in L <=> x \in T /\ p < x
    BY <1>1 DEF L
  <1>3. CASE L = {}
    BY <1>1, <1>2, <1>3 DEF Training!NextIn, Training!Never
  <1>4. CASE L # {}
    <2>1. Training!NextIn(T, p) = Training!Earliest(L)
      BY <1>2, <1>4 DEF Training!NextIn, L
    <2>2. Training!Earliest(L) \in L /\ \A x \in L : Training!Earliest(L) <= x
      BY <1>2, <1>4, LeastDay
    <2> QED
      BY <1>1, <1>2, <2>1, <2>2
  <1> QED
    BY <1>3, <1>4

\* The next bar before the boundary depends on the bars before it only.
LEMMA NextAlike ==
    ASSUME NEW T, NEW U, NEW p \in 1 .. MaxDay, RowsSensible, Alike(T, U),
           Training!NextIn(T, p) < Training!Boundary
    PROVE  Training!NextIn(U, p) = Training!NextIn(T, p)
  <1> DEFINE t == Training!NextIn(T, p)
             u == Training!NextIn(U, p)
  <1>1. /\ Training!Boundary \in Nat /\ Training!Boundary <= MaxDay
        /\ Training!Never = MaxDay + 1 /\ MaxDay \in Nat /\ p \in Nat
    BY BoundaryIsDay DEF Training!Never, RowsSensible, CalendarSensible
  <1>2. T \in SUBSET (1 .. MaxDay) /\ U \in SUBSET (1 .. MaxDay)
        /\ \A d : d < Training!Boundary => (d \in T <=> d \in U)
    BY DEF Alike
  <1> HIDE DEF t, u
  <1>3. t \in Nat /\ p < t /\ (t # Training!Never => t \in T /\ \A x \in T : p < x => t <= x)
    BY <1>1, <1>2, NextIsLater DEF t
  <1>4. u \in Nat /\ p < u /\ (u # Training!Never => u \in U /\ \A x \in U : p < x => u <= x)
    BY <1>1, <1>2, NextIsLater DEF u
  <1>5. t < Training!Boundary /\ t # Training!Never
    BY <1>1, <1>3 DEF t
  <1>6. t \in U
    BY <1>2, <1>3, <1>5
  <1>7. u # Training!Never
    <2>1. {x \in U : x > p} # {}
      BY <1>1, <1>3, <1>6
    <2> \A x \in U : x \in Nat
      BY <1>1, <1>2
    <2> {x \in U : x > p} \in SUBSET Nat
      OBVIOUS
    <2>2. u = Training!Earliest({x \in U : x > p})
      BY <2>1 DEF Training!NextIn, u
    <2>3. u \in {x \in U : x > p}
      BY <2>1, <2>2, LeastDay
    <2> QED
      BY <1>1, <1>2, <2>3
  <1>8. u <= t
    BY <1>3, <1>4, <1>6, <1>7
  <1>9. u \in T
    BY <1>1, <1>2, <1>3, <1>4, <1>5, <1>7, <1>8
  <1> QED
    BY <1>3, <1>4, <1>5, <1>8, <1>9 DEF t, u

\* A label's end and the session of an event, of any bars.
EndIn(T, s, h) ==
    LET from == {d \in T : d >= s}
        reached == {d \in from : Training!Cardinality({x \in from : x <= d}) = h}
    IN  IF reached = {} THEN Training!Never ELSE Training!Earliest(reached)

SessionIn(T, p) ==
    IF \E s \in T : s < p THEN Training!NextIn(T, p) ELSE Training!Never

LEMMA EndIsLater ==
    ASSUME NEW T \in SUBSET (1 .. MaxDay), NEW s \in Nat, NEW h, s <= MaxDay, RowsSensible
    PROVE  EndIn(T, s, h) \in Nat /\ s <= EndIn(T, s, h) /\ EndIn(T, s, h) <= Training!Never
  <1> DEFINE from == {d \in T : d >= s}
             reached == {d \in from : Training!Cardinality({x \in from : x <= d}) = h}
  <1>1. MaxDay \in Nat /\ Training!Never = MaxDay + 1
    BY DEF RowsSensible, CalendarSensible, YearsSensible, Training!Never
  <1>2. \A d \in reached : d \in Nat /\ s <= d /\ d <= MaxDay
    BY <1>1
  <1>3. CASE reached = {}
    BY <1>1, <1>3 DEF EndIn
  <1>4. CASE reached # {}
    <2>1. EndIn(T, s, h) = Training!Earliest(reached)
      BY <1>4 DEF EndIn
    <2>2. reached \in SUBSET Nat
      BY <1>2
    <2> HIDE DEF reached
    <2>3. Training!Earliest(reached) \in reached
      BY <1>4, <2>2, LeastDay
    <2> QED
      BY <1>1, <1>2, <2>1, <2>3
  <1> QED
    BY <1>3, <1>4

LEMMA EndAlike ==
    ASSUME NEW T, NEW U, NEW s \in Nat, NEW h, RowsSensible, Alike(T, U),
           s <= MaxDay, EndIn(T, s, h) < Training!Boundary
    PROVE  EndIn(U, s, h) = EndIn(T, s, h)
  <1> DEFINE B == Training!Boundary
             from(X) == {d \in X : d >= s}
             upto(X, d) == {x \in from(X) : x <= d}
             reached(X) == {d \in from(X) : Training!Cardinality(upto(X, d)) = h}
             e == EndIn(T, s, h)
  <1>1. B \in Nat /\ B <= MaxDay /\ Training!Never = MaxDay + 1 /\ MaxDay \in Nat
    BY BoundaryIsDay DEF Training!Never, RowsSensible, CalendarSensible
  <1>2. /\ T \in SUBSET Nat /\ U \in SUBSET Nat
        /\ \A d : d < B => (d \in T <=> d \in U)
    <2>1. T \in SUBSET (1 .. MaxDay) /\ U \in SUBSET (1 .. MaxDay)
      BY DEF Alike
    <2> QED
      BY <1>1, <2>1 DEF Alike
  <1>3. ASSUME NEW d \in Nat, d < B
        PROVE  upto(T, d) = upto(U, d)
    <2>1. \A x : /\ x \in T /\ x <= d => x \in U
                 /\ x \in U /\ x <= d => x \in T
      <3> HIDE DEF B
      <3> SUFFICES ASSUME NEW x \in T \cup U, x <= d
                   PROVE  x \in T <=> x \in U
        OBVIOUS
      <3>1. x \in Nat
        BY <1>2
      <3>2. x < B
        BY <1>1, <1>3, <3>1
      <3> QED
        BY <1>2, <3>2
    <2> QED
      BY <2>1
  <1>4. \A d \in Nat : d < B => (d \in reached(T) <=> d \in reached(U))
    <2> HIDE DEF upto
    <2> QED
      BY <1>1, <1>2, <1>3
  <1>5. reached(T) \in SUBSET Nat /\ reached(U) \in SUBSET Nat
    BY <1>2
  <1>6. \A X : EndIn(X, s, h) = IF reached(X) = {} THEN Training!Never
                                ELSE Training!Earliest(reached(X))
    BY DEF EndIn
  <1> HIDE DEF reached
  <1>7. reached(T) # {} /\ e = Training!Earliest(reached(T))
    BY <1>1, <1>6
  <1>8. e \in reached(T) /\ (\A x \in reached(T) : e <= x) /\ e \in Nat
    BY <1>5, <1>7, LeastDay
  <1>9. e \in reached(U)
    BY <1>4, <1>8
  <1> DEFINE u == Training!Earliest(reached(U))
  <1>10. u \in reached(U) /\ (\A x \in reached(U) : u <= x) /\ u \in Nat
    BY <1>5, <1>9, LeastDay
  <1>11. EndIn(U, s, h) = u
    BY <1>6, <1>9
  <1> HIDE DEF u, e
  <1>12. u <= e /\ u < B
    BY <1>1, <1>8, <1>9, <1>10 DEF e
  <1>13. e <= u
    BY <1>4, <1>8, <1>10, <1>12
  <1>14. u = e
    BY <1>8, <1>10, <1>12, <1>13
  <1> QED
    BY <1>11, <1>14 DEF e

LEMMA SessionAlike ==
    ASSUME NEW T, NEW U, NEW p \in 1 .. MaxDay, RowsSensible, Alike(T, U),
           SessionIn(T, p) < Training!Boundary
    PROVE  SessionIn(U, p) = SessionIn(T, p)
  <1>1. /\ Training!Boundary \in Nat /\ Training!Boundary <= MaxDay
        /\ Training!Never = MaxDay + 1 /\ MaxDay \in Nat /\ p \in Nat
    BY BoundaryIsDay DEF Training!Never, RowsSensible, CalendarSensible
  <1>2. T \in SUBSET (1 .. MaxDay) /\ U \in SUBSET (1 .. MaxDay)
        /\ \A d : d < Training!Boundary => (d \in T <=> d \in U)
    BY DEF Alike
  <1>3. PICK x \in T : x < p
    BY <1>1 DEF SessionIn
  <1>4. SessionIn(T, p) = Training!NextIn(T, p)
    BY <1>3 DEF SessionIn
  <1>5. Training!NextIn(U, p) = Training!NextIn(T, p)
    BY <1>4, NextAlike
  <1>6. p < Training!NextIn(T, p) /\ Training!NextIn(T, p) \in Nat
    BY <1>1, <1>2, NextIsLater
  <1>7. x \in U
    BY <1>1, <1>2, <1>3, <1>4, <1>6
  <1> QED
    BY <1>3, <1>4, <1>5, <1>7 DEF SessionIn

-----------------------------------------------------------------------------
RowsTypes ==
    /\ today \in 1 .. MaxDay
    /\ Training!Public \subseteq Event
    /\ \A e \in Training!Public : publicOn[e] \in 1 .. today
    /\ traded \in [Company -> SUBSET (1 .. today)]

\* The events whose opportunity is over before the test year begins, and its row.
EarlyEvents ==
    {e \in Training!Public :
        /\ Training!Built(e) < Training!Boundary
        /\ \A h \in Horizons :
             Training!Exit(CompanyOf[e], Training!Built(e), h) < Training!Boundary}

RowOf(e) ==
    Training!BaseRow(CompanyOf[e], Training!Built(e), [x \in Training!Public |-> Training!Built(x)])

Eligible == {r \in Training!TrainingRows : Training!Maturity(r) < Training!Boundary}

LEMMA EndsAndSessions ==
    ASSUME NEW c, NEW s, NEW h, NEW e
    PROVE  /\ Training!Exit(c, s, h) = EndIn(traded[c], s, h)
           /\ Training!Built(e) = SessionIn(traded[CompanyOf[e]], publicOn[e])
BY DEF Training!Exit, EndIn, Training!Built, Training!HasHistory, SessionIn

\* What the fence lets pass are the rows of early events.
LEMMA EligibleRows ==
    ASSUME RowsSensible
    PROVE  RowsTypes => Eligible = {RowOf(e) : e \in EarlyEvents}
  <1> SUFFICES ASSUME RowsTypes
               PROVE  Eligible = {RowOf(e) : e \in EarlyEvents}
    OBVIOUS
  <1> DEFINE B == Training!Boundary
             so == [x \in Training!Public |-> Training!Built(x)]
             ends(e) == {Training!Exit(CompanyOf[e], Training!Built(e), h) : h \in Horizons}
  <1>1. /\ B \in Nat /\ B <= MaxDay /\ Training!Never = MaxDay + 1 /\ MaxDay \in Nat
        /\ Training!Never \in Nat
    BY BoundaryIsDay DEF Training!Never, RowsSensible, CalendarSensible
  <1>2. \A e \in Training!Public : RowOf(e).exits = [h \in Horizons |->
            Training!Exit(CompanyOf[e], Training!Built(e), h)]
    BY DEF RowOf, Training!BaseRow, Training!Exits
  <1>3. Training!TrainingRows = {RowOf(e) : e \in {x \in Training!Public :
            /\ Training!Built(x) # Training!Never
            /\ \A h \in Horizons : RowOf(x).exits[h] # Training!Never}}
    <2> DEFINE keys == {<<CompanyOf[e], so[e]>> : e \in Training!Public}
               all == {Training!BaseRow(k[1], k[2], so) : k \in {k \in keys : k[2] # Training!Never}}
    <2>1. Training!TrainingRows = {r \in all : \A h \in Horizons : r.exits[h] # Training!Never}
      BY DEF Training!TrainingRows
    <2>2. \A e \in Training!Public : so[e] = Training!Built(e)
                                     /\ RowOf(e) = Training!BaseRow(CompanyOf[e], so[e], so)
      BY DEF RowOf
    <2> HIDE DEF so
    <2>3. all = {RowOf(e) : e \in {x \in Training!Public : Training!Built(x) # Training!Never}}
      <3>1. ASSUME NEW e \in Training!Public, Training!Built(e) # Training!Never
            PROVE  RowOf(e) \in all
        <4> DEFINE k == <<CompanyOf[e], so[e]>>
        <4>1. k \in keys /\ k[1] = CompanyOf[e] /\ k[2] = so[e]
          OBVIOUS
        <4> HIDE DEF k, keys
        <4> QED
          BY <2>2, <3>1, <4>1
      <3>2. ASSUME NEW k \in keys, k[2] # Training!Never
            PROVE  \E e \in Training!Public : Training!Built(e) # Training!Never
                     /\ Training!BaseRow(k[1], k[2], so) = RowOf(e)
        <4>1. PICK e \in Training!Public : k = <<CompanyOf[e], so[e]>>
          OBVIOUS
        <4>2. k[1] = CompanyOf[e] /\ k[2] = so[e]
          BY <4>1
        <4> QED
          BY <2>2, <3>2, <4>2
      <3> HIDE DEF keys
      <3> QED
        BY <3>1, <3>2
    <2> HIDE DEF all
    <2> QED
      BY <2>1, <2>3, Zenon
  <1>4. ASSUME NEW e \in Training!Public, Training!Built(e) # Training!Never
        PROVE  Training!Maturity(RowOf(e)) < B
                 <=> \A h \in Horizons : Training!Exit(CompanyOf[e], Training!Built(e), h) < B
    <2>1. traded[CompanyOf[e]] \in SUBSET (1 .. MaxDay) /\ publicOn[e] \in 1 .. MaxDay
      BY <1>1 DEF RowsTypes, RowsSensible, CalendarSensible
    <2>2. Training!Built(e) \in Nat /\ Training!Built(e) <= MaxDay
      BY <1>1, <1>4, <2>1, NextIsLater DEF Training!Built
    <2>3. \A h \in Horizons :
              Training!Exit(CompanyOf[e], Training!Built(e), h) \in 0 .. Training!Never
      <3> SUFFICES ASSUME NEW h \in Horizons
                   PROVE  Training!Exit(CompanyOf[e], Training!Built(e), h) \in 0 .. Training!Never
        OBVIOUS
      <3>1. EndIn(traded[CompanyOf[e]], Training!Built(e), h) \in Nat
            /\ EndIn(traded[CompanyOf[e]], Training!Built(e), h) <= Training!Never
        BY <2>1, <2>2, EndIsLater
      <3> QED
        BY <1>1, <3>1, EndsAndSessions
    <2>4. Training!Maturity(RowOf(e)) = Training!Latest(ends(e))
      BY <1>2 DEF Training!Maturity, RowsSensible, CalendarSensible
    <2>5. ends(e) \subseteq 0 .. Training!Never /\ ends(e) # {}
      BY <2>3 DEF RowsSensible, CalendarSensible, YearsSensible
    <2>6. Training!Latest(ends(e)) \in ends(e)
          /\ \A x \in ends(e) : x <= Training!Latest(ends(e))
      <3> HIDE DEF ends
      <3> QED
        BY <1>1, <2>5, GreatestDay
    <2>7. Training!Latest(ends(e)) < B <=> \A x \in ends(e) : x < B
      <3> \A x \in ends(e) : x \in Nat
        BY <2>5
      <3> HIDE DEF ends
      <3> QED
        BY <1>1, <2>5, <2>6
    <2> QED
      BY <2>4, <2>7
  <1>5. ASSUME NEW e \in Training!Public
        PROVE  /\ Training!Built(e) < B => Training!Built(e) # Training!Never
               /\ \A h \in Horizons :
                    Training!Exit(CompanyOf[e], Training!Built(e), h) < B =>
                      RowOf(e).exits[h] # Training!Never
               /\ Training!Built(e) # Training!Never
                    /\ (\A h \in Horizons :
                          Training!Exit(CompanyOf[e], Training!Built(e), h) < B)
                    => Training!Built(e) < B
    <2>1. traded[CompanyOf[e]] \in SUBSET (1 .. MaxDay) /\ publicOn[e] \in 1 .. MaxDay
      BY <1>1 DEF RowsTypes, RowsSensible, CalendarSensible
    <2>2. /\ Training!Built(e) \in Nat
          /\ Training!Built(e) # Training!Never => Training!Built(e) <= MaxDay
      BY <1>1, <2>1, NextIsLater DEF Training!Built
    <2>3. Training!Built(e) # Training!Never =>
            \A h \in Horizons : /\ Training!Exit(CompanyOf[e], Training!Built(e), h) \in Nat
                                /\ Training!Built(e)
                                   <= Training!Exit(CompanyOf[e], Training!Built(e), h)
      <3> SUFFICES ASSUME Training!Built(e) # Training!Never, NEW h \in Horizons
                   PROVE  /\ Training!Exit(CompanyOf[e], Training!Built(e), h) \in Nat
                          /\ Training!Built(e) <= Training!Exit(CompanyOf[e], Training!Built(e), h)
        OBVIOUS
      <3>1. /\ EndIn(traded[CompanyOf[e]], Training!Built(e), h) \in Nat
            /\ Training!Built(e) <= EndIn(traded[CompanyOf[e]], Training!Built(e), h)
        BY <2>1, <2>2, EndIsLater
      <3> QED
        BY <3>1, EndsAndSessions
    <2> QED
      <3> DEFINE b == Training!Built(e)
                 x(h) == Training!Exit(CompanyOf[e], b, h)
      <3>1. \A h \in Horizons : RowOf(e).exits[h] = x(h)
        BY <1>2
      <3>2. PICK k \in Horizons : TRUE
        BY DEF RowsSensible, CalendarSensible, YearsSensible
      <3>3. b \in Nat /\ (b # Training!Never => x(k) \in Nat /\ b <= x(k))
        BY <2>2, <2>3
      <3> HIDE DEF b, x
      <3>4. /\ b < B => b # Training!Never
            /\ \A h \in Horizons : x(h) < B => RowOf(e).exits[h] # Training!Never
            /\ b # Training!Never /\ (\A h \in Horizons : x(h) < B) => b < B
        BY <1>1, <3>1, <3>2, <3>3
      <3> QED
        BY <3>4 DEF b, x
  <1> HIDE DEF B
  <1> QED
    BY <1>3, <1>4, <1>5 DEF Eligible, EarlyEvents, B

\* A step that adds bars and publications from the boundary on only.
NextDay ==
    /\ \A c \in Company : Alike(traded[c], traded'[c])
    /\ Training!Public \subseteq Training!Public'
    /\ \A e \in Training!Public : publicOn'[e] = publicOn[e]
    /\ \A e \in Training!Public' \ Training!Public : Training!Boundary <= publicOn'[e]

\* The triggers of company c for session s.
TriggersOf(c, s) == {e \in Training!Public : CompanyOf[e] = c /\ Training!Built(e) = s}

LEMMA TriggersAreThose ==
    ASSUME NEW c, NEW s
    PROVE  Training!Triggers(c, s, [x \in Training!Public |-> Training!Built(x)]) = TriggersOf(c, s)
BY DEF Training!Triggers, TriggersOf

LEMMA BuiltAlike ==
    ASSUME RowsSensible, RowsTypes, RowsTypes', NextDay, NEW e \in Training!Public'
    PROVE  /\ Training!Built(e)' < Training!Boundary =>
                e \in Training!Public /\ Training!Built(e) = Training!Built(e)'
           /\ e \in Training!Public /\ Training!Built(e) < Training!Boundary =>
                Training!Built(e)' = Training!Built(e)
  <1> DEFINE T == traded[CompanyOf[e]]
             U == traded'[CompanyOf[e]]
             p == publicOn'[e]
             B == Training!Boundary
  <1>1. /\ Training!Built(e) = SessionIn(T, publicOn[e])
        /\ Training!Built(e)' = SessionIn(U, p)
    BY DEF Training!Built, Training!HasHistory, SessionIn
  <1>2. /\ B \in Nat /\ B <= MaxDay /\ Training!Never = MaxDay + 1 /\ MaxDay \in Nat
        /\ CompanyOf[e] \in Company
    BY BoundaryIsDay DEF Training!Never, RowsSensible, CalendarSensible, RowsTypes
  <1>3. Alike(T, U) /\ Alike(U, T) /\ p \in 1 .. MaxDay
    BY <1>2 DEF NextDay, Alike, RowsTypes
  <1>4. CASE e \in Training!Public
    <2>1. publicOn[e] = p
      BY <1>4 DEF NextDay
    <2> HIDE DEF T, U, p, B
    <2>2. SessionIn(T, p) < B => SessionIn(U, p) = SessionIn(T, p)
      BY <1>3, SessionAlike DEF B
    <2>3. SessionIn(U, p) < B => SessionIn(T, p) = SessionIn(U, p)
      BY <1>3, SessionAlike DEF B
    <2> QED
      BY <1>1, <1>4, <2>1, <2>2, <2>3 DEF B
  <1>5. CASE e \notin Training!Public
    <2>1. B <= p
      BY <1>5 DEF NextDay
    <2>2. U \in SUBSET (1 .. MaxDay)
      BY <1>3 DEF Alike
    <2> HIDE DEF U, p, B
    <2>3. SessionIn(U, p) \in Nat /\ p < SessionIn(U, p)
      BY <1>2, <1>3, <2>2, NextIsLater DEF SessionIn
    <2>4. p \in Nat /\ ~ (SessionIn(U, p) < B)
      BY <1>2, <1>3, <2>1, <2>3
    <2> QED
      BY <1>1, <1>5, <2>4 DEF B
  <1> QED
    BY <1>4, <1>5

LEMMA TriggersAlike ==
    ASSUME RowsSensible, RowsTypes, RowsTypes', NextDay, NEW c, NEW s, s < Training!Boundary
    PROVE  TriggersOf(c, s)' = TriggersOf(c, s)
  <1>1. \A e \in Training!Public : e \in Training!Public'
    BY DEF NextDay
  <1>2. \A e \in Training!Public' :
          /\ Training!Built(e)' = s => e \in Training!Public /\ Training!Built(e) = s
          /\ e \in Training!Public /\ Training!Built(e) = s => Training!Built(e)' = s
    BY BuiltAlike
  <1> QED
    BY <1>1, <1>2 DEF TriggersOf

\* An early row is the same row.
LEMMA RowAlike ==
    ASSUME RowsSensible, RowsTypes, RowsTypes', NextDay, NEW e \in Training!Public,
           Training!Built(e) < Training!Boundary, Training!Built(e)' = Training!Built(e),
           \A h \in Horizons : Training!Exit(CompanyOf[e], Training!Built(e), h)'
                                 = Training!Exit(CompanyOf[e], Training!Built(e), h)
    PROVE  RowOf(e)' = RowOf(e)
  <1> DEFINE c == CompanyOf[e]
             s == Training!Built(e)
             so == [x \in Training!Public |-> Training!Built(x)]
             ends == [h \in Horizons |-> Training!Exit(c, s, h)]
  <1>1. s' = s /\ s < Training!Boundary /\ c' = c
    OBVIOUS
  <1>2. \A x : x < Training!Boundary => Training!Triggers(c, x, so)' = Training!Triggers(c, x, so)
    <2>1. \A x : /\ Training!Triggers(c, x, so) = TriggersOf(c, x)
                 /\ Training!Triggers(c, x, so)' = TriggersOf(c, x)'
      BY DEF Training!Triggers, TriggersOf
    <2> HIDE DEF so, c
    <2> QED
      BY <2>1, TriggersAlike
  <1>3. Training!Boundary \in Nat /\ s \in Nat /\ Sessions \subseteq Nat
    <2>1. Training!Boundary \in Nat /\ MaxDay \in Nat
      BY BoundaryIsDay DEF RowsSensible, CalendarSensible, YearsSensible
    <2>2. traded[c] \in SUBSET (1 .. MaxDay) /\ publicOn[e] \in 1 .. MaxDay
      BY <2>1 DEF RowsTypes, RowsSensible, CalendarSensible
    <2>3. s \in Nat
      BY <2>1, <2>2, NextIsLater DEF Training!Built, Training!Never
    <2> QED
      BY <2>1, <2>3 DEF RowsSensible, CalendarSensible, YearsSensible
  <1>4. ends' = ends
    BY <1>1
  <1>5. RowOf(e) = [company |-> c, session |-> s, triggers |-> Training!Triggers(c, s, so),
                    prior |-> Training!Prior(c, s, so), exits |-> ends]
    BY DEF RowOf, Training!BaseRow, Training!Exits
  <1>6. RowOf(e)' = [company |-> c, session |-> s', triggers |-> Training!Triggers(c, s, so)',
                     prior |-> Training!Prior(c, s, so)', exits |-> ends']
    BY DEF RowOf, Training!BaseRow, Training!Exits
  <1>7. Training!Triggers(c, s, so)' = Training!Triggers(c, s, so)
    BY <1>1, <1>2 DEF Training!Triggers
  <1>8. Training!Prior(c, s, so)' = Training!Prior(c, s, so)
    <2> DEFINE S == {d \in Sessions : d < s}
    <2>1. \A x \in S : Training!Triggers(c, x, so)' = Training!Triggers(c, x, so)
      BY <1>1, <1>2, <1>3
    <2>2. S' = S
      BY <1>1
    <2>3. Training!Prior(c, s, so)
            = {<<x, Training!Triggers(c, x, so)>> :
               x \in {d \in S : Training!Triggers(c, d, so) # {}}}
      BY DEF Training!Prior
    <2>4. Training!Prior(c, s, so)'
            = {<<x, Training!Triggers(c, x, so)'>> :
                 x \in {d \in S' : Training!Triggers(c, d, so)' # {}}}
      BY DEF Training!Prior
    <2> HIDE DEF S, so, c, s
    <2> QED
      BY <2>1, <2>2, <2>3, <2>4
  <1> HIDE DEF c, s, so, ends
  <1> QED
    BY <1>1, <1>4, <1>5, <1>6, <1>7, <1>8

LEMMA EarlyAlike ==
    ASSUME RowsSensible, RowsTypes, RowsTypes', NextDay
    PROVE  /\ EarlyEvents' = EarlyEvents
           /\ \A e \in EarlyEvents : RowOf(e)' = RowOf(e)
  <1> DEFINE B == Training!Boundary
             C(e) == CompanyOf[e]
             b(e) == Training!Built(e)
  <1>1. B \in Nat /\ B <= MaxDay /\ MaxDay \in Nat
    BY BoundaryIsDay DEF RowsSensible, CalendarSensible, YearsSensible
  <1>2. ASSUME NEW e \in Training!Public', NEW h, b(e)' = b(e), b(e) < B
        PROVE  /\ Training!Exit(C(e), b(e), h) < B =>
                    Training!Exit(C(e), b(e), h)' = Training!Exit(C(e), b(e), h)
               /\ Training!Exit(C(e), b(e), h)' < B =>
                    Training!Exit(C(e), b(e), h)' = Training!Exit(C(e), b(e), h)
    <2> DEFINE T == traded[C(e)]
               U == traded'[C(e)]
               s == b(e)
    <2>1. /\ Training!Exit(C(e), b(e), h) = EndIn(T, s, h)
          /\ Training!Exit(C(e), b(e), h)' = EndIn(U, s, h)
      BY <1>2 DEF Training!Exit, EndIn
    <2>2. C(e) \in Company
      BY DEF RowsTypes, RowsSensible, CalendarSensible
    <2>3. Alike(T, U) /\ Alike(U, T)
      BY <2>2 DEF NextDay, Alike
    <2>4. U \in SUBSET (1 .. MaxDay) /\ publicOn'[e] \in 1 .. MaxDay
      BY <1>1, <2>3 DEF Alike, RowsTypes
    <2>5. Training!NextIn(U, publicOn'[e]) \in Nat /\ Training!Never \in Nat
      BY <1>1, <2>4, NextIsLater DEF Training!Never
    <2>6. s \in Nat
      BY <1>2, <2>5 DEF Training!Built, Training!Never
    <2>7. s <= MaxDay
      BY <1>1, <1>2, <2>6
    <2> HIDE DEF T, U, s, B
    <2>8. /\ EndIn(T, s, h) < B => EndIn(U, s, h) = EndIn(T, s, h)
          /\ EndIn(U, s, h) < B => EndIn(T, s, h) = EndIn(U, s, h)
      BY <2>3, <2>6, <2>7, EndAlike DEF B
    <2> QED
      BY <2>1, <2>8
  <1>3. ASSUME NEW e
        PROVE  e \in EarlyEvents' <=> e \in EarlyEvents
    <2>1. /\ e \in EarlyEvents <=>
               /\ e \in Training!Public /\ b(e) < B
               /\ \A h \in Horizons : Training!Exit(C(e), b(e), h) < B
          /\ e \in EarlyEvents' <=>
               /\ e \in Training!Public' /\ b(e)' < B
               /\ \A h \in Horizons : Training!Exit(C(e), b(e), h)' < B
      BY DEF EarlyEvents
    <2>2. e \in Training!Public => e \in Training!Public'
      BY DEF NextDay
    <2>3. e \in Training!Public' =>
            /\ b(e)' < B => e \in Training!Public /\ b(e) = b(e)'
            /\ e \in Training!Public /\ b(e) < B => b(e)' = b(e)
      BY BuiltAlike
    <2>4. e \in Training!Public' /\ b(e)' = b(e) /\ b(e) < B =>
            \A h : Training!Exit(C(e), b(e), h)' < B <=> Training!Exit(C(e), b(e), h) < B
      <3> SUFFICES ASSUME e \in Training!Public', b(e)' = b(e), b(e) < B, NEW h
                   PROVE  Training!Exit(C(e), b(e), h)' < B <=> Training!Exit(C(e), b(e), h) < B
        OBVIOUS
      <3> HIDE DEF B, b, C
      <3> QED
        BY <1>2
    <2> HIDE DEF B, b, C
    <2> QED
      BY <2>1, <2>2, <2>3, <2>4
  <1>4. EarlyEvents' = EarlyEvents
    BY <1>3
  <1>5. ASSUME NEW e \in EarlyEvents
        PROVE  RowOf(e)' = RowOf(e)
    <2>1. /\ e \in Training!Public /\ e \in Training!Public' /\ b(e) < B
          /\ \A h \in Horizons : Training!Exit(C(e), b(e), h) < B
      BY <1>5 DEF EarlyEvents, NextDay
    <2>2. b(e)' = b(e)
      BY <2>1, BuiltAlike
    <2>3. \A h \in Horizons : Training!Exit(C(e), b(e), h)' = Training!Exit(C(e), b(e), h)
      <3> HIDE DEF B, b, C
      <3> QED
        BY <1>2, <2>1, <2>2
    <2> QED
      BY <2>1, <2>2, <2>3, RowAlike
  <1> QED
    BY <1>4, <1>5

\* Neither bars nor publications from the boundary on change the split.
LEMMA SplitStays ==
    ASSUME RowsSensible, RowsTypes, RowsTypes', NextDay,
           Eligible = {RowOf(e) : e \in EarlyEvents},
           Eligible' = {RowOf(e)' : e \in EarlyEvents'}
    PROVE  Training!Split' = Training!Split
  <1>1. Eligible' = Eligible
    BY EarlyAlike
  <1>2. ASSUME NEW r \in Eligible
        PROVE  Training!DecidedOn(r)' = Training!DecidedOn(r)
    <2>1. r.triggers \subseteq Training!Public
      <3>1. PICK e \in EarlyEvents : r = RowOf(e)
        BY <1>2
      <3> QED
        BY <3>1 DEF RowOf, Training!BaseRow, Training!Triggers
    <2>2. {publicOn[e] : e \in r.triggers}' = {publicOn[e] : e \in r.triggers}
      BY <2>1 DEF NextDay
    <2> QED
      BY <2>2 DEF Training!DecidedOn, Training!Latest
  <1>3. /\ Training!Split =
               [train |-> {r \in Eligible : YearOf[Training!DecidedOn(r)] < TestYear - 1},
                   validation |-> {r \in Eligible : YearOf[Training!DecidedOn(r)] = TestYear - 1}]
        /\ Training!Split' =
               [train |-> {r \in Eligible' : YearOf[Training!DecidedOn(r)'] < TestYear - 1},
                   validation |-> {r \in Eligible' : YearOf[Training!DecidedOn(r)'] = TestYear - 1}]
    BY DEF Training!Split, Eligible
  <1> QED
    BY <1>1, <1>2, <1>3

RowsInv ==
    /\ RowsTypes
    /\ asOf # {} => Training!Boundary <= today
    /\ Training!HindsightIsPointInTime

LEMMA RowsInit ==
    ASSUME RowsSensible, Training!Init
    PROVE  RowsInv
BY DEF RowsSensible, CalendarSensible, YearsSensible, Training!Init, RowsInv, RowsTypes,
       Training!Public,
       Training!HindsightIsPointInTime

LEMMA TypesNextDay ==
    ASSUME CalendarSensible, RowsTypes, NEW trading \in SUBSET Company, Training!NextDay(trading)
    PROVE  RowsTypes'
BY DEF CalendarSensible, RowsTypes, Training!NextDay, Training!Public

LEMMA TypesPublish ==
    ASSUME CalendarSensible, RowsTypes, NEW e \in Event, Training!Publish(e)
    PROVE  RowsTypes'
BY DEF CalendarSensible, RowsTypes, Training!Publish, Training!Public

LEMMA EligibleRowsNext ==
    ASSUME RowsSensible
    PROVE  (RowsTypes => Eligible = {RowOf(e) : e \in EarlyEvents})'
  <1>1. RowsTypes => Eligible = {RowOf(e) : e \in EarlyEvents}
    BY EligibleRows
  <1> QED
    BY <1>1, PTL

\* Once the test year began, a step keeps the split.
LEMMA LaterStep ==
    ASSUME RowsSensible, RowsTypes, RowsTypes', NextDay
    PROVE  Training!Split' = Training!Split
  <1>1. Eligible = {RowOf(e) : e \in EarlyEvents}
    BY EligibleRows
  <1>2. Eligible' = {RowOf(e)' : e \in EarlyEvents'}
    BY EligibleRowsNext
  <1> QED
    BY <1>1, <1>2, SplitStays

LEMMA InvNextDay ==
    ASSUME RowsSensible, RowsInv, NEW trading \in SUBSET Company, Training!NextDay(trading)
    PROVE  RowsInv'
  <1>1. RowsTypes /\ RowsTypes'
    BY TypesNextDay DEF RowsInv, RowsSensible
  <1>2. Training!Boundary \in 1 .. MaxDay /\ MaxDay \in Nat /\ today \in 1 .. MaxDay
        /\ today' = today + 1 /\ today' \in 1 .. MaxDay
    BY <1>1, BoundaryIsDay DEF RowsSensible, CalendarSensible, YearsSensible, RowsTypes,
                               Training!NextDay
  <1>3. CASE today' < Training!Boundary
    <2>1. asOf' = asOf /\ asOf = {}
      BY <1>2, <1>3 DEF RowsInv, Training!NextDay
    <2> QED
      BY <1>1, <2>1 DEF RowsInv, Training!HindsightIsPointInTime
  <1>4. CASE Training!Boundary <= today'
    <2>1. NextDay
      <3>1. ASSUME NEW c \in Company
            PROVE  Alike(traded[c], traded'[c])
        <4>1. traded[c] \in SUBSET (1 .. today)
              /\ (traded'[c] = traded[c] \/ traded'[c] = traded[c] \cup {today'})
          BY <1>1, <3>1 DEF RowsTypes, Training!NextDay
        <4> QED
          BY <1>2, <1>4, <4>1 DEF Alike
      <3> QED
        BY <3>1 DEF NextDay, Training!NextDay, Training!Public
    <2>2. Training!Split' = Training!Split
      BY <1>1, <2>1, LaterStep
    <2>3. asOf' \subseteq {Training!Split}
      BY DEF RowsInv, Training!HindsightIsPointInTime, Training!NextDay
    <2> QED
      BY <1>1, <1>4, <2>2, <2>3 DEF RowsInv, Training!HindsightIsPointInTime
  <1> QED
    BY <1>2, <1>3, <1>4

LEMMA InvPublish ==
    ASSUME RowsSensible, RowsInv, NEW e \in Event, Training!Publish(e)
    PROVE  RowsInv'
  <1>1. RowsTypes /\ RowsTypes' /\ asOf' = asOf /\ today' = today
    BY TypesPublish DEF RowsInv, RowsSensible, Training!Publish
  <1>2. CASE asOf = {}
    BY <1>1, <1>2 DEF RowsInv, Training!HindsightIsPointInTime
  <1>3. CASE asOf # {}
    <2>1. Training!Boundary <= today
      BY <1>3 DEF RowsInv
    <2>2. NextDay
      <3>1. ASSUME NEW c \in Company
            PROVE  Alike(traded[c], traded'[c])
        <4>1. traded[c] \in SUBSET (1 .. today) /\ traded'[c] = traded[c]
              /\ today \in 1 .. MaxDay /\ MaxDay \in Nat
          BY <1>1, <3>1 DEF RowsTypes, Training!Publish, RowsSensible, CalendarSensible
        <4> QED
          BY <4>1 DEF Alike
      <3>2. /\ Training!Public' = Training!Public \cup {e}
            /\ \A x \in Training!Public' : publicOn'[x] = IF x = e THEN today ELSE publicOn[x]
            /\ e \notin Training!Public
        BY DEF Training!Publish, Training!Public
      <3> QED
        BY <2>1, <3>1, <3>2 DEF NextDay
    <2>3. Training!Split' = Training!Split
      BY <1>1, <2>2, LaterStep
    <2> QED
      BY <1>1, <2>1, <2>3 DEF RowsInv, Training!HindsightIsPointInTime
  <1> QED
    BY <1>2, <1>3

\* A cycle reads bars and publications and changes neither.
LEMMA InvRest ==
    ASSUME RowsSensible, RowsInv, UNCHANGED <<today, publicOn, traded, asOf>>
    PROVE  RowsInv'
  <1>1. RowsTypes'
    BY DEF RowsInv, RowsTypes, Training!Public
  <1>2. MaxDay \in Nat
    BY DEF RowsSensible, CalendarSensible, YearsSensible
  <1>3. NextDay
    BY <1>2 DEF RowsInv, RowsTypes, NextDay, Alike, Training!Public
  <1>4. Training!Split' = Training!Split
    BY <1>1, <1>3, LaterStep DEF RowsInv
  <1> QED
    BY <1>1, <1>4 DEF RowsInv, Training!HindsightIsPointInTime

\* The split that research builds in hindsight for a test year is the one that
\* could have been built on the eve of that year: no label, trigger or earlier
\* opportunity of a row in it comes from a bar or a publication of the test year
\* or later (annual_walk_forward_splits over multi_horizon_maturity_dates).
THEOREM HindsightCorrect ==
    ASSUME Fence = Horizons
    PROVE  Training!Spec => []Training!HindsightIsPointInTime
  <1> RowsSensible
    BY RowsAssumption DEF RowsSensible
  <1>1. Training!Init => RowsInv
    BY RowsInit
  <1>2. RowsInv /\ [Training!Next]_Training!vars => RowsInv'
    <2> SUFFICES ASSUME RowsInv, [Training!Next]_Training!vars
                 PROVE  RowsInv'
      OBVIOUS
    <2>1. CASE \E trading \in SUBSET Company : Training!NextDay(trading)
      BY <2>1, InvNextDay
    <2>2. CASE \E e \in Event : Training!Publish(e)
      BY <2>2, InvPublish
    <2>3. CASE Training!Cycle
      BY <2>3, InvRest DEF Training!Cycle
    <2>4. CASE UNCHANGED Training!vars
      BY <2>4, InvRest DEF Training!vars
    <2> QED
      BY <2>1, <2>2, <2>3, <2>4 DEF Training!Next
  <1>3. RowsInv => Training!HindsightIsPointInTime
    BY DEF RowsInv
  <1> QED
    BY <1>1, <1>2, <1>3, PTL DEF Training!Spec

-----------------------------------------------------------------------------
(* Live candidates.                                                        *)

\* The session an event is for when no stock is halted.
Opens(e) == Training!NextIn(Sessions, publicOn[e])

HindSession == [e \in Training!Public |-> Training!Built(e)]

\* The known events of a candidate's company that open with its session.
Awaited(l) ==
    {e \in l.known : /\ CompanyOf[e] = l.company /\ Training!HasHistory(e)
                     /\ Opens(e) = l.session}

\* A candidate, in terms of what was known to the cycle that decided on it: its triggers
\* are those that no session came before, its earlier opportunities are still the ones of
\* hindsight, every session before it has closed, and what opens with it has been taken.
Assembled(l) ==
    /\ l.session \in Sessions /\ l.company \in Company /\ l.known \subseteq Training!Public
    /\ l.triggers = Awaited(l)
    /\ l.prior = Training!Prior(l.company, l.session, HindSession)
    /\ \A s \in Sessions : s < l.session => s <= today
    /\ \A e \in l.known : Opens(e) = l.session => e \in taken

\* The company of a taken event was ranked for its session.
WasRanked(e) == \E n \in live : n.session = Opens(e) /\ CompanyOf[e] \in n.peers

LiveInv ==
    /\ RowsTypes
    /\ \A c \in Company : traded[c] \subseteq Sessions
    /\ taken \subseteq Training!Public
    /\ \A l \in live : Assembled(l)
    /\ \A e \in taken : WasRanked(e)

\* What is known of a public event's calendar.
LEMMA EventCalendar ==
    ASSUME CalendarSensible, RowsTypes, \A c \in Company : traded[c] \subseteq Sessions,
           NEW e \in Training!Public
    PROVE  /\ CompanyOf[e] \in Company /\ publicOn[e] \in 1 .. today /\ publicOn[e] \in 1 .. MaxDay
           /\ traded[CompanyOf[e]] \in SUBSET (1 .. today)
           /\ traded[CompanyOf[e]] \in SUBSET (1 .. MaxDay)
           /\ traded[CompanyOf[e]] \subseteq Sessions
           /\ Sessions \in SUBSET (1 .. MaxDay)
           /\ MaxDay \in Nat /\ today \in 1 .. MaxDay /\ Training!Never = MaxDay + 1
BY DEF CalendarSensible, RowsTypes, Training!Never

\* The next day of a set that has a later one is its least later one.
LEMMA NextIsLeast ==
    ASSUME NEW T \in SUBSET (1 .. MaxDay), NEW p \in 1 .. MaxDay, MaxDay \in Nat,
           NEW x \in T, p < x
    PROVE  /\ Training!NextIn(T, p) \in T /\ p < Training!NextIn(T, p)
           /\ \A y \in T : p < y => Training!NextIn(T, p) <= y
           /\ (\A y \in T : p < y => x <= y) => Training!NextIn(T, p) = x
  <1> DEFINE L == {y \in T : y > p}
  <1>1. /\ L \in SUBSET Nat /\ L # {} /\ \A y : y \in L <=> y \in T /\ p < y
    <2>1. p \in Nat /\ \A y \in T : y \in Nat
      OBVIOUS
    <2>2. x \in L
      BY <2>1
    <2>3. \A y : y \in L <=> y \in T /\ p < y
      BY <2>1
    <2> QED
      BY <2>1, <2>2, <2>3
  <1>2. Training!NextIn(T, p) = Training!Earliest(L)
    BY DEF Training!NextIn
  <1> HIDE DEF L
  <1>3. Training!Earliest(L) \in L /\ \A y \in L : Training!Earliest(L) <= y
    BY <1>1, LeastDay
  <1> HIDE DEF L
  <1> DEFINE n == Training!NextIn(T, p)
  <1>4. n \in T /\ p < n /\ \A y \in T : p < y => n <= y
    BY <1>1, <1>2, <1>3
  <1> HIDE DEF n
  <1>5. (\A y \in T : p < y => x <= y) => n = x
    BY <1>4
  <1> QED
    BY <1>4, <1>5 DEF n

LEMMA NextIsNever ==
    ASSUME NEW T, NEW p, \A x \in T : ~ (x > p)
    PROVE  Training!NextIn(T, p) = Training!Never
BY DEF Training!NextIn

\* The stock's next bar is the session an event opens with when the stock has a bar of it.
LEMMA BuiltOpens ==
    ASSUME CalendarSensible, RowsTypes, \A c \in Company : traded[c] \subseteq Sessions,
           NEW e \in Training!Public, Training!HasHistory(e), Opens(e) \in traded[CompanyOf[e]]
    PROVE  Training!Built(e) = Opens(e)
  <1> DEFINE T == traded[CompanyOf[e]]
             p == publicOn[e]
             x == Opens(e)
  <1>1. /\ T \in SUBSET (1 .. MaxDay) /\ T \subseteq Sessions /\ p \in 1 .. MaxDay
        /\ Sessions \in SUBSET (1 .. MaxDay) /\ MaxDay \in Nat /\ Training!Never = MaxDay + 1
    BY EventCalendar
  <1>2. p < x /\ (x # Training!Never => \A y \in Sessions : p < y => x <= y)
    BY <1>1, NextIsLater DEF Opens
  <1>3. x \in T /\ x # Training!Never
    BY <1>1
  <1> HIDE DEF T, p, x
  <1>4. Training!NextIn(T, p) = x
    BY <1>1, <1>2, <1>3, NextIsLeast
  <1> QED
    BY <1>4 DEF Training!Built, T, p, x

LEMMA BuiltIsBar ==
    ASSUME CalendarSensible, RowsTypes, \A c \in Company : traded[c] \subseteq Sessions,
           NEW e \in Training!Public, Training!Built(e) # Training!Never
    PROVE  /\ Training!HasHistory(e)
           /\ Training!Built(e) \in traded[CompanyOf[e]] /\ publicOn[e] < Training!Built(e)
  <1>1. Training!HasHistory(e) /\ Training!Built(e) =
            Training!NextIn(traded[CompanyOf[e]], publicOn[e])
    BY DEF Training!Built
  <1> QED
    BY <1>1, EventCalendar, NextIsLater

\* What the assembly for session x takes for the session of an event, while x is the next.
LEMMA LiveSessionIs ==
    ASSUME CalendarSensible, RowsTypes, \A c \in Company : traded[c] \subseteq Sessions,
           NEW x, x = Training!NextIn(Sessions, today), x # Training!Never,
           NEW e \in Training!Public
    PROVE  /\ Training!LiveSession(e, x) = x <=> Training!HasHistory(e) /\ Opens(e) = x
           /\ Training!LiveSession(e, x) = Training!Built(e)
                \/ (Training!Built(e) = Training!Never /\ Training!LiveSession(e, x) = x)
  <1> DEFINE T == traded[CompanyOf[e]]
             p == publicOn[e]
             b == Training!Built(e)
             h == Training!HasHistory(e)
  <1>1. /\ T \in SUBSET (1 .. today) /\ T \in SUBSET (1 .. MaxDay) /\ T \subseteq Sessions
        /\ p \in 1 .. today /\ p \in 1 .. MaxDay /\ Sessions \in SUBSET (1 .. MaxDay)
        /\ MaxDay \in Nat /\ today \in 1 .. MaxDay /\ Training!Never = MaxDay + 1
    BY EventCalendar
  <1>2. x \in Sessions /\ today < x /\ \A y \in Sessions : today < y => x <= y
    BY <1>1, NextIsLater
  <1>3. b # Training!Never => h /\ b \in T
    BY BuiltIsBar
  <1>4. b # x
    BY <1>1, <1>2, <1>3
  <1> DEFINE closed == Training!NextIn(Training!Closed, p)
  <1>5. closed \in Nat /\ p < closed
        /\ (closed # Training!Never => closed \in Sessions /\ closed <= today)
    <2>1. Training!Closed \in SUBSET (1 .. MaxDay)
      BY <1>1 DEF Training!Closed
    <2> HIDE DEF p
    <2>2. Training!NextIn(Training!Closed, p) \in Nat /\ p < Training!NextIn(Training!Closed, p)
          /\ (Training!NextIn(Training!Closed, p) # Training!Never =>
                Training!NextIn(Training!Closed, p) \in Training!Closed)
      BY <1>1, <2>1, NextIsLater
    <2> QED
      BY <2>2 DEF Training!Closed
  <1>6. Opens(e) = x <=> closed = Training!Never
    <2>1. CASE \E y \in Sessions : p < y /\ y <= today
      <3>1. PICK y \in Sessions : p < y /\ y <= today
        BY <2>1
      <3>2. Opens(e) <= y
        <4> HIDE DEF p
        <4>1. Training!NextIn(Sessions, p) <= y
          BY <1>1, <3>1, NextIsLeast
        <4> QED
          BY <4>1 DEF Opens, p
      <3>3. Training!Closed \in SUBSET (1 .. MaxDay) /\ y \in Training!Closed
        BY <1>1, <3>1 DEF Training!Closed
      <3>4. closed \in Training!Closed
        <4> HIDE DEF p
        <4> QED
          BY <1>1, <3>1, <3>3, NextIsLeast
      <3>5. y \in Nat /\ x \in Nat /\ today \in Nat
        BY <1>1, <1>2
      <3>6. closed # Training!Never
        BY <1>1, <3>3, <3>4
      <3>7. Opens(e) # x
        BY <1>2, <3>1, <3>2, <3>5
      <3> QED
        BY <3>6, <3>7
    <2>2. CASE \A y \in Sessions : ~ (p < y /\ y <= today)
      <3>1. \A y \in Training!Closed : ~ (y > p)
        BY <1>1, <2>2 DEF Training!Closed
      <3> HIDE DEF p
      <3>2. closed = Training!Never
        BY <3>1, NextIsNever
      <3>3. p < x /\ \A y \in Sessions : p < y => x <= y
        BY <1>1, <1>2, <2>2
      <3>4. Training!NextIn(Sessions, p) = x
        BY <1>1, <1>2, <3>3, NextIsLeast
      <3> QED
        BY <3>2, <3>4 DEF Opens, p
    <2> QED
      BY <2>1, <2>2
  <1>7. closed >= x <=> closed = Training!Never
    BY <1>1, <1>2, <1>5
  <1>8. Opens(e) = x => b = Training!Never
    <2> SUFFICES ASSUME Opens(e) = x, b # Training!Never
                 PROVE  FALSE
      OBVIOUS
    <2>1. b \in T /\ p < b
      BY BuiltIsBar
    <2>2. \A y \in Sessions : p < y => x <= y
      <3>1. Training!NextIn(Sessions, p) = x
        BY DEF Opens
      <3> HIDE DEF p
      <3> QED
        BY <1>1, <1>2, <3>1, NextIsLater
    <2>3. b \in Sessions /\ b <= today
      BY <1>1, <2>1
    <2>4. x <= b
      <3> HIDE DEF b, p
      <3> QED
        BY <2>1, <2>2, <2>3
    <2>5. x \in Int /\ b \in Int /\ today \in Int
      BY <1>1, <1>2, <2>3
    <2> HIDE DEF b, T, p
    <2> QED
      BY <1>2, <2>3, <2>4, <2>5
  <1>9. p < x
    <2> HIDE DEF p
    <2>1. p \in Nat /\ p <= today /\ x \in Nat /\ today \in Nat
      BY <1>1, <1>2
    <2> QED
      BY <1>2, <2>1
  <1>10. Training!LiveSession(e, x) =
           IF b # Training!Never THEN b
           ELSE IF h /\ p < x /\ closed >= x THEN x ELSE Training!Never
    BY DEF Training!LiveSession
  <1> DEFINE l == Training!LiveSession(e, x)
             o == Opens(e) = x
  <1>11. o => b = Training!Never
    BY <1>8
  <1>12. o <=> closed >= x
    BY <1>6, <1>7
  <1> HIDE DEF b, h, p, T, closed, l, o
  <1>13. CASE b # Training!Never
    <2>1. l = b /\ l # x /\ ~ o
      BY <1>4, <1>10, <1>11, <1>13 DEF l
    <2> QED
      BY <2>1 DEF l, b, h, o
  <1>14. CASE b = Training!Never
    <2>1. CASE h /\ o
      <3>1. l = x
        BY <1>9, <1>10, <1>12, <1>14, <2>1 DEF l
      <3> QED
        BY <1>14, <2>1, <3>1 DEF l, b, h, o
    <2>2. CASE ~ (h /\ o)
      <3>1. l = Training!Never
        BY <1>10, <1>12, <1>14, <2>2 DEF l
      <3> QED
        BY <1>14, <2>2, <3>1 DEF l, b, h, o
    <2> QED
      BY <2>1, <2>2
  <1> QED
    BY <1>13, <1>14

LEMMA PriorSame ==
    ASSUME NEW c, NEW s, NEW f, NEW g,
           \A d \in Sessions : d < s => Training!Triggers(c, d, f) = Training!Triggers(c, d, g)
    PROVE  Training!Prior(c, s, f) = Training!Prior(c, s, g)
  <1> DEFINE S == {d \in Sessions : d < s}
  <1>1. \A d \in S : Training!Triggers(c, d, f) = Training!Triggers(c, d, g)
    OBVIOUS
  <1>2. /\ Training!Prior(c, s, f) = {<<y, Training!Triggers(c, y, f)>> :
                                        y \in {d \in S : Training!Triggers(c, d, f) # {}}}
        /\ Training!Prior(c, s, g) = {<<y, Training!Triggers(c, y, g)>> :
                                        y \in {d \in S : Training!Triggers(c, d, g) # {}}}
    BY DEF Training!Prior
  <1> HIDE DEF S
  <1> QED
    BY <1>1, <1>2

\* What a cycle finds for the next session.
LEMMA FoundIs ==
    ASSUME NEW x, NEW some \in SUBSET Training!Public, NEW l \in Training!Candidates(some, x),
           CalendarSensible, RowsTypes, \A c \in Company : traded[c] \subseteq Sessions,
           x = Training!NextIn(Sessions, today), x # Training!Never
    PROVE  /\ l.session = x /\ l.known = Training!Public
           /\ l.company \in Company
           /\ l.triggers = Awaited(l)
           /\ l.prior = Training!Prior(l.company, l.session, HindSession)
           /\ \A m \in Training!Candidates(some, x) : m.company \in l.peers
  <1> DEFINE so == [e \in Training!Public |-> Training!LiveSession(e, x)]
             affected == {CompanyOf[e] : e \in some}
             rows == {r \in {Training!BaseRow(c, x, so) : c \in affected} : r.triggers # {}}
             made(r) == [company |-> r.company, session |-> x, known |-> Training!Public,
                         triggers |-> r.triggers, prior |-> r.prior,
                         peers |-> Training!Peers(r, rows)]
  <1>1. Training!Candidates(some, x) = {made(r) : r \in rows}
    BY DEF Training!Candidates
  <1>2. \A r \in rows : \E c \in affected : r = Training!BaseRow(c, x, so)
    OBVIOUS
  <1>3. affected \subseteq Company
    BY DEF CalendarSensible, RowsTypes
  <1>4. \A r \in rows : r.session = x
    <2> SUFFICES ASSUME NEW r \in rows
                 PROVE  r.session = x
      OBVIOUS
    <2>1. PICK c \in affected : r = Training!BaseRow(c, x, so)
      BY <1>2
    <2> QED
      BY <2>1 DEF Training!BaseRow
  <1>5. \A r, q \in rows : q.company \in Training!Peers(r, rows)
    <2> HIDE DEF rows
    <2> QED
      BY <1>4 DEF Training!Peers
  <1>6. \A r \in rows : /\ made(r).company = r.company /\ made(r).session = x
                        /\ made(r).known = Training!Public /\ made(r).triggers = r.triggers
                        /\ made(r).prior = r.prior /\ made(r).peers = Training!Peers(r, rows)
    <2> HIDE DEF rows
    <2> QED
      OBVIOUS
  <1> HIDE DEF made
  <1>7. PICK r \in rows : l = made(r)
    <2> HIDE DEF rows
    <2> QED
      BY <1>1
  <1>8. PICK c \in affected : r = Training!BaseRow(c, x, so)
    BY <1>2
  <1>9. c \in Company
    BY <1>3
  <1>10. /\ r.company = c /\ r.triggers = Training!Triggers(c, x, so)
         /\ r.prior = Training!Prior(c, x, so)
    BY <1>8 DEF Training!BaseRow
  <1>11. Training!Triggers(c, x, so)
           = {e \in Training!Public : CompanyOf[e] = c /\ Training!HasHistory(e) /\ Opens(e) = x}
    <2>1. Training!Triggers(c, x, so)
            = {e \in Training!Public : CompanyOf[e] = c /\ Training!LiveSession(e, x) = x}
      BY DEF Training!Triggers
    <2>2. \A e \in Training!Public :
            Training!LiveSession(e, x) = x <=> Training!HasHistory(e) /\ Opens(e) = x
      BY LiveSessionIs
    <2> HIDE DEF so
    <2> QED
      BY <2>1, <2>2
  <1>12. \A d \in Sessions :
             d < x => Training!Triggers(c, d, so) = Training!Triggers(c, d, HindSession)
    <2> SUFFICES ASSUME NEW d \in Sessions, d < x
                 PROVE  Training!Triggers(c, d, so) = Training!Triggers(c, d, HindSession)
      OBVIOUS
    <2>1. d # Training!Never /\ d # x
      <3>1. Sessions \in SUBSET (1 .. MaxDay) /\ MaxDay \in Nat /\ today \in 1 .. MaxDay
            /\ Training!Never = MaxDay + 1
        BY DEF CalendarSensible, RowsTypes, Training!Never
      <3>2. x \in Nat
        BY <3>1, NextIsLater
      <3>3. d \in Nat /\ d <= MaxDay
        BY <3>1
      <3> QED
        BY <3>1, <3>2, <3>3
    <2>2. \A e \in Training!Public : Training!LiveSession(e, x) = d <=> Training!Built(e) = d
      BY <2>1, LiveSessionIs
    <2>3. /\ Training!Triggers(c, d, so)
               = {e \in Training!Public : CompanyOf[e] = c /\ Training!LiveSession(e, x) = d}
          /\ Training!Triggers(c, d, HindSession)
               = {e \in Training!Public : CompanyOf[e] = c /\ Training!Built(e) = d}
      BY DEF Training!Triggers, HindSession
    <2> HIDE DEF so
    <2> QED
      BY <2>2, <2>3
  <1>13. Training!Prior(c, x, so) = Training!Prior(c, x, HindSession)
    <2> HIDE DEF so
    <2> QED
      BY <1>12, PriorSame
  <1>14. \A m \in Training!Candidates(some, x) : m.company \in l.peers
    <2> HIDE DEF rows
    <2> QED
      BY <1>1, <1>5, <1>6, <1>7
  <1>15. l.session = x /\ l.known = Training!Public /\ l.company = c
         /\ l.triggers = Training!Triggers(c, x, so) /\ l.prior = Training!Prior(c, x, so)
    <2> HIDE DEF rows, so
    <2> QED
      BY <1>6, <1>7, <1>10
  <1> HIDE DEF so, rows
  <1> QED
    BY <1>9, <1>11, <1>13, <1>14, <1>15 DEF Awaited

LEMMA LiveInit ==
    ASSUME CalendarSensible, Training!Init
    PROVE  LiveInv
BY DEF CalendarSensible, Training!Init, LiveInv, RowsTypes, Training!Public

\* A day changes nothing of the events of the sessions that have closed.
LEMMA ClosedStay ==
    ASSUME CalendarSensible, RowsTypes, RowsTypes', \A c \in Company : traded[c] \subseteq Sessions,
           NEW trading \in SUBSET Company, Training!NextDay(trading), NEW e \in Training!Public
    PROVE  /\ Training!HasHistory(e)' <=> Training!HasHistory(e)
           /\ \A d \in Sessions : d <= today => (Training!Built(e)' = d <=> Training!Built(e) = d)
  <1> DEFINE T == traded[CompanyOf[e]]
             U == traded'[CompanyOf[e]]
             p == publicOn[e]
  <1>1. /\ T \in SUBSET (1 .. today) /\ T \in SUBSET (1 .. MaxDay) /\ p \in 1 .. today
        /\ p \in 1 .. MaxDay /\ MaxDay \in Nat /\ today \in 1 .. MaxDay
        /\ Training!Never = MaxDay + 1 /\ CompanyOf[e] \in Company
        /\ Sessions \in SUBSET (1 .. MaxDay)
    BY EventCalendar
  <1>2. today' = today + 1 /\ today' \in 1 .. MaxDay /\ publicOn' = publicOn
        /\ (U = T \/ U = T \cup {today'})
    BY <1>1 DEF Training!NextDay, RowsTypes
  <1>3. U \in SUBSET (1 .. MaxDay)
    BY <1>1, <1>2
  <1>4. /\ Training!HasHistory(e) <=> \E s \in T : s < p
        /\ Training!HasHistory(e)' <=> \E s \in U : s < p
    BY <1>2 DEF Training!HasHistory
  <1>5. ~ (today' < p) /\ p \in Nat /\ today' \in Nat
    BY <1>1, <1>2
  <1>6. Training!HasHistory(e)' <=> Training!HasHistory(e)
    <2> HIDE DEF T, U, p
    <2> QED
      BY <1>2, <1>4, <1>5
  <1> DEFINE t == Training!NextIn(T, p)
             u == Training!NextIn(U, p)
  <1>7. /\ Training!Built(e) = IF Training!HasHistory(e) THEN t ELSE Training!Never
        /\ Training!Built(e)' = IF Training!HasHistory(e)' THEN u ELSE Training!Never
    BY <1>2 DEF Training!Built, Training!Never
  <1> HIDE DEF T, U, p
  <1>8. /\ t \in Nat /\ p < t /\ (t # Training!Never => t \in T /\ \A y \in T : p < y => t <= y)
        /\ u \in Nat /\ p < u /\ (u # Training!Never => u \in U)
    BY <1>1, <1>3, NextIsLater
  <1>9. t # Training!Never => u = t
    <2> SUFFICES ASSUME t # Training!Never
                 PROVE  u = t
      OBVIOUS
    <2>1. t \in U /\ p < t /\ t <= today
      BY <1>1, <1>2, <1>8
    <2>2. \A y \in U : p < y => t <= y
      <3>1. t \in Nat /\ today \in Nat /\ t <= today' /\ \A y \in T : p < y => t <= y
        BY <1>1, <1>2, <1>8, <2>1
      <3> HIDE DEF t
      <3> QED
        BY <1>2, <3>1
    <2> HIDE DEF t
    <2> QED
      BY <1>1, <1>3, <2>1, <2>2, NextIsLeast
  <1>10. t = Training!Never => u = Training!Never \/ u = today'
    <2> SUFFICES ASSUME t = Training!Never, u # Training!Never, u # today'
                 PROVE  FALSE
      OBVIOUS
    <2>1. u \in T /\ p < u
      BY <1>2, <1>8
    <2>2. t \in T
      <3> HIDE DEF u
      <3> QED
        BY <1>1, <2>1, NextIsLeast
    <2> HIDE DEF t, u
    <2> QED
      BY <1>1, <2>2
  <1> HIDE DEF t, u
  <1>11. ASSUME NEW d \in Sessions, d <= today
         PROVE  Training!Built(e)' = d <=> Training!Built(e) = d
    <2>1. d # Training!Never /\ d # today'
      BY <1>1, <1>2, <1>11
    <2> QED
      BY <1>6, <1>7, <1>9, <1>10, <2>1
  <1> QED
    BY <1>6, <1>11

LEMMA PriorStays ==
    ASSUME NEW c, NEW s, \A d \in Sessions : d < s => TriggersOf(c, d)' = TriggersOf(c, d)
    PROVE  Training!Prior(c, s, HindSession)' = Training!Prior(c, s, HindSession)
  <1> DEFINE S == {d \in Sessions : d < s}
  <1>1. \A d : /\ Training!Triggers(c, d, HindSession) = TriggersOf(c, d)
               /\ Training!Triggers(c, d, HindSession)' = TriggersOf(c, d)'
    BY DEF Training!Triggers, HindSession, TriggersOf
  <1>2. \A d \in S : TriggersOf(c, d)' = TriggersOf(c, d)
    OBVIOUS
  <1>3. /\ Training!Prior(c, s, HindSession) = {<<y, Training!Triggers(c, y, HindSession)>> :
                                 y \in {d \in S : Training!Triggers(c, d, HindSession) # {}}}
        /\ Training!Prior(c, s, HindSession)' = {<<y, Training!Triggers(c, y, HindSession)'>> :
                                 y \in {d \in S : Training!Triggers(c, d, HindSession)' # {}}}
    BY DEF Training!Prior
  <1> HIDE DEF S
  <1> QED
    BY <1>1, <1>2, <1>3

\* A candidate stays assembled when nothing changes for what had been published.
LEMMA AssembledStays ==
    ASSUME NEW l, Assembled(l), RowsTypes, RowsTypes',
           Training!Public \subseteq Training!Public', taken \subseteq taken',
           today <= today', CalendarSensible,
           \A e \in Training!Public : publicOn'[e] = publicOn[e],
           \A e \in Training!Public : Training!HasHistory(e)' <=> Training!HasHistory(e),
           \A c \in Company, d \in Sessions : d <= today => TriggersOf(c, d)' = TriggersOf(c, d)
    PROVE  Assembled(l)'
  <1>1. /\ l.session \in Sessions /\ l.company \in Company /\ l.known \subseteq Training!Public
        /\ \A s \in Sessions : s < l.session => s <= today
    BY DEF Assembled
  <1>2. \A e \in l.known : Opens(e)' = Opens(e)
    BY <1>1 DEF Opens, Training!NextIn, Training!Never
  <1>3. Training!Prior(l.company, l.session, HindSession)'
          = Training!Prior(l.company, l.session, HindSession)
    BY <1>1, PriorStays
  <1>4. \A s \in Sessions : s < l.session => s <= today'
    BY <1>1 DEF RowsTypes, CalendarSensible
  <1>5. Awaited(l)' = Awaited(l)
    BY <1>1, <1>2 DEF Awaited
  <1> QED
    BY <1>1, <1>2, <1>3, <1>4, <1>5 DEF Assembled

LEMMA LiveNextDay ==
    ASSUME CalendarSensible, LiveInv, NEW trading \in SUBSET Company, Training!NextDay(trading)
    PROVE  LiveInv'
  <1>1. RowsTypes /\ RowsTypes' /\ \A c \in Company : traded[c] \subseteq Sessions
    BY TypesNextDay DEF LiveInv
  <1>2. UNCHANGED <<publicOn, taken, live>> /\ today' = today + 1 /\ today \in Nat
    BY <1>1 DEF Training!NextDay, RowsTypes, CalendarSensible
  <1>3. \A c \in Company : traded'[c] \subseteq Sessions
    BY <1>1 DEF Training!NextDay, RowsTypes
  <1>4. ASSUME NEW c \in Company, NEW d \in Sessions, d <= today
        PROVE  TriggersOf(c, d)' = TriggersOf(c, d)
    <2>1. \A e \in Training!Public : Training!Built(e)' = d <=> Training!Built(e) = d
      BY <1>1, <1>4, ClosedStay
    <2> QED
      BY <1>2, <2>1 DEF TriggersOf, Training!Public
  <1>5. \A e \in Training!Public : Training!HasHistory(e)' <=> Training!HasHistory(e)
    BY <1>1, ClosedStay
  <1>6. \A l \in live : Assembled(l)'
    <2> SUFFICES ASSUME NEW l \in live
                 PROVE  Assembled(l)'
      OBVIOUS
    <2>1. Assembled(l) /\ Training!Public' = Training!Public /\ today <= today'
      BY <1>2 DEF LiveInv, Training!Public
    <2> QED
      BY <1>1, <1>2, <1>4, <1>5, <2>1, AssembledStays
  <1>7. \A e \in taken : WasRanked(e)'
    BY <1>2 DEF LiveInv, WasRanked, Opens, Training!NextIn, Training!Never
  <1> QED
    BY <1>1, <1>2, <1>3, <1>6, <1>7 DEF LiveInv, Training!Public

LEMMA LivePublish ==
    ASSUME CalendarSensible, LiveInv, NEW e \in Event, Training!Publish(e)
    PROVE  LiveInv'
  <1>1. RowsTypes /\ RowsTypes' /\ \A c \in Company : traded[c] \subseteq Sessions
    BY TypesPublish DEF LiveInv
  <1>2. /\ UNCHANGED <<today, traded, taken, live>>
        /\ Training!Public' = Training!Public \cup {e}
        /\ \A x \in Training!Public : publicOn'[x] = publicOn[x]
        /\ publicOn'[e] = today /\ e \notin Training!Public
    BY DEF Training!Publish, Training!Public
  <1>3. \A x \in Training!Public : /\ Training!HasHistory(x)' <=> Training!HasHistory(x)
                                   /\ Training!Built(x)' = Training!Built(x)
    BY <1>2 DEF Training!HasHistory, Training!Built, Training!NextIn, Training!Never
  <1>4. Training!Built(e)' = Training!Never
    <2>1. traded[CompanyOf[e]] \in SUBSET (1 .. today) /\ today \in Nat
      BY <1>1 DEF RowsTypes, CalendarSensible
    <2>2. \A x \in traded[CompanyOf[e]] : ~ (x > today)
      BY <2>1
    <2>3. Training!NextIn(traded[CompanyOf[e]], today) = Training!Never
      BY <2>2, NextIsNever
    <2> QED
      BY <1>2, <2>3 DEF Training!Built, Training!NextIn, Training!Never
  <1>5. ASSUME NEW c \in Company, NEW d \in Sessions, d <= today
        PROVE  TriggersOf(c, d)' = TriggersOf(c, d)
    <2>1. d # Training!Never
      BY DEF CalendarSensible, Training!Never
    <2> QED
      BY <1>2, <1>3, <1>4, <2>1 DEF TriggersOf
  <1>6. \A l \in live : Assembled(l)'
    <2> SUFFICES ASSUME NEW l \in live
                 PROVE  Assembled(l)'
      OBVIOUS
    <2>1. Assembled(l) /\ Training!Public \subseteq Training!Public' /\ today <= today'
      BY <1>1, <1>2 DEF LiveInv, RowsTypes, CalendarSensible
    <2> QED
      BY <1>1, <1>2, <1>3, <1>5, <2>1, AssembledStays
  <1>7. ASSUME NEW x \in taken
        PROVE  WasRanked(x)'
    <2>1. x \in Training!Public /\ WasRanked(x)
      BY DEF LiveInv
    <2>2. Opens(x)' = Opens(x)
      BY <1>2, <2>1 DEF Opens, Training!NextIn, Training!Never
    <2> QED
      BY <1>2, <2>1, <2>2 DEF WasRanked
  <1> QED
    BY <1>1, <1>2, <1>6, <1>7 DEF LiveInv

LEMMA LiveCycle ==
    ASSUME CalendarSensible, LiveInv, Training!Cycle
    PROVE  LiveInv'
  <1> DEFINE x == Training!NextIn(Sessions, today)
             some == Training!Batch(x)
             found == Training!Candidates(some, x)
  <1>1. /\ x # Training!Never /\ {l.company : l \in found} = {CompanyOf[e] : e \in some}
        /\ live' = live \cup found /\ taken' = taken \cup some
        /\ UNCHANGED <<today, publicOn, traded, asOf>>
    BY DEF Training!Cycle
  <1>2. RowsTypes /\ RowsTypes' /\ \A c \in Company : traded[c] \subseteq Sessions
    BY <1>1 DEF LiveInv, RowsTypes, Training!Public
  <1>3. some \in SUBSET Training!Public
        /\ some = {e \in Training!Public \ taken : Opens(e) = x}
    BY DEF Training!Batch, Opens
  <1>4. x \in Sessions /\ \A s \in Sessions : s < x => s <= today
    <2>1. Sessions \in SUBSET (1 .. MaxDay) /\ MaxDay \in Nat /\ today \in 1 .. MaxDay
      BY <1>2 DEF CalendarSensible, RowsTypes
    <2>2. x \in Sessions /\ \A y \in Sessions : today < y => x <= y
      BY <1>1, <2>1, NextIsLater
    <2> HIDE DEF x
    <2>3. x \in Nat /\ today \in Nat /\ \A s \in Sessions : s \in Nat
      BY <2>1, <2>2
    <2> QED
      BY <2>2, <2>3
  <1> HIDE DEF x, some, found
  <1>5. ASSUME NEW l \in found
        PROVE  /\ l.session = x /\ l.known = Training!Public /\ l.company \in Company
               /\ l.triggers = Awaited(l)
               /\ l.prior = Training!Prior(l.company, l.session, HindSession)
               /\ \A m \in found : m.company \in l.peers
    <2>1. x = Training!NextIn(Sessions, today) /\ l \in Training!Candidates(some, x)
      BY DEF x, found
    <2>2. found = Training!Candidates(some, x)
      BY DEF found
    <2>3. /\ l.session = x /\ l.known = Training!Public /\ l.company \in Company
          /\ l.triggers = Awaited(l)
          /\ l.prior = Training!Prior(l.company, l.session, HindSession)
          /\ \A m \in Training!Candidates(some, x) : m.company \in l.peers
      BY <1>1, <1>2, <1>3, <2>1, FoundIs
    <2> QED
      BY <2>2, <2>3
  <1>6. \A e \in Training!Public : Opens(e) = x => e \in taken'
    BY <1>1, <1>3
  <1>7. \A l \in found : Assembled(l)'
    <2> SUFFICES ASSUME NEW l \in found
                 PROVE  Assembled(l)'
      OBVIOUS
    <2>1. /\ \A e : /\ Opens(e)' = Opens(e) /\ (Training!HasHistory(e)' <=> Training!HasHistory(e))
          /\ Training!Public' = Training!Public /\ today' = today
      BY <1>1 DEF Opens, Training!HasHistory, Training!Public, Training!NextIn, Training!Never
    <2>2. \A c, d : TriggersOf(c, d)' = TriggersOf(c, d)
      BY <1>1 DEF TriggersOf, Training!Built, Training!HasHistory, Training!Public,
         Training!NextIn, Training!Never
    <2>3. Training!Prior(l.company, l.session, HindSession)'
            = Training!Prior(l.company, l.session, HindSession)
      BY <2>2, PriorStays
    <2>4. Awaited(l)' = Awaited(l)
      BY <2>1 DEF Awaited
    <2> QED
      BY <1>4, <1>5, <1>6, <2>1, <2>3, <2>4 DEF Assembled
  <1>8. \A l \in live : Assembled(l)'
    <2> SUFFICES ASSUME NEW l \in live
                 PROVE  Assembled(l)'
      OBVIOUS
    <2>1. /\ Assembled(l) /\ Training!Public' = Training!Public /\ today <= today'
          /\ taken \subseteq taken'
      BY <1>1, <1>2 DEF LiveInv, Training!Public, RowsTypes, CalendarSensible
    <2>2. \A e \in Training!Public : Training!HasHistory(e)' <=> Training!HasHistory(e)
      BY <1>1 DEF Training!HasHistory
    <2>3. \A c, d : TriggersOf(c, d)' = TriggersOf(c, d)
      BY <1>1 DEF TriggersOf, Training!Built, Training!HasHistory, Training!Public,
         Training!NextIn, Training!Never
    <2> QED
      BY <1>1, <1>2, <2>1, <2>2, <2>3, AssembledStays
  <1>9. ASSUME NEW e \in taken'
        PROVE  WasRanked(e)'
    <2>1. Opens(e)' = Opens(e)
      BY <1>1 DEF Opens, Training!NextIn, Training!Never
    <2>2. CASE e \in taken
      <3>1. WasRanked(e)
        BY <2>2 DEF LiveInv
      <3> QED
        BY <1>1, <2>1, <3>1 DEF WasRanked
    <2>3. CASE e \in some
      <3>1. PICK n \in found : n.company = CompanyOf[e]
        BY <1>1, <2>3
      <3>2. n.session = x /\ n.company \in n.peers /\ n \in live'
        BY <1>1, <1>5
      <3>3. Opens(e) = x
        BY <1>3, <2>3
      <3> QED
        BY <2>1, <3>1, <3>2, <3>3 DEF WasRanked
    <2> QED
      BY <1>1, <2>2, <2>3
  <1>10. taken' \subseteq Training!Public'
    BY <1>1, <1>3 DEF LiveInv, Training!Public
  <1> QED
    BY <1>1, <1>2, <1>7, <1>8, <1>9, <1>10 DEF LiveInv

LEMMA LiveUnchanged ==
    ASSUME CalendarSensible, LiveInv, UNCHANGED <<today, publicOn, traded, taken, live>>
    PROVE  LiveInv'
  <1>1. RowsTypes /\ RowsTypes' /\ Training!Public' = Training!Public /\ today <= today'
    BY DEF LiveInv, RowsTypes, Training!Public, CalendarSensible
  <1>2. /\ \A c, d : TriggersOf(c, d)' = TriggersOf(c, d)
        /\ \A e \in Training!Public : Training!HasHistory(e)' <=> Training!HasHistory(e)
    BY DEF TriggersOf, Training!Built, Training!HasHistory, Training!Public, Training!NextIn,
       Training!Never
  <1>3. \A l \in live : Assembled(l)'
    <2> SUFFICES ASSUME NEW l \in live
                 PROVE  Assembled(l)'
      OBVIOUS
    <2>1. Assembled(l)
      BY DEF LiveInv
    <2> QED
      BY <1>1, <1>2, <2>1, AssembledStays
  <1>4. \A e \in taken : WasRanked(e)'
    BY DEF LiveInv, WasRanked, Opens, Training!NextIn, Training!Never
  <1> QED
    BY <1>1, <1>3, <1>4 DEF LiveInv

\* A hindsight row of a candidate's session has the candidate's triggers and history,
\* and whoever it should have been ranked with was.
LEMMA LiveInvIsTrained ==
    ASSUME CalendarSensible, LiveInv
    PROVE  Training!LiveIsTrained
  <1>1. RowsTypes /\ \A c \in Company : traded[c] \subseteq Sessions
    BY DEF LiveInv
  <1> DEFINE joined(r) == {e \in r.triggers : Training!NextIn(Sessions, publicOn[e]) # r.session}
             ranked(s) == UNION {m.peers : m \in {n \in live : n.session = s}}
  <1> SUFFICES ASSUME NEW l \in live, NEW r \in Training!TrainingRows, r.session = l.session
               PROVE  /\ r.company = l.company =>
                           /\ l.triggers = (r.triggers \cap l.known) \ joined(r)
                           /\ l.prior = r.prior
                      /\ (r.triggers \cap l.known) \ joined(r) # {} =>
                           r.company \in ranked(l.session)
    BY DEF Training!LiveIsTrained
  <1>2. Assembled(l)
    BY DEF LiveInv
  <1>3. PICK k \in {<<CompanyOf[e], Training!Built(e)>> : e \in Training!Public} :
          k[2] # Training!Never /\ r = Training!BaseRow(k[1], k[2], HindSession)
    <2> DEFINE keys == {<<CompanyOf[e], HindSession[e]>> : e \in Training!Public}
    <2>1. keys = {<<CompanyOf[e], Training!Built(e)>> : e \in Training!Public}
      BY DEF HindSession
    <2>2. r \in {Training!BaseRow(k[1], k[2], HindSession) : k \in {k \in keys : k[2] # Training!Never}}
      BY DEF Training!TrainingRows, HindSession
    <2> HIDE DEF keys
    <2> QED
      BY <2>1, <2>2
  <1>4. PICK e0 \in Training!Public : k = <<CompanyOf[e0], Training!Built(e0)>>
    OBVIOUS
  <1> DEFINE c == CompanyOf[e0]
             s == Training!Built(e0)
  <1>5. k[1] = c /\ k[2] = s /\ s # Training!Never
    BY <1>3, <1>4
  <1>6. s \in traded[c] /\ c \in Company
    BY <1>1, <1>5, BuiltIsBar, EventCalendar
  <1> HIDE DEF c, s
  <1>7. /\ r.company = c /\ r.session = s /\ r.prior = Training!Prior(c, s, HindSession)
        /\ r.triggers = {e \in Training!Public : CompanyOf[e] = c /\ Training!Built(e) = s}
    <2>1. Training!Triggers(c, s, HindSession)
            = {e \in Training!Public : CompanyOf[e] = c /\ Training!Built(e) = s}
      BY DEF Training!Triggers, HindSession
    <2> QED
      BY <1>3, <1>5, <2>1 DEF Training!BaseRow
  <1>8. joined(r) = {e \in r.triggers : Opens(e) # s}
    BY <1>7 DEF Opens
  <1> HIDE DEF joined
  <1>9. \A e \in Training!Public : CompanyOf[e] = c /\ Opens(e) = s =>
          (Training!Built(e) = s <=> Training!HasHistory(e))
    <2> SUFFICES ASSUME NEW e \in Training!Public, CompanyOf[e] = c, Opens(e) = s
                 PROVE  Training!Built(e) = s <=> Training!HasHistory(e)
      OBVIOUS
    <2>1. Training!HasHistory(e) => Training!Built(e) = s
      BY <1>1, <1>6, BuiltOpens
    <2>2. Training!Built(e) = s => Training!HasHistory(e)
      BY <1>1, <1>5, BuiltIsBar
    <2> QED
      BY <2>1, <2>2
  <1>10. l.session = s /\ l.known \subseteq Training!Public
    BY <1>2, <1>7 DEF Assembled
  <1>11. (r.triggers \cap l.known) \ joined(r)
           = {e \in l.known : CompanyOf[e] = c /\ Training!HasHistory(e) /\ Opens(e) = s}
    BY <1>7, <1>8, <1>9, <1>10
  <1>12. r.company = l.company => l.triggers = (r.triggers \cap l.known) \ joined(r)
                                  /\ l.prior = r.prior
    BY <1>2, <1>7, <1>10, <1>11 DEF Assembled, Awaited
  <1>13. ASSUME (r.triggers \cap l.known) \ joined(r) # {}
         PROVE  r.company \in ranked(l.session)
    <2>1. PICK e \in l.known : CompanyOf[e] = c /\ Opens(e) = s
      BY <1>11, <1>13
    <2>2. e \in taken
      BY <1>2, <1>10, <2>1 DEF Assembled
    <2>3. PICK n \in live : n.session = Opens(e) /\ CompanyOf[e] \in n.peers
      BY <2>2 DEF LiveInv, WasRanked
    <2> QED
      BY <1>7, <1>10, <2>1, <2>3
  <1> QED
    BY <1>12, <1>13

\* A live candidate is the training row that hindsight has of its session: the same
\* triggers as far as they were public, save those of a session the stock was halted on,
\* the same earlier opportunities, and ranked among the same companies
\* (PitCandidateAssembler.assemble against TrainingDatasetBuilder.build).
THEOREM LiveIsTrainedCorrect == Training!Spec => []Training!LiveIsTrained
  <1> CalendarSensible
    BY RowsAssumption
  <1>1. Training!Init => LiveInv
    BY LiveInit
  <1>2. LiveInv /\ [Training!Next]_Training!vars => LiveInv'
    <2> SUFFICES ASSUME LiveInv, [Training!Next]_Training!vars
                 PROVE  LiveInv'
      OBVIOUS
    <2>1. CASE \E trading \in SUBSET Company : Training!NextDay(trading)
      BY <2>1, LiveNextDay
    <2>2. CASE \E e \in Event : Training!Publish(e)
      BY <2>2, LivePublish
    <2>3. CASE Training!Cycle
      BY <2>3, LiveCycle
    <2>4. CASE UNCHANGED Training!vars
      BY <2>4, LiveUnchanged DEF Training!vars
    <2> QED
      BY <2>1, <2>2, <2>3, <2>4 DEF Training!Next
  <1>3. LiveInv => Training!LiveIsTrained
    BY LiveInvIsTrained
  <1> QED
    BY <1>1, <1>2, <1>3, PTL DEF Training!Spec
-----------------------------------------------------------------------------
(* Screening, qualification and freeze of a generation.                    *)

\* The rows decided in the model year.
ModelRows == {r \in Row : DecidedIn[r] = ModelYear}

\* One screening at a time.
OneScreening == \A p, q \in Screener : p = q

\* A model year whose trades are not all there does not earn the same.
TotalsTell ==
    \A some, all \in SUBSET ModelRows :
        some \subseteq all /\ Generation!Total(some) = Generation!Total(all) => some = all

GenerationSensible == OneScreening /\ TotalsTell /\ PicksSensible

\* The results of a qualification are the report's, each the evaluation of some data.
Agreeing(q, r) ==
    \A i \in DOMAIN q.finalists :
        LET v == q.finalists[i].variant
            result == q.finalists[i].result
        IN  /\ result = r.results[v]
            /\ \E d : result = Generation!Evaluation(v, d)

\* Nobody replaces the report that a qualification or a freeze goes by.
GenerationInv ==
    /\ DOMAIN screening = Screener
    /\ \A p \in Screener : screening[p] # Generation!Idle => report = None
    /\ qualifying.step = "qualifying" => report # None /\ qualifying.report = report
    /\ qualification \notin {None, Torn} => report # None /\ Agreeing(qualification, report)
    /\ freezing.step = "freezing" =>
         freezing.report.failed = {} /\ Agreeing(freezing.qualification, freezing.report)
    /\ Generation!ShadowReproduces

LEMMA GenerationInit ==
    ASSUME Generation!Init
    PROVE  GenerationInv
BY DEF Generation!Init, Generation!Idle, GenerationInv, Generation!ShadowReproduces

LEMMA TradesOfYear ==
    ASSUME NEW v, NEW d, NEW y, PicksSensible,
           y \in DOMAIN Generation!Evaluation(v, d).years
    PROVE  /\ Generation!Evaluation(v, d).years[y] \subseteq Row
           /\ \A t \in Generation!Evaluation(v, d).years[y] : DecidedIn[t] = y
  <1> DEFINE rows == Generation!ScreenedRows(v, d)
             s == Generation!Split(v, rows, y)
  <1>1. Generation!Evaluation(v, d).years[y] = Generation!Trades(s)
    BY DEF Generation!Evaluation
  <1>3. s.test = {r.id : r \in {x \in rows : DecidedIn[x.id] = y}}
    BY DEF Generation!Split
  <1>4. \A r \in rows : r.id \in Row
    <2>1. \A r \in Generation!Source : r.id \in Row
      BY DEF Generation!Source
    <2>2. \A r \in Generation!Fenced(v, Generation!Source) : r.id \in Row
      <3> DEFINE fence(r) == [r EXCEPT !.exit =
                                 Generation!Max({ExitIn[h][r.id] : h \in HorizonsOf[v]})]
      <3>1. \A r \in Generation!Source : fence(r).id = r.id
        BY DEF Generation!Source
      <3>2. Generation!Fenced(v, Generation!Source) = {fence(r) : r \in Generation!Source}
        BY DEF Generation!Fenced
      <3> HIDE DEF fence
      <3> QED
        BY <2>1, <3>1, <3>2
    <2> QED
      BY <2>2 DEF Generation!ScreenedRows, Generation!Executable
  <1>5. s.train \cup s.validation \in SUBSET Row /\ s.test \in SUBSET Row
    <2> HIDE DEF rows
    <2> QED
      BY <1>4 DEF Generation!Split
  <1>2. Generation!Trades(s) \subseteq s.test
    BY <1>5 DEF PicksSensible, Generation!Trades
  <1> HIDE DEF s, rows
  <1> QED
    BY <1>1, <1>2, <1>3, <1>4

\* The freeze compares the trades of its own test year, and what the year earns.
LEMMA ReplaysYear ==
    ASSUME NEW v, NEW d, NEW e, NEW r, GenerationSensible,
           Generation!Replays(v, d, r), r.results[v] = Generation!Evaluation(v, e)
    PROVE  Generation!Trades(Generation!Split(v, Generation!FrozenRows(v, d), ModelYear))
             = r.results[v].years[ModelYear]
  <1> DEFINE rows == Generation!FrozenRows(v, d)
             s == Generation!Split(v, rows, ModelYear)
             years == r.results[v].years
             played == Generation!Trades(s)
  <1>1. /\ played = {t \in Generation!TradesOf(r.results[v]) : t \in s.test}
        /\ ModelYear \in DOMAIN years
        /\ Generation!Total(played) = Generation!Total(years[ModelYear])
    BY DEF Generation!Replays
  <1>2. Generation!TradesOf(r.results[v]) = UNION {years[y] : y \in DOMAIN years}
    BY DEF Generation!TradesOf
  <1>3. \A y \in DOMAIN years : years[y] \subseteq Row /\ \A t \in years[y] : DecidedIn[t] = y
    BY TradesOfYear DEF GenerationSensible
  <1>4. \A t \in s.test : DecidedIn[t] = ModelYear
    BY DEF Generation!Split
  <1> HIDE DEF years, played, s, rows
  <1>5. played \subseteq years[ModelYear] /\ years[ModelYear] \in SUBSET ModelRows
    BY <1>1, <1>2, <1>3, <1>4 DEF ModelRows
  <1>6. played = years[ModelYear]
    <2>1. played \in SUBSET ModelRows
      BY <1>5
    <2> QED
      BY <1>1, <1>5, <2>1 DEF GenerationSensible, TotalsTell
  <1> QED
    BY <1>6 DEF played, s, rows, years

LEMMA GenerationNext ==
    ASSUME GenerationSensible, GenerationInv, [Generation!Next]_Generation!vars
    PROVE  GenerationInv'
  <1>1. CASE UNCHANGED <<screening, report, qualifying, qualification, freezing, registry>>
    BY <1>1 DEF GenerationInv, Generation!ShadowReproduces, Agreeing
  <1>2. ASSUME NEW p \in Screener, Generation!StartScreening(p)
        PROVE  GenerationInv'
    <2>1. report = None /\ UNCHANGED <<report, qualifying, qualification, freezing, registry>>
      BY <1>2 DEF Generation!StartScreening, Generation!Unreported
    <2>2. DOMAIN screening' = Screener
      BY <1>2 DEF Generation!StartScreening, GenerationInv
    <2> QED
      BY <2>1, <2>2 DEF GenerationInv, Generation!ShadowReproduces
  <1>3. ASSUME NEW p \in Screener, NEW v \in Variant, Generation!Screen(p, v)
        PROVE  GenerationInv'
    <2>1. screening[p].step = "screening"
          /\ UNCHANGED <<report, qualifying, qualification, freezing, registry>>
      BY <1>3 DEF Generation!Screen
    <2>2. report = None
      BY <2>1 DEF GenerationInv, Generation!Idle
    <2>3. DOMAIN screening' = Screener
      BY <1>3 DEF Generation!Screen, GenerationInv
    <2> QED
      BY <2>1, <2>2, <2>3 DEF GenerationInv, Generation!ShadowReproduces
  <1>4. ASSUME NEW p \in Screener, Generation!WriteReport(p)
        PROVE  GenerationInv'
    <2>1. /\ screening[p].step = "screening"
          /\ screening' = [screening EXCEPT ![p] = Generation!Idle]
          /\ UNCHANGED <<qualifying, qualification, freezing, registry>>
      BY <1>4 DEF Generation!WriteReport
    <2>2. report = None
      BY <2>1 DEF GenerationInv, Generation!Idle
    <2>3. DOMAIN screening' = Screener /\ \A q \in Screener : screening'[q] = Generation!Idle
      BY <2>1 DEF GenerationInv, GenerationSensible, OneScreening
    <2> QED
      BY <2>1, <2>2, <2>3 DEF GenerationInv, Generation!ShadowReproduces
  <1>5. CASE Generation!StartQualification
    <2>1. /\ report # None
          /\ qualifying' = [step |-> "qualifying", data |-> data, report |-> report]
          /\ UNCHANGED <<screening, report, qualification, freezing, registry>>
      BY <1>5 DEF Generation!StartQualification
    <2> QED
      BY <2>1 DEF GenerationInv, Generation!ShadowReproduces
  <1>6. CASE Generation!Qualify
    <2>1. /\ qualifying.step = "qualifying" /\ qualifying' = Generation!Idle
          /\ report # None /\ qualifying.report = report
          /\ UNCHANGED <<screening, report, freezing, registry>>
      BY <1>6 DEF Generation!Qualify, GenerationInv
    <2>2. CASE qualification' = qualification
      BY <2>1, <2>2 DEF GenerationInv, Generation!ShadowReproduces, Generation!Idle
    <2>3. CASE Generation!Reproduced(qualifying) /\ qualification = None
      <3> DEFINE f == report.finalists
                 d == qualifying.data
      <3>1. qualification'.finalists =
              [i \in DOMAIN f |-> [variant |-> f[i], result |-> Generation!Evaluation(f[i], d)]]
        BY <1>6, <2>1, <2>3 DEF Generation!Qualify
      <3>2. \A i \in DOMAIN f : Generation!Evaluation(f[i], d) = report.results[f[i]]
        BY <2>1, <2>3 DEF Generation!Reproduced
      <3> HIDE DEF f, d
      <3>3. \A i \in DOMAIN f : /\ qualification'.finalists[i].variant = f[i]
                                /\ qualification'.finalists[i].result =
                                       Generation!Evaluation(f[i], d)
        BY <3>1
      <3>4. DOMAIN qualification'.finalists = DOMAIN f
        BY <3>1
      <3>5. Agreeing(qualification', report)
        BY <3>2, <3>3, <3>4 DEF Agreeing
      <3>6. Agreeing(qualification, report)'
        BY <2>1, <3>5 DEF Agreeing
      <3> QED
        BY <2>1, <3>6 DEF GenerationInv, Generation!ShadowReproduces, Generation!Idle
    <2> QED
      BY <1>6, <2>2, <2>3 DEF Generation!Qualify
  <1>7. CASE Generation!StartFreeze
    <2>1. /\ report.failed = {} /\ qualification \notin {None, Torn}
          /\ freezing' = [step |-> "freezing", data |-> data, report |-> report,
                          qualification |-> qualification]
          /\ UNCHANGED <<screening, report, qualifying, qualification, registry>>
      BY <1>7 DEF Generation!StartFreeze
    <2>2. Agreeing(qualification, report)
      BY <2>1 DEF GenerationInv
    <2>3. freezing'.qualification = qualification /\ freezing'.report = report
      BY <2>1
    <2>4. Agreeing(freezing.qualification, freezing.report)'
      BY <2>2, <2>3 DEF Agreeing
    <2> QED
      BY <2>1, <2>2, <2>3, <2>4 DEF GenerationInv, Generation!ShadowReproduces, Agreeing
  <1>8. CASE Generation!Freeze
    <2> DEFINE f == freezing
               cohort == {f.qualification.finalists[i] : i \in Generation!Selected(f.qualification)}
               made(g) == [variant |-> g.variant, scorecard |-> g.result,
                           trained |-> Generation!Split(g.variant,
                                           Generation!FrozenRows(g.variant, f.data), ModelYear),
                           report |-> f.report]
    <2>1. /\ f.step = "freezing" /\ freezing' = Generation!Idle
          /\ UNCHANGED <<screening, report, qualifying, qualification>>
      BY <1>8 DEF Generation!Freeze
    <2>2. /\ \A g \in registry' : g \in registry \/ \E c \in cohort : g = made(c)
          /\ registry' # registry =>
                 \A g \in cohort : Generation!Replays(g.variant, f.data, f.report)
      BY <1>8 DEF Generation!Freeze
    <2>3. f.report.failed = {} /\ Agreeing(f.qualification, f.report)
      BY <2>1 DEF GenerationInv
    <2>4. ASSUME NEW c \in cohort, Generation!Replays(c.variant, f.data, f.report)
          PROVE  /\ made(c).report.failed = {}
                 /\ made(c).scorecard = made(c).report.results[made(c).variant]
                 /\ Generation!Trades(made(c).trained) = made(c).scorecard.years[ModelYear]
      <3>1. PICK i \in DOMAIN f.qualification.finalists : c = f.qualification.finalists[i]
        BY DEF Generation!Selected
      <3>2. c.result = f.report.results[c.variant]
            /\ \E d : c.result = Generation!Evaluation(c.variant, d)
        BY <2>3, <3>1 DEF Agreeing
      <3>3. Generation!Trades(Generation!Split(c.variant,
                Generation!FrozenRows(c.variant, f.data), ModelYear)) = c.result.years[ModelYear]
        <4>1. PICK d : c.result = Generation!Evaluation(c.variant, d)
          BY <3>2
        <4>2. f.report.results[c.variant] = Generation!Evaluation(c.variant, d)
          BY <3>2, <4>1
        <4> HIDE DEF f
        <4>3. Generation!Trades(Generation!Split(c.variant,
                  Generation!FrozenRows(c.variant, f.data), ModelYear))
                = f.report.results[c.variant].years[ModelYear]
          BY <2>4, <4>2, ReplaysYear
        <4> QED
          BY <3>2, <4>3
      <3>4. /\ made(c).report = f.report /\ made(c).scorecard = c.result
            /\ made(c).variant = c.variant
            /\ made(c).trained = Generation!Split(c.variant,
                                     Generation!FrozenRows(c.variant, f.data), ModelYear)
        OBVIOUS
      <3> HIDE DEF made, f
      <3> QED
        BY <2>3, <3>2, <3>3, <3>4
    <2>5. Generation!ShadowReproduces'
      <3>1. Generation!ShadowReproduces
        BY DEF GenerationInv
      <3> HIDE DEF made, cohort, f
      <3>2. CASE registry' = registry
        BY <3>1, <3>2 DEF Generation!ShadowReproduces
      <3>3. CASE registry' # registry
        BY <2>2, <2>4, <3>1, <3>3 DEF Generation!ShadowReproduces
      <3> QED
        BY <3>2, <3>3
    <2> QED
      BY <2>1, <2>5 DEF GenerationInv, Agreeing, Generation!Idle
  <1>9. CASE Generation!Die
    <2>1. ASSUME NEW p \in Screener, screening[p] # Generation!Idle,
                 screening' = [screening EXCEPT ![p] = Generation!Idle],
                 UNCHANGED <<qualifying, qualification, freezing, registry>>
          PROVE  GenerationInv'
      <3>1. report = None
        BY <2>1 DEF GenerationInv
      <3>2. DOMAIN screening' = Screener /\ \A q \in Screener : screening'[q] = Generation!Idle
        BY <2>1 DEF GenerationInv, GenerationSensible, OneScreening
      <3> QED
        BY <2>1, <3>1, <3>2 DEF GenerationInv, Generation!ShadowReproduces
    <2>2. CASE /\ qualifying' = Generation!Idle /\ qualification' \in {qualification, Torn}
               /\ UNCHANGED <<screening, report, freezing, registry>>
      BY <2>2 DEF GenerationInv, Generation!ShadowReproduces, Agreeing, Generation!Idle
    <2>3. CASE /\ freezing' = Generation!Idle
               /\ UNCHANGED <<screening, report, qualifying, qualification, registry>>
      BY <2>3 DEF GenerationInv, Generation!ShadowReproduces, Agreeing, Generation!Idle
    <2>4. registry' = registry
      BY <1>9 DEF Generation!Die
    <2> QED
      BY <1>9, <2>1, <2>2, <2>3, <2>4 DEF Generation!Die
  <1> QED
    BY <1>1, <1>2, <1>3, <1>4, <1>5, <1>6, <1>7, <1>8, <1>9
    DEF Generation!Next, Generation!vars, Generation!Edit, Generation!commands

\* A registered challenger's evidence is of one piece: its scorecard is the one it was
\* screened with, in a generation without failures, and the frozen model trades the model
\* year of that scorecard, whatever was edited between the three commands and wherever
\* one of them died (_assert_screening_identity, _freeze_one).
THEOREM ShadowReproducesCorrect ==
    ASSUME OneScreening, TotalsTell
    PROVE  Generation!Spec => []Generation!ShadowReproduces
  <1> GenerationSensible
    BY PicksAssumption DEF GenerationSensible
  <1>1. Generation!Init => GenerationInv
    BY GenerationInit
  <1>2. GenerationInv /\ [Generation!Next]_Generation!vars => GenerationInv'
    BY GenerationNext
  <1>3. GenerationInv => Generation!ShadowReproduces
    BY DEF GenerationInv
  <1> QED
    BY <1>1, <1>2, <1>3, PTL DEF Generation!Spec

\* The fence changes a row's exit only, the execution filters look at everything else.
LEMMA FilterAndFence ==
    ASSUME NEW v, NEW d
    PROVE  Generation!FrozenRows(v, d) = Generation!ScreenedRows(v, d)
  <1> DEFINE fence(r) == [r EXCEPT !.exit = Generation!Max({ExitIn[h][r.id] : h \in HorizonsOf[v]})]
             runs(r) == /\ \A h \in HorizonsOf[v] : <<r.id, h>> \notin d.excluded
                        /\ r.id \notin d.thin
             source == Generation!Source
  <1>1. \A r \in source : fence(r).id = r.id
    BY DEF Generation!Source
  <1>2. \A r \in source : runs(fence(r)) <=> runs(r)
    <2> HIDE DEF fence, source
    <2> QED
      BY <1>1
  <1>3. /\ Generation!FrozenRows(v, d) = {fence(r) : r \in {x \in source : runs(x)}}
        /\ Generation!ScreenedRows(v, d) = {r \in {fence(x) : x \in source} : runs(r)}
    BY DEF Generation!FrozenRows, Generation!ScreenedRows, Generation!Fenced, Generation!Executable
  <1> HIDE DEF fence, runs, source
  <1> QED
    BY <1>2, <1>3

\* The rows the freeze trains and tests a variant on are those the screening of the same
\* data does, for all data and horizons, although the freeze filters before it puts the
\* fence and the screening after (_freeze_one, _prepare_maturity_safe).
THEOREM FreezeTrainsCorrect == Generation!Spec => []Generation!FreezeTrainsLikeScreening
  <1>1. Generation!FreezeTrainsLikeScreening
    BY FilterAndFence DEF Generation!FreezeTrainsLikeScreening
  <1> QED
    BY <1>1, PTL

-----------------------------------------------------------------------------
(* The backtesters.                                                        *)

\* What the theorem says, with what is replayed and decided on.
BooksAgree ==
    /\ plan \in Plans
    /\ \A w \in Replay!Twin : world[w] \in Worlds
    /\ day \in Int
    /\ DOMAIN book = Replay!Twin
    /\ Replay!DecisionsIgnoreFuture

\* What two worlds have shown alike on a day, they have on the day before.
LEMMA PastIsShared ==
    ASSUME TimesSensible, BooksAgree, NEW d \in Int, Replay!SamePast(d + 1)
    PROVE  Replay!SamePast(d)
  <1>1. ASSUME NEW c \in Trade
        PROVE  /\ Replay!Leaves(c) <= d => world[1].returns[c] = world[2].returns[c]
               /\ EntryDay[c] <= d => world[1].depth[c] = world[2].depth[c]
    <2>1. Replay!Leaves(c) \in Int /\ EntryDay[c] \in Int
      BY DEF TimesSensible, BooksAgree, Replay!Leaves
    <2>2. /\ Replay!Leaves(c) <= d + 1 => world[1].returns[c] = world[2].returns[c]
          /\ EntryDay[c] <= d + 1 => world[1].depth[c] = world[2].depth[c]
      BY DEF Replay!SamePast
    <2> QED
      BY <2>1, <2>2
  <1>2. world[1].link \in Int /\ world[2].link \in Int
    BY DEF TimesSensible, BooksAgree, Replay!Twin
  <1>3. \/ world[1].link = world[2].link
        \/ world[1].link >= d + 1 /\ world[2].link >= d + 1
    BY DEF Replay!SamePast
  <1>4. \/ world[1].link = world[2].link
        \/ world[1].link >= d /\ world[2].link >= d
    BY <1>2, <1>3
  <1> QED
    BY <1>1, <1>4 DEF Replay!SamePast

\* What a day reads of a world is what both have shown by then: the returns of the
\* positions due, the depth of the day's candidates, the links of earlier bars.
LEMMA DayReadsPast ==
    ASSUME TimesSensible, BooksAgree, NEW d \in Int, Replay!SamePast(d), NEW k
    PROVE  /\ Replay!Earned(k, d, 1) = Replay!Earned(k, d, 2)
           /\ Replay!Unfillable(k, d, 1) = Replay!Unfillable(k, d, 2)
           /\ Replay!Linked(d, 1) = Replay!Linked(d, 2)
  <1>1. \A c \in {x \in Trade : Replay!Leaves(x) <= d} :
            world[1].returns[c] = world[2].returns[c]
    BY DEF Replay!SamePast
  <1>2. \A c \in Replay!Entries(d) : world[1].depth[c] = world[2].depth[c]
    BY DEF TimesSensible, Replay!SamePast, Replay!Entries
  <1>3. world[1].link \in Int /\ world[2].link \in Int
    BY DEF TimesSensible, BooksAgree, Replay!Twin
  <1>4. (world[1].link < d) = (world[2].link < d)
    BY <1>3 DEF Replay!SamePast
  <1>5. Replay!Earned(k, d, 1) = Replay!Earned(k, d, 2)
    BY <1>1 DEF Replay!Earned
  <1>6. Replay!Unfillable(k, d, 1) = Replay!Unfillable(k, d, 2)
    BY <1>2 DEF Replay!Unfillable
  <1>7. Replay!Linked(d, 1) = Replay!Linked(d, 2)
    BY <1>4 DEF Replay!Linked
  <1> QED
    BY <1>5, <1>6, <1>7

\* So every backtester makes the same of the same book in both worlds.
LEMMA PlayedAlike ==
    ASSUME TimesSensible, BooksAgree, NEW d \in Int, Replay!SamePast(d), NEW k,
           NEW b \in Replay!Backtesters
    PROVE  Replay!Played(b, k, d, 1) = Replay!Played(b, k, d, 2)
  <1> DEFINE closed == Replay!CloseDue(k, Replay!Earned(k, d, 1))
  <1>1. Replay!CloseDue(k, Replay!Earned(k, d, 2)) = closed
    BY DayReadsPast
  <1>2. /\ Replay!Unfillable(closed, d, 1) = Replay!Unfillable(closed, d, 2)
        /\ Replay!Linked(d, 1) = Replay!Linked(d, 2)
    BY DayReadsPast
  <1> HIDE DEF closed
  <1>3. Replay!Entered(b, closed, d, Replay!Linked(d, 1), Replay!Unfillable(closed, d, 1))
          = Replay!Entered(b, closed, d, Replay!Linked(d, 2), Replay!Unfillable(closed, d, 2))
    BY <1>2
  <1> QED
    BY <1>1, <1>3 DEF Replay!Played, closed

\* One day more, from equal books.
LEMMA ReplayNext ==
    ASSUME TimesSensible, BooksAgree, Replay!Next
    PROVE  BooksAgree'
  <1>1. /\ day' = day + 1 /\ day \in Int /\ plan' = plan /\ world' = world
        /\ plan \in Plans /\ \A w \in Replay!Twin : world[w] \in Worlds
    BY DEF BooksAgree, Replay!Next
  <1>2. book' = [w \in Replay!Twin |->
                    [b \in Replay!Backtesters |-> Replay!Played(b, book[w][b], day + 1, w)]]
    BY DEF Replay!Next
  <1>3. ASSUME Replay!SamePast(day)'
        PROVE  book'[1] = book'[2]
    <2>1. Replay!SamePast(day + 1)
      BY <1>1, <1>3 DEF Replay!SamePast, Replay!Leaves
    <2>2. book[1] = book[2]
      BY <1>1, <2>1, PastIsShared DEF BooksAgree, Replay!DecisionsIgnoreFuture
    <2>3. \A b \in Replay!Backtesters :
              Replay!Played(b, book[1][b], day + 1, 1) = Replay!Played(b, book[1][b], day + 1, 2)
      BY <1>1, <2>1, PlayedAlike
    <2> QED
      BY <1>2, <2>2, <2>3 DEF Replay!Twin
  <1> QED
    BY <1>1, <1>2, <1>3 DEF BooksAgree, Replay!DecisionsIgnoreFuture

\* "The strategy sees only PIT FeatureSnapshot values and current portfolio state"
\* (research/historical.py): in two markets that are alike in what they have shown
\* by a day, no backtester has other cash, positions or closed trades on that day,
\* for any plan, returns, liquidity, links and limits.
THEOREM DecisionsIgnoreFutureCorrect == Replay!Spec => []Replay!DecisionsIgnoreFuture
  <1> TimesSensible
    BY BacktestAssumption
  <1>1. Replay!Init => BooksAgree
    BY DEF Replay!Init, BooksAgree, Replay!DecisionsIgnoreFuture, Replay!Twin
  <1>2. BooksAgree /\ [Replay!Next]_Replay!vars => BooksAgree'
    <2> SUFFICES ASSUME BooksAgree, [Replay!Next]_Replay!vars
                 PROVE  BooksAgree'
      OBVIOUS
    <2>1. CASE Replay!Next
      BY <2>1, ReplayNext
    <2>2. CASE UNCHANGED Replay!vars
      BY <2>2 DEF Replay!vars, BooksAgree, Replay!DecisionsIgnoreFuture, Replay!SamePast,
                  Replay!Leaves
    <2> QED
      BY <2>1, <2>2
  <1>3. BooksAgree => Replay!DecisionsIgnoreFuture
    BY DEF BooksAgree
  <1> QED
    BY <1>1, <1>2, <1>3, PTL DEF Replay!Spec

-----------------------------------------------------------------------------
(* The arena.                                                              *)

Judged == Arena!TypeOK /\ Arena!WeakOnesIgnored

\* The strategies that clear the survival gate.
Clearing(seen, confidence) == {s \in DOMAIN seen : Arena!Eligible(seen[s], confidence)}

\* The lifecycles a decision gives, and the shares.
LifecyclesAfter(previous, seen, confidence) ==
    [s \in DOMAIN seen |->
        Arena!NextLifecycle(previous[s], seen[s], s \in Clearing(seen, confidence))]

Activated(previous, seen, confidence) ==
    {s \in Clearing(seen, confidence) : LifecyclesAfter(previous, seen, confidence)[s] = "active"}

FitnessOf(seen, pool) == [s \in pool |-> Arena!Fitness(s, pool, seen)]

Shares(active, fitness, pool) ==
    LET chosen == Arena!Fittest(active, fitness) IN
    Arena!Weights(chosen, [s \in chosen |-> Arena!Max({5 * Arena!Scale(pool), fitness[s]})])

LEMMA DecisionParts ==
    ASSUME NEW previous, NEW seen, NEW confidence
    PROVE  /\ Arena!Decided(previous, seen, confidence).lifecycle
                = LifecyclesAfter(previous, seen, confidence)
           /\ Arena!Decided(previous, seen, confidence).weight
                = Shares(Activated(previous, seen, confidence),
                         FitnessOf(seen, Clearing(seen, confidence)), Clearing(seen, confidence))
  BY DEF Arena!Decided, LifecyclesAfter, Shares, Activated, FitnessOf, Clearing

\* Fitness is of the pool: what is observed of others does not count.
LEMMA FitnessOfPool ==
    ASSUME NEW seen, NEW other, NEW pool, \A s \in pool : seen[s] = other[s]
    PROVE  FitnessOf(seen, pool) = FitnessOf(other, pool)
  <1>1. ASSUME NEW s \in pool, NEW metric
        PROVE  Arena!PercentileRank(s, pool, metric, seen) = Arena!PercentileRank(s, pool, metric, other)
    <2>1. {t \in pool : \/ seen[t][metric] < seen[s][metric]
                        \/ seen[t][metric] = seen[s][metric] /\ t < s}
            = {t \in pool : \/ other[t][metric] < other[s][metric]
                            \/ other[t][metric] = other[s][metric] /\ t < s}
      OBVIOUS
    <2> QED
      BY <2>1 DEF Arena!PercentileRank
  <1>2. \A s \in pool : Arena!Fitness(s, pool, seen) = Arena!Fitness(s, pool, other)
    BY <1>1 DEF Arena!Fitness
  <1> QED
    BY <1>2 DEF FitnessOf

\* A strategy that clears the gate is active unless it was an experiment or is retired.
LEMMA ClearedBecomes ==
    ASSUME ContestsSensible, NEW o, o.trades \in Int, NEW confidence,
           Arena!Eligible(o, confidence), NEW previous
    PROVE  Arena!NextLifecycle(previous, o, TRUE)
             = IF previous = "retired" THEN "retired"
               ELSE IF previous = "experimental" THEN "shadow" ELSE "active"
  <1>1. ~o.invalid /\ ~(o.trades < MinShadow)
    BY DEF Arena!Eligible, ContestsSensible
  <1> QED
    BY <1>1 DEF Arena!NextLifecycle

LEMMA NextIsLifecycle ==
    ASSUME NEW previous, NEW o, NEW eligible
    PROVE  Arena!NextLifecycle(previous, o, eligible) \in Arena!Lifecycles
  BY DEF Arena!NextLifecycle, Arena!Lifecycles

LEMMA EvaluateJudges ==
    ASSUME ContestsSensible, Judged, NEW seen \in Evidence, NEW confidence \in Confidence,
           Arena!Evaluate(seen, confidence)
    PROVE  Judged'
  <1> DEFINE pool == Clearing(seen, confidence)
             next == LifecyclesAfter(lifecycle, seen, confidence)
             previous == [s \in pool |-> IF next[s] = "shadow" THEN "experimental" ELSE next[s]]
             shown == [s \in pool |-> seen[s]]
  <1>1. /\ DOMAIN seen = Strategy /\ \A s \in Strategy : seen[s].trades \in Int
        /\ lifecycle \in [Strategy -> Arena!Lifecycles]
    BY DEF ContestsSensible, Judged, Arena!TypeOK
  <1>2. /\ lifecycle' = next /\ observation' = seen /\ market' = confidence
        /\ weight' = Shares(Activated(lifecycle, seen, confidence), FitnessOf(seen, pool), pool)
    BY DecisionParts DEF Arena!Evaluate
  <1>3. Clearing(shown, confidence) = pool
    BY DEF Clearing
  <1>4. \A s \in pool : s \in Strategy /\ Arena!Eligible(seen[s], confidence)
    BY <1>1 DEF Clearing
  <1>5. ASSUME NEW s \in pool
        PROVE  (LifecyclesAfter(previous, shown, confidence)[s] = "active")
                 <=> (next[s] = "active")
    <2>1. /\ next[s] = Arena!NextLifecycle(lifecycle[s], seen[s], TRUE)
          /\ LifecyclesAfter(previous, shown, confidence)[s]
               = Arena!NextLifecycle(previous[s], seen[s], TRUE)
      BY <1>1, <1>3, <1>4 DEF LifecyclesAfter
    <2>2. /\ next[s] = IF lifecycle[s] = "retired" THEN "retired"
                       ELSE IF lifecycle[s] = "experimental" THEN "shadow" ELSE "active"
          /\ LifecyclesAfter(previous, shown, confidence)[s]
               = IF previous[s] = "retired" THEN "retired"
                 ELSE IF previous[s] = "experimental" THEN "shadow" ELSE "active"
      <3>1. seen[s].trades \in Int /\ Arena!Eligible(seen[s], confidence)
        BY <1>1, <1>4
      <3> HIDE DEF previous, next
      <3> QED
        BY <2>1, <3>1, ClearedBecomes
    <2>3. previous[s] = IF next[s] = "shadow" THEN "experimental" ELSE next[s]
      OBVIOUS
    <2> HIDE DEF previous, next
    <2> QED
      BY <2>2, <2>3
  <1>6. Activated(previous, shown, confidence) = Activated(lifecycle, seen, confidence)
    BY <1>3, <1>5 DEF Activated
  <1>7. FitnessOf(shown, pool) = FitnessOf(seen, pool)
    BY FitnessOfPool
  <1>8. weight' = Arena!Decided(previous, shown, confidence).weight
    BY <1>2, <1>3, <1>6, <1>7, DecisionParts
  <1>9. Arena!WeakOnesIgnored'
    <2>1. {s \in Strategy : Arena!Eligible(seen[s], confidence)} = pool
      BY <1>1 DEF Clearing
    <2> QED
      BY <1>2, <1>8, <2>1 DEF Arena!WeakOnesIgnored
  <1>10. Arena!TypeOK'
    <2>1. lifecycle' \in [Strategy -> Arena!Lifecycles]
      BY <1>1, <1>2, NextIsLifecycle DEF LifecyclesAfter
    <2>2. DOMAIN weight' \subseteq Strategy
      BY <1>1, <1>2 DEF Shares, Arena!Weights, Arena!Fittest, Activated, Clearing
    <2> QED
      BY <1>2, <2>1, <2>2 DEF Arena!TypeOK
  <1> QED
    BY <1>9, <1>10 DEF Judged

LEMMA JudgedCorrect ==
    ASSUME ContestsSensible
    PROVE  Arena!Spec => []Judged
  <1>1. Arena!Init => Judged
    BY DEF Arena!Init, Judged, Arena!TypeOK, Arena!WeakOnesIgnored, Arena!NoWeights,
           Arena!Lifecycles
  <1>2. Judged /\ [Arena!Next]_Arena!vars => Judged'
    <2> SUFFICES ASSUME Judged, [Arena!Next]_Arena!vars
                 PROVE  Judged'
      OBVIOUS
    <2>1. CASE Arena!Next
      BY <2>1, EvaluateJudges DEF Arena!Next
    <2>2. CASE UNCHANGED Arena!vars
      BY <2>2 DEF Arena!vars, Judged, Arena!TypeOK, Arena!WeakOnesIgnored
    <2> QED
      BY <2>1, <2>2
  <1> QED
    BY <1>1, <1>2, PTL DEF Arena!Spec

\* "Adding hundreds of weak experiments must not change active allocations"
\* (strategy_arena.py): for any number of strategies and whatever is observed of them, a
\* decision shares the capital as one that is shown only those that clear the gate.
THEOREM WeakOnesIgnoredCorrect == Arena!Spec => []Arena!WeakOnesIgnored
  <1> ContestsSensible
    BY ArenaAssumption
  <1>1. Judged => Arena!WeakOnesIgnored
    BY DEF Judged
  <1> QED
    BY <1>1, JudgedCorrect, PTL

LEMMA SameArenaCardinality ==
    ASSUME NEW S
    PROVE  Arena!Cardinality(S) = Cardinality(S)
BY DEF Arena!Cardinality, Cardinality, Arena!IsFiniteSet, IsFiniteSet

\* At most so many are the fittest: all of them but the least fit one are fitter than it.
LEMMA FewAreFittest ==
    ASSUME MaxActive \in Nat, NEW active, IsFiniteSet(active), active \subseteq Int,
           NEW fitness, \A s \in active : fitness[s] \in Int
    PROVE  Cardinality(Arena!Fittest(active, fitness)) <= MaxActive
  <1> DEFINE better(s) == {t \in active : \/ fitness[t] > fitness[s]
                                          \/ fitness[t] = fitness[s] /\ t < s}
             fittest == {s \in active : Cardinality(better(s)) < MaxActive}
             places == {Cardinality(better(s)) : s \in fittest}
  <1>1. Arena!Fittest(active, fitness) = fittest
    BY SameArenaCardinality DEF Arena!Fittest
  <1>2. \A s \in active : IsFiniteSet(better(s)) /\ Cardinality(better(s)) \in Nat
    BY FS_Subset, FS_CardinalityType
  <1>3. CASE fittest = {}
    <2>1. Cardinality(fittest) = 0
      BY <1>3, FS_EmptySet
    <2> HIDE DEF fittest
    <2> QED
      BY <1>1, <2>1
  <1>4. CASE fittest # {}
    <2>1. places \subseteq 0 .. MaxActive /\ places # {}
      <3>1. ASSUME NEW s \in fittest
            PROVE  Cardinality(better(s)) \in 0 .. MaxActive
        <4>1. s \in active /\ Cardinality(better(s)) < MaxActive
          OBVIOUS
        <4>2. Cardinality(better(s)) \in Nat
          BY <1>2, <4>1
        <4> DEFINE place == Cardinality(better(s))
        <4> HIDE DEF place
        <4>3. place \in 0 .. MaxActive
          BY <4>1, <4>2 DEF place
        <4> QED
          BY <4>3 DEF place
      <3> HIDE DEF better, fittest
      <3> QED
        BY <1>4, <3>1
    <2>2. PICK w \in fittest : \A s \in fittest : Cardinality(better(s)) <= Cardinality(better(w))
      <3>1. Training!Latest(places) \in places /\ \A x \in places : x <= Training!Latest(places)
        <4> HIDE DEF places
        <4> QED
          BY <2>1, GreatestDay
      <3> HIDE DEF better, fittest
      <3> QED
        BY <3>1
    <2>3. ASSUME NEW s \in fittest, s # w
          PROVE  s \in better(w)
      <3>1. s \in active /\ w \in active /\ s \in Int /\ w \in Int
            /\ fitness[s] \in Int /\ fitness[w] \in Int
        OBVIOUS
      <3>2. SUFFICES ASSUME s \notin better(w)
                     PROVE  FALSE
        OBVIOUS
      <3>3. w \in better(s) /\ w \notin better(w)
        BY <2>3, <3>1, <3>2
      <3>4. better(w) \subseteq better(s)
        <4>1. ASSUME NEW t \in better(w)
              PROVE  t \in better(s)
          <5>1. /\ t \in active /\ t \in Int /\ fitness[t] \in Int
                /\ fitness[t] > fitness[w] \/ (fitness[t] = fitness[w] /\ t < w)
                /\ fitness[w] > fitness[s] \/ (fitness[w] = fitness[s] /\ w < s)
            BY <3>3, <4>1
          <5> QED
            BY <3>1, <5>1
        <4> QED
          BY <4>1
      <3>5. /\ IsFiniteSet(better(w)) /\ Cardinality(better(w)) \in Nat
            /\ IsFiniteSet(better(s)) /\ Cardinality(better(s)) \in Nat
        BY <1>2, <3>1
      <3> HIDE DEF better, fittest
      <3>6. Cardinality(better(w) \cup {w}) = Cardinality(better(w)) + 1
        BY <3>3, <3>5, FS_AddElement
      <3>7. Cardinality(better(w) \cup {w}) <= Cardinality(better(s))
        BY <3>3, <3>4, <3>5, FS_Subset
      <3>8. Cardinality(better(s)) <= Cardinality(better(w))
        BY <2>2, <2>3
      <3> QED
        BY <3>5, <3>6, <3>7, <3>8
    <2>4. w \in active /\ Cardinality(better(w)) < MaxActive
      OBVIOUS
    <2>5. IsFiniteSet(better(w)) /\ Cardinality(better(w)) \in Nat
      BY <1>2, <2>4
    <2>6. fittest \subseteq better(w) \cup {w}
      BY <2>3
    <2> HIDE DEF better, fittest
    <2> DEFINE more == better(w) \cup {w}
    <2>7. /\ IsFiniteSet(more)
          /\ Cardinality(more) \in {Cardinality(better(w)), Cardinality(better(w)) + 1}
      BY <2>5, FS_AddElement
    <2>8. Cardinality(fittest) <= Cardinality(more)
      BY <2>6, <2>7, FS_Subset
    <2>9. /\ Cardinality(fittest) \in Nat /\ Cardinality(more) \in Nat
      BY <2>6, <2>7, FS_Subset, FS_CardinalityType
    <2> HIDE DEF more
    <2> QED
      BY <1>1, <2>4, <2>5, <2>7, <2>8, <2>9
  <1> QED
    BY <1>3, <1>4

LEMMA FitnessIsNumber ==
    ASSUME NEW pool, IsFiniteSet(pool), NEW seen
    PROVE  \A s \in pool : FitnessOf(seen, pool)[s] \in Int
  <1>1. ASSUME NEW s \in pool, NEW metric
        PROVE  Arena!PercentileRank(s, pool, metric, seen) \in Int
    <2> DEFINE below == {t \in pool : \/ seen[t][metric] < seen[s][metric]
                                      \/ seen[t][metric] = seen[s][metric] /\ t < s}
    <2>1. below \subseteq pool
      OBVIOUS
    <2> HIDE DEF below
    <2>2. Cardinality(below) \in Int
      BY <2>1, FS_Subset, FS_CardinalityType
    <2> QED
      BY <2>2, SameArenaCardinality DEF Arena!PercentileRank, below
  <1>2. ASSUME NEW s \in pool
        PROVE  Arena!Fitness(s, pool, seen) \in Int
    <2>1. /\ Arena!PercentileRank(s, pool, "expectancy", seen) \in Int
          /\ Arena!PercentileRank(s, pool, "recent", seen) \in Int
          /\ Arena!PercentileRank(s, pool, "factor", seen) \in Int
          /\ Arena!PercentileRank(s, pool, "safety", seen) \in Int
          /\ Arena!PercentileRank(s, pool, "regime", seen) \in Int
          /\ Arena!PercentileRank(s, pool, "stability", seen) \in Int
      BY <1>1
    <2> QED
      BY <2>1 DEF Arena!Fitness, Arena!Share
  <1> QED
    BY <1>2 DEF FitnessOf

\* The first part of SharesFair: only active strategies have a share, and never more of
\* them than max_active_strategies, however many tie.
FewShare ==
    /\ \A s \in DOMAIN weight : lifecycle[s] = "active"
    /\ Cardinality(DOMAIN weight) <= MaxActive

LEMMA EvaluateSharesFew ==
    ASSUME ContestsSensible, StrategiesOrdered, NEW seen \in Evidence, NEW confidence,
           Arena!Evaluate(seen, confidence)
    PROVE  FewShare'
  <1> DEFINE pool == Clearing(seen, confidence)
             active == Activated(lifecycle, seen, confidence)
             fitness == FitnessOf(seen, pool)
  <1>1. /\ lifecycle' = LifecyclesAfter(lifecycle, seen, confidence)
        /\ weight' = Shares(active, fitness, pool)
    BY DecisionParts DEF Arena!Evaluate
  <1>2. DOMAIN weight' = Arena!Fittest(active, fitness)
    BY <1>1 DEF Shares, Arena!Weights
  <1>3. pool \subseteq Strategy /\ active \subseteq pool
    BY DEF ContestsSensible, Clearing, Activated
  <1>4. IsFiniteSet(pool) /\ IsFiniteSet(active) /\ active \subseteq Int
    BY <1>3, FS_Subset DEF StrategiesOrdered
  <1>5. \A s \in active : fitness[s] \in Int
    <2> HIDE DEF active, pool
    <2> QED
      BY <1>3, <1>4, FitnessIsNumber DEF pool
  <1>6. Cardinality(DOMAIN weight') <= MaxActive
    BY <1>2, <1>4, <1>5, FewAreFittest DEF StrategiesOrdered
  <1>7. \A s \in DOMAIN weight' : lifecycle'[s] = "active"
    BY <1>1, <1>2 DEF Arena!Fittest, Activated
  <1> QED
    BY <1>6, <1>7 DEF FewShare
-----------------------------------------------------------------------------
(* Sums.                                                                   *)

\* What holds of 0 and with every number of the next one holds of all.
LEMMA EveryNumber ==
    ASSUME NEW P \in SUBSET Nat, 0 \in P, \A n \in P : n + 1 \in P
    PROVE  \A n \in Nat : n \in P
  <1> DEFINE Rest == Nat \ P
  <1> SUFFICES ASSUME Rest # {}
               PROVE  FALSE
    OBVIOUS
  <1>1. PICK m \in Rest : \A n \in Rest : m <= n
    <2>1. Rest \in SUBSET Nat
      OBVIOUS
    <2> HIDE DEF Rest
    <2> QED
      BY <2>1, LeastDay
  <1>2. m - 1 \in Nat /\ m - 1 \notin Rest
    BY <1>1
  <1> QED
    BY <1>1, <1>2

\* What holds of the empty set and is kept when an element is added holds of all finite sets.
LEMMA EveryFiniteSet ==
    ASSUME NEW S, IsFiniteSet(S), NEW Good \in SUBSET SUBSET S, {} \in Good,
           \A T \in Good : \A x \in S \ T : T \cup {x} \in Good
    PROVE  S \in Good
  <1> DEFINE P == {n \in Nat : \A T \in SUBSET S : Cardinality(T) = n => T \in Good}
  <1>1. 0 \in P
    <2>1. ASSUME NEW T \in SUBSET S, Cardinality(T) = 0
          PROVE  T \in Good
      <3>1. IsFiniteSet(T)
        BY FS_Subset
      <3>2. T = {}
        BY <2>1, <3>1, FS_EmptySet
      <3> QED
        BY <3>2
    <2> QED
      BY <2>1
  <1>2. ASSUME NEW n \in P
        PROVE  n + 1 \in P
    <2>1. ASSUME NEW T \in SUBSET S, Cardinality(T) = n + 1
          PROVE  T \in Good
      <3>1. IsFiniteSet(T) /\ n \in Nat
        BY FS_Subset
      <3>2. PICK x \in T : TRUE
        BY <2>1, <3>1, FS_EmptySet
      <3>3. Cardinality(T \ {x}) = n
        <4>1. Cardinality(T \ {x}) = Cardinality(T) - 1
          BY <3>1, <3>2, FS_RemoveElement
        <4> HIDE DEF P
        <4> QED
          BY <2>1, <3>1, <4>1
      <3>4. T \ {x} \in Good
        BY <3>3
      <3>5. (T \ {x}) \cup {x} = T
        BY <3>2
      <3>6. x \in S \ (T \ {x})
        BY <3>2
      <3> HIDE DEF P
      <3> QED
        BY <3>4, <3>5, <3>6
    <2>2. n + 1 \in Nat
      OBVIOUS
    <2> QED
      BY <2>1, <2>2
  <1>3. Cardinality(S) \in P
    <2>1. Cardinality(S) \in Nat /\ P \in SUBSET Nat
      BY FS_CardinalityType
    <2> HIDE DEF P
    <2> QED
      BY <1>1, <1>2, <2>1, EveryNumber
  <1> QED
    BY <1>3

\* The table of the sums over some sets.
Chosen(s) == CHOOSE x \in s : TRUE

Sums(table, f, D) ==
    table = [s \in D |-> IF s = {} THEN 0 ELSE f[Chosen(s)] + table[s \ {Chosen(s)}]]

LEMMA SumsExist ==
    ASSUME NEW f, NEW S, IsFiniteSet(S)
    PROVE  \E table : Sums(table, f, SUBSET S)
  <1> DEFINE Small(n) == {T \in SUBSET S : Cardinality(T) <= n}
             P == {n \in Nat : \E table : Sums(table, f, Small(n))}
  <1>1. \A T \in SUBSET S : IsFiniteSet(T) /\ Cardinality(T) \in Nat
    BY FS_Subset, FS_CardinalityType
  <1>2. 0 \in P
    <2>1. \A T \in Small(0) : T = {}
      BY <1>1, FS_EmptySet
    <2> HIDE DEF Small
    <2>2. Sums([T \in Small(0) |-> 0], f, Small(0))
      BY <2>1 DEF Sums
    <2> QED
      BY <2>2
  <1>3. ASSUME NEW n \in P
        PROVE  n + 1 \in P
    <2>1. PICK table : Sums(table, f, Small(n))
      OBVIOUS
    <2> DEFINE more == [T \in Small(n + 1) |->
                          IF T = {} THEN 0 ELSE f[Chosen(T)] + table[T \ {Chosen(T)}]]
    <2>2. ASSUME NEW T \in Small(n + 1), T # {}
          PROVE  /\ T \ {Chosen(T)} \in Small(n)
                 /\ T \ {Chosen(T)} \in Small(n + 1)
      <3>1. Chosen(T) \in T
        BY <2>2 DEF Chosen
      <3>2. IsFiniteSet(T) /\ Cardinality(T) \in Nat /\ Cardinality(T) <= n + 1 /\ n \in Nat
        BY <1>1
      <3>3. Cardinality(T \ {Chosen(T)}) = Cardinality(T) - 1
        BY <3>1, <3>2, FS_RemoveElement
      <3>4. T \ {Chosen(T)} \in SUBSET S
        OBVIOUS
      <3> DEFINE c == Cardinality(T \ {Chosen(T)})
      <3>5. c <= n /\ c <= n + 1
        <4> HIDE DEF Small, P, c
        <4> QED
          BY <3>2, <3>3 DEF c
      <3> QED
        BY <3>4, <3>5
    <2>3. \A T \in Small(n) : more[T] = table[T]
      <3>1. \A T \in Small(n) : T \in Small(n + 1)
        <4>1. n \in Nat
          OBVIOUS
        <4> QED
          BY <1>1, <4>1
      <3> HIDE DEF Small, P
      <3> QED
        BY <2>1, <3>1 DEF Sums
    <2>4. Sums(more, f, Small(n + 1))
      <3> HIDE DEF Small, P
      <3> QED
        BY <2>2, <2>3 DEF Sums
    <2> HIDE DEF Small, more
    <2> QED
      BY <2>4
  <1>4. Cardinality(S) \in P
    <2>1. Cardinality(S) \in Nat /\ P \in SUBSET Nat
      BY FS_CardinalityType
    <2> HIDE DEF P
    <2> QED
      BY <1>2, <1>3, <2>1, EveryNumber
  <1>5. Small(Cardinality(S)) = SUBSET S
    BY FS_Subset
  <1> HIDE DEF Small
  <1> QED
    BY <1>4, <1>5

\* A table of the sums over a set's subsets has those of a subset's subsets.
LEMMA SumsAgree ==
    ASSUME NEW f, NEW S, IsFiniteSet(S), NEW a, NEW b, NEW R, S \subseteq R,
           Sums(a, f, SUBSET S), Sums(b, f, SUBSET R)
    PROVE  \A T \in SUBSET S : a[T] = b[T]
  <1> DEFINE P == {n \in Nat : \A T \in SUBSET S : Cardinality(T) <= n => a[T] = b[T]}
  <1>1. \A T \in SUBSET S : IsFiniteSet(T) /\ Cardinality(T) \in Nat /\ T \in SUBSET R
    BY FS_Subset, FS_CardinalityType
  <1>2. \A T \in SUBSET S :
            T # {} => /\ a[T] = f[Chosen(T)] + a[T \ {Chosen(T)}]
                      /\ b[T] = f[Chosen(T)] + b[T \ {Chosen(T)}]
    BY <1>1 DEF Sums
  <1>3. a[{}] = 0 /\ b[{}] = 0
    BY DEF Sums
  <1>4. 0 \in P
    <2>1. \A T \in SUBSET S : Cardinality(T) <= 0 => T = {}
      BY <1>1, FS_EmptySet
    <2> QED
      BY <1>3, <2>1
  <1>5. ASSUME NEW n \in P
        PROVE  n + 1 \in P
    <2>1. ASSUME NEW T \in SUBSET S, Cardinality(T) <= n + 1
          PROVE  a[T] = b[T]
      <3>1. CASE T = {}
        BY <1>3, <3>1
      <3>2. CASE T # {}
        <4>1. Chosen(T) \in T
          BY <3>2 DEF Chosen
        <4>2. IsFiniteSet(T) /\ Cardinality(T) \in Nat /\ n \in Nat
          BY <1>1
        <4>3. Cardinality(T \ {Chosen(T)}) = Cardinality(T) - 1
          BY <4>1, <4>2, FS_RemoveElement
        <4> DEFINE c == Cardinality(T \ {Chosen(T)})
        <4>4. c <= n
          <5> HIDE DEF P, c
          <5> QED
            BY <2>1, <4>2, <4>3 DEF c
        <4>5. a[T \ {Chosen(T)}] = b[T \ {Chosen(T)}]
          BY <4>4
        <4> QED
          BY <1>2, <3>2, <4>5
      <3> QED
        BY <3>1, <3>2
    <2>2. n + 1 \in Nat
      OBVIOUS
    <2> QED
      BY <2>1, <2>2
  <1>6. \A T \in SUBSET S : Cardinality(T) \in P
    <2>1. P \in SUBSET Nat
      OBVIOUS
    <2> HIDE DEF P
    <2> QED
      BY <1>1, <1>4, <1>5, <2>1, EveryNumber
  <1> QED
    BY <1>1, <1>6

LEMMA TotalIsSum ==
    ASSUME NEW f, NEW S, IsFiniteSet(S)
    PROVE  \E table : Sums(table, f, SUBSET S) /\ table[S] = Arena!Total(f, S)
  <1>1. Arena!Total(f, S) = (CHOOSE table : Sums(table, f, SUBSET S))[S]
    BY DEF Arena!Total, Arena!MapThenSumSet, Arena!MapThenFoldSet, Sums, Chosen
  <1>2. PICK table : Sums(table, f, SUBSET S)
    BY SumsExist
  <1>3. Sums(CHOOSE t : Sums(t, f, SUBSET S), f, SUBSET S)
    BY <1>2
  <1> QED
    BY <1>1, <1>3

\* A sum can be taken in any order.
LEMMA TableSplits ==
    ASSUME NEW f, NEW S, IsFiniteSet(S), \A x \in S : f[x] \in Int,
           NEW table, Sums(table, f, SUBSET S)
    PROVE  \A T \in SUBSET S :
             /\ table[T] \in Int
             /\ \A x \in T : table[T] = f[x] + table[T \ {x}]
  <1> DEFINE Splits(T) == table[T] \in Int /\ \A x \in T : table[T] = f[x] + table[T \ {x}]
             P == {n \in Nat : \A T \in SUBSET S : Cardinality(T) <= n => Splits(T)}
  <1>1. \A T \in SUBSET S : IsFiniteSet(T) /\ Cardinality(T) \in Nat
    BY FS_Subset, FS_CardinalityType
  <1>2. \A T \in SUBSET S : T # {} => table[T] = f[Chosen(T)] + table[T \ {Chosen(T)}]
    BY DEF Sums
  <1>3. table[{}] = 0
    BY DEF Sums
  <1>4. 0 \in P
    <2>1. \A T \in SUBSET S : Cardinality(T) <= 0 => T = {}
      BY <1>1, FS_EmptySet
    <2>2. Splits({})
      BY <1>3
    <2> HIDE DEF Splits
    <2> QED
      BY <2>1, <2>2
  <1>5. ASSUME NEW n \in P
        PROVE  n + 1 \in P
    <2>0. \A T \in SUBSET S : Cardinality(T) <= n => Splits(T)
      OBVIOUS
    <2>1. ASSUME NEW T \in SUBSET S, Cardinality(T) <= n + 1, T # {}
          PROVE  Splits(T)
      <3> DEFINE c == Chosen(T)
      <3>1. c \in T
        BY <2>1 DEF Chosen
      <3>2. IsFiniteSet(T) /\ Cardinality(T) \in Nat /\ n \in Nat
        BY <1>1
      <3>3. ASSUME NEW x \in T
            PROVE  T \ {x} \in SUBSET S /\ Splits(T \ {x})
        <4>1. Cardinality(T \ {x}) = Cardinality(T) - 1
          BY <3>2, FS_RemoveElement
        <4> DEFINE m == Cardinality(T \ {x})
        <4>2. m <= n
          <5> HIDE DEF P, c, m, Splits
          <5> QED
            BY <2>1, <3>2, <4>1 DEF m
        <4> HIDE DEF Splits
        <4> QED
          BY <2>0, <4>2
      <3>4. table[T] = f[c] + table[T \ {c}] /\ f[c] \in Int /\ table[T \ {c}] \in Int
        BY <1>2, <2>1, <3>1, <3>3
      <3>5. ASSUME NEW x \in T
            PROVE  table[T] = f[x] + table[T \ {x}]
        <4>1. CASE x = c
          BY <3>4, <4>1
        <4>2. CASE x # c
          <5>1. c \in T \ {x} /\ x \in T \ {c}
            BY <3>1, <4>2
          <5>2. table[T \ {x}] = f[c] + table[(T \ {x}) \ {c}]
            BY <3>3, <5>1
          <5>3. table[T \ {c}] = f[x] + table[(T \ {c}) \ {x}]
            BY <3>1, <3>3, <5>1
          <5>4. (T \ {x}) \ {c} = (T \ {c}) \ {x}
            OBVIOUS
          <5>5. (T \ {x}) \ {c} \in SUBSET S
            OBVIOUS
          <5>6. table[(T \ {x}) \ {c}] \in Int
            <6>1. Cardinality((T \ {x}) \ {c}) <= n
              <7>1. IsFiniteSet(T \ {x}) /\ Cardinality(T \ {x}) \in Nat
                BY <3>2, FS_RemoveElement, FS_CardinalityType
              <7>2. /\ Cardinality(T \ {x}) = Cardinality(T) - 1
                    /\ Cardinality((T \ {x}) \ {c}) = Cardinality(T \ {x}) - 1
                BY <3>2, <5>1, <7>1, FS_RemoveElement
              <7> DEFINE p == Cardinality(T \ {x})
                         q == Cardinality((T \ {x}) \ {c})
              <7>3. q <= n
                <8> HIDE DEF P, c, p, q, Splits
                <8> QED
                  BY <2>1, <3>2, <7>1, <7>2 DEF p, q
              <7> QED
                BY <7>3
            <6> QED
              BY <2>0, <5>5, <6>1
          <5>7. f[x] \in Int
            OBVIOUS
          <5> DEFINE rest == table[(T \ {x}) \ {c}]
                     u == table[T \ {x}]
                     v == table[T \ {c}]
          <5>8. u = f[c] + rest /\ v = f[x] + rest /\ table[T] = f[c] + v /\ rest \in Int
            BY <3>4, <5>2, <5>3, <5>4, <5>6
          <5> HIDE DEF P, c, rest, u, v
          <5>9. table[T] = f[x] + u
            BY <3>4, <5>7, <5>8
          <5> QED
            BY <5>9 DEF u
        <4> QED
          BY <4>1, <4>2
      <3>6. table[T] \in Int
        <4> HIDE DEF P, c, Splits
        <4> QED
          BY <3>4
      <3> QED
        BY <3>5, <3>6
    <2>2. Splits({})
      BY <1>3
    <2>3. n + 1 \in Nat
      OBVIOUS
    <2> HIDE DEF Splits
    <2> QED
      BY <2>1, <2>2, <2>3
  <1>6. \A T \in SUBSET S : Cardinality(T) \in P
    <2>1. P \in SUBSET Nat
      OBVIOUS
    <2> HIDE DEF P
    <2> QED
      BY <1>1, <1>4, <1>5, <2>1, EveryNumber
  <1> QED
    BY <1>1, <1>6

LEMMA TotalOfSubset ==
    ASSUME NEW f, NEW S, IsFiniteSet(S), NEW table, Sums(table, f, SUBSET S), NEW T \in SUBSET S
    PROVE  Arena!Total(f, T) = table[T]
  <1>1. IsFiniteSet(T)
    BY FS_Subset
  <1>2. PICK a : Sums(a, f, SUBSET T) /\ a[T] = Arena!Total(f, T)
    BY <1>1, TotalIsSum
  <1>3. a[T] = table[T]
    BY <1>1, <1>2, SumsAgree
  <1> QED
    BY <1>2, <1>3

LEMMA TotalSplits ==
    ASSUME NEW f, NEW S, IsFiniteSet(S), \A x \in S : f[x] \in Int
    PROVE  /\ Arena!Total(f, S) \in Int
           /\ Arena!Total(f, {}) = 0
           /\ \A x \in S : Arena!Total(f, S) = f[x] + Arena!Total(f, S \ {x})
  <1>1. PICK table : Sums(table, f, SUBSET S)
    BY SumsExist
  <1>2. \A T \in SUBSET S : Arena!Total(f, T) = table[T]
    BY <1>1, TotalOfSubset
  <1>3. table[{}] = 0
    BY <1>1 DEF Sums
  <1>4. S \in SUBSET S /\ {} \in SUBSET S /\ \A x \in S : S \ {x} \in SUBSET S
    OBVIOUS
  <1>5. /\ table[S] \in Int
        /\ \A x \in S : table[S] = f[x] + table[S \ {x}]
    <2>1. \A T \in SUBSET S :
            /\ table[T] \in Int
            /\ \A x \in T : table[T] = f[x] + table[T \ {x}]
      BY <1>1, TableSplits
    <2> QED
      BY <1>4, <2>1
  <1> QED
    BY <1>2, <1>3, <1>4, <1>5

\* One more element.
LEMMA TotalAdds ==
    ASSUME NEW f, NEW T, IsFiniteSet(T), NEW x, x \notin T, \A y \in T \cup {x} : f[y] \in Int
    PROVE  Arena!Total(f, T \cup {x}) = f[x] + Arena!Total(f, T)
  <1>1. IsFiniteSet(T \cup {x})
    BY FS_AddElement
  <1>2. (T \cup {x}) \ {x} = T
    OBVIOUS
  <1> QED
    BY <1>1, <1>2, TotalSplits

\* Sums of two sets apart.
LEMMA TotalOfBoth ==
    ASSUME NEW f, NEW A, NEW B, IsFiniteSet(A), IsFiniteSet(B), A \cap B = {},
           \A x \in A \cup B : f[x] \in Int
    PROVE  Arena!Total(f, A \cup B) = Arena!Total(f, A) + Arena!Total(f, B)
  <1> DEFINE Good ==
        {T \in SUBSET B : Arena!Total(f, A \cup T) = Arena!Total(f, A) + Arena!Total(f, T)}
  <1>1. {} \in Good
    <2>1. Arena!Total(f, {}) = 0 /\ Arena!Total(f, A) \in Int /\ A \cup {} = A
      BY TotalSplits
    <2> QED
      BY <2>1
  <1>2. ASSUME NEW T \in Good, NEW x \in B \ T
        PROVE  T \cup {x} \in Good
    <2>1. IsFiniteSet(T) /\ IsFiniteSet(A \cup T)
      BY FS_Subset, FS_Union
    <2>2. x \notin A \cup T /\ x \notin T /\ A \cup (T \cup {x}) = (A \cup T) \cup {x}
      OBVIOUS
    <2>3. /\ Arena!Total(f, T \cup {x}) = f[x] + Arena!Total(f, T)
          /\ Arena!Total(f, A \cup (T \cup {x})) = f[x] + Arena!Total(f, A \cup T)
      BY <2>1, <2>2, TotalAdds
    <2>4. /\ Arena!Total(f, A \cup T) = Arena!Total(f, A) + Arena!Total(f, T)
          /\ Arena!Total(f, A) \in Int /\ Arena!Total(f, T) \in Int /\ f[x] \in Int
      BY <2>1, TotalSplits
    <2>5. Arena!Total(f, A \cup (T \cup {x})) = Arena!Total(f, A) + Arena!Total(f, T \cup {x})
      <3> HIDE DEF Good
      <3> QED
        BY <2>3, <2>4
    <2> QED
      BY <2>5
  <1>3. Good \in SUBSET SUBSET B
    OBVIOUS
  <1>4. B \in Good
    <2> HIDE DEF Good
    <2> QED
      BY <1>1, <1>2, <1>3, EveryFiniteSet
  <1> QED
    BY <1>4

\* Sums of multiples.
LEMMA TotalOfMultiples ==
    ASSUME NEW f, NEW S, IsFiniteSet(S), \A x \in S : f[x] \in Int, NEW c \in Int,
           NEW g, \A x \in S : g[x] = c * f[x]
    PROVE  Arena!Total(g, S) = c * Arena!Total(f, S)
  <1> DEFINE Good == {T \in SUBSET S : Arena!Total(g, T) = c * Arena!Total(f, T)}
  <1>0. \A x \in S : g[x] \in Int
    OBVIOUS
  <1>1. {} \in Good
    <2>1. Arena!Total(f, {}) = 0 /\ Arena!Total(g, {}) = 0
      BY <1>0, TotalSplits
    <2> QED
      BY <2>1
  <1>2. ASSUME NEW T \in Good, NEW x \in S \ T
        PROVE  T \cup {x} \in Good
    <2>1. IsFiniteSet(T) /\ x \notin T
      BY FS_Subset
    <2>2. /\ Arena!Total(f, T \cup {x}) = f[x] + Arena!Total(f, T)
          /\ Arena!Total(g, T \cup {x}) = g[x] + Arena!Total(g, T)
      BY <1>0, <2>1, TotalAdds
    <2>3. /\ Arena!Total(g, T) = c * Arena!Total(f, T) /\ g[x] = c * f[x] /\ f[x] \in Int
          /\ Arena!Total(f, T) \in Int
      BY <2>1, TotalSplits
    <2>4. c * (f[x] + Arena!Total(f, T)) = c * f[x] + c * Arena!Total(f, T)
      <3> DEFINE p == f[x]
                 q == Arena!Total(f, T)
      <3>1. p \in Int /\ q \in Int
        BY <2>3
      <3> HIDE DEF p, q, Good
      <3>2. c * (p + q) = c * p + c * q
        BY <3>1
      <3> QED
        BY <3>2 DEF p, q
    <2>5. Arena!Total(g, T \cup {x}) = c * Arena!Total(f, T \cup {x})
      BY <2>2, <2>3, <2>4
    <2> QED
      BY <2>5
  <1>3. Good \in SUBSET SUBSET S
    OBVIOUS
  <1>4. S \in Good
    <2> HIDE DEF Good
    <2> QED
      BY <1>1, <1>2, <1>3, EveryFiniteSet
  <1> QED
    BY <1>4

LEMMA SameTotal ==
    ASSUME NEW f, NEW S, IsFiniteSet(S), \A x \in S : f[x] \in Int,
           NEW g, \A x \in S : g[x] = f[x]
    PROVE  Arena!Total(g, S) = Arena!Total(f, S)
  <1>1. \A x \in S : g[x] = 1 * f[x]
    OBVIOUS
  <1>2. Arena!Total(g, S) = 1 * Arena!Total(f, S)
    BY <1>1, TotalOfMultiples
  <1> QED
    BY <1>2, TotalSplits

\* Terms above a bound.
LEMMA TotalAbove ==
    ASSUME NEW f, NEW S, IsFiniteSet(S), \A x \in S : f[x] \in Int, NEW b \in Int,
           \A x \in S : f[x] > b
    PROVE  /\ Arena!Total(f, S) >= b * Cardinality(S)
           /\ S # {} => Arena!Total(f, S) > b * Cardinality(S)
  <1> DEFINE Above(T) == /\ Arena!Total(f, T) >= b * Cardinality(T)
                         /\ T # {} => Arena!Total(f, T) > b * Cardinality(T)
             Good == {T \in SUBSET S : Above(T)}
  <1>1. Above({})
    <2>1. Arena!Total(f, {}) = 0 /\ Cardinality({}) = 0
      BY TotalSplits, FS_EmptySet
    <2> QED
      BY <2>1
  <1>2. ASSUME NEW T \in SUBSET S, Above(T), NEW x \in S \ T
        PROVE  Above(T \cup {x})
    <2>1. IsFiniteSet(T) /\ x \notin T
      BY FS_Subset
    <2>2. /\ Arena!Total(f, T \cup {x}) = f[x] + Arena!Total(f, T)
          /\ Cardinality(T \cup {x}) = Cardinality(T) + 1
      BY <2>1, TotalAdds, FS_AddElement
    <2> DEFINE p == f[x]
               q == Arena!Total(f, T)
               n == Cardinality(T)
    <2>3. q >= b * n /\ p > b /\ p \in Int
      BY <1>2
    <2>4. q \in Int /\ n \in Nat
      <3>1. \A y \in T : f[y] \in Int
        OBVIOUS
      <3> HIDE DEF Above
      <3> QED
        BY <2>1, <3>1, TotalSplits, FS_CardinalityType
    <2>5. Arena!Total(f, T \cup {x}) = p + q /\ Cardinality(T \cup {x}) = n + 1
      BY <2>2
    <2>6. p + q > b * (n + 1) /\ p + q >= b * (n + 1)
      <3> HIDE DEF p, q, n, Above
      <3>1. b * (n + 1) = b * n + b /\ b * n \in Int
        BY <2>4
      <3> QED
        BY <2>3, <2>4, <3>1
    <2> HIDE DEF p, q, n
    <2> QED
      BY <2>5, <2>6
  <1>3. S \in Good
    <2> HIDE DEF Above
    <2>1. {} \in Good /\ Good \in SUBSET SUBSET S
      BY <1>1
    <2>2. \A T \in Good : \A x \in S \ T : T \cup {x} \in Good
      BY <1>2
    <2> HIDE DEF Good
    <2> QED
      BY <2>1, <2>2, EveryFiniteSet
  <1>4. Above(S)
    <2> HIDE DEF Above
    <2> QED
      BY <1>3
  <1> QED
    BY <1>4

(* The rounds of the cap. *)

\* Whose share of what remains would exceed the cap.
Over(ids, strength, open) ==
    {s \in open : Arena!Remaining(ids, open) * strength[s] > MaxEach * Arena!Total(strength, open)}

Rounds(table, ids, strength, D) ==
    table = [open \in D |-> IF Over(ids, strength, open) = {} THEN open
                            ELSE table[open \ Over(ids, strength, open)]]

LEMMA FewerAreOpen ==
    ASSUME NEW S, IsFiniteSet(S), NEW over, over \subseteq S, over # {}
    PROVE  /\ IsFiniteSet(S \ over)
           /\ Cardinality(S) \in Nat /\ Cardinality(S \ over) \in Nat
           /\ Cardinality(S \ over) + 1 <= Cardinality(S)
  <1>1. PICK x \in over : TRUE
    OBVIOUS
  <1>2. IsFiniteSet(S \ {x}) /\ Cardinality(S \ {x}) = Cardinality(S) - 1
    BY <1>1, FS_RemoveElement
  <1>3. S \ over \subseteq S \ {x}
    BY <1>1
  <1>4. IsFiniteSet(S \ over) /\ Cardinality(S \ over) <= Cardinality(S \ {x})
    BY <1>2, <1>3, FS_Subset
  <1>5. Cardinality(S) \in Nat /\ Cardinality(S \ over) \in Nat
    BY <1>4, FS_CardinalityType
  <1> QED
    BY <1>2, <1>4, <1>5

LEMMA RoundsExist ==
    ASSUME NEW strength, NEW ids, IsFiniteSet(ids)
    PROVE  \E table : Rounds(table, ids, strength, SUBSET ids)
  <1> DEFINE Small(n) == {T \in SUBSET ids : Cardinality(T) <= n}
             over(T) == Over(ids, strength, T)
             P == {n \in Nat : \E table : Rounds(table, ids, strength, Small(n))}
  <1>1. \A T \in SUBSET ids : IsFiniteSet(T) /\ Cardinality(T) \in Nat
    BY FS_Subset, FS_CardinalityType
  <1>2. \A T \in SUBSET ids : over(T) \subseteq T
    BY DEF Over
  <1>3. 0 \in P
    <2>1. \A T \in Small(0) : T = {}
      BY <1>1, FS_EmptySet
    <2>2. \A T \in Small(0) : over(T) = {}
      BY <1>2, <2>1
    <2> HIDE DEF Small
    <2>3. Rounds([T \in Small(0) |-> T], ids, strength, Small(0))
      BY <2>2 DEF Rounds
    <2> QED
      BY <2>3
  <1>4. ASSUME NEW n \in P
        PROVE  n + 1 \in P
    <2>1. PICK table : Rounds(table, ids, strength, Small(n))
      OBVIOUS
    <2> DEFINE more == [T \in Small(n + 1) |-> IF over(T) = {} THEN T ELSE table[T \ over(T)]]
    <2>2. ASSUME NEW T \in Small(n + 1), over(T) # {}
          PROVE  T \ over(T) \in Small(n) /\ T \ over(T) \in Small(n + 1)
      <3>1. IsFiniteSet(T) /\ Cardinality(T) \in Nat /\ Cardinality(T) <= n + 1 /\ n \in Nat
            /\ over(T) \subseteq T
        BY <1>1, <1>2
      <3> DEFINE c == Cardinality(T \ over(T))
      <3>2. c \in Nat /\ c + 1 <= Cardinality(T)
        <4> HIDE DEF over, Small, P
        <4> QED
          BY <2>2, <3>1, FewerAreOpen
      <3>3. T \ over(T) \in SUBSET ids
        OBVIOUS
      <3>4. c <= n /\ c <= n + 1
        <4> HIDE DEF over, Small, P, c
        <4> QED
          BY <3>1, <3>2
      <3> HIDE DEF over
      <3> QED
        BY <3>3, <3>4
    <2>3. \A T \in Small(n) : more[T] = table[T]
      <3>1. \A T \in Small(n) : T \in Small(n + 1)
        <4>1. n \in Nat
          OBVIOUS
        <4> QED
          BY <1>1, <4>1
      <3> HIDE DEF Small, P
      <3> QED
        BY <2>1, <3>1 DEF Rounds
    <2>4. Rounds(more, ids, strength, Small(n + 1))
      <3> HIDE DEF Small, P
      <3> QED
        BY <2>2, <2>3 DEF Rounds
    <2>5. n + 1 \in Nat
      OBVIOUS
    <2> HIDE DEF Small, more
    <2> QED
      BY <2>4, <2>5
  <1>5. Cardinality(ids) \in P
    <2>1. Cardinality(ids) \in Nat /\ P \in SUBSET Nat
      BY FS_CardinalityType
    <2> HIDE DEF P
    <2> QED
      BY <1>3, <1>4, <2>1, EveryNumber
  <1>6. Small(Cardinality(ids)) = SUBSET ids
    BY FS_Subset
  <1> HIDE DEF Small
  <1> QED
    BY <1>5, <1>6

LEMMA UncappedIsRound ==
    ASSUME NEW strength, NEW ids, IsFiniteSet(ids)
    PROVE  \E table : /\ Rounds(table, ids, strength, SUBSET ids)
                      /\ table[ids] = Arena!Uncapped(ids, strength)
  <1>1. Arena!Uncapped(ids, strength)
            = (CHOOSE table : Rounds(table, ids, strength, SUBSET ids))[ids]
    BY DEF Arena!Uncapped, Rounds, Over
  <1>2. PICK table : Rounds(table, ids, strength, SUBSET ids)
    BY RoundsExist
  <1>3. Rounds(CHOOSE t : Rounds(t, ids, strength, SUBSET ids), ids, strength, SUBSET ids)
    BY <1>2
  <1> QED
    BY <1>1, <1>3

\* Between two rounds: someone is open, what remains is positive and within the caps of the
\* open ones, and those are weaker than the capped ones.
RoundInv(ids, strength, open) ==
    /\ open \subseteq ids /\ open # {}
    /\ Arena!Remaining(ids, open) \in Int /\ Arena!Remaining(ids, open) > 0
    /\ Arena!Remaining(ids, open) <= MaxEach * Cardinality(open)
    /\ \A s \in open, t \in ids \ open : strength[s] < strength[t]

LEMMA TargetWithin ==
    ASSUME LimitsSensible, NEW ids, IsFiniteSet(ids)
    PROVE  /\ Arena!Target(ids) \in Int
           /\ Arena!Target(ids) <= MaxEach * Cardinality(ids)
           /\ ids # {} => Arena!Target(ids) > 0
           /\ ids = {} => Arena!Target(ids) = 0
  <1> DEFINE n == Cardinality(ids)
             all == MaxEach * n
  <1>1. n \in Nat /\ (ids # {} => n > 0) /\ (ids = {} => n = 0)
    BY FS_CardinalityType, FS_EmptySet
  <1>2. Arena!Target(ids) = CHOOSE x \in {MaxTotal, all} : \A y \in {MaxTotal, all} : x <= y
    BY SameArenaCardinality DEF Arena!Target, Arena!Min
  <1> HIDE DEF n
  <1>3. all \in Int /\ all >= 0 /\ (n > 0 => all > 0) /\ (n = 0 => all = 0)
    BY <1>1 DEF LimitsSensible
  <1>4. MaxTotal \in Int /\ MaxTotal > 0
    BY DEF LimitsSensible
  <1> HIDE DEF all
  <1>5. \E x \in {MaxTotal, all} : \A y \in {MaxTotal, all} : x <= y
    BY <1>3, <1>4
  <1>6. Arena!Target(ids) \in {MaxTotal, all} /\ Arena!Target(ids) <= all
    BY <1>2, <1>5
  <1>7. Arena!Target(ids) <= MaxTotal
    BY <1>2, <1>5
  <1> QED
    BY <1>1, <1>3, <1>4, <1>6, <1>7 DEF all, n

LEMMA RoundStarts ==
    ASSUME LimitsSensible, NEW ids, IsFiniteSet(ids), ids # {}, NEW strength
    PROVE  RoundInv(ids, strength, ids)
  <1>1. Cardinality(ids \ ids) = 0 /\ Cardinality(ids) \in Nat
    BY FS_EmptySet, FS_CardinalityType
  <1>2. Arena!Remaining(ids, ids) = Arena!Target(ids)
    <2>1. Arena!Remaining(ids, ids) = Arena!Target(ids) - MaxEach * 0
      BY <1>1, SameArenaCardinality DEF Arena!Remaining
    <2>2. Arena!Target(ids) \in Int
      BY TargetWithin
    <2> QED
      BY <2>1, <2>2 DEF LimitsSensible
  <1> QED
    BY <1>2, TargetWithin DEF RoundInv

LEMMA RoundKeeps ==
    ASSUME LimitsSensible, NEW ids, IsFiniteSet(ids),
           NEW strength, \A s \in ids : strength[s] \in Int /\ strength[s] > 0,
           NEW open, RoundInv(ids, strength, open), Over(ids, strength, open) # {}
    PROVE  RoundInv(ids, strength, open \ Over(ids, strength, open))
  <1> DEFINE over == Over(ids, strength, open)
             r == Arena!Remaining(ids, open)
             all == Arena!Total(strength, open)
             m == Cardinality(over)
             n == Cardinality(open)
             high == [s \in ids |-> r * strength[s]]
  <1>1. /\ over \subseteq open /\ open \subseteq ids
        /\ IsFiniteSet(open) /\ IsFiniteSet(over) /\ IsFiniteSet(open \ over)
        /\ IsFiniteSet(ids \ open)
    <2>1. over \subseteq open /\ open \subseteq ids
      BY DEF Over, RoundInv
    <2> HIDE DEF over
    <2> QED
      BY <2>1, FS_Subset
  <1>2. m \in Nat /\ n \in Nat /\ Cardinality(open \ over) \in Nat
        /\ Cardinality(ids \ open) \in Nat
    BY <1>1, FS_CardinalityType
  <1>3. r \in Int /\ r > 0 /\ r <= MaxEach * n
    BY DEF RoundInv
  <1>4. /\ all \in Int /\ all > 0
        /\ Arena!Total(strength, over) \in Int
        /\ Arena!Total(strength, over) <= all
    <2>1. /\ \A s \in open : strength[s] \in Int /\ strength[s] > 0
          /\ \A s \in over : strength[s] \in Int /\ strength[s] > 0
          /\ \A s \in open \ over : strength[s] \in Int /\ strength[s] > 0
          /\ open # {}
      BY <1>1 DEF RoundInv
    <2> HIDE DEF over, all, r, m, n, high
    <2>2. /\ Arena!Total(strength, open) \in Int /\ Arena!Total(strength, over) \in Int
          /\ Arena!Total(strength, open \ over) \in Int
      BY <1>1, <2>1, TotalSplits
    <2>3. /\ Arena!Total(strength, open) > 0 * Cardinality(open)
          /\ Arena!Total(strength, open \ over) >= 0 * Cardinality(open \ over)
      BY <1>1, <2>1, TotalAbove
    <2>4. 0 * Cardinality(open) = 0 /\ 0 * Cardinality(open \ over) = 0
      BY <1>2 DEF n
    <2>5. open = over \cup (open \ over) /\ over \cap (open \ over) = {}
      BY <1>1
    <2>6. Arena!Total(strength, open) =
              Arena!Total(strength, over) + Arena!Total(strength, open \ over)
      <3> DEFINE rest == open \ over
      <3>1. /\ IsFiniteSet(over) /\ IsFiniteSet(rest) /\ over \cap rest = {}
            /\ \A s \in over \cup rest : strength[s] \in Int
            /\ over \cup rest = open
        BY <1>1, <2>1
      <3> HIDE DEF rest
      <3>2. Arena!Total(strength, over \cup rest)
              = Arena!Total(strength, over) + Arena!Total(strength, rest)
        BY <3>1, TotalOfBoth
      <3> QED
        BY <3>1, <3>2 DEF rest
    <2> QED
      BY <2>2, <2>3, <2>4, <2>6 DEF all
  <1>5. ASSUME NEW T, T \subseteq over, T # {}
        PROVE  r * Arena!Total(strength, T) > (MaxEach * all) * Cardinality(T)
    <2>1. IsFiniteSet(T) /\ T \subseteq ids /\ T \subseteq over
      BY <1>1, <1>5, FS_Subset
    <2>2. \A s \in T : /\ strength[s] \in Int /\ high[s] = r * strength[s]
                       /\ r * strength[s] > MaxEach * all
      BY <2>1 DEF Over
    <2> HIDE DEF over, all, r, m, n, high
    <2>3. \A s \in T : high[s] \in Int /\ high[s] > MaxEach * all
      BY <1>3, <2>2
    <2>4. MaxEach * all \in Int
      BY <1>4 DEF LimitsSensible
    <2>5. Arena!Total(high, T) > (MaxEach * all) * Cardinality(T)
      BY <1>5, <2>1, <2>3, <2>4, TotalAbove
    <2>6. Arena!Total(high, T) = r * Arena!Total(strength, T)
      BY <1>3, <2>1, <2>2, TotalOfMultiples
    <2> QED
      BY <2>5, <2>6
  <1>6. r > MaxEach * m
    <2>1. r * Arena!Total(strength, over) > (MaxEach * all) * m
      BY <1>5
    <2> DEFINE part == Arena!Total(strength, over)
    <2> HIDE DEF over, all, r, m, n, high, part
    <2>2. part \in Int /\ part <= all /\ r * part > (MaxEach * all) * m /\ MaxEach \in Nat
      BY <1>4, <2>1 DEF part, LimitsSensible
    <2>3. r * part <= r * all
      BY <1>3, <1>4, <2>2
    <2>4. (MaxEach * all) * m = all * (MaxEach * m) /\ r * all = all * r /\ MaxEach * m \in Int
      BY <1>2, <1>3, <1>4, <2>2
    <2>5. all * r > all * (MaxEach * m)
      <3> DEFINE x == r * part
                 y == (MaxEach * all) * m
      <3>1. x \in Int /\ y \in Int /\ x > y /\ r * all \in Int
        BY <1>2, <1>3, <1>4, <2>2
      <3>2. x <= all * r /\ y = all * (MaxEach * m)
        BY <2>3, <2>4
      <3> HIDE DEF x, y
      <3> QED
        BY <2>4, <3>1, <3>2
    <2> DEFINE z == MaxEach * m
    <2>6. z \in Int /\ all * r > all * z
      BY <2>4, <2>5
    <2> HIDE DEF z
    <2>7. r > z
      <3> SUFFICES ASSUME r <= z PROVE FALSE
        BY <1>3, <2>6
      <3>1. all * r <= all * z
        BY <1>3, <1>4, <2>6
      <3> QED
        BY <1>3, <1>4, <2>6, <3>1
    <2> QED
      BY <2>7 DEF z
  <1>7. over # open
    <2> SUFFICES ASSUME over = open
                 PROVE  FALSE
      OBVIOUS
    <2> HIDE DEF over, all, r, m, n, high
    <2>1. m = n
      BY DEF m, n
    <2> QED
      BY <1>2, <1>3, <1>6, <2>1 DEF LimitsSensible
  <1>8. Cardinality(open \ over) = n - m
    <2> DEFINE rest == open \ over
    <2>1. IsFiniteSet(over) /\ IsFiniteSet(rest) /\ over \cap rest = {} /\ over \cup rest = open
      BY <1>1
    <2> HIDE DEF over, rest
    <2>2. Cardinality(over \cup rest) =
              Cardinality(over) + Cardinality(rest) - Cardinality(over \cap rest)
      BY <2>1, FS_Union
    <2>3. Cardinality(over \cap rest) = 0
      BY <2>1, FS_EmptySet
    <2>4. Cardinality(over) \in Int /\ Cardinality(rest) \in Int
      BY <2>1, FS_CardinalityType
    <2>6. Cardinality(over \cup rest) = Cardinality(open)
      BY <2>1
    <2>5. Cardinality(rest) = Cardinality(open) - Cardinality(over)
      BY <2>2, <2>3, <2>4, <2>6
    <2> QED
      BY <2>5 DEF rest
  <1>9. Arena!Remaining(ids, open \ over) = r - MaxEach * m
    <2> DEFINE out == ids \ open
               now == ids \ (open \ over)
    <2>1. now = out \cup over /\ out \cap over = {} /\ IsFiniteSet(out) /\ IsFiniteSet(over)
      BY <1>1
    <2>2. Arena!Remaining(ids, open) = Arena!Target(ids) - MaxEach * Cardinality(out)
      BY SameArenaCardinality DEF Arena!Remaining
    <2>3. Arena!Remaining(ids, open \ over) = Arena!Target(ids) - MaxEach * Cardinality(now)
      BY SameArenaCardinality DEF Arena!Remaining
    <2> HIDE DEF over, out, now
    <2>4. Cardinality(now) = Cardinality(out) + Cardinality(over)
      <3>1. Cardinality(out \cup over) =
                Cardinality(out) + Cardinality(over) - Cardinality(out \cap over)
        BY <2>1, FS_Union
      <3>2. Cardinality(out \cap over) = 0
        BY <2>1, FS_EmptySet
      <3>3. Cardinality(out) \in Nat /\ Cardinality(over) \in Nat
        BY <2>1, FS_CardinalityType
      <3> QED
        BY <2>1, <3>1, <3>2, <3>3
    <2>5. Cardinality(out) \in Nat /\ Arena!Target(ids) \in Int /\ MaxEach \in Int
      BY <2>1, FS_CardinalityType, TargetWithin DEF LimitsSensible
    <2> DEFINE c == Cardinality(out)
               t == Arena!Target(ids)
    <2>6. c \in Nat /\ t \in Int /\ MaxEach \in Int /\ m \in Nat /\ r = t - MaxEach * c
          /\ Arena!Remaining(ids, open \ over) = t - MaxEach * (c + m)
      BY <1>2, <2>2, <2>3, <2>4, <2>5
    <2> HIDE DEF c, t, m, r
    <2>7. MaxEach * (c + m) = MaxEach * c + MaxEach * m /\ MaxEach * c \in Int
          /\ MaxEach * m \in Int
      BY <2>6
    <2> QED
      BY <2>6, <2>7
  <1>10. \A s \in open \ over, t \in over : strength[s] < strength[t]
    <2>1. ASSUME NEW s \in open \ over, NEW t \in over
          PROVE  strength[s] < strength[t]
      <3>1. /\ ~(r * strength[s] > MaxEach * all) /\ r * strength[t] > MaxEach * all
            /\ strength[s] \in Int /\ strength[t] \in Int
        BY <1>1 DEF Over
      <3> DEFINE a == strength[s]
                 b == strength[t]
                 cap == MaxEach * all
      <3>2. cap \in Int
        <4> HIDE DEF all
        <4> QED
          BY <1>4 DEF LimitsSensible
      <3>3. a \in Int /\ b \in Int /\ ~(r * a > cap) /\ r * b > cap
        BY <3>1
      <3> HIDE DEF a, b, cap, r, over
      <3>4. r * a \in Int /\ r * b \in Int
        BY <1>3, <3>3
      <3>5. r * a < r * b
        BY <3>2, <3>3, <3>4
      <3>6. a < b
        <4> SUFFICES ASSUME b <= a PROVE FALSE
          BY <3>3
        <4>1. r * b <= r * a
          BY <1>3, <3>3
        <4> QED
          BY <3>4, <3>5, <4>1
      <3> QED
        BY <3>6 DEF a, b
    <2> QED
      BY <2>1
  <1>11. \A s \in open \ over, t \in ids \ (open \ over) : strength[s] < strength[t]
    <2>1. \A s \in open, t \in ids \ open : strength[s] < strength[t]
      BY DEF RoundInv
    <2> HIDE DEF over
    <2> QED
      BY <1>10, <2>1
  <1>12. /\ r - MaxEach * m \in Int /\ r - MaxEach * m > 0
         /\ r - MaxEach * m <= MaxEach * (n - m)
    <2> HIDE DEF r, m, n
    <2>1. MaxEach * (n - m) = MaxEach * n - MaxEach * m /\ MaxEach * m \in Int
          /\ MaxEach * n \in Int
      BY <1>2 DEF LimitsSensible
    <2> QED
      BY <1>3, <1>6, <2>1
  <1>13. open \ over \subseteq ids /\ open \ over # {}
    BY <1>1, <1>7
  <1> HIDE DEF over, r, m, n
  <1>14. RoundInv(ids, strength, open \ over)
    BY <1>8, <1>9, <1>11, <1>12, <1>13 DEF RoundInv
  <1> QED
    BY <1>14 DEF over

\* The rounds end where no one open would exceed the cap.
LEMMA RoundsEnd ==
    ASSUME LimitsSensible, NEW ids, IsFiniteSet(ids), ids # {},
           NEW strength, \A s \in ids : strength[s] \in Int /\ strength[s] > 0
    PROVE  /\ RoundInv(ids, strength, Arena!Uncapped(ids, strength))
           /\ Over(ids, strength, Arena!Uncapped(ids, strength)) = {}
  <1>1. PICK table : /\ Rounds(table, ids, strength, SUBSET ids)
                     /\ table[ids] = Arena!Uncapped(ids, strength)
    BY UncappedIsRound
  <1> DEFINE Done(open) == RoundInv(ids, strength, open) /\ Over(ids, strength, open) = {}
             Ends(open) == RoundInv(ids, strength, open) => Done(table[open])
             P == {n \in Nat : \A T \in SUBSET ids : Cardinality(T) <= n => Ends(T)}
  <1>2. \A T \in SUBSET ids : /\ IsFiniteSet(T) /\ Cardinality(T) \in Nat
                              /\ Over(ids, strength, T) \subseteq T
    BY FS_Subset, FS_CardinalityType DEF Over
  <1>3. 0 \in P
    <2>1. \A T \in SUBSET ids : Cardinality(T) <= 0 => T = {}
      BY <1>2, FS_EmptySet
    <2>2. Ends({})
      BY DEF RoundInv
    <2> HIDE DEF Ends
    <2> QED
      BY <2>1, <2>2
  <1>4. ASSUME NEW n \in P
        PROVE  n + 1 \in P
    <2>0. n \in Nat /\ \A T \in SUBSET ids : Cardinality(T) <= n => Ends(T)
      OBVIOUS
    <2> HIDE DEF P
    <2>1. ASSUME NEW T \in SUBSET ids, Cardinality(T) <= n + 1, RoundInv(ids, strength, T)
          PROVE  Done(table[T])
      <3> DEFINE rest == T \ Over(ids, strength, T)
      <3>1. CASE Over(ids, strength, T) = {}
        <4>1. table[T] = T
          BY <1>1, <3>1 DEF Rounds
        <4> QED
          BY <2>1, <3>1, <4>1
      <3>2. CASE Over(ids, strength, T) # {}
        <4>1. table[T] = table[rest]
          BY <1>1, <3>2 DEF Rounds
        <4>2. RoundInv(ids, strength, rest)
          BY <2>1, <3>2, RoundKeeps
        <4>3. rest \in SUBSET ids
          OBVIOUS
        <4>4. IsFiniteSet(T) /\ Over(ids, strength, T) \subseteq T
          BY <1>2
        <4>5. Cardinality(T) \in Nat /\ Cardinality(rest) \in Nat
              /\ Cardinality(rest) + 1 <= Cardinality(T)
          BY <3>2, <4>4, FewerAreOpen
        <4> HIDE DEF rest, Done
        <4>6. Cardinality(rest) <= n
          BY <2>0, <2>1, <4>5
        <4> QED
          BY <2>0, <4>1, <4>2, <4>3, <4>6
      <3> QED
        BY <3>1, <3>2
    <2>2. \A T \in SUBSET ids : Cardinality(T) <= n + 1 => Ends(T)
      BY <2>1
    <2> HIDE DEF Ends
    <2> QED
      BY <2>0, <2>2 DEF P
  <1>5. Cardinality(ids) \in P
    <2>1. Cardinality(ids) \in Nat /\ P \in SUBSET Nat
      BY FS_CardinalityType
    <2> HIDE DEF P
    <2> QED
      BY <1>3, <1>4, <2>1, EveryNumber
  <1>6. Ends(ids)
    <2>1. ids \in SUBSET ids /\ Cardinality(ids) \in Nat
      BY <1>2
    <2> HIDE DEF Ends
    <2> QED
      BY <1>5, <2>1
  <1> QED
    BY <1>1, <1>6, RoundStarts

(* The shares of a decision. *)

AtLeast(v, w) == v[1] * w[2] >= w[1] * v[2]

\* SharesFair of some shares, but for who they go to.
Fair(ids, strength, share) ==
    LET capped == {s \in ids : share[s] = <<MaxEach, 1>>}
        open == ids \ capped
    IN  /\ \A s \in ids : AtLeast(<<MaxEach, 1>>, share[s])
        /\ open # {} =>
             \A d \in {share[s][2] : s \in open} :
                 Arena!Total([s \in open |-> share[s][1]], open)
                    = d * (Arena!Target(ids) - MaxEach * Cardinality(capped))
        /\ open = {} => MaxEach * Cardinality(capped) = Arena!Target(ids)
        /\ \A s, t \in ids : strength[s] >= strength[t] => AtLeast(share[s], share[t])

LEMMA WeightsFair ==
    ASSUME LimitsSensible, NEW ids, IsFiniteSet(ids),
           NEW strength, \A s \in ids : strength[s] \in Int /\ strength[s] > 1
    PROVE  Fair(ids, strength, Arena!Weights(ids, strength))
  <1> DEFINE share == Arena!Weights(ids, strength)
             open == Arena!Uncapped(ids, strength)
             r == Arena!Remaining(ids, open)
             all == Arena!Total(strength, open)
  <1>1. CASE ids = {}
    <2>1. Arena!Target(ids) = 0 /\ MaxEach * 0 = 0
      BY <1>1, TargetWithin DEF LimitsSensible
    <2>2. Cardinality({s \in ids : share[s] = <<MaxEach, 1>>}) = 0
      <3>1. {s \in ids : share[s] = <<MaxEach, 1>>} = {}
        BY <1>1
      <3> QED
        BY <3>1, FS_EmptySet
    <2> HIDE DEF share
    <2> QED
      BY <1>1, <2>1, <2>2 DEF Fair
  <1>2. CASE ids # {}
    <2>1. RoundInv(ids, strength, open) /\ Over(ids, strength, open) = {}
      BY <1>2, RoundsEnd
    <2> HIDE DEF open
    <2>2. /\ open \subseteq ids /\ open # {} /\ IsFiniteSet(open)
          /\ r \in Int /\ r > 0
          /\ \A s \in open, t \in ids \ open : strength[s] < strength[t]
      BY <2>1, FS_Subset DEF RoundInv
    <2>3. /\ \A s \in open : share[s] = <<r * strength[s], all>>
          /\ \A s \in ids \ open : share[s] = <<MaxEach, 1>>
      BY <2>2 DEF Arena!Weights, open
    <2>4. \A s \in open : ~(r * strength[s] > MaxEach * all)
      BY <2>1 DEF Over
    <2> HIDE DEF share, r
    <2>5. all \in Int /\ all > 1
      <3>1. \A s \in open : strength[s] \in Int /\ strength[s] > 1
        BY <2>2
      <3>2. Arena!Total(strength, open) \in Int
        BY <2>2, <3>1, TotalSplits
      <3>3. Arena!Total(strength, open) > 1 * Cardinality(open)
        BY <2>2, <3>1, TotalAbove
      <3>4. Cardinality(open) \in Nat /\ Cardinality(open) # 0
        BY <2>2, FS_CardinalityType, FS_EmptySet
      <3> DEFINE n == Cardinality(open)
      <3> HIDE DEF n
      <3>5. all > n /\ n >= 1 /\ n \in Nat
        BY <3>3, <3>4 DEF n
      <3> HIDE DEF all
      <3> QED
        BY <3>2, <3>5 DEF all
    <2> HIDE DEF all
    <2>6. {s \in ids : share[s] = <<MaxEach, 1>>} = ids \ open
      <3>1. \A s \in open : share[s] # <<MaxEach, 1>>
        BY <2>3, <2>5
      <3> QED
        BY <2>3, <3>1
    <2>7. ids \ (ids \ open) = open
      BY <2>2
    <2>8. \A s \in open : r * strength[s] \in Int /\ r * strength[s] <= MaxEach * all
                          /\ strength[s] \in Int /\ strength[s] > 1
      <3>1. MaxEach * all \in Int
        BY <2>5 DEF LimitsSensible
      <3>2. \A s \in open : r * strength[s] \in Int /\ strength[s] \in Int /\ strength[s] > 1
        BY <2>2
      <3> QED
        BY <2>4, <3>1, <3>2
    <2>9. \A s \in ids : AtLeast(<<MaxEach, 1>>, share[s])
      <3>1. ASSUME NEW s \in open
            PROVE  AtLeast(<<MaxEach, 1>>, share[s])
        <4>1. r * strength[s] * 1 = r * strength[s]
          BY <2>8
        <4>2. MaxEach * all >= r * strength[s] * 1
          BY <2>5, <2>8, <4>1 DEF LimitsSensible
        <4> QED
          BY <2>3, <4>2 DEF AtLeast
      <3>2. ASSUME NEW s \in ids \ open
            PROVE  AtLeast(<<MaxEach, 1>>, share[s])
        BY <2>3 DEF AtLeast, LimitsSensible
      <3> QED
        BY <3>1, <3>2
    <2>10. ASSUME NEW d \in {share[s][2] : s \in open}
           PROVE  Arena!Total([s \in open |-> share[s][1]], open)
                    = d * (Arena!Target(ids) - MaxEach * Cardinality(ids \ open))
      <3>1. d = all
        BY <2>3
      <3>2. Arena!Target(ids) - MaxEach * Cardinality(ids \ open) = r
        BY SameArenaCardinality DEF r, Arena!Remaining
      <3> DEFINE part == [s \in open |-> share[s][1]]
      <3>3. \A s \in open : part[s] = r * strength[s] /\ strength[s] \in Int
        BY <2>3, <2>8
      <3> HIDE DEF part
      <3>4. Arena!Total(part, open) = r * Arena!Total(strength, open)
        BY <2>2, <3>3, TotalOfMultiples
      <3>5. r * all = all * r
        BY <2>2, <2>5
      <3> QED
        BY <3>1, <3>2, <3>4, <3>5 DEF part, all
    <2>11. ASSUME NEW s \in ids, NEW t \in ids, strength[s] >= strength[t]
           PROVE  AtLeast(share[s], share[t])
      <3>1. CASE s \in open /\ t \in open
        <4> DEFINE a == strength[s]
                   b == strength[t]
        <4>1. a \in Int /\ b \in Int /\ a >= b
          BY <2>11
        <4> HIDE DEF a, b
        <4>2. r * a >= r * b /\ r * a \in Int /\ r * b \in Int
          BY <2>2, <4>1
        <4> DEFINE x == r * a
                   y == r * b
        <4>3. x \in Int /\ y \in Int /\ x >= y
          BY <4>2
        <4> HIDE DEF x, y
        <4>4. x * all >= y * all
          BY <2>5, <4>3
        <4> QED
          BY <2>3, <3>1, <4>4 DEF AtLeast, x, y, a, b
      <3>2. CASE s \notin open
        BY <2>3, <2>9, <3>2
      <3>3. CASE s \in open /\ t \notin open
        <4>1. strength[s] < strength[t] /\ strength[s] \in Int /\ strength[t] \in Int
          BY <2>2, <3>3
        <4> QED
          BY <2>11, <4>1
      <3> QED
        BY <3>1, <3>2, <3>3
    <2> HIDE DEF open
    <2> QED
      BY <2>2, <2>6, <2>7, <2>9, <2>10, <2>11 DEF Fair, share
  <1> QED
    BY <1>1, <1>2

\* Who is better in every metric is fitter.
LEMMA BetterIsFitter ==
    ASSUME NEW pool, IsFiniteSet(pool), NEW seen,
           \A s \in pool : \A metric \in DOMAIN Arena!Share : seen[s][metric] \in Int,
           NEW s \in pool, NEW t \in pool,
           \A metric \in DOMAIN Arena!Share : seen[s][metric] > seen[t][metric]
    PROVE  FitnessOf(seen, pool)[s] >= FitnessOf(seen, pool)[t]
  <1>1. ASSUME NEW metric \in DOMAIN Arena!Share
        PROVE  /\ Arena!PercentileRank(s, pool, metric, seen) \in Int
               /\ Arena!PercentileRank(t, pool, metric, seen) \in Int
               /\ Arena!PercentileRank(s, pool, metric, seen) >= Arena!PercentileRank(t, pool, metric, seen)
    <2> DEFINE below(u) == {x \in pool : \/ seen[x][metric] < seen[u][metric]
                                         \/ seen[x][metric] = seen[u][metric] /\ x < u}
    <2>1. below(t) \subseteq below(s)
      <3>1. ASSUME NEW x \in below(t)
            PROVE  x \in below(s)
        <4>1. /\ x \in pool /\ seen[x][metric] \in Int /\ seen[t][metric] \in Int
              /\ seen[s][metric] \in Int /\ seen[s][metric] > seen[t][metric]
              /\ seen[x][metric] < seen[t][metric] \/ seen[x][metric] = seen[t][metric]
          OBVIOUS
        <4>2. seen[x][metric] < seen[s][metric]
          BY <4>1
        <4> QED
          BY <4>1, <4>2
      <3> QED
        BY <3>1
    <2>2. below(s) \subseteq pool /\ below(t) \subseteq pool
      OBVIOUS
    <2>3. s # t
      BY DEF Arena!Share
    <2>4. pool # {s} /\ pool # {t}
      BY <2>3
    <2>5. /\ Arena!PercentileRank(s, pool, metric, seen) = Cardinality(below(s))
          /\ Arena!PercentileRank(t, pool, metric, seen) = Cardinality(below(t))
      BY <2>4, SameArenaCardinality DEF Arena!PercentileRank
    <2> HIDE DEF below
    <2>6. /\ Cardinality(below(s)) \in Nat /\ Cardinality(below(t)) \in Nat
          /\ Cardinality(below(t)) <= Cardinality(below(s))
      BY <2>1, <2>2, FS_Subset, FS_CardinalityType
    <2> QED
      BY <2>5, <2>6
  <1>2. /\ "expectancy" \in DOMAIN Arena!Share /\ "recent" \in DOMAIN Arena!Share
        /\ "factor" \in DOMAIN Arena!Share /\ "safety" \in DOMAIN Arena!Share
        /\ "regime" \in DOMAIN Arena!Share /\ "stability" \in DOMAIN Arena!Share
    BY DEF Arena!Share
  <1> DEFINE rank(u, metric) == Arena!PercentileRank(u, pool, metric, seen)
  <1>3. /\ rank(s, "expectancy") >= rank(t, "expectancy") /\ rank(s, "recent") >= rank(t, "recent")
        /\ rank(s, "factor") >= rank(t, "factor") /\ rank(s, "safety") >= rank(t, "safety")
        /\ rank(s, "regime") >= rank(t, "regime") /\ rank(s, "stability") >= rank(t, "stability")
        /\ rank(s, "expectancy") \in Int /\ rank(s, "recent") \in Int /\ rank(s, "factor") \in Int
        /\ rank(s, "safety") \in Int /\ rank(s, "regime") \in Int /\ rank(s, "stability") \in Int
        /\ rank(t, "expectancy") \in Int /\ rank(t, "recent") \in Int /\ rank(t, "factor") \in Int
        /\ rank(t, "safety") \in Int /\ rank(t, "regime") \in Int /\ rank(t, "stability") \in Int
    BY <1>1, <1>2
  <1>4. ASSUME NEW u \in pool
        PROVE  FitnessOf(seen, pool)[u]
                 = 25 * rank(u, "expectancy") + 20 * rank(u, "recent") + 15 * rank(u, "factor")
                   + 15 * rank(u, "safety") + 15 * rank(u, "regime") + 10 * rank(u, "stability")
    BY DEF FitnessOf, Arena!Fitness, Arena!Share
  <1> HIDE DEF rank
  <1> QED
    BY <1>3, <1>4

\* The strengths a decision shares by: a floor of 5 % of the best fitness.
StrengthOf(chosen, fitness, pool) ==
    [s \in chosen |-> Arena!Max({5 * Arena!Scale(pool), fitness[s]})]

LEMMA StrengthsSensible ==
    ASSUME NEW pool, IsFiniteSet(pool), NEW chosen, chosen \subseteq pool,
           NEW fitness, \A s \in pool : fitness[s] \in Int
    PROVE  /\ \A s \in chosen : /\ StrengthOf(chosen, fitness, pool)[s] \in Int
                                /\ StrengthOf(chosen, fitness, pool)[s] > 1
           /\ \A s, t \in chosen :
                fitness[s] >= fitness[t] =>
                   StrengthOf(chosen, fitness, pool)[s] >= StrengthOf(chosen, fitness, pool)[t]
  <1> DEFINE floor == 5 * Arena!Scale(pool)
             strength == StrengthOf(chosen, fitness, pool)
  <1>1. ASSUME NEW s \in chosen
        PROVE  floor \in Int /\ floor >= 5
    <2>1. Cardinality(pool) \in Nat /\ Cardinality(pool) # 0
      BY FS_CardinalityType, FS_EmptySet
    <2> DEFINE n == Cardinality(pool)
    <2>2. Arena!Scale(pool) = IF n = 1 THEN 1 ELSE n - 1
      BY SameArenaCardinality DEF Arena!Scale
    <2> HIDE DEF n
    <2>3. n \in Nat /\ n # 0
      BY <2>1 DEF n
    <2> QED
      BY <2>2, <2>3
  <1>2. ASSUME NEW s \in chosen
        PROVE  /\ strength[s] \in Int /\ strength[s] >= floor /\ strength[s] >= fitness[s]
               /\ strength[s] = floor \/ strength[s] = fitness[s]
    <2> DEFINE both == {floor, fitness[s]}
    <2>1. strength[s] = CHOOSE x \in both : \A y \in both : x >= y
      BY DEF StrengthOf, Arena!Max
    <2>2. floor \in Int /\ fitness[s] \in Int
      BY <1>1
    <2> HIDE DEF floor, strength
    <2>3. \E x \in both : \A y \in both : x >= y
      BY <2>2
    <2>4. strength[s] \in both /\ \A y \in both : strength[s] >= y
      BY <2>1, <2>3
    <2> QED
      BY <2>2, <2>4
  <1>3. \A s \in chosen : fitness[s] \in Int
    OBVIOUS
  <1> HIDE DEF floor, strength
  <1>4. \A s \in chosen : strength[s] \in Int /\ strength[s] > 1
    BY <1>1, <1>2
  <1>5. ASSUME NEW s \in chosen, NEW t \in chosen, fitness[s] >= fitness[t]
        PROVE  strength[s] >= strength[t]
    BY <1>1, <1>2, <1>3, <1>5
  <1> QED
    BY <1>4, <1>5 DEF strength

LEMMA EvaluateSharesFairly ==
    ASSUME ContestsSensible, StrategiesOrdered, LimitsSensible, MetricsOrdered,
           NEW seen \in Evidence, NEW confidence, Arena!Evaluate(seen, confidence)
    PROVE  Arena!SharesFair'
  <1> DEFINE pool == Clearing(seen, confidence)
             active == Activated(lifecycle, seen, confidence)
             fitness == FitnessOf(seen, pool)
             chosen == Arena!Fittest(active, fitness)
             strength == StrengthOf(chosen, fitness, pool)
  <1>1. /\ weight' = Arena!Weights(chosen, strength)
        /\ observation' = seen
    <2>1. weight' = Arena!Decided(lifecycle, seen, confidence).weight /\ observation' = seen
      BY DEF Arena!Evaluate
    <2>2. Arena!Decided(lifecycle, seen, confidence).weight = Shares(active, fitness, pool)
      BY DecisionParts
    <2> QED
      BY <2>1, <2>2 DEF Shares, StrengthOf
  <1>2. DOMAIN weight' = chosen
    BY <1>1 DEF Arena!Weights
  <1>3. /\ DOMAIN seen = Strategy /\ pool \subseteq Strategy
        /\ active \subseteq pool /\ chosen \subseteq active
    BY DEF ContestsSensible, Clearing, Activated, Arena!Fittest
  <1>4. IsFiniteSet(pool) /\ IsFiniteSet(chosen) /\ chosen \subseteq pool
    <2> HIDE DEF pool, active, chosen
    <2> QED
      BY <1>3, FS_Subset DEF StrategiesOrdered
  <1>5. FewShare'
    BY EvaluateSharesFew
  <1>6. \A s \in pool : fitness[s] \in Int
    <2> HIDE DEF pool
    <2> QED
      BY <1>4, FitnessIsNumber
  <1>7. /\ \A s \in chosen : strength[s] \in Int /\ strength[s] > 1
        /\ \A s, t \in chosen : fitness[s] >= fitness[t] => strength[s] >= strength[t]
    <2> HIDE DEF pool, fitness, chosen
    <2> QED
      BY <1>4, <1>6, StrengthsSensible
  <1>8. Fair(chosen, strength, weight')
    <2> HIDE DEF chosen, strength
    <2> QED
      BY <1>1, <1>4, <1>7, WeightsFair
  <1>9. ASSUME NEW s \in chosen, NEW t \in chosen,
               \A metric \in DOMAIN Arena!Share : seen[s][metric] > seen[t][metric]
        PROVE  strength[s] >= strength[t]
    <2>1. s \in pool /\ t \in pool
      BY <1>4
    <2>2. \A u \in pool : \A metric \in DOMAIN Arena!Share : seen[u][metric] \in Int
      BY <1>3 DEF MetricsOrdered
    <2> HIDE DEF pool, chosen, strength
    <2>3. fitness[s] >= fitness[t]
      BY <1>4, <1>9, <2>1, <2>2, BetterIsFitter
    <2> QED
      BY <1>7, <2>3
  <1> HIDE DEF pool, active, fitness, chosen, strength
  <1>10. Arena!Cardinality(chosen) <= MaxActive /\ \A s \in chosen : lifecycle'[s] = "active"
    BY <1>2, <1>5, SameArenaCardinality DEF FewShare
  <1>11. /\ \A s \in chosen : MaxEach * weight'[s][2] >= weight'[s][1] * 1
         /\ \A s, t \in chosen : strength[s] >= strength[t] =>
               weight'[s][1] * weight'[t][2] >= weight'[t][1] * weight'[s][2]
    BY <1>8 DEF Fair, AtLeast
  <1> DEFINE capped == {s \in chosen : weight'[s] = <<MaxEach, 1>>}
             open == chosen \ capped
  <1>12. /\ open # {} =>
              \A d \in {weight'[s][2] : s \in open} :
                 Arena!Total([s \in open |-> weight'[s][1]], open)
                    = d * (Arena!Target(chosen) - MaxEach * Arena!Cardinality(capped))
         /\ open = {} => MaxEach * Arena!Cardinality(capped) = Arena!Target(chosen)
    BY <1>8, SameArenaCardinality DEF Fair
  <1> QED
    BY <1>1, <1>2, <1>9, <1>10, <1>11, <1>12 DEF Arena!SharesFair

\* For any number of strategies, whatever is observed of them and whatever lifecycles they
\* had, the loop of _capped_proportional_weights ends with shares that add up to exactly
\* the target and exceed no cap; who is capped was stronger than all who are not, and a
\* strategy better than another in every metric gets no less.
THEOREM SharesFairCorrect == Arena!Spec => []Arena!SharesFair
  <1> ContestsSensible /\ StrategiesOrdered /\ LimitsSensible /\ MetricsOrdered
    BY ArenaAssumption
  <1>1. Arena!Init => Arena!SharesFair
    <2> SUFFICES ASSUME Arena!Init
                 PROVE  Arena!SharesFair
      OBVIOUS
    <2>1. DOMAIN weight = {}
      BY DEF Arena!Init, Arena!NoWeights
    <2>2. /\ Arena!Cardinality({}) = 0 /\ MaxEach * 0 = 0 /\ Arena!Target({}) = 0
          /\ 0 <= MaxActive
      BY FS_EmptySet, SameArenaCardinality, TargetWithin DEF LimitsSensible, StrategiesOrdered
    <2>3. {s \in DOMAIN weight : weight[s] = <<MaxEach, 1>>} = {}
      BY <2>1
    <2> QED
      BY <2>1, <2>2, <2>3 DEF Arena!SharesFair
  <1>2. Arena!SharesFair /\ [Arena!Next]_Arena!vars => Arena!SharesFair'
    <2> SUFFICES ASSUME Arena!SharesFair, [Arena!Next]_Arena!vars
                 PROVE  Arena!SharesFair'
      OBVIOUS
    <2>1. CASE Arena!Next
      BY <2>1, EvaluateSharesFairly DEF Arena!Next
    <2>2. CASE UNCHANGED Arena!vars
      BY <2>2 DEF Arena!vars, Arena!SharesFair
    <2> QED
      BY <2>1, <2>2
  <1> QED
    BY <1>1, <1>2, PTL DEF Arena!Spec

-----------------------------------------------------------------------------
(* The types of the runtime, the arena and the training split.              *)

RuntimeTypes ==
    RegistryInv /\ FilesTyped /\ stops \in 0 .. MaxStops /\ edits \in 0 .. MaxRegistryEdits

LEMMA RuntimeTypesNext ==
    ASSUME RuntimeTypes, [Runtime!Next]_(Runtime!vars)
    PROVE  RuntimeTypes'
  <1> USE BoundsAssumption DEF BoundsSensible
  <1>1. RegistryInv'
    BY RuntimeNext DEF RuntimeTypes
  <1>2. FilesTyped /\ stops \in 0 .. MaxStops /\ edits \in 0 .. MaxRegistryEdits
        /\ Challenger \subseteq Runtime!Strategies /\ Legacy \in Runtime!Strategies
    BY DEF RuntimeTypes, Runtime!Strategies
  <1>3. job.kind = "cohort" => job.cohort \subseteq Challenger
    BY DEF RuntimeTypes, RegistryInv, Held, Jobs, Runtime!Idle
  <1>4. CASE Runtime!Run
    <2>1. overlay' \in [Runtime!Strategies -> {"none", "models", "root"}]
      BY <1>2, <1>4 DEF FilesTyped, Runtime!Run, Runtime!Loadable, Runtime!Loads
    <2> QED
      BY <1>1, <1>2, <1>4, <2>1 DEF Runtime!Run, RuntimeTypes, FilesTyped
  <1>5. CASE Runtime!BootstrapStep
    BY <1>1, <1>2, <1>5 DEF Runtime!BootstrapStep, Runtime!Bootstrap, Runtime!BootstrapManifest,
                            Runtime!BootstrapRecord, RuntimeTypes, FilesTyped
  <1>6. CASE Runtime!ChampionStep
    BY <1>1, <1>2, <1>6 DEF Runtime!ChampionStep, Runtime!FreezeChampion,
            Runtime!ChampionMetadata, Runtime!ChampionReplayed, Runtime!ChampionPublished,
            Runtime!ChampionRaised, RuntimeTypes, FilesTyped
  <1>7. ASSUME NEW cohort \in SUBSET Challenger, Runtime!FreezeCohort(cohort)
        PROVE  RuntimeTypes'
    BY <1>1, <1>2, <1>7 DEF Runtime!FreezeCohort, Runtime!NoFailure, RuntimeTypes, FilesTyped
  <1>8. ASSUME NEW s \in Challenger,
               \/ Runtime!Train(s) \/ Runtime!Publish(s) \/ Runtime!OpenManifest(s)
               \/ Runtime!WriteManifest(s)
        PROVE  RuntimeTypes'
    BY <1>1, <1>2, <1>8 DEF Runtime!Train, Runtime!Publish, Runtime!OpenManifest,
                            Runtime!WriteManifest, RuntimeTypes, FilesTyped
  <1>9. CASE Runtime!Register \/ Runtime!Summary
    BY <1>1, <1>2, <1>9 DEF Runtime!Register, Runtime!Summary, RuntimeTypes, FilesTyped
  <1>10. CASE Runtime!CohortRaised
    <2>1. manifest' \in [Runtime!Strategies -> {"none", "torn", "models", "root"}]
          /\ root' \in [Runtime!Strategies -> {"absent", "models", "metadata", "whole"}]
      BY <1>2, <1>10 DEF Runtime!CohortRaised, Runtime!CleanedRoots, FilesTyped
    <2> QED
      BY <1>1, <1>2, <1>3, <1>10, <2>1 DEF Runtime!CohortRaised, RuntimeTypes, FilesTyped
  <1>11. CASE Runtime!Died
    BY <1>1, <1>2, <1>11 DEF Runtime!Died, RuntimeTypes, FilesTyped
  <1>12. CASE Runtime!SessionStep
    BY <1>1, <1>2, <1>12 DEF Runtime!SessionStep, Runtime!OpenSession, Runtime!CloseSession,
            Runtime!Transition, Runtime!Promote, Runtime!Save, RuntimeTypes, FilesTyped
  <1>13. CASE UNCHANGED Runtime!vars
    BY <1>1, <1>2, <1>13 DEF Runtime!vars, RuntimeTypes, FilesTyped
  <1> QED
    BY <1>4, <1>5, <1>6, <1>7, <1>8, <1>9, <1>10, <1>11, <1>12, <1>13
    DEF Runtime!Next, Runtime!CohortStep

\* TypeOK of StrategyRuntime: whatever raises, dies or is saved by an operator's session,
\* manifests, model directories, overlays and the registry are in a state the loader knows,
\* and only challengers' models are ever temporary (freeze_maturity_safe_finalists).
THEOREM RuntimeTypeCorrect == Runtime!Spec => []Runtime!TypeOK
  <1>1. Runtime!Init => RuntimeTypes
    BY RuntimeInit, BoundsAssumption
    DEF BoundsSensible, Runtime!Init, Runtime!NoFailure, RuntimeTypes, FilesTyped
  <1>2. RuntimeTypes /\ [Runtime!Next]_(Runtime!vars) => RuntimeTypes'
    BY RuntimeTypesNext
  <1>3. RuntimeTypes => Runtime!TypeOK
    BY DEF RuntimeTypes, Runtime!TypeOK, FilesTyped, RegistryInv, Held, Jobs, OpenSessions,
           Runtime!Idle
  <1> QED
    BY <1>1, <1>2, <1>3, PTL DEF Runtime!Spec

\* TypeOK of StrategyArena: shares are given to strategies only, and every lifecycle the
\* decision returns is one it accepts the next time (StrategyArena.evaluate).
THEOREM ArenaTypeCorrect == Arena!Spec => []Arena!TypeOK
  <1> ContestsSensible
    BY ArenaAssumption
  <1>1. Judged => Arena!TypeOK
    BY DEF Judged
  <1> QED
    BY <1>1, JudgedCorrect, PTL

-----------------------------------------------------------------------------
LEMMA RankedWithItself ==
    ASSUME NEW some, NEW x, NEW l \in Training!Candidates(some, x)
    PROVE  l.company \in l.peers
  <1> DEFINE sessionOf == [e \in Training!Public |-> Training!LiveSession(e, x)]
             rows == {r \in {Training!BaseRow(c, x, sessionOf) : c \in {CompanyOf[e] : e \in some}} :
                          r.triggers # {}}
             found(r) == [company |-> r.company, session |-> x, known |-> Training!Public,
                          triggers |-> r.triggers, prior |-> r.prior,
                          peers |-> Training!Peers(r, rows)]
  <1>1. l \in {found(r) : r \in rows}
    BY DEF Training!Candidates
  <1>2. PICK r \in rows : l = found(r)
    <2> HIDE DEF found, rows
    <2> QED
      BY <1>1
  <1> HIDE DEF rows
  <1> QED
    BY <1>2 DEF Training!Peers

RowsTyped ==
    /\ LiveInv
    /\ \A l \in live : l.company \in l.peers
    /\ asOf = {} <=> today < Training!Boundary

\* TypeOK of CandidateRows: nothing is used before it is public or before its session has
\* closed, a live candidate is ranked among its own session's companies, and the training
\* set is drawn at the boundary of the test year (CandidateSnapshotBuilder.build, annual_walk_forward_splits).
THEOREM TrainingTypeCorrect == Training!Spec => []Training!TypeOK
  <1> CalendarSensible /\ YearsSensible
    BY RowsAssumption
  <1>1. Training!Boundary \in 1 .. MaxDay /\ Training!Boundary # 1
    <2> DEFINE Y == {d \in Training!Day : YearOf[d] = TestYear}
    <2>1. Y \in SUBSET Nat /\ Y # {} /\ 1 \notin Y
      BY DEF CalendarSensible, YearsSensible, Training!Day
    <2> HIDE DEF Y
    <2>2. Training!Earliest(Y) \in Y
      BY <2>1, LeastDay
    <2> QED
      BY <2>1, <2>2, BoundaryIsDay DEF Training!Boundary, Y
  <1>2. Training!Init => RowsTyped
    BY <1>1, LiveInit DEF Training!Init, RowsTyped, CalendarSensible
  <1>3. RowsTyped /\ [Training!Next]_(Training!vars) => RowsTyped'
    <2> SUFFICES ASSUME RowsTyped, [Training!Next]_(Training!vars)
                 PROVE  RowsTyped'
      OBVIOUS
    <2>1. LiveInv /\ today \in 1 .. MaxDay
      BY DEF RowsTyped, LiveInv, RowsTypes
    <2>2. Training!Boundary' = Training!Boundary
      BY DEF Training!Boundary, Training!Earliest, Training!Day
    <2>3. CASE \E trading \in SUBSET Company : Training!NextDay(trading)
      <3>1. LiveInv'
        BY <2>1, <2>3, LiveNextDay
      <3>2. UNCHANGED live /\ today' = today + 1
            /\ asOf' = IF today' = Training!Boundary THEN {Training!Split} ELSE asOf
        BY <2>3 DEF Training!NextDay
      <3>3. asOf' = {} <=> today' < Training!Boundary
        BY <1>1, <2>1, <3>2 DEF RowsTyped, CalendarSensible
      <3> QED
        BY <2>2, <3>1, <3>2, <3>3 DEF RowsTyped
    <2>4. CASE \E e \in Event : Training!Publish(e)
      BY <2>1, <2>2, <2>4, LivePublish DEF Training!Publish, RowsTyped
    <2>5. CASE Training!Cycle
      <3>1. LiveInv'
        BY <2>1, <2>5, LiveCycle
      <3>2. /\ UNCHANGED <<today, asOf>>
            /\ \A l \in live' : \/ l \in live
                                \/ l \in Training!Candidates(
                                         Training!Batch(Training!NextIn(Sessions, today)),
                                         Training!NextIn(Sessions, today))
        BY <2>5 DEF Training!Cycle
      <3> QED
        BY <2>2, <3>1, <3>2, RankedWithItself DEF RowsTyped
    <2>6. CASE UNCHANGED Training!vars
      BY <2>1, <2>2, <2>6, LiveUnchanged DEF Training!vars, RowsTyped
    <2> QED
      BY <2>3, <2>4, <2>5, <2>6 DEF Training!Next
  <1>4. RowsTyped => Training!TypeOK
    BY DEF RowsTyped, LiveInv, RowsTypes, Assembled, Awaited, Training!TypeOK, Training!Day,
           Training!Closed, CalendarSensible
  <1> QED
    BY <1>2, <1>3, <1>4, PTL DEF Training!Spec

-----------------------------------------------------------------------------
(* The types of the calibration.                                            *)

LEMMA PercentileBounded ==
    ASSUME NEW rows, IsFiniteSet(rows), NEW score
    PROVE  Calibration!Percentile(rows, score) \in 0 .. 120
  <1> DEFINE below == {e \in rows : e.score < score}
             upTo == {e \in rows : e.score <= score}
             n == Cardinality(rows)
             a == Cardinality(below)
             b == Cardinality(upTo)
  <1>1. n \in Nat /\ a \in Nat /\ b \in Nat /\ a <= n /\ b <= n
    BY FS_Subset, FS_CardinalityType
  <1>2. rows # {} => n # 0
    BY FS_EmptySet
  <1>3. rows # {} => Calibration!Percentile(rows, score) = (60 * (a + b)) \div n
    BY SameCardinality DEF Calibration!Percentile
  <1>4. rows = {} => Calibration!Percentile(rows, score) = 60
    BY DEF Calibration!Percentile
  <1> HIDE DEF n, a, b
  <1>5. n # 0 => (60 * (a + b)) \div n \in 0 .. 120
    <2> SUFFICES ASSUME n # 0
                 PROVE  (60 * (a + b)) \div n \in 0 .. 120
      OBVIOUS
    <2> DEFINE x == 60 * (a + b)
    <2>1. x \in Nat /\ x <= 120 * n /\ n > 0
      BY <1>1
    <2> HIDE DEF x
    <2>2. x \div n \in 0 .. 120
      BY <1>1, <2>1, SMT
    <2> QED
      BY <2>2 DEF x
  <1> QED
    BY <1>2, <1>3, <1>4, <1>5

LEMMA ImageFinite ==
    ASSUME NEW S, IsFiniteSet(S), NEW f, f = [x \in S |-> f[x]]
    PROVE  IsFiniteSet({f[x] : x \in S})
  <1>1. f \in Surjection(S, {f[x] : x \in S})
    BY DEF Surjection
  <1> QED
    BY <1>1, FS_Surjection

LEMMA RowsFinite ==
    ASSUME CalibrationSensible, NEW rows, rows \subseteq Calibration!ScoreRows
    PROVE  IsFiniteSet(rows)
  <1> DEFINE dates == {DayOf[c] : c \in Candidate}
             keys == (dates \X Candidate) \X (0 .. 480)
             row == [t \in keys |-> [day |-> t[1][1], of |-> t[1][2], score |-> t[2]]]
  <1>1. IsFiniteSet(dates)
    BY ImageFinite DEF CalibrationSensible
  <1>2. IsFiniteSet(dates \X Candidate)
    BY <1>1, FS_Product DEF CalibrationSensible
  <1>3. IsFiniteSet(keys)
    <2> DEFINE least == 0
               most == 480
    <2>1. least \in Int /\ most \in Int
      OBVIOUS
    <2>2. IsFiniteSet(least .. most)
      <3> HIDE DEF least, most
      <3> QED
        BY <2>1, FS_Interval
    <2>3. keys = (dates \X Candidate) \X (least .. most)
      OBVIOUS
    <2> HIDE DEF dates, least, most, keys
    <2> QED
      BY <1>2, <2>2, <2>3, FS_Product
  <1>4. IsFiniteSet({row[t] : t \in keys})
    <2> HIDE DEF keys
    <2> QED
      BY <1>3, ImageFinite
  <1>5. Calibration!ScoreRows \subseteq {row[t] : t \in keys}
    <2> SUFFICES ASSUME NEW r \in Calibration!ScoreRows
                 PROVE  r \in {row[t] : t \in keys}
      OBVIOUS
    <2>1. r.day \in dates /\ r.of \in Candidate /\ r.score \in 0 .. 480
          /\ r = [day |-> r.day, of |-> r.of, score |-> r.score]
      BY DEF Calibration!ScoreRows
    <2>2. <<<<r.day, r.of>>, r.score>> \in keys
      BY <2>1
    <2>3. r = row[<<<<r.day, r.of>>, r.score>>]
      BY <2>1, <2>2
    <2> HIDE DEF keys, row
    <2> QED
      BY <2>2, <2>3
  <1> HIDE DEF row, keys
  <1> QED
    BY <1>4, <1>5, FS_Subset

\* Of the eligible horizons one is best.
LEMMA ChosenIsEligible ==
    ASSUME PredictionsSensible, predicted \in Predictions, NEW c \in Candidate,
           Calibration!Eligible(c) # {}, NEW s \in [Horizon -> Int]
    PROVE  Calibration!Chosen(c, s) \in Calibration!Eligible(c)
  <1> DEFINE E == Calibration!Eligible(c)
             Best(T) == \E h \in T : \A k \in T : Calibration!Better(c, s, h, k)
             Good == {T \in SUBSET E : T = {} \/ Best(T)}
  <1>1. E \subseteq Horizon /\ IsFiniteSet(E)
    BY FS_Subset DEF Calibration!Eligible, PredictionsSensible
  <1>2. \A h \in Horizon : h \in Int /\ s[h] \in Int /\ predicted[c][h].return \in Int
    BY DEF PredictionsSensible
  <1>3. \A h, k \in Horizon : Calibration!Better(c, s, h, k) \/ Calibration!Better(c, s, k, h)
    BY <1>2 DEF Calibration!Better
  <1>4. \A h, k, l \in Horizon :
            Calibration!Better(c, s, h, k) /\ Calibration!Better(c, s, k, l)
              => Calibration!Better(c, s, h, l)
    BY <1>2 DEF Calibration!Better
  <1>5. \A T \in Good : \A x \in E \ T : T \cup {x} \in Good
    <2> SUFFICES ASSUME NEW T \in Good, NEW x \in E \ T
                 PROVE  Best(T \cup {x})
      OBVIOUS
    <2>1. Calibration!Better(c, s, x, x)
      BY <1>1, <1>3
    <2>2. CASE T = {}
      BY <2>1, <2>2
    <2>3. CASE T # {}
      <3>1. PICK h \in T : \A k \in T : Calibration!Better(c, s, h, k)
        BY <2>3
      <3>2. CASE Calibration!Better(c, s, h, x)
        BY <3>1, <3>2
      <3>3. CASE Calibration!Better(c, s, x, h)
        <4>1. \A k \in T : Calibration!Better(c, s, x, k)
          BY <1>1, <1>4, <3>1, <3>3
        <4> QED
          BY <2>1, <4>1
      <3> QED
        BY <1>1, <1>3, <3>2, <3>3
    <2> QED
      BY <2>2, <2>3
  <1>6. E \in Good
    <2>1. {} \in Good /\ Good \in SUBSET SUBSET E
      OBVIOUS
    <2> HIDE DEF Good, E
    <2> QED
      BY <1>1, <1>5, <2>1, EveryFiniteSet
  <1>7. Best(E)
    BY <1>6
  <1> QED
    BY <1>7 DEF Calibration!Chosen

\* A signal is at most that of the best percentiles.
LEMMA SignalBounded ==
    ASSUME CalibrationSensible, PredictionsSensible, predicted \in Predictions,
           NEW cal, Calibration!IsCalibration(cal), NEW date, NEW c \in Candidate,
           Calibration!Eligible(c) # {}
    PROVE  Calibration!Signal(cal, date, c) \in 0 .. 480
  <1> DEFINE s == Calibration!Signals(cal, date, c)
  <1>1. s \in [Horizon -> 0 .. 480]
    <2>1. ASSUME NEW h \in Horizon
          PROVE  /\ Calibration!Percentile(Calibration!Past(cal.profit[h], date),
                                           predicted[c][h].profit) \in 0 .. 120
                 /\ Calibration!Percentile(Calibration!Past(cal.alpha[h], date),
                                           predicted[c][h].alpha) \in 0 .. 120
      <3>1. /\ Calibration!Past(cal.profit[h], date) \subseteq Calibration!ScoreRows
            /\ Calibration!Past(cal.alpha[h], date) \subseteq Calibration!ScoreRows
        BY DEF Calibration!IsCalibration, Calibration!Past
      <3> QED
        BY <3>1, RowsFinite, PercentileBounded
    <2>2. \A p, a \in 0 .. 120 : Calibration!Combined(p, a) \in 0 .. 480
      BY DEF Calibration!Combined
    <2> QED
      BY <2>1, <2>2 DEF Calibration!Signals
  <1>2. s \in [Horizon -> Int]
    BY <1>1
  <1> HIDE DEF s
  <1>3. Calibration!Chosen(c, s) \in Horizon
    BY <1>2, ChosenIsEligible DEF Calibration!Eligible
  <1> QED
    BY <1>1, <1>3 DEF Calibration!Signal, s

LEMMA StaticSignalBounded ==
    ASSUME CalibrationSensible, PredictionsSensible, predicted \in Predictions,
           NEW c \in Candidate, Calibration!Eligible(c) # {}
    PROVE  Calibration!StaticSignal(c) \in 0 .. 480
  <1> DEFINE s == Calibration!StaticSignals(c)
  <1>1. s \in [Horizon -> 0 .. 480]
    <2>1. ASSUME NEW h \in Horizon
          PROVE  s[h] \in 0 .. 480
      <3> DEFINE profit == [x \in Seeded |-> [of |-> x, score |-> predicted[x][h].profit]]
                 alpha == [x \in Seeded |-> [of |-> x, score |-> predicted[x][h].alpha]]
                 p == Calibration!Percentile({profit[x] : x \in Seeded}, predicted[c][h].profit)
                 a == Calibration!Percentile({alpha[x] : x \in Seeded}, predicted[c][h].alpha)
      <3>1. IsFiniteSet(Seeded)
        BY FS_Subset DEF CalibrationSensible
      <3>2. IsFiniteSet({profit[x] : x \in Seeded}) /\ IsFiniteSet({alpha[x] : x \in Seeded})
        BY <3>1, ImageFinite
      <3>3. s[h] = Calibration!Combined(p, a)
        BY DEF Calibration!StaticSignals
      <3> HIDE DEF profit, alpha
      <3>4. p \in 0 .. 120 /\ a \in 0 .. 120
        BY <3>2, PercentileBounded
      <3> HIDE DEF p, a, s
      <3> QED
        BY <3>3, <3>4 DEF Calibration!Combined
    <2> QED
      BY <2>1 DEF Calibration!StaticSignals
  <1>2. s \in [Horizon -> Int]
    BY <1>1
  <1> HIDE DEF s
  <1>3. Calibration!Chosen(c, s) \in Horizon
    BY <1>2, ChosenIsEligible DEF Calibration!Eligible
  <1> QED
    BY <1>1, <1>3 DEF Calibration!StaticSignal, s

LEMMA UpdatedTyped ==
    ASSUME NEW history, history \subseteq Calibration!ScoreRows, NEW date, NEW scores,
           \A c \in DOMAIN scores : c \in Candidate /\ DayOf[c] = date /\ scores[c] \in 0 .. 480
    PROVE  Calibration!Updated(history, date, scores) \subseteq Calibration!ScoreRows
BY DEF Calibration!Updated, Calibration!Past, Calibration!ScoreRows

LEMMA EvaluatedTyped ==
    ASSUME CalibrationSensible, PredictionsSensible, predicted \in Predictions,
           NEW cal, Calibration!IsCalibration(cal), NEW date,
           NEW cands, cands \subseteq {c \in Candidate : DayOf[c] = date}
    PROVE  Calibration!IsCalibration(Calibration!Evaluated(cal, date, cands))
  <1>1. ASSUME NEW h \in Horizon
        PROVE  /\ Calibration!Updated(cal.profit[h], date, [c \in cands |-> predicted[c][h].profit])
                    \subseteq Calibration!ScoreRows
               /\ Calibration!Updated(cal.alpha[h], date, [c \in cands |-> predicted[c][h].alpha])
                    \subseteq Calibration!ScoreRows
    <2>1. \A c \in cands : c \in Candidate /\ DayOf[c] = date
                           /\ predicted[c][h].profit \in 0 .. 480
                           /\ predicted[c][h].alpha \in 0 .. 480
      BY DEF PredictionsSensible
    <2> QED
      BY <2>1, UpdatedTyped DEF Calibration!IsCalibration
  <1>2. Calibration!Updated(cal.final, date,
            [c \in Calibration!Ranked(cands) |->
                IF Calibration!Eligible(c) = {} THEN 0 ELSE Calibration!Signal(cal, date, c)])
          \subseteq Calibration!ScoreRows
    <2>1. \A c \in Calibration!Ranked(cands) :
              /\ c \in Candidate /\ DayOf[c] = date
              /\ Calibration!Signal(cal, date, c) \in 0 .. 480
      BY SignalBounded DEF Calibration!Ranked, Calibration!Tradable
    <2>2. 0 \in 0 .. 480
      OBVIOUS
    <2> QED
      BY <2>1, <2>2, UpdatedTyped DEF Calibration!IsCalibration
  <1> QED
    BY <1>1, <1>2 DEF Calibration!Evaluated, Calibration!IsCalibration

LEMMA FrozenTyped ==
    ASSUME CalibrationSensible, PredictionsSensible, predicted \in Predictions
    PROVE  Calibration!IsCalibration(Calibration!Frozen)
  <1>1. \A c \in Seeded, h \in Horizon :
            c \in Candidate /\ predicted[c][h].profit \in 0 .. 480
            /\ predicted[c][h].alpha \in 0 .. 480
    BY DEF CalibrationSensible, PredictionsSensible
  <1>2. \A c \in Calibration!Tradable(Seeded) :
            c \in Candidate /\ Calibration!StaticSignal(c) \in 0 .. 480
    BY <1>1, StaticSignalBounded DEF Calibration!Tradable, CalibrationSensible
  <1> QED
    BY <1>1, <1>2 DEF Calibration!Frozen, Calibration!IsCalibration, Calibration!ScoreRows

CalibrationTypes ==
    /\ CalibrationInv
    /\ predicted \in Predictions
    /\ batch \subseteq arrived /\ emitted \subseteq batch
    /\ disk = None \/ Calibration!IsCalibration(disk)
    /\ (memory = None) = (step = "idle")
    /\ memory # None => Calibration!IsCalibration(memory)
    /\ \A r \in receipts : r.emitted \subseteq r.batch

LEMMA CalibrationTypesNext ==
    ASSUME CalibrationSensible, PredictionsSensible, CalibrationTypes,
           CalibrationInv', [Calibration!Next]_(Calibration!vars)
    PROVE  CalibrationTypes'
  <1>1. \A cal : Calibration!IsCalibration(cal)' <=> Calibration!IsCalibration(cal)
    BY DEF Calibration!IsCalibration
  <1>2. CASE \E c \in Candidate : Calibration!Arrive(c)
    BY <1>1, <1>2 DEF Calibration!Arrive, CalibrationTypes
  <1>3. CASE Calibration!Evaluate
    <2>1. Calibration!IsCalibration(Calibration!Restored)
      BY FrozenTyped DEF CalibrationTypes, Calibration!Restored
    <2>2. batch' \subseteq {c \in Candidate : DayOf[c] = today} /\ batch' \subseteq arrived
      BY <1>3 DEF Calibration!Evaluate, CalibrationTypes, CalibrationInv, Dated
    <2>3. Calibration!IsCalibration(memory') /\ memory' # None
      BY <1>3, <2>1, <2>2, EvaluatedTyped, EvaluatedIsNoNone DEF Calibration!Evaluate,
         CalibrationTypes
    <2>4. emitted' \subseteq batch'
      BY <1>3 DEF Calibration!Evaluate, Calibration!Decide, Calibration!Tradable
    <2> QED
      BY <1>1, <1>3, <2>2, <2>3, <2>4 DEF Calibration!Evaluate, CalibrationTypes
  <1>4. CASE Calibration!Checkpoint
    BY <1>1, <1>4 DEF Calibration!Checkpoint, CalibrationTypes
  <1>5. CASE Calibration!Complete
    BY <1>1, <1>5 DEF Calibration!Complete, CalibrationTypes
  <1>6. CASE Calibration!Crash
    BY <1>1, <1>6 DEF Calibration!Crash, CalibrationTypes
  <1>7. CASE Calibration!NextDay \/ UNCHANGED Calibration!vars
    BY <1>1, <1>7 DEF Calibration!NextDay, Calibration!vars, CalibrationTypes
  <1> QED
    BY <1>2, <1>3, <1>4, <1>5, <1>6, <1>7 DEF Calibration!Next

\* TypeOK of RollingCalibration: what memory and file hold are calibrations of recorded
\* scores, memory is there exactly between evaluation and return, and receipts name what
\* their batch emitted (V5AdaptiveHorizonStrategy.evaluate,
\* FileRuntimeStrategyStateStore).
THEOREM CalibrationTypeCorrect ==
    ASSUME NoOverlayApart
    PROVE  Calibration!Spec => []Calibration!TypeOK
  <1> CalibrationSensible /\ PredictionsSensible
    BY CalibrationAssumption, PredictionsAssumption DEF CalibrationSensible
  <1>1. Calibration!Init => CalibrationTypes
    BY CalibrationInit DEF Calibration!Init, CalibrationTypes
  <1>2. CalibrationTypes /\ CalibrationInv' /\ [Calibration!Next]_(Calibration!vars)
          => CalibrationTypes'
    BY CalibrationTypesNext
  <1>3. CalibrationTypes => Calibration!TypeOK
    BY DEF CalibrationTypes, CalibrationInv, Dated, Deciding, Calibration!TypeOK, Calibration!Live,
           Calibration!Days, Days
  <1> QED
    BY <1>1, <1>2, <1>3, CalibrationInvCorrect, PTL DEF Calibration!Spec

-----------------------------------------------------------------------------
(* Folds: from the whole of a finite set, the last element is taken out until *)
(* nothing is left.                                                           *)

\* A choice of one element of each nonempty set of D.
Takes(last, D) == \A s \in D : s # {} => last[s] \in s

\* What holds of the empty set and of a set when it holds of the set without its last
\* element holds of all finite sets.
LEMMA EveryRest ==
    ASSUME NEW S, IsFiniteSet(S), NEW last, Takes(last, SUBSET S),
           NEW Good \in SUBSET SUBSET S, {} \in Good,
           \A s \in SUBSET S : s # {} /\ s \ {last[s]} \in Good => s \in Good
    PROVE  \A s \in SUBSET S : s \in Good
  <1> DEFINE P == {n \in Nat : \A s \in SUBSET S : Cardinality(s) = n => s \in Good}
  <1>1. \A s \in SUBSET S : IsFiniteSet(s) /\ Cardinality(s) \in Nat
    BY FS_Subset, FS_CardinalityType
  <1>2. 0 \in P
    <2>1. \A s \in SUBSET S : Cardinality(s) = 0 => s = {}
      BY <1>1, FS_EmptySet
    <2> QED
      BY <2>1
  <1>3. ASSUME NEW n \in P
        PROVE  n + 1 \in P
    <2>1. ASSUME NEW s \in SUBSET S, Cardinality(s) = n + 1
          PROVE  s \in Good
      <3>0. n \in Nat
        OBVIOUS
      <3>1. s # {}
        <4> HIDE DEF P
        <4> QED
          BY <1>1, <2>1, <3>0, FS_EmptySet
      <3>2. last[s] \in s
        BY <3>1 DEF Takes
      <3>3. Cardinality(s \ {last[s]}) = Cardinality(s) - 1
        BY <1>1, <3>2, FS_RemoveElement
      <3> DEFINE c == Cardinality(s \ {last[s]})
      <3>4. c = n
        <4> HIDE DEF P, c
        <4> QED
          BY <1>1, <2>1, <3>0, <3>3 DEF c
      <3>5. s \ {last[s]} \in Good
        BY <3>4
      <3> QED
        BY <3>1, <3>5
    <2>2. n + 1 \in Nat
      OBVIOUS
    <2> QED
      BY <2>1, <2>2
  <1>4. \A s \in SUBSET S : Cardinality(s) \in P
    <2>1. P \in SUBSET Nat
      OBVIOUS
    <2> HIDE DEF P
    <2> QED
      BY <1>1, <1>2, <1>3, <2>1, EveryNumber
  <1> QED
    BY <1>1, <1>4

\* The values of a fold over the sets of D, from base on.
Walk(table, last, f, base, D) ==
    table = [s \in D |-> IF s = {} THEN base ELSE f[<<last[s], table[s \ {last[s]}]>>]]

LEMMA WalkExists ==
    ASSUME NEW S, IsFiniteSet(S), NEW last, Takes(last, SUBSET S), NEW f, NEW base
    PROVE  \E table : Walk(table, last, f, base, SUBSET S)
  <1> DEFINE Small(n) == {T \in SUBSET S : Cardinality(T) <= n}
             P == {n \in Nat : \E table : Walk(table, last, f, base, Small(n))}
  <1>1. \A T \in SUBSET S : IsFiniteSet(T) /\ Cardinality(T) \in Nat
    BY FS_Subset, FS_CardinalityType
  <1>2. 0 \in P
    <2>1. \A T \in Small(0) : T = {}
      BY <1>1, FS_EmptySet
    <2> HIDE DEF Small
    <2>2. Walk([T \in Small(0) |-> base], last, f, base, Small(0))
      BY <2>1 DEF Walk
    <2> QED
      BY <2>2
  <1>3. ASSUME NEW n \in P
        PROVE  n + 1 \in P
    <2>1. PICK table : Walk(table, last, f, base, Small(n))
      OBVIOUS
    <2> DEFINE more == [T \in Small(n + 1) |->
                          IF T = {} THEN base ELSE f[<<last[T], table[T \ {last[T]}]>>]]
    <2>2. ASSUME NEW T \in Small(n + 1), T # {}
          PROVE  /\ T \ {last[T]} \in Small(n)
                 /\ T \ {last[T]} \in Small(n + 1)
      <3>1. last[T] \in T
        BY <2>2 DEF Takes
      <3>2. IsFiniteSet(T) /\ Cardinality(T) \in Nat /\ Cardinality(T) <= n + 1 /\ n \in Nat
        BY <1>1
      <3>3. Cardinality(T \ {last[T]}) = Cardinality(T) - 1
        BY <3>1, <3>2, FS_RemoveElement
      <3>4. T \ {last[T]} \in SUBSET S
        OBVIOUS
      <3> DEFINE c == Cardinality(T \ {last[T]})
      <3>5. c <= n /\ c <= n + 1
        <4> HIDE DEF Small, P, c
        <4> QED
          BY <3>2, <3>3 DEF c
      <3> QED
        BY <3>4, <3>5
    <2>3. \A T \in Small(n) : more[T] = table[T]
      <3>1. \A T \in Small(n) : T \in Small(n + 1)
        <4>1. n \in Nat
          OBVIOUS
        <4> QED
          BY <1>1, <4>1
      <3> HIDE DEF Small, P
      <3> QED
        BY <2>1, <3>1 DEF Walk
    <2>4. Walk(more, last, f, base, Small(n + 1))
      <3> HIDE DEF Small, P
      <3> QED
        BY <2>2, <2>3 DEF Walk
    <2> HIDE DEF Small, more
    <2> QED
      BY <2>4
  <1>4. Cardinality(S) \in P
    <2>1. Cardinality(S) \in Nat /\ P \in SUBSET Nat
      BY FS_CardinalityType
    <2> HIDE DEF P
    <2> QED
      BY <1>2, <1>3, <2>1, EveryNumber
  <1>5. Small(Cardinality(S)) = SUBSET S
    BY FS_Subset
  <1> HIDE DEF Small
  <1> QED
    BY <1>4, <1>5

\* A fold that stays among some values has them everywhere.
LEMMA WalkStays ==
    ASSUME NEW S, IsFiniteSet(S), NEW last, Takes(last, SUBSET S),
           NEW Values, NEW base \in Values, NEW f,
           \A c \in S, x \in Values : f[<<c, x>>] \in Values,
           NEW table, Walk(table, last, f, base, SUBSET S)
    PROVE  \A s \in SUBSET S : table[s] \in Values
  <1> DEFINE Good == {s \in SUBSET S : table[s] \in Values}
  <1>1. {} \in Good
    BY DEF Walk
  <1>2. ASSUME NEW s \in SUBSET S, s # {}, s \ {last[s]} \in Good
        PROVE  s \in Good
    <2>1. table[s] = f[<<last[s], table[s \ {last[s]}]>>] /\ last[s] \in S
      BY <1>2 DEF Walk, Takes
    <2> QED
      BY <1>2, <2>1
  <1>3. \A s \in SUBSET S : s \in Good
    <2> Good \in SUBSET SUBSET S
      OBVIOUS
    <2> HIDE DEF Good
    <2> QED
      BY <1>1, <1>2, EveryRest
  <1> QED
    BY <1>3

\* Of numbers that score there is one that comes last: of the least score, and of those
\* the greatest.
LEMMA LastExists ==
    ASSUME NEW S \in SUBSET Int, IsFiniteSet(S), NEW score, \A v \in S : score[v] \in Int
    PROVE  \A some \in SUBSET S :
             some # {} => \E v \in some : \A u \in some \ {v} :
                            score[u] > score[v] \/ (score[u] = score[v] /\ u < v)
  <1> DEFINE Ends(some, v) == \A u \in some \ {v} :
                                  score[u] > score[v] \/ (score[u] = score[v] /\ u < v)
             Good == {some \in SUBSET S : some # {} => \E v \in some : Ends(some, v)}
  <1>1. {} \in Good
    OBVIOUS
  <1>2. ASSUME NEW T \in Good, NEW x \in S \ T
        PROVE  T \cup {x} \in Good
    <2>1. CASE T = {}
      <3>1. Ends(T \cup {x}, x)
        BY <2>1
      <3> QED
        BY <2>1, <3>1
    <2>2. CASE T # {}
      <3>1. PICK v \in T : Ends(T, v)
        BY <2>2
      <3>2. CASE score[v] > score[x] \/ (score[v] = score[x] /\ v < x)
        <4>1. Ends(T \cup {x}, x)
          BY <3>1, <3>2
        <4> QED
          BY <4>1
      <3>3. CASE ~ (score[v] > score[x] \/ (score[v] = score[x] /\ v < x))
        <4>1. Ends(T \cup {x}, v)
          BY <3>1, <3>3
        <4> QED
          BY <4>1
      <3> QED
        BY <3>2, <3>3
    <2> QED
      BY <2>1, <2>2
  <1>3. \A some \in SUBSET S : some \in Good
    <2> SUFFICES ASSUME NEW some \in SUBSET S PROVE some \in Good
      OBVIOUS
    <2>1. IsFiniteSet(some)
      BY FS_Subset
    <2> DEFINE Part == Good \cap SUBSET some
    <2>2. Part \in SUBSET SUBSET some /\ {} \in Part
      BY <1>1
    <2>3. \A T \in Part : \A x \in some \ T : T \cup {x} \in Part
      <3> HIDE DEF Good
      <3> QED
        BY <1>2
    <2>4. some \in Part
      <3> HIDE DEF Part
      <3> QED
        BY <2>1, <2>2, <2>3, EveryFiniteSet
    <2> QED
      BY <2>4
  <1> QED
    BY <1>3

-----------------------------------------------------------------------------
(* The types of a generation.                                              *)

LEMMA TotalOfRows ==
    ASSUME NEW rows, IsFiniteSet(rows), \A r \in rows : Return[r] \in Int
    PROVE  Generation!Total(rows) \in Int
  <1>1. Generation!Total(rows) = Arena!Total(Return, rows)
    BY DEF Generation!Total, Generation!MapThenSumSet, Generation!MapThenFoldSet,
           Arena!Total, Arena!MapThenSumSet, Arena!MapThenFoldSet
  <1> QED
    BY <1>1, TotalSplits

\* What a worker wrote for hypotheses of the generation.
Screened(results) ==
    /\ DOMAIN results \subseteq Variant
    /\ \A v \in DOMAIN results : \E d : results[v] = Generation!Evaluation(v, d)

LEMMA ScoreIsNumber ==
    ASSUME PicksSensible, VariantsSensible, NEW results, Screened(results), NEW v \in DOMAIN results
    PROVE  Generation!Score(results[v]) \in Int
  <1>1. PICK d : results[v] = Generation!Evaluation(v, d)
    BY DEF Screened
  <1>2. Generation!TradesOf(results[v]) \subseteq Row
    <2>1. \A y \in DOMAIN Generation!Evaluation(v, d).years :
              Generation!Evaluation(v, d).years[y] \subseteq Row
      BY TradesOfYear
    <2>2. \A y \in DOMAIN results[v].years : results[v].years[y] \subseteq Row
      BY <1>1, <2>1
    <2> QED
      BY <2>2 DEF Generation!TradesOf
  <1>3. IsFiniteSet(Generation!TradesOf(results[v]))
    BY <1>2, FS_Subset DEF VariantsSensible
  <1>4. \A r \in Generation!TradesOf(results[v]) : Return[r] \in Int
    BY <1>2 DEF VariantsSensible
  <1> QED
    BY <1>3, <1>4, TotalOfRows DEF Generation!Score

\* Finalists are hypotheses of the generation.
LEMMA FinalistsTyped ==
    ASSUME PicksSensible, VariantsSensible, NEW results, Screened(results)
    PROVE  Generation!Finalists(results) \in Seq(Variant)
  <1> DEFINE S == {v \in DOMAIN results : Generation!Score(results[v]) > 0}
             score == [v \in S |-> Generation!Score(results[v])]
             last == [some \in SUBSET S |-> Generation!Weakest(results, some)]
             Values == Seq(Variant)
             f == [pair \in S \X Values |-> Generation!Admit(results, pair[1], pair[2])]
             Fold(table) == table = [some \in SUBSET S |->
                IF some = {} THEN << >>
                ELSE Generation!Admit(results, Generation!Weakest(results, some),
                                      table[some \ {Generation!Weakest(results, some)}])]
  <1>1. S \subseteq Variant /\ IsFiniteSet(S) /\ S \in SUBSET Int
    BY FS_Subset DEF Screened, VariantsSensible
  <1>2. \A some \in SUBSET S : some # {} => Generation!Weakest(results, some) \in some
    <2>1. \A v \in S : score[v] \in Int
      BY ScoreIsNumber
    <2>2. \A some \in SUBSET S :
            some # {} => \E v \in some : \A u \in some \ {v} :
                           score[u] > score[v] \/ (score[u] = score[v] /\ u < v)
      <3> HIDE DEF S, score
      <3> QED
        BY <1>1, <2>1, LastExists
    <2>3. \A some \in SUBSET S :
            some # {} => \E v \in some : \A u \in some \ {v} :
                           \/ Generation!Score(results[u]) > Generation!Score(results[v])
                           \/ Generation!Score(results[u]) = Generation!Score(results[v]) /\ u < v
      <3>1. \A v \in S : score[v] = Generation!Score(results[v])
        OBVIOUS
      <3> HIDE DEF S, score
      <3> QED
        BY <2>2, <3>1
    <2> HIDE DEF S
    <2> QED
      BY <2>3 DEF Generation!Weakest
  <1>3. Takes(last, SUBSET S)
    <2> HIDE DEF S
    <2> QED
      BY <1>2 DEF Takes
  <1>4. \A v \in S, s \in Values : Generation!Admit(results, v, s) \in Values
    <2> HIDE DEF S
    <2>1. \A v \in S, s \in Values : Append(s, v) \in Values
      BY <1>1
    <2> QED
      BY <2>1 DEF Generation!Admit
  <1>5. \A v \in S, s \in Values : f[<<v, s>>] \in Values
        /\ f[<<v, s>>] = Generation!Admit(results, v, s)
    <2> HIDE DEF S, Values
    <2> QED
      BY <1>4
  <1>6. << >> \in Values
    OBVIOUS
  <1>7. \A table : (\A s \in SUBSET S : table[s] \in Values) =>
                     (Fold(table) <=> Walk(table, last, f, << >>, SUBSET S))
    <2> SUFFICES ASSUME NEW table, \A s \in SUBSET S : table[s] \in Values
                 PROVE  Fold(table) <=> Walk(table, last, f, << >>, SUBSET S)
      OBVIOUS
    <2>1. \A s \in SUBSET S : s # {} =>
            f[<<last[s], table[s \ {last[s]}]>>]
              = Generation!Admit(results, Generation!Weakest(results, s),
                                 table[s \ {Generation!Weakest(results, s)}])
      <3> SUFFICES ASSUME NEW s \in SUBSET S, s # {}
                   PROVE  f[<<last[s], table[s \ {last[s]}]>>]
                            = Generation!Admit(results, Generation!Weakest(results, s),
                                               table[s \ {Generation!Weakest(results, s)}])
        OBVIOUS
      <3>1. last[s] = Generation!Weakest(results, s) /\ last[s] \in S
        BY <1>2
      <3>2. table[s \ {last[s]}] \in Values
        OBVIOUS
      <3> HIDE DEF f, last, Values, S
      <3> QED
        BY <1>5, <3>1, <3>2
    <2> HIDE DEF f, last, Values, S
    <2> QED
      BY <2>1 DEF Walk
  <1>8. PICK walk : Walk(walk, last, f, << >>, SUBSET S)
    <2> HIDE DEF f, last, Values, S
    <2> QED
      BY <1>1, <1>3, WalkExists
  <1>9. \A s \in SUBSET S : walk[s] \in Values
    <2> HIDE DEF f, last, Values, S
    <2> QED
      BY <1>1, <1>3, <1>5, <1>6, <1>8, WalkStays
  <1>10. Fold(walk)
    <2> HIDE DEF Fold, f, last, Values, S
    <2> QED
      BY <1>7, <1>8, <1>9
  <1>11. Generation!Finalists(results) = (CHOOSE table : Fold(table))[S]
    BY DEF Generation!Finalists, Generation!MapThenFoldSet
  <1> DEFINE table == CHOOSE t : Fold(t)
  <1>12. Fold(table)
    <2> HIDE DEF Fold
    <2> QED
      BY <1>10
  <1> HIDE DEF table
  <1> DEFINE Good == {s \in SUBSET S : table[s] \in Values}
  <1>13. {} \in Good
    BY <1>12
  <1>14. ASSUME NEW s \in SUBSET S, s # {}, s \ {last[s]} \in Good
         PROVE  s \in Good
    <2>1. last[s] = Generation!Weakest(results, s) /\ last[s] \in S
      BY <1>2, <1>14
    <2>2. table[s] = Generation!Admit(results, last[s], table[s \ {last[s]}])
      <3> HIDE DEF last
      <3> QED
        BY <1>12, <1>14, <2>1
    <2>3. table[s \ {last[s]}] \in Values
      BY <1>14
    <2> HIDE DEF last, S, Values, f, Fold
    <2> QED
      BY <1>4, <2>1, <2>2, <2>3
  <1>15. \A s \in SUBSET S : s \in Good
    <2> Good \in SUBSET SUBSET S
      OBVIOUS
    <2> HIDE DEF Good, S, last, f, Fold, Values
    <2>1. \A s \in SUBSET S : s # {} /\ s \ {last[s]} \in Good => s \in Good
      BY <1>14
    <2>2. IsFiniteSet(S) /\ Good \in SUBSET SUBSET S
      BY <1>1
    <2> QED
      BY <1>3, <1>13, <2>1, <2>2, EveryRest
  <1>16. table[S] \in Values
    <2> HIDE DEF S
    <2> QED
      BY <1>15
  <1> QED
    BY <1>11, <1>16 DEF table

\* A run of the screening, and the files that name hypotheses.
Run(s) ==
    /\ s = [step |-> "screening", data |-> s.data, results |-> s.results, failed |-> s.failed]
    /\ Screened(s.results) /\ s.failed \subseteq Variant
Ranked(r) == r.failed \subseteq Variant /\ r.finalists \in Seq(Variant)
Qualified(q) == \A i \in DOMAIN q.finalists : q.finalists[i].variant \in Variant

GenerationTypes ==
    /\ data \in Data /\ edits \in 0 .. MaxEdits /\ faults \in 0 .. MaxFaults
    /\ DOMAIN screening = Screener
    /\ \A p \in Screener : screening[p] = Generation!Idle \/ Run(screening[p])
    /\ report \in {None, Torn} \/ Ranked(report)
    /\ qualifying = Generation!Idle \/ (qualifying.step = "qualifying" /\ Ranked(qualifying.report))
    /\ qualification \in {None, Torn} \/ Qualified(qualification)
    /\ \/ freezing = Generation!Idle
       \/ freezing.step = "freezing" /\ Qualified(freezing.qualification)
    /\ \A g \in registry : g.variant \in Variant

LEMMA GenerationTypesInit ==
    ASSUME BoundsSensible, Generation!Init
    PROVE  GenerationTypes
BY DEF BoundsSensible, Generation!Init, GenerationTypes

\* One more result.
LEMMA OneMoreResult ==
    ASSUME NEW s, Run(s), NEW v \in Variant
    PROVE  /\ Run([s EXCEPT !.results = Generation!With(@, v, Generation!Evaluation(v, s.data))])
           /\ Run([s EXCEPT !.failed = @ \cup {v}])
  <1> DEFINE more == Generation!With(s.results, v, Generation!Evaluation(v, s.data))
             a == [s EXCEPT !.results = more]
             b == [s EXCEPT !.failed = @ \cup {v}]
  <1>1. /\ s = [step |-> "screening", data |-> s.data, results |-> s.results, failed |-> s.failed]
        /\ Screened(s.results) /\ s.failed \subseteq Variant
    BY DEF Run
  <1>2. Screened(more)
    <2>1. DOMAIN more = DOMAIN s.results \cup {v}
      BY DEF Generation!With
    <2>2. more[v] = Generation!Evaluation(v, s.data)
      BY DEF Generation!With
    <2>3. \A u \in DOMAIN s.results : u # v => more[u] = s.results[u]
      BY DEF Generation!With
    <2> HIDE DEF more
    <2> QED
      BY <1>1, <2>1, <2>2, <2>3 DEF Screened
  <1> HIDE DEF more
  <1>3. a = [step |-> "screening", data |-> s.data, results |-> more, failed |-> s.failed]
    BY <1>1
  <1>4. b = [step |-> "screening", data |-> s.data, results |-> s.results,
             failed |-> s.failed \cup {v}]
    BY <1>1
  <1>5. Run(a)
    <2>1. a.results = more /\ a.failed = s.failed /\ a.data = s.data
      BY <1>3
    <2> HIDE DEF a
    <2> QED
      BY <1>1, <1>2, <1>3, <2>1 DEF Run
  <1>6. Run(b)
    <2>1. b.results = s.results /\ b.failed = s.failed \cup {v} /\ b.data = s.data
      BY <1>4
    <2> HIDE DEF b
    <2> QED
      BY <1>1, <1>4, <2>1 DEF Run
  <1> QED
    BY <1>5, <1>6 DEF more

LEMMA GenerationTypesNext ==
    ASSUME BoundsSensible, PicksSensible, VariantsSensible, GenerationTypes,
           [Generation!Next]_Generation!vars
    PROVE  GenerationTypes'
  <1>0. edits \in Nat /\ faults \in Nat /\ faults <= MaxFaults /\ MaxEdits \in Nat
        /\ MaxFaults \in Nat
    BY DEF GenerationTypes, BoundsSensible
  <1>1. CASE Generation!Edit
    <2>1. /\ edits < MaxEdits /\ edits' = edits + 1 /\ data' \in Data
          /\ UNCHANGED <<faults, screening, report, qualifying, qualification, freezing, registry>>
      BY <1>1 DEF Generation!Edit, Generation!commands
    <2> QED
      BY <1>0, <2>1 DEF GenerationTypes
  <1>2. ASSUME NEW p \in Screener, Generation!StartScreening(p)
        PROVE  GenerationTypes'
    <2> DEFINE started == [step |-> "screening", data |-> data, results |-> <<>>, failed |-> {}]
    <2>1. /\ screening' = [screening EXCEPT ![p] = started]
          /\ UNCHANGED <<data, edits, faults, report, qualifying, qualification, freezing,
                        registry>>
      BY <1>2 DEF Generation!StartScreening
    <2>2. Run(started)
      <3>1. DOMAIN started.results = {} /\ started.failed = {}
        OBVIOUS
      <3> QED
        BY <3>1 DEF Run, Screened
    <2> HIDE DEF started
    <2>3. /\ DOMAIN screening' = Screener
          /\ \A q \in Screener : screening'[q] = IF q = p THEN started ELSE screening[q]
      BY <2>1 DEF GenerationTypes
    <2> QED
      BY <2>1, <2>2, <2>3 DEF GenerationTypes
  <1>3. ASSUME NEW p \in Screener, NEW v \in Variant, Generation!Screen(p, v)
        PROVE  GenerationTypes'
    <2> DEFINE s == screening[p]
               more ==
                 [s EXCEPT !.results = Generation!With(@, v, Generation!Evaluation(v, s.data))]
               fewer == [s EXCEPT !.failed = @ \cup {v}]
    <2>1. /\ screening[p].step = "screening"
          /\ screening' \in {[screening EXCEPT ![p] = more], [screening EXCEPT ![p] = fewer]}
          /\ faults' \in {faults, faults + 1} /\ (faults' # faults => faults < MaxFaults)
          /\ UNCHANGED <<data, edits, report, qualifying, qualification, freezing, registry>>
      BY <1>3 DEF Generation!Screen
    <2>2. Run(s)
      BY <2>1 DEF GenerationTypes, Generation!Idle
    <2>3. Run(more) /\ Run(fewer)
      BY <2>2, OneMoreResult
    <2> HIDE DEF more, fewer
    <2>4. /\ DOMAIN screening' = Screener
          /\ \A q \in Screener : q # p => screening'[q] = screening[q]
          /\ screening'[p] \in {more, fewer}
      BY <2>1 DEF GenerationTypes
    <2>5. faults' \in 0 .. MaxFaults
      BY <1>0, <2>1
    <2> QED
      BY <2>1, <2>3, <2>4, <2>5 DEF GenerationTypes
  <1>4. ASSUME NEW p \in Screener, Generation!WriteReport(p)
        PROVE  GenerationTypes'
    <2> DEFINE s == screening[p]
    <2>1. /\ s.step = "screening"
          /\ report' = [exclusions |-> Generation!Cardinality(s.data.excluded),
                        results |-> s.results,
                        failed |-> s.failed, finalists |-> Generation!Finalists(s.results)]
          /\ screening' = [screening EXCEPT ![p] = Generation!Idle]
          /\ UNCHANGED <<data, edits, faults, qualifying, qualification, freezing, registry>>
      BY <1>4 DEF Generation!WriteReport
    <2>2. Run(s)
      BY <2>1 DEF GenerationTypes, Generation!Idle
    <2>3. report'.failed = s.failed /\ report'.finalists = Generation!Finalists(s.results)
      BY <2>1
    <2> HIDE DEF s
    <2>4. Ranked(report')
      BY <2>2, <2>3, FinalistsTyped DEF Run, Ranked
    <2>5. /\ DOMAIN screening' = Screener
          /\ \A q \in Screener : screening'[q] = IF q = p THEN Generation!Idle ELSE screening[q]
      BY <2>1 DEF GenerationTypes
    <2> QED
      BY <2>1, <2>4, <2>5 DEF GenerationTypes, Ranked
  <1>5. CASE Generation!StartQualification
    <2>1. /\ report \notin {None, Torn}
          /\ qualifying' = [step |-> "qualifying", data |-> data, report |-> report]
          /\ UNCHANGED <<data, edits, faults, screening, report, qualification, freezing, registry>>
      BY <1>5 DEF Generation!StartQualification
    <2>2. Ranked(qualifying'.report) /\ qualifying'.step = "qualifying"
      BY <2>1 DEF GenerationTypes
    <2> QED
      BY <2>1, <2>2 DEF GenerationTypes, Ranked
  <1>6. CASE Generation!Qualify
    <2> DEFINE f == qualifying.report.finalists
               made == [i \in DOMAIN f |-> [variant |-> f[i],
                             result |-> Generation!Evaluation(f[i], qualifying.data)]]
    <2>1. /\ qualifying.step = "qualifying" /\ qualifying' = Generation!Idle
          /\ qualification' = qualification \/ qualification'.finalists = made
          /\ UNCHANGED <<data, edits, faults, screening, report, freezing, registry>>
      BY <1>6 DEF Generation!Qualify
    <2>2. f \in Seq(Variant)
      BY <2>1 DEF GenerationTypes, Ranked, Generation!Idle
    <2>3. DOMAIN made = DOMAIN f /\ \A i \in DOMAIN f : made[i].variant \in Variant
      <3> HIDE DEF f
      <3> QED
        BY <2>2
    <2> HIDE DEF f, made
    <2>4. qualification' = qualification \/ Qualified(qualification')
      BY <2>1, <2>3 DEF Qualified
    <2> QED
      BY <2>1, <2>4 DEF GenerationTypes, Qualified
  <1>7. CASE Generation!StartFreeze
    <2>1. /\ qualification \notin {None, Torn}
          /\ freezing' = [step |-> "freezing", data |-> data, report |-> report,
                          qualification |-> qualification]
          /\ UNCHANGED <<data, edits, faults, screening, report, qualifying, qualification,
                        registry>>
      BY <1>7 DEF Generation!StartFreeze
    <2>2. freezing'.qualification = qualification /\ freezing'.step = "freezing"
      BY <2>1
    <2>3. Qualified(freezing'.qualification)
      BY <2>1, <2>2 DEF GenerationTypes
    <2> QED
      BY <2>1, <2>2, <2>3 DEF GenerationTypes, Qualified
  <1>8. CASE Generation!Freeze
    <2> DEFINE f == freezing
               cohort == {f.qualification.finalists[i] : i \in Generation!Selected(f.qualification)}
               Made(g) == [variant |-> g.variant, scorecard |-> g.result,
                           trained |-> Generation!Split(g.variant,
                                           Generation!FrozenRows(g.variant, f.data), ModelYear),
                           report |-> f.report]
    <2>1. /\ f.step = "freezing" /\ freezing' = Generation!Idle
          /\ UNCHANGED <<data, edits, faults, screening, report, qualifying, qualification>>
      BY <1>8 DEF Generation!Freeze
    <2>2. \A g \in registry' : g \in registry \/ \E c \in cohort : g = Made(c)
      BY <1>8 DEF Generation!Freeze
    <2>3. Qualified(f.qualification)
      BY <2>1 DEF GenerationTypes, Generation!Idle
    <2>4. \A c \in cohort : c.variant \in Variant
      BY <2>3 DEF Qualified, Generation!Selected
    <2>5. \A c : Made(c).variant = c.variant
      OBVIOUS
    <2> HIDE DEF Made, cohort, f
    <2>6. \A g \in registry' : g.variant \in Variant
      BY <2>2, <2>4, <2>5 DEF GenerationTypes
    <2> QED
      BY <2>1, <2>6 DEF GenerationTypes
  <1>9. CASE Generation!Die
    <2>1. /\ faults < MaxFaults /\ faults' = faults + 1
          /\ UNCHANGED <<data, edits, registry>>
      BY <1>9 DEF Generation!Die
    <2>2. faults' \in 0 .. MaxFaults
      BY <1>0, <2>1
    <2>3. ASSUME NEW p \in Screener, screening' = [screening EXCEPT ![p] = Generation!Idle]
          PROVE  /\ DOMAIN screening' = Screener
                 /\ \A q \in Screener : screening'[q] = Generation!Idle \/ Run(screening'[q])
      BY <2>3 DEF GenerationTypes
    <2>4. /\ DOMAIN screening' = Screener
          /\ \A q \in Screener : screening'[q] = Generation!Idle \/ Run(screening'[q])
      <3>1. \/ screening' = screening
            \/ \E p \in Screener : screening' = [screening EXCEPT ![p] = Generation!Idle]
        BY <1>9 DEF Generation!Die
      <3> QED
        BY <2>3, <3>1 DEF GenerationTypes
    <2>5. report' \in {report, Torn} /\ qualification' \in {qualification, Torn}
      BY <1>9 DEF Generation!Die
    <2>6. qualifying' \in {qualifying, Generation!Idle} /\ freezing' \in {freezing, Generation!Idle}
      BY <1>9 DEF Generation!Die
    <2> QED
      BY <2>1, <2>2, <2>4, <2>5, <2>6 DEF GenerationTypes
  <1>10. CASE UNCHANGED Generation!vars
    BY <1>10 DEF Generation!vars, GenerationTypes
  <1> QED
    BY <1>1, <1>2, <1>3, <1>4, <1>5, <1>6, <1>7, <1>8, <1>9, <1>10 DEF Generation!Next

LEMMA GenerationTyped == GenerationTypes => Generation!TypeOK
BY DEF GenerationTypes, Generation!TypeOK, Generation!Idle, Run, Ranked

\* TypeOK of StrategyResearch: a report's failures and the registered challengers are
\* hypotheses of the generation, whoever screens at the same time and whatever dies.
THEOREM GenerationTypeCorrect == Generation!Spec => []Generation!TypeOK
  <1> BoundsSensible /\ PicksSensible /\ VariantsSensible
    BY BoundsAssumption, PicksAssumption, VariantsAssumption
  <1>1. Generation!Init => GenerationTypes
    BY GenerationTypesInit
  <1>2. GenerationTypes /\ [Generation!Next]_Generation!vars => GenerationTypes'
    BY GenerationTypesNext
  <1> QED
    BY <1>1, <1>2, GenerationTyped, PTL DEF Generation!Spec

-----------------------------------------------------------------------------
(* The types of the books.                                                 *)

Position == [c : Trade, capital : Nat \ {0}]
Books ==
    {k \in [cash : Nat, open : SUBSET Position,
            done : SUBSET [c : Trade, capital : Nat, pnl : Int]] :
        IsFiniteSet(k.open)}

\* What the sums of the backtesters are.
LEMMA InvestedIsTotal ==
    ASSUME NEW S, IsFiniteSet(S)
    PROVE  Replay!Invested(S) = Arena!Total([p \in S |-> p.capital], S)
  <1> DEFINE f == [p \in S |-> p.capital]
             Fold(t) == t = [s \in SUBSET S |-> IF s = {} THEN 0
                               ELSE (CHOOSE x \in s : TRUE).capital
                                        + t[s \ {CHOOSE x \in s : TRUE}]]
  <1>1. \A t : Fold(t) <=> Sums(t, f, SUBSET S)
    <2>1. \A s \in SUBSET S : s # {} => f[Chosen(s)] = Chosen(s).capital
      <3>1. \A s \in SUBSET S : s # {} => Chosen(s) \in S
        BY DEF Chosen
      <3> QED
        BY <3>1
    <2> HIDE DEF f
    <2> QED
      BY <2>1 DEF Sums, Chosen
  <1>2. PICK t : Sums(t, f, SUBSET S)
    <2> HIDE DEF f
    <2> QED
      BY SumsExist
  <1>3. Fold(CHOOSE u : Fold(u))
    <2> HIDE DEF Fold, f
    <2> QED
      BY <1>1, <1>2
  <1> DEFINE table == CHOOSE u : Fold(u)
  <1>4. Replay!Invested(S) = table[S]
    BY DEF Replay!Invested, Replay!MapThenSumSet, Replay!MapThenFoldSet
  <1> HIDE DEF Fold, f, table
  <1>5. Sums(table, f, SUBSET S)
    BY <1>1, <1>3 DEF table
  <1>6. Arena!Total(f, S) = table[S]
    BY <1>5, TotalOfSubset
  <1> QED
    BY <1>4, <1>6 DEF f

LEMMA ReturnedIsTotal ==
    ASSUME NEW earned, IsFiniteSet(DOMAIN earned)
    PROVE  Replay!Returned(earned)
             = Arena!Total([p \in DOMAIN earned |-> p.capital + earned[p]], DOMAIN earned)
  <1> DEFINE S == DOMAIN earned
             f == [p \in S |-> p.capital + earned[p]]
             Fold(t) == t = [s \in SUBSET S |-> IF s = {} THEN 0
                               ELSE ((CHOOSE x \in s : TRUE).capital
                                        + earned[CHOOSE x \in s : TRUE])
                                      + t[s \ {CHOOSE x \in s : TRUE}]]
  <1>1. \A t : Fold(t) <=> Sums(t, f, SUBSET S)
    <2>1. \A s \in SUBSET S : s # {} => f[Chosen(s)] = Chosen(s).capital + earned[Chosen(s)]
      <3>1. \A s \in SUBSET S : s # {} => Chosen(s) \in S
        BY DEF Chosen
      <3> HIDE DEF S
      <3> QED
        BY <3>1
    <2> HIDE DEF f, S
    <2> QED
      BY <2>1 DEF Sums, Chosen
  <1>2. PICK t : Sums(t, f, SUBSET S)
    <2> HIDE DEF f, S
    <2> QED
      BY SumsExist DEF S
  <1>3. Fold(CHOOSE u : Fold(u))
    <2> HIDE DEF Fold, f
    <2> QED
      BY <1>1, <1>2
  <1> DEFINE table == CHOOSE u : Fold(u)
  <1>4. Replay!Returned(earned) = table[S]
    BY DEF Replay!Returned, Replay!MapThenSumSet, Replay!MapThenFoldSet
  <1> HIDE DEF Fold, f, table
  <1>5. Sums(table, f, SUBSET S)
    BY <1>1, <1>3 DEF table
  <1>6. Arena!Total(f, S) = table[S]
    <2>1. IsFiniteSet(S) /\ S \in SUBSET S
      OBVIOUS
    <2> HIDE DEF S
    <2> QED
      BY <1>5, <2>1, TotalOfSubset
  <1> QED
    BY <1>4, <1>6 DEF f

LEMMA InvestedIsNumber ==
    ASSUME NEW S, IsFiniteSet(S), S \subseteq Position
    PROVE  Replay!Invested(S) \in Int
  <1> DEFINE f == [p \in S |-> p.capital]
  <1>1. \A p \in S : f[p] \in Int
    BY DEF Position
  <1> HIDE DEF f
  <1>2. Arena!Total(f, S) \in Int
    BY <1>1, TotalSplits
  <1> QED
    BY <1>2, InvestedIsTotal DEF f

\* The smaller of two numbers, the least and the greatest of a few.
LEMMA SmallerIs ==
    ASSUME NEW a \in Int, NEW b \in Int
    PROVE  /\ Replay!Smaller(a, b) \in {a, b}
           /\ Replay!Smaller(a, b) <= a /\ Replay!Smaller(a, b) <= b
  <1>1. \E x \in {a, b} : \A y \in {a, b} : x =< y
    BY a <= b \/ b <= a
  <1> QED
    BY <1>1 DEF Replay!Smaller, Replay!Min

LEMMA LargerIs ==
    ASSUME NEW a \in Int, NEW b \in Int
    PROVE  Replay!Max({a, b}) \in {a, b}
  <1>1. \E x \in {a, b} : \A y \in {a, b} : x >= y
    BY a <= b \/ b <= a
  <1> QED
    BY <1>1 DEF Replay!Max

LEMMA LeastIs ==
    ASSUME NEW a \in Int, NEW b \in Int, NEW c \in Int, NEW S, NEW r \in Int, S \in {{}, {r}}
    PROVE  /\ Replay!Min({a, b, c} \cup S) \in Int
           /\ Replay!Min({a, b, c} \cup S) <= a
  <1>1. \A x, y \in Int : Replay!Smaller(x, y) \in Int /\ Replay!Smaller(x, y) <= x
        /\ Replay!Smaller(x, y) <= y /\ Replay!Smaller(x, y) \in {x, y}
    BY SmallerIs
  <1> DEFINE m == Replay!Smaller(a, Replay!Smaller(b, c))
             n == Replay!Smaller(m, r)
  <1>2. m \in {a, b, c} /\ m \in Int /\ m <= a /\ m <= b /\ m <= c
    <2> DEFINE l == Replay!Smaller(b, c)
    <2>1. l \in {b, c} /\ l \in Int /\ l <= b /\ l <= c
      BY <1>1
    <2> HIDE DEF l
    <2>2. Replay!Smaller(a, l) \in {a, l} /\ Replay!Smaller(a, l) <= a /\ Replay!Smaller(a, l) <= l
      BY <1>1, <2>1
    <2> QED
      BY <2>1, <2>2 DEF l
  <1>3. n \in {m, r} /\ n \in Int /\ n <= m /\ n <= r
    BY <1>1, <1>2
  <1> HIDE DEF m, n
  <1>4. \E x \in {a, b, c} \cup S : \A y \in {a, b, c} \cup S : x =< y
    <2>1. CASE S = {}
      BY <1>2, <2>1
    <2>2. CASE S = {r}
      BY <1>2, <1>3, <2>2
    <2> QED
      BY <2>1, <2>2
  <1>5. {a, b, c} \cup S \subseteq Int
    OBVIOUS
  <1> QED
    BY <1>4, <1>5 DEF Replay!Min

\* A position more.
LEMMA EnterIs ==
    ASSUME NEW k \in Books, NEW c, NEW capital
    PROVE  /\ Replay!Enter(k, c, capital).cash = k.cash - capital
           /\ Replay!Enter(k, c, capital).open = k.open \cup {[c |-> c, capital |-> capital]}
           /\ Replay!Enter(k, c, capital).done = k.done
  <1> DEFINE D == SUBSET [c : Trade, capital : Nat, pnl : Int]
             more == k.open \cup {[c |-> c, capital |-> capital]}
             less == k.cash - capital
             e == [k EXCEPT !.cash = less, !.open = more]
  <1>1. k \in [cash : Nat, open : SUBSET Position, done : D]
    BY DEF Books
  <1>2. e = Replay!Enter(k, c, capital)
    BY DEF Replay!Enter
  <1> HIDE DEF D, more, less
  <1>3. e.cash = less /\ e.open = more /\ e.done = k.done
    BY <1>1
  <1> HIDE DEF e
  <1> QED
    BY <1>2, <1>3 DEF more, less

LEMMA EnterTyped ==
    ASSUME NEW k \in Books, NEW c \in Trade, NEW capital \in Int, capital > 0, capital <= k.cash
    PROVE  Replay!Enter(k, c, capital) \in Books
  <1> DEFINE D == SUBSET [c : Trade, capital : Nat, pnl : Int]
             p == [c |-> c, capital |-> capital]
             more == k.open \cup {p}
             less == k.cash - capital
             e == [k EXCEPT !.cash = less, !.open = more]
  <1>1. k \in [cash : Nat, open : SUBSET Position, done : D] /\ IsFiniteSet(k.open)
    BY DEF Books
  <1>2. e = Replay!Enter(k, c, capital)
    BY DEF Replay!Enter
  <1>3. p \in Position
    BY DEF Position
  <1>4. more \in SUBSET Position /\ IsFiniteSet(more) /\ less \in Nat
    <2>1. IsFiniteSet(k.open \cup {p}) /\ k.open \subseteq Position
      <3> HIDE DEF p
      <3> QED
        BY <1>1, FS_AddElement
    <2> QED
      BY <1>1, <1>3, <2>1
  <1> HIDE DEF D, p, more, less
  <1>5. e \in [cash : Nat, open : SUBSET Position, done : D] /\ e.open = more
    BY <1>1, <1>4
  <1> HIDE DEF e
  <1> QED
    BY <1>2, <1>4, <1>5 DEF Books, D

LEMMA BookIs ==
    ASSUME NEW k \in Books
    PROVE  /\ k.cash \in Nat /\ k.open \in SUBSET Position /\ IsFiniteSet(k.open)
           /\ Replay!Gross(k) \in Int /\ Replay!Equity(k) \in Int
           /\ \A near \in SUBSET k.open : Replay!Invested(near) \in Int
  <1>1. k.cash \in Nat /\ k.open \in SUBSET Position /\ IsFiniteSet(k.open)
    BY DEF Books
  <1>2. ASSUME NEW near \in SUBSET k.open
        PROVE  Replay!Invested(near) \in Int
    <2>1. IsFiniteSet(near) /\ near \subseteq Position
      BY <1>1, FS_Subset
    <2> QED
      BY <2>1, InvestedIsNumber
  <1>3. Replay!Gross(k) \in Int
    BY <1>2 DEF Replay!Gross
  <1> QED
    BY <1>1, <1>2, <1>3 DEF Replay!Equity

LEMMA LegacyEntryTyped ==
    ASSUME TradesSensible, NEW k \in Books, NEW c \in Trade, NEW tranches
    PROVE  Replay!LegacyEntry(k, c, tranches) \in Books
  <1> DEFINE share == (Replay!Equity(k) * Alloc) \div 100
             capital == Replay!Smaller(k.cash, share)
             room == /\ Replay!Cardinality(Replay!Held(k, c)) < tranches
                     /\ Replay!Cardinality(k.open) < MaxOpen
  <1>0. Replay!LegacyEntry(k, c, tranches)
          = IF room /\ capital > 0 THEN Replay!Enter(k, c, capital) ELSE k
    BY Zenon DEF Replay!LegacyEntry
  <1> HIDE DEF room
  <1>1. share \in Int /\ k.cash \in Int
    BY BookIs DEF TradesSensible
  <1> HIDE DEF share
  <1>2. capital \in Int /\ capital <= k.cash
    BY <1>1, SmallerIs
  <1> HIDE DEF capital
  <1>3. \/ Replay!LegacyEntry(k, c, tranches) = k
        \/ capital > 0 /\ Replay!LegacyEntry(k, c, tranches) = Replay!Enter(k, c, capital)
    BY <1>0
  <1> QED
    BY <1>2, <1>3, EnterTyped

LEMMA SizedEntryTyped ==
    ASSUME TradesSensible, NEW k \in Books, NEW c \in Trade, NEW linked, NEW pct \in Int
    PROVE  Replay!SizedEntry(k, c, linked, pct) \in Books
  <1> DEFINE near == Replay!Neighbours(k, c, linked)
             share == (Replay!Equity(k) * pct) \div 100
             gross == (Replay!Equity(k) * MaxGross) \div 100 - Replay!Gross(k)
             room == (Replay!Equity(k) * NearCap) \div 100 - Replay!Invested(near)
             rooms == {room : p \in near}
             capital == Replay!Min({k.cash, share, gross} \cup rooms)
             open == /\ Replay!Held(k, c) = {}
                     /\ Replay!Cardinality(k.open) < MaxOpen
                     /\ Replay!Equity(k) > 0
                     /\ capital >= (Replay!Equity(k) * MinAlloc) \div 100
  <1>0. Replay!SizedEntry(k, c, linked, pct)
          = IF open /\ capital > 0 THEN Replay!Enter(k, c, capital) ELSE k
    BY Zenon DEF Replay!SizedEntry
  <1> HIDE DEF open
  <1>1. near \in SUBSET k.open
    BY DEF Replay!Neighbours
  <1>2. /\ k.cash \in Int /\ Replay!Gross(k) \in Int /\ Replay!Equity(k) \in Int
        /\ Replay!Invested(near) \in Int
    BY <1>1, BookIs
  <1>3. MaxGross \in Int /\ NearCap \in Int
    BY DEF TradesSensible
  <1> HIDE DEF near
  <1>4. share \in Int /\ gross \in Int /\ room \in Int
    <2> DEFINE e == Replay!Equity(k)
    <2>1. e * pct \in Int /\ e * MaxGross \in Int /\ e * NearCap \in Int
      BY <1>2, <1>3
    <2> QED
      BY <1>2, <2>1
  <1>5. rooms \in {{}, {room}}
    <2> HIDE DEF room
    <2> QED
      OBVIOUS
  <1> HIDE DEF share, gross, room, rooms
  <1>6. capital \in Int /\ capital <= k.cash
    BY <1>2, <1>4, <1>5, LeastIs
  <1> HIDE DEF capital
  <1>7. \/ Replay!SizedEntry(k, c, linked, pct) = k
        \/ capital > 0 /\ Replay!SizedEntry(k, c, linked, pct) = Replay!Enter(k, c, capital)
    BY <1>0
  <1> QED
    BY <1>6, <1>7, EnterTyped

\* The shares.
LEMMA SharesAreNumbers ==
    ASSUME TradesSensible, NEW c \in Trade, NEW near
    PROVE  Replay!OverlayPct(c, near) \in Int /\ Replay!IntelligentPct(c, near) \in Int
  <1>1. /\ Alloc \in Int /\ MinAlloc \in Int /\ TopAlloc \in Int
        /\ Throttle[c] \in Int /\ Quality[c] \in Int
    BY DEF TradesSensible
  <1>2. Replay!OverlayPct(c, near) \in Int
    <2> DEFINE cap == IF near THEN 70 ELSE 100
               s == Replay!Smaller(Throttle[c], cap)
               t == (Alloc * s) \div 100
    <2>1. s \in Int
      <3>1. cap \in Int
        OBVIOUS
      <3> HIDE DEF cap
      <3> QED
        BY <1>1, <3>1, SmallerIs
    <2> HIDE DEF s
    <2>2. t \in Int
      <3>1. Alloc * s \in Int
        BY <1>1, <2>1
      <3> QED
        BY <3>1
    <2> HIDE DEF t
    <2>3. Replay!Max({MinAlloc, t}) \in Int
      BY <1>1, <2>2, LargerIs
    <2> QED
      BY <2>3 DEF Replay!OverlayPct, t, s
  <1>3. Replay!IntelligentPct(c, near) \in Int
    <2> DEFINE cap == IF near THEN 50 ELSE 100
               t == (Alloc * Quality[c] * cap) \div 10000
               s == Replay!Smaller(TopAlloc, t)
    <2>1. t \in Int
      <3>1. cap \in Int
        OBVIOUS
      <3> HIDE DEF cap
      <3>2. Alloc * Quality[c] \in Int
        BY <1>1
      <3>3. Alloc * Quality[c] * cap \in Int
        BY <3>1, <3>2
      <3> QED
        BY <3>3
    <2> HIDE DEF t
    <2>2. s \in Int
      BY <1>1, <2>1, SmallerIs
    <2> HIDE DEF s
    <2>3. Replay!Max({MinAlloc, s}) \in Int
      BY <1>1, <2>2, LargerIs
    <2> QED
      BY <2>3 DEF Replay!IntelligentPct, s, t
  <1> QED
    BY <1>2, <1>3

LEMMA FillTyped ==
    ASSUME NEW k \in Books, NEW c \in Trade, NEW target \in Int
    PROVE  Replay!Fill(k, c, target) \in Books
  <1> DEFINE capital == Replay!Smaller(k.cash, target)
  <1>1. capital \in Int /\ capital <= k.cash
    BY BookIs, SmallerIs
  <1> HIDE DEF capital
  <1>2. Replay!Fill(k, c, target) = IF capital > 0 THEN Replay!Enter(k, c, capital) ELSE k
    BY DEF Replay!Fill, capital
  <1> QED
    BY <1>1, <1>2, EnterTyped

\* No backtester makes more of a candidate than a position.
LEMMA ConsideredTyped ==
    ASSUME TradesSensible, NEW b \in Replay!Backtesters, NEW c \in Trade, NEW x \in Books,
           NEW k \in Books, NEW linked, NEW refused
    PROVE  Replay!Considered(b, c, x, k, linked, refused) \in Books
  <1>1. Replay!Target(k) \in Int
    <2>1. Replay!Equity(k) * Alloc \in Int
      BY BookIs DEF TradesSensible
    <2> QED
      BY <2>1 DEF Replay!Target
  <1>2. /\ Replay!LegacyEntry(x, c, 1) \in Books /\ Replay!LegacyEntry(x, c, MaxTranches) \in Books
        /\ Replay!Fill(x, c, Replay!Target(k)) \in Books
    BY <1>1, LegacyEntryTyped, FillTyped
  <1>3. Replay!OverlayEntry(x, c, linked) \in Books
        /\ Replay!IntelligentEntry(x, c, linked) \in Books
    BY SharesAreNumbers, SizedEntryTyped DEF Replay!OverlayEntry, Replay!IntelligentEntry
  <1>4. Replay!LiquidFill(x, c, Replay!Target(k), refused) \in Books
    BY <1>2 DEF Replay!LiquidFill
  <1> QED
    BY <1>2, <1>3, <1>4 DEF Replay!Considered, Replay!Backtesters

\* The candidates of a day, and what the walks take out of them.
LEMMA LastIs ==
    ASSUME TradesSensible, plan \in Plans, NEW S \in SUBSET Trade
    PROVE  /\ IsFiniteSet(S)
           /\ \A s \in SUBSET S : s # {} => Replay!Last(s) \in s
           /\ Takes([s \in SUBSET S |-> Replay!Last(s)], SUBSET S)
  <1>1. IsFiniteSet(S) /\ S \in SUBSET Int /\ \A c \in S : plan.score[c] \in Int
    BY FS_Subset DEF TradesSensible
  <1>2. \A s \in SUBSET S :
          s # {} => \E c \in s : \A x \in s \ {c} :
                      plan.score[x] > plan.score[c] \/ (plan.score[x] = plan.score[c] /\ x < c)
    BY <1>1, LastExists
  <1>3. \A s \in SUBSET S : s # {} => Replay!Last(s) \in s
    BY <1>2 DEF Replay!Last, Replay!Before
  <1> QED
    BY <1>1, <1>3 DEF Takes

\* The allocations of a day as a walk.
Allocating(k, d, table) ==
    /\ Replay!Allocations(k, d) = table[Replay!Entries(d)]
    /\ table[{}] = {}
    /\ \A s \in SUBSET Replay!Entries(d) :
         /\ table[s] \in SUBSET s
         /\ s # {} => table[s] = Replay!Allocate(k, Replay!Last(s), table[s \ {Replay!Last(s)}])

LEMMA AllocationsWalk ==
    ASSUME TradesSensible, plan \in Plans, NEW k, NEW d
    PROVE  \E table : Allocating(k, d, table)
  <1> DEFINE S == Replay!Entries(d)
             last == [s \in SUBSET S |-> Replay!Last(s)]
             Values == SUBSET S
             f == [pair \in S \X Values |-> Replay!Allocate(k, pair[1], pair[2])]
             Fold(table) == table = [s \in SUBSET S |->
                IF s = {} THEN {}
                ELSE Replay!Allocate(k, Replay!Last(s), table[s \ {Replay!Last(s)}])]
  <1>1. S \in SUBSET Trade
    BY DEF Replay!Entries
  <1>2. /\ IsFiniteSet(S)
        /\ \A s \in SUBSET S : s # {} => Replay!Last(s) \in s
        /\ Takes(last, SUBSET S)
    <2> HIDE DEF S
    <2> QED
      BY <1>1, LastIs
  <1>4. \A c \in S, x \in Values : Replay!Allocate(k, c, x) \in Values
    <2> HIDE DEF S
    <2> QED
      BY DEF Replay!Allocate
  <1>5. \A c \in S, x \in Values : f[<<c, x>>] \in Values /\ f[<<c, x>>] = Replay!Allocate(k, c, x)
    <2> HIDE DEF S, Values
    <2> QED
      BY <1>4
  <1>6. {} \in Values
    OBVIOUS
  <1>7. \A table : (\A s \in SUBSET S : table[s] \in Values) =>
                     (Fold(table) <=> Walk(table, last, f, {}, SUBSET S))
    <2> SUFFICES ASSUME NEW table, \A s \in SUBSET S : table[s] \in Values
                 PROVE  Fold(table) <=> Walk(table, last, f, {}, SUBSET S)
      OBVIOUS
    <2>1. \A s \in SUBSET S : s # {} =>
            f[<<last[s], table[s \ {last[s]}]>>]
              = Replay!Allocate(k, Replay!Last(s), table[s \ {Replay!Last(s)}])
      <3> SUFFICES ASSUME NEW s \in SUBSET S, s # {}
                   PROVE  f[<<last[s], table[s \ {last[s]}]>>]
                            = Replay!Allocate(k, Replay!Last(s), table[s \ {Replay!Last(s)}])
        OBVIOUS
      <3>1. last[s] = Replay!Last(s) /\ last[s] \in S
        <4> HIDE DEF S
        <4> QED
          BY <1>2
      <3>2. table[s \ {last[s]}] \in Values
        OBVIOUS
      <3> HIDE DEF f, last, Values, S
      <3> QED
        BY <1>5, <3>1, <3>2
    <2> HIDE DEF f, last, Values, S
    <2> QED
      BY <2>1 DEF Walk
  <1>8. PICK walk : Walk(walk, last, f, {}, SUBSET S)
    <2> HIDE DEF f, last, Values, S
    <2> QED
      BY <1>1, <1>2, WalkExists
  <1>9. \A s \in SUBSET S : walk[s] \in Values
    <2> HIDE DEF f, last, Values, S
    <2> QED
      BY <1>1, <1>2, <1>5, <1>6, <1>8, WalkStays
  <1>10. Fold(walk)
    <2> HIDE DEF Fold, f, last, Values, S
    <2> QED
      BY <1>7, <1>8, <1>9
  <1> DEFINE table == CHOOSE t : Fold(t)
  <1>11. Replay!Allocations(k, d) = table[S]
    BY DEF Replay!Allocations, Replay!MapThenFoldSet
  <1>12. Fold(table)
    <2> HIDE DEF Fold
    <2> QED
      BY <1>10
  <1> HIDE DEF table
  <1> DEFINE Good == {s \in SUBSET S : table[s] \in SUBSET s}
  <1>13. table[{}] = {}
    BY <1>12
  <1>14. \A s \in SUBSET S : s # {} =>
            table[s] = Replay!Allocate(k, Replay!Last(s), table[s \ {Replay!Last(s)}])
    <2> HIDE DEF S
    <2> QED
      BY <1>12
  <1>15. ASSUME NEW s \in SUBSET S, s # {}, s \ {last[s]} \in Good
         PROVE  s \in Good
    <2>1. last[s] = Replay!Last(s) /\ last[s] \in s
      <3> HIDE DEF S
      <3> QED
        BY <1>2, <1>15
    <2>2. table[s] = Replay!Allocate(k, last[s], table[s \ {last[s]}])
      <3> HIDE DEF last, S
      <3> QED
        BY <1>14, <1>15, <2>1
    <2>3. table[s \ {last[s]}] \in SUBSET (s \ {last[s]})
      BY <1>15
    <2> HIDE DEF last, S, f, Fold
    <2>4. table[s] \in SUBSET s
      BY <2>1, <2>2, <2>3 DEF Replay!Allocate
    <2> QED
      BY <2>4
  <1>16. \A s \in SUBSET S : s \in Good
    <2>1. Good \in SUBSET SUBSET S /\ {} \in Good
      BY <1>13
    <2> HIDE DEF Good, S, last, f, Fold, Values
    <2>2. \A s \in SUBSET S : s # {} /\ s \ {last[s]} \in Good => s \in Good
      BY <1>15
    <2>3. IsFiniteSet(S) /\ Takes(last, SUBSET S)
      BY <1>2
    <2> QED
      BY <2>1, <2>2, <2>3, EveryRest
  <1>17. \A s \in SUBSET S : table[s] \in SUBSET s
    BY <1>16
  <1> HIDE DEF S, last, Good, Fold
  <1> QED
    BY <1>11, <1>13, <1>14, <1>17 DEF Allocating, S

LEMMA BatchIsOfDay ==
    ASSUME TradesSensible, plan \in Plans, NEW b, NEW k, NEW d
    PROVE  Replay!Batch(b, k, d) \in SUBSET Trade
  <1>1. PICK table : Allocating(k, d, table)
    BY AllocationsWalk
  <1>2. Replay!Allocations(k, d) \in SUBSET Replay!Entries(d)
    BY <1>1 DEF Allocating
  <1> QED
    BY <1>2 DEF Replay!Batch, Replay!Entries

\* A day of a backtester as a walk.
Walked(b, k, d, linked, refused, table) ==
    LET batchOf == Replay!Batch(b, k, d) IN
    /\ Replay!Entered(b, k, d, linked, refused) = table[batchOf]
    /\ table[{}] = k
    /\ \A s \in SUBSET batchOf :
         /\ table[s] \in Books
         /\ s # {} => table[s] = Replay!Considered(b, Replay!Last(s), table[s \ {Replay!Last(s)}],
                                                   k, linked, refused)

LEMMA EnteredWalk ==
    ASSUME TradesSensible, plan \in Plans, NEW b \in Replay!Backtesters, NEW k \in Books, NEW d,
           NEW linked, NEW refused
    PROVE  \E table : Walked(b, k, d, linked, refused, table)
  <1> DEFINE S == Replay!Batch(b, k, d)
             last == [s \in SUBSET S |-> Replay!Last(s)]
             After(c, x) == Replay!Considered(b, c, x, k, linked, refused)
             f == [pair \in S \X Books |-> After(pair[1], pair[2])]
             Fold(table) == table = [s \in SUBSET S |->
                IF s = {} THEN k
                ELSE Replay!Considered(b, Replay!Last(s), table[s \ {Replay!Last(s)}], k, linked,
                                       refused)]
  <1>1. S \in SUBSET Trade
    BY BatchIsOfDay
  <1>2. /\ IsFiniteSet(S)
        /\ \A s \in SUBSET S : s # {} => Replay!Last(s) \in s
        /\ Takes(last, SUBSET S)
    <2> HIDE DEF S
    <2> QED
      BY <1>1, LastIs
  <1>4. \A c \in S, x \in Books : After(c, x) \in Books
    <2> HIDE DEF S
    <2> QED
      BY <1>1, ConsideredTyped
  <1>5. \A c \in S, x \in Books : f[<<c, x>>] \in Books /\ f[<<c, x>>] = After(c, x)
    <2> HIDE DEF S, After
    <2> QED
      BY <1>4
  <1>7. \A table : (\A s \in SUBSET S : table[s] \in Books) =>
                     (Fold(table) <=> Walk(table, last, f, k, SUBSET S))
    <2> SUFFICES ASSUME NEW table, \A s \in SUBSET S : table[s] \in Books
                 PROVE  Fold(table) <=> Walk(table, last, f, k, SUBSET S)
      OBVIOUS
    <2>1. \A s \in SUBSET S : s # {} =>
            f[<<last[s], table[s \ {last[s]}]>>]
              = After(Replay!Last(s), table[s \ {Replay!Last(s)}])
      <3> SUFFICES ASSUME NEW s \in SUBSET S, s # {}
                   PROVE  f[<<last[s], table[s \ {last[s]}]>>]
                            = After(Replay!Last(s), table[s \ {Replay!Last(s)}])
        OBVIOUS
      <3>1. last[s] = Replay!Last(s) /\ last[s] \in S
        <4> HIDE DEF S
        <4> QED
          BY <1>2
      <3>2. table[s \ {last[s]}] \in Books
        <4> HIDE DEF S, last
        <4> QED
          OBVIOUS
      <3> HIDE DEF f, last, S, After
      <3> QED
        BY <1>5, <3>1, <3>2
    <2> HIDE DEF f, last, S
    <2> QED
      BY <2>1 DEF Walk
  <1>8. PICK walk : Walk(walk, last, f, k, SUBSET S)
    <2> HIDE DEF f, last, S
    <2> QED
      BY <1>1, <1>2, WalkExists
  <1>9. \A s \in SUBSET S : walk[s] \in Books
    <2>1. \A c \in S, x \in Books : f[<<c, x>>] \in Books
      <3> HIDE DEF f, S, After
      <3> QED
        BY <1>5
    <2> HIDE DEF f, last, S
    <2> QED
      BY <1>1, <1>2, <2>1, <1>8, WalkStays
  <1>10. Fold(walk)
    <2> HIDE DEF Fold, f, last, S
    <2> QED
      BY <1>7, <1>8, <1>9
  <1> DEFINE table == CHOOSE t : Fold(t)
  <1>11. Replay!Entered(b, k, d, linked, refused) = table[S]
    BY DEF Replay!Entered, Replay!MapThenFoldSet
  <1>12. Fold(table)
    <2> HIDE DEF Fold
    <2> QED
      BY <1>10
  <1> HIDE DEF table
  <1> DEFINE Good == {s \in SUBSET S : table[s] \in Books}
  <1>13. table[{}] = k
    <2> HIDE DEF S
    <2> QED
      BY <1>12
  <1>14. \A s \in SUBSET S : s # {} =>
            table[s] = After(Replay!Last(s), table[s \ {Replay!Last(s)}])
    <2> HIDE DEF S
    <2> QED
      BY <1>12
  <1>15. ASSUME NEW s \in SUBSET S, s # {}, s \ {last[s]} \in Good
         PROVE  s \in Good
    <2>1. last[s] = Replay!Last(s) /\ last[s] \in S
      <3> HIDE DEF S
      <3> QED
        BY <1>2, <1>15
    <2>2. table[s] = After(last[s], table[s \ {last[s]}])
      <3> HIDE DEF last, S, After
      <3> QED
        BY <1>14, <1>15, <2>1
    <2>3. table[s \ {last[s]}] \in Books
      BY <1>15
    <2> HIDE DEF last, S, f, Fold, After
    <2>4. table[s] \in Books
      BY <1>4, <2>1, <2>2, <2>3
    <2> QED
      BY <2>4
  <1>16. \A s \in SUBSET S : s \in Good
    <2>1. Good \in SUBSET SUBSET S /\ {} \in Good
      <3> HIDE DEF S
      <3> QED
        BY <1>13
    <2> HIDE DEF Good, S, last, f, Fold
    <2>2. \A s \in SUBSET S : s # {} /\ s \ {last[s]} \in Good => s \in Good
      BY <1>15
    <2>3. IsFiniteSet(S) /\ Takes(last, SUBSET S)
      BY <1>2
    <2> QED
      BY <2>1, <2>2, <2>3, EveryRest
  <1>17. \A s \in SUBSET S : table[s] \in Books
    <2> HIDE DEF S
    <2> QED
      BY <1>16
  <1>18. \A s \in SUBSET S : s # {} =>
            table[s] = Replay!Considered(b, Replay!Last(s), table[s \ {Replay!Last(s)}], k,
                                         linked, refused)
    BY <1>14
  <1> HIDE DEF S, last, Good, Fold, After
  <1> QED
    BY <1>11, <1>13, <1>17, <1>18 DEF Walked, S

\* A sum of terms that are not negative.
LEMMA TotalNotNegative ==
    ASSUME NEW f, NEW S, IsFiniteSet(S), \A x \in S : f[x] \in Nat
    PROVE  Arena!Total(f, S) \in Nat
  <1> DEFINE Good == {T \in SUBSET S : Arena!Total(f, T) \in Nat}
  <1>1. {} \in Good
    <2>1. Arena!Total(f, {}) = 0
      BY FS_EmptySet, TotalSplits
    <2> QED
      BY <2>1
  <1>2. ASSUME NEW T \in Good, NEW x \in S \ T
        PROVE  T \cup {x} \in Good
    <2>1. IsFiniteSet(T) /\ x \notin T
      BY FS_Subset
    <2>2. Arena!Total(f, T \cup {x}) = f[x] + Arena!Total(f, T)
      BY <2>1, TotalAdds
    <2> QED
      BY <2>2
  <1>3. {} \in Good /\ Good \in SUBSET SUBSET S
    BY <1>1
  <1> HIDE DEF Good
  <1>4. S \in Good
    BY <1>2, <1>3, EveryFiniteSet
  <1> QED
    BY <1>4 DEF Good

\* A world that may be, in which every trade has a return.
WorldsMayBe == plan \in Plans /\ \A w \in Replay!Twin : world[w] \in Worlds

\* Of a position nothing is left at worst.
LEMMA EarnedIs ==
    ASSUME TradesSensible, WorldsMayBe, NEW k \in Books, NEW d, NEW w \in Replay!Twin
    PROVE  /\ DOMAIN Replay!Earned(k, d, w) = {p \in k.open : Replay!Leaves(p.c) <= d}
           /\ \A p \in DOMAIN Replay!Earned(k, d, w) :
                Replay!Earned(k, d, w)[p] \in Int /\ p.capital + Replay!Earned(k, d, w)[p] >= 0
  <1>1. k.open \in SUBSET Position
    BY BookIs
  <1>2. DOMAIN Replay!Earned(k, d, w) = {p \in k.open : Replay!Leaves(p.c) <= d}
    BY <1>1 DEF Replay!Earned, Position
  <1>3. ASSUME NEW p \in k.open, Replay!Leaves(p.c) <= d
        PROVE  Replay!Earned(k, d, w)[p] \in Int /\ p.capital + Replay!Earned(k, d, w)[p] >= 0
    <2> DEFINE c == p.capital
               r == world[w].returns[p.c]
               m == c * r
    <2>1. c \in Nat /\ p.c \in Trade
      BY <1>1 DEF Position
    <2>2. r \in Int /\ r >= -100
      BY <2>1 DEF WorldsMayBe, TradesSensible
    <2>3. Replay!Earned(k, d, w)[p] = m \div 100
      BY <1>3, <2>1 DEF Replay!Earned
    <2> HIDE DEF c, r
    <2>4. m \in Int /\ m + 100 * c >= 0
      <3> DEFINE s == r + 100
      <3>1. s \in Nat
        BY <2>2
      <3>2. r = s - 100
        BY <2>2
      <3> HIDE DEF s
      <3>3. c * s \in Nat
        BY <2>1, <3>1
      <3>4. c * (s - 100) = c * s - 100 * c
        BY <2>1, <3>1
      <3> QED
        BY <2>1, <2>2, <3>2, <3>3, <3>4
    <2> HIDE DEF m
    <2>5. m \div 100 \in Int /\ c + m \div 100 >= 0
      BY <2>1, <2>4
    <2> QED
      BY <2>3, <2>5 DEF c
  <1> QED
    BY <1>2, <1>3

LEMMA CloseDueTyped ==
    ASSUME TradesSensible, WorldsMayBe, NEW k \in Books, NEW d, NEW w \in Replay!Twin
    PROVE  Replay!CloseDue(k, Replay!Earned(k, d, w)) \in Books
  <1> DEFINE earned == Replay!Earned(k, d, w)
             due == DOMAIN earned
             f == [p \in due |-> p.capital + earned[p]]
             D == [c : Trade, capital : Nat, pnl : Int]
             ended == {[c |-> p.c, capital |-> p.capital, pnl |-> earned[p]] : p \in due}
  <1>1. /\ k.cash \in Nat /\ k.open \in SUBSET Position /\ IsFiniteSet(k.open)
        /\ k.done \in SUBSET D
    BY DEF Books
  <1>2. due \subseteq k.open /\ \A p \in due : earned[p] \in Int /\ p.capital + earned[p] >= 0
    <2> HIDE DEF earned
    <2> QED
      BY EarnedIs DEF earned
  <1> HIDE DEF earned
  <1>3. IsFiniteSet(due) /\ IsFiniteSet(k.open \ due)
    BY <1>1, <1>2, FS_Subset
  <1>4. \A p \in due : p.c \in Trade /\ p.capital \in Nat
    BY <1>1, <1>2 DEF Position
  <1>5. Replay!Returned(earned) \in Nat
    <2>1. \A p \in due : f[p] \in Nat
      BY <1>2, <1>4
    <2>2. Replay!Returned(earned) = Arena!Total(f, due)
      BY <1>3, ReturnedIsTotal
    <2> HIDE DEF f, due
    <2>3. Arena!Total(f, due) \in Nat
      BY <1>3, <2>1, TotalNotNegative
    <2> QED
      BY <2>2, <2>3
  <1>6. ended \in SUBSET D
    BY <1>2, <1>4
  <1>7. Replay!CloseDue(k, earned)
          = [cash |-> k.cash + Replay!Returned(earned), open |-> k.open \ due,
             done |-> k.done \cup ended]
    BY DEF Replay!CloseDue
  <1>8. k.cash + Replay!Returned(earned) \in Nat /\ k.open \ due \in SUBSET Position
        /\ k.done \cup ended \in SUBSET D
    BY <1>1, <1>5, <1>6
  <1> HIDE DEF ended, due
  <1>9. Replay!CloseDue(k, earned) \in [cash : Nat, open : SUBSET Position, done : SUBSET D]
        /\ Replay!CloseDue(k, earned).open = k.open \ due
    BY <1>7, <1>8
  <1> QED
    BY <1>3, <1>9 DEF Books, earned

LEMMA PlayedTyped ==
    ASSUME TradesSensible, WorldsMayBe, NEW b \in Replay!Backtesters, NEW k \in Books, NEW d,
           NEW w \in Replay!Twin
    PROVE  Replay!Played(b, k, d, w) \in Books
  <1> DEFINE closed == Replay!CloseDue(k, Replay!Earned(k, d, w))
  <1>1. closed \in Books
    BY CloseDueTyped
  <1> HIDE DEF closed
  <1>2. ASSUME NEW linked, NEW refused
        PROVE  Replay!Entered(b, closed, d, linked, refused) \in Books
    <2>1. PICK table : Walked(b, closed, d, linked, refused, table)
      BY <1>1, EnteredWalk DEF WorldsMayBe
    <2> QED
      BY <2>1 DEF Walked
  <1> QED
    BY <1>2 DEF Replay!Played, closed

ReplayTypes ==
    /\ plan \in Plans /\ world \in [Replay!Twin -> Worlds] /\ day \in 0 .. LastDay
    /\ book \in [Replay!Twin -> [Replay!Backtesters -> Books]]

LEMMA ReplayTyped == Replay!Spec => []ReplayTypes
  <1> TradesSensible /\ BoundsSensible
    BY BacktestAssumption, BoundsAssumption
  <1>1. Replay!Init => ReplayTypes
    <2> SUFFICES ASSUME Replay!Init
                 PROVE  ReplayTypes
      OBVIOUS
    <2> DEFINE start == [cash |-> Capital, open |-> {}, done |-> {}]
    <2>1. start \in Books
      <3>1. start.open = {} /\ IsFiniteSet({})
        BY FS_EmptySet
      <3> QED
        BY <3>1 DEF Books, TradesSensible
    <2>2. book = [w \in Replay!Twin |-> [b \in Replay!Backtesters |-> start]]
      BY DEF Replay!Init
    <2> HIDE DEF start
    <2>3. book \in [Replay!Twin -> [Replay!Backtesters -> Books]]
      BY <2>1, <2>2
    <2>4. 0 \in 0 .. LastDay
      BY DEF BoundsSensible
    <2> QED
      BY <2>3, <2>4 DEF Replay!Init, ReplayTypes
  <1>2. ReplayTypes /\ [Replay!Next]_Replay!vars => ReplayTypes'
    <2> SUFFICES ASSUME ReplayTypes, [Replay!Next]_Replay!vars
                 PROVE  ReplayTypes'
      OBVIOUS
    <2>1. CASE Replay!Next
      <3>1. WorldsMayBe
        BY DEF ReplayTypes, WorldsMayBe
      <3>2. \A w \in Replay!Twin, b \in Replay!Backtesters : book[w][b] \in Books
        BY DEF ReplayTypes
      <3>3. \A w \in Replay!Twin, b \in Replay!Backtesters :
               Replay!Played(b, book[w][b], day + 1, w) \in Books
        BY <3>1, <3>2, PlayedTyped
      <3>4. book' = [w \in Replay!Twin |-> [b \in Replay!Backtesters |->
                        Replay!Played(b, book[w][b], day + 1, w)]]
        BY <2>1 DEF Replay!Next
      <3>5. book' \in [Replay!Twin -> [Replay!Backtesters -> Books]]
        BY <3>3, <3>4
      <3>6. day' \in 0 .. LastDay /\ plan' = plan /\ world' = world
        BY <2>1 DEF Replay!Next, ReplayTypes, BoundsSensible
      <3> QED
        BY <3>5, <3>6 DEF ReplayTypes
    <2>2. CASE UNCHANGED Replay!vars
      BY <2>2 DEF Replay!vars, ReplayTypes
    <2> QED
      BY <2>1, <2>2
  <1> QED
    BY <1>1, <1>2, PTL DEF Replay!Spec

\* TypeOK of Backtest: whatever returns, depths and links the market has, no backtester
\* spends cash it does not have, holds nothing it paid nothing for, and trades candidates.
THEOREM ReplayTypeCorrect == Replay!Spec => []Replay!TypeOK
  <1>1. ReplayTypes => Replay!TypeOK
    <2> SUFFICES ASSUME ReplayTypes
                 PROVE  Replay!TypeOK
      OBVIOUS
    <2>1. ASSUME NEW w \in Replay!Twin, NEW b \in Replay!Backtesters
          PROVE  /\ book[w][b].cash >= 0
                 /\ \A p \in book[w][b].open : p.c \in Trade /\ p.capital > 0
                 /\ \A t \in book[w][b].done : t.c \in Trade
      <3>1. book[w][b] \in Books
        BY DEF ReplayTypes
      <3> QED
        BY <3>1 DEF Books, Position
    <2> QED
      BY <2>1 DEF ReplayTypes, Replay!TypeOK
  <1> QED
    BY <1>1, ReplayTyped, PTL

-----------------------------------------------------------------------------
(* The engine and the legacy backtester.                                   *)

LEMMA SameReplayCardinality ==
    ASSUME NEW S
    PROVE  Replay!Cardinality(S) = Cardinality(S)
BY DEF Replay!Cardinality, Replay!IsFiniteSet, Cardinality, IsFiniteSet

\* One position more is invested.
LEMMA InvestedAdds ==
    ASSUME NEW S, IsFiniteSet(S), S \subseteq Position, NEW p \in Position, p \notin S
    PROVE  Replay!Invested(S \cup {p}) = Replay!Invested(S) + p.capital
  <1> DEFINE f == [q \in Position |-> q.capital]
  <1>1. ASSUME NEW T, IsFiniteSet(T), T \subseteq Position
        PROVE  Replay!Invested(T) = Arena!Total(f, T)
    <2> DEFINE g == [q \in T |-> q.capital]
    <2>1. \A q \in T : g[q] = f[q] /\ f[q] \in Int
      BY <1>1 DEF Position
    <2>2. Replay!Invested(T) = Arena!Total(g, T)
      BY <1>1, InvestedIsTotal
    <2> HIDE DEF f, g
    <2>3. Arena!Total(g, T) = Arena!Total(f, T)
      BY <1>1, <2>1, SameTotal
    <2> QED
      BY <2>2, <2>3
  <1>2. \A q \in S \cup {p} : f[q] \in Int
    BY DEF Position
  <1>3. f[p] = p.capital
    OBVIOUS
  <1>4. IsFiniteSet(S \cup {p}) /\ S \cup {p} \subseteq Position
    BY FS_AddElement
  <1>5. /\ Replay!Invested(S \cup {p}) = Arena!Total(f, S \cup {p})
        /\ Replay!Invested(S) = Arena!Total(f, S)
    BY <1>1, <1>4
  <1> HIDE DEF f
  <1>6. Arena!Total(f, S \cup {p}) = f[p] + Arena!Total(f, S)
    BY <1>2, TotalAdds
  <1>7. f[p] \in Int /\ Arena!Total(f, S) \in Int
    BY <1>2, TotalSplits
  <1> QED
    BY <1>3, <1>5, <1>6, <1>7

LEMMA InvestedIsNatural ==
    ASSUME NEW S, IsFiniteSet(S), S \subseteq Position
    PROVE  Replay!Invested(S) \in Nat
  <1> DEFINE f == [p \in S |-> p.capital]
  <1>1. \A p \in S : f[p] \in Nat
    BY DEF Position
  <1> HIDE DEF f
  <1>2. Arena!Total(f, S) \in Nat
    BY <1>1, TotalNotNegative
  <1> QED
    BY <1>2, InvestedIsTotal DEF f

\* Positions of a size in some candidates, beside those of the morning.
With(k, size, some) == k.open \cup {[c |-> x, capital |-> size] : x \in some}

LEMMA WithIs ==
    ASSUME NEW k \in Books, NEW size \in Nat \ {0}, NEW S \in SUBSET Trade, IsFiniteSet(S),
           \A x \in S : Replay!Held(k, x) = {}
    PROVE  /\ With(k, size, S) \subseteq Position /\ IsFiniteSet(With(k, size, S))
           /\ Cardinality(With(k, size, S)) = Cardinality(k.open) + Cardinality(S)
           /\ Replay!Invested(With(k, size, S)) = Replay!Gross(k) + Cardinality(S) * size
  <1> DEFINE Is(T) == /\ With(k, size, T) \subseteq Position /\ IsFiniteSet(With(k, size, T))
                      /\ Cardinality(With(k, size, T)) = Cardinality(k.open) + Cardinality(T)
                      /\ Replay!Invested(With(k, size, T)) = Replay!Gross(k) + Cardinality(T) * size
             Good == {T \in SUBSET S : Is(T)}
  <1>0. k.open \subseteq Position /\ IsFiniteSet(k.open) /\ Replay!Gross(k) \in Int
    BY BookIs
  <1>1. Is({})
    <2>1. With(k, size, {}) = k.open
      BY DEF With
    <2>2. Cardinality({}) = 0 /\ Cardinality(k.open) \in Nat
      BY <1>0, FS_EmptySet, FS_CardinalityType
    <2>3. Replay!Invested(k.open) = Replay!Gross(k)
      BY DEF Replay!Gross
    <2> QED
      BY <1>0, <2>1, <2>2, <2>3
  <1>2. ASSUME NEW T \in SUBSET S, Is(T), NEW x \in S \ T
        PROVE  Is(T \cup {x})
    <2> DEFINE p == [c |-> x, capital |-> size]
               n == Cardinality(T)
               m == Cardinality(k.open)
               g == Replay!Gross(k)
    <2>1. p \in Position /\ p.capital = size /\ p.c = x
      BY DEF Position
    <2>2. With(k, size, T \cup {x}) = With(k, size, T) \cup {p}
      BY DEF With
    <2>3. p \notin With(k, size, T)
      <3>1. p \notin k.open
        BY <2>1 DEF Replay!Held
      <3>2. \A y \in T : [c |-> y, capital |-> size] # p
        BY <2>1
      <3> QED
        BY <3>1, <3>2 DEF With
    <2>4. IsFiniteSet(T) /\ n \in Nat /\ m \in Nat /\ Cardinality(T \cup {x}) = n + 1
      BY <1>0, FS_Subset, FS_CardinalityType, FS_AddElement
    <2>5. /\ IsFiniteSet(With(k, size, T) \cup {p})
          /\ Cardinality(With(k, size, T) \cup {p}) = (m + n) + 1
      <3> HIDE DEF p
      <3> QED
        BY <1>2, <2>3, FS_AddElement
    <2>6. Replay!Invested(With(k, size, T) \cup {p}) = (g + n * size) + size
      <3> HIDE DEF p
      <3> QED
        BY <1>2, <2>1, <2>3, InvestedAdds
    <2>7. (g + n * size) + size = g + (n + 1) * size /\ (m + n) + 1 = m + (n + 1)
      <3>1. g \in Int
        BY <1>0
      <3> HIDE DEF g, n, m
      <3>2. (n + 1) * size = n * size + size /\ n * size \in Int
        BY <2>4
      <3> QED
        BY <2>4, <3>1, <3>2
    <2>8. With(k, size, T) \cup {p} \subseteq Position
      BY <1>2, <2>1
    <2> HIDE DEF p
    <2> QED
      BY <2>2, <2>4, <2>5, <2>6, <2>7, <2>8
  <1>3. {} \in Good /\ Good \in SUBSET SUBSET S
    BY <1>1
  <1>4. \A T \in Good : \A x \in S \ T : T \cup {x} \in Good
    <2> HIDE DEF Is
    <2> QED
      BY <1>2
  <1>5. S \in Good
    <2> HIDE DEF Good
    <2> QED
      BY <1>3, <1>4, EveryFiniteSet
  <1> QED
    BY <1>5

LEMMA MorningIs ==
    ASSUME TradesSensible, NEW k \in Books
    PROVE  /\ Replay!Gross(k) \in Nat /\ Replay!Equity(k) \in Nat /\ k.cash \in Nat
           /\ Replay!Equity(k) = k.cash + Replay!Gross(k)
           /\ Replay!Target(k) \in Nat
           /\ 100 * Replay!Target(k) <= Replay!Equity(k) * Alloc
  <1>1. Replay!Gross(k) \in Nat /\ k.cash \in Nat
    <2>1. k.open \in SUBSET Position /\ IsFiniteSet(k.open) /\ k.cash \in Nat
      BY BookIs
    <2> QED
      BY <2>1, InvestedIsNatural DEF Replay!Gross
  <1>2. Replay!Equity(k) = k.cash + Replay!Gross(k)
    BY DEF Replay!Equity
  <1>3. Replay!Equity(k) \in Nat
    BY <1>1, <1>2
  <1> DEFINE m == Replay!Equity(k) * Alloc
  <1>4. m \in Nat
    BY <1>3 DEF TradesSensible
  <1>5. Replay!Target(k) = m \div 100
    BY DEF Replay!Target
  <1> HIDE DEF m
  <1>6. m \div 100 \in Nat /\ 100 * (m \div 100) <= m
    BY <1>4
  <1> QED
    BY <1>1, <1>2, <1>3, <1>5, <1>6 DEF m

\* An exposure that the limit allows is covered by cash.
LEMMA FitsIsCovered ==
    ASSUME TradesSensible, NEW k \in Books, NEW n \in Nat, Replay!Fits(k, n)
    PROVE  (n + 1) * Replay!Target(k) <= k.cash
  <1> DEFINE g == Replay!Gross(k)
             e == Replay!Equity(k)
             t == Replay!Target(k)
             a == e * Alloc
             m == n + 1
             cash == k.cash
  <1>1. g \in Nat /\ e \in Nat /\ cash \in Nat /\ e = cash + g /\ t \in Nat /\ 100 * t <= a
    BY MorningIs
  <1>2. 100 * g + (n + 1) * Alloc * e <= MaxGross * e /\ Alloc \in Nat /\ MaxGross \in 0 .. 100
    BY DEF Replay!Fits, TradesSensible
  <1>3. m \in Nat /\ (n + 1) * Alloc * e = m * a /\ a \in Nat
    <2> HIDE DEF e
    <2>1. m \in Nat
      OBVIOUS
    <2> HIDE DEF m
    <2>2. (m * Alloc) * e = m * (e * Alloc)
      BY <1>1, <1>2, <2>1
    <2> QED
      BY <1>1, <1>2, <2>1, <2>2 DEF m
  <1> HIDE DEF g, e, t, a, m, cash
  <1>4. MaxGross * e <= 100 * e
    <2> DEFINE r == 100 - MaxGross
    <2>1. r \in Nat /\ MaxGross = 100 - r
      BY <1>2
    <2> HIDE DEF r
    <2>2. r * e \in Nat /\ (100 - r) * e = 100 * e - r * e
      BY <1>1, <2>1
    <2> QED
      BY <1>1, <2>1, <2>2
  <1>5. m * (100 * t) <= m * a
    <2> DEFINE r == a - 100 * t
    <2>1. r \in Nat /\ a = 100 * t + r
      BY <1>1, <1>3
    <2> HIDE DEF r
    <2>2. m * (100 * t + r) = m * (100 * t) + m * r /\ m * r \in Nat /\ m * (100 * t) \in Nat
      BY <1>1, <1>3, <2>1
    <2> QED
      BY <2>1, <2>2
  <1>6. m * (100 * t) = 100 * (m * t) /\ m * t \in Nat /\ m * a \in Nat
    BY <1>1, <1>3
  <1>7. 100 * (m * t) <= 100 * cash
    <2>1. 100 * g + m * a <= 100 * e
      <3>1. 100 * g + m * a <= MaxGross * e
        BY <1>2, <1>3 DEF g, e
      <3>2. MaxGross * e \in Int /\ 100 * e \in Int
        BY <1>1, <1>2
      <3> QED
        BY <1>1, <1>4, <1>6, <3>1, <3>2
    <2> QED
      BY <1>1, <1>5, <1>6, <2>1
  <1>8. m * t <= cash
    BY <1>1, <1>6, <1>7
  <1> QED
    BY <1>8 DEF m, t, cash

\* A book that began as k and has n positions of a size more.
Grown(x, k, size, some) ==
    /\ x.cash = k.cash - Cardinality(some) * size
    /\ x.open = With(k, size, some)
    /\ x.done = k.done

\* Nobody is added to a position of the morning, and cash covers everyone.
Covered(k, size, some) ==
    /\ some \in SUBSET Trade /\ IsFiniteSet(some)
    /\ \A x \in some : Replay!Held(k, x) = {}
    /\ Cardinality(some) * size <= k.cash

\* A position more, of the size.
LEMMA GrownBy ==
    ASSUME NEW k \in Books, NEW x \in Books, NEW size \in Nat, NEW some, IsFiniteSet(some),
           Grown(x, k, size, some), NEW c, c \notin some
    PROVE  Grown(Replay!Enter(x, c, size), k, size, some \cup {c})
  <1> DEFINE y == Replay!Enter(x, c, size)
             n == Cardinality(some)
  <1>1. /\ y.cash = x.cash - size /\ y.open = x.open \cup {[c |-> c, capital |-> size]}
        /\ y.done = x.done
    BY EnterIs
  <1>2. n \in Nat /\ Cardinality(some \cup {c}) = n + 1
    BY FS_CardinalityType, FS_AddElement
  <1>3. y.open = With(k, size, some \cup {c})
    BY <1>1 DEF Grown, With
  <1>4. y.cash = k.cash - (n + 1) * size
    <2>1. k.cash \in Int /\ x.cash = k.cash - n * size
      BY BookIs DEF Grown
    <2> HIDE DEF n
    <2>2. (n + 1) * size = n * size + size /\ n * size \in Int
      BY <1>2
    <2> QED
      BY <1>1, <2>1, <2>2
  <1> HIDE DEF y, n
  <1> QED
    BY <1>1, <1>2, <1>3, <1>4 DEF Grown, y, n

\* What a candidate does to the legacy book is what the allocation says.
LEMMA LegacyFollows ==
    ASSUME TradesSensible, NEW k \in Books, NEW x \in Books, NEW c \in Trade,
           NEW some, Covered(k, Replay!Target(k), some), c \notin some,
           Replay!Target(k) # 0, Grown(x, k, Replay!Target(k), some),
           Cardinality(some) < MaxOpen - Cardinality(k.open)
              => Replay!Fits(k, Cardinality(some)) \/ k.cash <= Cardinality(some) * Replay!Target(k)
    PROVE  /\ Covered(k, Replay!Target(k), Replay!Allocate(k, c, some))
           /\ Grown(Replay!LegacyEntry(x, c, 1), k, Replay!Target(k), Replay!Allocate(k, c, some))
  <1> DEFINE t == Replay!Target(k)
             n == Cardinality(some)
             m == Cardinality(k.open)
             left == k.cash - n * t
             capital == Replay!Smaller(x.cash, (Replay!Equity(x) * Alloc) \div 100)
             room == /\ Replay!Cardinality(Replay!Held(x, c)) < 1
                     /\ Replay!Cardinality(x.open) < MaxOpen
             chosen == /\ n < MaxOpen - m
                       /\ Replay!Held(k, c) = {}
                       /\ \A y \in some : TradeCompany[y] # TradeCompany[c]
                       /\ Replay!Fits(k, n)
  <1>1. t \in Nat \ {0} /\ k.cash \in Nat
    BY MorningIs
  <1>2. /\ some \in SUBSET Trade /\ IsFiniteSet(some) /\ \A y \in some : Replay!Held(k, y) = {}
        /\ n * t <= k.cash /\ n \in Nat
    BY FS_CardinalityType DEF Covered
  <1>3. /\ x.open = With(k, t, some) /\ x.open \subseteq Position /\ IsFiniteSet(x.open)
        /\ Cardinality(x.open) = m + n
        /\ Replay!Invested(x.open) = Replay!Gross(k) + n * t
        /\ m \in Nat
    <2>1. x.open = With(k, t, some)
      BY DEF Grown
    <2>2. m \in Nat
      BY BookIs, FS_CardinalityType
    <2> HIDE DEF t
    <2> QED
      BY <1>1, <1>2, <2>1, <2>2, WithIs
  <1>4. x.cash = left /\ left \in Nat
    <2>1. x.cash = k.cash - n * t
      BY DEF Grown
    <2>2. n * t \in Nat
      BY <1>1, <1>2
    <2> HIDE DEF n, t
    <2> QED
      BY <1>1, <1>2, <2>1, <2>2
  <1>5. (Replay!Equity(x) * Alloc) \div 100 = t
    <2>1. Replay!Equity(x) = Replay!Equity(k)
      <3>1. Replay!Equity(x) = x.cash + Replay!Invested(x.open)
        BY DEF Replay!Equity, Replay!Gross
      <3>2. Replay!Equity(k) = k.cash + Replay!Gross(k) /\ Replay!Gross(k) \in Int
        BY MorningIs
      <3> DEFINE nt == n * t
      <3>3. nt \in Int
        BY <1>1, <1>2
      <3>4. left = k.cash - nt /\ Replay!Invested(x.open) = Replay!Gross(k) + nt
        BY <1>3
      <3> HIDE DEF nt, left
      <3> QED
        BY <1>1, <1>3, <1>4, <3>1, <3>2, <3>3, <3>4
    <2> QED
      BY <2>1 DEF Replay!Target
  <1>6. capital = Replay!Smaller(left, t)
    BY <1>4, <1>5
  <1>7. Replay!LegacyEntry(x, c, 1) = IF room /\ capital > 0 THEN Replay!Enter(x, c, capital) ELSE x
    BY Zenon DEF Replay!LegacyEntry
  <1>8. Replay!Allocate(k, c, some) = IF chosen THEN some \cup {c} ELSE some
    <2>1. Replay!Cardinality(some) = n /\ Replay!Cardinality(k.open) = m
      BY SameReplayCardinality
    <2> HIDE DEF n, m
    <2> QED
      BY <2>1 DEF Replay!Allocate
  <1>9. room <=> /\ n < MaxOpen - m
                 /\ Replay!Held(k, c) = {}
                 /\ \A y \in some : TradeCompany[y] # TradeCompany[c]
    <2>1. Replay!Cardinality(x.open) < MaxOpen <=> n < MaxOpen - m
      <3>1. Replay!Cardinality(x.open) = m + n /\ MaxOpen \in Nat
        BY <1>3, SameReplayCardinality DEF TradesSensible
      <3> HIDE DEF n, m
      <3> QED
        BY <1>2, <1>3, <3>1
    <2>2. Replay!Cardinality(Replay!Held(x, c)) < 1 <=> Replay!Held(x, c) = {}
      <3>1. IsFiniteSet(Replay!Held(x, c))
        <4>1. Replay!Held(x, c) \subseteq x.open
          BY DEF Replay!Held
        <4> QED
          BY <1>3, <4>1, FS_Subset
      <3>2. Cardinality(Replay!Held(x, c)) \in Nat
            /\ (Cardinality(Replay!Held(x, c)) = 0 <=> Replay!Held(x, c) = {})
        BY <3>1, FS_CardinalityType, FS_EmptySet
      <3>3. Replay!Cardinality(Replay!Held(x, c)) = Cardinality(Replay!Held(x, c))
        BY SameReplayCardinality
      <3> QED
        BY <3>2, <3>3
    <2>3. Replay!Held(x, c) = {} <=> /\ Replay!Held(k, c) = {}
                                     /\ \A y \in some : TradeCompany[y] # TradeCompany[c]
      <3>1. x.open = k.open \cup {[c |-> y, capital |-> t] : y \in some}
        BY <1>3 DEF With
      <3> DEFINE P(y) == [c |-> y, capital |-> t]
      <3>2. \A y \in some : P(y) \in x.open /\ P(y).c = y
        BY <3>1
      <3>3. \A p \in x.open : p \in k.open \/ \E y \in some : p = P(y)
        BY <3>1
      <3>4. k.open \subseteq x.open
        BY <3>1
      <3> HIDE DEF P
      <3>5. Replay!Held(x, c) = {} <=> \A p \in x.open : TradeCompany[p.c] # TradeCompany[c]
        BY DEF Replay!Held
      <3>6. Replay!Held(k, c) = {} <=> \A p \in k.open : TradeCompany[p.c] # TradeCompany[c]
        BY DEF Replay!Held
      <3> QED
        BY <3>2, <3>3, <3>4, <3>5, <3>6
    <2> QED
      BY <2>1, <2>2, <2>3
  <1> HIDE DEF room, capital
  <1>10. CASE chosen
    <2>1. (n + 1) * t <= k.cash
      BY <1>2, <1>10, FitsIsCovered
    <2>2. capital = t
      <3>1. (n + 1) * t = n * t + t /\ n * t \in Nat
        <4> HIDE DEF n, t
        <4> QED
          BY <1>1, <1>2
      <3>2. left >= t
        <4> DEFINE nt == n * t
        <4>1. k.cash >= nt + t /\ left = k.cash - nt /\ nt \in Nat
          BY <2>1, <3>1
        <4> HIDE DEF nt, left, t
        <4> QED
          BY <1>1, <4>1
      <3> HIDE DEF left, t
      <3>3. Replay!Smaller(left, t) \in {left, t} /\ Replay!Smaller(left, t) <= t
            /\ Replay!Smaller(left, t) <= left
        BY <1>1, <1>4, SmallerIs
      <3> QED
        BY <1>1, <1>4, <1>6, <3>2, <3>3
    <2>3. Replay!LegacyEntry(x, c, 1) = Replay!Enter(x, c, t)
      <3>1. capital > 0
        BY <1>1, <2>2
      <3> QED
        BY <1>7, <1>9, <1>10, <2>2, <3>1
    <2>4. Replay!Allocate(k, c, some) = some \cup {c}
      BY <1>8, <1>10
    <2>5. Grown(Replay!Enter(x, c, t), k, t, some \cup {c})
      BY <1>1, <1>2, GrownBy
    <2>6. Covered(k, t, some \cup {c})
      <3>1. IsFiniteSet(some \cup {c}) /\ Cardinality(some \cup {c}) = n + 1
        BY <1>2, FS_AddElement
      <3> HIDE DEF t
      <3> QED
        BY <1>2, <1>10, <2>1, <3>1 DEF Covered
    <2> QED
      BY <2>3, <2>4, <2>5, <2>6
  <1>11. CASE ~ chosen
    <2>1. ~ (room /\ capital > 0)
      <3> SUFFICES ASSUME room
                   PROVE  ~ capital > 0
        OBVIOUS
      <3>1. n < MaxOpen - m /\ ~ Replay!Fits(k, n)
        BY <1>9, <1>11
      <3>2. k.cash <= n * t
        BY <3>1
      <3>3. left <= 0
        <4> DEFINE nt == n * t
        <4>1. nt \in Nat
          BY <1>1, <1>2
        <4>2. k.cash <= nt /\ left = k.cash - nt
          BY <3>2
        <4> HIDE DEF nt, left
        <4> QED
          BY <1>1, <4>1, <4>2
      <3> HIDE DEF left, t
      <3>4. Replay!Smaller(left, t) \in {left, t} /\ Replay!Smaller(left, t) <= left
        BY <1>1, <1>4, SmallerIs
      <3> QED
        BY <1>1, <1>4, <1>6, <3>3, <3>4
    <2>2. Replay!LegacyEntry(x, c, 1) = x
      BY <1>7, <2>1
    <2>3. Replay!Allocate(k, c, some) = some
      BY <1>8, <1>11
    <2> QED
      BY <2>2, <2>3
  <1> QED
    BY <1>10, <1>11

\* Books are equal when their parts are.
LEMMA BooksEqual ==
    ASSUME NEW x \in Books, NEW y \in Books, x.cash = y.cash, x.open = y.open, x.done = y.done
    PROVE  x = y
  <1> DEFINE O == SUBSET Position
             D == SUBSET [c : Trade, capital : Nat, pnl : Int]
  <1>1. x \in [cash : Nat, open : O, done : D] /\ y \in [cash : Nat, open : O, done : D]
    BY DEF Books
  <1> HIDE DEF O, D
  <1>2. y = [cash |-> y.cash, open |-> y.open, done |-> y.done]
    BY <1>1
  <1>3. x = [cash |-> y.cash, open |-> y.open, done |-> y.done]
    BY <1>1
  <1> QED
    BY <1>2, <1>3

\* On the morning k of day d the exposure limit keeps no open slot closed while cash is left.
Room(k, d) ==
    \A n \in 0 .. Cardinality(Replay!Entries(d)) - 1 :
        n < MaxOpen - Cardinality(k.open) => Replay!Fits(k, n) \/ k.cash <= n * Replay!Target(k)

\* The legacy backtester's book grows by the allocations.
LEMMA LegacyWalk ==
    ASSUME TradesSensible, plan \in Plans, NEW k \in Books, NEW d, Room(k, d),
           NEW linked, NEW refused, Replay!Target(k) # 0,
           NEW alloc, Allocating(k, d, alloc),
           NEW legacy, Walked("legacy", k, d, linked, refused, legacy)
    PROVE  /\ Covered(k, Replay!Target(k), Replay!Allocations(k, d))
           /\ Grown(Replay!Entered("legacy", k, d, linked, refused), k, Replay!Target(k),
                    Replay!Allocations(k, d))
  <1> DEFINE S == Replay!Entries(d)
             t == Replay!Target(k)
             last == [s \in SUBSET S |-> Replay!Last(s)]
             Is(s) == Covered(k, t, alloc[s]) /\ Grown(legacy[s], k, t, alloc[s])
             Good == {s \in SUBSET S : Is(s)}
  <1>1. /\ S \in SUBSET Trade /\ IsFiniteSet(S) /\ Takes(last, SUBSET S)
        /\ \A s \in SUBSET S : s # {} => Replay!Last(s) \in s
    <2>1. S \in SUBSET Trade
      BY DEF Replay!Entries
    <2> HIDE DEF S
    <2> QED
      BY <2>1, LastIs
  <1>2. Replay!Batch("legacy", k, d) = S
    BY DEF Replay!Batch
  <1>3. /\ Replay!Entered("legacy", k, d, linked, refused) = legacy[S]
        /\ legacy[{}] = k
        /\ \A s \in SUBSET S :
             /\ legacy[s] \in Books
             /\ s # {} => legacy[s] = Replay!LegacyEntry(legacy[s \ {Replay!Last(s)}],
                                                         Replay!Last(s), 1)
    <2> HIDE DEF S
    <2> QED
      BY <1>2 DEF Walked, Replay!Considered
  <1>4. /\ Replay!Allocations(k, d) = alloc[S] /\ alloc[{}] = {}
        /\ \A s \in SUBSET S :
             /\ alloc[s] \in SUBSET s
             /\ s # {} => alloc[s] = Replay!Allocate(k, Replay!Last(s), alloc[s \ {Replay!Last(s)}])
    BY DEF Allocating
  <1>5. Is({})
    <2>1. IsFiniteSet({}) /\ Cardinality({}) = 0
      BY FS_EmptySet
    <2>2. k.cash \in Nat /\ t \in Nat
      BY MorningIs
    <2>3. With(k, t, {}) = k.open
      BY DEF With
    <2> HIDE DEF t, S
    <2>4. 0 * t = 0 /\ k.cash - 0 = k.cash
      BY <2>2
    <2> QED
      BY <1>3, <1>4, <2>1, <2>2, <2>3, <2>4 DEF Covered, Grown
  <1> HIDE DEF Is
  <1>6. ASSUME NEW s \in SUBSET S, s # {}, Is(s \ {Replay!Last(s)})
        PROVE  Is(s)
    <2> DEFINE c == Replay!Last(s)
               r == s \ {c}
               some == alloc[r]
               x == legacy[r]
    <2>1. c \in s /\ c \in Trade /\ r \in SUBSET S /\ c \notin r
      BY <1>1, <1>6
    <2>2. some \in SUBSET r /\ x \in Books
      <3> HIDE DEF S, c, r
      <3> QED
        BY <1>3, <1>4, <2>1
    <2>3. Covered(k, t, some) /\ Grown(x, k, t, some) /\ c \notin some
      BY <1>6, <2>1, <2>2 DEF Is
    <2>4. Cardinality(some) \in 0 .. Cardinality(S) - 1
      <3>1. IsFiniteSet(r) /\ Cardinality(some) <= Cardinality(r) /\ Cardinality(some) \in Nat
        <4> HIDE DEF S, c, r, some
        <4> QED
          BY <1>1, <2>1, <2>2, FS_Subset, FS_CardinalityType
      <3>2. Cardinality(r \cup {c}) = Cardinality(r) + 1 /\ Cardinality(r) \in Nat
        <4> HIDE DEF S, r
        <4> QED
          BY <2>1, <3>1, FS_AddElement, FS_CardinalityType
      <3>3. Cardinality(r \cup {c}) <= Cardinality(S) /\ Cardinality(S) \in Nat
        <4>1. r \cup {c} \subseteq S
          BY <2>1, <1>6
        <4> HIDE DEF S, c, r
        <4> QED
          BY <1>1, <4>1, FS_Subset, FS_CardinalityType
      <3> DEFINE i == Cardinality(some)
                 j == Cardinality(r)
                 l == Cardinality(S)
                 m == Cardinality(r \cup {c})
      <3>4. i <= j /\ i \in Nat /\ j \in Nat /\ m = j + 1 /\ m <= l /\ l \in Nat
        BY <3>1, <3>2, <3>3
      <3> HIDE DEF i, j, l, m
      <3>5. i \in 0 .. l - 1
        BY <3>4
      <3> QED
        BY <3>5 DEF i, l
    <2>5. Cardinality(some) < MaxOpen - Cardinality(k.open)
             => Replay!Fits(k, Cardinality(some)) \/ k.cash <= Cardinality(some) * t
      BY <2>4 DEF Room
    <2>6. alloc[s] = Replay!Allocate(k, c, some) /\ legacy[s] = Replay!LegacyEntry(x, c, 1)
      BY <1>3, <1>4, <1>6
    <2> HIDE DEF S, c, r, some, x
    <2>7. Covered(k, t, Replay!Allocate(k, c, some))
          /\ Grown(Replay!LegacyEntry(x, c, 1), k, t, Replay!Allocate(k, c, some))
      BY <2>1, <2>2, <2>3, <2>5, LegacyFollows
    <2> QED
      BY <2>6, <2>7 DEF Is
  <1>7. \A s \in SUBSET S : s # {} /\ s \ {last[s]} \in Good => s \in Good
    <2>1. \A s \in SUBSET S : last[s] = Replay!Last(s)
      OBVIOUS
    <2> HIDE DEF last, S
    <2> QED
      BY <1>6, <2>1
  <1>8. {} \in Good /\ Good \in SUBSET SUBSET S
    BY <1>5
  <1>9. S \in Good
    <2> HIDE DEF Good, last, S
    <2>1. IsFiniteSet(S) /\ Takes(last, SUBSET S)
      BY <1>1
    <2>2. Good \in SUBSET SUBSET S /\ {} \in Good
      BY <1>8
    <2>3. \A s \in SUBSET S : s # {} /\ s \ {last[s]} \in Good => s \in Good
      BY <1>7
    <2>4. \A s \in SUBSET S : s \in Good
      BY <2>1, <2>2, <2>3, EveryRest
    <2> QED
      BY <2>4
  <1> QED
    BY <1>3, <1>4, <1>9 DEF Is

\* The engine's book grows by the allocations.
LEMMA EngineWalk ==
    ASSUME TradesSensible, plan \in Plans, NEW k \in Books, NEW d,
           NEW linked, NEW refused, Replay!Target(k) # 0,
           Covered(k, Replay!Target(k), Replay!Allocations(k, d)),
           NEW engine, Walked("engine", k, d, linked, refused, engine)
    PROVE  Grown(Replay!Entered("engine", k, d, linked, refused), k, Replay!Target(k),
                 Replay!Allocations(k, d))
  <1> DEFINE S == Replay!Allocations(k, d)
             t == Replay!Target(k)
             last == [s \in SUBSET S |-> Replay!Last(s)]
             Is(s) == Grown(engine[s], k, t, s)
             Good == {s \in SUBSET S : Is(s)}
  <1>0. t \in Nat \ {0} /\ k.cash \in Nat
    BY MorningIs
  <1>1. /\ S \in SUBSET Trade /\ IsFiniteSet(S) /\ Takes(last, SUBSET S)
        /\ \A s \in SUBSET S : s # {} => Replay!Last(s) \in s
    <2>1. S \in SUBSET Trade
      BY DEF Covered
    <2> HIDE DEF S
    <2> QED
      BY <2>1, LastIs
  <1>2. Replay!Batch("engine", k, d) = S
    BY DEF Replay!Batch
  <1>3. /\ Replay!Entered("engine", k, d, linked, refused) = engine[S]
        /\ engine[{}] = k
        /\ \A s \in SUBSET S :
             /\ engine[s] \in Books
             /\ s # {} => engine[s] = Replay!Fill(engine[s \ {Replay!Last(s)}], Replay!Last(s), t)
    <2> HIDE DEF S
    <2> QED
      BY <1>2 DEF Walked, Replay!Considered
  <1>5. Is({})
    <2>1. IsFiniteSet({}) /\ Cardinality({}) = 0
      BY FS_EmptySet
    <2>3. With(k, t, {}) = k.open
      BY DEF With
    <2> HIDE DEF t, S
    <2>4. 0 * t = 0 /\ k.cash - 0 = k.cash
      BY <1>0
    <2> QED
      BY <1>3, <2>1, <2>3, <2>4 DEF Grown
  <1> HIDE DEF Is
  <1>6. ASSUME NEW s \in SUBSET S, s # {}, Is(s \ {Replay!Last(s)})
        PROVE  Is(s)
    <2> DEFINE c == Replay!Last(s)
               r == s \ {c}
               x == engine[r]
               n == Cardinality(r)
               l == Cardinality(S)
    <2>1. c \in s /\ c \in Trade /\ r \in SUBSET S /\ c \notin r /\ s = r \cup {c}
      BY <1>1, <1>6
    <2>2. x \in Books /\ Grown(x, k, t, r)
      <3>1. Grown(x, k, t, r)
        BY <1>6 DEF Is
      <3> HIDE DEF S, c, r
      <3> QED
        BY <1>3, <2>1, <3>1
    <2>3. IsFiniteSet(r) /\ n \in Nat /\ n + 1 <= l /\ l \in Nat
      <3>1. IsFiniteSet(r)
        <4> HIDE DEF S, c, r
        <4> QED
          BY <1>1, <2>1, FS_Subset
      <3>2. Cardinality(r \cup {c}) = n + 1 /\ n \in Nat
        <4> HIDE DEF S, c, r
        <4> QED
          BY <2>1, <3>1, FS_AddElement, FS_CardinalityType
      <3>3. Cardinality(s) <= l /\ l \in Nat
        <4> HIDE DEF S
        <4> QED
          BY <1>1, FS_Subset, FS_CardinalityType
      <3>4. Cardinality(s) = n + 1
        BY <2>1, <3>2
      <3> HIDE DEF n, l, r
      <3> QED
        BY <3>1, <3>2, <3>3, <3>4
    <2>4. l * t <= k.cash
      BY DEF Covered
    <2>5. x.cash \in Nat /\ x.cash >= t
      <3>1. x.cash = k.cash - n * t /\ x.cash \in Nat
        BY <2>2, BookIs DEF Grown
      <3> HIDE DEF n, l, t, x
      <3> DEFINE q == l - (n + 1)
      <3>2. q \in Nat /\ l = n + 1 + q
        BY <2>3
      <3> HIDE DEF q
      <3>3. (n + 1 + q) * t = n * t + t + q * t /\ q * t \in Nat /\ n * t \in Nat
        BY <1>0, <2>3, <3>2
      <3>4. n * t + t + q * t <= k.cash
        BY <2>4, <3>2, <3>3
      <3> QED
        BY <1>0, <3>1, <3>3, <3>4
    <2>6. Replay!Fill(x, c, t) = Replay!Enter(x, c, t)
      <3> HIDE DEF t, x, c
      <3>1. Replay!Smaller(x.cash, t) \in {x.cash, t} /\ Replay!Smaller(x.cash, t) <= t
            /\ Replay!Smaller(x.cash, t) <= x.cash
        BY <1>0, <2>5, SmallerIs
      <3>2. Replay!Smaller(x.cash, t) = t /\ t > 0
        BY <1>0, <2>5, <3>1
      <3> QED
        BY <3>2 DEF Replay!Fill
    <2>7. engine[s] = Replay!Fill(x, c, t)
      BY <1>3, <1>6
    <2> HIDE DEF S, c, r, x, t
    <2>8. Grown(Replay!Enter(x, c, t), k, t, r \cup {c})
      BY <1>0, <2>1, <2>2, <2>3, GrownBy
    <2> QED
      BY <2>1, <2>6, <2>7, <2>8 DEF Is
  <1>7. \A s \in SUBSET S : s # {} /\ s \ {last[s]} \in Good => s \in Good
    <2>1. \A s \in SUBSET S : last[s] = Replay!Last(s)
      OBVIOUS
    <2> HIDE DEF last, S
    <2> QED
      BY <1>6, <2>1
  <1>8. {} \in Good /\ Good \in SUBSET SUBSET S
    BY <1>5
  <1>9. S \in Good
    <2> HIDE DEF Good, last, S
    <2>1. IsFiniteSet(S) /\ Takes(last, SUBSET S)
      BY <1>1
    <2>2. Good \in SUBSET SUBSET S /\ {} \in Good
      BY <1>8
    <2>3. \A s \in SUBSET S : s # {} /\ s \ {last[s]} \in Good => s \in Good
      BY <1>7
    <2>4. \A s \in SUBSET S : s \in Good
      BY <2>1, <2>2, <2>3, EveryRest
    <2> QED
      BY <2>4
  <1> QED
    BY <1>3, <1>9 DEF Is

\* A share of nothing buys nothing.
LEMMA NothingEntered ==
    ASSUME TradesSensible, plan \in Plans, NEW k \in Books, NEW d, NEW b \in {"legacy", "engine"},
           NEW linked, NEW refused, Replay!Target(k) = 0
    PROVE  Replay!Entered(b, k, d, linked, refused) = k
  <1> DEFINE S == Replay!Batch(b, k, d)
             last == [s \in SUBSET S |-> Replay!Last(s)]
  <1>1. PICK table : Walked(b, k, d, linked, refused, table)
    BY EnteredWalk DEF Replay!Backtesters
  <1> DEFINE Good == {s \in SUBSET S : table[s] = k}
  <1>2. /\ S \in SUBSET Trade /\ IsFiniteSet(S) /\ Takes(last, SUBSET S)
        /\ \A s \in SUBSET S : s # {} => Replay!Last(s) \in s
    <2>1. S \in SUBSET Trade
      BY BatchIsOfDay
    <2> HIDE DEF S
    <2> QED
      BY <2>1, LastIs
  <1>3. /\ Replay!Entered(b, k, d, linked, refused) = table[S]
        /\ table[{}] = k
        /\ \A s \in SUBSET S : s # {} =>
             table[s] = Replay!Considered(b, Replay!Last(s), table[s \ {Replay!Last(s)}],
                                          k, linked, refused)
    BY <1>1 DEF Walked
  <1>4. \A c : Replay!Considered(b, c, k, k, linked, refused) = k
    <2> SUFFICES ASSUME NEW c
                 PROVE  Replay!Considered(b, c, k, k, linked, refused) = k
      OBVIOUS
    <2>1. Replay!Smaller(k.cash, 0) <= 0 /\ Replay!Smaller(k.cash, 0) \in Int
      <3>1. k.cash \in Int
        BY BookIs
      <3> QED
        BY <3>1, SmallerIs
    <2> DEFINE capital == Replay!Smaller(k.cash, 0)
               room == /\ Replay!Cardinality(Replay!Held(k, c)) < 1
                       /\ Replay!Cardinality(k.open) < MaxOpen
    <2>2. Replay!LegacyEntry(k, c, 1) = k
      <3>1. (Replay!Equity(k) * Alloc) \div 100 = 0
        BY DEF Replay!Target
      <3>2. Replay!LegacyEntry(k, c, 1)
              = IF room /\ Replay!Smaller(k.cash, (Replay!Equity(k) * Alloc) \div 100) > 0
                THEN Replay!Enter(k, c, Replay!Smaller(k.cash, (Replay!Equity(k) * Alloc) \div 100))
                ELSE k
        BY Zenon DEF Replay!LegacyEntry
      <3> HIDE DEF room
      <3> QED
        BY <2>1, <3>1, <3>2
    <2>3. Replay!Fill(k, c, Replay!Target(k)) = k
      BY <2>1 DEF Replay!Fill
    <2> QED
      BY <2>2, <2>3 DEF Replay!Considered
  <1>5. \A s \in SUBSET S : s # {} /\ s \ {last[s]} \in Good => s \in Good
    <2>1. \A s \in SUBSET S : last[s] = Replay!Last(s)
      OBVIOUS
    <2> HIDE DEF last, S
    <2> QED
      BY <1>3, <1>4, <2>1
  <1>6. {} \in Good /\ Good \in SUBSET SUBSET S
    <2> HIDE DEF S
    <2> QED
      BY <1>3
  <1>7. S \in Good
    <2> HIDE DEF Good, last, S
    <2>1. IsFiniteSet(S) /\ Takes(last, SUBSET S)
      BY <1>2
    <2>2. Good \in SUBSET SUBSET S /\ {} \in Good
      BY <1>6
    <2>3. \A s \in SUBSET S : s # {} /\ s \ {last[s]} \in Good => s \in Good
      BY <1>5
    <2>4. \A s \in SUBSET S : s \in Good
      BY <2>1, <2>2, <2>3, EveryRest
    <2> QED
      BY <2>4
  <1> QED
    BY <1>3, <1>7

\* From the same morning both enter the same, of the day's candidates.
LEMMA EnteredAlike ==
    ASSUME TradesSensible, plan \in Plans, NEW k \in Books, NEW d, Room(k, d),
           NEW linked, NEW refused
    PROVE  /\ Replay!Entered("legacy", k, d, linked, refused)
                = Replay!Entered("engine", k, d, linked, refused)
           /\ \A p \in Replay!Entered("legacy", k, d, linked, refused).open :
                p \in k.open \/ p.c \in Replay!Entries(d)
  <1>1. CASE Replay!Target(k) = 0
    <2>1. /\ Replay!Entered("legacy", k, d, linked, refused) = k
          /\ Replay!Entered("engine", k, d, linked, refused) = k
      BY <1>1, NothingEntered
    <2> QED
      BY <2>1
  <1>2. CASE Replay!Target(k) # 0
    <2> DEFINE x == Replay!Entered("legacy", k, d, linked, refused)
               y == Replay!Entered("engine", k, d, linked, refused)
               t == Replay!Target(k)
               some == Replay!Allocations(k, d)
    <2>1. PICK alloc : Allocating(k, d, alloc)
      BY AllocationsWalk
    <2>2. PICK legacy : Walked("legacy", k, d, linked, refused, legacy)
      BY EnteredWalk DEF Replay!Backtesters
    <2>3. PICK engine : Walked("engine", k, d, linked, refused, engine)
      BY EnteredWalk DEF Replay!Backtesters
    <2>4. Covered(k, t, some) /\ Grown(x, k, t, some)
      BY <1>2, <2>1, <2>2, LegacyWalk
    <2>5. Grown(y, k, t, some)
      BY <1>2, <2>3, <2>4, EngineWalk
    <2>6. x \in Books /\ y \in Books
      BY <2>2, <2>3 DEF Walked
    <2>7. some \subseteq Replay!Entries(d)
      BY <2>1 DEF Allocating
    <2> HIDE DEF x, y, some, t
    <2>8. x = y
      BY <2>4, <2>5, <2>6, BooksEqual DEF Grown
    <2>9. \A p \in x.open : p \in k.open \/ p.c \in some
      BY <2>4 DEF Grown, With
    <2> QED
      BY <2>7, <2>8, <2>9 DEF x, y
  <1> QED
    BY <1>1, <1>2

\* The two books are equal, and every open position has still to end, as a candidate that
\* was chosen.
BooksStayEqual ==
    /\ ReplayTypes /\ Replay!EngineMatchesLegacy
    /\ \A w \in Replay!Twin : \A p \in book[w]["legacy"].open :
         plan.chosen[p.c] /\ Replay!Leaves(p.c) > day

\* On a day the legacy backtester does not visit nothing is due and nothing is decided on.
LEMMA NothingToDo ==
    ASSUME TimesSensible, TradesSensible, WorldsMayBe, NEW k \in Books, NEW d \in Int,
           \A p \in k.open : plan.chosen[p.c] /\ Replay!Leaves(p.c) > d - 1,
           d \notin Replay!Calendar("legacy"), NEW w \in Replay!Twin
    PROVE  /\ Replay!CloseDue(k, Replay!Earned(k, d, w)) = k
           /\ Replay!Entries(d) = {}
           /\ \A p \in k.open : Replay!Leaves(p.c) > d
  <1> DEFINE earned == Replay!Earned(k, d, w)
  <1>1. \A p \in k.open : p.c \in Trade /\ plan.chosen[p.c] /\ Replay!Leaves(p.c) \in Int
    <2>1. \A p \in k.open : p.c \in Trade
      BY BookIs DEF Position
    <2> QED
      BY <2>1 DEF TimesSensible, WorldsMayBe, Replay!Leaves
  <1>2. \A p \in k.open : Replay!Leaves(p.c) # d
    BY <1>1 DEF Replay!Calendar
  <1>3. \A p \in k.open : Replay!Leaves(p.c) > d
    BY <1>1, <1>2
  <1>4. DOMAIN earned = {}
    <2>1. \A p \in k.open : ~ Replay!Leaves(p.c) <= d
      BY <1>1, <1>3
    <2> QED
      BY <2>1, EarnedIs
  <1> HIDE DEF earned
  <1>5. Replay!Returned(earned) = 0
    <2> DEFINE f == [p \in DOMAIN earned |-> p.capital + earned[p]]
    <2>1. IsFiniteSet({}) /\ Replay!Returned(earned) = Arena!Total(f, {})
      BY <1>4, FS_EmptySet, ReturnedIsTotal
    <2> HIDE DEF f
    <2> QED
      BY <2>1, TotalSplits
  <1>6. Replay!CloseDue(k, earned) = k
    <2> DEFINE c == Replay!CloseDue(k, earned)
    <2>1. c.cash = k.cash + 0 /\ c.open = k.open /\ c.done = k.done
      BY <1>4, <1>5 DEF Replay!CloseDue
    <2>2. c \in Books /\ k.cash \in Nat
      BY CloseDueTyped, BookIs DEF earned
    <2> HIDE DEF c
    <2> QED
      BY <2>1, <2>2, BooksEqual DEF c
  <1>7. Replay!Entries(d) = {}
    BY DEF Replay!Entries, Replay!Calendar
  <1> QED
    BY <1>3, <1>6, <1>7 DEF earned

\* One day of both.
LEMMA PlayedSame ==
    ASSUME TimesSensible, TradesSensible, WorldsMayBe, NEW k \in Books, NEW d \in Int,
           \A p \in k.open : plan.chosen[p.c] /\ Replay!Leaves(p.c) > d - 1, NEW w \in Replay!Twin,
           Room(Replay!CloseDue(k, Replay!Earned(k, d, w)), d)
    PROVE  /\ Replay!Played("legacy", k, d, w) = Replay!Played("engine", k, d, w)
           /\ \A p \in Replay!Played("legacy", k, d, w).open :
                plan.chosen[p.c] /\ Replay!Leaves(p.c) > d
  <1> DEFINE closed == Replay!CloseDue(k, Replay!Earned(k, d, w))
             x == Replay!Entered("legacy", closed, d, Replay!Linked(d, w),
                                 Replay!Unfillable(closed, d, w))
             y == Replay!Entered("engine", closed, d, Replay!Linked(d, w),
                                 Replay!Unfillable(closed, d, w))
  <1>1. closed \in Books /\ plan \in Plans
    BY CloseDueTyped DEF WorldsMayBe
  <1>2. x = y /\ \A p \in x.open : p \in closed.open \/ p.c \in Replay!Entries(d)
    <2> HIDE DEF closed
    <2> QED
      BY <1>1, EnteredAlike DEF closed
  <1>3. /\ Replay!Played("legacy", k, d, w) = IF d \in Replay!Calendar("legacy") THEN x ELSE k
        /\ Replay!Played("engine", k, d, w) = IF d \in Replay!Calendar("engine") THEN y ELSE k
    BY DEF Replay!Played
  <1>4. Replay!Calendar("legacy") \subseteq Replay!Calendar("engine")
    <2>1. \A c \in Trade : plan.horizon[c] \in DOMAIN ExitDay
      BY <1>1 DEF TimesSensible
    <2> QED
      BY <2>1 DEF Replay!Calendar, Replay!Leaves
  <1>5. CASE d \in Replay!Calendar("legacy")
    <2>1. \A c \in Replay!Entries(d) : plan.chosen[c] /\ Replay!Leaves(c) > d
      BY <1>1 DEF Replay!Entries, TimesSensible, Replay!Leaves
    <2>2. \A p \in closed.open : p \in k.open /\ Replay!Leaves(p.c) > d
      <3>1. closed.open = k.open \ {p \in k.open : Replay!Leaves(p.c) <= d}
        BY EarnedIs DEF Replay!CloseDue
      <3>2. \A p \in k.open : Replay!Leaves(p.c) \in Int
        BY <1>1, BookIs DEF Position, TimesSensible, Replay!Leaves
      <3> HIDE DEF closed
      <3> QED
        BY <3>1, <3>2
    <2> HIDE DEF closed, x, y
    <2> QED
      BY <1>2, <1>3, <1>4, <1>5, <2>1, <2>2
  <1>6. CASE d \notin Replay!Calendar("legacy")
    <2>1. closed = k /\ Replay!Entries(d) = {} /\ \A p \in k.open : Replay!Leaves(p.c) > d
      BY <1>6, NothingToDo
    <2>2. x = k
      <3>1. PICK table : Walked("legacy", closed, d, Replay!Linked(d, w),
                                Replay!Unfillable(closed, d, w), table)
        <4> HIDE DEF closed
        <4> QED
          BY <1>1, EnteredWalk DEF Replay!Backtesters
      <3>2. Replay!Batch("legacy", closed, d) = {}
        BY <2>1 DEF Replay!Batch
      <3> HIDE DEF closed
      <3> QED
        BY <2>1, <3>1, <3>2 DEF Walked
    <2> HIDE DEF closed, x, y
    <2> QED
      BY <1>2, <1>3, <1>6, <2>1, <2>2
  <1> QED
    BY <1>5, <1>6

\* "Prove the generic strategy/research architecture reproduces V5 exactly"
\* (strategy_engine_v5_replay.py): as long as the exposure limit keeps no open slot closed
\* while cash is left, the engine that allocates a batch of candidates at once has after
\* every day the cash, the positions and the closed trades of the legacy backtester.
THEOREM EngineMatchesLegacyCorrect ==
    Replay!Spec /\ []Replay!RoomTomorrow => []Replay!EngineMatchesLegacy
  <1> TimesSensible /\ TradesSensible
    BY BacktestAssumption
  <1>1. Replay!Init => Replay!EngineMatchesLegacy
        /\ \A w \in Replay!Twin : book[w]["legacy"].open = {}
    BY DEF Replay!Init, Replay!EngineMatchesLegacy, Replay!Backtesters
  <1>2. BooksStayEqual /\ Replay!RoomTomorrow /\ ReplayTypes' /\ [Replay!Next]_Replay!vars => BooksStayEqual'
    <2> SUFFICES ASSUME BooksStayEqual, Replay!RoomTomorrow, ReplayTypes', [Replay!Next]_Replay!vars
                 PROVE  BooksStayEqual'
      OBVIOUS
    <2>1. CASE Replay!Next
      <3>1. /\ day' = day + 1 /\ plan' = plan /\ world' = world /\ day \in Int
            /\ book' = [w \in Replay!Twin |-> [b \in Replay!Backtesters |->
                          Replay!Played(b, book[w][b], day + 1, w)]]
        BY <2>1 DEF Replay!Next, BooksStayEqual, ReplayTypes
      <3>2. ASSUME NEW w \in Replay!Twin
            PROVE  /\ book'[w]["engine"] = book'[w]["legacy"]
                   /\ \A p \in book'[w]["legacy"].open :
                        plan.chosen[p.c] /\ Replay!Leaves(p.c) > day + 1
        <4> DEFINE k == book[w]["legacy"]
                   d == day + 1
        <4>1. k \in Books /\ WorldsMayBe
          BY DEF BooksStayEqual, ReplayTypes, WorldsMayBe, Replay!Backtesters
        <4>2. /\ book[w]["engine"] = k
              /\ \A p \in k.open : plan.chosen[p.c] /\ Replay!Leaves(p.c) > d - 1
          <5>1. d - 1 = day
            BY <3>1
          <5> QED
            BY <5>1 DEF BooksStayEqual, Replay!EngineMatchesLegacy
        <4>3. Room(Replay!CloseDue(k, Replay!Earned(k, d, w)), d)
          BY SameReplayCardinality DEF Replay!RoomTomorrow, Room
        <4>4. d \in Int
          BY <3>1
        <4>5. book'[w]["legacy"] = Replay!Played("legacy", k, d, w)
              /\ book'[w]["engine"] = Replay!Played("engine", book[w]["engine"], d, w)
          BY <3>1 DEF Replay!Backtesters
        <4> HIDE DEF k, d
        <4>6. /\ Replay!Played("legacy", k, d, w) = Replay!Played("engine", k, d, w)
              /\ \A p \in Replay!Played("legacy", k, d, w).open :
                   plan.chosen[p.c] /\ Replay!Leaves(p.c) > d
          BY <4>1, <4>2, <4>3, <4>4, PlayedSame
        <4> QED
          BY <4>2, <4>5, <4>6 DEF d
      <3>3. \A c : Replay!Leaves(c)' = Replay!Leaves(c)
        BY <3>1 DEF Replay!Leaves
      <3> QED
        BY <3>1, <3>2, <3>3 DEF BooksStayEqual, Replay!EngineMatchesLegacy
    <2>2. CASE UNCHANGED Replay!vars
      BY <2>2 DEF Replay!vars, BooksStayEqual, Replay!EngineMatchesLegacy, Replay!Leaves
    <2> QED
      BY <2>1, <2>2
  <1>3. BooksStayEqual => Replay!EngineMatchesLegacy
    BY DEF BooksStayEqual
  <1>4. Replay!Init /\ ReplayTypes => BooksStayEqual
    BY <1>1 DEF BooksStayEqual
  <1>5. Replay!Spec => []ReplayTypes
    BY ReplayTyped
  <1> QED
    BY <1>2, <1>3, <1>4, <1>5, PTL DEF Replay!Spec

-----------------------------------------------------------------------------
(* Research.  A behaviour is one of the component its scene names.          *)

LEMMA RuntimeScene == Spec => Runtime!Spec \/ [](~ scene = "runtime")
  <1>1. Init /\ scene = "runtime" => Runtime!Init
    BY DEF Init
  <1>2. [Next]_vars => IF scene = "runtime"
                        THEN (scene = "runtime")' /\ [Runtime!Next]_(Runtime!vars)
                        ELSE (~ scene = "runtime")'
    BY DEF Next, Only, vars, Runtime!vars, records, runtimeVars, researchVars, marketVars, rowVars,
           calibrationVars, backtestVars, historyVars, arenaVars, restVars, sceneVars
  <1>3. scene = "runtime" /\ [Next]_vars => (scene = "runtime")' /\ [Runtime!Next]_(Runtime!vars)
    BY <1>2
  <1>4. (~ scene = "runtime") /\ [Next]_vars => (~ scene = "runtime")'
    BY <1>2
  <1> QED
    BY <1>1, <1>3, <1>4, PTL DEF Spec, Runtime!Spec

LEMMA GenerationScene == Spec => Generation!Spec \/ [](~ scene = "research")
  <1>1. Init /\ scene = "research" => Generation!Init
    BY DEF Init
  <1>2. [Next]_vars => IF scene = "research"
                        THEN (scene = "research")' /\ [Generation!Next]_(Generation!vars)
                        ELSE (~ scene = "research")'
    BY DEF Next, Only, vars, Generation!vars, records, runtimeVars, researchVars, marketVars,
           rowVars,
           calibrationVars, backtestVars, historyVars, arenaVars, restVars, sceneVars
  <1>3. scene = "research" /\ [Next]_vars =>
            (scene = "research")' /\ [Generation!Next]_(Generation!vars)
    BY <1>2
  <1>4. (~ scene = "research") /\ [Next]_vars => (~ scene = "research")'
    BY <1>2
  <1> QED
    BY <1>1, <1>3, <1>4, PTL DEF Spec, Generation!Spec

LEMMA MarketScene == Spec => Market!Spec \/ [](~ scene = "market")
  <1>1. Init /\ scene = "market" => Market!Init
    BY DEF Init
  <1>2. [Next]_vars => IF scene = "market"
                        THEN (scene = "market")' /\ [Market!Next]_(Market!vars)
                        ELSE (~ scene = "market")'
    BY DEF Next, Only, vars, Market!vars, records, runtimeVars, researchVars, marketVars, rowVars,
           calibrationVars, backtestVars, historyVars, arenaVars, restVars, sceneVars
  <1>3. scene = "market" /\ [Next]_vars => (scene = "market")' /\ [Market!Next]_(Market!vars)
    BY <1>2
  <1>4. (~ scene = "market") /\ [Next]_vars => (~ scene = "market")'
    BY <1>2
  <1> QED
    BY <1>1, <1>3, <1>4, PTL DEF Spec, Market!Spec

LEMMA TrainingScene == Spec => Training!Spec \/ [](~ scene = "rows")
  <1>1. Init /\ scene = "rows" => Training!Init
    BY DEF Init
  <1>2. [Next]_vars => IF scene = "rows"
                        THEN (scene = "rows")' /\ [Training!Next]_(Training!vars)
                        ELSE (~ scene = "rows")'
    BY DEF Next, Only, vars, Training!vars, records, runtimeVars, researchVars, marketVars, rowVars,
           calibrationVars, backtestVars, historyVars, arenaVars, restVars, sceneVars
  <1>3. scene = "rows" /\ [Next]_vars => (scene = "rows")' /\ [Training!Next]_(Training!vars)
    BY <1>2
  <1>4. (~ scene = "rows") /\ [Next]_vars => (~ scene = "rows")'
    BY <1>2
  <1> QED
    BY <1>1, <1>3, <1>4, PTL DEF Spec, Training!Spec

LEMMA CalibrationScene == Spec => Calibration!Spec \/ [](~ scene = "calibration")
  <1>1. Init /\ scene = "calibration" => Calibration!Init
    BY DEF Init
  <1>2. [Next]_vars => IF scene = "calibration"
                        THEN (scene = "calibration")' /\ [Calibration!Next]_(Calibration!vars)
                        ELSE (~ scene = "calibration")'
    BY DEF Next, Only, vars, Calibration!vars, records, runtimeVars, researchVars, marketVars,
           rowVars,
           calibrationVars, backtestVars, historyVars, arenaVars, restVars, sceneVars
  <1>3. scene = "calibration" /\ [Next]_vars =>
            (scene = "calibration")' /\ [Calibration!Next]_(Calibration!vars)
    BY <1>2
  <1>4. (~ scene = "calibration") /\ [Next]_vars => (~ scene = "calibration")'
    BY <1>2
  <1> QED
    BY <1>1, <1>3, <1>4, PTL DEF Spec, Calibration!Spec

LEMMA ReplayScene ==
    Spec => (Replay!Spec /\ [](scene = "backtest")) \/ [](~ scene = "backtest")
  <1>1. Init /\ scene = "backtest" => Replay!Init
    BY DEF Init
  <1>2. [Next]_vars => IF scene = "backtest"
                        THEN (scene = "backtest")' /\ [Replay!Next]_(Replay!vars)
                        ELSE (~ scene = "backtest")'
    BY DEF Next, Only, vars, Replay!vars, records, runtimeVars, researchVars, marketVars, rowVars,
           calibrationVars, backtestVars, historyVars, arenaVars, restVars, sceneVars
  <1>3. scene = "backtest" /\ [Next]_vars => (scene = "backtest")' /\ [Replay!Next]_(Replay!vars)
    BY <1>2
  <1>4. (~ scene = "backtest") /\ [Next]_vars => (~ scene = "backtest")'
    BY <1>2
  <1> QED
    BY <1>1, <1>3, <1>4, PTL DEF Spec, Replay!Spec

LEMMA HistoryScene == Spec => History!Spec \/ [](~ scene = "history")
  <1>1. Init /\ scene = "history" => History!Init
    BY DEF Init
  <1>2. [Next]_vars => IF scene = "history"
                        THEN (scene = "history")' /\ [History!Next]_(History!vars)
                        ELSE (~ scene = "history")'
    BY DEF Next, Only, vars, History!vars, records, runtimeVars, researchVars, marketVars, rowVars,
           calibrationVars, backtestVars, historyVars, arenaVars, restVars, sceneVars
  <1>3. scene = "history" /\ [Next]_vars => (scene = "history")' /\ [History!Next]_(History!vars)
    BY <1>2
  <1>4. (~ scene = "history") /\ [Next]_vars => (~ scene = "history")'
    BY <1>2
  <1> QED
    BY <1>1, <1>3, <1>4, PTL DEF Spec, History!Spec

LEMMA ArenaScene == Spec => Arena!Spec \/ [](~ scene = "arena")
  <1>1. Init /\ scene = "arena" => Arena!Init
    BY DEF Init
  <1>2. [Next]_vars => IF scene = "arena"
                        THEN (scene = "arena")' /\ [Arena!Next]_(Arena!vars)
                        ELSE (~ scene = "arena")'
    BY DEF Next, Only, vars, Arena!vars, records, runtimeVars, researchVars, marketVars, rowVars,
           calibrationVars, backtestVars, historyVars, arenaVars, restVars, sceneVars
  <1>3. scene = "arena" /\ [Next]_vars => (scene = "arena")' /\ [Arena!Next]_(Arena!vars)
    BY <1>2
  <1>4. (~ scene = "arena") /\ [Next]_vars => (~ scene = "arena")'
    BY <1>2
  <1> QED
    BY <1>1, <1>3, <1>4, PTL DEF Spec, Arena!Spec

\* Whatever jobs and sessions overlap, the registry keeps a tradable champion and a freeze
\* that failed before the summary and between manifests can be retried; and the active
\* strategies' shares are fair (StrategyRegistry, the freeze commands of the strategy
\* runtime, StrategyArena.evaluate).
THEOREM StrategiesSoundCorrect == ASSUME Legacy \notin Challenger PROVE Spec => []StrategiesSound
  <1>1. Spec => [](scene = "runtime" => Runtime!ChampionTradable /\ Runtime!FailedFreezeRetries)
    <2>1. Runtime!Spec => [](Runtime!ChampionTradable /\ Runtime!FailedFreezeRetries)
      BY ChampionTradableCorrect, FailedFreezeRetriesCorrect, PTL
    <2> QED
      BY <2>1, RuntimeScene, PTL
  <1>2. Spec => [](scene = "arena" => Arena!SharesFair)
    <2>1. Arena!Spec => [](Arena!SharesFair)
      BY SharesFairCorrect, PTL
    <2> QED
      BY <2>1, ArenaScene, PTL
  <1>3. /\ (scene = "runtime" => Runtime!ChampionTradable /\ Runtime!FailedFreezeRetries)
      /\ (scene = "arena" => Arena!SharesFair)
      => StrategiesSound
    BY DEF StrategiesSound
  <1> QED
    BY <1>1, <1>2, <1>3, PTL

\* A command that reports its end has done all of its work (sync_pending_current_market,
\* populate_sec_and_market).
THEOREM FinishedIsCompleteCorrect == Spec => []FinishedIsComplete
  <1>1. Spec => [](scene = "market" => Market!AskedFor)
    <2>1. Market!Spec => [](Market!AskedFor)
      BY AskedForCorrect, PTL
    <2> QED
      BY <2>1, MarketScene, PTL
  <1>2. Spec => [](scene = "history" => History!PopulationComplete)
    <2>1. History!Spec => [](History!PopulationComplete)
      BY PopulationCompleteCorrect, PTL
    <2> QED
      BY <2>1, HistoryScene, PTL
  <1>3. /\ (scene = "market" => Market!AskedFor)
      /\ (scene = "history" => History!PopulationComplete)
      => FinishedIsComplete
    BY DEF FinishedIsComplete
  <1> QED
    BY <1>1, <1>2, <1>3, PTL

\* Receipts of the calibration and frozen strategies can be decided again from what was
\* written (rewind_registry_calibration_before, freeze_maturity_safe_finalists).
THEOREM ReproducibleCorrect ==
    ASSUME NoOverlayApart, OneScreening, TotalsTell
    PROVE  Spec => []Reproducible
  <1>1. Spec => [](scene = "calibration" => Calibration!ReceiptReproducible)
    <2>1. Calibration!Spec => [](Calibration!ReceiptReproducible)
      BY ReceiptReproducibleCorrect, PTL
    <2> QED
      BY <2>1, CalibrationScene, PTL
  <1>2. Spec => [](scene = "research" => Generation!ShadowReproduces)
    <2>1. Generation!Spec => [](Generation!ShadowReproduces)
      BY ShadowReproducesCorrect, PTL
    <2> QED
      BY <2>1, GenerationScene, PTL
  <1>3. /\ (scene = "calibration" => Calibration!ReceiptReproducible)
      /\ (scene = "research" => Generation!ShadowReproduces)
      => Reproducible
    BY DEF Reproducible
  <1> QED
    BY <1>1, <1>2, <1>3, PTL

\* Holdouts have no company that was used before, and neither the split of a test year
\* nor a day of a backtest depends on what came later.
THEOREM NoLookAheadCorrect == ASSUME Fence = Horizons PROVE Spec => []NoLookAhead
  <1>1. Spec => [](scene = "history" => History!HoldoutsDisjoint)
    <2>1. History!Spec => [](History!HoldoutsDisjoint)
      BY HoldoutsDisjointCorrect, PTL
    <2> QED
      BY <2>1, HistoryScene, PTL
  <1>2. Spec => [](scene = "rows" => Training!HindsightIsPointInTime)
    <2>1. Training!Spec => [](Training!HindsightIsPointInTime)
      BY HindsightCorrect, PTL
    <2> QED
      BY <2>1, TrainingScene, PTL
  <1>3. Spec => [](scene = "backtest" => Replay!DecisionsIgnoreFuture)
    <2>1. Replay!Spec => [](Replay!DecisionsIgnoreFuture)
      BY DecisionsIgnoreFutureCorrect, PTL
    <2> QED
      BY <2>1, ReplayScene, PTL
  <1>4. /\ (scene = "history" => History!HoldoutsDisjoint)
      /\ (scene = "rows" => Training!HindsightIsPointInTime)
      /\ (scene = "backtest" => Replay!DecisionsIgnoreFuture)
      => NoLookAhead
    BY DEF NoLookAhead
  <1> QED
    BY <1>1, <1>2, <1>3, <1>4, PTL

\* Without a session beside the jobs, no write, raise or death of a job takes away a
\* runtime on which the runs go through, except a raise after the registry's save (the
\* freeze commands of the strategy runtime).
THEOREM RuntimeKeptCorrect == ASSUME Apart PROVE Spec => JobsKeepRuntime
  <1> DEFINE Keeps == job' # job /\ ~Runtime!LateRaise /\ ~Runtime!StaleSave
                         /\ Runtime!Loadable /\ Runtime!Restorable =>
                         (Runtime!Loadable /\ Runtime!Restorable)'
             Kept == scene = "runtime" /\ job' # job /\ ~Runtime!LateRaise /\ ~Runtime!StaleSave =>
                        (Runtime!Loadable /\ Runtime!Restorable =>
                            (Runtime!Loadable /\ Runtime!Restorable)')
  <1>1. Runtime!Spec => [][Keeps]_(Runtime!vars)
    BY JobsKeepRuntimeCorrect DEF Runtime!JobsKeepRuntime
  <1>2. [Keeps]_(Runtime!vars) => [Kept]_vars
    BY DEF Runtime!vars
  <1>3. (~ scene = "runtime") => [Kept]_vars
    OBVIOUS
  <1> HIDE DEF Keeps, Kept
  <1>4. Spec => [][Kept]_vars
    BY <1>1, <1>2, <1>3, RuntimeScene, PTL
  <1> QED
    BY <1>4 DEF JobsKeepRuntime, Kept

\* Every component keeps its state in its type: what its tables, files and jobs hold is
\* what the code may write there (the runtime, the research generation, the market
\* synchronization, candidate rows, the rolling calibration, the backtesters, the
\* historical data and the arena).
THEOREM TypeCorrect == ASSUME NoOverlayApart PROVE Spec => []TypeOK
  <1>1. Spec => [](scene = "runtime" => Runtime!TypeOK)
    <2>1. Runtime!Spec => [](Runtime!TypeOK)
      BY RuntimeTypeCorrect, PTL
    <2> QED
      BY <2>1, RuntimeScene, PTL
  <1>2. Spec => [](scene = "research" => Generation!TypeOK)
    <2>1. Generation!Spec => [](Generation!TypeOK)
      BY GenerationTypeCorrect, PTL
    <2> QED
      BY <2>1, GenerationScene, PTL
  <1>3. Spec => [](scene = "market" => Market!TypeOK)
    <2>1. Market!Spec => [](Market!TypeOK)
      BY MarketTypeCorrect, PTL
    <2> QED
      BY <2>1, MarketScene, PTL
  <1>4. Spec => [](scene = "rows" => Training!TypeOK)
    <2>1. Training!Spec => [](Training!TypeOK)
      BY TrainingTypeCorrect, PTL
    <2> QED
      BY <2>1, TrainingScene, PTL
  <1>5. Spec => [](scene = "calibration" => Calibration!TypeOK)
    <2>1. Calibration!Spec => [](Calibration!TypeOK)
      BY CalibrationTypeCorrect, PTL
    <2> QED
      BY <2>1, CalibrationScene, PTL
  <1>6. Spec => [](scene = "backtest" => Replay!TypeOK)
    <2>1. Replay!Spec => [](Replay!TypeOK)
      BY ReplayTypeCorrect, PTL
    <2> QED
      BY <2>1, ReplayScene, PTL
  <1>7. Spec => [](scene = "history" => History!TypeOK)
    <2>1. History!Spec => [](History!TypeOK)
      BY HistoryTypeCorrect, PTL
    <2> QED
      BY <2>1, HistoryScene, PTL
  <1>8. Spec => [](scene = "arena" => Arena!TypeOK)
    <2>1. Arena!Spec => [](Arena!TypeOK)
      BY ArenaTypeCorrect, PTL
    <2> QED
      BY <2>1, ArenaScene, PTL
  <1>9. /\ (scene = "runtime" => Runtime!TypeOK)
      /\ (scene = "research" => Generation!TypeOK)
      /\ (scene = "market" => Market!TypeOK)
      /\ (scene = "rows" => Training!TypeOK)
      /\ (scene = "calibration" => Calibration!TypeOK)
      /\ (scene = "backtest" => Replay!TypeOK)
      /\ (scene = "history" => History!TypeOK)
      /\ (scene = "arena" => Arena!TypeOK)
      => TypeOK
    BY DEF TypeOK
  <1> QED
    BY <1>1, <1>2, <1>3, <1>4, <1>5, <1>6, <1>7, <1>8, <1>9, PTL

\* The pairs of implementations that must agree do: two enrichments of one lobbying
\* client, an arena with and one without its weak strategies, live decisions and a
\* chronological replay, live candidates and training rows, the engine and the legacy
\* backtester (while every share of today's equity would fit tomorrow), the rows of the
\* freeze and of the screening.
THEOREM SameResultCorrect ==
    ASSUME NoOverlayApart
    PROVE  Spec /\ [](scene = "backtest" => Replay!RoomTomorrow) => []SameResult
  <1>1. Spec => [](scene = "history" => History!OneCompanyPerClient)
    <2>1. History!Spec => [](History!OneCompanyPerClient)
      BY OneCompanyCorrect, PTL
    <2> QED
      BY <2>1, HistoryScene, PTL
  <1>2. Spec => [](scene = "arena" => Arena!WeakOnesIgnored)
    <2>1. Arena!Spec => [](Arena!WeakOnesIgnored)
      BY WeakOnesIgnoredCorrect, PTL
    <2> QED
      BY <2>1, ArenaScene, PTL
  <1>3. Spec => [](scene = "calibration" => Calibration!LiveMatchesReplay)
    <2>1. Calibration!Spec => [](Calibration!LiveMatchesReplay)
      BY LiveMatchesReplayCorrect, PTL
    <2> QED
      BY <2>1, CalibrationScene, PTL
  <1>4. Spec => [](scene = "rows" => Training!LiveIsTrained)
    <2>1. Training!Spec => [](Training!LiveIsTrained)
      BY LiveIsTrainedCorrect, PTL
    <2> QED
      BY <2>1, TrainingScene, PTL
  <1>5. Spec /\ [](scene = "backtest" => Replay!RoomTomorrow) =>
            [](scene = "backtest" => Replay!EngineMatchesLegacy)
    <2>1. Replay!Spec /\ []Replay!RoomTomorrow => [](Replay!EngineMatchesLegacy)
      BY EngineMatchesLegacyCorrect, PTL
    <2>2. [](scene = "backtest") /\ [](scene = "backtest" => Replay!RoomTomorrow)
          => []Replay!RoomTomorrow
      BY PTL
    <2> QED
      BY <2>1, <2>2, ReplayScene, PTL
  <1>6. Spec => [](scene = "research" => Generation!FreezeTrainsLikeScreening)
    <2>1. Generation!Spec => [](Generation!FreezeTrainsLikeScreening)
      BY FreezeTrainsCorrect, PTL
    <2> QED
      BY <2>1, GenerationScene, PTL
  <1>7. /\ (scene = "history" => History!OneCompanyPerClient)
      /\ (scene = "arena" => Arena!WeakOnesIgnored)
      /\ (scene = "calibration" => Calibration!LiveMatchesReplay)
      /\ (scene = "rows" => Training!LiveIsTrained)
      /\ (scene = "backtest" => Replay!EngineMatchesLegacy)
      /\ (scene = "research" => Generation!FreezeTrainsLikeScreening)
      => SameResult
    BY DEF SameResult
  <1> QED
    BY <1>1, <1>2, <1>3, <1>4, <1>5, <1>6, <1>7, PTL
=============================================================================
