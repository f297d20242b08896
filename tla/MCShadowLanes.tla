--------------------------- MODULE MCShadowLanes ---------------------------
(* The measurement side: the two lanes and the forward evidence, each on a  *)
(* small instance.  A behaviour is a behaviour of one of them, the one that *)
(* "scene" names; variables the scene does not use hold Unused.             *)
EXTENDS Integers, FiniteSets, Sequences, TLC

CONSTANTS
    \* of LdaLane
    Filing, PostedAt, Modelled, CompanyOf, PageSize, NewestFirst, EdgeBlocks,
    \* of UsaspendingLane
    Award, Transaction, AwardOf, Uei, Named, Resembling, SharedAliases, Company,
    Doubtful, ChangedOn, ActionDay, MaxLag, Overlap, Legacy, ListingMoves,
    \* of ForwardScorecard
    Batches, SecurityOf, ExecutionOn, Chosen, SourceOf, Benchmark, Horizons, Limit,
    \* shared
    Lookback, MaxTime, MaxSession, MaxAborts, None, Unused

ASSUME LdaAssumption ==
    /\ Filing \subseteq Nat \ {0} /\ IsFiniteSet(Filing)
    /\ PostedAt \in [Filing -> Nat]
    /\ \A f, g \in Filing : f <= g => PostedAt[f] <= PostedAt[g]
    /\ Modelled \subseteq Filing
    /\ PageSize \in Nat \ {0}
    /\ NewestFirst \in BOOLEAN
ASSUME BoundsAssumption ==
    /\ Lookback \in Nat
    /\ MaxTime \in Nat \ {0}
    /\ MaxSession \in Nat
    /\ MaxAborts \in Nat

ASSUME UsaAssumption ==
    /\ AwardOf \in [Transaction -> Award]
    /\ Named \in [Award -> [recipient : Company \cup {None}, parent : Company \cup {None}]]
    /\ ActionDay \in [Transaction -> Int] /\ MaxLag \in Nat
    /\ Award \subseteq Int /\ IsFiniteSet(Award)
    /\ IsFiniteSet(Transaction) /\ IsFiniteSet(Company)
    /\ \A t \in Transaction :
         /\ ChangedOn[t] \subseteq Int /\ IsFiniteSet(ChangedOn[t])
         /\ \A d \in ChangedOn[t] : d # None
    /\ Overlap \in Nat
    /\ \A t \in Legacy :
         /\ t \in Transaction /\ ActionDay[t] <= 0
         /\ \E c \in Company : <<Uei[AwardOf[t]].recipient, c>> \in SharedAliases
    /\ \A e \in [company : Company, at : 0 .. MaxTime] : e # None
    /\ \A t \in 0 .. MaxTime : t # None
    /\ \A T \in SUBSET Transaction : T # None

ASSUME ForwardAssumption ==
    \A b \in Batches : ExecutionOn[b] \in Nat /\ Chosen[b] \in Horizons \cup {None}

VARIABLES
    scene,
    now, intake, stored, diagnostics, pc, run, aborts,
    aliases, invalidated, migration,
    completed, bars, scorecard, reported

laneVars == <<now, intake, stored>>
usaVars == <<aliases, migration>>
forwardVars == <<completed, bars, scorecard, reported>>
vars == <<scene, laneVars, usaVars, forwardVars, diagnostics, invalidated, pc, run, aborts>>

Lda == INSTANCE LdaLane WITH MaxTime <- MaxTime - 1
Usa == INSTANCE UsaspendingLane
Forward == INSTANCE ForwardScorecard WITH Batch <- Batches

Init ==
    \/ /\ scene = "lda" /\ Lda!Init
       /\ aliases = Unused /\ invalidated = Unused /\ migration = Unused
       /\ completed = Unused /\ bars = Unused /\ scorecard = Unused /\ reported = Unused
    \/ /\ scene = "usa" /\ Usa!Init
       /\ completed = Unused /\ bars = Unused /\ scorecard = Unused /\ reported = Unused
    \/ /\ scene = "forward" /\ Forward!Init
       /\ now = Unused /\ intake = Unused /\ stored = Unused
       /\ aliases = Unused /\ migration = Unused

LdaOnly == scene = "lda" /\ UNCHANGED <<scene, usaVars, invalidated, forwardVars>>
UsaOnly == scene = "usa" /\ UNCHANGED <<scene, forwardVars>>
ForwardOnly == scene = "forward" /\ UNCHANGED <<scene, laneVars, usaVars>>

Next ==
    \/ LdaOnly /\ Lda!Next
    \/ UsaOnly /\ Usa!Next
    \/ ForwardOnly /\ Forward!Next

FairSpec ==
    /\ Init /\ [][Next]_vars
    /\ WF_vars(LdaOnly /\ Lda!RunStep)
    /\ WF_vars(LdaOnly /\ Lda!Tick)
    /\ WF_vars(ForwardOnly /\ Forward!Refresh("lane"))
-----------------------------------------------------------------------------
(* The values of the constants. *)

\* Four filings, one per half day; the third belongs to nobody modelled.
MCPostedAt == <<0, 1, 2, 3>>
MCCompanyOf == (1 :> 1) @@ (2 :> 1) @@ (4 :> 2)

\* Three awards of one parent: the authoritative side knows the first one's recipient,
\* the second is named, the third, of no identified recipient, resembles a name.  The
\* first has transactions observed by the earlier version, one of an old action, and is
\* modified again while a poll may be reading the last.
MCAwardOf == <<1, 2, 3, 1>>
MCUei == <<[recipient |-> "u1", parent |-> "p"], [recipient |-> "u2", parent |-> "p"],
           [recipient |-> None, parent |-> "p"]>>
MCNamed == <<[recipient |-> None, parent |-> None], [recipient |-> "B", parent |-> None],
             [recipient |-> None, parent |-> None]>>
MCSharedAliases == {<<"u1", "A">>}
MCChangedOn == <<{0, 3}, {1}, {0, 2}, {0, 3}>>
MCActionDay == <<0, 1, -1, -4>>

\* A batch of one security, for the first session.
MCSecurityOf == "b1" :> "x"
MCExecutionOn == "b1" :> 1
MCChosen == "b1" :> 2
MCSourceOf == "b1" :> "sec_form4"
-----------------------------------------------------------------------------
(* The properties of the modules, each in its scene. *)

\* The state of every scene has its type.
TypeOK ==
    /\ scene = "lda" => Lda!TypeOK /\ Lda!PendingStored
    /\ scene = "usa" => Usa!TypeOK
    /\ scene = "forward" => Forward!TypeOK

\* LdaLane: no filing is lost behind the cursor.
CursorCovers == [][scene = "lda" => Lda!CursorStep]_vars

\* LdaLane: the queue drains although market data may stay away.
PendingEnds ==
    \A f \in Modelled : (scene = "lda" /\ Lda!Waiting(f)) ~> ~(scene = "lda" /\ Lda!Waiting(f))

\* Both lanes: a filing or transaction is forward evidence once, unless a run was
\* cut off between writing and acknowledging, and then for one session.
EvidenceOnce ==
    /\ scene = "lda" => Lda!EvidenceOnce
    /\ scene = "usa" => Usa!EvidenceOnce

\* UsaspendingLane: the migration takes stale evidence out for good.
OutdatedExcluded == scene = "usa" => Usa!OutdatedExcluded

\* UsaspendingLane: no event stays stored and unqueued behind the watermark.
NoOrphan == [][scene = "usa" => Usa!OrphanFree]_vars

\* ForwardScorecard: labels do not change once published.
LabelsAreFacts == scene = "forward" => Forward!LabelsAreFacts

\* ForwardScorecard: invalidated evidence ends up outside the scorecard.
InvalidatedLeaves ==
    \A b \in Batches : (scene = "forward" /\ b \in invalidated) ~>
                              [](~(scene = "forward" /\ Forward!Counts(b)))
=============================================================================
