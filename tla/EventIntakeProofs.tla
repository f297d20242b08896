-------------------------- MODULE EventIntakeProofs --------------------------
(* Proofs about EventIntake for every set of companies and filings, every    *)
(* assignment of filings to feeds and sessions, and all bounds.  Types hold  *)
(* in any case; the other theorems assume that the recovery tool is not run  *)
(* beside the pipeline (Overlap is FALSE): the run "intake_overlap" shows    *)
(* what happens otherwise.                                                   *)
EXTENDS EventIntakeInvariant, TLAPS

-----------------------------------------------------------------------------
(* Facts about the operators.                                               *)

\* Cursors are numbers, and so is the initial watermark.
LEMMA CursorNat == Filing \subseteq Nat /\ {0} \cup Filing \subseteq Nat
  BY FilingAssumption

\* The poll takes one filing at a time.
LEMMA FirstUnique ==
    ASSUME NEW S \in SUBSET Filing, NEW f \in First(S), NEW g \in First(S)
    PROVE  f = g /\ f \in S
  BY FilingAssumption DEF First

\* The recovery takes one record at a time.
LEMMA FirstListingUnique ==
    ASSUME NEW S \in SUBSET Listing, NEW l \in FirstListing(S), NEW m \in FirstListing(S)
    PROVE  l = m /\ l \in S
  <1>1. l \in Listing /\ m \in Listing /\ l \in S /\ m \in S
    BY DEF FirstListing
  <1>2. l.filing \in Nat /\ m.filing \in Nat /\ l.cik \in Nat /\ m.cik \in Nat
    BY <1>1, FilingAssumption, CikAssumption DEF Listing
  <1>3. /\ l.filing < m.filing \/ (l.filing = m.filing /\ l.cik <= m.cik)
        /\ m.filing < l.filing \/ (m.filing = l.filing /\ m.cik <= l.cik)
    BY <1>1 DEF FirstListing
  <1>4. l.filing = m.filing /\ l.cik = m.cik
    BY <1>2, <1>3
  <1> QED
    BY <1>1, <1>4 DEF Listing

\* commit_filing yields a queue.
LEMMA CommittedQueue ==
    ASSUME NEW q \in Queue, NEW c \in Cik, NEW f \in Filing, NEW E \in SUBSET Filing
    PROVE  Committed(q, c, f, E) \in Queue
  BY DEF Committed, Queue, Listing

-----------------------------------------------------------------------------
(* The steps that only end or begin something, taken together.             *)

\* The run ends: it returns, raises or dies.
Stops == (\E f \in Filing : CommitRaises(f)) \/ EndPipeline \/ CrashPipeline

\* A day begins, or a feed shows a filing.
Outside == NextDay \/ \E l \in Listing : List(l)

\* A process reads a file.
Reads == ReadQueue \/ ReadAgain \/ ReadForResolve

\* The recovery leaves a record as it is, ends or dies.
Skips == EndRecovery \/ CrashRecovery
           \/ \E l \in Listing : RecoveryFails(l) \/ EnqueueFails(l) \/ RecoveryRaises(l)

LEMMA NextCases ==
    ASSUME Next
    PROVE  \/ Stops \/ Outside \/ Reads \/ Skips
           \/ StartPoll
           \/ \E c \in Cik : FetchSubmissions(c)
           \/ \E f \in Filing : FetchFiling(f)
           \/ \E f \in Filing : ReadQuarantine(f)
           \/ \E f \in Filing : RecordQuarantine(f)
           \/ \E f \in Filing : StoreEvents(f)
           \/ \E f \in Filing : CommitFiling(f)
           \/ EndFeed \/ StartCycle \/ Reconcile \/ Select \/ DisposeStale
           \/ RetireStale \/ Decide \/ RetireDecided
           \/ StartRecovery
           \/ \E l \in Listing : SkipRecovered(l)
           \/ \E l \in Listing : FetchReplacement(l)
           \/ \E l \in Listing : StoreRecovered(l)
           \/ \E l \in Listing : ReadForRecovery(l)
           \/ \E l \in Listing : CommitRecovered(l)
           \/ \E l \in Listing : AppendRecovered(l)
           \/ \E l \in Listing : RecordRecovery(l)
           \/ \E l \in Listing : Resolve(l)
  BY DEF Next, PipelineStep, RecoveryStep, Stops, Outside, Reads, Skips

LEMMA StopsFrame ==
    ASSUME Stops, TypeOK
    PROVE  /\ Forget /\ pc # "idle" /\ crashes' \in 0 .. MaxCrashes
           /\ UNCHANGED <<day, listed, intake, outcomes, recovery>>
  <1> USE BoundsAssumption DEF world, TypeOK
  <1>1. ASSUME NEW f \in Filing, CommitRaises(f)
        PROVE  Forget /\ pc # "idle" /\ UNCHANGED <<world, intake, outcomes, recovery>>
    BY <1>1 DEF CommitRaises
  <1>2. CASE EndPipeline
    BY <1>2 DEF EndPipeline
  <1>3. CASE CrashPipeline
    BY <1>3 DEF CrashPipeline
  <1> QED
    BY <1>1, <1>2, <1>3 DEF Stops

LEMMA OutsideFrame ==
    ASSUME Outside, TypeOK
    PROVE  /\ day <= day' /\ day' \in 1 .. MaxDay /\ listed' \subseteq Listing
           /\ UNCHANGED <<crashes, intake, outcomes, pc, memory, recovery>>
  BY BoundsAssumption DEF Outside, NextDay, List, TypeOK

LEMMA ReadsFrame ==
    ASSUME Reads
    PROVE  /\ UNCHANGED <<world, intake, outcomes, pc, cutoff, finalized, unpolled, feed,
                          todo, parsed, done, selected, rpc, active>>
           /\ \/ /\ pc \in {"commit", "reconcile", "retire", "acknowledge"}
                 /\ image' = TheQueue /\ UNCHANGED rimage
              \/ rpc = "commit" /\ rimage' = TheQueue /\ UNCHANGED image
              \/ rpc = "resolve" /\ rimage' = quarantine /\ UNCHANGED image
  <1>1. CASE ReadQueue
    BY <1>1 DEF ReadQueue, recovery
  <1>2. CASE ReadAgain
    BY <1>2 DEF ReadAgain, memory
  <1>3. CASE ReadForResolve
    BY <1>3 DEF ReadForResolve, memory
  <1> QED
    BY <1>1, <1>2, <1>3 DEF Reads

LEMMA SkipsFrame ==
    ASSUME Skips, TypeOK
    PROVE  /\ rpc # "idle" /\ rpc' \in {"idle", "next"}
           /\ rimage' = None \/ (rpc = "next" /\ rimage' = rimage)
           /\ active' \subseteq active /\ crashes' \in 0 .. MaxCrashes
           /\ UNCHANGED <<day, listed, intake, outcomes, pc, memory>>
  <1> USE BoundsAssumption DEF TypeOK, world
  <1>1. CASE EndRecovery
    BY <1>1 DEF EndRecovery, ForgetRecovery
  <1>2. CASE CrashRecovery
    BY <1>2 DEF CrashRecovery, ForgetRecovery
  <1>3. ASSUME NEW l \in Listing, RecoveryFails(l)
        PROVE  /\ rpc = "next" /\ active' \subseteq active
               /\ UNCHANGED <<world, intake, outcomes, pc, memory, rpc, rimage>>
    BY <1>3 DEF RecoveryFails
  <1>4. ASSUME NEW l \in Listing, EnqueueFails(l) \/ RecoveryRaises(l)
        PROVE  /\ rpc # "idle" /\ rpc' = "next" /\ rimage' = None /\ active' \subseteq active
               /\ crashes' \in 0 .. MaxCrashes
               /\ UNCHANGED <<day, listed, intake, outcomes, pc, memory>>
    BY <1>4 DEF EnqueueFails, RecoveryRaises
  <1> QED
    BY <1>1, <1>2, <1>3, <1>4 DEF Skips

-----------------------------------------------------------------------------
(* Types.                                                                   *)

LEMMA TypeInit == Init => TypeInv
  BY FilingAssumption, BoundsAssumption
  DEF Init, TypeInv, TypeOK, Queue, Steps, RecoverySteps, Polling

\* Forgetting, and the recovery's memory as it was.
LEMMA ForgetType ==
    ASSUME TypeInv, Forget, day' \in 1 .. MaxDay, crashes' \in 0 .. MaxCrashes,
           listed' \subseteq Listing, receipts' \subseteq Filing,
           [watermark |-> watermark', pending |-> pending'] \in Queue,
           UNCHANGED <<raw, normalized, quarantine, recovered, stale, recovery>>
    PROVE  TypeInv'
  <1>1. 0 \in 0 .. MaxDay /\ "idle" \in Steps
    BY BoundsAssumption DEF Steps
  <1> QED
    BY <1>1 DEF TypeInv, TypeOK, Forget, recovery, Polling

LEMMA TypeFacts ==
    ASSUME TypeOK
    PROVE  /\ watermark \in [Cik -> {0} \cup Filing] /\ pending \in SUBSET Listing
           /\ Filings(pending) \subseteq Filing /\ Finalized \subseteq Filing
           /\ TheQueue \in Queue
  <1>1. watermark \in [Cik -> {0} \cup Filing] /\ pending \in SUBSET Listing
    BY DEF TypeOK, Queue
  <1> QED
    BY <1>1 DEF TypeOK, Filings, Finalized, Listing, TheQueue

LEMMA ReplaceType ==
    ASSUME NEW q \in Queue, ReplaceQueue(q)
    PROVE  [watermark |-> watermark', pending |-> pending'] \in Queue
  BY DEF ReplaceQueue, Queue

\* Acknowledging keeps a queue a queue.
LEMMA AcknowledgeType ==
    ASSUME TypeInv, Acknowledge, pc \notin {"idle", "quarantine"}
    PROVE  /\ [watermark |-> watermark', pending |-> pending'] \in Queue
           /\ UNCHANGED <<raw, normalized, quarantine, recovered>>
  <1>1. image \in Queue
    BY DEF TypeInv, TypeOK, Acknowledge
  <1>2. [image EXCEPT !.pending = {p \in @ : p.filing \notin done}] \in Queue
    BY <1>1 DEF Queue
  <1>3. CASE UNCHANGED queue
    BY <1>3 DEF TypeInv, TypeOK, Acknowledge, queue
  <1>4. CASE ReplaceQueue([image EXCEPT !.pending = {p \in @ : p.filing \notin done}])
    BY <1>2, <1>4, ReplaceType DEF Acknowledge
  <1> QED
    BY <1>3, <1>4 DEF Acknowledge

LEMMA TypeNext ==
    ASSUME TypeInv, Next
    PROVE  TypeInv'
  <1> USE DEF TypeInv, TypeOK, Polling, Goto, RGoto, Steps, RecoverySteps, world,
              queue, intake, outcomes, memory, recovery
  <1>1. CASE Stops
    BY <1>1, StopsFrame, ForgetType DEF TypeInv, TypeOK
  <1>2. CASE Outside
    BY <1>2, OutsideFrame DEF TypeInv, TypeOK
  <1>3. CASE Reads
    BY <1>3, ReadsFrame, TypeFacts DEF TypeInv, TypeOK
  <1>4. CASE Skips
    BY <1>4, SkipsFrame DEF TypeInv, TypeOK, RecoverySteps
  <1>5. CASE StartPoll
    BY <1>5, TypeFacts DEF StartPoll
  <1>6. ASSUME NEW c \in Cik, FetchSubmissions(c) PROVE TypeInv'
    BY <1>6 DEF FetchSubmissions
  <1>7. ASSUME NEW f \in Filing, FetchFiling(f) PROVE TypeInv'
    BY <1>7 DEF FetchFiling
  <1>8. ASSUME NEW f \in Filing, ReadQuarantine(f) PROVE TypeInv'
    BY <1>8 DEF ReadQuarantine
  <1>9. ASSUME NEW f \in Filing, RecordQuarantine(f) PROVE TypeInv'
    <2>1. feed \in Cik /\ image \subseteq Listing /\ [cik |-> feed, filing |-> f] \in Listing
      BY <1>9 DEF RecordQuarantine, Listing
    <2>2. quarantine' \subseteq Listing
      BY <1>9, <2>1 DEF RecordQuarantine
    <2> QED
      BY <1>9, <2>2 DEF RecordQuarantine
  <1>10. ASSUME NEW f \in Filing, StoreEvents(f) PROVE TypeInv'
    BY <1>10 DEF StoreEvents
  <1>11. ASSUME NEW f \in Filing, CommitFiling(f) PROVE TypeInv'
    <2>1. feed \in Cik /\ image \in Queue
      BY <1>11 DEF CommitFiling
    <2>2. Committed(image, feed, f, parsed) \in Queue
      BY <2>1, CommittedQueue
    <2>3. [watermark |-> watermark', pending |-> pending'] \in Queue
      BY <1>11, <2>2, ReplaceType DEF CommitFiling
    <2>4. todo' \subseteq Filing /\ image' = None /\ feed' = feed
      BY <1>11 DEF CommitFiling
    <2> QED
      BY <1>11, <2>1, <2>3, <2>4 DEF CommitFiling
  <1>12. CASE EndFeed
    BY <1>12 DEF EndFeed
  <1>13. CASE StartCycle
    BY <1>13 DEF StartCycle
  <1>14. CASE Reconcile
    <2>1. [watermark |-> watermark', pending |-> pending'] \in Queue
          /\ UNCHANGED <<raw, normalized, quarantine, recovered>>
      BY <1>14, AcknowledgeType DEF Reconcile, AcknowledgeAt
    <2> QED
      BY <1>14, <2>1 DEF Reconcile, AcknowledgeAt
  <1>15. CASE Select
    <2>1. selected' \subseteq Filing /\ done' \subseteq Filing
      BY <1>15, TypeFacts DEF Select
    <2> QED
      BY <1>15, <2>1 DEF Select
  <1>16. CASE DisposeStale
    BY <1>16 DEF DisposeStale
  <1>17. CASE RetireStale
    <2>1. [watermark |-> watermark', pending |-> pending'] \in Queue
          /\ UNCHANGED <<raw, normalized, quarantine, recovered>>
      BY <1>17, AcknowledgeType DEF RetireStale, AcknowledgeAt
    <2> QED
      BY <1>17, <2>1 DEF RetireStale, AcknowledgeAt
  <1>18. CASE Decide
    <2>0. receipts \cup selected \subseteq Filing
      OBVIOUS
    <2>1. CASE selected = {}
      <3>1. Forget /\ UNCHANGED <<world, intake, receipts, stale, recovery>>
        BY <1>18, <2>1 DEF Decide
      <3> QED
        BY <3>1, ForgetType
    <2>2. CASE selected # {}
      <3>1. /\ pc' = "acknowledge" /\ receipts' = receipts \cup selected /\ done' = selected
            /\ UNCHANGED <<cutoff, finalized, unpolled, feed, todo, parsed, selected, image>>
            /\ UNCHANGED <<world, intake, stale, recovery>>
        BY <1>18, <2>2 DEF Decide
      <3>2. pc = "decide"
        BY <1>18 DEF Decide
      <3> QED
        BY <3>1, <3>2, <2>0
    <2> QED
      BY <2>1, <2>2
  <1>19. CASE RetireDecided
    BY <1>19, AcknowledgeType, ForgetType DEF RetireDecided
  <1>20. CASE StartRecovery
    BY <1>20 DEF StartRecovery
  <1>21. ASSUME NEW l \in Listing, SkipRecovered(l) PROVE TypeInv'
    BY <1>21 DEF SkipRecovered
  <1>22. ASSUME NEW l \in Listing, FetchReplacement(l) PROVE TypeInv'
    BY <1>22 DEF FetchReplacement
  <1>23. ASSUME NEW l \in Listing, StoreRecovered(l) PROVE TypeInv'
    <2>1. l.filing \in Filing
      BY DEF Listing
    <2> QED
      BY <1>23, <2>1 DEF StoreRecovered
  <1>24. ASSUME NEW l \in Listing, ReadForRecovery(l) PROVE TypeInv'
    BY <1>24, TypeFacts DEF ReadForRecovery
  <1>25. ASSUME NEW l \in Listing, CommitRecovered(l) PROVE TypeInv'
    <2> DEFINE new == Committed(rimage, l.cik, l.filing, {l.filing} \cap WithEvents)
    <2>1. l.filing \in Filing /\ l.cik \in Cik /\ rimage \in Queue
      BY <1>25 DEF CommitRecovered, Listing
    <2>2. new \in Queue
      BY <2>1, CommittedQueue
    <2>3. [watermark |-> watermark', pending |-> pending'] \in Queue
      BY <1>25, <2>2, ReplaceType DEF CommitRecovered
    <2> QED
      BY <1>25, <2>3 DEF CommitRecovered
  <1>26. ASSUME NEW l \in Listing, AppendRecovered(l) PROVE TypeInv'
    <2> DEFINE new == [rimage EXCEPT !.pending = @ \cup {l}]
    <2>1. rimage \in Queue
      BY <1>26 DEF AppendRecovered
    <2>2. new \in Queue
      BY <2>1 DEF Queue
    <2>3. [watermark |-> watermark', pending |-> pending'] \in Queue
      BY <1>26, <2>2, ReplaceType DEF AppendRecovered
    <2> QED
      BY <1>26, <2>3 DEF AppendRecovered
  <1>27. ASSUME NEW l \in Listing, RecordRecovery(l) PROVE TypeInv'
    BY <1>27 DEF RecordRecovery
  <1>28. ASSUME NEW l \in Listing, Resolve(l) PROVE TypeInv'
    BY <1>28 DEF Resolve
  <1> QED
    BY NextCases, <1>1, <1>2, <1>3, <1>4, <1>5, <1>6, <1>7, <1>8, <1>9, <1>10, <1>11,
       <1>12, <1>13, <1>14, <1>15, <1>16, <1>17, <1>18, <1>19, <1>20, <1>21, <1>22,
       <1>23, <1>24, <1>25, <1>26, <1>27, <1>28

-----------------------------------------------------------------------------
(* What the writes of the queue do when no other process writes between    *)
(* reading and replacing it.                                               *)

\* The operator does not run the recovery beside the pipeline.
Alone == Overlap = FALSE

\* Acknowledging removes the filings that are done.
LEMMA AcknowledgeEffect ==
    ASSUME TypeInv, ImagesFresh, Acknowledge, pc \in {"reconcile", "retire", "acknowledge"}
    PROVE  /\ watermark' = watermark
           /\ pending' = {p \in pending : p.filing \notin done}
           /\ Filings(pending)' = Filings(pending) \ done
           /\ UNCHANGED <<raw, normalized, quarantine, recovered>>
  <1>1. image = TheQueue
    BY DEF ImagesFresh, Acknowledge
  <1>2. watermark' = watermark /\ pending' = {p \in pending : p.filing \notin done}
    <2>1. CASE Filings(pending) \cap done = {}
      <3>1. UNCHANGED queue
        BY <1>1, <2>1 DEF Acknowledge, TheQueue
      <3>2. \A p \in pending : p.filing \notin done
        BY <2>1 DEF Filings
      <3> QED
        BY <3>1, <3>2 DEF queue
    <2>2. CASE Filings(pending) \cap done # {}
      BY <1>1, <2>2 DEF Acknowledge, TheQueue, ReplaceQueue
    <2> QED
      BY <2>1, <2>2
  <1>3. Filings(pending)' = Filings(pending) \ done
    BY <1>2 DEF Filings
  <1> QED
    BY <1>2, <1>3 DEF Acknowledge

\* The filings among queued listings.
LEMMA FilingsOfUnion ==
    ASSUME NEW P, NEW c, NEW E
    PROVE  Filings(P \cup [cik : {c}, filing : E]) = Filings(P) \cup E
  <1>1. ASSUME NEW f \in E PROVE f \in Filings([cik : {c}, filing : E])
    <2>1. [cik |-> c, filing |-> f] \in [cik : {c}, filing : E]
      BY <1>1
    <2> QED
      BY <2>1, [cik |-> c, filing |-> f].filing = f DEF Filings
  <1>2. Filings([cik : {c}, filing : E]) \subseteq E
    BY DEF Filings
  <1>3. Filings(P \cup [cik : {c}, filing : E])
          = Filings(P) \cup Filings([cik : {c}, filing : E])
    BY DEF Filings
  <1> QED
    BY <1>1, <1>2, <1>3

\* commit_filing of the poll: what was parsed is pending, the watermark advances.
LEMMA CommitEffect ==
    ASSUME TypeInv, ImagesFresh, NEW f \in Filing, CommitFiling(f)
    PROVE  /\ feed \in Cik
           /\ \/ f <= watermark[feed] /\ UNCHANGED <<watermark, pending>>
              \/ /\ ~ (f <= watermark[feed])
                 /\ watermark' = [watermark EXCEPT ![feed] = f]
                 /\ pending' = pending \cup [cik : {feed}, filing : parsed]
                 /\ Filings(pending)' = Filings(pending) \cup parsed
  <1>1. image = TheQueue /\ feed \in Cik
    BY DEF ImagesFresh, CommitFiling, Goto, TypeInv, Polling
  <1>2. CASE f <= watermark[feed]
    BY <1>1, <1>2 DEF CommitFiling, TheQueue, queue
  <1>3. CASE ~ (f <= watermark[feed])
    <2>1. ReplaceQueue(Committed(TheQueue, feed, f, parsed))
      BY <1>1, <1>3 DEF CommitFiling, TheQueue
    <2>2. /\ watermark' = [watermark EXCEPT ![feed] = f]
          /\ pending' = pending \cup [cik : {feed}, filing : parsed]
      BY <2>1 DEF ReplaceQueue, Committed, TheQueue
    <2>3. Filings(pending)' = Filings(pending \cup [cik : {feed}, filing : parsed])
      BY <2>2 DEF Filings
    <2> QED
      BY <1>1, <1>3, <2>2, <2>3, FilingsOfUnion
  <1> QED
    BY <1>2, <1>3

\* commit_filing of the recovery.
LEMMA CommitRecoveredEffect ==
    ASSUME TypeInv, ImagesFresh, NEW l \in Listing, CommitRecovered(l)
    PROVE  \/ l.filing <= watermark[l.cik] /\ UNCHANGED <<watermark, pending>>
           \/ /\ ~ (l.filing <= watermark[l.cik])
              /\ watermark' = [watermark EXCEPT ![l.cik] = l.filing]
              /\ Filings(pending)' = Filings(pending) \cup ({l.filing} \cap WithEvents)
  <1> DEFINE E == {l.filing} \cap WithEvents
  <1>1. rimage = TheQueue
    BY DEF ImagesFresh, CommitRecovered, RGoto
  <1>2. CASE l.filing <= watermark[l.cik]
    BY <1>1, <1>2 DEF CommitRecovered, TheQueue, queue
  <1>3. CASE ~ (l.filing <= watermark[l.cik])
    <2>1. ReplaceQueue(Committed(TheQueue, l.cik, l.filing, E))
      BY <1>1, <1>3 DEF CommitRecovered, TheQueue
    <2>2. /\ watermark' = [watermark EXCEPT ![l.cik] = l.filing]
          /\ pending' = pending \cup [cik : {l.cik}, filing : E]
      BY <2>1 DEF ReplaceQueue, Committed, TheQueue
    <2>3. Filings(pending)' = Filings(pending \cup [cik : {l.cik}, filing : E])
      BY <2>2 DEF Filings
    <2> QED
      BY <1>3, <2>2, <2>3, FilingsOfUnion
  <1> QED
    BY <1>2, <1>3

\* The recovery adds events below a watermark that stays.
LEMMA AppendEffect ==
    ASSUME TypeInv, ImagesFresh, NEW l \in Listing, AppendRecovered(l)
    PROVE  /\ watermark' = watermark
           /\ Filings(pending) \subseteq Filings(pending)'
           /\ {l.filing} \cap WithEvents \subseteq Filings(pending)'
           /\ Filings(pending)' \subseteq Filings(pending) \cup ({l.filing} \cap WithEvents)
  <1>1. rimage = TheQueue
    BY DEF ImagesFresh, AppendRecovered, RGoto
  <1>2. CASE {l.filing} \cap WithEvents \subseteq Filings(pending)
    <2>1. UNCHANGED queue
      BY <1>1, <1>2 DEF AppendRecovered, TheQueue
    <2> QED
      BY <2>1, <1>2 DEF queue, Filings
  <1>3. CASE ~ ({l.filing} \cap WithEvents \subseteq Filings(pending))
    <2>1. watermark' = watermark /\ pending' = pending \cup {l}
      BY <1>1, <1>3 DEF AppendRecovered, TheQueue, ReplaceQueue
    <2>2. l.filing \in WithEvents
      BY <1>3
    <2> QED
      BY <2>1, <2>2 DEF Filings
  <1> QED
    BY <1>2, <1>3

-----------------------------------------------------------------------------
(* The files a process has read, and the chronology.                       *)

LEMMA ImagesNext ==
    ASSUME TypeInv, ImagesFresh, Alone, Next
    PROVE  ImagesFresh'
  <1> USE DEF TypeInv, TypeOK, Alone, ImagesFresh, Goto, RGoto, TheQueue, queue,
              intake, memory, recovery, world
  <1>1. CASE Stops
    BY <1>1, StopsFrame DEF Forget
  <1>2. CASE Outside
    BY <1>2, OutsideFrame
  <1>3. CASE Reads
    BY <1>3, ReadsFrame
  <1>4. CASE Skips
    BY <1>4, SkipsFrame
  <1>5. CASE StartPoll
    BY <1>5 DEF StartPoll
  <1>6. ASSUME NEW c \in Cik, FetchSubmissions(c) PROVE ImagesFresh'
    BY <1>6 DEF FetchSubmissions
  <1>7. ASSUME NEW f \in Filing, FetchFiling(f) PROVE ImagesFresh'
    BY <1>7 DEF FetchFiling
  <1>8. ASSUME NEW f \in Filing, ReadQuarantine(f) PROVE ImagesFresh'
    BY <1>8 DEF ReadQuarantine
  <1>9. ASSUME NEW f \in Filing, RecordQuarantine(f) PROVE ImagesFresh'
    BY <1>9 DEF RecordQuarantine
  <1>10. ASSUME NEW f \in Filing, StoreEvents(f) PROVE ImagesFresh'
    BY <1>10 DEF StoreEvents
  <1>11. ASSUME NEW f \in Filing, CommitFiling(f) PROVE ImagesFresh'
    BY <1>11 DEF CommitFiling
  <1>12. CASE EndFeed
    BY <1>12 DEF EndFeed
  <1>13. CASE StartCycle
    BY <1>13 DEF StartCycle
  <1>14. CASE Reconcile
    BY <1>14, AcknowledgeEffect DEF Reconcile, AcknowledgeAt
  <1>15. CASE Select
    BY <1>15 DEF Select
  <1>16. CASE DisposeStale
    BY <1>16 DEF DisposeStale
  <1>17. CASE RetireStale
    BY <1>17, AcknowledgeEffect DEF RetireStale, AcknowledgeAt
  <1>18. CASE Decide
    BY <1>18 DEF Decide, Forget
  <1>19. CASE RetireDecided
    BY <1>19, AcknowledgeEffect DEF RetireDecided, Forget
  <1>20. CASE StartRecovery
    BY <1>20 DEF StartRecovery
  <1>21. ASSUME NEW l \in Listing, SkipRecovered(l) PROVE ImagesFresh'
    BY <1>21 DEF SkipRecovered
  <1>22. ASSUME NEW l \in Listing, FetchReplacement(l) PROVE ImagesFresh'
    BY <1>22 DEF FetchReplacement
  <1>23. ASSUME NEW l \in Listing, StoreRecovered(l) PROVE ImagesFresh'
    BY <1>23 DEF StoreRecovered
  <1>24. ASSUME NEW l \in Listing, ReadForRecovery(l) PROVE ImagesFresh'
    BY <1>24 DEF ReadForRecovery
  <1>25. ASSUME NEW l \in Listing, CommitRecovered(l) PROVE ImagesFresh'
    BY <1>25 DEF CommitRecovered
  <1>26. ASSUME NEW l \in Listing, AppendRecovered(l) PROVE ImagesFresh'
    BY <1>26 DEF AppendRecovered
  <1>27. ASSUME NEW l \in Listing, RecordRecovery(l) PROVE ImagesFresh'
    BY <1>27 DEF RecordRecovery
  <1>28. ASSUME NEW l \in Listing, Resolve(l) PROVE ImagesFresh'
    BY <1>28 DEF Resolve
  <1> QED
    BY NextCases, <1>1, <1>2, <1>3, <1>4, <1>5, <1>6, <1>7, <1>8, <1>9, <1>10, <1>11,
       <1>12, <1>13, <1>14, <1>15, <1>16, <1>17, <1>18, <1>19, <1>20, <1>21, <1>22,
       <1>23, <1>24, <1>25, <1>26, <1>27, <1>28

\* Who writes dispositions, watermarks and the quarantine; outcomes are never withdrawn.
LEMMA Writers ==
    ASSUME TypeInv, ImagesFresh, Next
    PROVE  /\ stale' = stale \/ DisposeStale
           /\ watermark' = watermark \/ (\E f \in Filing : CommitFiling(f))
                                     \/ (\E l \in Listing : CommitRecovered(l))
           /\ quarantine' = quarantine \/ (\E f \in Filing : RecordQuarantine(f))
                                       \/ (\E l \in Listing : Resolve(l))
           /\ receipts \subseteq receipts' /\ stale \subseteq stale'
  <1> USE DEF TypeInv, Goto, intake, outcomes, queue
  <1> DEFINE S == stale' = stale \/ DisposeStale
             W == watermark' = watermark \/ (\E f \in Filing : CommitFiling(f))
                                        \/ (\E l \in Listing : CommitRecovered(l))
             Q == quarantine' = quarantine \/ (\E f \in Filing : RecordQuarantine(f))
                                          \/ (\E l \in Listing : Resolve(l))
             Goal == S /\ W /\ Q /\ receipts \subseteq receipts' /\ stale \subseteq stale'
  <1>1. CASE Stops
    BY <1>1, StopsFrame DEF Forget
  <1>2. CASE Outside
    BY <1>2, OutsideFrame
  <1>3. CASE Reads
    BY <1>3, ReadsFrame
  <1>4. CASE Skips
    BY <1>4, SkipsFrame
  <1>5. CASE StartPoll
    BY <1>5 DEF StartPoll
  <1>6. ASSUME NEW c \in Cik, FetchSubmissions(c) PROVE Goal
    BY <1>6 DEF FetchSubmissions
  <1>7. ASSUME NEW f \in Filing, FetchFiling(f) PROVE Goal
    BY <1>7 DEF FetchFiling
  <1>8. ASSUME NEW f \in Filing, ReadQuarantine(f) PROVE Goal
    BY <1>8 DEF ReadQuarantine
  <1>9. ASSUME NEW f \in Filing, RecordQuarantine(f) PROVE Goal
    BY <1>9 DEF RecordQuarantine
  <1>10. ASSUME NEW f \in Filing, StoreEvents(f) PROVE Goal
    BY <1>10 DEF StoreEvents
  <1>11. ASSUME NEW f \in Filing, CommitFiling(f) PROVE Goal
    <2>1. W
      BY <1>11
    <2>2. UNCHANGED <<receipts, stale, quarantine>>
      BY <1>11 DEF CommitFiling
    <2> QED
      BY <2>1, <2>2
  <1>12. CASE EndFeed
    BY <1>12 DEF EndFeed
  <1>13. CASE StartCycle
    BY <1>13 DEF StartCycle
  <1>14. CASE Reconcile
    BY <1>14, AcknowledgeEffect DEF Reconcile, AcknowledgeAt
  <1>15. CASE Select
    BY <1>15 DEF Select
  <1>16. CASE DisposeStale
    BY <1>16 DEF DisposeStale
  <1>17. CASE RetireStale
    BY <1>17, AcknowledgeEffect DEF RetireStale, AcknowledgeAt
  <1>18. CASE Decide
    BY <1>18 DEF Decide, Forget
  <1>19. CASE RetireDecided
    BY <1>19, AcknowledgeEffect DEF RetireDecided, Forget
  <1>20. CASE StartRecovery
    BY <1>20 DEF StartRecovery
  <1>21. ASSUME NEW l \in Listing, SkipRecovered(l) PROVE Goal
    BY <1>21 DEF SkipRecovered
  <1>22. ASSUME NEW l \in Listing, FetchReplacement(l) PROVE Goal
    BY <1>22 DEF FetchReplacement
  <1>23. ASSUME NEW l \in Listing, StoreRecovered(l) PROVE Goal
    BY <1>23 DEF StoreRecovered
  <1>24. ASSUME NEW l \in Listing, ReadForRecovery(l) PROVE Goal
    BY <1>24 DEF ReadForRecovery
  <1>25. ASSUME NEW l \in Listing, CommitRecovered(l) PROVE Goal
    <2>1. W
      BY <1>25
    <2>2. UNCHANGED <<receipts, stale, quarantine>>
      BY <1>25 DEF CommitRecovered
    <2> QED
      BY <2>1, <2>2
  <1>26. ASSUME NEW l \in Listing, AppendRecovered(l) PROVE Goal
    BY <1>26, AppendEffect DEF AppendRecovered
  <1>27. ASSUME NEW l \in Listing, RecordRecovery(l) PROVE Goal
    BY <1>27 DEF RecordRecovery
  <1>28. ASSUME NEW l \in Listing, Resolve(l) PROVE Goal
    BY <1>28 DEF Resolve
  <1> QED
    BY NextCases, <1>1, <1>2, <1>3, <1>4, <1>5, <1>6, <1>7, <1>8, <1>9, <1>10, <1>11,
       <1>12, <1>13, <1>14, <1>15, <1>16, <1>17, <1>18, <1>19, <1>20, <1>21, <1>22,
       <1>23, <1>24, <1>25, <1>26, <1>27, <1>28

\* The day that decisions about age refer to never goes back.
LEMMA TodayNext ==
    ASSUME TypeInv, ImagesFresh, Chronology, Next
    PROVE  Today \in Nat /\ Today <= Today' /\ cutoff' <= day'
  <1> USE BoundsAssumption DEF TypeInv, TypeOK, Chronology, Today, Goto, RGoto, intake,
              outcomes, memory, recovery, world
  <1> DEFINE Goal == Today \in Nat /\ Today <= Today' /\ cutoff' <= day'
  <1>1. CASE Stops
    BY <1>1, StopsFrame DEF Forget
  <1>2. CASE Outside
    BY <1>2, OutsideFrame
  <1>3. CASE Reads
    BY <1>3, ReadsFrame
  <1>4. CASE Skips
    BY <1>4, SkipsFrame
  <1>5. CASE StartPoll
    BY <1>5 DEF StartPoll
  <1>6. ASSUME NEW c \in Cik, FetchSubmissions(c) PROVE Goal
    BY <1>6 DEF FetchSubmissions
  <1>7. ASSUME NEW f \in Filing, FetchFiling(f) PROVE Goal
    BY <1>7 DEF FetchFiling
  <1>8. ASSUME NEW f \in Filing, ReadQuarantine(f) PROVE Goal
    BY <1>8 DEF ReadQuarantine
  <1>9. ASSUME NEW f \in Filing, RecordQuarantine(f) PROVE Goal
    BY <1>9 DEF RecordQuarantine
  <1>10. ASSUME NEW f \in Filing, StoreEvents(f) PROVE Goal
    BY <1>10 DEF StoreEvents
  <1>11. ASSUME NEW f \in Filing, CommitFiling(f) PROVE Goal
    BY <1>11 DEF CommitFiling
  <1>12. CASE EndFeed
    BY <1>12 DEF EndFeed
  <1>13. CASE StartCycle
    BY <1>13 DEF StartCycle
  <1>14. CASE Reconcile
    BY <1>14, AcknowledgeEffect DEF Reconcile, AcknowledgeAt
  <1>15. CASE Select
    BY <1>15 DEF Select
  <1>16. CASE DisposeStale
    BY <1>16 DEF DisposeStale
  <1>17. CASE RetireStale
    BY <1>17, AcknowledgeEffect DEF RetireStale, AcknowledgeAt
  <1>18. CASE Decide
    BY <1>18 DEF Decide, Forget
  <1>19. CASE RetireDecided
    BY <1>19, AcknowledgeEffect DEF RetireDecided, Forget
  <1>20. CASE StartRecovery
    BY <1>20 DEF StartRecovery
  <1>21. ASSUME NEW l \in Listing, SkipRecovered(l) PROVE Goal
    BY <1>21 DEF SkipRecovered
  <1>22. ASSUME NEW l \in Listing, FetchReplacement(l) PROVE Goal
    BY <1>22 DEF FetchReplacement
  <1>23. ASSUME NEW l \in Listing, StoreRecovered(l) PROVE Goal
    BY <1>23 DEF StoreRecovered
  <1>24. ASSUME NEW l \in Listing, ReadForRecovery(l) PROVE Goal
    BY <1>24 DEF ReadForRecovery
  <1>25. ASSUME NEW l \in Listing, CommitRecovered(l) PROVE Goal
    BY <1>25 DEF CommitRecovered
  <1>26. ASSUME NEW l \in Listing, AppendRecovered(l) PROVE Goal
    BY <1>26 DEF AppendRecovered
  <1>27. ASSUME NEW l \in Listing, RecordRecovery(l) PROVE Goal
    BY <1>27 DEF RecordRecovery
  <1>28. ASSUME NEW l \in Listing, Resolve(l) PROVE Goal
    BY <1>28 DEF Resolve
  <1> QED
    BY NextCases, <1>1, <1>2, <1>3, <1>4, <1>5, <1>6, <1>7, <1>8, <1>9, <1>10, <1>11,
       <1>12, <1>13, <1>14, <1>15, <1>16, <1>17, <1>18, <1>19, <1>20, <1>21, <1>22,
       <1>23, <1>24, <1>25, <1>26, <1>27, <1>28

LEMMA ChronologyNext ==
    ASSUME TypeInv, ImagesFresh, Chronology, Batches, Next
    PROVE  Chronology'
  <1>1. Today \in Nat /\ Today' \in Nat /\ Today <= Today' /\ cutoff' <= day'
    BY TodayNext, TypeNext DEF TypeInv, TypeOK, Today
  <1>2. \A f \in Filing : Day[f] \in Nat
    BY FilingAssumption
  <1>3. stale \subseteq Filing /\ done \subseteq Filing
    BY DEF TypeInv, TypeOK
  <1>4. CASE DisposeStale
    BY <1>1, <1>2, <1>3, <1>4
    DEF DisposeStale, Batches, Chronology, Goto, Today, memory, TypeInv, TypeOK
  <1>5. CASE stale' = stale
    BY <1>1, <1>2, <1>3, <1>5 DEF Chronology
  <1> QED
    BY <1>4, <1>5, Writers

-----------------------------------------------------------------------------
(* Events are stored before they are queued, and batches have one outcome.  *)

\* The way of a batch is kept: a filing of the session being planned is not stale.
LEMMA BatchesNext ==
    ASSUME TypeInv, ImagesFresh, Chronology, Batches, Alone, Next
    PROVE  Batches'
  <1> USE DEF TypeInv, TypeOK, Goto, RGoto, intake, outcomes, memory, recovery, world,
              queue, Batches
  <1>1. CASE Stops
    BY <1>1, StopsFrame DEF Forget
  <1>2. CASE Outside
    BY <1>2, OutsideFrame
  <1>3. CASE Reads
    BY <1>3, ReadsFrame
  <1>4. CASE Skips
    BY <1>4, SkipsFrame
  <1>5. CASE StartPoll
    BY <1>5 DEF StartPoll
  <1>6. ASSUME NEW c \in Cik, FetchSubmissions(c) PROVE Batches'
    BY <1>6 DEF FetchSubmissions
  <1>7. ASSUME NEW f \in Filing, FetchFiling(f) PROVE Batches'
    BY <1>7 DEF FetchFiling
  <1>8. ASSUME NEW f \in Filing, ReadQuarantine(f) PROVE Batches'
    BY <1>8 DEF ReadQuarantine
  <1>9. ASSUME NEW f \in Filing, RecordQuarantine(f) PROVE Batches'
    BY <1>9 DEF RecordQuarantine
  <1>10. ASSUME NEW f \in Filing, StoreEvents(f) PROVE Batches'
    BY <1>10 DEF StoreEvents
  <1>11. ASSUME NEW f \in Filing, CommitFiling(f) PROVE Batches'
    BY <1>11, CommitEffect DEF CommitFiling
  <1>12. CASE EndFeed
    BY <1>12 DEF EndFeed
  <1>13. CASE StartCycle
    BY <1>13 DEF StartCycle
  <1>14. CASE Reconcile
    BY <1>14, AcknowledgeEffect DEF Reconcile, AcknowledgeAt
  <1>15. CASE Select
    BY <1>15 DEF Select
  <1>16. CASE DisposeStale
    BY <1>16 DEF DisposeStale
  <1>17. CASE RetireStale
    BY <1>17, AcknowledgeEffect DEF RetireStale, AcknowledgeAt
  <1>18. CASE Decide
    <2>1. \A f \in selected : f \notin stale
      <3>1. \A f \in selected : Day[f] = cutoff /\ Day[f] \in Nat
        BY <1>18, FilingAssumption DEF Decide
      <3>2. \A f \in stale : Day[f] < cutoff
        BY <1>18 DEF Decide, Chronology, Today
      <3> QED
        BY <3>1, <3>2
    <2> QED
      BY <1>18, <2>1 DEF Decide, Forget
  <1>19. CASE RetireDecided
    BY <1>19, AcknowledgeEffect DEF RetireDecided, Forget
  <1>20. CASE StartRecovery
    BY <1>20 DEF StartRecovery
  <1>21. ASSUME NEW l \in Listing, SkipRecovered(l) PROVE Batches'
    BY <1>21 DEF SkipRecovered
  <1>22. ASSUME NEW l \in Listing, FetchReplacement(l) PROVE Batches'
    BY <1>22 DEF FetchReplacement
  <1>23. ASSUME NEW l \in Listing, StoreRecovered(l) PROVE Batches'
    BY <1>23 DEF StoreRecovered
  <1>24. ASSUME NEW l \in Listing, ReadForRecovery(l) PROVE Batches'
    BY <1>24 DEF ReadForRecovery
  <1>25. ASSUME NEW l \in Listing, CommitRecovered(l) PROVE Batches'
    <2>1. pc = "idle"
      BY <1>25 DEF ImagesFresh, CommitRecovered, RGoto
    <2> QED
      BY <1>25, <2>1 DEF CommitRecovered
  <1>26. ASSUME NEW l \in Listing, AppendRecovered(l) PROVE Batches'
    <2>1. pc = "idle"
      BY <1>26 DEF ImagesFresh, AppendRecovered, RGoto
    <2> QED
      BY <1>26, <2>1 DEF AppendRecovered
  <1>27. ASSUME NEW l \in Listing, RecordRecovery(l) PROVE Batches'
    BY <1>27 DEF RecordRecovery
  <1>28. ASSUME NEW l \in Listing, Resolve(l) PROVE Batches'
    BY <1>28 DEF Resolve
  <1> QED
    BY NextCases, <1>1, <1>2, <1>3, <1>4, <1>5, <1>6, <1>7, <1>8, <1>9, <1>10, <1>11,
       <1>12, <1>13, <1>14, <1>15, <1>16, <1>17, <1>18, <1>19, <1>20, <1>21, <1>22,
       <1>23, <1>24, <1>25, <1>26, <1>27, <1>28

\* What is queued, or has an outcome, has been stored.
LEMMA StoredNext ==
    ASSUME TypeInv, ImagesFresh, Batches, StoredFirst, Alone, Next
    PROVE  StoredFirst'
  <1> USE DEF TypeInv, TypeOK, Goto, RGoto, intake, outcomes, memory, recovery, world,
              queue, StoredFirst, HasEvents, Finalized
  <1>1. CASE Stops
    BY <1>1, StopsFrame DEF Forget
  <1>2. CASE Outside
    BY <1>2, OutsideFrame
  <1>3. CASE Reads
    BY <1>3, ReadsFrame
  <1>4. CASE Skips
    BY <1>4, SkipsFrame
  <1>5. CASE StartPoll
    BY <1>5 DEF StartPoll
  <1>6. ASSUME NEW c \in Cik, FetchSubmissions(c) PROVE StoredFirst'
    BY <1>6 DEF FetchSubmissions
  <1>7. ASSUME NEW f \in Filing, FetchFiling(f) PROVE StoredFirst'
    BY <1>7 DEF FetchFiling
  <1>8. ASSUME NEW f \in Filing, ReadQuarantine(f) PROVE StoredFirst'
    BY <1>8 DEF ReadQuarantine
  <1>9. ASSUME NEW f \in Filing, RecordQuarantine(f) PROVE StoredFirst'
    BY <1>9 DEF RecordQuarantine
  <1>10. ASSUME NEW f \in Filing, StoreEvents(f) PROVE StoredFirst'
    BY <1>10 DEF StoreEvents
  <1>11. ASSUME NEW f \in Filing, CommitFiling(f) PROVE StoredFirst'
    BY <1>11, CommitEffect DEF CommitFiling
  <1>12. CASE EndFeed
    BY <1>12 DEF EndFeed
  <1>13. CASE StartCycle
    BY <1>13 DEF StartCycle
  <1>14. CASE Reconcile
    BY <1>14, AcknowledgeEffect DEF Reconcile, AcknowledgeAt
  <1>15. CASE Select
    BY <1>15 DEF Select
  <1>16. CASE DisposeStale
    BY <1>16 DEF DisposeStale, Batches
  <1>17. CASE RetireStale
    BY <1>17, AcknowledgeEffect DEF RetireStale, AcknowledgeAt
  <1>18. CASE Decide
    BY <1>18 DEF Decide, Forget, Batches
  <1>19. CASE RetireDecided
    BY <1>19, AcknowledgeEffect DEF RetireDecided, Forget
  <1>20. CASE StartRecovery
    BY <1>20 DEF StartRecovery
  <1>21. ASSUME NEW l \in Listing, SkipRecovered(l) PROVE StoredFirst'
    BY <1>21 DEF SkipRecovered
  <1>22. ASSUME NEW l \in Listing, FetchReplacement(l) PROVE StoredFirst'
    BY <1>22 DEF FetchReplacement
  <1>23. ASSUME NEW l \in Listing, StoreRecovered(l) PROVE StoredFirst'
    <2>1. \A m \in FirstListing(active) : m = l
      BY <1>23, FirstListingUnique DEF StoreRecovered
    <2> QED
      BY <1>23, <2>1 DEF StoreRecovered
  <1>24. ASSUME NEW l \in Listing, ReadForRecovery(l) PROVE StoredFirst'
    BY <1>24 DEF ReadForRecovery
  <1>25. ASSUME NEW l \in Listing, CommitRecovered(l) PROVE StoredFirst'
    <2>1. l.filing \in WithEvents => l.filing \in normalized
      BY <1>25 DEF CommitRecovered
    <2>2. Filings(pending)' \subseteq Filings(pending) \cup ({l.filing} \cap WithEvents)
      BY <1>25, CommitRecoveredEffect DEF Filings
    <2>3. rpc = "commit" /\ UNCHANGED <<active, normalized, receipts, stale, parsed>>
      BY <1>25 DEF CommitRecovered
    <2> QED
      BY <2>1, <2>2, <2>3
  <1>26. ASSUME NEW l \in Listing, AppendRecovered(l) PROVE StoredFirst'
    BY <1>26, AppendEffect DEF AppendRecovered
  <1>27. ASSUME NEW l \in Listing, RecordRecovery(l) PROVE StoredFirst'
    BY <1>27 DEF RecordRecovery
  <1>28. ASSUME NEW l \in Listing, Resolve(l) PROVE StoredFirst'
    BY <1>28 DEF Resolve
  <1> QED
    BY NextCases, <1>1, <1>2, <1>3, <1>4, <1>5, <1>6, <1>7, <1>8, <1>9, <1>10, <1>11,
       <1>12, <1>13, <1>14, <1>15, <1>16, <1>17, <1>18, <1>19, <1>20, <1>21, <1>22,
       <1>23, <1>24, <1>25, <1>26, <1>27, <1>28

\* Events once stored stay stored, and those once queued or decided remain so.
LEMMA KeptNext ==
    ASSUME TypeInv, ImagesFresh, Batches, Next
    PROVE  normalized \subseteq normalized' /\ \A f \in Filing : Settled(f) => Settled(f)'
  <1> USE DEF TypeInv, TypeOK, Goto, RGoto, intake, outcomes, memory, recovery, world,
              queue, Settled, Finalized
  <1> DEFINE Goal == normalized \subseteq normalized' /\ \A f \in Filing : Settled(f) => Settled(f)'
  <1>1. CASE Stops
    BY <1>1, StopsFrame DEF Forget
  <1>2. CASE Outside
    BY <1>2, OutsideFrame
  <1>3. CASE Reads
    BY <1>3, ReadsFrame
  <1>4. CASE Skips
    BY <1>4, SkipsFrame
  <1>5. CASE StartPoll
    BY <1>5 DEF StartPoll
  <1>6. ASSUME NEW c \in Cik, FetchSubmissions(c) PROVE Goal
    BY <1>6 DEF FetchSubmissions
  <1>7. ASSUME NEW f \in Filing, FetchFiling(f) PROVE Goal
    BY <1>7 DEF FetchFiling
  <1>8. ASSUME NEW f \in Filing, ReadQuarantine(f) PROVE Goal
    BY <1>8 DEF ReadQuarantine
  <1>9. ASSUME NEW f \in Filing, RecordQuarantine(f) PROVE Goal
    BY <1>9 DEF RecordQuarantine
  <1>10. ASSUME NEW f \in Filing, StoreEvents(f) PROVE Goal
    BY <1>10 DEF StoreEvents
  <1>11. ASSUME NEW f \in Filing, CommitFiling(f) PROVE Goal
    BY <1>11, CommitEffect DEF CommitFiling, Filings
  <1>12. CASE EndFeed
    BY <1>12 DEF EndFeed
  <1>13. CASE StartCycle
    BY <1>13 DEF StartCycle
  <1>14. CASE Reconcile
    BY <1>14, AcknowledgeEffect DEF Reconcile, AcknowledgeAt, Batches
  <1>15. CASE Select
    BY <1>15 DEF Select
  <1>16. CASE DisposeStale
    BY <1>16 DEF DisposeStale
  <1>17. CASE RetireStale
    BY <1>17, AcknowledgeEffect DEF RetireStale, AcknowledgeAt, Batches
  <1>18. CASE Decide
    BY <1>18 DEF Decide, Forget
  <1>19. CASE RetireDecided
    BY <1>19, AcknowledgeEffect DEF RetireDecided, Forget, Batches
  <1>20. CASE StartRecovery
    BY <1>20 DEF StartRecovery
  <1>21. ASSUME NEW l \in Listing, SkipRecovered(l) PROVE Goal
    BY <1>21 DEF SkipRecovered
  <1>22. ASSUME NEW l \in Listing, FetchReplacement(l) PROVE Goal
    BY <1>22 DEF FetchReplacement
  <1>23. ASSUME NEW l \in Listing, StoreRecovered(l) PROVE Goal
    BY <1>23 DEF StoreRecovered
  <1>24. ASSUME NEW l \in Listing, ReadForRecovery(l) PROVE Goal
    BY <1>24 DEF ReadForRecovery
  <1>25. ASSUME NEW l \in Listing, CommitRecovered(l) PROVE Goal
    BY <1>25, CommitRecoveredEffect DEF CommitRecovered, Filings
  <1>26. ASSUME NEW l \in Listing, AppendRecovered(l) PROVE Goal
    BY <1>26, AppendEffect DEF AppendRecovered
  <1>27. ASSUME NEW l \in Listing, RecordRecovery(l) PROVE Goal
    BY <1>27 DEF RecordRecovery
  <1>28. ASSUME NEW l \in Listing, Resolve(l) PROVE Goal
    BY <1>28 DEF Resolve
  <1> QED
    BY NextCases, <1>1, <1>2, <1>3, <1>4, <1>5, <1>6, <1>7, <1>8, <1>9, <1>10, <1>11,
       <1>12, <1>13, <1>14, <1>15, <1>16, <1>17, <1>18, <1>19, <1>20, <1>21, <1>22,
       <1>23, <1>24, <1>25, <1>26, <1>27, <1>28

\* A record is settled when it leaves the recovery.
LEMMA RecoveryNext ==
    ASSUME TypeInv, ImagesFresh, Batches, StoredFirst, Recovery, Alone, Next
    PROVE  Recovery'
  <1> USE DEF TypeInv, TypeOK, Goto, RGoto, intake, outcomes, memory, recovery, world,
              queue, Recovery, HasEvents
  <1>0. /\ \A m \in recovered : HasEvents(m) => m.filing \in normalized' /\ Settled(m.filing)'
        /\ \A m \in FirstListing(active) : Settled(m.filing) => Settled(m.filing)'
    BY KeptNext, FirstListingUnique DEF Listing
  <1>1. CASE Stops
    BY <1>1, StopsFrame, <1>0 DEF Forget
  <1>2. CASE Outside
    BY <1>2, OutsideFrame, <1>0
  <1>3. CASE Reads
    BY <1>3, ReadsFrame, <1>0
  <1>4. CASE Skips
    BY <1>4, SkipsFrame, <1>0
  <1>5. CASE StartPoll
    BY <1>5, <1>0 DEF StartPoll
  <1>6. ASSUME NEW c \in Cik, FetchSubmissions(c) PROVE Recovery'
    BY <1>6, <1>0 DEF FetchSubmissions
  <1>7. ASSUME NEW f \in Filing, FetchFiling(f) PROVE Recovery'
    BY <1>7, <1>0 DEF FetchFiling
  <1>8. ASSUME NEW f \in Filing, ReadQuarantine(f) PROVE Recovery'
    BY <1>8, <1>0 DEF ReadQuarantine
  <1>9. ASSUME NEW f \in Filing, RecordQuarantine(f) PROVE Recovery'
    BY <1>9, <1>0 DEF RecordQuarantine, ImagesFresh
  <1>10. ASSUME NEW f \in Filing, StoreEvents(f) PROVE Recovery'
    BY <1>10, <1>0 DEF StoreEvents
  <1>11. ASSUME NEW f \in Filing, CommitFiling(f) PROVE Recovery'
    <2>1. rpc = "idle"
      BY <1>11 DEF CommitFiling, ImagesFresh
    <2> QED
      BY <1>11, <2>1, <1>0 DEF CommitFiling
  <1>12. CASE EndFeed
    BY <1>12, <1>0 DEF EndFeed
  <1>13. CASE StartCycle
    BY <1>13, <1>0 DEF StartCycle
  <1>14. CASE Reconcile
    <2>1. rpc = "idle"
      BY <1>14 DEF Reconcile, AcknowledgeAt, ImagesFresh
    <2> QED
      BY <1>14, <2>1, <1>0, AcknowledgeEffect DEF Reconcile, AcknowledgeAt
  <1>15. CASE Select
    BY <1>15, <1>0 DEF Select
  <1>16. CASE DisposeStale
    BY <1>16, <1>0 DEF DisposeStale
  <1>17. CASE RetireStale
    <2>1. rpc = "idle"
      BY <1>17 DEF RetireStale, AcknowledgeAt, ImagesFresh
    <2> QED
      BY <1>17, <2>1, <1>0, AcknowledgeEffect DEF RetireStale, AcknowledgeAt
  <1>18. CASE Decide
    BY <1>18, <1>0 DEF Decide, Forget
  <1>19. CASE RetireDecided
    <2>1. rpc = "idle"
      BY <1>19 DEF RetireDecided, ImagesFresh
    <2> QED
      BY <1>19, <2>1, <1>0, AcknowledgeEffect DEF RetireDecided
  <1>20. CASE StartRecovery
    BY <1>20, <1>0 DEF StartRecovery
  <1>21. ASSUME NEW l \in Listing, SkipRecovered(l) PROVE Recovery'
    <2>1. \A m \in FirstListing(active) : m = l
      BY <1>21, FirstListingUnique DEF SkipRecovered
    <2> QED
      BY <1>21, <2>1, <1>0 DEF SkipRecovered
  <1>22. ASSUME NEW l \in Listing, FetchReplacement(l) PROVE Recovery'
    BY <1>22, <1>0 DEF FetchReplacement
  <1>23. ASSUME NEW l \in Listing, StoreRecovered(l) PROVE Recovery'
    BY <1>23, <1>0 DEF StoreRecovered
  <1>24. ASSUME NEW l \in Listing, ReadForRecovery(l) PROVE Recovery'
    <2>1. \A m \in FirstListing(active) : m = l
      BY <1>24, FirstListingUnique DEF ReadForRecovery
    <2> QED
      BY <1>24, <2>1, <1>0 DEF ReadForRecovery
  <1>25. ASSUME NEW l \in Listing, CommitRecovered(l) PROVE Recovery'
    <2>1. \A m \in FirstListing(active) : m = l
      BY <1>25, FirstListingUnique DEF CommitRecovered
    <2>2. HasEvents(l) => Settled(l.filing)'
      <3>1. ~ (l.filing <= watermark[l.cik])
        <4>1. watermark[l.cik] < l.filing /\ l.filing \in Nat /\ watermark[l.cik] \in Nat
          <5>1. watermark[l.cik] < l.filing
            BY <1>25 DEF CommitRecovered
          <5>2. l.filing \in Filing /\ watermark[l.cik] \in {0} \cup Filing
            BY TypeFacts DEF Listing
          <5> QED
            BY <5>1, <5>2, CursorNat
        <4> QED
          BY <4>1
      <3>2. HasEvents(l) => l.filing \in Filings(pending)'
        BY <1>25, <3>1, CommitRecoveredEffect
      <3> QED
        BY <3>2 DEF Settled
    <2>3. rpc' = "record" /\ UNCHANGED <<active, quarantine, recovered>>
      BY <1>25 DEF CommitRecovered
    <2> QED
      BY <2>1, <2>2, <2>3, <1>0
  <1>26. ASSUME NEW l \in Listing, AppendRecovered(l) PROVE Recovery'
    <2>1. \A m \in FirstListing(active) : m = l
      BY <1>26, FirstListingUnique DEF AppendRecovered
    <2>2. HasEvents(l) => Settled(l.filing)'
      BY <1>26, AppendEffect DEF Settled
    <2>3. rpc' = "record" /\ UNCHANGED <<active, quarantine, recovered>>
      BY <1>26 DEF AppendRecovered
    <2> QED
      BY <2>1, <2>2, <2>3, <1>0
  <1>27. ASSUME NEW l \in Listing, RecordRecovery(l) PROVE Recovery'
    <2>1. \A m \in FirstListing(active) : m = l
      BY <1>27, FirstListingUnique DEF RecordRecovery
    <2>2. HasEvents(l) => l.filing \in normalized /\ Settled(l.filing)'
      BY <1>27, <1>0, FirstListingUnique DEF RecordRecovery, StoredFirst
    <2>3. /\ rpc' = "resolve" /\ recovered' = recovered \cup {l}
          /\ UNCHANGED <<active, quarantine, normalized>>
      BY <1>27 DEF RecordRecovery
    <2> QED
      BY <2>1, <2>2, <2>3, <1>0
  <1>28. ASSUME NEW l \in Listing, Resolve(l) PROVE Recovery'
    <2>1. rimage = quarantine
      BY <1>28 DEF Resolve, ImagesFresh
    <2>2. active' \subseteq quarantine'
      BY <1>28, <2>1 DEF Resolve
    <2>3. rpc' = "next" /\ recovered' = recovered
      BY <1>28 DEF Resolve
    <2> QED
      BY <2>2, <2>3, <1>0
  <1> QED
    BY NextCases, <1>1, <1>2, <1>3, <1>4, <1>5, <1>6, <1>7, <1>8, <1>9, <1>10, <1>11,
       <1>12, <1>13, <1>14, <1>15, <1>16, <1>17, <1>18, <1>19, <1>20, <1>21, <1>22,
       <1>23, <1>24, <1>25, <1>26, <1>27, <1>28

\* The feeds keep their order.
LEMMA ListedNext ==
    ASSUME TypeInv, ImagesFresh, ListedInOrder, Next
    PROVE  ListedInOrder'
  <1> USE DEF TypeInv, TypeOK, Goto, RGoto, intake, outcomes, memory, recovery, world,
              queue, ListedInOrder
  <1>1. CASE Stops
    BY <1>1, StopsFrame DEF Forget
  <1>2. CASE Outside
    BY <1>2 DEF Outside, NextDay, List, Listing
  <1>3. CASE Reads
    BY <1>3, ReadsFrame
  <1>4. CASE Skips
    BY <1>4, SkipsFrame
  <1>5. CASE StartPoll
    BY <1>5 DEF StartPoll
  <1>6. ASSUME NEW c \in Cik, FetchSubmissions(c) PROVE ListedInOrder'
    BY <1>6 DEF FetchSubmissions
  <1>7. ASSUME NEW f \in Filing, FetchFiling(f) PROVE ListedInOrder'
    BY <1>7 DEF FetchFiling
  <1>8. ASSUME NEW f \in Filing, ReadQuarantine(f) PROVE ListedInOrder'
    BY <1>8 DEF ReadQuarantine
  <1>9. ASSUME NEW f \in Filing, RecordQuarantine(f) PROVE ListedInOrder'
    BY <1>9 DEF RecordQuarantine
  <1>10. ASSUME NEW f \in Filing, StoreEvents(f) PROVE ListedInOrder'
    BY <1>10 DEF StoreEvents
  <1>11. ASSUME NEW f \in Filing, CommitFiling(f) PROVE ListedInOrder'
    BY <1>11, CommitEffect DEF CommitFiling
  <1>12. CASE EndFeed
    BY <1>12 DEF EndFeed
  <1>13. CASE StartCycle
    BY <1>13 DEF StartCycle
  <1>14. CASE Reconcile
    BY <1>14, AcknowledgeEffect DEF Reconcile, AcknowledgeAt
  <1>15. CASE Select
    BY <1>15 DEF Select
  <1>16. CASE DisposeStale
    BY <1>16 DEF DisposeStale
  <1>17. CASE RetireStale
    BY <1>17, AcknowledgeEffect DEF RetireStale, AcknowledgeAt
  <1>18. CASE Decide
    BY <1>18 DEF Decide, Forget
  <1>19. CASE RetireDecided
    BY <1>19, AcknowledgeEffect DEF RetireDecided, Forget
  <1>20. CASE StartRecovery
    BY <1>20 DEF StartRecovery
  <1>21. ASSUME NEW l \in Listing, SkipRecovered(l) PROVE ListedInOrder'
    BY <1>21 DEF SkipRecovered
  <1>22. ASSUME NEW l \in Listing, FetchReplacement(l) PROVE ListedInOrder'
    BY <1>22 DEF FetchReplacement
  <1>23. ASSUME NEW l \in Listing, StoreRecovered(l) PROVE ListedInOrder'
    BY <1>23 DEF StoreRecovered
  <1>24. ASSUME NEW l \in Listing, ReadForRecovery(l) PROVE ListedInOrder'
    BY <1>24 DEF ReadForRecovery
  <1>25. ASSUME NEW l \in Listing, CommitRecovered(l) PROVE ListedInOrder'
    BY <1>25, CommitRecoveredEffect DEF CommitRecovered
  <1>26. ASSUME NEW l \in Listing, AppendRecovered(l) PROVE ListedInOrder'
    BY <1>26, AppendEffect DEF AppendRecovered
  <1>27. ASSUME NEW l \in Listing, RecordRecovery(l) PROVE ListedInOrder'
    BY <1>27 DEF RecordRecovery
  <1>28. ASSUME NEW l \in Listing, Resolve(l) PROVE ListedInOrder'
    BY <1>28 DEF Resolve
  <1> QED
    BY NextCases, <1>1, <1>2, <1>3, <1>4, <1>5, <1>6, <1>7, <1>8, <1>9, <1>10, <1>11,
       <1>12, <1>13, <1>14, <1>15, <1>16, <1>17, <1>18, <1>19, <1>20, <1>21, <1>22,
       <1>23, <1>24, <1>25, <1>26, <1>27, <1>28

-----------------------------------------------------------------------------
(* What a poll and a quarantine record cover.                              *)

\* Outcomes, age and watermarks only grow.
LEMMA GrowNext ==
    ASSUME TypeInv, ImagesFresh, Chronology, Next
    PROVE  /\ Finalized \subseteq Finalized'
           /\ \A f \in Filing : Aged(f) => Aged(f)'
           /\ \A c \in Cik : watermark[c] <= watermark'[c]
  <1>1. Finalized \subseteq Finalized'
    BY Writers DEF Finalized
  <1>2. \A f \in Filing : Aged(f) => Aged(f)'
    <2>1. Today \in Nat /\ Today' \in Nat /\ Today <= Today'
      BY TodayNext, TypeNext DEF TypeInv, TypeOK, Today
    <2>2. \A f \in Filing : Day[f] + Lookback \in Nat
      BY FilingAssumption, BoundsAssumption
    <2> QED
      BY <2>1, <2>2 DEF Aged
  <1>3. \A c \in Cik : watermark[c] \in Nat
    BY TypeFacts, CursorNat DEF TypeInv
  <1>4. ASSUME NEW f \in Filing, CommitFiling(f)
        PROVE  \A c \in Cik : watermark[c] <= watermark'[c]
    <2>1. f \in Nat /\ feed \in Cik /\ watermark \in [Cik -> {0} \cup Filing]
      BY <1>4, CommitEffect, TypeFacts, CursorNat DEF TypeInv
    <2> QED
      BY <1>3, <1>4, <2>1, CommitEffect
  <1>5. ASSUME NEW l \in Listing, CommitRecovered(l)
        PROVE  \A c \in Cik : watermark[c] <= watermark'[c]
    <2>1. l.filing \in Nat /\ l.cik \in Cik /\ watermark \in [Cik -> {0} \cup Filing]
      BY TypeFacts, CursorNat DEF TypeInv, Listing
    <2> QED
      BY <1>3, <1>5, <2>1, CommitRecoveredEffect
  <1> QED
    BY <1>1, <1>2, <1>3, <1>4, <1>5, Writers

\* A poll keeps what it covers: a feed shows filings in order, and the first poll of a
\* CIK leaves out only what is older than what it takes.
LEMMA PollNext ==
    ASSUME TypeInv, ImagesFresh, Chronology, ListedInOrder, PollCovers, Alone, Next
    PROVE  PollCovers'
  <1> USE DEF TypeInv, TypeOK, Goto, RGoto, intake, outcomes, memory, recovery, world,
              queue, PollCovers, Polling
  <1>0. /\ Finalized \subseteq Finalized'
        /\ \A f \in WithEvents : Aged(f) => Aged(f)'
    BY GrowNext, FilingAssumption
  <1>1. CASE Stops
    BY <1>1, StopsFrame, <1>0 DEF Forget
  <1>2. CASE Outside
    BY <1>2, OutsideFrame, <1>0
  <1>3. CASE Reads
    BY <1>3, ReadsFrame, <1>0
  <1>4. CASE Skips
    BY <1>4, SkipsFrame, <1>0
  <1>5. CASE StartPoll
    BY <1>5, <1>0 DEF StartPoll
  <1>6. ASSUME NEW c \in Cik, FetchSubmissions(c) PROVE PollCovers'
    <2>1. /\ pc' = "filing" /\ feed' = c /\ parsed' = {} /\ finalized' = finalized
          /\ watermark' = watermark /\ cutoff' = cutoff /\ Today' = cutoff
      BY <1>6 DEF FetchSubmissions, Today
    <2>2. \A g \in todo' : [cik |-> c, filing |-> g] \in listed /\ Day[g] <= cutoff /\ g \in Filing
                          /\ (watermark[c] = 0 => cutoff <= Day[g] + Lookback)
      BY <1>6 DEF FetchSubmissions
    <2>3. ASSUME NEW f \in WithEvents, NEW g \in todo', c \in Feeds[f], watermark[c] < f, f <= g
          PROVE  \/ f \in todo' \/ f \in Finalized
                 \/ watermark[c] = 0 /\ Day[f] + Lookback < cutoff
      <3>1. f \in Filing /\ g \in Filing /\ f \in Nat /\ g \in Nat
        BY <2>2, FilingAssumption
      <3>2. [cik |-> c, filing |-> f] \in listed
        <4> DEFINE m == [cik |-> c, filing |-> g]
        <4>1. m \in listed /\ m.cik = c /\ m.filing = g
          BY <2>2, <2>3
        <4>2. CASE f = g
          BY <4>1, <4>2
        <4>3. CASE f < g
          BY <2>3, <3>1, <4>1, <4>3 DEF ListedInOrder
        <4> QED
          BY <2>3, <3>1, <4>2, <4>3
      <3>3. Day[f] \in Nat /\ Day[g] \in Nat /\ Day[f] <= Day[g] /\ Day[g] <= cutoff
            /\ cutoff \in Nat /\ Lookback \in Nat
        <4>1. Day[f] \in Nat /\ Day[g] \in Nat /\ (f < g => Day[f] <= Day[g])
          BY <3>1, FilingAssumption
        <4>2. f = g \/ f < g
          BY <2>3, <3>1
        <4>3. cutoff \in Nat /\ Lookback \in Nat
          BY BoundsAssumption
        <4>4. Day[g] <= cutoff
          BY <2>2, <2>3
        <4>5. Day[f] <= Day[g]
          BY <4>1, <4>2
        <4> QED
          BY <4>1, <4>3, <4>4, <4>5
      <3>4. Day[f] <= cutoff
        BY <3>3
      <3>5. f \in finalized \/ f \in todo' \/ ~ (IF watermark[c] # 0 THEN watermark[c] < f
                                                ELSE cutoff <= Day[f] + Lookback)
        BY <1>6, <3>1, <3>2, <3>4 DEF FetchSubmissions
      <3>6. watermark[c] = 0 /\ ~ (cutoff <= Day[f] + Lookback) => Day[f] + Lookback < cutoff
        BY <3>3
      <3> QED
        BY <2>3, <3>5, <3>6
    <2> QED
      BY <1>0, <2>1, <2>2, <2>3 DEF Aged
  <1>7. ASSUME NEW f \in Filing, FetchFiling(f) PROVE PollCovers'
    BY <1>7, <1>0 DEF FetchFiling
  <1>8. ASSUME NEW f \in Filing, ReadQuarantine(f) PROVE PollCovers'
    BY <1>8, <1>0 DEF ReadQuarantine
  <1>9. ASSUME NEW f \in Filing, RecordQuarantine(f) PROVE PollCovers'
    <2>1. \A g \in First(todo) : g = f
      BY <1>9, FirstUnique DEF RecordQuarantine
    <2>2. [cik |-> feed, filing |-> f] \in quarantine'
      BY <1>9 DEF RecordQuarantine, ImagesFresh
    <2>3. /\ pc = "quarantine" /\ pc' = "commit"
          /\ UNCHANGED <<watermark, feed, todo, parsed, finalized, cutoff>>
      BY <1>9 DEF RecordQuarantine
    <2> QED
      BY <1>0, <2>1, <2>2, <2>3
  <1>10. ASSUME NEW f \in Filing, StoreEvents(f) PROVE PollCovers'
    <2>1. \A g \in First(todo) : g = f
      BY <1>10, FirstUnique DEF StoreEvents
    <2> QED
      BY <1>10, <1>0, <2>1 DEF StoreEvents
  <1>11. ASSUME NEW f \in Filing, CommitFiling(f) PROVE PollCovers'
    <2>1. /\ pc = "commit" /\ pc' = "filing" /\ todo' = todo \ {f} /\ f \in todo /\ parsed' = {}
          /\ UNCHANGED <<feed, finalized, cutoff>>
      BY <1>11, FirstUnique DEF CommitFiling
    <2>2. feed \in Cik /\ f \in Nat /\ watermark[feed] \in Nat /\ watermark[feed] <= watermark'[feed]
          /\ watermark \in [Cik -> {0} \cup Filing] /\ f # 0
      BY <2>1, GrowNext, TypeFacts, CursorNat, FilingAssumption
    <2>3. (watermark'[feed] = watermark[feed] /\ f <= watermark[feed]) \/ watermark'[feed] = f
      BY <1>11, <2>2, CommitEffect
    <2>4. ASSUME NEW g \in todo', watermark'[feed] = 0 PROVE cutoff <= Day[g] + Lookback
      BY <2>1, <2>2, <2>3, <2>4
    <2>5. ASSUME NEW h \in WithEvents, NEW g \in todo',
                 feed \in Feeds[h], watermark'[feed] < h, h <= g
          PROVE  h \in todo' \/ h \in Finalized' \/ (watermark'[feed] = 0 /\ Aged(h)')
      <3>1. h \in Nat /\ h \in Filing /\ g \in todo
        BY <2>1, FilingAssumption
      <3>2. watermark[feed] < h /\ h # f
        BY <2>2, <2>3, <2>5, <3>1
      <3>3. h \in todo \/ h \in Finalized \/ (watermark[feed] = 0 /\ Aged(h))
        BY <2>1, <2>5, <3>1, <3>2
      <3>4. CASE watermark[feed] = 0 /\ Aged(h)
        <4>1. cutoff <= Day[f] + Lookback
          BY <2>1, <3>4
        <4>2. f \in Filing /\ Day[f] \in Nat /\ Day[h] \in Nat /\ Lookback \in Nat /\ cutoff \in Nat
              /\ (f < h => Day[f] <= Day[h])
          BY <3>1, FilingAssumption, BoundsAssumption
        <4>3. ~ (f < h)
          BY <2>1, <3>4, <4>1, <4>2 DEF Aged, Today
        <4> QED
          BY <2>2, <2>3, <2>5, <3>1, <3>2, <3>4, <4>3, <1>0
      <3> QED
        BY <1>0, <2>1, <3>2, <3>3, <3>4
    <2> QED
      BY <1>0, <2>1, <2>4, <2>5
  <1>12. CASE EndFeed
    BY <1>12, <1>0 DEF EndFeed
  <1>13. CASE StartCycle
    BY <1>13, <1>0 DEF StartCycle
  <1>14. CASE Reconcile
    BY <1>14, <1>0 DEF Reconcile, AcknowledgeAt
  <1>15. CASE Select
    BY <1>15, <1>0 DEF Select
  <1>16. CASE DisposeStale
    BY <1>16, <1>0 DEF DisposeStale
  <1>17. CASE RetireStale
    BY <1>17, <1>0 DEF RetireStale, AcknowledgeAt
  <1>18. CASE Decide
    BY <1>18, <1>0 DEF Decide, Forget
  <1>19. CASE RetireDecided
    BY <1>19, <1>0 DEF RetireDecided, Forget
  <1>20. CASE StartRecovery
    BY <1>20, <1>0 DEF StartRecovery
  <1>21. ASSUME NEW l \in Listing, SkipRecovered(l) PROVE PollCovers'
    BY <1>21, <1>0 DEF SkipRecovered
  <1>22. ASSUME NEW l \in Listing, FetchReplacement(l) PROVE PollCovers'
    BY <1>22, <1>0 DEF FetchReplacement
  <1>23. ASSUME NEW l \in Listing, StoreRecovered(l) PROVE PollCovers'
    BY <1>23, <1>0 DEF StoreRecovered
  <1>24. ASSUME NEW l \in Listing, ReadForRecovery(l) PROVE PollCovers'
    BY <1>24, <1>0 DEF ReadForRecovery
  <1>25. ASSUME NEW l \in Listing, CommitRecovered(l) PROVE PollCovers'
    <2>1. pc = "idle" /\ UNCHANGED <<pc, todo, parsed, finalized>>
      BY <1>25 DEF CommitRecovered, ImagesFresh
    <2> QED
      BY <1>0, <2>1
  <1>26. ASSUME NEW l \in Listing, AppendRecovered(l) PROVE PollCovers'
    <2>1. pc = "idle" /\ UNCHANGED <<pc, todo, parsed, finalized>>
      BY <1>26 DEF AppendRecovered, ImagesFresh
    <2> QED
      BY <1>0, <2>1
  <1>27. ASSUME NEW l \in Listing, RecordRecovery(l) PROVE PollCovers'
    BY <1>27, <1>0 DEF RecordRecovery
  <1>28. ASSUME NEW l \in Listing, Resolve(l) PROVE PollCovers'
    <2>1. pc = "idle" /\ UNCHANGED <<pc, todo, parsed, finalized>>
      BY <1>28 DEF Resolve, ImagesFresh
    <2> QED
      BY <1>0, <2>1
  <1> QED
    BY NextCases, <1>1, <1>2, <1>3, <1>4, <1>5, <1>6, <1>7, <1>8, <1>9, <1>10, <1>11,
       <1>12, <1>13, <1>14, <1>15, <1>16, <1>17, <1>18, <1>19, <1>20, <1>21, <1>22,
       <1>23, <1>24, <1>25, <1>26, <1>27, <1>28

\* A quarantined filing keeps what it covers.
LEMMA QuarantineNext ==
    ASSUME TypeInv, ImagesFresh, Chronology, PollCovers, QuarantineCovers, Next
    PROVE  QuarantineCovers'
  <1>1. /\ Finalized \subseteq Finalized'
        /\ \A f \in Filing : Aged(f) => Aged(f)'
        /\ \A c \in Cik : /\ watermark[c] \in Nat /\ watermark'[c] \in Nat
                          /\ watermark[c] <= watermark'[c]
    BY GrowNext, TypeNext, TypeFacts, CursorNat DEF TypeInv, TypeOK, Queue
  <1>2. \A l \in Listing : l.cik \in Cik /\ l.filing \in Nat
    BY CursorNat DEF Listing
  <1>3. WithEvents \subseteq Filing /\ Filing \subseteq Nat /\ quarantine \subseteq Listing
    BY FilingAssumption DEF TypeInv, TypeOK
  <1>4. CASE quarantine' \subseteq quarantine
    <2> SUFFICES ASSUME NEW l \in quarantine', NEW f \in WithEvents,
                        l.cik \in Feeds[f], watermark'[l.cik] < f, f < l.filing
                 PROVE  f \in Finalized' \/ Aged(f)'
      BY DEF QuarantineCovers
    <2>1. l \in quarantine /\ watermark[l.cik] < f
      <3>1. l \in quarantine /\ l \in Listing /\ f \in Nat
        BY <1>3, <1>4
      <3>2. l.cik \in Cik
        BY <1>2, <3>1
      <3>3. watermark[l.cik] <= watermark'[l.cik] /\ watermark[l.cik] \in Nat
            /\ watermark'[l.cik] \in Nat
        BY <1>1, <3>2
      <3> QED
        BY <3>1, <3>3
    <2> QED
      BY <1>1, <1>3, <2>1 DEF QuarantineCovers
  <1>5. ASSUME NEW f \in Filing, RecordQuarantine(f)
        PROVE  QuarantineCovers'
    <2> DEFINE l == [cik |-> feed, filing |-> f]
    <2>1. quarantine' \subseteq quarantine \cup {l} /\ watermark' = watermark
      BY <1>5 DEF RecordQuarantine, ImagesFresh, Goto, queue
    <2>2. f \in First(todo) /\ Polling /\ todo \subseteq Filing
      BY <1>5 DEF RecordQuarantine, Goto, Polling, TypeInv, TypeOK
    <2>3. ASSUME NEW h \in WithEvents, feed \in Feeds[h], watermark[feed] < h, h < f
          PROVE  h \in Finalized \/ Aged(h)
      <3>1. h \notin todo /\ f \in todo /\ h <= f
        BY <1>3, <2>2, <2>3 DEF First
      <3> QED
        BY <2>2, <2>3, <3>1 DEF PollCovers
    <2>4. l.cik = feed /\ l.filing = f
      OBVIOUS
    <2> QED
      BY <1>1, <1>2, <1>3, <2>1, <2>3, <2>4 DEF QuarantineCovers
  <1>6. ASSUME NEW l \in Listing, Resolve(l) PROVE quarantine' \subseteq quarantine
    BY <1>6 DEF Resolve, ImagesFresh, RGoto
  <1> QED
    BY <1>4, <1>5, <1>6, Writers

-----------------------------------------------------------------------------
(* The invariant.                                                          *)

LEMMA InvInit == Init => IInv
  <1> SUFFICES ASSUME Init PROVE IInv
    OBVIOUS
  <1>1. Filings(pending) = {} /\ Finalized = {} /\ FirstListing(active) = {}
    BY DEF Init, Filings, Finalized, FirstListing
  <1>2. TypeInv
    BY TypeInit
  <1>3. day \in Nat /\ 0 <= day
    BY DEF Init
  <1> QED
    BY <1>1, <1>2, <1>3 DEF Init, IInv, ImagesFresh, Chronology, StoredFirst, Batches,
       Recovery, ListedInOrder, PollCovers, QuarantineCovers, Polling, Today

LEMMA InvNext ==
    ASSUME IInv, Alone, [Next]_vars
    PROVE  IInv'
  <1>1. CASE Next
    BY <1>1, TypeNext, ImagesNext, ChronologyNext, BatchesNext, StoredNext, RecoveryNext,
       ListedNext, PollNext, QuarantineNext DEF IInv
  <1>2. CASE UNCHANGED vars
    BY <1>2 DEF vars, world, intake, queue, outcomes, memory, recovery, IInv, TypeInv,
       TypeOK, ImagesFresh, Chronology, StoredFirst, Batches, Recovery, ListedInOrder,
       PollCovers, QuarantineCovers, Polling, Today, Aged, Settled, Finalized, Filings,
       First, FirstListing, TheQueue
  <1> QED
    BY <1>1, <1>2

-----------------------------------------------------------------------------
(* The theorems.                                                           *)

\* Every state has its types, also when the recovery runs beside the pipeline: queue
\* and quarantine files, the images of them in memory, and the listings they name.
THEOREM Typed == Spec => []TypeOK
  <1>1. Init => TypeInv
    BY TypeInit
  <1>2. TypeInv /\ [Next]_vars => TypeInv'
    <2>1. ASSUME TypeInv, UNCHANGED vars PROVE TypeInv'
      BY <2>1 DEF vars, world, intake, queue, outcomes, memory, recovery, TypeInv, TypeOK,
         Polling
    <2> QED
      BY <2>1, TypeNext
  <1>3. TypeInv => TypeOK
    BY DEF TypeInv
  <1> QED
    BY <1>1, <1>2, <1>3, PTL DEF Spec

\* The inductive invariant holds.
LEMMA Invariance == ASSUME Alone PROVE Spec => []IInv
  <1>1. IInv /\ [Next]_vars => IInv'
    BY InvNext
  <1> QED
    BY <1>1, InvInit, PTL DEF Spec

\* An outcome is of stored events and there is one: stale filings are of sessions
\* before the one being planned, selected ones of that session, and a receipt's filings
\* are reconciled out of the queue before the next selection.
THEOREM OneOutcome == ASSUME Alone PROVE Spec => []OneStoredOutcome
  <1>1. IInv => OneStoredOutcome
    <2> SUFFICES ASSUME IInv PROVE OneStoredOutcome
      OBVIOUS
    <2>1. CASE pc = "decide"
      <3>1. \A f \in selected : f \in Filings(pending) /\ Day[f] = cutoff
        BY <2>1 DEF IInv, Batches
      <3>2. \A f \in stale : Day[f] < cutoff
        BY <2>1 DEF IInv, Chronology, Today
      <3>3. \A f \in selected : Day[f] \in Nat
        BY FilingAssumption DEF IInv, TypeInv, TypeOK
      <3>4. Filings(pending) \cap receipts = {}
        BY <2>1 DEF IInv, Batches
      <3>5. selected \cap Finalized = {}
        BY <3>1, <3>2, <3>3, <3>4 DEF Finalized
      <3> QED
        BY <3>5 DEF IInv, OneStoredOutcome, StoredFirst, Batches
    <2>2. CASE pc # "decide"
      BY <2>2 DEF IInv, OneStoredOutcome, StoredFirst, Batches
    <2> QED
      BY <2>1, <2>2
  <1> QED
    BY <1>1, Invariance, PTL

\* A record leaves the quarantine only with its events stored and queued, or decided,
\* whatever raised or died in between.
THEOREM ResolvedDurable == ASSUME Alone PROVE Spec => []ResolvedIsDurable
  <1>1. IInv => ResolvedIsDurable
    BY DEF IInv, Recovery, ResolvedIsDurable, HasEvents, Settled
  <1> QED
    BY <1>1, Invariance, PTL

\* A filing once waiting for a cycle, decided, or quarantined remains one of the three:
\* the queue loses only what has its outcome, the quarantine only what was recovered.
THEOREM NothingLost == ASSUME Alone PROVE Spec => NothingForgotten
  <1>1. ASSUME IInv, [Next]_vars
        PROVE  [\A f \in WithEvents : Accounted(f) => Accounted(f)']_vars
    <2>1. CASE UNCHANGED vars
      BY <2>1
    <2>2. CASE Next
      <3> SUFFICES ASSUME NEW f \in WithEvents, Accounted(f) PROVE Accounted(f)'
        OBVIOUS
      <3>1. f \in Filing
        BY FilingAssumption
      <3>2. Settled(f) => Settled(f)'
        BY <1>1, <2>2, <3>1, KeptNext DEF IInv
      <3>3. CASE Settled(f)
        BY <3>2, <3>3 DEF Settled, Accounted
      <3>4. CASE f \in Filings(quarantine) /\ quarantine' = quarantine
        BY <3>4 DEF Accounted, Filings
      <3>5. ASSUME NEW g \in Filing, RecordQuarantine(g), f \in Filings(quarantine)
            PROVE  Accounted(f)'
        <4>1. quarantine \subseteq quarantine'
          BY <1>1, <3>5 DEF IInv, ImagesFresh, RecordQuarantine, Goto
        <4> QED
          BY <3>5, <4>1 DEF Accounted, Filings
      <3>6. ASSUME NEW l \in Listing, Resolve(l), f \in Filings(quarantine)
            PROVE  Accounted(f)'
        <4>1. quarantine \ {l} \subseteq quarantine'
          BY <1>1, <3>6 DEF IInv, ImagesFresh, Resolve, RGoto
        <4>2. l \in recovered
          BY <1>1, <3>6 DEF IInv, Recovery, Resolve, RGoto
        <4>3. CASE l.filing = f
          <5>1. Settled(f)
            BY <1>1, <4>2, <4>3 DEF IInv, Recovery, HasEvents
          <5> QED
            BY <3>2, <5>1 DEF Settled, Accounted
        <4>4. CASE l.filing # f
          BY <3>6, <4>1, <4>4 DEF Accounted, Filings
        <4> QED
          BY <4>3, <4>4
      <3>7. Settled(f) \/ f \in Filings(quarantine)
        BY DEF Accounted, Settled
      <3> QED
        BY <1>1, <2>2, <3>3, <3>4, <3>5, <3>6, <3>7, Writers DEF IInv
    <2> QED
      BY <1>1, <2>1, <2>2
  <1> QED
    BY <1>1, Invariance, PTL DEF Spec, NothingForgotten

\* A watermark passes a filing of its feed only when the filing is accounted for or was
\* too old for the first poll of its CIK: the poll takes a feed's filings in order, and
\* a quarantined filing covers what lies between the watermark and itself.
THEOREM NonePassed == ASSUME Alone PROVE Spec => NothingPassed
  <1> DEFINE Excused(c, f) == Beyond(f) /\ (watermark[c] = 0 \/ rpc = "commit")
             Passes(c, f)  == c \in Feeds[f] /\ watermark[c] < f /\ f <= watermark'[c]
  <1>1. ASSUME IInv, [Next]_vars
        PROVE  [\A c \in Cik, f \in WithEvents :
                   (c \in Feeds[f] /\ watermark[c] < f /\ f <= watermark'[c])
                       => \/ Accounted(f)'
                          \/ Beyond(f) /\ (watermark[c] = 0 \/ rpc = "commit")]_vars
    <2>1. CASE UNCHANGED vars
      BY <2>1
    <2>2. CASE Next
      <3> SUFFICES ASSUME NEW c \in Cik, NEW f \in WithEvents, Passes(c, f)
                   PROVE  Accounted(f)' \/ Excused(c, f)
        OBVIOUS
      <3>1. f \in Filing /\ f \in Nat /\ watermark[c] \in Nat
            /\ watermark \in [Cik -> {0} \cup Filing]
        BY <1>1, FilingAssumption, TypeFacts, CursorNat DEF IInv, TypeInv
      <3>2. f \in Finalized => Accounted(f)'
        BY <1>1, <2>2, GrowNext DEF IInv, Accounted
      <3>3. Aged(f) => Beyond(f)
        <4>1. Today \in Nat /\ Today <= day /\ day \in Nat
          BY <1>1 DEF IInv, Chronology, Today, TypeInv, TypeOK
        <4>2. Day[f] + Lookback \in Nat
          BY <3>1, FilingAssumption, BoundsAssumption
        <4> QED
          BY <4>1, <4>2 DEF Aged, Beyond
      <3>4. ASSUME NEW g \in Filing, CommitFiling(g) PROVE Accounted(f)' \/ Excused(c, f)
        <4>1. /\ pc = "commit" /\ g \in First(todo) /\ g \in todo /\ todo \subseteq Filing
              /\ quarantine' = quarantine
          BY <1>1, <3>4, FirstUnique DEF CommitFiling, Goto, IInv, TypeInv, TypeOK
        <4>2. c = feed /\ watermark'[c] = g /\ Filings(pending)' = Filings(pending) \cup parsed
          BY <1>1, <3>1, <3>4, CommitEffect DEF IInv
        <4>3. f \in todo \/ f \in Finalized \/ (watermark[c] = 0 /\ Aged(f))
          BY <1>1, <4>1, <4>2 DEF IInv, PollCovers, Polling
        <4>4. ASSUME f \in todo PROVE Accounted(f)'
          <5>1. f = g
            <6>1. g <= f /\ f <= g /\ g \in Nat
              BY <4>1, <4>2, <4>4, CursorNat DEF First
            <6> QED
              BY <3>1, <6>1
          <5>2. f \in parsed \/ [cik |-> feed, filing |-> f] \in quarantine
            BY <1>1, <4>1, <5>1 DEF IInv, PollCovers
          <5>3. f \in Filings(pending)' \/ f \in Filings(quarantine)'
            BY <4>1, <4>2, <5>2, [cik |-> feed, filing |-> f].filing = f DEF Filings
          <5> QED
            BY <5>3 DEF Accounted
        <4> QED
          BY <3>2, <3>3, <4>3, <4>4
      <3>5. ASSUME NEW l \in Listing, CommitRecovered(l) PROVE Accounted(f)' \/ Excused(c, f)
        <4>1. rpc = "commit" /\ l \in quarantine /\ l.filing \in Nat
          BY <1>1, <3>5, CursorNat
          DEF CommitRecovered, RGoto, IInv, Recovery, FirstListing, Listing
        <4>2. /\ c = l.cik /\ watermark'[c] = l.filing
              /\ Filings(pending)' = Filings(pending) \cup ({l.filing} \cap WithEvents)
          BY <1>1, <3>1, <3>5, CommitRecoveredEffect DEF IInv
        <4>3. CASE f = l.filing
          BY <4>2, <4>3 DEF Accounted
        <4>4. CASE f # l.filing
          <5>1. f < l.filing
            BY <3>1, <4>1, <4>2, <4>4
          <5>2. f \in Finalized \/ Aged(f)
            BY <1>1, <4>1, <4>2, <5>1 DEF IInv, QuarantineCovers
          <5> QED
            BY <3>2, <3>3, <4>1, <5>2
        <4> QED
          BY <4>3, <4>4
      <3>6. watermark' # watermark
        BY <3>1
      <3> QED
        BY <1>1, <2>2, <3>4, <3>5, <3>6, Writers DEF IInv
    <2> QED
      BY <1>1, <2>1, <2>2
  <1> QED
    BY <1>1, Invariance, PTL DEF Spec, NothingPassed

==============================================================================
