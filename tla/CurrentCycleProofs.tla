-------------------------- MODULE CurrentCycleProofs --------------------------
(***************************************************************************)
(* Proofs about CurrentCycle for every set of events, companies and        *)
(* plugins and every value of the bounds.                                  *)
(*                                                                         *)
(* TypeOK alone is not inductive: an order is built from target and active *)
(* and both have a "nothing loaded" value while the process is idle.  Loaded *)
(* says where in the cycle they hold a session and a strategy.             *)
(*                                                                         *)
(* After the invariant and the properties it carries come the reservation  *)
(* of the slots and the refinement of EventDecision.                       *)
(***************************************************************************)
EXTENDS CurrentCycleInvariant, FiniteSetTheorems, TLAPS

TypeInv == TypeOK /\ Loaded

LEMMA BatchType ==
    ASSUME TypeInv, pc # "idle"
    PROVE  CurrentBatch \in Batch
  BY DEF TypeInv, Loaded, TypeOK, CurrentBatch, Batch

\* Every initial state is typed.
LEMMA TypeInit == Init => TypeInv
  <1> SUFFICES ASSUME Init PROVE TypeInv
    OBVIOUS
  <1>1. 1 \in Session /\ 0 \in 0..MaxSession /\ 0 \in 0..MaxDisturbances
    BY BoundsAssumption DEF Session
  <1>2. stateTag \in [Strategy -> StateTag]
    BY DEF Init, StateTag
  <1>3. "idle" \in Steps /\ "idle" \notin Deciding
    BY DEF Steps, Deciding, Publishing
  <1> QED
    BY <1>1, <1>2, <1>3 DEF Init, TypeInv, TypeOK, Loaded

-----------------------------------------------------------------------------
(* The kinds of step that most actions consist of.                         *)

\* Returning, raising and dying forget the process's memory.
LEMMA ForgetType ==
    ASSUME TypeInv, Forget,
           session' \in Session, intended' \in [Event -> 0..MaxSession],
           champion' \in Strategy, disturbances' \in 0..MaxDisturbances,
           queue' \subseteq Event, UNCHANGED <<disposed, transactions, ledger,
           commits, audits, stateTag, receipts>>
    PROVE  TypeInv'
  <1>1. 0 \in 0..MaxSession
    BY BoundsAssumption
  <1>2. "idle" \in Steps /\ "idle" \notin Deciding
    BY DEF Steps, Deciding, Publishing
  <1> QED
    BY <1>1, <1>2 DEF TypeInv, TypeOK, Loaded, Forget, ledger, audits

\* A settlement moves orders between the ledger's three sets.
LEMMA SettleType ==
    ASSUME TypeInv, NEW before, Settle(before)
    PROVE  /\ submitted' \subseteq Order
           /\ waiting' \subseteq Order
           /\ completed' \subseteq Order
           /\ positions' \subseteq Order
  BY DEF TypeInv, TypeOK, Settle

\* A strategy state file is only ever written with a typed tag.
LEMMA SaveStateType ==
    ASSUME TypeInv, pc # "idle", NEW s \in Strategy,
           NEW kind \in {"evaluated", "completed"}, SaveStateFile(s, kind)
    PROVE  TypeInv'
  <1>1. [kind |-> kind, batch |-> CurrentBatch] \in StateTag
    BY BatchType DEF StateTag
  <1>2. stateTag' \in [Strategy -> StateTag]
    BY <1>1 DEF SaveStateFile, TypeInv, TypeOK
  <1>3. saved' \subseteq Strategy
    BY DEF SaveStateFile, TypeInv, TypeOK
  <1> QED
    BY <1>2, <1>3 DEF SaveStateFile, TypeInv, TypeOK, Loaded, world, ledger, audits

-----------------------------------------------------------------------------
(* Type correctness, one step per action.                                  *)

LEMMA PipelineStepType ==
    ASSUME TypeInv, PipelineStep
    PROVE  TypeInv'
  <1> USE DEF world, ledger, audits, durable, memory, Goto
  <1>1. CASE StartPipeline
    BY <1>1 DEF StartPipeline, TypeInv, TypeOK, Loaded, Steps, Deciding, Publishing, Session
  <1>2. ASSUME NEW e \in Event, CommitFiling(e) PROVE TypeInv'
    <2>1. intended' \in [Event -> 0..MaxSession]
      BY <1>2, BoundsAssumption DEF CommitFiling, TypeInv, TypeOK, Session
    <2> QED
      BY <1>2, <2>1 DEF CommitFiling, TypeInv, TypeOK, Loaded
  <1>3. CASE PollDone
    BY <1>3 DEF PollDone, TypeInv, TypeOK, Loaded, Steps, Deciding, Publishing
  <1>4. CASE SettleLifecycle
    BY <1>4, SettleType DEF SettleLifecycle, TypeInv, TypeOK, Loaded, Steps, Deciding, Publishing
  <1>5. CASE ExitLifecycle
    BY <1>5 DEF ExitLifecycle, TypeInv, TypeOK, Loaded, Steps, Deciding, Publishing
  <1>6. CASE GuardAllows
    BY <1>6 DEF GuardAllows, TypeInv, TypeOK, Loaded, Steps, Deciding, Publishing
  <1>7. CASE GuardRejects
    BY <1>7, ForgetType DEF GuardRejects, TypeInv, TypeOK
  <1>8. ASSUME NEW t \in transactions, RecoverReceipt(t) PROVE TypeInv'
    <2>1. ChampionEntries(t.batch, t.champion) \subseteq Order
      BY DEF ChampionEntries, TypeInv, TypeOK
    <2>2. t.batch \in Batch /\ t.champion \in Strategy
      BY DEF TypeInv, TypeOK, Transaction
    <2>3. receipts' \subseteq Receipt
      BY <1>8, <2>1, <2>2 DEF RecoverReceipt, TypeInv, TypeOK, Receipt
    <2> QED
      BY <1>8, <2>3 DEF RecoverReceipt, TypeInv, TypeOK, Loaded
  <1>9. CASE RecoveryDone
    BY <1>9 DEF RecoveryDone, TypeInv, TypeOK, Loaded, Steps, Deciding, Publishing
  <1>10. ASSUME NEW r \in receipts, ReconcileReceipt(r) PROVE TypeInv'
    BY <1>10 DEF ReconcileReceipt, TypeInv, TypeOK, Loaded
  <1>11. CASE ReconcileDone
    BY <1>11 DEF ReconcileDone, TypeInv, TypeOK, Loaded, Steps, Deciding, Publishing
  <1>12. CASE Classify
    BY <1>12 DEF Classify, TypeInv, TypeOK, Loaded, Steps, Deciding, Publishing
  <1>13. CASE AcknowledgeStale
    BY <1>13 DEF AcknowledgeStale, TypeInv, TypeOK, Loaded, Steps, Deciding, Publishing
  <1>14. CASE NoActionableBatch
    BY <1>14, ForgetType DEF NoActionableBatch, TypeInv, TypeOK
  <1>15. CASE MarketReady
    BY <1>15 DEF MarketReady, TypeInv, TypeOK, Loaded, Steps, Deciding, Publishing
  <1>16. CASE WriteTransaction
    <2>1. [batch |-> CurrentBatch, champion |-> champion] \in Transaction
      BY <1>16, BatchType DEF WriteTransaction, TypeInv, TypeOK, Transaction
    <2> QED
      BY <1>16, <2>1 DEF WriteTransaction, TypeInv, TypeOK, Loaded, Steps, Deciding, Publishing
  <1>17. CASE TransactionChanged
    BY <1>17, ForgetType DEF TransactionChanged, TypeInv, TypeOK
  <1>18. CASE SettleCycle
    BY <1>18, SettleType DEF SettleCycle, TypeInv, TypeOK, Loaded, Steps, Deciding, Publishing
  <1>19. CASE Evaluate
    <2>1. CurrentBatch \in Batch /\ target \in Session /\ active \in Strategy
      BY <1>19, BatchType DEF Evaluate, TypeInv, Loaded, Deciding, Publishing
    <2>2. {CompanyOf[e] : e \in selected} \subseteq Company
      BY CompanyOfAssumption DEF TypeInv, TypeOK
    <2>3. entries' \subseteq Order
      BY <1>19, <2>1, <2>2 DEF Evaluate, Order
    <2> QED
      BY <1>19, <2>3 DEF Evaluate, TypeInv, TypeOK, Loaded, Steps, Deciding, Publishing
  <1>20. ASSUME NEW s \in Strategy, CheckpointState(s) PROVE TypeInv'
    BY <1>20, SaveStateType DEF CheckpointState
  <1>21. CASE ExecuteOrders
    BY <1>21 DEF ExecuteOrders, TypeInv, TypeOK, Loaded, Steps, Deciding, Publishing
  <1>22. CASE WriteCommit
    <2>1. [batch |-> CurrentBatch, orders |-> entries] \in Commit
      BY <1>22, BatchType DEF WriteCommit, TypeInv, TypeOK, Commit
    <2> QED
      BY <1>22, <2>1 DEF WriteCommit, TypeInv, TypeOK, Loaded, Steps, Deciding, Publishing
  <1>23. CASE RecordEngineAudit
    BY <1>23, BatchType
      DEF RecordEngineAudit, TypeInv, TypeOK, Loaded, Steps, Deciding, Publishing
  <1>24. CASE WriteDiagnostics
    BY <1>24, BatchType
      DEF WriteDiagnostics, TypeInv, TypeOK, Loaded, Steps, Deciding, Publishing
  <1>25. CASE RecordShadowAudit
    BY <1>25, BatchType
      DEF RecordShadowAudit, TypeInv, TypeOK, Loaded, Steps, Deciding, Publishing
  <1>26. ASSUME NEW s \in Strategy, SaveState(s) PROVE TypeInv'
    BY <1>26, SaveStateType DEF SaveState
  <1>27. CASE WriteReceipt
    <2>1. ChampionEntries(CurrentBatch, active) \subseteq Order
      BY DEF ChampionEntries, TypeInv, TypeOK
    <2>2. CurrentBatch \in Batch /\ active \in Strategy
      BY <1>27, BatchType DEF WriteReceipt, TypeInv, Loaded, Deciding, Publishing
    <2>3. receipts' \subseteq Receipt
      BY <1>27, <2>1, <2>2 DEF WriteReceipt, TypeInv, TypeOK, Receipt
    <2> QED
      BY <1>27, <2>3 DEF WriteReceipt, TypeInv, TypeOK, Loaded, Steps, Deciding, Publishing
  <1>28. CASE Acknowledge
    BY <1>28, ForgetType DEF Acknowledge, TypeInv, TypeOK
  <1> QED
    BY <1>1, <1>2, <1>3, <1>4, <1>5, <1>6, <1>7, <1>8, <1>9, <1>10, <1>11,
       <1>12, <1>13, <1>14, <1>15, <1>16, <1>17, <1>18, <1>19, <1>20, <1>21,
       <1>22, <1>23, <1>24, <1>25, <1>26, <1>27, <1>28 DEF PipelineStep

LEMMA TypeStep ==
    ASSUME TypeInv, [Next]_vars
    PROVE  TypeInv'
  <1> USE DEF world, ledger, audits, durable, memory
  <1>1. CASE PipelineStep
    BY <1>1, PipelineStepType
  <1>2. ASSUME Disturb
        PROVE  /\ disturbances' \in 0..MaxDisturbances
               /\ session' \in Session
               /\ intended' \in [Event -> 0..MaxSession]
    BY <1>2, BoundsAssumption DEF Disturb, TypeInv, TypeOK
  <1>3. CASE LifecycleError
    BY <1>2, <1>3, ForgetType DEF LifecycleError, TypeInv, TypeOK
  <1>4. CASE MarketNotReady
    BY <1>2, <1>4, ForgetType DEF MarketNotReady, TypeInv, TypeOK
  <1>5. CASE Crash
    BY <1>2, <1>5, ForgetType DEF Crash, TypeInv, TypeOK
  <1>6. CASE AdvanceSession
    BY <1>6, BoundsAssumption DEF AdvanceSession, TypeInv, TypeOK, Loaded, Session
  <1>7. ASSUME NEW s \in Strategy, SetChampion(s) PROVE TypeInv'
    BY <1>2, <1>7 DEF SetChampion, TypeInv, TypeOK, Loaded
  <1>8. CASE UNCHANGED vars
    BY <1>8 DEF vars, TypeInv, TypeOK, Loaded
  <1> QED
    BY <1>1, <1>3, <1>4, <1>5, <1>6, <1>7, <1>8 DEF Next

\* Every store and every register of the cycle keeps its type, whatever
\* crashes, market failures and champion changes interrupt the run.
THEOREM TypeCorrect == Spec => []TypeOK
  <1>1. TypeInv => TypeOK
    BY DEF TypeInv
  <1>2. TypeInv /\ [Next]_vars => TypeInv'
    BY TypeStep
  <1> QED
    BY TypeInit, <1>1, <1>2, PTL DEF Spec

-----------------------------------------------------------------------------
(* The inductive invariant: the typed states in which the parts of         *)
(* CycleInvariant and the safety properties hold together.                 *)

Safe ==
    /\ NoEventLost
    /\ OneOutcome
    /\ ReceiptMatchesLedger
    /\ CalibratedBeforeDecision
    /\ HonestCompletion

IInv == TypeOK /\ CycleInvariant /\ Safe

\* Steps that end the run without touching a store.
Returning == \/ GuardRejects
             \/ NoActionableBatch
             \/ TransactionChanged
             \/ LifecycleError
             \/ MarketNotReady
             \/ Crash

\* Steps that only test and move on.
Passing == PollDone \/ GuardAllows \/ ReconcileDone \/ MarketReady

\* Steps of the ledger outside a decision.
Settling == SettleLifecycle \/ ExitLifecycle \/ SettleCycle

\* The three audits of a decision.
Auditing == RecordEngineAudit \/ WriteDiagnostics \/ RecordShadowAudit

LEMMA ReturningFrame ==
    ASSUME Returning
    PROVE  Forget /\ UNCHANGED <<session, intended, durable>>
  BY DEF Returning, GuardRejects, NoActionableBatch, TransactionChanged,
         LifecycleError, MarketNotReady, Crash, Disturb, world

\* What a passing step establishes besides moving the program counter.
LEMMA PassingFrame ==
    ASSUME Passing
    PROVE  /\ UNCHANGED <<world, durable, memory>>
           /\ \/ pc = "poll" /\ pc' = "settle_due"
              \/ pc = "guard" /\ pc' = "recover" /\ session = target
              \/ /\ pc = "reconcile" /\ pc' = "classify"
                 /\ \A r \in receipts : r.batch.events \cap queue = {}
              \/ /\ pc = "sync" /\ pc' = "prepare"
                 /\ selected # {} /\ selected \subseteq queue
  BY DEF Passing, PollDone, GuardAllows, ReconcileDone, MarketReady, Goto

\* A settling step moves BUYs from pending to final and nothing else matters.
LEMMA SettlingFrame ==
    ASSUME Settling
    PROVE  /\ UNCHANGED <<world, queue, disposed, transactions, submitted,
                          commits, audits, stateTag, receipts, memory>>
           /\ completed \subseteq completed'
           /\ waiting \cup completed = waiting' \cup completed'
           /\ positions' \cup waiting' \subseteq positions \cup waiting
           /\ \/ /\ pc = "settle_due" /\ pc' = "exit_due"
                 /\ \A o \in completed' \ completed : o.on < session
              \/ /\ pc = "exit_due" /\ pc' = "guard"
                 /\ completed' = completed
              \/ /\ pc = "settle" /\ pc' = "evaluate"
                 /\ \A o \in completed' \ completed : o.on < target
  BY DEF Settling, SettleLifecycle, ExitLifecycle, SettleCycle, Settle,
         ExitedFrom, Goto

LEMMA AuditingFrame ==
    ASSUME Auditing
    PROVE  /\ UNCHANGED <<world, queue, disposed, transactions, ledger,
                          commits, stateTag, receipts, memory>>
           /\ \/ /\ pc = "engine_audit" /\ pc' = "diagnose"
                 /\ engineAudit' = engineAudit \cup {CurrentBatch}
                 /\ UNCHANGED <<diagnostics, shadowAudit>>
              \/ /\ pc = "diagnose" /\ pc' = "shadow_audit"
                 /\ diagnostics' = diagnostics \cup {CurrentBatch}
                 /\ UNCHANGED <<engineAudit, shadowAudit>>
              \/ /\ pc = "shadow_audit" /\ pc' = "save_state"
                 /\ shadowAudit' = shadowAudit \cup {CurrentBatch}
                 /\ UNCHANGED <<engineAudit, diagnostics>>
  BY DEF Auditing, RecordEngineAudit, WriteDiagnostics, RecordShadowAudit, Goto

\* The cases of a step, with the actions of one kind taken together.
LEMMA NextCases ==
    ASSUME Next
    PROVE  \/ Returning \/ Passing \/ Settling \/ Auditing
           \/ StartPipeline
           \/ \E e \in Event : CommitFiling(e)
           \/ \E t \in transactions : RecoverReceipt(t)
           \/ RecoveryDone
           \/ \E r \in receipts : ReconcileReceipt(r)
           \/ Classify \/ AcknowledgeStale \/ WriteTransaction \/ Evaluate
           \/ \E s \in Strategy : CheckpointState(s)
           \/ ExecuteOrders \/ WriteCommit
           \/ \E s \in Strategy : SaveState(s)
           \/ WriteReceipt \/ Acknowledge \/ AdvanceSession
           \/ \E s \in Strategy : SetChampion(s)
  BY DEF Next, PipelineStep, Returning, Passing, Settling, Auditing

-----------------------------------------------------------------------------
(* What the steps at the broker boundary achieve.                          *)

\* A published receipt is found under its batch.
LEMMA ReceiptPublished ==
    ASSUME WriteReceipt
    PROVE  \E r \in receipts' : r.batch = CurrentBatch
  <1> DEFINE new == [batch |-> CurrentBatch, champion |-> active,
                     orders |-> ChampionEntries(CurrentBatch, active)]
  <1>1. new \in receipts' /\ new.batch = CurrentBatch
    BY DEF WriteReceipt
  <1> QED
    BY <1>1

\* So is a written sidecar.
LEMMA SidecarWritten ==
    ASSUME WriteCommit
    PROVE  \E c \in commits' : c.batch = CurrentBatch
  <1> DEFINE new == [batch |-> CurrentBatch, orders |-> entries]
  <1>1. new \in commits' /\ new.batch = CurrentBatch
    BY DEF WriteCommit
  <1> QED
    BY <1>1

\* A batch's orders all belong to the champion of its transaction, so a
\* receipt of that champion's orders is a receipt of the batch's.
LEMMA OrdersOfBatch ==
    ASSUME Ownership, NEW b, NEW s,
           [batch |-> b, champion |-> s] \in transactions
    PROVE  ChampionEntries(b, s) = {o \in submitted : o.batch = b}
  <1> DEFINE tx == [batch |-> b, champion |-> s]
  <1>1. ASSUME NEW o \in submitted, o.batch = b PROVE o.strategy = s
    <2> DEFINE owner == [batch |-> o.batch, champion |-> o.strategy]
    <2>1. owner \in transactions /\ tx \in transactions
      BY DEF Ownership
    <2>2. owner.batch = tx.batch
      BY <1>1
    <2>3. owner = tx
      BY <2>1, <2>2 DEF Ownership
    <2>4. owner.champion = tx.champion
      BY <2>3
    <2> QED
      BY <2>4
  <1> QED
    BY <1>1 DEF ChampionEntries

\* The scan ends only when every decided batch has its receipt.
LEMMA RecoveryComplete ==
    ASSUME TypeOK, Ownership, RecoveryDone
    PROVE  \A b \in DecidedBatches : Receipted(b)
  <1>1. ASSUME NEW o \in submitted PROVE Receipted(o.batch)
    <2> DEFINE owner == [batch |-> o.batch, champion |-> o.strategy]
    <2>1. owner \in transactions
      BY DEF Ownership
    <2>2. o \in ChampionEntries(owner.batch, owner.champion)
      BY DEF ChampionEntries
    <2>3. ~ Recoverable(owner)
      BY <2>1 DEF RecoveryDone
    <2> QED
      BY <2>2, <2>3 DEF Recoverable
  <1>2. ASSUME NEW c \in commits PROVE Receipted(c.batch)
    <2>1. PICK t \in transactions : t.batch = c.batch
      BY DEF Ownership
    <2>2. ~ Recoverable(t) /\ Committed(t.batch)
      BY <2>1 DEF RecoveryDone, Committed
    <2> QED
      BY <2>1, <2>2 DEF Recoverable
  <1> QED
    BY <1>1, <1>2 DEF DecidedBatches

\* The broker call decides the current batch or, without entries, nothing yet.
LEMMA ExecutedBatches ==
    ASSUME Ownership, ExecuteOrders
    PROVE  DecidedBatches' \subseteq DecidedBatches \cup {CurrentBatch}
  <1>1. \A o \in entries : o.batch = CurrentBatch
    BY DEF Ownership, ExecuteOrders, Goto
  <1>2. submitted' = submitted \cup entries /\ commits' = commits
    BY DEF ExecuteOrders
  <1> QED
    BY <1>1, <1>2 DEF DecidedBatches

\* The commit file decides the running batch.
LEMMA CommittedBatches ==
    ASSUME WriteCommit
    PROVE  DecidedBatches' = DecidedBatches \cup {CurrentBatch}
  <1> DEFINE c == [batch |-> CurrentBatch, orders |-> entries]
  <1>1. submitted' = submitted
    BY DEF WriteCommit, ledger
  <1>2. c.batch = CurrentBatch
    OBVIOUS
  <1>3. commits' = commits \cup {c}
    BY DEF WriteCommit
  <1> HIDE DEF c
  <1>4. {d.batch : d \in commits'} = {d.batch : d \in commits} \cup {CurrentBatch}
    BY <1>2, <1>3
  <1> QED
    BY <1>1, <1>4 DEF DecidedBatches

\* Until the broker call, every decided event has already left the queue.
LEMMA DecidedNotPending ==
    ASSUME Unpublished, Reconciled,
           pc \in (Classified \cup {"classify"}) \cap BeforeBroker
    PROVE  \A b \in DecidedBatches : b.events \cap queue = {}
  <1> SUFFICES ASSUME NEW b \in DecidedBatches PROVE b.events \cap queue = {}
    OBVIOUS
  <1>1. PICK r \in receipts : r.batch = b
    BY DEF Unpublished, Receipted
  <1> QED
    BY <1>1 DEF Reconciled

\* A recovered or published receipt is that of a decided batch.
LEMMA RecoveredDecided ==
    ASSUME NEW t, RecoverReceipt(t)
    PROVE  t.batch \in DecidedBatches
  BY DEF RecoverReceipt, Recoverable, ChampionEntries, Committed, DecidedBatches

LEMMA DecidedType ==
    ASSUME TypeOK
    PROVE  \A b \in DecidedBatches : b \in Batch
  BY DEF TypeOK, DecidedBatches, Order, Commit

-----------------------------------------------------------------------------
(* Each part of the invariant is preserved, one step per action.           *)

\* Only a settlement or a classification moves something behind the target, and
\* the guard re-reads the session after the lifecycle's settlement.
LEMMA HorizonStep ==
    ASSUME IInv, Next
    PROVE  Horizon'
  <1> USE DEF IInv, TypeOK, CycleInvariant, Safe, Loaded, Horizon, Selection,
              Session, Order, Goto, Forget, Disturb, world, ledger, audits,
              durable, memory, AfterGuard, BeforeBroker, Classified, Deciding,
              Publishing
  <1>1. CASE Returning
    BY <1>1, ReturningFrame
  <1>2. CASE Passing
    BY <1>2, PassingFrame
  <1>3. CASE Settling
    BY <1>3, SettlingFrame
  <1>4. CASE Auditing
    BY <1>4, AuditingFrame
  <1>5. CASE StartPipeline
    BY <1>5 DEF StartPipeline
  <1>6. ASSUME NEW e \in Event, CommitFiling(e) PROVE Horizon'
    BY <1>6 DEF CommitFiling
  <1>7. ASSUME NEW t \in transactions, RecoverReceipt(t) PROVE Horizon'
    BY <1>7 DEF RecoverReceipt
  <1>8. CASE RecoveryDone
    BY <1>8 DEF RecoveryDone
  <1>9. ASSUME NEW r \in receipts, ReconcileReceipt(r) PROVE Horizon'
    BY <1>9 DEF ReconcileReceipt
  <1>10. CASE Classify
    BY <1>10 DEF Classify
  <1>11. CASE AcknowledgeStale
    BY <1>11 DEF AcknowledgeStale
  <1>12. CASE WriteTransaction
    BY <1>12 DEF WriteTransaction
  <1>13. CASE Evaluate
    BY <1>13 DEF Evaluate
  <1>14. ASSUME NEW s \in Strategy, CheckpointState(s) PROVE Horizon'
    BY <1>14 DEF CheckpointState, SaveStateFile
  <1>15. CASE ExecuteOrders
    BY <1>15 DEF ExecuteOrders, ExitedFrom
  <1>16. CASE WriteCommit
    BY <1>16 DEF WriteCommit
  <1>17. ASSUME NEW s \in Strategy, SaveState(s) PROVE Horizon'
    BY <1>17 DEF SaveState, SaveStateFile
  <1>18. CASE WriteReceipt
    BY <1>18 DEF WriteReceipt
  <1>19. CASE Acknowledge
    BY <1>19 DEF Acknowledge
  <1>20. CASE AdvanceSession
    BY <1>20 DEF AdvanceSession
  <1>21. ASSUME NEW s \in Strategy, SetChampion(s) PROVE Horizon'
    BY <1>21 DEF SetChampion
  <1> QED
    BY NextCases, <1>1, <1>2, <1>3, <1>4, <1>5, <1>6, <1>7, <1>8, <1>9, <1>10,
       <1>11, <1>12, <1>13, <1>14, <1>15, <1>16, <1>17, <1>18, <1>19, <1>20,
       <1>21

\* The batch in memory stays pending until its receipt is published.
LEMMA SelectionStep ==
    ASSUME IInv, Next
    PROVE  Selection'
  <1> USE DEF IInv, TypeOK, CycleInvariant, Safe, Loaded, Horizon, Selection,
              CurrentBatch, Receipted, Session, Goto, Forget, Disturb, world,
              ledger, audits, durable, memory, AfterGuard, BeforeBroker,
              Classified, Deciding, Publishing
  <1>1. CASE Returning
    BY <1>1, ReturningFrame
  <1>2. CASE Passing
    BY <1>2, PassingFrame
  <1>3. CASE Settling
    BY <1>3, SettlingFrame
  <1>4. CASE Auditing
    BY <1>4, AuditingFrame
  <1>5. CASE StartPipeline
    BY <1>5 DEF StartPipeline
  <1>6. ASSUME NEW e \in Event, CommitFiling(e) PROVE Selection'
    BY <1>6 DEF CommitFiling
  <1>7. ASSUME NEW t \in transactions, RecoverReceipt(t) PROVE Selection'
    BY <1>7 DEF RecoverReceipt
  <1>8. CASE RecoveryDone
    BY <1>8 DEF RecoveryDone
  <1>9. ASSUME NEW r \in receipts, ReconcileReceipt(r) PROVE Selection'
    BY <1>9 DEF ReconcileReceipt
  <1>10. CASE Classify
    BY <1>10 DEF Classify
  <1>11. CASE AcknowledgeStale
    BY <1>11 DEF AcknowledgeStale
  <1>12. CASE WriteTransaction
    BY <1>12 DEF WriteTransaction
  <1>13. CASE Evaluate
    BY <1>13 DEF Evaluate
  <1>14. ASSUME NEW s \in Strategy, CheckpointState(s) PROVE Selection'
    BY <1>14 DEF CheckpointState, SaveStateFile
  <1>15. CASE ExecuteOrders
    BY <1>15 DEF ExecuteOrders, ExitedFrom
  <1>16. CASE WriteCommit
    BY <1>16 DEF WriteCommit
  <1>17. ASSUME NEW s \in Strategy, SaveState(s) PROVE Selection'
    BY <1>17 DEF SaveState, SaveStateFile
  <1>18. CASE WriteReceipt
    BY <1>18, ReceiptPublished DEF WriteReceipt
  <1>19. CASE Acknowledge
    BY <1>19 DEF Acknowledge
  <1>20. CASE AdvanceSession
    BY <1>20 DEF AdvanceSession
  <1>21. ASSUME NEW s \in Strategy, SetChampion(s) PROVE Selection'
    BY <1>21 DEF SetChampion
  <1> QED
    BY NextCases, <1>1, <1>2, <1>3, <1>4, <1>5, <1>6, <1>7, <1>8, <1>9, <1>10,
       <1>11, <1>12, <1>13, <1>14, <1>15, <1>16, <1>17, <1>18, <1>19, <1>20,
       <1>21

\* A batch keeps one transaction, and its orders that transaction's champion.
LEMMA OwnershipStep ==
    ASSUME IInv, Next
    PROVE  Ownership'
  <1> USE DEF IInv, TypeOK, CycleInvariant, Safe, Loaded, Ownership,
              CurrentBatch, Transaction, Order, Batch, Goto, Forget, Disturb,
              world, ledger, audits, durable, memory, AfterGuard,
              BeforeBroker, Classified, Deciding, Publishing
  <1>1. CASE Returning
    BY <1>1, ReturningFrame
  <1>2. CASE Passing
    BY <1>2, PassingFrame
  <1>3. CASE Settling
    BY <1>3, SettlingFrame
  <1>4. CASE Auditing
    BY <1>4, AuditingFrame
  <1>5. CASE StartPipeline
    BY <1>5 DEF StartPipeline
  <1>6. ASSUME NEW e \in Event, CommitFiling(e) PROVE Ownership'
    BY <1>6 DEF CommitFiling
  <1>7. ASSUME NEW t \in transactions, RecoverReceipt(t) PROVE Ownership'
    BY <1>7 DEF RecoverReceipt
  <1>8. CASE RecoveryDone
    BY <1>8 DEF RecoveryDone
  <1>9. ASSUME NEW r \in receipts, ReconcileReceipt(r) PROVE Ownership'
    BY <1>9 DEF ReconcileReceipt
  <1>10. CASE Classify
    BY <1>10 DEF Classify
  <1>11. CASE AcknowledgeStale
    BY <1>11 DEF AcknowledgeStale
  <1>12. CASE WriteTransaction
    BY <1>12 DEF WriteTransaction
  <1>13. CASE Evaluate
    BY <1>13 DEF Evaluate
  <1>14. ASSUME NEW s \in Strategy, CheckpointState(s) PROVE Ownership'
    BY <1>14 DEF CheckpointState, SaveStateFile
  <1>15. CASE ExecuteOrders
    BY <1>15 DEF ExecuteOrders, ExitedFrom
  <1>16. CASE WriteCommit
    BY <1>16 DEF WriteCommit
  <1>17. ASSUME NEW s \in Strategy, SaveState(s) PROVE Ownership'
    BY <1>17 DEF SaveState, SaveStateFile
  <1>18. CASE WriteReceipt
    BY <1>18 DEF WriteReceipt
  <1>19. CASE Acknowledge
    BY <1>19 DEF Acknowledge
  <1>20. CASE AdvanceSession
    BY <1>20 DEF AdvanceSession
  <1>21. ASSUME NEW s \in Strategy, SetChampion(s) PROVE Ownership'
    BY <1>21 DEF SetChampion
  <1> QED
    BY NextCases, <1>1, <1>2, <1>3, <1>4, <1>5, <1>6, <1>7, <1>8, <1>9, <1>10,
       <1>11, <1>12, <1>13, <1>14, <1>15, <1>16, <1>17, <1>18, <1>19, <1>20,
       <1>21

\* Audits follow the sidecar of their batch.
LEMMA AuditOrderStep ==
    ASSUME IInv, Next
    PROVE  AuditOrder'
  <1> USE DEF IInv, TypeOK, CycleInvariant, Safe, AuditOrder, CurrentBatch,
              Committed, Goto, Forget, Disturb, world, ledger, audits,
              durable, memory, AfterGuard, BeforeBroker, Classified, Deciding,
              Publishing
  <1>1. CASE Returning
    BY <1>1, ReturningFrame
  <1>2. CASE Passing
    BY <1>2, PassingFrame
  <1>3. CASE Settling
    BY <1>3, SettlingFrame
  <1>4. CASE Auditing
    BY <1>4, AuditingFrame
  <1>5. CASE StartPipeline
    BY <1>5 DEF StartPipeline
  <1>6. ASSUME NEW e \in Event, CommitFiling(e) PROVE AuditOrder'
    BY <1>6 DEF CommitFiling
  <1>7. ASSUME NEW t \in transactions, RecoverReceipt(t) PROVE AuditOrder'
    BY <1>7 DEF RecoverReceipt
  <1>8. CASE RecoveryDone
    BY <1>8 DEF RecoveryDone
  <1>9. ASSUME NEW r \in receipts, ReconcileReceipt(r) PROVE AuditOrder'
    BY <1>9 DEF ReconcileReceipt
  <1>10. CASE Classify
    BY <1>10 DEF Classify
  <1>11. CASE AcknowledgeStale
    BY <1>11 DEF AcknowledgeStale
  <1>12. CASE WriteTransaction
    BY <1>12 DEF WriteTransaction
  <1>13. CASE Evaluate
    BY <1>13 DEF Evaluate
  <1>14. ASSUME NEW s \in Strategy, CheckpointState(s) PROVE AuditOrder'
    BY <1>14 DEF CheckpointState, SaveStateFile
  <1>15. CASE ExecuteOrders
    BY <1>15 DEF ExecuteOrders, ExitedFrom
  <1>16. CASE WriteCommit
    BY <1>16, SidecarWritten DEF WriteCommit
  <1>17. ASSUME NEW s \in Strategy, SaveState(s) PROVE AuditOrder'
    BY <1>17 DEF SaveState, SaveStateFile
  <1>18. CASE WriteReceipt
    BY <1>18 DEF WriteReceipt
  <1>19. CASE Acknowledge
    BY <1>19 DEF Acknowledge
  <1>20. CASE AdvanceSession
    BY <1>20 DEF AdvanceSession
  <1>21. ASSUME NEW s \in Strategy, SetChampion(s) PROVE AuditOrder'
    BY <1>21 DEF SetChampion
  <1> QED
    BY NextCases, <1>1, <1>2, <1>3, <1>4, <1>5, <1>6, <1>7, <1>8, <1>9, <1>10,
       <1>11, <1>12, <1>13, <1>14, <1>15, <1>16, <1>17, <1>18, <1>19, <1>20,
       <1>21

\* The recovery scan clears the way for one new decision at a time.
LEMMA UnpublishedStep ==
    ASSUME IInv, Next
    PROVE  Unpublished'
  <1> USE DEF IInv, TypeOK, CycleInvariant, Safe, Loaded, Unpublished,
              CurrentBatch, Receipted, DecidedBatches, Goto, Forget, Disturb,
              world, ledger, audits, durable, memory, AfterGuard,
              BeforeBroker, Classified, Deciding, Publishing
  <1>1. CASE Returning
    BY <1>1, ReturningFrame
  <1>2. CASE Passing
    BY <1>2, PassingFrame
  <1>3. CASE Settling
    BY <1>3, SettlingFrame
  <1>4. CASE Auditing
    BY <1>4, AuditingFrame
  <1>5. CASE StartPipeline
    BY <1>5 DEF StartPipeline
  <1>6. ASSUME NEW e \in Event, CommitFiling(e) PROVE Unpublished'
    BY <1>6 DEF CommitFiling
  <1>7. ASSUME NEW t \in transactions, RecoverReceipt(t) PROVE Unpublished'
    BY <1>7 DEF RecoverReceipt
  <1>8. CASE RecoveryDone
    BY <1>8, RecoveryComplete DEF RecoveryDone
  <1>9. ASSUME NEW r \in receipts, ReconcileReceipt(r) PROVE Unpublished'
    BY <1>9 DEF ReconcileReceipt
  <1>10. CASE Classify
    BY <1>10 DEF Classify
  <1>11. CASE AcknowledgeStale
    BY <1>11 DEF AcknowledgeStale
  <1>12. CASE WriteTransaction
    BY <1>12 DEF WriteTransaction
  <1>13. CASE Evaluate
    BY <1>13 DEF Evaluate
  <1>14. ASSUME NEW s \in Strategy, CheckpointState(s) PROVE Unpublished'
    BY <1>14 DEF CheckpointState, SaveStateFile
  <1>15. CASE ExecuteOrders
    <2>1. \A b \in DecidedBatches' : b \in DecidedBatches \/ b = CurrentBatch
      BY <1>15, ExecutedBatches DEF CycleInvariant, IInv
    <2>2. \A b \in DecidedBatches : \E r \in receipts' : r.batch = b
      BY <1>15 DEF ExecuteOrders
    <2> QED
      BY <1>15, <2>1, <2>2 DEF ExecuteOrders
  <1>16. CASE WriteCommit
    BY <1>16 DEF WriteCommit
  <1>17. ASSUME NEW s \in Strategy, SaveState(s) PROVE Unpublished'
    BY <1>17 DEF SaveState, SaveStateFile
  <1>18. CASE WriteReceipt
    BY <1>18 DEF WriteReceipt
  <1>19. CASE Acknowledge
    BY <1>19 DEF Acknowledge
  <1>20. CASE AdvanceSession
    BY <1>20 DEF AdvanceSession
  <1>21. ASSUME NEW s \in Strategy, SetChampion(s) PROVE Unpublished'
    BY <1>21 DEF SetChampion
  <1> QED
    BY NextCases, <1>1, <1>2, <1>3, <1>4, <1>5, <1>6, <1>7, <1>8, <1>9, <1>10,
       <1>11, <1>12, <1>13, <1>14, <1>15, <1>16, <1>17, <1>18, <1>19, <1>20,
       <1>21

\* Settlements and exits before the broker call only free companies.
LEMMA AllocatedStep ==
    ASSUME IInv, Next
    PROVE  Allocated'
  <1> USE DEF IInv, TypeOK, CycleInvariant, Safe, Allocated,
              OccupiedCompanies, Goto, Forget, Disturb, world, ledger, audits,
              durable, memory, AfterGuard, BeforeBroker, Classified, Deciding,
              Publishing
  <1>1. CASE Returning
    BY <1>1, ReturningFrame
  <1>2. CASE Passing
    BY <1>2, PassingFrame
  <1>3. CASE Settling
    BY <1>3, SettlingFrame
  <1>4. CASE Auditing
    BY <1>4, AuditingFrame
  <1>5. CASE StartPipeline
    BY <1>5 DEF StartPipeline
  <1>6. ASSUME NEW e \in Event, CommitFiling(e) PROVE Allocated'
    BY <1>6 DEF CommitFiling
  <1>7. ASSUME NEW t \in transactions, RecoverReceipt(t) PROVE Allocated'
    BY <1>7 DEF RecoverReceipt
  <1>8. CASE RecoveryDone
    BY <1>8 DEF RecoveryDone
  <1>9. ASSUME NEW r \in receipts, ReconcileReceipt(r) PROVE Allocated'
    BY <1>9 DEF ReconcileReceipt
  <1>10. CASE Classify
    BY <1>10 DEF Classify
  <1>11. CASE AcknowledgeStale
    BY <1>11 DEF AcknowledgeStale
  <1>12. CASE WriteTransaction
    BY <1>12 DEF WriteTransaction
  <1>13. CASE Evaluate
    BY <1>13 DEF Evaluate
  <1>14. ASSUME NEW s \in Strategy, CheckpointState(s) PROVE Allocated'
    BY <1>14 DEF CheckpointState, SaveStateFile
  <1>15. CASE ExecuteOrders
    BY <1>15 DEF ExecuteOrders, ExitedFrom
  <1>16. CASE WriteCommit
    BY <1>16 DEF WriteCommit
  <1>17. ASSUME NEW s \in Strategy, SaveState(s) PROVE Allocated'
    BY <1>17 DEF SaveState, SaveStateFile
  <1>18. CASE WriteReceipt
    BY <1>18 DEF WriteReceipt
  <1>19. CASE Acknowledge
    BY <1>19 DEF Acknowledge
  <1>20. CASE AdvanceSession
    BY <1>20 DEF AdvanceSession
  <1>21. ASSUME NEW s \in Strategy, SetChampion(s) PROVE Allocated'
    BY <1>21 DEF SetChampion
  <1> QED
    BY NextCases, <1>1, <1>2, <1>3, <1>4, <1>5, <1>6, <1>7, <1>8, <1>9, <1>10,
       <1>11, <1>12, <1>13, <1>14, <1>15, <1>16, <1>17, <1>18, <1>19, <1>20,
       <1>21

\* Reconciliation clears the queue of everything a receipt names.
LEMMA ReconciledStep ==
    ASSUME IInv, Next
    PROVE  Reconciled'
  <1> USE DEF IInv, TypeOK, CycleInvariant, Safe, Loaded, Horizon, Selection,
              Ownership, Unpublished, Reconciled, CurrentBatch, Receipted,
              DecidedBatches, Goto, Forget, Disturb, world, ledger, audits,
              durable, memory, AfterGuard, BeforeBroker, Classified, Deciding,
              Publishing
  <1>1. CASE Returning
    BY <1>1, ReturningFrame
  <1>2. CASE Passing
    BY <1>2, PassingFrame
  <1>3. CASE Settling
    BY <1>3, SettlingFrame
  <1>4. CASE Auditing
    BY <1>4, AuditingFrame
  <1>5. CASE StartPipeline
    BY <1>5 DEF StartPipeline
  <1>6. ASSUME NEW e \in Event, CommitFiling(e) PROVE Reconciled'
    <2>1. \A b \in DecidedBatches : b.on # 0 /\ b.events \subseteq Event
      BY DecidedType DEF Batch, Session
    <2> QED
      BY <1>6, <2>1 DEF CommitFiling
  <1>7. ASSUME NEW t \in transactions, RecoverReceipt(t) PROVE Reconciled'
    <2>1. t.batch \in DecidedBatches
      BY <1>7, RecoveredDecided
    <2> QED
      BY <1>7, <2>1 DEF RecoverReceipt
  <1>8. CASE RecoveryDone
    BY <1>8 DEF RecoveryDone
  <1>9. ASSUME NEW r \in receipts, ReconcileReceipt(r) PROVE Reconciled'
    BY <1>9 DEF ReconcileReceipt
  <1>10. CASE Classify
    BY <1>10 DEF Classify
  <1>11. CASE AcknowledgeStale
    BY <1>11 DEF AcknowledgeStale
  <1>12. CASE WriteTransaction
    BY <1>12 DEF WriteTransaction
  <1>13. CASE Evaluate
    BY <1>13 DEF Evaluate
  <1>14. ASSUME NEW s \in Strategy, CheckpointState(s) PROVE Reconciled'
    BY <1>14 DEF CheckpointState, SaveStateFile
  <1>15. CASE ExecuteOrders
    BY <1>15 DEF ExecuteOrders, ExitedFrom
  <1>16. CASE WriteCommit
    BY <1>16 DEF WriteCommit
  <1>17. ASSUME NEW s \in Strategy, SaveState(s) PROVE Reconciled'
    BY <1>17 DEF SaveState, SaveStateFile
  <1>18. CASE WriteReceipt
    <2>1. CurrentBatch \in DecidedBatches
      BY <1>18 DEF WriteReceipt, AuditOrder, Committed
    <2> QED
      BY <1>18, <2>1 DEF WriteReceipt
  <1>19. CASE Acknowledge
    BY <1>19 DEF Acknowledge
  <1>20. CASE AdvanceSession
    BY <1>20 DEF AdvanceSession
  <1>21. ASSUME NEW s \in Strategy, SetChampion(s) PROVE Reconciled'
    BY <1>21 DEF SetChampion
  <1> QED
    BY NextCases, <1>1, <1>2, <1>3, <1>4, <1>5, <1>6, <1>7, <1>8, <1>9, <1>10,
       <1>11, <1>12, <1>13, <1>14, <1>15, <1>16, <1>17, <1>18, <1>19, <1>20,
       <1>21

\* A step that removes an event from the queue finds it receipted or disposed.
LEMMA NoEventLostStep ==
    ASSUME IInv, Next
    PROVE  NoEventLost'
  <1> USE DEF IInv, TypeOK, CycleInvariant, Safe, NoEventLost, Selection,
              Receipted, CurrentBatch, Goto, Forget, Disturb, world, ledger,
              audits, durable, memory, AfterGuard, BeforeBroker, Classified,
              Deciding, Publishing
  <1>1. CASE Returning
    BY <1>1, ReturningFrame
  <1>2. CASE Passing
    BY <1>2, PassingFrame
  <1>3. CASE Settling
    BY <1>3, SettlingFrame
  <1>4. CASE Auditing
    BY <1>4, AuditingFrame
  <1>5. CASE StartPipeline
    BY <1>5 DEF StartPipeline
  <1>6. ASSUME NEW e \in Event, CommitFiling(e) PROVE NoEventLost'
    BY <1>6 DEF CommitFiling
  <1>7. ASSUME NEW t \in transactions, RecoverReceipt(t) PROVE NoEventLost'
    BY <1>7 DEF RecoverReceipt
  <1>8. CASE RecoveryDone
    BY <1>8 DEF RecoveryDone
  <1>9. ASSUME NEW r \in receipts, ReconcileReceipt(r) PROVE NoEventLost'
    BY <1>9 DEF ReconcileReceipt
  <1>10. CASE Classify
    BY <1>10 DEF Classify
  <1>11. CASE AcknowledgeStale
    BY <1>11 DEF AcknowledgeStale
  <1>12. CASE WriteTransaction
    BY <1>12 DEF WriteTransaction
  <1>13. CASE Evaluate
    BY <1>13 DEF Evaluate
  <1>14. ASSUME NEW s \in Strategy, CheckpointState(s) PROVE NoEventLost'
    BY <1>14 DEF CheckpointState, SaveStateFile
  <1>15. CASE ExecuteOrders
    BY <1>15 DEF ExecuteOrders, ExitedFrom
  <1>16. CASE WriteCommit
    BY <1>16 DEF WriteCommit
  <1>17. ASSUME NEW s \in Strategy, SaveState(s) PROVE NoEventLost'
    BY <1>17 DEF SaveState, SaveStateFile
  <1>18. CASE WriteReceipt
    BY <1>18 DEF WriteReceipt
  <1>19. CASE Acknowledge
    BY <1>19 DEF Acknowledge
  <1>20. CASE AdvanceSession
    BY <1>20 DEF AdvanceSession
  <1>21. ASSUME NEW s \in Strategy, SetChampion(s) PROVE NoEventLost'
    BY <1>21 DEF SetChampion
  <1> QED
    BY NextCases, <1>1, <1>2, <1>3, <1>4, <1>5, <1>6, <1>7, <1>8, <1>9, <1>10,
       <1>11, <1>12, <1>13, <1>14, <1>15, <1>16, <1>17, <1>18, <1>19, <1>20,
       <1>21

\* A new decision or write-off concerns pending events, and by DecidedNotPending
\* no decided event is pending.
LEMMA OneOutcomeStep ==
    ASSUME IInv, Next
    PROVE  OneOutcome'
  <1> USE DEF IInv, TypeOK, CycleInvariant, Safe, OneOutcome, Horizon,
              Selection, Ownership, Unpublished, Reconciled, Receipted,
              CurrentBatch, DecidedBatches, Goto, Forget, Disturb, world,
              ledger, audits, durable, memory, AfterGuard, BeforeBroker,
              Classified, Deciding, Publishing
  <1>1. CASE Returning
    BY <1>1, ReturningFrame
  <1>2. CASE Passing
    BY <1>2, PassingFrame
  <1>3. CASE Settling
    BY <1>3, SettlingFrame
  <1>4. CASE Auditing
    BY <1>4, AuditingFrame
  <1>5. CASE StartPipeline
    BY <1>5 DEF StartPipeline
  <1>6. ASSUME NEW e \in Event, CommitFiling(e) PROVE OneOutcome'
    BY <1>6 DEF CommitFiling
  <1>7. ASSUME NEW t \in transactions, RecoverReceipt(t) PROVE OneOutcome'
    BY <1>7 DEF RecoverReceipt
  <1>8. CASE RecoveryDone
    BY <1>8 DEF RecoveryDone
  <1>9. ASSUME NEW r \in receipts, ReconcileReceipt(r) PROVE OneOutcome'
    BY <1>9 DEF ReconcileReceipt
  <1>10. CASE Classify
    <2>1. \A b \in DecidedBatches : b.events \cap queue = {}
      BY <1>10, DecidedNotPending DEF Classify
    <2>2. DecidedBatches' = DecidedBatches
      BY <1>10 DEF Classify
    <2> QED
      BY <1>10, <2>1, <2>2 DEF Classify
  <1>11. CASE AcknowledgeStale
    BY <1>11 DEF AcknowledgeStale
  <1>12. CASE WriteTransaction
    BY <1>12 DEF WriteTransaction
  <1>13. CASE Evaluate
    BY <1>13 DEF Evaluate
  <1>14. ASSUME NEW s \in Strategy, CheckpointState(s) PROVE OneOutcome'
    BY <1>14 DEF CheckpointState, SaveStateFile
  <1>15. CASE ExecuteOrders
    <2>1. \A b \in DecidedBatches' : b \in DecidedBatches \/ b = CurrentBatch
      BY <1>15, ExecutedBatches
    <2>2. \A b \in DecidedBatches : b.events \cap selected = {}
      BY <1>15, DecidedNotPending DEF ExecuteOrders
    <2>3. selected \cap disposed = {}
      BY <1>15 DEF ExecuteOrders
    <2>4. CurrentBatch.events = selected
      OBVIOUS
    <2> QED
      BY <1>15, <2>1, <2>2, <2>3, <2>4 DEF ExecuteOrders
  <1>16. CASE WriteCommit
    BY <1>16 DEF WriteCommit
  <1>17. ASSUME NEW s \in Strategy, SaveState(s) PROVE OneOutcome'
    BY <1>17 DEF SaveState, SaveStateFile
  <1>18. CASE WriteReceipt
    BY <1>18 DEF WriteReceipt
  <1>19. CASE Acknowledge
    BY <1>19 DEF Acknowledge
  <1>20. CASE AdvanceSession
    BY <1>20 DEF AdvanceSession
  <1>21. ASSUME NEW s \in Strategy, SetChampion(s) PROVE OneOutcome'
    BY <1>21 DEF SetChampion
  <1> QED
    BY NextCases, <1>1, <1>2, <1>3, <1>4, <1>5, <1>6, <1>7, <1>8, <1>9, <1>10,
       <1>11, <1>12, <1>13, <1>14, <1>15, <1>16, <1>17, <1>18, <1>19, <1>20,
       <1>21

\* A receipt is written from the whole batch (OrdersOfBatch), and no order joins
\* the batch after it.
LEMMA ReceiptMatchesLedgerStep ==
    ASSUME IInv, Next
    PROVE  ReceiptMatchesLedger'
  <1> USE DEF IInv, TypeOK, CycleInvariant, Safe, ReceiptMatchesLedger,
              Selection, Ownership, Unpublished, Reconciled, Receipted,
              CurrentBatch, DecidedBatches, Goto, Forget, Disturb, world,
              ledger, audits, durable, memory, AfterGuard, BeforeBroker,
              Classified, Deciding, Publishing
  <1>1. CASE Returning
    BY <1>1, ReturningFrame
  <1>2. CASE Passing
    BY <1>2, PassingFrame
  <1>3. CASE Settling
    BY <1>3, SettlingFrame
  <1>4. CASE Auditing
    BY <1>4, AuditingFrame
  <1>5. CASE StartPipeline
    BY <1>5 DEF StartPipeline
  <1>6. ASSUME NEW e \in Event, CommitFiling(e) PROVE ReceiptMatchesLedger'
    BY <1>6 DEF CommitFiling
  <1>7. ASSUME NEW t \in transactions, RecoverReceipt(t) PROVE ReceiptMatchesLedger'
    <2>1. t = [batch |-> t.batch, champion |-> t.champion]
      BY DEF Transaction
    <2>2. ChampionEntries(t.batch, t.champion)
             = {o \in submitted : o.batch = t.batch}
      BY <2>1, OrdersOfBatch
    <2> QED
      BY <1>7, <2>2 DEF RecoverReceipt
  <1>8. CASE RecoveryDone
    BY <1>8 DEF RecoveryDone
  <1>9. ASSUME NEW r \in receipts, ReconcileReceipt(r) PROVE ReceiptMatchesLedger'
    BY <1>9 DEF ReconcileReceipt
  <1>10. CASE Classify
    BY <1>10 DEF Classify
  <1>11. CASE AcknowledgeStale
    BY <1>11 DEF AcknowledgeStale
  <1>12. CASE WriteTransaction
    BY <1>12 DEF WriteTransaction
  <1>13. CASE Evaluate
    BY <1>13 DEF Evaluate
  <1>14. ASSUME NEW s \in Strategy, CheckpointState(s) PROVE ReceiptMatchesLedger'
    BY <1>14 DEF CheckpointState, SaveStateFile
  <1>15. CASE ExecuteOrders
    BY <1>15 DEF ExecuteOrders, ExitedFrom
  <1>16. CASE WriteCommit
    BY <1>16 DEF WriteCommit
  <1>17. ASSUME NEW s \in Strategy, SaveState(s) PROVE ReceiptMatchesLedger'
    BY <1>17 DEF SaveState, SaveStateFile
  <1>18. CASE WriteReceipt
    <2>1. ChampionEntries(CurrentBatch, active)
             = {o \in submitted : o.batch = CurrentBatch}
      BY <1>18, OrdersOfBatch DEF WriteReceipt
    <2> QED
      BY <1>18, <2>1 DEF WriteReceipt
  <1>19. CASE Acknowledge
    BY <1>19 DEF Acknowledge
  <1>20. CASE AdvanceSession
    BY <1>20 DEF AdvanceSession
  <1>21. ASSUME NEW s \in Strategy, SetChampion(s) PROVE ReceiptMatchesLedger'
    BY <1>21 DEF SetChampion
  <1> QED
    BY NextCases, <1>1, <1>2, <1>3, <1>4, <1>5, <1>6, <1>7, <1>8, <1>9, <1>10,
       <1>11, <1>12, <1>13, <1>14, <1>15, <1>16, <1>17, <1>18, <1>19, <1>20,
       <1>21

\* Orders reach the ledger only after every state file carries their batch.
LEMMA CalibratedBeforeDecisionStep ==
    ASSUME IInv, Next
    PROVE  CalibratedBeforeDecision'
  <1> USE DEF IInv, TypeOK, CycleInvariant, Safe, CalibratedBeforeDecision,
              Selection, Unpublished, Receipted, CurrentBatch, DecidedBatches,
              StateTag, Goto, Forget, Disturb, world, ledger, audits, durable,
              memory, AfterGuard, BeforeBroker, Classified, Deciding,
              Publishing
  <1>1. CASE Returning
    BY <1>1, ReturningFrame
  <1>2. CASE Passing
    BY <1>2, PassingFrame
  <1>3. CASE Settling
    BY <1>3, SettlingFrame
  <1>4. CASE Auditing
    BY <1>4, AuditingFrame
  <1>5. CASE StartPipeline
    BY <1>5 DEF StartPipeline
  <1>6. ASSUME NEW e \in Event, CommitFiling(e) PROVE CalibratedBeforeDecision'
    BY <1>6 DEF CommitFiling
  <1>7. ASSUME NEW t \in transactions, RecoverReceipt(t) PROVE CalibratedBeforeDecision'
    BY <1>7 DEF RecoverReceipt
  <1>8. CASE RecoveryDone
    BY <1>8 DEF RecoveryDone
  <1>9. ASSUME NEW r \in receipts, ReconcileReceipt(r) PROVE CalibratedBeforeDecision'
    BY <1>9 DEF ReconcileReceipt
  <1>10. CASE Classify
    BY <1>10 DEF Classify
  <1>11. CASE AcknowledgeStale
    BY <1>11 DEF AcknowledgeStale
  <1>12. CASE WriteTransaction
    BY <1>12 DEF WriteTransaction
  <1>13. CASE Evaluate
    BY <1>13 DEF Evaluate
  <1>14. ASSUME NEW s \in Strategy, CheckpointState(s) PROVE CalibratedBeforeDecision'
    BY <1>14 DEF CheckpointState, SaveStateFile
  <1>15. CASE ExecuteOrders
    <2>1. \A b \in DecidedBatches' : b \in DecidedBatches \/ b = CurrentBatch
      BY <1>15, ExecutedBatches
    <2>2. \A b \in DecidedBatches : \E r \in receipts' : r.batch = b
      BY <1>15 DEF ExecuteOrders
    <2>3. \A s \in Strategy : stateTag'[s].kind # "none"
                              /\ stateTag'[s].batch = CurrentBatch
      BY <1>15 DEF ExecuteOrders
    <2> QED
      BY <1>15, <2>1, <2>2, <2>3 DEF ExecuteOrders
  <1>16. CASE WriteCommit
    <2>1. DecidedBatches' = DecidedBatches \cup {CurrentBatch}
      BY <1>16, CommittedBatches
    <2>2. \A s \in Strategy : stateTag[s].kind # "none" /\ stateTag[s].batch = CurrentBatch
      BY <1>16 DEF WriteCommit
    <2>3. stateTag' = stateTag /\ receipts' = receipts
      BY <1>16 DEF WriteCommit
    <2>4. CalibratedBeforeDecision
      OBVIOUS
    <2> HIDE DEF DecidedBatches, CurrentBatch
    <2> QED
      BY <2>1, <2>2, <2>3, <2>4
  <1>17. ASSUME NEW s \in Strategy, SaveState(s) PROVE CalibratedBeforeDecision'
    BY <1>17 DEF SaveState, SaveStateFile
  <1>18. CASE WriteReceipt
    <2>1. DecidedBatches' = DecidedBatches /\ stateTag' = stateTag
      BY <1>18 DEF WriteReceipt
    <2>2. receipts \subseteq receipts'
      BY <1>18 DEF WriteReceipt
    <2>3. \A b : Receipted(b) => (Receipted(b))'
      BY <2>2
    <2>4. CalibratedBeforeDecision
      OBVIOUS
    <2> HIDE DEF Receipted, DecidedBatches
    <2> QED
      BY <2>1, <2>3, <2>4
  <1>19. CASE Acknowledge
    BY <1>19 DEF Acknowledge
  <1>20. CASE AdvanceSession
    BY <1>20 DEF AdvanceSession
  <1>21. ASSUME NEW s \in Strategy, SetChampion(s) PROVE CalibratedBeforeDecision'
    BY <1>21 DEF SetChampion
  <1> QED
    BY NextCases, <1>1, <1>2, <1>3, <1>4, <1>5, <1>6, <1>7, <1>8, <1>9, <1>10,
       <1>11, <1>12, <1>13, <1>14, <1>15, <1>16, <1>17, <1>18, <1>19, <1>20,
       <1>21

\* The completed tag comes after the last audit.
LEMMA HonestCompletionStep ==
    ASSUME IInv, Next
    PROVE  HonestCompletion'
  <1> USE DEF IInv, TypeOK, CycleInvariant, Safe, HonestCompletion,
              AuditOrder, StateTag, Committed, CurrentBatch, Goto, Forget,
              Disturb, world, ledger, audits, durable, memory, AfterGuard,
              BeforeBroker, Classified, Deciding, Publishing
  <1>1. CASE Returning
    BY <1>1, ReturningFrame
  <1>2. CASE Passing
    BY <1>2, PassingFrame
  <1>3. CASE Settling
    BY <1>3, SettlingFrame
  <1>4. CASE Auditing
    BY <1>4, AuditingFrame
  <1>5. CASE StartPipeline
    BY <1>5 DEF StartPipeline
  <1>6. ASSUME NEW e \in Event, CommitFiling(e) PROVE HonestCompletion'
    BY <1>6 DEF CommitFiling
  <1>7. ASSUME NEW t \in transactions, RecoverReceipt(t) PROVE HonestCompletion'
    BY <1>7 DEF RecoverReceipt
  <1>8. CASE RecoveryDone
    BY <1>8 DEF RecoveryDone
  <1>9. ASSUME NEW r \in receipts, ReconcileReceipt(r) PROVE HonestCompletion'
    BY <1>9 DEF ReconcileReceipt
  <1>10. CASE Classify
    BY <1>10 DEF Classify
  <1>11. CASE AcknowledgeStale
    BY <1>11 DEF AcknowledgeStale
  <1>12. CASE WriteTransaction
    BY <1>12 DEF WriteTransaction
  <1>13. CASE Evaluate
    BY <1>13 DEF Evaluate
  <1>14. ASSUME NEW s \in Strategy, CheckpointState(s) PROVE HonestCompletion'
    BY <1>14 DEF CheckpointState, SaveStateFile
  <1>15. CASE ExecuteOrders
    BY <1>15 DEF ExecuteOrders, ExitedFrom
  <1>16. CASE WriteCommit
    BY <1>16 DEF WriteCommit
  <1>17. ASSUME NEW s \in Strategy, SaveState(s) PROVE HonestCompletion'
    BY <1>17 DEF SaveState, SaveStateFile
  <1>18. CASE WriteReceipt
    BY <1>18 DEF WriteReceipt
  <1>19. CASE Acknowledge
    BY <1>19 DEF Acknowledge
  <1>20. CASE AdvanceSession
    BY <1>20 DEF AdvanceSession
  <1>21. ASSUME NEW s \in Strategy, SetChampion(s) PROVE HonestCompletion'
    BY <1>21 DEF SetChampion
  <1> QED
    BY NextCases, <1>1, <1>2, <1>3, <1>4, <1>5, <1>6, <1>7, <1>8, <1>9, <1>10,
       <1>11, <1>12, <1>13, <1>14, <1>15, <1>16, <1>17, <1>18, <1>19, <1>20,
       <1>21

-----------------------------------------------------------------------------
(* The theorems.                                                           *)

LEMMA InvInit == Init => IInv
  <1> SUFFICES ASSUME Init PROVE IInv
    OBVIOUS
  <1>1. TypeOK /\ Loaded
    BY TypeInit DEF TypeInv
  <1>2. pc = "idle" /\ DecidedBatches = {}
    BY DEF Init, DecidedBatches
  <1>3. Horizon /\ Selection /\ Ownership /\ AuditOrder
        /\ Unpublished /\ Allocated /\ Reconciled
    BY <1>2 DEF Init, Horizon, Selection, Ownership, AuditOrder, Unpublished,
                Allocated, Reconciled, AfterGuard, BeforeBroker, Classified, Deciding,
                Publishing
  <1>4. Safe
    BY <1>2 DEF Init, Safe, NoEventLost, OneOutcome, ReceiptMatchesLedger,
                CalibratedBeforeDecision, HonestCompletion
  <1> QED
    BY <1>1, <1>3, <1>4 DEF IInv, CycleInvariant

LEMMA InvStep ==
    ASSUME IInv, [Next]_vars
    PROVE  IInv'
  <1>1. TypeInv'
    BY TypeStep DEF IInv, CycleInvariant, TypeInv
  <1>2. CASE Next
    BY <1>1, <1>2, HorizonStep, SelectionStep, OwnershipStep, AuditOrderStep,
       UnpublishedStep, AllocatedStep, ReconciledStep, NoEventLostStep, OneOutcomeStep,
       ReceiptMatchesLedgerStep, CalibratedBeforeDecisionStep,
       HonestCompletionStep
       DEF IInv, CycleInvariant, Safe, TypeInv
  <1>3. CASE UNCHANGED vars
    <2> USE <1>3 DEF vars, world, durable, ledger, audits, memory
    <2>1. Horizon' /\ Selection' /\ Ownership' /\ AuditOrder'
      BY DEF IInv, CycleInvariant, Horizon, Selection, Ownership, AuditOrder,
             CurrentBatch, Receipted, Committed
    <2>2. Unpublished' /\ Allocated' /\ Reconciled'
      BY DEF IInv, CycleInvariant, Unpublished, Allocated, Reconciled,
             CurrentBatch, Receipted, DecidedBatches, OccupiedCompanies
    <2>3. Safe'
      BY DEF IInv, Safe, NoEventLost, OneOutcome, ReceiptMatchesLedger,
             CalibratedBeforeDecision, HonestCompletion, Receipted, Committed,
             DecidedBatches
    <2> QED
      BY <1>1, <2>1, <2>2, <2>3 DEF IInv, CycleInvariant, TypeInv
  <1> QED
    BY <1>2, <1>3

\* The strengthening holds in every reachable state.
THEOREM InvariantCorrect == Spec => []IInv
  BY InvInit, InvStep, PTL DEF Spec

\* No crash, market failure or rejected guard between two of the cycle's writes
\* makes a polled event disappear without a receipt or a stale audit line.
THEOREM NothingLost == Spec => []NoEventLost
  <1>1. IInv => NoEventLost
    BY DEF IInv, Safe
  <1> QED
    BY InvariantCorrect, <1>1, PTL

\* No event is decided twice, and none is both decided and written off.
THEOREM OutcomeUnique == Spec => []OneOutcome
  <1>1. IInv => OneOutcome
    BY DEF IInv, Safe
  <1> QED
    BY InvariantCorrect, <1>1, PTL

\* Receipts and ledger agree about every batch, recovered ones included.
THEOREM ReceiptsFaithful == Spec => []ReceiptMatchesLedger
  <1>1. IInv => ReceiptMatchesLedger
    BY DEF IInv, Safe
  <1> QED
    BY InvariantCorrect, <1>1, PTL

\* Calibration is durable before the decision it led to, for every plugin.
THEOREM CalibrationDurable == Spec => []CalibratedBeforeDecision
  <1>1. IInv => CalibratedBeforeDecision
    BY DEF IInv, Safe
  <1> QED
    BY InvariantCorrect, <1>1, PTL

\* A strategy's completed tag implies the sidecar and the three audits.
THEOREM CompletionHonest == Spec => []HonestCompletion
  <1>1. IInv => HonestCompletion
    BY DEF IInv, Safe
  <1> QED
    BY InvariantCorrect, <1>1, PTL

\* A batch reaches the market check only if it has left no trace: its events
\* are pending, and every decided or audited batch has been reconciled.
THEOREM EvaluatedOnce == Spec => []NeverEvaluatedTwice
  <1>1. ASSUME IInv PROVE NeverEvaluatedTwice
    <2> SUFFICES ASSUME pc \in {"sync", "prepare", "settle", "evaluate", "checkpoint"},
                        selected # {}
                 PROVE  /\ CurrentBatch \notin DecidedBatches
                        /\ CurrentBatch \notin engineAudit \cup diagnostics \cup shadowAudit
                        /\ ~ Receipted(CurrentBatch)
      BY DEF NeverEvaluatedTwice
    <2>1. Unpublished /\ Reconciled /\ Selection /\ AuditOrder
      BY <1>1 DEF IInv, CycleInvariant
    <2>2. pc \in Classified \cap BeforeBroker
      BY DEF Classified, BeforeBroker
    <2>3. selected \subseteq queue /\ CurrentBatch.events = selected
      BY <2>1, <2>2 DEF Selection, CurrentBatch
    <2>4. CurrentBatch \notin DecidedBatches
      BY <2>1, <2>2, <2>3, DecidedNotPending
    <2>5. ~ Receipted(CurrentBatch)
      BY <2>1, <2>2, <2>3 DEF Reconciled, Receipted
    <2>6. ~ Committed(CurrentBatch)
      BY <2>4 DEF Committed, DecidedBatches
    <2> QED
      BY <2>1, <2>4, <2>5, <2>6 DEF AuditOrder
  <1> QED
    BY InvariantCorrect, <1>1, PTL

-----------------------------------------------------------------------------
(* The reservation of the slots: positions and pending BUYs never exceed   *)
(* one per company nor the slots, for every number of companies, sessions  *)
(* and slots.  The invariant is Reserved: the entries that Evaluate        *)
(* allocates are counted against what was held then, and nothing joins it  *)
(* before the broker call.                                                 *)

\* A set of orders with at most one per company is no larger than the set of
\* companies it occupies.
LEMMA OnePerCompany ==
    ASSUME NEW S \in SUBSET Order,
           \A o, p \in S : o.company = p.company => o = p
    PROVE  /\ IsFiniteSet(S)
           /\ Cardinality(S) <= Cardinality({o.company : o \in S})
  <1> DEFINE C == {o.company : o \in S}
             pick == [c \in C |-> CHOOSE o \in S : o.company = c]
  <1>1. IsFiniteSet(C)
    <2>1. C \in SUBSET Company
      BY DEF Order
    <2> QED
      BY <2>1, CompanyAssumption, FS_Subset
  <1>2. \A c \in C : pick[c] \in S /\ pick[c].company = c
    OBVIOUS
  <1>3. \A o \in S : o.company \in C /\ pick[o.company] = o
    BY <1>2
  <1>4. pick \in Surjection(C, S)
    BY <1>2, <1>3 DEF Surjection
  <1> QED
    BY <1>1, <1>4, FS_Surjection

\* Settlements and exits only take orders out of what is held and reserved.
LEMMA SettlingShrinks ==
    ASSUME Settling
    PROVE  /\ positions' \cup waiting' \subseteq positions \cup waiting
           /\ pc' # "checkpoint"
  BY DEF Settling, SettleLifecycle, ExitLifecycle, SettleCycle, Settle,
         ExitedFrom, ledger, Goto

LEMMA HeldType ==
    ASSUME TypeOK
    PROVE  /\ positions \cup waiting \in SUBSET Order
           /\ OccupiedCompanies = {o.company : o \in positions \cup waiting}
  BY DEF TypeOK, OccupiedCompanies

\* A smaller set of orders is still reserved.
LEMMA Shrink ==
    ASSUME NEW S \in SUBSET Order, NEW T \in SUBSET S,
           \A o, p \in S : o.company = p.company => o = p,
           Cardinality(S) <= MaxOpenPositions
    PROVE  /\ \A o, p \in T : o.company = p.company => o = p
           /\ Cardinality(T) <= MaxOpenPositions
  <1>1. IsFiniteSet(S)
    BY OnePerCompany
  <1>2. /\ Cardinality(T) <= Cardinality(S)
        /\ IsFiniteSet(T)
    BY <1>1, FS_Subset
  <1>3. Cardinality(S) \in Nat /\ Cardinality(T) \in Nat
    BY <1>1, <1>2, FS_CardinalityType
  <1> QED
    BY <1>2, <1>3, BoundsAssumption

\* The evaluated entries fit into the free slots, one per free company.
LEMMA EvaluateReserves ==
    ASSUME IInv, EntryReservation, Evaluate
    PROVE  LET S == positions' \cup waiting' \cup entries'
           IN  /\ \A o, p \in S : o.company = p.company => o = p
               /\ Cardinality(S) <= MaxOpenPositions
  <1> DEFINE held == positions \cup waiting
             entry(c) == [company |-> c, on |-> target, strategy |-> active,
                          batch |-> CurrentBatch]
  <1>1. PICK bought \in SUBSET ({CompanyOf[e] : e \in selected} \ OccupiedCompanies) :
            /\ \/ bought = {}
               \/ Cardinality(bought) + Cardinality(OccupiedCompanies)
                     <= MaxOpenPositions
            /\ entries' = {entry(c) : c \in bought}
    BY DEF Evaluate
  <1>2. positions' = positions /\ waiting' = waiting
    BY DEF Evaluate, durable, ledger
  <1>3. \A o, p \in held : o.company = p.company => o = p
    BY DEF EntryReservation
  <1>4. held \in SUBSET Order /\ OccupiedCompanies = {o.company : o \in held}
    BY HeldType DEF IInv
  <1>5. \A o, p \in held \cup entries' : o.company = p.company => o = p
    BY <1>1, <1>3, <1>4
  <1>6. CASE bought = {}
    <2>1. entries' = {}
      BY <1>1, <1>6
    <2>2. positions' \cup waiting' \cup entries' = held
      BY <1>2, <2>1
    <2> QED
      BY <1>2, <1>5, <2>2 DEF EntryReservation
  <1>7. CASE bought # {}
    <2>1. TypeOK'
      BY TypeStep DEF IInv, CycleInvariant, TypeInv, Next, PipelineStep
    <2>2. entries' \in SUBSET Order
      BY <2>1 DEF TypeOK
    <2>3. {o.company : o \in entries'} = bought
      <3>1. \A c \in bought : entry(c) \in entries' /\ entry(c).company = c
        BY <1>1
      <3>2. \A o \in entries' : \E c \in bought : o = entry(c)
        BY <1>1
      <3> HIDE DEF entry
      <3> QED
        BY <3>1, <3>2
    <2>4. IsFiniteSet(entries') /\ Cardinality(entries') <= Cardinality(bought)
      BY <1>5, <2>2, <2>3, OnePerCompany
    <2>5. /\ IsFiniteSet(held)
          /\ Cardinality(held) <= Cardinality(OccupiedCompanies)
      BY <1>3, <1>4, OnePerCompany
    <2>6. IsFiniteSet(bought) /\ IsFiniteSet(OccupiedCompanies)
      <3>1. bought \in SUBSET Company /\ OccupiedCompanies \in SUBSET Company
        BY <1>4, <2>2, <2>3 DEF Order
      <3> QED
        BY <3>1, CompanyAssumption, FS_Subset
    <2>7. /\ Cardinality(bought) \in Nat
          /\ Cardinality(OccupiedCompanies) \in Nat
          /\ Cardinality(entries') \in Nat
          /\ Cardinality(held) \in Nat
          /\ Cardinality(held \cap entries') \in Nat
      <3>1. IsFiniteSet(held \cap entries')
        BY <2>5, FS_Subset, held \cap entries' \in SUBSET held
      <3> QED
        BY <2>4, <2>5, <2>6, <3>1, FS_CardinalityType
    <2>8. Cardinality(held \cup entries')
            = Cardinality(held) + Cardinality(entries')
                - Cardinality(held \cap entries')
      BY <2>4, <2>5, FS_Union
    <2>9. Cardinality(bought) + Cardinality(OccupiedCompanies) <= MaxOpenPositions
      BY <1>1, <1>7
    <2>10. Cardinality(held \cup entries') <= MaxOpenPositions
      BY <2>4, <2>5, <2>7, <2>8, <2>9, BoundsAssumption
    <2> QED
      BY <1>2, <1>5, <2>10
  <1> QED
    BY <1>6, <1>7

\* Every other step leaves the ledger alone, except the broker call, which
\* books the entries that Evaluate counted.
LEMMA ReservedStep ==
    ASSUME IInv, Reserved, Next
    PROVE  Reserved'
  <1> DEFINE held == positions \cup waiting
  <1>1. held \in SUBSET Order /\ entries \subseteq Order
    BY DEF IInv, TypeOK
  <1>2. ASSUME positions' \cup waiting' \subseteq held, pc' # "checkpoint"
        PROVE  Reserved'
    BY <1>1, <1>2, Shrink DEF Reserved, EntryReservation
  <1> USE DEF world, ledger, audits, durable, memory, Goto, Forget
  <1>3. CASE Returning
    BY <1>2, <1>3, ReturningFrame
  <1>4. CASE Passing
    BY <1>2, <1>4, PassingFrame
  <1>5. CASE Settling
    BY <1>2, <1>5, SettlingShrinks
  <1>6. CASE Auditing
    BY <1>2, <1>6, AuditingFrame
  <1>7. CASE StartPipeline
    BY <1>2, <1>7 DEF StartPipeline
  <1>8. ASSUME NEW e \in Event, CommitFiling(e) PROVE Reserved'
    BY <1>2, <1>8 DEF CommitFiling
  <1>9. ASSUME NEW t \in transactions, RecoverReceipt(t) PROVE Reserved'
    BY <1>2, <1>9 DEF RecoverReceipt
  <1>10. CASE RecoveryDone
    BY <1>2, <1>10 DEF RecoveryDone
  <1>11. ASSUME NEW r \in receipts, ReconcileReceipt(r) PROVE Reserved'
    BY <1>2, <1>11 DEF ReconcileReceipt
  <1>12. CASE Classify \/ AcknowledgeStale
    BY <1>2, <1>12 DEF Classify, AcknowledgeStale
  <1>13. CASE WriteTransaction
    BY <1>2, <1>13 DEF WriteTransaction
  <1>14. CASE Evaluate
    <2>1. positions' = positions /\ waiting' = waiting
      BY <1>14 DEF Evaluate
    <2> QED
      BY <1>14, <2>1, EvaluateReserves DEF Reserved, EntryReservation
  <1>15. ASSUME NEW s \in Strategy, CheckpointState(s) PROVE Reserved'
    BY <1>15 DEF CheckpointState, SaveStateFile, Reserved, EntryReservation
  <1>16. CASE ExecuteOrders
    <2> DEFINE S == held \cup entries
    <2>1. S \in SUBSET Order
      BY <1>1
    <2>2. /\ \A o, p \in S : o.company = p.company => o = p
          /\ Cardinality(S) <= MaxOpenPositions
      BY <1>16 DEF ExecuteOrders, Reserved
    <2>3. positions' \cup waiting' \in SUBSET S /\ pc' # "checkpoint"
      BY <1>16 DEF ExecuteOrders, ExitedFrom
    <2> QED
      BY <2>1, <2>2, <2>3, Shrink DEF Reserved, EntryReservation
  <1>17. CASE WriteCommit
    BY <1>2, <1>17 DEF WriteCommit
  <1>18. ASSUME NEW s \in Strategy, SaveState(s) PROVE Reserved'
    BY <1>2, <1>18 DEF SaveState, SaveStateFile
  <1>19. CASE WriteReceipt \/ Acknowledge
    BY <1>2, <1>19 DEF WriteReceipt, Acknowledge
  <1>20. CASE AdvanceSession
    BY <1>20 DEF AdvanceSession, Reserved, EntryReservation
  <1>21. ASSUME NEW s \in Strategy, SetChampion(s) PROVE Reserved'
    BY <1>2, <1>21 DEF SetChampion, Disturb
  <1> QED
    BY NextCases, <1>3, <1>4, <1>5, <1>6, <1>7, <1>8, <1>9, <1>10, <1>11,
       <1>12, <1>13, <1>14, <1>15, <1>16, <1>17, <1>18, <1>19, <1>20, <1>21

\* Positions and pending BUYs respect the slots and the one-per-company rule
\* over any series of batches, settlements, crashes and champion changes.
THEOREM ReservationCorrect == Spec => []EntryReservation
  <1>1. Init => Reserved
    BY FS_EmptySet, BoundsAssumption DEF Init, Reserved, EntryReservation
  <1>2. IInv /\ Reserved /\ [Next]_vars => Reserved'
    <2>1. ASSUME Reserved, UNCHANGED vars PROVE Reserved'
      BY <2>1 DEF vars, durable, ledger, memory, Reserved, EntryReservation
    <2> QED
      BY <2>1, ReservedStep
  <1>3. Reserved => EntryReservation
    BY DEF Reserved
  <1> QED
    BY InvariantCorrect, <1>1, <1>2, <1>3, PTL DEF Spec

-----------------------------------------------------------------------------
(* CurrentCycle implements EventDecision: every step of the pipeline maps  *)
(* to one step of the abstract promise or changes nothing in it.           *)
(*                                                                         *)
(*   CommitFiling                    Arrive                                *)
(*   ExecuteOrders with entries      Decide                                *)
(*   WriteCommit without entries     Decide with nothing bought            *)
(*   Classify                        Miss                                  *)
(*   AcknowledgeStale, Acknowledge,                                        *)
(*   ReconcileReceipt                Retire                                *)

absOutcome == [e \in Event |-> OutcomeOf(e)]
absEntered == {[company |-> o.company, on |-> o.on] : o \in submitted}

\* A step of the promise, or one that leaves it as it is.
AbsStep == \/ Decision!Next
           \/ UNCHANGED <<intended, absOutcome, queue, absEntered>>

\* The abstract state is a function of these four.
LEMMA SameOutcome ==
    ASSUME UNCHANGED <<intended, disposed>>, DecidedBatches' = DecidedBatches
    PROVE  absOutcome' = absOutcome
  BY DEF absOutcome, OutcomeOf, Decided

LEMMA Stutter ==
    ASSUME UNCHANGED <<intended, queue, disposed, submitted>>,
           DecidedBatches' = DecidedBatches
    PROVE  AbsStep
  BY SameOutcome DEF absEntered, AbsStep

\* Retiring is all that happens to the abstract state when decided or
\* disposed events leave the queue.
LEMMA RetireStep ==
    ASSUME NEW done \in SUBSET Event,
           \A e \in done : Decided(e) \/ e \in disposed,
           queue' = queue \ done,
           UNCHANGED <<intended, disposed, submitted, commits>>
    PROVE  AbsStep
  <1>1. UNCHANGED <<absOutcome, absEntered>>
    BY SameOutcome DEF DecidedBatches, absEntered
  <1>2. CASE done = {}
    BY <1>1, <1>2 DEF AbsStep
  <1>3. CASE done # {}
    <2>1. \A e \in done : absOutcome[e] \in {"decided", "missed"}
      BY DEF absOutcome, OutcomeOf
    <2>2. Decision!Retire(done)
      BY <1>1, <1>3, <2>1 DEF Decision!Retire, absOutcome, absEntered
    <2> QED
      BY <2>2, Zenon DEF AbsStep, Decision!Next
  <1> QED
    BY <1>2, <1>3

\* What is pending in the abstract state.
LEMMA PendingOutcome ==
    ASSUME NEW e \in Event, intended[e] # 0, ~ Decided(e), e \notin disposed
    PROVE  absOutcome[e] = "pending"
  BY DEF absOutcome, OutcomeOf

\* Deciding the batch in memory, by orders or by a sidecar without orders.
LEMMA DecideStep ==
    ASSUME TypeOK, selected # {}, target # 0,
           \A e \in selected : /\ intended[e] = target
                               /\ ~ Decided(e)
                               /\ e \notin disposed,
           NEW bought \in SUBSET {CompanyOf[e] : e \in selected},
           \A p \in submitted : ~ (p.company \in bought /\ p.on = target),
           DecidedBatches' = DecidedBatches \cup {CurrentBatch},
           absEntered' = absEntered \cup
               {[company |-> c, on |-> target] : c \in bought},
           UNCHANGED <<intended, queue, disposed>>
    PROVE  Decision!Next
  <1> DEFINE orders == {[company |-> c, on |-> target] : c \in bought}
  <1>1. selected \in SUBSET Event
    BY DEF TypeOK
  <1>2. {intended[e] : e \in selected} = {target}
    OBVIOUS
  <1>3. orders \in SUBSET [company : {CompanyOf[e] : e \in selected},
                           on : {intended[e] : e \in selected}]
    BY <1>2
  <1>4. {CompanyOf[e] : e \in selected} \subseteq Company
    BY <1>1, CompanyOfAssumption
  <1>5. orders \in SUBSET [company : Company,
                           on : {intended[e] : e \in selected}]
    BY <1>3, <1>4
  <1>6. orders \cap absEntered = {}
    BY DEF absEntered
  <1>7. \A e \in selected : absOutcome[e] = "pending"
    BY <1>1, PendingOutcome
  <1>8. absOutcome' = [e \in Event |-> IF e \in selected THEN "decided"
                                       ELSE absOutcome[e]]
    <2>1. CurrentBatch.events = selected
      BY DEF CurrentBatch
    <2>2. \A e \in Event : Decided(e)' <=> Decided(e) \/ e \in selected
      BY <2>1 DEF Decided
    <2> QED
      BY <2>2 DEF absOutcome, OutcomeOf
  <1>9. ASSUME NEW b, b = orders PROVE Decision!Next
    <2>1. Decision!Decide(selected, b)
      BY <1>3, <1>6, <1>7, <1>8, <1>9 DEF Decision!Decide, absOutcome, absEntered
    <2>2. b \in SUBSET [company : Company, on : {intended[e] : e \in selected}]
      BY <1>5, <1>9
    <2>3. \E batch \in SUBSET Event :
             \E c \in SUBSET [company : Company, on : {intended[e] : e \in batch}] :
                 Decision!Decide(batch, c)
      BY <1>1, <2>1, <2>2, Zenon
    <2> QED
      BY <2>3, Zenon DEF Decision!Next
  <1> QED
    BY <1>9

-----------------------------------------------------------------------------
(* One lemma per action that maps to a step of the promise.                *)

LEMMA ArriveStep ==
    ASSUME IInv, NEW e \in Event, CommitFiling(e)
    PROVE  Decision!Arrive(e)
  <1>1. intended[e] = 0 /\ ~ Decided(e) /\ e \notin disposed
    <2>1. \A b \in DecidedBatches : b.on # 0
      BY DecidedType DEF IInv, Batch, Session
    <2> QED
      BY <2>1 DEF IInv, CycleInvariant, Reconciled, Horizon, CommitFiling, Decided
  <1>2. PICK s \in 1..(session + 1) : intended' = [intended EXCEPT ![e] = s]
    BY DEF CommitFiling
  <1>3. intended'[e] = s /\ s \in Nat \ {0}
    BY <1>2 DEF IInv, TypeOK, Session
  <1>4. /\ UNCHANGED <<disposed, submitted, commits>>
        /\ queue' = queue \cup {e}
    BY DEF CommitFiling, ledger
  <1>5. \A f \in Event : Decided(f)' <=> Decided(f)
    BY <1>4 DEF Decided, DecidedBatches
  <1>6. absOutcome[e] = "unseen"
    BY <1>1 DEF absOutcome, OutcomeOf
  <1>7. absOutcome' = [absOutcome EXCEPT ![e] = "pending"]
    <2>1. \A f \in Event : f # e => intended'[f] = intended[f]
      BY <1>2 DEF IInv, TypeOK
    <2>2. OutcomeOf(e)' = "pending"
      BY <1>1, <1>3, <1>4, <1>5 DEF OutcomeOf
    <2>3. \A f \in Event : f # e => OutcomeOf(f)' = OutcomeOf(f)
      BY <1>4, <1>5, <2>1 DEF OutcomeOf
    <2> QED
      BY <2>2, <2>3 DEF absOutcome
  <1>8. absEntered' = absEntered
    BY <1>4 DEF absEntered
  <1> QED
    BY <1>2, <1>3, <1>4, <1>6, <1>7, <1>8
       DEF Decision!Arrive, absOutcome, absEntered

LEMMA MissStep ==
    ASSUME IInv, Classify
    PROVE  AbsStep
  <1> DEFINE late == disposed' \ disposed
  <1>1. /\ UNCHANGED <<intended, queue, submitted, commits>>
        /\ late \subseteq queue
        /\ disposed' = disposed \cup late
    BY DEF Classify, world, ledger
  <1>2. DecidedBatches' = DecidedBatches
    BY <1>1 DEF DecidedBatches
  <1>3. CASE late = {}
    BY <1>1, <1>2, <1>3, Stutter
  <1>4. CASE late # {}
    <2>1. \A b \in DecidedBatches : b.events \cap queue = {}
      <3>1. pc \in (Classified \cup {"classify"}) \cap BeforeBroker
        BY DEF Classify, Goto, BeforeBroker
      <3> QED
        BY <3>1, DecidedNotPending DEF IInv, CycleInvariant
    <2>2. late \in SUBSET Event
      BY <1>1 DEF IInv, TypeOK
    <2>3. \A e \in late : intended[e] # 0 /\ ~ Decided(e) /\ e \notin disposed
      BY <1>1, <2>1 DEF IInv, CycleInvariant, Selection, Decided
    <2>4. \A e \in late : absOutcome[e] = "pending"
      BY <2>2, <2>3, PendingOutcome
    <2>5. \A e \in Event : Decided(e)' <=> Decided(e)
      BY <1>2 DEF Decided
    <2>6. absOutcome' = [e \in Event |-> IF e \in late THEN "missed"
                                         ELSE absOutcome[e]]
      BY <1>1, <2>3, <2>5 DEF absOutcome, OutcomeOf
    <2>7. Decision!Miss(late)
      BY <1>1, <1>4, <2>4, <2>6 DEF Decision!Miss, absOutcome, absEntered
    <2> QED
      BY <2>2, <2>7, Zenon DEF AbsStep, Decision!Next
  <1> QED
    BY <1>3, <1>4

\* The broker call decides the batch when it books entries.
LEMMA ExecuteStep ==
    ASSUME IInv, ExecuteOrders
    PROVE  AbsStep
  <1> DEFINE bought == {o.company : o \in entries}
  <1>1. /\ UNCHANGED <<intended, queue, disposed, commits>>
        /\ submitted' = submitted \cup entries
    BY DEF ExecuteOrders, world
  <1>2. pc = "checkpoint"
    BY DEF ExecuteOrders, Goto
  <1>3. CASE entries = {}
    BY <1>1, <1>3, Stutter DEF DecidedBatches
  <1>4. CASE entries # {}
    <2>1. \A o \in entries : o.batch = CurrentBatch /\ o.on = target
      BY <1>2 DEF IInv, CycleInvariant, Ownership
    <2>2. DecidedBatches' = DecidedBatches \cup {CurrentBatch}
      BY <1>1, <1>4, <2>1 DEF DecidedBatches
    <2>3. \A e \in selected : intended[e] = target /\ e \notin disposed
      BY <1>2 DEF IInv, CycleInvariant, Loaded, Session, Selection, Horizon,
                    Classified
    <2>4. \A e \in selected : ~ Decided(e)
      <3>1. \A b \in DecidedBatches : b.events \cap queue = {}
        BY <1>2, DecidedNotPending
           DEF IInv, CycleInvariant, Classified, BeforeBroker
      <3>2. selected \subseteq queue
        BY <1>2 DEF IInv, CycleInvariant, Selection, Classified
      <3> QED
        BY <3>1, <3>2 DEF Decided
    <2>5. selected # {} /\ target # 0
      BY <1>2 DEF IInv, CycleInvariant, Selection, Loaded, Deciding, Session
    <2>6. bought \in SUBSET {CompanyOf[e] : e \in selected}
      BY <1>2 DEF IInv, CycleInvariant, Allocated
    <2>7. \A p \in submitted : ~ (p.company \in bought /\ p.on = target)
      <3> SUFFICES ASSUME NEW p \in submitted, NEW o \in entries,
                          p.company = o.company, p.on = target
                   PROVE  FALSE
        OBVIOUS
      <3>1. p \in waiting \/ p \in completed
        BY DEF IInv, CycleInvariant, Ownership
      <3>2. p \notin waiting
        BY <1>2 DEF IInv, CycleInvariant, Allocated, OccupiedCompanies
      <3>3. p \notin completed
        BY <1>2 DEF IInv, CycleInvariant, Horizon, AfterGuard, Deciding,
                    Loaded, Session
      <3> QED
        BY <3>1, <3>2, <3>3
    <2>8. absEntered' = absEntered \cup
              {[company |-> c, on |-> target] : c \in bought}
      BY <1>1, <2>1 DEF absEntered
    <2> HIDE DEF bought
    <2> QED
      BY <1>1, <2>2, <2>3, <2>4, <2>5, <2>6, <2>7, <2>8, DecideStep DEF IInv, AbsStep
  <1> QED
    BY <1>3, <1>4

\* The sidecar decides the batch when the broker call booked nothing.
LEMMA CommitStep ==
    ASSUME IInv, WriteCommit
    PROVE  AbsStep
  <1>1. /\ UNCHANGED <<intended, queue, disposed, submitted>>
        /\ DecidedBatches' = DecidedBatches \cup {CurrentBatch}
    <2> DEFINE new == [batch |-> CurrentBatch, orders |-> entries]
    <2>1. commits' = commits \cup {new} /\ new.batch = CurrentBatch
      BY DEF WriteCommit
    <2>2. UNCHANGED <<intended, queue, disposed, submitted>>
      BY DEF WriteCommit, world, ledger
    <2> HIDE DEF new
    <2> QED
      BY <2>1, <2>2 DEF DecidedBatches
  <1>2. pc = "commit"
    BY DEF WriteCommit, Goto
  <1>3. CASE CurrentBatch \in DecidedBatches
    BY <1>1, <1>3, Stutter
  <1>4. CASE CurrentBatch \notin DecidedBatches
    <2>1. pc \in Publishing /\ pc \in Classified /\ pc \in Deciding
      BY <1>2 DEF Publishing, Classified, Deciding
    <2>2. \A e \in selected : intended[e] = target /\ e \notin disposed
      BY <2>1, <1>2 DEF IInv, CycleInvariant, Loaded, Session, Selection, Horizon
    <2>3. selected \subseteq queue /\ selected # {}
      BY <2>1 DEF IInv, CycleInvariant, Selection
    <2>4. target # 0
      BY <1>2 DEF IInv, CycleInvariant, Loaded, Session
    <2>5. \A b \in DecidedBatches : \E r \in receipts : r.batch = b
      BY <1>4, <2>1 DEF IInv, CycleInvariant, Unpublished, Receipted
    <2>6. \A b \in DecidedBatches : b.events \cap queue = {}
      BY <2>1, <2>5 DEF IInv, CycleInvariant, Reconciled
    <2>7. \A e \in selected : ~ Decided(e)
      BY <2>3, <2>6 DEF Decided
    <2>8. absEntered' = absEntered \cup
              {[company |-> c, on |-> target] : c \in {}}
      BY <1>1 DEF absEntered
    <2>9. TypeOK
      BY DEF IInv
    <2>10. ASSUME NEW none, none = {} PROVE Decision!Next
      BY <1>1, <2>2, <2>3, <2>4, <2>7, <2>8, <2>9, <2>10, DecideStep
    <2> QED
      BY <2>10 DEF AbsStep
  <1> QED
    BY <1>3, <1>4

-----------------------------------------------------------------------------
(* Every step.                                                             *)

LEMMA RefinementStep ==
    ASSUME IInv, Next
    PROVE  AbsStep
  <1>1. ASSUME UNCHANGED <<intended, queue, disposed, submitted, commits>>
        PROVE  AbsStep
    BY <1>1, Stutter DEF DecidedBatches
  <1>2. ASSUME NEW done \in SUBSET Event,
               \A e \in done : Decided(e) \/ e \in disposed,
               queue' = queue \ done,
               UNCHANGED <<intended, disposed, submitted, commits>>
        PROVE  AbsStep
    BY <1>2, RetireStep
  <1> USE DEF world, ledger, durable
  <1>3. CASE Returning
    BY <1>1, <1>3, ReturningFrame
  <1>4. CASE Passing
    BY <1>1, <1>4, PassingFrame
  <1>5. CASE Settling
    BY <1>1, <1>5, SettlingFrame
  <1>6. CASE Auditing
    BY <1>1, <1>6, AuditingFrame
  <1>7. CASE StartPipeline \/ RecoveryDone \/ WriteTransaction \/ Evaluate
    BY <1>1, <1>7 DEF StartPipeline, RecoveryDone, WriteTransaction, Evaluate
  <1>8. ASSUME NEW e \in Event, CommitFiling(e) PROVE AbsStep
    BY <1>8, ArriveStep, Zenon DEF AbsStep, Decision!Next
  <1>9. ASSUME NEW t \in transactions, RecoverReceipt(t) PROVE AbsStep
    BY <1>1, <1>9 DEF RecoverReceipt
  <1>10. ASSUME NEW r \in receipts, ReconcileReceipt(r) PROVE AbsStep
    <2>1. r.batch \in DecidedBatches
      BY DEF IInv, CycleInvariant, Reconciled
    <2>2. r.batch.events \in SUBSET Event
      BY <2>1, DecidedType DEF IInv, Batch
    <2>3. \A e \in r.batch.events : Decided(e)
      BY <2>1 DEF Decided
    <2> QED
      BY <1>2, <1>10, <2>2, <2>3 DEF ReconcileReceipt
  <1>11. CASE Classify
    BY <1>11, MissStep
  <1>12. CASE AcknowledgeStale
    <2>1. stale \in SUBSET Event /\ stale \subseteq disposed
      BY <1>12 DEF AcknowledgeStale, Goto, IInv, TypeOK, CycleInvariant, Selection
    <2> QED
      BY <1>2, <1>12, <2>1 DEF AcknowledgeStale
  <1>13. ASSUME NEW s \in Strategy, CheckpointState(s) \/ SaveState(s) PROVE AbsStep
    BY <1>1, <1>13 DEF CheckpointState, SaveState, SaveStateFile
  <1>14. CASE ExecuteOrders
    BY <1>14, ExecuteStep
  <1>15. CASE WriteCommit
    BY <1>15, CommitStep
  <1>16. CASE WriteReceipt
    BY <1>1, <1>16 DEF WriteReceipt
  <1>17. CASE Acknowledge
    <2>1. PICK r \in receipts : r.batch = CurrentBatch
      BY <1>17 DEF Acknowledge, IInv, CycleInvariant, Selection, Receipted
    <2>2. CurrentBatch \in DecidedBatches /\ CurrentBatch.events = selected
      BY <2>1 DEF IInv, CycleInvariant, Reconciled, CurrentBatch
    <2>3. selected \in SUBSET Event /\ \A e \in selected : Decided(e)
      BY <2>2 DEF IInv, TypeOK, Decided
    <2> QED
      BY <1>2, <1>17, <2>3 DEF Acknowledge
  <1>18. CASE AdvanceSession
    BY <1>1, <1>18 DEF AdvanceSession
  <1>19. ASSUME NEW s \in Strategy, SetChampion(s) PROVE AbsStep
    BY <1>1, <1>19 DEF SetChampion, Disturb
  <1> QED
    BY NextCases, <1>3, <1>4, <1>5, <1>6, <1>7, <1>8, <1>9, <1>10, <1>11,
       <1>12, <1>13, <1>14, <1>15, <1>16, <1>17, <1>18, <1>19

\* The files, the recovery scan and the crashes together keep the promise of
\* EventDecision: each event is missed or decided once, with its batch.
THEOREM RefinementCorrect == Spec => ImplementsDecision
  <1>1. Init => Decision!Init
    BY DEF Init, Decision!Init, OutcomeOf, Decided, DecidedBatches
  <1>2. IInv /\ [Next]_vars =>
            [Decision!Next]_<<intended, [e \in Event |-> OutcomeOf(e)], queue,
                {[company |-> o.company, on |-> o.on] : o \in submitted}>>
    <2>1. CASE Next
      BY <2>1, RefinementStep DEF AbsStep, absOutcome, absEntered
    <2>2. CASE UNCHANGED vars
      BY <2>2, Stutter DEF vars, world, durable, ledger, DecidedBatches,
                           AbsStep, absOutcome, absEntered
    <2> QED
      BY <2>1, <2>2
  <1> QED
    BY InvariantCorrect, <1>1, <1>2, PTL DEF Spec, ImplementsDecision, Decision!Spec
=============================================================================
