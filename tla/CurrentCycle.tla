---------------------------- MODULE CurrentCycle ----------------------------
(***************************************************************************)
(* One PAPER pipeline run, from the SEC poll to the acknowledgement of the *)
(* evaluated events, as the sequence of file replacements it performs.     *)
(*                                                                         *)
(* Source: live/run_current_pipeline.py, live/run_current_paper_shadow.py  *)
(* and the stores they write.  Every store is one file, or one file per    *)
(* batch, replaced by NamedTemporaryFile + fsync + os.replace, so a store  *)
(* is one variable and one write is one atomic step.  A process can die    *)
(* between any two steps; what survives is exactly the durable variables.  *)
(* The runtime lock admits one pipeline at a time, so there is one program *)
(* counter.  Any raise between two writes leaves the same files as a crash *)
(* there, and is modelled by Crash unless the code names the error.        *)
(***************************************************************************)
EXTENDS Naturals, FiniteSets

CONSTANTS
    Event,            \* event ids the SEC publishes during a behaviour
    Company,          \* companies those events are about
    Strategy,         \* loaded plugins: one is the champion, the others SHADOW
    CompanyOf,        \* [Event -> Company]
    NoStrategy,       \* value of "active" while no registry is loaded
    MaxSession,       \* bound: XNYS sessions 1..MaxSession
    MaxOpenPositions, \* FixedAllocationPortfolioPolicy.max_open_positions
    MaxDisturbances   \* bound: crashes, market failures, champion changes

ASSUME CompanyAssumption == IsFiniteSet(Company)
ASSUME CompanyOfAssumption == CompanyOf \in [Event -> Company]
ASSUME NoStrategyAssumption == NoStrategy \notin Strategy
ASSUME BoundsAssumption ==
    /\ MaxSession \in Nat \ {0}
    /\ MaxOpenPositions \in Nat
    /\ MaxDisturbances \in Nat

VARIABLES
    \* The world outside the process.
    session,      \* session a cycle started now would trade
    intended,     \* [Event -> session of the event's open]; 0: not yet polled
    champion,     \* champion_strategy_id in the persisted registry
    disturbances, \* disturbances used up, bounded by MaxDisturbances
    \* Durable stores.
    queue,        \* pending ids in current_event_intake.json
    disposed,     \* ids in stale_trigger_dispositions.json
    transactions, \* current_cycle_transactions/batch_*.json
    submitted,    \* paper ledger: submitted BUY orders
    waiting,      \* paper ledger: pending BUY orders
    completed,    \* paper ledger: BUY orders with a final report
    positions,    \* paper ledger: open positions, as the BUY that opened each
    commits,      \* <ledger>_runtime_batch_commits/batch_*.json
    engineAudit,  \* batches with a line in paper_engine_cycles.jsonl
    diagnostics,  \* decision_diagnostics/batch_*.json
    shadowAudit,  \* batches with a line in shadow_evaluations.jsonl
    stateTag,     \* [Strategy -> batch field of strategy_state/<strategy>.json]
    receipts,     \* current_cycle_receipts/batch_*.json
    \* Memory of the running process.
    pc, target, selected, stale, active, entries, saved

world   == <<session, intended, champion, disturbances>>
ledger  == <<submitted, waiting, completed, positions>>
audits  == <<engineAudit, diagnostics, shadowAudit>>
durable == <<queue, disposed, transactions, ledger, commits, audits,
             stateTag, receipts>>
memory  == <<target, selected, stale, active, entries, saved>>
vars    == <<world, durable, pc, memory>>

Session == 1..MaxSession
Batch   == [on : Session, events : SUBSET Event]
Order   == [company : Company, on : Session, strategy : Strategy, batch : Batch]
Transaction == [batch : Batch, champion : Strategy]
Commit      == [batch : Batch, orders : SUBSET Order]
Receipt     == [batch : Batch, champion : Strategy, orders : SUBSET Order]
StateTag    == [kind : {"none"}]
                 \cup [kind : {"evaluated", "completed"}, batch : Batch]
Steps == {"idle", "poll", "settle_due", "exit_due", "guard", "recover",
          "reconcile", "classify", "acknowledge_stale", "sync", "prepare",
          "settle", "evaluate", "checkpoint", "commit", "engine_audit",
          "diagnose", "shadow_audit", "save_state", "acknowledge"}

TypeOK ==
    /\ session \in Session
    /\ intended \in [Event -> 0..MaxSession]
    /\ champion \in Strategy
    /\ disturbances \in 0..MaxDisturbances
    /\ queue \subseteq Event
    /\ disposed \subseteq Event
    /\ transactions \subseteq Transaction
    /\ submitted \subseteq Order
    /\ waiting \subseteq Order
    /\ completed \subseteq Order
    /\ positions \subseteq Order
    /\ commits \subseteq Commit
    /\ engineAudit \subseteq Batch
    /\ diagnostics \subseteq Batch
    /\ shadowAudit \subseteq Batch
    /\ stateTag \in [Strategy -> StateTag]
    /\ receipts \subseteq Receipt
    /\ pc \in Steps
    /\ target \in 0..MaxSession
    /\ selected \subseteq Event
    /\ stale \subseteq Event
    /\ active \in Strategy \cup {NoStrategy}
    /\ entries \subseteq Order
    /\ saved \subseteq Strategy

Init ==
    /\ session = 1
    /\ intended = [e \in Event |-> 0]
    /\ champion \in Strategy
    /\ disturbances = 0
    /\ queue = {} /\ disposed = {} /\ transactions = {}
    /\ submitted = {} /\ waiting = {} /\ completed = {} /\ positions = {}
    /\ commits = {} /\ receipts = {}
    /\ engineAudit = {} /\ diagnostics = {} /\ shadowAudit = {}
    /\ stateTag = [s \in Strategy |-> [kind |-> "none"]]
    /\ pc = "idle"
    /\ target = 0
    /\ selected = {} /\ stale = {} /\ entries = {} /\ saved = {}
    /\ active = NoStrategy

-----------------------------------------------------------------------------
(* Vocabulary of the handlers.                                             *)

\* batch_id(target, ids): the hash of the target session and the sorted ids.
CurrentBatch == [on |-> target, events |-> selected]

Receipted(b) == \E r \in receipts : r.batch = b
Committed(b) == \E c \in commits : c.batch = b

\* order_id hashes strategy, company and execution session, never the batch.
SameOrderId(o, p) ==
    /\ o.company = p.company
    /\ o.on = p.on
    /\ o.strategy = p.strategy

\* The champion BUYs of batch b that the ledger journal holds.
ChampionEntries(b, s) == {o \in submitted : o.batch = b /\ o.strategy = s}

\* Mutant: a company is reserved only once its position is open.
OccupiedByPositions == {o.company : o \in positions}

\* Positions and pending BUYs both reserve their company.
OccupiedCompanies == {o.company : o \in positions \cup waiting}

\* What the process forgets when it returns, raises or dies.
Forget ==
    /\ pc' = "idle"
    /\ target' = 0
    /\ selected' = {} /\ stale' = {} /\ entries' = {} /\ saved' = {}
    /\ active' = NoStrategy

Goto(from, to) ==
    /\ pc = from
    /\ pc' = to

Disturb ==
    /\ disturbances < MaxDisturbances
    /\ disturbances' = disturbances + 1
    /\ UNCHANGED <<session, intended>>

-----------------------------------------------------------------------------
(* Polling, PAPER lifecycle and the session guard.                         *)

\* Mutant: the poll classifies against the session after the next open.
StartPipelineOneAhead ==
    /\ Goto("idle", "poll")
    /\ target' = session + 1
    /\ UNCHANGED <<world, durable, selected, stale, active, entries, saved>>

\* Take the runtime lock; the poll classifies against the session open now.
StartPipeline ==
    /\ Goto("idle", "poll")
    /\ target' = session
    /\ UNCHANGED <<world, durable, selected, stale, active, entries, saved>>

\* commit_filing: the watermark moves and the filing's event becomes pending.
\* A filing published today trades at the next open; one polled late may
\* already be behind the current session.  The last session is left to expiry.
CommitFiling(e) ==
    /\ pc = "poll"
    /\ intended[e] = 0
    /\ \E s \in 1..(session + 1) :
          /\ s < MaxSession
          /\ intended' = [intended EXCEPT ![e] = s]
    /\ queue' = queue \cup {e}
    /\ UNCHANGED <<session, champion, disturbances, disposed, transactions,
                   ledger, commits, audits, stateTag, receipts, pc, memory>>

PollDone ==
    /\ Goto("poll", "settle_due")
    /\ UNCHANGED <<world, durable, memory>>

\* broker.settle: a pending BUY whose session has a stored bar gets its final
\* report.  It is rejected when the company is already held or cash is short;
\* without a bar for its exact session it stays pending.
Settle(before) ==
    \E done \in SUBSET {o \in waiting : o.on < before} :
        \E filled \in SUBSET done :
            /\ \A o \in filled :
                  /\ \A p \in positions : p.company # o.company
                  /\ \A p \in filled : p.company = o.company => p = o
            /\ waiting' = waiting \ done
            /\ completed' = completed \cup done
            /\ positions' = positions \cup filled
            /\ UNCHANGED submitted

\* Full exits of positions whose horizon bar has been observed.
ExitedFrom(before) == SUBSET {p \in positions : p.on < before}

SettleLifecycle ==
    /\ Goto("settle_due", "exit_due")
    /\ Settle(session)
    /\ UNCHANGED <<world, queue, disposed, transactions, commits, audits,
                   stateTag, receipts, memory>>

ExitLifecycle ==
    /\ Goto("exit_due", "guard")
    /\ \E exits \in ExitedFrom(session) : positions' = positions \ exits
    /\ UNCHANGED <<world, queue, disposed, transactions, submitted, waiting,
                   completed, commits, audits, stateTag, receipts, memory>>

\* service_current_paper_lifecycle raises: status "paper_lifecycle_error".
LifecycleError ==
    /\ pc = "settle_due"
    /\ Forget
    /\ Disturb
    /\ UNCHANGED <<champion, durable>>

\* The cycle's as_of is the instant at which the guard held.
GuardAllows ==
    /\ Goto("guard", "recover")
    /\ session = target
    /\ UNCHANGED <<world, durable, memory>>

\* The open passed since the poll, or the target opens today within 15 minutes.
GuardRejects ==
    /\ pc = "guard"
    /\ session # target \/ session < MaxSession
    /\ Forget
    /\ UNCHANGED <<world, durable>>

-----------------------------------------------------------------------------
(* run_current_paper_shadow_cycle, before the market is consulted.         *)

\* Mutant: only the transactions of the session being planned are scanned.
RecoverableToday(t) ==
    /\ t.batch.on = target
    /\ ~ Receipted(t.batch)
    /\ ChampionEntries(t.batch, t.champion) # {} \/ Committed(t.batch)

\* Mutant: only a batch with a BUY in the ledger counts as decided.
RecoverableByOrders(t) ==
    /\ ~ Receipted(t.batch)
    /\ ChampionEntries(t.batch, t.champion) # {}

\* A prepared batch without receipt that durably crossed the broker boundary.
Recoverable(t) ==
    /\ ~ Receipted(t.batch)
    /\ ChampionEntries(t.batch, t.champion) # {} \/ Committed(t.batch)

\* The conditions under which the recovery scan raises instead of publishing.
RecoveryAdmits(t) ==
    /\ \A c \in commits : c.batch = t.batch =>
          c.orders \subseteq {o \in submitted : o.batch = t.batch}
    /\ ChampionEntries(t.batch, t.champion) \subseteq waiting \cup completed

\* Mutant: the receipt is rebuilt for the champion in office now.
RecoverReceiptOfToday(t) ==
    /\ pc = "recover"
    /\ Recoverable(t)
    /\ RecoveryAdmits(t)
    /\ receipts' = receipts \cup
          {[batch |-> t.batch, champion |-> champion,
            orders |-> ChampionEntries(t.batch, champion)]}
    /\ UNCHANGED <<world, queue, disposed, transactions, ledger, commits,
                   audits, stateTag, pc, memory>>

RecoverReceipt(t) ==
    /\ pc = "recover"
    /\ Recoverable(t)
    /\ RecoveryAdmits(t)
    /\ receipts' = receipts \cup
          {[batch |-> t.batch, champion |-> t.champion,
            orders |-> ChampionEntries(t.batch, t.champion)]}
    /\ UNCHANGED <<world, queue, disposed, transactions, ledger, commits,
                   audits, stateTag, pc, memory>>

\* Mutant: the pending events are classified without the recovery scan.
RecoveryDoneUnscanned ==
    /\ Goto("recover", "reconcile")
    /\ UNCHANGED <<world, durable, memory>>

RecoveryDone ==
    /\ Goto("recover", "reconcile")
    /\ \A t \in transactions : ~ Recoverable(t)
    /\ UNCHANGED <<world, durable, memory>>

\* verify_receipt_paper_orders over every published receipt.
ReceiptsVerify == \A r \in receipts : r.orders \subseteq waiting \cup completed

ReconcileReceipt(r) ==
    /\ pc = "reconcile"
    /\ ReceiptsVerify
    /\ r.batch.events \cap queue # {}
    /\ queue' = queue \ r.batch.events
    /\ UNCHANGED <<world, disposed, transactions, ledger, commits, audits,
                   stateTag, receipts, pc, memory>>

ReconcileDone ==
    /\ Goto("reconcile", "classify")
    /\ ReceiptsVerify
    /\ \A r \in receipts : r.batch.events \cap queue = {}
    /\ UNCHANGED <<world, durable, memory>>

\* Mutant: the stale ids leave the queue before their audit is written.
ClassifyUnaudited ==
    /\ Goto("classify", "acknowledge_stale")
    /\ selected' = {e \in queue : intended[e] = target}
    /\ stale' = {e \in queue : intended[e] < target}
    /\ UNCHANGED <<world, queue, disposed, transactions, ledger, commits, audits,
                   stateTag, receipts, target, active, entries, saved>>

\* Mutant: an event whose open has passed is kept for a later run.
ClassifyKeepingLate ==
    /\ Goto("classify", "acknowledge_stale")
    /\ selected' = {e \in queue : intended[e] = target}
    /\ UNCHANGED <<world, queue, disposed, transactions, ledger, commits, audits,
                   stateTag, receipts, target, stale, active, entries, saved>>

\* Selected events open on the target, stale ones before it, the rest stay.
\* The stale audit is written before any stale id leaves the queue.
Classify ==
    /\ Goto("classify", "acknowledge_stale")
    /\ selected' = {e \in queue : intended[e] = target}
    /\ stale' = {e \in queue : intended[e] < target}
    /\ disposed' = disposed \cup stale'
    /\ UNCHANGED <<world, queue, transactions, ledger, commits, audits,
                   stateTag, receipts, target, active, entries, saved>>

AcknowledgeStale ==
    /\ Goto("acknowledge_stale", "sync")
    /\ queue' = queue \ stale
    /\ UNCHANGED <<world, disposed, transactions, ledger, commits, audits,
                   stateTag, receipts, memory>>

NoActionableBatch ==
    /\ pc = "sync"
    /\ selected = {}
    /\ Forget
    /\ UNCHANGED <<world, durable>>

\* Prices, identity or the candidate of one selected company are missing: the
\* cycle raises and the selected ids stay pending.
MarketNotReady ==
    /\ pc = "sync"
    /\ selected # {}
    /\ Forget
    /\ Disturb
    /\ UNCHANGED <<champion, durable>>

\* The batch has no receipt: reconciliation just acknowledged every receipted
\* event, so under the lock the "completed_from_existing_receipt" branch is
\* dead (NeverEvaluatedTwice).
MarketReady ==
    /\ Goto("sync", "prepare")
    /\ selected # {}
    /\ selected \subseteq queue
    /\ ~ Receipted(CurrentBatch)
    /\ UNCHANGED <<world, durable, memory>>

-----------------------------------------------------------------------------
(* From the prepared transaction to the acknowledgement.                   *)

\* The registry is loaded once; a transaction already prepared for this batch
\* must name the same champion and shadows.
WriteTransaction ==
    /\ Goto("prepare", "settle")
    /\ \A t \in transactions : t.batch = CurrentBatch => t.champion = champion
    /\ active' = champion
    /\ transactions' = transactions \cup
          {[batch |-> CurrentBatch, champion |-> champion]}
    /\ UNCHANGED <<world, queue, disposed, ledger, commits, audits, stateTag,
                   receipts, target, selected, stale, entries, saved>>

\* "current cycle transaction changed after preparation".
TransactionChanged ==
    /\ pc = "prepare"
    /\ \E t \in transactions : t.batch = CurrentBatch /\ t.champion # champion
    /\ Forget
    /\ UNCHANGED <<world, durable>>

SettleCycle ==
    /\ Goto("settle", "evaluate")
    /\ Settle(target)
    /\ UNCHANGED <<world, queue, disposed, transactions, commits, audits,
                   stateTag, receipts, memory>>

\* The champion's allocations: any of the batch's companies that no position
\* and no pending BUY occupies, within the free slots.
Evaluate ==
    /\ Goto("evaluate", "checkpoint")
    /\ \E bought \in SUBSET ({CompanyOf[e] : e \in selected} \ OccupiedCompanies) :
          /\ \/ bought = {}
             \/ Cardinality(bought) + Cardinality(OccupiedCompanies)
                   <= MaxOpenPositions
          /\ entries' = {[company |-> c, on |-> target, strategy |-> active,
                          batch |-> CurrentBatch] : c \in bought}
    /\ UNCHANGED <<world, durable, target, selected, stale, active, saved>>

\* One state file per strategy, the champion's first.
SaveStateFile(s, kind) ==
    /\ s \notin saved
    /\ s = active \/ active \in saved
    /\ stateTag' = [stateTag EXCEPT ![s] = [kind |-> kind, batch |-> CurrentBatch]]
    /\ saved' = saved \cup {s}
    /\ UNCHANGED <<world, queue, disposed, transactions, ledger, commits,
                   audits, receipts, pc, target, selected, stale, active, entries>>

\* An order id may be replayed only by the batch that owns it; the broker looks
\* before it lets the strategies checkpoint.
OrdersOwned == \A o \in entries, p \in submitted :
                   SameOrderId(o, p) => p.batch = o.batch

\* Mutant: the checkpoint is tagged as the completed batch.
CheckpointStateCompleted(s) ==
    /\ pc = "checkpoint"
    /\ OrdersOwned
    /\ SaveStateFile(s, "completed")

CheckpointState(s) ==
    /\ pc = "checkpoint"
    /\ OrdersOwned
    /\ SaveStateFile(s, "evaluated")

\* Mutant: the orders reach the ledger before every state file is saved.
ExecuteOrdersEarly ==
    /\ Goto("checkpoint", "commit")
    /\ submitted' = submitted \cup entries
    /\ waiting' = waiting \cup (entries \ completed)
    /\ \E exits \in ExitedFrom(target) : positions' = positions \ exits
    /\ saved' = {}
    /\ UNCHANGED <<world, queue, disposed, transactions, completed, commits,
                   audits, stateTag, receipts, target, selected, stale,
                   active, entries>>

\* broker.execute: one ledger save journals and queues the tagged entries and
\* closes the exits.
ExecuteOrders ==
    /\ Goto("checkpoint", "commit")
    /\ saved = Strategy
    /\ submitted' = submitted \cup entries
    /\ waiting' = waiting \cup (entries \ completed)
    /\ \E exits \in ExitedFrom(target) : positions' = positions \ exits
    /\ saved' = {}
    /\ UNCHANGED <<world, queue, disposed, transactions, completed, commits,
                   audits, stateTag, receipts, target, selected, stale,
                   active, entries>>

\* The sidecar proves that the broker call returned, even without orders.
WriteCommit ==
    /\ Goto("commit", "engine_audit")
    /\ \A c \in commits : c.batch = CurrentBatch => c.orders = entries
    /\ commits' = commits \cup {[batch |-> CurrentBatch, orders |-> entries]}
    /\ UNCHANGED <<world, queue, disposed, transactions, ledger, audits,
                   stateTag, receipts, memory>>

RecordEngineAudit ==
    /\ Goto("engine_audit", "diagnose")
    /\ engineAudit' = engineAudit \cup {CurrentBatch}
    /\ UNCHANGED <<world, queue, disposed, transactions, ledger, commits,
                   diagnostics, shadowAudit, stateTag, receipts, memory>>

\* A diagnostic file holds as_of, so a second evaluation of the batch raises.
WriteDiagnostics ==
    /\ Goto("diagnose", "shadow_audit")
    /\ entries \subseteq ChampionEntries(CurrentBatch, active)
    /\ CurrentBatch \notin diagnostics
    /\ diagnostics' = diagnostics \cup {CurrentBatch}
    /\ UNCHANGED <<world, queue, disposed, transactions, ledger, commits,
                   engineAudit, shadowAudit, stateTag, receipts, memory>>

RecordShadowAudit ==
    /\ Goto("shadow_audit", "save_state")
    /\ shadowAudit' = shadowAudit \cup {CurrentBatch}
    /\ UNCHANGED <<world, queue, disposed, transactions, ledger, commits,
                   engineAudit, diagnostics, stateTag, receipts, memory>>

SaveState(s) ==
    /\ pc = "save_state"
    /\ SaveStateFile(s, "completed")

\* completed_at differs on every write, so a published receipt is never
\* written again: "current cycle receipt changed after publication".
WriteReceipt ==
    /\ Goto("save_state", "acknowledge")
    /\ saved = Strategy
    /\ ~ Receipted(CurrentBatch)
    /\ ChampionEntries(CurrentBatch, active) \subseteq waiting \cup completed
    /\ receipts' = receipts \cup
          {[batch |-> CurrentBatch, champion |-> active,
            orders |-> ChampionEntries(CurrentBatch, active)]}
    /\ UNCHANGED <<world, queue, disposed, transactions, ledger, commits,
                   audits, stateTag, memory>>

Acknowledge ==
    /\ pc = "acknowledge"
    /\ queue' = queue \ selected
    /\ Forget
    /\ UNCHANGED <<world, disposed, transactions, ledger, commits, audits,
                   stateTag, receipts>>

-----------------------------------------------------------------------------
(* Environment.                                                            *)

\* The process dies or an unnamed step raises; the kernel frees the lock.
Crash ==
    /\ pc # "idle"
    /\ Forget
    /\ Disturb
    /\ UNCHANGED <<champion, durable>>

\* A session opens, also in the middle of a cycle.
AdvanceSession ==
    /\ session < MaxSession
    /\ session' = session + 1
    /\ UNCHANGED <<intended, champion, disturbances, durable, pc, memory>>

\* An operator makes another loaded plugin champion between two runs.
SetChampion(s) ==
    /\ pc = "idle"
    /\ s # champion
    /\ champion' = s
    /\ Disturb
    /\ UNCHANGED <<durable, pc, memory>>

\* Steps the pipeline takes once scheduled.
PipelineStep ==
    \/ StartPipeline
    \/ \E e \in Event : CommitFiling(e)
    \/ PollDone
    \/ SettleLifecycle
    \/ ExitLifecycle
    \/ GuardAllows
    \/ GuardRejects
    \/ \E t \in transactions : RecoverReceipt(t)
    \/ RecoveryDone
    \/ \E r \in receipts : ReconcileReceipt(r)
    \/ ReconcileDone
    \/ Classify
    \/ AcknowledgeStale
    \/ NoActionableBatch
    \/ MarketReady
    \/ WriteTransaction
    \/ TransactionChanged
    \/ SettleCycle
    \/ Evaluate
    \/ \E s \in Strategy : CheckpointState(s)
    \/ ExecuteOrders
    \/ WriteCommit
    \/ RecordEngineAudit
    \/ WriteDiagnostics
    \/ RecordShadowAudit
    \/ \E s \in Strategy : SaveState(s)
    \/ WriteReceipt
    \/ Acknowledge

Next ==
    \/ PipelineStep
    \/ LifecycleError
    \/ MarketNotReady
    \/ Crash
    \/ AdvanceSession
    \/ \E s \in Strategy : SetChampion(s)

Spec == Init /\ [][Next]_vars

\* The pipeline is run again and again by its scheduler, a step that can be
\* taken is taken, and sessions keep opening.  Nothing makes a disturbance
\* happen, and each behaviour has at most MaxDisturbances of them.
FairSpec == Spec /\ WF_vars(PipelineStep) /\ WF_vars(AdvanceSession)

-----------------------------------------------------------------------------
(* Safety.                                                                 *)

\* The broker boundary: a batch is decided once a tagged BUY is in the ledger
\* or, for a decision without entries, once its commit sidecar exists.
DecidedBatches == {o.batch : o \in submitted} \cup {c.batch : c \in commits}

Decided(e) == \E b \in DecidedBatches : e \in b.events

\* Every event the poll ever committed is still pending, audited as stale, or
\* named by a receipt: no crash between two of the cycle's writes drops one.
NoEventLost ==
    \A e \in Event : intended[e] # 0 =>
        \/ e \in queue
        \/ e \in disposed
        \/ \E r \in receipts : e \in r.batch.events

\* An event is decided in at most one batch, and never both decided and
\* written off as stale: recovery and reconciliation run before the pending
\* events are classified against the session.
OneOutcome ==
    /\ \A b, c \in DecidedBatches : b.events \cap c.events # {} => b = c
    /\ \A b \in DecidedBatches : b.events \cap disposed = {}

\* A receipt names exactly the BUYs that its batch left in the ledger, whether
\* the cycle or the recovery scan published it and whichever champion is in
\* office by then, and each of them is pending or final.
ReceiptMatchesLedger ==
    \A r \in receipts :
        /\ r.orders = {o \in submitted : o.batch = r.batch}
        /\ r.orders \subseteq waiting \cup completed

\* A batch that is about to be evaluated has left no trace yet: no order, no
\* sidecar, no receipt, no audit line and no diagnostic file.  This is why the
\* raises on a changed receipt, diagnostic, sidecar or order owner and the
\* "completed_from_existing_receipt" branch are never taken under the lock.
NeverEvaluatedTwice ==
    (/\ pc \in {"sync", "prepare", "settle", "evaluate", "checkpoint"}
     /\ selected # {}) =>
        /\ CurrentBatch \notin DecidedBatches
        /\ CurrentBatch \notin engineAudit \cup diagnostics \cup shadowAudit
        /\ ~ Receipted(CurrentBatch)

\* Positions and pending BUYs together never exceed one per company nor the
\* portfolio's slots, over any series of batches, settlements and crashes.
EntryReservation ==
    /\ \A o, p \in positions \cup waiting : o.company = p.company => o = p
    /\ Cardinality(positions \cup waiting) <= MaxOpenPositions

\* While a decided batch has no receipt, the state file of every strategy
\* carries that batch: the calibration that produced the orders is durable
\* before the orders are, and nothing evaluates past an unpublished decision.
CalibratedBeforeDecision ==
    \A b \in DecidedBatches : Receipted(b) \/
        \A s \in Strategy : stateTag[s].kind # "none" /\ stateTag[s].batch = b

\* completed_batch_id never claims a cycle whose audits are not all durable.
HonestCompletion ==
    \A s \in Strategy : stateTag[s].kind = "completed" =>
        /\ stateTag[s].batch \in engineAudit \cap diagnostics \cap shadowAudit
        /\ Committed(stateTag[s].batch)

\* What run_current_paper_shadow_cycle's docstring says: no event leaves the
\* queue as evaluated until engine audit, shadow audit and diagnostics of its
\* batch are durable.  A recovered receipt acknowledges without them.
AcknowledgedMeansAudited ==
    \A r \in receipts : r.batch.events \cap queue # r.batch.events =>
        r.batch \in engineAudit \cap diagnostics \cap shadowAudit

-----------------------------------------------------------------------------
(* Liveness and refinement.                                                *)

\* Every pending event eventually leaves the queue, whatever crashes happen.
PendingResolves == \A e \in Event : e \in queue ~> e \notin queue

\* A decision that reached the ledger or the sidecar is eventually published.
DecisionPublished ==
    \A e \in Event : Decided(e) ~> \E r \in receipts : e \in r.batch.events

\* The write at which an event's outcome takes effect.
OutcomeOf(e) ==
    IF Decided(e) THEN "decided"
    ELSE IF e \in disposed THEN "missed"
    ELSE IF intended[e] # 0 THEN "pending"
    ELSE "unseen"

Decision == INSTANCE EventDecision WITH
    opens   <- intended,
    outcome <- [e \in Event |-> OutcomeOf(e)],
    inbox   <- queue,
    entered <- {[company |-> o.company, on |-> o.on] : o \in submitted}

\* The cycle's files implement the abstract promise, crashes included.
ImplementsDecision == Decision!Spec
=============================================================================
