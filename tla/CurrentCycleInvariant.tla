------------------------ MODULE CurrentCycleInvariant ------------------------
(***************************************************************************)
(* The inductive strengthening of CurrentCycle's safety properties: what   *)
(* each stretch of the program counter may rely on, and how the durable    *)
(* stores relate to each other at any time.                                *)
(***************************************************************************)
EXTENDS CurrentCycle

-----------------------------------------------------------------------------
(* Stretches of the cycle.                                                 *)

\* After the sidecar is due and before the receipt is published.
Publishing == {"commit", "engine_audit", "diagnose", "shadow_audit", "save_state"}

\* After the registry has been loaded.
Deciding == {"settle", "evaluate", "checkpoint", "acknowledge"} \cup Publishing

\* With the session guard passed.
AfterGuard == {"recover", "reconcile", "classify", "acknowledge_stale", "sync",
               "prepare"} \cup Deciding

\* Between the recovery scan and the broker call.
BeforeBroker == {"reconcile", "classify", "acknowledge_stale", "sync",
                 "prepare", "settle", "evaluate", "checkpoint"}

\* With the pending events classified and the batch not yet acknowledged.
Classified == {"acknowledge_stale", "sync", "prepare", "settle", "evaluate",
               "checkpoint"} \cup Publishing

-----------------------------------------------------------------------------
(* Parts of the invariant.                                                 *)

\* An order is built from target and active, which hold a session and a
\* strategy only where the cycle has set them.
Loaded ==
    /\ pc # "idle" => target \in Session
    /\ pc \in Deciding => active \in Strategy

\* What is written off or settled lies before the session being planned.
Horizon ==
    /\ \A e \in disposed : intended[e] # 0 /\ intended[e] < session
    /\ \A o \in completed : o.on < session
    /\ pc # "idle" =>
          /\ target <= session
          /\ \A e \in disposed : intended[e] < target
    /\ pc \in AfterGuard => \A o \in completed : o.on < target

\* The batch in memory: pending events that open on the target.
Selection ==
    /\ \A e \in queue : intended[e] # 0
    /\ pc \in Classified \cup {"acknowledge"} =>
          \A e \in selected : intended[e] = target
    /\ pc \in Classified => selected \subseteq queue
    /\ pc \in Deciding \cup {"prepare"} => selected # {}
    /\ pc = "acknowledge_stale" =>
          /\ stale \subseteq disposed
          /\ \A e \in stale : intended[e] < target
    /\ pc = "acknowledge" => Receipted(CurrentBatch)

\* Everything a batch leaves in the ledger belongs to one prepared champion.
Ownership ==
    /\ \A t, u \in transactions : t.batch = u.batch => t = u
    /\ \A o \in submitted :
          [batch |-> o.batch, champion |-> o.strategy] \in transactions
    /\ \A c \in commits : \E t \in transactions : t.batch = c.batch
    /\ submitted \subseteq waiting \cup completed
    /\ pc \in Deciding =>
          [batch |-> CurrentBatch, champion |-> active] \in transactions
    /\ pc \in {"checkpoint"} \cup Publishing =>
          \A o \in entries :
              /\ o.batch = CurrentBatch
              /\ o.strategy = active
              /\ o.on = target

\* The audits of the running cycle follow its sidecar, in order.
AuditOrder ==
    /\ \A b \in engineAudit \cup diagnostics \cup shadowAudit : Committed(b)
    /\ pc \in Publishing \ {"commit"} => Committed(CurrentBatch)
    /\ pc \in {"diagnose", "shadow_audit", "save_state"} =>
          CurrentBatch \in engineAudit
    /\ pc \in {"shadow_audit", "save_state"} => CurrentBatch \in diagnostics
    /\ pc = "save_state" => CurrentBatch \in shadowAudit

\* At most the running cycle's decision is unpublished, and its calibration is
\* in every state file.
Unpublished ==
    /\ pc \notin {"checkpoint", "save_state", "acknowledge"} => saved = {}
    /\ pc \in BeforeBroker => \A b \in DecidedBatches : Receipted(b)
    /\ pc = "checkpoint" =>
          \A s \in saved : stateTag[s].kind # "none" /\ stateTag[s].batch = CurrentBatch
    /\ pc \in Publishing =>
          /\ \A b \in DecidedBatches : Receipted(b) \/ b = CurrentBatch
          /\ \A s \in Strategy :
                stateTag[s].kind # "none" /\ stateTag[s].batch = CurrentBatch

\* The entries about to be executed trade the batch's unoccupied companies.
Allocated ==
    pc = "checkpoint" => \A o \in entries :
        /\ o.company \in {CompanyOf[e] : e \in selected}
        /\ o.company \notin OccupiedCompanies

\* What a receipt names has left the queue before the pending events are
\* classified, and decided events open on their batch's session.
Reconciled ==
    /\ \A r \in receipts : r.batch \in DecidedBatches
    /\ pc \in Classified \cup {"classify"} =>
          \A r \in receipts : r.batch.events \cap queue = {}
    /\ \A b \in DecidedBatches : \A e \in b.events : intended[e] = b.on

\* The entries about to be executed fit beside what is held and reserved.
Reserved ==
    /\ EntryReservation
    /\ pc = "checkpoint" =>
          /\ \A o, p \in positions \cup waiting \cup entries :
                o.company = p.company => o = p
          /\ Cardinality(positions \cup waiting \cup entries) <= MaxOpenPositions

CycleInvariant ==
    /\ Loaded
    /\ Horizon
    /\ Selection
    /\ Ownership
    /\ AuditOrder
    /\ Unpublished
    /\ Allocated
    /\ Reconciled
=============================================================================
