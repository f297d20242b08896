----------------------------- MODULE EventIntake -----------------------------
(***************************************************************************)
(* How a Form 4 filing becomes pending events and leaves the queue: the    *)
(* poll with its watermarks, the quarantine of documents that cannot be    *)
(* parsed, the recovery tool that replays them, and the cycle as far as it *)
(* empties the queue.                                                      *)
(*                                                                         *)
(* Source: live/event_intake.py, form4_quarantine.py, form4_recovery.py,   *)
(* finalized_form4.py, poll_sec_form4.py, recover_sec_form4_quarantine.py. *)
(* The queue (watermarks and pending events) is one file, the quarantine   *)
(* another.  Both are changed by reading the file, then replacing it; the  *)
(* recovery tool takes no lock.  The events of a filing share its time and *)
(* company and move together, so a filing stands for its events.           *)
(***************************************************************************)
EXTENDS Naturals

CONSTANTS
    Cik,         \* modelled companies' SEC numbers
    Filing,      \* accessions, numbered in cursor order (accepted_at, accession)
    Day,         \* [Filing -> the session that is next when it is accepted]
    Feeds,       \* [Filing -> CIKs whose submissions list it]
    WithEvents,  \* filings whose ownership XML has transactions
    Lookback,    \* initial_lookback_days
    MaxDay,      \* bound on sessions
    MaxCrashes,  \* bound on deaths and raises between two writes
    Overlap,     \* whether the recovery tool may run beside the pipeline
    None         \* no file image in memory

ASSUME CikAssumption == Cik \subseteq Nat
ASSUME FilingAssumption ==
    /\ Filing \subseteq Nat \ {0}
    /\ Day \in [Filing -> Nat \ {0}]
    /\ \A f, g \in Filing : f < g => Day[f] <= Day[g]
    /\ Feeds \in [Filing -> SUBSET Cik]
    /\ WithEvents \subseteq Filing
ASSUME BoundsAssumption ==
    /\ Lookback \in Nat \ {0}
    /\ MaxDay \in Nat \ {0}
    /\ MaxCrashes \in Nat
    /\ Overlap \in BOOLEAN

VARIABLES
    \* The world.
    day,        \* the session that opens next
    listed,     \* submissions feeds so far
    crashes,    \* crashes so far, bounded by MaxCrashes
    \* Durable stores.
    raw,        \* [Filing -> newest raw artifact of the accession]
    normalized, \* filings whose events are in the event database
    watermark,  \* queue: [Cik -> last committed cursor]; 0: none
    pending,    \* queue: pending filings, with the CIK they were enqueued for
    quarantine, \* active quarantine records
    recovered,  \* recovery audit records
    receipts,   \* filings named by a completed-cycle receipt
    stale,      \* filings with a stale disposition
    \* Memory of the pipeline.
    pc, cutoff, finalized, unpolled, feed, todo, parsed, done, selected, image,
    \* Memory of the recovery tool.
    rpc, active, rimage

world    == <<day, listed, crashes>>
queue    == <<watermark, pending>>
intake   == <<raw, normalized, queue, quarantine, recovered>>
outcomes == <<receipts, stale>>
memory   == <<cutoff, finalized, unpolled, feed, todo, parsed, done, selected, image>>
recovery == <<rpc, active, rimage>>
vars     == <<world, intake, outcomes, pc, memory, recovery>>

\* A filing as one CIK's feed presents it; queue, quarantine and recovery audit
\* identify it by both.
Listing == [cik : Cik, filing : Filing]
Queue   == [watermark : [Cik -> {0} \cup Filing], pending : SUBSET Listing]
Steps   == {"idle", "poll", "filing", "quarantine", "commit", "reconcile",
            "select", "dispose", "retire", "decide", "acknowledge"}
RecoverySteps == {"idle", "next", "normalize", "enqueue", "append", "commit",
                  "record", "resolve"}

TypeOK ==
    /\ day \in 1..MaxDay
    /\ listed \subseteq Listing
    /\ crashes \in 0..MaxCrashes
    /\ raw \in [Filing -> {"none", "bad", "xml"}]
    /\ normalized \subseteq Filing
    /\ [watermark |-> watermark, pending |-> pending] \in Queue
    /\ quarantine \subseteq Listing
    /\ recovered \subseteq Listing
    /\ receipts \subseteq Filing
    /\ stale \subseteq Filing
    /\ pc \in Steps
    /\ cutoff \in 0..MaxDay
    /\ finalized \subseteq Filing
    /\ unpolled \subseteq Cik
    /\ feed \in Cik \cup {None}
    /\ todo \subseteq Filing
    /\ parsed \subseteq Filing
    /\ done \subseteq Filing
    /\ selected \subseteq Filing
    /\ \/ image = None
       \/ pc = "quarantine" /\ image \subseteq Listing
       \/ pc \notin {"idle", "quarantine"} /\ image \in Queue
    /\ rpc \in RecoverySteps
    /\ active \subseteq Listing
    /\ \/ rimage = None
       \/ rpc = "resolve" /\ rimage \subseteq Listing
       \/ rpc \in {"append", "commit"} /\ rimage \in Queue

Init ==
    /\ day = 1 /\ listed = {} /\ crashes = 0
    /\ raw = [f \in Filing |-> "none"]
    /\ normalized = {}
    /\ watermark = [c \in Cik |-> 0]
    /\ pending = {} /\ quarantine = {} /\ recovered = {}
    /\ receipts = {} /\ stale = {}
    /\ pc = "idle"
    /\ cutoff = 0 /\ feed = None /\ image = None
    /\ finalized = {} /\ unpolled = {} /\ todo = {}
    /\ parsed = {} /\ done = {} /\ selected = {}
    /\ rpc = "idle" /\ active = {} /\ rimage = None

-----------------------------------------------------------------------------
(* Vocabulary of the handlers.                                             *)

TheQueue == [watermark |-> watermark, pending |-> pending]
Filings(listings) == {l.filing : l \in listings}

\* Accessions all of whose normalized events have a receipt or a stale audit.
Finalized == receipts \cup stale

First(filings) == {f \in filings : \A g \in filings : f <= g}

\* Quarantine records are processed in the order (accepted_at, cik).
FirstListing(listings) ==
    {l \in listings : \A m \in listings :
        \/ l.filing < m.filing
        \/ l.filing = m.filing /\ l.cik <= m.cik}

\* A pending trigger keeps the CIK it was first enqueued for.
IdentityChanged(q, c, events) ==
    \E p \in q.pending : p.filing \in events /\ p.cik # c

\* Mutant: the watermark is set behind the committed filing.
CommittedPast(q, c, f, events) ==
    [watermark |-> [q.watermark EXCEPT ![c] = f + 1],
     pending   |-> q.pending \cup [cik : {c}, filing : events]]

\* commit_filing on a queue image: watermark and pending events in one replace.
Committed(q, c, f, events) ==
    [watermark |-> [q.watermark EXCEPT ![c] = f],
     pending   |-> q.pending \cup [cik : {c}, filing : events]]

ReplaceQueue(q) ==
    /\ watermark' = q.watermark
    /\ pending' = q.pending

Forget ==
    /\ pc' = "idle"
    /\ cutoff' = 0 /\ feed' = None /\ image' = None
    /\ finalized' = {} /\ unpolled' = {} /\ todo' = {}
    /\ parsed' = {} /\ done' = {} /\ selected' = {}

ForgetRecovery ==
    /\ rpc' = "idle"
    /\ active' = {} /\ rimage' = None

Goto(from, to)  == pc = from /\ pc' = to
RGoto(from, to) == rpc = from /\ rpc' = to

-----------------------------------------------------------------------------
(* poll_current_form4.                                                     *)

StartPoll ==
    /\ Goto("idle", "poll")
    /\ Overlap \/ rpc = "idle"
    /\ cutoff' = day
    /\ finalized' = Finalized
    /\ unpolled' = Cik
    /\ UNCHANGED <<world, intake, outcomes, feed, todo, parsed, done, selected,
                   image, recovery>>

\* Mutant: an accession whose raw artifact is stored counts as handled.
FetchUnseen(c) ==
    /\ Goto("poll", "filing")
    /\ c \in First(unpolled)
    /\ feed' = c
    /\ todo' = {f \in Filing \ finalized :
                   /\ [cik |-> c, filing |-> f] \in listed
                   /\ Day[f] <= cutoff
                   /\ raw[f] = "none"
                   /\ IF watermark[c] # 0
                      THEN watermark[c] < f
                      ELSE cutoff <= Day[f] + Lookback}
    /\ UNCHANGED <<world, intake, outcomes, cutoff, finalized, unpolled, parsed,
                   done, selected, image, recovery>>

\* The filings of one feed that are not finalized, not after the cutoff, and
\* after the watermark or, for a new CIK, within the lookback.
FetchSubmissions(c) ==
    /\ Goto("poll", "filing")
    /\ c \in First(unpolled)
    /\ feed' = c
    /\ todo' = {f \in Filing \ finalized :
                   /\ [cik |-> c, filing |-> f] \in listed
                   /\ Day[f] <= cutoff
                   /\ IF watermark[c] # 0
                      THEN watermark[c] < f
                      ELSE cutoff <= Day[f] + Lookback}
    /\ UNCHANGED <<world, intake, outcomes, cutoff, finalized, unpolled, parsed,
                   done, selected, image, recovery>>

\* An accession without raw artifact is fetched: ownership XML, or a primary
\* document that is none.
FetchFiling(f) ==
    /\ pc = "filing"
    /\ f \in First(todo)
    /\ raw[f] = "none"
    /\ \E document \in {"bad", "xml"} : raw' = [raw EXCEPT ![f] = document]
    /\ UNCHANGED <<world, normalized, queue, quarantine, recovered, outcomes, pc,
                   memory, recovery>>

ReadQuarantine(f) ==
    /\ Goto("filing", "quarantine")
    /\ f \in First(todo)
    /\ raw[f] = "bad"
    /\ image' = quarantine
    /\ UNCHANGED <<world, intake, outcomes, cutoff, finalized, unpolled, feed,
                   todo, parsed, done, selected, recovery>>

\* Mutant: the watermark advances without a durable quarantine record.
SkipQuarantine(f) ==
    /\ Goto("quarantine", "commit")
    /\ f \in First(todo)
    /\ image' = None
    /\ UNCHANGED <<world, intake, outcomes, cutoff, finalized, unpolled, feed, todo,
                   parsed, done, selected, recovery>>

\* quarantine.record: a known accession is not written again.
RecordQuarantine(f) ==
    /\ Goto("quarantine", "commit")
    /\ f \in First(todo)
    /\ LET l == [cik |-> feed, filing |-> f] IN
       quarantine' = IF l \in image THEN quarantine ELSE image \cup {l}
    /\ image' = None
    /\ UNCHANGED <<world, raw, normalized, queue, recovered, outcomes, cutoff,
                   finalized, unpolled, feed, todo, parsed, done, selected, recovery>>

\* put_many before the queue is touched: replays insert nothing twice.
StoreEvents(f) ==
    /\ Goto("filing", "commit")
    /\ f \in First(todo)
    /\ raw[f] = "xml"
    /\ parsed' = {f} \cap WithEvents
    /\ normalized' = normalized \cup ({f} \cap WithEvents)
    /\ UNCHANGED <<world, raw, queue, quarantine, recovered, outcomes, cutoff,
                   finalized, unpolled, feed, todo, done, selected, image, recovery>>

\* commit_filing and acknowledge read the queue file first.
ReadQueue ==
    /\ pc \in {"commit", "reconcile", "retire", "acknowledge"}
    /\ image = None
    /\ image' = TheQueue
    /\ UNCHANGED <<world, intake, outcomes, pc, cutoff, finalized, unpolled, feed,
                   todo, parsed, done, selected, recovery>>

\* Replace the queue, unless the cursor is not ahead of the watermark.
CommitFiling(f) ==
    /\ Goto("commit", "filing")
    /\ image # None
    /\ f \in First(todo)
    /\ IF f <= image.watermark[feed]
       THEN UNCHANGED queue
       ELSE /\ ~ IdentityChanged(image, feed, parsed)
            /\ ReplaceQueue(Committed(image, feed, f, parsed))
    /\ image' = None
    /\ todo' = todo \ {f}
    /\ parsed' = {}
    /\ UNCHANGED <<world, raw, normalized, quarantine, recovered, outcomes, cutoff,
                   finalized, unpolled, feed, done, selected, recovery>>

\* commit_filing raises for an event that is pending for another CIK, and the
\* poll and the pipeline raise with it.
CommitRaises(f) ==
    /\ pc = "commit"
    /\ image # None
    /\ f \in First(todo)
    /\ image.watermark[feed] < f
    /\ IdentityChanged(image, feed, parsed)
    /\ Forget
    /\ UNCHANGED <<world, intake, outcomes, recovery>>

EndFeed ==
    /\ Goto("filing", "poll")
    /\ todo = {}
    /\ unpolled' = unpolled \ {feed}
    /\ feed' = None
    /\ UNCHANGED <<world, intake, outcomes, cutoff, finalized, todo, parsed, done,
                   selected, image, recovery>>

\* The guard rejects: the session opened since the poll, or opens too soon.  The
\* bound on days keeps the last session from being rejected for ever.
EndPipeline ==
    /\ pc = "poll"
    /\ unpolled = {}
    /\ day < MaxDay \/ day # cutoff
    /\ Forget
    /\ UNCHANGED <<world, intake, outcomes, recovery>>

-----------------------------------------------------------------------------
(* The cycle, as the intake sees it: CurrentCycle models it in detail.     *)

\* Mutant: receipts are not reconciled before the selection.
StartUnreconciled ==
    /\ Goto("poll", "reconcile")
    /\ unpolled = {}
    /\ day = cutoff
    /\ done' = {}
    /\ UNCHANGED <<world, intake, outcomes, cutoff, finalized, unpolled, feed, todo,
                   parsed, selected, image, recovery>>

\* The pending events of completed receipts are to be acknowledged first.
StartCycle ==
    /\ Goto("poll", "reconcile")
    /\ unpolled = {}
    /\ day = cutoff
    /\ done' = receipts \cap Filings(pending)
    /\ UNCHANGED <<world, intake, outcomes, cutoff, finalized, unpolled, feed, todo,
                   parsed, selected, image, recovery>>

\* queue.acknowledge(done): nothing is written when nothing is removed.
Acknowledge ==
    /\ image # None
    /\ IF Filings(image.pending) \cap done = {}
       THEN UNCHANGED queue
       ELSE ReplaceQueue([image EXCEPT !.pending = {p \in @ : p.filing \notin done}])
    /\ UNCHANGED <<raw, normalized, quarantine, recovered>>

AcknowledgeAt(from, to) ==
    /\ Goto(from, to)
    /\ Acknowledge
    /\ image' = None
    /\ done' = {}
    /\ UNCHANGED <<world, outcomes, cutoff, finalized, unpolled, feed, todo, parsed,
                   selected, recovery>>

Reconcile   == AcknowledgeAt("reconcile", "select")
RetireStale == AcknowledgeAt("retire", "decide")

RetireDecided ==
    /\ pc = "acknowledge"
    /\ Acknowledge
    /\ Forget
    /\ UNCHANGED <<world, outcomes, recovery>>

\* Events of the session that opens next are selected, earlier ones are stale.
Select ==
    /\ Goto("select", "dispose")
    /\ selected' = {f \in Filings(pending) : Day[f] = cutoff}
    /\ done' = {f \in Filings(pending) : Day[f] < cutoff}
    /\ UNCHANGED <<world, intake, outcomes, cutoff, finalized, unpolled, feed, todo,
                   parsed, image, recovery>>

\* Mutant: stale events are removed without an audit.
DropStale ==
    /\ Goto("dispose", "retire")
    /\ UNCHANGED <<world, intake, outcomes, memory, recovery>>

\* The disposition is durable before the queue changes.
DisposeStale ==
    /\ Goto("dispose", "retire")
    /\ stale' = stale \cup done
    /\ UNCHANGED <<world, intake, receipts, memory, recovery>>

\* The batch's decision, known by its receipt.
Decide ==
    /\ pc = "decide"
    /\ IF selected = {}
       THEN /\ Forget
            /\ UNCHANGED receipts
       ELSE /\ pc' = "acknowledge"
            /\ receipts' = receipts \cup selected
            /\ done' = selected
            /\ UNCHANGED <<cutoff, finalized, unpolled, feed, todo, parsed, selected, image>>
    /\ UNCHANGED <<world, intake, stale, recovery>>

-----------------------------------------------------------------------------
(* recover_sec_form4_quarantine, started by the operator.                  *)

\* The active records up to --as-of or --max-filings.
StartRecovery ==
    /\ RGoto("idle", "next")
    /\ Overlap \/ pc = "idle"
    /\ \E f \in Filing : active' = {l \in quarantine : l.filing <= f}
    /\ active' # {}
    /\ UNCHANGED <<world, intake, outcomes, pc, memory, rimage>>

SkipRecovered(l) ==
    /\ RGoto("next", "resolve")
    /\ l \in FirstListing(active)
    /\ l \in recovered
    /\ UNCHANGED <<world, intake, outcomes, pc, memory, active, rimage>>

\* Ownership XML is discovered, parsed and stored as a second raw artifact.
FetchReplacement(l) ==
    /\ RGoto("next", "normalize")
    /\ l \in FirstListing(active)
    /\ l \notin recovered
    /\ raw' = [raw EXCEPT ![l.filing] = "xml"]
    /\ UNCHANGED <<world, normalized, queue, quarantine, recovered, outcomes, pc,
                   memory, active, rimage>>

\* No XML is found, or it cannot be parsed: the record stays active.
RecoveryFails(l) ==
    /\ rpc = "next"
    /\ l \in FirstListing(active)
    /\ l \notin recovered
    /\ active' = active \ {l}
    /\ UNCHANGED <<world, intake, outcomes, pc, memory, rpc, rimage>>

StoreRecovered(l) ==
    /\ RGoto("normalize", "enqueue")
    /\ l \in FirstListing(active)
    /\ normalized' = normalized \cup ({l.filing} \cap WithEvents)
    /\ UNCHANGED <<world, raw, queue, quarantine, recovered, outcomes, pc, memory,
                   active, rimage>>

\* Mutant: recovered filings are always left to commit_filing.
ReadForCommit(l) ==
    /\ RGoto("enqueue", "commit")
    /\ l \in FirstListing(active)
    /\ UNCHANGED <<world, intake, outcomes, pc, memory, active, rimage>>

\* enqueue_recovered_filing reads the queue; a cursor ahead of the watermark is
\* left to commit_filing, which reads it again.
ReadForRecovery(l) ==
    /\ rpc = "enqueue"
    /\ l \in FirstListing(active)
    /\ IF watermark[l.cik] < l.filing
       THEN rpc' = "commit" /\ UNCHANGED rimage
       ELSE rpc' = "append" /\ rimage' = TheQueue
    /\ UNCHANGED <<world, intake, outcomes, pc, memory, active>>

ReadAgain ==
    /\ rpc = "commit"
    /\ rimage = None
    /\ rimage' = TheQueue
    /\ UNCHANGED <<world, intake, outcomes, pc, memory, rpc, active>>

CommitRecovered(l) ==
    /\ RGoto("commit", "record")
    /\ rimage # None
    /\ l \in FirstListing(active)
    /\ IF l.filing <= rimage.watermark[l.cik]
       THEN UNCHANGED queue
       ELSE /\ ~ IdentityChanged(rimage, l.cik, {l.filing} \cap WithEvents)
            /\ ReplaceQueue(Committed(rimage, l.cik, l.filing, {l.filing} \cap WithEvents))
    /\ rimage' = None
    /\ UNCHANGED <<world, raw, normalized, quarantine, recovered, outcomes, pc,
                   memory, active>>

\* Events are added below the watermark, which stays as it was read.
AppendRecovered(l) ==
    /\ RGoto("append", "record")
    /\ l \in FirstListing(active)
    /\ ~ IdentityChanged(rimage, l.cik, {l.filing} \cap WithEvents)
    /\ IF {l.filing} \cap WithEvents \subseteq Filings(rimage.pending)
       THEN UNCHANGED queue
       ELSE ReplaceQueue([rimage EXCEPT !.pending = @ \cup {l}])
    /\ rimage' = None
    /\ UNCHANGED <<world, raw, normalized, quarantine, recovered, outcomes, pc,
                   memory, active>>

\* The event is pending for another CIK: the record stays active.
EnqueueFails(l) ==
    /\ rpc \in {"append", "commit"}
    /\ rimage # None
    /\ l \in FirstListing(active)
    /\ rpc = "commit" => rimage.watermark[l.cik] < l.filing
    /\ IdentityChanged(rimage, l.cik, {l.filing} \cap WithEvents)
    /\ rpc' = "next"
    /\ active' = active \ {l}
    /\ rimage' = None
    /\ UNCHANGED <<world, intake, outcomes, pc, memory>>

RecordRecovery(l) ==
    /\ RGoto("record", "resolve")
    /\ l \in FirstListing(active)
    /\ recovered' = recovered \cup {l}
    /\ UNCHANGED <<world, raw, normalized, queue, quarantine, outcomes, pc, memory,
                   active, rimage>>

ReadForResolve ==
    /\ rpc = "resolve"
    /\ rimage = None
    /\ rimage' = quarantine
    /\ UNCHANGED <<world, intake, outcomes, pc, memory, rpc, active>>

Resolve(l) ==
    /\ RGoto("resolve", "next")
    /\ rimage # None
    /\ l \in FirstListing(active)
    /\ quarantine' = IF l \in rimage THEN rimage \ {l} ELSE quarantine
    /\ active' = active \ {l}
    /\ rimage' = None
    /\ UNCHANGED <<world, raw, normalized, queue, recovered, outcomes, pc, memory>>

EndRecovery ==
    /\ rpc = "next"
    /\ active = {}
    /\ ForgetRecovery
    /\ UNCHANGED <<world, intake, outcomes, pc, memory>>

-----------------------------------------------------------------------------
(* Environment.                                                            *)

\* A death, or a raise: a failed download, an unreadable file, a store of the
\* cycle, a market that is not ready.
CrashPipeline ==
    /\ pc # "idle"
    /\ crashes < MaxCrashes
    /\ crashes' = crashes + 1
    /\ Forget
    /\ UNCHANGED <<day, listed, intake, outcomes, recovery>>

\* A raise of the recovery of one filing is recorded, and the next one follows.
RecoveryRaises(l) ==
    /\ rpc \in {"normalize", "enqueue", "append", "commit", "record", "resolve"}
    /\ l \in FirstListing(active)
    /\ crashes < MaxCrashes
    /\ crashes' = crashes + 1
    /\ rpc' = "next"
    /\ active' = active \ {l}
    /\ rimage' = None
    /\ UNCHANGED <<day, listed, intake, outcomes, pc, memory>>

CrashRecovery ==
    /\ rpc # "idle"
    /\ crashes < MaxCrashes
    /\ crashes' = crashes + 1
    /\ ForgetRecovery
    /\ UNCHANGED <<day, listed, intake, outcomes, pc, memory>>

NextDay ==
    /\ day < MaxDay
    /\ day' = day + 1
    /\ UNCHANGED <<listed, crashes, intake, outcomes, pc, memory, recovery>>

\* A feed shows an accepted filing, sooner or later, and after those accepted
\* before it: the watermark relies on that.
List(l) ==
    /\ l.cik \in Feeds[l.filing]
    /\ l \notin listed
    /\ Day[l.filing] <= day
    /\ \A f \in Filing :
          (f < l.filing /\ l.cik \in Feeds[f]) => [cik |-> l.cik, filing |-> f] \in listed
    /\ listed' = listed \cup {l}
    /\ UNCHANGED <<day, crashes, intake, outcomes, pc, memory, recovery>>

PipelineStep ==
    \/ StartPoll
    \/ \E c \in Cik : FetchSubmissions(c)
    \/ \E f \in Filing :
          \/ FetchFiling(f) \/ ReadQuarantine(f) \/ RecordQuarantine(f)
          \/ StoreEvents(f) \/ CommitFiling(f) \/ CommitRaises(f)
    \/ ReadQueue
    \/ EndFeed
    \/ EndPipeline
    \/ StartCycle
    \/ Reconcile
    \/ Select
    \/ DisposeStale
    \/ RetireStale
    \/ Decide
    \/ RetireDecided

\* The steps of a recovery run that has been started.
RecoveryStep ==
    \/ \E l \in Listing :
          \/ SkipRecovered(l) \/ FetchReplacement(l) \/ RecoveryFails(l)
          \/ StoreRecovered(l) \/ ReadForRecovery(l) \/ CommitRecovered(l)
          \/ AppendRecovered(l) \/ EnqueueFails(l) \/ RecordRecovery(l) \/ Resolve(l)
    \/ ReadAgain
    \/ ReadForResolve
    \/ EndRecovery

Next ==
    \/ PipelineStep
    \/ StartRecovery
    \/ RecoveryStep
    \/ CrashPipeline
    \/ CrashRecovery
    \/ \E l \in Listing : RecoveryRaises(l)
    \/ NextDay
    \/ \E l \in Listing : List(l)

Spec == Init /\ [][Next]_vars

\* The scheduler reruns the pipeline, also between recoveries without end, a
\* started recovery goes on and sessions come; nobody has to start a recovery.
FairSpec ==
    /\ Spec
    /\ SF_vars(PipelineStep)
    /\ WF_vars(RecoveryStep)
    /\ WF_vars(NextDay)

-----------------------------------------------------------------------------
(* Properties.                                                             *)

\* The events of f wait for a cycle, have had their outcome, or are known to
\* the operator.
Accounted(f) ==
    \/ f \in Filings(pending)
    \/ f \in Finalized
    \/ f \in Filings(quarantine)

Beyond(f) == Day[f] + Lookback < day

\* A watermark passes a filing of its feed only when that filing is accounted
\* for, or was too old for a first poll of its CIK.  That poll may have been
\* interrupted after it quarantined a later filing: the recovery then passes the
\* old one, even after an earlier recovered filing has set the watermark.
NothingPassed ==
    [][\A c \in Cik, f \in WithEvents :
          (c \in Feeds[f] /\ watermark[c] < f /\ f <= watermark'[c])
              => \/ Accounted(f)'
                 \/ Beyond(f) /\ (watermark[c] = 0 \/ rpc = "commit")]_vars

\* Whatever is interrupted, a filing once accounted for remains so.
NothingForgotten == [][\A f \in WithEvents : Accounted(f) => Accounted(f)']_vars

\* An outcome is of stored events and there is one: every poll reads the finalized
\* events from the database, and a filing enqueued a second time, after its outcome,
\* is not decided again and does not get the other outcome.
OneStoredOutcome ==
    /\ Filings(pending) \cup Finalized \subseteq normalized
    /\ receipts \cap stale = {}
    /\ pc = "decide" => selected \cap Finalized = {}

\* A record that left the quarantine left durable events behind.
ResolvedIsDurable ==
    \A l \in recovered \ quarantine :
        l.filing \in WithEvents =>
            /\ l.filing \in normalized
            /\ l.filing \in Filings(pending) \cup Finalized

\* The first poll of the CIK left the filing out, or will.
TooOld(l) ==
    /\ Beyond(l.filing)
    /\ ~ Accounted(l.filing)
    /\ watermark[l.cik] = 0 \/ l.filing <= watermark[l.cik]

\* Every listed filing gets an outcome or is quarantined, unless it was too old
\* when its CIK was first polled.
IntakeProceeds ==
    \A l \in Listing :
        (l \in listed /\ l.filing \in WithEvents) ~>
            \/ l.filing \in Finalized
            \/ l.filing \in Filings(quarantine)
            \/ TooOld(l)
=============================================================================
