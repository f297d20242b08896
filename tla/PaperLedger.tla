---------------------------- MODULE PaperLedger -----------------------------
(***************************************************************************)
(* The PAPER ledger with the bars it is priced from: the lifecycle service *)
(* that catches it up, and the ledger's part of a decision cycle.          *)
(*                                                                         *)
(* Source: execution/paper.py, execution/session_paper.py,                 *)
(* positions/horizon.py, live/paper_lifecycle.py and the market sync.      *)
(* The ledger is one file: submitted, waiting, reports and positions       *)
(* change together.  Bars are appended per security by their own upsert.   *)
(* Shares, cash and prices are left out: a BUY takes at most the cash that *)
(* is there, and the exposure limit leaves most of it.                     *)
(***************************************************************************)
EXTENDS Naturals, FiniteSets

CONSTANTS
    Company,       \* companies, each with one security
    Horizon,       \* [Company -> horizon_sessions of an entry in it]
    MaxSession,    \* bound: XNYS sessions 1..MaxSession
    MaxCrashes,    \* bound on deaths and raises between two writes
    VendorInOrder  \* whether the vendor publishes each series without holes

ASSUME CompanyAssumption == IsFiniteSet(Company)
ASSUME HorizonAssumption == Horizon \in [Company -> Nat \ {0}]
ASSUME BoundsAssumption ==
    /\ MaxSession \in Nat \ {0}
    /\ MaxCrashes \in Nat
    /\ VendorInOrder \in BOOLEAN

VARIABLES
    \* The world outside the process.
    clock,     \* 2s-1 while session s trades, 2s after its close
    vendor,    \* daily bars the vendor has published
    crashes,   \* crashes so far, bounded by MaxCrashes
    \* Durable stores.
    bars,      \* daily bars in the market database
    submitted, \* ledger: order journal
    waiting,   \* ledger: pending orders
    reports,   \* ledger: completed reports
    positions, \* ledger: open positions, as the entry that opened each
    \* Memory of the running process.
    pc, asOf, target, behind

world  == <<clock, vendor, crashes>>
ledger == <<submitted, waiting, reports, positions>>
memory == <<asOf, target, behind>>
vars   == <<world, bars, ledger, pc, memory>>

Session == 1..MaxSession
Entry   == [company : Company, on : Session]
Bar     == Company \X Session
\* A SELL names the entry whose position it closes: its id hashes that position.
Order   == [side : {"BUY", "SELL"}, entry : Entry, on : Session]
Report  == [order : Order, filled : BOOLEAN, bar : Session]
Steps   == {"idle", "sync", "settle", "exit", "serviced",
            "refresh", "settle_cycle", "execute"}

TypeOK ==
    /\ clock \in 0..(2 * MaxSession)
    /\ vendor \subseteq Bar
    /\ crashes \in 0..MaxCrashes
    /\ bars \subseteq Bar
    /\ submitted \subseteq Order
    /\ waiting \subseteq Order
    /\ reports \subseteq Report
    /\ positions \subseteq Entry
    /\ pc \in Steps
    /\ asOf \in 0..MaxSession
    /\ target \in 0..MaxSession
    /\ behind \subseteq Company

Init ==
    /\ clock = 0
    /\ vendor = {}
    /\ crashes = 0
    /\ bars = {}
    /\ submitted = {} /\ waiting = {} /\ reports = {} /\ positions = {}
    /\ pc = "idle"
    /\ asOf = 0 /\ target = 0 /\ behind = {}

-----------------------------------------------------------------------------
(* Vocabulary of the handlers.                                             *)

\* last_completed_session and cycle_execution_date.
LastCompleted == clock \div 2
NextOpen == (clock + 1) \div 2 + 1

\* Mutant: a BUY trades the session after its candidate's.
BuyOfLater(o) == [side |-> "BUY", entry |-> o, on |-> o.on + 1]

BuyOf(o) == [side |-> "BUY", entry |-> o, on |-> o.on]
Orders(side) == {x \in submitted : x.side = side}
SameOrderId(x, y) == x.side = y.side /\ x.entry = y.entry
Completed(x) == \E r \in reports : SameOrderId(r.order, x)

\* Mutant: a restart prices an order from the newest bar it knows.
LatestBar(x, day) ==
    {t \in Session : /\ <<x.entry.company, t>> \in bars
                     /\ x.on <= t /\ t <= day
                     /\ \A u \in (t + 1)..day : <<x.entry.company, u>> \notin bars}

\* bar_on(execute_on): the bar of the order's own session, once it is stored
\* and due.
PricingBar(x, day) ==
    {t \in Session : /\ <<x.entry.company, t>> \in bars
                     /\ t = x.on /\ t <= day}

\* Mutant: the horizon counts sessions instead of stored bars.
ExitSessionByCalendar(o, day) ==
    {t \in o.on..day : /\ t \in Session
                       /\ t + 1 = o.on + Horizon[o.company]}

\* The session of the last of the position's first horizon_sessions bars.
ExitSession(o, day) ==
    {t \in o.on..day :
        /\ <<o.company, t>> \in bars
        /\ Cardinality({u \in o.on..t : <<o.company, u>> \in bars})
              = Horizon[o.company]}

\* FixedHorizonPositionManager.orders on a snapshot of the open positions.
ExitOrders(day) ==
    UNION {{[side |-> "SELL", entry |-> o, on |-> t] : t \in ExitSession(o, day)}
               : o \in positions}

\* A SELL closes the company's position.
Remaining(priced) ==
    {o \in positions :
        \A x \in priced : x.side = "SELL" => x.entry.company # o.company}

\* A SELL is rejected when the company is not held, a BUY when it is held or
\* when an earlier order of the same call has just been filled.
Accepted(priced) ==
    {x \in priced :
        \/ /\ x.side = "SELL"
           /\ \E o \in positions : o.company = x.entry.company
        \/ /\ x.side = "BUY"
           /\ \A o \in Remaining(priced) : o.company # x.entry.company
           /\ \A y \in priced :
                 (y.side = "BUY" /\ y.entry.company = x.entry.company) => x.on <= y.on}

\* Final reports of the orders that have a price, and their positions.
Fill(priced, day) ==
    /\ reports' = reports \cup
          UNION {{[order |-> x, filled |-> x \in Accepted(priced), bar |-> t]
                     : t \in PricingBar(x, day)} : x \in priced}
    /\ positions' = Remaining(priced) \cup
          {x.entry : x \in {y \in Accepted(priced) : y.side = "BUY"}}

Priced(orders, day) == {x \in orders : PricingBar(x, day) # {}}

\* Mutant: settled orders stay in the queue.
SettleKeeping(day) ==
    /\ Fill(Priced(waiting, day), day)
    /\ UNCHANGED <<submitted, waiting>>

\* broker.settle: one save.
Settle(day) ==
    LET priced == Priced(waiting, day) IN
    /\ Fill(priced, day)
    /\ waiting' = waiting \ priced
    /\ UNCHANGED submitted

\* broker.execute: one save.  An id in the journal must name the same intent,
\* and an exit's allocation moves with the marks, so an exit is never replayed.
\* An order created before its session is queued without looking for a price.
Execute(orders, day) ==
    LET fresh  == {x \in orders : ~ Completed(x) /\ x \notin waiting}
        due    == {x \in fresh : x.side = "SELL" \/ x.on <= day}
        priced == Priced(due, day)
    IN
    /\ \A x \in orders, y \in submitted :
          (x.side = "SELL" /\ SameOrderId(x, y)) => FALSE
    /\ Fill(priced, day)
    /\ submitted' = submitted \cup orders
    /\ waiting' = waiting \cup (fresh \ priced)

\* Mutant: every sync downloads the series again from its first session.
FetchSeriesWhole(c, received) ==
    bars' = bars \cup {<<c, t>> : t \in received}

\* A series is only ever extended after its last stored bar.
FetchSeries(c, received) ==
    bars' = bars \cup
        {<<c, t>> : t \in {u \in received : \A v \in Session :
                               <<c, v>> \in bars => v < u}}

Published(c, until) == {t \in 1..until : <<c, t>> \in vendor}

Forget ==
    /\ pc' = "idle"
    /\ asOf' = 0 /\ target' = 0 /\ behind' = {}

Goto(from, to) ==
    /\ pc = from
    /\ pc' = to

-----------------------------------------------------------------------------
(* service_current_paper_lifecycle.                                        *)

\* Mutant: only the securities of open positions are tracked.
StartServiceHeld ==
    /\ Goto("idle", "sync")
    /\ asOf' = LastCompleted
    /\ behind' = {o.company : o \in positions}
    /\ UNCHANGED <<world, bars, ledger, target>>

\* Mutant: only the securities of pending orders are tracked.
StartServiceQueued ==
    /\ Goto("idle", "sync")
    /\ asOf' = LastCompleted
    /\ behind' = {x.entry.company : x \in waiting}
    /\ UNCHANGED <<world, bars, ledger, target>>

\* The securities of the ledger, serviced as of the last completed close.
StartService ==
    /\ Goto("idle", "sync")
    /\ asOf' = LastCompleted
    /\ behind' = {o.company : o \in positions} \cup {x.entry.company : x \in waiting}
    /\ UNCHANGED <<world, bars, ledger, target>>

SyncSecurity(c) ==
    /\ pc = "sync"
    /\ c \in behind
    /\ FetchSeries(c, Published(c, asOf))
    /\ behind' = behind \ {c}
    /\ UNCHANGED <<world, ledger, pc, asOf, target>>

SyncDone ==
    /\ Goto("sync", "settle")
    /\ behind = {}
    /\ UNCHANGED <<world, bars, ledger, memory>>

SettleDue ==
    /\ Goto("settle", "exit")
    /\ Settle(asOf)
    /\ UNCHANGED <<world, bars, memory>>

ExitDue ==
    /\ Goto("exit", "serviced")
    /\ Execute(ExitOrders(asOf), asOf)
    /\ UNCHANGED <<world, bars, memory>>

\* The guard rejects, or no pending event trades the next open.
EndPipeline ==
    /\ pc = "serviced"
    /\ Forget
    /\ UNCHANGED <<world, bars, ledger>>

-----------------------------------------------------------------------------
(* The decision cycle, as the ledger sees it.                              *)

\* The cycle freezes its as_of; the batch's companies are refreshed first.
StartCycle ==
    /\ Goto("serviced", "refresh")
    /\ asOf' = LastCompleted
    /\ target' = NextOpen
    /\ NextOpen <= MaxSession
    /\ behind' \in SUBSET Company
    /\ UNCHANGED <<world, bars, ledger>>

\* The range's response may be one that was stored earlier the same day.
RefreshCompany(c) ==
    /\ pc = "refresh"
    /\ c \in behind
    /\ \E received \in SUBSET Published(c, asOf) :
          /\ VendorInOrder => \A t \in received : 1..t \subseteq received
          /\ FetchSeries(c, received)
    /\ behind' = behind \ {c}
    /\ UNCHANGED <<world, ledger, pc, asOf, target>>

\* as_of.date() is the target's day or, on the evening before it and while an
\* earlier session trades, the day before.
RefreshDone ==
    /\ Goto("refresh", "settle_cycle")
    /\ behind = {}
    /\ asOf' \in {target - 1, target}
    /\ UNCHANGED <<world, bars, ledger, target, behind>>

SettleCycle ==
    /\ Goto("settle_cycle", "execute")
    /\ Settle(asOf)
    /\ UNCHANGED <<world, bars, memory>>

\* Mutant: pending BUYs do not reserve their company.
OccupiedByPositions == {o.company : o \in positions}

OccupiedCompanies ==
    {o.company : o \in positions}
        \cup {x.entry.company : x \in {y \in waiting : y.side = "BUY"}}

\* Exits and the champion's entries in one broker call.
ExecuteCycle ==
    /\ pc = "execute"
    /\ \E bought \in SUBSET (Company \ OccupiedCompanies) :
          Execute(ExitOrders(asOf) \cup
                      {BuyOf([company |-> c, on |-> target]) : c \in bought}, asOf)
    /\ Forget
    /\ UNCHANGED <<world, bars>>

-----------------------------------------------------------------------------
(* Environment.                                                            *)

\* A death, or a raise: a failed download, an unreadable row, another store.
Crash ==
    /\ pc # "idle"
    /\ crashes < MaxCrashes
    /\ crashes' = crashes + 1
    /\ Forget
    /\ UNCHANGED <<clock, vendor, bars, ledger>>

\* A session opens or closes, also while a process runs.
Tick ==
    /\ clock < 2 * MaxSession
    /\ clock' = clock + 1
    /\ UNCHANGED <<vendor, crashes, bars, ledger, pc, memory>>

\* The vendor publishes the bar of a completed session, soon, late or never.
Publish(c, t) ==
    /\ t <= LastCompleted
    /\ <<c, t>> \notin vendor
    /\ VendorInOrder => \A u \in 1..(t - 1) : <<c, u>> \in vendor
    /\ vendor' = vendor \cup {<<c, t>>}
    /\ UNCHANGED <<clock, crashes, bars, ledger, pc, memory>>

PublishAny == \E c \in Company, t \in Session : Publish(c, t)

PipelineStep ==
    \/ StartService
    \/ \E c \in Company : SyncSecurity(c)
    \/ SyncDone
    \/ SettleDue
    \/ ExitDue
    \/ EndPipeline
    \/ StartCycle
    \/ \E c \in Company : RefreshCompany(c)
    \/ RefreshDone
    \/ SettleCycle
    \/ ExecuteCycle

Next ==
    \/ PipelineStep
    \/ Crash
    \/ Tick
    \/ PublishAny

Spec == Init /\ [][Next]_vars

\* The scheduler reruns the pipeline, sessions come and go, and the vendor
\* publishes the bars it can publish.
FairSpec ==
    /\ Spec
    /\ WF_vars(PipelineStep)
    /\ WF_vars(Tick)
    /\ WF_vars(PublishAny)

-----------------------------------------------------------------------------
(* Safety.                                                                 *)

Entries(side) == {x.entry : x \in Orders(side)}
WaitingEntries == {x.entry : x \in {y \in waiting : y.side = "BUY"}}

\* PaperLedgerState accepts every state that is ever saved: no id is twice in
\* the journal or among the reports, and none is both pending and completed.
LedgerAccepted ==
    /\ \A x, y \in submitted : SameOrderId(x, y) => x = y
    /\ \A r, s \in reports : SameOrderId(r.order, s.order) => r = s
    /\ \A x \in waiting : ~ Completed(x)
    /\ submitted = waiting \cup {r.order : r \in reports}

\* An exit gets its report in the call that creates it.  A pending one would
\* be created again with another allocation, and its replay would raise.
ExitsNeverWait == \A x \in waiting : x.side = "BUY"

\* Whenever it was learned, a fill has the bar of its own session, and an exit
\* the last bar of its position's horizon, also by the bars known today.
FillsOnTheirSession ==
    \A r \in reports : r.filled =>
        /\ r.bar = r.order.on
        /\ <<r.order.entry.company, r.bar>> \in bars
        /\ r.order.side = "SELL" =>
              ExitSession(r.order.entry, MaxSession) = {r.order.on}

\* No BUY that the engine admits is rejected for want of a free company, and a
\* position is closed by the one exit order that names it.
NothingRejected ==
    /\ \A r \in reports : r.filled
    /\ positions = (Entries("BUY") \ WaitingEntries) \ Entries("SELL")

\* After a service run the ledger is a function of the orders ever submitted
\* and of the stored bars: how often the pipeline ran, was late, crashed or saw
\* a lagging vendor leaves no trace.
CaughtUp ==
    pc = "serviced" =>
        /\ WaitingEntries = {o \in Entries("BUY") : <<o.company, o.on>> \notin bars}
        /\ positions = {o \in Entries("BUY") :
                           /\ <<o.company, o.on>> \in bars
                           /\ ExitSession(o, MaxSession) = {}}

-----------------------------------------------------------------------------
(* Liveness and refinement.                                                *)

\* A vendor without holes lets every queued entry reach its final report ...
EntriesSettle ==
    \A o \in Entry : o \in WaitingEntries ~> o \notin WaitingEntries

\* ... and every position whose horizon ends be closed.
PositionsClose ==
    \A o \in Entry :
        (o \in positions /\ o.on + Horizon[o.company] <= MaxSession + 1)
            ~> o \notin positions

Contract == INSTANCE LedgerContract WITH
    next      <- NextOpen,
    submitted <- Entries("BUY"),
    waiting   <- WaitingEntries,
    held      <- positions

\* The ledger keeps the contract that CurrentCycle relies on.
ImplementsContract == Contract!Spec
=============================================================================
