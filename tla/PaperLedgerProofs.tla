-------------------------- MODULE PaperLedgerProofs --------------------------
(***************************************************************************)
(* Proofs about PaperLedger for every finite set of companies, every       *)
(* horizon, any number of sessions and crashes, and any vendor.            *)
(*                                                                         *)
(* The argument: entries are only queued for companies that are free, bars *)
(* are only appended, and nothing is priced but by the bar of its own      *)
(* session.  So every report is a fill, an exit keeps being the last bar   *)
(* of its horizon, and what a settlement leaves is determined by the bars. *)
(***************************************************************************)
EXTENDS PaperLedgerInvariant, FiniteSetTheorems, TLAPS

Inv == TypeOK /\ LedgerInvariant

-----------------------------------------------------------------------------
(* The horizon of an entry.                                                *)

\* ExitSession of any set of bars.
ExitBy(stored, o, day) ==
    {t \in o.on..day :
        /\ <<o.company, t>> \in stored
        /\ Cardinality({u \in o.on..t : <<o.company, u>> \in stored})
              = Horizon[o.company]}

\* Whatever day the manager looks, it finds the same exit session.
LEMMA ExitByUnique ==
    ASSUME NEW stored, NEW o \in Entry, NEW d \in Nat, NEW e \in Nat,
           NEW t \in ExitBy(stored, o, d), NEW u \in ExitBy(stored, o, e)
    PROVE  t = u
  <1> DEFINE Seen(v) == {w \in o.on..v : <<o.company, w>> \in stored}
  <1>1. ASSUME NEW v \in Nat, NEW w \in Nat, v < w,
               o.on <= w, <<o.company, w>> \in stored,
               Cardinality(Seen(v)) = Cardinality(Seen(w))
        PROVE  FALSE
    <2>1. IsFiniteSet(o.on..w)
      BY FS_Interval DEF Entry, Session
    <2>2. IsFiniteSet(Seen(w))
      BY <2>1, FS_Subset
    <2>3. Seen(v) \subseteq Seen(w)
      BY <1>1 DEF Entry, Session
    <2>4. w \in Seen(w) /\ w \notin Seen(v)
      BY <1>1 DEF Entry, Session
    <2> QED
      BY <2>2, <2>3, <2>4, <1>1, FS_Subset
  <1>2. t \in Nat /\ o.on <= t /\ <<o.company, t>> \in stored
    BY DEF ExitBy, Entry, Session
  <1>3. u \in Nat /\ o.on <= u /\ <<o.company, u>> \in stored
    BY DEF ExitBy, Entry, Session
  <1>4. Cardinality(Seen(t)) = Horizon[o.company]
    BY DEF ExitBy
  <1>5. Cardinality(Seen(u)) = Horizon[o.company]
    BY DEF ExitBy
  <1>6. ~ t < u
    BY <1>1, <1>2, <1>3, <1>4, <1>5
  <1>7. ~ u < t
    BY <1>1, <1>2, <1>3, <1>4, <1>5
  <1> QED
    BY <1>2, <1>3, <1>6, <1>7

LEMMA ExitUnique ==
    ASSUME NEW o \in Entry, NEW d \in Nat, NEW e \in Nat,
           NEW t \in ExitSession(o, d), NEW u \in ExitSession(o, e)
    PROVE  t = u
  <1>1. t \in ExitBy(bars, o, d) /\ u \in ExitBy(bars, o, e)
    BY DEF ExitSession, ExitBy
  <1> QED
    BY <1>1, ExitByUnique

\* Bars that arrive later do not move an exit.
LEMMA ExitStable ==
    ASSUME TypeOK, NEW c \in Company, NEW received \in SUBSET Session,
           FetchSeries(c, received),
           NEW o \in Entry, NEW d \in Nat, NEW t \in ExitSession(o, d)
    PROVE  t \in ExitSession(o, d)'
  <1>1. t \in o.on..d /\ t \in Session /\ <<o.company, t>> \in bars
    BY DEF ExitSession, TypeOK, Bar
  <1>2. <<o.company, t>> \in bars'
    BY <1>1 DEF FetchSeries
  <1>3. ASSUME NEW w \in o.on..t
        PROVE  <<o.company, w>> \in bars' <=> <<o.company, w>> \in bars
    <2>1. w \in Nat /\ w <= t
      BY <1>1 DEF Entry, Session
    <2> QED
      BY <1>1, <2>1 DEF FetchSeries, Session
  <1>4. {w \in o.on..t : <<o.company, w>> \in bars'}
          = {w \in o.on..t : <<o.company, w>> \in bars}
    BY <1>3
  <1>5. Cardinality({w \in o.on..t : <<o.company, w>> \in bars}) = Horizon[o.company]
    BY DEF ExitSession
  <1>6. Cardinality({w \in o.on..t : <<o.company, w>> \in bars'}) = Horizon[o.company]
    BY <1>4, <1>5
  <1> QED
    BY <1>1, <1>2, <1>6 DEF ExitSession

\* A fetched range lies in the sessions up to its end.
LEMMA PublishedType ==
    ASSUME TypeOK, NEW c \in Company, NEW until \in 0..MaxSession
    PROVE  /\ Published(c, until) \subseteq Session
           /\ \A t \in Published(c, until) : t <= until
  BY BoundsAssumption DEF Published, Session

-----------------------------------------------------------------------------
(* What one save does to a ledger that satisfies the invariant.            *)

LedgerTyped ==
    /\ submitted \subseteq Order
    /\ waiting \subseteq Order
    /\ reports \subseteq Report
    /\ positions \subseteq Entry

\* The part of the invariant that only the ledger and the bars decide.
LedgerSound ==
    /\ EntriesOnTime
    /\ OnePerCompany
    /\ ExitsOfFilled
    /\ LedgerAccepted
    /\ ExitsNeverWait
    /\ FillsOnTheirSession
    /\ NothingRejected

Filled(x) == [order |-> x, filled |-> TRUE, bar |-> x.on]

\* An order has a price exactly when the bar of its session is there.
LEMMA PricedMeaning ==
    ASSUME NEW x \in Order, NEW day
    PROVE  /\ PricingBar(x, day) \subseteq {x.on}
           /\ PricingBar(x, day) # {} <=>
                 x.on <= day /\ <<x.entry.company, x.on>> \in bars
  BY DEF PricingBar, Order

\* A pending order is the BUY of an entry that is neither held nor reported.
LEMMA WaitingMeaning ==
    ASSUME TypeOK, LedgerSound, NEW x \in waiting
    PROVE  /\ x \in Order /\ x \in submitted
           /\ x.side = "BUY" /\ x.on = x.entry.on
           /\ x.entry \in Entries("BUY") /\ x.entry \in WaitingEntries
           /\ x.entry \notin positions
           /\ ~ Completed(x)
  <1>1. x \in Order /\ x \in submitted /\ ~ Completed(x)
    BY DEF TypeOK, LedgerSound, LedgerAccepted
  <1>2. x.side = "BUY" /\ x.on = x.entry.on
    BY <1>1 DEF LedgerSound, ExitsNeverWait, EntriesOnTime
  <1>3. x.entry \in Entries("BUY") /\ x.entry \in WaitingEntries
    BY <1>1, <1>2 DEF Entries, Orders, WaitingEntries
  <1> QED
    BY <1>1, <1>2, <1>3 DEF LedgerSound, NothingRejected

\* Two pending orders of one company are the same order.
LEMMA WaitingUnique ==
    ASSUME TypeOK, LedgerSound, NEW x \in waiting, NEW y \in waiting,
           x.entry.company = y.entry.company
    PROVE  x = y
  <1>1. x.entry = y.entry
    BY WaitingMeaning DEF LedgerSound, OnePerCompany
  <1>2. SameOrderId(x, y)
    BY <1>1, WaitingMeaning DEF SameOrderId
  <1> QED
    BY <1>2, WaitingMeaning DEF LedgerSound, LedgerAccepted

\* An entry in force has been reported as filled, so its bar is stored.
LEMMA HeldHasBar ==
    ASSUME TypeOK, LedgerSound, NEW o \in Entries("BUY"), o \notin WaitingEntries
    PROVE  <<o.company, o.on>> \in bars
  <1>1. PICK x \in submitted : x.side = "BUY" /\ x.entry = o
    BY DEF Entries, Orders
  <1>2. x \notin waiting
    BY <1>1 DEF WaitingEntries
  <1>3. PICK r \in reports : r.order = x
    BY <1>2 DEF LedgerSound, LedgerAccepted
  <1>4. r.filled
    BY DEF LedgerSound, NothingRejected
  <1>5. <<x.entry.company, x.on>> \in bars
    BY <1>3, <1>4 DEF LedgerSound, FillsOnTheirSession
  <1> QED
    BY <1>1, <1>5 DEF LedgerSound, EntriesOnTime

\* An exit order in the journal is reported on the last bar of its horizon.
LEMMA ExitReported ==
    ASSUME TypeOK, LedgerSound, NEW x \in submitted, x.side = "SELL"
    PROVE  /\ Completed(x)
           /\ ExitSession(x.entry, MaxSession) = {x.on}
  <1>1. x \notin waiting
    BY DEF LedgerSound, ExitsNeverWait
  <1>2. PICK r \in reports : r.order = x
    BY <1>1 DEF LedgerSound, LedgerAccepted
  <1>3. r.filled
    BY DEF LedgerSound, NothingRejected
  <1> QED
    BY <1>2, <1>3 DEF LedgerSound, FillsOnTheirSession, Completed, SameOrderId

\* A settlement fills every pending order that has its bar.
LEMMA SettleEffect ==
    ASSUME TypeOK, LedgerSound, NEW day \in Nat, Settle(day)
    PROVE  /\ submitted' = submitted
           /\ waiting' = waiting \ Priced(waiting, day)
           /\ reports' = reports \cup {Filled(x) : x \in Priced(waiting, day)}
           /\ positions' = positions \cup {x.entry : x \in Priced(waiting, day)}
  <1> DEFINE priced == Priced(waiting, day)
  <1>1. priced \subseteq waiting
    BY DEF Priced
  <1>2. \A x \in priced : x.side = "BUY"
    BY <1>1, WaitingMeaning
  <1>3. Remaining(priced) = positions
    BY <1>2 DEF Remaining
  <1>4. ASSUME NEW x \in priced
        PROVE  x \in Accepted(priced)
    <2>1. \A o \in positions : o.company # x.entry.company
      BY <1>1, WaitingMeaning DEF LedgerSound, OnePerCompany
    <2>2. \A y \in priced : y.entry.company = x.entry.company => y = x
      BY <1>1, WaitingUnique
    <2>3. x.on <= x.on
      BY <1>1, WaitingMeaning DEF Order, Session
    <2> QED
      BY <1>2, <1>3, <2>1, <2>2, <2>3 DEF Accepted
  <1>5. Accepted(priced) = priced
    BY <1>4 DEF Accepted
  <1>6. \A x \in priced : PricingBar(x, day) = {x.on}
    BY <1>1, WaitingMeaning, PricedMeaning DEF Priced
  <1>7. UNION {{[order |-> x, filled |-> x \in Accepted(priced), bar |-> t]
                   : t \in PricingBar(x, day)} : x \in priced}
          = {Filled(x) : x \in priced}
    <2>1. \A x \in priced :
             {[order |-> x, filled |-> x \in Accepted(priced), bar |-> t]
                 : t \in PricingBar(x, day)} = {Filled(x)}
      BY <1>5, <1>6 DEF Filled
    <2> QED
      BY <2>1
  <1>8. {y \in Accepted(priced) : y.side = "BUY"} = priced
    BY <1>2, <1>5
  <1> QED
    BY <1>3, <1>7, <1>8 DEF Settle, Fill

PricedEntries(day) == {x.entry : x \in Priced(waiting, day)}

\* The journal is untouched by a settlement, and the reported entries move from
\* the queue to the positions.
LEMMA SettleSound ==
    ASSUME TypeOK, LedgerSound, NEW day \in Nat, Settle(day), UNCHANGED bars
    PROVE  /\ LedgerTyped' /\ LedgerSound'
           /\ Entries("BUY")' = Entries("BUY")
           /\ Entries("SELL")' = Entries("SELL")
           /\ WaitingEntries' = WaitingEntries \ PricedEntries(day)
           /\ PricedEntries(day) \subseteq WaitingEntries
           /\ positions' = positions \cup PricedEntries(day)
  <1> DEFINE priced == Priced(waiting, day)
  <1>1. /\ submitted' = submitted
        /\ waiting' = waiting \ priced
        /\ reports' = reports \cup {Filled(x) : x \in priced}
        /\ positions' = positions \cup {x.entry : x \in priced}
    BY SettleEffect
  <1>2. \A x \in priced : x \in waiting
    BY DEF Priced
  <1>3. \A x \in priced : /\ x.on <= day
                          /\ <<x.entry.company, x.on>> \in bars
    BY <1>2, WaitingMeaning, PricedMeaning DEF Priced
  <1>4. LedgerTyped'
    <2>1. \A x \in priced : Filled(x) \in Report /\ x.entry \in Entry
      BY <1>2, WaitingMeaning DEF Filled, Report, Order
    <2> QED
      BY <1>1, <2>1 DEF LedgerTyped, TypeOK
  <1>5. Entries("BUY")' = Entries("BUY") /\ Entries("SELL")' = Entries("SELL")
    BY <1>1 DEF Entries, Orders
  <1>6. WaitingEntries' = WaitingEntries \ {x.entry : x \in priced}
    <2>1. ASSUME NEW x \in waiting, NEW y \in priced, x.entry = y.entry
          PROVE  x = y
      BY <1>2, <2>1, WaitingUnique
    <2> QED
      BY <1>1, <1>2, <2>1, WaitingMeaning DEF WaitingEntries
  <1>7. {x.entry : x \in priced} \subseteq WaitingEntries
    BY <1>2, WaitingMeaning
  <1>8. EntriesOnTime'
    BY <1>1 DEF LedgerSound, EntriesOnTime
  <1>9. OnePerCompany'
    BY <1>1, <1>6, <1>7 DEF LedgerSound, OnePerCompany
  <1>10. LedgerAccepted'
    <2>1. \A x \in priced : ~ Completed(x)
      BY <1>2, WaitingMeaning
    <2>2. \A r, s \in reports' : SameOrderId(r.order, s.order) => r = s
      <3>1. ASSUME NEW x \in priced, NEW r \in reports
            PROVE  ~ SameOrderId(r.order, x)
        BY <2>1 DEF Completed
      <3>2. ASSUME NEW x \in priced, NEW y \in priced, SameOrderId(x, y)
            PROVE  x = y
        BY <1>2, <3>2, WaitingUnique DEF SameOrderId
      <3>3. \A x \in priced : Filled(x).order = x
        BY DEF Filled
      <3> QED
        BY <1>1, <3>1, <3>2, <3>3 DEF LedgerSound, LedgerAccepted, SameOrderId
    <2>3. \A x \in waiting' : ~ Completed(x)'
      <3>1. ASSUME NEW x \in waiting', NEW y \in priced
            PROVE  ~ SameOrderId(y, x)
        BY <1>1, <1>2, WaitingUnique DEF SameOrderId
      <3>2. \A y \in priced : Filled(y).order = y
        BY DEF Filled
      <3> QED
        BY <1>1, <3>1, <3>2, WaitingMeaning DEF Completed
    <2>4. submitted' = waiting' \cup {r.order : r \in reports'}
      <3>1. \A x \in priced : Filled(x).order = x
        BY DEF Filled
      <3> QED
        BY <1>1, <1>2, <3>1 DEF LedgerSound, LedgerAccepted
    <2> QED
      BY <1>1, <2>2, <2>3, <2>4 DEF LedgerSound, LedgerAccepted, SameOrderId
  <1>11. ExitsNeverWait'
    BY <1>1 DEF LedgerSound, ExitsNeverWait
  <1>12. FillsOnTheirSession'
    <2>1. ASSUME NEW r \in reports', r.filled
          PROVE  /\ r.bar = r.order.on
                 /\ <<r.order.entry.company, r.bar>> \in bars
                 /\ r.order.side = "SELL" =>
                       ExitSession(r.order.entry, MaxSession) = {r.order.on}
      <3>1. CASE r \in reports
        BY <2>1, <3>1 DEF LedgerSound, FillsOnTheirSession
      <3>2. CASE \E x \in priced : r = Filled(x)
        BY <1>2, <1>3, <3>2, WaitingMeaning DEF Filled
      <3> QED
        BY <1>1, <3>1, <3>2
    <2> QED
      BY <2>1 DEF FillsOnTheirSession, ExitSession
  <1>13. NothingRejected'
    <2>1. \A r \in reports' : r.filled
      BY <1>1 DEF LedgerSound, NothingRejected, Filled
    <2>2. \A x \in priced : x.entry \in Entries("BUY") \ Entries("SELL")
      BY <1>2, WaitingMeaning DEF LedgerSound, ExitsOfFilled
    <2> QED
      BY <1>1, <1>5, <1>6, <1>7, <2>1, <2>2 DEF LedgerSound, NothingRejected
  <1>14. ExitsOfFilled'
    BY <1>5, <1>6 DEF LedgerSound, ExitsOfFilled
  <1> QED
    BY <1>1, <1>4, <1>5, <1>6, <1>7, <1>8, <1>9, <1>10, <1>11, <1>12, <1>13, <1>14
       DEF LedgerSound, PricedEntries

\* A decision's broker call: the exits that are due close their positions and
\* are reported at once, and the entries, which trade a session without a bar,
\* all join the queue.
ExitingEntries(day) == {o \in positions : ExitSession(o, day) # {}}

LEMMA ExecuteEffect ==
    ASSUME TypeOK, LedgerSound, NEW day \in Nat,
           NEW entries \in SUBSET Entry,
           \A o \in entries : /\ <<o.company, o.on>> \notin bars
                              /\ o.company \notin OccupiedCompanies,
           Execute(ExitOrders(day) \cup {BuyOf(o) : o \in entries}, day)
    PROVE  /\ submitted' = submitted \cup ExitOrders(day) \cup {BuyOf(o) : o \in entries}
           /\ waiting' = waiting \cup {BuyOf(o) : o \in entries}
           /\ reports' = reports \cup {Filled(x) : x \in ExitOrders(day)}
           /\ positions' = positions \ ExitingEntries(day)
  <1> DEFINE exits  == ExitOrders(day)
             buys   == {BuyOf(o) : o \in entries}
             orders == exits \cup buys
             fresh  == {x \in orders : ~ Completed(x) /\ x \notin waiting}
             due    == {x \in fresh : x.side = "SELL" \/ x.on <= day}
             priced == Priced(due, day)
  <1>1. ASSUME NEW x \in exits
        PROVE  /\ x \in Order /\ x.side = "SELL" /\ x.entry \in positions
               /\ x.on \in ExitSession(x.entry, day)
    <2>1. PICK o \in positions : \E t \in ExitSession(o, day) :
             x = [side |-> "SELL", entry |-> o, on |-> t]
      BY DEF ExitOrders
    <2>3. PICK t \in ExitSession(o, day) :
             x = [side |-> "SELL", entry |-> o, on |-> t]
      BY <2>1
    <2>2. o \in Entry /\ t \in Session
      BY DEF TypeOK, ExitSession, Bar
    <2> QED
      BY <2>2, <2>3 DEF Order
  <1>2. ASSUME NEW x \in buys
        PROVE  /\ x \in Order /\ x.side = "BUY" /\ x.entry \in entries
               /\ x.on = x.entry.on /\ x = BuyOf(x.entry)
    BY DEF BuyOf, Order, Entry
  <1>3. \A x \in exits : ~ Completed(x) /\ x \notin waiting
    <2>1. ASSUME NEW x \in exits, NEW r \in reports, SameOrderId(r.order, x)
          PROVE  FALSE
      <3>1. r.order \in submitted /\ r.order.side = "SELL" /\ r.order.entry = x.entry
        BY <1>1, <2>1 DEF LedgerSound, LedgerAccepted, SameOrderId
      <3>2. x.entry \in Entries("SELL")
        BY <3>1 DEF Entries, Orders
      <3> QED
        BY <1>1, <3>2 DEF LedgerSound, NothingRejected
    <2> QED
      BY <1>1, <2>1, WaitingMeaning DEF Completed
  <1>4. \A x \in buys : ~ Completed(x) /\ x \notin waiting
    <2>1. ASSUME NEW x \in buys, NEW r \in reports, SameOrderId(r.order, x)
          PROVE  FALSE
      <3>1. r.filled /\ r.order \in submitted /\ r.order.side = "BUY"
            /\ r.order.entry = x.entry
        BY <1>2, <2>1 DEF LedgerSound, LedgerAccepted, NothingRejected, SameOrderId
      <3>2. <<x.entry.company, x.entry.on>> \in bars
        BY <3>1 DEF LedgerSound, FillsOnTheirSession, EntriesOnTime
      <3> QED
        BY <1>2, <3>2
    <2>2. ASSUME NEW x \in buys, x \in waiting
          PROVE  FALSE
      BY <1>2, <2>2 DEF OccupiedCompanies
    <2> QED
      BY <2>1, <2>2 DEF Completed
  <1>5. fresh = orders
    BY <1>3, <1>4
  <1>6. priced = exits
    <2>1. \A x \in buys : PricingBar(x, day) = {}
      BY <1>2, PricedMeaning
    <2>2. ASSUME NEW x \in exits
          PROVE  x.on <= day /\ <<x.entry.company, x.on>> \in bars
      <3>1. x.entry.on \in Nat /\ x.on \in Nat
        BY <1>1 DEF Order, Entry, Session
      <3>2. x.on \in x.entry.on..day /\ <<x.entry.company, x.on>> \in bars
        BY <1>1 DEF ExitSession
      <3> QED
        BY <3>1, <3>2
    <2>3. \A x \in exits : PricingBar(x, day) # {}
      BY <1>1, <2>2, PricedMeaning
    <2> QED
      BY <1>1, <1>5, <2>1, <2>3 DEF Priced
  <1>7. Remaining(exits) = positions \ ExitingEntries(day)
    <2>1. ASSUME NEW o \in positions, ExitSession(o, day) # {}
          PROVE  \E x \in exits : x.entry = o
      <3>1. PICK t : t \in ExitSession(o, day)
        BY <2>1
      <3>2. [side |-> "SELL", entry |-> o, on |-> t] \in exits
        BY <3>1 DEF ExitOrders
      <3> QED
        BY <3>2
    <2>2. ASSUME NEW o \in positions, NEW x \in exits, x.entry.company = o.company
          PROVE  x.entry = o
      BY <1>1, <2>2 DEF LedgerSound, OnePerCompany
    <2> QED
      BY <1>1, <2>1, <2>2 DEF Remaining, ExitingEntries
  <1>8. Accepted(exits) = exits
    BY <1>1 DEF Accepted
  <1>9. ASSUME NEW x \in exits
        PROVE  PricingBar(x, day) = {x.on}
    <2>1. x \in priced
      BY <1>6
    <2>2. PricingBar(x, day) # {}
      BY <2>1 DEF Priced
    <2>3. x \in Order
      BY <1>1
    <2>4. PricingBar(x, day) \subseteq {x.on}
      BY <2>3, PricedMeaning
    <2> QED
      BY <2>2, <2>4
  <1>10. UNION {{[order |-> x, filled |-> x \in Accepted(exits), bar |-> t]
                    : t \in PricingBar(x, day)} : x \in exits}
           = {Filled(x) : x \in exits}
    <2>1. \A x \in exits :
             {[order |-> x, filled |-> x \in Accepted(exits), bar |-> t]
                 : t \in PricingBar(x, day)} = {Filled(x)}
      BY <1>8, <1>9 DEF Filled
    <2> QED
      BY <2>1
  <1>11. {y \in Accepted(exits) : y.side = "BUY"} = {}
    BY <1>1, <1>8
  <1>12. fresh \ priced = buys
    BY <1>1, <1>2, <1>5, <1>6
  <1>13. /\ Fill(priced, day)
         /\ submitted' = submitted \cup orders
         /\ waiting' = waiting \cup (fresh \ priced)
    BY DEF Execute
  <1> HIDE DEF priced, fresh, due, exits, buys
  <1>14. /\ reports' = reports \cup {Filled(x) : x \in exits}
         /\ positions' = positions \ ExitingEntries(day)
    BY <1>6, <1>7, <1>10, <1>11, <1>13 DEF Fill
  <1> QED
    BY <1>12, <1>13, <1>14 DEF exits, buys

\* An exit order names a held entry and its only exit session.
LEMMA ExitOrderMeaning ==
    ASSUME TypeOK, NEW day \in 0..MaxSession, NEW x \in ExitOrders(day)
    PROVE  /\ x \in Order /\ x.side = "SELL"
           /\ x.entry \in ExitingEntries(day)
           /\ <<x.entry.company, x.on>> \in bars
           /\ ExitSession(x.entry, MaxSession) = {x.on}
  <1>1. PICK o \in positions : \E t \in ExitSession(o, day) :
           x = [side |-> "SELL", entry |-> o, on |-> t]
    BY DEF ExitOrders
  <1>2. PICK t \in ExitSession(o, day) :
           x = [side |-> "SELL", entry |-> o, on |-> t]
    BY <1>1
  <1>3. o \in Entry /\ t \in Session
    BY DEF TypeOK, ExitSession, Bar
  <1>4. x \in Order /\ x.side = "SELL" /\ x.entry = o /\ x.on = t
    BY <1>2, <1>3 DEF Order
  <1>5. day \in Nat /\ MaxSession \in Nat /\ day <= MaxSession
    BY BoundsAssumption
  <1>6. t \in ExitSession(o, MaxSession)
    <2>1. o.on \in Nat
      BY <1>3 DEF Entry, Session
    <2>2. t \in o.on..MaxSession
      BY <1>3, <2>1 DEF ExitSession, Session
    <2> QED
      BY <2>2 DEF ExitSession
  <1>7. ExitSession(o, MaxSession) = {t}
    BY <1>3, <1>5, <1>6, ExitUnique
  <1>8. <<o.company, t>> \in bars
    BY DEF ExitSession
  <1> QED
    BY <1>4, <1>7, <1>8 DEF ExitingEntries

\* Executing keeps the ledger sound: the exits leave a report each and no
\* pending order, and the entries queue for companies that were free.
LEMMA ExecuteSound ==
    ASSUME TypeOK, LedgerSound, NEW day \in 0..MaxSession,
           NEW entries \in SUBSET Entry,
           \A o \in entries : /\ <<o.company, o.on>> \notin bars
                              /\ o.company \notin OccupiedCompanies,
           \A o, p \in entries : o.company = p.company => o = p,
           Execute(ExitOrders(day) \cup {BuyOf(o) : o \in entries}, day),
           UNCHANGED bars
    PROVE  /\ LedgerTyped' /\ LedgerSound'
           /\ Entries("BUY")' = Entries("BUY") \cup entries
           /\ entries \cap Entries("BUY") = {}
           /\ WaitingEntries' = WaitingEntries \cup entries
           /\ Entries("SELL")' = Entries("SELL") \cup ExitingEntries(day)
  <1> DEFINE exits == ExitOrders(day)
             buys  == {BuyOf(o) : o \in entries}
             gone  == ExitingEntries(day)
  <1>1. /\ submitted' = submitted \cup exits \cup buys
        /\ waiting' = waiting \cup buys
        /\ reports' = reports \cup {Filled(x) : x \in exits}
        /\ positions' = positions \ gone
    <2>1. day \in Nat
      BY BoundsAssumption
    <2> QED
      BY <2>1, ExecuteEffect
  <1>2. \A x \in exits : /\ x \in Order /\ x.side = "SELL" /\ x.entry \in gone
                         /\ <<x.entry.company, x.on>> \in bars
                         /\ ExitSession(x.entry, MaxSession) = {x.on}
    <2> SUFFICES ASSUME NEW x \in exits
                 PROVE  /\ x \in Order /\ x.side = "SELL" /\ x.entry \in gone
                        /\ <<x.entry.company, x.on>> \in bars
                        /\ ExitSession(x.entry, MaxSession) = {x.on}
      OBVIOUS
    <2> QED
      BY ExitOrderMeaning
  <1>3. \A x \in buys : /\ x \in Order /\ x.side = "BUY" /\ x.entry \in entries
                        /\ x.on = x.entry.on
    BY DEF BuyOf, Order, Entry
  <1>4. gone \subseteq positions
    BY DEF ExitingEntries
  <1>5. \A x, y \in exits : x.entry = y.entry => x = y
    <2> SUFFICES ASSUME NEW x \in exits, NEW y \in exits, x.entry = y.entry
                 PROVE  x = y
      OBVIOUS
    <2>1. x \in Order /\ y \in Order /\ x.side = "SELL" /\ y.side = "SELL"
      BY <1>2
    <2>2. {x.on} = {y.on}
      BY <1>2
    <2>3. x.on = y.on
      BY <2>2
    <2> HIDE DEF exits
    <2> QED
      BY <2>1, <2>3 DEF Order
  <1>6. \A o \in gone : \E x \in exits : x.entry = o
    <2> SUFFICES ASSUME NEW o \in gone
                 PROVE  \E x \in exits : x.entry = o
      OBVIOUS
    <2>1. PICK t : t \in ExitSession(o, day)
      BY DEF ExitingEntries
    <2>2. [side |-> "SELL", entry |-> o, on |-> t] \in exits
      BY <1>4, <2>1 DEF ExitOrders
    <2> QED
      BY <2>2
  <1>7. \A o \in entries : \E x \in buys : x.entry = o
    <2> SUFFICES ASSUME NEW o \in entries
                 PROVE  \E x \in buys : x.entry = o
      OBVIOUS
    <2>1. BuyOf(o) \in buys
      OBVIOUS
    <2>2. BuyOf(o).entry = o
      BY DEF BuyOf
    <2> QED
      BY <2>1, <2>2
  <1>8. \A x \in exits : Filled(x).order = x /\ Filled(x).filled /\ Filled(x).bar = x.on
    BY DEF Filled
  <1> HIDE DEF exits, buys, gone
  <1>9. LedgerTyped'
    <2>1. \A x \in exits : Filled(x) \in Report
      BY <1>2 DEF Filled, Report, Order
    <2>2. submitted' \subseteq Order /\ waiting' \subseteq Order
      BY <1>1, <1>2, <1>3 DEF TypeOK
    <2>3. reports' \subseteq Report
      BY <1>1, <2>1 DEF TypeOK
    <2>4. positions' \subseteq Entry
      BY <1>1 DEF TypeOK
    <2> QED
      BY <2>2, <2>3, <2>4 DEF LedgerTyped
  <1>10. /\ Entries("BUY")' = Entries("BUY") \cup entries
         /\ Entries("SELL")' = Entries("SELL") \cup gone
    <2>1. \A x \in submitted' : x \in submitted \/ x \in exits \/ x \in buys
      BY <1>1
    <2>2. \A o : o \in Entries("BUY")' <=> \E x \in submitted' : x.side = "BUY" /\ x.entry = o
      BY DEF Entries, Orders
    <2>3. \A o : o \in Entries("BUY") <=> \E x \in submitted : x.side = "BUY" /\ x.entry = o
      BY DEF Entries, Orders
    <2>4. \A o : o \in Entries("SELL")' <=> \E x \in submitted' : x.side = "SELL" /\ x.entry = o
      BY DEF Entries, Orders
    <2>5. \A o : o \in Entries("SELL") <=> \E x \in submitted : x.side = "SELL" /\ x.entry = o
      BY DEF Entries, Orders
    <2>6. \A o : o \in Entries("BUY")' <=> o \in Entries("BUY") \/ o \in entries
      <3>1. ASSUME NEW o, o \in Entries("BUY")'
            PROVE  o \in Entries("BUY") \/ o \in entries
        <4>1. PICK x \in submitted' : x.side = "BUY" /\ x.entry = o
          BY <2>2, <3>1
        <4>2. x \in submitted \/ x \in buys
          BY <1>2, <2>1, <4>1
        <4> QED
          BY <1>3, <2>3, <4>1, <4>2
      <3>2. ASSUME NEW o \in entries
            PROVE  o \in Entries("BUY")'
        <4>1. PICK x \in buys : x.entry = o
          BY <1>7
        <4>2. x \in submitted' /\ x.side = "BUY"
          BY <1>1, <1>3
        <4> QED
          BY <2>2, <4>1, <4>2
      <3>3. \A o \in Entries("BUY") : o \in Entries("BUY")'
        BY <1>1, <2>2, <2>3
      <3> QED
        BY <3>1, <3>2, <3>3
    <2>7. \A o : o \in Entries("SELL")' <=> o \in Entries("SELL") \/ o \in gone
      <3>1. ASSUME NEW o, o \in Entries("SELL")'
            PROVE  o \in Entries("SELL") \/ o \in gone
        <4>1. PICK x \in submitted' : x.side = "SELL" /\ x.entry = o
          BY <2>4, <3>1
        <4>2. x \in submitted \/ x \in exits
          BY <1>3, <2>1, <4>1
        <4> QED
          BY <1>2, <2>5, <4>1, <4>2
      <3>2. ASSUME NEW o \in gone
            PROVE  o \in Entries("SELL")'
        <4>1. PICK x \in exits : x.entry = o
          BY <1>6
        <4>2. x \in submitted' /\ x.side = "SELL"
          BY <1>1, <1>2
        <4> QED
          BY <2>4, <4>1, <4>2
      <3>3. \A o \in Entries("SELL") : o \in Entries("SELL")'
        BY <1>1, <2>4, <2>5
      <3> QED
        BY <3>1, <3>2, <3>3
    <2> QED
      BY <2>6, <2>7
  <1>11. WaitingEntries' = WaitingEntries \cup entries
    BY <1>1, <1>3, <1>7 DEF WaitingEntries
  <1>12. \A o \in entries : o \notin WaitingEntries
    BY DEF OccupiedCompanies, WaitingEntries
  <1>13. entries \cap Entries("BUY") = {}
    BY <1>12, HeldHasBar
  <1>14. EntriesOnTime'
    BY <1>1, <1>2, <1>3 DEF LedgerSound, EntriesOnTime
  <1>15. OnePerCompany'
    <2>1. \A o \in entries, p \in positions \cup WaitingEntries : o.company # p.company
      BY DEF OccupiedCompanies, WaitingEntries
    <2> QED
      BY <1>1, <1>11, <2>1 DEF LedgerSound, OnePerCompany
  <1>16. ExitsOfFilled'
    <2>1. gone \subseteq Entries("BUY") \ WaitingEntries
      BY <1>4 DEF LedgerSound, NothingRejected
    <2> QED
      BY <1>10, <1>11, <1>13, <2>1 DEF LedgerSound, ExitsOfFilled
  <1>17. ExitsNeverWait'
    BY <1>1, <1>3 DEF LedgerSound, ExitsNeverWait
  <1>18. NothingRejected'
    <2>1. \A r \in reports' : r.filled
      BY <1>1, <1>8 DEF LedgerSound, NothingRejected
    <2> QED
      BY <1>1, <1>10, <1>11, <1>13, <2>1 DEF LedgerSound, NothingRejected
  <1>19. FillsOnTheirSession'
    <2>1. ASSUME NEW r \in reports', r.filled
          PROVE  /\ r.bar = r.order.on
                 /\ <<r.order.entry.company, r.bar>> \in bars
                 /\ r.order.side = "SELL" =>
                       ExitSession(r.order.entry, MaxSession) = {r.order.on}
      <3>1. CASE r \in reports
        BY <2>1, <3>1 DEF LedgerSound, FillsOnTheirSession
      <3>2. CASE \E x \in exits : r = Filled(x)
        BY <1>2, <1>8, <3>2
      <3> QED
        BY <1>1, <3>1, <3>2
    <2> QED
      BY <2>1 DEF FillsOnTheirSession, ExitSession
  <1>20. LedgerAccepted'
    <2>1. \A y \in submitted : y.side = "SELL" => y.entry \in Entries("SELL")
      BY DEF Entries, Orders
    <2>2. \A y \in submitted : y.side = "BUY" => y.entry \in Entries("BUY")
      BY DEF Entries, Orders
    <2>3. \A o \in gone : o \notin Entries("SELL")
      BY <1>4 DEF LedgerSound, NothingRejected
    <2>4. \A x \in exits, y \in submitted : ~ SameOrderId(x, y)
      BY <1>2, <2>1, <2>3 DEF SameOrderId
    <2>5. \A x \in buys, y \in submitted : ~ SameOrderId(x, y)
      BY <1>3, <1>13, <2>2 DEF SameOrderId
    <2>6. \A x, y \in exits : SameOrderId(x, y) => x = y
      BY <1>5 DEF SameOrderId
    <2>7. \A x, y \in buys : SameOrderId(x, y) => x = y
      BY <1>3 DEF SameOrderId, Order
    <2>8. \A x \in exits, y \in buys : ~ SameOrderId(x, y)
      BY <1>2, <1>3 DEF SameOrderId
    <2>9. \A r \in reports : r.order \in submitted
      BY DEF LedgerSound, LedgerAccepted
    <2>10. \A x, y \in submitted' : SameOrderId(x, y) => x = y
      <3>1. \A x, y \in submitted : SameOrderId(x, y) => x = y
        BY DEF LedgerSound, LedgerAccepted
      <3>2. \A x, y : SameOrderId(x, y) <=> SameOrderId(y, x)
        BY DEF SameOrderId
      <3> QED
        BY <1>1, <2>4, <2>5, <2>6, <2>7, <2>8, <3>1, <3>2
    <2>11. \A r, s \in reports' : SameOrderId(r.order, s.order) => r = s
      <3>1. \A r, s \in reports : SameOrderId(r.order, s.order) => r = s
        BY DEF LedgerSound, LedgerAccepted
      <3>2. \A x, y : SameOrderId(x, y) <=> SameOrderId(y, x)
        BY DEF SameOrderId
      <3> QED
        BY <1>1, <1>8, <2>4, <2>6, <2>9, <3>1, <3>2
    <2>12. \A x \in waiting', r \in reports' : ~ SameOrderId(r.order, x)
      <3>1. \A x \in waiting, r \in reports : ~ SameOrderId(r.order, x)
        BY DEF LedgerSound, LedgerAccepted, Completed
      <3>2. \A x, y : SameOrderId(x, y) <=> SameOrderId(y, x)
        BY DEF SameOrderId
      <3>3. waiting \subseteq submitted
        BY DEF LedgerSound, LedgerAccepted
      <3> QED
        BY <1>1, <1>8, <2>4, <2>5, <2>8, <2>9, <3>1, <3>2, <3>3
    <2>13. submitted' = waiting' \cup {r.order : r \in reports'}
      <3>1. submitted = waiting \cup {r.order : r \in reports}
        BY DEF LedgerSound, LedgerAccepted
      <3> QED
        BY <1>1, <1>8, <3>1
    <2> QED
      BY <2>10, <2>11, <2>12, <2>13 DEF LedgerAccepted, Completed, SameOrderId
  <1> QED
    BY <1>9, <1>10, <1>11, <1>13, <1>14, <1>15, <1>16, <1>17, <1>18, <1>19, <1>20
       DEF LedgerSound, gone

\* A ledger and bars that stay the same stay sound.
LEMMA SameLedger ==
    ASSUME LedgerSound, UNCHANGED <<ledger, bars>>
    PROVE  /\ LedgerSound'
           /\ Entries("BUY")' = Entries("BUY")
           /\ WaitingEntries' = WaitingEntries
  <1>1. /\ submitted' = submitted /\ waiting' = waiting
        /\ reports' = reports /\ positions' = positions /\ bars' = bars
    BY DEF ledger
  <1>2. WaitingEntries' = WaitingEntries
    BY <1>1 DEF WaitingEntries
  <1>3. Entries("BUY")' = Entries("BUY") /\ Entries("SELL")' = Entries("SELL")
    BY <1>1 DEF Entries, Orders
  <1>4. EntriesOnTime' /\ OnePerCompany' /\ ExitsOfFilled'
    BY <1>1, <1>2, <1>3 DEF LedgerSound, EntriesOnTime, OnePerCompany, ExitsOfFilled
  <1>5. LedgerAccepted' /\ ExitsNeverWait'
    BY <1>1 DEF LedgerSound, LedgerAccepted, ExitsNeverWait, Completed, SameOrderId
  <1>6. FillsOnTheirSession'
    BY <1>1 DEF LedgerSound, FillsOnTheirSession, ExitSession
  <1>7. NothingRejected'
    BY <1>1, <1>2, <1>3 DEF LedgerSound, NothingRejected
  <1> QED
    BY <1>2, <1>3, <1>4, <1>5, <1>6, <1>7 DEF LedgerSound

\* New bars change neither a fill nor the exit it names.
LEMMA FetchSound ==
    ASSUME TypeOK, LedgerSound, NEW c \in Company, NEW received \in SUBSET Session,
           FetchSeries(c, received), UNCHANGED ledger
    PROVE  LedgerSound'
  <1>1. \A b \in bars : b \in bars'
    BY DEF FetchSeries
  <1>2. ASSUME NEW r \in reports, r.filled, r.order.side = "SELL"
        PROVE  ExitSession(r.order.entry, MaxSession)' = {r.order.on}
    <2>1. r.order.entry \in Entry
      BY DEF TypeOK, Report, Order
    <2>2. r.order.on \in ExitSession(r.order.entry, MaxSession)
      BY <1>2 DEF LedgerSound, FillsOnTheirSession
    <2>3. MaxSession \in Nat
      BY BoundsAssumption
    <2>4. r.order.on \in ExitSession(r.order.entry, MaxSession)'
      BY <2>1, <2>2, <2>3, ExitStable
    <2>5. ExitSession(r.order.entry, MaxSession)' = ExitBy(bars', r.order.entry, MaxSession)
      BY DEF ExitSession, ExitBy
    <2>6. \A u \in ExitBy(bars', r.order.entry, MaxSession) : u = r.order.on
      BY <2>1, <2>3, <2>4, <2>5, ExitByUnique
    <2> QED
      BY <2>4, <2>5, <2>6
  <1>3. FillsOnTheirSession'
    <2>1. reports' = reports
      BY DEF ledger
    <2> SUFFICES ASSUME NEW r \in reports, r.filled
                 PROVE  /\ r.bar = r.order.on
                        /\ <<r.order.entry.company, r.bar>> \in bars'
                        /\ r.order.side = "SELL" =>
                              ExitSession(r.order.entry, MaxSession)' = {r.order.on}
      BY <2>1 DEF FillsOnTheirSession
    <2> QED
      BY <1>1, <1>2 DEF LedgerSound, FillsOnTheirSession
  <1>4. /\ submitted' = submitted /\ waiting' = waiting
        /\ reports' = reports /\ positions' = positions
    BY DEF ledger
  <1>5. WaitingEntries' = WaitingEntries
    BY <1>4 DEF WaitingEntries
  <1>6. Entries("BUY")' = Entries("BUY") /\ Entries("SELL")' = Entries("SELL")
    BY <1>4 DEF Entries, Orders
  <1>7. EntriesOnTime'
    BY <1>4 DEF LedgerSound, EntriesOnTime
  <1>8. OnePerCompany'
    BY <1>4, <1>5 DEF LedgerSound, OnePerCompany
  <1>9. ExitsOfFilled'
    BY <1>5, <1>6 DEF LedgerSound, ExitsOfFilled
  <1>10. LedgerAccepted'
    BY <1>4 DEF LedgerSound, LedgerAccepted, Completed, SameOrderId
  <1>11. ExitsNeverWait'
    BY <1>4 DEF LedgerSound, ExitsNeverWait
  <1>12. NothingRejected'
    BY <1>4, <1>5, <1>6 DEF LedgerSound, NothingRejected
  <1> QED
    BY <1>3, <1>7, <1>8, <1>9, <1>10, <1>11, <1>12 DEF LedgerSound

-----------------------------------------------------------------------------
(* Every step keeps the invariant.                                         *)

LEMMA Clock ==
    ASSUME TypeOK
    PROVE  /\ LastCompleted \in 0..MaxSession
           /\ NextOpen \in Nat /\ LastCompleted < NextOpen
  BY BoundsAssumption DEF TypeOK, LastCompleted, NextOpen

LEMMA InitInv == Init => Inv
  <1> SUFFICES ASSUME Init PROVE Inv
    OBVIOUS
  <1>1. TypeOK
    BY BoundsAssumption DEF Init, TypeOK, Steps
  <1>2. Entries("BUY") = {} /\ Entries("SELL") = {} /\ WaitingEntries = {}
    BY DEF Init, Entries, Orders, WaitingEntries
  <1>3. Clocked
    BY DEF Init, Clocked, Servicing, Cycling
  <1>4. LedgerSound
    BY <1>2 DEF Init, LedgerSound, EntriesOnTime, OnePerCompany, ExitsOfFilled,
                LedgerAccepted, ExitsNeverWait, FillsOnTheirSession, NothingRejected
  <1>5. QueueSettled /\ CaughtUp
    BY DEF Init, QueueSettled, CaughtUp
  <1> QED
    BY <1>1, <1>3, <1>4, <1>5 DEF Inv, LedgerInvariant, LedgerSound

\* What the ledger lemmas need of the invariant.
LEMMA InvParts ==
    ASSUME Inv
    PROVE  TypeOK /\ LedgerSound /\ Clocked /\ QueueSettled /\ CaughtUp
  BY DEF Inv, LedgerInvariant, LedgerSound

\* Steps that touch neither the ledger nor the bars.
LEMMA QuietStep ==
    ASSUME Inv, UNCHANGED <<ledger, bars>>, TypeOK', Clocked',
           pc' \in {"exit", "serviced"} => pc' = pc
    PROVE  Inv'
  <1>1. LedgerSound'
    BY InvParts, SameLedger
  <1>2. QueueSettled' /\ CaughtUp'
    BY InvParts, SameLedger DEF QueueSettled, CaughtUp, ExitSession, ledger
  <1> QED
    BY <1>1, <1>2 DEF Inv, LedgerInvariant, LedgerSound

\* Steps that fetch bars of completed sessions before the target.
LEMMA FetchStep ==
    ASSUME Inv, NEW c \in Company, NEW received \in SUBSET Published(c, asOf),
           pc \in {"sync", "refresh"},
           FetchSeries(c, received), behind' = behind \ {c},
           UNCHANGED <<world, ledger, pc, asOf, target>>
    PROVE  Inv'
  <1>1. TypeOK /\ LedgerSound /\ Clocked
    BY InvParts
  <1>2. received \subseteq Session /\ \A t \in received : t <= asOf
    BY <1>1, PublishedType DEF TypeOK
  <1>3. TypeOK'
    BY <1>1, <1>2 DEF TypeOK, FetchSeries, Bar, world, ledger
  <1>4. Clocked'
    <2>1. asOf <= LastCompleted /\ (pc = "refresh" => asOf < target)
      BY <1>1 DEF Clocked, Servicing
    <2>2. ASSUME NEW d \in Company, NEW t \in Session, <<d, t>> \in bars'
          PROVE  <<d, t>> \in bars \/ t <= asOf
      BY <1>2, <2>2 DEF FetchSeries
    <2>3. asOf \in Nat /\ target \in Nat /\ LastCompleted \in Nat
      BY <1>1, Clock, BoundsAssumption DEF TypeOK
    <2>4. LastCompleted' = LastCompleted
      BY DEF world, LastCompleted
    <2>5. \A t \in Session : t \in Nat
      BY DEF Session
    <2> QED
      BY <1>1, <2>1, <2>2, <2>3, <2>4, <2>5 DEF Clocked, Servicing, Cycling
  <1>5. LedgerSound'
    BY <1>1, <1>2, FetchSound
  <1> QED
    BY <1>3, <1>4, <1>5 DEF Inv, LedgerInvariant, LedgerSound, QueueSettled, CaughtUp

\* A settlement, in the lifecycle service or in a cycle: of the entries, those
\* without a bar stay pending.
LEMMA SettleStep ==
    ASSUME Inv, Settle(asOf),
           \/ Goto("settle", "exit")
           \/ Goto("settle_cycle", "execute"),
           UNCHANGED <<world, bars, memory>>
    PROVE  Inv'
  <1>1. TypeOK /\ LedgerSound /\ Clocked
    BY InvParts
  <1>2. asOf \in Nat
    BY <1>1, BoundsAssumption DEF TypeOK
  <1>3. /\ LedgerTyped' /\ LedgerSound'
        /\ Entries("BUY")' = Entries("BUY")
        /\ WaitingEntries' = WaitingEntries \ PricedEntries(asOf)
    BY <1>1, <1>2, SettleSound
  <1>4. TypeOK'
    BY <1>1, <1>3 DEF TypeOK, LedgerTyped, Goto, Steps, world, memory
  <1>5. Clocked'
    BY <1>1 DEF Clocked, Goto, Servicing, Cycling, world, memory, LastCompleted
  <1>6. QueueSettled'
    <2> SUFFICES ASSUME pc = "settle"
                 PROVE  WaitingEntries' =
                            {o \in Entries("BUY") : <<o.company, o.on>> \notin bars}
      BY <1>3 DEF QueueSettled, Goto
    <2>1. ASSUME NEW o \in WaitingEntries, <<o.company, o.on>> \in bars
          PROVE  o \in PricedEntries(asOf)
      <3>1. PICK x \in waiting : x.entry = o
        BY DEF WaitingEntries
      <3>2. x \in Order /\ x.on = o.on
        BY <1>1, <3>1, WaitingMeaning
      <3>3. o.company \in Company /\ o.on \in Session
        BY <3>1, <3>2 DEF Order, Entry
      <3>4. o.on <= asOf
        BY <1>1, <2>1, <3>3 DEF Clocked
      <3>5. x \in Priced(waiting, asOf)
        BY <2>1, <3>1, <3>2, <3>4, PricedMeaning DEF Priced
      <3> QED
        BY <3>1, <3>5 DEF PricedEntries
    <2>2. ASSUME NEW o \in PricedEntries(asOf)
          PROVE  <<o.company, o.on>> \in bars
      <3>1. PICK x \in Priced(waiting, asOf) : x.entry = o
        BY DEF PricedEntries
      <3>2. x \in waiting /\ PricingBar(x, asOf) # {}
        BY DEF Priced
      <3>3. x \in Order /\ x.on = o.on
        BY <1>1, <3>1, <3>2, WaitingMeaning
      <3> QED
        BY <3>1, <3>2, <3>3, PricedMeaning
    <2>3. \A o \in Entries("BUY") : <<o.company, o.on>> \notin bars => o \in WaitingEntries
      BY <1>1, HeldHasBar
    <2>4. WaitingEntries \subseteq Entries("BUY")
      BY <1>1, WaitingMeaning DEF WaitingEntries
    <2> QED
      BY <1>3, <2>1, <2>2, <2>3, <2>4
  <1>7. CaughtUp'
    BY DEF CaughtUp, Goto
  <1> QED
    BY <1>3, <1>4, <1>5, <1>6, <1>7 DEF Inv, LedgerInvariant, LedgerSound

\* The service's exits leave the positions whose horizon has not ended.
LEMMA ExitStep ==
    ASSUME Inv, ExitDue
    PROVE  Inv'
  <1>1. TypeOK /\ LedgerSound /\ Clocked /\ QueueSettled
    BY InvParts
  <1>2. asOf \in 0..MaxSession /\ asOf \in Nat /\ MaxSession \in Nat /\ asOf <= MaxSession
    BY <1>1, BoundsAssumption DEF TypeOK
  <1>3. {BuyOf(o) : o \in {}} = {}
    OBVIOUS
  <1>4. Execute(ExitOrders(asOf) \cup {BuyOf(o) : o \in {}}, asOf)
    BY <1>3 DEF ExitDue
  <1>5. UNCHANGED <<world, bars, memory>> /\ pc = "exit" /\ pc' = "serviced"
    BY DEF ExitDue, Goto
  <1>6. /\ LedgerTyped' /\ LedgerSound'
        /\ Entries("BUY")' = Entries("BUY")
        /\ WaitingEntries' = WaitingEntries
    <2> DEFINE none == {}
    <2>1. UNCHANGED bars
      BY <1>5
    <2>2. /\ none \in SUBSET Entry
          /\ \A o \in none : /\ <<o.company, o.on>> \notin bars
                             /\ o.company \notin OccupiedCompanies
          /\ \A o, p \in none : o.company = p.company => o = p
      OBVIOUS
    <2>3. Execute(ExitOrders(asOf) \cup {BuyOf(o) : o \in none}, asOf)
      BY <1>4
    <2>4. Entries("BUY") \cup none = Entries("BUY") /\ WaitingEntries \cup none = WaitingEntries
      OBVIOUS
    <2> HIDE DEF none
    <2>5. /\ LedgerTyped' /\ LedgerSound'
          /\ Entries("BUY")' = Entries("BUY") \cup none
          /\ WaitingEntries' = WaitingEntries \cup none
      BY <1>1, <1>2, <2>1, <2>2, <2>3, ExecuteSound
    <2> QED
      BY <2>4, <2>5
  <1>7. positions' = positions \ ExitingEntries(asOf)
    <2>1. {} \in SUBSET Entry
      OBVIOUS
    <2> QED
      BY <1>1, <1>2, <1>4, <2>1, ExecuteEffect
  <1>8. TypeOK'
    BY <1>1, <1>5, <1>6 DEF TypeOK, LedgerTyped, Steps, world, memory
  <1>9. Clocked'
    BY <1>1, <1>5 DEF Clocked, Servicing, Cycling, world, memory, LastCompleted
  <1>10. WaitingEntries = {o \in Entries("BUY") : <<o.company, o.on>> \notin bars}
    BY <1>1, <1>5 DEF QueueSettled
  <1>11. ASSUME NEW o \in Entry
         PROVE  ExitSession(o, MaxSession) = {} <=> ExitSession(o, asOf) = {}
    <2>1. o.company \in Company /\ o.on \in Nat
      BY DEF Entry, Session
    <2>2. ASSUME NEW t \in ExitSession(o, MaxSession)
          PROVE  t \in ExitSession(o, asOf)
      <3>1. t \in o.on..MaxSession /\ <<o.company, t>> \in bars
        BY DEF ExitSession
      <3>2. t \in Session
        BY <1>1, <3>1 DEF TypeOK, Bar
      <3>3. t <= asOf
        BY <1>1, <1>5, <2>1, <3>1, <3>2 DEF Clocked
      <3>4. t \in o.on..asOf
        BY <1>2, <2>1, <3>1, <3>3
      <3> QED
        BY <3>4 DEF ExitSession
    <2>3. ASSUME NEW t \in ExitSession(o, asOf)
          PROVE  t \in ExitSession(o, MaxSession)
      <3>1. t \in o.on..MaxSession
        BY <1>2, <2>1 DEF ExitSession
      <3> QED
        BY <3>1 DEF ExitSession
    <2> QED
      BY <2>2, <2>3
  <1>12. positions' = {o \in Entries("BUY") :
                          /\ <<o.company, o.on>> \in bars
                          /\ ExitSession(o, MaxSession) = {}}
    <2>1. positions = (Entries("BUY") \ WaitingEntries) \ Entries("SELL")
      BY <1>1 DEF LedgerSound, NothingRejected
    <2>2. \A o \in Entries("BUY") : o \in Entry
      BY <1>1 DEF Entries, Orders, TypeOK, Order
    <2>3. ASSUME NEW o \in Entries("SELL")
          PROVE  ExitSession(o, MaxSession) # {}
      <3>1. PICK x \in submitted : x.side = "SELL" /\ x.entry = o
        BY DEF Entries, Orders
      <3> QED
        BY <1>1, <3>1, ExitReported
    <2> QED
      BY <1>7, <1>10, <1>11, <2>1, <2>2, <2>3 DEF ExitingEntries
  <1>13. QueueSettled' /\ CaughtUp'
    BY <1>5, <1>6, <1>10, <1>12 DEF QueueSettled, CaughtUp, ExitSession
  <1> QED
    BY <1>6, <1>8, <1>9, <1>13 DEF Inv, LedgerInvariant, LedgerSound

\* The entries of a cycle: free companies, on a session that has no bar yet.
CycleEntries(bought) == {[company |-> c, on |-> target] : c \in bought}

LEMMA CycleEffect ==
    ASSUME Inv, pc = "execute", UNCHANGED bars,
           NEW bought \in SUBSET (Company \ OccupiedCompanies),
           Execute(ExitOrders(asOf) \cup
                      {BuyOf([company |-> c, on |-> target]) : c \in bought}, asOf)
    PROVE  /\ CycleEntries(bought) \in SUBSET Entry
           /\ \A o \in CycleEntries(bought) :
                 /\ <<o.company, o.on>> \notin bars
                 /\ o.company \notin OccupiedCompanies
           /\ \A o, p \in CycleEntries(bought) : o.company = p.company => o = p
           /\ Execute(ExitOrders(asOf) \cup {BuyOf(o) : o \in CycleEntries(bought)}, asOf)
  <1>1. target \in Session
    BY InvParts DEF Clocked, Cycling
  <1>2. target \in Nat
    BY <1>1 DEF Session
  <1>3. \A c \in Company : <<c, target>> \notin bars
    <2> SUFFICES ASSUME NEW c \in Company, <<c, target>> \in bars
                 PROVE  FALSE
      OBVIOUS
    <2>1. target < target
      BY <1>1, InvParts DEF Clocked, Cycling
    <2> QED
      BY <1>2, <2>1
  <1>4. {BuyOf(o) : o \in CycleEntries(bought)}
           = {BuyOf([company |-> c, on |-> target]) : c \in bought}
    BY DEF CycleEntries
  <1>5. CycleEntries(bought) \in SUBSET Entry
    BY <1>1 DEF CycleEntries, Entry
  <1>6. \A o \in CycleEntries(bought) : o.company \in bought /\ o.on = target
    BY DEF CycleEntries
  <1>7. \A o \in CycleEntries(bought) : /\ <<o.company, o.on>> \notin bars
                                        /\ o.company \notin OccupiedCompanies
    BY <1>3, <1>6
  <1>8. \A o, p \in CycleEntries(bought) : o.company = p.company => o = p
    BY DEF CycleEntries
  <1> QED
    BY <1>4, <1>5, <1>7, <1>8

LEMMA ExecuteStep ==
    ASSUME Inv, ExecuteCycle
    PROVE  Inv'
  <1>1. TypeOK /\ LedgerSound /\ Clocked
    BY InvParts
  <1>2. asOf \in 0..MaxSession
    BY <1>1 DEF TypeOK
  <1>3. UNCHANGED <<world, bars>> /\ pc = "execute" /\ Forget
    BY DEF ExecuteCycle
  <1>4. PICK bought \in SUBSET (Company \ OccupiedCompanies) :
           Execute(ExitOrders(asOf) \cup
                      {BuyOf([company |-> c, on |-> target]) : c \in bought}, asOf)
    BY DEF ExecuteCycle
  <1>5. LedgerTyped' /\ LedgerSound'
    BY <1>1, <1>2, <1>3, <1>4, CycleEffect, ExecuteSound
  <1>6. TypeOK'
    BY <1>1, <1>3, <1>5, BoundsAssumption DEF TypeOK, LedgerTyped, Steps, world, Forget
  <1>7. Clocked'
    BY <1>1, <1>3 DEF Clocked, Servicing, Cycling, world, Forget, LastCompleted
  <1>8. QueueSettled' /\ CaughtUp'
    BY <1>3 DEF QueueSettled, CaughtUp, Forget
  <1> QED
    BY <1>5, <1>6, <1>7, <1>8 DEF Inv, LedgerInvariant, LedgerSound

LEMMA NextInv == Inv /\ [Next]_vars => Inv'
  <1> SUFFICES ASSUME Inv, [Next]_vars PROVE Inv'
    OBVIOUS
  <1>1. TypeOK /\ Clocked
    BY InvParts
  <1>2. LastCompleted \in 0..MaxSession /\ NextOpen \in Nat /\ LastCompleted < NextOpen
    BY <1>1, Clock
  <1>3. \A t \in Session : t \in Nat /\ t <= MaxSession /\ t # 0
    BY BoundsAssumption DEF Session
  <1>4. CASE StartService
    <2>1. TypeOK'
      <3>1. behind' \subseteq Company
        BY <1>1, <1>4 DEF TypeOK, StartService, Order, Entry
      <3> QED
        BY <1>1, <1>2, <1>4, <3>1 DEF TypeOK, StartService, Goto, Steps, world, ledger
    <2>2. Clocked'
      BY <1>1, <1>2, <1>3, <1>4 DEF Clocked, StartService, Goto, Servicing, Cycling, world,
                                  LastCompleted
    <2> QED
      BY <1>4, <2>1, <2>2, QuietStep DEF StartService, Goto
  <1>5. ASSUME NEW c \in Company, SyncSecurity(c)
        PROVE  Inv'
    <2>1. Published(c, asOf) \in SUBSET Published(c, asOf)
      OBVIOUS
    <2> QED
      BY <1>5, <2>1, FetchStep DEF SyncSecurity
  <1>6. CASE SyncDone
    <2>1. TypeOK'
      BY <1>1, <1>6 DEF TypeOK, SyncDone, Goto, Steps, world, ledger, memory
    <2>2. Clocked'
      BY <1>1, <1>6 DEF Clocked, SyncDone, Goto, Servicing, Cycling, world, memory,
                        LastCompleted
    <2> QED
      BY <1>6, <2>1, <2>2, QuietStep DEF SyncDone, Goto
  <1>7. CASE SettleDue
    BY <1>7, SettleStep DEF SettleDue
  <1>8. CASE ExitDue
    BY <1>8, ExitStep
  <1>9. ASSUME Forget, UNCHANGED <<clock, vendor, bars, ledger>>,
               crashes' \in 0..MaxCrashes
        PROVE  Inv'
    <2>1. TypeOK'
      BY <1>1, <1>9, BoundsAssumption DEF TypeOK, Forget, Steps, ledger
    <2>2. Clocked'
      BY <1>1, <1>9 DEF Clocked, Forget, Servicing, Cycling, LastCompleted
    <2> QED
      BY <1>9, <2>1, <2>2, QuietStep DEF Forget
  <1>10. CASE EndPipeline
    BY <1>1, <1>9, <1>10 DEF EndPipeline, world, TypeOK
  <1>11. CASE StartCycle
    <2>1. TypeOK'
      <3>1. target' \in 0..MaxSession
        BY <1>2, <1>11, BoundsAssumption DEF StartCycle
      <3> QED
        BY <1>1, <1>2, <1>11, <3>1 DEF TypeOK, StartCycle, Goto, Steps, world, ledger
    <2>2. Clocked'
      <3>1. NextOpen \in Session
        BY <1>2, <1>11, BoundsAssumption DEF StartCycle, Session
      <3> QED
        BY <1>1, <1>2, <1>3, <1>11, <3>1
           DEF Clocked, StartCycle, Goto, Servicing, Cycling, world, LastCompleted, NextOpen
    <2> QED
      BY <1>11, <2>1, <2>2, QuietStep DEF StartCycle, Goto
  <1>12. ASSUME NEW c \in Company, RefreshCompany(c)
         PROVE  Inv'
    <2>1. PICK received \in SUBSET Published(c, asOf) : FetchSeries(c, received)
      BY <1>12 DEF RefreshCompany
    <2> QED
      BY <1>12, <2>1, FetchStep DEF RefreshCompany
  <1>13. CASE RefreshDone
    <2>1. target \in Session /\ target - 1 \in 0..MaxSession /\ target \in 0..MaxSession
      BY <1>1, <1>13, BoundsAssumption
         DEF Clocked, Cycling, RefreshDone, Goto, Session
    <2>2. TypeOK'
      BY <1>1, <1>13, <2>1 DEF TypeOK, RefreshDone, Goto, Steps, world, ledger
    <2>3. Clocked'
      <3>1. \A t \in Session : t < target => t <= target - 1 /\ t <= target
        BY <1>3, <2>1
      <3> QED
        BY <1>1, <1>13, <2>1, <3>1 DEF Clocked, RefreshDone, Goto, Servicing, Cycling, world,
                                LastCompleted
    <2> QED
      BY <1>13, <2>2, <2>3, QuietStep DEF RefreshDone, Goto
  <1>14. CASE SettleCycle
    BY <1>14, SettleStep DEF SettleCycle
  <1>15. CASE ExecuteCycle
    BY <1>15, ExecuteStep
  <1>16. CASE Crash
    <2>1. crashes' \in 0..MaxCrashes
      BY <1>1, <1>16, BoundsAssumption DEF Crash, TypeOK
    <2> QED
      BY <1>9, <1>16, <2>1 DEF Crash
  <1>17. CASE Tick
    <2>1. TypeOK'
      BY <1>1, <1>17, BoundsAssumption DEF TypeOK, Tick, ledger, memory
    <2>2. Clocked'
      <3>1. LastCompleted' \in Nat /\ LastCompleted \in Nat /\ LastCompleted <= LastCompleted'
        BY <1>1, <1>17, BoundsAssumption DEF TypeOK, Tick, LastCompleted
      <3>2. asOf \in Nat
        BY <1>1, BoundsAssumption DEF TypeOK
      <3> QED
        BY <1>1, <1>3, <1>17, <3>1, <3>2 DEF Clocked, Tick, memory
    <2> QED
      BY <1>17, <2>1, <2>2, QuietStep DEF Tick
  <1>18. ASSUME NEW c \in Company, NEW t \in Session, Publish(c, t)
         PROVE  Inv'
    <2>1. TypeOK'
      BY <1>1, <1>18 DEF TypeOK, Publish, Bar, ledger, memory
    <2>2. Clocked'
      BY <1>1, <1>18 DEF Clocked, Publish, memory, LastCompleted
    <2> QED
      BY <1>18, <2>1, <2>2, QuietStep DEF Publish
  <1>19. CASE UNCHANGED vars
    <2>1. TypeOK'
      BY <1>1, <1>19 DEF TypeOK, vars, world, ledger, memory
    <2>2. Clocked'
      BY <1>1, <1>19 DEF Clocked, vars, world, memory, LastCompleted
    <2> QED
      BY <1>19, <2>1, <2>2, QuietStep DEF vars
  <1> QED
    BY <1>4, <1>5, <1>6, <1>7, <1>8, <1>10, <1>11, <1>12, <1>13, <1>14, <1>15, <1>16,
       <1>17, <1>18, <1>19 DEF Next, PipelineStep, PublishAny

\* Clocked, QueueSettled and the ledger's own conjuncts hold in every state.
THEOREM LedgerInvariantCorrect == Spec => []Inv
  BY InitInv, NextInv, PTL DEF Spec

\* Every variable of the ledger, the bars and the process keeps its type.
THEOREM LedgerTypeCorrect == Spec => []TypeOK
  BY LedgerInvariantCorrect, InvParts, PTL

\* The next PaperLedgerState that is loaded passes its own validation.
THEOREM AcceptedCorrect == Spec => []LedgerAccepted
  <1>1. Inv => LedgerAccepted
    BY DEF Inv, LedgerInvariant
  <1> QED
    BY <1>1, LedgerInvariantCorrect, PTL

\* broker.execute never queues a SELL, so a replay never raises on one.
THEOREM ExitsNeverWaitCorrect == Spec => []ExitsNeverWait
  <1>1. Inv => ExitsNeverWait
    BY DEF Inv, LedgerInvariant
  <1> QED
    BY <1>1, LedgerInvariantCorrect, PTL

\* No fill has another session's bar, and no exit another horizon.
THEOREM FillsCorrect == Spec => []FillsOnTheirSession
  <1>1. Inv => FillsOnTheirSession
    BY DEF Inv, LedgerInvariant
  <1> QED
    BY <1>1, LedgerInvariantCorrect, PTL

\* The reservation of pending companies leaves the broker nothing to reject.
THEOREM NothingRejectedCorrect == Spec => []NothingRejected
  <1>1. Inv => NothingRejected
    BY DEF Inv, LedgerInvariant
  <1> QED
    BY <1>1, LedgerInvariantCorrect, PTL

\* After the service, the ledger is what its orders and the bars determine.
THEOREM CaughtUpCorrect == Spec => []CaughtUp
  <1>1. Inv => CaughtUp
    BY DEF Inv, LedgerInvariant
  <1> QED
    BY <1>1, LedgerInvariantCorrect, PTL

-----------------------------------------------------------------------------
(* PaperLedger implements LedgerContract.                                  *)
(*                                                                         *)
(*   Tick at a session's open        SessionOpens                          *)
(*   SettleDue, SettleCycle          Settle of the priced entries, filled  *)
(*   ExitDue, ExecuteCycle           Execute                               *)

ContractStep ==
    \/ Contract!Next
    \/ UNCHANGED <<NextOpen, Entries("BUY"), WaitingEntries, positions>>

\* An entry whose bar is stored trades a session before the next open.
LEMMA StoredBeforeOpen ==
    ASSUME Inv, NEW o \in Entry, <<o.company, o.on>> \in bars
    PROVE  o.on < NextOpen
  <1>1. o.on <= LastCompleted /\ o.on \in Nat
    BY InvParts DEF Clocked, Entry, Session
  <1>2. LastCompleted \in Nat /\ NextOpen \in Nat /\ LastCompleted < NextOpen
    BY InvParts, Clock, BoundsAssumption
  <1> QED
    BY <1>1, <1>2

LEMMA ContractSettle ==
    ASSUME Inv, Inv', Settle(asOf), UNCHANGED <<world, bars>>
    PROVE  ContractStep
  <1> DEFINE done == PricedEntries(asOf)
  <1>1. asOf \in Nat
    BY InvParts, BoundsAssumption DEF TypeOK
  <1>2. /\ Entries("BUY")' = Entries("BUY")
        /\ WaitingEntries' = WaitingEntries \ done
        /\ done \subseteq WaitingEntries
        /\ positions' = positions \cup done
    BY <1>1, InvParts, SettleSound
  <1>3. \A o \in done : o.on < NextOpen
    <2> SUFFICES ASSUME NEW x \in Priced(waiting, asOf)
                 PROVE  x.entry.on < NextOpen
      BY DEF PricedEntries
    <2>1. x \in waiting /\ PricingBar(x, asOf) # {}
      BY DEF Priced
    <2>2. x \in Order /\ x.on = x.entry.on
      BY <2>1, InvParts, WaitingMeaning
    <2>3. <<x.entry.company, x.entry.on>> \in bars
      BY <2>1, <2>2, PricedMeaning
    <2>4. x.entry \in Entry
      BY <2>2 DEF Order
    <2> QED
      BY <2>3, <2>4, StoredBeforeOpen
  <1>4. \A o \in done, p \in positions \cup done : p.company = o.company => p = o
    BY <1>2, InvParts DEF LedgerSound, OnePerCompany
  <1>5. NextOpen' = NextOpen
    BY DEF world, NextOpen
  <1> HIDE DEF done
  <1>6. Contract!Settle(done, done)
    BY <1>2, <1>3, <1>4, <1>5 DEF Contract!Settle
  <1> QED
    BY <1>2, <1>6 DEF ContractStep, Contract!Next

LEMMA ContractExecute ==
    ASSUME Inv, UNCHANGED <<world, bars>>, NEW entries \in SUBSET Entry,
           \A o \in entries : /\ <<o.company, o.on>> \notin bars
                              /\ o.company \notin OccupiedCompanies,
           \A o, p \in entries : o.company = p.company => o = p,
           Execute(ExitOrders(asOf) \cup {BuyOf(o) : o \in entries}, asOf)
    PROVE  ContractStep
  <1> DEFINE gone == ExitingEntries(asOf)
  <1>1. asOf \in 0..MaxSession /\ asOf \in Nat
    BY InvParts, BoundsAssumption DEF TypeOK
  <1>2. /\ Entries("BUY")' = Entries("BUY") \cup entries
        /\ entries \cap Entries("BUY") = {}
        /\ WaitingEntries' = WaitingEntries \cup entries
    BY <1>1, InvParts, ExecuteSound
  <1>3. positions' = positions \ gone
    BY <1>1, InvParts, ExecuteEffect
  <1>4. \A o \in entries, p \in positions \cup WaitingEntries \cup entries :
           p.company = o.company => p = o
    BY DEF OccupiedCompanies, WaitingEntries
  <1>5. gone \subseteq positions
    BY DEF ExitingEntries
  <1>6. \A p \in gone : p.on < NextOpen
    <2> SUFFICES ASSUME NEW p \in positions
                 PROVE  p.on < NextOpen
      BY <1>5
    <2>1. p \in Entries("BUY") /\ p \notin WaitingEntries /\ p \in Entry
      BY InvParts DEF LedgerSound, NothingRejected, TypeOK
    <2>2. <<p.company, p.on>> \in bars
      BY <2>1, InvParts, HeldHasBar
    <2> QED
      BY <2>1, <2>2, StoredBeforeOpen
  <1>7. NextOpen' = NextOpen
    BY DEF world, NextOpen
  <1> HIDE DEF gone
  <1>8. Contract!Execute(entries, gone)
    BY <1>2, <1>3, <1>4, <1>5, <1>6, <1>7 DEF Contract!Execute
  <1> QED
    BY <1>5, <1>8 DEF ContractStep, Contract!Next

LEMMA ContractNext ==
    ASSUME Inv, Inv', [Next]_vars
    PROVE  ContractStep
  <1>1. CASE SettleDue \/ SettleCycle
    BY <1>1, ContractSettle DEF SettleDue, SettleCycle
  <1>2. CASE ExitDue
    <2> DEFINE none == {}
    <2>1. UNCHANGED <<world, bars>>
      BY <1>2 DEF ExitDue
    <2>2. /\ none \in SUBSET Entry
          /\ \A o \in none : /\ <<o.company, o.on>> \notin bars
                             /\ o.company \notin OccupiedCompanies
          /\ \A o, p \in none : o.company = p.company => o = p
      OBVIOUS
    <2>3. {BuyOf(o) : o \in none} = {}
      OBVIOUS
    <2>4. Execute(ExitOrders(asOf) \cup {BuyOf(o) : o \in none}, asOf)
      BY <1>2, <2>3 DEF ExitDue
    <2> HIDE DEF none
    <2> QED
      BY <2>1, <2>2, <2>4, ContractExecute
  <1>3. CASE ExecuteCycle
    <2>1. UNCHANGED <<world, bars>> /\ pc = "execute"
      BY <1>3 DEF ExecuteCycle
    <2>2. PICK bought \in SUBSET (Company \ OccupiedCompanies) :
             Execute(ExitOrders(asOf) \cup
                        {BuyOf([company |-> c, on |-> target]) : c \in bought}, asOf)
      BY <1>3 DEF ExecuteCycle
    <2> QED
      BY <2>1, <2>2, CycleEffect, ContractExecute
  <1>4. CASE Tick
    <2>1. UNCHANGED ledger /\ clock' = clock + 1 /\ clock \in Nat
      BY <1>4, InvParts, BoundsAssumption DEF Tick, TypeOK
    <2>2. NextOpen' = NextOpen \/ NextOpen' = NextOpen + 1
      BY <2>1 DEF NextOpen
    <2>3. UNCHANGED <<Entries("BUY"), WaitingEntries, positions>>
      BY <2>1 DEF ledger, Entries, Orders, WaitingEntries
    <2> QED
      BY <2>2, <2>3 DEF ContractStep, Contract!Next, Contract!SessionOpens
  <1>5. ASSUME UNCHANGED <<clock, ledger>> PROVE ContractStep
    BY <1>5 DEF ContractStep, ledger, NextOpen, Entries, Orders, WaitingEntries
  <1>6. CASE StartService \/ SyncDone \/ EndPipeline \/ StartCycle \/ RefreshDone
             \/ (\E c \in Company : SyncSecurity(c) \/ RefreshCompany(c))
    BY <1>5, <1>6 DEF StartService, SyncDone, EndPipeline, StartCycle, RefreshDone,
                      SyncSecurity, RefreshCompany, world
  <1>7. CASE Crash \/ PublishAny \/ UNCHANGED vars
    BY <1>5, <1>7 DEF Crash, PublishAny, Publish, vars, world
  <1> QED
    BY <1>1, <1>2, <1>3, <1>4, <1>6, <1>7 DEF Next, PipelineStep

\* Bars, exit orders, crashes and late vendors together leave the pipeline the
\* ledger it relies on.
THEOREM ContractCorrect == Spec => ImplementsContract
  <1>1. Init => Contract!Init
    BY DEF Init, Contract!Init, NextOpen, Entries, Orders, WaitingEntries
  <1>2. Inv /\ Inv' /\ [Next]_vars =>
           [Contract!Next]_<<NextOpen, Entries("BUY"), WaitingEntries, positions>>
    BY ContractNext DEF ContractStep
  <1> QED
    BY LedgerInvariantCorrect, <1>1, <1>2, PTL DEF Spec, ImplementsContract, Contract!Spec
=============================================================================
