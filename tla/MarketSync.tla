------------------------------ MODULE MarketSync ------------------------------
(* Market data: the vendor's series and the three ways bars get into the   *)
(* store.  The cycle synchronizes the companies of its pending batch       *)
(* (resolve the ticker on fresh metadata, map the company, fetch what is   *)
(* missing of the window before the event); the lifecycle step and the     *)
(* forward refresh extend the series they follow, by ticker; the benchmark *)
(* has a synchronization of its own.  All keep every response in one raw   *)
(* store, named by the ticker and the range asked for, and the cycle reads *)
(* a stored response before it asks the vendor.  A bar is the session it   *)
(* is of; a security is a ticker with the first session of its history.    *)
EXTENDS Integers, FiniteSets, TLC

CONSTANTS
    Company, Ticker,
    Spy,            \* the benchmark's ticker
    Window,         \* sessions before the event that a cycle asks for
    MaxSession,
    MaxFaults       \* bound on failed requests, responses with invalid rows,
                    \* corrected histories and renames

VARIABLES
    completed,      \* the last completed exchange session
    filed,          \* the ticker in the current Form 4 of each company
    vendor,         \* per ticker: first session of the history, last one published
    raw,            \* responses by name: the latest, and all that were kept
    mapped,         \* company_security_map: pairs of a company and a security
    bars,           \* security_market_daily: the sessions of each security
    sync,           \* the cycle's synchronization
    faults

vars == <<completed, filed, vendor, raw, mapped, bars, sync, faults>>

Session == 1 .. MaxSession
Security == (Ticker \cup {Spy}) \X Session
Benchmark == <<Spy, 1>>

First(days) == CHOOSE d \in days : \A x \in days : d <= x
Last(days) == CHOOSE d \in days : \A x \in days : x <= d

-----------------------------------------------------------------------------
(* FileRawStore.  Equal content under one name is one artifact that keeps  *)
(* the time of its first retrieval, and "latest" goes by that time.  All   *)
(* of the model happens within one month's directory.                      *)

Put(name, content) ==
    LET kept == IF name \in DOMAIN raw THEN raw[name].kept ELSE {}
    IN  IF content \in kept THEN raw
        ELSE [n \in DOMAIN raw \cup {name} |->
                 IF n = name THEN [latest |-> content, kept |-> kept \cup {content}]
                 ELSE raw[n]]

\* _price_record_id.
Name(t, range) == <<t, First(range), Last(range)>>

\* What the vendor may answer: the sessions it has published, some rows invalid.
Published(t, range) == {d \in range : vendor[t].from <= d /\ d <= vendor[t].through}

Answers(t, range) ==
    [rows : {Published(t, range)},
     invalid : IF faults < MaxFaults THEN SUBSET Published(t, range) ELSE {{}}]

Valid(answer) == answer.rows \ answer.invalid

\* The range that extends a series from its last stored bar.
Extension(s) == Last(bars[s]) + 1 .. completed

-----------------------------------------------------------------------------
(* DuckDbMarketStore and the ranges to ask for.                            *)

\* security_for_company: no answer when two mappings are open.
Lookup(c) ==
    LET open == {s \in Security : <<c, s>> \in mapped}
    IN  IF Cardinality(open) = 1 THEN open ELSE {}

\* Mutant: the suffix starts two sessions behind the stored bars.
MissingBehind(range, have) ==
    IF have = {} THEN {range}
    ELSE {{d \in range : d < First(have)}, {d \in range : d > Last(have) + 1}} \ {{}}

\* _missing_date_ranges: what lies before and behind the stored bars.
Missing(range, have) ==
    IF have = {} THEN {range}
    ELSE {{d \in range : d < First(have)}, {d \in range : d > Last(have)}} \ {{}}

\* The requests for one series: its whole range when that response is stored.
Asks(s, range) ==
    IF range = {} THEN {}
    ELSE IF Name(s[1], range) \in DOMAIN raw THEN {range}
    ELSE Missing(range, bars[s])

-----------------------------------------------------------------------------
Idle == [status |-> "idle"]
Resting == sync.status # "fetching"

Init ==
    /\ completed = 1
    /\ filed \in {f \in [Company -> Ticker] : \A c, d \in Company : f[c] = f[d] => c = d}
    /\ vendor = [t \in Ticker \cup {Spy} |-> [from |-> 1, through |-> 1]]
    /\ raw = << >>
    /\ mapped = {}
    /\ bars = [s \in Security |-> IF s = Benchmark THEN {1} ELSE {}]
    /\ sync = Idle
    /\ faults = 0

\* The exchange completes a session, and the last synchronization is history.
\* The vendor has the session some time later.
Close ==
    /\ Resting
    /\ completed < MaxSession
    /\ completed' = completed + 1
    /\ sync' = Idle
    /\ UNCHANGED <<filed, vendor, raw, mapped, bars, faults>>

Publish(t) ==
    /\ t = Spy \/ \E c \in Company : filed[c] = t
    /\ vendor[t].through < completed
    /\ vendor' = [vendor EXCEPT ![t].through = completed]
    /\ UNCHANGED <<completed, filed, raw, mapped, bars, sync, faults>>

\* The vendor corrects the first session of a history.
CorrectStart(t) ==
    /\ faults < MaxFaults
    /\ t # Spy /\ vendor[t].from < vendor[t].through
    /\ vendor' = [vendor EXCEPT ![t].from = @ + 1]
    /\ faults' = faults + 1
    /\ UNCHANGED <<completed, filed, raw, mapped, bars, sync>>

\* A company takes an unused ticker, and its history goes there.
Rename(c, t) ==
    /\ faults < MaxFaults
    /\ \A d \in Company : filed[d] # t
    /\ filed' = [filed EXCEPT ![c] = t]
    /\ vendor' = [vendor EXCEPT ![t] = vendor[filed[c]]]
    /\ faults' = faults + 1
    /\ UNCHANGED <<completed, raw, mapped, bars, sync>>

-----------------------------------------------------------------------------
(* The cycle: sync_pending_current_market.  The metadata is fetched fresh  *)
(* and read back from the raw store; the vendor's metadata of the model    *)
(* never returns to an earlier value, so the latest is the fresh one.      *)

\* ConservativeTiingoResolver: the observed day lies within the vendor's history.
Validated(c, on) == vendor[filed[c]].from <= on /\ on <= vendor[filed[c]].through

\* The current resolver: the history reaches the last completed session, and the
\* observation is validated on a day it covers.
Covered(c, observed) ==
    LET through == vendor[filed[c]].through
    IN  /\ through >= completed
        /\ Validated(c, IF observed <= through THEN observed ELSE through)

\* tiingo_security_id.
SecurityOf(c) == <<filed[c], vendor[filed[c]].from>>

\* Mappings are added, an earlier one of the company stays open.
Registered(companies) == mapped \cup {<<c, SecurityOf(c)>> : c \in companies}

\* The series to fetch, from Window sessions before the event.
Series(companies, observed) ==
    [s \in {SecurityOf(c) : c \in companies} |->
        {d \in s[2] .. completed : d >= observed - Window}]

\* Some covered companies bear the vendor's name; those are mapped.
Resolve(batch, observed) ==
    /\ Resting
    /\ batch # {} /\ observed \in completed .. completed + 1
    /\ \E known \in SUBSET {c \in batch : Covered(c, observed)} :
         LET series == Series(known, observed)
         IN  /\ mapped' = Registered(known)
             /\ sync' = [status |-> "fetching", batch |-> batch, end |-> completed,
                         secOf |-> [c \in known |-> SecurityOf(c)], range |-> series,
                         todo |-> UNION {{s} \X Asks(s, series[s]) : s \in DOMAIN series},
                         ok |-> known = batch]
    /\ UNCHANGED <<completed, filed, vendor, raw, bars, faults>>

\* A response's rows go to the store; one with invalid rows only is a failed series.
Store(s, answer, failing) ==
    /\ bars' = [bars EXCEPT ![s] = @ \cup Valid(answer)]
    /\ sync' = [sync EXCEPT !.todo = @ \ {failing},
                            !.ok = @ /\ (Valid(answer) # {} \/ answer.invalid = {})]

\* A stored response of that name is used again.
Reuse(ask) ==
    /\ sync.status = "fetching" /\ ask \in sync.todo
    /\ Name(ask[1][1], ask[2]) \in DOMAIN raw
    /\ Store(ask[1], raw[Name(ask[1][1], ask[2])].latest, ask)
    /\ UNCHANGED <<completed, filed, vendor, raw, mapped, faults>>

\* Otherwise the vendor is asked, the response kept and its valid rows stored.
Fetch(ask) ==
    LET t == ask[1][1] IN
    /\ sync.status = "fetching" /\ ask \in sync.todo
    /\ Name(t, ask[2]) \notin DOMAIN raw
    /\ \E answer \in Answers(t, ask[2]) :
         /\ raw' = Put(Name(t, ask[2]), answer)
         /\ Store(ask[1], answer, ask)
         /\ faults' = IF answer.invalid = {} THEN faults ELSE faults + 1
    /\ UNCHANGED <<completed, filed, vendor, mapped>>

\* A request fails: the batch is not ready, the other series are fetched.
FetchFails(ask) ==
    /\ sync.status = "fetching" /\ ask \in sync.todo
    /\ Name(ask[1][1], ask[2]) \notin DOMAIN raw
    /\ faults < MaxFaults
    /\ faults' = faults + 1
    /\ sync' = [sync EXCEPT !.todo = @ \ {ask}, !.ok = FALSE]
    /\ UNCHANGED <<completed, filed, vendor, raw, mapped, bars>>

\* _sync_benchmark, last: strict about invalid rows.
SyncBenchmark ==
    LET range == Extension(Benchmark)
        name == Name(Spy, range)
        Finish(answer) ==
            /\ bars' = IF answer.invalid = {} THEN [bars EXCEPT ![Benchmark] = @ \cup answer.rows]
                       ELSE bars
            /\ sync' = IF answer.invalid # {} THEN Idle
                       ELSE [sync EXCEPT !.status = IF sync.ok THEN "ready" ELSE "failed"]
    IN  /\ sync.status = "fetching" /\ sync.todo = {}
        /\ \/ /\ range = {}
              /\ Finish([rows |-> {}, invalid |-> {}])
              /\ UNCHANGED <<raw, faults>>
           \/ /\ range # {} /\ name \in DOMAIN raw
              /\ Finish(raw[name].latest)
              /\ UNCHANGED <<raw, faults>>
           \/ /\ range # {} /\ name \notin DOMAIN raw
              /\ \E answer \in Answers(Spy, range) :
                   /\ raw' = Put(name, answer)
                   /\ Finish(answer)
                   /\ faults' = IF answer.invalid = {} THEN faults ELSE faults + 1
        /\ UNCHANGED <<completed, filed, vendor, mapped>>

\* The process ends during a synchronization, or a raise ends it.
Crash ==
    /\ sync.status = "fetching"
    /\ sync' = Idle
    /\ UNCHANGED <<completed, filed, vendor, raw, mapped, bars, faults>>

-----------------------------------------------------------------------------
(* The lifecycle step and the forward refresh: a followed series is asked  *)
(* for by its stored ticker, always at the vendor.  Invalid rows raise     *)
(* after the response is kept.                                             *)

Follow(s) ==
    /\ Resting
    /\ bars[s] # {} /\ Extension(s) # {}
    /\ \E answer \in Answers(s[1], Extension(s)) :
         /\ raw' = Put(Name(s[1], Extension(s)), answer)
         /\ bars' = IF answer.invalid = {} THEN [bars EXCEPT ![s] = @ \cup answer.rows] ELSE bars
         /\ faults' = IF answer.invalid = {} THEN faults ELSE faults + 1
    /\ UNCHANGED <<completed, filed, vendor, mapped, sync>>

-----------------------------------------------------------------------------
Next ==
    \/ Close
    \/ \E t \in Ticker \cup {Spy} : Publish(t) \/ CorrectStart(t)
    \/ \E c \in Company, t \in Ticker : Rename(c, t)
    \/ \E batch \in SUBSET Company, observed \in 1 .. MaxSession + 1 : Resolve(batch, observed)
    \/ \E ask \in Security \X SUBSET Session : Reuse(ask) \/ Fetch(ask) \/ FetchFails(ask)
    \/ SyncBenchmark
    \/ Crash
    \/ \E s \in Security : Follow(s)

Spec == Init /\ [][Next]_vars

-----------------------------------------------------------------------------
(* Properties.                                                             *)

\* Bars and responses are of sessions that were complete; a synchronization
\* ends with every request answered, stored again or counted as a failure.
TypeOK ==
    /\ completed \in Session /\ faults \in 0 .. MaxFaults
    /\ filed \in [Company -> Ticker]
    /\ \A t \in Ticker \cup {Spy} : vendor[t].from <= vendor[t].through /\ vendor[t].through <= completed
    /\ \A s \in Security : bars[s] \subseteq s[2] .. completed
    /\ mapped \subseteq Company \X Security
    /\ \A n \in DOMAIN raw : raw[n].latest \in raw[n].kept
    /\ sync.status \in {"idle", "fetching", "ready", "failed"}
    /\ sync.status \in {"ready", "failed"} => sync.todo = {}

\* A response that was kept shows that session d of series s was absent or invalid.
Answered(s, d) ==
    \E n \in DOMAIN raw :
        /\ n[1] = s[1] /\ n[2] <= d /\ d <= n[3]
        /\ \E answer \in raw[n].kept : d \notin Valid(answer)

\* Only what lies before and behind the stored bars is asked for.  A window that
\* begins behind them leaves a hole, and one that reaches further back, for an
\* event filed earlier, does not fill it.
Hole(s, d) ==
    /\ d <= sync.end - Window
    /\ \E x, y \in bars[s] : x < d /\ d < y

\* After a ready synchronization a session missing from the window of the
\* security that candidates are built from was absent from a response the
\* vendor gave, or invalid in it, or lies in a hole: every session that all
\* windows of that close share was asked for.
AskedFor ==
    sync.status = "ready" =>
      \A c \in sync.batch : \A s \in Lookup(c) :
        /\ s \in DOMAIN sync.range
        /\ \A d \in sync.range[s] \ bars[s] : Answered(s, d) \/ Hole(s, d)

\* The docstring's promise (current_market.py:72): a synchronization is ready
\* only when the vendor's prices reach the last completed session.
ReadyIsCovered ==
    sync.status = "ready" => \A c \in sync.batch : sync.end \in bars[sync.secOf[c]]
=============================================================================
