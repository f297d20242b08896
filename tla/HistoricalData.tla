---------------------------- MODULE HistoricalData ----------------------------
(* The history that research is done on, prepared by commands an operator  *)
(* runs one after the other: population from the SEC's quarterly archives, *)
(* the issuer snapshot, the choice of a historical universe, its market    *)
(* population, and the lobbying enrichment.  Each writes several files or  *)
(* databases and can end between any two writes; a later run goes over     *)
(* what an earlier one left.  A row is a transaction of an archive, with   *)
(* its issuer, the issuer's name and the days it was traded and filed.     *)
EXTENDS Integers, FiniteSets, FiniteSetsExt

CONSTANTS
    Quarters,       \* 1 .. n
    Rows,           \* [id, quarter, form4, company, name, symbol, traded, filed]
    Late,           \* the rows that the SEC adds to an archive after its first publication
    Pages,          \* of the lobbying register: sequence of sets of [id, client, name]
    Rank,           \* the order of companies by seed and identity
    Traceable,      \* the companies that the price vendor has a matching history of
    Path,           \* files for universe manifests
    Most,           \* companies in a universe
    MaxJobs, MaxFaults,
    None, Torn      \* no file; a file whose writing was cut off

VARIABLES
    archive,        \* per quarter, the rows the SEC publishes
    stored,         \* the stored archives
    events,         \* rows with an event in events.duckdb
    companies,      \* sec_companies.jsonl: pairs of a company and a name
    observed,       \* sec_issuer_observations.jsonl: the same pairs, of issuers with a symbol
    metadata,       \* sec_snapshot.json: the range and the number of observations
    holdouts,       \* universe manifests: their companies, and what they were to exclude
    listed,         \* company_security_map: the companies with a security
    alias,          \* aliases.duckdb: the company of a lobbying client
    lobbying,       \* lobbying events in events.duckdb: company or None
    command, commands, mishaps

vars == <<archive, stored, events, companies, observed, metadata, holdouts, listed, alias,
          lobbying, command, commands, mishaps>>

Issuer == {r.company : r \in Rows}
Client == UNION {{f.client : f \in Pages[p]} : p \in DOMAIN Pages}
FilingId == UNION {{f.id : f \in Pages[p]} : p \in DOMAIN Pages}
Ranges == {from .. to : from \in Quarters, to \in Quarters} \ {{}}

-----------------------------------------------------------------------------
(* What the commands derive from an archive.                               *)

\* QuarterlyArchiveParser.parse: non-derivative rows of forms 4 and 4/A.
Transactions(content) == {r \in content : r.form4}

\* has_temporal_anomaly: disclosed before it was traded.
Anomalous(r) == r.traded > r.filed

\* to_events: an event of each other row, public when its filing day ends.
EventsOf(content) == {r \in Transactions(content) : ~Anomalous(r)}

\* The company manifest, which population and snapshot build alike, and the
\* observations, of issuers that name a trading symbol.
Issuers(rows) == {<<r.company, r.name>> : r \in rows}
Observations(rows) == Issuers({r \in rows : r.symbol})

\* load_unique_company_name_index: the companies of a name.
Named(name) == {pair[1] : pair \in {p \in companies : p[2] = name}}

-----------------------------------------------------------------------------
Rest == [kind |-> "rest"]
Ready == command.kind \in {"rest", "populated"}
Files == <<companies, observed, metadata>>
Markets == <<holdouts, listed>>
Lobby == <<alias, lobbying>>
Bounds == <<commands, mishaps>>

Init ==
    /\ archive = [q \in Quarters |-> {r \in Rows \ Late : r.quarter = q}]
    /\ stored = [q \in Quarters |-> None]
    /\ events = {}
    /\ companies = None /\ observed = None /\ metadata = None
    /\ holdouts = [p \in Path |-> None]
    /\ listed = {}
    /\ alias = [c \in Client |-> None]
    /\ lobbying = << >>
    /\ command = Rest
    /\ commands = 0 /\ mishaps = 0

\* The SEC adds late rows to a published archive.
Revise(q) ==
    /\ archive[q] # {r \in Rows : r.quarter = q}
    /\ archive' = [archive EXCEPT ![q] = {r \in Rows : r.quarter = q}]
    /\ UNCHANGED <<stored, events, Files, Markets, Lobby, command, Bounds>>

Begin(next) ==
    /\ Ready /\ commands < MaxJobs
    /\ command' = next
    /\ commands' = commands + 1

-----------------------------------------------------------------------------
(* populate_sec_and_market.                                                *)

StartPopulate(range, refresh) ==
    /\ Begin([kind |-> "retrieve", range |-> range, todo |-> range, refresh |-> refresh, seen |-> {}])
    /\ UNCHANGED <<archive, stored, events, Files, Markets, Lobby, mishaps>>

\* The next quarter's archive is stored unless an earlier one may be used.
Retrieve ==
    /\ command.kind = "retrieve" /\ command.todo # {}
    /\ LET q == Min(command.todo) IN
         stored' = IF command.refresh \/ stored[q] = None THEN [stored EXCEPT ![q] = archive[q]] ELSE stored
    /\ command' = [command EXCEPT !.kind = "ingest"]
    /\ UNCHANGED <<archive, events, Files, Markets, Lobby, Bounds>>

\* Its events are put, those already there stay, and its issuers noted.
Ingest ==
    /\ command.kind = "ingest"
    /\ LET q == Min(command.todo) IN
         /\ events' = events \cup EventsOf(stored[q])
         /\ command' = [command EXCEPT !.kind = "retrieve", !.todo = @ \ {q},
                                       !.seen = @ \cup Transactions(stored[q])]
    /\ UNCHANGED <<archive, stored, Files, Markets, Lobby, Bounds>>

\* The manifest holds the issuers of this range only, whatever it held before.
WriteCompanies ==
    /\ command.kind = "retrieve" /\ command.todo = {}
    /\ companies' = Issuers(command.seen)
    /\ command' = [command EXCEPT !.kind = "report"]
    /\ UNCHANGED <<archive, stored, events, observed, metadata, Markets, Lobby, Bounds>>

\* The report, or the market population of what was observed.
Report ==
    /\ command.kind = "report"
    /\ \/ command' = [kind |-> "populated", range |-> command.range]
       \/ command' = [kind |-> "resolve",
                      companies |-> {pair[1] : pair \in Observations(command.seen)}]
    /\ UNCHANGED <<archive, stored, events, Files, Markets, Lobby, Bounds>>

-----------------------------------------------------------------------------
(* build_sec_universe_snapshot: three files, one after the other.          *)

StartSnapshot(range) ==
    /\ \A q \in range : stored[q] # None
    /\ Begin([kind |-> "observe", range |-> range,
              seen |-> UNION {Transactions(stored[q]) : q \in range}])
    /\ UNCHANGED <<archive, stored, events, Files, Markets, Lobby, mishaps>>

SnapshotStep ==
    /\ \/ /\ command.kind = "observe"
          /\ observed' = Observations(command.seen)
          /\ command' = [command EXCEPT !.kind = "list"]
          /\ UNCHANGED <<companies, metadata>>
       \/ /\ command.kind = "list"
          /\ companies' = Issuers(command.seen)
          /\ command' = [command EXCEPT !.kind = "describe"]
          /\ UNCHANGED <<observed, metadata>>
       \/ /\ command.kind = "describe"
          /\ metadata' = [range |-> command.range, count |-> Cardinality(Observations(command.seen))]
          /\ command' = Rest
          /\ UNCHANGED <<companies, observed>>
    /\ UNCHANGED <<archive, stored, events, Markets, Lobby, Bounds>>

\* load_sec_universe_snapshot: observations of the described number.
Loaded ==
    /\ metadata # None /\ observed \notin {None, Torn}
    /\ Cardinality(observed) = metadata.count

Observed == {pair[1] : pair \in observed}

-----------------------------------------------------------------------------
(* build_historical_universe and populate_market_from_snapshot.            *)

\* The companies of earlier manifests, and those in the market database.
Excluded(paths, mapped) ==
    (UNION {holdouts[p].companies : p \in paths}) \cup (IF mapped THEN listed ELSE {})

FirstOf(n, set) == {c \in set : Cardinality({d \in set : Rank[d] < Rank[c]}) < n}

\* A universe goes to a file of its own; excluding a missing manifest raises.
BuildUniverse(path, paths, mapped) ==
    /\ Loaded
    /\ holdouts[path] = None /\ \A p \in paths : holdouts[p] # None
    /\ LET candidates == Observed \ Excluded(paths, mapped) IN
         /\ candidates # {}
         /\ holdouts' = [holdouts EXCEPT ![path] =
                [companies |-> FirstOf(Most, candidates), excluded |-> paths,
                 known |-> IF mapped THEN listed ELSE {}]]
    /\ Begin(Rest)
    /\ UNCHANGED <<archive, stored, events, Files, listed, Lobby, mishaps>>

StartMarket(path) ==
    /\ Loaded /\ holdouts[path] # None
    /\ Begin([kind |-> "resolve", companies |-> holdouts[path].companies \cap Observed])
    /\ UNCHANGED <<archive, stored, events, Files, Markets, Lobby, mishaps>>

\* Companies with a matching history are mapped; a failed request leaves one out.
ResolveMarket ==
    /\ command.kind = "resolve"
    /\ \E known \in SUBSET (command.companies \cap Traceable) :
         LET failed == Cardinality((command.companies \cap Traceable) \ known) IN
         /\ mishaps + failed <= MaxFaults
         /\ mishaps' = mishaps + failed
         /\ command' = [kind |-> "map", todo |-> known]
    /\ UNCHANGED <<archive, stored, events, Files, Markets, Lobby, commands>>

\* Company by company, then the prices are fetched.
MapCompany ==
    /\ command.kind = "map"
    /\ IF command.todo = {}
       THEN command' = Rest /\ UNCHANGED listed
       ELSE \E c \in command.todo :
              /\ listed' = listed \cup {c}
              /\ command' = [command EXCEPT !.todo = @ \ {c}]
    /\ UNCHANGED <<archive, stored, events, Files, holdouts, Lobby, Bounds>>

-----------------------------------------------------------------------------
(* enrich_lda_and_qwen: page by page, aliases first, then events.          *)

StartEnrich ==
    /\ companies \notin {None, Torn}
    /\ Begin([kind |-> "alias", page |-> 1])
    /\ UNCHANGED <<archive, stored, events, Files, Markets, Lobby, mishaps>>

\* The clients of a page whose name is that of one company in the manifest.
Matches(page) ==
    UNION {{f.client} \X Named(f.name) : f \in {f \in Pages[page] : Cardinality(Named(f.name)) = 1}}

\* DuckDbExternalEntityAliases.add raises for another company.
Agrees(match) == alias[match[1]] \in {None, match[2]}

\* A disagreement ends the command; the aliases added before it stay.
AddAliases ==
    /\ command.kind = "alias"
    /\ LET matches == Matches(command.page)
           Consistent(some) == \A m, n \in some : Agrees(m) /\ (m[1] = n[1] => m = n)
           Owner(c, some) == {m[2] : m \in {m \in some : m[1] = c}}
       IN  \E some \in SUBSET matches :
             /\ Consistent(some)
             /\ alias' = [c \in Client |->
                    IF alias[c] # None \/ Owner(c, some) = {} THEN alias[c]
                    ELSE CHOOSE company \in Owner(c, some) : TRUE]
             /\ \/ /\ some = matches
                   /\ command' = [kind |-> "store", page |-> command.page, known |-> matches]
                \/ /\ \E m \in matches \ some : ~Consistent(some \cup {m})
                   /\ command' = Rest
    /\ UNCHANGED <<archive, stored, events, Files, Markets, lobbying, Bounds>>

\* An event is put once: one stored without a company never gets one.
StoreEvents ==
    /\ command.kind = "store"
    /\ LET Known(f) == {m[2] : m \in {m \in command.known : m[1] = f.client}}
           Owner(f) == IF Known(f) = {} THEN None ELSE CHOOSE company \in Known(f) : TRUE
           new == {f \in Pages[command.page] : f.id \notin DOMAIN lobbying}
       IN  lobbying' = [id \in DOMAIN lobbying \cup {f.id : f \in new} |->
                           IF id \in DOMAIN lobbying THEN lobbying[id]
                           ELSE Owner(CHOOSE f \in new : f.id = id)]
    /\ command' = IF command.page + 1 \in DOMAIN Pages
                  THEN [kind |-> "alias", page |-> command.page + 1] ELSE Rest
    /\ UNCHANGED <<archive, stored, events, Files, Markets, alias, Bounds>>

-----------------------------------------------------------------------------
\* A command ends early: death, a failed request, the vendor's rate limit.  A file
\* that was being written is cut off.
End ==
    /\ ~Ready /\ mishaps < MaxFaults
    /\ mishaps' = mishaps + 1
    /\ command' = Rest
    /\ \/ UNCHANGED Files
       \/ /\ command.kind = "list" \/ (command.kind = "retrieve" /\ command.todo = {})
          /\ companies' = Torn /\ UNCHANGED <<observed, metadata>>
       \/ command.kind = "observe" /\ observed' = Torn /\ UNCHANGED <<companies, metadata>>
    /\ UNCHANGED <<archive, stored, events, Markets, Lobby, commands>>

Next ==
    \/ \E q \in Quarters : Revise(q)
    \/ \E range \in Ranges, refresh \in BOOLEAN : StartPopulate(range, refresh)
    \/ Retrieve \/ Ingest \/ WriteCompanies \/ Report
    \/ \E range \in Ranges : StartSnapshot(range)
    \/ SnapshotStep
    \/ \E p \in Path, paths \in SUBSET Path, mapped \in BOOLEAN : BuildUniverse(p, paths, mapped)
    \/ \E p \in Path : StartMarket(p)
    \/ ResolveMarket \/ MapCompany
    \/ StartEnrich \/ AddAliases \/ StoreEvents
    \/ End

Spec == Init /\ [][Next]_vars

-----------------------------------------------------------------------------
(* Properties.                                                             *)

\* No event was public before it was traded; what is mapped was observed.
TypeOK ==
    /\ \A q \in Quarters : archive[q] \subseteq Rows /\ (stored[q] = None \/ stored[q] \subseteq archive[q])
    /\ \A r \in events : r.form4 /\ r.traded <= r.filed
    /\ companies \in {None, Torn} \/ companies \subseteq Issuers(Rows)
    /\ observed \in {None, Torn} \/ observed \subseteq Observations(Rows)
    /\ listed \subseteq Traceable
    /\ alias \in [Client -> Issuer \cup {None}]
    /\ DOMAIN lobbying \subseteq FilingId

\* When a population reports its end, every usable row of the archives of its range
\* has its event, also of those an interrupted run stored, and the manifest names
\* exactly their issuers.
PopulationComplete ==
    command.kind = "populated" =>
        /\ \A q \in command.range : stored[q] # None /\ {r \in stored[q] : r.form4 /\ r.traded <= r.filed} \subseteq events
        /\ companies = Issuers(UNION {Transactions(stored[q]) : q \in command.range})

\* "makes sequential holdouts disjoint even when a previously selected company could
\* not be mapped" (historical_universe.py:52): a universe shares no company with
\* those it was to exclude, nor with the companies whose prices were known.
HoldoutsDisjoint ==
    \A p \in Path : holdouts[p] # None =>
        /\ holdouts[p].companies \cap holdouts[p].known = {}
        /\ \A q \in holdouts[p].excluded : holdouts[p].companies \cap holdouts[q].companies = {}

\* The events of one lobbying client are of one company, whichever range the
\* manifest they were matched with covered, and it is the company of its alias.
OneCompanyPerClient ==
    \A p \in DOMAIN Pages : \A f \in Pages[p] :
        f.id \in DOMAIN lobbying => lobbying[f.id] \in {None, alias[f.client]}
=============================================================================
