------------------------ MODULE HistoricalDataProofs ------------------------
(* Theorems about the prepared history, for all archives, any number of    *)
(* quarters, universes, commands and mishaps: a population that reports    *)
(* its end is complete, and holdouts stay disjoint.                        *)
EXTENDS Research, FiniteSetTheorems, NaturalsInduction, WellFoundedInduction, TLAPS

-----------------------------------------------------------------------------
(* The invariant.                                                          *)

Stores ==
    /\ archive \in [Quarters -> SUBSET Rows]
    /\ stored \in [Quarters -> (SUBSET Rows) \cup {None}]

\* What a command holds, as far as the population and the snapshot go on from it.
Populating == [kind : {"retrieve", "ingest", "report"}, range : SUBSET Quarters,
               todo : SUBSET Quarters, refresh : BOOLEAN, seen : SUBSET Rows]
Snapshotting == [kind : {"observe", "list", "describe"}, range : SUBSET Quarters,
                 seen : SUBSET Rows]
CommandForm ==
    \/ command \in Populating \cup Snapshotting
    \/ command \in [kind : {"populated"}, range : SUBSET Quarters]
    \/ command \in [kind : {"map"}, todo : SUBSET Traceable]
    \/ command.kind \in {"rest", "resolve", "alias", "store"}

\* The archives of these quarters are stored and their events are put.
Ingested(done) ==
    \A q \in done : stored[q] # None /\ History!EventsOf(stored[q]) \subseteq events

Seen(done) == UNION {History!Transactions(stored[q]) : q \in done}

\* A population is through with the quarters that are not left to do, and with the
\* next one's archive once it ingests.
Progress ==
    /\ command.kind \in {"retrieve", "ingest"} =>
         /\ command.todo \subseteq command.range
         /\ Ingested(command.range \ command.todo)
         /\ command.seen = Seen(command.range \ command.todo)
    /\ command.kind = "ingest" => command.todo # {} /\ stored[History!Min(command.todo)] # None
    /\ command.kind \in {"report", "populated"} =>
         /\ Ingested(command.range)
         /\ companies = History!Issuers(Seen(command.range))

PopulationInv == Stores /\ CommandForm /\ Progress

-----------------------------------------------------------------------------
LEMMA MinOfQuarters ==
    ASSUME NEW Q \in SUBSET Nat, Q # {}
    PROVE  History!Min(Q) \in Q
  <1>1. PICK x \in Q : \A y \in Q : <<y, x>> \notin OpToRel(<, Nat)
    BY NatLessThanWellFounded, WFMin, Zenon
  <1>2. \A y \in Q : y \in Nat /\ x \in Nat /\ ~ (y < x)
    BY <1>1, Zenon DEF OpToRel
  <1>3. \A y \in Q : x <= y
    BY <1>2
  <1> QED
    BY <1>3 DEF History!Min

LEMMA NumberedQuarters ==
    ASSUME HistorySensible
    PROVE  \E n \in Nat : Quarters = 1 .. n
  <1>1. Cardinality(Quarters) \in Nat
    BY FS_CardinalityType DEF HistorySensible
  <1> QED
    BY <1>1 DEF HistorySensible

LEMMA PopulationInit == HistorySensible /\ History!Init => PopulationInv
BY DEF HistorySensible, History!Init, PopulationInv, Stores, CommandForm, Progress, History!Rest

\* A step that leaves the stores, the events and the manifest alone and whose command
\* is not a population's.
LEMMA OtherCommand ==
    ASSUME PopulationInv, UNCHANGED <<archive, stored>>,
           \/ command' \in Snapshotting
           \/ command' \in [kind : {"map"}, todo : SUBSET Traceable]
           \/ command'.kind \in {"rest", "resolve", "alias", "store"}
    PROVE  PopulationInv'
BY DEF PopulationInv, Stores, CommandForm, Progress, Snapshotting

LEMMA PopulationSteps ==
    ASSUME HistorySensible, PopulationInv,
           \/ \E range \in History!Ranges, refresh \in BOOLEAN :
                  History!StartPopulate(range, refresh)
           \/ History!Retrieve \/ History!Ingest \/ History!WriteCompanies \/ History!Report
    PROVE  PopulationInv'
  <1>1. Quarters \in SUBSET Nat
    BY NumberedQuarters
  <1>2. ASSUME NEW range \in History!Ranges, NEW refresh \in BOOLEAN,
               History!StartPopulate(range, refresh)
        PROVE  PopulationInv'
    <2>1. range \subseteq Quarters
      BY NumberedQuarters DEF History!Ranges
    <2>2. command' \in Populating
      BY <1>2, <2>1 DEF History!StartPopulate, History!Begin, Populating
    <2>3. Progress'
      BY <1>2 DEF History!StartPopulate, History!Begin, Progress, Ingested, Seen
    <2> QED
      BY <1>2, <2>2, <2>3 DEF History!StartPopulate, PopulationInv, Stores, CommandForm
  <1>3. CASE History!Retrieve
    <2> DEFINE q == History!Min(command.todo)
    <2>1. command \in Populating
      BY <1>3 DEF History!Retrieve, PopulationInv, CommandForm, Snapshotting
    <2>2. q \in command.todo /\ q \in Quarters
      BY <1>1, <1>3, <2>1, MinOfQuarters DEF History!Retrieve, Populating
    <2> HIDE DEF q
    <2>3. Stores' /\ stored'[q] # None /\ \A p \in Quarters : p # q => stored'[p] = stored[p]
      BY <1>3, <2>2 DEF History!Retrieve, PopulationInv, Stores, HistorySensible, q
    <2>4. /\ command' \in Populating /\ command'.kind = "ingest"
          /\ command'.range = command.range /\ command'.todo = command.todo
          /\ command'.seen = command.seen
      BY <1>3, <2>1 DEF History!Retrieve, Populating
    <2>5. \A p \in command.range \ command.todo : stored'[p] = stored[p]
      BY <2>1, <2>2, <2>3 DEF Populating
    <2>6. Ingested(command.range \ command.todo)'
      BY <1>3, <2>4, <2>5 DEF History!Retrieve, PopulationInv, Progress, Ingested
    <2>7. Seen(command.range \ command.todo)' = Seen(command.range \ command.todo)
      BY <2>4, <2>5 DEF Seen
    <2>8. Progress'
      BY <1>3, <2>2, <2>3, <2>4, <2>6, <2>7 DEF History!Retrieve, PopulationInv, Progress, q
    <2> QED
      BY <2>3, <2>4, <2>8 DEF PopulationInv, CommandForm
  <1>4. CASE History!Ingest
    <2> DEFINE q == History!Min(command.todo)
    <2>1. command \in Populating
      BY <1>4 DEF History!Ingest, PopulationInv, CommandForm, Snapshotting
    <2>2. q \in command.todo /\ q \in Quarters
      BY <1>1, <1>4, <2>1, MinOfQuarters DEF History!Ingest, PopulationInv, Progress, Populating
    <2>3. stored[q] # None /\ stored[q] \subseteq Rows
      BY <1>4, <2>2 DEF History!Ingest, PopulationInv, Progress, Stores
    <2>4. /\ events' = events \cup History!EventsOf(stored[q])
          /\ command' = [command EXCEPT !.kind = "retrieve", !.todo = @ \ {q},
                                        !.seen = @ \cup History!Transactions(stored[q])]
          /\ UNCHANGED <<archive, stored>>
      BY <1>4 DEF History!Ingest
    <2> HIDE DEF q
    <2>5. /\ command' \in Populating /\ command'.kind = "retrieve"
          /\ command'.range = command.range /\ command'.todo = command.todo \ {q}
          /\ command'.seen = command.seen \cup History!Transactions(stored[q])
      BY <2>1, <2>3, <2>4 DEF Populating, History!Transactions
    <2>6. command'.range \ command'.todo = (command.range \ command.todo) \cup {q}
      BY <1>4, <2>2, <2>5 DEF History!Ingest, PopulationInv, Progress
    <2>7. Ingested(command.range \ command.todo)
          /\ command.seen = Seen(command.range \ command.todo)
      BY <1>4 DEF History!Ingest, PopulationInv, Progress
    <2>8. Ingested(command.range \ command.todo)'
      BY <2>3, <2>4, <2>6, <2>7 DEF Ingested
    <2>9. command'.seen = Seen(command.range \ command.todo)'
      BY <2>4, <2>5, <2>6, <2>7 DEF Seen
    <2> QED
      BY <1>4, <2>4, <2>5, <2>8, <2>9 DEF History!Ingest, PopulationInv, Stores, CommandForm,
                                          Progress
  <1>5. CASE History!WriteCompanies
    <2>1. command \in Populating
      BY <1>5 DEF History!WriteCompanies, PopulationInv, CommandForm, Snapshotting
    <2>2. /\ command' \in Populating /\ command'.kind = "report"
          /\ command'.range = command.range
      BY <1>5, <2>1 DEF History!WriteCompanies, Populating
    <2>3. command.range \ command.todo = command.range
      BY <1>5 DEF History!WriteCompanies
    <2>4. Ingested(command.range) /\ command.seen = Seen(command.range)
      BY <1>5, <2>3 DEF History!WriteCompanies, PopulationInv, Progress
    <2>5. Ingested(command.range)' /\ Seen(command.range)' = Seen(command.range)
      BY <1>5, <2>2, <2>4 DEF History!WriteCompanies, Ingested, Seen
    <2> QED
      BY <1>5, <2>2, <2>4, <2>5 DEF History!WriteCompanies, PopulationInv, Stores, CommandForm,
                                    Progress
  <1>6. CASE History!Report
    <2>1. command \in Populating
      BY <1>6 DEF History!Report, PopulationInv, CommandForm, Snapshotting
    <2>2. CASE command' = [kind |-> "populated", range |-> command.range]
      <3>1. Ingested(command.range) /\ companies = History!Issuers(Seen(command.range))
        BY <1>6 DEF History!Report, PopulationInv, Progress
      <3>2. Ingested(command.range)' /\ Seen(command.range)' = Seen(command.range)
        BY <1>6, <2>2, <3>1 DEF History!Report, Ingested, Seen
      <3>3. command' \in [kind : {"populated"}, range : SUBSET Quarters]
        BY <2>1, <2>2 DEF Populating
      <3>4. Progress'
        BY <1>6, <2>2, <3>1, <3>2, <3>3 DEF History!Report, Progress, History!Files
      <3> QED
        BY <1>6, <3>3, <3>4 DEF History!Report, PopulationInv, Stores, CommandForm
    <2> QED
      BY <1>6, <2>2, OtherCommand DEF History!Report
  <1> QED
    BY <1>2, <1>3, <1>4, <1>5, <1>6

\* The rest never makes a population's command, and none of it takes an event away.
LEMMA OtherSteps ==
    ASSUME HistorySensible, PopulationInv,
           \/ \E q \in Quarters : History!Revise(q)
           \/ \E range \in History!Ranges : History!StartSnapshot(range)
           \/ History!SnapshotStep
           \/ \E p \in Path, paths \in SUBSET Path, withListed \in BOOLEAN :
                  History!BuildUniverse(p, paths, withListed)
           \/ \E p \in Path : History!StartMarket(p)
           \/ History!ResolveMarket \/ History!MapCompany
           \/ History!StartEnrich \/ History!AddAliases \/ History!StoreEvents
           \/ History!End
    PROVE  PopulationInv'
  <1>1. ASSUME NEW q \in Quarters, History!Revise(q) PROVE PopulationInv'
    BY <1>1 DEF History!Revise, History!Files, PopulationInv, Stores, CommandForm, Progress,
                Ingested, Seen
  <1>2. ASSUME NEW range \in History!Ranges, History!StartSnapshot(range) PROVE PopulationInv'
    <2>1. range \subseteq Quarters /\ \A q \in range : stored[q] \in SUBSET Rows
      BY <1>2, NumberedQuarters
      DEF History!StartSnapshot, History!Ranges, PopulationInv, Stores
    <2>2. UNION {History!Transactions(stored[q]) : q \in range} \subseteq Rows
      BY <2>1 DEF History!Transactions
    <2>3. command' \in Snapshotting
      BY <1>2, <2>1, <2>2 DEF History!StartSnapshot, History!Begin, Snapshotting
    <2> QED
      BY <1>2, <2>3, OtherCommand DEF History!StartSnapshot
  <1>3. CASE History!SnapshotStep
    <2>1. command \in Snapshotting
      BY <1>3 DEF History!SnapshotStep, PopulationInv, CommandForm, Populating
    <2>2. command' \in Snapshotting \/ command'.kind = "rest"
      BY <1>3, <2>1 DEF History!SnapshotStep, Snapshotting, History!Rest
    <2> QED
      BY <1>3, <2>2, OtherCommand DEF History!SnapshotStep
  <1>4. CASE \E p \in Path, paths \in SUBSET Path, withListed \in BOOLEAN :
                 History!BuildUniverse(p, paths, withListed)
    BY <1>4, OtherCommand DEF History!BuildUniverse, History!Begin, History!Rest
  <1>5. CASE \E p \in Path : History!StartMarket(p)
    BY <1>5, OtherCommand DEF History!StartMarket, History!Begin
  <1>6. CASE History!ResolveMarket
    <2>1. command' \in [kind : {"map"}, todo : SUBSET Traceable]
      BY <1>6 DEF History!ResolveMarket
    <2> QED
      BY <1>6, <2>1, OtherCommand DEF History!ResolveMarket
  <1>7. CASE History!MapCompany
    <2>1. command \in [kind : {"map"}, todo : SUBSET Traceable]
      BY <1>7 DEF History!MapCompany, PopulationInv, CommandForm, Populating, Snapshotting
    <2>2. command' \in [kind : {"map"}, todo : SUBSET Traceable] \/ command'.kind = "rest"
      BY <1>7, <2>1 DEF History!MapCompany, History!Rest
    <2> QED
      BY <1>7, <2>2, OtherCommand DEF History!MapCompany
  <1>8. CASE History!StartEnrich
    BY <1>8, OtherCommand DEF History!StartEnrich, History!Begin
  <1>9. CASE History!AddAliases
    <2>1. command'.kind \in {"store", "rest"}
      BY <1>9 DEF History!AddAliases, History!Rest
    <2>2. UNCHANGED <<archive, stored>>
      BY <1>9 DEF History!AddAliases
    <2> QED
      BY <2>1, <2>2, OtherCommand
  <1>10. CASE History!StoreEvents
    <2>1. command'.kind \in {"alias", "rest"}
      BY <1>10 DEF History!StoreEvents, History!Rest
    <2>2. UNCHANGED <<archive, stored>>
      BY <1>10 DEF History!StoreEvents
    <2> QED
      BY <2>1, <2>2, OtherCommand
  <1>11. CASE History!End
    BY <1>11, OtherCommand DEF History!End, History!Rest
  <1> QED
    BY <1>1, <1>2, <1>3, <1>4, <1>5, <1>6, <1>7, <1>8, <1>9, <1>10, <1>11

LEMMA PopulationNext ==
    HistorySensible /\ PopulationInv /\ [History!Next]_History!vars => PopulationInv'
  <1> SUFFICES ASSUME HistorySensible, PopulationInv, [History!Next]_History!vars
               PROVE  PopulationInv'
    OBVIOUS
  <1>1. CASE UNCHANGED History!vars
    BY <1>1 DEF History!vars, History!Files, History!Markets, History!Lobby, History!Bounds,
                PopulationInv, Stores, CommandForm, Progress, Ingested, Seen
  <1> QED
    BY <1>1, PopulationSteps, OtherSteps DEF History!Next

\* PopulationComplete: whatever interrupted earlier runs of it, populate_sec_and_market
\* reports its end only when each usable row of its archives has its event and the
\* company manifest names exactly their issuers.
THEOREM PopulationCompleteCorrect == History!Spec => []History!PopulationComplete
  <1>1. PopulationInv => History!PopulationComplete
    <2> SUFFICES ASSUME PopulationInv, command.kind = "populated"
                 PROVE  /\ \A q \in command.range :
                             /\ stored[q] # None
                             /\ {r \in stored[q] : r.form4 /\ r.traded <= r.filed} \subseteq events
                        /\ companies =
                               History!Issuers(UNION {History!Transactions(stored[q]) :
                                                      q \in command.range})
      BY DEF History!PopulationComplete
    <2>1. command.range \subseteq Quarters
      BY DEF PopulationInv, CommandForm, Populating, Snapshotting
    <2>2. Ingested(command.range) /\ companies = History!Issuers(Seen(command.range))
      BY DEF PopulationInv, Progress
    <2>3. ASSUME NEW q \in command.range, NEW r \in stored[q], r.form4, r.traded <= r.filed
          PROVE  r \in events
      <3>1. r \in Rows
        BY <2>1, <2>2, <2>3 DEF PopulationInv, Stores, Ingested
      <3>2. ~ (r.traded > r.filed)
        BY <2>3, <3>1, HistoryAssumption DEF HistorySensible
      <3> QED
        BY <2>2, <2>3, <3>2 DEF Ingested, History!EventsOf, History!Transactions, History!Anomalous
    <2> QED
      BY <2>2, <2>3 DEF Ingested, Seen
  <1>2. History!Init => PopulationInv
    BY PopulationInit, HistoryAssumption
  <1>3. PopulationInv /\ [History!Next]_History!vars => PopulationInv'
    BY PopulationNext, HistoryAssumption
  <1> QED
    BY <1>1, <1>2, <1>3, PTL DEF History!Spec

-----------------------------------------------------------------------------
(* Holdouts.                                                               *)

\* A universe that was written is never written again: those that a later one
\* excluded are what they were.
HoldoutsKept ==
    /\ holdouts = [p \in Path |-> holdouts[p]]
    /\ \A p \in Path : holdouts[p] # None =>
         \A q \in holdouts[p].excluded : q \in Path /\ holdouts[q] # None

HoldoutsInv == HoldoutsKept /\ History!HoldoutsDisjoint

LEMMA UniverseStep ==
    ASSUME HoldoutsInv, NEW path \in Path, NEW paths \in SUBSET Path, NEW withListed \in BOOLEAN,
           History!BuildUniverse(path, paths, withListed)
    PROVE  HoldoutsInv'
  <1> DEFINE known == IF withListed THEN listed ELSE {}
             chosen == History!FirstOf(Most, History!Observed \ History!Excluded(paths, withListed))
             new == [companies |-> chosen, excluded |-> paths, known |-> known]
  <1>1. /\ holdouts[path] = None /\ \A p \in paths : holdouts[p] # None
        /\ holdouts' = [holdouts EXCEPT ![path] = new]
    BY DEF History!BuildUniverse
  <1>2. chosen \cap known = {} /\ \A q \in paths : chosen \cap holdouts[q].companies = {}
    <2>1. chosen \subseteq History!Observed \ History!Excluded(paths, withListed)
      BY DEF History!FirstOf
    <2>2. known \subseteq History!Excluded(paths, withListed)
      BY DEF History!Excluded
    <2>3. \A q \in paths : holdouts[q].companies \subseteq History!Excluded(paths, withListed)
      BY DEF History!Excluded
    <2> HIDE DEF chosen, known
    <2> QED
      BY <2>1, <2>2, <2>3
  <1>3. new.companies = chosen /\ new.excluded = paths /\ new.known = known
    OBVIOUS
  <1> HIDE DEF new, chosen, known
  <1>4. holdouts'[path] = new /\ \A p \in Path : p # path => holdouts'[p] = holdouts[p]
    BY <1>1 DEF HoldoutsInv, HoldoutsKept
  <1>5. holdouts' = [p \in Path |-> holdouts'[p]]
    BY <1>1 DEF HoldoutsInv, HoldoutsKept
  <1>6. ASSUME NEW p \in Path, holdouts'[p] # None
        PROVE  /\ holdouts'[p].companies \cap holdouts'[p].known = {}
               /\ \A q \in holdouts'[p].excluded :
                    /\ q \in Path /\ holdouts'[q] # None
                    /\ holdouts'[p].companies \cap holdouts'[q].companies = {}
    <2>1. CASE p = path
      BY <1>1, <1>2, <1>3, <1>4, <2>1
    <2>2. CASE p # path
      <3>1. holdouts'[p] = holdouts[p] /\ holdouts[p] # None
        BY <1>4, <1>6, <2>2
      <3>2. \A q \in holdouts[p].excluded :
                q \in Path /\ holdouts'[q] = holdouts[q] /\ holdouts[q] # None
        BY <1>1, <1>4, <3>1 DEF HoldoutsInv, HoldoutsKept
      <3> QED
        BY <3>1, <3>2 DEF HoldoutsInv, History!HoldoutsDisjoint
    <2> QED
      BY <2>1, <2>2
  <1> QED
    BY <1>5, <1>6 DEF HoldoutsInv, HoldoutsKept, History!HoldoutsDisjoint

LEMMA HoldoutsNext == HoldoutsInv /\ [History!Next]_History!vars => HoldoutsInv'
  <1> SUFFICES ASSUME HoldoutsInv, [History!Next]_History!vars PROVE HoldoutsInv'
    OBVIOUS
  <1>1. CASE holdouts' = holdouts
    BY <1>1 DEF HoldoutsInv, HoldoutsKept, History!HoldoutsDisjoint
  <1>2. CASE \E p \in Path, paths \in SUBSET Path, withListed \in BOOLEAN :
                 History!BuildUniverse(p, paths, withListed)
    BY <1>2, UniverseStep
  <1> QED
    BY <1>1, <1>2 DEF History!Next, History!vars, History!Markets, History!Revise,
                      History!StartPopulate, History!Retrieve, History!Ingest,
                      History!WriteCompanies,
       History!Report, History!StartSnapshot, History!SnapshotStep, History!StartMarket,
       History!ResolveMarket, History!MapCompany, History!StartEnrich,
       History!AddAliases, History!StoreEvents, History!End

\* HoldoutsDisjoint: "makes sequential holdouts disjoint even when a previously selected
\* company could not be mapped", for any number of universes, however they exclude
\* each other and whatever is observed or mapped in between.
THEOREM HoldoutsDisjointCorrect == History!Spec => []History!HoldoutsDisjoint
  <1>1. History!Init => HoldoutsInv
    BY DEF History!Init, HoldoutsInv, HoldoutsKept, History!HoldoutsDisjoint
  <1>2. HoldoutsInv => History!HoldoutsDisjoint
    BY DEF HoldoutsInv
  <1> QED
    BY <1>1, <1>2, HoldoutsNext, PTL DEF History!Spec

-----------------------------------------------------------------------------
(* One company per lobbying client.                                        *)

\* The enrichment stores events only of clients whose aliases have been added, and no
\* command changes an alias.
Enriching ==
    /\ "kind" \in DOMAIN command
    /\ command.kind \in {"alias", "store"} => command.page \in DOMAIN Pages
    /\ command.kind = "store" => \A m \in command.known : alias[m[1]] = m[2]
    /\ DOMAIN alias = History!Client

AliasInv == Enriching /\ History!OneCompanyPerClient

LEMMA AliasInit == History!Init => AliasInv
  <1>1. DOMAIN << >> = {}
    OBVIOUS
  <1> QED
    BY <1>1 DEF History!Init, History!Rest, AliasInv, Enriching, History!OneCompanyPerClient

LEMMA OtherCommands ==
    ASSUME RegisterSensible, AliasInv, UNCHANGED History!Lobby,
           command' = command
             \/ ("kind" \in DOMAIN command' /\ command'.kind \notin {"alias", "store"})
             \/ command' = [kind |-> "alias", page |-> 1]
    PROVE  AliasInv'
BY DEF RegisterSensible, AliasInv, History!Lobby, Enriching, History!OneCompanyPerClient

LEMMA AliasesAdded ==
    ASSUME RegisterSensible, AliasInv, History!AddAliases
    PROVE  AliasInv'
  <1> DEFINE Consistent(some) == \A m, n \in some : History!Agrees(m) /\ (m[1] = n[1] => m = n)
             Owner(c, some) == {m[2] : m \in {m \in some : m[1] = c}}
  <1>1. PICK some \in SUBSET History!Matches(command.page) :
          /\ Consistent(some)
          /\ alias' = [c \in History!Client |->
                  IF alias[c] # None \/ Owner(c, some) = {} THEN alias[c]
                  ELSE CHOOSE company \in Owner(c, some) : TRUE]
          /\ \/ /\ some = History!Matches(command.page)
                /\ command' = [kind |-> "store", page |-> command.page,
                               known |-> History!Matches(command.page)]
             \/ command' = History!Rest
    BY DEF History!AddAliases
  <1>2. command.kind = "alias" /\ command.page \in DOMAIN Pages /\ lobbying' = lobbying
    BY DEF History!AddAliases, AliasInv, Enriching
  <1>3. \A m \in some : m[1] \in History!Client
    <2> SUFFICES ASSUME NEW m \in some
                 PROVE  m[1] \in History!Client
      OBVIOUS
    <2>1. PICK f \in Pages[command.page] : m \in {f.client} \X History!Named(f.name)
      BY DEF History!Matches
    <2>2. m[1] = f.client
      BY <2>1
    <2> QED
      BY <1>2, <2>1, <2>2 DEF History!Client
  <1>4. \A m \in some : alias'[m[1]] = m[2]
    <2> SUFFICES ASSUME NEW m \in some
                 PROVE  alias'[m[1]] = m[2]
      OBVIOUS
    <2>1. CASE alias[m[1]] # None
      BY <1>1, <1>3, <2>1 DEF History!Agrees
    <2>2. CASE alias[m[1]] = None
      <3>1. Owner(m[1], some) = {m[2]}
        BY <1>1
      <3> HIDE DEF Owner
      <3> QED
        BY <1>1, <1>3, <2>2, <3>1
    <2> QED
      BY <2>1, <2>2
  <1>5. \A c \in History!Client : alias[c] # None => alias'[c] = alias[c]
    BY <1>1
  <1>6. Enriching'
    <2>1. DOMAIN alias' = History!Client
      BY <1>1
    <2>2. CASE command' = History!Rest
      BY <2>1, <2>2 DEF Enriching, History!Rest
    <2>3. CASE some = History!Matches(command.page)
               /\ command' = [kind |-> "store", page |-> command.page,
                              known |-> History!Matches(command.page)]
      <3>1. "kind" \in DOMAIN command' /\ command'.page = command.page /\ command'.known = some
        BY <2>3
      <3> QED
        BY <1>2, <1>4, <2>1, <3>1 DEF Enriching
    <2> QED
      BY <1>1, <2>2, <2>3
  <1>7. History!OneCompanyPerClient'
    <2> SUFFICES ASSUME NEW p \in DOMAIN Pages, NEW f \in Pages[p], f.id \in DOMAIN lobbying
                 PROVE  lobbying[f.id] \in {None, alias'[f.client]}
      BY <1>2 DEF History!OneCompanyPerClient
    <2>1. lobbying[f.id] \in {None, alias[f.client]} /\ f.client \in History!Client
      BY DEF AliasInv, History!OneCompanyPerClient, History!Client
    <2> QED
      BY <1>5, <2>1
  <1> QED
    BY <1>6, <1>7 DEF AliasInv

LEMMA EventsStored ==
    ASSUME RegisterSensible, AliasInv, History!StoreEvents
    PROVE  AliasInv'
  <1> DEFINE Known(f) == {m[2] : m \in {m \in command.known : m[1] = f.client}}
             Owner(f) == IF Known(f) = {} THEN None ELSE CHOOSE company \in Known(f) : TRUE
             new == {f \in Pages[command.page] : f.id \notin DOMAIN lobbying}
  <1>1. /\ command.kind = "store" /\ alias' = alias /\ command.page \in DOMAIN Pages
        /\ lobbying' = [id \in DOMAIN lobbying \cup {f.id : f \in new} |->
                           IF id \in DOMAIN lobbying THEN lobbying[id]
                           ELSE Owner(CHOOSE f \in new : f.id = id)]
        /\ command' = IF command.page + 1 \in DOMAIN Pages
                      THEN [kind |-> "alias", page |-> command.page + 1] ELSE History!Rest
    BY DEF History!StoreEvents, AliasInv, Enriching
  <1>2. \A f : Owner(f) \in {None, alias[f.client]}
    BY <1>1 DEF AliasInv, Enriching
  <1>3. Enriching'
    BY <1>1 DEF AliasInv, Enriching, History!Rest
  <1> HIDE DEF Owner
  <1>4. History!OneCompanyPerClient'
    <2> SUFFICES ASSUME NEW p \in DOMAIN Pages, NEW f \in Pages[p], f.id \in DOMAIN lobbying'
                 PROVE  lobbying'[f.id] \in {None, alias[f.client]}
      BY <1>1 DEF History!OneCompanyPerClient
    <2>1. CASE f.id \notin DOMAIN lobbying
      <3> DEFINE g == CHOOSE g \in new : g.id = f.id
      <3>1. g \in new /\ g.id = f.id
        BY <1>1, <2>1
      <3>2. g.client = f.client
        BY <1>1, <3>1 DEF RegisterSensible
      <3>3. lobbying'[f.id] = Owner(g)
        BY <1>1, <2>1, <3>1
      <3> HIDE DEF g
      <3> QED
        BY <1>2, <3>2, <3>3
    <2>2. CASE f.id \in DOMAIN lobbying
      <3>1. lobbying'[f.id] = lobbying[f.id]
        BY <1>1, <2>2
      <3> QED
        BY <2>2, <3>1 DEF AliasInv, History!OneCompanyPerClient
    <2> QED
      BY <2>1, <2>2
  <1> QED
    BY <1>3, <1>4 DEF AliasInv

LEMMA AliasNext == RegisterSensible /\ AliasInv /\ [History!Next]_History!vars => AliasInv'
  <1> SUFFICES ASSUME RegisterSensible, AliasInv, [History!Next]_History!vars
               PROVE  AliasInv'
    OBVIOUS
  <1> "kind" \in DOMAIN command
    BY DEF AliasInv, Enriching
  <1>1. CASE \/ \E q \in Quarters : History!Revise(q)
             \/ \E range \in History!Ranges, refresh \in BOOLEAN :
                    History!StartPopulate(range, refresh)
             \/ History!WriteCompanies \/ History!Report
    BY <1>1, OtherCommands DEF History!Revise, History!StartPopulate, History!Begin,
                               History!WriteCompanies, History!Report
  <1>6. CASE History!Retrieve
    BY <1>6, OtherCommands DEF History!Retrieve
  <1>7. CASE History!Ingest
    <2>1. "kind" \in DOMAIN command' /\ command'.kind = "retrieve" /\ UNCHANGED History!Lobby
      BY <1>7 DEF History!Ingest
    <2> QED
      BY <2>1, OtherCommands
  <1>8. CASE History!MapCompany
    <2>1. "kind" \in DOMAIN command' /\ command'.kind \in {"rest", "map"} /\ UNCHANGED History!Lobby
      BY <1>8 DEF History!MapCompany, History!Rest
    <2> QED
      BY <2>1, OtherCommands
  <1>2. CASE \/ \E range \in History!Ranges : History!StartSnapshot(range)
             \/ History!SnapshotStep
    BY <1>2, OtherCommands DEF History!StartSnapshot, History!Begin, History!SnapshotStep,
                               History!Rest
  <1>3. CASE \/ \E p \in Path, paths \in SUBSET Path, withListed \in BOOLEAN :
                  History!BuildUniverse(p, paths, withListed)
             \/ \E p \in Path : History!StartMarket(p)
             \/ History!ResolveMarket
    <2>1. "kind" \in DOMAIN command' /\ command'.kind \in {"rest", "resolve", "map"}
          /\ UNCHANGED History!Lobby
      <3>1. ASSUME NEW p \in Path, NEW paths \in SUBSET Path, NEW withListed \in BOOLEAN,
                   History!BuildUniverse(p, paths, withListed)
            PROVE  command' = History!Rest /\ UNCHANGED History!Lobby
        BY <3>1 DEF History!BuildUniverse, History!Begin
      <3>2. ASSUME NEW p \in Path, History!StartMarket(p)
            PROVE  /\ "kind" \in DOMAIN command' /\ command'.kind = "resolve"
                   /\ UNCHANGED History!Lobby
        BY <3>2 DEF History!StartMarket, History!Begin
      <3>3. CASE History!ResolveMarket
        BY <3>3 DEF History!ResolveMarket
      <3> QED
        BY <1>3, <3>1, <3>2, <3>3 DEF History!Rest
    <2> QED
      BY <2>1, OtherCommands
  <1>4. CASE History!StartEnrich \/ History!End
    BY <1>4, OtherCommands DEF History!StartEnrich, History!Begin, History!End, History!Rest
  <1>5. CASE UNCHANGED History!vars
    BY <1>5, OtherCommands DEF History!vars, History!Lobby
  <1> QED
    BY <1>1, <1>2, <1>3, <1>4, <1>5, <1>6, <1>7, <1>8, AliasesAdded, EventsStored DEF History!Next

\* OneCompanyPerClient: whichever manifests the pages of the register were matched with,
\* and wherever a command ended, the events of a client are of the company of its alias
\* or of none (enrich_lda_and_qwen, DuckDbExternalEntityAliases.add).
THEOREM OneCompanyCorrect == History!Spec => []History!OneCompanyPerClient
  <1> RegisterSensible
    BY HistoryAssumption
  <1>1. AliasInv => History!OneCompanyPerClient
    BY DEF AliasInv
  <1> QED
    BY <1>1, AliasInit, AliasNext, PTL DEF History!Spec

-----------------------------------------------------------------------------
(* The types.                                                              *)

\* An archive only grows, so what was stored of it stays in it; an enrichment has a
\* manifest to match with.
Growing == \A q \in Quarters : archive[q] \subseteq {r \in Rows : r.quarter = q}
Matching == command.kind \in {"alias", "store"} => companies \notin {None, Torn}

HistoryTypes == Growing /\ Matching /\ History!TypeOK

LEMMA HistoryTypesInit == HistorySensible /\ History!Init => HistoryTypes
  <1> SUFFICES ASSUME HistorySensible, History!Init PROVE HistoryTypes
    OBVIOUS
  <1>1. Growing /\ Matching
    BY DEF History!Init, History!Rest, Growing, Matching
  <1>2. /\ \A q \in Quarters : archive[q] \subseteq Rows /\ stored[q] = None
        /\ events = {} /\ listed = {} /\ companies = None /\ observed = None
        /\ alias \in [History!Client -> History!Issuer \cup {None}]
    BY DEF History!Init
  <1>3. DOMAIN lobbying = {}
    BY DEF History!Init
  <1> QED
    BY <1>1, <1>2, <1>3 DEF HistoryTypes, History!TypeOK

\* A step that leaves archives, events, manifests and aliases alone, and begins no
\* enrichment.
LEMMA SameTypes ==
    ASSUME HistoryTypes,
           UNCHANGED <<archive, stored, events, companies, observed, alias, lobbying>>,
           listed' \subseteq Traceable,
           command'.kind \in {"alias", "store"} => companies \notin {None, Torn}
    PROVE  HistoryTypes'
BY DEF HistoryTypes, Growing, Matching, History!TypeOK

LEMMA UsableIsTyped ==
    ASSUME HistorySensible, NEW content \in SUBSET Rows
    PROVE  \A r \in History!EventsOf(content) : r.form4 /\ r.traded <= r.filed
BY DEF HistorySensible, History!EventsOf, History!Transactions, History!Anomalous

\* The manifests name the issuers of rows.
LEMMA IssuersGrow ==
    ASSUME NEW seen \in SUBSET Rows
    PROVE  /\ History!Issuers(seen) \subseteq History!Issuers(Rows)
           /\ History!Observations(seen) \subseteq History!Observations(Rows)
BY DEF History!Issuers, History!Observations

\* Population.
LEMMA PopulationTypes ==
    ASSUME HistorySensible, PopulationInv, HistoryTypes,
           \/ \E q \in Quarters : History!Revise(q)
           \/ \E range \in History!Ranges, refresh \in BOOLEAN :
                  History!StartPopulate(range, refresh)
           \/ History!Retrieve \/ History!Ingest \/ History!WriteCompanies \/ History!Report
    PROVE  HistoryTypes'
  <1>1. Quarters \in SUBSET Nat
    BY NumberedQuarters
  <1> DEFINE q == History!Min(command.todo)
  <1>2. ASSUME NEW n \in Quarters, History!Revise(n) PROVE HistoryTypes'
    <2>1. archive' = [archive EXCEPT ![n] = {r \in Rows : r.quarter = n}]
          /\ UNCHANGED <<stored, events, companies, observed, alias, lobbying, listed, command>>
      BY <1>2 DEF History!Revise, History!Files, History!Markets, History!Lobby
    <2>2. \A m \in Quarters : archive[m] \subseteq archive'[m]
          /\ archive'[m] \subseteq {r \in Rows : r.quarter = m}
      BY <2>1 DEF HistoryTypes, Growing, PopulationInv, Stores
    <2>3. Growing' /\ Matching'
      BY <2>1, <2>2 DEF HistoryTypes, Growing, Matching
    <2>4. History!TypeOK'
      BY <2>1, <2>2 DEF HistoryTypes, History!TypeOK
    <2> QED
      BY <2>3, <2>4 DEF HistoryTypes
  <1>3. ASSUME NEW range \in History!Ranges, NEW refresh \in BOOLEAN,
               History!StartPopulate(range, refresh)
        PROVE  HistoryTypes'
    BY <1>3, SameTypes
    DEF History!StartPopulate, History!Begin, History!Files, History!Markets, History!Lobby,
        HistoryTypes, History!TypeOK
  <1>4. CASE History!Retrieve
    <2>1. command \in Populating
      BY <1>4 DEF History!Retrieve, PopulationInv, CommandForm, Snapshotting
    <2>2. q \in Quarters
      BY <1>1, <1>4, <2>1, MinOfQuarters DEF History!Retrieve, Populating
    <2>3. /\ stored' = IF command.refresh \/ stored[q] = None
                 THEN [stored EXCEPT ![q] = archive[q]] ELSE stored
          /\ UNCHANGED <<archive, events, companies, observed, alias, lobbying, listed>>
          /\ command' = [command EXCEPT !.kind = "ingest"]
      BY <1>4 DEF History!Retrieve, History!Files, History!Markets, History!Lobby
    <2>4. command'.kind = "ingest"
      BY <2>1, <2>3 DEF Populating
    <2> HIDE DEF q
    <2>5. \A m \in Quarters : stored'[m] \in {stored[m], archive[m]}
      BY <2>2, <2>3 DEF PopulationInv, Stores
    <2>6. Growing' /\ Matching'
      BY <2>3, <2>4 DEF HistoryTypes, Growing, Matching
    <2>7. History!TypeOK'
      BY <2>3, <2>5 DEF HistoryTypes, History!TypeOK
    <2> QED
      BY <2>6, <2>7 DEF HistoryTypes
  <1>5. CASE History!Ingest
    <2>1. command \in Populating
      BY <1>5 DEF History!Ingest, PopulationInv, CommandForm, Snapshotting
    <2>2. q \in Quarters /\ stored[q] \in SUBSET Rows
      BY <1>1, <1>5, <2>1, MinOfQuarters DEF History!Ingest, PopulationInv, Progress, Populating,
                                             Stores
    <2>3. /\ events' = events \cup History!EventsOf(stored[q])
          /\ UNCHANGED <<archive, stored, companies, observed, alias, lobbying, listed>>
          /\ command' = [command EXCEPT !.kind = "retrieve", !.todo = @ \ {q},
                                        !.seen = @ \cup History!Transactions(stored[q])]
      BY <1>5 DEF History!Ingest, History!Files, History!Markets, History!Lobby
    <2> HIDE DEF q
    <2>4. command'.kind = "retrieve"
      BY <2>1, <2>3 DEF Populating
    <2>5. \A r \in events' : r.form4 /\ r.traded <= r.filed
      BY <2>2, <2>3, UsableIsTyped DEF HistoryTypes, History!TypeOK
    <2>6. Growing' /\ Matching'
      BY <2>3, <2>4 DEF HistoryTypes, Growing, Matching
    <2>7. History!TypeOK'
      BY <2>3, <2>5 DEF HistoryTypes, History!TypeOK
    <2> QED
      BY <2>6, <2>7 DEF HistoryTypes
  <1>6. CASE History!WriteCompanies
    <2>1. command \in Populating
      BY <1>6 DEF History!WriteCompanies, PopulationInv, CommandForm, Snapshotting
    <2>2. /\ companies' = History!Issuers(command.seen)
          /\ UNCHANGED <<archive, stored, events, observed, alias, lobbying, listed>>
          /\ command' = [command EXCEPT !.kind = "report"]
      BY <1>6 DEF History!WriteCompanies, History!Markets, History!Lobby
    <2>3. command'.kind = "report"
      BY <2>1, <2>2 DEF Populating
    <2>4. companies' \subseteq History!Issuers(Rows)
      BY <2>1, <2>2, IssuersGrow DEF Populating
    <2>5. Growing' /\ Matching'
      BY <2>2, <2>3 DEF HistoryTypes, Growing, Matching
    <2>6. History!TypeOK'
      BY <2>2, <2>4 DEF HistoryTypes, History!TypeOK
    <2> QED
      BY <2>5, <2>6 DEF HistoryTypes
  <1>7. CASE History!Report
    BY <1>7, SameTypes
    DEF History!Report, History!Files, History!Markets, History!Lobby, HistoryTypes, History!TypeOK
  <1> QED
    BY <1>2, <1>3, <1>4, <1>5, <1>6, <1>7

\* The issuer snapshot, the universes and their market.
LEMMA UniverseTypes ==
    ASSUME HistorySensible, PopulationInv, HistoryTypes,
           \/ \E range \in History!Ranges : History!StartSnapshot(range)
           \/ History!SnapshotStep
           \/ \E p \in Path, paths \in SUBSET Path, withListed \in BOOLEAN :
                  History!BuildUniverse(p, paths, withListed)
           \/ \E p \in Path : History!StartMarket(p)
           \/ History!ResolveMarket \/ History!MapCompany
           \/ History!End
    PROVE  HistoryTypes'
  <1> listed \subseteq Traceable
    BY DEF HistoryTypes, History!TypeOK
  <1>1. ASSUME NEW range \in History!Ranges, History!StartSnapshot(range) PROVE HistoryTypes'
    BY <1>1, SameTypes
    DEF History!StartSnapshot, History!Begin, History!Files, History!Markets, History!Lobby
  <1>2. CASE History!SnapshotStep
    <2>1. command \in Snapshotting
      BY <1>2 DEF History!SnapshotStep, PopulationInv, CommandForm, Populating
    <2>2. UNCHANGED <<archive, stored, events, alias, lobbying, listed>>
      BY <1>2 DEF History!SnapshotStep, History!Markets, History!Lobby
    <2>3. command'.kind \in {"list", "describe", "rest"}
      BY <1>2, <2>1 DEF History!SnapshotStep, Snapshotting, History!Rest
    <2>4. /\ companies' \in {companies, History!Issuers(command.seen)}
          /\ observed' \in {observed, History!Observations(command.seen)}
      BY <1>2 DEF History!SnapshotStep
    <2>5. /\ companies' = companies \/ companies' \subseteq History!Issuers(Rows)
          /\ observed' = observed \/ observed' \subseteq History!Observations(Rows)
      BY <2>1, <2>4, IssuersGrow DEF Snapshotting
    <2>6. Growing' /\ Matching'
      BY <2>2, <2>3 DEF HistoryTypes, Growing, Matching
    <2>7. History!TypeOK'
      BY <2>2, <2>5 DEF HistoryTypes, History!TypeOK
    <2> QED
      BY <2>6, <2>7 DEF HistoryTypes
  <1>3. CASE \E p \in Path, paths \in SUBSET Path, withListed \in BOOLEAN :
                 History!BuildUniverse(p, paths, withListed)
    BY <1>3, SameTypes
    DEF History!BuildUniverse, History!Begin, History!Rest, History!Files, History!Lobby
  <1>4. CASE \E p \in Path : History!StartMarket(p)
    BY <1>4, SameTypes
    DEF History!StartMarket, History!Begin, History!Files, History!Markets, History!Lobby
  <1>5. CASE History!ResolveMarket
    <2>1. command'.kind = "map"
      BY <1>5 DEF History!ResolveMarket
    <2>2. UNCHANGED <<archive, stored, events, companies, observed, alias, lobbying, listed>>
      BY <1>5 DEF History!ResolveMarket, History!Files, History!Markets, History!Lobby
    <2> QED
      BY <2>1, <2>2, SameTypes
  <1>6. CASE History!MapCompany
    <2>1. command \in [kind : {"map"}, todo : SUBSET Traceable]
      BY <1>6 DEF History!MapCompany, PopulationInv, CommandForm, Populating, Snapshotting
    <2>2. command'.kind \in {"map", "rest"} /\ listed' \subseteq Traceable
      BY <1>6, <2>1 DEF History!MapCompany, History!Rest
    <2>3. UNCHANGED <<archive, stored, events, companies, observed, alias, lobbying>>
      BY <1>6 DEF History!MapCompany, History!Files, History!Lobby
    <2> QED
      BY <2>2, <2>3, SameTypes
  <1>7. CASE History!End
    <2>1. UNCHANGED <<archive, stored, events, alias, lobbying, listed>> /\ command' = History!Rest
      BY <1>7 DEF History!End, History!Markets, History!Lobby
    <2>2. companies' \in {companies, Torn} /\ observed' \in {observed, Torn}
      BY <1>7 DEF History!End, History!Files
    <2>3. Growing' /\ Matching'
      BY <2>1 DEF HistoryTypes, Growing, Matching, History!Rest
    <2>4. History!TypeOK'
      BY <2>1, <2>2 DEF HistoryTypes, History!TypeOK
    <2> QED
      BY <2>3, <2>4 DEF HistoryTypes
  <1> QED
    BY <1>1, <1>2, <1>3, <1>4, <1>5, <1>6, <1>7

\* The enrichment: an alias is a company of the manifest.
LEMMA EnrichmentTypes ==
    ASSUME HistorySensible, HistoryTypes, AliasInv,
           History!StartEnrich \/ History!AddAliases \/ History!StoreEvents
    PROVE  HistoryTypes'
  <1>1. CASE History!StartEnrich
    BY <1>1, SameTypes
    DEF History!StartEnrich, History!Begin, History!Files, History!Markets, History!Lobby,
        HistoryTypes, History!TypeOK
  <1>2. CASE History!AddAliases
    <2> DEFINE Owner(c, some) == {m[2] : m \in {m \in some : m[1] = c}}
    <2>1. PICK some \in SUBSET History!Matches(command.page) :
            alias' = [c \in History!Client |->
                    IF alias[c] # None \/ Owner(c, some) = {} THEN alias[c]
                    ELSE CHOOSE company \in Owner(c, some) : TRUE]
      BY <1>2 DEF History!AddAliases
    <2>2. /\ UNCHANGED <<archive, stored, events, companies, observed, lobbying, listed>>
          /\ companies \notin {None, Torn}
      BY <1>2 DEF History!AddAliases, History!Files, History!Markets, HistoryTypes, Matching
    <2>3. \A name : History!Named(name) \subseteq History!Issuer
      BY <2>2 DEF HistoryTypes, History!TypeOK, History!Issuers, History!Named, History!Issuer
    <2>4. \A m \in some : m[2] \in History!Issuer
      <3> SUFFICES ASSUME NEW m \in some PROVE m[2] \in History!Issuer
        OBVIOUS
      <3>1. PICK f \in Pages[command.page] : m \in {f.client} \X History!Named(f.name)
        BY DEF History!Matches
      <3> QED
        BY <2>3, <3>1
    <2>5. \A c : Owner(c, some) \subseteq History!Issuer
      BY <2>4
    <2>6. alias \in [History!Client -> History!Issuer \cup {None}]
      BY DEF HistoryTypes, History!TypeOK
    <2>7. alias' \in [History!Client -> History!Issuer \cup {None}]
      <3> HIDE DEF Owner
      <3>1. \A c \in History!Client :
              (IF alias[c] # None \/ Owner(c, some) = {} THEN alias[c]
               ELSE CHOOSE company \in Owner(c, some) : TRUE) \in History!Issuer \cup {None}
        BY <2>5, <2>6
      <3> QED
        BY <2>1, <3>1
    <2>8. Growing' /\ Matching'
      BY <2>2 DEF HistoryTypes, Growing, Matching
    <2>9. History!TypeOK'
      BY <2>2, <2>7 DEF HistoryTypes, History!TypeOK
    <2> QED
      BY <2>8, <2>9 DEF HistoryTypes
  <1>3. CASE History!StoreEvents
    <2>1. UNCHANGED <<archive, stored, events, companies, observed, alias, listed>>
      BY <1>3 DEF History!StoreEvents, History!Files, History!Markets
    <2>2. command.kind = "store" /\ command.page \in DOMAIN Pages
      BY <1>3 DEF History!StoreEvents, AliasInv, Enriching
    <2>3. DOMAIN lobbying' \subseteq DOMAIN lobbying \cup {f.id : f \in Pages[command.page]}
      BY <1>3 DEF History!StoreEvents
    <2>4. DOMAIN lobbying' \subseteq History!FilingId
      BY <2>2, <2>3 DEF HistoryTypes, History!TypeOK, History!FilingId
    <2>5. Growing' /\ Matching'
      BY <2>1, <2>2 DEF HistoryTypes, Growing, Matching
    <2>6. History!TypeOK'
      BY <2>1, <2>4 DEF HistoryTypes, History!TypeOK
    <2> QED
      BY <2>5, <2>6 DEF HistoryTypes
  <1> QED
    BY <1>1, <1>2, <1>3

\* TypeOK of HistoricalData: what is stored of an archive stays in the archive, no stored
\* event was public before it was traded, the manifests name issuers of rows, and what is
\* mapped or aliased is one, whatever was cut off (populate_sec_and_market,
\* build_sec_universe_snapshot, enrich_lda_and_qwen).
THEOREM HistoryTypeCorrect == History!Spec => []History!TypeOK
  <1> HistorySensible /\ RegisterSensible
    BY HistoryAssumption
  <1> DEFINE Inv == PopulationInv /\ AliasInv /\ HistoryTypes
  <1>1. History!Init => Inv
    BY PopulationInit, AliasInit, HistoryTypesInit
  <1>2. Inv /\ [History!Next]_History!vars => Inv'
    <2> SUFFICES ASSUME Inv, [History!Next]_History!vars PROVE HistoryTypes'
      BY PopulationNext, AliasNext
    <2>1. CASE UNCHANGED History!vars
      BY <2>1 DEF History!vars, History!Files, History!Markets, History!Lobby, HistoryTypes,
                  Growing,
                  Matching, History!TypeOK
    <2> QED
      BY <2>1, PopulationTypes, UniverseTypes, EnrichmentTypes DEF History!Next
  <1>3. Inv => History!TypeOK
    BY DEF HistoryTypes
  <1> QED
    BY <1>1, <1>2, <1>3, PTL DEF History!Spec
=============================================================================
