-------------------------- MODULE MarketSyncProofs --------------------------
(***************************************************************************)
(* What a synchronization that reports ready has asked for, for any        *)
(* companies, tickers, windows and numbers of sessions and faults.  The    *)
(* invariant explains every hole between stored bars: a response showed    *)
(* the session absent, or every window began behind it.                    *)
(***************************************************************************)
EXTENDS Research, FiniteSetTheorems, WellFoundedInduction, NaturalsInduction, TLAPS

-----------------------------------------------------------------------------
(* The invariant.                                                          *)

Maps == UNION {[k -> Market!Security] : k \in SUBSET MarketCompany}
Ranges == UNION {[k -> SUBSET Market!Session] : k \in SUBSET Market!Security}

Synchronization ==
    [status : {"fetching", "ready", "failed"}, batch : SUBSET MarketCompany, end : Market!Session,
     secOf : Maps, range : Ranges, todo : SUBSET (Market!Security \X SUBSET Market!Session),
     ok : BOOLEAN]

MarketTypes ==
    /\ completed \in Market!Session /\ faults \in 0 .. MaxFaults
    /\ filed \in [MarketCompany -> Ticker]
    /\ vendor \in [Ticker \cup {Spy} -> [from : Market!Session, through : Market!Session]]
    /\ \A t \in Ticker \cup {Spy} :
         vendor[t].from <= vendor[t].through /\ vendor[t].through <= completed
    /\ mapped \subseteq MarketCompany \X Market!Security
    /\ bars \in [Market!Security -> SUBSET Market!Session]
    /\ \A s \in Market!Security : bars[s] \subseteq s[2] .. completed
    /\ bars[Market!Benchmark] # {}
    /\ sync = Market!Idle \/ sync \in Synchronization

\* A response holds nothing outside of the range its name says.
Responses ==
    \A n \in DOMAIN raw :
        /\ raw[n].latest \in raw[n].kept
        /\ \A answer \in raw[n].kept :
              answer.rows \subseteq n[2] .. n[3] /\ answer.invalid \subseteq answer.rows

\* Session d has no bar of s although earlier and later ones have.
Between(s, d) ==
    /\ d \notin bars[s]
    /\ \E x, y \in bars[s] : x < d /\ d < y

\* A session without a bar between bars was answered for, or lies before what all
\* windows share.
GapsExplained ==
    \A s \in Market!Security, d \in Market!Session :
        Between(s, d) => Market!Answered(s, d) \/ d <= completed - MarketWindow

\* Range R leaves no new unexplained hole when its answer is added to the bars of s:
\* it has none itself, and what lies between it and the bars is explained.
Adjoins(s, R) ==
    /\ \A d \in Market!Session : (\E r \in R : r < d) /\ (\E r \in R : d < r) => d \in R
    /\ \A d \in Market!Session : (\A r \in R : d < r) =>
          d \in bars[s] \/ d < s[2] \/ d <= completed - MarketWindow \/ \E y \in bars[s] : d < y
    /\ \A d \in Market!Session : (\A r \in R : r < d) =>
          d \in bars[s] \/ completed < d \/ \E x \in bars[s] : x < d

\* Every request under way is one for a series of the synchronization.
Requests ==
    sync.status = "fetching" =>
      \A ask \in sync.todo :
        /\ ask[1] \in DOMAIN sync.range
        /\ ask[2] # {} /\ ask[2] \subseteq ask[1][2] .. completed
        /\ Adjoins(ask[1], ask[2])

\* A missing session was answered for, or lies in a hole, or is still to be asked for.
Searched ==
    sync.status \in {"fetching", "ready"} /\ sync.ok =>
      \A s \in DOMAIN sync.range : \A d \in sync.range[s] \ bars[s] :
        \/ Market!Answered(s, d)
        \/ Market!Hole(s, d)
        \/ \E ask \in sync.todo : ask[1] = s /\ d \in ask[2]

\* The synchronization is of the last session; its companies are mapped to its series.
Links ==
    sync # Market!Idle =>
      /\ sync.end = completed
      /\ \A c \in DOMAIN sync.secOf :
           sync.secOf[c] \in DOMAIN sync.range /\ <<c, sync.secOf[c]>> \in mapped
      /\ sync.ok => sync.batch \subseteq DOMAIN sync.secOf
      /\ sync.status = "ready" => sync.ok
      /\ sync.status \in {"ready", "failed"} => sync.todo = {}

MarketInv == MarketTypes /\ Responses /\ GapsExplained /\ Requests /\ Searched /\ Links

-----------------------------------------------------------------------------
(* The operators.                                                          *)

LEMMA SessionIsNat ==
    ASSUME MarketSensible
    PROVE  /\ Market!Session \subseteq Nat /\ 1 \in Market!Session
           /\ Market!Benchmark \in Market!Security
BY DEF MarketSensible, Market!Session, Market!Benchmark, Market!Security

LEMMA LeastOfNat ==
    ASSUME NEW R \in SUBSET Nat, R # {}
    PROVE  \E x \in R : \A y \in R : x <= y
  <1>1. PICK x \in R : \A y \in R : <<y, x>> \notin OpToRel(<, Nat)
    BY NatLessThanWellFounded, WFMin, Zenon
  <1>2. \A y \in R : y \in Nat /\ x \in Nat /\ ~ (y < x)
    BY <1>1, Zenon DEF OpToRel
  <1>3. \A y \in R : x <= y
    BY <1>2
  <1> QED
    BY <1>3

LEMMA FirstAndLast ==
    ASSUME MarketSensible, NEW R \in SUBSET Market!Session, R # {}
    PROVE  /\ Market!First(R) \in R /\ Market!Last(R) \in R
           /\ \A x \in R : Market!First(R) <= x /\ x <= Market!Last(R)
  <1> USE SessionIsNat
  <1>1. \E x \in R : \A y \in R : x <= y
    BY LeastOfNat
  <1>2. \E x \in R : \A y \in R : y <= x
    <2> DEFINE M == {MaxSession - x : x \in R}
    <2>1. \A x \in R : x \in Nat /\ MaxSession - x \in Nat
      BY DEF Market!Session, MarketSensible
    <2>2. M \in SUBSET Nat /\ M # {}
      BY <2>1
    <2>3. PICK m \in M : \A k \in M : m <= k
      BY <2>2, LeastOfNat
    <2>4. PICK x \in R : m = MaxSession - x
      OBVIOUS
    <2>5. \A y \in R : MaxSession - x <= MaxSession - y
      BY <2>3, <2>4
    <2> QED
      BY <2>1, <2>5 DEF MarketSensible
  <1> QED
    BY <1>1, <1>2 DEF Market!First, Market!Last

LEMMA SecurityParts ==
    ASSUME NEW s \in Market!Security
    PROVE  s[1] \in Ticker \cup {Spy} /\ s[2] \in Market!Session
BY DEF Market!Security

LEMMA AnswersForm ==
    ASSUME NEW t, NEW range, NEW answer \in Market!Answers(t, range)
    PROVE  answer.rows \subseteq range /\ answer.invalid \subseteq answer.rows
BY DEF Market!Answers, Market!Published

\* No response is ever thrown away, and with it no explanation.
NewestKept == \A n \in DOMAIN raw : n \in DOMAIN raw' /\ raw[n].kept \subseteq raw'[n].kept

LEMMA PutKeeps ==
    ASSUME Responses, NEW name, NEW content, raw' = Market!Put(name, content),
           content.rows \subseteq name[2] .. name[3], content.invalid \subseteq content.rows
    PROVE  /\ Responses' /\ NewestKept
           /\ name \in DOMAIN raw' /\ content \in raw'[name].kept
  <1> DEFINE kept == IF name \in DOMAIN raw THEN raw[name].kept ELSE {}
  <1>1. CASE content \in kept
    BY <1>1 DEF Market!Put, NewestKept, Responses
  <1>2. CASE content \notin kept
    <2>1. raw' = [n \in DOMAIN raw \cup {name} |->
                     IF n = name THEN [latest |-> content, kept |-> kept \cup {content}]
                     ELSE raw[n]]
      BY <1>2 DEF Market!Put
    <2>2. NewestKept /\ name \in DOMAIN raw' /\ content \in raw'[name].kept
      BY <2>1 DEF NewestKept
    <2>3. \A answer \in kept :
             answer.rows \subseteq name[2] .. name[3] /\ answer.invalid \subseteq answer.rows
      BY DEF Responses
    <2>4. ASSUME NEW n \in DOMAIN raw'
          PROVE  /\ raw'[n].latest \in raw'[n].kept
                 /\ \A answer \in raw'[n].kept :
                      answer.rows \subseteq n[2] .. n[3] /\ answer.invalid \subseteq answer.rows
      <3>1. CASE n = name
        <4>1. raw'[n].latest = content /\ raw'[n].kept = kept \cup {content}
          BY <2>1, <3>1
        <4> QED
          BY <2>3, <3>1, <4>1
      <3>2. CASE n # name
        BY <2>1, <3>2 DEF Responses
      <3> QED
        BY <3>1, <3>2
    <2> QED
      BY <2>2, <2>4 DEF Responses
  <1> QED
    BY <1>1, <1>2

LEMMA AnsweredStays ==
    ASSUME NewestKept, NEW s, NEW d, Market!Answered(s, d)
    PROVE  Market!Answered(s, d)'
BY DEF NewestKept, Market!Answered, Market!Valid

\* The session of a response that has no valid row for it was answered for.
LEMMA ResponseAnswers ==
    ASSUME MarketSensible, NEW s \in Market!Security, NEW R \in SUBSET Market!Session,
           NEW d \in R, NEW answer,
           Market!Name(s[1], R) \in DOMAIN raw', answer \in raw'[Market!Name(s[1], R)].kept,
           d \notin Market!Valid(answer)
    PROVE  Market!Answered(s, d)'
  <1>1. Market!First(R) <= d /\ d <= Market!Last(R)
    BY FirstAndLast
  <1> QED
    BY <1>1 DEF Market!Answered, Market!Name, Market!Valid

\* Rows of a response are rows of the range it was asked for.
LEMMA RowsInRange ==
    ASSUME MarketSensible, NEW s \in Market!Security, NEW R \in SUBSET Market!Session, R # {},
           Adjoins(s, R),
           NEW rows \in SUBSET (Market!First(R) .. Market!Last(R))
    PROVE  rows \subseteq R
  <1>1. Market!First(R) \in R /\ Market!Last(R) \in R /\ Market!First(R) \in Nat
        /\ Market!Last(R) \in Nat
    BY FirstAndLast, SessionIsNat
  <1>2. ASSUME NEW d \in rows
        PROVE  d \in R
    <2>1. Market!First(R) <= d /\ d <= Market!Last(R) /\ d \in Int
      BY <1>1
    <2>2. d \in Market!Session
      <3>1. 1 <= Market!First(R) /\ Market!Last(R) <= MaxSession
        BY <1>1 DEF Market!Session
      <3> QED
        BY <1>1, <2>1, <3>1 DEF Market!Session, MarketSensible
    <2>3. CASE d = Market!First(R) \/ d = Market!Last(R)
      BY <1>1, <2>3
    <2>4. CASE Market!First(R) < d /\ d < Market!Last(R)
      BY <1>1, <2>2, <2>4 DEF Adjoins
    <2> QED
      BY <1>1, <2>1, <2>3, <2>4
  <1> QED
    BY <1>2

\* Bars that are added in a range that adjoins leave no new hole unexplained.
LEMMA GapsStayExplained ==
    ASSUME MarketSensible, MarketTypes, GapsExplained, NewestKept, completed' = completed,
           NEW s \in Market!Security, NEW R \in SUBSET Market!Session, NEW V \in SUBSET R,
           Adjoins(s, R), bars' = [bars EXCEPT ![s] = @ \cup V],
           \A d \in R \ V : Market!Answered(s, d)'
    PROVE  GapsExplained'
  <1> USE SessionIsNat
  <1> SUFFICES ASSUME NEW z \in Market!Security, NEW d \in Market!Session, Between(z, d)'
               PROVE  Market!Answered(z, d)' \/ d <= completed - MarketWindow
    BY DEF GapsExplained
  <1>1. Between(z, d) => Market!Answered(z, d)' \/ d <= completed - MarketWindow
    BY AnsweredStays DEF GapsExplained
  <1>2. bars'[z] = IF z = s THEN bars[z] \cup V ELSE bars[z]
    BY DEF MarketTypes
  <1>3. CASE z # s
    BY <1>1, <1>2, <1>3 DEF Between
  <1>4. CASE z = s /\ d \in R
    BY <1>2, <1>4 DEF Between
  <1>5. CASE z = s /\ d \notin R
    <2>1. PICK x \in bars'[s], y \in bars'[s] : x < d /\ d < y
      BY <1>5 DEF Between
    <2>2. d \notin bars[s] /\ bars[s] \subseteq s[2] .. completed
      BY <1>2, <1>5 DEF Between, MarketTypes
    <2>3. s[2] \in Nat /\ completed \in Nat
      BY SecurityParts DEF MarketTypes
    <2>4. CASE R = {}
      BY <1>1, <1>2, <1>5, <2>4 DEF Between
    <2>5. CASE \A r \in R : d < r
      <3>1. x \in bars[s]
        BY <1>2, <1>5, <2>1, <2>5
      <3>2. d >= s[2]
        BY <2>1, <2>2, <2>3, <3>1
      <3>3. d <= completed - MarketWindow \/ \E w \in bars[s] : d < w
        BY <2>2, <2>3, <2>5, <3>2 DEF Adjoins
      <3> QED
        BY <1>1, <1>5, <2>1, <2>2, <3>1, <3>3 DEF Between
    <2>6. CASE \A r \in R : r < d
      <3>1. y \in bars[s]
        BY <1>2, <1>5, <2>1, <2>6
      <3>2. d <= completed
        BY <2>1, <2>2, <2>3, <3>1
      <3>3. \E w \in bars[s] : w < d
        BY <2>2, <2>3, <2>6, <3>2 DEF Adjoins
      <3> QED
        BY <1>1, <1>5, <2>1, <2>2, <3>1, <3>3 DEF Between
    <2>7. CASE (\E r \in R : ~ (d < r)) /\ (\E r \in R : ~ (r < d))
      <3>1. (\E r \in R : r < d) /\ (\E r \in R : d < r)
        BY <1>5, <2>7
      <3> QED
        BY <1>5, <3>1 DEF Adjoins
    <2> QED
      BY <2>5, <2>6, <2>7
  <1> QED
    BY <1>3, <1>4, <1>5

\* The range behind the last bar adjoins.
LEMMA ExtensionAdjoins ==
    ASSUME MarketSensible, MarketTypes, NEW s \in Market!Security, bars[s] # {},
           Market!Extension(s) # {}
    PROVE  /\ Market!Extension(s) \in SUBSET Market!Session
           /\ Market!Extension(s) \subseteq s[2] .. completed
           /\ Adjoins(s, Market!Extension(s))
  <1> USE SessionIsNat
  <1>1. bars[s] \in SUBSET Market!Session /\ bars[s] \subseteq s[2] .. completed
    BY DEF MarketTypes
  <1>2. Market!Last(bars[s]) \in bars[s] /\ Market!Last(bars[s]) \in Nat
    BY <1>1, FirstAndLast
  <1>3. s[2] \in Nat /\ completed \in Market!Session
    BY SecurityParts DEF MarketTypes
  <1>4. Market!Extension(s) = Market!Last(bars[s]) + 1 .. completed
    BY DEF Market!Extension
  <1>5. Market!Extension(s) \in SUBSET Market!Session
        /\ Market!Extension(s) \subseteq s[2] .. completed
    <2>1. completed <= MaxSession /\ 1 <= Market!Last(bars[s]) /\ s[2] <= Market!Last(bars[s])
      BY <1>1, <1>2, <1>3 DEF Market!Session
    <2> QED
      BY <1>2, <1>3, <1>4, <2>1 DEF Market!Session, MarketSensible
  <1>6. ASSUME NEW d \in Market!Session, \A r \in Market!Extension(s) : d < r
        PROVE  \/ d \in bars[s] \/ d < s[2] \/ d <= completed - MarketWindow
               \/ \E y \in bars[s] : d < y
    <2>1. d <= Market!Last(bars[s])
      BY <1>2, <1>3, <1>4, <1>6
    <2> QED
      BY <1>2, <2>1
  <1>7. ASSUME NEW d \in Market!Session, \A r \in Market!Extension(s) : r < d
        PROVE  completed < d
    BY <1>2, <1>3, <1>4, <1>7
  <1>8. ASSUME NEW d \in Market!Session, NEW q \in Market!Extension(s),
               NEW r \in Market!Extension(s), q < d, d < r
        PROVE  d \in Market!Extension(s)
    BY <1>2, <1>3, <1>4, <1>8
  <1> QED
    BY <1>5, <1>6, <1>7, <1>8 DEF Adjoins

-----------------------------------------------------------------------------
(* The steps.                                                              *)

LEMMA SyncForm ==
    ASSUME MarketTypes, sync # Market!Idle
    PROVE  /\ sync \in Synchronization
           /\ DOMAIN sync.range \subseteq Market!Security
           /\ \A s \in DOMAIN sync.range : sync.range[s] \in SUBSET Market!Session
BY DEF MarketTypes, Synchronization, Ranges

\* What a synchronization holds is left alone while bars and responses grow.
LEMMA SearchedStays ==
    ASSUME MarketTypes, Searched, NewestKept, completed' = completed,
           sync'.range = sync.range, sync'.end = sync.end, sync' # Market!Idle, sync # Market!Idle,
           sync'.status \in {"fetching", "ready"} => sync.status \in {"fetching", "ready"},
           sync'.ok => sync.ok,
           \A s \in Market!Security : bars[s] \subseteq bars'[s],
           NEW s \in DOMAIN sync.range, NEW d \in sync.range[s] \ bars'[s],
           sync'.status \in {"fetching", "ready"}, sync'.ok
    PROVE  \/ Market!Answered(s, d)'
           \/ Market!Hole(s, d)'
           \/ \E ask \in sync.todo : ask[1] = s /\ d \in ask[2]
  <1>1. s \in Market!Security /\ d \in sync.range[s] \ bars[s]
    BY SyncForm
  <1>2. Market!Hole(s, d) => Market!Hole(s, d)'
    BY <1>1 DEF Market!Hole
  <1> QED
    BY <1>1, <1>2, AnsweredStays DEF Searched

LEMMA AdjoinsStays ==
    ASSUME completed' = completed, NEW s \in Market!Security, NEW R, Adjoins(s, R),
           bars[s] \subseteq bars'[s]
    PROVE  Adjoins(s, R)'
BY DEF Adjoins

\* A response, new or stored, is processed.
LEMMA StoreStep ==
    ASSUME MarketSensible, MarketInv, sync.status = "fetching", sync # Market!Idle,
           NEW ask \in sync.todo, NEW answer,
           Market!Store(ask[1], answer, ask),
           NewestKept, Responses', Market!Name(ask[1][1], ask[2]) \in DOMAIN raw',
           answer \in raw'[Market!Name(ask[1][1], ask[2])].kept,
           UNCHANGED <<completed, filed, vendor, mapped>>, faults' \in 0 .. MaxFaults
    PROVE  MarketInv'
  <1> DEFINE s == ask[1]
             R == ask[2]
             V == Market!Valid(answer)
  <1>1. sync \in Synchronization
    BY SyncForm DEF MarketInv
  <1>2. s \in Market!Security /\ R \in SUBSET Market!Session
    BY <1>1 DEF Synchronization
  <1>3. /\ s \in DOMAIN sync.range /\ R # {} /\ R \subseteq s[2] .. completed
        /\ Adjoins(s, R)
    BY DEF MarketInv, Requests
  <1>4. answer.rows \subseteq Market!First(R) .. Market!Last(R)
    <2>1. Market!Name(s[1], R)[2] = Market!First(R) /\ Market!Name(s[1], R)[3] = Market!Last(R)
      BY DEF Market!Name
    <2> QED
      BY <2>1 DEF Responses
  <1>5. V \subseteq R
    <2>1. V \in SUBSET (Market!First(R) .. Market!Last(R))
      BY <1>4 DEF Market!Valid
    <2> QED
      BY <1>2, <1>3, <2>1, RowsInRange
  <1>6. \A d \in R \ V : Market!Answered(s, d)'
    BY <1>2, ResponseAnswers
  <1>7. bars' = [bars EXCEPT ![s] = @ \cup V]
    BY DEF Market!Store
  <1>8. sync' = [sync EXCEPT !.todo = @ \ {ask},
                             !.ok = @ /\ (V # {} \/ answer.invalid = {})]
    BY DEF Market!Store
  <1> HIDE DEF s, R, V
  <1>9. /\ bars' \in [Market!Security -> SUBSET Market!Session]
        /\ \A z \in Market!Security : bars[z] \subseteq bars'[z]
           /\ bars'[z] \subseteq z[2] .. completed
    BY <1>2, <1>3, <1>5, <1>7 DEF MarketInv, MarketTypes
  <1>10. /\ sync' \in Synchronization
         /\ sync'.status = "fetching" /\ sync'.range = sync.range /\ sync'.end = sync.end
         /\ sync'.secOf = sync.secOf /\ sync'.batch = sync.batch
         /\ sync'.todo = sync.todo \ {ask}
         /\ sync'.ok => sync.ok
    BY <1>1, <1>8 DEF Synchronization
  <1>16. sync' # Market!Idle
    <2>1. sync'.status # Market!Idle.status
      BY <1>10 DEF Market!Idle
    <2> QED
      BY <2>1
  <1>11. MarketTypes'
    BY <1>9, <1>10, SessionIsNat DEF MarketInv, MarketTypes
  <1>12. GapsExplained'
    BY <1>2, <1>3, <1>5, <1>6, <1>7, GapsStayExplained DEF MarketInv
  <1>13. Requests'
    <2> SUFFICES ASSUME NEW z \in sync.todo
                 PROVE  /\ z[1] \in DOMAIN sync.range
                        /\ z[2] # {} /\ z[2] \subseteq z[1][2] .. completed
                        /\ Adjoins(z[1], z[2])'
      BY <1>10 DEF Requests
    <2>1. z[1] \in Market!Security
      BY <1>1 DEF Synchronization
    <2>2. /\ z[1] \in DOMAIN sync.range
          /\ z[2] # {} /\ z[2] \subseteq z[1][2] .. completed
          /\ Adjoins(z[1], z[2])
      BY DEF MarketInv, Requests
    <2> QED
      BY <1>9, <2>1, <2>2, AdjoinsStays
  <1>14. Searched'
    <2> SUFFICES ASSUME sync'.ok, NEW z \in DOMAIN sync.range, NEW d \in sync.range[z] \ bars'[z]
                 PROVE  \/ Market!Answered(z, d)' \/ Market!Hole(z, d)'
                        \/ \E a \in sync.todo \ {ask} : a[1] = z /\ d \in a[2]
      BY <1>10 DEF Searched
    <2>1. \/ Market!Answered(z, d)' \/ Market!Hole(z, d)'
          \/ \E a \in sync.todo : a[1] = z /\ d \in a[2]
      BY <1>9, <1>10, <1>16, SearchedStays DEF MarketInv
    <2>2. CASE z = s /\ d \in R
      <3>1. d \notin V
        BY <1>2, <1>7, <2>2 DEF MarketInv, MarketTypes
      <3> QED
        BY <1>6, <2>2, <3>1
    <2> QED
      BY <2>1, <2>2 DEF s, R
  <1>15. Links'
    BY <1>10, <1>16 DEF MarketInv, Links
  <1> QED
    BY <1>11, <1>12, <1>13, <1>14, <1>15 DEF MarketInv

\* A followed series, or the benchmark, is extended while no other request runs:
\* with the rows of a response that has no invalid ones, or not at all.
LEMMA ExtendStep ==
    ASSUME MarketSensible, MarketTypes, GapsExplained, completed' = completed,
           NEW s \in Market!Security, bars[s] # {}, Market!Extension(s) # {}, NEW answer,
           NewestKept, Responses', Market!Name(s[1], Market!Extension(s)) \in DOMAIN raw',
           answer \in raw'[Market!Name(s[1], Market!Extension(s))].kept,
           bars' = IF answer.invalid = {} THEN [bars EXCEPT ![s] = @ \cup answer.rows] ELSE bars
    PROVE  /\ GapsExplained'
           /\ bars' \in [Market!Security -> SUBSET Market!Session]
           /\ \A z \in Market!Security : bars[z] \subseteq bars'[z]
              /\ bars'[z] \subseteq z[2] .. completed
  <1> DEFINE R == Market!Extension(s)
  <1>1. R \in SUBSET Market!Session /\ R \subseteq s[2] .. completed /\ Adjoins(s, R)
    BY ExtensionAdjoins
  <1>2. CASE answer.invalid # {}
    BY <1>2, AnsweredStays DEF GapsExplained, Between, MarketTypes
  <1>3. CASE answer.invalid = {}
    <2>1. Market!Name(s[1], R)[2] = Market!First(R) /\ Market!Name(s[1], R)[3] = Market!Last(R)
      BY DEF Market!Name
    <2>2. answer.rows \in SUBSET (Market!First(R) .. Market!Last(R))
      BY <2>1 DEF Responses
    <2>3. answer.rows \subseteq R
      BY <1>1, <2>2, RowsInRange
    <2>4. Market!Valid(answer) = answer.rows
      BY <1>3 DEF Market!Valid
    <2>5. \A d \in R \ answer.rows : Market!Answered(s, d)'
      BY <1>1, <2>4, ResponseAnswers
    <2>6. bars' = [bars EXCEPT ![s] = @ \cup answer.rows]
      BY <1>3
    <2> HIDE DEF R
    <2>7. GapsExplained'
      BY <1>1, <2>3, <2>5, <2>6, GapsStayExplained
    <2> QED
      BY <1>1, <2>3, <2>6, <2>7 DEF MarketTypes
  <1> QED
    BY <1>2, <1>3

LEMMA LaterRow ==
    ASSUME NEW d \in Nat, NEW m \in Nat, NEW n \in Nat, NEW w \in Nat, m <= n
    PROVE  d <= m - w => d <= n - w
OBVIOUS

\* Nothing but the vendor, the filings or a synchronization that ends changes.
LEMMA IdleStep ==
    ASSUME MarketSensible, MarketInv, UNCHANGED <<raw, bars, mapped>>,
           completed' \in completed .. MaxSession, faults' \in 0 .. MaxFaults,
           filed' \in [MarketCompany -> Ticker],
           vendor' \in [Ticker \cup {Spy} -> [from : Market!Session, through : Market!Session]],
           \A t \in Ticker \cup {Spy} :
              vendor'[t].from <= vendor'[t].through /\ vendor'[t].through <= completed',
           sync' = Market!Idle \/ (sync' = sync /\ completed' = completed)
    PROVE  MarketInv'
  <1>1. completed \in Market!Session /\ completed' \in Market!Session /\ completed <= completed'
    BY DEF MarketInv, MarketTypes, MarketSensible, Market!Session
  <1>2. MarketTypes'
    <2>1. \A s \in Market!Security : bars[s] \subseteq s[2] .. completed'
      BY <1>1, SessionIsNat, SecurityParts DEF MarketInv, MarketTypes
    <2> QED
      BY <1>1, <2>1 DEF MarketInv, MarketTypes
  <1>3. Responses'
    BY DEF MarketInv, Responses
  <1>4. \A s, d : Market!Answered(s, d) <=> Market!Answered(s, d)'
    BY DEF Market!Answered, Market!Valid
  <1>5. GapsExplained'
    <2> SUFFICES ASSUME NEW s \in Market!Security, NEW d \in Market!Session, Between(s, d)
                 PROVE  Market!Answered(s, d)' \/ d <= completed' - MarketWindow
      BY DEF GapsExplained, Between
    <2>1. Market!Answered(s, d) \/ d <= completed - MarketWindow
      BY DEF MarketInv, GapsExplained
    <2>2. completed \in Nat /\ completed' \in Nat /\ MarketWindow \in Nat /\ d \in Nat
      BY <1>1, SessionIsNat DEF MarketSensible
    <2>3. d <= completed - MarketWindow => d <= completed' - MarketWindow
      BY <1>1, <2>2, LaterRow
    <2>4. Market!Answered(s, d) => Market!Answered(s, d)'
      BY <1>4
    <2> QED
      BY <2>1, <2>3, <2>4
  <1>6. CASE sync' = Market!Idle
    <2>1. Requests' /\ Searched' /\ Links'
      BY <1>6 DEF Market!Idle, Requests, Searched, Links
    <2> QED
      BY <1>2, <1>3, <1>5, <2>1 DEF MarketInv
  <1>7. CASE sync' = sync /\ completed' = completed
    <2>1. Requests' /\ Links'
      BY <1>7 DEF MarketInv, Requests, Links, Adjoins
    <2>2. Searched'
      BY <1>4, <1>7 DEF MarketInv, Searched, Market!Hole
    <2> QED
      BY <1>2, <1>3, <1>5, <2>1, <2>2 DEF MarketInv
  <1> QED
    BY <1>6, <1>7

LEMMA OutsideSteps ==
    ASSUME MarketSensible, MarketInv,
           \/ Market!Close \/ Market!Crash
           \/ \E t \in Ticker \cup {Spy} : Market!Publish(t) \/ Market!CorrectStart(t)
           \/ \E c \in MarketCompany, t \in Ticker : Market!Rename(c, t)
    PROVE  MarketInv'
  <1> USE SessionIsNat
  <1>1. /\ completed \in Market!Session /\ faults \in 0 .. MaxFaults
        /\ filed \in [MarketCompany -> Ticker]
        /\ vendor \in [Ticker \cup {Spy} -> [from : Market!Session, through : Market!Session]]
        /\ \A t \in Ticker \cup {Spy} :
             vendor[t].from <= vendor[t].through /\ vendor[t].through <= completed
    BY DEF MarketInv, MarketTypes
  <1>2. completed \in completed .. MaxSession
    BY <1>1 DEF Market!Session
  <1>3. CASE Market!Close
    <2>1. completed' \in completed .. MaxSession
      BY <1>1, <1>3 DEF Market!Close, Market!Session, MarketSensible
    <2>2. \A t \in Ticker \cup {Spy} : vendor[t].through <= completed'
      BY <1>1, <2>1
    <2> QED
      BY <1>1, <1>3, <2>1, <2>2, IdleStep DEF Market!Close
  <1>4. CASE Market!Crash
    BY <1>1, <1>2, <1>4, IdleStep DEF Market!Crash
  <1>5. ASSUME NEW t \in Ticker \cup {Spy}, Market!Publish(t)
        PROVE  MarketInv'
    <2>1. /\ vendor' \in [Ticker \cup {Spy} -> [from : Market!Session, through : Market!Session]]
          /\ \A u \in Ticker \cup {Spy} :
               vendor'[u].from <= vendor'[u].through /\ vendor'[u].through <= completed
      <3>1. vendor[t].from <= completed
        BY <1>1
      <3> QED
        BY <1>1, <1>5, <3>1 DEF Market!Publish
    <2> QED
      BY <1>1, <1>2, <1>5, <2>1, IdleStep DEF Market!Publish
  <1>6. ASSUME NEW t \in Ticker \cup {Spy}, Market!CorrectStart(t)
        PROVE  MarketInv'
    <2>1. vendor[t].from + 1 \in Market!Session /\ vendor[t].from + 1 <= vendor[t].through
      BY <1>1, <1>6 DEF Market!CorrectStart, Market!Session, MarketSensible
    <2>2. /\ vendor' \in [Ticker \cup {Spy} -> [from : Market!Session, through : Market!Session]]
          /\ \A u \in Ticker \cup {Spy} :
               vendor'[u].from <= vendor'[u].through /\ vendor'[u].through <= completed
      BY <1>1, <1>6, <2>1 DEF Market!CorrectStart
    <2>3. faults' \in 0 .. MaxFaults
      BY <1>1, <1>6 DEF Market!CorrectStart, MarketSensible
    <2> QED
      BY <1>1, <1>2, <1>6, <2>2, <2>3, IdleStep DEF Market!CorrectStart
  <1>7. ASSUME NEW c \in MarketCompany, NEW t \in Ticker, Market!Rename(c, t)
        PROVE  MarketInv'
    <2>1. filed[c] \in Ticker /\ filed' \in [MarketCompany -> Ticker]
      BY <1>1, <1>7 DEF Market!Rename
    <2>2. /\ vendor' \in [Ticker \cup {Spy} -> [from : Market!Session, through : Market!Session]]
          /\ \A u \in Ticker \cup {Spy} :
               vendor'[u].from <= vendor'[u].through /\ vendor'[u].through <= completed
      BY <1>1, <1>7, <2>1 DEF Market!Rename
    <2>3. faults' \in 0 .. MaxFaults
      BY <1>1, <1>7 DEF Market!Rename, MarketSensible
    <2> QED
      BY <1>1, <1>2, <1>7, <2>1, <2>2, <2>3, IdleStep DEF Market!Rename
  <1> QED
    BY <1>3, <1>4, <1>5, <1>6, <1>7

LEMMA ReuseStep ==
    ASSUME MarketSensible, MarketInv, NEW ask \in Market!Security \X SUBSET Market!Session,
           Market!Reuse(ask)
    PROVE  MarketInv'
  <1> DEFINE n == Market!Name(ask[1][1], ask[2])
  <1>1. n \in DOMAIN raw /\ raw[n].latest \in raw[n].kept
    BY DEF Market!Reuse, MarketInv, Responses
  <1>2. Responses' /\ NewestKept /\ raw' = raw
    BY DEF Market!Reuse, MarketInv, Responses, NewestKept
  <1>3. sync # Market!Idle
    BY DEF Market!Reuse, Market!Idle
  <1>4. faults' \in 0 .. MaxFaults /\ Market!Store(ask[1], raw[n].latest, ask)
    BY DEF Market!Reuse, MarketInv, MarketTypes
  <1> HIDE DEF n
  <1>5. n = Market!Name(ask[1][1], ask[2])
    BY DEF n
  <1> QED
    BY <1>1, <1>2, <1>3, <1>4, <1>5, StoreStep DEF Market!Reuse

\* What is asked for is inside of the range the response is named after.
LEMMA NamedRange ==
    ASSUME MarketSensible, NEW t, NEW range \in SUBSET Market!Session, range # {},
           NEW rows \in SUBSET range
    PROVE  rows \subseteq Market!Name(t, range)[2] .. Market!Name(t, range)[3]
  <1>1. \A d \in range : Market!First(range) <= d /\ d <= Market!Last(range)
    BY FirstAndLast
  <1>2. range \subseteq Nat /\ Market!First(range) \in Nat /\ Market!Last(range) \in Nat
    BY FirstAndLast, SessionIsNat
  <1> QED
    BY <1>1, <1>2 DEF Market!Name

LEMMA FetchStep ==
    ASSUME MarketSensible, MarketInv, NEW ask \in Market!Security \X SUBSET Market!Session,
           Market!Fetch(ask)
    PROVE  MarketInv'
  <1> DEFINE n == Market!Name(ask[1][1], ask[2])
  <1>1. sync # Market!Idle
    BY DEF Market!Fetch, Market!Idle
  <1>2. ask[1] \in Market!Security /\ ask[2] \in SUBSET Market!Session /\ ask[2] # {}
        /\ ask \in sync.todo
    BY DEF Market!Fetch, MarketInv, Requests
  <1>3. PICK answer \in Market!Answers(ask[1][1], ask[2]) :
           /\ raw' = Market!Put(n, answer)
           /\ Market!Store(ask[1], answer, ask)
           /\ faults' = IF answer.invalid = {} THEN faults ELSE faults + 1
    BY DEF Market!Fetch
  <1>4. answer.rows \subseteq ask[2] /\ answer.invalid \subseteq answer.rows
    BY AnswersForm
  <1>5. answer.rows \subseteq n[2] .. n[3]
    BY <1>2, <1>4, NamedRange
  <1>6. faults' \in 0 .. MaxFaults
    <2>1. answer.invalid # {} => faults < MaxFaults
      BY DEF Market!Answers
    <2> QED
      BY <1>3, <2>1 DEF MarketInv, MarketTypes, MarketSensible
  <1> HIDE DEF n
  <1>7. Responses' /\ NewestKept /\ n \in DOMAIN raw' /\ answer \in raw'[n].kept
    BY <1>3, <1>4, <1>5, PutKeeps DEF MarketInv
  <1>8. n = Market!Name(ask[1][1], ask[2])
    BY DEF n
  <1> QED
    BY <1>1, <1>2, <1>3, <1>6, <1>7, <1>8, StoreStep DEF Market!Fetch

\* A request that failed makes the synchronization fail.
LEMMA FetchFailsStep ==
    ASSUME MarketSensible, MarketInv, NEW ask \in Market!Security \X SUBSET Market!Session,
           Market!FetchFails(ask)
    PROVE  MarketInv'
  <1>1. sync # Market!Idle
    BY DEF Market!FetchFails, Market!Idle
  <1>2. sync \in Synchronization
    BY <1>1, SyncForm DEF MarketInv
  <1>3. /\ sync' \in Synchronization /\ ~ sync'.ok
        /\ sync'.status = "fetching" /\ sync'.range = sync.range /\ sync'.end = sync.end
        /\ sync'.secOf = sync.secOf /\ sync'.todo \subseteq sync.todo
    BY <1>2 DEF Market!FetchFails, Synchronization
  <1>4. MarketTypes'
    <2>1. faults' \in 0 .. MaxFaults
      BY DEF Market!FetchFails, MarketInv, MarketTypes, MarketSensible
    <2> QED
      BY <1>3, <2>1 DEF Market!FetchFails, MarketInv, MarketTypes
  <1>5. Responses' /\ GapsExplained'
    BY DEF Market!FetchFails, MarketInv, Responses, GapsExplained, Between, Market!Answered,
           Market!Valid
  <1>6. Requests'
    BY <1>3 DEF Market!FetchFails, MarketInv, Requests, Adjoins
  <1>7. Searched'
    BY <1>3 DEF Searched
  <1>8. Links'
    BY <1>1, <1>3 DEF Market!FetchFails, MarketInv, Links
  <1> QED
    BY <1>4, <1>5, <1>6, <1>7, <1>8 DEF MarketInv

\* The window of a resolved company: it reaches to the last completed session and
\* begins at the history's first or within what all windows share.
LEMMA SeriesForm ==
    ASSUME MarketSensible, MarketInv, NEW known \in SUBSET MarketCompany,
           NEW seenDay \in completed .. completed + 1
    PROVE  /\ \A c \in known : Market!SecurityOf(c) \in Market!Security
           /\ DOMAIN Market!Series(known, seenDay) = {Market!SecurityOf(c) : c \in known}
           /\ Market!Series(known, seenDay) \in Ranges
           /\ \A s \in DOMAIN Market!Series(known, seenDay) :
                /\ Market!Series(known, seenDay)[s] \in SUBSET Market!Session
                /\ Market!Series(known, seenDay)[s] =
                       {d \in s[2] .. completed : d >= seenDay - MarketWindow}
  <1>1. ASSUME NEW c \in known
        PROVE  Market!SecurityOf(c) \in Market!Security
    <2>1. filed[c] \in Ticker /\ vendor[filed[c]].from \in Market!Session
      BY DEF MarketInv, MarketTypes
    <2> QED
      BY <2>1 DEF Market!SecurityOf, Market!Security
  <1>2. /\ DOMAIN Market!Series(known, seenDay) = {Market!SecurityOf(c) : c \in known}
        /\ \A s \in DOMAIN Market!Series(known, seenDay) :
             Market!Series(known, seenDay)[s] =
                 {d \in s[2] .. completed : d >= seenDay - MarketWindow}
    BY DEF Market!Series
  <1>3. ASSUME NEW s \in DOMAIN Market!Series(known, seenDay)
        PROVE  Market!Series(known, seenDay)[s] \in SUBSET Market!Session
    <2>1. s[2] \in Market!Session /\ completed \in Market!Session
      BY <1>1, <1>2, SecurityParts DEF MarketInv, MarketTypes
    <2>2. s[2] .. completed \in SUBSET Market!Session
      BY <2>1 DEF Market!Session, MarketSensible
    <2> QED
      BY <1>2, <2>2
  <1>4. Market!Series(known, seenDay)
            \in [{Market!SecurityOf(c) : c \in known} -> SUBSET Market!Session]
    BY <1>2, <1>3 DEF Market!Series
  <1>5. {Market!SecurityOf(c) : c \in known} \in SUBSET Market!Security
    BY <1>1
  <1>6. Market!Series(known, seenDay) \in Ranges
    BY <1>4, <1>5 DEF Ranges
  <1> QED
    BY <1>1, <1>2, <1>3, <1>6

\* The requests for a window adjoin the bars that are there.
LEMMA AsksAdjoin ==
    ASSUME MarketSensible, MarketTypes, NEW s \in Market!Security,
           NEW seenDay \in completed .. completed + 1,
           NEW range, range = {d \in s[2] .. completed : d >= seenDay - MarketWindow},
           NEW R \in Market!Asks(s, range)
    PROVE  /\ R # {} /\ R \in SUBSET Market!Session /\ R \subseteq s[2] .. completed
           /\ Adjoins(s, R)
  <1>1. /\ s[2] \in Market!Session /\ completed \in Market!Session /\ seenDay \in Nat
        /\ MarketWindow \in Nat
        /\ seenDay <= completed + 1
    BY SecurityParts, SessionIsNat DEF MarketTypes, MarketSensible
  <1>2. /\ s[2] \in Nat /\ completed \in Nat
        /\ s[2] .. completed \in SUBSET Market!Session
    BY <1>1, SessionIsNat DEF Market!Session, MarketSensible
  <1>3. bars[s] \in SUBSET Market!Session /\ bars[s] \subseteq s[2] .. completed
    BY DEF MarketTypes
  <1>4. /\ range # {}
        /\ \/ R = range
           \/ bars[s] # {} /\ R # {} /\ R = {d \in range : d < Market!First(bars[s])}
           \/ bars[s] # {} /\ R # {} /\ R = {d \in range : d > Market!Last(bars[s])}
    BY DEF Market!Asks, Market!Missing
  <1>5. R # {} /\ R \subseteq range /\ R \in SUBSET Market!Session /\ R \subseteq s[2] .. completed
    BY <1>2, <1>4
  <1>6. bars[s] # {} =>
          /\ Market!First(bars[s]) \in bars[s] /\ Market!Last(bars[s]) \in bars[s]
          /\ Market!First(bars[s]) \in Nat /\ Market!Last(bars[s]) \in Nat
          /\ Market!First(bars[s]) <= completed
    BY <1>1, <1>2, <1>3, FirstAndLast, SessionIsNat
  <1>7. ASSUME NEW d \in Market!Session, NEW q \in R, NEW r \in R, q < d, d < r
        PROVE  d \in R
    <2>1. d \in Nat /\ q \in Nat /\ r \in Nat
      BY <1>5, SessionIsNat
    <2>2. d \in range
      BY <1>1, <1>2, <1>5, <1>7, <2>1
    <2> QED
      BY <1>4, <1>6, <1>7, <2>1, <2>2
  <1>8. ASSUME NEW d \in Market!Session, \A r \in R : d < r
        PROVE  \/ d \in bars[s] \/ d < s[2] \/ d <= completed - MarketWindow
               \/ \E y \in bars[s] : d < y
    <2>1. d \in Nat
      BY SessionIsNat
    <2>2. CASE d \notin range
      <3>1. d < s[2] \/ completed < d \/ d < seenDay - MarketWindow
        BY <1>1, <1>2, <2>1, <2>2
      <3>2. ~ (completed < d)
        <4>1. PICK r \in R : d < r
          BY <1>5, <1>8
        <4>2. r \in Nat /\ r <= completed
          BY <1>2, <1>5
        <4> QED
          BY <1>2, <2>1, <4>1, <4>2
      <3> QED
        BY <1>1, <1>2, <2>1, <3>1, <3>2
    <2>3. CASE d \in range /\ R = range
      BY <1>8, <2>1, <2>3
    <2>4. CASE d \in range /\ bars[s] # {} /\ R = {x \in range : x < Market!First(bars[s])}
      <3>1. PICK r \in R : TRUE
        BY <1>5
      <3>2. d < r /\ r < Market!First(bars[s]) /\ r \in Nat
        BY <1>2, <1>5, <1>8, <2>4, <3>1
      <3>3. d \in R
        BY <1>6, <2>1, <2>4, <3>2
      <3> QED
        BY <1>8, <2>1, <3>3
    <2>5. CASE d \in range /\ bars[s] # {} /\ R = {x \in range : x > Market!Last(bars[s])}
      <3>1. d \notin R
        BY <1>8, <2>1
      <3>2. d <= Market!Last(bars[s])
        BY <1>6, <2>1, <2>5, <3>1
      <3> QED
        BY <1>6, <2>1, <2>5, <3>2
    <2> QED
      BY <1>4, <2>2, <2>3, <2>4, <2>5
  <1>9. ASSUME NEW d \in Market!Session, \A r \in R : r < d
        PROVE  d \in bars[s] \/ completed < d \/ \E x \in bars[s] : x < d
    <2>1. d \in Nat
      BY SessionIsNat
    <2>2. PICK r \in R : r \in Nat /\ r < d /\ r \in range /\ s[2] <= r
          /\ seenDay - MarketWindow <= r
      BY <1>1, <1>2, <1>4, <1>5, <1>9
    <2>3. d \in range \/ completed < d
      BY <1>1, <1>2, <2>1, <2>2
    <2>4. CASE R = range \/ (bars[s] # {} /\ R = {x \in range : x > Market!Last(bars[s])})
      <3>1. d \in R => d < d
        BY <1>9
      <3>2. d \notin R
        BY <2>1, <3>1
      <3>3. CASE R = range
        BY <2>3, <3>2, <3>3
      <3>4. CASE bars[s] # {} /\ R = {x \in range : x > Market!Last(bars[s])}
        <4>1. Market!Last(bars[s]) < r
          BY <3>4
        <4> QED
          BY <1>6, <2>1, <2>2, <3>4, <4>1
      <3> QED
        BY <2>4, <3>3, <3>4
    <2>5. CASE bars[s] # {} /\ R = {x \in range : x < Market!First(bars[s])}
      <3>1. d \in R => d < d
        BY <1>9
      <3>2. completed < d \/ Market!First(bars[s]) <= d
        BY <1>6, <2>1, <2>3, <2>5, <3>1
      <3> QED
        BY <1>6, <2>1, <2>5, <3>2
    <2> QED
      BY <1>4, <2>4, <2>5
  <1> QED
    BY <1>5, <1>7, <1>8, <1>9 DEF Adjoins

\* A session of the window without a bar is asked for or lies between bars.
LEMMA AsksCover ==
    ASSUME MarketSensible, MarketTypes, NEW s \in Market!Security,
           NEW range \in SUBSET Market!Session,
           NEW d \in range \ bars[s]
    PROVE  (\E R \in Market!Asks(s, range) : d \in R) \/ Between(s, d)
  <1>1. range # {} /\ d \in Nat /\ bars[s] \in SUBSET Market!Session
    BY SessionIsNat DEF MarketTypes
  <1>2. CASE Market!Name(s[1], range) \in DOMAIN raw \/ bars[s] = {}
    BY <1>1, <1>2 DEF Market!Asks, Market!Missing
  <1>3. CASE Market!Name(s[1], range) \notin DOMAIN raw /\ bars[s] # {}
    <2>1. /\ Market!First(bars[s]) \in bars[s] /\ Market!Last(bars[s]) \in bars[s]
          /\ Market!First(bars[s]) \in Nat /\ Market!Last(bars[s]) \in Nat
      BY <1>1, <1>3, FirstAndLast, SessionIsNat
    <2>2. Market!Asks(s, range) = {{x \in range : x < Market!First(bars[s])},
                                   {x \in range : x > Market!Last(bars[s])}} \ {{}}
      BY <1>1, <1>3 DEF Market!Asks, Market!Missing
    <2>3. CASE d < Market!First(bars[s])
      <3>1. d \in {x \in range : x < Market!First(bars[s])}
        BY <2>3
      <3> QED
        BY <2>2, <3>1
    <2>4. CASE d > Market!Last(bars[s])
      <3>1. d \in {x \in range : x > Market!Last(bars[s])}
        BY <2>4
      <3> QED
        BY <2>2, <3>1
    <2>5. CASE ~ (d < Market!First(bars[s])) /\ ~ (d > Market!Last(bars[s]))
      <3>1. Market!First(bars[s]) < d /\ d < Market!Last(bars[s])
        BY <1>1, <2>1, <2>5
      <3> QED
        BY <2>1, <3>1 DEF Between
    <2> QED
      BY <2>3, <2>4, <2>5
  <1> QED
    BY <1>2, <1>3

LEMMA ResolveStep ==
    ASSUME MarketSensible, MarketInv, NEW asked \in SUBSET MarketCompany,
           NEW seenDay \in 1 .. MaxSession + 1,
           Market!Resolve(asked, seenDay)
    PROVE  MarketInv'
  <1>1. seenDay \in completed .. completed + 1
    BY DEF Market!Resolve
  <1>2. PICK known \in SUBSET asked :
           /\ mapped' = Market!Registered(known)
           /\ sync' = [status |-> "fetching", batch |-> asked, end |-> completed,
                       secOf |-> [c \in known |-> Market!SecurityOf(c)],
                       range |-> Market!Series(known, seenDay),
                       todo |-> UNION {{s} \X Market!Asks(s, Market!Series(known, seenDay)[s]) :
                                          s \in DOMAIN Market!Series(known, seenDay)},
                       ok |-> known = asked]
    BY DEF Market!Resolve
  <1> DEFINE series == Market!Series(known, seenDay)
  <1>3. /\ \A c \in known : Market!SecurityOf(c) \in Market!Security
        /\ DOMAIN series = {Market!SecurityOf(c) : c \in known}
        /\ series \in Ranges
        /\ \A s \in DOMAIN series :
             /\ series[s] \in SUBSET Market!Session
             /\ series[s] = {d \in s[2] .. completed : d >= seenDay - MarketWindow}
    BY <1>1, SeriesForm
  <1> HIDE DEF series
  <1>4. UNCHANGED <<completed, filed, vendor, raw, bars, faults>>
    BY DEF Market!Resolve
  <1>5. /\ sync'.status = "fetching" /\ sync'.batch = asked /\ sync'.end = completed
        /\ sync'.secOf = [c \in known |-> Market!SecurityOf(c)] /\ sync'.range = series
        /\ sync'.ok = (known = asked)
        /\ sync'.todo = UNION {{s} \X Market!Asks(s, series[s]) : s \in DOMAIN series}
    BY <1>2 DEF series
  <1>6. ASSUME NEW ask \in sync'.todo
        PROVE  /\ ask[1] \in DOMAIN series /\ ask[1] \in Market!Security
               /\ ask \in Market!Security \X SUBSET Market!Session
               /\ ask[2] # {} /\ ask[2] \subseteq ask[1][2] .. completed /\ Adjoins(ask[1], ask[2])
    <2>1. PICK s \in DOMAIN series : ask \in {s} \X Market!Asks(s, series[s])
      BY <1>5
    <2>2. ask = <<s, ask[2]>> /\ ask[1] = s /\ ask[2] \in Market!Asks(s, series[s])
          /\ s \in Market!Security
      BY <1>3, <2>1
    <2>3. /\ ask[2] # {} /\ ask[2] \in SUBSET Market!Session /\ ask[2] \subseteq s[2] .. completed
          /\ Adjoins(s, ask[2])
      BY <1>1, <1>3, <2>2, AsksAdjoin DEF MarketInv
    <2> QED
      BY <2>2, <2>3
  <1>7. MarketTypes'
    <2>1. [c \in known |-> Market!SecurityOf(c)] \in Maps
      <3>1. [c \in known |-> Market!SecurityOf(c)] \in [known -> Market!Security]
            /\ known \in SUBSET MarketCompany
        BY <1>3
      <3> QED
        BY <3>1 DEF Maps
    <2>2. sync'.todo \in SUBSET (Market!Security \X SUBSET Market!Session)
      BY <1>6
    <2>3. sync' \in Synchronization
      BY <1>2, <1>3, <1>5, <2>1, <2>2 DEF Synchronization, MarketInv, MarketTypes, series
    <2>4. mapped' \subseteq MarketCompany \X Market!Security
      BY <1>2, <1>3 DEF Market!Registered, MarketInv, MarketTypes
    <2> QED
      BY <1>4, <2>3, <2>4 DEF MarketInv, MarketTypes
  <1>8. Responses' /\ GapsExplained'
    BY <1>4 DEF MarketInv, Responses, GapsExplained, Between, Market!Answered, Market!Valid
  <1>9. Requests'
    BY <1>4, <1>5, <1>6 DEF Requests, Adjoins
  <1>10. Searched'
    <2> SUFFICES ASSUME NEW s \in DOMAIN series, NEW d \in series[s] \ bars[s]
                 PROVE  Market!Answered(s, d)' \/ Market!Hole(s, d)'
                        \/ \E ask \in sync'.todo : ask[1] = s /\ d \in ask[2]
      BY <1>4, <1>5 DEF Searched
    <2>1. s \in Market!Security
      BY <1>3
    <2>2. CASE \E R \in Market!Asks(s, series[s]) : d \in R
      <3>1. PICK R \in Market!Asks(s, series[s]) : d \in R
        BY <2>2
      <3>2. <<s, R>> \in sync'.todo
        BY <1>5, <3>1
      <3> QED
        BY <3>1, <3>2
    <2>3. CASE Between(s, d)
      <3>1. d \in Market!Session
        BY <1>3
      <3>2. Market!Answered(s, d) \/ d <= completed - MarketWindow
        BY <2>1, <2>3, <3>1 DEF MarketInv, GapsExplained
      <3>3. Market!Answered(s, d) => Market!Answered(s, d)'
        BY <1>4 DEF Market!Answered, Market!Valid
      <3>4. d <= completed - MarketWindow => Market!Hole(s, d)'
        BY <1>4, <1>5, <2>3 DEF Market!Hole, Between
      <3> QED
        BY <3>2, <3>3, <3>4
    <2> QED
      BY <1>3, <2>1, <2>2, <2>3, AsksCover DEF MarketInv
  <1>11. Links'
    <2>1. \A c \in known : <<c, Market!SecurityOf(c)>> \in mapped'
      BY <1>2 DEF Market!Registered
    <2> QED
      BY <1>3, <1>4, <1>5, <2>1 DEF Links
  <1> QED
    BY <1>7, <1>8, <1>9, <1>10, <1>11 DEF MarketInv

\* The vendor's answer for an extension is kept as it came.
LEMMA ExtensionAnswer ==
    ASSUME MarketSensible, MarketInv, NEW s \in Market!Security, bars[s] # {},
           Market!Extension(s) # {},
           NEW answer \in Market!Answers(s[1], Market!Extension(s)),
           raw' = Market!Put(Market!Name(s[1], Market!Extension(s)), answer),
           faults' = IF answer.invalid = {} THEN faults ELSE faults + 1
    PROVE  /\ Responses' /\ NewestKept
           /\ Market!Name(s[1], Market!Extension(s)) \in DOMAIN raw'
           /\ answer \in raw'[Market!Name(s[1], Market!Extension(s))].kept
           /\ faults' \in 0 .. MaxFaults
  <1> DEFINE R == Market!Extension(s)
             n == Market!Name(s[1], R)
  <1>1. R \in SUBSET Market!Session
    BY ExtensionAdjoins DEF MarketInv
  <1>2. answer.rows \subseteq R /\ answer.invalid \subseteq answer.rows
    BY AnswersForm
  <1>3. answer.invalid # {} => faults < MaxFaults
    BY DEF Market!Answers
  <1>4. faults' \in 0 .. MaxFaults
    BY <1>3 DEF MarketInv, MarketTypes, MarketSensible
  <1> HIDE DEF R
  <1>5. R # {} /\ raw' = Market!Put(Market!Name(s[1], R), answer)
    BY DEF R
  <1>6. answer.rows \subseteq n[2] .. n[3]
    BY <1>1, <1>2, <1>5, NamedRange
  <1> HIDE DEF n
  <1>7. raw' = Market!Put(n, answer)
    BY <1>5 DEF n
  <1>8. Responses' /\ NewestKept /\ n \in DOMAIN raw' /\ answer \in raw'[n].kept
    BY <1>2, <1>6, <1>7, PutKeeps DEF MarketInv
  <1> QED
    BY <1>4, <1>8 DEF n, R

LEMMA FollowStep ==
    ASSUME MarketSensible, MarketInv, NEW s \in Market!Security, Market!Follow(s)
    PROVE  MarketInv'
  <1>1. bars[s] # {} /\ Market!Extension(s) # {}
        /\ UNCHANGED <<completed, filed, vendor, mapped, sync>>
    BY DEF Market!Follow
  <1>2. PICK answer \in Market!Answers(s[1], Market!Extension(s)) :
           /\ raw' = Market!Put(Market!Name(s[1], Market!Extension(s)), answer)
           /\ bars' = IF answer.invalid = {} THEN [bars EXCEPT ![s] = @ \cup answer.rows] ELSE bars
           /\ faults' = IF answer.invalid = {} THEN faults ELSE faults + 1
    BY DEF Market!Follow
  <1>3. /\ Responses' /\ NewestKept
        /\ Market!Name(s[1], Market!Extension(s)) \in DOMAIN raw'
        /\ answer \in raw'[Market!Name(s[1], Market!Extension(s))].kept
        /\ faults' \in 0 .. MaxFaults
    BY <1>1, <1>2, ExtensionAnswer
  <1>4. /\ GapsExplained'
        /\ bars' \in [Market!Security -> SUBSET Market!Session]
        /\ \A z \in Market!Security : bars[z] \subseteq bars'[z]
           /\ bars'[z] \subseteq z[2] .. completed
    BY <1>1, <1>2, <1>3, ExtendStep DEF MarketInv
  <1>5. MarketTypes'
    BY <1>1, <1>3, <1>4, SessionIsNat DEF MarketInv, MarketTypes
  <1>6. sync.status # "fetching"
    BY DEF Market!Follow, Market!Resting
  <1>7. Requests'
    BY <1>1, <1>6 DEF Requests
  <1>8. Searched'
    <2> SUFFICES ASSUME sync.status \in {"fetching", "ready"}, sync.ok,
                        NEW z \in DOMAIN sync.range, NEW d \in sync.range[z] \ bars'[z]
                 PROVE  Market!Answered(z, d)' \/ Market!Hole(z, d)'
                        \/ \E ask \in sync.todo : ask[1] = z /\ d \in ask[2]
      BY <1>1 DEF Searched
    <2>1. sync # Market!Idle
      BY DEF Market!Idle
    <2> QED
      BY <1>1, <1>3, <1>4, <2>1, SearchedStays DEF MarketInv
  <1>9. Links'
    BY <1>1 DEF MarketInv, Links
  <1> QED
    BY <1>3, <1>4, <1>5, <1>7, <1>8, <1>9 DEF MarketInv

\* The benchmark comes last; the synchronization ends with it, one way or the other.
LEMMA BenchmarkStep ==
    ASSUME MarketSensible, MarketInv, Market!SyncBenchmark
    PROVE  MarketInv'
  <1> DEFINE range == Market!Extension(Market!Benchmark)
             name == Market!Name(Spy, range)
             Finish(answer) ==
               /\ bars' = IF answer.invalid = {}
                      THEN [bars EXCEPT ![Market!Benchmark] = @ \cup answer.rows]
                          ELSE bars
               /\ sync' = IF answer.invalid # {} THEN Market!Idle
                          ELSE [sync EXCEPT !.status = IF sync.ok THEN "ready" ELSE "failed"]
  <1>1. Market!Benchmark \in Market!Security /\ bars[Market!Benchmark] # {}
        /\ Market!Benchmark[1] = Spy
    BY SessionIsNat DEF MarketInv, MarketTypes, Market!Benchmark
  <1>2. /\ sync.status = "fetching" /\ sync.todo = {} /\ sync # Market!Idle
        /\ UNCHANGED <<completed, filed, vendor, mapped>>
    BY DEF Market!SyncBenchmark, Market!Idle
  <1>3. sync \in Synchronization
    BY <1>2, SyncForm DEF MarketInv
  <1>4. \E answer :
          /\ Finish(answer)
          /\ Responses' /\ NewestKept /\ GapsExplained' /\ faults' \in 0 .. MaxFaults
          /\ bars' \in [Market!Security -> SUBSET Market!Session]
          /\ \A z \in Market!Security : bars[z] \subseteq bars'[z]
             /\ bars'[z] \subseteq z[2] .. completed
    <2>1. CASE range = {}
      <3> DEFINE none == [rows |-> {}, invalid |-> {}]
      <3>1. Finish(none) /\ UNCHANGED <<raw, faults>>
        BY <2>1 DEF Market!SyncBenchmark
      <3>2. bars' = bars
        BY <1>1, <3>1 DEF MarketInv, MarketTypes
      <3>3. Responses' /\ NewestKept /\ GapsExplained'
        BY <1>2, <3>1, <3>2 DEF MarketInv, Responses, NewestKept, GapsExplained, Between,
                                Market!Answered, Market!Valid
      <3>4. faults' \in 0 .. MaxFaults
        BY <3>1 DEF MarketInv, MarketTypes
      <3>5. /\ bars' \in [Market!Security -> SUBSET Market!Session]
            /\ \A z \in Market!Security : bars[z] \subseteq bars'[z]
               /\ bars'[z] \subseteq z[2] .. completed
        BY <3>2 DEF MarketInv, MarketTypes
      <3> QED
        BY <3>1, <3>3, <3>4, <3>5
    <2>2. CASE range # {} /\ name \in DOMAIN raw
      <3> DEFINE newest == raw[name].latest
      <3>1. Finish(newest) /\ UNCHANGED <<raw, faults>>
        BY <2>2 DEF Market!SyncBenchmark
      <3>2. Responses' /\ NewestKept /\ newest \in raw'[name].kept /\ name \in DOMAIN raw'
        BY <2>2, <3>1 DEF MarketInv, Responses, NewestKept
      <3> HIDE DEF newest
      <3>3. bars' = IF newest.invalid = {}
                    THEN [bars EXCEPT ![Market!Benchmark] = @ \cup newest.rows]
                    ELSE bars
        BY <3>1
      <3>4. /\ GapsExplained'
            /\ bars' \in [Market!Security -> SUBSET Market!Session]
            /\ \A z \in Market!Security : bars[z] \subseteq bars'[z]
               /\ bars'[z] \subseteq z[2] .. completed
        BY <1>1, <1>2, <2>2, <3>2, <3>3, ExtendStep DEF MarketInv
      <3>5. faults' \in 0 .. MaxFaults
        BY <3>1 DEF MarketInv, MarketTypes
      <3> QED
        BY <3>1, <3>2, <3>4, <3>5
    <2>3. CASE range # {} /\ name \notin DOMAIN raw
      <3>1. PICK answer \in Market!Answers(Spy, range) :
              /\ raw' = Market!Put(name, answer)
              /\ Finish(answer)
              /\ faults' = IF answer.invalid = {} THEN faults ELSE faults + 1
        BY <2>3 DEF Market!SyncBenchmark
      <3>2. /\ Responses' /\ NewestKept /\ name \in DOMAIN raw' /\ answer \in raw'[name].kept
            /\ faults' \in 0 .. MaxFaults
        BY <1>1, <2>3, <3>1, ExtensionAnswer
      <3>3. bars' = IF answer.invalid = {}
                    THEN [bars EXCEPT ![Market!Benchmark] = @ \cup answer.rows]
                    ELSE bars
        BY <3>1
      <3>4. /\ GapsExplained'
            /\ bars' \in [Market!Security -> SUBSET Market!Session]
            /\ \A z \in Market!Security : bars[z] \subseteq bars'[z]
               /\ bars'[z] \subseteq z[2] .. completed
        BY <1>1, <1>2, <2>3, <3>2, <3>3, ExtendStep DEF MarketInv
      <3> QED
        BY <3>1, <3>2, <3>4
    <2> QED
      BY <2>1, <2>2, <2>3
  <1>5. PICK answer :
          /\ Finish(answer)
          /\ Responses' /\ NewestKept /\ GapsExplained' /\ faults' \in 0 .. MaxFaults
          /\ bars' \in [Market!Security -> SUBSET Market!Session]
          /\ \A z \in Market!Security : bars[z] \subseteq bars'[z]
             /\ bars'[z] \subseteq z[2] .. completed
    BY <1>4
  <1>6. bars'[Market!Benchmark] # {}
    BY <1>1, <1>5
  <1>7. \/ sync' = Market!Idle
        \/ sync' = [sync EXCEPT !.status = IF sync.ok THEN "ready" ELSE "failed"]
    BY <1>5
  <1>8. sync' = Market!Idle \/ sync' \in Synchronization
    BY <1>3, <1>7 DEF Synchronization
  <1>9. MarketTypes'
    BY <1>2, <1>5, <1>6, <1>8 DEF MarketInv, MarketTypes
  <1>10. CASE sync' = Market!Idle
    <2>1. Requests' /\ Searched' /\ Links'
      BY <1>10 DEF Market!Idle, Requests, Searched, Links
    <2> QED
      BY <1>5, <1>9, <2>1 DEF MarketInv
  <1>11. CASE sync' = [sync EXCEPT !.status = IF sync.ok THEN "ready" ELSE "failed"]
    <2>1. /\ sync'.status = IF sync.ok THEN "ready" ELSE "failed"
          /\ sync'.range = sync.range /\ sync'.end = sync.end /\ sync'.todo = sync.todo
          /\ sync'.secOf = sync.secOf /\ sync'.batch = sync.batch /\ sync'.ok = sync.ok
      BY <1>3, <1>11 DEF Synchronization
    <2>2. sync' # Market!Idle
      <3>1. sync'.status # Market!Idle.status
        BY <2>1 DEF Market!Idle
      <3> QED
        BY <3>1
    <2>3. Requests'
      BY <2>1 DEF Requests
    <2>4. Searched'
      <3> SUFFICES ASSUME sync'.status \in {"fetching", "ready"}, sync'.ok,
                          NEW z \in DOMAIN sync.range, NEW d \in sync.range[z] \ bars'[z]
                   PROVE  Market!Answered(z, d)' \/ Market!Hole(z, d)'
                          \/ \E ask \in sync.todo : ask[1] = z /\ d \in ask[2]
        BY <2>1 DEF Searched
      <3>1. sync'.ok => sync.ok
        BY <2>1
      <3> QED
        BY <1>2, <1>5, <2>1, <2>2, <3>1, SearchedStays DEF MarketInv
    <2>5. Links'
      BY <1>2, <2>1, <2>2 DEF MarketInv, Links
    <2> QED
      BY <1>5, <1>9, <2>3, <2>4, <2>5 DEF MarketInv
  <1> QED
    BY <1>7, <1>10, <1>11

-----------------------------------------------------------------------------
(* The theorems.                                                           *)

LEMMA InitInv == ASSUME MarketSensible, Market!Init PROVE MarketInv
  <1> USE SessionIsNat
  <1>1. completed = 1 /\ raw = << >> /\ mapped = {} /\ sync = Market!Idle /\ faults = 0
    BY DEF Market!Init
  <1>2. /\ bars \in [Market!Security -> SUBSET Market!Session]
        /\ \A s \in Market!Security : bars[s] \subseteq s[2] .. completed
        /\ bars[Market!Benchmark] # {}
    BY <1>1 DEF Market!Init, Market!Benchmark
  <1>3. vendor \in [Ticker \cup {Spy} -> [from : Market!Session, through : Market!Session]]
    BY DEF Market!Init
  <1>4. \A t \in Ticker \cup {Spy} :
            vendor[t].from <= vendor[t].through /\ vendor[t].through <= completed
    BY <1>1 DEF Market!Init
  <1>5. MarketTypes
    BY <1>1, <1>2, <1>3, <1>4 DEF Market!Init, MarketTypes, MarketSensible
  <1>6. Responses
    BY <1>1 DEF Responses
  <1>7. GapsExplained
    <2> SUFFICES ASSUME NEW s \in Market!Security, NEW x \in bars[s], NEW y \in bars[s], x < y
                 PROVE  FALSE
      <3>1. ASSUME NEW s \in Market!Security, NEW d \in Market!Session, Between(s, d)
            PROVE  \E x, y \in bars[s] : x < y
        <4>1. PICK x \in bars[s], y \in bars[s] : x < d /\ d < y
          BY <3>1 DEF Between
        <4>2. x \in Nat /\ y \in Nat /\ d \in Nat
          BY <1>2
        <4> QED
          BY <4>1, <4>2
      <3> QED
        BY <3>1 DEF GapsExplained
    <2>1. x = 1 /\ y = 1
      BY DEF Market!Init
    <2> QED
      BY <2>1
  <1>8. Requests /\ Searched /\ Links
    BY <1>1 DEF Market!Idle, Requests, Searched, Links
  <1> QED
    BY <1>5, <1>6, <1>7, <1>8 DEF MarketInv

LEMMA NextInv == ASSUME MarketSensible, MarketInv, [Market!Next]_Market!vars PROVE MarketInv'
  <1>1. CASE UNCHANGED Market!vars
    BY <1>1 DEF Market!vars, MarketInv, MarketTypes, Responses, GapsExplained, Between,
                Market!Answered, Market!Valid, Requests,
                Adjoins, Searched, Market!Hole, Links
  <1>2. CASE Market!Next
    BY <1>2, OutsideSteps, ResolveStep, ReuseStep, FetchStep, FetchFailsStep, BenchmarkStep,
       FollowStep DEF Market!Next
  <1> QED
    BY <1>1, <1>2

LEMMA InvCorrect == ASSUME MarketSensible PROVE Market!Spec => []MarketInv
  <1>1. Market!Init => MarketInv
    BY InitInv
  <1>2. MarketInv /\ [Market!Next]_Market!vars => MarketInv'
    BY NextInv
  <1> QED
    BY <1>1, <1>2, PTL DEF Market!Spec

LEMMA SameMarketCardinality ==
    ASSUME NEW S
    PROVE  Market!Cardinality(S) = Cardinality(S)
BY DEF Market!Cardinality, Cardinality, Market!IsFiniteSet, IsFiniteSet

\* Of two open mappings none is used: what candidates are built from is the security
\* that this synchronization mapped.
LEMMA LookupOnly ==
    ASSUME MarketSensible, NEW c, NEW known \in Market!Security, <<c, known>> \in mapped,
           NEW s \in Market!Lookup(c)
    PROVE  s = known
  <1> DEFINE open == {z \in Market!Security : <<c, z>> \in mapped}
  <1>1. IsFiniteSet(Market!Security)
    <2>1. IsFiniteSet(Market!Session)
      BY FS_Interval DEF Market!Session, MarketSensible
    <2>2. IsFiniteSet(Ticker \cup {Spy})
      BY FS_AddElement DEF MarketSensible
    <2> QED
      BY <2>1, <2>2, FS_Product DEF Market!Security
  <1>2. IsFiniteSet(open)
    BY <1>1, FS_Subset
  <1>3. Cardinality(open) = 1 /\ s \in open /\ known \in open
    BY SameMarketCardinality DEF Market!Lookup
  <1>4. PICK z : open = {z}
    BY <1>2, <1>3, FS_Singleton
  <1> QED
    BY <1>3, <1>4

LEMMA InvGivesAskedFor == ASSUME MarketSensible, MarketInv PROVE Market!AskedFor
  <1> SUFFICES ASSUME sync.status = "ready", NEW c \in sync.batch, NEW s \in Market!Lookup(c)
               PROVE  /\ s \in DOMAIN sync.range
                      /\ \A d \in sync.range[s] \ bars[s] :
                           Market!Answered(s, d) \/ Market!Hole(s, d)
    BY DEF Market!AskedFor
  <1>1. sync # Market!Idle
    BY DEF Market!Idle
  <1>2. sync.ok /\ sync.todo = {} /\ c \in DOMAIN sync.secOf
    BY <1>1 DEF MarketInv, Links
  <1>3. sync.secOf[c] \in DOMAIN sync.range /\ <<c, sync.secOf[c]>> \in mapped
    BY <1>1, <1>2 DEF MarketInv, Links
  <1>4. sync.secOf[c] \in Market!Security
    BY <1>1, <1>3, SyncForm DEF MarketInv
  <1>5. s = sync.secOf[c]
    BY <1>3, <1>4, LookupOnly
  <1> QED
    BY <1>2, <1>3, <1>5 DEF MarketInv, Searched

LEMMA InvGivesType == ASSUME MarketSensible, MarketInv PROVE Market!TypeOK
  <1>1. sync.status \in {"idle", "fetching", "ready", "failed"}
    BY DEF MarketInv, MarketTypes, Market!Idle, Synchronization
  <1>2. sync.status \in {"ready", "failed"} => sync.todo = {}
    BY DEF MarketInv, Links, Market!Idle
  <1> QED
    BY <1>1, <1>2 DEF MarketInv, MarketTypes, Responses, Market!TypeOK

\* Bars are of completed sessions of their security's history, and a synchronization
\* ends with no request open (MarketBackfillService.backfill, put_many).
THEOREM MarketTypeCorrect == Market!Spec => []Market!TypeOK
  <1> MarketSensible
    BY MarketAssumption
  <1>1. MarketInv => Market!TypeOK
    BY InvGivesType
  <1> QED
    BY <1>1, InvCorrect, PTL

\* When sync_pending_current_market reports ready, the security each company of the
\* batch is looked up under was part of it, and every session of its window without
\* a bar was asked for, except in a hole that only a window reaching further back
\* than the others of that close can show.
THEOREM AskedForCorrect == Market!Spec => []Market!AskedFor
  <1> MarketSensible
    BY MarketAssumption
  <1>1. MarketInv => Market!AskedFor
    BY InvGivesAskedFor
  <1> QED
    BY <1>1, InvCorrect, PTL
=============================================================================
