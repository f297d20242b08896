----------------------------- MODULE MCResearch -----------------------------
(* The small instances of the components of Research; plain sets and       *)
(* numbers are in the .cfg files.                                          *)
EXTENDS Research, Sequences, TLC

\* RollingCalibration: two seeds and four live candidates on three dates; the
\* models' predictions differ in scores, returns and what is safe.
Signal(p, a, r, ok) == [profit |-> p, alpha |-> a, return |-> r, safe |-> ok]
Steady == (5 :> Signal(1, 2, 1, TRUE)) @@ (20 :> Signal(3, 1, 2, TRUE))
Short == (5 :> Signal(3, 3, 2, TRUE)) @@ (20 :> Signal(2, 2, 1, FALSE))
Unsafe == (5 :> Signal(2, 1, 1, FALSE)) @@ (20 :> Signal(1, 2, 1, FALSE))
MCDayOf == ("s1" :> 0) @@ ("s2" :> 0) @@ ("c1" :> 1) @@ ("c2" :> 1) @@ ("c3" :> 2) @@ ("c4" :> 3)
MCPredictions ==
    {f \in [DOMAIN MCDayOf -> {Steady, Short, Unsafe}] : f["s1"] = Steady /\ f["s2"] = Short}
MCCandidate == DOMAIN MCDayOf

\* Backtest: two companies with two candidates each and a third company; returns
\* of losing and winning worlds, and entry days of full and of thin liquidity.
Losing == [c \in 1 .. 5 |-> -50]
Returns == {Losing, [Losing EXCEPT ![1] = 50], [Losing EXCEPT ![2] = 50, ![3] = 50],
            [c \in 1 .. 5 |-> 50]}
Depths == {<<100, 100, 100, 100, 100>>, <<100, 100, 10, 100, 10>>}
MCWorlds == [returns : Returns, depth : Depths, link : 2 .. 4]
Everyone == [c \in 1 .. 5 |-> TRUE]
MCPlans ==
    [chosen : {Everyone, [Everyone EXCEPT ![1] = FALSE]},
     score : {<<1, 2, 1, 2, 1>>, <<2, 2, 1, 1, 2>>},
     horizon : {<<5, 20, 20, 5, 20>>, <<20, 5, 5, 20, 5>>}]
MCExitDay == (5 :> <<2, 3, 4, 5, 4>>) @@ (20 :> <<3, 4, 5, 6, 6>>)
MCTradeCompany == <<"a", "b", "a", "b", "c">>
MCEntryDay == <<1, 1, 2, 3, 3>>
MCThrottle == <<80, 100, 60, 90, 100>>
MCQuality == <<80, 100, 130, 150, 110>>

\* StrategyResearch: two rows a year for four years; the last label of a year ends
\* in the next one.  A model's picks depend on the rows it was trained on.
MCExitIn == (5 :> <<1, 1, 2, 2, 3, 3, 4, 4>>) @@ (60 :> <<1, 2, 2, 3, 3, 4, 4, 5>>)
MCPicks(trained, test) == {r \in test : (r + Cardinality(trained)) % 3 # 0}
MCDecidedIn == <<1, 1, 2, 2, 3, 3, 4, 4>>
MCReturn == <<1, 2, 1, -1, 2, 1, 2, 1>>
MCHorizonsOf == <<{5}, {5, 60}, {60}>>
MCWindowOf == <<9, 9, 1>>
MCData ==
    [excluded : {{}, {<<1, 5>>}, {<<5, 60>>}}, thin : {{}}] \cup
    [excluded : {{<<5, 60>>}}, thin : {{1}, {3}}]

\* HistoricalData: two quarters; a late row of another company of the same name, a
\* row that was disclosed before it was traded, one of a form 3, one without symbol.
\* A client files under that name twice, and one under a name of its own.
Transaction(i, q, f, c, n, s, t, d) ==
    [id |-> i, quarter |-> q, form4 |-> f, company |-> c, name |-> n, symbol |-> s,
     traded |-> t, filed |-> d]
MCRows ==
    {Transaction(1, 1, TRUE, "a", "acme", TRUE, 1, 2), Transaction(2, 1, TRUE, "b", "best", TRUE, 3, 2),
     Transaction(3, 2, TRUE, "c", "acme", TRUE, 4, 5), Transaction(4, 2, FALSE, "c", "acme", TRUE, 4, 5),
     Transaction(5, 2, TRUE, "d", "dull", FALSE, 5, 5)}
Filing(i, c, n) == [id |-> i, client |-> c, name |-> n]
MCPages == <<{Filing(1, 1, "acme")}, {Filing(2, 1, "acme"), Filing(3, 2, "best")}>>
MCLate == {r \in MCRows : r.id = 3}
MCRank == [a |-> 2, b |-> 1, c |-> 3, d |-> 4]

\* StrategyArena: observations above, at and below the gate, of too few trades, and
\* an invalidated one; the first strategy may be any of them.
Seen(n, e, r, f, d, g, b, x) ==
    [trades |-> n, expectancy |-> e, recent |-> r, factor |-> f, safety |-> d, regime |-> g,
     stability |-> b, invalid |-> x]
Good == Seen(75, 2, 2, 2, 2, 2, 2, FALSE)
Strong == Seen(75, 3, 3, 3, 3, 3, 3, FALSE)
Mixed == Seen(90, 1, 2, 3, 1, 1, 3, FALSE)
Weak == Seen(90, 0, 1, 1, 1, 1, 3, FALSE)
Young == Seen(10, 3, 3, 3, 3, 3, 3, FALSE)
Broken == Seen(90, 3, 3, 3, 3, 3, 3, TRUE)
MCEvidence ==
    {<<s, t, Mixed, u>> :
        s \in {Good, Strong, Mixed, Weak, Young, Broken}, t \in {Good, Weak}, u \in {Strong, Young}}
MCGate ==
    [expectancy |-> 0, recent |-> 0, factor |-> 1, safety |-> 1, regime |-> 1, confidence |-> 2]

\* CandidateRows: two events of one company and one of another, a gap in the sessions,
\* and three years of which the last is the test year.
MCCompanyOf == ("e1" :> "a") @@ ("e2" :> "a") @@ ("e3" :> "b")
MCYearOf == <<1, 1, 2, 2, 2, 3, 3, 3>>
=============================================================================
