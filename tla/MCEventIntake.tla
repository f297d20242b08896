---------------------------- MODULE MCEventIntake ----------------------------
(* Filings of two companies over two to four sessions; some are in both    *)
(* feeds, as issuer's and as reporting owner's.  In "shared" the second    *)
(* company has a filing of its own before that one.  Bounds in the .cfg    *)
(* files.                                                                  *)
EXTENDS EventIntakeInvariant, TLC

MCCik == {1, 2}
MCFiling == {1, 2, 3}
MCDay == (1 :> 1) @@ (2 :> 1) @@ (3 :> 2)
SharedFeeds == (1 :> {1}) @@ (2 :> {1, 2}) @@ (3 :> {1})
MCWithEvents == {1, 2, 3}
TwoFilings == {1, 2}
TwoDays == (1 :> 1) @@ (2 :> 2)
OwnThenBoth == (1 :> {2}) @@ (2 :> {1, 2})
OneFeed == (1 :> {1}) @@ (2 :> {1})
=============================================================================
