--------------------------- MODULE MCCurrentCycle ---------------------------
(* Three events of two companies, two plugins: bounds in the .cfg files.   *)
EXTENDS CurrentCycleInvariant, TLC

CONSTANTS e1, e2, e3, acme, bolt

MCEvent == {e1, e2, e3}
MCCompany == {acme, bolt}
MCCompanyOf == (e1 :> acme) @@ (e2 :> acme) @@ (e3 :> bolt)

TwoEvents == {e1, e3}
TwoCompanyOf == (e1 :> acme) @@ (e3 :> bolt)

\* Events of one company and the two plugins are interchangeable.
Interchangeable == Permutations({e1, e2}) \cup Permutations(Strategy)
=============================================================================
