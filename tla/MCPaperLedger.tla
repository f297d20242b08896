--------------------------- MODULE MCPaperLedger ----------------------------
(* Two companies with horizons of one and two sessions: bounds in the .cfg *)
(* files.                                                                  *)
EXTENDS PaperLedgerInvariant, TLC

CONSTANTS acme, bolt

MCCompany == {acme, bolt}
MCHorizon == (acme :> 2) @@ (bolt :> 1)
=============================================================================
