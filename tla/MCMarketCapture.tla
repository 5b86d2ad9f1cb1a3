--------------------------- MODULE MCMarketCapture ---------------------------
(***************************************************************************)
(* An old and a new collector over a few events.                            *)
(***************************************************************************)
EXTENDS MarketCapture

CONSTANTS old, new

MCCollector == {old, new}
=============================================================================
