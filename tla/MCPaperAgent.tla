---------------------------- MODULE MCPaperAgent ----------------------------
(***************************************************************************)
(* An old and a new agent during a deployment.  Four tickers of one market  *)
(* are the fewest that open an episode, close it and open another while an  *)
(* earlier ticker is still being worked on.                                 *)
(***************************************************************************)
EXTENDS PaperAgent

CONSTANTS old, new, x

MCAgent == {old, new}
MCSymbol == {x}
MCMaxTicks == [s \in MCSymbol |-> 4]
=============================================================================
