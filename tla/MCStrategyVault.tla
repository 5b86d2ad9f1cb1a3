--------------------------- MODULE MCStrategyVault ---------------------------
(***************************************************************************)
(* Two stock tokens, three intents, and a second market version that only    *)
(* lets inventory out.                                                      *)
(***************************************************************************)
EXTENDS StrategyVault, TLC

CONSTANTS a, b, i1, i2, i3

MCToken == {a, b}
MCId == {i1, i2, i3}
MCSettings == <<[entry |-> TRUE, exit |-> TRUE], [entry |-> FALSE, exit |-> TRUE]>>
MCLimits == {[gross |-> 4, active |-> 1, turnover |-> 1, window |-> 2],
             [gross |-> 3, active |-> 2, turnover |-> 2, window |-> 3]}
Symmetry == Permutations(MCToken) \cup Permutations(MCId)
=============================================================================
