-------------------------- MODULE MCRobinhoodWriter --------------------------
(* One intent with a root, a fee replacement and a competing root, and a     *)
(* second intent, for TLC.                                                   *)
EXTENDS RobinhoodWriter

MCRequest == {"buy", "bump", "again", "sell"}

MCIntent == [buy |-> "i1", bump |-> "i1", again |-> "i1", sell |-> "i2"]

MCReplaces == [buy |-> None, bump |-> "buy", again |-> None, sell |-> None]

\* One family alone.
PairRequest == {"buy", "bump"}

PairIntent == [buy |-> "i1", bump |-> "i1"]

PairReplaces == [buy |-> None, bump |-> "buy"]
=============================================================================
