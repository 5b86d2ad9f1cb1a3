--------------------------- MODULE MCVenueEvents ---------------------------
(* Two source sessions of one venue, for TLC.  Session "a" carries four      *)
(* numbers, the second of another leg and the third also with a conflicting  *)
(* body; session "b", after a reconnect, restarts its numbers.               *)
EXTENDS VenueEvents

Msg(s, n, body, mine) ==
  [session |-> s, id |-> n, seq |-> n, body |-> body, mine |-> mine]

MCMessage ==
  {Msg("a", 1, "x", TRUE), Msg("a", 2, "x", FALSE), Msg("a", 3, "x", TRUE),
   Msg("a", 3, "y", TRUE), Msg("a", 4, "x", TRUE), Msg("b", 1, "x", TRUE)}
=============================================================================
