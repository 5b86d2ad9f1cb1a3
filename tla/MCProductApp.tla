---------------------------- MODULE MCProductApp ----------------------------
(***************************************************************************)
(* Scenarios for TLC, one initial state each: a guard whose window rolls;  *)
(* the other calls of the contracts; one user with two tabs, a page that   *)
(* closes, a fault and a reorganisation; one user whose vault is indexed   *)
(* meanwhile; two users who are indexed.                                   *)
(***************************************************************************)
EXTENDS ProductApp

MCTab == {"a1", "a2", "b1"}

MCUserOf == [t \in MCTab |-> IF t = "b1" THEN "b" ELSE "a"]

MCMandate == {<<3, 2>>}

Still ==
  [deployed |-> {}, ops |-> {}, txs |-> 0, delay |-> 0, tabs |-> {}, calls |-> 0, closes |-> 0,
   faults |-> 0, blocks |-> 0, reorgs |-> 0, indexes |-> FALSE]

MCScenarios ==
  {[Still EXCEPT !.deployed = {"a"}, !.txs = 5, !.delay = 1,
                 !.ops = {"setAllowed", "setHalted", "execute"}],
   [Still EXCEPT !.deployed = {"a"}, !.txs = 4,
                 !.ops = {"setExecutor", "setAllowed", "setCap", "setHalted", "check",
                          "withdraw", "setAgent"}],
   [Still EXCEPT !.tabs = {"a1", "a2"}, !.calls = 2, !.closes = 1, !.faults = 1, !.reorgs = 1],
   [Still EXCEPT !.tabs = {"a1"}, !.calls = 1, !.txs = 2, !.faults = 1, !.reorgs = 1,
                 !.indexes = TRUE, !.ops = {"deposit", "anchorBatch"}],
   [Still EXCEPT !.tabs = {"a1", "b1"}, !.calls = 2, !.blocks = 1, !.indexes = TRUE]}
=============================================================================
