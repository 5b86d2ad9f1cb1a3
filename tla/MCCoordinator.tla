---------------------------- MODULE MCCoordinator ----------------------------
(***************************************************************************)
(* Instances of Coordinator for TLC.                                       *)
(***************************************************************************)
EXTENDS Coordinator

CONSTANTS w1, w2

\* One unit, one unwind attempt, nothing that disturbs it.
Plain ==
  [base |-> 1, hedgeable |-> 1, attempts |-> 1, requests |-> 0, stalls |-> 0, poisons |-> 0]

\* A process dies or outlives its lease.
StalledEpisodes == {[Plain EXCEPT !.stalls = 1]}

\* Two units, so that fills are partial.
PartialEpisodes == {[Plain EXCEPT !.base = 2, !.hedgeable = 2]}

\* An action is poisoned, and an operator resumes the episode.
ResumedEpisodes == {[Plain EXCEPT !.requests = 1, !.poisons = 1]}

\* Partial fills and a second unwind attempt, with and without a full fill whose
\* spot amounts overflow, or a resumed episode.
RepairEpisodes ==
  {[Plain EXCEPT !.base = 2, !.hedgeable = h, !.attempts = 2] : h \in {1, 2}} \cup ResumedEpisodes
=============================================================================
