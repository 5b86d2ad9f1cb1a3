SPECIFICATION FairSpec
CONSTANTS
  w1 = w1
  w2 = w2
  Worker = {w1, w2}
  Episodes <- StalledEpisodes
  OvercapPartial = FALSE
  TransientDenial = FALSE
  BlindOperatorExit = FALSE
CHECK_DEADLOCK FALSE
INVARIANT OneLiveAction
INVARIANT SentIsNeverExpired
 
PROPERTY EvidenceIsBooked
