SPECIFICATION Spec
CONSTANTS
  w1 = w1
  w2 = w2
  Worker = {w1}
  Episodes <- ResumedEpisodes
  OvercapPartial = FALSE
  TransientDenial = FALSE
  BlindOperatorExit = FALSE
CHECK_DEADLOCK FALSE
INVARIANT NotStranded
