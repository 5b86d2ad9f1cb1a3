SPECIFICATION Spec
CONSTANTS
  w1 = w1
  w2 = w2
  Worker = {w1}
  Episodes <- RepairEpisodes
  OvercapPartial = FALSE
  TransientDenial = FALSE
  BlindOperatorExit = FALSE
CHECK_DEADLOCK FALSE
INVARIANT BooksBehindVenues
INVARIANT HedgedIsExact
INVARIANT OneUnwindOrder
INVARIANT SnapshotCurrent
 
INVARIANT QueueNeverStrands
INVARIANT UnwindWithinFill
