CONSTANTS
    old = old
    new = new
    Collector <- MCCollector
    Nonce = {0, 1}
    BatchLimit = 2
    MaxEvents = 2
    MaxSession = 2
    MaxNow = 2
    MaxFaults = 1
SPECIFICATION Spec
INVARIANT ArchivedIsDurable
INVARIANT OneSegmentPerEvent
INVARIANT BooksContinuous
PROPERTY EverythingArchived
