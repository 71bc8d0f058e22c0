SPECIFICATION RequestsSpec
CONSTANTS
 Urls = {"a", "b"}
 Primes = {"r", "q"}
 Requests = {"r"}
 Bound = 1
 MaxClock = 3
INVARIANTS SizeBound SnapshotCurrent
PROPERTIES WholeMessage RightDocument ResolveRoundTrip AnswersCountedAsSeen
CHECK_DEADLOCK FALSE
