SPECIFICATION FairSpec
CONSTANTS
  Containers = {c1, c2}
  Kinds <- ChainAndNoise
  Namespaces = {"unknown", "kube-system"}
  ChanCap = 2
  Sinks <- PostgresFirst
  Failing = {"postgres"}
  MaxSignals = 3
INVARIANTS TypeOK TimerCoversBuffer InOrder NothingLost OneIncidentPerSignal ChainReported
PROPERTIES ImplementsAggregator BufferIsFlushed SignalIsJudged
CHECK_DEADLOCK FALSE
