CONSTANTS
  N = 1
  Conns = {"prometheus", "probe", "browser"}
  Scrapers = {"prometheus"}
SPECIFICATION FairSpec
INVARIANTS TypeOK StoppedMeansDrained
PROPERTIES ServesGracefully NoAcceptWhileDraining SignalEndsProcess
