CONSTANTS
  N = 1
  Conns = {"prometheus", "probe", "browser"}
  Scrapers = {"prometheus"}
SPECIFICATION FairSpec
PROPERTIES ListenFailureEndsProcess
