CONSTANTS
  N = 1
  Conns = {"prometheus", "probe", "browser"}
  Scrapers = {"prometheus"}
SPECIFICATION Spec
INVARIANTS NoRequestAborted
