CONSTANTS
  Ends = {"client", "browser"}
  Ids = {k1, k2}
  Subs = {s1, s2}
  Closers = {c1}
  Cap = 1
  NoId = NoId
  First = first
  Pages = {p1, p2}
  Workers = {w1}
  QueueMax = 1
SPECIFICATION FairSpec
INVARIANTS ReaderNeverBlocks NoPanic NothingIsLeft NewPagesHaveTheZone
PROPERTIES CallsReturn PausedPagesResume
CHECK_DEADLOCK FALSE
