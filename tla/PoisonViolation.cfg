SPECIFICATION FairSpec
CONSTANTS
  j1 = j1  j2 = j2  w1 = w1  w2 = w2  p1 = p1  p2 = p2  h1 = h1  h2 = h2
  NoJob = NoJob
  Jobs = {j1, j2}
  SLO <- MCSLO
  Handlers = {h1}
  Procs = {p1}
  Workers = {w1}
  Home <- OnePool
  MaxFaults = 1
  MaxDowns = 0
  TTLExpires = FALSE
PROPERTIES
  QueuedIsTaken
