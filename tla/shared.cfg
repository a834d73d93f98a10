SPECIFICATION HSpec
CONSTANTS
  Threads = {th1, th2}
  Tables = {t1}
  Queries = {q1, q2}
  Strings = {s1, s2}
  None = None
VIEW View
INVARIANTS
  TypeOK
  UriIsShared
  MakersAreAlone
  ReadsAreLive
  HoldersAreReal
PROPERTIES
  CallsAreAtomic
  EveryCallReturns
