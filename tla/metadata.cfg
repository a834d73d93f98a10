SPECIFICATION Spec
CONSTANTS
  Thread = {t1, t2}
  Handle = {h1, h2, h3}
  Native = {h1, h2}
  Key = {k1, k2}
  Value = {v1}
  Absent = Absent
  MaxVersion = 3
SYMMETRY Symmetry
INVARIANTS
  TypeOK
  AckedIsSeen
  ReadsOneFreshVersion
PROPERTIES
  UpdatesAreAtomic
