SPECIFICATION Spec
CONSTANTS
  PlainFields = {"limit", "offset"}
  VectorFields = {"column", "ef"}
  Values = {v1, v2}
  Columns = {col}
  Texts = {sql}
  Exprs = {expr}
  Unset = Unset
  NotUtf8 = NotUtf8
  MaxColumns = 2
  Null = Null
  BadText = BadText
  NaN = NaN
  MaxU32 = 7
  Ints <- MCInts
  Rates <- MCRates
  Tokenizers = {simple}
  Languages = {english}
  Unspoken = klingon
  Sizes = {0, 2}
  Quotable <- MCQuotable
INVARIANTS
  TypeOK
  ConfigIsHonoured
  MergeIsMeant
  CausesAreTold
PROPERTY
  AsksWhatWasSet
