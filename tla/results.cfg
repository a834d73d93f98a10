SPECIFICATION HSpec
CONSTANTS
  MaxRows = 4
VIEW View
INVARIANTS
  TypeOK
  AllOrNothing
  FreesWhatIsThere
PROPERTY
  ResultsAreCalls
