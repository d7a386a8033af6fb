SPECIFICATION FairSpec
CONSTANTS
  Sources <- ShortTexts
  Keywords <- Reserved
  FirstCap = 2
  None = None
INVARIANTS
  TypeOK
  LinesRight
  
PROPERTIES
  SourceRead
CHECK_DEADLOCK FALSE
