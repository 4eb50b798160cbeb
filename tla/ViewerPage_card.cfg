\* The page is loaded and two buttons are pressed, two handlers at a time,
\* around a daemon that dies once.
SPECIFICATION FairSpec
CONSTANTS
  Handlers = {h1, h2}
  None = None
  Chunks = 1
  MaxClicks = 2
  MaxDeaths = 1
INVARIANTS IInv FlagIsEarned CardOffersWhatItSays OneImportPerButton
PROPERTY EveryImportEnds
CHECK_DEADLOCK FALSE
