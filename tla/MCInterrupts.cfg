CONSTANTS
  Wired = {6, 14}
  Plain = {"a"}
  Outside = {"F1"}
  MaxBytes = 3
  MaxQueue = 2
SPECIFICATION FairSpec
INVARIANTS TypeOK OwnGate
PROPERTIES EoiIsOwn KeysTranslated LinesServed
