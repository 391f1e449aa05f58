SPECIFICATION Spec
CONSTANTS
  Cards <- MCCards
  SectorBytes = 8
  BIN_SIZE = 3
  MinBusy = 3
INVARIANTS
  BootTypeOK
  ImageInOrder
  ImageCopied
PROPERTIES
  Cleared
  BootEnds
