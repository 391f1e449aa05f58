\* Two sectors of two bytes.
SPECIFICATION FairSpec
CONSTANTS
  Sector = {0, 1}
  Byte = {0, 1}
  BlockSize = 2
INVARIANTS SdTypeOK CommandsHeard BufferApart
PROPERTIES ImplementsBlockStore CallsReturn
