\* The busy line when the card refuses a command.
SPECIFICATION FairSpec
CONSTANTS
  Sector = {0, 1}
  Byte = {0, 1}
  BlockSize = 2
PROPERTY BusyEnds
