SPECIFICATION FairSpec
CONSTANTS
  Writers = {elf, coff}
  Linux = {elf}
  Windows = {coff}
  Paths = {p1, p2, p3, p4, p5}
  NoWriter = NoWriter
PROPERTIES
  MutexIsReleased
  CallsEnd
