SPECIFICATION Spec
CONSTANTS
  Writers = {elf, coff, other}
  Linux = {elf}
  Windows = {coff}
  Paths = {p1, p2, p3, p4, p5, p6}
  NoWriter = NoWriter
SYMMETRY AnyNames
INVARIANTS
  TypeOK
  FilesAreGuarded
  OneLinkerAtATime
  NeverAfterFailure
  InputsStayWhole
  ReturnMeansOwnExecutable
PROPERTY
  ImplementsArtifactWriter
