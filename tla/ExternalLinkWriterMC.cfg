SPECIFICATION FairSpec
CONSTANTS
  p1 = p1
  p2 = p2
  n1 = n1
  n2 = n2
  n3 = n3
  Processes <- MCProcesses
  Names <- MCNames
  Functions = {putchar}
  Nobody = Nobody
  MaxLeft = 0
INVARIANTS
  TypeOK
  FilesStayOwn
  LinksWholeModule
PROPERTIES
  ImplementsArtifactWriter
  CallsEnd
