\* A guest alone with the tree, and one that shares it with other programs.
CONSTANTS
  Names = {1, 2}
  MaxDepth = 2
  MaxIno = 3
  MaxObj = 4
  LastFH = 2
  MaxHandles = 1
  MaxInodes = 1
  ChildNames <- NamesAndDotDot
  FlagSets <- SomeFlags
  InitTree <- SmallTree
SPECIFICATION Spec
INVARIANTS TablesInverse ReadOnlyMount HandlesDistinct InodeIdentity
PROPERTY OpenInodesKept
