\* The subtree of an exclusively locked path is the owner's alone.
CONSTANTS
  Node <- ChainNodes
  Above <- ChainAbove
  NoNode = NoNode
  Fd = {f1, f2, f3}
  NoFd = NoFd
  MaxWaitersPerNode = 2
SPECIFICATION Spec
INVARIANT ExclusiveSubtrees
