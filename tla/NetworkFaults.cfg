CONSTANTS
  C = C
  R = R
  P = P
  L = L
  A = A
  B = B
  D = D
  E = E
  NoRecord = NoRecord
  NoFace = NoFace
  Node <- MCBranchNode
  Consumer = C
  Producer = P
  NodeFaces <- MCBranchNodeFaces
  AppFaces = {L}
  Peer <- MCBranchPeer
  InitFib <- MCBranchInitFib
  MaxInterests = 2
  MaxLoss = 1
  MaxDup = 1
  MaxPitGen = 3

SPECIFICATION Spec
INVARIANT TypeOK
PROPERTY ImplementsService
CHECK_DEADLOCK FALSE
