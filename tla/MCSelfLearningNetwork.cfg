CONSTANTS
  C = C
  R = R
  P = P
  L = L
  A = A
  B = B
  D = D
  E = E
  NoRecord = NoRecord
  NoFace = NoFace
  Node <- MCNode
  Consumer = C
  Producer = P
  NodeFaces <- MCNodeFaces
  AppFaces = {L}
  Peer <- MCPeer
  InitFib <- MCInitFib
  MaxInterests = 2
  MaxLoss = 0
  MaxDup = 1
  MaxPitGen = 3

SPECIFICATION Spec
PROPERTY DataEventuallyDelivered
 
CHECK_DEADLOCK FALSE
