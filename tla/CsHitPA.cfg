CONSTANTS
  L = L
  A = A
  B = B
  M = M
  U = U
  NoRecord = NoRecord
  NoFace = NoFace
  Faces <- MCFaces
  LocalFaces <- MCLocalFaces
  MultiAccessFaces <- MCMultiAccessFaces
  AdHocFaces <- MCAdHocFaces
  ChannelPeer <- MCChannelPeer
  InitFibs <- MCInitFibs
  MaxEvents = 4
  MaxPitGen = 2

SPECIFICATION Spec
PROPERTY CsHitAnswersRequester
CHECK_DEADLOCK FALSE
