CONSTANTS
  L = L
  A = A
  B = B
  M = M
  U = U
  NoRecord = NoRecord
  NoFace = NoFace
  Faces <- MCFaces
  LocalFaces <- MCLocalFaces
  MultiAccessFaces <- MCMultiAccessFaces
  AdHocFaces <- MCAdHocFaces
  ChannelPeer <- MCChannelPeer
  InitFibs <- MCInitFibs
  MaxEvents = 4
  MaxPitGen = 2

SPECIFICATION Spec
INVARIANT TypeOK
PROPERTY NonDiscoveryFollowsFib
INVARIANT AnnouncedFaceIsDataFace
PROPERTY NackPropagatedOnce
 
PROPERTY NoRouteFaceRetriedOnlyWhileRetireQueued
CHECK_DEADLOCK FALSE
