--------------------- MODULE MCSelfLearningStrategy2019 ---------------------
(***************************************************************************)
(* SelfLearningStrategy2019 (src/daemon/fw/self-learning-strategy.cpp) on *)
(* the faces and FIBs of MCSelfLearningFaces.                              *)
(***************************************************************************)
EXTENDS SelfLearningStrategy2019, MCSelfLearningFaces
=============================================================================
