----------------------- MODULE MCSelfLearningStrategy -----------------------
(***************************************************************************)
(* SelfLearningStrategy (src/unnamed/part_000) on the faces and FIBs of    *)
(* MCSelfLearningFaces.                                                    *)
(***************************************************************************)
EXTENDS SelfLearningStrategy, MCSelfLearningFaces
=============================================================================
