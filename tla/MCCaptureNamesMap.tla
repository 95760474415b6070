------------------------- MODULE MCCaptureNamesMap -------------------------
(* Instances of CaptureNamesMap for TLC.                                     *)
EXTENDS CaptureNamesMap

MCIndexes == {0, 1}
=============================================================================
