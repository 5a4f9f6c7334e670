--------------------------- MODULE MCCaptureQueue ---------------------------
(* Small instances of CaptureQueue: the cfgs give every constant its value.  *)
EXTENDS CaptureQueue
=============================================================================
