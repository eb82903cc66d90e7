---------------------- MODULE MCCameraPipeline ----------------------
(* Small instances of CameraPipeline for TLC.  FreshPipe and           *)
(* FreshClient choose among the numbers, so these are not symmetric.   *)
EXTENDS CameraPipeline
=====================================================================
