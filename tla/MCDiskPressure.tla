----------------------- MODULE MCDiskPressure -----------------------
(* Small instances of DiskPressure for TLC: the constants are in the   *)
(* configuration.  No symmetry: liveness is checked.                   *)
EXTENDS DiskPressure
=====================================================================
