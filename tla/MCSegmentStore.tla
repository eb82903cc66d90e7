--------------------------- MODULE MCSegmentStore ---------------------------
(***************************************************************************)
(* Small instances of SegmentStore for TLC, one camera id each: the        *)
(* constants are in the configurations.                                    *)
(***************************************************************************)
EXTENDS SegmentStore
=============================================================================
