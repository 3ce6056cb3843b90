------------------------- MODULE MCSubresourceTree -------------------------
(* Three segments and names of up to two segments: pods, pods/status,     *)
(* status/scale, ... ; up to three names per group version.               *)
EXTENDS SubresourceTree

CONSTANTS pods, status, scale

MCSegments == {pods, status, scale}
=============================================================================
