--------------------------- MODULE MCTagClustering ---------------------------
(* A level of two patches, limits that differ by axis, and a threshold.      *)
EXTENDS TagClustering

Box(x0, y0, x1, y1) == [lo |-> <<x0, y0>>, hi |-> <<x1, y1>>]

Five == 0..4
TwoPatches == <<Box(0, 0, 3, 3), Box(4, 2, 4, 3)>>
MinWide == <<2, 1>>
MaxTwo == <<2, 3>>
TwoThirds == <<2, 3>>
================================================================================
