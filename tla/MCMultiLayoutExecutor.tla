------------------------- MODULE MCMultiLayoutExecutor -------------------------
(* Three layouts; two mappings form a cycle, the third fans out of it.       *)
EXTENDS MultiLayoutExecutor

Route(source, target) == [source |-> source, target |-> target]
MCRoutes == <<Route(1, 2), Route(2, 1), Route(2, 3)>>
================================================================================
