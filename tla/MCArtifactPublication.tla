------------------------ MODULE MCArtifactPublication ------------------------
(* The staged file and the files of other processes, on inodes 1..n.         *)
EXTENDS ArtifactPublication
================================================================================
