-------------------------- MODULE MCCheckpointRestore --------------------------
EXTENDS CheckpointRestore
=============================================================================
