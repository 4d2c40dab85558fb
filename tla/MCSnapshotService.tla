--------------------------- MODULE MCSnapshotService ---------------------------
(* SnapshotService on small instances *)
EXTENDS SnapshotService
================================================================================
