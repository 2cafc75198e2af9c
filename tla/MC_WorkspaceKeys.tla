--------------------------- MODULE MC_WorkspaceKeys ---------------------------
(* The founder and a second owner or admin, who leaves and comes back.       *)
EXTENDS WorkspaceKeys, TLC

CONSTANTS ann, bea
MC_Users == {ann, bea}
=============================================================================
