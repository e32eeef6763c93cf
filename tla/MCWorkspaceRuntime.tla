------------------------ MODULE MCWorkspaceRuntime ------------------------
(* Small instances of WorkspaceRuntime.  Workspaces are interchangeable.    *)
EXTENDS WorkspaceRuntime, TLC

Interchangeable == Permutations(Workspaces)
=============================================================================
