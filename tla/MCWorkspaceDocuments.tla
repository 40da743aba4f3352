------------------------ MODULE MCWorkspaceDocuments ------------------------
(* An instance of WorkspaceDocuments: two sources in a plain directory, one in *)
(* an excluded directory.                                                      *)
EXTENDS WorkspaceDocuments, TLC

CONSTANTS plain, excluded

MCDirs == {plain, excluded}
MCExcluded == {excluded}
MCDirOf == 1 :> plain @@ 2 :> plain @@ 3 :> excluded

\* One source in one directory: a tree small enough for many changes.
OneDir == {plain}
NoneExcluded == {}
OneDirOf == 1 :> plain
=============================================================================
