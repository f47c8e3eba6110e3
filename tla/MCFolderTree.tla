---------------------------- MODULE MCFolderTree ----------------------------
(* FolderTree on small instances.                                             *)
EXTENDS FolderTree, TLC

Symmetry == Permutations(Folder \ Filed) \cup Permutations(TeamFolder)
=============================================================================
