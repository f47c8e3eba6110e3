---------------------------- MODULE MCFileStore ----------------------------
(* FileStore on small instances: values for its constants and a symmetry.    *)
EXTENDS FileStore, TLC

Symmetry == Permutations(Request) \cup Permutations(File)
=============================================================================
