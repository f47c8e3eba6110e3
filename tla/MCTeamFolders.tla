--------------------------- MODULE MCTeamFolders ---------------------------
(* TeamFolders on small instances.                                            *)
EXTENDS TeamFolders, TLC

CONSTANTS u1, u2, u3, g1

\* One group, with one user in it.
OneGroup == [g \in {g1} |-> {u2}]
NoGroups == [g \in {} |-> {}]

\* Requests are alike.
Symmetry == Permutations(Request)
=============================================================================
