----------------------------- MODULE MCServices -----------------------------
(* The services of the server on small instances.                            *)
EXTENDS Services, TLC

MCBody ==
    {[type |-> "FILE", ends |-> "later", password |-> NoPassword, permission |-> "VIEW",
      download |-> TRUE, recipients |-> ids] : ids \in {<<Owner>>, <<Owner, Stranger>>}}

MCOrgOf == [k \in Key |-> CHOOSE o \in Org : TRUE]

Plain == [type |-> "FILE", folder |-> "f1", owner |-> FALSE, membership |-> "MEMBER",
          teamFolder |-> FALSE, teamRoles |-> {}, folderShares |-> {}, fileShares |-> {}]

MCCall == {Plain,
           [Plain EXCEPT !.membership = "NONE"],
           [Plain EXCEPT !.folder = NoFolder, !.owner = TRUE],
           [Plain EXCEPT !.type = "FOLDER", !.teamFolder = TRUE, !.teamRoles = {"VIEWER"},
                         !.folderShares = {"COMMENT"}]}

MCAclRow == {[folder |-> "f1", subject |-> "user", level |-> l] : l \in {"NONE", "EDIT"}}
            \cup {[folder |-> "f2", subject |-> s, level |-> "ORGANIZE"] : s \in {"user", "g1"}}

Symmetry == Permutations(Request)
=============================================================================
