----------------------------- MODULE VersionLog -----------------------------
(***************************************************************************)
(* What the version tables promise (docs/database/DATABASE-V2.md, sections  *)
(* 9 and 10), without saying how: each file has a log of contents that is   *)
(* only ever appended to, and a content enters it in one of three ways.     *)
(***************************************************************************)
EXTENDS Naturals, Sequences

CONSTANTS File, Content

VARIABLE history    \* history[f][n]: the content of version n of file f

Init == history \in [File -> Seq(Content)]

Contents(f) == {history[f][n] : n \in DOMAIN history[f]}

\* A new file whose only version is a content no file has had.
Upload(f, c) ==
    /\ history[f] = << >>
    /\ \A g \in File : c \notin Contents(g)
    /\ history' = [history EXCEPT ![f] = <<c>>]

\* A new file whose only version is a content that some file has had.
Copy(f, g) ==
    /\ history[f] = << >>
    /\ \E c \in Contents(g) : history' = [history EXCEPT ![f] = <<c>>]

\* A content of the file itself is copied forward to a new last version.
RestoreForward(f, n) ==
    history' = [history EXCEPT ![f] = Append(@, history[f][n])]

Next ==
    \/ \E f \in File, c \in Content : Upload(f, c)
    \/ \E f, g \in File : Copy(f, g)
    \/ \E f \in File : \E n \in DOMAIN history[f] : RestoreForward(f, n)

Spec == Init /\ [][Next]_history
=============================================================================
