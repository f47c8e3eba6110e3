----------------------------- MODULE MCAccounts -----------------------------
(* Accounts on small instances.                                               *)
EXTENDS Accounts, TLC

\* Ids of a kind are alike, and so are requests and passwords.
Symmetry ==
    Permutations(User) \cup Permutations(Org) \cup Permutations(Email)
    \cup Permutations(Session) \cup Permutations(Invitation)
    \cup Permutations(Password) \cup Permutations(Request)

\* The handlers that only concern passwords stay out of a run: what they write is
\* neither a role nor an invitation.
NoPasswordHandlers ==
    \A r \in Request : req[r].at \notin {"forgot", "password.read", "password.commit"}
=============================================================================
