\* One request at a time; of two people either can leave and come back.
SPECIFICATION Spec

CONSTANTS
    User = {u1, u2}
    Org = {o1, o2}
    Email = {e1, e2}
    Session = {s1, s2}
    ResetToken = {t1}
    Invitation = {i1}
    Password = {p1, p2}
    Request = {r1}
    NoPassword = NoPassword

SYMMETRY Symmetry
INVARIANT TypeOK
INVARIANT SessionsFollowPassword
INVARIANT EmailsOnce
INVARIANT InvitationsForStrangers
PROPERTY KeepsAdmin
PROPERTY TokensSetOnePassword
