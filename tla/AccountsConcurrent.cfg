\* Two requests in flight, about one organization, but for the password handlers.
SPECIFICATION Spec

CONSTANTS
    User = {u1, u2}
    Org = {o1}
    Email = {e1, e2}
    Session = {s1}
    ResetToken = {}
    Invitation = {i1, i2}
    Password = {p1}
    Request = {r1, r2}
    NoPassword = NoPassword

SYMMETRY Symmetry
CONSTRAINT NoPasswordHandlers
PROPERTY LockedStaysLocked
