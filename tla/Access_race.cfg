SPECIFICATION Spec
CONSTANTS
    Users = {u1, u2}
    Roles = {owner, custom}
    Owner = owner
    Sessions = {s1, s2, s3}
    Procs = {p1, p2}
    None = None
SYMMETRY Symmetry
INVARIANTS TypeOK OneLivePerLogin OldPasswordIsOut DisabledOpensNothing NoLockout
CONSTRAINT Focus
