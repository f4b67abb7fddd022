SPECIFICATION Spec
CONSTANTS
    Workspace = {w1}
    User = {u1, u2, u3}
    Token = {t1, t2}
    Request = {r1, r2}
    NoToken = NoToken
    Idle = Idle
    Ops <- OpsWithoutUpdate
SYMMETRY Symmetry
CHECK_DEADLOCK FALSE
INVARIANTS SingleUse EveryInviteExpires NoDanglingMember
PROPERTIES RetiredStaysRetired
