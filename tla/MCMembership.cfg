SPECIFICATION Spec
CONSTANTS
    alice = alice
    bob = bob
    carol = carol
    r1 = r1
    r2 = r2
    r3 = r3
    i1 = i1
    i2 = i2
    User = {alice, bob, carol}
    Request = {r1, r2}
    Invitation = {i1, i2}
    InitialRole <- MCInitialRole
    Inviter = alice
    Sent = {i1}
    Invitee = carol
    Ops <- MCOps
INVARIANTS TypeOK OwnerKept InvitationOnce AckedRevoked
PROPERTIES Authorised RequestsEnd
CHECK_DEADLOCK FALSE
