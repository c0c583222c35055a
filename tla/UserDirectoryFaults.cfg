SPECIFICATION FairSpec
CONSTANTS
    u1 = u1
    u2 = u2
    e1 = e1
    e2 = e2
    p1 = p1
    p2 = p2
    a1 = a1
    a2 = a2
    c1 = c1
    c2 = c2
    None = None
    Ids = {u1}
    Emails = {e1, e2}
    Passwords = {p1}
    Attrs = {a1}
    Calls = {c1, c2}
    Operations = {"create", "update"}
    NewEmails = {e2}
    CreateRefusals = {"error"}
    Timeouts = TRUE
    MaxLate = 0
    MaxFaults = 1
PROPERTIES
    CreatedUserHasEntry
    LocksAreReleased
