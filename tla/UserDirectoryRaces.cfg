SPECIFICATION Spec
CONSTANTS
    u1 = u1
    u2 = u2
    e1 = e1
    e2 = e2
    p1 = p1
    p2 = p2
    a1 = a1
    a2 = a2
    c1 = c1
    c2 = c2
    None = None
    Ids = {u1, u2}
    Emails = {e1}
    Passwords = {p1, p2}
    Attrs = {a1, a2}
    Calls = {c1, c2}
    Operations = {"create", "update", "remove", "activate", "changePassword"}
    NewEmails = {}
    CreateRefusals = {"error"}
    Timeouts = FALSE
    MaxLate = 0
    MaxFaults = 0
SYMMETRY Symmetry
INVARIANTS
    DirectoryMatches
    NoStrayEntry
