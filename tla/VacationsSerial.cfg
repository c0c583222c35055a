\* One handler at a time, none cut short, two users.
SPECIFICATION Spec
CONSTANTS
    Users = {u1, u2}
    r1 = r1
    r2 = r2
    b1 = b1
    b2 = b2
    b3 = b3
    b4 = b4
    c1 = c1
    c2 = c2
    Requests = {r1, r2}
    BalanceIds = {b1, b2, b3, b4}
    Calls = {c1}
    None = None
    LastDay = 5
    YearOf <- MCYearOf
    Spans <- SerialSpans
    Allowance = 1
    MaxFaults = 0
SYMMETRY Symmetry
CHECK_DEADLOCK FALSE
PROPERTIES
    
    ExcessIsOwed
