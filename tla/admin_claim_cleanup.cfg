SPECIFICATION Spec
CONSTANTS
    u1 = u1
    u2 = u2
    r1 = r1
    r2 = r2
    r3 = r3
    p1 = p1
    p2 = p2
    p3 = p3
    k1 = k1
    k2 = k2
    k3 = k3
    invoices = invoices
    payments = payments
    read = read
    blank = blank
    None = None
    Users <- MCUsers
    Roles <- MCRoles
    Permissions <- MCPermissions
    Keys <- MCKeys
    Resources <- MCResources
    Actions <- MCActions
    Blanks = {blank}
    Initial <- MCInitial
    Calls = {c1, c2}
    MaxRequests = 2
INVARIANTS
    NothingHeldIsCleaned
CHECK_DEADLOCK FALSE
