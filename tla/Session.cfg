SPECIFICATION FairSpec
CONSTANTS
    a = a
    b = b
    f = f
    g = g
    p = p
    q = q
    none = none
    Tabs = {a, b}
    Emails = {f, g}
    Passwords = {p, q}
    Credentials <- MCCredentials
    Members <- MCMembers
    Returning = f
    Configured = {f}
    Openings <- MCOpenings
    None = none
    MaxActs = 2
    MaxExpired = 1
INVARIANTS
    TypeOK
    SignedUpCanLogIn
    OneIdentity
PROPERTIES
    StaysLoggedIn
    ComesToRest
