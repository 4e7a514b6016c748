SPECIFICATION Spec
CONSTANTS
    Req = {r1, r2, r3}
    Tui = {t1}
    Name = {n1, n2}
    Password = {p}
    Creds <- AllCreds
    nocase <- SameLetters
    Ttl = 0
    MaxTime = 1
    MaxUsers = 2
INVARIANTS OneOwnerPerName SigninCurrent AccountUsable SessionIdentity
SYMMETRY Symmetry
