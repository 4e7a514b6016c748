SPECIFICATION Spec
CONSTANTS
    Conn = {c1, c2}
    Address <- Addresses
    User = {"az"}
    Name = {"az", "Az", "AZ", "BOB"}
    nocase <- AsciiFold
    Upper <- UpperCase
    Hash = {"h1", "h2"}
    HashOf <- Passwords
    Kerberos = TRUE
    MaxRequests = 4
    MaxOpens = 3
INVARIANTS OwnChallenge AuthSound AuthComplete
SYMMETRY Symmetry
