SPECIFICATION MCSpec
CONSTANTS
    alice = alice
    bob = bob
    xa = xa
    ya = ya
    zb = zb
    c1 = c1
    c2 = c2
    c3 = c3
    c4 = c4
    Calls = {c1, c2, c3, c4}
    Clients = {alice, bob}
    Codes = {xa, ya, zb}
    ClientOf <- ClientOfDef
    Grants = {1, 2, 3}
    MaxUnapproved = 1
    MaxApproved = 1
    MaxPending = 1
    MaxActive = 1
INVARIANTS
    OAuthInv
    ConsentBacked
    RevokedStaysOut
    AnswersAreHonest
PROPERTIES
    ImplementsAuthority
    AllAnswered
CHECK_DEADLOCK FALSE
