\* Three logins of any of three accounts, two groups to claim, one fault.
CONSTANTS
    Logins = {l1, l2, l3}
    Accounts <- MCAccounts
    Claims = {g1, g2}
    TooLong <- MCTooLong
    MaxFaults = 1
    None = None
SPECIFICATION Spec
SYMMETRY MCSymmetry
INVARIANTS
    TypeOK
    OneUserPerAccount
    KnownAccountsGetIn
    MissingOnlyByRace
PROPERTIES
    ImplementsDirectory
