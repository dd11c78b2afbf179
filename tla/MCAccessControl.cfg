SPECIFICATION RolesSpec
CONSTANTS
    Addresses = {a1, a2, a3}
    NoAddress = NoAddress
    DEFAULT_ADMIN = DEFAULT_ADMIN
    ROLES = {DEFAULT_ADMIN, PAUSER, FEE_MANAGER}
    MaxAdminCount = 2
SYMMETRY Symmetry
INVARIANTS
    AdminCountExact
    RootNeverOrphaned
PROPERTY
    RootChangedByRootOnly
