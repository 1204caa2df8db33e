CONSTANTS
    User = {u1, u2}
    Org = {o1, o2}
    Code = {c1}
    MaxRequests = 3
    MaxUsesInputs = {1, 2}
    NoOrg = NoOrg
    NoUser = NoUser
SYMMETRY Sym
SPECIFICATION Spec
INVARIANTS AccountsTypeOK OnlyCreatorRules OneAdmission UsesCountAdmissions
