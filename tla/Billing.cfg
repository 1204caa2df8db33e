CONSTANTS
    Org = {o1}
    User = {u1}
    NoOrg = NoOrg
    Period = 1
    Grace = 2
    Leaf = {"subscription_expired", "comment"}
    Asks <- MCAsks
    MaxRequests = 2
    MaxRows = 2
    MaxInvoices = 3
    MaxFaults = 1
SPECIFICATION FairSpec
INVARIANTS BillingTypeOK PaidIsActive SettingsStay
PROPERTIES SuspendedAfterGrace LapsedIsSuspended
