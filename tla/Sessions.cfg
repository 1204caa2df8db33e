CONSTANTS
    Tab = {t1}
    MaxCalls = 2
    Nonce = {n1}
    NoNonce = NoNonce
    MaxRetries = 1
    MaxSessions = 2
    MaxIssued = 3
    CsrfHeaders = {TRUE, FALSE}
    SignedStamp = "iso"
SPECIFICATION FairSpec
INVARIANTS
    SessionsTypeOK
    NonceBuysOneSession
    LoggedOutIsDead
    JarFollowsSession
PROPERTIES
    EveryCallSettles
CHECK_DEADLOCK FALSE
