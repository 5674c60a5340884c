CONSTANTS
    Names   <- MCNames
    Client0 = "client_0"
    StrCmp  <- SignOnly
    s1 = s1
    s2 = s2
    s3 = s3
    s4 = s4
    Servers = {s1, s2, s3, s4}
    Restarting = {s1, s2}
    Silent = {s1}
    MaxRestarts = 1
    Clients <- OneClient
    Mortal  = {}
    Script  <- RestartScript
SPECIFICATION LiveSpecRestart
CHECK_DEADLOCK FALSE
INVARIANT MessagesBut
INVARIANT FreshnessButForgot
INVARIANT HeldButForRestarts
INVARIANT RestartsTolerated
ACTION_CONSTRAINT OldFirst
PROPERTY ReturnsWithMajority
