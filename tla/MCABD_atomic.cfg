CONSTANTS
    Names   <- MCNames
    Client0 = "client_0"
    StrCmp  <- SignOnly
    Servers = {s1, s2, s3}
    s1 = s1
    s2 = s2
    s3 = s3
    Clients <- TwoWriters
    Mortal  = {}
    Script  <- MixedScript
SPECIFICATION Spec
SYMMETRY Symmetry
CHECK_DEADLOCK FALSE
INVARIANT CountsServers
INVARIANT TagDeterminesValue
INVARIANT Atomicity
INVARIANT TypeOK
INVARIANT Messages
INVARIANT Freshness
INVARIANT Tagged
INVARIANT Durable
ACTION_CONSTRAINT OldFirst
