CONSTANTS
    Names   <- MCNames
    Client0 = "client_0"
    StrCmp  <- SignOnly
    Servers = {s1, s2, s3}
    s1 = s1
    s2 = s2
    s3 = s3
    Clients <- AllThree
    Mortal  = {}
    Script  <- ReadersScript
SPECIFICATION Spec
SYMMETRY Symmetry
CHECK_DEADLOCK FALSE
INVARIANT Atomicity
ACTION_CONSTRAINT InStages
