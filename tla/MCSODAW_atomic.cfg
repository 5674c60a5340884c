CONSTANTS
    Names   <- MCNames
    Client0 = "client_0"
    StrCmp  <- ByteDifference
    s1 = s1
    s2 = s2
    s3 = s3
    Servers = {s1, s2, s3}
    Clients <- WriterAndReader
    Mortal  = {}
    Script  <- ReadsScript
SPECIFICATION Spec
CHECK_DEADLOCK FALSE
SYMMETRY Symmetry
ACTION_CONSTRAINT Narrowed
PROPERTY ImplementsRegister
