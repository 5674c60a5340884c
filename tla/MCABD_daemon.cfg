CONSTANTS
    Names   <- MCNames
    Client0 = "client_0"
    StrCmp  <- SignOnly
    Servers = {s1, s2, s3}
    s1 = s1
    s2 = s2
    s3 = s3
    Clients <- WriterAndReader
    Mortal  <- OnlyTheWriter
    Script  <- DaemonScript
SPECIFICATION Spec
SYMMETRY Symmetry
CHECK_DEADLOCK FALSE
INVARIANT Regular
PROPERTY ImplementsRegister
ACTION_CONSTRAINT AfterInitialWrite
ACTION_CONSTRAINT OldFirst
