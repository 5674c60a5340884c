CONSTANTS
    Clients <- MCClients
    Script  <- MCScript
    InitVal <- MCInitVal
SPECIFICATION Spec
INVARIANT Linearizable
 
 
CHECK_DEADLOCK FALSE
