SPECIFICATION Spec
CONSTANTS
    Clients <- MCClients
    Workloads <- MCWorkloads
    Capacity = 3
    MaxHeight = 3
    MaxJump = 2
INVARIANTS
    
    SendsDoNotCollide
    

    
CHECK_DEADLOCK FALSE
