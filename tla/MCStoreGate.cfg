SPECIFICATION FairSpec
CONSTANTS
    Clients = {c1}
    Nobody = Nobody
    MaxGen = 2
    MaxFaults = 0
PROPERTIES
    GateComesFree
