SPECIFICATION Spec
CONSTANTS
    Clients = {c1}
    Nobody = Nobody
    MaxGen = 2
    MaxFaults = 0
INVARIANTS
    WriterIsFull
