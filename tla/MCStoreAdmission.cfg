SPECIFICATION Spec
CONSTANTS
    Clients = {c1, c2}
    Nobody = Nobody
    MaxGen = 2
    MaxFaults = 1
SYMMETRY Symmetry
INVARIANTS
    DamageSticks
    QuietReplacement
    SourceUntouched
PROPERTIES
    ReplacementStands
