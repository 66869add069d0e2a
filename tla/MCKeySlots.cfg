SPECIFICATION Spec
CONSTANTS
    a1 = a1
    a2 = a2
    b1 = b1
    b2 = b2
    old = old
    new = new
    Slots <- MCSlots
    Passwords = {old, new}
    PwOf <- MCPwOf
    NoSlot = NoSlot
    MaxFaults = 3
INVARIANTS
    NeverLockedOut
    RevokedNeverUnlocks
    CleanReplyMatches
