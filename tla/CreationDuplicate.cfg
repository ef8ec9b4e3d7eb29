SPECIFICATION Spec
CONSTANTS
    Calls = {1, 2, 3}
    Keys = {1, 2, 3, 4}
    Seats = {1, 2}
    Bodies <- NoBodies
    ClientKey = 4
    MaxFaults = 2
INVARIANTS
    SameScopeOnce
