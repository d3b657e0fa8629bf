\* Three events, each counting up to three.
SPECIFICATION Spec
CONSTANTS
    N = 3
    MaxCount = 3
INVARIANTS
    CountTogether
    StopTogether
