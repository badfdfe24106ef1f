CONSTANTS
    Names = {A, B, C}
    Rows = 2
    MaxListed = 3
SPECIFICATION Spec
INVARIANT UsedAreListed
