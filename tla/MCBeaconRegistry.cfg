CONSTANTS
    Names = {A, B}
    NoName = NoName
    Width = 65536
    Args <- MCArgs
    HeapBlocks = 4
SPECIFICATION Spec
INVARIANTS TypeOK LinksAgree HeapAccounted NewestIsCurrent
PROPERTY ImplementsQueues
CHECK_DEADLOCK FALSE
