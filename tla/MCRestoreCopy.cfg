SPECIFICATION FairSpec
CONSTANTS
    Threads = {t1, t2, t3}
    TotalPages = 5
    ChunkPages = 2
    Zero = Zero
    Data = {Zero, A}
INVARIANTS CopiesDisjoint DirtyCountExact
PROPERTIES ImplementsGuestMemory
