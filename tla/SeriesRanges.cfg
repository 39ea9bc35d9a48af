SPECIFICATION Spec
CONSTANTS
    Starts = {6, 7, 8}
    Lookbacks = {2, 3, 5, 8, 11}
    Steps = {2, 3, 4}
    SliceBase = 6
INVARIANTS
    SlicesCoverWindow
    RangesAreRuns
    GapsAreReal
    CacheHidesOnePoint
