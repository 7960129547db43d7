SPECIFICATION Spec
CONSTANTS
    Workers = {w1, w2, w3}
    Tasks = {0, 1, 2, 3}
    NoTask = NoTask
    Modes = {Bilinear, Lanczos3}
    Blank = Blank
    ChunkSize = 2
    MaxRows = 6
INVARIANTS
    JobsOutliveTasks
PROPERTIES
    FiltersTheRegion
    PoolShutsDown
