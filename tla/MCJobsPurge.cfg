\* Old dates are 1 and 2.  A page has two jobs and a chunk one, and one job of
\* each type and state is kept, so three jobs make several pages and chunks.
\* The request ends, and then nothing may be left to do.
SPECIFICATION Spec
CONSTANTS
    Id = {1, 2, 3}
    Date = {1, 2, 3}
    Kind = {"w", "x"}
    PageSize = 2
    MaxKept = 1
    ChunkSize = 1
    Before = 3
    Workers = {"w"}
INVARIANTS ListComplete PurgeExact
CHECK_DEADLOCK FALSE
