\* Three requests, two of which fit; indices that wrap after eight requests.
SPECIFICATION Spec
SYMMETRY Symmetry
CONSTANTS
    queue_size = 8
    WRAP = 8
    Requests = {r1, r2, r3}
    Sectors = {s1, s2}
    Values = {v1, v2}
    None = None
INVARIANTS
    QueueConsistent
    DiskSeesWholeRequests
    SpinSeesAnswer
PROPERTIES
    ImplementsDisk
