CONSTANTS
    Capacity = 2
    Producers = {p1, p2}
    Consumers = {c1, c2}
    NoItem = NoItem
    Observers = {}
    SizeWidth = 16
    MaxEnq = 2
SPECIFICATION Spec
INVARIANT TypeOK
INVARIANT DequeueIsExactlyOnceFifo
INVARIANT ExclusiveSlotAccess
PROPERTY EveryEnqueuedIsDequeued
PROPERTY RefinesBoundedFifo
