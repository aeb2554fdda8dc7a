CONSTANTS
    Capacity = 2
    Producers = {p1}
    Consumers = {c1}
    NoItem = NoItem
    Observers = {o1}
    SizeWidth = 16
    MaxEnq = 1
SPECIFICATION SizeSpec
INVARIANT SizeWithinCapacity
