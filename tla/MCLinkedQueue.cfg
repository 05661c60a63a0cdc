\* Three pushers, four nodes that are pushed again once they are popped; fair scheduling.
CONSTANTS
    Pushers = {t1, t2, t3}
    Nodes = {n1, n2, n3, n4}
    dummy = dummy
    Null = Null
    MaxPush = 5
SPECIFICATION FairSpec
INVARIANTS Fifo Untouched QueueInv
PROPERTIES Delivered
