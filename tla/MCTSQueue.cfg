CONSTANTS
    p1 = p1
    p2 = p2
    t1 = t1
    t2 = t2
    NoItem = NoItem
    Uninit = Uninit
    Putters <- MCPutters
    Takers <- MCTakers
    Cap <- MCCap
SPECIFICATION Spec
INVARIANT TypeOK
INVARIANT RingInv
INVARIANT NoLostWakeup
PROPERTY QueueRefinement
