SPECIFICATION Spec
CONSTANTS
    Threads = {t1, t2, t3, t4}
    Names = {n1, n2}
    Locks = {l1, l2, l3, l4}
    Nil = Nil
INVARIANTS RefCountExact ReleasesItsOwnLock
PROPERTY ImplementsPodMutex
