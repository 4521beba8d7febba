\* Two loaders, each with a thread of its own, the manager's thread and the
\* thread that closes the database.
SPECIFICATION Spec
CONSTANTS
    l1 = l1  l2 = l2  t1 = t1  t2 = t2
    Loaders = {l1, l2}
    Threads = {t1, t2}
    Owner <- OneOwner
    Stopper = Stopper
    Nobody = Nobody
SYMMETRY SwapPairs
INVARIANTS TypeOK StreamOutlivesReader LoaderOutlivesService NoLeftover
    BeingRemovedIsExact
