\* One loader, opened and deleted again and again, while the database closes.
SPECIFICATION FairSpec
CONSTANTS
    l1 = l1  l2 = l2  t1 = t1  t2 = t2
    Loaders = {l1}
    Threads = {t1}
    Owner <- OneLoader
    Stopper = Stopper
    Nobody = Nobody
PROPERTIES CallsReturn StopReturns
