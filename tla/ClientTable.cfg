SPECIFICATION FairSpec
CONSTANTS
    MAXFDS = 3
    Clients = {"c1", "c2", "c3"}
INVARIANT
    Bookkeeping
PROPERTIES
    ClientKept
    BacklogServed
