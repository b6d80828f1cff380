SPECIFICATION FairSpec
CONSTANTS
    Addresses = {a1}
    Adders = {t1, t2}
    Holders = {h1}
    Untranslated = {2}
    Capacity = 1
    MaxClients = 2
    MaxConns <- MCMaxConns
    MaxEvents = 3
INVARIANTS
    ShutWhenUnowned
    EventsOnceInOrder
 
