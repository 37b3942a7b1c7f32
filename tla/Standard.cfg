CONSTANTS
    Buyer = Buyer
    Seller = Seller
    Nobody = Nobody
    None = None
    RunListings <- MCListings
    Templates <- MCTemplates
    RunJob = "job"
    RunRequest = "request"
    OtherRequest = "other"
    RunHorizon = 3
    ListingSpecs <- MCSpecs
    ShelfHorizon = 3
    MaxPublishes = 2
    Orders = {"w", "s", "x"}
    OrderMode <- MCModes
    ListingPrice = 5
    Amounts = {4, 5}
    MaxTransfers = 2
    MaxRestarts = 1
    Sellers <- MCSellers
    Judged = {"dd"}
    ORACLE_ATTEMPTS = 3
    BasketScripts = {"l1", "l2", "l3", "l4"}
    Calls = {"a", "b", "c", "d"}
    Kind <- MCKind
    Entries <- MCEntries
    Programs = {"o", "p", "q", "r"}
    maxBroadcasts = 2
    MaxChainFaults = 2
    MaxWrites = 2
    MaxPayments = 1
SPECIFICATION MCSpec
INVARIANTS
  
  RecordsAreComplete
  
  
PROPERTIES
  
  EverythingEnds
CHECK_DEADLOCK FALSE
