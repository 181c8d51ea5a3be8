SPECIFICATION FairCatalogSpec
CONSTANTS
    Listings = {l1, l2}
    MaxMinted = 4
INVARIANTS CloseJoinsRefresh
PROPERTIES RefreshesAreSafe ListingsEnd
CHECK_DEADLOCK FALSE
