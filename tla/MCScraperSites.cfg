CONSTANTS
  Sites = {"zoom", "letsride", "keigwin", "ptt"}
  NumListings = 2
  MaxRefresh = 1
  MaxUp = 2
  MaxHits = 1
  Page <- MCPage
  Listings <- MCListings
  Place <- MCPlace
SPECIFICATION Spec
CHECK_DEADLOCK FALSE
INVARIANTS OneEntryPerSite OwnRows
PROPERTY FoundStays
